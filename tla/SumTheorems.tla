------------------------------ MODULE SumTheorems ------------------------------
(***************************************************************************)
(* Facts about sums over finite sets, for the proofs about budgets and     *)
(* balances.  MapThenSumSet adds the elements up along a recursive         *)
(* function on the subsets; what its value is on every finite set is shown *)
(* by minimal counterexamples, set inclusion being well-founded.           *)
(***************************************************************************)
EXTENDS Integers, Functions, FiniteSetTheorems, WellFoundedInduction, TLAPS

(* The sum of f over S. *)
SumOver(f, S) == FoldFunctionOnSet(+, 0, f, S)

Chosen(s) == CHOOSE x \in s : TRUE

(* g adds f up over every subset of S. *)
AddsUp(f, S, g) ==
    g = [s \in SUBSET S |->
            IF s = {} THEN 0 ELSE f[Chosen(s)] + g[s \ {Chosen(s)}]]

-----------------------------------------------------------------------------
(* A non-empty set of subsets of a finite set has a minimal element. *)
LEMMA MinimalSubset ==
    ASSUME NEW S, IsFiniteSet(S), NEW T \in SUBSET (SUBSET S), T # {}
    PROVE  \E t \in T : \A u \in T : ~ (u \subseteq t /\ u # t)
<1> DEFINE R == {ss \in (SUBSET S) \X (SUBSET S) : ss[1] \subseteq ss[2] /\ ss[1] # ss[2]}
<1>1. IsWellFoundedOn(R, SUBSET S)
  <2>1. IsWellFoundedOn(StrictSubsetOrdering(S), FiniteSubsetsOf(S))
    BY FS_StrictSubsetOrderingWellFounded
  <2>2. FiniteSubsetsOf(S) = SUBSET S
    BY FS_FiniteSubsetsOfFinite
  <2>3. StrictSubsetOrdering(S) = R
    BY DEF StrictSubsetOrdering
  <2> QED
    BY <2>1, <2>2, <2>3
<1>2. PICK t \in T : \A u \in T : ~ (<<u, t>> \in R)
  <2> HIDE DEF R
  <2> QED
    BY <1>1, WFMin
<1>3. \A u \in T : u \subseteq t /\ u # t => <<u, t>> \in R
  OBVIOUS
<1> QED
  BY <1>2, <1>3

LEMMA ChosenIn == ASSUME NEW s, s # {} PROVE Chosen(s) \in s
BY DEF Chosen

(* Two functions that add f up agree where both are defined. *)
LEMMA AddsUpAgree ==
    ASSUME NEW f, NEW t, NEW g, AddsUp(f, t, g),
           NEW h, NEW u, NEW k, AddsUp(h, u, k),
           NEW s, s \in SUBSET t, s \in SUBSET u, IsFiniteSet(s),
           \A x \in s : f[x] = h[x]
    PROVE  g[s] = k[s]
<1> DEFINE T == {v \in SUBSET s : g[v] # k[v]}
<1>1. SUFFICES ASSUME T # {} PROVE FALSE
  OBVIOUS
<1>2. PICK v \in T : \A w \in T : ~ (w \subseteq v /\ w # v)
  <2>1. T \in SUBSET (SUBSET s)
    OBVIOUS
  <2> HIDE DEF T
  <2> QED
    BY <1>1, <2>1, MinimalSubset
<1>3. g[v] = IF v = {} THEN 0 ELSE f[Chosen(v)] + g[v \ {Chosen(v)}]
  <2>1. v \in SUBSET t
    OBVIOUS
  <2> QED
    BY <2>1 DEF AddsUp
<1>4. k[v] = IF v = {} THEN 0 ELSE h[Chosen(v)] + k[v \ {Chosen(v)}]
  <2>1. v \in SUBSET u
    OBVIOUS
  <2> QED
    BY <2>1 DEF AddsUp
<1>5. v # {} /\ Chosen(v) \in v
  BY <1>3, <1>4, ChosenIn
<1>6. f[Chosen(v)] = h[Chosen(v)]
  BY <1>5
<1>7. g[v \ {Chosen(v)}] = k[v \ {Chosen(v)}]
  BY <1>2, <1>5
<1> QED
  BY <1>3, <1>4, <1>5, <1>6, <1>7

(* The recursion has a solution on every finite set. *)
LEMMA AddsUpExists ==
    ASSUME NEW S, IsFiniteSet(S), NEW f
    PROVE  \E g : AddsUp(f, S, g)
<1> DEFINE T == {t \in SUBSET S : ~ \E g : AddsUp(f, t, g)}
<1>1. SUFFICES ASSUME T # {} PROVE FALSE
  OBVIOUS
<1>2. PICK t \in T : \A u \in T : ~ (u \subseteq t /\ u # t)
  <2>1. T \in SUBSET (SUBSET S)
    OBVIOUS
  <2> HIDE DEF T
  <2> QED
    BY <1>1, <2>1, MinimalSubset
<1> DEFINE att(u) == CHOOSE g : AddsUp(f, u, g)
           c == Chosen(t)
           val(s) == IF s = t THEN (IF t = {} THEN 0 ELSE f[c] + att(t \ {c})[t \ {c}])
                     ELSE att(s)[s]
           h == [s \in SUBSET t |-> val(s)]
<1>3. \A u \in SUBSET t : u # t => AddsUp(f, u, att(u))
  <2>1. SUFFICES ASSUME NEW u \in SUBSET t, u # t PROVE AddsUp(f, u, att(u))
    OBVIOUS
  <2>2. \E g : AddsUp(f, u, g)
    BY <1>2, <2>1
  <2> QED
    BY <2>2
<1> HIDE DEF T, att
<1>4. t \in SUBSET S
  BY DEF T
<1>5. \A s \in SUBSET t : val(s) = IF s = {} THEN 0 ELSE f[Chosen(s)] + val(s \ {Chosen(s)})
  <2> SUFFICES ASSUME NEW s \in SUBSET t
               PROVE  val(s) = IF s = {} THEN 0 ELSE f[Chosen(s)] + val(s \ {Chosen(s)})
    OBVIOUS
  <2>1. CASE s = {}
    <3>1. CASE t = {}
      BY <2>1, <3>1
    <3>2. CASE t # {}
      <4>1. AddsUp(f, s, att(s))
        BY <1>3, <2>1, <3>2
      <4>2. att(s)[s] = 0
        BY <4>1, <2>1 DEF AddsUp
      <4> QED
        BY <2>1, <3>2, <4>2
    <3> QED
      BY <3>1, <3>2
  <2>2. CASE s = t /\ s # {}
    <3>1. c \in t /\ t \ {c} # t
      BY <2>2, ChosenIn
    <3> HIDE DEF c
    <3>2. val(t \ {c}) = att(t \ {c})[t \ {c}]
      BY <3>1
    <3> QED
      BY <2>2, <3>1, <3>2 DEF c
  <2>3. CASE s # t /\ s # {}
    <3> DEFINE d == Chosen(s)
    <3>1. d \in s /\ s \ {d} \in SUBSET t /\ s \ {d} # t
      BY <2>3, ChosenIn
    <3>2. AddsUp(f, s, att(s)) /\ AddsUp(f, s \ {d}, att(s \ {d}))
      BY <1>3, <2>3, <3>1
    <3>3. att(s)[s] = f[d] + att(s)[s \ {d}]
      BY <3>2, <2>3 DEF AddsUp
    <3>4. att(s)[s \ {d}] = att(s \ {d})[s \ {d}]
      <4>1. IsFiniteSet(s \ {d})
        BY <1>4, FS_Subset
      <4> DEFINE e == s \ {d}
                 g == att(s)
                 k == att(s \ {d})
      <4>3. AddsUp(f, s, g) /\ AddsUp(f, e, k)
        BY <3>2
      <4>4. IsFiniteSet(e) /\ e \in SUBSET s /\ e \in SUBSET e
        BY <4>1
      <4> HIDE DEF d, e, g, k
      <4>5. \A x \in e : f[x] = f[x]
        OBVIOUS
      <4>6. g[e] = k[e]
        BY <4>3, <4>4, <4>5, AddsUpAgree
      <4> QED
        BY <4>6 DEF e, g, k
    <3> HIDE DEF d
    <3>5. val(s) = att(s)[s] /\ val(s \ {d}) = att(s \ {d})[s \ {d}]
      BY <2>3, <3>1
    <3> QED
      BY <2>3, <3>3, <3>4, <3>5 DEF d
  <2> QED
    BY <2>1, <2>2, <2>3
<1>6. \A s \in SUBSET t : h[s] = val(s)
  OBVIOUS
<1>7. \A s \in SUBSET t : s # {} => s \ {Chosen(s)} \in SUBSET t
  OBVIOUS
<1> HIDE DEF val
<1>8. \A s \in SUBSET t : h[s] = IF s = {} THEN 0 ELSE f[Chosen(s)] + h[s \ {Chosen(s)}]
  <2> HIDE DEF h
  <2> QED
    BY <1>5, <1>6, <1>7
<1>9. AddsUp(f, t, h)
  <2>1. h = [s \in SUBSET t |-> h[s]]
    OBVIOUS
  <2>2. h = [s \in SUBSET t |-> IF s = {} THEN 0 ELSE f[Chosen(s)] + h[s \ {Chosen(s)}]]
    <3> HIDE DEF h
    <3> QED
      BY <1>8, <2>1
  <2> HIDE DEF h
  <2> QED
    BY <2>2 DEF AddsUp
<1> QED
  BY <1>9 DEF T

-----------------------------------------------------------------------------
(* What the sum is, whichever function adds it up. *)
LEMMA SumIs ==
    ASSUME NEW S, IsFiniteSet(S), NEW f
    PROVE  \E g : AddsUp(f, S, g) /\ SumOver(f, S) = g[S]
<1>1. PICK g : AddsUp(f, S, g)
  BY AddsUpExists
<1> DEFINE iter == CHOOSE g_ : g_ = [s \in SUBSET S |->
                       IF s = {} THEN 0 ELSE f[Chosen(s)] + g_[s \ {Chosen(s)}]]
<1>2. AddsUp(f, S, iter)
  BY <1>1 DEF AddsUp
<1>3. SumOver(f, S) = iter[S]
  BY DEF SumOver, FoldFunctionOnSet, MapThenFoldSet, Chosen
<1> QED
  BY <1>2, <1>3

THEOREM SumEmpty == ASSUME NEW f PROVE SumOver(f, {}) = 0
<1>1. IsFiniteSet({})
  BY FS_EmptySet
<1>2. PICK g : AddsUp(f, {}, g) /\ SumOver(f, {}) = g[{}]
  BY <1>1, SumIs
<1> QED
  BY <1>2 DEF AddsUp

(* A sum depends on the values at the elements only. *)
THEOREM SumSame ==
    ASSUME NEW S, IsFiniteSet(S), NEW f, NEW h, \A x \in S : f[x] = h[x]
    PROVE  SumOver(f, S) = SumOver(h, S)
<1>1. PICK g : AddsUp(f, S, g) /\ SumOver(f, S) = g[S]
  BY SumIs
<1>2. PICK k : AddsUp(h, S, k) /\ SumOver(h, S) = k[S]
  BY SumIs
<1>3. S \in SUBSET S
  OBVIOUS
<1>4. g[S] = k[S]
  BY <1>1, <1>2, <1>3, AddsUpAgree
<1> QED
  BY <1>1, <1>2, <1>4

(* The equation the sum is defined by ... *)
LEMMA SumChosen ==
    ASSUME NEW S, IsFiniteSet(S), NEW f, S # {}
    PROVE  SumOver(f, S) = f[Chosen(S)] + SumOver(f, S \ {Chosen(S)})
<1> DEFINE e == S \ {Chosen(S)}
<1>1. e \in SUBSET S /\ e \in SUBSET e /\ S \in SUBSET S /\ IsFiniteSet(e)
  BY FS_Subset
<1>2. PICK g : AddsUp(f, S, g) /\ SumOver(f, S) = g[S]
  BY SumIs
<1>3. PICK k : AddsUp(f, e, k) /\ SumOver(f, e) = k[e]
  <2> HIDE DEF e
  <2> QED
    BY <1>1, SumIs
<1>4. g[S] = f[Chosen(S)] + g[e]
  BY <1>2 DEF AddsUp
<1> HIDE DEF e
<1>5. \A x \in e : f[x] = f[x]
  OBVIOUS
<1>6. g[e] = k[e]
  BY <1>1, <1>2, <1>3, <1>5, AddsUpAgree
<1> QED
  BY <1>2, <1>3, <1>4, <1>6 DEF e

(* ... a sum of integers is one ... *)
THEOREM SumInteger ==
    ASSUME NEW S, IsFiniteSet(S), NEW f, \A x \in S : f[x] \in Int
    PROVE  SumOver(f, S) \in Int
<1> DEFINE T == {t \in SUBSET S : SumOver(f, t) \notin Int}
<1>1. SUFFICES ASSUME T # {} PROVE FALSE
  OBVIOUS
<1>2. PICK t \in T : \A u \in T : ~ (u \subseteq t /\ u # t)
  <2>1. T \in SUBSET (SUBSET S)
    OBVIOUS
  <2> HIDE DEF T
  <2> QED
    BY <1>1, <2>1, MinimalSubset
<1>3. t # {}
  BY SumEmpty
<1> DEFINE c == Chosen(t)
<1>4. c \in t /\ t \in SUBSET S /\ IsFiniteSet(t)
  BY <1>3, ChosenIn, FS_Subset
<1>5. SumOver(f, t) = f[c] + SumOver(f, t \ {c})
  BY <1>3, <1>4, SumChosen
<1> HIDE DEF c
<1>6. SumOver(f, t \ {c}) \in Int
  BY <1>2, <1>4
<1> QED
  BY <1>4, <1>5, <1>6

(* ... and any element may be the one that is added last. *)
THEOREM SumRemove ==
    ASSUME NEW S, IsFiniteSet(S), NEW f, \A x \in S : f[x] \in Int, NEW a \in S
    PROVE  SumOver(f, S) = f[a] + SumOver(f, S \ {a})
<1> DEFINE Off(t) == \E x \in t : SumOver(f, t) # f[x] + SumOver(f, t \ {x})
           T == {t \in SUBSET S : Off(t)}
<1>1. SUFFICES ASSUME T # {} PROVE FALSE
  OBVIOUS
<1>2. PICK t \in T : \A u \in T : ~ (u \subseteq t /\ u # t)
  <2>1. T \in SUBSET (SUBSET S)
    OBVIOUS
  <2> HIDE DEF T
  <2> QED
    BY <1>1, <2>1, MinimalSubset
<1>3. t \in SUBSET S
  OBVIOUS
<1>4. PICK x \in t : SumOver(f, t) # f[x] + SumOver(f, t \ {x})
  OBVIOUS
<1>5. \A u \in SUBSET t : u # t =>
          \A y \in u : SumOver(f, u) = f[y] + SumOver(f, u \ {y})
  BY <1>2, <1>3
<1> HIDE DEF T, Off
<1> DEFINE c == Chosen(t)
<1>6. c \in t
  BY <1>4, ChosenIn
<1>7. \A u \in SUBSET t : IsFiniteSet(u) /\ SumOver(f, u) \in Int
  <2>1. SUFFICES ASSUME NEW u \in SUBSET t PROVE IsFiniteSet(u) /\ SumOver(f, u) \in Int
    OBVIOUS
  <2>2. u \in SUBSET S /\ \A y \in u : f[y] \in Int
    BY <1>3
  <2>3. IsFiniteSet(u)
    BY <2>2, FS_Subset
  <2> QED
    BY <2>2, <2>3, SumInteger
<1>8. SumOver(f, t) = f[c] + SumOver(f, t \ {c})
  <2>1. IsFiniteSet(t)
    BY <1>7
  <2> QED
    BY <1>4, <2>1, SumChosen
<1> HIDE DEF c
<1>9. c # x
  BY <1>4, <1>8
<1>10. SumOver(f, t \ {c}) = f[x] + SumOver(f, (t \ {c}) \ {x})
  BY <1>4, <1>5, <1>6, <1>9
<1>11. SumOver(f, t \ {x}) = f[c] + SumOver(f, (t \ {x}) \ {c})
  BY <1>4, <1>5, <1>6, <1>9
<1>12. (t \ {x}) \ {c} = (t \ {c}) \ {x}
  OBVIOUS
<1> DEFINE rest == SumOver(f, (t \ {c}) \ {x})
<1>13. f[x] \in Int /\ f[c] \in Int /\ rest \in Int
  BY <1>3, <1>6, <1>7
<1>14. SumOver(f, t \ {x}) = f[c] + rest /\ SumOver(f, t \ {c}) = f[x] + rest
  BY <1>10, <1>11, <1>12
<1> HIDE DEF rest
<1> QED
  BY <1>4, <1>8, <1>13, <1>14

THEOREM SumNatural ==
    ASSUME NEW S, IsFiniteSet(S), NEW f, \A x \in S : f[x] \in Nat
    PROVE  SumOver(f, S) \in Nat
<1> DEFINE T == {t \in SUBSET S : SumOver(f, t) \notin Nat}
<1>1. SUFFICES ASSUME T # {} PROVE FALSE
  OBVIOUS
<1>2. PICK t \in T : \A u \in T : ~ (u \subseteq t /\ u # t)
  <2>1. T \in SUBSET (SUBSET S)
    OBVIOUS
  <2> HIDE DEF T
  <2> QED
    BY <1>1, <2>1, MinimalSubset
<1>3. t # {}
  BY SumEmpty
<1> DEFINE c == Chosen(t)
<1>4. c \in t /\ t \in SUBSET S /\ IsFiniteSet(t)
  BY <1>3, ChosenIn, FS_Subset
<1>5. SumOver(f, t) = f[c] + SumOver(f, t \ {c})
  BY <1>3, <1>4, SumChosen
<1> HIDE DEF c
<1>6. SumOver(f, t \ {c}) \in Nat
  BY <1>2, <1>4
<1> QED
  BY <1>4, <1>5, <1>6

(* When one value changes, the sum changes by as much. *)
THEOREM SumUpdate ==
    ASSUME NEW S, IsFiniteSet(S), NEW f, NEW h, NEW a \in S,
           \A x \in S : f[x] \in Int /\ h[x] \in Int,
           \A x \in S \ {a} : h[x] = f[x]
    PROVE  SumOver(h, S) = SumOver(f, S) - f[a] + h[a]
<1>1. IsFiniteSet(S \ {a})
  BY FS_Subset
<1>2. SumOver(f, S \ {a}) = SumOver(h, S \ {a})
  <2> DEFINE r == S \ {a}
  <2>1. \A x \in r : f[x] = h[x]
    OBVIOUS
  <2> HIDE DEF r
  <2>2. IsFiniteSet(r) => SumOver(f, r) = SumOver(h, r)
    BY <2>1, SumSame
  <2> QED
    BY <1>1, <2>2 DEF r
<1>3. /\ SumOver(f, S) = f[a] + SumOver(f, S \ {a})
      /\ SumOver(h, S) = h[a] + SumOver(h, S \ {a})
  BY SumRemove
<1>4. SumOver(f, S) \in Int /\ SumOver(f, S \ {a}) \in Int
  BY <1>1, SumInteger
<1> QED
  BY <1>2, <1>3, <1>4

(* A sum of values that are all 0 is 0. *)
THEOREM SumZero ==
    ASSUME NEW S, IsFiniteSet(S), NEW f, \A x \in S : f[x] = 0
    PROVE  SumOver(f, S) = 0
<1> DEFINE T == {t \in SUBSET S : SumOver(f, t) # 0}
<1>1. SUFFICES ASSUME T # {} PROVE FALSE
  OBVIOUS
<1>2. PICK t \in T : \A u \in T : ~ (u \subseteq t /\ u # t)
  <2>1. T \in SUBSET (SUBSET S)
    OBVIOUS
  <2> HIDE DEF T
  <2> QED
    BY <1>1, <2>1, MinimalSubset
<1>3. t # {}
  BY SumEmpty
<1> DEFINE c == Chosen(t)
<1>4. c \in t /\ t \in SUBSET S /\ IsFiniteSet(t)
  BY <1>3, ChosenIn, FS_Subset
<1>5. SumOver(f, t) = f[c] + SumOver(f, t \ {c})
  BY <1>3, <1>4, SumChosen
<1> HIDE DEF c
<1>6. SumOver(f, t \ {c}) = 0
  BY <1>2, <1>4
<1> QED
  BY <1>4, <1>5, <1>6

=============================================================================
