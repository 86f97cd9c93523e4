------------------------- MODULE VerifiedMemoryProofs -------------------------
(***************************************************************************)
(* Proofs about certified memory, for any number of consoles, contents,    *)
(* memories and consolidation proposals.                                   *)
(***************************************************************************)
EXTENDS VerifiedMemory, FiniteSetTheorems, WellFoundedInduction, TLAPS

(* What a promotion supersedes was promoted, and the version the promotion *)
(* took is beyond the version it supersedes.                               *)
PromotionsAdvance ==
    \A s \in Console : console[s].target # NoMemory =>
        /\ console[s].target \in Promoted
        /\ console[s].pc = "write" =>
               memory[console[s].target].version < console[s].version

MemoryInv ==
    MemoryTypeOK /\ LeavesForceOnce /\ SupersessionAdvances /\ PromotionsAdvance

-----------------------------------------------------------------------------
(* A finite set of naturals has a greatest element. *)
LEMMA GreatestExists ==
    ASSUME NEW S \in SUBSET Nat, IsFiniteSet(S), S # {}
    PROVE  \E x \in S : \A y \in S : x >= y
<1> DEFINE Bounded(t) == \E x \in t : \A y \in t : x >= y
           T == {t \in SUBSET S : t # {} /\ ~ Bounded(t)}
           R == {ss \in (SUBSET S) \X (SUBSET S) : ss[1] \subseteq ss[2] /\ ss[1] # ss[2]}
<1>1. IsWellFoundedOn(R, SUBSET S)
  <2>1. IsWellFoundedOn(StrictSubsetOrdering(S), FiniteSubsetsOf(S))
    BY FS_StrictSubsetOrderingWellFounded
  <2>2. FiniteSubsetsOf(S) = SUBSET S
    BY FS_FiniteSubsetsOfFinite
  <2>3. StrictSubsetOrdering(S) = R
    BY DEF StrictSubsetOrdering
  <2> QED
    BY <2>1, <2>2, <2>3
<1>2. SUFFICES ASSUME T # {} PROVE FALSE
  OBVIOUS
<1>3. PICK t \in T : \A u \in T : ~ (<<u, t>> \in R)
  <2>1. T \subseteq SUBSET S
    OBVIOUS
  <2> HIDE DEF R, T
  <2> QED
    BY <1>1, <1>2, <2>1, WFMin
<1>4. PICK x \in t : TRUE
  OBVIOUS
<1>5. t \ {x} \notin T
  <2>1. <<t \ {x}, t>> \in R <=> t \ {x} \subseteq t /\ t \ {x} # t
    OBVIOUS
  <2> QED
    BY <1>3, <1>4, <2>1
<1>6. x \in Nat /\ t \subseteq Nat
  OBVIOUS
<1>7. CASE t \ {x} = {}
  <2>1. \A y \in t : y = x
    BY <1>7
  <2> QED
    BY <1>4, <1>6, <2>1
<1>8. CASE t \ {x} # {}
  <2>1. PICK z \in t \ {x} : \A y \in t \ {x} : z >= y
    BY <1>5, <1>8
  <2>2. CASE z >= x
    BY <1>3, <2>1, <2>2
  <2>3. CASE ~ (z >= x)
    <3>1. \A y \in t : x >= y
      BY <1>6, <2>1, <2>3
    <3> QED
      BY <1>3, <1>4, <3>1
  <2> QED
    BY <2>2, <2>3
<1> QED
  BY <1>7, <1>8

(* The version a promotion takes is beyond every version there is. *)
LEMMA NextVersionIsNew ==
    ASSUME MemoryTypeOK
    PROVE  /\ NextVersion \in Nat
           /\ \A m \in Promoted : memory[m].version < NextVersion
<1> DEFINE V == {memory[m].version : m \in Promoted}
           f == [m \in Promoted |-> memory[m].version]
<1>1. \A m \in Memory : memory[m].version \in Nat
  BY DEF MemoryTypeOK, MemoryRow
<1>2. V \cup {0} \in SUBSET Nat
  BY <1>1 DEF Promoted
<1>3. IsFiniteSet(V)
  <2>1. Promoted \in SUBSET Memory
    BY DEF Promoted
  <2>2. IsFiniteSet(Promoted)
    BY <2>1, MemoryAssumption, FS_Subset
  <2>3. f \in Surjection(Promoted, V)
    BY DEF Surjection
  <2> QED
    BY <2>2, <2>3, FS_Surjection
<1>4. IsFiniteSet(V \cup {0})
  BY <1>3, FS_AddElement
<1>5. PICK x \in V \cup {0} : \A y \in V \cup {0} : x >= y
  BY <1>2, <1>4, GreatestExists
<1>6. /\ Max(V \cup {0}) \in V \cup {0}
      /\ \A y \in V \cup {0} : Max(V \cup {0}) >= y
  BY <1>5 DEF Max
<1>7. NextVersion = Max(V \cup {0}) + 1
  BY DEF NextVersion
<1>8. \A m \in Promoted : memory[m].version \in V
  OBVIOUS
<1> HIDE DEF V
<1> QED
  BY <1>2, <1>6, <1>7, <1>8

-----------------------------------------------------------------------------
LEMMA MemoryInitial == MemoryInit => MemoryInv
<1> SUFFICES ASSUME MemoryInit PROVE MemoryInv
  OBVIOUS
<1>1. NoRow \in MemoryRow /\ IdleConsole \in Promotion /\ NotProposed \in ProposalOf
  BY DEF NoRow, MemoryRow, IdleConsole, Promotion, NotProposed, ProposalOf
<1>2. MemoryTypeOK
  BY <1>1 DEF MemoryInit, MemoryTypeOK
<1>3. Promoted = {}
  BY DEF MemoryInit, Promoted, NoRow
<1> QED
  BY <1>2, <1>3 DEF MemoryInit, MemoryInv, LeavesForceOnce, SupersessionAdvances,
                    PromotionsAdvance, IdleConsole

(* Steps that leave the memories alone. *)
LEMMA MemoryKept ==
    ASSUME MemoryInv, memory' = memory, MemoryTypeOK', PromotionsAdvance'
    PROVE  MemoryInv'
<1>1. Promoted' = Promoted
  BY DEF Promoted
<1>2. LeavesForceOnce'
  BY <1>1 DEF MemoryInv, LeavesForceOnce
<1>3. SupersessionAdvances'
  BY <1>1 DEF MemoryInv, SupersessionAdvances
<1> QED
  BY <1>2, <1>3 DEF MemoryInv

LEMMA PromotingStep ==
    ASSUME MemoryInv, NEW s \in Console, NEW c \in Content,
           NEW t \in Promoted \cup {NoMemory}, Promoting(s, c, t)
    PROVE  MemoryInv'
<1> DEFINE row == [pc |-> "number", content |-> c, target |-> t, version |-> 0]
<1>1. row \in Promotion
  BY DEF Promotion, Promoted
<1>2. MemoryTypeOK'
  BY <1>1 DEF MemoryInv, MemoryTypeOK, Promoting
<1>3. /\ console'[s] = row
      /\ \A o \in Console \ {s} : console'[o] = console[o]
      /\ memory' = memory
  BY DEF MemoryInv, MemoryTypeOK, Promoting
<1>4. Promoted' = Promoted
  BY <1>3 DEF Promoted
<1>5. PromotionsAdvance'
  BY <1>3, <1>4 DEF MemoryInv, PromotionsAdvance
<1> QED
  BY <1>2, <1>3, <1>5, MemoryKept

LEMMA NumberStep ==
    ASSUME MemoryInv, NEW s \in Console, Number(s)
    PROVE  MemoryInv'
<1>1. NextVersion \in Nat /\ \A m \in Promoted : memory[m].version < NextVersion
  BY NextVersionIsNew DEF MemoryInv
<1> DEFINE row == [console[s] EXCEPT !.pc = "write", !.version = NextVersion]
<1>2. row \in Promotion /\ row.pc = "write" /\ row.version = NextVersion
        /\ row.target = console[s].target
  BY <1>1 DEF MemoryInv, MemoryTypeOK, Promotion
<1>3. console' = [console EXCEPT ![s] = row] /\ memory' = memory /\ consolidation' = consolidation
  BY DEF Number, MemoryInv, MemoryTypeOK
<1>4. MemoryTypeOK'
  BY <1>2, <1>3 DEF MemoryInv, MemoryTypeOK
<1>5. console'[s] = row /\ \A o \in Console \ {s} : console'[o] = console[o]
  BY <1>3 DEF MemoryInv, MemoryTypeOK
<1>6. Promoted' = Promoted
  BY <1>3 DEF Promoted
<1>7. PromotionsAdvance'
  <2> SUFFICES ASSUME NEW o \in Console, console'[o].target # NoMemory
               PROVE  /\ console'[o].target \in Promoted
                      /\ console'[o].pc = "write" =>
                             memory[console'[o].target].version < console'[o].version
    BY <1>3, <1>6 DEF PromotionsAdvance
  <2>1. CASE o = s
    BY <1>1, <1>2, <1>5, <2>1 DEF MemoryInv, PromotionsAdvance
  <2>2. CASE o # s
    BY <1>5, <2>2 DEF MemoryInv, PromotionsAdvance
  <2> QED
    BY <2>1, <2>2
<1> QED
  BY <1>3, <1>4, <1>7, MemoryKept

LEMMA GiveUpStep ==
    ASSUME MemoryInv, NEW s \in Console, GiveUp(s)
    PROVE  MemoryInv'
<1>1. IdleConsole \in Promotion /\ IdleConsole.target = NoMemory
  BY DEF IdleConsole, Promotion
<1>2. MemoryTypeOK'
  BY <1>1 DEF MemoryInv, MemoryTypeOK, GiveUp
<1>3. /\ console'[s] = IdleConsole
      /\ \A o \in Console \ {s} : console'[o] = console[o]
      /\ memory' = memory
  BY DEF MemoryInv, MemoryTypeOK, GiveUp
<1>4. PromotionsAdvance'
  BY <1>1, <1>3 DEF MemoryInv, PromotionsAdvance, Promoted
<1> QED
  BY <1>2, <1>3, <1>4, MemoryKept

(* The proposals alone change. *)
LEMMA ProposalsOnly ==
    ASSUME MemoryInv, UNCHANGED <<memory, console>>, MemoryTypeOK'
    PROVE  MemoryInv'
<1>1. PromotionsAdvance'
  BY DEF MemoryInv, PromotionsAdvance, Promoted
<1> QED
  BY <1>1, MemoryKept

LEMMA CheckMembersStep ==
    ASSUME MemoryInv, NEW k \in Consolidation, NEW canonical \in Memory,
           NEW members \in SUBSET InForce, CheckMembers(k, canonical, members)
    PROVE  MemoryInv'
<1>1. [status |-> "checked", canonical |-> canonical, members |-> members] \in ProposalOf
  BY DEF ProposalOf, InForce, Promoted
<1>2. MemoryTypeOK'
  BY <1>1 DEF MemoryInv, MemoryTypeOK, CheckMembers
<1> QED
  BY <1>2, ProposalsOnly DEF CheckMembers

LEMMA DecideStep ==
    ASSUME MemoryInv, NEW k \in Consolidation, NEW from,
           NEW to \in {"none", "checked", "proposed", "executing", "executed", "rejected"},
           Decide(k, from, to)
    PROVE  MemoryInv'
<1>1. [consolidation[k] EXCEPT !.status = to] \in ProposalOf
  BY DEF MemoryInv, MemoryTypeOK, ProposalOf
<1>2. MemoryTypeOK'
  BY <1>1 DEF MemoryInv, MemoryTypeOK, Decide
<1> QED
  BY <1>2, ProposalsOnly DEF Decide

-----------------------------------------------------------------------------
(* Steps that take memories out of force which nothing supersedes, and that *)
(* change nothing else of them.                                             *)
LEMMA LeavingForce ==
    ASSUME MemoryInv, MemoryTypeOK', console' = console,
           \A m \in Memory : /\ memory'[m].content = memory[m].content
                             /\ memory'[m].version = memory[m].version
                             /\ memory'[m].supersedes = memory[m].supersedes
                             /\ memory'[m].active => memory[m].active
                             /\ memory'[m].into # memory[m].into =>
                                    memory[m].active /\ ~ memory'[m].active
    PROVE  MemoryInv'
<1>1. Promoted' = Promoted
  BY DEF Promoted
<1>2. Promoted \subseteq Memory
  BY DEF Promoted
<1>3. LeavesForceOnce'
  <2> SUFFICES ASSUME NEW m \in Promoted
               PROVE  /\ \A n, o \in Promoted :
                            memory'[n].supersedes = m /\ memory'[o].supersedes = m => n = o
                      /\ (\E n \in Promoted : memory'[n].supersedes = m) =>
                            ~ memory'[m].active /\ memory'[m].into = NoMemory
                      /\ memory'[m].into # NoMemory => ~ memory'[m].active
    BY <1>1 DEF LeavesForceOnce
  <2>1. \A n, o \in Promoted : memory'[n].supersedes = m /\ memory'[o].supersedes = m => n = o
    BY <1>2 DEF MemoryInv, LeavesForceOnce
  <2>2. (\E n \in Promoted : memory'[n].supersedes = m) =>
            ~ memory'[m].active /\ memory'[m].into = NoMemory
    BY <1>2 DEF MemoryInv, LeavesForceOnce
  <2>3. memory'[m].into # NoMemory => ~ memory'[m].active
    BY <1>2 DEF MemoryInv, LeavesForceOnce
  <2> QED
    BY <2>1, <2>2, <2>3
<1>4. SupersessionAdvances'
  BY <1>1, <1>2 DEF MemoryInv, SupersessionAdvances
<1>5. PromotionsAdvance'
  BY <1>1, <1>2 DEF MemoryInv, PromotionsAdvance
<1> QED
  BY <1>3, <1>4, <1>5 DEF MemoryInv

LEMMA RetireStep ==
    ASSUME MemoryInv, NEW m \in Memory, Retire(m)
    PROVE  MemoryInv'
<1> DEFINE row == [memory[m] EXCEPT !.active = FALSE]
<1>1. /\ row \in MemoryRow /\ row.content = memory[m].content /\ row.version = memory[m].version
      /\ row.supersedes = memory[m].supersedes /\ row.into = memory[m].into /\ ~ row.active
  BY DEF MemoryInv, MemoryTypeOK, MemoryRow
<1>2. memory' = [memory EXCEPT ![m] = row] /\ UNCHANGED <<console, consolidation>>
  BY DEF Retire, MemoryInv, MemoryTypeOK
<1>3. MemoryTypeOK'
  BY <1>1, <1>2 DEF MemoryInv, MemoryTypeOK
<1>4. memory'[m] = row /\ \A n \in Memory \ {m} : memory'[n] = memory[n]
  BY <1>2 DEF MemoryInv, MemoryTypeOK
<1> HIDE DEF row
<1> QED
  BY <1>1, <1>2, <1>3, <1>4, LeavingForce

LEMMA ExecuteStep ==
    ASSUME MemoryInv, NEW k \in Consolidation, Execute(k)
    PROVE  MemoryInv'
<1> DEFINE into(m) == [memory[m] EXCEPT !.active = FALSE, !.into = consolidation[k].canonical]
<1>1. consolidation[k].canonical \in Memory \cup {NoMemory}
  BY DEF MemoryInv, MemoryTypeOK, ProposalOf
<1>2. \A m \in Memory :
          /\ into(m) \in MemoryRow /\ into(m).content = memory[m].content
          /\ into(m).version = memory[m].version
          /\ into(m).supersedes = memory[m].supersedes /\ ~ into(m).active
  <2> TAKE m \in Memory
  <2>1. memory[m] \in MemoryRow
    BY DEF MemoryInv, MemoryTypeOK
  <2> QED
    BY <1>1, <2>1 DEF MemoryRow
<1>3. [consolidation[k] EXCEPT !.status = "executed"] \in ProposalOf
  BY DEF MemoryInv, MemoryTypeOK, ProposalOf
<1>4. memory' = [m \in Memory |-> IF m \in Consolidates(k) THEN into(m) ELSE memory[m]]
  BY DEF Execute
<1>5. MemoryTypeOK'
  <2>1. memory' \in [Memory -> MemoryRow]
    BY <1>2, <1>4 DEF MemoryInv, MemoryTypeOK
  <2> QED
    BY <1>3, <2>1 DEF MemoryInv, MemoryTypeOK, Execute
<1>6. \A m \in Consolidates(k) : memory[m].active
  BY DEF Consolidates, InForce
<1>7. \A m \in Memory : memory'[m] = IF m \in Consolidates(k) THEN into(m) ELSE memory[m]
  BY <1>4
<1>8. console' = console
  BY DEF Execute
<1> HIDE DEF into
<1> QED
  BY <1>2, <1>5, <1>6, <1>7, <1>8, LeavingForce

(* The new row is superseded by nothing yet; its target was in force, so    *)
(* nothing superseded or consolidated it before.                            *)
LEMMA WriteStep ==
    ASSUME MemoryInv, NEW s \in Console, NEW m \in Memory, Write(s, m)
    PROVE  MemoryInv'
<1> DEFINE t == console[s].target
           out == [memory[t] EXCEPT !.active = FALSE]
<1>1. /\ console[s] \in Promotion
      /\ console[s].pc = "write"
      /\ t # NoMemory => t \in Promoted /\ memory[t].active
                         /\ memory[t].version < console[s].version
      /\ m \notin Promoted
  BY DEF Write, Supersedable, InForce, MemoryInv, MemoryTypeOK, PromotionsAdvance
<1>2. /\ NewRow(s) \in MemoryRow
      /\ NewRow(s).content = console[s].content /\ NewRow(s).active
      /\ NewRow(s).version = console[s].version
      /\ NewRow(s).supersedes = t /\ NewRow(s).into = NoMemory
  BY <1>1 DEF NewRow, MemoryRow, Promotion
<1>3. t # m
  BY <1>1, MemoryAssumption
<1>4. t # NoMemory =>
        /\ t \in Memory
        /\ out \in MemoryRow /\ ~ out.active
        /\ out.content = memory[t].content /\ out.version = memory[t].version
        /\ out.supersedes = memory[t].supersedes /\ out.into = memory[t].into
  BY <1>1 DEF MemoryInv, MemoryTypeOK, MemoryRow, Promoted
<1>5. /\ memory' \in [Memory -> MemoryRow]
      /\ memory'[m] = NewRow(s)
      /\ t # NoMemory => memory'[t] = out
      /\ \A n \in Memory \ {m, t} : memory'[n] = memory[n]
  <2>1. memory' = [n \in Memory |-> CASE n = m   -> NewRow(s)
                                      [] n = t   -> out
                                      [] OTHER   -> memory[n]]
    BY DEF Write
  <2>2. \A n \in Memory : /\ n = m => memory'[n] = NewRow(s)
                          /\ n = t => memory'[n] = out
                          /\ n # m /\ n # t => memory'[n] = memory[n]
    BY <1>3, <2>1
  <2>3. \A n \in Memory : memory[n] \in MemoryRow
    BY DEF MemoryInv, MemoryTypeOK
  <2>4. \A n \in Memory : n = t => t # NoMemory
    BY MemoryAssumption
  <2> HIDE DEF out
  <2>5. \A n \in Memory : memory'[n] \in MemoryRow
    BY <1>2, <1>4, <2>2, <2>3, <2>4
  <2> QED
    BY <1>4, <2>1, <2>2, <2>5
<1>6. /\ console' = [console EXCEPT ![s] = IdleConsole]
      /\ consolidation' = consolidation
  BY DEF Write
<1>7. MemoryTypeOK'
  <2>1. IdleConsole \in Promotion
    BY DEF IdleConsole, Promotion
  <2> QED
    BY <1>5, <1>6, <2>1 DEF MemoryInv, MemoryTypeOK
<1> HIDE DEF out
<1>8. \A n \in Promoted : n \in Memory /\ n # m
  BY <1>1 DEF Promoted
<1>9. Promoted \subseteq Promoted' /\ Promoted' \subseteq Promoted \cup {m}
  <2>1. \A n \in Memory \ {m} : memory'[n].content = memory[n].content
    <3> SUFFICES ASSUME NEW n \in Memory \ {m} PROVE memory'[n].content = memory[n].content
      OBVIOUS
    <3>1. CASE n = t
      BY <1>4, <1>5, <3>1, MemoryAssumption
    <3>2. CASE n # t
      BY <1>5, <3>2
    <3> QED
      BY <3>1, <3>2
  <2> QED
    BY <1>8, <2>1 DEF Promoted
<1>10. \A n \in Promoted : /\ memory'[n].supersedes = memory[n].supersedes
                           /\ memory'[n].version = memory[n].version
                           /\ memory'[n].into = memory[n].into
                           /\ memory'[n].active <=> memory[n].active /\ n # t
  <2> SUFFICES ASSUME NEW n \in Promoted
               PROVE  /\ memory'[n].supersedes = memory[n].supersedes
                      /\ memory'[n].version = memory[n].version
                      /\ memory'[n].into = memory[n].into
                      /\ memory'[n].active <=> memory[n].active /\ n # t
    OBVIOUS
  <2>1. CASE n = t
    BY <1>4, <1>5, <1>8, <2>1, MemoryAssumption
  <2>2. CASE n # t
    BY <1>5, <1>8, <2>2
  <2> QED
    BY <2>1, <2>2
<1>11. \A n \in Promoted : memory[n].supersedes # m
  BY <1>1, MemoryAssumption DEF MemoryInv, SupersessionAdvances
<1>12. t # NoMemory => \A n \in Promoted : memory[n].supersedes # t
  BY <1>1 DEF MemoryInv, LeavesForceOnce
<1>13. t # NoMemory => memory[t].into = NoMemory
  BY <1>1 DEF MemoryInv, LeavesForceOnce
<1>14. LeavesForceOnce'
  <2> SUFFICES ASSUME NEW r \in Promoted'
               PROVE  /\ \A n, o \in Promoted' :
                            memory'[n].supersedes = r /\ memory'[o].supersedes = r => n = o
                      /\ (\E n \in Promoted' : memory'[n].supersedes = r) =>
                            ~ memory'[r].active /\ memory'[r].into = NoMemory
                      /\ memory'[r].into # NoMemory => ~ memory'[r].active
    BY DEF LeavesForceOnce
  <2>0. r # NoMemory
    BY MemoryAssumption DEF Promoted
  <2>1. CASE r = m
    <3>1. \A n \in Promoted' : memory'[n].supersedes # m
      BY <1>2, <1>3, <1>5, <1>9, <1>10, <1>11
    <3> QED
      BY <1>2, <1>5, <2>1, <3>1
  <2>2. CASE r = t
    <3>1. \A n \in Promoted' : memory'[n].supersedes = t => n = m
      BY <1>9, <1>10, <1>12, <2>0, <2>2
    <3>2. ~ memory'[r].active /\ memory'[r].into = NoMemory
      BY <1>1, <1>10, <1>13, <2>0, <2>2
    <3> QED
      BY <2>2, <3>1, <3>2
  <2>3. CASE r # m /\ r # t
    <3>1. r \in Promoted
      BY <1>9, <2>3
    <3>2. \A n \in Promoted' : memory'[n].supersedes = r =>
              n \in Promoted /\ memory[n].supersedes = r
      BY <1>2, <1>5, <1>9, <1>10, <2>3
    <3>3. /\ \A n, o \in Promoted :
                 memory[n].supersedes = r /\ memory[o].supersedes = r => n = o
          /\ (\E n \in Promoted : memory[n].supersedes = r) =>
                 ~ memory[r].active /\ memory[r].into = NoMemory
          /\ memory[r].into # NoMemory => ~ memory[r].active
      BY <3>1 DEF MemoryInv, LeavesForceOnce
    <3> QED
      BY <1>10, <3>1, <3>2, <3>3
  <2> QED
    BY <2>1, <2>2, <2>3
<1>15. SupersessionAdvances'
  <2> SUFFICES ASSUME NEW r \in Promoted', memory'[r].supersedes # NoMemory
               PROVE  /\ memory'[r].supersedes \in Promoted'
                      /\ memory'[memory'[r].supersedes].version < memory'[r].version
    BY DEF SupersessionAdvances
  <2>1. CASE r = m
    BY <1>1, <1>2, <1>5, <1>9, <1>10, <2>1
  <2>2. CASE r # m
    <3>1. r \in Promoted /\ memory'[r].supersedes = memory[r].supersedes
      BY <1>9, <1>10, <2>2
    <3>2. /\ memory[r].supersedes \in Promoted
          /\ memory[memory[r].supersedes].version < memory[r].version
      BY <3>1 DEF MemoryInv, SupersessionAdvances
    <3> QED
      BY <1>9, <1>10, <3>1, <3>2
  <2> QED
    BY <2>1, <2>2
<1>16. PromotionsAdvance'
  <2> SUFFICES ASSUME NEW o \in Console, console'[o].target # NoMemory
               PROVE  /\ console'[o].target \in Promoted'
                      /\ console'[o].pc = "write" =>
                             memory'[console'[o].target].version < console'[o].version
    BY DEF PromotionsAdvance
  <2>1. o # s /\ console'[o] = console[o]
    BY <1>6 DEF MemoryInv, MemoryTypeOK, IdleConsole
  <2>2. /\ console[o].target \in Promoted
        /\ console[o].pc = "write" => memory[console[o].target].version < console[o].version
    BY <2>1 DEF MemoryInv, PromotionsAdvance
  <2> QED
    BY <1>9, <1>10, <2>1, <2>2
<1> QED
  BY <1>7, <1>14, <1>15, <1>16 DEF MemoryInv

-----------------------------------------------------------------------------
LEMMA MemoryStep == MemoryInv /\ [MemoryNext]_memoryVars => MemoryInv'
<1> SUFFICES ASSUME MemoryInv, [MemoryNext]_memoryVars PROVE MemoryInv'
  OBVIOUS
<1>1. CASE \E s \in Console : PromotionStep(s)
  <2> PICK s \in Console : PromotionStep(s)
    BY <1>1
  <2>1. CASE \E c \in Content, t \in Promoted \cup {NoMemory} : Promote(s, c, t)
    BY <2>1, PromotingStep DEF Promote
  <2>2. CASE \E c \in Content : ApproveLearning(s, c)
    BY <2>2, PromotingStep DEF ApproveLearning
  <2>3. CASE Number(s)
    BY <2>3, NumberStep
  <2>4. CASE \E m \in Memory : Write(s, m)
    BY <2>4, WriteStep
  <2>5. CASE GiveUp(s)
    BY <2>5, GiveUpStep
  <2> QED
    BY <2>1, <2>2, <2>3, <2>4, <2>5 DEF PromotionStep
<1>2. CASE \E m \in Memory : Retire(m)
  BY <1>2, RetireStep
<1>3. CASE \E k \in Consolidation : ConsolidationStep(k)
  <2> PICK k \in Consolidation : ConsolidationStep(k)
    BY <1>3
  <2>1. CASE \E canonical \in Memory, members \in SUBSET InForce :
                 CheckMembers(k, canonical, members)
    BY <2>1, CheckMembersStep
  <2>2. CASE InsertProposal(k) \/ RejectProposal(k) \/ BeginExecution(k) \/ ExecutionFails(k)
    BY <2>2, DecideStep DEF InsertProposal, RejectProposal, BeginExecution, ExecutionFails
  <2>3. CASE Execute(k)
    BY <2>3, ExecuteStep
  <2> QED
    BY <2>1, <2>2, <2>3 DEF ConsolidationStep
<1>4. CASE UNCHANGED memoryVars
  <2>1. MemoryTypeOK'
    BY <1>4 DEF memoryVars, MemoryInv, MemoryTypeOK
  <2> QED
    BY <1>4, <2>1, ProposalsOnly DEF memoryVars
<1> QED
  BY <1>1, <1>2, <1>3, <1>4 DEF MemoryNext

(* The inductive invariant: what is superseded was in force, and a promotion *)
(* under way is numbered beyond what it supersedes.                          *)
THEOREM MemoryInvariance == MemorySpec => []MemoryInv
<1> QED
  BY MemoryInitial, MemoryStep, PTL DEF MemorySpec

(* Memories, promotions and consolidation proposals stay well formed. *)
THEOREM MemoryTypeInvariance == MemorySpec => []MemoryTypeOK
<1>1. MemoryInv => MemoryTypeOK
  BY DEF MemoryInv
<1> QED
  BY <1>1, MemoryInvariance, PTL

(* However promotions, consolidations and reviews overlap, a memory leaves  *)
(* force once: the updates of promote_certified_memory_v2 and of the        *)
(* consolidation execution both ask for an active row.                      *)
THEOREM AlwaysLeavesForceOnce == MemorySpec => []LeavesForceOnce
<1>1. MemoryInv => LeavesForceOnce
  BY DEF MemoryInv
<1> QED
  BY <1>1, MemoryInvariance, PTL

(* The version number promote_certified_memory_v2 reads without a lock      *)
(* still lies beyond the version of what it supersedes.                     *)
THEOREM SupersessionAlwaysAdvances == MemorySpec => []SupersessionAdvances
<1>1. MemoryInv => SupersessionAdvances
  BY DEF MemoryInv
<1> QED
  BY <1>1, MemoryInvariance, PTL

=============================================================================
