----------------------------- MODULE AiTurnsProofs -----------------------------
(***************************************************************************)
(* Proofs about chat turns, for any requests, any number of concurrent     *)
(* turns, and any lost, late or failing calls.                             *)
(***************************************************************************)
EXTENDS AiTurns, FiniteSetTheorems, SumTheorems, TLAPS

(* An invocation that claimed its request and has not ended. *)
Unsent == {"stage", "abort", "route", "authorize", "send"}

Owning == Unsent \cup {"wait", "finish", "output", "envelope"}

Owns(t) == turn[t].pc \in Owning

(* An authorization or a settlement of r may still execute late. *)
Late(r) == \E c \in overdue : c.req = r /\ c.op # "begin"

RowOK(r) ==
    /\ usage[r].status = "none" =>
           /\ ~ usage[r].started /\ called[r] = 0 /\ envelope[r] = "none"
           /\ ~ Late(r)
    /\ usage[r].held <=> usage[r].started /\ usage[r].status \in {"pending", "unknown"}
    /\ usage[r].status = "unknown" => usage[r].review = "pending"
    /\ called[r] <= 1
    /\ envelope[r] \in Settled => usage[r].status = envelope[r]
    /\ envelope[r] = "unknown" => usage[r].started
    /\ envelope[r] \in {"denied", "embedded"} => called[r] = 0

(* What a turn that owns its request knows of it. *)
OwnerOK(t) ==
    LET r == turn[t].req
        pc == turn[t].pc
        want == turn[t].want
    IN  /\ usage[r].status # "none"
        /\ envelope[r] = "none"
        /\ pc \in Unsent => called[r] = 0
        /\ pc \in Unsent \cup {"wait"} => usage[r].status = "pending" /\ ~ Late(r)
        /\ pc \in {"send", "wait"} => usage[r].started
        /\ pc \in {"finish", "output", "envelope"} =>
               /\ want = "unknown" => usage[r].started
               /\ want \in {"denied", "embedded"} => called[r] = 0
        /\ pc = "finish" =>
               /\ want = "succeeded" => usage[r].started
               /\ want \in Settled => ~ Late(r)
               /\ want \in Settled =>
                      usage[r].status = "pending"
                        \/ (usage[r].status = "denied" /\ want = "denied")
        /\ pc \in {"output", "envelope"} /\ want \in Settled => usage[r].status = want

Rows == \A r \in Request : RowOK(r)

Owners == \A t \in Turn : Owns(t) => OwnerOK(t)

OneOwner == \A t, u \in Turn : Owns(t) /\ Owns(u) /\ turn[t].req = turn[u].req => t = u

(* Only a request whose provider call was authorized is settled as unknown. *)
LateUnknown == \A c \in overdue : c.op = "finish" /\ c.want = "unknown" => usage[c.req].started

AiInv ==
    /\ AiTypeOK /\ Rows /\ Owners /\ OneOwner /\ LateUnknown
    /\ ConcurrencyRespected

-----------------------------------------------------------------------------
(* What the RPCs do to a row. *)

LEMMA RowType ==
    ASSUME AiTypeOK, NEW r \in Request
    PROVE  /\ usage[r] \in UsageRow
           /\ usage[r].started \in BOOLEAN /\ usage[r].held \in BOOLEAN
           /\ usage[r].status \in {"none", "pending"} \cup Outcome
           /\ called[r] \in Nat /\ envelope[r] \in Outcome \cup {"none"}
BY DEF AiTypeOK, UsageRow

LEMMA FlightShrinks ==
    ASSUME AiTypeOK, ConcurrencyRespected, InFlight' \subseteq InFlight
    PROVE  ConcurrencyRespected'
<1>1. InFlight \in SUBSET Request /\ InFlight' \in SUBSET InFlight
  BY DEF InFlight
<1>2. IsFiniteSet(InFlight)
  BY <1>1, FiniteAssumption, FS_Subset
<1>3. /\ Cardinality(InFlight') <= Cardinality(InFlight)
      /\ Cardinality(InFlight') \in Nat /\ Cardinality(InFlight) \in Nat
  BY <1>1, <1>2, FS_Subset, FS_CardinalityType
<1>4. Cardinality(InFlight)' = Cardinality(InFlight')
  OBVIOUS
<1> QED
  BY <1>3, <1>4, BudgetAssumption DEF ConcurrencyRespected

LEMMA BeginRow ==
    ASSUME AiTypeOK, NEW r \in Request, Begin(r)
    PROVE  /\ usage' \in [Request -> UsageRow]
           /\ \A q \in Request \ {r} : usage'[q] = usage[q]
           /\ usage[r].status # "none" => usage'[r] = usage[r]
           /\ usage'[r] = [usage[r] EXCEPT !.status = usage'[r].status]
           /\ usage[r].status = "none" => usage'[r].status = "pending"
<1> DEFINE row == [usage[r] EXCEPT !.status = "pending"]
<1>1. usage \in [Request -> UsageRow] /\ usage[r] \in UsageRow
  BY DEF AiTypeOK
<1>2. row \in UsageRow /\ row.status = "pending" /\ row = [usage[r] EXCEPT !.status = row.status]
  BY <1>1 DEF UsageRow
<1>3. usage[r] = [usage[r] EXCEPT !.status = usage[r].status]
  BY <1>1 DEF UsageRow
<1>4. usage' = IF usage[r].status = "none" THEN [usage EXCEPT ![r] = row] ELSE usage
  BY <1>1 DEF Begin, IsNew
<1> HIDE DEF row
<1> QED
  BY <1>1, <1>2, <1>3, <1>4

LEMMA FinishRow ==
    ASSUME AiTypeOK, NEW r \in Request, NEW s \in Outcome, NEW n \in Nat, Finish(r, s, n)
    PROVE  /\ usage' \in [Request -> UsageRow]
           /\ \A q \in Request \ {r} : usage'[q] = usage[q]
           /\ usage[r].status \in Settled => usage'[r] = usage[r]
           /\ usage'[r].started = usage[r].started
           /\ usage[r].status \notin Settled =>
                  /\ usage'[r].status = s
                  /\ usage'[r].held <=> s = "unknown"
                  /\ s = "unknown" => usage'[r].review = "pending"
<1> DEFINE row == [usage[r] EXCEPT !.status   = s,
                                  !.tokens   = n,
                                  !.held     = (s = "unknown"),
                                  !.reserved = IF s = "unknown" THEN @ ELSE 0,
                                  !.review   = IF s = "unknown" THEN "pending"
                                               ELSE "not_required"]
<1>1. usage \in [Request -> UsageRow] /\ usage[r] \in UsageRow
  BY DEF AiTypeOK
<1>2. /\ row \in UsageRow /\ row.started = usage[r].started /\ row.status = s
      /\ row.held = (s = "unknown")
      /\ s = "unknown" => row.review = "pending"
  BY <1>1 DEF UsageRow, Outcome
<1>3. usage' = IF usage[r].status \in Settled THEN usage ELSE [usage EXCEPT ![r] = row]
  BY DEF Finish
<1> HIDE DEF row
<1> QED
  BY <1>1, <1>2, <1>3

(* An authorization that is granted adds to the requests in flight only     *)
(* while there are fewer of them than the budget allows.                    *)
LEMMA AuthorizeRow ==
    ASSUME AiTypeOK, ConcurrencyRespected, NEW r \in Request, NEW a, Authorize(r, a)
    PROVE  /\ usage' \in [Request -> UsageRow]
           /\ \A q \in Request \ {r} : usage'[q] = usage[q]
           /\ \/ a = "refused" /\ usage'[r] = usage[r]
              \/ /\ a = "refused" /\ usage[r].status = "pending" /\ ~ usage[r].started
                 /\ usage'[r].status = "denied" /\ ~ usage'[r].started /\ ~ usage'[r].held
              \/ /\ a = "allowed" /\ usage[r].status = "pending" /\ ~ usage[r].started
                 /\ usage'[r].status = "pending" /\ usage'[r].started /\ usage'[r].held
           /\ ConcurrencyRespected'
<1>1. usage \in [Request -> UsageRow] /\ usage[r] \in UsageRow
  BY DEF AiTypeOK
<1>2. CASE UNCHANGED usage /\ a = "refused"
  <2>1. InFlight' \subseteq InFlight
    BY <1>2 DEF InFlight
  <2> QED
    BY <1>1, <1>2, <2>1, FlightShrinks
<1>3. CASE a = "refused" /\ Startable(r) /\ usage' = [usage EXCEPT ![r] = Denied(r)]
  <2>1. /\ Denied(r) \in UsageRow /\ Denied(r).status = "denied"
        /\ Denied(r).started = usage[r].started /\ Denied(r).held = FALSE
    BY <1>1 DEF Denied, UsageRow, Outcome, Settled
  <2>2. /\ usage' \in [Request -> UsageRow] /\ usage'[r] = Denied(r)
        /\ \A q \in Request \ {r} : usage'[q] = usage[q]
    BY <1>1, <1>3, <2>1
  <2>3. InFlight' \subseteq InFlight
    BY <2>1, <2>2 DEF InFlight
  <2> QED
    BY <1>3, <2>1, <2>2, <2>3, FlightShrinks DEF Startable
<1>4. CASE /\ a = "allowed" /\ Startable(r) /\ ~ OverLimit
           /\ usage' = [usage EXCEPT ![r] = Authorized(r)]
  <2>1. /\ Authorized(r) \in UsageRow /\ Authorized(r).status = usage[r].status
        /\ Authorized(r).started /\ Authorized(r).held
    BY <1>1, BudgetAssumption DEF Authorized, UsageRow
  <2>2. /\ usage' \in [Request -> UsageRow] /\ usage'[r] = Authorized(r)
        /\ \A q \in Request \ {r} : usage'[q] = usage[q]
    BY <1>1, <1>4, <2>1
  <2>3. usage[r].status = "pending" /\ ~ usage[r].started
    BY <1>4 DEF Startable
  <2>4. InFlight' = InFlight \cup {r} /\ r \notin InFlight
    BY <2>1, <2>2, <2>3 DEF InFlight
  <2>5. IsFiniteSet(InFlight)
    <3>1. InFlight \in SUBSET Request
      BY DEF InFlight
    <3> QED
      BY <3>1, FiniteAssumption, FS_Subset
  <2>6. Cardinality(InFlight \cup {r}) = Cardinality(InFlight) + 1
          /\ Cardinality(InFlight) \in Nat
    BY <2>4, <2>5, FS_AddElement, FS_CardinalityType
  <2>7. ~ (Cardinality(InFlight) >= Concurrency)
    BY <1>4 DEF OverLimit
  <2>8. Cardinality(InFlight)' = Cardinality(InFlight) + 1
    BY <2>4, <2>6
  <2>9. ConcurrencyRespected'
    BY <2>6, <2>7, <2>8, BudgetAssumption DEF ConcurrencyRespected
  <2> QED
    BY <1>4, <2>1, <2>2, <2>3, <2>9
<1> QED
  BY <1>2, <1>3, <1>4 DEF Authorize

-----------------------------------------------------------------------------
LEMMA AiInitial == AiInit => AiInv
<1> SUFFICES ASSUME AiInit PROVE AiInv
  OBVIOUS
<1>1. NoUsage \in UsageRow /\ Unstarted \in Invocation
  BY BudgetAssumption DEF NoUsage, UsageRow, Unstarted, Invocation, Step, Outcome, Settled
<1>2. AiTypeOK
  BY <1>1 DEF AiInit, AiTypeOK, Unstarted
<1>3. Rows
  BY DEF AiInit, Rows, RowOK, NoUsage, Late, Settled
<1>4. Owners /\ OneOwner
  BY DEF AiInit, Owners, OneOwner, Owns, Owning, Unsent, Unstarted
<1>5. LateUnknown
  BY DEF AiInit, LateUnknown
<1>6. ConcurrencyRespected
  <2>1. InFlight = {}
    BY DEF AiInit, InFlight, NoUsage
  <2> QED
    BY <2>1, FS_EmptySet, BudgetAssumption DEF ConcurrencyRespected
<1> QED
  BY <1>2, <1>3, <1>4, <1>5, <1>6 DEF AiInv

-----------------------------------------------------------------------------
(* The turn that owns its request, or claims one that nobody owns, moves.   *)
LEMMA TurnMoves ==
    ASSUME AiInv, AiTypeOK', ConcurrencyRespected',
           NEW t \in Turn, NEW r \in Request, turn[t].req = r, turn'[t].req = r,
           Owns(t) \/ usage[r].status = "none",
           \A u \in Turn \ {t} : turn'[u] = turn[u],
           \A q \in Request \ {r} :
               usage'[q] = usage[q] /\ called'[q] = called[q] /\ envelope'[q] = envelope[q],
           \A c \in overdue' : c \in overdue \/ c.req = r,
           \A c \in overdue' : c.req = r /\ c.op = "finish" /\ c.want = "unknown" =>
               usage'[r].started,
           RowOK(r)',
           Owns(t)' => OwnerOK(t)'
    PROVE  AiInv'
<1>1. \A q \in Request \ {r} : Late(q)' => Late(q)
  BY DEF Late
<1>2. Rows'
  <2> SUFFICES ASSUME NEW q \in Request \ {r} PROVE RowOK(q)'
    BY DEF Rows
  <2>1. usage'[q] = usage[q] /\ called'[q] = called[q] /\ envelope'[q] = envelope[q]
    OBVIOUS
  <2>2. RowOK(q)
    BY DEF AiInv, Rows
  <2> QED
    BY <1>1, <2>1, <2>2 DEF RowOK
<1>3. \A u \in Turn \ {t} : Owns(u) => turn[u].req \in Request \ {r}
  <2> SUFFICES ASSUME NEW u \in Turn \ {t}, Owns(u) PROVE turn[u].req \in Request \ {r}
    OBVIOUS
  <2>1. turn[u].req \in Request
    BY DEF Owns, Owning, Unsent, AiInv, AiTypeOK
  <2>2. usage[turn[u].req].status # "none"
    BY DEF AiInv, Owners, OwnerOK
  <2>3. ~ (Owns(t) /\ turn[t].req = turn[u].req)
    BY DEF AiInv, OneOwner
  <2> QED
    BY <2>1, <2>2, <2>3
<1>4. Owners'
  <2> SUFFICES ASSUME NEW u \in Turn \ {t}, Owns(u)' PROVE OwnerOK(u)'
    BY DEF Owners
  <2>1. turn'[u] = turn[u] /\ Owns(u)
    BY DEF Owns
  <2>2. turn[u].req \in Request \ {r}
    BY <1>3, <2>1
  <2>3. OwnerOK(u)
    BY <2>1 DEF AiInv, Owners
  <2> QED
    BY <1>1, <2>1, <2>2, <2>3 DEF OwnerOK
<1>5. OneOwner'
  <2> SUFFICES ASSUME NEW u \in Turn, NEW w \in Turn, Owns(u)', Owns(w)',
                      turn'[u].req = turn'[w].req
               PROVE  u = w
    BY DEF OneOwner
  <2>1. \A x \in Turn \ {t} : Owns(x)' => Owns(x) /\ turn'[x].req = turn[x].req
                                           /\ turn'[x].req # r
    BY <1>3 DEF Owns
  <2>2. CASE u # t /\ w # t
    BY <2>1, <2>2 DEF AiInv, OneOwner
  <2>3. CASE u = t \/ w = t
    BY <2>1, <2>3
  <2> QED
    BY <2>2, <2>3
<1>6. LateUnknown'
  <2> SUFFICES ASSUME NEW c \in overdue', c.op = "finish", c.want = "unknown"
               PROVE  usage'[c.req].started
    BY DEF LateUnknown
  <2>1. c.req \in Request
    BY DEF AiTypeOK, Rpc
  <2>2. CASE c.req = r
    BY <2>2
  <2>3. CASE c.req # r
    BY <2>1, <2>3 DEF AiInv, LateUnknown
  <2> QED
    BY <2>2, <2>3
<1> QED
  BY <1>2, <1>4, <1>5, <1>6 DEF AiInv

(* A turn that changes no row moves to where it owns nothing.  It may leave *)
(* behind a call to begin.                                                  *)
LEMMA StrangerMoves ==
    ASSUME AiInv, AiTypeOK', NEW t \in Turn, ~ Owns(t)',
           UNCHANGED <<usage, called, envelope>>,
           \A u \in Turn \ {t} : turn'[u] = turn[u],
           \A c \in overdue' : c \in overdue \/ c.op = "begin"
    PROVE  AiInv'
<1>1. \A q : Late(q)' => Late(q)
  BY DEF Late
<1>2. Rows'
  BY <1>1 DEF AiInv, Rows, RowOK
<1>3. \A u \in Turn : Owns(u)' => u # t /\ turn'[u] = turn[u] /\ Owns(u)
  BY DEF Owns
<1>4. Owners'
  <2> SUFFICES ASSUME NEW u \in Turn, Owns(u)' PROVE OwnerOK(u)'
    BY DEF Owners
  <2>1. turn'[u] = turn[u] /\ OwnerOK(u)
    BY <1>3 DEF AiInv, Owners
  <2> QED
    BY <1>1, <2>1 DEF OwnerOK
<1>5. OneOwner'
  BY <1>3 DEF AiInv, OneOwner
<1>6. LateUnknown'
  BY DEF AiInv, LateUnknown
<1>7. ConcurrencyRespected'
  BY DEF AiInv, ConcurrencyRespected, InFlight
<1> QED
  BY <1>2, <1>4, <1>5, <1>6, <1>7 DEF AiInv

(* A row changes under the turns: an admin or a late call. *)
LEMMA RowMoves ==
    ASSUME AiInv, AiTypeOK', ConcurrencyRespected', NEW r \in Request,
           UNCHANGED <<turn, called, envelope>>, overdue' \subseteq overdue,
           \A q \in Request \ {r} : usage'[q] = usage[q],
           usage[r].started => usage'[r].started,
           RowOK(r)',
           \A u \in Turn : Owns(u) /\ turn[u].req = r => OwnerOK(u)'
    PROVE  AiInv'
<1>1. \A q : Late(q)' => Late(q)
  BY DEF Late
<1>2. Rows'
  <2> SUFFICES ASSUME NEW q \in Request \ {r} PROVE RowOK(q)'
    BY DEF Rows
  <2>1. usage'[q] = usage[q] /\ RowOK(q)
    BY DEF AiInv, Rows
  <2> QED
    BY <1>1, <2>1 DEF RowOK
<1>3. Owners'
  <2> SUFFICES ASSUME NEW u \in Turn, Owns(u), turn[u].req # r PROVE OwnerOK(u)'
    BY DEF Owners, Owns
  <2>1. turn[u].req \in Request \ {r}
    BY DEF Owns, Owning, Unsent, AiInv, AiTypeOK
  <2>2. OwnerOK(u)
    BY DEF AiInv, Owners
  <2> QED
    BY <1>1, <2>1, <2>2 DEF OwnerOK
<1>4. OneOwner'
  BY DEF AiInv, OneOwner, Owns
<1>5. LateUnknown'
  <2> SUFFICES ASSUME NEW c \in overdue', c.op = "finish", c.want = "unknown"
               PROVE  usage'[c.req].started
    BY DEF LateUnknown
  <2>1. c.req \in Request /\ usage[c.req].started
    BY DEF AiInv, LateUnknown, AiTypeOK, Rpc
  <2> QED
    BY <2>1
<1> QED
  BY <1>2, <1>3, <1>4, <1>5 DEF AiInv

-----------------------------------------------------------------------------
(* How a turn moves. *)

LEMMA GoMoves ==
    ASSUME AiTypeOK, NEW t \in Turn, NEW pc \in Step \ {"idle"}, turn[t].req \in Request,
           Go(t, pc)
    PROVE  /\ turn' \in [Turn -> Invocation]
           /\ \A u \in Turn \ {t} : turn'[u] = turn[u]
           /\ \A u \in Turn : turn'[u].pc # "idle" => turn'[u].req \in Request
           /\ turn'[t].pc = pc /\ turn'[t].req = turn[t].req
           /\ turn'[t].want = turn[t].want /\ turn'[t].tokens = turn[t].tokens
<1> DEFINE row == [turn[t] EXCEPT !.pc = pc]
<1>1. turn \in [Turn -> Invocation] /\ turn[t] \in Invocation
  BY DEF AiTypeOK
<1>2. /\ row \in Invocation /\ row.pc = pc /\ row.req = turn[t].req
      /\ row.want = turn[t].want /\ row.tokens = turn[t].tokens
  BY <1>1 DEF Invocation
<1>3. turn' = [turn EXCEPT ![t] = row]
  BY <1>1 DEF Go
<1>4. /\ turn' \in [Turn -> Invocation] /\ turn'[t] = row
      /\ \A u \in Turn \ {t} : turn'[u] = turn[u]
  BY <1>1, <1>2, <1>3
<1>5. \A u \in Turn : turn'[u].pc # "idle" => turn'[u].req \in Request
  BY <1>2, <1>4 DEF AiTypeOK
<1> QED
  BY <1>2, <1>4, <1>5

LEMMA SettleMoves ==
    ASSUME AiTypeOK, NEW t \in Turn, NEW s \in Outcome, NEW n \in Nat,
           turn[t].req \in Request, Settle(t, s, n)
    PROVE  /\ turn' \in [Turn -> Invocation]
           /\ \A u \in Turn \ {t} : turn'[u] = turn[u]
           /\ \A u \in Turn : turn'[u].pc # "idle" => turn'[u].req \in Request
           /\ turn'[t].pc = "finish" /\ turn'[t].req = turn[t].req
           /\ turn'[t].want = s
<1> DEFINE row == [turn[t] EXCEPT !.pc = "finish", !.want = s, !.tokens = n]
<1>1. turn \in [Turn -> Invocation] /\ turn[t] \in Invocation
  BY DEF AiTypeOK
<1>2. row \in Invocation /\ row.pc = "finish" /\ row.req = turn[t].req /\ row.want = s
  BY <1>1 DEF Invocation, Step
<1>3. turn' = [turn EXCEPT ![t] = row]
  BY <1>1 DEF Settle
<1>4. /\ turn' \in [Turn -> Invocation] /\ turn'[t] = row
      /\ \A u \in Turn \ {t} : turn'[u] = turn[u]
  BY <1>1, <1>2, <1>3
<1>5. \A u \in Turn : turn'[u].pc # "idle" => turn'[u].req \in Request
  BY <1>2, <1>4 DEF AiTypeOK
<1> QED
  BY <1>2, <1>4, <1>5

(* Turns move and nothing else, or late calls and the envelope with them.   *)
LEMMA TurnTypes ==
    ASSUME AiTypeOK, turn' \in [Turn -> Invocation],
           \A u \in Turn : turn'[u].pc # "idle" => turn'[u].req \in Request,
           usage' \in [Request -> UsageRow], called' \in [Request -> Nat],
           staged' \in [Request -> SUBSET {"human", "assistant"}],
           envelope' \in [Request -> Outcome \cup {"none"}],
           overdue' \subseteq Rpc, turnFaults' \in Nat
    PROVE  AiTypeOK'
BY DEF AiTypeOK

LEMMA OwnerFacts ==
    ASSUME AiInv, NEW t \in Turn, Owns(t)
    PROVE  turn[t].req \in Request /\ OwnerOK(t) /\ RowOK(turn[t].req)
<1>1. turn[t].req \in Request
  BY DEF Owns, Owning, Unsent, AiInv, AiTypeOK
<1> QED
  BY <1>1 DEF AiInv, Owners, Rows

LEMMA StartTurnStep ==
    ASSUME AiInv, NEW t \in Turn, NEW r \in Request, StartTurn(t, r)
    PROVE  AiInv'
<1> DEFINE row == [turn[t] EXCEPT !.pc = "begin", !.req = r]
<1>1. turn \in [Turn -> Invocation] /\ turn[t] \in Invocation
  BY DEF AiInv, AiTypeOK
<1>2. row \in Invocation /\ row.pc = "begin" /\ row.req = r
  BY <1>1 DEF Invocation, Step
<1>3. turn' = [turn EXCEPT ![t] = row] /\ UNCHANGED <<usage, notTurn>>
  BY <1>1 DEF StartTurn
<1>4. /\ turn' \in [Turn -> Invocation] /\ turn'[t] = row
      /\ \A u \in Turn \ {t} : turn'[u] = turn[u]
  BY <1>1, <1>2, <1>3
<1>5. AiTypeOK'
  BY <1>2, <1>3, <1>4 DEF AiInv, AiTypeOK, notTurn
<1>6. ~ Owns(t)'
  BY <1>2, <1>4 DEF Owns, Owning, Unsent
<1> QED
  BY <1>3, <1>4, <1>5, <1>6, StrangerMoves DEF notTurn

LEMMA BeginTurnStep ==
    ASSUME AiInv, NEW t \in Turn, BeginTurn(t)
    PROVE  AiInv'
<1> PICK r \in Request : turn[t].req = r
  BY DEF BeginTurn, At, AiInv, AiTypeOK
<1>1. At(t, "begin") /\ UNCHANGED notTurn
  BY DEF BeginTurn
<1>2. /\ usage' \in [Request -> UsageRow]
      /\ \A q \in Request \ {r} : usage'[q] = usage[q]
      /\ usage[r].status # "none" => usage'[r] = usage[r]
      /\ usage'[r] = [usage[r] EXCEPT !.status = usage'[r].status]
      /\ usage[r].status = "none" => usage'[r].status = "pending"
  BY <1>1, BeginRow DEF BeginTurn, AiInv
<1>3. CASE usage[r].status = "none"
  <2>1. Go(t, "stage")
    BY <1>3 DEF BeginTurn, IsNew
  <2>2. /\ turn' \in [Turn -> Invocation]
        /\ \A u \in Turn \ {t} : turn'[u] = turn[u]
        /\ \A u \in Turn : turn'[u].pc # "idle" => turn'[u].req \in Request
        /\ turn'[t].pc = "stage" /\ turn'[t].req = r
    BY <1>1, <2>1, GoMoves DEF Step, AiInv
  <2>3. AiTypeOK'
    BY <1>1, <1>2, <2>2 DEF AiInv, AiTypeOK, notTurn
  <2>4. RowOK(r) /\ usage[r] \in UsageRow
    BY <1>1 DEF AiInv, Rows, AiTypeOK
  <2>5. usage'[r].started = usage[r].started /\ usage'[r].held = usage[r].held
          /\ usage'[r].status = "pending"
    BY <1>2, <1>3, <2>4 DEF UsageRow
  <2>6. called'[r] = 0 /\ envelope'[r] = "none" /\ ~ Late(r)' /\ ~ usage[r].started
    BY <1>1, <1>3, <2>4 DEF RowOK, Late, notTurn
  <2>7. RowOK(r)'
    BY <2>4, <2>5, <2>6, <1>3 DEF RowOK, Settled
  <2>8. OwnerOK(t)'
    BY <2>2, <2>5, <2>6 DEF OwnerOK, Unsent
  <2>9. ConcurrencyRespected'
    <3>1. InFlight' \subseteq InFlight
      BY <1>2, <2>5, <2>6 DEF InFlight
    <3> QED
      BY <3>1, FlightShrinks DEF AiInv
  <2>10. \A c \in overdue' : c.req = r /\ c.op = "finish" /\ c.want = "unknown" =>
             usage'[r].started
    BY <2>6 DEF Late
  <2>11. /\ \A c \in overdue' : c \in overdue \/ c.req = r
         /\ \A q \in Request \ {r} : called'[q] = called[q] /\ envelope'[q] = envelope[q]
    BY <1>1 DEF notTurn
  <2> QED
    BY <1>1, <1>2, <1>3, <2>2, <2>3, <2>7, <2>8, <2>9, <2>10, <2>11, TurnMoves
<1>4. CASE usage[r].status # "none"
  <2>1. Go(t, "cached")
    BY <1>4 DEF BeginTurn, IsNew
  <2>2. /\ turn' \in [Turn -> Invocation]
        /\ \A u \in Turn \ {t} : turn'[u] = turn[u]
        /\ \A u \in Turn : turn'[u].pc # "idle" => turn'[u].req \in Request
        /\ turn'[t].pc = "cached"
    BY <1>1, <2>1, GoMoves DEF Step, AiInv
  <2>3. AiTypeOK'
    BY <1>1, <1>2, <2>2 DEF AiInv, AiTypeOK, notTurn
  <2>4. usage' = usage
    BY <1>4 DEF BeginTurn, Begin, IsNew
  <2>5. ~ Owns(t)'
    BY <2>2 DEF Owns, Owning, Unsent
  <2> QED
    BY <1>1, <2>2, <2>3, <2>4, <2>5, StrangerMoves DEF notTurn
<1> QED
  BY <1>3, <1>4

LEMMA LoadCachedStep ==
    ASSUME AiInv, NEW t \in Turn, LoadCached(t)
    PROVE  AiInv'
<1>1. PICK pc \in {"done", "error"} : Go(t, pc)
  BY DEF LoadCached
<1>2. turn[t].req \in Request /\ UNCHANGED <<usage, notTurn>>
  BY DEF LoadCached, At, AiInv, AiTypeOK
<1>3. /\ turn' \in [Turn -> Invocation]
      /\ \A u \in Turn \ {t} : turn'[u] = turn[u]
      /\ \A u \in Turn : turn'[u].pc # "idle" => turn'[u].req \in Request
      /\ turn'[t].pc = pc
  BY <1>1, <1>2, GoMoves DEF Step, AiInv
<1>4. AiTypeOK'
  BY <1>2, <1>3 DEF AiInv, AiTypeOK, notTurn
<1>5. ~ Owns(t)'
  BY <1>3 DEF Owns, Owning, Unsent
<1> QED
  BY <1>2, <1>3, <1>4, <1>5, StrangerMoves DEF notTurn

(* The owner moves, no row changes. *)
LEMMA OwnerMoves ==
    ASSUME AiInv, AiTypeOK', NEW t \in Turn, Owns(t),
           UNCHANGED <<usage, called, envelope>>,
           turn'[t].req = turn[t].req,
           \A u \in Turn \ {t} : turn'[u] = turn[u],
           \A c \in overdue' : c \in overdue \/ c.req = turn[t].req,
           \A c \in overdue' : c.req = turn[t].req /\ c.op = "finish" /\ c.want = "unknown" =>
               usage[turn[t].req].started,
           Owns(t)' => OwnerOK(t)'
    PROVE  AiInv'
<1>1. turn[t].req \in Request /\ OwnerOK(t) /\ RowOK(turn[t].req)
  BY OwnerFacts
<1>2. RowOK(turn[t].req)'
  <2> DEFINE r == turn[t].req
  <2>1. usage'[r] = usage[r] /\ called'[r] = called[r] /\ envelope'[r] = envelope[r]
          /\ usage[r].status # "none" /\ turn'[t].req = r
    BY <1>1 DEF OwnerOK
  <2>2. RowOK(r)
    BY <1>1
  <2>3. turn'[t].req = r
    OBVIOUS
  <2> QED
    BY <2>1, <2>2, <2>3 DEF RowOK
<1>3. ConcurrencyRespected'
  BY DEF AiInv, ConcurrencyRespected, InFlight
<1> QED
  BY <1>1, <1>2, <1>3, TurnMoves

-----------------------------------------------------------------------------
(* The steps of a turn that owns its request. *)

LEMMA StageInputStep ==
    ASSUME AiInv, NEW t \in Turn, StageInput(t)
    PROVE  AiInv'
<1>1. Owns(t) /\ turn[t].pc = "stage"
  BY DEF StageInput, At, Owns, Owning, Unsent
<1>2. turn[t].req \in Request /\ OwnerOK(t)
  BY <1>1, OwnerFacts
<1>3. /\ turn' \in [Turn -> Invocation]
      /\ \A u \in Turn \ {t} : turn'[u] = turn[u]
      /\ \A u \in Turn : turn'[u].pc # "idle" => turn'[u].req \in Request
      /\ turn'[t].pc = "route" /\ turn'[t].req = turn[t].req
  BY <1>2, GoMoves DEF StageInput, Step, AiInv
<1>4. /\ UNCHANGED <<usage, called, envelope, overdue, turnFaults>>
      /\ staged' = [staged EXCEPT ![turn[t].req] = @ \cup {"human"}]
  BY DEF StageInput
<1>5. AiTypeOK'
  BY <1>3, <1>4 DEF AiInv, AiTypeOK
<1>6. OwnerOK(t)'
  BY <1>1, <1>2, <1>3, <1>4 DEF OwnerOK, Unsent, Late
<1>7. \A c \in overdue' : c.req = turn[t].req /\ c.op = "finish" /\ c.want = "unknown" =>
          usage[turn[t].req].started
  BY <1>4 DEF AiInv, LateUnknown
<1> QED
  BY <1>1, <1>3, <1>4, <1>5, <1>6, <1>7, OwnerMoves

(* An owner settles on an outcome, with no row changed yet. *)
LEMMA OwnerSettles ==
    ASSUME AiInv, NEW t \in Turn, turn[t].pc \in Unsent \cup {"wait"},
           NEW s \in Outcome, NEW n \in Nat, Settle(t, s, n),
           UNCHANGED <<usage, notTurn>>,
           s \in {"succeeded", "unknown"} => usage[turn[t].req].started,
           s \in {"denied", "embedded"} => called[turn[t].req] = 0
    PROVE  AiInv'
<1>1. Owns(t)
  BY DEF Owns, Owning
<1>2. turn[t].req \in Request /\ OwnerOK(t)
  BY <1>1, OwnerFacts
<1>3. /\ turn' \in [Turn -> Invocation]
      /\ \A u \in Turn \ {t} : turn'[u] = turn[u]
      /\ \A u \in Turn : turn'[u].pc # "idle" => turn'[u].req \in Request
      /\ turn'[t].pc = "finish" /\ turn'[t].req = turn[t].req /\ turn'[t].want = s
  BY <1>2, SettleMoves DEF AiInv
<1>4. AiTypeOK'
  BY <1>3 DEF AiInv, AiTypeOK, notTurn
<1>5. OwnerOK(t)'
  BY <1>2, <1>3 DEF OwnerOK, Unsent, Late, notTurn
<1>6. \A c \in overdue' : c.req = turn[t].req /\ c.op = "finish" /\ c.want = "unknown" =>
          usage[turn[t].req].started
  BY DEF AiInv, LateUnknown, notTurn
<1> QED
  BY <1>1, <1>3, <1>4, <1>5, <1>6, OwnerMoves DEF notTurn

(* An owner goes on, or ends, with no row changed. *)
LEMMA OwnerGoes ==
    ASSUME AiInv, NEW t \in Turn, Owns(t), NEW pc \in Step \ {"idle"}, Go(t, pc),
           UNCHANGED <<usage, called, envelope, overdue, turnFaults>>,
           staged' \in [Request -> SUBSET {"human", "assistant"}],
           \/ turn[t].pc = "route" /\ pc = "authorize"
           \/ turn[t].pc = "output" /\ pc = "envelope"
           \/ pc \in {"error", "done"}
    PROVE  AiInv'
<1>1. turn[t].req \in Request /\ OwnerOK(t)
  BY OwnerFacts
<1>2. /\ turn' \in [Turn -> Invocation]
      /\ \A u \in Turn \ {t} : turn'[u] = turn[u]
      /\ \A u \in Turn : turn'[u].pc # "idle" => turn'[u].req \in Request
      /\ turn'[t].pc = pc /\ turn'[t].req = turn[t].req /\ turn'[t].want = turn[t].want
  BY <1>1, GoMoves DEF AiInv
<1>3. AiTypeOK'
  BY <1>2 DEF AiInv, AiTypeOK
<1>4. Owns(t)' => OwnerOK(t)'
  BY <1>1, <1>2 DEF OwnerOK, Unsent, Owning, Owns, Late
<1>5. \A c \in overdue' : c.req = turn[t].req /\ c.op = "finish" /\ c.want = "unknown" =>
          usage[turn[t].req].started
  BY DEF AiInv, LateUnknown
<1> QED
  BY <1>2, <1>3, <1>4, <1>5, OwnerMoves

LEMMA RouteStep ==
    ASSUME AiInv, NEW t \in Turn, Route(t)
    PROVE  AiInv'
<1>1. Owns(t) /\ turn[t].pc = "route" /\ UNCHANGED <<usage, notTurn>>
  BY DEF Route, At, Owns, Owning, Unsent
<1>2. called[turn[t].req] = 0
  BY <1>1, OwnerFacts DEF OwnerOK, Unsent
<1>3. staged' \in [Request -> SUBSET {"human", "assistant"}]
  BY <1>1 DEF AiInv, AiTypeOK, notTurn
<1>4. CASE Settle(t, "embedded", 0) \/ Settle(t, "denied", 0)
  BY <1>1, <1>2, <1>4, OwnerSettles DEF Outcome, Settled, Unsent
<1>5. CASE Go(t, "authorize") \/ Go(t, "error")
  BY <1>1, <1>3, <1>5, OwnerGoes DEF Step, notTurn
<1> QED
  BY <1>4, <1>5 DEF Route

LEMMA ProviderEndsStep ==
    ASSUME AiInv, NEW t \in Turn, ProviderEnds(t)
    PROVE  AiInv'
<1>1. Owns(t) /\ turn[t].pc = "wait" /\ UNCHANGED <<usage, notTurn>>
  BY DEF ProviderEnds, At, Owns, Owning
<1>2. usage[turn[t].req].started
  BY <1>1, OwnerFacts DEF OwnerOK
<1>3. PICK s \in {"succeeded", "failed", "unknown"}, n \in Nat : Settle(t, s, n)
  BY BudgetAssumption DEF ProviderEnds
<1> QED
  BY <1>1, <1>2, <1>3, OwnerSettles DEF Outcome, Settled

(* The one step that sends a request to the provider. *)
LEMMA SendStep ==
    ASSUME AiInv, NEW t \in Turn, SendToProvider(t)
    PROVE  AiInv'
<1> PICK r \in Request : turn[t].req = r
  BY DEF SendToProvider, At, AiInv, AiTypeOK
<1>1. /\ Owns(t) /\ turn[t].pc = "send"
      /\ UNCHANGED <<usage, staged, envelope, overdue, turnFaults>>
  BY DEF SendToProvider, At, Owns, Owning, Unsent
<1>2. OwnerOK(t) /\ RowOK(r)
  BY <1>1, OwnerFacts
<1>3. CASE Settle(t, "unknown", 0) /\ UNCHANGED called
  BY <1>1, <1>2, <1>3, OwnerSettles DEF Outcome, Unsent, OwnerOK, notTurn
<1>4. CASE Go(t, "wait") /\ called' = [called EXCEPT ![r] = @ + 1]
  <2>1. /\ turn' \in [Turn -> Invocation]
        /\ \A u \in Turn \ {t} : turn'[u] = turn[u]
        /\ \A u \in Turn : turn'[u].pc # "idle" => turn'[u].req \in Request
        /\ turn'[t].pc = "wait" /\ turn'[t].req = r
    BY <1>4, GoMoves DEF Step, AiInv
  <2>2. called[r] = 0
    BY <1>1, <1>2 DEF OwnerOK, Unsent
  <2>3. /\ called' \in [Request -> Nat] /\ called'[r] = 1
        /\ \A q \in Request \ {r} : called'[q] = called[q]
    BY <1>4, <2>2 DEF AiInv, AiTypeOK
  <2>4. AiTypeOK'
    BY <1>1, <2>1, <2>3 DEF AiInv, AiTypeOK
  <2>5. envelope[r] = "none" /\ usage[r].started /\ usage[r].status = "pending" /\ ~ Late(r)
    BY <1>1, <1>2 DEF OwnerOK, Unsent
  <2>6. RowOK(r)'
    BY <1>1, <1>2, <2>3, <2>5 DEF RowOK, Settled
  <2>7. OwnerOK(t)'
    BY <1>1, <2>1, <2>5 DEF OwnerOK, Unsent, Late
  <2>8. ConcurrencyRespected'
    BY <1>1 DEF AiInv, ConcurrencyRespected, InFlight
  <2> QED
    BY <1>1, <2>1, <2>3, <2>4, <2>5, <2>6, <2>7, <2>8, TurnMoves
<1> QED
  BY <1>3, <1>4 DEF SendToProvider

LEMMA AuthorizeTurnStep ==
    ASSUME AiInv, NEW t \in Turn, AuthorizeTurn(t)
    PROVE  AiInv'
<1> PICK r \in Request : turn[t].req = r
  BY DEF AuthorizeTurn, At, AiInv, AiTypeOK
<1>1. Owns(t) /\ turn[t].pc = "authorize" /\ UNCHANGED notTurn
  BY DEF AuthorizeTurn, At, Owns, Owning, Unsent
<1>2. OwnerOK(t) /\ RowOK(r)
  BY <1>1, OwnerFacts
<1>3. /\ envelope[r] = "none" /\ called[r] = 0 /\ usage[r].status = "pending"
      /\ ~ Late(r)
  BY <1>1, <1>2 DEF OwnerOK, Unsent
<1>4. PICK a \in {"allowed", "refused"} :
          /\ Authorize(r, a)
          /\ a = "allowed" => Go(t, "send")
          /\ a = "refused" => Settle(t, "denied", 0)
  BY DEF AuthorizeTurn
<1>5. /\ usage' \in [Request -> UsageRow]
      /\ \A q \in Request \ {r} : usage'[q] = usage[q]
      /\ \/ a = "refused" /\ usage'[r] = usage[r]
         \/ /\ a = "refused" /\ usage[r].status = "pending" /\ ~ usage[r].started
            /\ usage'[r].status = "denied" /\ ~ usage'[r].started /\ ~ usage'[r].held
         \/ /\ a = "allowed" /\ usage[r].status = "pending" /\ ~ usage[r].started
            /\ usage'[r].status = "pending" /\ usage'[r].started /\ usage'[r].held
      /\ ConcurrencyRespected'
  BY <1>4, AuthorizeRow DEF AiInv
<1>6. /\ turn' \in [Turn -> Invocation]
      /\ \A u \in Turn \ {t} : turn'[u] = turn[u]
      /\ \A u \in Turn : turn'[u].pc # "idle" => turn'[u].req \in Request
      /\ turn'[t].req = r
      /\ a = "allowed" => turn'[t].pc = "send"
      /\ a = "refused" => turn'[t].pc = "finish" /\ turn'[t].want = "denied"
  <2>1. CASE a = "allowed"
    BY <1>4, <2>1, GoMoves DEF Step, AiInv
  <2>2. CASE a = "refused"
    BY <1>4, <2>2, SettleMoves DEF Outcome, Settled, AiInv
  <2> QED
    BY <2>1, <2>2
<1>7. AiTypeOK'
  BY <1>1, <1>5, <1>6 DEF AiInv, AiTypeOK, notTurn
<1>8. called'[r] = 0 /\ envelope'[r] = "none" /\ ~ Late(r)'
  BY <1>1, <1>3 DEF notTurn, Late
<1>9. RowOK(r)'
  BY <1>2, <1>3, <1>5, <1>8 DEF RowOK, Settled
<1>10. OwnerOK(t)'
  BY <1>5, <1>6, <1>8, <1>3 DEF OwnerOK, Unsent
<1>11. /\ \A c \in overdue' : c.req = r /\ c.op = "finish" /\ c.want = "unknown" =>
              usage'[r].started
       /\ \A c \in overdue' : c \in overdue \/ c.req = r
       /\ \A q \in Request \ {r} : called'[q] = called[q] /\ envelope'[q] = envelope[q]
  BY <1>1, <1>8 DEF Late, notTurn
<1> QED
  BY <1>1, <1>5, <1>6, <1>7, <1>9, <1>10, <1>11, TurnMoves

(* A settlement keeps what is known of its row. *)
LEMMA FinishKeeps ==
    ASSUME AiInv, NEW r \in Request, NEW s \in Outcome, NEW n \in Nat, Finish(r, s, n),
           usage[r].status # "none", s = "unknown" => usage[r].started,
           UNCHANGED <<called, envelope>>
    PROVE  RowOK(r)' /\ usage'[r].status # "none" /\ ConcurrencyRespected'
<1>1. /\ \A q \in Request \ {r} : usage'[q] = usage[q]
      /\ usage[r].status \in Settled => usage'[r] = usage[r]
      /\ usage'[r].started = usage[r].started
      /\ usage[r].status \notin Settled =>
             /\ usage'[r].status = s
             /\ usage'[r].held <=> s = "unknown"
             /\ s = "unknown" => usage'[r].review = "pending"
  BY FinishRow DEF AiInv
<1>2. RowOK(r) /\ usage[r].status \in {"none", "pending"} \cup Outcome
  BY RowType DEF AiInv, Rows
<1>3. RowOK(r)' /\ usage'[r].status # "none"
  <2>1. CASE usage[r].status \in Settled
    BY <1>1, <1>2, <2>1 DEF RowOK, Settled
  <2>2. CASE usage[r].status \notin Settled
    BY <1>1, <1>2, <2>2 DEF RowOK, Settled, Outcome
  <2> QED
    BY <2>1, <2>2
<1>4. InFlight' \subseteq InFlight
  <2>1. r \in InFlight' => r \in InFlight
    BY <1>1, <1>2 DEF InFlight, Outcome, Settled
  <2> QED
    BY <1>1, <2>1 DEF InFlight
<1> QED
  BY <1>3, <1>4, FlightShrinks DEF AiInv

LEMMA AbortStep ==
    ASSUME AiInv, NEW t \in Turn, Abort(t)
    PROVE  AiInv'
<1> PICK r \in Request : turn[t].req = r
  BY DEF Abort, At, AiInv, AiTypeOK
<1>1. Owns(t) /\ turn[t].pc = "abort" /\ UNCHANGED notTurn /\ Finish(r, "failed", 0)
  BY DEF Abort, At, Owns, Owning, Unsent
<1>2. usage[r].status # "none" /\ ~ Late(r)
  BY <1>1, OwnerFacts DEF OwnerOK, Unsent
<1>3. RowOK(r)' /\ ConcurrencyRespected'
  BY <1>1, <1>2, FinishKeeps DEF Outcome, Settled, notTurn
<1>4. usage' \in [Request -> UsageRow] /\ \A q \in Request \ {r} : usage'[q] = usage[q]
  BY <1>1, FinishRow DEF Outcome, Settled, AiInv
<1>5. /\ turn' \in [Turn -> Invocation]
      /\ \A u \in Turn \ {t} : turn'[u] = turn[u]
      /\ \A u \in Turn : turn'[u].pc # "idle" => turn'[u].req \in Request
      /\ turn'[t].pc = "error" /\ turn'[t].req = r
  BY GoMoves DEF Abort, Step, AiInv
<1>6. AiTypeOK'
  BY <1>1, <1>4, <1>5 DEF AiInv, AiTypeOK, notTurn
<1>7. ~ Owns(t)'
  BY <1>5 DEF Owns, Owning, Unsent
<1>8. /\ \A c \in overdue' : c.req = r /\ c.op = "finish" /\ c.want = "unknown" =>
              usage'[r].started
      /\ \A c \in overdue' : c \in overdue \/ c.req = r
      /\ \A q \in Request \ {r} : called'[q] = called[q] /\ envelope'[q] = envelope[q]
  BY <1>1, <1>2 DEF Late, notTurn
<1> QED
  BY <1>1, <1>3, <1>4, <1>5, <1>6, <1>7, <1>8, TurnMoves

LEMMA FinishTurnStep ==
    ASSUME AiInv, NEW t \in Turn, FinishTurn(t)
    PROVE  AiInv'
<1> PICK r \in Request : turn[t].req = r
  BY DEF FinishTurn, At, AiInv, AiTypeOK
<1> DEFINE s == turn[t].want
<1>1. /\ Owns(t) /\ turn[t].pc = "finish" /\ UNCHANGED notTurn
      /\ Finish(r, s, turn[t].tokens)
  BY DEF FinishTurn, At, Owns, Owning, Unsent
<1>2. OwnerOK(t) /\ RowOK(r)
  BY <1>1, OwnerFacts
<1>3. s \in Outcome /\ turn[t].tokens \in Nat
  BY DEF AiInv, AiTypeOK, Invocation
<1>4. /\ usage[r].status # "none" /\ envelope[r] = "none"
      /\ s = "unknown" => usage[r].started
      /\ s \in {"denied", "embedded"} => called[r] = 0
      /\ s \in Settled => usage[r].status = "pending" \/ usage[r].status = s
  BY <1>1, <1>2 DEF OwnerOK
<1>5. RowOK(r)' /\ ConcurrencyRespected' /\ usage'[r].status # "none"
  BY <1>1, <1>3, <1>4, FinishKeeps DEF notTurn
<1>6. /\ usage' \in [Request -> UsageRow] /\ \A q \in Request \ {r} : usage'[q] = usage[q]
      /\ usage'[r].started = usage[r].started
      /\ usage[r].status \in Settled => usage'[r] = usage[r]
      /\ usage[r].status \notin Settled => usage'[r].status = s
  BY <1>1, <1>3, FinishRow DEF AiInv
<1>7. /\ turn' \in [Turn -> Invocation]
      /\ \A u \in Turn \ {t} : turn'[u] = turn[u]
      /\ \A u \in Turn : turn'[u].pc # "idle" => turn'[u].req \in Request
      /\ turn'[t].pc = "output" /\ turn'[t].req = r /\ turn'[t].want = s
  BY GoMoves DEF FinishTurn, Step, AiInv
<1>8. AiTypeOK'
  BY <1>1, <1>6, <1>7 DEF AiInv, AiTypeOK, notTurn
<1>9. s \in Settled => usage'[r].status = s
  BY <1>4, <1>6 DEF Settled
<1>10. OwnerOK(t)'
  BY <1>1, <1>4, <1>5, <1>6, <1>7, <1>9 DEF OwnerOK, Unsent, notTurn
<1>11. /\ \A c \in overdue' : c.req = r /\ c.op = "finish" /\ c.want = "unknown" =>
              usage'[r].started
       /\ \A c \in overdue' : c \in overdue \/ c.req = r
       /\ \A q \in Request \ {r} : called'[q] = called[q] /\ envelope'[q] = envelope[q]
  BY <1>1, <1>6 DEF AiInv, LateUnknown, notTurn
<1> QED
  BY <1>1, <1>5, <1>6, <1>7, <1>8, <1>10, <1>11, TurnMoves

LEMMA StageOutputStep ==
    ASSUME AiInv, NEW t \in Turn, StageOutput(t)
    PROVE  AiInv'
<1>1. /\ Owns(t) /\ turn[t].pc = "output" /\ Go(t, "envelope")
      /\ UNCHANGED <<usage, called, envelope, overdue, turnFaults>>
  BY DEF StageOutput, At, Owns, Owning
<1>2. staged' \in [Request -> SUBSET {"human", "assistant"}]
  BY DEF StageOutput, AiInv, AiTypeOK
<1> QED
  BY <1>1, <1>2, OwnerGoes DEF Step

(* The envelope is stored, whether or not the turn hears of it. *)
LEMMA EnvelopeStored ==
    ASSUME AiInv, NEW t \in Turn, turn[t].pc = "envelope",
           envelope' = [envelope EXCEPT ![turn[t].req] = turn[t].want],
           NEW pc \in {"done", "error"}, Go(t, pc), turnFaults' \in Nat,
           UNCHANGED <<usage, called, staged, overdue>>
    PROVE  AiInv'
<1> PICK r \in Request : turn[t].req = r
  BY DEF AiInv, AiTypeOK
<1>1. Owns(t)
  BY DEF Owns, Owning
<1>2. OwnerOK(t) /\ RowOK(r) /\ turn[t].want \in Outcome
  BY <1>1, OwnerFacts DEF AiInv, AiTypeOK, Invocation
<1>3. /\ turn' \in [Turn -> Invocation]
      /\ \A u \in Turn \ {t} : turn'[u] = turn[u]
      /\ \A u \in Turn : turn'[u].pc # "idle" => turn'[u].req \in Request
      /\ turn'[t].pc = pc /\ turn'[t].req = r
  BY GoMoves DEF Step, AiInv
<1>4. /\ envelope' \in [Request -> Outcome \cup {"none"}] /\ envelope'[r] = turn[t].want
      /\ \A q \in Request \ {r} : envelope'[q] = envelope[q]
  BY <1>2 DEF AiInv, AiTypeOK
<1>5. AiTypeOK'
  BY <1>3, <1>4 DEF AiInv, AiTypeOK
<1>6. RowOK(r)'
  BY <1>2, <1>4 DEF OwnerOK, RowOK
<1>7. ~ Owns(t)'
  BY <1>3 DEF Owns, Owning, Unsent
<1>8. ConcurrencyRespected'
  BY DEF AiInv, ConcurrencyRespected, InFlight
<1>9. \A c \in overdue' : c.req = r /\ c.op = "finish" /\ c.want = "unknown" =>
          usage'[r].started
  BY DEF AiInv, LateUnknown
<1> QED
  BY <1>1, <1>3, <1>4, <1>5, <1>6, <1>7, <1>8, <1>9, TurnMoves

LEMMA StageEnvelopeStep ==
    ASSUME AiInv, NEW t \in Turn, StageEnvelope(t)
    PROVE  AiInv'
<1>1. turn[t].pc = "envelope" /\ Go(t, "done") /\ turnFaults' \in Nat
  BY DEF StageEnvelope, At, AiInv, AiTypeOK
<1> QED
  BY <1>1, EnvelopeStored DEF StageEnvelope

-----------------------------------------------------------------------------
(* Faults *)

LEMMA ErrorCases ==
    ASSUME NEW t \in Turn, OnError(t)
    PROVE  \/ turn[t].pc = "stage" /\ Go(t, "abort")
           \/ turn[t].pc = "finish" /\ turn[t].want = "succeeded" /\ Settle(t, "unknown", 0)
           \/ Go(t, "error")
BY DEF OnError, At

LEMMA RpcOfTurn ==
    ASSUME AiInv, NEW t \in Turn, turn[t].pc \in RpcStep
    PROVE  /\ RpcOf(t) \in Rpc /\ RpcOf(t).req = turn[t].req
           /\ turn[t].pc = "begin" => RpcOf(t).op = "begin"
           /\ RpcOf(t).op = "finish" /\ RpcOf(t).want = "unknown" =>
                  usage[turn[t].req].started
<1>1. turn[t] \in Invocation /\ turn[t].req \in Request
  BY DEF RpcStep, AiInv, AiTypeOK
<1>2. RpcOf(t) \in Rpc /\ RpcOf(t).req = turn[t].req
        /\ RpcOf(t).op = (IF turn[t].pc = "abort" THEN "finish" ELSE turn[t].pc)
        /\ RpcOf(t).want = IF turn[t].pc = "abort" THEN "failed" ELSE turn[t].want
  BY <1>1 DEF RpcOf, Rpc, RpcStep, At, Invocation, Outcome, Settled
<1>3. turn[t].pc = "finish" /\ turn[t].want = "unknown" => usage[turn[t].req].started
  <2>1. turn[t].pc = "finish" => Owns(t)
    BY DEF Owns, Owning
  <2> QED
    BY <2>1, OwnerFacts DEF OwnerOK
<1> QED
  BY <1>2, <1>3 DEF RpcStep

(* What a failing step leaves behind: its call, if it made one. *)
LeavesBehind(t) ==
    \/ overdue' = overdue
    \/ turn[t].pc \in RpcStep /\ overdue' = overdue \cup {RpcOf(t)}

LEMMA OwnerFails ==
    ASSUME AiInv, NEW t \in Turn, Owns(t), OnError(t) \/ Go(t, "error"), LeavesBehind(t),
           UNCHANGED <<usage, called, envelope>>, turnFaults' \in Nat,
           staged' \in [Request -> SUBSET {"human", "assistant"}]
    PROVE  AiInv'
<1>1. turn[t].req \in Request /\ OwnerOK(t)
  BY OwnerFacts
<1>2. /\ overdue' \subseteq Rpc
      /\ \A c \in overdue' : c \in overdue \/ c.req = turn[t].req
      /\ \A c \in overdue' : c.req = turn[t].req /\ c.op = "finish" /\ c.want = "unknown" =>
             usage[turn[t].req].started
  <2>1. \A c \in overdue : c.op = "finish" /\ c.want = "unknown" => usage[c.req].started
    BY DEF AiInv, LateUnknown
  <2>2. overdue \subseteq Rpc
    BY DEF AiInv, AiTypeOK
  <2>3. CASE overdue' = overdue
    BY <2>1, <2>2, <2>3
  <2>4. CASE turn[t].pc \in RpcStep /\ overdue' = overdue \cup {RpcOf(t)}
    BY <2>1, <2>2, <2>4, RpcOfTurn
  <2> QED
    BY <2>3, <2>4 DEF LeavesBehind
<1>3. /\ turn' \in [Turn -> Invocation]
      /\ \A u \in Turn \ {t} : turn'[u] = turn[u]
      /\ \A u \in Turn : turn'[u].pc # "idle" => turn'[u].req \in Request
      /\ turn'[t].req = turn[t].req
      /\ \/ turn[t].pc = "stage" /\ turn'[t].pc = "abort"
         \/ /\ turn[t].pc = "finish" /\ turn[t].want = "succeeded"
            /\ turn'[t].pc = "finish" /\ turn'[t].want = "unknown"
         \/ turn'[t].pc = "error"
  <2>1. CASE turn[t].pc = "stage" /\ Go(t, "abort")
    BY <1>1, <2>1, GoMoves DEF AiInv, Step
  <2>2. CASE turn[t].pc = "finish" /\ turn[t].want = "succeeded" /\ Settle(t, "unknown", 0)
    BY <1>1, <2>2, SettleMoves DEF AiInv, Outcome
  <2>3. CASE Go(t, "error")
    BY <1>1, <2>3, GoMoves DEF AiInv, Step
  <2> QED
    BY <2>1, <2>2, <2>3, ErrorCases
<1>4. AiTypeOK'
  BY <1>2, <1>3 DEF AiInv, AiTypeOK
<1>5. Owns(t)' => OwnerOK(t)'
  <2>1. CASE turn[t].pc = "stage" /\ turn'[t].pc = "abort"
    <3>1. overdue' = overdue
      BY <2>1 DEF LeavesBehind, RpcStep
    <3> QED
      BY <1>1, <1>3, <2>1, <3>1 DEF OwnerOK, Unsent, Late
  <2>2. CASE /\ turn[t].pc = "finish" /\ turn[t].want = "succeeded"
             /\ turn'[t].pc = "finish" /\ turn'[t].want = "unknown"
    BY <1>1, <1>3, <2>2 DEF OwnerOK, Unsent, Settled
  <2>3. CASE turn'[t].pc = "error"
    BY <2>3 DEF Owns, Owning, Unsent
  <2> QED
    BY <1>3, <2>1, <2>2, <2>3
<1> QED
  BY <1>2, <1>3, <1>4, <1>5, OwnerMoves

LEMMA StrangerFails ==
    ASSUME AiInv, NEW t \in Turn, turn[t].pc \in {"begin", "cached"},
           OnError(t) \/ Go(t, "error"), LeavesBehind(t),
           UNCHANGED <<usage, called, staged, envelope>>, turnFaults' \in Nat
    PROVE  AiInv'
<1>1. turn[t].req \in Request
  BY DEF AiInv, AiTypeOK
<1>2. Go(t, "error")
  BY ErrorCases
<1>3. /\ turn' \in [Turn -> Invocation]
      /\ \A u \in Turn \ {t} : turn'[u] = turn[u]
      /\ \A u \in Turn : turn'[u].pc # "idle" => turn'[u].req \in Request
      /\ turn'[t].pc = "error"
  BY <1>1, <1>2, GoMoves DEF AiInv, Step
<1>4. overdue' \subseteq Rpc /\ \A c \in overdue' : c \in overdue \/ c.op = "begin"
  <2>1. overdue \subseteq Rpc
    BY DEF AiInv, AiTypeOK
  <2>2. CASE overdue' = overdue
    BY <2>1, <2>2
  <2>3. CASE turn[t].pc \in RpcStep /\ overdue' = overdue \cup {RpcOf(t)}
    <3>1. turn[t].pc = "begin"
      BY <2>3 DEF RpcStep
    <3> QED
      BY <2>1, <2>3, <3>1, RpcOfTurn
  <2> QED
    BY <2>2, <2>3 DEF LeavesBehind
<1>5. AiTypeOK'
  BY <1>3, <1>4 DEF AiInv, AiTypeOK
<1>6. ~ Owns(t)'
  BY <1>3 DEF Owns, Owning, Unsent
<1> QED
  BY <1>3, <1>4, <1>5, <1>6, StrangerMoves

LEMMA DisturbStep ==
    ASSUME AiInv, NEW t \in Turn, Disturb(t)
    PROVE  AiInv'
<1>1. turnFaults' \in Nat /\ staged \in [Request -> SUBSET {"human", "assistant"}]
  BY DEF Disturb, CallFails, GiveUpOn, StagingAnswerLost, TurnDies, TurnFault, AiInv, AiTypeOK
<1>2. turn[t].pc \in Step
  BY DEF AiInv, AiTypeOK, Invocation
<1>3. CASE CallFails(t) \/ GiveUpOn(t) \/ TurnDies(t)
  <2>1. /\ OnError(t) \/ Go(t, "error")
        /\ LeavesBehind(t)
        /\ UNCHANGED <<usage, called, staged, envelope>>
        /\ turn[t].pc \notin {"idle", "done", "error"}
    BY <1>3 DEF CallFails, GiveUpOn, TurnDies, LeavesBehind, RpcStep
  <2>2. turn[t].pc \in {"begin", "cached"} \/ Owns(t)
    BY <1>2, <2>1 DEF Step, Owns, Owning, Unsent
  <2>3. CASE turn[t].pc \in {"begin", "cached"}
    BY <1>1, <2>1, <2>3, StrangerFails
  <2>4. CASE Owns(t)
    BY <1>1, <2>1, <2>4, OwnerFails
  <2> QED
    BY <2>2, <2>3, <2>4
<1>4. CASE StagingAnswerLost(t)
  <2>1. turn[t].req \in Request \/ turn[t].pc = "idle"
    BY DEF AiInv, AiTypeOK
  <2>2. CASE turn[t].pc \in {"stage", "output"} /\ UNCHANGED envelope
    <3>1. Owns(t) /\ LeavesBehind(t)
      BY <1>4, <2>2 DEF StagingAnswerLost, Owns, Owning, Unsent, LeavesBehind
    <3>2. staged' \in [Request -> SUBSET {"human", "assistant"}]
      BY <1>1, <1>4, <2>2 DEF StagingAnswerLost, At
    <3> QED
      BY <1>1, <1>4, <2>2, <3>1, <3>2, OwnerFails DEF StagingAnswerLost
  <2>3. CASE /\ turn[t].pc = "envelope" /\ UNCHANGED staged
             /\ envelope' = [envelope EXCEPT ![turn[t].req] = turn[t].want]
    <3>1. Go(t, "error")
      BY <1>4, <2>3, ErrorCases DEF StagingAnswerLost
    <3> QED
      BY <1>1, <1>4, <2>3, <3>1, EnvelopeStored DEF StagingAnswerLost
  <2> QED
    BY <1>4, <2>2, <2>3 DEF StagingAnswerLost, At
<1> QED
  BY <1>3, <1>4 DEF Disturb

-----------------------------------------------------------------------------
(* Late calls and admins *)

(* A turn whose request may still be changed by others has sent it, and     *)
(* settles it as unknown or has settled it.                                 *)
LEMMA OwnerStays ==
    ASSUME AiInv, UNCHANGED <<turn, called, envelope>>, overdue' \subseteq overdue,
           NEW r \in Request, Late(r) \/ usage[r].status = "unknown",
           usage[r].started => usage'[r].started,
           usage'[r].status # "none",
           usage[r].status \in Settled => usage'[r].status = usage[r].status,
           NEW u \in Turn, Owns(u), turn[u].req = r
    PROVE  OwnerOK(u)'
<1>1. OwnerOK(u)
  BY DEF AiInv, Owners
<1>2. turn[u].pc \notin Unsent \cup {"wait"}
  BY <1>1 DEF OwnerOK
<1>3. turn[u].pc = "finish" => turn[u].want \notin Settled
  BY <1>1 DEF OwnerOK, Settled
<1>4. turn'[u] = turn[u] /\ turn'[u].req = r
  OBVIOUS
<1>5. turn[u].pc = "finish" => turn[u].want # "succeeded"
  BY <1>3 DEF Settled
<1> QED
  BY <1>1, <1>2, <1>3, <1>4, <1>5 DEF OwnerOK, Unsent

LEMMA ReconcileStep ==
    ASSUME AiInv, NEW r \in Request, ReconcileUnknown(r)
    PROVE  AiInv'
<1>1. /\ usage[r] \in UsageRow /\ usage \in [Request -> UsageRow]
      /\ usage[r].status = "unknown" /\ RowOK(r)
      /\ UNCHANGED <<turn, called, staged, envelope, overdue, turnFaults>>
  BY DEF ReconcileUnknown, Listed, AiInv, AiTypeOK, Rows
<1>2. \E row \in UsageRow :
          /\ usage' = [usage EXCEPT ![r] = row]
          /\ row.status \in {"succeeded", "failed"} /\ row.started = usage[r].started
          /\ row.held = FALSE
  <2>1. ASSUME NEW n \in Usage,
               usage' = [usage EXCEPT ![r] =
                   [usage[r] EXCEPT !.status = "succeeded", !.tokens = n, !.held = FALSE,
                                    !.reserved = 0, !.review = "resolved"]]
        PROVE  \E row \in UsageRow :
                   /\ usage' = [usage EXCEPT ![r] = row]
                   /\ row.status \in {"succeeded", "failed"} /\ row.started = usage[r].started
                   /\ row.held = FALSE
    <3> DEFINE row == [usage[r] EXCEPT !.status = "succeeded", !.tokens = n, !.held = FALSE,
                                       !.reserved = 0, !.review = "resolved"]
    <3>1. /\ row \in UsageRow /\ row.status = "succeeded" /\ row.started = usage[r].started
          /\ row.held = FALSE
      BY <1>1, BudgetAssumption DEF UsageRow, Outcome, Settled
    <3> QED
      BY <2>1, <3>1
  <2>2. ASSUME usage' = [usage EXCEPT ![r] =
                   [usage[r] EXCEPT !.status = "failed", !.held = FALSE,
                                    !.reserved = 0, !.review = "resolved"]]
        PROVE  \E row \in UsageRow :
                   /\ usage' = [usage EXCEPT ![r] = row]
                   /\ row.status \in {"succeeded", "failed"} /\ row.started = usage[r].started
                   /\ row.held = FALSE
    <3> DEFINE row == [usage[r] EXCEPT !.status = "failed", !.held = FALSE,
                                       !.reserved = 0, !.review = "resolved"]
    <3>1. /\ row \in UsageRow /\ row.status = "failed" /\ row.started = usage[r].started
          /\ row.held = FALSE
      BY <1>1 DEF UsageRow, Outcome, Settled
    <3> QED
      BY <2>2, <3>1
  <2> QED
    BY <2>1, <2>2 DEF ReconcileUnknown
<1>3. /\ usage' \in [Request -> UsageRow]
      /\ \A q \in Request \ {r} : usage'[q] = usage[q]
      /\ usage'[r].status \in {"succeeded", "failed"}
      /\ usage'[r].started = usage[r].started
      /\ usage'[r].held = FALSE
  BY <1>1, <1>2
<1>4. AiTypeOK'
  BY <1>1, <1>3 DEF AiInv, AiTypeOK
<1>5. RowOK(r)'
  BY <1>1, <1>3 DEF RowOK, Settled
<1>6. ConcurrencyRespected'
  <2>1. InFlight' \subseteq InFlight
    BY <1>3 DEF InFlight
  <2> QED
    BY <2>1, FlightShrinks DEF AiInv
<1>7. \A u \in Turn : Owns(u) /\ turn[u].req = r => OwnerOK(u)'
  BY <1>1, <1>3, OwnerStays DEF Settled
<1> QED
  BY <1>1, <1>3, <1>4, <1>5, <1>6, <1>7, RowMoves

LEMMA ExecuteOverdueStep ==
    ASSUME AiInv, NEW c \in overdue, ExecuteOverdue(c)
    PROVE  AiInv'
<1> PICK r \in Request : c.req = r
  BY DEF AiInv, AiTypeOK, Rpc
<1>1. /\ c.want \in Outcome /\ c.tokens \in Nat /\ RowOK(r) /\ usage[r] \in UsageRow
      /\ overdue' \subseteq overdue /\ overdue' \subseteq Rpc
      /\ UNCHANGED <<turn, called, staged, envelope, turnFaults>>
  BY DEF ExecuteOverdue, AiInv, AiTypeOK, Rpc, Rows
<1>2. CASE c.op = "begin" /\ Begin(r)
  <2>1. /\ usage' \in [Request -> UsageRow]
        /\ \A q \in Request \ {r} : usage'[q] = usage[q]
        /\ usage[r].status # "none" => usage'[r] = usage[r]
        /\ usage'[r] = [usage[r] EXCEPT !.status = usage'[r].status]
        /\ usage[r].status = "none" => usage'[r].status = "pending"
    BY <1>2, BeginRow DEF AiInv
  <2>2. usage'[r].started = usage[r].started /\ usage'[r].held = usage[r].held
          /\ usage'[r].review = usage[r].review
    BY <1>1, <2>1 DEF UsageRow
  <2>3. AiTypeOK'
    BY <1>1, <2>1 DEF AiInv, AiTypeOK
  <2>4. Late(r)' => Late(r)
    BY <1>1 DEF Late
  <2>5. RowOK(r)'
    <3>1. CASE usage[r].status = "none"
      BY <1>1, <2>1, <2>2, <3>1 DEF RowOK, Settled
    <3>2. CASE usage[r].status # "none"
      BY <1>1, <2>1, <2>4, <3>2 DEF RowOK
    <3> QED
      BY <3>1, <3>2
  <2>6. ConcurrencyRespected'
    <3>1. usage[r].status = "none" => ~ usage[r].started
      BY <1>1 DEF RowOK
    <3>2. InFlight' \subseteq InFlight
      BY <2>1, <2>2, <3>1 DEF InFlight
    <3> QED
      BY <3>2, FlightShrinks DEF AiInv
  <2>7. \A u \in Turn : Owns(u) /\ turn[u].req = r => OwnerOK(u)'
    <3> SUFFICES ASSUME NEW u \in Turn, Owns(u), turn[u].req = r PROVE OwnerOK(u)'
      OBVIOUS
    <3>1. OwnerOK(u)
      BY DEF AiInv, Owners
    <3>2. usage'[r] = usage[r] /\ turn'[u] = turn[u]
      BY <1>1, <2>1, <3>1 DEF OwnerOK
    <3> QED
      BY <1>1, <2>4, <3>1, <3>2 DEF OwnerOK
  <2> QED
    BY <1>1, <2>1, <2>2, <2>3, <2>5, <2>6, <2>7, RowMoves
<1>3. c.op # "begin" => Late(r) /\ usage[r].status # "none"
  BY <1>1 DEF Late, RowOK
<1>4. ASSUME c.op = "authorize", NEW a \in {"allowed", "refused"}, Authorize(r, a)
      PROVE  AiInv'
  <2>1. /\ usage' \in [Request -> UsageRow]
        /\ \A q \in Request \ {r} : usage'[q] = usage[q]
        /\ \/ a = "refused" /\ usage'[r] = usage[r]
           \/ /\ a = "refused" /\ usage[r].status = "pending" /\ ~ usage[r].started
              /\ usage'[r].status = "denied" /\ ~ usage'[r].started /\ ~ usage'[r].held
           \/ /\ a = "allowed" /\ usage[r].status = "pending" /\ ~ usage[r].started
              /\ usage'[r].status = "pending" /\ usage'[r].started /\ usage'[r].held
        /\ ConcurrencyRespected'
    BY <1>4, AuthorizeRow DEF AiInv
  <2>2. AiTypeOK'
    BY <1>1, <2>1 DEF AiInv, AiTypeOK
  <2>3. Late(r) /\ usage[r].status # "none"
    BY <1>3, <1>4
  <2>4. RowOK(r)'
    BY <1>1, <2>1, <2>3 DEF RowOK, Settled
  <2>5. /\ usage[r].started => usage'[r].started
        /\ usage'[r].status # "none"
        /\ usage[r].status \in Settled => usage'[r].status = usage[r].status
    BY <2>1, <2>3 DEF Settled
  <2>6. \A u \in Turn : Owns(u) /\ turn[u].req = r => OwnerOK(u)'
    BY <1>1, <2>3, <2>5, OwnerStays
  <2> QED
    BY <1>1, <2>1, <2>2, <2>4, <2>5, <2>6, RowMoves
<1>5. CASE c.op = "finish" /\ Finish(r, c.want, c.tokens)
  <2>1. c.want = "unknown" => usage[r].started
    BY <1>5 DEF AiInv, LateUnknown
  <2>2. Late(r) /\ usage[r].status # "none"
    BY <1>3, <1>5
  <2>3. RowOK(r)' /\ usage'[r].status # "none" /\ ConcurrencyRespected'
    BY <1>1, <1>5, <2>1, <2>2, FinishKeeps
  <2>4. /\ usage' \in [Request -> UsageRow]
        /\ \A q \in Request \ {r} : usage'[q] = usage[q]
        /\ usage[r].status \in Settled => usage'[r] = usage[r]
        /\ usage'[r].started = usage[r].started
    BY <1>1, <1>5, FinishRow DEF AiInv
  <2>5. AiTypeOK'
    BY <1>1, <2>4 DEF AiInv, AiTypeOK
  <2>6. \A u \in Turn : Owns(u) /\ turn[u].req = r => OwnerOK(u)'
    BY <1>1, <2>2, <2>3, <2>4, OwnerStays
  <2> QED
    BY <1>1, <2>3, <2>4, <2>5, <2>6, RowMoves
<1> QED
  BY <1>2, <1>4, <1>5 DEF ExecuteOverdue

-----------------------------------------------------------------------------
LEMMA ProceedStep ==
    ASSUME AiInv, NEW t \in Turn, Proceed(t)
    PROVE  AiInv'
BY BeginTurnStep, LoadCachedStep, StageInputStep, AbortStep, RouteStep, AuthorizeTurnStep,
   SendStep, ProviderEndsStep, FinishTurnStep, StageOutputStep, StageEnvelopeStep DEF Proceed

LEMMA AiStep == AiInv /\ [AiNext]_aiVars => AiInv'
<1> SUFFICES ASSUME AiInv, [AiNext]_aiVars PROVE AiInv'
  OBVIOUS
<1>1. ASSUME NEW t \in Turn, (\E r \in Request : StartTurn(t, r)) \/ Proceed(t) \/ Disturb(t)
      PROVE  AiInv'
  BY <1>1, StartTurnStep, ProceedStep, DisturbStep
<1>2. CASE \E r \in Request : ReconcileUnknown(r)
  BY <1>2, ReconcileStep
<1>3. CASE \E c \in overdue : ExecuteOverdue(c)
  BY <1>3, ExecuteOverdueStep
<1>4. CASE UNCHANGED aiVars
  <2>1. \A x : Late(x)' <=> Late(x)
    BY <1>4 DEF aiVars, Late
  <2>2. Rows'
    BY <1>4, <2>1 DEF aiVars, AiInv, Rows, RowOK
  <2>3. Owners'
    <3> SUFFICES ASSUME NEW t \in Turn, Owns(t) PROVE OwnerOK(t)'
      BY <1>4 DEF aiVars, Owners, Owns
    <3>1. OwnerOK(t)
      BY DEF AiInv, Owners
    <3> QED
      BY <1>4, <2>1, <3>1 DEF aiVars, OwnerOK
  <2>4. AiTypeOK' /\ OneOwner' /\ LateUnknown' /\ ConcurrencyRespected'
    BY <1>4 DEF aiVars, AiInv, AiTypeOK, OneOwner, Owns, LateUnknown, ConcurrencyRespected,
                InFlight
  <2> QED
    BY <2>2, <2>3, <2>4 DEF AiInv
<1> QED
  BY <1>1, <1>2, <1>3, <1>4 DEF AiNext

(* The inductive invariant: one turn at most owns a request, what it knows  *)
(* of the request's row still holds, and no late call contradicts it.       *)
THEOREM AiInvariance == AiSpec => []AiInv
<1> QED
  BY AiInitial, AiStep, PTL DEF AiSpec

(* Usage rows, turns and late calls stay well formed. *)
THEOREM AiTypeInvariance == AiSpec => []AiTypeOK
<1>1. AiInv => AiTypeOK
  BY DEF AiInv
<1> QED
  BY <1>1, AiInvariance, PTL

(* Whatever is retried, lost, late or concurrent, the provider is sent a    *)
(* client request once, and under a reservation: the claim by               *)
(* begin_datanest_ai_request, then the guard of service_authorize_ai_request.*)
THEOREM AlwaysSentOnceUnderReservation == AiSpec => []SentOnceUnderReservation
<1>1. AiInv => SentOnceUnderReservation
  <2> SUFFICES ASSUME AiInv PROVE SentOnceUnderReservation
    OBVIOUS
  <2>1. \A r \in Request : called[r] <= 1
    BY DEF AiInv, Rows, RowOK
  <2>2. ASSUME NEW t \in Turn, At(t, "wait")
        PROVE  turn[t].req \in InFlight /\ usage[turn[t].req].held
    <3>1. Owns(t) /\ turn[t].pc = "wait"
      BY <2>2 DEF At, Owns, Owning
    <3>2. turn[t].req \in Request /\ OwnerOK(t) /\ RowOK(turn[t].req)
      BY <3>1, OwnerFacts
    <3> QED
      BY <3>1, <3>2 DEF OwnerOK, RowOK, InFlight
  <2> QED
    BY <2>1, <2>2 DEF SentOnceUnderReservation
<1> QED
  BY <1>1, AiInvariance, PTL

(* No interleaving of authorizations exceeds the concurrency limit: each    *)
(* counts the requests in flight under the user's advisory lock.            *)
THEOREM ConcurrencyAlwaysRespected == AiSpec => []ConcurrencyRespected
<1>1. AiInv => ConcurrencyRespected
  BY DEF AiInv
<1> QED
  BY <1>1, AiInvariance, PTL

(* A reservation is held from the authorization until the outcome is known, *)
(* and only unknown outcomes wait for an admin: service_finish_ai_request.  *)
THEOREM AlwaysHeldUntilKnown == AiSpec => []HeldUntilKnown
<1>1. AiInv => HeldUntilKnown
  BY DEF AiInv, Rows, RowOK, HeldUntilKnown, Listed
<1> QED
  BY <1>1, AiInvariance, PTL

(* The reasoning envelope of a turn says what the usage ledger says, though *)
(* the two are in different databases and written one after the other.      *)
THEOREM EnvelopeIsAlwaysHonest == AiSpec => []EnvelopeIsHonest
<1>1. AiInv => EnvelopeIsHonest
  BY DEF AiInv, Rows, RowOK, EnvelopeIsHonest
<1> QED
  BY <1>1, AiInvariance, PTL

(* A settled row never changes again: every RPC that writes looks at the    *)
(* status under the row's lock.                                             *)
THEOREM SettledRowsAreFinal == AiSpec => SettledIsFinal
<1>1. ASSUME AiInv, [AiNext]_aiVars, NEW r \in Request, usage[r].status \in Settled
      PROVE  usage'[r] = usage[r]
  <2>1. CASE UNCHANGED usage
    BY <2>1
  <2>2. ASSUME NEW q \in Request, Begin(q) PROVE usage'[r] = usage[r]
    <3>1. /\ \A x \in Request \ {q} : usage'[x] = usage[x]
          /\ usage[q].status # "none" => usage'[q] = usage[q]
      BY <1>1, <2>2, BeginRow DEF AiInv
    <3> QED
      BY <1>1, <3>1 DEF Settled
  <2>3. ASSUME NEW q \in Request, NEW s \in Outcome, NEW n \in Nat, Finish(q, s, n)
        PROVE  usage'[r] = usage[r]
    <3>1. /\ \A x \in Request \ {q} : usage'[x] = usage[x]
          /\ usage[q].status \in Settled => usage'[q] = usage[q]
      BY <1>1, <2>3, FinishRow DEF AiInv
    <3> QED
      BY <1>1, <3>1
  <2>4. ASSUME NEW q \in Request, NEW a, Authorize(q, a) PROVE usage'[r] = usage[r]
    <3>1. /\ \A x \in Request \ {q} : usage'[x] = usage[x]
          /\ usage'[q] = usage[q] \/ usage[q].status = "pending"
      BY <1>1, <2>4, AuthorizeRow DEF AiInv
    <3> QED
      BY <1>1, <3>1 DEF Settled
  <2>5. ASSUME NEW t \in Turn, (\E q \in Request : StartTurn(t, q)) \/ Proceed(t) \/ Disturb(t)
        PROVE  usage'[r] = usage[r]
    <3>1. /\ turn[t].want \in Outcome /\ turn[t].tokens \in Nat
          /\ turn[t].pc # "idle" => turn[t].req \in Request
      BY <1>1 DEF AiInv, AiTypeOK, Invocation
    <3>2. \/ UNCHANGED usage
          \/ turn[t].pc # "idle" /\ Begin(turn[t].req)
          \/ turn[t].pc # "idle" /\ Finish(turn[t].req, "failed", 0)
          \/ turn[t].pc # "idle" /\ Finish(turn[t].req, turn[t].want, turn[t].tokens)
          \/ turn[t].pc # "idle" /\ \E a : Authorize(turn[t].req, a)
      <4>1. CASE \E q \in Request : StartTurn(t, q)
        BY <4>1 DEF StartTurn
      <4>2. CASE Disturb(t)
        BY <4>2 DEF Disturb, CallFails, GiveUpOn, StagingAnswerLost, TurnDies
      <4>3. CASE BeginTurn(t) \/ Abort(t) \/ FinishTurn(t) \/ AuthorizeTurn(t)
        BY <4>3 DEF BeginTurn, Abort, FinishTurn, AuthorizeTurn, At
      <4>4. CASE LoadCached(t) \/ StageInput(t) \/ Route(t) \/ SendToProvider(t)
                   \/ ProviderEnds(t) \/ StageOutput(t) \/ StageEnvelope(t)
        BY <4>4 DEF LoadCached, StageInput, Route, SendToProvider, ProviderEnds, StageOutput,
                    StageEnvelope
      <4> QED
        BY <2>5, <4>1, <4>2, <4>3, <4>4 DEF Proceed
    <3> QED
      BY <2>1, <2>2, <2>3, <2>4, <3>1, <3>2 DEF Outcome, Settled
  <2>6. CASE \E q \in Request : ReconcileUnknown(q)
    <3> PICK q \in Request : ReconcileUnknown(q)
      BY <2>6
    <3>1. q # r
      BY <1>1 DEF ReconcileUnknown, Listed, Settled
    <3> QED
      BY <1>1, <3>1 DEF ReconcileUnknown, AiInv, AiTypeOK
  <2>7. CASE \E c \in overdue : ExecuteOverdue(c)
    <3> PICK c \in overdue : ExecuteOverdue(c)
      BY <2>7
    <3>1. c.req \in Request /\ c.want \in Outcome /\ c.tokens \in Nat
      BY <1>1 DEF AiInv, AiTypeOK, Rpc
    <3> QED
      BY <2>2, <2>3, <2>4, <3>1 DEF ExecuteOverdue
  <2>8. CASE UNCHANGED aiVars
    BY <2>1, <2>8 DEF aiVars
  <2> QED
    BY <1>1, <2>5, <2>6, <2>7, <2>8 DEF AiNext
<1>2. AiInv /\ [AiNext]_aiVars =>
        [ \A r \in Request : usage[r].status \in Settled => usage'[r] = usage[r] ]_aiVars
  BY <1>1
<1> QED
  BY <1>2, AiInvariance, PTL DEF AiSpec, SettledIsFinal

-----------------------------------------------------------------------------
(* The monthly budget *)

(* A reservation is of the whole output limit, and an unknown outcome is of *)
(* a call that was authorized.                                              *)
ReservationOK(r) ==
    /\ usage[r].held => usage[r].reserved = MaxOutput
    /\ usage[r].status = "unknown" => usage[r].started

Reservations == \A r \in Request : ReservationOK(r)

(* Late settlements of success, too, are of authorized calls only. *)
LateSuccess == \A c \in overdue : c.op = "finish" /\ c.want = "succeeded" => usage[c.req].started

BudgetInv == AiInv /\ Reservations /\ LateSuccess /\ BudgetRespected

Commitments == [r \in Request |-> Committed(r)]
Excesses == [r \in Request |-> Excess(r)]

LEMMA SumsOfUsage ==
    /\ TotalCommitted = SumOver(Commitments, Request)
    /\ BudgetRespected <=> TotalCommitted <= TokenLimit + SumOver(Excesses, Request)
BY DEF TotalCommitted, BudgetRespected, SumOver, FoldFunction, Commitments, Excesses

WeightsTyped == \A r \in Request : Committed(r) \in Nat /\ Excess(r) \in Nat

LEMMA Weights == AiTypeOK => WeightsTyped
<1> SUFFICES ASSUME AiTypeOK, NEW r \in Request
             PROVE  Committed(r) \in Nat /\ Excess(r) \in Nat
  BY DEF WeightsTyped
<1>1. /\ usage[r].tokens \in Nat /\ usage[r].reserved \in Nat
      /\ MaxOutput \in Nat
  BY BudgetAssumption DEF AiTypeOK, UsageRow
<1>2. Committed(r) \in Nat
  BY <1>1 DEF Committed
<1>3. Excess(r) \in Nat
  BY <1>1 DEF Excess
<1> QED
  BY <1>2, <1>3

(* When the row of one request changes, both sums change by what it adds. *)
LEMMA SumsMove ==
    ASSUME AiTypeOK, AiTypeOK', NEW r \in Request,
           \A q \in Request \ {r} : usage'[q] = usage[q]
    PROVE  \E e \in Nat :
               /\ TotalCommitted \in Int
               /\ TotalCommitted' = TotalCommitted - Committed(r) + Committed(r)'
               /\ BudgetRespected <=> TotalCommitted <= TokenLimit + e
               /\ BudgetRespected' <=>
                      TotalCommitted' <= TokenLimit + e - Excess(r) + Excess(r)'
               /\ e - Excess(r) + Excess(r)' \in Nat
<1> DEFINE f == Commitments
           h == Commitments'
           x == Excesses
           y == Excesses'
<1>1. \A q \in Request : Committed(q) \in Nat /\ Excess(q) \in Nat
  BY Weights DEF WeightsTyped
<1>2. \A q \in Request : Committed(q)' \in Nat /\ Excess(q)' \in Nat
  <2>1. (AiTypeOK => WeightsTyped)'
    BY Weights, PTL
  <2> QED
    BY <2>1 DEF WeightsTyped
<1>3. \A q \in Request \ {r} : Committed(q)' = Committed(q) /\ Excess(q)' = Excess(q)
  BY DEF Committed, Excess
<1>4. /\ \A q \in Request : f[q] \in Int /\ h[q] \in Int /\ x[q] \in Nat /\ y[q] \in Nat
      /\ \A q \in Request \ {r} : h[q] = f[q] /\ y[q] = x[q]
      /\ f[r] = Committed(r) /\ h[r] = Committed(r)' /\ x[r] = Excess(r) /\ y[r] = Excess(r)'
  BY <1>1, <1>2, <1>3 DEF Commitments, Excesses
<1>5. /\ TotalCommitted = SumOver(f, Request)
      /\ BudgetRespected <=> TotalCommitted <= TokenLimit + SumOver(x, Request)
  BY SumsOfUsage
<1>6. /\ TotalCommitted' = SumOver(h, Request)
      /\ BudgetRespected' <=> TotalCommitted' <= TokenLimit + SumOver(y, Request)
  <2>1. (/\ TotalCommitted = SumOver(Commitments, Request)
         /\ BudgetRespected <=> TotalCommitted <= TokenLimit + SumOver(Excesses, Request))'
    BY SumsOfUsage, PTL
  <2> QED
    BY <2>1
<1> HIDE DEF f, h, x, y
<1>7. SumOver(h, Request) = SumOver(f, Request) - f[r] + h[r]
  <2>1. /\ \A q \in Request : f[q] \in Int /\ h[q] \in Int
        /\ \A q \in Request \ {r} : h[q] = f[q]
    BY <1>4
  <2> QED
    BY <2>1, FiniteAssumption, SumUpdate
<1>8. /\ SumOver(x, Request) \in Nat /\ SumOver(y, Request) \in Nat
      /\ SumOver(f, Request) \in Int
  BY <1>4, FiniteAssumption, SumNatural, SumInteger
<1>9. SumOver(y, Request) = SumOver(x, Request) - x[r] + y[r]
  <2>1. /\ \A q \in Request : x[q] \in Int /\ y[q] \in Int
        /\ \A q \in Request \ {r} : y[q] = x[q]
    BY <1>4
  <2> QED
    BY <2>1, FiniteAssumption, SumUpdate
<1>10. x[r] \in Nat /\ y[r] \in Nat /\ TokenLimit \in Nat
  BY <1>4, BudgetAssumption
<1> QED
  BY <1>4, <1>5, <1>6, <1>7, <1>8, <1>9, <1>10

LEMMA BudgetMoves ==
    ASSUME BudgetInv, AiTypeOK', NEW r \in Request,
           \A q \in Request \ {r} : usage'[q] = usage[q],
           ReservationOK(r)',
           Committed(r)' <= Committed(r) + Excess(r)'
               /\ usage[r].status # "succeeded"
    PROVE  Reservations' /\ BudgetRespected'
<1>1. Reservations'
  BY DEF BudgetInv, Reservations, ReservationOK
<1>2. PICK e \in Nat :
          /\ TotalCommitted \in Int
          /\ TotalCommitted' = TotalCommitted - Committed(r) + Committed(r)'
          /\ BudgetRespected <=> TotalCommitted <= TokenLimit + e
          /\ BudgetRespected' <=> TotalCommitted' <= TokenLimit + e - Excess(r) + Excess(r)'
          /\ e - Excess(r) + Excess(r)' \in Nat
  BY SumsMove DEF BudgetInv, AiInv
<1>3. Excess(r) = 0
  BY DEF Excess
<1>4. Committed(r) \in Nat /\ Committed(r)' \in Nat /\ Excess(r)' \in Nat
  <2>1. (AiTypeOK => WeightsTyped)'
    BY Weights, PTL
  <2> QED
    BY <2>1, Weights DEF WeightsTyped, BudgetInv, AiInv
<1>5. TokenLimit \in Nat /\ TotalCommitted <= TokenLimit + e
  BY <1>2, BudgetAssumption DEF BudgetInv
<1>6. BudgetRespected'
  BY <1>2, <1>3, <1>4, <1>5
<1> QED
  BY <1>1, <1>6

LEMMA BudgetKept ==
    ASSUME BudgetInv, UNCHANGED usage
    PROVE  Reservations' /\ BudgetRespected'
<1>1. Reservations'
  BY DEF BudgetInv, Reservations, ReservationOK
<1>2. Commitments' = Commitments /\ Excesses' = Excesses
  BY DEF Commitments, Excesses, Committed, Excess
<1>3. (/\ TotalCommitted = SumOver(Commitments, Request)
       /\ BudgetRespected <=> TotalCommitted <= TokenLimit + SumOver(Excesses, Request))'
  BY SumsOfUsage, PTL
<1>4. BudgetRespected'
  BY <1>2, <1>3, SumsOfUsage DEF BudgetInv
<1> QED
  BY <1>1, <1>4

LEMMA BeginKeepsBudget ==
    ASSUME BudgetInv, AiTypeOK', NEW r \in Request, Begin(r)
    PROVE  Reservations' /\ BudgetRespected'
<1>1. CASE usage[r].status = "none"
  <2>1. usage[r] \in UsageRow /\ usage \in [Request -> UsageRow] /\ RowOK(r)
    BY DEF BudgetInv, AiInv, AiTypeOK, Rows
  <2>2. /\ usage'[r].status = "pending" /\ usage'[r].held = usage[r].held
        /\ usage'[r].reserved = usage[r].reserved
        /\ \A q \in Request \ {r} : usage'[q] = usage[q]
    BY <1>1, <2>1 DEF Begin, IsNew, UsageRow
  <2>3. ~ usage[r].held
    BY <1>1, <2>1 DEF RowOK
  <2>4. Committed(r) = 0 /\ Committed(r)' = 0 /\ Excess(r)' = 0
    BY <1>1, <2>2, <2>3 DEF Committed, Excess
  <2>5. ReservationOK(r)'
    BY <2>2, <2>3 DEF ReservationOK
  <2> QED
    BY <1>1, <2>2, <2>4, <2>5, BudgetMoves
<1>2. CASE usage[r].status # "none"
  BY <1>2, BudgetKept DEF Begin, IsNew
<1> QED
  BY <1>1, <1>2

LEMMA AuthorizeKeepsBudget ==
    ASSUME BudgetInv, AiTypeOK', NEW r \in Request, NEW a, Authorize(r, a)
    PROVE  Reservations' /\ BudgetRespected'
<1>1. usage[r] \in UsageRow /\ usage \in [Request -> UsageRow] /\ RowOK(r)
  BY DEF BudgetInv, AiInv, AiTypeOK, Rows
<1>2. CASE UNCHANGED usage
  BY <1>2, BudgetKept
<1>3. CASE Startable(r) /\ usage' = [usage EXCEPT ![r] = Denied(r)]
  <2>1. /\ usage'[r].status = "denied" /\ usage'[r].held = FALSE
        /\ \A q \in Request \ {r} : usage'[q] = usage[q]
    BY <1>1, <1>3 DEF Denied, UsageRow
  <2>2. usage[r].status = "pending" /\ ~ usage[r].held
    BY <1>1, <1>3 DEF Startable, RowOK
  <2>3. Committed(r) = 0 /\ Committed(r)' = 0 /\ Excess(r)' = 0 /\ ReservationOK(r)'
    BY <2>1, <2>2 DEF Committed, Excess, ReservationOK
  <2> QED
    BY <2>1, <2>2, <2>3, BudgetMoves
<1>4. CASE Startable(r) /\ ~ OverLimit /\ usage' = [usage EXCEPT ![r] = Authorized(r)]
  <2>1. /\ usage'[r].status = usage[r].status /\ usage'[r].held = TRUE
        /\ usage'[r].reserved = MaxOutput /\ usage'[r].started = TRUE
        /\ \A q \in Request \ {r} : usage'[q] = usage[q]
    BY <1>1, <1>4 DEF Authorized, UsageRow
  <2>2. usage[r].status = "pending" /\ ~ usage[r].held
    BY <1>1, <1>4 DEF Startable, RowOK
  <2>3. /\ Committed(r) = 0 /\ Committed(r)' = MaxOutput /\ Excess(r) = 0 /\ Excess(r)' = 0
        /\ ReservationOK(r)'
    BY <2>1, <2>2 DEF Committed, Excess, ReservationOK
  <2>4. PICK e \in Nat :
            /\ TotalCommitted \in Int
            /\ TotalCommitted' = TotalCommitted - Committed(r) + Committed(r)'
            /\ BudgetRespected' <=> TotalCommitted' <= TokenLimit + e - Excess(r) + Excess(r)'
    BY <2>1, SumsMove DEF BudgetInv, AiInv
  <2>5. ~ (TotalCommitted + MaxOutput > TokenLimit)
    BY <1>4 DEF OverLimit
  <2>6. BudgetRespected'
    BY <2>3, <2>4, <2>5, BudgetAssumption
  <2>7. Reservations'
    BY <2>1, <2>3 DEF BudgetInv, Reservations, ReservationOK
  <2> QED
    BY <2>6, <2>7
<1> QED
  BY <1>2, <1>3, <1>4 DEF Authorize

(* A success costs what it used, of which the reservation bounds all but    *)
(* the excess; an unknown outcome keeps the reservation.                    *)
LEMMA FinishKeepsBudget ==
    ASSUME BudgetInv, AiTypeOK', NEW r \in Request, NEW s \in Outcome, NEW n \in Nat,
           Finish(r, s, n), s \in {"succeeded", "unknown"} => usage[r].started
    PROVE  Reservations' /\ BudgetRespected'
<1>1. /\ usage[r] \in UsageRow /\ usage \in [Request -> UsageRow]
      /\ RowOK(r) /\ ReservationOK(r)
  BY DEF BudgetInv, AiInv, AiTypeOK, Rows, Reservations
<1>2. CASE usage[r].status \in Settled
  BY <1>2, BudgetKept DEF Finish
<1>3. CASE usage[r].status \notin Settled
  <2>1. /\ usage'[r].status = s /\ usage'[r].tokens = n
        /\ usage'[r].held = (s = "unknown") /\ usage'[r].started = usage[r].started
        /\ usage'[r].reserved = IF s = "unknown" THEN usage[r].reserved ELSE 0
        /\ \A q \in Request \ {r} : usage'[q] = usage[q]
    <3> DEFINE row == [usage[r] EXCEPT !.status   = s,
                                       !.tokens   = n,
                                       !.held     = (s = "unknown"),
                                       !.reserved = IF s = "unknown" THEN @ ELSE 0,
                                       !.review   = IF s = "unknown" THEN "pending"
                                                    ELSE "not_required"]
    <3>1. usage' = [usage EXCEPT ![r] = row]
      BY <1>3 DEF Finish
    <3>2. /\ row.status = s /\ row.tokens = n
          /\ row.held = (s = "unknown") /\ row.started = usage[r].started
          /\ row.reserved = IF s = "unknown" THEN usage[r].reserved ELSE 0
      BY <1>1 DEF UsageRow
    <3> HIDE DEF row
    <3> QED
      BY <1>1, <3>1, <3>2
  <2>2. usage[r].status \in {"none", "pending", "unknown"}
    BY <1>1, <1>3 DEF UsageRow, Outcome, Settled
  <2>3. MaxOutput \in Nat /\ usage[r].reserved \in Nat
    BY <1>1, BudgetAssumption DEF UsageRow
  <2>4. s \in {"succeeded", "unknown"} =>
            usage[r].held /\ usage[r].reserved = MaxOutput /\ Committed(r) = MaxOutput
    <3>1. s \in {"succeeded", "unknown"} => usage[r].status # "none" /\ usage[r].started
      BY <1>1 DEF RowOK
    <3> QED
      BY <1>1, <2>2, <3>1 DEF RowOK, ReservationOK, Committed
  <2>5. ReservationOK(r)'
    BY <2>1, <2>4 DEF ReservationOK
  <2>6. Committed(r) \in Nat
    BY <2>2, <2>3 DEF Committed
  <2>7. Committed(r)' <= Committed(r) + Excess(r)'
    <3>1. CASE s = "succeeded"
      <4>1. Committed(r)' = n /\ Excess(r)' = IF n > MaxOutput THEN n - MaxOutput ELSE 0
        BY <2>1, <3>1 DEF Committed, Excess
      <4> QED
        BY <2>3, <2>4, <3>1, <4>1
    <3>2. CASE s = "unknown"
      <4>1. Committed(r)' = MaxOutput /\ Excess(r)' = 0
        BY <2>1, <2>4, <3>2 DEF Committed, Excess
      <4> QED
        BY <2>3, <2>4, <3>2, <4>1
    <3>3. CASE s \notin {"succeeded", "unknown"}
      <4>1. Committed(r)' = 0 /\ Excess(r)' = 0
        BY <2>1, <3>3 DEF Committed, Excess
      <4> QED
        BY <2>6, <4>1
    <3> QED
      BY <3>1, <3>2, <3>3
  <2> QED
    BY <2>1, <2>2, <2>5, <2>7, BudgetMoves
<1> QED
  BY <1>2, <1>3

LEMMA ReconciledRow ==
    ASSUME AiTypeOK, NEW r \in Request, ReconcileUnknown(r)
    PROVE  /\ \/ usage'[r].status = "succeeded" /\ usage'[r].tokens \in Nat
              \/ usage'[r].status = "failed"
           /\ usage'[r].held = FALSE /\ usage'[r].started = usage[r].started
           /\ \A q \in Request \ {r} : usage'[q] = usage[q]
<1>1. usage[r] \in UsageRow /\ usage \in [Request -> UsageRow]
  BY DEF AiTypeOK
<1>2. PICK row : /\ usage' = [usage EXCEPT ![r] = row]
                 /\ (row.status = "succeeded" /\ row.tokens \in Nat) \/ row.status = "failed"
                 /\ row.held = FALSE /\ row.started = usage[r].started
  <2>1. ASSUME NEW n \in Usage,
               usage' = [usage EXCEPT ![r] =
                   [usage[r] EXCEPT !.status = "succeeded", !.tokens = n, !.held = FALSE,
                                    !.reserved = 0, !.review = "resolved"]]
        PROVE  \E row : /\ usage' = [usage EXCEPT ![r] = row]
                        /\ (row.status = "succeeded" /\ row.tokens \in Nat) \/ row.status = "failed"
                        /\ row.held = FALSE /\ row.started = usage[r].started
    <3> DEFINE row == [usage[r] EXCEPT !.status = "succeeded", !.tokens = n, !.held = FALSE,
                                       !.reserved = 0, !.review = "resolved"]
    <3>1. /\ row.status = "succeeded" /\ row.tokens \in Nat
          /\ row.held = FALSE /\ row.started = usage[r].started
      BY <1>1, BudgetAssumption DEF UsageRow
    <3> QED
      BY <2>1, <3>1
  <2>2. ASSUME usage' = [usage EXCEPT ![r] =
                   [usage[r] EXCEPT !.status = "failed", !.held = FALSE,
                                    !.reserved = 0, !.review = "resolved"]]
        PROVE  \E row : /\ usage' = [usage EXCEPT ![r] = row]
                        /\ (row.status = "succeeded" /\ row.tokens \in Nat) \/ row.status = "failed"
                        /\ row.held = FALSE /\ row.started = usage[r].started
    <3> DEFINE row == [usage[r] EXCEPT !.status = "failed", !.held = FALSE,
                                       !.reserved = 0, !.review = "resolved"]
    <3>1. row.status = "failed" /\ row.held = FALSE /\ row.started = usage[r].started
      BY <1>1 DEF UsageRow
    <3> QED
      BY <2>2, <3>1
  <2> QED
    BY <2>1, <2>2 DEF ReconcileUnknown
<1> QED
  BY <1>1, <1>2

LEMMA ReconcileKeepsBudget ==
    ASSUME BudgetInv, AiTypeOK', NEW r \in Request, ReconcileUnknown(r)
    PROVE  Reservations' /\ BudgetRespected'
<1>1. /\ usage[r] \in UsageRow /\ usage \in [Request -> UsageRow]
      /\ RowOK(r) /\ ReservationOK(r) /\ usage[r].status = "unknown"
  BY DEF BudgetInv, AiInv, AiTypeOK, Rows, Reservations, ReconcileUnknown, Listed
<1>2. /\ \/ usage'[r].status = "succeeded" /\ usage'[r].tokens \in Nat
         \/ usage'[r].status = "failed"
      /\ usage'[r].held = FALSE
      /\ \A q \in Request \ {r} : usage'[q] = usage[q]
  BY ReconciledRow DEF BudgetInv, AiInv
<1>3. usage[r].held /\ usage[r].reserved = MaxOutput /\ MaxOutput \in Nat
  BY <1>1, BudgetAssumption DEF RowOK, ReservationOK
<1>4. Committed(r) = MaxOutput
  BY <1>1, <1>3 DEF Committed
<1>5. Committed(r)' <= Committed(r) + Excess(r)'
  <2>1. CASE usage'[r].status = "succeeded" /\ usage'[r].tokens \in Nat
    <3> DEFINE n == usage'[r].tokens
    <3>1. Committed(r)' = n /\ Excess(r)' = IF n > MaxOutput THEN n - MaxOutput ELSE 0
      BY <2>1 DEF Committed, Excess
    <3> HIDE DEF n
    <3>2. n \in Nat
      BY <2>1 DEF n
    <3> QED
      BY <1>3, <1>4, <3>1, <3>2
  <2>2. CASE usage'[r].status = "failed"
    <3>1. Committed(r)' = 0 /\ Excess(r)' = 0
      BY <2>2, <1>2 DEF Committed, Excess
    <3> QED
      BY <1>3, <1>4, <3>1
  <2> QED
    BY <1>2, <2>1, <2>2
<1>6. ReservationOK(r)'
  BY <1>2 DEF ReservationOK
<1> QED
  BY <1>1, <1>2, <1>5, <1>6, BudgetMoves

(* The ways a step changes the usage ledger. *)
LEMMA UsageStep ==
    ASSUME BudgetInv, [AiNext]_aiVars
    PROVE  \/ UNCHANGED usage
           \/ \E r \in Request : Begin(r) \/ (\E a : Authorize(r, a)) \/ ReconcileUnknown(r)
           \/ \E r \in Request, s \in Outcome, n \in Nat :
                  Finish(r, s, n) /\ (s \in {"succeeded", "unknown"} => usage[r].started)
<1>1. ASSUME NEW t \in Turn, Proceed(t)
      PROVE  \/ UNCHANGED usage
             \/ \E r \in Request : Begin(r) \/ \E a : Authorize(r, a)
             \/ \E r \in Request, s \in Outcome, n \in Nat :
                    Finish(r, s, n) /\ (s \in {"succeeded", "unknown"} => usage[r].started)
  <2>1. /\ turn[t].want \in Outcome /\ turn[t].tokens \in Nat
        /\ turn[t].pc # "idle" => turn[t].req \in Request
    BY DEF BudgetInv, AiInv, AiTypeOK, Invocation
  <2>2. CASE BeginTurn(t) \/ AuthorizeTurn(t)
    BY <2>1, <2>2 DEF BeginTurn, AuthorizeTurn, At
  <2>3. CASE Abort(t)
    <3>1. turn[t].req \in Request /\ Finish(turn[t].req, "failed", 0)
      BY <2>1, <2>3 DEF Abort, At
    <3> QED
      BY <3>1 DEF Outcome, Settled
  <2>4. CASE FinishTurn(t)
    <3>1. /\ turn[t].req \in Request /\ Owns(t) /\ turn[t].pc = "finish"
          /\ Finish(turn[t].req, turn[t].want, turn[t].tokens)
      BY <2>1, <2>4 DEF FinishTurn, At, Owns, Owning
    <3>2. turn[t].want \in {"succeeded", "unknown"} => usage[turn[t].req].started
      BY <3>1, OwnerFacts DEF BudgetInv, OwnerOK
    <3> QED
      BY <2>1, <3>1, <3>2
  <2>5. CASE LoadCached(t) \/ StageInput(t) \/ Route(t) \/ SendToProvider(t)
               \/ ProviderEnds(t) \/ StageOutput(t) \/ StageEnvelope(t)
    BY <2>5 DEF LoadCached, StageInput, Route, SendToProvider, ProviderEnds, StageOutput,
                StageEnvelope
  <2> QED
    BY <1>1, <2>2, <2>3, <2>4, <2>5 DEF Proceed
<1>2. ASSUME NEW t \in Turn, (\E r \in Request : StartTurn(t, r)) \/ Disturb(t)
      PROVE  UNCHANGED usage
  BY <1>2 DEF StartTurn, Disturb, CallFails, GiveUpOn, StagingAnswerLost, TurnDies
<1>3. ASSUME NEW c \in overdue, ExecuteOverdue(c)
      PROVE  \/ \E r \in Request : Begin(r) \/ \E a : Authorize(r, a)
             \/ \E r \in Request, s \in Outcome, n \in Nat :
                    Finish(r, s, n) /\ (s \in {"succeeded", "unknown"} => usage[r].started)
  <2>1. c.req \in Request /\ c.want \in Outcome /\ c.tokens \in Nat
    BY DEF BudgetInv, AiInv, AiTypeOK, Rpc
  <2>2. c.op = "finish" /\ c.want \in {"succeeded", "unknown"} => usage[c.req].started
    BY DEF BudgetInv, LateSuccess, AiInv, LateUnknown
  <2> QED
    BY <1>3, <2>1, <2>2 DEF ExecuteOverdue
<1>4. CASE UNCHANGED aiVars
  BY <1>4 DEF aiVars
<1> QED
  BY <1>1, <1>2, <1>3, <1>4 DEF AiNext

(* An authorized request stays one. *)
LEMMA StartedStays ==
    ASSUME BudgetInv, [AiNext]_aiVars, NEW r \in Request, usage[r].started
    PROVE  usage'[r].started
<1>1. AiTypeOK /\ ConcurrencyRespected /\ usage[r] \in UsageRow
  BY DEF BudgetInv, AiInv, AiTypeOK
<1>2. ASSUME NEW q \in Request, Begin(q) PROVE usage'[r].started
  <2>1. /\ \A x \in Request \ {q} : usage'[x] = usage[x]
        /\ usage'[q] = [usage[q] EXCEPT !.status = usage'[q].status]
    BY <1>1, <1>2, BeginRow
  <2> QED
    BY <1>1, <2>1 DEF UsageRow
<1>3. ASSUME NEW q \in Request, NEW a, Authorize(q, a) PROVE usage'[r].started
  BY <1>1, <1>3, AuthorizeRow
<1>4. ASSUME NEW q \in Request, NEW s \in Outcome, NEW n \in Nat, Finish(q, s, n)
      PROVE  usage'[r].started
  BY <1>1, <1>4, FinishRow
<1>5. ASSUME NEW q \in Request, ReconcileUnknown(q) PROVE usage'[r].started
  BY <1>1, <1>5, ReconciledRow
<1> QED
  BY <1>2, <1>3, <1>4, <1>5, UsageStep

LEMMA LateSuccessStep == BudgetInv /\ [AiNext]_aiVars => LateSuccess'
<1> SUFFICES ASSUME BudgetInv, [AiNext]_aiVars,
                    NEW c \in overdue', c.op = "finish", c.want = "succeeded"
             PROVE  usage'[c.req].started
  BY DEF LateSuccess
<1>1. CASE c \in overdue
  <2>1. c.req \in Request /\ usage[c.req].started
    BY <1>1 DEF BudgetInv, LateSuccess, AiInv, AiTypeOK, Rpc
  <2> QED
    BY <2>1, StartedStays
<1>2. CASE c \notin overdue
  <2>1. PICK t \in Turn : turn[t].pc \in RpcStep /\ c = RpcOf(t)
    BY <1>2 DEF AiNext, aiVars, StartTurn, notTurn, ReconcileUnknown, ExecuteOverdue, Proceed,
           BeginTurn, LoadCached, StageInput, Abort, Route, AuthorizeTurn, SendToProvider,
           ProviderEnds, FinishTurn, StageOutput, StageEnvelope, Disturb, CallFails, GiveUpOn,
           StagingAnswerLost, TurnDies
  <2>2. turn[t].pc = "finish" /\ turn[t].want = "succeeded" /\ c.req = turn[t].req
    BY <2>1 DEF RpcOf, At, RpcStep
  <2>3. Owns(t)
    BY <2>2 DEF Owns, Owning
  <2>4. turn[t].req \in Request /\ usage[turn[t].req].started
    BY <2>2, <2>3, OwnerFacts DEF BudgetInv, OwnerOK
  <2> QED
    BY <2>2, <2>4, StartedStays
<1> QED
  BY <1>1, <1>2

LEMMA BudgetInitial == AiInit => BudgetInv
<1> SUFFICES ASSUME AiInit PROVE BudgetInv
  OBVIOUS
<1>1. AiInv
  BY AiInitial
<1>2. Reservations /\ LateSuccess
  BY DEF AiInit, Reservations, ReservationOK, LateSuccess, NoUsage
<1>3. \A r \in Request : Commitments[r] = 0 /\ Excesses[r] = 0
  BY DEF AiInit, Commitments, Excesses, Committed, Excess, NoUsage
<1>4. SumOver(Commitments, Request) = 0 /\ SumOver(Excesses, Request) = 0
  BY <1>3, FiniteAssumption, SumZero
<1>5. BudgetRespected
  BY <1>4, SumsOfUsage, BudgetAssumption
<1> QED
  BY <1>1, <1>2, <1>5 DEF BudgetInv

(* No interleaving of authorizations, late ones included, commits more than *)
(* the monthly limit and what calls used beyond their reservation:          *)
(* service_authorize_ai_request adds to a total it reads under the lock of  *)
(* the user, and service_finish_ai_request frees what it had added.         *)
THEOREM BudgetAlwaysRespected == AiSpec => []BudgetRespected
<1>1. BudgetInv /\ [AiNext]_aiVars => BudgetInv'
  <2> SUFFICES ASSUME BudgetInv, [AiNext]_aiVars PROVE BudgetInv'
    OBVIOUS
  <2>1. AiInv' /\ AiTypeOK'
    BY AiStep DEF BudgetInv, AiInv
  <2>2. LateSuccess'
    BY LateSuccessStep
  <2>3. Reservations' /\ BudgetRespected'
    BY <2>1, UsageStep, BudgetKept, BeginKeepsBudget, AuthorizeKeepsBudget, FinishKeepsBudget,
       ReconcileKeepsBudget
  <2> QED
    BY <2>1, <2>2, <2>3 DEF BudgetInv
<1>2. BudgetInv => BudgetRespected
  BY DEF BudgetInv
<1> QED
  BY <1>1, <1>2, BudgetInitial, PTL DEF AiSpec

=============================================================================
