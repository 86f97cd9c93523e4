------------------------------ MODULE AiTurns ------------------------------
(***************************************************************************)
(* Chat turns with DataNest AI and the usage budget they are charged to,   *)
(* for one user in one project:                                            *)
(*   - public.ai_usage_requests, one row per client request id, written by *)
(*     the begin, authorize, finish and reconcile RPCs.  authorize holds   *)
(*     an advisory lock of the user, the others lock their row or rely on  *)
(*     its unique key, so each RPC is one action;                          *)
(*   - datanest-ai-chat, the edge function that runs a turn: it claims the *)
(*     request, stages the message, routes, is authorized, calls the       *)
(*     provider, settles the row and stages the answer.  Every step is a   *)
(*     remote call whose answer may be lost; an invocation may die.        *)
(* A turn that is tried again with the same client request id is another   *)
(* invocation, which may run while the first one still does.               *)
(***************************************************************************)
EXTENDS Naturals, FiniteSets, Functions

CONSTANTS
    Request,       \* client request ids
    Turn,          \* invocations of the edge function, each used once
    NoRequest,     \* the request of an invocation not started
    Concurrency,   \* budget.concurrency_limit
    Daily,         \* budget.daily_request_limit
    TokenLimit,    \* budget.monthly_token_limit
    MaxOutput,     \* budget.max_output_tokens, what authorize reserves
    Usage,         \* token counts (input and output) a provider may report
    MaxTurnFaults  \* bound on failing calls, lost answers and deaths

ASSUME RequestAssumption == NoRequest \notin Request
ASSUME BudgetAssumption ==
    /\ Concurrency \in Nat /\ Daily \in Nat /\ TokenLimit \in Nat
    /\ MaxOutput \in Nat \ {0} /\ Usage \subseteq Nat /\ MaxTurnFaults \in Nat
ASSUME FiniteAssumption == IsFiniteSet(Request)

VARIABLES
    usage,       \* usage[r]: the row of request r
    turn,        \* turn[t]: what invocation t is doing
    called,      \* called[r]: how often the provider was sent request r
    staged,      \* staged[r]: the intake events stored for r
    envelope,    \* envelope[r]: request_status of its reasoning envelope
    overdue,     \* RPCs whose caller gave up and that may still execute
    turnFaults   \* faults so far

aiVars == <<usage, turn, called, staged, envelope, overdue, turnFaults>>

-----------------------------------------------------------------------------

Settled == {"succeeded", "failed", "denied", "embedded"}
Outcome == Settled \cup {"unknown"}

UsageRow == [status   : {"none", "pending"} \cup Outcome,
             started  : BOOLEAN,                \* provider_called
             held     : BOOLEAN,                \* reservation_state = 'held'
             reserved : {0, MaxOutput},
             tokens   : Nat,
             review   : {"not_required", "pending", "resolved"}]

NoUsage == [status |-> "none", started |-> FALSE, held |-> FALSE,
            reserved |-> 0, tokens |-> 0, review |-> "not_required"]

Step == {"idle", "begin", "cached", "stage", "abort", "route", "authorize",
         "send", "wait", "finish", "output", "envelope", "done", "error"}

(* want is the status the turn settles on, tokens what it reports. *)
Invocation == [pc : Step, req : Request \cup {NoRequest},
               want : Outcome, tokens : Nat]

Unstarted == [pc |-> "idle", req |-> NoRequest, want |-> "embedded", tokens |-> 0]

Rpc == [op : {"begin", "authorize", "finish"}, req : Request,
        want : Outcome, tokens : Nat]

AiTypeOK ==
    /\ usage \in [Request -> UsageRow]
    /\ turn \in [Turn -> Invocation]
    /\ \A t \in Turn : turn[t].pc # "idle" => turn[t].req \in Request
    /\ called \in [Request -> Nat]
    /\ staged \in [Request -> SUBSET {"human", "assistant"}]
    /\ envelope \in [Request -> Outcome \cup {"none"}]
    /\ overdue \subseteq Rpc
    /\ turnFaults \in Nat

AiInit ==
    /\ usage = [r \in Request |-> NoUsage]
    /\ turn = [t \in Turn |-> Unstarted]
    /\ called = [r \in Request |-> 0]
    /\ staged = [r \in Request |-> {}]
    /\ envelope = [r \in Request |-> "none"]
    /\ overdue = {}
    /\ turnFaults = 0

-----------------------------------------------------------------------------
(* begin_datanest_ai_request *)

(* Mutant: a request that was claimed and is still open is claimed again. *)
IsNewUntilSettled(r) == usage[r].status \in {"none", "pending"}

IsNew(r) == usage[r].status = "none"

Begin(r) ==
    usage' = IF IsNew(r) THEN [usage EXCEPT ![r].status = "pending"] ELSE usage

-----------------------------------------------------------------------------
(* service_authorize_ai_request *)

InFlight == {r \in Request : usage[r].started /\ usage[r].status = "pending"}

(* What request r takes of the monthly budget: what it used, or what is     *)
(* reserved for a provider call whose outcome is not known.                 *)
Committed(r) ==
    CASE usage[r].status = "succeeded" -> usage[r].tokens
      [] usage[r].held /\ usage[r].status \in {"pending", "unknown"} -> usage[r].reserved
      [] OTHER -> 0

TotalCommitted == FoldFunction(+, 0, [r \in Request |-> Committed(r)])

Startable(r) == usage[r].status = "pending" /\ ~ usage[r].started

(* Mutant: the number of running requests is not looked at. *)
OverLimitAlone ==
    \/ Cardinality({q \in Request : usage[q].started}) >= Daily
    \/ TotalCommitted + MaxOutput > TokenLimit

(* Mutant: what the month has cost so far counts, what is reserved does not. *)
OverLimitSpent ==
    \/ Cardinality({q \in Request : usage[q].started}) >= Daily
    \/ Cardinality(InFlight) >= Concurrency
    \/ FoldFunction(+, 0, [q \in Request |-> usage[q].tokens]) + MaxOutput > TokenLimit

OverLimit ==
    \/ Cardinality({q \in Request : usage[q].started}) >= Daily
    \/ Cardinality(InFlight) >= Concurrency
    \/ TotalCommitted + MaxOutput > TokenLimit

Denied(r) == [usage[r] EXCEPT !.status = "denied", !.held = FALSE, !.reserved = 0]

Authorized(r) == [usage[r] EXCEPT !.started = TRUE, !.held = TRUE,
                                  !.reserved = MaxOutput, !.review = "not_required"]

(* The answer is "refused" with the row left as it is when the request was  *)
(* started before, or the connection, the membership, the host, the model   *)
(* or the provider is not admitted; those tables are not modelled.          *)
Authorize(r, answer) ==
    \/ /\ answer = "refused"
       /\ UNCHANGED usage
    \/ /\ answer = "refused"
       /\ Startable(r) /\ OverLimit
       /\ usage' = [usage EXCEPT ![r] = Denied(r)]
    \/ /\ answer = "allowed"
       /\ Startable(r) /\ ~ OverLimit
       /\ usage' = [usage EXCEPT ![r] = Authorized(r)]

-----------------------------------------------------------------------------
(* service_finish_ai_request and reconcile_unknown_ai_request *)

(* Mutant: the check that a row is settled already is gone. *)
FinishAlways(r, s, n) ==
    usage' = [usage EXCEPT ![r] =
                 [usage[r] EXCEPT !.status   = s,
                                  !.tokens   = n,
                                  !.held     = (s = "unknown"),
                                  !.reserved = IF s = "unknown" THEN @ ELSE 0,
                                  !.review   = IF s = "unknown" THEN "pending"
                                              ELSE "not_required"]]

(* Mutant: an unknown outcome gives the reservation back. *)
FinishReleases(r, s, n) ==
    IF usage[r].status \in Settled
    THEN UNCHANGED usage
    ELSE usage' = [usage EXCEPT ![r] =
                 [usage[r] EXCEPT !.status = s, !.tokens = n, !.held = FALSE, !.reserved = 0,
                                  !.review = IF s = "unknown" THEN "pending"
                                              ELSE "not_required"]]

(* Mutant: the tokens used are taken off the reservation. *)
FinishDeducts(r, s, n) ==
    IF usage[r].status \in Settled
    THEN UNCHANGED usage
    ELSE usage' = [usage EXCEPT ![r] =
                 [usage[r] EXCEPT !.status = s, !.tokens = n, !.held = (s = "unknown"),
                                  !.reserved = IF s = "unknown" \/ n > @ THEN @ ELSE @ - n,
                                  !.review = IF s = "unknown" THEN "pending"
                                              ELSE "not_required"]]

(* A settled row is left alone; an unknown one is settled by a late answer. *)
Finish(r, s, n) ==
    IF usage[r].status \in Settled
    THEN UNCHANGED usage
    ELSE usage' = [usage EXCEPT ![r] =
                 [usage[r] EXCEPT !.status   = s,
                                  !.tokens   = n,
                                  !.held     = (s = "unknown"),
                                  !.reserved = IF s = "unknown" THEN @ ELSE 0,
                                  !.review   = IF s = "unknown" THEN "pending"
                                              ELSE "not_required"]]

(* get_ai_reconciliation_queue: what an owner or admin can act upon. *)
Listed(r) == usage[r].status = "unknown" /\ usage[r].review = "pending"

(* An owner or admin confirms what became of an unknown request. *)
ReconcileUnknown(r) ==
    /\ Listed(r)
    /\ \/ \E n \in Usage :
              usage' = [usage EXCEPT ![r] =
                          [usage[r] EXCEPT !.status = "succeeded", !.tokens = n, !.held = FALSE,
                                           !.reserved = 0, !.review = "resolved"]]
       \/ usage' = [usage EXCEPT ![r] =
                      [usage[r] EXCEPT !.status = "failed", !.held = FALSE,
                                       !.reserved = 0, !.review = "resolved"]]
    /\ UNCHANGED <<turn, called, staged, envelope, overdue, turnFaults>>

-----------------------------------------------------------------------------
(* The edge function: executeChatTurn and the steps it is given. *)

At(t, pc) == turn[t].pc = pc
Go(t, pc) == turn' = [turn EXCEPT ![t].pc = pc]
Settle(t, s, n) ==
    turn' = [turn EXCEPT ![t].pc = "finish", ![t].want = s, ![t].tokens = n]

notTurn == <<called, staged, envelope, overdue, turnFaults>>

StartTurn(t, r) ==
    /\ At(t, "idle")
    /\ turn' = [turn EXCEPT ![t].pc = "begin", ![t].req = r]
    /\ UNCHANGED <<usage, notTurn>>

(* beginRequest: only the invocation that inserted the row goes on. *)
BeginTurn(t) ==
    /\ At(t, "begin")
    /\ Begin(turn[t].req)
    /\ Go(t, IF IsNew(turn[t].req) THEN "stage" ELSE "cached")
    /\ UNCHANGED notTurn

(* loadCachedTurn: the stored answer, or an error; nothing is sent again. *)
LoadCached(t) ==
    /\ At(t, "cached")
    /\ Go(t, IF staged[turn[t].req] = {"human", "assistant"} THEN "done" ELSE "error")
    /\ UNCHANGED <<usage, notTurn>>

StageInput(t) ==
    /\ At(t, "stage")
    /\ staged' = [staged EXCEPT ![turn[t].req] = @ \cup {"human"}]
    /\ Go(t, "route")
    /\ UNCHANGED <<usage, called, envelope, overdue, turnFaults>>

(* The turn whose intake failed settles its row as failed and reports. *)
Abort(t) ==
    /\ At(t, "abort")
    /\ Finish(turn[t].req, "failed", 0)
    /\ Go(t, "error")
    /\ UNCHANGED notTurn

(* callProvider up to the authorization: memory, route, data policy and     *)
(* execution authority, none of which writes a row modelled here.  No       *)
(* provider route means an embedded answer, a refusal settles the row as    *)
(* denied, and a policy that cannot be read ends the turn with the row      *)
(* still pending.                                                           *)
Route(t) ==
    /\ At(t, "route")
    /\ \/ Settle(t, "embedded", 0)
       \/ Settle(t, "denied", 0)
       \/ Go(t, "authorize")
       \/ Go(t, "error")
    /\ UNCHANGED <<usage, notTurn>>

AuthorizeTurn(t) ==
    /\ At(t, "authorize")
    /\ \/ /\ Authorize(turn[t].req, "allowed")
          /\ Go(t, "send")
       \/ /\ Authorize(turn[t].req, "refused")
          /\ Settle(t, "denied", 0)
    /\ UNCHANGED notTurn

(* callOpenAiCompatibleProvider: an endpoint that is not the registered one *)
(* is refused before anything is sent, and that error has no category.      *)
SendToProvider(t) ==
    /\ At(t, "send")
    /\ \/ /\ called' = [called EXCEPT ![turn[t].req] = @ + 1]
          /\ Go(t, "wait")
       \/ /\ Settle(t, "unknown", 0)
          /\ UNCHANGED called
    /\ UNCHANGED <<usage, staged, envelope, overdue, turnFaults>>

(* An answer, an HTTP error or an empty answer, a timeout or a lost one. *)
ProviderEnds(t) ==
    /\ At(t, "wait")
    /\ \/ \E n \in Usage : Settle(t, "succeeded", n)
       \/ Settle(t, "failed", 0)
       \/ Settle(t, "unknown", 0)
    /\ UNCHANGED <<usage, notTurn>>

FinishTurn(t) ==
    /\ At(t, "finish")
    /\ Finish(turn[t].req, turn[t].want, turn[t].tokens)
    /\ Go(t, "output")
    /\ UNCHANGED notTurn

StageOutput(t) ==
    /\ At(t, "output")
    /\ staged' = [staged EXCEPT ![turn[t].req] = @ \cup {"assistant"}]
    /\ Go(t, "envelope")
    /\ UNCHANGED <<usage, called, envelope, overdue, turnFaults>>

StageEnvelope(t) ==
    /\ At(t, "envelope")
    /\ envelope' = [envelope EXCEPT ![turn[t].req] = turn[t].want]
    /\ Go(t, "done")
    /\ UNCHANGED <<usage, called, staged, overdue, turnFaults>>

-----------------------------------------------------------------------------
(* Faults: a call fails without effect; a caller gives up on an RPC that    *)
(* executes now or later; the invocation dies.                              *)

RpcStep == {"begin", "abort", "authorize", "finish"}

RpcOf(t) ==
    [op     |-> IF At(t, "abort") THEN "finish" ELSE turn[t].pc,
     req    |-> turn[t].req,
     want   |-> IF At(t, "abort") THEN "failed" ELSE turn[t].want,
     tokens |-> turn[t].tokens]

TurnFault ==
    /\ turnFaults < MaxTurnFaults
    /\ turnFaults' = turnFaults + 1

(* Mutant: a finish that failed is taken for done. *)
OnErrorIgnored(t) ==
    CASE At(t, "stage")  -> Go(t, "abort")
      [] At(t, "finish") -> Go(t, "output")
      [] OTHER           -> Go(t, "error")

(* What the turn does when the call it awaits throws: a failed intake is    *)
(* settled, a success that could not be stored becomes an unknown outcome,  *)
(* anything else ends the turn.                                             *)
OnError(t) ==
    CASE At(t, "stage") -> Go(t, "abort")
      [] At(t, "finish") /\ turn[t].want = "succeeded" -> Settle(t, "unknown", 0)
      [] OTHER -> Go(t, "error")

CallFails(t) ==
    /\ turn[t].pc \in RpcStep \cup {"cached", "stage", "output", "envelope"}
    /\ OnError(t)
    /\ TurnFault
    /\ UNCHANGED <<usage, called, staged, envelope, overdue>>

GiveUpOn(t) ==
    /\ turn[t].pc \in RpcStep
    /\ overdue' = overdue \cup {RpcOf(t)}
    /\ OnError(t)
    /\ TurnFault
    /\ UNCHANGED <<usage, called, staged, envelope>>

(* An insert into the staging database whose answer is lost. *)
StagingAnswerLost(t) ==
    /\ \/ /\ At(t, "stage") /\ UNCHANGED envelope
          /\ staged' = [staged EXCEPT ![turn[t].req] = @ \cup {"human"}]
       \/ /\ At(t, "output") /\ UNCHANGED envelope
          /\ staged' = [staged EXCEPT ![turn[t].req] = @ \cup {"assistant"}]
       \/ /\ At(t, "envelope") /\ UNCHANGED staged
          /\ envelope' = [envelope EXCEPT ![turn[t].req] = turn[t].want]
    /\ OnError(t)
    /\ TurnFault
    /\ UNCHANGED <<usage, called, overdue>>

TurnDies(t) ==
    /\ turn[t].pc \notin {"idle", "done", "error"}
    /\ Go(t, "error")
    /\ overdue' = IF turn[t].pc \in RpcStep THEN overdue \cup {RpcOf(t)} ELSE overdue
    /\ TurnFault
    /\ UNCHANGED <<usage, called, staged, envelope>>

(* A call nobody waits for executes after all. *)
ExecuteOverdue(c) ==
    /\ overdue' = overdue \ {c}
    /\ \/ c.op = "begin" /\ Begin(c.req)
       \/ c.op = "authorize" /\ \E a \in {"allowed", "refused"} : Authorize(c.req, a)
       \/ c.op = "finish" /\ Finish(c.req, c.want, c.tokens)
    /\ UNCHANGED <<turn, called, staged, envelope, turnFaults>>

-----------------------------------------------------------------------------

Proceed(t) ==
    \/ BeginTurn(t) \/ LoadCached(t) \/ StageInput(t) \/ Abort(t) \/ Route(t)
    \/ AuthorizeTurn(t) \/ SendToProvider(t) \/ ProviderEnds(t) \/ FinishTurn(t)
    \/ StageOutput(t) \/ StageEnvelope(t)

Disturb(t) == CallFails(t) \/ GiveUpOn(t) \/ StagingAnswerLost(t) \/ TurnDies(t)

AiNext ==
    \/ \E t \in Turn : (\E r \in Request : StartTurn(t, r)) \/ Proceed(t) \/ Disturb(t)
    \/ \E r \in Request : ReconcileUnknown(r)
    \/ \E c \in overdue : ExecuteOverdue(c)

AiSpec == AiInit /\ [][AiNext]_aiVars

-----------------------------------------------------------------------------
(* The provider is sent a client request at most once, whatever is retried, *)
(* lost, late or concurrent, and while that call runs its row counts: it is *)
(* in flight for the concurrency limit and its reservation is held.         *)
SentOnceUnderReservation ==
    /\ \A r \in Request : called[r] <= 1
    /\ \A t \in Turn : At(t, "wait") =>
           turn[t].req \in InFlight /\ usage[turn[t].req].held

(* No interleaving of authorizations, late ones included, has more requests *)
(* in flight than the budget allows.                                        *)
ConcurrencyRespected == Cardinality(InFlight) <= Concurrency

(* What request r used beyond its reservation, which covers output only. *)
Excess(r) ==
    IF usage[r].status = "succeeded" /\ usage[r].tokens > MaxOutput
    THEN usage[r].tokens - MaxOutput ELSE 0

(* The monthly budget is exceeded at most by what provider calls used       *)
(* beyond their reservation: concurrent requests never spend the same       *)
(* tokens, and an unknown outcome keeps its tokens from being spent again.  *)
BudgetRespected ==
    TotalCommitted <= TokenLimit + FoldFunction(+, 0, [r \in Request |-> Excess(r)])

(* A reservation is held exactly from authorization until the outcome of    *)
(* the call is known, and a request waits for an admin exactly while its    *)
(* outcome is unknown.                                                      *)
HeldUntilKnown ==
    \A r \in Request :
        /\ usage[r].held <=> usage[r].started /\ usage[r].status \in {"pending", "unknown"}
        /\ usage[r].status = "unknown" => Listed(r)

(* A settled request is never settled again, by a retry, a late call or an  *)
(* admin.                                                                   *)
SettledIsFinal ==
    [][ \A r \in Request : usage[r].status \in Settled => usage'[r] = usage[r] ]_aiVars

(* What the reasoning envelope says of a turn is what the ledger knows,     *)
(* except that an envelope may call unknown what was settled since.         *)
EnvelopeIsHonest ==
    \A r \in Request :
        /\ envelope[r] \in Settled => usage[r].status = envelope[r]
        /\ envelope[r] = "unknown" => usage[r].started
        /\ envelope[r] \in {"denied", "embedded"} => called[r] = 0

=============================================================================
