-------------------------- MODULE MutationRecovery --------------------------
(***************************************************************************)
(* Browser tabs of one user submitting, retrying and reconciling a         *)
(* governed mutation against the recovery ledger and the domain table of   *)
(* RecoveryLedger.  The workspace modelled is the UNIFI planner; Sparks    *)
(* and Product Lab run the same handlers over their own scope.             *)
(*                                                                         *)
(* An async handler of the browser is a flow: at every await it holds one  *)
(* outstanding request, and between two awaits it runs to completion.      *)
(* Flows of one tab interleave at their awaits; a flow outlives the        *)
(* component that started it, and dies only with its page.                 *)
(***************************************************************************)
EXTENDS RecoveryLedger, FiniteSets

CONSTANTS
    Tab,       \* browser tabs
    Slot,      \* handlers that may be running at once in a tab
    NoKey,     \* the identity of no intent
    MaxFaults, \* bound: failed calls, lost answers and dying pages
    LateCalls, \* TRUE: a request may arrive after its caller got an error
    Overlap    \* FALSE restricts a tab to one running handler at a time

ASSUME NoKeyAssumption == NoKey \notin Key
ASSUME BoundAssumption ==
    MaxFaults \in Nat /\ LateCalls \in BOOLEAN /\ Overlap \in BOOLEAN

VARIABLES
    minted,   \* request identities generated so far
    stage,    \* stage[t]: what tab t displays
    local,    \* local[t]: the intent in the session storage of t, or NoIntent
    recon,    \* recon[t]: reconciliationState of the mounted planner of t
    form,     \* form[t]: the manifest a locked form of t shows
    flow,     \* flow[t][s]: the handler running in slot s of t, or Idle
    late,     \* write requests still on the wire after their caller gave up
    faults    \* faults so far

vars == <<ledger, manifests, minted, stage, local, recon, form, flow, late, faults>>

-----------------------------------------------------------------------------
(* "loading": shell up, ledger not hydrated yet; "ready": hydrated, another *)
(* workspace shown; "planner": hydrated and the planner mounted.            *)
Stage == {"closed", "loading", "ready", "planner"}

Recon == {"idle", "checking", "pending", "not_recorded", "confirmed"}

(* An intent is stored as JSON text.  "client" is the text of a payload the *)
(* form built, "jsonb" the text of the same payload read back from the      *)
(* ledger, where jsonb has reordered its members.                           *)
Text == {"client", "jsonb"}

Intent == [key          : Key \cup {NoKey},
           payload      : Payload \cup {NoPayload},
           text         : Text,
           verification : Verification]

NoIntent == [key |-> NoKey, payload |-> NoPayload, text |-> "client",
             verification |-> "unverified"]

Op == {"none", "submit", "reconcile", "supersede", "sync"}
Pc == {"idle", "register", "write", "finalize", "read", "confirm", "markAbsent",
       "markUnconfirmed", "supersede", "list", "syncRegister"}
Reply == {"none", "error", "ok", "active", "empty"}
             \cup Resolution \cup Verification

Handler == [op      : Op,
            pc      : Pc,
            key     : Key \cup {NoKey},
            payload : Payload \cup {NoPayload},
            reply   : Reply,
            live    : BOOLEAN]   \* its component instance is still mounted

Idle == [op |-> "none", pc |-> "idle", key |-> NoKey, payload |-> NoPayload,
         reply |-> "none", live |-> FALSE]

Call == {"register", "write", "confirmed", "superseded_after_absence",
         "confirmed_absent", "unconfirmed"}

Request == [call : Call, key : Key, payload : Payload]

TypeOK ==
    /\ LedgerTypeOK
    /\ minted \subseteq Key
    /\ stage \in [Tab -> Stage]
    /\ local \in [Tab -> Intent]
    /\ recon \in [Tab -> Recon]
    /\ form \in [Tab -> Payload \cup {NoPayload}]
    /\ flow \in [Tab -> [Slot -> Handler]]
    /\ late \subseteq Request
    /\ faults \in 0 .. MaxFaults

Init ==
    /\ LedgerInit
    /\ minted = {}
    /\ stage = [t \in Tab |-> "closed"]
    /\ local = [t \in Tab |-> NoIntent]
    /\ recon = [t \in Tab |-> "idle"]
    /\ form = [t \in Tab |-> NoPayload]
    /\ flow = [t \in Tab |-> [s \in Slot |-> Idle]]
    /\ late = {}
    /\ faults = 0

-----------------------------------------------------------------------------
(* The session-storage journal of a tab (pendingMutation.ts).  Every        *)
(* operation addresses the scope, not the identity stored under it.         *)

Stored(t) == local[t] # NoIntent

NewIntent(k, p) ==
    [key |-> k, payload |-> p, text |-> "client",
     verification |-> "unverified"]

(* durableRecoveryToPendingIntent *)
LedgerIntent(k, p, v) ==
    [key |-> k, payload |-> p, text |-> "jsonb", verification |-> v]

(* markPendingMutationVerification *)
MarkVerification(t, v) ==
    local' = IF Stored(t) THEN [local EXCEPT ![t].verification = v] ELSE local

(* clearPendingMutation for "confirmed" and "durable_resolved" *)
Clear(t) == local' = [local EXCEPT ![t] = NoIntent]

(* clearPendingMutation for "confirmed_absent_new_intent" *)
ClearAbsent(t) ==
    local' = IF local[t].verification = "confirmed_absent"
             THEN [local EXCEPT ![t] = NoIntent] ELSE local

(* getOrCreatePendingMutation: the intent a submission of p proceeds with.  *)
(* It is the stored one when the texts of the payloads agree, and a new one *)
(* stored in its place otherwise.                                           *)
SamePayloadText(t, p) == local[t].payload = p /\ local[t].text = "client"

(* Defect: an edited form is sent under the stored identity. *)
GetOrCreateKeepsKey(t, p, intent) ==
    /\ IF Stored(t)
       THEN intent = [local[t] EXCEPT !.payload = p] /\ UNCHANGED minted
       ELSE \E k \in Key \ minted :
                intent = NewIntent(k, p) /\ minted' = minted \cup {k}
    /\ local' = [local EXCEPT ![t] = intent]

GetOrCreate(t, p, intent) ==
    /\ IF Stored(t) /\ SamePayloadText(t, p)
       THEN intent = local[t] /\ UNCHANGED minted
       ELSE \E k \in Key \ minted :
                intent = NewIntent(k, p) /\ minted' = minted \cup {k}
    /\ local' = [local EXCEPT ![t] = intent]

-----------------------------------------------------------------------------
(* Flows *)

Running(t, s) == flow[t][s].op # "none"
At(t, s, pc) == flow[t][s].pc = pc
Answered(t, s, r) == flow[t][s].reply = r

(* activeRef of useSingleFlight, per mounted component instance *)
SingleFlightBusy(t) ==
    \E s \in Slot : flow[t][s].op = "submit" /\ flow[t][s].live

Syncing(t) == \E s \in Slot : flow[t][s].op = "sync"

Quiet(t) == Overlap \/ \A s \in Slot : ~ Running(t, s)

ReconciliationLocked(t) == recon[t] \in {"pending", "checking"}
EditLocked(t) == ReconciliationLocked(t) \/ recon[t] = "not_recorded"

Becomes(t, s, h) == flow' = [flow EXCEPT ![t][s] = h]

(* The handler at slot s sends the request of pc and awaits it. *)
Await(t, s, pc) == Becomes(t, s, [flow[t][s] EXCEPT !.pc = pc, !.reply = "none"])

Answer(t, s, r) == Becomes(t, s, [flow[t][s] EXCEPT !.reply = r])

Start(t, s, op, pc, intent) ==
    Becomes(t, s, [op |-> op, pc |-> pc, key |-> intent.key,
                   payload |-> intent.payload, reply |-> "none", live |-> TRUE])

Finish(t, s) == Becomes(t, s, Idle)

(* setReconciliationState has no effect once the component is unmounted. *)
SetRecon(t, s, r) ==
    recon' = IF flow[t][s].live THEN [recon EXCEPT ![t] = r] ELSE recon

SetForm(t, s, p) ==
    form' = IF flow[t][s].live THEN [form EXCEPT ![t] = p] ELSE form

dbAndWire == <<ledger, manifests, late, faults>>

Fault == faults < MaxFaults /\ faults' = faults + 1

-----------------------------------------------------------------------------
(* The network.  A request is executed and answered, executed with the      *)
(* answer lost, never executed, or executed after its caller got an error.  *)

CallOf(pc) ==
    CASE pc \in {"register", "syncRegister"} -> "register"
      [] pc = "write"                        -> "write"
      [] pc \in {"finalize", "confirm"}      -> "confirmed"
      [] pc = "supersede"                    -> "superseded_after_absence"
      [] pc = "markAbsent"                   -> "confirmed_absent"
      [] pc = "markUnconfirmed"              -> "unconfirmed"
      [] OTHER                               -> "none"

RequestOf(h) == [call |-> CallOf(h.pc), key |-> h.key, payload |-> h.payload]

Outstanding(t, s) ==
    Running(t, s) /\ Answered(t, s, "none") /\ RequestOf(flow[t][s]) \in Request

Execute(r) ==
    \/ r.call = "register" /\ Register(r.key, r.payload)
    \/ r.call = "write" /\ Write(r.key, r.payload)
    \/ r.call \in Resolution /\ Resolve(r.key, r.call)
    \/ r.call \in {"confirmed_absent", "unconfirmed"} /\ Mark(r.key, r.call)

Outcome(r) ==
    CASE r.call = "register"   -> RegisterOutcome(r.key, r.payload)
      [] r.call = "write"      -> WriteOutcome(r.key, r.payload)
      [] r.call \in Resolution -> ResolveOutcome(r.key, r.call)
      [] OTHER                 -> MarkOutcome(r.key)

(* Defect: the domain write is sent whether or not registration succeeded. *)
ThenRegardless(pc, r) ==
    CASE pc = "register"             -> "write"
      [] pc = "write" /\ r = "ok"    -> "finalize"
      [] OTHER                       -> pc

(* A handler that goes on to its next await without touching anything but   *)
(* its own variables does so as its answer arrives: createJob from          *)
(* registration to the domain write to finalization, and                    *)
(* reconcileUnifiIntent from its read to the ledger call the result asks.   *)
Then(pc, r) ==
    CASE pc = "register" /\ r = "active" -> "write"
      [] pc = "write" /\ r = "ok"        -> "finalize"
      [] OTHER                           -> pc

AnswerCall(t, s, r) ==
    LET next == Then(flow[t][s].pc, r)
    IN  IF next # flow[t][s].pc THEN Await(t, s, next) ELSE Answer(t, s, r)

(* The database executes an outstanding write request; its answer may be    *)
(* lost on the way back.                                                    *)
Serve(t, s) ==
    /\ Outstanding(t, s)
    /\ Execute(RequestOf(flow[t][s]))
    /\ \/ AnswerCall(t, s, Outcome(RequestOf(flow[t][s]))) /\ UNCHANGED faults
       \/ Answer(t, s, "error") /\ Fault
    /\ UNCHANGED <<minted, stage, local, recon, form, late>>

(* Defect: any answer of the verification read counts as the record. *)
ServeReadTrusting(t, s) ==
    /\ At(t, s, "read") /\ Answered(t, s, "none")
    /\ Await(t, s, "confirm")
    /\ UNCHANGED <<dbAndWire, minted, stage, local, recon, form>>

(* The verification read of reconcileUnifiIntent by client_request_id *)
ServeRead(t, s) ==
    /\ At(t, s, "read") /\ Answered(t, s, "none")
    /\ Await(t, s, IF Recorded(flow[t][s].key) THEN "confirm" ELSE "markAbsent")
    /\ UNCHANGED <<dbAndWire, minted, stage, local, recon, form>>

(* list_mutation_recoveries_v1 returns the unresolved row of the scope. *)
ServeList(t, s) ==
    /\ At(t, s, "list") /\ Answered(t, s, "none")
    /\ \/ /\ \A k \in Key : ~ Unresolved(k)
          /\ Answer(t, s, "empty")
       \/ \E k \in Key :
            /\ Unresolved(k)
            /\ Becomes(t, s, [flow[t][s] EXCEPT !.key = k,
                                                !.payload = ledger[k].payload,
                                                !.reply = ledger[k].verification])
    /\ UNCHANGED <<dbAndWire, minted, stage, local, recon, form>>

(* Defect: a verification read that fails counts as an absence. *)
FailAsAbsence(t, s) ==
    /\ Running(t, s) /\ Answered(t, s, "none")
    /\ IF At(t, s, "read") THEN Await(t, s, "markAbsent") ELSE Answer(t, s, "error")
    /\ Fault
    /\ UNCHANGED <<ledger, manifests, late, minted, stage, local, recon, form>>

(* The request is refused by the database or never reaches it. *)
Fail(t, s) ==
    /\ Running(t, s) /\ Answered(t, s, "none")
    /\ IF At(t, s, "read") THEN Await(t, s, "markUnconfirmed") ELSE Answer(t, s, "error")
    /\ Fault
    /\ UNCHANGED <<ledger, manifests, late, minted, stage, local, recon, form>>

(* The caller gets an error (gateway timeout, aborted connection) while the *)
(* request is still on its way.                                             *)
GiveUp(t, s) ==
    /\ Outstanding(t, s)
    /\ LateCalls
    /\ late' = late \cup {RequestOf(flow[t][s])}
    /\ Answer(t, s, "error")
    /\ Fault
    /\ UNCHANGED <<ledger, manifests, minted, stage, local, recon, form>>

ServeLate(r) ==
    /\ Execute(r)
    /\ late' = late \ {r}
    /\ UNCHANGED <<minted, stage, local, recon, form, flow, faults>>

-----------------------------------------------------------------------------
(* createJob *)

(* The form is submitted with manifest p: the one shown while it is locked, *)
(* whatever the user typed otherwise.                                       *)
Submit(t, s, p) ==
    /\ stage[t] = "planner" /\ ~ Running(t, s) /\ Quiet(t)
    /\ ~ ReconciliationLocked(t)
    /\ ~ SingleFlightBusy(t)
    /\ EditLocked(t) => p = form[t]
    /\ \E intent \in Intent :
          GetOrCreate(t, p, intent) /\ Start(t, s, "submit", "register", intent)
    /\ UNCHANGED <<dbAndWire, stage, recon, form>>

(* Defect: the resolution is displayed as it came from the ledger. *)
OnAlreadyResolvedRaw(t, s) ==
    /\ At(t, s, "register") /\ flow[t][s].reply \in Resolution
    /\ Clear(t)
    /\ SetRecon(t, s, flow[t][s].reply)
    /\ SetForm(t, s, NoPayload)
    /\ Finish(t, s)
    /\ UNCHANGED <<dbAndWire, minted, stage>>

(* The identity was already finalized by another session. *)
OnAlreadyResolved(t, s) ==
    /\ At(t, s, "register") /\ flow[t][s].reply \in Resolution
    /\ Clear(t)
    /\ SetRecon(t, s, IF Answered(t, s, "confirmed") THEN "confirmed" ELSE "idle")
    /\ SetForm(t, s, NoPayload)
    /\ Finish(t, s)
    /\ UNCHANGED <<dbAndWire, minted, stage>>

(* The ledger row is finalized, by createJob or by reconcileUnifiIntent:    *)
(* local continuity is cleared and the form reset.                          *)
OnFinalized(t, s) ==
    /\ At(t, s, "finalize") \/ At(t, s, "confirm")
    /\ Answered(t, s, "ok")
    /\ Clear(t)
    /\ SetRecon(t, s, "confirmed")
    /\ SetForm(t, s, NoPayload)
    /\ Finish(t, s)
    /\ UNCHANGED <<dbAndWire, minted, stage>>

(* Any error of createJob is reconciled within the same single flight. *)
OnSubmitError(t, s) ==
    /\ flow[t][s].pc \in {"register", "write", "finalize"}
    /\ Answered(t, s, "error")
    /\ Await(t, s, "read")
    /\ SetRecon(t, s, "checking")
    /\ UNCHANGED <<dbAndWire, minted, stage, local, form>>

-----------------------------------------------------------------------------
(* reconcileUnifiIntent *)

(* Started by the online event or by "Recheck server state"; a mount starts *)
(* it too (Mount below).                                                    *)
Reconcile(t, s) ==
    /\ stage[t] = "planner" /\ ~ Running(t, s) /\ Quiet(t)
    /\ Stored(t)
    /\ Start(t, s, "reconcile", "read", local[t])
    /\ recon' = [recon EXCEPT ![t] = "checking"]
    /\ UNCHANGED <<dbAndWire, minted, stage, local, form>>

(* The ledger recorded the absence: unchanged retry or a new intent. *)
OnAbsent(t, s) ==
    /\ At(t, s, "markAbsent") /\ Answered(t, s, "ok")
    /\ MarkVerification(t, "confirmed_absent")
    /\ SetRecon(t, s, "not_recorded")
    /\ SetForm(t, s, flow[t][s].payload)
    /\ Finish(t, s)
    /\ UNCHANGED <<dbAndWire, minted, stage>>

(* Defect: an error path that forgets the displayed state. *)
OnUnconfirmedSilent(t, s) ==
    /\ \/ flow[t][s].pc \in {"confirm", "markAbsent"} /\ Answered(t, s, "error")
       \/ At(t, s, "markUnconfirmed") /\ flow[t][s].reply \in {"ok", "error"}
    /\ MarkVerification(t, "unconfirmed")
    /\ Finish(t, s)
    /\ UNCHANGED <<dbAndWire, minted, stage, recon, form>>

(* The outcome stays ambiguous: the read failed, or the ledger could not    *)
(* record what the read established.                                        *)
OnUnconfirmed(t, s) ==
    /\ \/ flow[t][s].pc \in {"confirm", "markAbsent"} /\ Answered(t, s, "error")
       \/ At(t, s, "markUnconfirmed") /\ flow[t][s].reply \in {"ok", "error"}
    /\ MarkVerification(t, "unconfirmed")
    /\ SetRecon(t, s, "pending")
    /\ SetForm(t, s, flow[t][s].payload)
    /\ Finish(t, s)
    /\ UNCHANGED <<dbAndWire, minted, stage>>

-----------------------------------------------------------------------------
(* startNewUnifiIntent, the "Change manifest" button *)

ChangeManifest(t, s) ==
    /\ stage[t] = "planner" /\ ~ Running(t, s) /\ Quiet(t)
    /\ recon[t] = "not_recorded"
    /\ Stored(t) /\ local[t].verification = "confirmed_absent"
    /\ Start(t, s, "supersede", "supersede", local[t])
    /\ UNCHANGED <<dbAndWire, minted, stage, local, recon, form>>

OnSuperseded(t, s) ==
    /\ At(t, s, "supersede") /\ Answered(t, s, "ok")
    /\ ClearAbsent(t)
    /\ SetRecon(t, s, "idle")
    /\ SetForm(t, s, NoPayload)
    /\ Finish(t, s)
    /\ UNCHANGED <<dbAndWire, minted, stage>>

OnSupersedeError(t, s) ==
    /\ At(t, s, "supersede") /\ Answered(t, s, "error")
    /\ Finish(t, s)
    /\ UNCHANGED <<dbAndWire, minted, stage, local, recon, form>>

-----------------------------------------------------------------------------
(* synchronizeDurableRecoveries: at startup, every minute, on focus *)

StartSync(t, s) ==
    /\ stage[t] # "closed" /\ ~ Running(t, s) /\ Quiet(t)
    /\ ~ Syncing(t)
    /\ Start(t, s, "sync", "list", NoIntent)
    /\ UNCHANGED <<dbAndWire, minted, stage, local, recon, form>>

Hydrated(t) ==
    stage' = IF stage[t] = "loading" THEN [stage EXCEPT ![t] = "ready"] ELSE stage

(* The unresolved row of the ledger replaces the local intent, unless the   *)
(* tab holds another identity: a conflict the user is told to resolve.      *)
OnListed(t, s) ==
    LET h == flow[t][s] IN
    /\ At(t, s, "list") /\ h.reply \in Verification
    /\ IF Stored(t) /\ local[t].key # h.key
       THEN UNCHANGED <<local, stage>>
       ELSE /\ local' = [local EXCEPT ![t] = LedgerIntent(h.key, h.payload, h.reply)]
            /\ Hydrated(t)
    /\ Finish(t, s)
    /\ UNCHANGED <<dbAndWire, minted, recon, form>>

(* Defect: an intent the ledger does not list is dropped. *)
OnListedEmptyDrops(t, s) ==
    /\ At(t, s, "list") /\ Answered(t, s, "empty")
    /\ Clear(t)
    /\ Finish(t, s)
    /\ Hydrated(t)
    /\ UNCHANGED <<dbAndWire, minted, recon, form>>

(* No unresolved row: a local intent the ledger does not know is registered. *)
OnListedEmpty(t, s) ==
    /\ At(t, s, "list") /\ Answered(t, s, "empty")
    /\ IF Stored(t)
       THEN Start(t, s, "sync", "syncRegister", local[t]) /\ UNCHANGED stage
       ELSE Finish(t, s) /\ Hydrated(t)
    /\ UNCHANGED <<dbAndWire, minted, local, recon, form>>

OnSyncRegistered(t, s) ==
    LET h == flow[t][s] IN
    /\ At(t, s, "syncRegister") /\ h.reply \in {"active"} \cup Resolution
    /\ IF h.reply = "active"
       THEN local' = [local EXCEPT ![t] = LedgerIntent(h.key, h.payload, "unverified")]
       ELSE Clear(t)
    /\ Hydrated(t)
    /\ Finish(t, s)
    /\ UNCHANGED <<dbAndWire, minted, recon, form>>

(* Defect: the sync lock is not released when the ledger call fails. *)
OnSyncErrorKeepsLock(t, s) ==
    /\ At(t, s, "list") \/ At(t, s, "syncRegister")
    /\ Answered(t, s, "error")
    /\ UNCHANGED vars

OnSyncError(t, s) ==
    /\ At(t, s, "list") \/ At(t, s, "syncRegister")
    /\ Answered(t, s, "error")
    /\ Finish(t, s)
    /\ UNCHANGED <<dbAndWire, minted, stage, local, recon, form>>

-----------------------------------------------------------------------------
(* The user and the browser *)

OpenTab(t) ==
    /\ stage[t] = "closed"
    /\ stage' = [stage EXCEPT ![t] = "loading"]
    /\ UNCHANGED <<dbAndWire, minted, local, recon, form, flow>>

(* The planner mounts and reconciles the intent it finds in the journal. *)
Mount(t, s) ==
    /\ stage[t] = "ready" /\ Quiet(t)
    /\ stage' = [stage EXCEPT ![t] = "planner"]
    /\ IF Stored(t)
       THEN /\ ~ Running(t, s)
            /\ Start(t, s, "reconcile", "read", local[t])
            /\ recon' = [recon EXCEPT ![t] = "checking"]
       ELSE UNCHANGED <<flow, recon>>
    /\ UNCHANGED <<dbAndWire, minted, local, form>>

Detached(h) == IF h.op = "sync" THEN h ELSE [h EXCEPT !.live = FALSE]

(* Navigation to another workspace: the handlers of the planner run on, but *)
(* their state updates and their single-flight lock are gone.               *)
Unmount(t) ==
    /\ stage[t] = "planner" /\ Quiet(t)
    /\ stage' = [stage EXCEPT ![t] = "ready"]
    /\ recon' = [recon EXCEPT ![t] = "idle"]
    /\ form' = [form EXCEPT ![t] = NoPayload]
    /\ flow' = [flow EXCEPT ![t] = [s \in Slot |-> Detached(flow[t][s])]]
    /\ UNCHANGED <<dbAndWire, minted, local>>

(* The page dies: its handlers stop wherever they are.  A request already   *)
(* sent may still arrive.                                                   *)
PageDies(t) ==
    /\ recon' = [recon EXCEPT ![t] = "idle"]
    /\ form' = [form EXCEPT ![t] = NoPayload]
    /\ flow' = [flow EXCEPT ![t] = [s \in Slot |-> Idle]]
    /\ \E sent \in SUBSET {RequestOf(flow[t][s]) : s \in {u \in Slot : Outstanding(t, u)}} :
          /\ sent # {} => LateCalls
          /\ late' = late \cup sent
    /\ Fault
    /\ UNCHANGED <<ledger, manifests, minted>>

(* Reload or crash-and-restore keeps the session storage of the tab. *)
Reload(t) ==
    /\ stage[t] # "closed"
    /\ stage' = [stage EXCEPT ![t] = "loading"]
    /\ UNCHANGED local
    /\ PageDies(t)

CloseTab(t) ==
    /\ stage[t] # "closed"
    /\ stage' = [stage EXCEPT ![t] = "closed"]
    /\ Clear(t)
    /\ PageDies(t)

-----------------------------------------------------------------------------

Network(t, s) ==
    Serve(t, s) \/ ServeRead(t, s) \/ ServeList(t, s) \/ Fail(t, s) \/ GiveUp(t, s)

Continue(t, s) ==
    \/ OnAlreadyResolved(t, s) \/ OnFinalized(t, s) \/ OnSubmitError(t, s)
    \/ OnAbsent(t, s) \/ OnUnconfirmed(t, s)
    \/ OnSuperseded(t, s) \/ OnSupersedeError(t, s)
    \/ OnListed(t, s) \/ OnListedEmpty(t, s) \/ OnSyncRegistered(t, s) \/ OnSyncError(t, s)

User(t, s) ==
    \/ \E p \in Payload : Submit(t, s, p)
    \/ Reconcile(t, s) \/ ChangeManifest(t, s) \/ StartSync(t, s) \/ Mount(t, s)

Next ==
    \/ \E t \in Tab, s \in Slot : Network(t, s) \/ Continue(t, s) \/ User(t, s)
    \/ \E t \in Tab : OpenTab(t) \/ Unmount(t) \/ Reload(t) \/ CloseTab(t)
    \/ \E r \in late : ServeLate(r)

Spec == Init /\ [][Next]_vars

(* A request settles (a browser fails a fetch it gets no answer to) and an  *)
(* answered handler runs on.  Nothing obliges the user to act, a timer to   *)
(* fire or a late request to arrive.                                        *)
Fairness ==
    \A t \in Tab, s \in Slot :
        WF_vars(Network(t, s)) /\ WF_vars(Continue(t, s))

FairSpec == Spec /\ Fairness

-----------------------------------------------------------------------------
(* Recording a domain effect requires the identity to be registered first,  *)
(* with the same payload: the domain write is sent only after registration  *)
(* answered, by every handler, whichever tab or late request performs it.   *)
RegisteredBeforeWrite ==
    \A i \in DOMAIN manifests :
        LET m == manifests[i]
        IN  ledger[m.key].status # "none" /\ ledger[m.key].payload = m.payload

(* A row finalized as "confirmed" has its domain record, although           *)
(* resolve_mutation_recovery_v1 does not look for it: only a handler that   *)
(* saw the record, or its write succeed, asks for that resolution.          *)
ConfirmedIsRecorded ==
    \A k \in Key : ledger[k].status = "confirmed" => Recorded(k)

(* The payloads identity k stands for in the ledger, the journals, the      *)
(* running handlers and the requests on the wire.                           *)
Named(k) ==
    {ledger[j].payload : j \in {j \in {k} : ledger[j].status # "none"}}
    \cup {local[t].payload : t \in {u \in Tab : local[u].key = k}}
    \cup {flow[x[1]][x[2]].payload :
              x \in {y \in Tab \X Slot : flow[y[1]][y[2]].key = k}}
    \cup {r.payload : r \in {q \in late : q.key = k}}

(* A request identity stands for one payload wherever it occurs, so the     *)
(* payload conflicts the database refuses never arise between the clients   *)
(* of one user.                                                             *)
IdentityNamesOnePayload ==
    \A k \in Key : \A p, q \in Named(k) : p = q

(* An identity finalized as superseded_after_absence has no domain record:  *)
(* what startNewUnifiIntent promises when it closes an identity.            *)
SupersededIsAbsent ==
    \A k \in Key : ledger[k].status = "superseded_after_absence" => ~ Recorded(k)

(* Durable finalization precedes local cleanup: while its tab lives, an     *)
(* intent leaves the journal only once its own row is finalized.            *)
FinalizedBeforeCleanup ==
    [][ \A t \in Tab :
            (Stored(t) /\ local'[t] = NoIntent /\ stage'[t] # "closed")
                => Resolved(local[t].key) ]_vars

(* After an authoritative absence, resubmitting the unchanged manifest      *)
(* keeps the request identity, as the planner tells the user it does.       *)
UnchangedRetryKeepsIdentity ==
    [][ \A t \in Tab, s \in Slot :
            (/\ Stored(t) /\ recon[t] = "not_recorded" /\ Unresolved(local[t].key)
             /\ Submit(t, s, local[t].payload))
                => local'[t].key = local[t].key ]_vars

(* A planner that shows "Checking server state" stops showing it: no path   *)
(* of a handler, and no reply, leaves the form locked in that state.        *)
CheckingSettles ==
    \A t \in Tab : (recon[t] = "checking") ~> (recon[t] # "checking")

(* The single-flight lock and the sync lock of a tab are released, whatever *)
(* their handler met: the refs are reset in the finally blocks.             *)
LocksReleased ==
    \A t \in Tab :
        /\ SingleFlightBusy(t) ~> ~ SingleFlightBusy(t)
        /\ Syncing(t) ~> ~ Syncing(t)

(* A user who keeps rechecking an intent whose effect is recorded gets it   *)
(* out of the journal, even when an earlier finalization succeeded but its  *)
(* answer was lost: finalization is idempotent and so are all its retries.  *)
RecheckConfirms ==
    \A t \in Tab : \A k \in Key :
        []<><<\E s \in Slot : Reconcile(t, s)>>_vars
            => ((local[t].key = k /\ Recorded(k)) ~> local[t].key # k)

(* The ledger and the domain table, together, implement the intent          *)
(* lifecycle: under these clients no effect is recorded before its intent   *)
(* was opened, and none is confirmed before it is recorded.                 *)
Lifecycle == INSTANCE IntentLifecycle WITH
    status   <- [k \in Key |-> ledger[k].status],
    recorded <- {k \in Key : Recorded(k)}

ImplementsLifecycle == Lifecycle!Spec

=============================================================================
