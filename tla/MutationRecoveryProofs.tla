----------------------- MODULE MutationRecoveryProofs -----------------------
(***************************************************************************)
(* Proofs about browsers and database together, for any number of tabs,    *)
(* handlers, identities, payloads and faults: types, the clients are       *)
(* clients of the recovery ledger, the whole implements the intent         *)
(* lifecycle, and an identity stands for one payload.  What needs one      *)
(* handler at a time, or a single tab, is proved under that assumption.    *)
(***************************************************************************)
EXTENDS MutationRecovery, RecoveryLedgerProofs

-----------------------------------------------------------------------------
(* Types *)

LEMMA IdleType == Idle \in Handler
BY DEF Idle, Handler, Op, Pc, Reply

LEMMA NoIntentType == NoIntent \in Intent
BY DEF NoIntent, Intent, Text, Verification

LEMMA InitType == Init => TypeOK
<1> SUFFICES ASSUME Init PROVE TypeOK
  OBVIOUS
<1>1. LedgerTypeOK
  BY DEF Init, LedgerInit, LedgerTypeOK, NoRow, Row, Verification
<1> QED
  BY <1>1, IdleType, NoIntentType, BoundAssumption
     DEF Init, TypeOK, Stage, Recon

(* One handler of one tab changes. *)
FlowTypeOK == flow \in [Tab -> [Slot -> Handler]]

LEMMA BecomesType ==
    ASSUME FlowTypeOK, NEW t \in Tab, NEW s \in Slot, NEW h \in Handler,
           Becomes(t, s, h)
    PROVE  FlowTypeOK'
BY DEF FlowTypeOK, Becomes

LEMMA AwaitType ==
    ASSUME FlowTypeOK, NEW t \in Tab, NEW s \in Slot, NEW pc \in Pc, Await(t, s, pc)
    PROVE  FlowTypeOK'
<1>1. flow[t][s] \in Handler
  BY DEF FlowTypeOK
<1>2. [flow[t][s] EXCEPT !.pc = pc, !.reply = "none"] \in Handler
  BY <1>1 DEF Handler, Reply
<1> QED
  BY <1>2, BecomesType DEF Await

LEMMA AnswerType ==
    ASSUME FlowTypeOK, NEW t \in Tab, NEW s \in Slot, NEW r \in Reply, Answer(t, s, r)
    PROVE  FlowTypeOK'
<1>1. flow[t][s] \in Handler
  BY DEF FlowTypeOK
<1>2. [flow[t][s] EXCEPT !.reply = r] \in Handler
  BY <1>1 DEF Handler
<1> QED
  BY <1>2, BecomesType DEF Answer

LEMMA FinishType ==
    ASSUME FlowTypeOK, NEW t \in Tab, NEW s \in Slot, Finish(t, s)
    PROVE  FlowTypeOK'
BY IdleType, BecomesType DEF Finish

LEMMA StartType ==
    ASSUME FlowTypeOK, NEW t \in Tab, NEW s \in Slot, NEW op \in Op, NEW pc \in Pc,
           NEW intent \in Intent, Start(t, s, op, pc, intent)
    PROVE  FlowTypeOK'
<1>1. [op |-> op, pc |-> pc, key |-> intent.key, payload |-> intent.payload,
       reply |-> "none", live |-> TRUE] \in Handler
  BY DEF Handler, Reply, Intent
<1> QED
  BY <1>1, BecomesType DEF Start

(* A request executes as one call of the ledger module. *)
LEMMA ExecuteIsCall ==
    ASSUME NEW r \in Request, Execute(r)
    PROVE  LedgerNext
BY DEF Execute, Request, LedgerNext, Verification, Resolution

LEMMA ExecuteType ==
    ASSUME LedgerTypeOK, NEW r \in Request, Execute(r)
    PROVE  LedgerTypeOK'
BY RegisterType, MarkType, ResolveType, WriteType
   DEF Execute, Request, Verification, Resolution

LEMMA OutcomeType ==
    ASSUME LedgerTypeOK, NEW r \in Request
    PROVE  Outcome(r) \in Reply
<1>1. RegisterOutcome(r.key, r.payload) \in Reply
  BY DEF RegisterOutcome, Resolved, Unresolved, Resolution, Reply
<1>2. WriteOutcome(r.key, r.payload) \in Reply
  BY DEF WriteOutcome, Reply
<1>3. ResolveOutcome(r.key, r.call) \in Reply /\ MarkOutcome(r.key) \in Reply
  BY DEF ResolveOutcome, MarkOutcome, Reply
<1> QED
  BY <1>1, <1>2, <1>3 DEF Outcome

LEMMA ServeType ==
    ASSUME TypeOK, NEW t \in Tab, NEW s \in Slot, Serve(t, s)
    PROVE  TypeOK'
<1> DEFINE r == RequestOf(flow[t][s])
<1>1. r \in Request /\ Execute(r) /\ LedgerTypeOK /\ FlowTypeOK
  BY DEF Serve, Outstanding, TypeOK, FlowTypeOK
<1>2. LedgerTypeOK' /\ Outcome(r) \in Reply
  BY <1>1, ExecuteType, OutcomeType
<1>3. flow[t][s].pc \in Pc
  BY <1>1 DEF FlowTypeOK, Handler
<1>4. Then(flow[t][s].pc, Outcome(r)) \in Pc
  BY <1>3 DEF Then, Pc
<1>5. FlowTypeOK'
  <2>1. CASE Answer(t, s, "error")
    BY <2>1, <1>1, AnswerType DEF Reply
  <2>2. CASE AnswerCall(t, s, Outcome(r))
    BY <2>2, <1>1, <1>2, <1>4, AnswerType, AwaitType DEF AnswerCall
  <2> QED
    BY <2>1, <2>2 DEF Serve
<1>6. faults' \in 0 .. MaxFaults
  BY BoundAssumption DEF Serve, Fault, TypeOK
<1> QED
  BY <1>2, <1>5, <1>6 DEF Serve, TypeOK, FlowTypeOK

LEMMA ServeReadType ==
    ASSUME TypeOK, NEW t \in Tab, NEW s \in Slot, ServeRead(t, s)
    PROVE  TypeOK'
<1>1. FlowTypeOK /\ LedgerTypeOK
  BY DEF TypeOK, FlowTypeOK
<1>2. FlowTypeOK'
  BY <1>1, AwaitType DEF ServeRead, Pc
<1> QED
  BY <1>1, <1>2 DEF ServeRead, dbAndWire, TypeOK, FlowTypeOK, LedgerTypeOK

LEMMA ServeListType ==
    ASSUME TypeOK, NEW t \in Tab, NEW s \in Slot, ServeList(t, s)
    PROVE  TypeOK'
<1>1. FlowTypeOK /\ LedgerTypeOK
  BY DEF TypeOK, FlowTypeOK
<1>2. FlowTypeOK'
  <2>1. CASE Answer(t, s, "empty")
    BY <2>1, <1>1, AnswerType DEF Reply
  <2>2. ASSUME NEW k \in Key,
               Becomes(t, s, [flow[t][s] EXCEPT !.key = k,
                                                !.payload = ledger[k].payload,
                                                !.reply = ledger[k].verification])
        PROVE  FlowTypeOK'
    <3>1. /\ ledger[k].payload \in Payload \cup {NoPayload}
          /\ ledger[k].verification \in Reply
      BY <1>1 DEF LedgerTypeOK, Row, Reply
    <3>2. flow[t][s] \in Handler
      BY <1>1 DEF FlowTypeOK
    <3>3. [flow[t][s] EXCEPT !.key = k, !.payload = ledger[k].payload,
                             !.reply = ledger[k].verification] \in Handler
      BY <3>1, <3>2 DEF Handler
    <3> QED
      BY <2>2, <3>3, <1>1, BecomesType
  <2> QED
    BY <2>1, <2>2 DEF ServeList
<1> QED
  BY <1>1, <1>2 DEF ServeList, dbAndWire, TypeOK, FlowTypeOK, LedgerTypeOK

LEMMA FailType ==
    ASSUME TypeOK, NEW t \in Tab, NEW s \in Slot, Fail(t, s)
    PROVE  TypeOK'
<1>1. FlowTypeOK /\ LedgerTypeOK
  BY DEF TypeOK, FlowTypeOK
<1>2. FlowTypeOK'
  BY <1>1, AwaitType, AnswerType DEF Fail, Pc, Reply
<1>3. faults' \in 0 .. MaxFaults
  BY BoundAssumption DEF Fail, Fault, TypeOK
<1> QED
  BY <1>1, <1>2, <1>3 DEF Fail, TypeOK, FlowTypeOK, LedgerTypeOK

LEMMA GiveUpType ==
    ASSUME TypeOK, NEW t \in Tab, NEW s \in Slot, GiveUp(t, s)
    PROVE  TypeOK'
<1>1. FlowTypeOK /\ LedgerTypeOK
  BY DEF TypeOK, FlowTypeOK
<1>2. FlowTypeOK'
  BY <1>1, AnswerType DEF GiveUp, Reply
<1>3. faults' \in 0 .. MaxFaults
  BY BoundAssumption DEF GiveUp, Fault, TypeOK
<1>4. late' \subseteq Request
  BY DEF GiveUp, Outstanding, TypeOK
<1> QED
  BY <1>1, <1>2, <1>3, <1>4 DEF GiveUp, TypeOK, FlowTypeOK, LedgerTypeOK

-----------------------------------------------------------------------------
(* Handlers of the browser leave the database and the wire alone. *)

BrowserTypeOK ==
    /\ stage \in [Tab -> Stage]
    /\ local \in [Tab -> Intent]
    /\ recon \in [Tab -> Recon]
    /\ form \in [Tab -> Payload \cup {NoPayload}]
    /\ FlowTypeOK

LEMMA BrowserType == TypeOK => BrowserTypeOK
BY DEF TypeOK, BrowserTypeOK, FlowTypeOK

LEMMA BrowserStepType ==
    ASSUME TypeOK, BrowserTypeOK', UNCHANGED dbAndWire, minted' \subseteq Key
    PROVE  TypeOK'
BY DEF TypeOK, LedgerTypeOK, BrowserTypeOK, FlowTypeOK, dbAndWire

LEMMA SettersType ==
    ASSUME BrowserTypeOK, NEW t \in Tab, NEW s \in Slot
    PROVE  /\ \A r \in Recon : SetRecon(t, s, r) => recon' \in [Tab -> Recon]
           /\ \A p \in Payload \cup {NoPayload} :
                  SetForm(t, s, p) => form' \in [Tab -> Payload \cup {NoPayload}]
           /\ \A v \in Verification :
                  MarkVerification(t, v) => local' \in [Tab -> Intent]
           /\ Clear(t) \/ ClearAbsent(t) => local' \in [Tab -> Intent]
           /\ Hydrated(t) => stage' \in [Tab -> Stage]
<1>1. local[t] \in Intent
  BY DEF BrowserTypeOK
<1>2. \A v \in Verification : [local[t] EXCEPT !.verification = v] \in Intent
  BY <1>1 DEF Intent
<1> QED
  BY <1>2, NoIntentType
     DEF BrowserTypeOK, SetRecon, SetForm, MarkVerification, Clear, ClearAbsent,
         Hydrated, Stage

LEMMA LedgerIntentType ==
    ASSUME NEW k \in Key \cup {NoKey}, NEW p \in Payload \cup {NoPayload},
           NEW v \in Verification
    PROVE  LedgerIntent(k, p, v) \in Intent
BY DEF LedgerIntent, Intent, Text

LEMMA HandlerFields ==
    ASSUME FlowTypeOK, NEW t \in Tab, NEW s \in Slot
    PROVE  /\ flow[t][s] \in Handler
           /\ flow[t][s].key \in Key \cup {NoKey}
           /\ flow[t][s].payload \in Payload \cup {NoPayload}
BY DEF FlowTypeOK, Handler

LEMMA ContinueType ==
    ASSUME TypeOK, NEW t \in Tab, NEW s \in Slot, Continue(t, s)
    PROVE  TypeOK'
<1>1. BrowserTypeOK /\ FlowTypeOK
  BY BrowserType DEF BrowserTypeOK
<1>2. /\ flow[t][s].payload \in Payload \cup {NoPayload}
      /\ {"idle", "checking", "pending", "not_recorded", "confirmed"} \subseteq Recon
      /\ {"confirmed_absent", "unconfirmed", "unverified"} \subseteq Verification
      /\ {"read", "syncRegister"} \subseteq Pc /\ "sync" \in Op
      /\ local[t] \in Intent
  BY <1>1, HandlerFields DEF Recon, Verification, Pc, Op, BrowserTypeOK
<1>3. minted' \subseteq Key /\ UNCHANGED dbAndWire
  BY DEF Continue, OnAlreadyResolved, OnFinalized, OnSubmitError, OnAbsent,
         OnUnconfirmed, OnSuperseded, OnSupersedeError, OnListed, OnListedEmpty,
         OnSyncRegistered, OnSyncError, TypeOK, dbAndWire
<1>4. BrowserTypeOK'
  <2>1. CASE OnAlreadyResolved(t, s)
    BY <2>1, <1>1, <1>2, SettersType, FinishType DEF OnAlreadyResolved, BrowserTypeOK
  <2>2. CASE OnFinalized(t, s)
    BY <2>2, <1>1, <1>2, SettersType, FinishType DEF OnFinalized, BrowserTypeOK
  <2>3. CASE OnSubmitError(t, s)
    BY <2>3, <1>1, <1>2, SettersType, AwaitType DEF OnSubmitError, BrowserTypeOK
  <2>4. CASE OnAbsent(t, s)
    BY <2>4, <1>1, <1>2, SettersType, FinishType DEF OnAbsent, BrowserTypeOK
  <2>5. CASE OnUnconfirmed(t, s)
    BY <2>5, <1>1, <1>2, SettersType, FinishType DEF OnUnconfirmed, BrowserTypeOK
  <2>6. CASE OnSuperseded(t, s)
    BY <2>6, <1>1, <1>2, SettersType, FinishType DEF OnSuperseded, BrowserTypeOK
  <2>7. CASE OnSupersedeError(t, s)
    BY <2>7, <1>1, FinishType DEF OnSupersedeError, BrowserTypeOK
  <2>8. CASE OnListed(t, s)
    <3>1. flow[t][s].reply \in Verification
          => LedgerIntent(flow[t][s].key, flow[t][s].payload, flow[t][s].reply) \in Intent
      BY <1>1, HandlerFields, LedgerIntentType
    <3> QED
      BY <2>8, <3>1, <1>1, SettersType, FinishType DEF OnListed, BrowserTypeOK
  <2>9. CASE OnListedEmpty(t, s)
    BY <2>9, <1>1, <1>2, SettersType, FinishType, StartType DEF OnListedEmpty, BrowserTypeOK
  <2>10. CASE OnSyncRegistered(t, s)
    <3>1. LedgerIntent(flow[t][s].key, flow[t][s].payload, "unverified") \in Intent
      BY <1>1, <1>2, HandlerFields, LedgerIntentType
    <3> QED
      BY <2>10, <3>1, <1>1, SettersType, FinishType DEF OnSyncRegistered, BrowserTypeOK
  <2>11. CASE OnSyncError(t, s)
    BY <2>11, <1>1, FinishType DEF OnSyncError, BrowserTypeOK
  <2> QED
    BY <2>1, <2>2, <2>3, <2>4, <2>5, <2>6, <2>7, <2>8, <2>9, <2>10, <2>11 DEF Continue
<1> QED
  BY <1>3, <1>4, BrowserStepType

LEMMA SubmitType ==
    ASSUME TypeOK, NEW t \in Tab, NEW s \in Slot, NEW p \in Payload, Submit(t, s, p)
    PROVE  TypeOK'
<1>1. BrowserTypeOK /\ FlowTypeOK
  BY BrowserType DEF BrowserTypeOK
<1>2. PICK intent \in Intent :
          GetOrCreate(t, p, intent) /\ Start(t, s, "submit", "register", intent)
  BY DEF Submit
<1>3. FlowTypeOK'
  BY <1>1, <1>2, StartType DEF Op, Pc
<1>4. local' \in [Tab -> Intent] /\ minted' \subseteq Key
  BY <1>1, <1>2 DEF GetOrCreate, BrowserTypeOK, TypeOK
<1> QED
  BY <1>1, <1>3, <1>4, BrowserStepType DEF Submit, BrowserTypeOK, dbAndWire

LEMMA UserType ==
    ASSUME TypeOK, NEW t \in Tab, NEW s \in Slot, User(t, s)
    PROVE  TypeOK'
<1>1. BrowserTypeOK /\ FlowTypeOK
  BY BrowserType DEF BrowserTypeOK
<1>2. /\ local[t] \in Intent /\ NoIntent \in Intent
      /\ {"reconcile", "supersede", "sync"} \subseteq Op
      /\ {"read", "supersede", "list"} \subseteq Pc
      /\ "checking" \in Recon /\ "planner" \in Stage
  BY <1>1, NoIntentType DEF BrowserTypeOK, Op, Pc, Recon, Stage
<1>3. CASE \E p \in Payload : Submit(t, s, p)
  BY <1>3, SubmitType
<1>4. CASE Reconcile(t, s)
  BY <1>4, <1>1, <1>2, StartType, BrowserStepType
     DEF Reconcile, BrowserTypeOK, TypeOK, dbAndWire
<1>5. CASE ChangeManifest(t, s)
  BY <1>5, <1>1, <1>2, StartType, BrowserStepType
     DEF ChangeManifest, BrowserTypeOK, TypeOK, dbAndWire
<1>6. CASE StartSync(t, s)
  BY <1>6, <1>1, <1>2, StartType, BrowserStepType
     DEF StartSync, BrowserTypeOK, TypeOK, dbAndWire
<1>7. CASE Mount(t, s)
  BY <1>7, <1>1, <1>2, StartType, BrowserStepType
     DEF Mount, BrowserTypeOK, TypeOK, FlowTypeOK, dbAndWire
<1> QED
  BY <1>3, <1>4, <1>5, <1>6, <1>7 DEF User

LEMMA PageDiesType ==
    ASSUME TypeOK, NEW t \in Tab, PageDies(t),
           stage' \in [Tab -> Stage], local' \in [Tab -> Intent]
    PROVE  TypeOK'
<1>1. BrowserTypeOK /\ FlowTypeOK
  BY BrowserType DEF BrowserTypeOK
<1>2. FlowTypeOK'
  BY <1>1, IdleType DEF PageDies, FlowTypeOK
<1>3. late' \subseteq Request
  BY DEF PageDies, Outstanding, TypeOK
<1>4. faults' \in 0 .. MaxFaults
  BY BoundAssumption DEF PageDies, Fault, TypeOK
<1>5. recon' \in [Tab -> Recon] /\ form' \in [Tab -> Payload \cup {NoPayload}]
  BY <1>1 DEF PageDies, BrowserTypeOK, Recon
<1> QED
  BY <1>2, <1>3, <1>4, <1>5 DEF PageDies, TypeOK, FlowTypeOK, LedgerTypeOK

LEMMA TabType ==
    ASSUME TypeOK, NEW t \in Tab,
           OpenTab(t) \/ Unmount(t) \/ Reload(t) \/ CloseTab(t)
    PROVE  TypeOK'
<1>1. BrowserTypeOK /\ FlowTypeOK
  BY BrowserType DEF BrowserTypeOK
<1>2. CASE OpenTab(t)
  BY <1>2, <1>1, BrowserStepType DEF OpenTab, BrowserTypeOK, FlowTypeOK, Stage, TypeOK, dbAndWire
<1>3. CASE Unmount(t)
  <2>1. \A s \in Slot : Detached(flow[t][s]) \in Handler
    <3> SUFFICES ASSUME NEW s \in Slot
                 PROVE  Detached(flow[t][s]) \in Handler
      OBVIOUS
    <3>1. flow[t][s] \in Handler
      BY <1>1, HandlerFields
    <3>2. [flow[t][s] EXCEPT !.live = FALSE] \in Handler
      BY <3>1 DEF Handler
    <3> QED
      BY <3>1, <3>2 DEF Detached
  <2>2. FlowTypeOK'
    BY <1>1, <1>3, <2>1 DEF Unmount, FlowTypeOK
  <2> QED
    BY <1>3, <1>1, <2>2, BrowserStepType DEF Unmount, BrowserTypeOK, Stage, Recon, TypeOK, dbAndWire
<1>4. CASE Reload(t)
  BY <1>4, <1>1, PageDiesType DEF Reload, BrowserTypeOK, Stage
<1>5. CASE CloseTab(t)
  BY <1>5, <1>1, NoIntentType, PageDiesType DEF CloseTab, Clear, BrowserTypeOK, Stage
<1> QED
  BY <1>2, <1>3, <1>4, <1>5

LEMMA ServeLateType ==
    ASSUME TypeOK, NEW r \in late, ServeLate(r)
    PROVE  TypeOK'
<1>1. r \in Request /\ LedgerTypeOK
  BY DEF TypeOK
<1>2. LedgerTypeOK'
  BY <1>1, ExecuteType DEF ServeLate
<1> QED
  BY <1>2 DEF ServeLate, TypeOK

LEMMA NextType == TypeOK /\ [Next]_vars => TypeOK'
<1> SUFFICES ASSUME TypeOK, [Next]_vars PROVE TypeOK'
  OBVIOUS
<1>1. ASSUME NEW t \in Tab, NEW s \in Slot, Network(t, s)
      PROVE  TypeOK'
  BY <1>1, ServeType, ServeReadType, ServeListType, FailType, GiveUpType DEF Network
<1>2. CASE UNCHANGED vars
  BY <1>2 DEF vars, TypeOK, LedgerTypeOK
<1> QED
  BY <1>1, <1>2, ContinueType, UserType, TabType, ServeLateType DEF Next

(* Every reachable state is well-typed. *)
THEOREM TypeInvariance == Spec => []TypeOK
BY InitType, NextType, PTL DEF Spec

-----------------------------------------------------------------------------
(* The clients are clients of the ledger: a step changes the database      *)
(* through one call, or leaves it alone.                                   *)

LEMMA BrowserLeavesDatabase ==
    ASSUME NEW t \in Tab, NEW s \in Slot,
           Continue(t, s) \/ User(t, s) \/ ServeRead(t, s) \/ ServeList(t, s)
               \/ Fail(t, s) \/ GiveUp(t, s)
    PROVE  UNCHANGED dbVars
<1>1. CASE Continue(t, s)
  BY <1>1
     DEF Continue, OnAlreadyResolved, OnFinalized, OnSubmitError, OnAbsent,
         OnUnconfirmed, OnSuperseded, OnSupersedeError, OnListed, OnListedEmpty,
         OnSyncRegistered, OnSyncError, dbAndWire, dbVars
<1>2. CASE User(t, s)
  BY <1>2 DEF User, Submit, Reconcile, ChangeManifest, StartSync, Mount, dbAndWire, dbVars
<1>3. CASE ServeRead(t, s) \/ ServeList(t, s) \/ Fail(t, s) \/ GiveUp(t, s)
  BY <1>3 DEF ServeRead, ServeList, Fail, GiveUp, dbAndWire, dbVars
<1> QED
  BY <1>1, <1>2, <1>3

LEMMA TabLeavesDatabase ==
    ASSUME NEW t \in Tab,
           OpenTab(t) \/ Unmount(t) \/ Reload(t) \/ CloseTab(t)
    PROVE  UNCHANGED dbVars
BY DEF OpenTab, Unmount, Reload, CloseTab, PageDies, dbAndWire, dbVars

LEMMA StepIsCall == TypeOK /\ [Next]_vars => [LedgerNext]_dbVars
<1> SUFFICES ASSUME TypeOK, [Next]_vars PROVE [LedgerNext]_dbVars
  OBVIOUS
<1>1. ASSUME NEW t \in Tab, NEW s \in Slot, Serve(t, s)
      PROVE  LedgerNext
  BY <1>1, ExecuteIsCall DEF Serve, Outstanding
<1>2. ASSUME NEW r \in late, ServeLate(r)
      PROVE  LedgerNext
  BY <1>2, ExecuteIsCall DEF ServeLate, TypeOK
<1>3. CASE UNCHANGED vars
  BY <1>3 DEF vars, dbVars
<1> QED
  BY <1>1, <1>2, <1>3, BrowserLeavesDatabase, TabLeavesDatabase DEF Next, Network

(* Everything the ledger promises to arbitrary callers holds of the        *)
(* browsers and the database together.                                     *)
THEOREM ClientsOfLedger == Spec => LedgerSpec
<1>1. Init => LedgerInit
  BY DEF Init
<1> QED
  BY <1>1, TypeInvariance, StepIsCall, PTL DEF Spec, LedgerSpec

-----------------------------------------------------------------------------
(* What a pending step of a handler has established in the database: the   *)
(* domain write is sent for a registered identity with the registered      *)
(* payload, and finalization as confirmed for a recorded one.              *)

RegisteredAs(k, p) ==
    k \in Key /\ ledger[k].status # "none" /\ ledger[k].payload = p

HandlerJustified(h) ==
    /\ h.pc = "write" => RegisteredAs(h.key, h.payload)
    /\ h.pc \in {"finalize", "confirm"} => Recorded(h.key)

RequestJustified(r) ==
    /\ r.call = "write" => RegisteredAs(r.key, r.payload)
    /\ r.call = "confirmed" => Recorded(r.key)

Justified ==
    /\ TypeOK
    /\ RegisteredBeforeWrite
    /\ ConfirmedIsRecorded
    /\ \A t \in Tab, s \in Slot : HandlerJustified(flow[t][s])
    /\ \A r \in late : RequestJustified(r)

(* Registration and records are never taken back. *)
LEMMA CallsKeep ==
    ASSUME LedgerTypeOK, [LedgerNext]_dbVars
    PROVE  /\ \A k, p : RegisteredAs(k, p) => RegisteredAs(k, p)'
           /\ \A k : Recorded(k) => Recorded(k)'
<1>1. ASSUME NEW k \in Key, NEW p \in Payload, Register(k, p)
      PROVE  /\ \A j \in Key : ledger[j].status # "none"
                    => ledger'[j].status # "none" /\ ledger'[j].payload = ledger[j].payload
             /\ manifests' = manifests
  BY <1>1 DEF Register, RegisterOutcome, LedgerTypeOK, Row
<1>2. ASSUME NEW k \in Key, NEW v \in Verification, Mark(k, v)
      PROVE  /\ \A j \in Key : ledger'[j].status = ledger[j].status
                             /\ ledger'[j].payload = ledger[j].payload
             /\ manifests' = manifests
  BY <1>2, MarkStatus DEF Mark
<1>3. ASSUME NEW k \in Key, NEW r \in Resolution, Resolve(k, r)
      PROVE  /\ \A j \in Key : ledger[j].status # "none"
                    => ledger'[j].status # "none" /\ ledger'[j].payload = ledger[j].payload
             /\ manifests' = manifests
  BY <1>3 DEF Resolve, Resolution, LedgerTypeOK, Row
<1>4. ASSUME NEW k \in Key, NEW p \in Payload, Write(k, p)
      PROVE  /\ ledger' = ledger
             /\ \A j : Recorded(j) => Recorded(j)'
  <2>1. CASE Recorded(k)
    BY <1>4, <2>1 DEF Write, Recorded
  <2>2. CASE ~ Recorded(k)
    <3>1. /\ manifests' = Append(manifests, [key |-> k, payload |-> p])
          /\ manifests \in Seq(Manifest)
          /\ [key |-> k, payload |-> p] \in Manifest
      BY <1>4, <2>2 DEF Write, LedgerTypeOK, Manifest
    <3>2. \A i \in DOMAIN manifests : i \in DOMAIN manifests' /\ manifests'[i] = manifests[i]
      BY <3>1
    <3> QED
      BY <1>4, <3>2 DEF Write, Recorded
  <2> QED
    BY <2>1, <2>2
<1>5. CASE UNCHANGED dbVars
  BY <1>5 DEF dbVars, RegisteredAs, Recorded
<1> QED
  BY <1>1, <1>2, <1>3, <1>4, <1>5 DEF LedgerNext, RegisteredAs, Recorded

(* A justified request keeps both facts about the database, a registration *)
(* that answers "active" registers, and a domain write that answers "ok"   *)
(* records.                                                                *)
LEMMA ExecuteJustified ==
    ASSUME LedgerTypeOK, RegisteredBeforeWrite, ConfirmedIsRecorded,
           NEW r \in Request, RequestJustified(r), Execute(r)
    PROVE  /\ RegisteredBeforeWrite'
           /\ ConfirmedIsRecorded'
           /\ r.call = "register" /\ Outcome(r) = "active"
                  => RegisteredAs(r.key, r.payload)'
           /\ r.call = "write" => Recorded(r.key)'
<1>1. r.key \in Key /\ r.payload \in Payload
  BY DEF Request
<1>2. \A i \in DOMAIN manifests :
         RegisteredAs(manifests[i].key, manifests[i].payload)
  <2> SUFFICES ASSUME NEW i \in DOMAIN manifests
               PROVE  RegisteredAs(manifests[i].key, manifests[i].payload)
    OBVIOUS
  <2>1. manifests[i] \in Manifest
    BY DEF LedgerTypeOK
  <2>2. manifests[i].key \in Key
    BY <2>1 DEF Manifest
  <2> QED
    BY <2>2 DEF RegisteredBeforeWrite, RegisteredAs
<1>3. /\ \A k, p : RegisteredAs(k, p) => RegisteredAs(k, p)'
      /\ \A k : Recorded(k) => Recorded(k)'
  BY CallsKeep, ExecuteIsCall
<1>4. CASE r.call = "write" /\ Write(r.key, r.payload)
  <2>1. RegisteredAs(r.key, r.payload)
    BY <1>4 DEF RequestJustified
  <2>2. CASE Recorded(r.key)
    BY <1>1, <1>4, <2>2 DEF Write, RegisteredBeforeWrite, ConfirmedIsRecorded, Recorded
  <2>3. CASE ~ Recorded(r.key)
    <3> DEFINE m == [key |-> r.key, payload |-> r.payload]
               n == Len(manifests)
    <3>1. manifests' = Append(manifests, m) /\ m \in Manifest /\ manifests \in Seq(Manifest)
      BY <1>1, <1>4, <2>3 DEF Write, LedgerTypeOK, Manifest
    <3>2. /\ n \in Nat /\ DOMAIN manifests = 1 .. n /\ DOMAIN manifests' = 1 .. n + 1
          /\ \A i \in 1 .. n : manifests'[i] = manifests[i]
          /\ manifests'[n + 1] = m
      BY <3>1
    <3>3. RegisteredBeforeWrite'
      BY <3>2, <2>1, <1>4, <1>2 DEF RegisteredBeforeWrite, RegisteredAs, Write
    <3>4. Recorded(r.key)'
      BY <3>2 DEF Recorded
    <3>5. ConfirmedIsRecorded'
      BY <1>3, <1>4 DEF ConfirmedIsRecorded, Write
    <3> QED
      BY <1>4, <3>3, <3>4, <3>5
  <2> QED
    BY <2>2, <2>3
<1>5. CASE r.call = "register" /\ Register(r.key, r.payload)
  <2>1. manifests' = manifests
    BY <1>5 DEF Register
  <2>2. RegisteredBeforeWrite'
    BY <1>2, <1>3, <2>1 DEF RegisteredBeforeWrite, RegisteredAs
  <2>3. ConfirmedIsRecorded'
    BY <1>1, <1>5, <2>1 DEF Register, ConfirmedIsRecorded, Recorded, LedgerTypeOK
  <2>4. Outcome(r) = "active" => RegisteredAs(r.key, r.payload)'
    <3>1. Outcome(r) = RegisterOutcome(r.key, r.payload)
      BY <1>5 DEF Outcome, Resolution
    <3> QED
      BY <3>1, <1>1, <1>5 DEF Register, RegisteredAs, LedgerTypeOK
  <2> QED
    BY <1>5, <2>2, <2>3, <2>4
<1>6. CASE r.call \in Resolution /\ Resolve(r.key, r.call)
  <2>1. manifests' = manifests
    BY <1>6 DEF Resolve
  <2>2. RegisteredBeforeWrite'
    BY <1>2, <1>3, <2>1 DEF RegisteredBeforeWrite, RegisteredAs
  <2>3. ConfirmedIsRecorded'
    BY <1>1, <1>6, <2>1
       DEF Resolve, RequestJustified, ConfirmedIsRecorded, Recorded, LedgerTypeOK, Row
  <2> QED
    BY <1>6, <2>2, <2>3 DEF Resolution
<1>7. CASE r.call \in {"confirmed_absent", "unconfirmed"} /\ Mark(r.key, r.call)
  <2>1. manifests' = manifests
    BY <1>7 DEF Mark
  <2>2. RegisteredBeforeWrite'
    BY <1>2, <1>3, <2>1 DEF RegisteredBeforeWrite, RegisteredAs
  <2>3. ConfirmedIsRecorded'
    BY <1>1, <1>7, <2>1, MarkStatus DEF ConfirmedIsRecorded, Recorded
  <2> QED
    BY <1>7, <2>2, <2>3
<1> QED
  BY <1>4, <1>5, <1>6, <1>7 DEF Execute

(* Of the handlers of a tab only the one that moved must be looked at. *)
LEMMA BecomesJustified ==
    ASSUME FlowTypeOK, NEW t \in Tab, NEW s \in Slot, NEW h, Becomes(t, s, h),
           HandlerJustified(h),
           \A u \in Tab, v \in Slot : HandlerJustified(flow[u][v])
    PROVE  \A u \in Tab, v \in Slot : HandlerJustified(flow'[u][v])
BY DEF FlowTypeOK, Becomes

LEMMA RequestOfJustified ==
    ASSUME NEW h, HandlerJustified(h)
    PROVE  RequestJustified(RequestOf(h))
BY DEF HandlerJustified, RequestJustified, RequestOf, CallOf

LEMMA BrowserJustified ==
    ASSUME Justified, TypeOK', UNCHANGED dbVars,
           \A t \in Tab, s \in Slot : HandlerJustified(flow'[t][s]),
           \A r \in late' : r \in late \/ \E t \in Tab, s \in Slot : r = RequestOf(flow[t][s])
    PROVE  Justified'
<1>1. \A r \in late' : RequestJustified(r)
  BY RequestOfJustified DEF Justified
<1> QED
  BY <1>1
     DEF Justified, RegisteredBeforeWrite, ConfirmedIsRecorded, HandlerJustified,
         RequestJustified, RegisteredAs, Recorded, dbVars

LEMMA ServeJustified ==
    ASSUME Justified, TypeOK', NEW t \in Tab, NEW s \in Slot, Serve(t, s)
    PROVE  Justified'
<1>1. LedgerTypeOK /\ FlowTypeOK /\ RegisteredBeforeWrite /\ ConfirmedIsRecorded
  BY DEF Justified, TypeOK, FlowTypeOK
<1>2. PICK h \in Handler : h = flow[t][s] /\ HandlerJustified(h)
  BY <1>1, HandlerFields DEF Justified
<1>3. PICK r \in Request : r = RequestOf(h) /\ Execute(r) /\ RequestJustified(r)
  BY <1>2, RequestOfJustified DEF Serve, Outstanding
<1>4. /\ RegisteredBeforeWrite' /\ ConfirmedIsRecorded'
      /\ r.call = "register" /\ Outcome(r) = "active" => RegisteredAs(r.key, r.payload)'
      /\ r.call = "write" => Recorded(r.key)'
  BY <1>1, <1>3, ExecuteJustified
<1>5. /\ \A g \in Handler : HandlerJustified(g) => HandlerJustified(g)'
      /\ \A q \in Request : RequestJustified(q) => RequestJustified(q)'
  BY <1>1, <1>3, CallsKeep, ExecuteIsCall DEF HandlerJustified, RequestJustified
<1>6. PICK g \in Handler : Becomes(t, s, g) /\ HandlerJustified(g)'
  <2>1. ASSUME NEW a \in Reply, Answer(t, s, a)
        PROVE  \E g \in Handler : Becomes(t, s, g) /\ HandlerJustified(g)'
    <3> DEFINE g == [h EXCEPT !.reply = a]
    <3>1. g \in Handler /\ g.pc = h.pc /\ g.key = h.key /\ g.payload = h.payload
      BY DEF Handler
    <3>2. HandlerJustified(g)'
      BY <3>1, <1>2, <1>5 DEF HandlerJustified
    <3> QED
      BY <2>1, <1>2, <3>1, <3>2 DEF Answer
  <2>2. ASSUME NEW pc \in Pc, pc = Then(h.pc, Outcome(r)), pc # h.pc, Await(t, s, pc)
        PROVE  \E g \in Handler : Becomes(t, s, g) /\ HandlerJustified(g)'
    <3> DEFINE g == [h EXCEPT !.pc = pc, !.reply = "none"]
    <3>1. \/ h.pc = "register" /\ Outcome(r) = "active" /\ pc = "write"
          \/ h.pc = "write" /\ pc = "finalize"
      BY <2>2 DEF Then
    <3>2. g \in Handler /\ g.pc = pc /\ g.key = h.key /\ g.payload = h.payload
      BY DEF Handler, Reply
    <3>3. /\ r.key = h.key /\ r.payload = h.payload
          /\ h.pc = "register" => r.call = "register"
          /\ h.pc = "write" => r.call = "write"
      BY <1>3 DEF RequestOf, CallOf
    <3>4. HandlerJustified(g)'
      BY <3>1, <3>2, <3>3, <1>4 DEF HandlerJustified
    <3> QED
      BY <2>2, <1>2, <3>2, <3>4 DEF Await
  <2>3. "error" \in Reply /\ Outcome(r) \in Reply /\ Then(h.pc, Outcome(r)) \in Pc
    BY <1>1, OutcomeType DEF Reply, Then, Handler, Pc
  <2> QED
    BY <2>1, <2>2, <2>3, <1>2, <1>3 DEF Serve, AnswerCall
<1>7. \A u \in Tab, v \in Slot : HandlerJustified(flow[u][v])'
  <2> SUFFICES ASSUME NEW u \in Tab, NEW v \in Slot
               PROVE  HandlerJustified(flow[u][v])'
    OBVIOUS
  <2>1. PICK f \in Handler : f = flow'[u][v] /\ HandlerJustified(f)'
    BY <1>1, <1>5, <1>6, HandlerFields DEF Justified, Becomes, FlowTypeOK
  <2> QED
    BY <2>1 DEF HandlerJustified
<1>8. \A q \in late' : RequestJustified(q)'
  BY <1>5 DEF Justified, Serve, TypeOK
<1> QED
  BY <1>4, <1>7, <1>8 DEF Justified

LEMMA ServeLateJustified ==
    ASSUME Justified, TypeOK', NEW r \in late, ServeLate(r)
    PROVE  Justified'
<1>1. /\ LedgerTypeOK /\ RegisteredBeforeWrite /\ ConfirmedIsRecorded
      /\ r \in Request /\ RequestJustified(r) /\ Execute(r)
  BY DEF Justified, TypeOK, ServeLate
<1>2. RegisteredBeforeWrite' /\ ConfirmedIsRecorded'
  BY <1>1, ExecuteJustified
<1>3. /\ \A h \in Handler : HandlerJustified(h) => HandlerJustified(h)'
      /\ \A q \in Request : RequestJustified(q) => RequestJustified(q)'
  BY <1>1, CallsKeep, ExecuteIsCall DEF HandlerJustified, RequestJustified
<1>4. \A u \in Tab, v \in Slot : HandlerJustified(flow[u][v])'
  <2> SUFFICES ASSUME NEW u \in Tab, NEW v \in Slot
               PROVE  HandlerJustified(flow[u][v])'
    OBVIOUS
  <2>1. PICK f \in Handler : f = flow[u][v] /\ HandlerJustified(f)'
    BY <1>3, HandlerFields DEF Justified, TypeOK, FlowTypeOK
  <2> QED
    BY <2>1 DEF HandlerJustified, ServeLate
<1>5. \A q \in late' : RequestJustified(q)'
  BY <1>3 DEF Justified, ServeLate, TypeOK
<1> QED
  BY <1>2, <1>4, <1>5 DEF Justified

(* A handler that moves without the database goes to a step that needs no  *)
(* justification, except from the verification read, which saw the record. *)
LEMMA MoveJustified ==
    ASSUME Justified, NEW t \in Tab, NEW s \in Slot
    PROVE  /\ \A pc \in Pc \ {"write", "finalize", "confirm"} :
                  Await(t, s, pc) => \A u \in Tab, v \in Slot : HandlerJustified(flow'[u][v])
           /\ \A a \in Reply :
                  Answer(t, s, a) => \A u \in Tab, v \in Slot : HandlerJustified(flow'[u][v])
           /\ \A op, intent : \A pc \in Pc \ {"write", "finalize", "confirm"} :
                  Start(t, s, op, pc, intent)
                      => \A u \in Tab, v \in Slot : HandlerJustified(flow'[u][v])
           /\ Finish(t, s) => \A u \in Tab, v \in Slot : HandlerJustified(flow'[u][v])
           /\ UNCHANGED flow => \A u \in Tab, v \in Slot : HandlerJustified(flow'[u][v])
<1>1. /\ FlowTypeOK /\ flow[t][s] \in Handler /\ HandlerJustified(flow[t][s])
      /\ \A u \in Tab, v \in Slot : HandlerJustified(flow[u][v])
  BY HandlerFields DEF Justified, TypeOK, FlowTypeOK
<1>2. ASSUME NEW pc \in Pc \ {"write", "finalize", "confirm"}, Await(t, s, pc)
      PROVE  \A u \in Tab, v \in Slot : HandlerJustified(flow'[u][v])
  <2>1. HandlerJustified([flow[t][s] EXCEPT !.pc = pc, !.reply = "none"])
    BY <1>1, <1>2 DEF HandlerJustified, Handler
  <2> QED
    BY <1>1, <1>2, <2>1, BecomesJustified DEF Await
<1>3. ASSUME NEW a \in Reply, Answer(t, s, a)
      PROVE  \A u \in Tab, v \in Slot : HandlerJustified(flow'[u][v])
  <2>1. HandlerJustified([flow[t][s] EXCEPT !.reply = a])
    BY <1>1 DEF HandlerJustified, Handler
  <2> QED
    BY <1>1, <1>3, <2>1, BecomesJustified DEF Answer
<1>4. ASSUME NEW op, NEW intent, NEW pc \in Pc \ {"write", "finalize", "confirm"},
             Start(t, s, op, pc, intent)
      PROVE  \A u \in Tab, v \in Slot : HandlerJustified(flow'[u][v])
  <2>1. HandlerJustified([op |-> op, pc |-> pc, key |-> intent.key,
                          payload |-> intent.payload, reply |-> "none", live |-> TRUE])
    BY <1>4 DEF HandlerJustified
  <2> QED
    BY <1>1, <1>4, <2>1, BecomesJustified DEF Start
<1>5. ASSUME Finish(t, s)
      PROVE  \A u \in Tab, v \in Slot : HandlerJustified(flow'[u][v])
  <2>1. HandlerJustified(Idle)
    BY DEF HandlerJustified, Idle
  <2> QED
    BY <1>1, <1>5, <2>1, BecomesJustified DEF Finish
<1> QED
  BY <1>1, <1>2, <1>3, <1>4, <1>5

LEMMA NetworkJustified ==
    ASSUME Justified, TypeOK', NEW t \in Tab, NEW s \in Slot, Network(t, s)
    PROVE  Justified'
<1>1. CASE Serve(t, s)
  BY <1>1, ServeJustified
<1>2. CASE ServeRead(t, s)
  <2>1. flow[t][s] \in Handler
    BY HandlerFields DEF Justified, TypeOK, FlowTypeOK
  <2>2. ASSUME Recorded(flow[t][s].key), Await(t, s, "confirm")
        PROVE  \A u \in Tab, v \in Slot : HandlerJustified(flow'[u][v])
    <3>1. HandlerJustified([flow[t][s] EXCEPT !.pc = "confirm", !.reply = "none"])
      BY <2>1, <2>2 DEF HandlerJustified, Handler
    <3> QED
      BY <2>2, <3>1, BecomesJustified DEF Await, Justified, TypeOK, FlowTypeOK
  <2>3. \A u \in Tab, v \in Slot : HandlerJustified(flow'[u][v])
    BY <1>2, <2>2, MoveJustified DEF ServeRead, Pc
  <2> QED
    BY <1>2, <2>3, BrowserJustified DEF ServeRead, dbAndWire, dbVars
<1>3. CASE ServeList(t, s)
  <2>1. flow[t][s] \in Handler
    BY HandlerFields DEF Justified, TypeOK, FlowTypeOK
  <2>2. ASSUME NEW k \in Key,
               Becomes(t, s, [flow[t][s] EXCEPT !.key = k,
                                                !.payload = ledger[k].payload,
                                                !.reply = ledger[k].verification])
        PROVE  \A u \in Tab, v \in Slot : HandlerJustified(flow'[u][v])
    <3>1. HandlerJustified([flow[t][s] EXCEPT !.key = k,
                                              !.payload = ledger[k].payload,
                                              !.reply = ledger[k].verification])
      BY <1>3, <2>1 DEF HandlerJustified, Handler, ServeList, At
    <3> QED
      BY <2>2, <3>1, BecomesJustified DEF Justified, TypeOK, FlowTypeOK
  <2>3. \A u \in Tab, v \in Slot : HandlerJustified(flow'[u][v])
    BY <1>3, <2>2, MoveJustified DEF ServeList, Reply
  <2> QED
    BY <1>3, <2>3, BrowserJustified DEF ServeList, dbAndWire, dbVars
<1>4. CASE Fail(t, s)
  <2>1. \A u \in Tab, v \in Slot : HandlerJustified(flow'[u][v])
    BY <1>4, MoveJustified DEF Fail, Pc, Reply
  <2> QED
    BY <1>4, <2>1, BrowserJustified DEF Fail, dbVars
<1>5. CASE GiveUp(t, s)
  <2>1. \A u \in Tab, v \in Slot : HandlerJustified(flow'[u][v])
    BY <1>5, MoveJustified DEF GiveUp, Reply
  <2> QED
    BY <1>5, <2>1, BrowserJustified DEF GiveUp, dbVars
<1> QED
  BY <1>1, <1>2, <1>3, <1>4, <1>5 DEF Network

LEMMA ContinueJustified ==
    ASSUME Justified, TypeOK', NEW t \in Tab, NEW s \in Slot, Continue(t, s)
    PROVE  Justified'
<1>1. \A u \in Tab, v \in Slot : HandlerJustified(flow'[u][v])
  <2>1. CASE OnSubmitError(t, s)
    BY <2>1, MoveJustified DEF OnSubmitError, Pc
  <2>2. CASE OnListedEmpty(t, s)
    BY <2>2, MoveJustified DEF OnListedEmpty, Pc
  <2>3. CASE \/ OnAlreadyResolved(t, s) \/ OnFinalized(t, s) \/ OnAbsent(t, s)
             \/ OnUnconfirmed(t, s) \/ OnSuperseded(t, s) \/ OnSupersedeError(t, s)
             \/ OnListed(t, s) \/ OnSyncRegistered(t, s) \/ OnSyncError(t, s)
    BY <2>3, MoveJustified
       DEF OnAlreadyResolved, OnFinalized, OnAbsent, OnUnconfirmed, OnSuperseded,
           OnSupersedeError, OnListed, OnSyncRegistered, OnSyncError
  <2> QED
    BY <2>1, <2>2, <2>3 DEF Continue
<1>2. late' = late
  BY DEF Continue, OnAlreadyResolved, OnFinalized, OnSubmitError, OnAbsent,
         OnUnconfirmed, OnSuperseded, OnSupersedeError, OnListed, OnListedEmpty,
         OnSyncRegistered, OnSyncError, dbAndWire
<1> QED
  BY <1>1, <1>2, BrowserJustified, BrowserLeavesDatabase

LEMMA UserJustified ==
    ASSUME Justified, TypeOK', NEW t \in Tab, NEW s \in Slot, User(t, s)
    PROVE  Justified'
<1>1. {"register", "read", "supersede", "list"} \subseteq Pc \ {"write", "finalize", "confirm"}
  BY DEF Pc
<1>2. \A u \in Tab, v \in Slot : HandlerJustified(flow'[u][v])
  <2>1. ASSUME NEW p \in Payload, Submit(t, s, p)
        PROVE  \A u \in Tab, v \in Slot : HandlerJustified(flow'[u][v])
    BY <1>1, <2>1, MoveJustified DEF Submit
  <2>2. CASE Reconcile(t, s) \/ ChangeManifest(t, s) \/ StartSync(t, s)
    BY <1>1, <2>2, MoveJustified DEF Reconcile, ChangeManifest, StartSync
  <2>3. CASE Mount(t, s)
    BY <1>1, <2>3, MoveJustified DEF Mount
  <2> QED
    BY <2>1, <2>2, <2>3 DEF User
<1>3. late' = late
  BY DEF User, Submit, Reconcile, ChangeManifest, StartSync, Mount, dbAndWire
<1> QED
  BY <1>2, <1>3, BrowserJustified, BrowserLeavesDatabase

LEMMA TabJustified ==
    ASSUME Justified, TypeOK', NEW t \in Tab,
           OpenTab(t) \/ Unmount(t) \/ Reload(t) \/ CloseTab(t)
    PROVE  Justified'
<1>1. FlowTypeOK /\ \A u \in Tab, v \in Slot : HandlerJustified(flow[u][v])
  BY DEF Justified, TypeOK, FlowTypeOK
<1>2. \A u \in Tab, v \in Slot :
         HandlerJustified(Idle) /\ HandlerJustified(Detached(flow[u][v]))
  BY <1>1, HandlerFields DEF HandlerJustified, Idle, Detached, Handler
<1>3. \A u \in Tab, v \in Slot : HandlerJustified(flow'[u][v])
  BY <1>1, <1>2
     DEF OpenTab, Unmount, Reload, CloseTab, PageDies, FlowTypeOK
<1>4. \A r \in late' : r \in late \/ \E u \in Tab, v \in Slot : r = RequestOf(flow[u][v])
  BY DEF OpenTab, Unmount, Reload, CloseTab, PageDies, dbAndWire
<1> QED
  BY <1>3, <1>4, BrowserJustified, TabLeavesDatabase

(* The inductive invariant: pending steps are justified. *)
THEOREM JustifiedInvariance == Spec => []Justified
<1>1. Init => Justified
  <2> SUFFICES ASSUME Init PROVE Justified
    OBVIOUS
  <2>1. \A t \in Tab, s \in Slot : flow[t][s] = Idle
    BY DEF Init
  <2> QED
    BY <2>1, InitType
       DEF Init, LedgerInit, Justified, RegisteredBeforeWrite, ConfirmedIsRecorded,
           HandlerJustified, Idle, NoRow
<1>2. Justified /\ [Next]_vars => Justified'
  <2> SUFFICES ASSUME Justified, [Next]_vars PROVE Justified'
    OBVIOUS
  <2>1. TypeOK'
    BY NextType DEF Justified
  <2>2. CASE UNCHANGED vars
    BY <2>2
       DEF vars, Justified, TypeOK, LedgerTypeOK, RegisteredBeforeWrite,
           ConfirmedIsRecorded, HandlerJustified, RequestJustified, RegisteredAs, Recorded
  <2> QED
    BY <2>1, <2>2, NetworkJustified, ContinueJustified, UserJustified, TabJustified,
       ServeLateJustified
       DEF Next
<1> QED
  BY <1>1, <1>2, PTL DEF Spec

(* No domain record of an identity that was not registered first with the  *)
(* same payload, in any interleaving of tabs, handlers and late requests.  *)
THEOREM RegisteredFirst == Spec => []RegisteredBeforeWrite
<1>1. Justified => RegisteredBeforeWrite
  BY DEF Justified
<1> QED
  BY <1>1, JustifiedInvariance, PTL

(* No row is finalized as confirmed without its domain record. *)
THEOREM ConfirmedRecorded == Spec => []ConfirmedIsRecorded
<1>1. Justified => ConfirmedIsRecorded
  BY DEF Justified
<1> QED
  BY <1>1, JustifiedInvariance, PTL

-----------------------------------------------------------------------------
(* Browsers and database implement the intent lifecycle. *)

AStatus == [k \in Key |-> ledger[k].status]
ARecorded == {k \in Key : Recorded(k)}

(* One request executed for a justified caller is one step of the lifecycle *)
(* or none of its business.                                                *)
LEMMA ExecuteLifecycle ==
    ASSUME LedgerTypeOK, NEW r \in Request, RequestJustified(r), Execute(r)
    PROVE  [Lifecycle!Next]_(Lifecycle!intentVars)
<1> DEFINE k == r.key
<1>1. k \in Key /\ r.payload \in Payload
  BY DEF Request
<1>2. CASE r.call = "register" /\ Register(r.key, r.payload)
  <2>1. ARecorded' = ARecorded
    BY <1>2 DEF Register, ARecorded, Recorded
  <2>2. CASE RegisterOutcome(k, r.payload) # "active" \/ ledger[k].status = "open"
    <3>1. AStatus' = AStatus
      BY <1>1, <1>2, <2>2
         DEF Register, RegisterOutcome, AStatus, LedgerTypeOK, Row, Resolved,
             Unresolved, Resolution
    <3> QED
      BY <2>1, <3>1 DEF AStatus, ARecorded, Lifecycle!intentVars
  <2>3. CASE RegisterOutcome(k, r.payload) = "active" /\ ledger[k].status # "open"
    <3>1. ledger[k].status = "none" /\ \A j \in Key : ledger[j].status # "open"
      BY <1>1, <2>3
         DEF RegisterOutcome, Resolved, Unresolved, Resolution, LedgerTypeOK, Row
    <3>2. AStatus' = [AStatus EXCEPT ![k] = "open"]
      BY <1>1, <1>2, <2>3 DEF Register, AStatus, LedgerTypeOK
    <3>3. Lifecycle!Open(k)
      BY <1>1, <2>1, <3>1, <3>2 DEF Lifecycle!Open, AStatus, ARecorded
    <3> QED
      BY <1>1, <3>3 DEF Lifecycle!Next
  <2> QED
    BY <2>2, <2>3
<1>3. CASE r.call = "write" /\ Write(r.key, r.payload)
  <2>1. AStatus' = AStatus /\ ledger[k].status # "none"
    BY <1>3 DEF Write, AStatus, RequestJustified, RegisteredAs
  <2>2. CASE Recorded(k)
    <3>1. ARecorded' = ARecorded
      BY <1>3, <2>2 DEF Write, ARecorded, Recorded
    <3> QED
      BY <2>1, <3>1 DEF AStatus, ARecorded, Lifecycle!intentVars
  <2>3. CASE ~ Recorded(k)
    <3> DEFINE m == [key |-> r.key, payload |-> r.payload]
               n == Len(manifests)
    <3>1. manifests' = Append(manifests, m) /\ m \in Manifest /\ manifests \in Seq(Manifest)
      BY <1>1, <1>3, <2>3 DEF Write, LedgerTypeOK, Manifest
    <3>2. /\ n \in Nat /\ DOMAIN manifests = 1 .. n /\ DOMAIN manifests' = 1 .. n + 1
          /\ \A i \in 1 .. n : manifests'[i] = manifests[i]
          /\ manifests'[n + 1] = m
      BY <3>1
    <3>3. \A j \in Key : Recorded(j)' <=> Recorded(j) \/ j = k
      BY <3>2 DEF Recorded
    <3>4. ARecorded' = ARecorded \cup {k}
      BY <1>1, <3>3 DEF ARecorded
    <3>5. Lifecycle!Record(k)
      BY <1>1, <2>1, <2>3, <3>4 DEF Lifecycle!Record, AStatus, ARecorded
    <3> QED
      BY <1>1, <3>5 DEF Lifecycle!Next
  <2> QED
    BY <2>2, <2>3
<1>4. CASE r.call \in Resolution /\ Resolve(r.key, r.call)
  <2>1. ARecorded' = ARecorded
    BY <1>4 DEF Resolve, ARecorded, Recorded
  <2>2. CASE MayResolve(k, r.call)
    <3>1. AStatus' = [AStatus EXCEPT ![k] = r.call]
      BY <1>1, <1>4, <2>2 DEF Resolve, AStatus, LedgerTypeOK, Row
    <3>2. AStatus[k] = "open"
      BY <1>1, <2>2 DEF MayResolve, Unresolved, AStatus
    <3>3. CASE r.call = "confirmed"
      <4>1. k \in ARecorded
        BY <1>1, <3>3 DEF RequestJustified, ARecorded
      <4>2. Lifecycle!Confirm(k)
        BY <2>1, <3>1, <3>2, <3>3, <4>1 DEF Lifecycle!Confirm, AStatus, ARecorded
      <4> QED
        BY <1>1, <4>2 DEF Lifecycle!Next
    <3>4. CASE r.call = "superseded_after_absence"
      <4>1. Lifecycle!Supersede(k)
        BY <2>1, <3>1, <3>2, <3>4 DEF Lifecycle!Supersede, AStatus, ARecorded
      <4> QED
        BY <1>1, <4>1 DEF Lifecycle!Next
    <3> QED
      BY <1>4, <3>3, <3>4 DEF Resolution
  <2>3. CASE ~ MayResolve(k, r.call)
    <3>1. AStatus' = AStatus
      BY <1>4, <2>3 DEF Resolve, AStatus
    <3> QED
      BY <2>1, <3>1 DEF AStatus, ARecorded, Lifecycle!intentVars
  <2> QED
    BY <2>2, <2>3
<1>5. CASE r.call \in {"confirmed_absent", "unconfirmed"} /\ Mark(r.key, r.call)
  <2>1. AStatus' = AStatus /\ ARecorded' = ARecorded
    BY <1>1, <1>5, MarkStatus DEF AStatus, ARecorded, Mark, Recorded
  <2> QED
    BY <2>1 DEF AStatus, ARecorded, Lifecycle!intentVars
<1> QED
  BY <1>2, <1>3, <1>4, <1>5 DEF Execute

LEMMA StutterLifecycle ==
    ASSUME UNCHANGED dbVars
    PROVE  UNCHANGED Lifecycle!intentVars
BY DEF dbVars, Recorded, Lifecycle!intentVars

LEMMA StepLifecycle == Justified /\ [Next]_vars => [Lifecycle!Next]_(Lifecycle!intentVars)
<1> SUFFICES ASSUME Justified, [Next]_vars
             PROVE  [Lifecycle!Next]_(Lifecycle!intentVars)
  OBVIOUS
<1>1. LedgerTypeOK
  BY DEF Justified, TypeOK
<1>2. ASSUME NEW t \in Tab, NEW s \in Slot, Serve(t, s)
      PROVE  [Lifecycle!Next]_(Lifecycle!intentVars)
  BY <1>1, <1>2, RequestOfJustified, ExecuteLifecycle DEF Serve, Outstanding, Justified
<1>3. ASSUME NEW r \in late, ServeLate(r)
      PROVE  [Lifecycle!Next]_(Lifecycle!intentVars)
  BY <1>1, <1>3, ExecuteLifecycle DEF ServeLate, Justified, TypeOK
<1>4. CASE UNCHANGED vars
  BY <1>4, StutterLifecycle DEF vars, dbVars
<1> QED
  BY <1>2, <1>3, <1>4, BrowserLeavesDatabase, TabLeavesDatabase, StutterLifecycle
     DEF Next, Network

(* In any interleaving of tabs, handlers, lost answers and late requests    *)
(* the ledger and the jobs table together go through the intent lifecycle.  *)
THEOREM LifecycleImplemented == Spec => ImplementsLifecycle
<1>1. Init => Lifecycle!Init
  BY DEF Init, LedgerInit, NoRow, Recorded, Lifecycle!Init
<1> QED
  BY <1>1, StepLifecycle, JustifiedInvariance, PTL
     DEF Spec, ImplementsLifecycle, Lifecycle!Spec

-----------------------------------------------------------------------------
(* One payload per identity.  A naming gives each identity the payload it   *)
(* was generated for; everything that carries the identity carries that     *)
(* payload.                                                                 *)

Naming == [Key -> Payload \cup {NoPayload}]

Agrees(n, x) == x.key = NoKey \/ (x.key \in minted /\ x.payload = n[x.key])

LedgerAgrees(n) ==
    \A k \in Key : ledger[k].status # "none" => k \in minted /\ ledger[k].payload = n[k]
JournalsAgree(n) == \A t \in Tab : Agrees(n, local[t])
HandlersAgree(n) == \A t \in Tab, s \in Slot : Agrees(n, flow[t][s])
WireAgrees(n) == \A r \in late : Agrees(n, r)

AllAgree(n) == LedgerAgrees(n) /\ JournalsAgree(n) /\ HandlersAgree(n) /\ WireAgrees(n)

OneNaming == TypeOK /\ \E n \in Naming : AllAgree(n)

LEMMA AgreesStays ==
    ASSUME NEW n, NEW x, Agrees(n, x), UNCHANGED minted
    PROVE  Agrees(n, x)'
BY DEF Agrees

(* A request the database executes brings no other payload into the ledger. *)
LEMMA ExecuteAgrees ==
    ASSUME LedgerTypeOK, NEW n \in Naming, LedgerAgrees(n), UNCHANGED minted,
           NEW r \in Request, Agrees(n, r), Execute(r)
    PROVE  LedgerAgrees(n)'
<1>1. r.key \in Key /\ r.key \in minted /\ r.payload = n[r.key]
  BY NoKeyAssumption DEF Request, Agrees
<1>2. CASE r.call = "register" /\ Register(r.key, r.payload)
  BY <1>1, <1>2 DEF Register, LedgerAgrees, LedgerTypeOK
<1>3. CASE r.call = "write" /\ Write(r.key, r.payload)
  BY <1>3 DEF Write, LedgerAgrees
<1>4. CASE r.call \in Resolution /\ Resolve(r.key, r.call)
  <2>1. \A k \in Key : /\ ledger'[k].payload = ledger[k].payload
                       /\ ledger'[k].status # "none" => ledger[k].status # "none"
    BY <1>1, <1>4 DEF Resolve, MayResolve, Unresolved, LedgerTypeOK, Row
  <2> QED
    BY <2>1 DEF LedgerAgrees
<1>5. CASE r.call \in {"confirmed_absent", "unconfirmed"} /\ Mark(r.key, r.call)
  <2>1. \A k \in Key : /\ ledger'[k].payload = ledger[k].payload
                       /\ ledger'[k].status = ledger[k].status
    BY <1>1, <1>5, MarkStatus DEF Verification
  <2> QED
    BY <2>1 DEF LedgerAgrees
<1> QED
  BY <1>2, <1>3, <1>4, <1>5 DEF Execute

LEMMA BecomesAgrees ==
    ASSUME FlowTypeOK, NEW n, HandlersAgree(n), UNCHANGED minted,
           NEW t \in Tab, NEW s \in Slot, NEW h, Becomes(t, s, h), Agrees(n, h)
    PROVE  HandlersAgree(n)'
<1>1. \A u \in Tab, v \in Slot : Agrees(n, flow'[u][v])
  BY DEF FlowTypeOK, Becomes, HandlersAgree
<1> QED
  BY <1>1 DEF HandlersAgree, Agrees

(* A handler keeps its intent until it is finished. *)
LEMMA MoveAgrees ==
    ASSUME FlowTypeOK, NEW n, HandlersAgree(n), UNCHANGED minted,
           NEW t \in Tab, NEW s \in Slot
    PROVE  /\ \A pc : Await(t, s, pc) => HandlersAgree(n)'
           /\ \A a : Answer(t, s, a) => HandlersAgree(n)'
           /\ \A op, pc, intent :
                  Agrees(n, intent) /\ Start(t, s, op, pc, intent) => HandlersAgree(n)'
           /\ Finish(t, s) => HandlersAgree(n)'
           /\ UNCHANGED flow => HandlersAgree(n)'
<1>1. flow[t][s] \in Handler /\ Agrees(n, flow[t][s])
  BY HandlerFields DEF HandlersAgree
<1>2. ASSUME NEW pc, Await(t, s, pc) PROVE HandlersAgree(n)'
  <2>1. Agrees(n, [flow[t][s] EXCEPT !.pc = pc, !.reply = "none"])
    BY <1>1 DEF Agrees, Handler
  <2> QED
    BY <1>2, <2>1, BecomesAgrees DEF Await
<1>3. ASSUME NEW a, Answer(t, s, a) PROVE HandlersAgree(n)'
  <2>1. Agrees(n, [flow[t][s] EXCEPT !.reply = a])
    BY <1>1 DEF Agrees, Handler
  <2> QED
    BY <1>3, <2>1, BecomesAgrees DEF Answer
<1>4. ASSUME NEW op, NEW pc, NEW intent, Agrees(n, intent), Start(t, s, op, pc, intent)
      PROVE  HandlersAgree(n)'
  <2>1. Agrees(n, [op |-> op, pc |-> pc, key |-> intent.key,
                   payload |-> intent.payload, reply |-> "none", live |-> TRUE])
    BY <1>4 DEF Agrees
  <2> QED
    BY <1>4, <2>1, BecomesAgrees DEF Start
<1>5. ASSUME Finish(t, s) PROVE HandlersAgree(n)'
  BY <1>5, BecomesAgrees DEF Finish, Agrees, Idle
<1>6. ASSUME UNCHANGED flow PROVE HandlersAgree(n)'
  BY <1>6 DEF HandlersAgree, Agrees
<1> QED
  BY <1>2, <1>3, <1>4, <1>5, <1>6

(* A journal changes to the intent of a handler, to its own intent with    *)
(* another verification, or to none.                                       *)
LEMMA JournalMoves ==
    ASSUME BrowserTypeOK, NEW n, JournalsAgree(n), HandlersAgree(n), UNCHANGED minted,
           NEW t \in Tab, NEW s \in Slot
    PROVE  /\ \A v : MarkVerification(t, v) => JournalsAgree(n)'
           /\ Clear(t) \/ ClearAbsent(t) \/ UNCHANGED local => JournalsAgree(n)'
           /\ \A v : local' = [local EXCEPT ![t] =
                         LedgerIntent(flow[t][s].key, flow[t][s].payload, v)]
                     => JournalsAgree(n)'
<1>1. local \in [Tab -> Intent] /\ Agrees(n, NoIntent)
  BY DEF BrowserTypeOK, Agrees, NoIntent
<1>2. ASSUME NEW i, Agrees(n, i), local' = [local EXCEPT ![t] = i]
      PROVE  JournalsAgree(n)'
  <2>1. \A u \in Tab : Agrees(n, local'[u])
    BY <1>1, <1>2 DEF JournalsAgree
  <2> QED
    BY <2>1 DEF JournalsAgree, Agrees
<1>3. ASSUME UNCHANGED local PROVE JournalsAgree(n)'
  BY <1>3 DEF JournalsAgree, Agrees
<1>4. ASSUME NEW v, MarkVerification(t, v) PROVE JournalsAgree(n)'
  <2>1. local[t] \in Intent /\ Agrees(n, local[t])
    BY <1>1 DEF JournalsAgree
  <2>2. Agrees(n, [local[t] EXCEPT !.verification = v])
    BY <2>1 DEF Agrees, Intent
  <2>3. \/ local' = [local EXCEPT ![t] = [local[t] EXCEPT !.verification = v]]
        \/ UNCHANGED local
    BY <1>1, <1>4 DEF MarkVerification
  <2> QED
    BY <2>2, <2>3, <1>2, <1>3
<1>5. ASSUME Clear(t) \/ ClearAbsent(t) PROVE JournalsAgree(n)'
  BY <1>5, <1>1, <1>2, <1>3 DEF Clear, ClearAbsent
<1>6. ASSUME NEW v, local' = [local EXCEPT ![t] =
                         LedgerIntent(flow[t][s].key, flow[t][s].payload, v)]
      PROVE  JournalsAgree(n)'
  <2>1. Agrees(n, LedgerIntent(flow[t][s].key, flow[t][s].payload, v))
    BY DEF HandlersAgree, Agrees, LedgerIntent
  <2> QED
    BY <1>6, <2>1, <1>2
<1> QED
  BY <1>3, <1>4, <1>5, <1>6

LEMMA RequestAgrees ==
    ASSUME FlowTypeOK, NEW n, HandlersAgree(n), NEW t \in Tab, NEW s \in Slot
    PROVE  Agrees(n, RequestOf(flow[t][s]))
BY DEF HandlersAgree, Agrees, RequestOf

LEMMA NetworkAgrees ==
    ASSUME TypeOK, NEW n \in Naming, AllAgree(n),
           NEW t \in Tab, NEW s \in Slot, Network(t, s)
    PROVE  AllAgree(n)'
<1>1. FlowTypeOK /\ LedgerTypeOK /\ UNCHANGED <<minted, local>>
  BY DEF TypeOK, FlowTypeOK, Network, Serve, ServeRead, ServeList, Fail, GiveUp
<1>2. JournalsAgree(n)'
  BY <1>1 DEF AllAgree, JournalsAgree, Agrees
<1>3. Agrees(n, RequestOf(flow[t][s]))
  BY <1>1, RequestAgrees DEF AllAgree
<1>4. WireAgrees(n)'
  <2>1. late' \subseteq late \cup {RequestOf(flow[t][s])}
    BY DEF Network, Serve, ServeRead, ServeList, Fail, GiveUp, dbAndWire
  <2> QED
    BY <1>1, <1>3, <2>1 DEF AllAgree, WireAgrees, Agrees
<1>5. LedgerAgrees(n)'
  <2>1. CASE Serve(t, s)
    BY <2>1, <1>1, <1>3, ExecuteAgrees DEF Serve, Outstanding, AllAgree
  <2>2. CASE ServeRead(t, s) \/ ServeList(t, s) \/ Fail(t, s) \/ GiveUp(t, s)
    BY <2>2, <1>1
       DEF ServeRead, ServeList, Fail, GiveUp, dbAndWire, AllAgree, LedgerAgrees
  <2> QED
    BY <2>1, <2>2 DEF Network
<1>6. HandlersAgree(n)'
  <2>1. CASE Serve(t, s) \/ ServeRead(t, s) \/ Fail(t, s) \/ GiveUp(t, s)
    BY <2>1, <1>1, MoveAgrees DEF Serve, AnswerCall, ServeRead, Fail, GiveUp, AllAgree
  <2>2. CASE ServeList(t, s)
    <3>1. CASE Answer(t, s, "empty")
      BY <3>1, <1>1, MoveAgrees DEF AllAgree
    <3>2. ASSUME NEW k \in Key, Unresolved(k),
                 Becomes(t, s, [flow[t][s] EXCEPT !.key = k,
                                                  !.payload = ledger[k].payload,
                                                  !.reply = ledger[k].verification])
          PROVE  HandlersAgree(n)'
      <4>1. flow[t][s] \in Handler
        BY <1>1, HandlerFields
      <4>2. k \in minted /\ ledger[k].payload = n[k]
        BY <3>2 DEF AllAgree, LedgerAgrees, Unresolved
      <4>3. Agrees(n, [flow[t][s] EXCEPT !.key = k, !.payload = ledger[k].payload,
                                         !.reply = ledger[k].verification])
        BY <4>1, <4>2 DEF Agrees, Handler
      <4> QED
        BY <3>2, <4>3, <1>1, BecomesAgrees DEF AllAgree
    <3> QED
      BY <2>2, <3>1, <3>2 DEF ServeList
  <2> QED
    BY <2>1, <2>2 DEF Network
<1> QED
  BY <1>2, <1>4, <1>5, <1>6 DEF AllAgree

(* The browser alone changes neither ledger nor wire. *)
LEMMA BrowserAgrees ==
    ASSUME NEW n \in Naming, AllAgree(n), UNCHANGED <<minted, ledger, late>>,
           JournalsAgree(n)', HandlersAgree(n)'
    PROVE  AllAgree(n)'
BY DEF AllAgree, LedgerAgrees, WireAgrees, Agrees

LEMMA ContinueAgrees ==
    ASSUME TypeOK, NEW n \in Naming, AllAgree(n),
           NEW t \in Tab, NEW s \in Slot, Continue(t, s)
    PROVE  AllAgree(n)'
<1>1. /\ FlowTypeOK /\ BrowserTypeOK
      /\ JournalsAgree(n) /\ HandlersAgree(n) /\ Agrees(n, local[t])
  BY BrowserType DEF BrowserTypeOK, AllAgree, JournalsAgree
<1>2. UNCHANGED <<minted, ledger, late>>
  BY DEF Continue, OnAlreadyResolved, OnFinalized, OnSubmitError, OnAbsent,
         OnUnconfirmed, OnSuperseded, OnSupersedeError, OnListed, OnListedEmpty,
         OnSyncRegistered, OnSyncError, dbAndWire
<1>3. HandlersAgree(n)'
  BY <1>1, <1>2, MoveAgrees
     DEF Continue, OnAlreadyResolved, OnFinalized, OnSubmitError, OnAbsent,
         OnUnconfirmed, OnSuperseded, OnSupersedeError, OnListed, OnListedEmpty,
         OnSyncRegistered, OnSyncError
<1>4. JournalsAgree(n)'
  BY <1>1, <1>2, JournalMoves
     DEF Continue, OnAlreadyResolved, OnFinalized, OnSubmitError, OnAbsent,
         OnUnconfirmed, OnSuperseded, OnSupersedeError, OnListed, OnListedEmpty,
         OnSyncRegistered, OnSyncError
<1> QED
  BY <1>2, <1>3, <1>4, BrowserAgrees

(* A submission takes up the stored identity for its own payload, or an    *)
(* identity nothing carries yet, which from then on names the payload.      *)
LEMMA SubmitAgrees ==
    ASSUME TypeOK, NEW n \in Naming, AllAgree(n),
           NEW t \in Tab, NEW s \in Slot, NEW p \in Payload, Submit(t, s, p)
    PROVE  \E m \in Naming : AllAgree(m)'
<1>1. /\ FlowTypeOK /\ BrowserTypeOK
      /\ JournalsAgree(n) /\ HandlersAgree(n) /\ Agrees(n, local[t])
      /\ UNCHANGED <<ledger, late>>
  BY BrowserType DEF BrowserTypeOK, AllAgree, JournalsAgree, Submit, dbAndWire
<1>2. PICK intent \in Intent :
          GetOrCreate(t, p, intent) /\ Start(t, s, "submit", "register", intent)
  BY DEF Submit
<1>3. CASE UNCHANGED minted /\ intent = local[t]
  <2>1. HandlersAgree(n)'
    BY <1>1, <1>2, <1>3, MoveAgrees
  <2>2. JournalsAgree(n)'
    <3>1. UNCHANGED local
      BY <1>1, <1>2, <1>3 DEF GetOrCreate, BrowserTypeOK
    <3> QED
      BY <1>1, <1>3, <3>1, JournalMoves
  <2> QED
    BY <1>1, <1>3, <2>1, <2>2, BrowserAgrees
<1>4. ASSUME NEW k \in Key \ minted, intent = NewIntent(k, p), minted' = minted \cup {k}
      PROVE  \E m \in Naming : AllAgree(m)'
  <2> DEFINE m == [n EXCEPT ![k] = p]
  <2>1. m \in Naming /\ m[k] = p /\ \A j \in Key \ {k} : m[j] = n[j]
    BY DEF Naming
  <2>2. ASSUME NEW x, Agrees(n, x)
        PROVE  x.key = NoKey \/ (x.key \in minted' /\ x.payload = m[x.key])
    <3>1. x.key \in minted => x.key \in Key \ {k}
      BY <1>4 DEF TypeOK
    <3> QED
      BY <1>4, <2>1, <2>2, <3>1 DEF Agrees
  <2>3. intent.key \in minted' /\ intent.payload = m[intent.key]
    BY <1>4, <2>1 DEF NewIntent
  <2> HIDE DEF m
  <2>4. LedgerAgrees(m)'
    BY <1>1, <1>4, <2>1 DEF AllAgree, LedgerAgrees, TypeOK
  <2>5. JournalsAgree(m)'
    BY <1>1, <1>2, <2>2, <2>3 DEF GetOrCreate, BrowserTypeOK, JournalsAgree, Agrees
  <2>6. HandlersAgree(m)'
    BY <1>1, <1>2, <2>2, <2>3 DEF Start, Becomes, FlowTypeOK, HandlersAgree, Agrees
  <2>7. WireAgrees(m)'
    BY <1>1, <2>2 DEF AllAgree, WireAgrees, Agrees
  <2> QED
    BY <2>1, <2>4, <2>5, <2>6, <2>7 DEF AllAgree
<1> QED
  BY <1>2, <1>3, <1>4 DEF GetOrCreate

LEMMA UserAgrees ==
    ASSUME TypeOK, NEW n \in Naming, AllAgree(n),
           NEW t \in Tab, NEW s \in Slot, User(t, s)
    PROVE  \E m \in Naming : AllAgree(m)'
<1>1. CASE \E p \in Payload : Submit(t, s, p)
  BY <1>1, SubmitAgrees
<1>2. CASE Reconcile(t, s) \/ ChangeManifest(t, s) \/ StartSync(t, s) \/ Mount(t, s)
  <2>1. /\ FlowTypeOK /\ BrowserTypeOK
        /\ JournalsAgree(n) /\ HandlersAgree(n) /\ Agrees(n, local[t])
        /\ Agrees(n, NoIntent)
    BY BrowserType DEF BrowserTypeOK, AllAgree, JournalsAgree, Agrees, NoIntent
  <2>2. UNCHANGED <<minted, ledger, late, local>>
    BY <1>2 DEF Reconcile, ChangeManifest, StartSync, Mount, dbAndWire
  <2>3. HandlersAgree(n)'
    BY <1>2, <2>1, <2>2, MoveAgrees DEF Reconcile, ChangeManifest, StartSync, Mount
  <2>4. JournalsAgree(n)'
    BY <2>1, <2>2, JournalMoves
  <2> QED
    BY <2>2, <2>3, <2>4, BrowserAgrees
<1> QED
  BY <1>1, <1>2 DEF User

LEMMA TabAgrees ==
    ASSUME TypeOK, NEW n \in Naming, AllAgree(n), NEW t \in Tab,
           OpenTab(t) \/ Unmount(t) \/ Reload(t) \/ CloseTab(t)
    PROVE  AllAgree(n)'
<1>1. /\ FlowTypeOK /\ BrowserTypeOK /\ JournalsAgree(n) /\ HandlersAgree(n)
      /\ UNCHANGED <<minted, ledger>>
  BY BrowserType
     DEF BrowserTypeOK, AllAgree, OpenTab, Unmount, Reload, CloseTab, PageDies, dbAndWire
<1>2. JournalsAgree(n)'
  <2>1. UNCHANGED local \/ local' = [local EXCEPT ![t] = NoIntent]
    BY DEF OpenTab, Unmount, Reload, CloseTab, Clear
  <2> QED
    BY <1>1, <2>1 DEF BrowserTypeOK, JournalsAgree, Agrees, NoIntent
<1>3. HandlersAgree(n)'
  <2>1. \A u \in Tab, v \in Slot :
           Agrees(n, Idle) /\ Agrees(n, flow[u][v]) /\ Agrees(n, Detached(flow[u][v]))
    BY <1>1, HandlerFields DEF HandlersAgree, Agrees, Idle, Detached, Handler
  <2>2. \A u \in Tab, v \in Slot : Agrees(n, flow'[u][v])
    BY <1>1, <2>1 DEF OpenTab, Unmount, Reload, CloseTab, PageDies, FlowTypeOK
  <2> QED
    BY <1>1, <2>2 DEF HandlersAgree, Agrees
<1>4. WireAgrees(n)'
  <2>1. \A r \in late' : r \in late \/ \E u \in Tab, v \in Slot : r = RequestOf(flow[u][v])
    BY DEF OpenTab, Unmount, Reload, CloseTab, PageDies, dbAndWire
  <2>2. \A r \in late' : Agrees(n, r)
    BY <1>1, <2>1, RequestAgrees DEF AllAgree, WireAgrees
  <2> QED
    BY <1>1, <2>2 DEF WireAgrees, Agrees
<1> QED
  BY <1>1, <1>2, <1>3, <1>4 DEF AllAgree, LedgerAgrees

LEMMA ServeLateAgrees ==
    ASSUME TypeOK, NEW n \in Naming, AllAgree(n), NEW r \in late, ServeLate(r)
    PROVE  AllAgree(n)'
<1>1. r \in Request /\ LedgerTypeOK /\ Agrees(n, r) /\ late' \subseteq late
  BY DEF TypeOK, AllAgree, WireAgrees, ServeLate
<1>2. LedgerAgrees(n)'
  BY <1>1, ExecuteAgrees DEF ServeLate, AllAgree
<1> QED
  BY <1>1, <1>2 DEF ServeLate, AllAgree, JournalsAgree, HandlersAgree, WireAgrees, Agrees

(* The inductive invariant: every carrier of an identity agrees on what it *)
(* was generated for.                                                      *)
THEOREM NamingInvariance == Spec => []OneNaming
<1>1. Init => OneNaming
  <2> SUFFICES ASSUME Init PROVE OneNaming
    OBVIOUS
  <2>1. TypeOK /\ [k \in Key |-> NoPayload] \in Naming
    BY InitType DEF Naming
  <2>2. AllAgree([k \in Key |-> NoPayload])
    BY DEF Init, LedgerInit, NoRow, NoIntent, Idle, AllAgree, LedgerAgrees,
           JournalsAgree, HandlersAgree, WireAgrees, Agrees
  <2> QED
    BY <2>1, <2>2 DEF OneNaming
<1>2. OneNaming /\ [Next]_vars => OneNaming'
  <2> SUFFICES ASSUME OneNaming, [Next]_vars PROVE OneNaming'
    OBVIOUS
  <2>1. TypeOK /\ TypeOK'
    BY NextType DEF OneNaming
  <2>2. PICK n \in Naming : AllAgree(n)
    BY DEF OneNaming
  <2>3. \E m \in Naming : AllAgree(m)'
    <3>1. CASE UNCHANGED vars
      BY <3>1, <2>2
         DEF vars, AllAgree, LedgerAgrees, JournalsAgree, HandlersAgree, WireAgrees, Agrees
    <3> QED
      BY <2>1, <2>2, <3>1, NetworkAgrees, ContinueAgrees, UserAgrees, TabAgrees,
         ServeLateAgrees
         DEF Next
  <2> QED
    BY <2>1, <2>3 DEF OneNaming
<1> QED
  BY <1>1, <1>2, PTL DEF Spec

(* An identity stands for one payload in the ledger, the journals, the     *)
(* handlers and on the wire, in any interleaving of any number of tabs.    *)
THEOREM IdentityHasOnePayload == Spec => []IdentityNamesOnePayload
<1>1. OneNaming => IdentityNamesOnePayload
  <2> SUFFICES ASSUME OneNaming, NEW k \in Key, NEW p \in Named(k), NEW q \in Named(k)
               PROVE  p = q
    BY DEF IdentityNamesOnePayload
  <2>1. PICK n \in Naming : AllAgree(n)
    BY DEF OneNaming
  <2>2. \A x : x.key = k /\ Agrees(n, x) => x.payload = n[k]
    BY NoKeyAssumption DEF Agrees
  <2>3. \A c \in Named(k) : c = n[k]
    BY <2>1, <2>2
       DEF Named, AllAgree, LedgerAgrees, JournalsAgree, HandlersAgree, WireAgrees
  <2> QED
    BY <2>3
<1> QED
  BY <1>1, NamingInvariance, PTL

-----------------------------------------------------------------------------
(* One handler at a time.  Without Overlap a tab starts a handler only when *)
(* none is running.                                                         *)

Alone(t) == \A s, u \in Slot : Running(t, s) /\ Running(t, u) => s = u

OthersIdle(t, s) == \A u \in Slot \ {s} : flow[t][u] = Idle

Whole(h) == h.op = "none" \/ h.pc = "idle" => h = Idle

OneHandler ==
    /\ TypeOK
    /\ \A t \in Tab : Alone(t)
    /\ \A t \in Tab, s \in Slot : Whole(flow[t][s])

LEMMA RunningAlone ==
    ASSUME OneHandler, NEW t \in Tab, NEW s \in Slot, flow[t][s].pc # "idle"
    PROVE  Running(t, s) /\ OthersIdle(t, s)
<1>1. Whole(flow[t][s]) /\ \A u \in Slot : Whole(flow[t][u])
  BY DEF OneHandler
<1>2. Running(t, s)
  BY <1>1 DEF Whole, Running, Idle
<1>3. \A u \in Slot \ {s} : ~ Running(t, u)
  BY <1>2 DEF OneHandler, Alone
<1> QED
  BY <1>1, <1>2, <1>3 DEF Running, OthersIdle, Whole

LEMMA QuietTab ==
    ASSUME OneHandler, ~ Overlap, NEW t \in Tab, Quiet(t)
    PROVE  \A s \in Slot : flow[t][s] = Idle
BY DEF OneHandler, Quiet, Running, Whole

LEMMA BecomesAlone ==
    ASSUME OneHandler, TypeOK', NEW t \in Tab, NEW s \in Slot, OthersIdle(t, s),
           NEW h, Becomes(t, s, h), Whole(h)
    PROVE  OneHandler'
<1>1. \A u \in Tab, v \in Slot :
         flow'[u][v] = IF u = t /\ v = s THEN h ELSE flow[u][v]
  BY DEF OneHandler, TypeOK, Becomes
<1>2. \A u \in Tab, v \in Slot : Whole(flow'[u][v])
  BY <1>1 DEF OneHandler
<1>3. \A u \in Tab : Alone(u)'
  <2>1. \A v \in Slot \ {s} : flow'[t][v].op = "none"
    BY <1>1 DEF OthersIdle, Idle
  <2> QED
    BY <1>1, <2>1 DEF OneHandler, Alone, Running
<1> QED
  BY <1>2, <1>3 DEF OneHandler, Whole

(* A handler that runs on is the only one, and stays it or finishes. *)
LEMMA AwaitAlone ==
    ASSUME OneHandler, TypeOK', NEW t \in Tab, NEW s \in Slot, flow[t][s].pc # "idle"
    PROVE  /\ \A pc \in Pc \ {"idle"} : Await(t, s, pc) => OneHandler'
           /\ \A a : Answer(t, s, a) => OneHandler'
           /\ Finish(t, s) => OneHandler'
           /\ \A op, pc, intent :
                  op # "none" /\ pc # "idle" /\ Start(t, s, op, pc, intent)
                      => OneHandler'
<1>1. flow[t][s] \in Handler /\ Running(t, s) /\ OthersIdle(t, s)
  BY RunningAlone, HandlerFields DEF OneHandler, TypeOK, FlowTypeOK
<1>2. ASSUME NEW pc \in Pc \ {"idle"}, Await(t, s, pc) PROVE OneHandler'
  <2>1. Whole([flow[t][s] EXCEPT !.pc = pc, !.reply = "none"])
    BY <1>1 DEF Whole, Handler, Running
  <2> QED
    BY <1>1, <1>2, <2>1, BecomesAlone DEF Await
<1>3. ASSUME NEW a, Answer(t, s, a) PROVE OneHandler'
  <2>1. Whole([flow[t][s] EXCEPT !.reply = a])
    BY <1>1 DEF Whole, Handler, Running
  <2> QED
    BY <1>1, <1>3, <2>1, BecomesAlone DEF Answer
<1>4. ASSUME Finish(t, s) PROVE OneHandler'
  BY <1>1, <1>4, BecomesAlone DEF Finish, Whole
<1>5. ASSUME NEW op, NEW pc, NEW intent, op # "none", pc # "idle",
             Start(t, s, op, pc, intent)
      PROVE  OneHandler'
  BY <1>1, <1>5, BecomesAlone DEF Start, Whole
<1> QED
  BY <1>2, <1>3, <1>4, <1>5

LEMMA StartAlone ==
    ASSUME OneHandler, TypeOK', ~ Overlap, NEW t \in Tab, NEW s \in Slot, Quiet(t),
           NEW op, NEW pc, NEW intent, op # "none", pc # "idle",
           Start(t, s, op, pc, intent)
    PROVE  OneHandler'
<1>1. OthersIdle(t, s)
  BY QuietTab DEF OthersIdle
<1> QED
  BY <1>1, BecomesAlone DEF Start, Whole

LEMMA NetworkAlone ==
    ASSUME OneHandler, TypeOK', NEW t \in Tab, NEW s \in Slot, Network(t, s)
    PROVE  flow[t][s].pc # "idle" /\ OneHandler'
<1>1. flow[t][s].pc # "idle"
  <2>1. At(t, s, "read") \/ At(t, s, "list") \/ Running(t, s)
    BY DEF Network, Serve, ServeRead, ServeList, Fail, GiveUp, Outstanding
  <2>2. Whole(flow[t][s])
    BY DEF OneHandler
  <2> QED
    BY <2>1, <2>2 DEF At, Running, Whole, Idle
<1>2. flow[t][s] \in Handler /\ Running(t, s) /\ OthersIdle(t, s)
  BY <1>1, RunningAlone, HandlerFields DEF OneHandler, TypeOK, FlowTypeOK
<1>3. \A r : Then(flow[t][s].pc, r) \in Pc \ {"idle"}
  BY <1>1, <1>2 DEF Then, Pc, Handler
<1>4. CASE Serve(t, s) \/ ServeRead(t, s) \/ Fail(t, s) \/ GiveUp(t, s)
  BY <1>1, <1>3, <1>4, AwaitAlone
     DEF Serve, AnswerCall, ServeRead, Fail, GiveUp, Pc
<1>5. CASE ServeList(t, s)
  <2>1. CASE Answer(t, s, "empty")
    BY <1>1, <2>1, AwaitAlone
  <2>2. ASSUME NEW k \in Key,
               Becomes(t, s, [flow[t][s] EXCEPT !.key = k,
                                                !.payload = ledger[k].payload,
                                                !.reply = ledger[k].verification])
        PROVE  OneHandler'
    <3>1. Whole([flow[t][s] EXCEPT !.key = k, !.payload = ledger[k].payload,
                                   !.reply = ledger[k].verification])
      BY <1>1, <1>2 DEF Whole, Handler, Running
    <3> QED
      BY <1>2, <2>2, <3>1, BecomesAlone
  <2> QED
    BY <1>1, <1>5, <2>1, <2>2 DEF ServeList
<1> QED
  BY <1>1, <1>4, <1>5 DEF Network

LEMMA ContinueAlone ==
    ASSUME OneHandler, TypeOK', NEW t \in Tab, NEW s \in Slot, Continue(t, s)
    PROVE  flow[t][s].pc # "idle" /\ OneHandler'
<1>1. flow[t][s].pc # "idle"
  BY DEF Continue, OnAlreadyResolved, OnFinalized, OnSubmitError, OnAbsent,
         OnUnconfirmed, OnSuperseded, OnSupersedeError, OnListed, OnListedEmpty,
         OnSyncRegistered, OnSyncError, At
<1>2. "read" \in Pc \ {"idle"}
  BY DEF Pc
<1>3. \/ Finish(t, s)
      \/ Await(t, s, "read")
      \/ Start(t, s, "sync", "syncRegister", local[t])
  BY DEF Continue, OnAlreadyResolved, OnFinalized, OnSubmitError, OnAbsent,
         OnUnconfirmed, OnSuperseded, OnSupersedeError, OnListed, OnListedEmpty,
         OnSyncRegistered, OnSyncError
<1> QED
  BY <1>1, <1>2, <1>3, AwaitAlone

(* What a user starts. *)
Starts(t, s) ==
    \/ \E p \in Payload, intent \in Intent :
          GetOrCreate(t, p, intent) /\ Start(t, s, "submit", "register", intent)
    \/ UNCHANGED local /\ Stored(t) /\ Start(t, s, "reconcile", "read", local[t])
    \/ UNCHANGED local /\ Stored(t) /\ Start(t, s, "supersede", "supersede", local[t])
    \/ UNCHANGED local /\ Start(t, s, "sync", "list", NoIntent)
    \/ UNCHANGED <<local, flow>>

LEMMA UserStarts ==
    ASSUME NEW t \in Tab, NEW s \in Slot, User(t, s)
    PROVE  Quiet(t) /\ Starts(t, s) /\ UNCHANGED <<ledger, manifests, late>>
BY DEF User, Starts, Submit, Reconcile, ChangeManifest, StartSync, Mount, dbAndWire

LEMMA UserAlone ==
    ASSUME OneHandler, TypeOK', ~ Overlap, NEW t \in Tab, NEW s \in Slot, User(t, s)
    PROVE  OneHandler'
<1>1. Quiet(t) /\ Starts(t, s)
  BY UserStarts
<1>2. CASE UNCHANGED flow
  BY <1>2 DEF OneHandler, Alone, Running, Whole
<1> QED
  BY <1>1, <1>2, StartAlone DEF Starts

LEMMA TabAlone ==
    ASSUME OneHandler, TypeOK', ~ Overlap, NEW t \in Tab,
           OpenTab(t) \/ Unmount(t) \/ Reload(t) \/ CloseTab(t)
    PROVE  /\ OneHandler'
           /\ \A u \in Tab, v \in Slot : flow'[u][v] \in {flow[u][v], Idle}
<1>1. \A u \in Tab, v \in Slot : flow'[u][v] \in {flow[u][v], Idle}
  <2>1. CASE OpenTab(t)
    BY <2>1 DEF OpenTab
  <2>2. CASE Unmount(t)
    <3>1. \A v \in Slot : flow[t][v] = Idle
      BY <2>2, QuietTab DEF Unmount
    <3>2. Detached(Idle) = Idle
      BY DEF Detached, Idle
    <3> QED
      BY <2>2, <3>1, <3>2 DEF Unmount, OneHandler, TypeOK
  <2>3. CASE Reload(t) \/ CloseTab(t)
    <3>1. flow' = [flow EXCEPT ![t] = [s \in Slot |-> Idle]]
      BY <2>3 DEF Reload, CloseTab, PageDies
    <3> QED
      BY <3>1 DEF OneHandler, TypeOK
  <2> QED
    BY <2>1, <2>2, <2>3
<1>2. \A u \in Tab, v \in Slot : Whole(flow'[u][v])
  BY <1>1 DEF OneHandler, Whole
<1>3. \A u \in Tab, v \in Slot : Running(u, v)' => Running(u, v)
  BY <1>1 DEF Running, Idle
<1>4. \A u \in Tab : Alone(u)'
  BY <1>3 DEF OneHandler, Alone
<1> QED
  BY <1>1, <1>2, <1>4 DEF OneHandler, Whole

LEMMA InitAlone == Init => OneHandler
<1> SUFFICES ASSUME Init PROVE OneHandler
  OBVIOUS
<1>1. TypeOK /\ \A t \in Tab, s \in Slot : flow[t][s] = Idle
  BY InitType DEF Init
<1>2. \A t \in Tab, s \in Slot : ~ Running(t, s)
  BY <1>1 DEF Running, Idle
<1> QED
  BY <1>1, <1>2 DEF OneHandler, Alone, Whole

LEMMA NextAlone ==
    ASSUME OneHandler, ~ Overlap, [Next]_vars
    PROVE  OneHandler'
<1>1. TypeOK'
  BY NextType DEF OneHandler
<1>2. CASE UNCHANGED flow
  BY <1>1, <1>2 DEF OneHandler, Alone, Running, Whole
<1> QED
  BY <1>1, <1>2, NetworkAlone, ContinueAlone, UserAlone, TabAlone
     DEF Next, ServeLate, vars

-----------------------------------------------------------------------------
(* A handler works on the intent its tab holds, and has the answer that     *)
(* lets it clean up only for a finalized row.                               *)

RowResolved(k) == k \in Key /\ Resolved(k)

Follows(h, i) ==
    /\ h.pc \notin {"idle", "list"} => h.key \in Key /\ i.key = h.key
    /\ h.pc = "list" /\ h.reply \in Verification => h.key \in Key
    /\ h.reply \in Resolution => RowResolved(h.key)
    /\ h.pc \in {"finalize", "confirm", "supersede"} /\ h.reply = "ok"
           => RowResolved(h.key)

Continuity ==
    /\ OneHandler
    /\ \A t \in Tab : Stored(t) => local[t].key \in Key
    /\ \A t \in Tab, s \in Slot : Follows(flow[t][s], local[t])

LEMMA IdleFollows == \A i : Follows(Idle, i)
BY DEF Follows, Idle, Resolution

LEMMA ResolvedStays ==
    ASSUME OneHandler, [Next]_vars
    PROVE  \A k : RowResolved(k) => RowResolved(k)'
<1>1. LedgerTypeOK /\ [LedgerNext]_dbVars
  BY StepIsCall DEF OneHandler, TypeOK
<1>2. CASE LedgerNext
  BY <1>1, <1>2, CallHistory DEF HistoryKept, RowResolved, Resolved
<1>3. CASE UNCHANGED dbVars
  BY <1>3 DEF dbVars, RowResolved, Resolved
<1> QED
  BY <1>1, <1>2, <1>3

(* The tab whose handler moves is the one whose journal may change. *)
LEMMA TabFollows ==
    ASSUME Continuity, OneHandler', [Next]_vars, NEW t \in Tab, NEW s \in Slot,
           OthersIdle(t, s), NEW h, Becomes(t, s, h), NEW i,
           local' = [local EXCEPT ![t] = i],
           i = NoIntent \/ i.key \in Key, Follows(h, i)'
    PROVE  Continuity'
<1>1. \A k : RowResolved(k) => RowResolved(k)'
  BY ResolvedStays DEF Continuity
<1>2. \A g, j : Follows(g, j) => Follows(g, j)'
  BY <1>1 DEF Follows
<1>3. \A u \in Tab : local'[u] = IF u = t THEN i ELSE local[u]
  BY DEF Continuity, OneHandler, TypeOK
<1>4. \A u \in Tab, v \in Slot :
         flow'[u][v] = IF u = t /\ v = s THEN h ELSE flow[u][v]
  BY DEF Continuity, OneHandler, TypeOK, Becomes
<1>5. \A u \in Tab, v \in Slot : Follows(flow[u][v], local[u])'
  <2> SUFFICES ASSUME NEW u \in Tab, NEW v \in Slot
               PROVE  Follows(flow[u][v], local[u])'
    OBVIOUS
  <2>1. CASE u # t
    <3>1. PICK g, j : g = flow[u][v] /\ j = local[u] /\ Follows(g, j)'
      BY <1>2 DEF Continuity
    <3>2. g = flow'[u][v] /\ j = local'[u]
      BY <1>3, <1>4, <2>1, <3>1
    <3> QED
      BY <3>1, <3>2 DEF Follows, RowResolved, Resolved
  <2>2. CASE u = t /\ v = s
    <3>1. flow'[u][v] = h /\ local'[u] = i
      BY <1>3, <1>4, <2>2
    <3> QED
      BY <3>1 DEF Follows, RowResolved, Resolved
  <2>3. CASE u = t /\ v # s
    <3>1. flow'[u][v] = Idle
      BY <1>4, <2>3 DEF OthersIdle
    <3>2. PICK j : j = local'[u] /\ Follows(Idle, j)'
      BY <1>2, IdleFollows
    <3> QED
      BY <3>1, <3>2 DEF Follows, RowResolved, Resolved
  <2> QED
    BY <2>1, <2>2, <2>3
<1>6. \A u \in Tab : (Stored(u) => local[u].key \in Key)'
  BY <1>3 DEF Continuity, Stored
<1> QED
  BY <1>5, <1>6 DEF Continuity

(* The handler goes on with the same intent. *)
LEMMA GoesOn ==
    ASSUME Continuity, OneHandler', [Next]_vars, NEW t \in Tab, NEW s \in Slot,
           OthersIdle(t, s), NEW h, Becomes(t, s, h), UNCHANGED local,
           NEW i, i = local[t], Follows(h, i)'
    PROVE  Continuity'
<1>1. local' = [local EXCEPT ![t] = i]
  BY DEF Continuity, OneHandler, TypeOK
<1>2. i = NoIntent \/ i.key \in Key
  BY DEF Continuity, Stored
<1> QED
  BY <1>1, <1>2, TabFollows

(* What the database answers. *)
LEMMA AnswerTrue ==
    ASSUME LedgerTypeOK, NEW r \in Request, Execute(r)
    PROVE  /\ Outcome(r) \in Resolution => RowResolved(r.key)'
           /\ r.call \in Resolution /\ Outcome(r) = "ok" => RowResolved(r.key)'
<1>1. r.key \in Key
  BY DEF Request
<1>2. CASE r.call = "register" /\ Register(r.key, r.payload)
  <2>1. Outcome(r) = RegisterOutcome(r.key, r.payload)
    BY <1>2 DEF Outcome, Resolution
  <2>2. Outcome(r) \in Resolution => Resolved(r.key) /\ UNCHANGED ledger
    BY <1>2, <2>1 DEF RegisterOutcome, Register, Resolved, Unresolved, Resolution
  <2> QED
    BY <1>1, <1>2, <2>2 DEF RowResolved, Resolved, Resolution
<1>3. CASE r.call = "write" /\ Write(r.key, r.payload)
  BY <1>3 DEF Outcome, WriteOutcome, Resolution
<1>4. CASE r.call \in Resolution /\ Resolve(r.key, r.call)
  <2>1. Outcome(r) = ResolveOutcome(r.key, r.call) /\ Outcome(r) \in {"ok", "error"}
    BY <1>4 DEF Outcome, ResolveOutcome, Resolution
  <2>2. Outcome(r) = "ok" => ledger'[r.key].status = r.call
    BY <1>1, <1>4, <2>1 DEF ResolveOutcome, Resolve, LedgerTypeOK, Row
  <2> QED
    BY <1>1, <1>4, <2>1, <2>2 DEF RowResolved, Resolved, Resolution
<1>5. CASE r.call \in {"confirmed_absent", "unconfirmed"} /\ Mark(r.key, r.call)
  BY <1>5 DEF Outcome, MarkOutcome, Resolution
<1> QED
  BY <1>2, <1>3, <1>4, <1>5 DEF Execute

LEMMA NetworkContinues ==
    ASSUME Continuity, OneHandler', NEW t \in Tab, NEW s \in Slot, Network(t, s)
    PROVE  Continuity'
<1>1. flow[t][s].pc # "idle" /\ [Next]_vars /\ UNCHANGED local
  BY NetworkAlone DEF Next, Continuity, OneHandler, Network, Serve, ServeRead, ServeList, Fail, GiveUp
<1>2. PICK h \in Handler : h = flow[t][s]
  BY HandlerFields DEF Continuity, OneHandler, TypeOK, FlowTypeOK
<1>3. PICK i : i = local[t]
  OBVIOUS
<1>4. Follows(h, i) /\ OthersIdle(t, s) /\ h.pc # "idle"
  BY <1>1, <1>2, <1>3, RunningAlone DEF Continuity
<1>5. \A k : RowResolved(k) => RowResolved(k)'
  BY <1>1, ResolvedStays DEF Continuity
<1>6. ASSUME NEW a, Answer(t, s, a),
             a \in Resolution => RowResolved(h.key)',
             h.pc \in {"finalize", "confirm", "supersede"} /\ a = "ok"
                 => RowResolved(h.key)',
             h.pc = "list" => a \notin Verification
      PROVE  Continuity'
  <2>1. PICK g : g = [h EXCEPT !.reply = a] /\ Becomes(t, s, g)
    BY <1>2, <1>6 DEF Answer
  <2>2. g.pc = h.pc /\ g.key = h.key /\ g.reply = a
    BY <2>1 DEF Handler
  <2>3. Follows(g, i)'
    BY <1>4, <1>6, <2>2 DEF Follows
  <2> QED
    BY <1>1, <1>3, <1>4, <2>1, <2>3, GoesOn
<1>7. ASSUME NEW pc, Await(t, s, pc), h.pc # "list", pc # "list"
      PROVE  Continuity'
  <2>1. PICK g : g = [h EXCEPT !.pc = pc, !.reply = "none"] /\ Becomes(t, s, g)
    BY <1>2, <1>7 DEF Await
  <2>2. g.pc = pc /\ g.key = h.key /\ g.reply = "none"
    BY <2>1 DEF Handler
  <2>3. Follows(g, i)'
    BY <1>4, <1>7, <2>2 DEF Follows, Resolution
  <2> QED
    BY <1>1, <1>3, <1>4, <2>1, <2>3, GoesOn
<1>8. Answer(t, s, "error") => Continuity'
  BY <1>6 DEF Resolution, Verification
<1>9. CASE Serve(t, s)
  <2>1. PICK r \in Request : r = RequestOf(h) /\ Execute(r)
    BY <1>2, <1>9 DEF Serve, Outstanding
  <2>2. /\ r.key = h.key
        /\ h.pc \in {"finalize", "confirm", "supersede"} => r.call \in Resolution
        /\ h.pc # "list"
    BY <2>1 DEF RequestOf, CallOf, Resolution, Request, Call
  <2>3. /\ Outcome(r) \in Resolution => RowResolved(h.key)'
        /\ h.pc \in {"finalize", "confirm", "supersede"} /\ Outcome(r) = "ok"
               => RowResolved(h.key)'
    BY <2>1, <2>2, AnswerTrue DEF Continuity, OneHandler, TypeOK
  <2>4. Answer(t, s, Outcome(r)) => Continuity'
    BY <1>6, <2>2, <2>3
  <2>5. Then(h.pc, Outcome(r)) # "list"
    BY <2>2 DEF Then
  <2>6. Await(t, s, Then(h.pc, Outcome(r))) => Continuity'
    BY <1>7, <2>2, <2>5
  <2> QED
    BY <1>2, <1>8, <1>9, <2>1, <2>4, <2>6 DEF Serve, AnswerCall
<1>10. CASE ServeRead(t, s)
  BY <1>2, <1>7, <1>10 DEF ServeRead, At
<1>11. CASE ServeList(t, s)
  <2>1. ASSUME NEW k \in Key, NEW v \in Verification,
               Becomes(t, s, [h EXCEPT !.key = k, !.payload = ledger[k].payload,
                                       !.reply = v])
        PROVE  Continuity'
    <3>1. PICK g : /\ g = [h EXCEPT !.key = k, !.payload = ledger[k].payload, !.reply = v]
                   /\ Becomes(t, s, g)
      BY <2>1
    <3>2. g.pc = "list" /\ g.key = k /\ g.reply = v
      BY <1>2, <1>11, <3>1 DEF Handler, ServeList, At
    <3>3. Follows(g, i)'
      BY <3>2 DEF Follows, Verification, Resolution
    <3> QED
      BY <1>1, <1>3, <1>4, <3>1, <3>3, GoesOn
  <2>2. \A k \in Key : ledger[k].verification \in Verification
    BY DEF Continuity, OneHandler, TypeOK, LedgerTypeOK, Row
  <2>3. Answer(t, s, "empty") => Continuity'
    BY <1>2, <1>6, <1>11 DEF Resolution, Verification, ServeList, At
  <2> QED
    BY <1>2, <1>11, <2>1, <2>2, <2>3 DEF ServeList
<1>12. CASE Fail(t, s) \/ GiveUp(t, s)
  BY <1>2, <1>7, <1>8, <1>12 DEF Fail, GiveUp, At
<1> QED
  BY <1>9, <1>10, <1>11, <1>12 DEF Network

(* A handler that finishes may leave any intent of its own identity. *)
LEMMA FinishContinues ==
    ASSUME Continuity, OneHandler', [Next]_vars, NEW t \in Tab, NEW s \in Slot,
           flow[t][s].pc # "idle", Finish(t, s), NEW i,
           local' = [local EXCEPT ![t] = i], i = NoIntent \/ i.key \in Key
    PROVE  Continuity'
<1>1. OthersIdle(t, s)
  BY RunningAlone DEF Continuity
<1>2. Follows(Idle, i)'
  BY DEF Follows, Idle, Resolution
<1> QED
  BY <1>1, <1>2, TabFollows DEF Finish

(* What a handler leaves in the journal when it finishes: the stored intent, *)
(* with another verification perhaps; the ledger's row; or, if the row of    *)
(* the stored intent is finalized, nothing.                                  *)
Leaves(t, i) ==
    \/ i = local[t]
    \/ Stored(t) /\ i = [local[t] EXCEPT !.verification = i.verification]
    \/ i.key \in Key /\ i.text = "jsonb"
    \/ i = NoIntent /\ RowResolved(local[t].key)

LEMMA ContinueLeaves ==
    ASSUME Continuity, NEW t \in Tab, NEW s \in Slot, Continue(t, s)
    PROVE  \E i : local' = [local EXCEPT ![t] = i] /\ Leaves(t, i)
<1>1. /\ local \in [Tab -> Intent] /\ Follows(flow[t][s], local[t])
      /\ flow[t][s] \in Handler
  BY HandlerFields DEF Continuity, OneHandler, TypeOK, FlowTypeOK
<1>2. UNCHANGED local => local' = [local EXCEPT ![t] = local[t]]
  BY <1>1
<1>3. ASSUME NEW v, MarkVerification(t, v)
      PROVE  \E i : local' = [local EXCEPT ![t] = i] /\ Leaves(t, i)
  <2> DEFINE i == [local[t] EXCEPT !.verification = v]
  <2>1. i = [local[t] EXCEPT !.verification = i.verification]
    BY <1>1 DEF Intent
  <2>2. Stored(t) => local' = [local EXCEPT ![t] = i]
    BY <1>1, <1>3 DEF MarkVerification
  <2>3. ~ Stored(t) => UNCHANGED local
    BY <1>3 DEF MarkVerification
  <2> QED
    BY <1>2, <2>1, <2>2, <2>3 DEF Leaves
<1>4. CASE OnAlreadyResolved(t, s)
  BY <1>1, <1>4 DEF OnAlreadyResolved, Clear, Leaves, Follows, At
<1>5. CASE OnFinalized(t, s)
  BY <1>1, <1>5 DEF OnFinalized, Clear, Leaves, Follows, At, Answered
<1>6. CASE OnSuperseded(t, s)
  BY <1>1, <1>2, <1>6 DEF OnSuperseded, ClearAbsent, Leaves, Follows, At, Answered
<1>7. CASE OnAbsent(t, s) \/ OnUnconfirmed(t, s)
  BY <1>3, <1>7 DEF OnAbsent, OnUnconfirmed
<1>8. CASE OnListed(t, s)
  BY <1>1, <1>2, <1>8 DEF OnListed, At, Leaves, LedgerIntent, Follows
<1>9. CASE OnSyncRegistered(t, s)
  BY <1>1, <1>9 DEF OnSyncRegistered, At, Leaves, LedgerIntent, Clear, Follows
<1>10. CASE OnSubmitError(t, s) \/ OnSupersedeError(t, s) \/ OnListedEmpty(t, s)
            \/ OnSyncError(t, s)
  BY <1>2, <1>10 DEF OnSubmitError, OnSupersedeError, OnListedEmpty, OnSyncError, Leaves
<1> QED
  BY <1>4, <1>5, <1>6, <1>7, <1>8, <1>9, <1>10 DEF Continue

LEMMA LeavesIntent ==
    ASSUME Continuity, NEW t \in Tab, NEW i, Leaves(t, i)
    PROVE  i = NoIntent \/ i.key \in Key
<1>1. local[t] \in Intent /\ (Stored(t) => local[t].key \in Key)
  BY DEF Continuity, OneHandler, TypeOK
<1>2. [local[t] EXCEPT !.verification = i.verification].key = local[t].key
  BY <1>1 DEF Intent
<1> QED
  BY <1>1, <1>2 DEF Leaves, Stored

LEMMA ContinueContinues ==
    ASSUME Continuity, OneHandler', NEW t \in Tab, NEW s \in Slot, Continue(t, s)
    PROVE  Continuity'
<1>1. flow[t][s].pc # "idle" /\ [Next]_vars
  BY ContinueAlone DEF Next, Continuity, OneHandler
<1>2. PICK i : local' = [local EXCEPT ![t] = i] /\ (i = NoIntent \/ i.key \in Key)
  BY ContinueLeaves, LeavesIntent
<1>3. CASE Finish(t, s)
  BY <1>1, <1>2, <1>3, FinishContinues
<1>4. OthersIdle(t, s)
  BY <1>1, RunningAlone DEF Continuity
<1>5. PICK h \in Handler, j \in Intent : h = flow[t][s] /\ j = local[t] /\ Follows(h, j)
  BY HandlerFields DEF Continuity, OneHandler, TypeOK, FlowTypeOK
<1>6. CASE OnSubmitError(t, s)
  <2>1. PICK g : g = [h EXCEPT !.pc = "read", !.reply = "none"] /\ Becomes(t, s, g)
    BY <1>5, <1>6 DEF OnSubmitError, Await
  <2>2. g.pc = "read" /\ g.key = h.key /\ g.reply = "none"
    BY <2>1 DEF Handler
  <2>3. h.pc \in {"register", "write", "finalize"} /\ UNCHANGED local
    BY <1>5, <1>6 DEF OnSubmitError
  <2>4. Follows(g, j)'
    BY <1>5, <2>2, <2>3 DEF Follows, Resolution
  <2> QED
    BY <1>1, <1>4, <1>5, <2>1, <2>3, <2>4, GoesOn
<1>7. CASE OnListedEmpty(t, s) /\ Stored(t)
  <2>1. PICK g : /\ Becomes(t, s, g)
                 /\ g.pc = "syncRegister" /\ g.key = j.key /\ g.reply = "none"
    BY <1>5, <1>7 DEF OnListedEmpty, Start
  <2>2. j.key \in Key /\ UNCHANGED local
    BY <1>5, <1>7 DEF Continuity, OnListedEmpty
  <2>3. Follows(g, j)'
    BY <2>1, <2>2 DEF Follows, Resolution
  <2> QED
    BY <1>1, <1>4, <1>5, <2>1, <2>2, <2>3, GoesOn
<1> QED
  BY <1>3, <1>6, <1>7
     DEF Continue, OnAlreadyResolved, OnFinalized, OnAbsent, OnUnconfirmed, OnSuperseded,
         OnSupersedeError, OnListed, OnListedEmpty, OnSyncRegistered, OnSyncError

LEMMA UserContinues ==
    ASSUME Continuity, OneHandler', ~ Overlap,
           NEW t \in Tab, NEW s \in Slot, User(t, s)
    PROVE  Continuity'
<1>1. [Next]_vars /\ Quiet(t) /\ Starts(t, s) /\ UNCHANGED <<ledger, manifests, late>>
  BY UserStarts DEF Next
<1>2. OthersIdle(t, s) /\ OneHandler /\ local \in [Tab -> Intent]
  BY <1>1, QuietTab DEF OthersIdle, Continuity, OneHandler, TypeOK
<1>3. ASSUME NEW op, NEW pc, NEW i,
             Start(t, s, op, pc, i), local' = [local EXCEPT ![t] = i],
             i.key \in Key, pc \notin {"idle", "list"}
      PROVE  Continuity'
  <2>1. PICK g : Becomes(t, s, g) /\ g.pc = pc /\ g.key = i.key /\ g.reply = "none"
    BY <1>3 DEF Start
  <2>2. Follows(g, i)'
    BY <1>3, <2>1 DEF Follows, Resolution
  <2> QED
    BY <1>1, <1>2, <1>3, <2>1, <2>2, TabFollows
<1>4. UNCHANGED local => local' = [local EXCEPT ![t] = local[t]]
  BY <1>2
<1>5. Stored(t) => local[t].key \in Key
  BY DEF Continuity
<1>6. ASSUME NEW p \in Payload, NEW intent \in Intent,
             GetOrCreate(t, p, intent), Start(t, s, "submit", "register", intent)
      PROVE  Continuity'
  <2>1. intent.key \in Key /\ local' = [local EXCEPT ![t] = intent]
    BY <1>5, <1>6 DEF GetOrCreate, NewIntent
  <2>2. Start(t, s, "submit", "register", intent) /\ "register" \notin {"idle", "list"}
    BY <1>6
  <2> QED
    BY <1>3, <2>1, <2>2
<1>7. CASE \/ UNCHANGED local /\ Stored(t) /\ Start(t, s, "reconcile", "read", local[t])
           \/ UNCHANGED local /\ Stored(t) /\ Start(t, s, "supersede", "supersede", local[t])
  BY <1>3, <1>4, <1>5, <1>7
<1>8. CASE UNCHANGED local /\ Start(t, s, "sync", "list", NoIntent)
  <2>1. PICK g : Becomes(t, s, g) /\ g.pc = "list" /\ g.reply = "none"
    BY <1>8 DEF Start
  <2>2. PICK i : i = local[t]
    OBVIOUS
  <2>3. Follows(g, i)'
    BY <2>1 DEF Follows, Resolution, Verification
  <2> QED
    BY <1>1, <1>2, <1>8, <2>1, <2>2, <2>3, GoesOn
<1>9. CASE UNCHANGED <<local, flow>>
  BY <1>1, <1>9 DEF Continuity, Stored, Follows, RowResolved, Resolved
<1> QED
  BY <1>1, <1>6, <1>7, <1>8, <1>9 DEF Starts

LEMMA TabContinues ==
    ASSUME Continuity, OneHandler', ~ Overlap, NEW t \in Tab,
           OpenTab(t) \/ Unmount(t) \/ Reload(t) \/ CloseTab(t)
    PROVE  Continuity'
<1>1. \A u \in Tab, v \in Slot : flow'[u][v] \in {flow[u][v], Idle}
  BY TabAlone DEF Continuity, OneHandler
<1>2. local \in [Tab -> Intent] /\ flow \in [Tab -> [Slot -> Handler]] /\ UNCHANGED ledger
  BY TabLeavesDatabase DEF Continuity, OneHandler, TypeOK, dbVars
<1>3. CASE UNCHANGED local
  <2>1. \A u \in Tab, v \in Slot : Follows(flow'[u][v], local'[u])
    BY <1>1, <1>3, IdleFollows DEF Continuity
  <2> QED
    BY <1>2, <1>3, <2>1 DEF Continuity, Stored, Follows, RowResolved, Resolved
<1>4. CASE CloseTab(t)
  <2>1. /\ local' = [local EXCEPT ![t] = NoIntent]
        /\ flow' = [flow EXCEPT ![t] = [s \in Slot |-> Idle]]
    BY <1>4 DEF CloseTab, Clear, PageDies
  <2>2. \A u \in Tab, v \in Slot : Follows(flow'[u][v], local'[u])
    BY <1>2, <2>1, IdleFollows DEF Continuity
  <2>3. \A u \in Tab : (Stored(u) => local[u].key \in Key)'
    BY <1>2, <2>1 DEF Continuity, Stored
  <2> QED
    BY <1>2, <2>2, <2>3 DEF Continuity, Follows, RowResolved, Resolved
<1> QED
  BY <1>3, <1>4 DEF OpenTab, Unmount, Reload

LEMMA NextContinues ==
    ASSUME Continuity, ~ Overlap, [Next]_vars
    PROVE  Continuity'
<1>1. OneHandler'
  BY NextAlone DEF Continuity
<1>2. CASE UNCHANGED <<flow, local>>
  <2>1. \A k : RowResolved(k) => RowResolved(k)'
    BY ResolvedStays DEF Continuity
  <2>2. \A t \in Tab, s \in Slot : Follows(flow[t][s], local[t])'
    <3> SUFFICES ASSUME NEW t \in Tab, NEW s \in Slot
                 PROVE  Follows(flow[t][s], local[t])'
      OBVIOUS
    <3>1. PICK h, i : h = flow[t][s] /\ i = local[t] /\ Follows(h, i)
      BY DEF Continuity
    <3>2. Follows(h, i)'
      BY <2>1, <3>1 DEF Follows
    <3>3. h = flow'[t][s] /\ i = local'[t]
      BY <1>2, <3>1
    <3> QED
      BY <3>2, <3>3 DEF Follows, RowResolved, Resolved
  <2> QED
    BY <1>1, <1>2, <2>2 DEF Continuity, Stored
<1> QED
  BY <1>1, <1>2, NetworkContinues, ContinueContinues, UserContinues, TabContinues
     DEF Next, ServeLate, vars

(* The inductive invariant of a tab that runs one handler at a time. *)
THEOREM ContinuityInvariance == ~ Overlap => (Spec => []Continuity)
<1> SUFFICES ASSUME ~ Overlap PROVE Spec => []Continuity
  OBVIOUS
<1>1. Init => Continuity
  <2> SUFFICES ASSUME Init PROVE Continuity
    OBVIOUS
  <2>1. \A t \in Tab : local[t] = NoIntent /\ \A s \in Slot : flow[t][s] = Idle
    BY DEF Init
  <2> QED
    BY <2>1, InitAlone, IdleFollows DEF Continuity, Stored
<1>2. Continuity /\ [Next]_vars => Continuity'
  BY NextContinues
<1> QED
  BY <1>1, <1>2, PTL DEF Spec

CleansUpFinalized ==
    \A t \in Tab :
        (Stored(t) /\ local'[t] = NoIntent /\ stage'[t] # "closed")
            => Resolved(local[t].key)

LEMMA LeavesFinalized ==
    ASSUME Continuity, NEW t \in Tab, NEW i, Leaves(t, i), local' = [local EXCEPT ![t] = i]
    PROVE  CleansUpFinalized
<1> SUFFICES ASSUME NEW u \in Tab, Stored(u), local'[u] = NoIntent
             PROVE  Resolved(local[u].key)
  BY DEF CleansUpFinalized
<1>1. local \in [Tab -> Intent] /\ local[u].key \in Key
  BY DEF Continuity, OneHandler, TypeOK
<1>2. u = t /\ i = NoIntent /\ local[t] # NoIntent
  BY <1>1 DEF Stored
<1>3. [local[t] EXCEPT !.verification = i.verification].key \in Key
  BY <1>1, <1>2 DEF Intent
<1>4. NoIntent.key \notin Key
  BY NoKeyAssumption DEF NoIntent
<1> QED
  BY <1>2, <1>3, <1>4 DEF Leaves, RowResolved

LEMMA StepFinalized ==
    ASSUME Continuity, ~ Overlap, [Next]_vars
    PROVE  CleansUpFinalized
<1>1. CASE UNCHANGED local
  BY <1>1 DEF CleansUpFinalized, Stored
<1>2. ASSUME NEW t \in Tab, NEW s \in Slot, Continue(t, s)
      PROVE  CleansUpFinalized
  BY <1>2, ContinueLeaves, LeavesFinalized
<1>3. ASSUME NEW t \in Tab, NEW s \in Slot, User(t, s)
      PROVE  CleansUpFinalized
  <2>1. CASE \E p \in Payload, intent \in Intent : GetOrCreate(t, p, intent)
    <3>1. PICK p \in Payload, intent \in Intent : GetOrCreate(t, p, intent)
      BY <2>1
    <3>2. local' = [local EXCEPT ![t] = intent] /\ (intent = local[t] \/ intent.key \in Key)
      BY <3>1 DEF GetOrCreate, NewIntent
    <3>3. intent = NoIntent => intent = local[t]
      BY <3>2, NoKeyAssumption DEF NoIntent
    <3> QED
      BY <3>2, <3>3 DEF CleansUpFinalized, Stored, Continuity, OneHandler, TypeOK
  <2> QED
    BY <1>1, <1>3, <2>1, UserStarts DEF Starts
<1>4. ASSUME NEW t \in Tab, CloseTab(t)
      PROVE  CleansUpFinalized
  BY <1>4 DEF CloseTab, Clear, CleansUpFinalized, Stored, Continuity, OneHandler, TypeOK
<1>5. ASSUME NEW t \in Tab, NEW s \in Slot, Network(t, s)
      PROVE  UNCHANGED local
  BY <1>5 DEF Network, Serve, ServeRead, ServeList, Fail, GiveUp
<1>6. ASSUME NEW t \in Tab, OpenTab(t) \/ Unmount(t) \/ Reload(t)
      PROVE  UNCHANGED local
  BY <1>6 DEF OpenTab, Unmount, Reload
<1>7. ASSUME NEW r \in late, ServeLate(r)
      PROVE  UNCHANGED local
  BY <1>7 DEF ServeLate
<1>8. UNCHANGED vars => UNCHANGED local
  BY DEF vars
<1> QED
  BY <1>1, <1>2, <1>3, <1>4, <1>5, <1>6, <1>7, <1>8 DEF Next

(* In tabs that run one handler at a time, an intent leaves the journal of  *)
(* a living tab only once its own row is finalized.                         *)
THEOREM FinalizedFirst == ~ Overlap => (Spec => FinalizedBeforeCleanup)
<1> SUFFICES ASSUME ~ Overlap PROVE Spec => FinalizedBeforeCleanup
  OBVIOUS
<1>1. Continuity /\ [Next]_vars => CleansUpFinalized
  BY StepFinalized
<1>2. Spec => []Continuity
  BY ContinuityInvariance
<1> QED
  BY <1>1, <1>2, PTL DEF Spec, FinalizedBeforeCleanup, CleansUpFinalized

-----------------------------------------------------------------------------
(* A verified absence stays one as long as nobody else can write: a single  *)
(* tab, one handler at a time, and no request that outlives its caller.     *)

Solitary == (\A t, u \in Tab : t = u) /\ ~ Overlap /\ ~ LateCalls

ClaimedAbsent(k) ==
    \/ Unresolved(k) /\ ledger[k].verification = "confirmed_absent"
    \/ ledger[k].status = "superseded_after_absence"

Careful(h) ==
    /\ h.pc = "write" => ~ ClaimedAbsent(h.key)
    /\ h.pc = "markAbsent" => ~ Recorded(h.key)

Absence ==
    /\ OneHandler
    /\ late = {}
    /\ \A k \in Key : ClaimedAbsent(k) => ~ Recorded(k)
    /\ \A t \in Tab, s \in Slot : Careful(flow[t][s])

LEMMA WriteAddsOne ==
    ASSUME LedgerTypeOK, NEW k \in Key, NEW p \in Payload, Write(k, p)
    PROVE  \A j : Recorded(j)' => Recorded(j) \/ j = k
<1>1. CASE Recorded(k)
  BY <1>1 DEF Write, Recorded
<1>2. CASE ~ Recorded(k)
  <2> DEFINE m == [key |-> k, payload |-> p]
             n == Len(manifests)
  <2>1. manifests' = Append(manifests, m) /\ m \in Manifest /\ manifests \in Seq(Manifest)
    BY <1>2 DEF Write, LedgerTypeOK, Manifest
  <2>2. /\ n \in Nat /\ DOMAIN manifests = 1 .. n /\ DOMAIN manifests' = 1 .. n + 1
        /\ \A i \in 1 .. n : manifests'[i] = manifests[i]
        /\ manifests'[n + 1].key = k
    BY <2>1
  <2> QED
    BY <2>2 DEF Recorded
<1> QED
  BY <1>1, <1>2

(* A request of a careful handler claims no absence of a recorded effect,   *)
(* and a registration that answers "active" claims none.                    *)
LEMMA ExecuteCareful ==
    ASSUME LedgerTypeOK, \A k \in Key : ClaimedAbsent(k) => ~ Recorded(k),
           NEW h, Careful(h), NEW r \in Request, r = RequestOf(h), Execute(r)
    PROVE  /\ \A k \in Key : (ClaimedAbsent(k) => ~ Recorded(k))'
           /\ r.call = "register" /\ Outcome(r) = "active" => ~ ClaimedAbsent(h.key)'
           /\ r.call = "write" => UNCHANGED ledger
           /\ r.call # "write" => UNCHANGED manifests
<1>1. /\ r.key \in Key /\ r.payload \in Payload /\ r.key = h.key
      /\ r.call = "write" => h.pc = "write"
      /\ r.call = "confirmed_absent" => h.pc = "markAbsent"
  BY DEF Request, RequestOf, CallOf, Call
<1>2. CASE r.call = "register" /\ Register(r.key, r.payload)
  <2>1. Outcome(r) = RegisterOutcome(r.key, r.payload) /\ UNCHANGED manifests
    BY <1>2 DEF Outcome, Resolution, Register
  <2>2. \A k \in Key : ClaimedAbsent(k)' => ClaimedAbsent(k)
    BY <1>1, <1>2 DEF Register, ClaimedAbsent, Unresolved, LedgerTypeOK
  <2>3. Outcome(r) = "active" => ~ ClaimedAbsent(h.key)'
    BY <1>1, <1>2, <2>1 DEF Register, ClaimedAbsent, Unresolved, LedgerTypeOK
  <2> QED
    BY <1>2, <2>1, <2>2, <2>3 DEF Recorded
<1>3. CASE r.call = "write" /\ Write(r.key, r.payload)
  <2>1. ~ ClaimedAbsent(r.key) /\ UNCHANGED ledger
    BY <1>1, <1>3 DEF Careful, Write
  <2>2. \A k \in Key : ClaimedAbsent(k)' <=> ClaimedAbsent(k)
    BY <2>1 DEF ClaimedAbsent, Unresolved
  <2>3. \A k \in Key : Recorded(k)' => Recorded(k) \/ k = r.key
    BY <1>1, <1>3, WriteAddsOne
  <2> QED
    BY <1>3, <2>1, <2>2, <2>3
<1>4. CASE r.call \in Resolution /\ Resolve(r.key, r.call)
  <2>1. UNCHANGED manifests
    BY <1>4 DEF Resolve
  <2>2. \A k \in Key : ClaimedAbsent(k)' => ClaimedAbsent(k)
    BY <1>1, <1>4
       DEF Resolve, MayResolve, ClaimedAbsent, Unresolved, Resolution, LedgerTypeOK, Row
  <2> QED
    BY <1>4, <2>1, <2>2 DEF Recorded, Resolution
<1>5. CASE r.call \in {"confirmed_absent", "unconfirmed"} /\ Mark(r.key, r.call)
  <2>1. UNCHANGED manifests
    BY <1>5 DEF Mark
  <2>2. \A k \in Key : ClaimedAbsent(k)' =>
            ClaimedAbsent(k) \/ (k = r.key /\ r.call = "confirmed_absent")
    BY <1>1, <1>5 DEF Mark, MarkOutcome, ClaimedAbsent, Unresolved, LedgerTypeOK, Row
  <2>3. r.call = "confirmed_absent" => ~ Recorded(r.key)
    BY <1>1 DEF Careful
  <2> QED
    BY <1>5, <2>1, <2>2, <2>3 DEF Recorded
<1> QED
  BY <1>2, <1>3, <1>4, <1>5 DEF Execute

LEMMA IdleCareful == Careful(Idle)
BY DEF Careful, Idle

LEMMA OnlyHandler ==
    ASSUME Absence, Solitary, NEW t \in Tab, NEW s \in Slot, flow[t][s].pc # "idle"
    PROVE  \A u \in Tab, v \in Slot : u # t \/ v # s => flow[u][v] = Idle
<1>1. OthersIdle(t, s) /\ \A u \in Tab : u = t
  BY RunningAlone DEF Absence, Solitary
<1> QED
  BY <1>1 DEF OthersIdle

LEMMA BrowserCareful ==
    ASSUME Absence, OneHandler', UNCHANGED <<ledger, manifests, late>>,
           \A u \in Tab, v \in Slot : Careful(flow'[u][v])
    PROVE  Absence'
BY DEF Absence, Careful, ClaimedAbsent, Unresolved, Recorded

LEMMA BecomesCareful ==
    ASSUME Absence, NEW t \in Tab, NEW s \in Slot, NEW h, Becomes(t, s, h), Careful(h)
    PROVE  \A u \in Tab, v \in Slot : Careful(flow'[u][v])
<1>1. \A u \in Tab, v \in Slot :
         flow'[u][v] = IF u = t /\ v = s THEN h ELSE flow[u][v]
  BY DEF Absence, OneHandler, TypeOK, Becomes
<1> QED
  BY <1>1 DEF Absence

LEMMA MoveCareful ==
    ASSUME Absence, NEW t \in Tab, NEW s \in Slot
    PROVE  /\ \A pc : /\ Await(t, s, pc) /\ pc # "write"
                      /\ pc = "markAbsent" => ~ Recorded(flow[t][s].key)
                      => \A u \in Tab, v \in Slot : Careful(flow'[u][v])
           /\ \A a : Answer(t, s, a)
                      => \A u \in Tab, v \in Slot : Careful(flow'[u][v])
           /\ \A op, pc, intent :
                  pc \notin {"write", "markAbsent"} /\ Start(t, s, op, pc, intent)
                      => \A u \in Tab, v \in Slot : Careful(flow'[u][v])
           /\ Finish(t, s) => \A u \in Tab, v \in Slot : Careful(flow'[u][v])
           /\ UNCHANGED flow => \A u \in Tab, v \in Slot : Careful(flow'[u][v])
<1>1. flow[t][s] \in Handler /\ Careful(flow[t][s])
  BY HandlerFields DEF Absence, OneHandler, TypeOK, FlowTypeOK
<1>2. ASSUME NEW pc, Await(t, s, pc), pc # "write",
             pc = "markAbsent" => ~ Recorded(flow[t][s].key)
      PROVE  \A u \in Tab, v \in Slot : Careful(flow'[u][v])
  <2>1. Careful([flow[t][s] EXCEPT !.pc = pc, !.reply = "none"])
    BY <1>1, <1>2 DEF Careful, Handler
  <2> QED
    BY <1>2, <2>1, BecomesCareful DEF Await
<1>3. ASSUME NEW a, Answer(t, s, a)
      PROVE  \A u \in Tab, v \in Slot : Careful(flow'[u][v])
  <2>1. Careful([flow[t][s] EXCEPT !.reply = a])
    BY <1>1 DEF Careful, Handler
  <2> QED
    BY <1>3, <2>1, BecomesCareful DEF Answer
<1>4. ASSUME NEW op, NEW pc, NEW intent, pc \notin {"write", "markAbsent"},
             Start(t, s, op, pc, intent)
      PROVE  \A u \in Tab, v \in Slot : Careful(flow'[u][v])
  <2>1. Careful([op |-> op, pc |-> pc, key |-> intent.key,
                 payload |-> intent.payload, reply |-> "none", live |-> TRUE])
    BY <1>4 DEF Careful
  <2> QED
    BY <1>4, <2>1, BecomesCareful DEF Start
<1>5. ASSUME Finish(t, s)
      PROVE  \A u \in Tab, v \in Slot : Careful(flow'[u][v])
  BY <1>5, IdleCareful, BecomesCareful DEF Finish
<1>6. ASSUME UNCHANGED flow
      PROVE  \A u \in Tab, v \in Slot : Careful(flow'[u][v])
  BY <1>6 DEF Absence
<1> QED
  BY <1>2, <1>3, <1>4, <1>5, <1>6

LEMMA ServeCareful ==
    ASSUME Absence, OneHandler', Solitary, NEW t \in Tab, NEW s \in Slot, Serve(t, s)
    PROVE  Absence'
<1>1. PICK h \in Handler : h = flow[t][s] /\ Careful(h)
  BY HandlerFields DEF Absence, OneHandler, TypeOK, FlowTypeOK
<1>2. PICK r \in Request : r = RequestOf(h) /\ Execute(r)
  BY <1>1 DEF Serve, Outstanding
<1>3. /\ \A k \in Key : (ClaimedAbsent(k) => ~ Recorded(k))'
      /\ r.call = "register" /\ Outcome(r) = "active" => ~ ClaimedAbsent(h.key)'
      /\ r.call = "write" => UNCHANGED ledger
      /\ r.call # "write" => UNCHANGED manifests
  BY <1>1, <1>2, ExecuteCareful DEF Absence, OneHandler, TypeOK
<1>4. /\ h.pc = "write" => r.call = "write"
      /\ h.pc = "register" => r.call = "register"
      /\ h.pc = "markAbsent" => r.call = "confirmed_absent"
  BY <1>2 DEF RequestOf, CallOf
<1>5. Careful(h)'
  <2>1. h.pc = "write" => ~ ClaimedAbsent(h.key)'
    BY <1>1, <1>3, <1>4 DEF Careful, ClaimedAbsent, Unresolved
  <2>2. h.pc = "markAbsent" => ~ Recorded(h.key)'
    BY <1>1, <1>3, <1>4 DEF Careful, Recorded
  <2> QED
    BY <2>1, <2>2 DEF Careful
<1>6. PICK g : Becomes(t, s, g) /\ Careful(g)'
  <2>1. ASSUME NEW a, Answer(t, s, a)
        PROVE  \E g : Becomes(t, s, g) /\ Careful(g)'
    <3>1. PICK g : g = [h EXCEPT !.reply = a] /\ Becomes(t, s, g)
      BY <1>1, <2>1 DEF Answer
    <3>2. g.pc = h.pc /\ g.key = h.key
      BY <3>1 DEF Handler
    <3> QED
      BY <1>5, <3>1, <3>2 DEF Careful
  <2>2. ASSUME NEW pc, pc = Then(h.pc, Outcome(r)), pc # h.pc, Await(t, s, pc)
        PROVE  \E g : Becomes(t, s, g) /\ Careful(g)'
    <3>1. PICK g : g = [h EXCEPT !.pc = pc, !.reply = "none"] /\ Becomes(t, s, g)
      BY <1>1, <2>2 DEF Await
    <3>2. g.pc = pc /\ g.key = h.key
      BY <3>1 DEF Handler
    <3>3. \/ pc = "write" /\ h.pc = "register" /\ Outcome(r) = "active"
          \/ pc = "finalize"
      BY <2>2 DEF Then
    <3> QED
      BY <1>3, <1>4, <3>1, <3>2, <3>3 DEF Careful
  <2> QED
    BY <1>1, <1>2, <2>1, <2>2 DEF Serve, AnswerCall
<1>7. h.pc # "idle"
  BY <1>1, NetworkAlone DEF Network, Absence, OneHandler
<1>8. \A u \in Tab, v \in Slot : Careful(flow[u][v])'
  <2> SUFFICES ASSUME NEW u \in Tab, NEW v \in Slot PROVE Careful(flow[u][v])'
    OBVIOUS
  <2>1. flow'[u][v] = IF u = t /\ v = s THEN g ELSE Idle
    BY <1>1, <1>6, <1>7, OnlyHandler DEF Becomes, Absence, OneHandler, TypeOK
  <2>2. Careful(Idle)'
    BY DEF Careful, Idle
  <2>3. PICK f : f = flow'[u][v] /\ Careful(f)'
    BY <1>6, <2>1, <2>2
  <2> QED
    BY <2>3 DEF Careful, ClaimedAbsent, Unresolved, Recorded
<1> QED
  BY <1>3, <1>8 DEF Absence, Serve

LEMMA NetworkCareful ==
    ASSUME Absence, OneHandler', Solitary, NEW t \in Tab, NEW s \in Slot, Network(t, s)
    PROVE  Absence'
<1>1. CASE Serve(t, s)
  BY <1>1, ServeCareful
<1>2. CASE ServeRead(t, s)
  BY <1>2, MoveCareful, BrowserCareful DEF ServeRead, dbAndWire
<1>3. CASE ServeList(t, s)
  <2>1. flow[t][s] \in Handler
    BY HandlerFields DEF Absence, OneHandler, TypeOK, FlowTypeOK
  <2>2. ASSUME NEW k \in Key,
               Becomes(t, s, [flow[t][s] EXCEPT !.key = k,
                                                !.payload = ledger[k].payload,
                                                !.reply = ledger[k].verification])
        PROVE  \A u \in Tab, v \in Slot : Careful(flow'[u][v])
    <3>1. Careful([flow[t][s] EXCEPT !.key = k, !.payload = ledger[k].payload,
                                     !.reply = ledger[k].verification])
      BY <1>3, <2>1 DEF Careful, Handler, ServeList, At
    <3> QED
      BY <2>2, <3>1, BecomesCareful
  <2> QED
    BY <1>3, <2>2, MoveCareful, BrowserCareful DEF ServeList, dbAndWire
<1>4. CASE Fail(t, s)
  BY <1>4, MoveCareful, BrowserCareful DEF Fail
<1>5. CASE GiveUp(t, s)
  BY <1>5 DEF GiveUp, Solitary
<1> QED
  BY <1>1, <1>2, <1>3, <1>4, <1>5 DEF Network

LEMMA ContinueCareful ==
    ASSUME Absence, OneHandler', NEW t \in Tab, NEW s \in Slot, Continue(t, s)
    PROVE  Absence'
<1>1. UNCHANGED <<ledger, manifests, late>>
  BY DEF Continue, OnAlreadyResolved, OnFinalized, OnSubmitError, OnAbsent,
         OnUnconfirmed, OnSuperseded, OnSupersedeError, OnListed, OnListedEmpty,
         OnSyncRegistered, OnSyncError, dbAndWire
<1>2. \/ Finish(t, s)
      \/ Await(t, s, "read")
      \/ Start(t, s, "sync", "syncRegister", local[t])
  BY DEF Continue, OnAlreadyResolved, OnFinalized, OnSubmitError, OnAbsent,
         OnUnconfirmed, OnSuperseded, OnSupersedeError, OnListed, OnListedEmpty,
         OnSyncRegistered, OnSyncError
<1> QED
  BY <1>1, <1>2, MoveCareful, BrowserCareful

LEMMA UserCareful ==
    ASSUME Absence, OneHandler', NEW t \in Tab, NEW s \in Slot, User(t, s)
    PROVE  Absence'
<1>1. Starts(t, s) /\ UNCHANGED <<ledger, manifests, late>>
  BY UserStarts
<1>2. ASSUME NEW p \in Payload, NEW intent \in Intent,
             Start(t, s, "submit", "register", intent)
      PROVE  \A u \in Tab, v \in Slot : Careful(flow'[u][v])
  BY <1>2, MoveCareful
<1>3. \A u \in Tab, v \in Slot : Careful(flow'[u][v])
  BY <1>1, <1>2, MoveCareful DEF Starts
<1> QED
  BY <1>1, <1>3, BrowserCareful

LEMMA TabCareful ==
    ASSUME Absence, OneHandler', Solitary, NEW t \in Tab,
           OpenTab(t) \/ Unmount(t) \/ Reload(t) \/ CloseTab(t)
    PROVE  Absence'
<1>1. \A u \in Tab, v \in Slot : flow'[u][v] \in {flow[u][v], Idle}
  BY TabAlone DEF Absence, OneHandler, Solitary
<1>2. UNCHANGED <<ledger, manifests, late>>
  BY DEF OpenTab, Unmount, Reload, CloseTab, PageDies, dbAndWire, Solitary
<1>3. \A u \in Tab, v \in Slot : Careful(flow'[u][v])
  BY <1>1, IdleCareful DEF Absence
<1> QED
  BY <1>2, <1>3, BrowserCareful

(* The inductive invariant: nothing claimed absent is recorded, nor about   *)
(* to be.                                                                   *)
THEOREM AbsenceInvariance == Solitary => (Spec => []Absence)
<1> SUFFICES ASSUME Solitary PROVE Spec => []Absence
  OBVIOUS
<1>1. Init => Absence
  <2> SUFFICES ASSUME Init PROVE Absence
    OBVIOUS
  <2>1. late = {} /\ \A t \in Tab, s \in Slot : flow[t][s] = Idle
    BY DEF Init
  <2>2. \A k \in Key : ~ ClaimedAbsent(k)
    BY DEF Init, LedgerInit, NoRow, ClaimedAbsent, Unresolved
  <2> QED
    BY <2>1, <2>2, InitAlone, IdleCareful DEF Absence
<1>2. Absence /\ [Next]_vars => Absence'
  <2> SUFFICES ASSUME Absence, [Next]_vars PROVE Absence'
    OBVIOUS
  <2>1. OneHandler'
    BY NextAlone DEF Absence, Solitary
  <2>2. CASE UNCHANGED vars
    <3>1. \A u \in Tab, v \in Slot : Careful(flow'[u][v])
      BY <2>2 DEF vars, Absence
    <3> QED
      BY <2>1, <2>2, <3>1, BrowserCareful DEF vars
  <2>3. late = {}
    BY DEF Absence
  <2> QED
    BY <2>1, <2>2, <2>3, NetworkCareful, ContinueCareful, UserCareful, TabCareful DEF Next
<1> QED
  BY <1>1, <1>2, PTL DEF Spec

(* What startNewUnifiIntent promises when it closes an identity holds for  *)
(* a solitary tab whose requests end with their callers; the run           *)
(* "superseded_late" shows that it does not beyond.                         *)
THEOREM SupersededAbsent == Solitary => (Spec => []SupersededIsAbsent)
<1> SUFFICES ASSUME Solitary PROVE Spec => []SupersededIsAbsent
  OBVIOUS
<1>1. Absence => SupersededIsAbsent
  BY DEF Absence, ClaimedAbsent, SupersededIsAbsent
<1>2. Spec => []Absence
  BY AbsenceInvariance
<1> QED
  BY <1>1, <1>2, PTL

=============================================================================
