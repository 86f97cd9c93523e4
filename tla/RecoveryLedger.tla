--------------------------- MODULE RecoveryLedger ---------------------------
(***************************************************************************)
(* The database side of DataNest's durable mutation recovery, for one      *)
(* (project, user, workflow scope):                                        *)
(*   - recovery.mutation_recovery_ledger, the durable journal of request   *)
(*     identities, reached through the register, mark and resolve RPCs;    *)
(*   - the domain table of the workflow (public.jobs for the UNIFI         *)
(*     planner), written through an RPC keyed by the request identity.     *)
(* Every RPC is one PostgreSQL transaction that locks the rows it reads,   *)
(* so each is one action.  An RPC that raises rolls back: it changes       *)
(* nothing and its outcome is "error".                                     *)
(*                                                                         *)
(* The module's own Spec lets any caller issue any call in any order, so   *)
(* what it satisfies is what the database promises whatever browsers do.   *)
(***************************************************************************)
EXTENDS Naturals, Sequences

CONSTANTS
    Key,             \* request identities, crypto.randomUUID() in the browser
    Payload,         \* bounded request payloads
    NoPayload,       \* the payload of a row that does not exist
    DuplicateRaises  \* TRUE where the domain write is a plain INSERT that
                     \* raises on a duplicate identity (Product Lab), FALSE
                     \* where it returns the existing record (UNIFI, Sparks)

ASSUME PayloadAssumption == NoPayload \notin Payload
ASSUME DuplicateAssumption == DuplicateRaises \in BOOLEAN

VARIABLES
    ledger,     \* ledger[k]: the row of identity k, or NoRow
    manifests   \* the domain records, in the order they were committed

dbVars == <<ledger, manifests>>

-----------------------------------------------------------------------------

Verification == {"unverified", "unconfirmed", "confirmed_absent"}
Resolution   == {"confirmed", "superseded_after_absence"}

(* "open" is a row whose resolved_at is null. *)
Row == [status       : {"none", "open"} \cup Resolution,
        payload      : Payload \cup {NoPayload},
        verification : Verification]

NoRow == [status |-> "none", payload |-> NoPayload, verification |-> "unverified"]

Manifest == [key : Key, payload : Payload]

LedgerTypeOK ==
    /\ ledger \in [Key -> Row]
    /\ manifests \in Seq(Manifest)

Unresolved(k) == ledger[k].status = "open"
Resolved(k)   == ledger[k].status \in Resolution
Recorded(k)   == \E i \in DOMAIN manifests : manifests[i].key = k

LedgerInit ==
    /\ ledger = [k \in Key |-> NoRow]
    /\ manifests = <<>>

-----------------------------------------------------------------------------
(* register_mutation_recovery_v1 *)

(* Defect: an unresolved identity is looked for under its own key only. *)
RegisterOutcomePerIdentity(k, p) ==
    CASE ledger[k].status # "none" /\ ledger[k].payload # p -> "error"
      [] Resolved(k) /\ ledger[k].payload = p               -> ledger[k].status
      [] OTHER                                              -> "active"

(* Defect: the first version of the RPC, which reopened a resolved row. *)
RegisterOutcomeReopens(k, p) ==
    CASE ledger[k].status # "none" /\ ledger[k].payload # p -> "error"
      [] ledger[k].status # "none" /\ ledger[k].payload = p -> "active"
      [] OTHER -> IF \E j \in Key : Unresolved(j) THEN "error" ELSE "active"

(* register_mutation_recovery_v1: an identity already finalized answers    *)
(* with its resolution, an unresolved one is taken up again, an unknown    *)
(* one is inserted unless another identity of the scope is unresolved.     *)
RegisterOutcome(k, p) ==
    CASE ledger[k].status # "none" /\ ledger[k].payload # p -> "error"
      [] Resolved(k) /\ ledger[k].payload = p               -> ledger[k].status
      [] Unresolved(k) /\ ledger[k].payload = p             -> "active"
      [] OTHER -> IF \E j \in Key : Unresolved(j) THEN "error" ELSE "active"

Register(k, p) ==
    /\ ledger' = IF RegisterOutcome(k, p) = "active"
                 THEN [ledger EXCEPT ![k] = [status       |-> "open",
                                             payload      |-> p,
                                             verification |-> "unverified"]]
                 ELSE ledger
    /\ UNCHANGED manifests

(* mark_mutation_recovery_verification_v1 updates an unresolved row only. *)
MarkOutcome(k) == IF Unresolved(k) THEN "ok" ELSE "error"

Mark(k, v) ==
    /\ ledger' = IF MarkOutcome(k) = "ok"
                 THEN [ledger EXCEPT ![k].verification = v]
                 ELSE ledger
    /\ UNCHANGED manifests

(* resolve_mutation_recovery_v1: idempotent for the same resolution,       *)
(* refuses a different one, and supersedes a verified absence only.        *)
MayResolve(k, r) ==
    /\ Unresolved(k)
    /\ r = "superseded_after_absence" => ledger[k].verification = "confirmed_absent"

(* Defect: a repeated finalization is refused like a conflicting one. *)
ResolveOutcomeOnce(k, r) == IF MayResolve(k, r) THEN "ok" ELSE "error"

ResolveOutcome(k, r) ==
    IF ledger[k].status = r \/ MayResolve(k, r) THEN "ok" ELSE "error"

Resolve(k, r) ==
    /\ ledger' = IF MayResolve(k, r)
                 THEN [ledger EXCEPT ![k].status = r]
                 ELSE ledger
    /\ UNCHANGED manifests

(* The domain write (create_job_manifest_v3): it never reads the ledger.   *)
WriteOutcome(k, p) ==
    CASE ~ Recorded(k) -> "ok"
      [] Recorded(k)   ->
           IF /\ ~ DuplicateRaises
              /\ \E i \in DOMAIN manifests : manifests[i] = [key |-> k, payload |-> p]
           THEN "ok" ELSE "error"

(* Defect: the insert is not keyed by the request identity. *)
WriteUnkeyed(k, p) ==
    /\ manifests' = Append(manifests, [key |-> k, payload |-> p])
    /\ UNCHANGED ledger

Write(k, p) ==
    /\ manifests' = IF Recorded(k)
                    THEN manifests
                    ELSE Append(manifests, [key |-> k, payload |-> p])
    /\ UNCHANGED ledger

-----------------------------------------------------------------------------

LedgerNext ==
    \E k \in Key :
        \/ \E p \in Payload : Register(k, p)
        \/ \E v \in Verification \ {"unverified"} : Mark(k, v)
        \/ \E r \in Resolution : Resolve(k, r)
        \/ \E p \in Payload : Write(k, p)

LedgerSpec == LedgerInit /\ [][LedgerNext]_dbVars

-----------------------------------------------------------------------------
(* At most one identity of the scope is unresolved at any time, whatever   *)
(* the callers do: the check register_mutation_recovery_v1 makes before it *)
(* inserts, and the partial unique index behind it.                        *)
OneUnresolvedPerScope ==
    \A j, k \in Key : Unresolved(j) /\ Unresolved(k) => j = k

(* One identity never yields two domain records, however often the write   *)
(* is retried, replayed by another tab or delivered late.                  *)
OneRecordPerIdentity ==
    \A i, j \in DOMAIN manifests :
        manifests[i].key = manifests[j].key => i = j

(* Resolved rows are history: no call reopens, re-resolves, re-verifies or *)
(* rewrites one, and no call removes or rewrites a domain record.          *)
HistoryIsImmutable ==
    [][ /\ \A k \in Key : Resolved(k) => ledger'[k] = ledger[k]
        /\ \A i \in DOMAIN manifests :
               i \in DOMAIN manifests' /\ manifests'[i] = manifests[i]
      ]_dbVars

=============================================================================
