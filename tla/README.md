# Formal models of DataNest

DataNest is a browser application (React, `src/src/`) over Supabase: PostgreSQL
functions called as RPCs (`src/supabase/migrations/`, `staging-migrations/`) and
Deno edge functions (`src/supabase/functions/`). Browsers keep no authoritative
state; everything governed goes through RPCs, each of which is one database
transaction. What is hard is therefore not inside a transaction but between two
of them: the browser's handlers interleave at every `await`, several tabs and
devices act for the same user, answers get lost, pages die, queue messages are
delivered again.

This directory holds TLA+ models of the parts of DataNest where that matters,
the TLC configurations that check them on small instances, and TLAPS proofs of
the main results for every instance. Every definition that models code is
listed in `PROJECT.json` ("map") with the lines it stands for.

## 1. Inventory

| component | state | operations | what is hard | correct when |
|---|---|---|---|---|
| Durable recovery ledger (`recovery.mutation_recovery_ledger`) | one row per request identity: payload, verification, resolution | register, mark, resolve, list | concurrent registration from two devices; repeated and conflicting finalization | one unresolved identity per (project, user, scope); resolved rows are history |
| Recovery in the browser (UNIFI planner, Sparks, Product Lab) | session-storage journal per tab, displayed reconciliation state, running handlers | submit, reconcile, supersede, synchronize, mount, unmount, reload | handlers interleave with each other, with other tabs, with lost answers and late requests | a governed effect happens once; nothing is confirmed that did not happen, nothing forgotten that did |
| Domain writes (`create_job_manifest_v3`, Sparks redemption, Product Lab run) | domain row with the request identity | idempotent insert | retries, duplicates | one row per identity |
| File ingestion gateway (`datanest-ai-upload`) | submission and item rows, incoming objects | create_submission, finalize_item, retry_item, status | partial failure between two calls, client retries | a finalized item is processed |
| File worker and analysis (`datanest-ai-file-worker`) | item checkpoints, attempts, two pgmq queues, canonical objects, response event | drain, per-item stages, aggregation, analysis | at-least-once delivery with a visibility timeout, two workers on one item, crashes between checkpoints | every submission ends, one response event, no content lost |
| AI chat turns and usage budgets (`datanest-ai-chat`, budget RPCs) | one usage row per client request, staged events and envelope in the staging database | begin, authorize, finish, reconcile; the turn around them | turns retried while the first one runs, dying turns, late calls, concurrent authorizations | a request is sent to the provider once; limits hold; a reservation is held until the outcome is known |
| Sparks economy, contributions | contribution row, score versions, append-only ledger entries, redemptions, catalog | evidence ... mint, publish, request, cancel, fulfil | reviewers act on rows read without a lock; one request key used by several calls | a contribution is awarded once; Sparks are conserved; a redemption is resolved once |
| Governed memory and certification | certified memory with lineage, consolidation proposals; intake events, reviews, seals | promote, supersede, retire, consolidate; intake, review, certify | the promotion RPC takes no lock before it writes; consolidation checks its members unlocked | a memory leaves force once; lineages advance |
| Authority and execution | grants, approvals, executions | propose, approve, execute, revoke | approval that is stale when used | no execution without a valid approval |
| External audit | cases, evidence, reports | open, request, report, close | edge function steps around a model call | evidence and reports immutable once filed |
| Governance voting | protocol versions, proposals, vote events, decisions | draft, propose, vote, withdraw, close, ratify | vote against close; ratifications that overlap; members who leave | one protocol in force, by independent support; decisions final |
| Certification services and payments | orders, settlements | order, pay, settle | duplicated settlement | one settlement per order |
| Trust policy, resource fabric, intelligence fabric, portfolio, think tanks, invitations, contribution, continuous governance | versioned records | single-transaction RPCs | optimistic versions | validation rules |
| Resonance Forge, automation, AIPI, release scripts, RONSAS apps | files, none, or their own | sequential programs | little | their own tests |

How the modelled components meet: a browser handler calls register, then the
domain write, then resolve, each a separate RPC; the ledger and the domain table
are related only by the request identity, and no RPC looks at both. Tabs share
nothing but the database. The journal of a tab is shared by all handlers of that
tab through session storage, whether or not the component that started them is
still mounted.

A file submission involves three programs that never talk to each other: the
upload gateway, the file worker and the analysis (the last two in one edge
function). They share the submission row, the item rows, the storage bucket and
two pgmq queues. A finalize marks an item and enqueues it; a worker claims the
message, checkpoints each stage in the item row and, when it sees all items
settled, enqueues the submission for analysis. Nearly every row update is
unconditional and decided on earlier reads.

A chat turn spans two databases and a provider: the usage row is claimed and
settled by RPCs of the production database, the message, the answer and the
reasoning envelope are inserts into the staging database, and nothing makes them
atomic. The Sparks, governance and memory RPCs are transactions of their own, but
most of them read rows they do not lock, so two of them may decide on the same
reads and what protects the books is a unique constraint, a conditional update or
a lock taken later.

The hazards this code is exposed to are listed, each at its line, in
`PROJECT.json` ("hazards"), with the properties that cover them.

## 2. Modules

| module | role |
|---|---|
| `IntentLifecycle` | abstract specification: what durable recovery promises for one scope |
| `RecoveryLedger` | the database side: ledger RPCs and the domain write, called by anyone |
| `MutationRecovery` | browsers, tabs, handlers, network faults, composed with `RecoveryLedger` |
| `FileIngestion` | one file submission: gateway requests, queues, workers, analysis, faults |
| `FileDrains` | what starts those handlers: the gateway's wake-ups and the drains of a worker, with their batches |
| `AiTurns` | chat turns of one user and the usage rows, limits and reservations they are charged to |
| `SparksEconomy` | the path of contributions to an award, and redemptions of the awarded Sparks |
| `GovernanceVoting` | drafts, proposals, votes, decisions and ratifications of one project |
| `VerifiedMemory` | promotion, supersession, retirement and consolidation of certified memory |
| `MCMutationRecovery`, `MCFileIngestion`, `MCFileDrains`, `MCAiTurns`, `MCGovernedServices` | model values, symmetry and, in the last one, the three database services side by side |
| `RecoveryLedgerProofs`, `MutationRecoveryProofs`, `FileIngestionProofs`, `AiTurnsProofs`, `SparksEconomyProofs`, `GovernanceVotingProofs`, `VerifiedMemoryProofs` | theorems |
| `SumTheorems` | facts about sums over finite sets, for the last proofs of `AiTurns` and `SparksEconomy` |

A definition whose comment begins with "Mutant:" is a plausible bug of the
definition after it. No specification uses it; `PROJECT.json` ("mutants") names
the property that notices it when it takes that definition's place.

### RecoveryLedger

State: `ledger[k]` is the row of identity `k` (`status` "open" for a null
`resolved_at`, else the resolution), `manifests` the domain records in commit
order. One action per RPC, because each decides on rows it locks (`for update`) or
leaves two concurrent inserts to a unique index, which raises in the slower one:
`Register`, `Mark`, `Resolve`, `Write`. The outcome an RPC returns is an operator of its own
(`RegisterOutcome`, ...), so that the browser model uses the same definition. An
RPC that raises changes nothing and answers "error".

`DuplicateRaises` distinguishes the two kinds of domain write: UNIFI and Sparks
return the record of an identity that was already written with the same payload,
Product Lab's insert raises.

`LedgerSpec` lets anybody call anything in any order; what it satisfies holds
whatever browsers do.

Left out: membership checks, payload size bounds, timestamps and the attempt
counter (no decision depends on them); other scopes, projects and users, which
share no row with the one modelled. A registration that omits its scope lock is
not modelled since the unique index gives the same outcome.

### MutationRecovery

One user, several tabs. `flow[t][s]` is an async handler running in slot `s` of
tab `t`: its program counter names the request it awaits. Between two awaits
JavaScript runs to completion, so each reply is consumed by one action that does
all the code does up to the next await. Correspondence:

| code | model |
|---|---|
| session storage entry of the scope | `local[t]`, with `text` telling how it serialises |
| `reconciliationState`, locked form | `recon[t]`, `form[t]` |
| `useSingleFlight` (per mounted instance) | `SingleFlightBusy` over live handlers |
| `recoverySyncingRef` | `Syncing` |
| recovery hydration gate of the shell | `stage` "loading" -> "ready" |
| `createJob` | `Submit`, `Then`, `OnAlreadyResolved`, `OnFinalized`, `OnSubmitError` |
| `reconcileUnifiIntent` | `Reconcile`/`Mount`, `ServeRead`, `OnFinalized`, `OnAbsent`, `OnUnconfirmed` |
| `startNewUnifiIntent` | `ChangeManifest`, `OnSuperseded`, `OnSupersedeError` |
| `synchronizeDurableRecoveries` | `StartSync`, `ServeList`, `OnListed`, `OnListedEmpty`, `OnSyncRegistered`, `OnSyncError` |
| network | `Serve` (executed; the answer may be lost), `Fail` (not executed), `GiveUp` + `ServeLate` (executed after the caller saw an error) |
| browser | `OpenTab`, `Mount`, `Unmount`, `Reload`, `CloseTab` |

Details that matter and are kept: journal operations address the scope and not
the identity; a state setter of an unmounted component has no effect but its
journal operations do; the payload comparison of `getOrCreatePendingMutation` is
one of JSON texts, and a payload that went through the ledger's `jsonb` column
comes back with its members reordered (`text = "jsonb"`); a failed verification
read leads to "unconfirmed", never to "absent".

Over-approximations: `OnFinalized` frees the handler before the planner's
`reload()`, which touches no modelled state; a slot is any handler, so a tab may
run two of a kind unless a lock of the code prevents it; the user may act
whenever the form allows. Under-approximations: storage quota errors, sign-out
and project switching, several scopes in one synchronisation pass.

### IntentLifecycle

The promise: an intent is opened while no other is open, its effect is recorded
once and only after it was opened, and it is closed once, as confirmed only when
recorded. `MutationRecovery` implements it under the mapping
`status <- ledger[k].status`, `recorded <- {k : Recorded(k)}`. A superseded intent
may still be recorded afterwards: that is what the code does (finding
`superseded_late`), and the abstraction does not hide it.

### FileIngestion

One submission. `worker[w]` is the handler an isolate runs (its program counter
names the next remote call, its other fields what it remembers of the rows it
read), `gate[g]` a gateway request. Every remote call is one step, because any
other request may run between two of them. Correspondence:

| code | model |
|---|---|
| rows `ai_file_submissions`, `ai_file_submission_items` | `sub`, `item` |
| bucket: upload paths, `sha256/...` paths | `incoming`, `stored` |
| `datanest_artifacts` and chunks of a digest | `artifacts` |
| response event of the trace | `answer` |
| queues `datanest_file_ingestion`, `datanest_file_analysis` | `files`, `analyses`: each message visible, claimed or deleted |
| `createSubmission` | `Create`, `InsertItems`, `ReadSlots`, `AssignPath` |
| `finalize_item`, `retry_item` | `StartRequeue`, `Requeue`, `Enqueue` |
| signed upload of the browser | `Upload` |
| `pgmq.read`, visibility timeout, `pgmq.delete` | `ClaimItem`/`ClaimAnalysis`, `LapseItem`/`LapseAnalysis`, `Ack`/`AckAnalysis` |
| `processItem` | `Load`, `Exhaust`, `Count`, `Validate`, `Read`, canonicalize (`Probe`, `Copy`, `Remove`), `Verify`, `Extract`, `Ocr`, `Persist`, `Ready`, `Catch` |
| `updateSubmissionState` | `List`, `Decide`, `Send`, `Mark` |
| `processFileSubmissionAnalysis` | `LoadSubmission`, `LoadItems`, `ExhaustAnalysis`, `CountAnalysis`, `Respond`, `Record`, `CatchAnalysis` |

Data is reduced to what decisions depend on: a file is a digest (`Content`), a
stage that refuses it for good, if any (`Refusal`), and whether it has pages to
be recognised (`Scanned`); an error code is deterministic, `RETRY_EXHAUSTED` or
anything else; the answer keeps the set of files it calls failed.

Fault kinds, each with a place in the code: a *call* inside a `try` block fails
with or without effect (`CallFails`, the second disjunct of `Then`); a *silent*
failure hits an update whose result is ignored (`UpdateItem`, `UpdateSub`); a
*crash* ends a handler (`Stop`: isolate gone, or a call outside the `try` block
raises out of `drain`); an *overrun* makes a message visible under its handler;
a *gate* fault ends a gateway request between two calls. `Fault` selects the
kinds of a run, `MaxFaults` bounds their number.

Approximations. Each message has a handler of its own that claims it when it
begins; `FileDrains` adds the batches. An
acknowledgement that fails is a crash before it. `persistArtifact` makes
several upserts keyed by the digest, taken as one: repeated after a failure they
have the same result. The queue keeps no order, as with several readers.

### FileDrains

`FileIngestion` lets an idle worker claim any visible message. `FileDrains` says when
one does. It keeps the variables of `FileIngestion` and adds `wakes`, the requests for
a drain on their way; `drain[w]`, the phase and the batch of the drain running in `w`;
`stranded`, what a dead drain left claimed; and `dropped`.

| code | model |
|---|---|
| `enqueue`, then `wakeFileWorker` (neither awaited nor repeated) | `Serve`: the step `Enqueue` of the gateway adds a request |
| the same for files of other submissions | `OtherWake`, up to `MaxWakes` pending requests |
| `drain`: one RPC claims up to five messages | `StartDrain`, `ItemLimit` |
| `drainFileAnalysis`: one RPC claims up to two | `DrainAnalyses`, `AnalysisLimit` |
| the loops over the messages claimed | `Begin`, `Handle`, `EndDrain` |
| an exception outside the `try` block, or the isolate gone | `StopDrain` in a handler, `LoseDrain` between two messages |
| a wake-up that does not arrive (its rejection is swallowed), or whose claim fails | `LoseWake` |
| visibility timeouts | `LapseHandled`, `LapseStranded` |

A message of a batch whose handler has not begun is still "visible" in
`FileIngestion`, and `Hidden` from other claims here. With that every step is a step of
`FileIngestion` or leaves its variables alone (theorem `DrainsRunHandlers`), so what is
proved of the handlers holds of the drains. Left out: overruns (a batch held beyond
its visibility timeout), which the runs and theorems of `FileIngestion` have, and
messages of other submissions in the two queues. The action `drain-analysis` of the
worker is never requested by the code in the repository.

### AiTurns

One user in one project. `usage[r]` is the row of client request `r`, `turn[t]` an
invocation of the edge function; a retry of a request is another invocation with
the same `r`. `called`, `staged` and `envelope` are what the provider and the
staging database have seen. Correspondence:

| code | model |
|---|---|
| `begin_datanest_ai_request` | `Begin`, `IsNew` |
| `service_authorize_ai_request` (under the user's advisory lock) | `Authorize`, `Startable`, `OverLimit`, `TotalCommitted` |
| `service_finish_ai_request` (row locked) | `Finish` |
| `get_ai_reconciliation_queue`, `reconcile_unknown_ai_request` | `Listed`, `ReconcileUnknown` |
| `executeChatTurn` and the steps the function gives it | `BeginTurn`, `LoadCached`, `StageInput`, `Abort`, `Route`, `AuthorizeTurn`, `SendToProvider`, `ProviderEnds`, `FinishTurn`, `StageOutput`, `StageEnvelope` |
| a throwing call, an answer given up, a lost insert answer, an isolate that dies | `CallFails`, `GiveUpOn` + `ExecuteOverdue`, `StagingAnswerLost`, `TurnDies` |

What memory selection, routing, trust policy and execution authority decide is a
nondeterministic choice in `Route`, since it reads tables no modelled step writes;
so is a refusal that depends on the connection or the provider. Left out: the cost
limit (the chat reports no cost), the turn of the day and of the month, and the
panel's older `begin_ai_request`.

### SparksEconomy

One stakeholder in one project. A contribution RPC reads its row without a lock,
checks it, and updates it by id: `StartReview` is the read with its checks
(`Admits`), `SubmitEvidence` ... `Mint` the write, whatever the row has become.
`ReadFinalScore` is the second read of the minting. The award's ledger entry has a
unique trace key made from the contribution (`AwardedAlready`). A redemption
request is `AskRedemption` (catalog and key read) and `Hold` or `RefuseHold` (under
the account locks, with the unique constraint on the key in `Covered`); `Fulfill` and
`CancelRedemption` lock their row first. Balances are sums of append-only entries:
the model keeps the sums, and `SparksConserved` relates them to the awards and the
redemptions they come from.

### GovernanceVoting

One project. A vote takes a share lock and a close an update lock on the proposal,
so each is one action; `ratify_governance_protocol_v1` locks the draft, then looks
for the protocol to supersede, then writes: `BeginRatification` and `Ratify`, with
the unique index on ratified protocols in `IndexAdmits`. `Join` and `Leave` stand for
the membership changes of other components. Voting windows, disputes, and proposals
that change no protocol are left out.

### VerifiedMemory

One project and category. `promote_certified_memory_v2` looks for the content in
force, then reads the next version, then writes, without a lock: `Promote` (or
`ApproveLearning`, the think tank's way to the same function), `Number`, `Write`. A
supersession updates its target only if that is in force (`Supersedable`).
Consolidation checks its members (`CheckMembers`, `BeginExecution`) and writes later
(`InsertProposal`, `Execute`); `Consolidates` is the condition of that update. `Similar`
stands for the relation classifier. Left out: intake, seals, reviews and gates
before a candidate is certified, contradictions recorded between memories, and
the supersession notes of the staging database, which no code reads.

## 3. Runs

| run | instance | question |
|---|---|---|
| `tabs` | 2 tabs, 2 identities, 2 payloads, a fault, late requests, raising insert | do two devices keep identities, records and finalization apart, and follow the lifecycle |
| `progress` | 1 tab, 1 handler, 3 identities, 3 faults, no late requests, fair requests | does rechecking finish what a lost answer left; is superseding safe when handlers do not overlap |
| `locks` | 2 handlers, 1 identity, fair requests, late requests | are the locks and the checking display always released; is a confirmation always backed by a record |
| `file_overlap` | 2 files with equal bytes, one that OCR can never read, 2 workers, 2 faults of any kind | do overlapping handlers keep contents and evidence |
| `file_outcome` | the same, 2 faults (silent, crash, gate) | is a wake-up of the analysis ever lost; does the answer name exactly the failed files |
| `file_progress` | drains; 2 files with different bytes, one of them scanned, 2 workers, batches of 2 and 1, 1 fault (call, crash, gate) or loss, fair drains | is a message deleted only after a durable result; do the wake-ups of the gateway, or later ones, bring every queued submission to its end |
| `ai_turns` | 3 requests, 3 turns, 2 faults, concurrency 1, a token limit of two reservations | is anything sent twice; do the limits, the reservations and the envelope hold through retries, deaths and late calls |
| `governed_services` | 2 people in every role; one service at a time: 1 contribution, 2 scores, 2 redemptions, 2 keys; 2 drafts, 2 proposals, 2 votes each; 2 contents that resemble each other and themselves, 3 memories, 1 consolidation | do the RPCs that read before they lock keep the books, the protocol in force and the lineage |

What the ledger promises to arbitrary callers, and handlers that overlap in one
tab, are proved for every instance (`LedgerInvariance`, `LifecycleImplemented`); no run
repeats them. `tabs` has one handler per tab: a second submission of the same tab is
covered by the theorems without a hypothesis on `Overlap` (`ClientsOfLedger`,
`RegisteredFirst`, `LifecycleImplemented`), an absence read that a write overtakes by
`superseded_late` and the hypothesis of `SupersededAbsent`. Each of the violation runs of section 4 uses the smallest instance that shows
its finding.

Bounds. Two handlers suffice for every race of a tab, because handlers share only
the journal and the displayed state and each race found or excluded is between a
pair; two tabs likewise share only the database. Two identities allow an intent
and its successor (three in `progress`, for a successor of a successor). One fault
puts a lost answer, a refused call, a late request or a dying page anywhere in the
run; `progress` combines three. `MaxFaults` bounds faults, `Key` bounds the
identities ever generated. The proofs need no bound.

In the file runs, two workers give every pairwise overlap on one item, on two
items with one blob, and of a worker with the analysis; two items are needed for
partial failures and for aggregation from stale reads. Two faults allow a fault
during the recovery from another. `MaxAttempts` is 3 in the code and 2 here:
the code distinguishes the last attempt from the others, and an item handler has
no other memory of the count. `MaxSends` bounds the messages of an item and of
the submission: a sender that has reached it waits. With 2 in `file_overlap` and
`file_progress` a second message of each kind exists beside the first, with 4 in
`file_outcome` every redundant analysis that two workers and two faults send; the
proofs cover any number. `ItemLimit` and `AnalysisLimit` (5 and 2 in the code) are 2
and 1: one drain may take both files, and claims fewer analyses than files.
`MaxWakes` bounds the requests of other uploads pending at once, not how many there
are; a loss outside the handlers counts as the one fault (`InBound`).

In `ai_turns` a reservation is 2 and the limit 4 tokens, so two held reservations
fill the budget and a third request is refused, and usages of 1 and 3 lie below and
above a reservation; three turns are two on one request and one competing for the
budget, or three on one. `MaxTurnFaults` bounds the faults, one of which may happen
while another is recovered from.

`governed_services` checks three services that share no row: a behaviour of several
is an interleaving of one of each, and each invariant speaks of one service. `focus`
therefore picks one of them, and the run costs the sum of the three state spaces
instead of their product. Names used once and interchangeable (redemptions,
request keys, drafts, proposals, memories) are taken in a fixed order, which leaves
out renamings of other behaviours only; people, who return, and contents are symmetric.
`MaxScores`, `MaxServices` and `MaxVotes` bound the histories: two scores show a
re-scoring between the two reads of a minting, two votes a member who changes
theirs. The award is worth exactly one redemption, so two requests compete for it. Three memories allow a supersession beside a competitor.

Deadlock is checked except in `ai_turns`, where every turn may have ended and a turn
is used once: a submission can always be asked for again, a tab can always be opened,
mounted or synchronised, and in each service some call is always admitted.
Symmetry is used in runs without liveness only.

Fairness. In `FairSpec` of the browsers, a browser settles every fetch, if only with an
error, and a
settled promise's continuation runs: `WF` of `Network` and of `Continue` for each
handler. Nothing obliges the user to click, a timer to fire or a late request to
arrive. In `FairDrainsSpec`, a request that was not lost starts a drain, a running
drain takes its steps, and a claimed message that nobody holds becomes visible again,
all weakly fair. Nothing obliges anybody to upload, to finalize, or to start a drain:
only finalize and retry wake the worker, and no timer does. `SubmissionEnds` therefore has
two parts. As long as nothing fails and no file is queued twice, the wake-ups of the
submission's own files are enough. Otherwise a message may be visible with nobody to
claim it (drop the premise, and TLC shows a handler that dies after the other file's
drain has started), and the submission ends if drains are started again and again, a
premise in the property itself and satisfied by runs of the instance.
`RecheckConfirms` likewise assumes in its own statement that the user goes on
rechecking.

The four modules of chat turns and services state safety only: nothing obliges a
reviewer, a voter or an admin to act, and a turn that died is never taken up again.

`SupersededIsAbsent`, `FinalizedBeforeCleanup`, `RecheckConfirms`, `AnswerMatchesItems`
and `AcknowledgedIsTerminal` are checked in the settings in which they hold; so is
`AnalysisIsDue`. Section 5 gives those settings as hypotheses of theorems, section 4
says what happens outside them.

## 4. Findings

* `unchanged_retry`: the planner promises that retrying the restored manifest
  reuses its request identity. After a synchronisation the journal holds the
  payload as `jsonb` returned it; the text comparison fails, the retry mints a
  new identity and registration refuses it because the first is still open. The
  tab then stays in conflict with the ledger (local identity against the open
  one) and is not hydrated again until its session storage is gone or another
  device resolves the row.
* `superseded_late`: the `online` event starts a verification read although
  `createJob` is between registration and the domain write. The absence it
  records lets the user supersede the identity, and the job is then created.
* `file_stale_mark`: `updateSubmissionState` decides on two reads and then writes
  the submission's status unconditionally. If the analysis records its response
  in between, the answered submission shows ANALYZING, and stays so, because
  every later handler returns early on the recorded response. The same write can
  hide a FAILED analysis.
* `file_lost_object`: the upload is removed before the row points to the canonical
  blob. A worker that dies in between makes every later attempt read the removed
  path, although the verified bytes are stored (`ContentSurvives` still holds).

`file_stale_mark` needs no fault at all, `file_lost_object` one crash.

Where the settings of the other runs end, the code behaves as follows; no run
stands for these, and the hazards of `PROJECT.json` list them at their lines.

* Journal clean-up addresses the scope, so a handler that ends late clears a newer
  intent that is not finalized (`FinalizedBeforeCleanup` fails with two handlers
  in one tab).
* A planner already mounted when a synchronisation brings in another tab's
  unverified intent is not locked, and the next submission replaces that intent.
* `retry_item` refuses `RETRY_EXHAUSTED` as deterministic, and the worker leaves no
  other code on a row that failed for transient reasons: the retry action never
  applies (`MayRequeue`).
* The catch block does not look at the result of its update and acknowledges; with
  a failing update the item stays unsettled without a message
  (`AcknowledgedIsTerminal` fails with silent faults).
* Five messages claimed for 120 seconds are processed one after the other; a
  handler that falls behind its visibility timeout writes over the item that
  another handler settled and acknowledged (`AcknowledgedIsTerminal` fails with
  overruns).
* The aggregation runs inside the `try` block of the item. Failing on the last
  attempt, it turns the READY item into a failed one, possibly after the answer
  that counts it as read (`AnswerMatchesItems` fails with failing calls).
* Two `finalize_item` requests of one item may both find it UPLOADING and enqueue it
  twice. While one handler is on its last attempt, that of the second message finds
  the attempts used up, fails the item and has the submission answered; the first one
  goes on and makes the item READY (`AnswerMatchesItems` fails with two gateway
  requests and crashes).
* `CountAnalysis` ignores the result of its update. An analysis whose attempt was not
  stored and which fails on its last attempt acknowledges its message all the same: the
  submission is neither answered nor, by its row, out of attempts (`AnalysisIsDue` fails
  with failing calls and silent failures together).
* A handler that outlives its claim may settle the last item after another one has
  acknowledged the message; if it ends there, nobody aggregates (`AnalysisIsDue` fails
  with overruns).
* A message that becomes visible after the last wake-up waits for the next upload of
  anybody: no timer starts a drain, and a wake-up is sent once
  (`datanest-ai-upload/index.ts`:121). Without any failure that happens in two ways. Two
  overlapping `finalize_item` requests of one file queue it twice, an analysis finds the
  item reopened by the second handler and returns without acknowledgement, and that
  handler, finding ANALYZING, sends no other one (`SubmissionEnds` is about files queued
  once). Or a drain handles the last files of more submissions than the two analyses it
  claims afterwards, while the drains woken with it have already ended; the model has
  one submission.
* A chat turn that dies after its authorization leaves its row pending with the
  reservation held. The queue of the admin and the reconciliation itself admit
  `unknown` rows only (`Listed`, `20260924153734_...sql`:440), so the row keeps its
  tokens and its place in the concurrency limit for good; as many dead turns as the
  limit refuse every later one. `AiReconciliationPanel.tsx`:133 says "Interrupted
  provider calls remain non-retryable and keep their token reservation until an
  owner/admin confirms the outcome."
* Two sessions that promote one content at once both look for it in vain and insert
  it under different versions, or one of them inserts it after the other: two active
  rows of one content (`Promote`, `Number`, `Write`;
  `20260929043923_...sql`:316). `2026-09-24-datanest-ai-governed-memory-design.md`:489
  says "Promotion is idempotent. Retries must not duplicate certified-memory records."
* Superseding with a candidate that is in force already: the RPC returns the existing
  row without looking at the target, and the certification function records a
  supersession in the staging database nonetheless
  (`datanest-ai-certification/index.ts`:1471). Promoting the candidate of a retired
  memory again brings its content back.
* Consolidation checks its members with unlocked reads, at the proposal and at the
  execution (`20260929090517_...sql`:72, 217). Two proposals that overlap may both
  be made and executed, and the canonical memory may have left force when its
  equivalents are retired into it: the content is then not in force at all
  (`MEMORY_LEARNING_LANGUAGE_STANDARDS.md`:64, "execution revalidates the member set so
  stale or already-changed proposals cannot silently alter current memory").
  `LeavesForceOnce` holds because the update itself asks for active rows.
* A contribution that is verified, accepted and scored again after its certification
  stays certified and eligible, so a minting may award a score nobody certified
  (`AwardedOnce` asks for one of its scores, not for the certified one).
* A retry of a redemption that succeeded raises when the service was paused since,
  because the catalog is looked at before the request key
  (`20260925024028_...sql`:310-344).
* `based_on_protocol` of a draft is not compared at ratification, and votes of members
  who left before the close are not counted (`EffectiveVotes`).

## 5. Proofs

`RecoveryLedgerProofs`: `LedgerInv` (types, one unresolved identity, one record
per identity) is inductive for arbitrary callers; `HistoryImmutable` follows step
by step from it.

`MutationRecoveryProofs`: types for any number of tabs, handlers and faults;
`ClientsOfLedger`, that a step of the composition is a call of the ledger module
or leaves the database alone, so that the ledger's theorems carry over;
`JustifiedInvariance`, the inductive invariant behind the rest. The properties
`RegisteredBeforeWrite` and `ConfirmedIsRecorded` are not inductive: they depend
on what a handler learned before the request it is waiting for. `Justified` says
it: a pending or late domain write names an identity registered with that payload,
a pending or late finalization as confirmed names a recorded one. It is preserved
because the ledger never forgets a registration and the domain table never
forgets a record (`CallsKeep`). `LifecycleImplemented` maps every step to a step
of `IntentLifecycle` or a stutter, with `Justified` supplying the guards.

`IdentityHasOnePayload` needs no hypothesis. That any two holders of an identity agree
is not inductive pairwise, since a step copies a pair from one holder to another; the
invariant `OneNaming` says instead that some function from identities to payloads
agrees with every row, journal, handler and request. A step keeps the function, except
that minting an identity changes it at a name nobody holds.

`FinalizedFirst` and `SupersededAbsent` are the two results that fail when handlers of a
tab overlap (section 4). Under `~Overlap`, `Continuity` says that the one running
handler of a tab works on the identity in its journal and knows of a resolution only
when the row is resolved; it leaves tabs, faults and late requests free. A superseded
identity stays without a record only if nobody else can write: `Solitary` adds one tab
and no late requests, and `Absence` says that an identity whose absence is recorded, or
is about to be, has no record and no pending write.

`FileIngestionProofs`: for any number of files, workers and requests, any
contents and all fault kinds together, types, `ContentSurvives` and
`ReadyIsBacked`. The last two are not inductive: a worker that is about to
remove an upload or to write READY acts on what it found several calls earlier.
`Backed` adds that memory: a handler past the copy has a blob (`CopiedPc`), one
that read a canonical path or a status past the copy has one too, a handler
about to write READY has an artifact, and a message or a request of an item
exists only when its bytes do. It is preserved because blobs and artifacts are
never removed and an upload is removed only by a handler whose blob exists.
`StepKeeps` splits the obligation by variable, the lemmas `Carries`, `Goes`,
`ThenGoes`, `Raises`, `Updates` cover the ways a handler step is written, and one
lemma per action combines them.

The three other invariants of the file runs are proved there in the settings in which
they hold, again for any files, workers, bounds and numbers of faults. They share two
invariants: `Orderly` (rows are inserted once and first, a failed row is one the gateway
never retries, a handler is inside its `try` block only where the code has one), which
needs no hypothesis, and `Exclusive` (a running handler holds a claimed message that no
other holds), which needs that no handler outlives its claim; `Kept` joins them to
`Backed` and the types.

| theorem | hypotheses | what is added to `Kept` |
|---|---|---|
| `AcknowledgedAfterResult` | no silent failures, no overruns | `Awaited`: an unsettled item has a message that is not deleted and that no handler is about to acknowledge |
| `AnswerIsTrue` | one gateway request at a time, no failing calls, no overruns | `QueuedOnce`: an item gets one message, when it leaves UPLOADING; `Truthful`: what a handler read of the rows still holds when it acts on it, a settled item stays as it is |
| `AnalysisStaysDue` | no overruns, not failing calls and silent failures together | `Due`: with all items settled, an analysis can still come of a message or of a handler that has not yet aggregated from stale reads; a handler about to give up says why it may |

None of the hypotheses can be dropped: for each, TLC finds a violation on one file, two
workers and three faults as soon as it is lifted. Section 4 describes them.

`DrainsRunHandlers` shows that `FileDrains` implements `FileIngestion`, with the types of
the drains' own variables as invariant, so the theorems above hold of drains with
batches. `DrainsClaimOnce` uses it, and `Kept`: a message is in one batch, or stranded,
and no handler has begun it.

`AiTurnsProofs`: `AiInv` is inductive for any requests, turns, limits and faults. What
the properties need is memory of who owns a request: the invocation that `begin`
told "new" owns it (`OneOwner`), and `OwnerOK` says what it knows between its calls: its
row is pending until it settles it, no overdue finish exists before it gave one up,
nothing was sent before "send". `Late` says which overdue calls may still hit a row.
The concurrency limit needs that an authorization counts the requests in flight in
the step that adds one (`AuthorizeRow`, by cardinality of finite sets), and that no
other step adds one (`FlightShrinks`). `BudgetAlwaysRespected` rests on `BudgetInv`,
which adds that a held reservation is of the whole output limit, and that an unknown
outcome and an overdue settlement of success are of authorized calls. An authorization then adds what the limit left room for, and settling replaces a
reservation by a usage of which only the excess may lie above it.

`GovernanceVotingProofs`: `GovInv` adds to the properties that a draft being ratified
is locked by one ratification and accepted (`DraftLocked`), that a decision agrees with
the votes, which do not change after it (`DecidedByVotes`), and that once a version
was in force one always is (`AlwaysOneInForce`); the last makes the chain inductive,
because a ratification that found none to supersede can only be the first.

`VerifiedMemoryProofs`: `PromotionsAdvance` remembers that a promotion about to write
took a version beyond its target's; the target was promoted before and rows keep
their versions. `GreatestExists`, that a finite set of naturals has a greatest element,
is proved from the well-foundedness of strict inclusion on finite sets, and
`NextVersionIsNew` is its use.

`SparksEconomyProofs`: `ReviewsSeeScores` (a score a minting has read is still there),
`CatalogBounded` and the two uniqueness properties are inductive with the types;
the types say that no balance is negative. `HoldsAreAlwaysBacked` and
`SparksAreConserved` are inductive together (`Balanced`): each RPC moves an amount
between balances and changes the share of one award or redemption by as much.

`SumTheorems`: these last three are about sums written with `FoldFunction`, a recursive
function on sets. No induction theorem of the library can be used for it, because each
takes a predicate as a parameter; `SumRemove` (any element may be added last) is proved
instead by a minimal counterexample, taken in the set of subsets at which the equation
fails, which is well founded under strict inclusion. `SumUpdate` is what the
proofs of actions use.

Assumptions of these modules: distinguished null values are not members of their
sets, limits and amounts are natural numbers, prices and quantities positive, the sets
of requests, contributions, redemptions, members and memories finite, admins are members.

Assumptions of the others: `NoPayload` is not a payload, `NoKey` not an identity,
`DuplicateRaises`, `LateCalls`, `Overlap` are Booleans, `MaxFaults` a number; a
worker's `NoItem` is not an item, `Content` and `Refusal` are functions of the
items, attempts and bounds are numbers, `Fault` is a set of fault kinds, without overruns in
`FileDrains`; a drain claims at least one message.

Only model-checked: liveness (`RecheckConfirms`, `CheckingSettles`, `LocksReleased` and
`SubmissionEnds`), which is beyond the prover, and what the violation runs show. Every
invariant and every action property of a passing run is a theorem, the ones named above
under the hypotheses given there.

## 6. Plan

What the project would gain most from next, in this order.

1. `AuthorityExecution`, once the evaluation runs (see section 7): grants,
   approvals, executions, revocation between approval and execution. Theorem: no
   execution without a valid approval.
2. Certification before promotion (`datanest-ai-certification`): gates, reviews, seals,
   composed with `VerifiedMemory`, which takes certified candidates as given.
3. `FileIngestion`: an abstract submission (created, processing, answered once) that
   it implements under the hypotheses of `AnswerIsTrue`; a run with two gateway
   requests for the stale slot path; in `FileDrains`, messages of other submissions.
4. Composition of `SparksEconomy` with `MutationRecovery` through the redemption that
   the browser's recovery scope names by its request key.
5. External audit, resource reservations, invitations and settlements: small protocols
   of single transactions around an external service.
6. Pure operators: submission reduction and provider usage accounting, checked
   against reference definitions over bounded inputs.

## 7. Not modelled

Authority and execution: `private.authority_evaluate_execution_v1`
(`20260927124000_...sql`:875) compares columns with parameters of the same name without
qualifying them, which PL/pgSQL refuses when the function runs, so there is no
behaviour to model beyond the error; `AiTurns` lets the authority decide either way.
Extraction, OCR, embedding and answer generation (numeric or textual
computation); authentication, membership checks and row-level security (each a
guard inside one transaction); the learning policy and memory snapshots of a
submission, which are frozen when it is created; user interface workspaces that
only show the result of an RPC; the release, automation and certification
scripts, which are sequential programs over files with tests of their own; the
RONSAS applications, which are separate sites. Of the components modelled in part,
`PROJECT.json` names what is left out.
