---------------------------- MODULE FileIngestion ----------------------------
(***************************************************************************)
(* One file submission of DataNest AI: the upload gateway that creates it  *)
(* and queues its items, the file worker that turns every uploaded object  *)
(* into a canonical blob and an evidence artifact, and the analysis that   *)
(* answers the submission once all items are settled.  Gateway requests    *)
(* and workers are stateless edge functions that share the submission and  *)
(* item rows, the storage bucket and two at-least-once queues; every       *)
(* remote call of theirs is a step, and most updates are unconditional.    *)
(***************************************************************************)
EXTENDS Integers, Sequences, FiniteSets

CONSTANTS
    Item,                \* the files of the submission
    NoItem,              \* what a worker holds that has no file item
    Hash,                \* digests of file contents
    Content,             \* Content[i]: digest of the bytes of item i
    Refusal,             \* Refusal[i]: the stage that refuses i for good
    Scanned,             \* items with pages that need OCR
    Worker,              \* worker isolates
    Gate,                \* gateway requests served at the same time
    MaxAttempts,         \* MAX_ATTEMPTS of the worker
    MaxAnalysisAttempts, \* MAX_ANALYSIS_ATTEMPTS of the analysis
    Fault,               \* the kinds of fault that may happen
    MaxFaults,           \* bound: faults
    MaxSends             \* bound: messages sent per item or submission

FaultKind == {"call",    \* a checked call fails, or its answer is lost
              "silent",  \* an update whose result is not checked fails
              "crash",   \* a worker dies or leaves its drain by an exception
              "overrun", \* a message's visibility lapses under a live handler
              "gate"}    \* a gateway request dies or one of its calls fails

ASSUME ItemAssumption == NoItem \notin Item /\ IsFiniteSet(Item)
ASSUME ContentAssumption == Content \in [Item -> Hash]
ASSUME RefusalAssumption == Refusal \in [Item -> {"none", "read", "extract", "ocr"}]
ASSUME AttemptsAssumption == MaxAttempts \in Nat /\ MaxAnalysisAttempts \in Nat
ASSUME FaultAssumption == Fault \subseteq FaultKind /\ MaxFaults \in Nat /\ MaxSends \in Nat

VARIABLES
    sub,       \* the row of the submission
    item,      \* item[i]: the row of item i
    incoming,  \* items whose uploaded object is at its incoming path
    stored,    \* digests with a canonical blob
    artifacts, \* digests with an evidence artifact
    answer,    \* the response event of the submission
    files,     \* files[i]: the ingestion messages of item i, in sending order
    analyses,  \* the analysis messages of the submission, in sending order
    worker,    \* worker[w]: the handler running in w
    gate,      \* gate[g]: the request running in g
    faults     \* faults so far

rows == <<sub, item>>
objects == <<incoming, stored, artifacts, answer>>
queues == <<files, analyses>>
vars == <<sub, item, incoming, stored, artifacts, answer, files, analyses,
          worker, gate, faults>>

-----------------------------------------------------------------------------
(* The rows.  "absent" is the status of a row that is not inserted yet.     *)

ItemStatus == {"absent", "UPLOADING", "QUEUED", "VALIDATING", "EXTRACTING", "OCR",
               "CHUNKING", "READY", "FAILED"}
SubStatus == {"absent", "UPLOADING", "PROCESSING", "ANALYZING", "RESPONDED",
              "RESPONDED_WITH_WARNINGS", "FAILED"}
Path == {"none", "incoming", "canonical"}

(* last_error_code: one of DETERMINISTIC_CODES, RETRY_EXHAUSTED, or any     *)
(* other code.                                                              *)
Code == {"none", "deterministic", "exhausted", "transient"}

(* pgmq: "claimed" until the visibility timeout makes it visible again.     *)
Message == {"visible", "claimed", "deleted"}

Pc == {"idle",
       "load", "exhaust", "count", "validate", "read", "probe", "copy", "remove",
       "verify", "extract", "ocr", "persist", "ready", "catch",
       "list", "decide", "send", "mark", "ack",
       "aload", "aitems", "aexhaust", "acount", "respond", "record", "acatch", "aack"}

(* A handler: where it is, the message it holds, and what it remembers of   *)
(* the rows it read.  guarded: the current call is inside the try block.    *)
Handler == [pc       : Pc,
            item     : Item \cup {NoItem},
            msg      : Nat,
            status   : ItemStatus,
            path     : Path,
            attempt  : Nat,
            code     : Code,
            guarded  : BOOLEAN,
            terminal : BOOLEAN,
            failed   : SUBSET Item]

Idle == [pc |-> "idle", item |-> NoItem, msg |-> 0, status |-> "absent",
         path |-> "none", attempt |-> 0, code |-> "none", guarded |-> FALSE,
         terminal |-> FALSE, failed |-> {}]

Request == [pc : {"idle", "items", "slots", "paths", "requeue", "enqueue"},
            item : Item \cup {NoItem},
            from : ItemStatus,
            todo : SUBSET Item]

NoRequest == [pc |-> "idle", item |-> NoItem, from |-> "absent", todo |-> {}]

TypeOK ==
    /\ sub \in [status : SubStatus, attempts : Nat, response : BOOLEAN]
    /\ item \in [Item -> [status : ItemStatus, path : Path, attempts : Nat, code : Code]]
    /\ incoming \subseteq Item
    /\ stored \subseteq Hash
    /\ artifacts \subseteq Hash
    /\ answer \in [made : BOOLEAN, failed : SUBSET Item]
    /\ files \in [Item -> Seq(Message)]
    /\ analyses \in Seq(Message)
    /\ worker \in [Worker -> Handler]
    /\ gate \in [Gate -> Request]
    /\ faults \in Nat

Init ==
    /\ sub = [status |-> "absent", attempts |-> 0, response |-> FALSE]
    /\ item = [i \in Item |-> [status |-> "absent", path |-> "none", attempts |-> 0,
                               code |-> "none"]]
    /\ incoming = {} /\ stored = {} /\ artifacts = {}
    /\ answer = [made |-> FALSE, failed |-> {}]
    /\ files = [i \in Item |-> <<>>]
    /\ analyses = <<>>
    /\ worker = [w \in Worker |-> Idle]
    /\ gate = [g \in Gate |-> NoRequest]
    /\ faults = 0

-----------------------------------------------------------------------------
Terminal(i) == item[i].status \in {"READY", "FAILED"}

Inserted == {i \in Item : item[i].status # "absent"}

AllTerminal == Inserted # {} /\ \A i \in Inserted : Terminal(i)

Blob(i) == Content[i] \in stored

Readable(i, path) ==
    \/ path = "incoming" /\ i \in incoming
    \/ path = "canonical" /\ Blob(i)

(* isRetryableFileError on the codes an item row can hold.                  *)
Retryable(code) == code = "transient"

Faulty(kind) == kind \in Fault /\ faults < MaxFaults /\ faults' = faults + 1

-----------------------------------------------------------------------------
(* The upload gateway.                                                      *)

(* create_submission: an existing submission of the same client request is  *)
(* resumed, and only a new one gets its item rows.                          *)
Create(g) ==
    /\ gate[g].pc = "idle"
    /\ \/ /\ sub.status = "absent"
          /\ sub' = [sub EXCEPT !.status = "UPLOADING"]
          /\ gate' = [gate EXCEPT ![g].pc = "items"]
       \/ /\ sub.status # "absent"
          /\ gate' = [gate EXCEPT ![g].pc = "slots"]
          /\ UNCHANGED sub
    /\ UNCHANGED <<item, objects, queues, worker, faults>>

InsertItems(g) ==
    /\ gate[g].pc = "items"
    /\ item' = [i \in Item |-> [item[i] EXCEPT !.status = "UPLOADING"]]
    /\ gate' = [gate EXCEPT ![g].pc = "slots"]
    /\ UNCHANGED <<sub, objects, queues, worker, faults>>

ReadSlots(g) ==
    /\ gate[g].pc = "slots"
    /\ LET pathless == {i \in Inserted : item[i].path = "none"}
       IN  gate' = [gate EXCEPT ![g] =
                       IF pathless = {} THEN NoRequest
                       ELSE [NoRequest EXCEPT !.pc = "paths", !.todo = pathless]]
    /\ UNCHANGED <<rows, objects, queues, worker, faults>>

AssignPath(g) ==
    /\ gate[g].pc = "paths"
    /\ \E i \in gate[g].todo :
          /\ item' = [item EXCEPT ![i].path = "incoming"]
          /\ gate' = [gate EXCEPT ![g] =
                         IF gate[g].todo = {i} THEN NoRequest
                         ELSE [gate[g] EXCEPT !.todo = @ \ {i}]]
    /\ UNCHANGED <<sub, objects, queues, worker, faults>>

(* The browser sends the bytes to the signed path, then asks to finalize.   *)
Upload(i) ==
    /\ item[i].status = "UPLOADING" /\ item[i].path = "incoming"
    /\ i \notin incoming
    /\ incoming' = incoming \cup {i}
    /\ UNCHANGED <<rows, stored, artifacts, answer, queues, worker, gate, faults>>

(* finalize_item asks for an uploaded object, retry_item for a failure that *)
(* can be retried.  (No code the worker leaves on a FAILED row is one.)     *)
MayRequeue(i) ==
    \/ item[i].status = "UPLOADING" /\ item[i].path = "incoming" /\ i \in incoming
    \/ item[i].status = "FAILED" /\ Retryable(item[i].code)

(* finalize_item and retry_item up to the checks on what they read.         *)
StartRequeue(g, i) ==
    /\ gate[g].pc = "idle"
    /\ MayRequeue(i)
    /\ gate' = [gate EXCEPT ![g] = [NoRequest EXCEPT !.pc = "requeue", !.item = i,
                                                     !.from = item[i].status]]
    /\ UNCHANGED <<rows, objects, queues, worker, faults>>

(* The update is conditional on the status that was read; whether it        *)
(* matched a row is not looked at.                                          *)
Requeue(g) ==
    /\ gate[g].pc = "requeue"
    /\ LET i == gate[g].item
           row == item[i]
       IN  item' = [item EXCEPT ![i] =
                       IF row.status # gate[g].from THEN row
                       ELSE [row EXCEPT !.status = "QUEUED",
                                        !.code = IF row.status = "FAILED" THEN "none" ELSE @]]
    /\ gate' = [gate EXCEPT ![g].pc = "enqueue"]
    /\ UNCHANGED <<sub, objects, queues, worker, faults>>

Enqueue(g) ==
    /\ gate[g].pc = "enqueue"
    /\ LET i == gate[g].item
       IN  /\ Len(files[i]) < MaxSends
           /\ files' = [files EXCEPT ![i] = Append(@, "visible")]
    /\ gate' = [gate EXCEPT ![g] = NoRequest]
    /\ UNCHANGED <<rows, objects, analyses, worker, faults>>

(* A call of the request fails or the isolate dies; finalize swallows a     *)
(* failing enqueue.                                                         *)
Abandon(g) ==
    /\ gate[g].pc # "idle"
    /\ Faulty("gate")
    /\ gate' = [gate EXCEPT ![g] = NoRequest]
    /\ UNCHANGED <<rows, objects, queues, worker>>

Gateway(g) ==
    \/ Create(g) \/ InsertItems(g) \/ ReadSlots(g) \/ AssignPath(g)
    \/ \E i \in Item : StartRequeue(g, i)
    \/ Requeue(g) \/ Enqueue(g)

-----------------------------------------------------------------------------
(* The queues.  A claim hides a message for the visibility timeout; a       *)
(* handler that ends without an acknowledgement leaves it to lapse.         *)

ClaimItem(w, i, m) ==
    /\ worker[w].pc = "idle"
    /\ m \in DOMAIN files[i] /\ files[i][m] = "visible"
    /\ files' = [files EXCEPT ![i][m] = "claimed"]
    /\ worker' = [worker EXCEPT ![w] = [Idle EXCEPT !.pc = "load", !.item = i, !.msg = m]]
    /\ UNCHANGED <<rows, objects, analyses, gate, faults>>

ClaimAnalysis(w, m) ==
    /\ worker[w].pc = "idle"
    /\ m \in DOMAIN analyses /\ analyses[m] = "visible"
    /\ analyses' = [analyses EXCEPT ![m] = "claimed"]
    /\ worker' = [worker EXCEPT ![w] = [Idle EXCEPT !.pc = "aload", !.msg = m]]
    /\ UNCHANGED <<rows, objects, files, gate, faults>>

Held(i, m) == \E w \in Worker : worker[w].pc # "idle" /\ worker[w].item = i /\ worker[w].msg = m

MayLapse(i, m) == IF Held(i, m) THEN Faulty("overrun") ELSE UNCHANGED faults

LapseItem(i, m) ==
    /\ m \in DOMAIN files[i] /\ files[i][m] = "claimed"
    /\ MayLapse(i, m)
    /\ files' = [files EXCEPT ![i][m] = "visible"]
    /\ UNCHANGED <<rows, objects, analyses, worker, gate>>

LapseAnalysis(m) ==
    /\ m \in DOMAIN analyses /\ analyses[m] = "claimed"
    /\ MayLapse(NoItem, m)
    /\ analyses' = [analyses EXCEPT ![m] = "visible"]
    /\ UNCHANGED <<rows, objects, files, worker, gate>>

-----------------------------------------------------------------------------
(* The worker.  Inside the try block a failing call raises to the catch     *)
(* block; outside it ends the handler (Stop).                               *)

Goto(w, pc) == worker' = [worker EXCEPT ![w].pc = pc]

Raise(w, code) ==
    worker' = [worker EXCEPT ![w].pc = IF worker[w].item = NoItem THEN "acatch" ELSE "catch",
                             ![w].code = code, ![w].guarded = FALSE]

(* The call took effect; a guarded one may still lose its answer.           *)
Then(w, handler) ==
    \/ worker' = [worker EXCEPT ![w] = handler] /\ UNCHANGED faults
    \/ worker[w].guarded /\ Faulty("call") /\ Raise(w, "transient")

(* An update whose result nobody looks at.                                  *)
UpdateItem(i, row) ==
    \/ item' = [item EXCEPT ![i] = row] /\ UNCHANGED faults
    \/ Faulty("silent") /\ UNCHANGED item

UpdateSub(row) ==
    \/ sub' = row /\ UNCHANGED faults
    \/ Faulty("silent") /\ UNCHANGED sub

(* The branch of processItem a status selects.                              *)
Stage(status) ==
    CASE status \in {"UPLOADING", "QUEUED", "VALIDATING"} -> "validate"
      [] status = "EXTRACTING" -> "extract"
      [] status = "OCR" -> "ocr"
      [] status = "CHUNKING" -> "persist"
      [] OTHER -> "idle"

(* Mutant: the attempts are checked before the idempotent returns.         *)
LoadCountsFirst(w) ==
    /\ worker[w].pc = "load"
    /\ LET row == item[worker[w].item]
           attempt == row.attempts + 1
           settled == \/ row.status = "READY"
                      \/ row.status = "FAILED" /\ row.code = "deterministic"
       IN  worker' = [worker EXCEPT
               ![w].pc = IF attempt > MaxAttempts THEN "exhaust"
                         ELSE IF settled THEN "list" ELSE "count",
               ![w].status = row.status, ![w].path = row.path, ![w].attempt = attempt]
    /\ UNCHANGED <<rows, objects, queues, gate, faults>>

Load(w) ==
    /\ worker[w].pc = "load"
    /\ LET row == item[worker[w].item]
           attempt == row.attempts + 1
           settled == \/ row.status = "READY"
                      \/ row.status = "FAILED" /\ row.code = "deterministic"
       IN  worker' = [worker EXCEPT
               ![w].pc = IF settled THEN "list"
                         ELSE IF attempt > MaxAttempts THEN "exhaust" ELSE "count",
               ![w].status = row.status, ![w].path = row.path, ![w].attempt = attempt]
    /\ UNCHANGED <<rows, objects, queues, gate, faults>>

(* Mutant: the error code is written to the status column.                 *)
ExhaustMixesColumns(w) ==
    /\ worker[w].pc = "exhaust"
    /\ UpdateItem(worker[w].item, [item[worker[w].item] EXCEPT
           !.status = "exhausted", !.attempts = worker[w].attempt, !.code = "exhausted"])
    /\ Goto(w, "list")
    /\ UNCHANGED <<sub, objects, queues, gate>>

Exhaust(w) ==
    /\ worker[w].pc = "exhaust"
    /\ UpdateItem(worker[w].item, [item[worker[w].item] EXCEPT
           !.status = "FAILED", !.attempts = worker[w].attempt, !.code = "exhausted"])
    /\ Goto(w, "list")
    /\ UNCHANGED <<sub, objects, queues, gate>>

Count(w) ==
    /\ worker[w].pc = "count"
    /\ UpdateItem(worker[w].item,
                  [item[worker[w].item] EXCEPT !.attempts = worker[w].attempt])
    /\ LET stage == Stage(worker[w].status)
       IN  worker' = [worker EXCEPT ![w] =
               IF stage = "idle" THEN Idle ELSE [@ EXCEPT !.pc = stage, !.guarded = TRUE]]
    /\ UNCHANGED <<sub, objects, queues, gate>>

Validate(w) ==
    /\ worker[w].pc = "validate"
    /\ UpdateItem(worker[w].item, [item[worker[w].item] EXCEPT !.status = "VALIDATING"])
    /\ Goto(w, "read")
    /\ UNCHANGED <<sub, objects, queues, gate>>

(* readObject and detectType.                                               *)
Read(w) ==
    /\ worker[w].pc = "read"
    /\ LET i == worker[w].item
       IN  \/ ~Readable(i, worker[w].path) /\ Raise(w, "transient")
           \/ Readable(i, worker[w].path) /\ Refusal[i] = "read" /\ Raise(w, "deterministic")
           \/ Readable(i, worker[w].path) /\ Refusal[i] # "read" /\ Goto(w, "probe")
    /\ UNCHANGED <<rows, objects, queues, gate, faults>>

(* canonicalize: copy unless the blob exists, then remove the upload.       *)
Uploaded(w) == IF worker[w].path = "canonical" THEN "verify" ELSE "remove"

Probe(w) ==
    /\ worker[w].pc = "probe"
    /\ Goto(w, IF Blob(worker[w].item) THEN Uploaded(w) ELSE "copy")
    /\ UNCHANGED <<rows, objects, queues, gate, faults>>

(* Mutant: the error of the copy is not looked at.                         *)
CopyUnchecked(w) ==
    /\ worker[w].pc = "copy"
    /\ \/ stored' = stored \cup {Content[worker[w].item]} /\ UNCHANGED faults
       \/ Faulty("call") /\ UNCHANGED stored
    /\ Goto(w, Uploaded(w))
    /\ UNCHANGED <<rows, incoming, artifacts, answer, queues, gate>>

(* A copy that fails is forgiven when the blob exists by then.              *)
Copy(w) ==
    /\ worker[w].pc = "copy"
    /\ LET i == worker[w].item
       IN  \/ /\ Readable(i, worker[w].path)
              /\ stored' = stored \cup {Content[i]}
              /\ Then(w, [worker[w] EXCEPT !.pc = Uploaded(w)])
           \/ /\ ~Readable(i, worker[w].path)
              /\ IF Blob(i) THEN Goto(w, Uploaded(w)) ELSE Raise(w, "transient")
              /\ UNCHANGED <<stored, faults>>
    /\ UNCHANGED <<rows, incoming, artifacts, answer, queues, gate>>

Remove(w) ==
    /\ worker[w].pc = "remove"
    /\ incoming' = incoming \ {worker[w].item}
    /\ Then(w, [worker[w] EXCEPT !.pc = "verify"])
    /\ UNCHANGED <<rows, stored, artifacts, answer, queues, gate>>

Verify(w) ==
    /\ worker[w].pc = "verify"
    /\ item' = [item EXCEPT ![worker[w].item].status = "EXTRACTING",
                            ![worker[w].item].path = "canonical",
                            ![worker[w].item].code = "none"]
    /\ Then(w, [worker[w] EXCEPT !.pc = "extract", !.path = "canonical"])
    /\ UNCHANGED <<sub, objects, queues, gate>>

Extract(w) ==
    /\ worker[w].pc = "extract"
    /\ LET i == worker[w].item
           legible == Readable(i, worker[w].path) /\ Refusal[i] # "extract"
       IN  \/ /\ ~legible
              /\ Raise(w, IF Readable(i, worker[w].path) THEN "deterministic" ELSE "transient")
              /\ UNCHANGED <<item, faults>>
           \/ /\ legible
              /\ item' = [item EXCEPT ![i].status = IF i \in Scanned THEN "OCR" ELSE "CHUNKING"]
              /\ Then(w, [worker[w] EXCEPT !.pc = IF i \in Scanned THEN "ocr" ELSE "persist"])
    /\ UNCHANGED <<sub, objects, queues, gate>>

(* No provider route is a deterministic failure; a failing provider is not. *)
Ocr(w) ==
    /\ worker[w].pc = "ocr"
    /\ LET i == worker[w].item
           routed == Refusal[i] # "ocr"
       IN  \/ /\ ~routed \/ ~Readable(i, worker[w].path)
              /\ Raise(w, IF routed THEN "transient" ELSE "deterministic")
              /\ UNCHANGED <<item, faults>>
           \/ /\ routed /\ Readable(i, worker[w].path)
              /\ item' = [item EXCEPT ![i].status = "CHUNKING", ![i].code = "none"]
              /\ Then(w, [worker[w] EXCEPT !.pc = "persist"])
    /\ UNCHANGED <<sub, objects, queues, gate>>

(* Mutant: the error of the artifact upsert is not looked at.              *)
PersistUnchecked(w) ==
    /\ worker[w].pc = "persist"
    /\ \/ artifacts' = artifacts \cup {Content[worker[w].item]} /\ UNCHANGED faults
       \/ Faulty("call") /\ UNCHANGED artifacts
    /\ Goto(w, "ready")
    /\ UNCHANGED <<rows, incoming, stored, answer, queues, gate>>

(* persistArtifact: upserts keyed by the digest.                            *)
Persist(w) ==
    /\ worker[w].pc = "persist"
    /\ artifacts' = artifacts \cup {Content[worker[w].item]}
    /\ Then(w, [worker[w] EXCEPT !.pc = "ready"])
    /\ UNCHANGED <<rows, incoming, stored, answer, queues, gate>>

Ready(w) ==
    /\ worker[w].pc = "ready"
    /\ item' = [item EXCEPT ![worker[w].item].status = "READY"]
    /\ Then(w, [worker[w] EXCEPT !.pc = "list"])
    /\ UNCHANGED <<sub, objects, queues, gate>>

(* Mutant: every handled failure acknowledges its message.                 *)
CatchAcknowledges(w) ==
    /\ worker[w].pc = "catch"
    /\ LET h == worker[w]
           terminal == h.code = "deterministic" \/ h.attempt >= MaxAttempts
       IN  /\ UpdateItem(h.item, [item[h.item] EXCEPT
                  !.status = IF terminal THEN "FAILED" ELSE "QUEUED",
                  !.code = IF terminal /\ h.code # "deterministic" THEN "exhausted" ELSE h.code])
           /\ Goto(w, IF terminal THEN "list" ELSE "ack")
    /\ UNCHANGED <<sub, objects, queues, gate>>

(* The catch block of processItem.                                          *)
Catch(w) ==
    /\ worker[w].pc = "catch"
    /\ LET h == worker[w]
           spent == h.attempt >= MaxAttempts
           terminal == h.code = "deterministic" \/ spent
       IN  /\ UpdateItem(h.item, [item[h.item] EXCEPT
                  !.status = IF terminal THEN "FAILED" ELSE "QUEUED",
                  !.code = IF spent /\ h.code # "deterministic" THEN "exhausted" ELSE h.code])
           /\ worker' = [worker EXCEPT ![w] = IF terminal THEN [h EXCEPT !.pc = "list"] ELSE Idle]
    /\ UNCHANGED <<sub, objects, queues, gate>>

(* updateSubmissionState: two reads, then at most a send and an update, the *)
(* update unconditional.                                                    *)
List(w) ==
    /\ worker[w].pc = "list"
    /\ worker' = [worker EXCEPT ![w].pc = "decide", ![w].terminal = AllTerminal]
    /\ UNCHANGED <<rows, objects, queues, gate, faults>>

(* Mutant: the submission is marked before the analysis message is sent.   *)
DecideMarks(w) ==
    /\ worker[w].pc = "decide"
    /\ LET due == worker[w].terminal /\ sub.status # "ANALYZING"
       IN  /\ sub' = IF ~sub.response /\ due THEN [sub EXCEPT !.status = "ANALYZING"] ELSE sub
           /\ worker' = [worker EXCEPT ![w] =
                  IF sub.response THEN [@ EXCEPT !.pc = "ack", !.guarded = FALSE]
                  ELSE [@ EXCEPT !.pc = IF due THEN "send" ELSE "mark"]]
    /\ UNCHANGED <<item, objects, queues, gate, faults>>

Decide(w) ==
    /\ worker[w].pc = "decide"
    /\ LET due == worker[w].terminal /\ sub.status # "ANALYZING"
       IN  worker' = [worker EXCEPT ![w] =
               IF sub.response THEN [@ EXCEPT !.pc = "ack", !.guarded = FALSE]
               ELSE [@ EXCEPT !.pc = IF due THEN "send" ELSE "mark"]]
    /\ UNCHANGED <<rows, objects, queues, gate, faults>>

Send(w) ==
    /\ worker[w].pc = "send"
    /\ Len(analyses) < MaxSends
    /\ analyses' = Append(analyses, "visible")
    /\ Then(w, [worker[w] EXCEPT !.pc = "mark"])
    /\ UNCHANGED <<rows, objects, files, gate>>

Mark(w) ==
    /\ worker[w].pc = "mark"
    /\ sub' = [sub EXCEPT !.status = IF worker[w].terminal THEN "ANALYZING" ELSE "PROCESSING"]
    /\ Then(w, [worker[w] EXCEPT !.pc = "ack", !.guarded = FALSE])
    /\ UNCHANGED <<item, objects, queues, gate>>

Ack(w) ==
    /\ worker[w].pc = "ack"
    /\ files' = [files EXCEPT ![worker[w].item][worker[w].msg] = "deleted"]
    /\ worker' = [worker EXCEPT ![w] = Idle]
    /\ UNCHANGED <<rows, objects, analyses, gate, faults>>

-----------------------------------------------------------------------------
(* processFileSubmissionAnalysis.  What it loads and what the provider      *)
(* makes of it is left out; the answer keeps which files it calls failed.   *)

LoadSubmission(w) ==
    /\ worker[w].pc = "aload"
    /\ worker' = [worker EXCEPT ![w].pc = IF sub.response THEN "aack" ELSE "aitems",
                                ![w].attempt = sub.attempts + 1]
    /\ UNCHANGED <<rows, objects, queues, gate, faults>>

LoadItems(w) ==
    /\ worker[w].pc = "aitems"
    /\ LET spent == worker[w].attempt > MaxAnalysisAttempts
       IN  worker' = [worker EXCEPT ![w] =
               IF ~AllTerminal THEN Idle
               ELSE [@ EXCEPT !.pc = IF spent THEN "aexhaust" ELSE "acount",
                              !.failed = {i \in Item : item[i].status = "FAILED"}]]
    /\ UNCHANGED <<rows, objects, queues, gate, faults>>

ExhaustAnalysis(w) ==
    /\ worker[w].pc = "aexhaust"
    /\ UpdateSub([sub EXCEPT !.status = "FAILED", !.attempts = worker[w].attempt])
    /\ Goto(w, "aack")
    /\ UNCHANGED <<item, objects, queues, gate>>

CountAnalysis(w) ==
    /\ worker[w].pc = "acount"
    /\ UpdateSub([sub EXCEPT !.status = "ANALYZING", !.attempts = worker[w].attempt])
    /\ worker' = [worker EXCEPT ![w].pc = "respond", ![w].guarded = TRUE]
    /\ UNCHANGED <<item, objects, queues, gate>>

(* ensureEvent: one response event per trace, the first insert wins.        *)
Respond(w) ==
    /\ worker[w].pc = "respond"
    /\ answer' = IF answer.made THEN answer
                 ELSE [made |-> TRUE, failed |-> worker[w].failed]
    /\ Then(w, [worker[w] EXCEPT !.pc = "record"])
    /\ UNCHANGED <<rows, incoming, stored, artifacts, queues, gate>>

Record(w) ==
    /\ worker[w].pc = "record"
    /\ sub' = [sub EXCEPT !.response = TRUE,
                          !.status = IF worker[w].failed = {} THEN "RESPONDED"
                                     ELSE "RESPONDED_WITH_WARNINGS"]
    /\ Then(w, [worker[w] EXCEPT !.pc = "aack", !.guarded = FALSE])
    /\ UNCHANGED <<item, objects, queues, gate>>

CatchAnalysis(w) ==
    /\ worker[w].pc = "acatch"
    /\ LET spent == worker[w].attempt >= MaxAnalysisAttempts
       IN  /\ UpdateSub([sub EXCEPT !.status = IF spent THEN "FAILED" ELSE "ANALYZING"])
           /\ worker' = [worker EXCEPT ![w] = IF spent THEN [@ EXCEPT !.pc = "aack"] ELSE Idle]
    /\ UNCHANGED <<item, objects, queues, gate>>

AckAnalysis(w) ==
    /\ worker[w].pc = "aack"
    /\ analyses' = [analyses EXCEPT ![worker[w].msg] = "deleted"]
    /\ worker' = [worker EXCEPT ![w] = Idle]
    /\ UNCHANGED <<rows, objects, files, gate, faults>>

-----------------------------------------------------------------------------
(* A guarded call fails without effect.                                     *)
CallFails(w) ==
    /\ worker[w].guarded
    /\ worker[w].pc # "validate"
    /\ Faulty("call")
    /\ Raise(w, "transient")
    /\ UNCHANGED <<rows, objects, queues, gate>>

(* The isolate dies, or a call outside the try block raises.                *)
Stop(w) ==
    /\ worker[w].pc # "idle"
    /\ Faulty("crash")
    /\ worker' = [worker EXCEPT ![w] = Idle]
    /\ UNCHANGED <<rows, objects, queues, gate>>

ProcessItem(w) ==
    \/ Load(w) \/ Exhaust(w) \/ Count(w) \/ Validate(w) \/ Read(w)
    \/ Probe(w) \/ Copy(w) \/ Remove(w) \/ Verify(w) \/ Extract(w) \/ Ocr(w)
    \/ Persist(w) \/ Ready(w) \/ Catch(w)
    \/ List(w) \/ Decide(w) \/ Send(w) \/ Mark(w) \/ Ack(w)

Analyse(w) ==
    \/ LoadSubmission(w) \/ LoadItems(w) \/ ExhaustAnalysis(w) \/ CountAnalysis(w)
    \/ Respond(w) \/ Record(w) \/ CatchAnalysis(w) \/ AckAnalysis(w)

Claim(w) ==
    \/ \E i \in Item, m \in 1..MaxSends : ClaimItem(w, i, m)
    \/ \E m \in 1..MaxSends : ClaimAnalysis(w, m)

Lapse ==
    \/ \E i \in Item, m \in 1..MaxSends : LapseItem(i, m)
    \/ \E m \in 1..MaxSends : LapseAnalysis(m)

Next ==
    \/ \E g \in Gate : Gateway(g) \/ Abandon(g)
    \/ \E i \in Item : Upload(i)
    \/ \E w \in Worker : Claim(w) \/ ProcessItem(w) \/ Analyse(w) \/ CallFails(w) \/ Stop(w)
    \/ Lapse

Spec == Init /\ [][Next]_vars

-----------------------------------------------------------------------------
(* Once an item was finalized, its bytes exist: at the upload path or as    *)
(* the canonical blob; and a row that points to the canonical blob points   *)
(* to one that exists.  Several workers copy and remove the same object,    *)
(* and items with equal contents share one blob.                            *)
ContentSurvives ==
    \A i \in Item :
        /\ item[i].status \notin {"absent", "UPLOADING"} => i \in incoming \/ Blob(i)
        /\ item[i].path = "canonical" => Blob(i)

(* An item shown READY has its evidence artifact and its blob, whatever     *)
(* order overlapping handlers of the item wrote its checkpoints in.         *)
ReadyIsBacked ==
    \A i \in Item :
        item[i].status = "READY" => Blob(i) /\ Content[i] \in artifacts

Live(messages) == \E m \in DOMAIN messages : messages[m] # "deleted"

(* A queued item that is not settled still has a message: the worker        *)
(* acknowledges only after a durable result.                                *)
AcknowledgedIsTerminal ==
    \A i \in Item :
        (files[i] # <<>> /\ ~Live(files[i])) => Terminal(i)

(* The submission is answered, or its analysis has no attempt left.         *)
Ended == sub.response \/ sub.attempts >= MaxAnalysisAttempts

(* No lost wake-up: once all items are settled, the submission is answered, *)
(* or has used up its attempts, or a message remains whose handler will     *)
(* see to it.  Workers aggregate the items from reads that are stale when   *)
(* they act on them.                                                        *)
AnalysisIsDue ==
    AllTerminal =>
        \/ Ended
        \/ Live(analyses)
        \/ \E i \in Item : Live(files[i])

(* The answer tells the truth about the files: when it exists, every item   *)
(* is settled, and exactly those it calls failed have failed.               *)
AnswerMatchesItems ==
    answer.made => AllTerminal /\ answer.failed = {i \in Item : item[i].status = "FAILED"}

(* reduceSubmissionStatus, for a submission with a recorded response.       *)
ReducedStatus ==
    IF \E i \in Item : item[i].status = "FAILED" THEN "RESPONDED_WITH_WARNINGS" ELSE "RESPONDED"

(* While nobody works on it, an answered submission shows the status its    *)
(* items reduce to.                                                         *)
AnsweredShowsOutcome ==
    (sub.response /\ \A w \in Worker : worker[w].pc = "idle") => sub.status = ReducedStatus

(* An upload whose verified blob exists is reused: between attempts the     *)
(* row of an unsettled item names an object that can be read.               *)
RetryFindsObject ==
    \A i \in Item :
        (item[i].status \in {"QUEUED", "VALIDATING"} /\ ~\E w \in Worker : worker[w].item = i)
            => Readable(i, item[i].path)

=============================================================================
