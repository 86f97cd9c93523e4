------------------------- MODULE FileIngestionProofs -------------------------
(***************************************************************************)
(* Proofs about file ingestion for any number of files and workers, any    *)
(* contents and any bounds.  For all kinds of fault at once: types,        *)
(* uploaded bytes survive, and READY items are backed by their evidence.   *)
(* For handlers that do not outlive their claims, each with the kinds of   *)
(* fault it names: a message is acknowledged after a durable result, no    *)
(* analysis is forgotten, and the answer stays true.  Last, the drains of  *)
(* FileDrains: they run these handlers, and a message is in one batch.     *)
(***************************************************************************)
EXTENDS FileDrains, TLAPS

-----------------------------------------------------------------------------
(* The inductive invariant *)

(* The bytes of item i exist somewhere. *)
Present(i) == i \in incoming \/ Blob(i)

(* Where a handler of the ingestion queue is, and where it is past the copy. *)
ItemPc == {"load", "exhaust", "count", "validate", "read", "probe", "copy", "remove",
           "verify", "extract", "ocr", "persist", "ready", "catch",
           "list", "decide", "send", "mark", "ack"}
CopiedPc == {"remove", "verify", "extract", "ocr", "persist", "ready"}
CopiedStatus == {"EXTRACTING", "OCR", "CHUNKING", "READY"}

(* What a handler remembers stays true, because blobs and artifacts are     *)
(* never removed, and uploads only once their blob exists.                  *)
HandlerBacked(h) ==
    /\ h.pc \notin ItemPc => h.item = NoItem
    /\ h.pc \in ItemPc => h.item \in Item /\ Present(h.item)
    /\ h.pc \in ItemPc /\ h.path = "canonical" => Blob(h.item)
    /\ h.pc \in CopiedPc => Blob(h.item)
    /\ h.pc = "count" /\ h.status \in CopiedStatus => Blob(h.item)
    /\ h.pc = "ready" => Content[h.item] \in artifacts

RequestBacked(r) ==
    r.pc \in {"requeue", "enqueue"} => r.item \in Item /\ Present(r.item)

RowBacked(i) ==
    /\ item[i].status \notin {"absent", "UPLOADING"} => Present(i)
    /\ item[i].path = "canonical" => Blob(i)
    /\ item[i].status \in CopiedStatus => Blob(i)
    /\ item[i].status = "READY" => Content[i] \in artifacts

Backed ==
    /\ \A w \in Worker : HandlerBacked(worker[w])
    /\ \A g \in Gate : RequestBacked(gate[g])
    /\ \A i \in Item : files[i] # <<>> => Present(i)
    /\ \A i \in Item : RowBacked(i)

IInv == TypeOK /\ Backed

Row == [status : ItemStatus, path : Path, attempts : Nat, code : Code]

-----------------------------------------------------------------------------
(* Each step keeps the invariant because each of its parts does. *)

ObjectStep ==
    /\ incoming' \subseteq Item /\ stored' \subseteq Hash /\ artifacts' \subseteq Hash
    /\ answer' \in [made : BOOLEAN, failed : SUBSET Item]
    /\ stored \subseteq stored' /\ artifacts \subseteq artifacts'
    /\ \A i \in Item : Present(i) => Present(i)'

SubStep == sub' \in [status : SubStatus, attempts : Nat, response : BOOLEAN]

RowStep ==
    /\ item' \in [Item -> Row]
    /\ \A i \in Item : item'[i] = item[i] \/ RowBacked(i)'

QueueStep ==
    /\ files' \in [Item -> Seq(Message)] /\ analyses' \in Seq(Message)
    /\ \A i \in Item : files'[i] # <<>> => files[i] # <<>> \/ Present(i)'

HandlerStep ==
    /\ worker' \in [Worker -> Handler]
    /\ \A w \in Worker : worker'[w] = worker[w] \/ HandlerBacked(worker[w])'

RequestStep ==
    /\ gate' \in [Gate -> Request]
    /\ \A g \in Gate : gate'[g] = gate[g] \/ RequestBacked(gate[g])'

LEMMA StepKeeps ==
    ASSUME IInv, ObjectStep, SubStep, RowStep, QueueStep, HandlerStep, RequestStep,
           faults' \in Nat
    PROVE  IInv'
<1>1. TypeOK'
  BY DEF ObjectStep, SubStep, RowStep, QueueStep, HandlerStep, RequestStep, TypeOK, Row
<1>2. ASSUME NEW i \in Item PROVE Blob(i) => Blob(i)'
  BY DEF ObjectStep, Blob
<1>3. ASSUME NEW w \in Worker PROVE HandlerBacked(worker[w])'
  <2>1. CASE worker'[w] = worker[w]
    BY <1>2, <2>1 DEF IInv, Backed, HandlerBacked, ObjectStep, CopiedPc, ItemPc
  <2> QED
    BY <2>1 DEF HandlerStep
<1>4. ASSUME NEW g \in Gate PROVE RequestBacked(gate[g])'
  BY DEF IInv, Backed, RequestStep, RequestBacked, ObjectStep
<1>5. ASSUME NEW i \in Item PROVE (files[i] # <<>> => Present(i))'
  BY DEF IInv, Backed, QueueStep, ObjectStep
<1>6. ASSUME NEW i \in Item PROVE RowBacked(i)'
  BY <1>2 DEF IInv, Backed, RowStep, RowBacked, ObjectStep
<1> QED
  BY <1>1, <1>3, <1>4, <1>5, <1>6 DEF IInv, Backed

(* What a step leaves alone. *)
LEMMA SameObjects == ASSUME IInv, UNCHANGED objects PROVE ObjectStep
BY DEF IInv, TypeOK, objects, ObjectStep, Present, Blob

LEMMA SameQueues == ASSUME IInv, UNCHANGED queues PROVE QueueStep
BY DEF IInv, TypeOK, queues, QueueStep

LEMMA SameRows == ASSUME IInv, UNCHANGED item PROVE RowStep
BY DEF IInv, TypeOK, RowStep, Row

LEMMA SameSub == ASSUME IInv, UNCHANGED sub PROVE SubStep
BY DEF IInv, TypeOK, SubStep

LEMMA SameWorker == ASSUME IInv, UNCHANGED worker PROVE HandlerStep
BY DEF IInv, TypeOK, HandlerStep

LEMMA SameGate == ASSUME IInv, UNCHANGED gate PROVE RequestStep
BY DEF IInv, TypeOK, RequestStep

LEMMA FaultyType == ASSUME IInv, NEW kind, Faulty(kind) \/ UNCHANGED faults PROVE faults' \in Nat
BY DEF IInv, TypeOK, Faulty

(* One handler changes. *)
LEMMA Becomes ==
    ASSUME IInv, NEW w \in Worker, NEW h \in Handler, HandlerBacked(h)',
           worker' = [worker EXCEPT ![w] = h]
    PROVE  HandlerStep
<1>1. worker \in [Worker -> Handler]
  BY DEF IInv, TypeOK
<1>2. worker'[w] = h /\ \A v \in Worker \ {w} : worker'[v] = worker[v]
  BY <1>1
<1> QED
  BY <1>1, <1>2 DEF HandlerStep, HandlerBacked, Present, Blob

LEMMA IdleBacked == Idle \in Handler /\ HandlerBacked(Idle) /\ HandlerBacked(Idle)'
BY DEF Idle, Handler, HandlerBacked, Pc, ItemPc, CopiedPc, Path, Code, ItemStatus

LEMMA Rests ==
    ASSUME IInv, NEW w \in Worker, worker' = [worker EXCEPT ![w] = Idle]
    PROVE  HandlerStep
BY IdleBacked, Becomes

(* A handler goes on with the same item and path. *)
LEMMA Carries ==
    ASSUME IInv, ObjectStep, NEW w \in Worker, NEW h \in Handler,
           worker' = [worker EXCEPT ![w] = h],
           h.item = worker[w].item, h.path = worker[w].path,
           h.pc \in ItemPc <=> worker[w].pc \in ItemPc,
           h.pc # "count",
           h.pc \in CopiedPc => Blob(h.item)',
           h.pc = "ready" => (Content[h.item] \in artifacts)'
    PROVE  HandlerStep
<1>1. HandlerBacked(worker[w]) /\ (h.item \in Item => (Blob(h.item) => Blob(h.item)'))
  BY DEF IInv, Backed, ObjectStep, Blob
<1>2. HandlerBacked(h)'
  BY <1>1 DEF HandlerBacked, ObjectStep
<1> QED
  BY <1>2, Becomes

LEMMA Raises ==
    ASSUME IInv, ObjectStep, NEW w \in Worker, NEW code \in Code, Raise(w, code)
    PROVE  HandlerStep
<1> DEFINE pc == IF worker[w].item = NoItem THEN "acatch" ELSE "catch"
           h == [worker[w] EXCEPT !.pc = pc, !.code = code, !.guarded = FALSE]
<1>1. worker \in [Worker -> Handler] /\ worker[w] \in Handler
  BY DEF IInv, TypeOK
<1>2. h \in Handler /\ h.pc = pc /\ h.item = worker[w].item /\ h.path = worker[w].path
  BY <1>1 DEF Handler, Pc
<1>3. worker' = [worker EXCEPT ![w] = h]
  BY <1>1 DEF Raise
<1>4. HandlerBacked(worker[w])
  BY DEF IInv, Backed
<1>5. pc \in ItemPc <=> worker[w].pc \in ItemPc
  BY <1>4, ItemAssumption DEF HandlerBacked, ItemPc
<1>6. pc \notin CopiedPc /\ pc # "count" /\ pc # "ready"
  BY DEF CopiedPc
<1> HIDE DEF h, pc
<1> QED
  BY <1>2, <1>3, <1>5, <1>6, Carries

LEMMA Goes ==
    ASSUME IInv, ObjectStep, NEW w \in Worker, NEW pc \in Pc, Goto(w, pc),
           NEW i, i = worker[w].item,
           pc \in ItemPc <=> worker[w].pc \in ItemPc,
           pc # "count",
           pc \in CopiedPc => Blob(i)',
           pc = "ready" => (Content[i] \in artifacts)'
    PROVE  HandlerStep
<1> DEFINE h == [worker[w] EXCEPT !.pc = pc]
<1>1. worker \in [Worker -> Handler] /\ worker[w] \in Handler
  BY DEF IInv, TypeOK
<1>2. h \in Handler /\ h.pc = pc /\ h.item = i /\ h.path = worker[w].path
  BY <1>1 DEF Handler
<1>3. worker' = [worker EXCEPT ![w] = h]
  BY <1>1 DEF Goto
<1>4. PICK k \in Handler : /\ worker' = [worker EXCEPT ![w] = k]
                           /\ k.pc = pc /\ k.item = i /\ k.path = worker[w].path
  BY <1>2, <1>3
<1>5. (k.pc \in CopiedPc => Blob(k.item)') /\ (k.pc = "ready" => (Content[k.item] \in artifacts)')
  BY <1>4 DEF Blob
<1> QED
  BY <1>4, <1>5, Carries

(* The call took effect, and its answer may be lost. *)
LEMMA Thens ==
    ASSUME IInv, ObjectStep, NEW w \in Worker, NEW h \in Handler, HandlerBacked(h)',
           Then(w, h)
    PROVE  HandlerStep /\ faults' \in Nat
<1>1. CASE worker' = [worker EXCEPT ![w] = h] /\ UNCHANGED faults
  BY <1>1, Becomes, FaultyType
<1>2. CASE worker[w].guarded /\ Faulty("call") /\ Raise(w, "transient")
  BY <1>2, Raises, FaultyType DEF Code
<1> QED
  BY <1>1, <1>2 DEF Then

(* Facts every worker action starts from. *)
LEMMA At ==
    ASSUME IInv, NEW w \in Worker
    PROVE  /\ worker[w] \in Handler
           /\ HandlerBacked(worker[w])
           /\ worker[w].pc \in ItemPc =>
                 /\ worker[w].item \in Item
                 /\ item[worker[w].item] \in Row
                 /\ RowBacked(worker[w].item)
                 /\ Content[worker[w].item] \in Hash
BY ContentAssumption DEF IInv, TypeOK, Backed, HandlerBacked, Row

(* One row changes. *)
LEMMA RowBecomes ==
    ASSUME IInv, ObjectStep, NEW i \in Item, NEW row \in Row,
           item' = [item EXCEPT ![i] = row],
           row.status \notin {"absent", "UPLOADING"} => Present(i)',
           row.path = "canonical" => Blob(i)',
           row.status \in CopiedStatus => Blob(i)',
           row.status = "READY" => (Content[i] \in artifacts)'
    PROVE  RowStep
<1>1. item \in [Item -> Row]
  BY DEF IInv, TypeOK, Row
<1>2. item'[i] = row /\ \A j \in Item \ {i} : item'[j] = item[j]
  BY <1>1
<1> QED
  BY <1>1, <1>2 DEF RowStep, RowBacked, Present, Blob

-----------------------------------------------------------------------------
(* The gateway *)

LEMMA NoRequestBacked ==
    /\ NoRequest \in Request
    /\ \A r \in Request : r.pc \notin {"requeue", "enqueue"} => RequestBacked(r)'
BY DEF NoRequest, Request, RequestBacked, ItemStatus

LEMMA RequestBecomes ==
    ASSUME IInv, NEW g \in Gate, NEW r \in Request, RequestBacked(r)',
           gate' = [gate EXCEPT ![g] = r]
    PROVE  RequestStep
<1>1. gate \in [Gate -> Request]
  BY DEF IInv, TypeOK
<1>2. gate'[g] = r /\ \A o \in Gate \ {g} : gate'[o] = gate[o]
  BY <1>1
<1> QED
  BY <1>1, <1>2 DEF RequestStep, RequestBacked, Present, Blob

LEMMA CreateKeeps == ASSUME IInv, NEW g \in Gate, Create(g) PROVE IInv'
<1>1. ObjectStep /\ RowStep /\ QueueStep /\ HandlerStep /\ faults' \in Nat
  BY SameObjects, SameRows, SameQueues, SameWorker, FaultyType DEF Create
<1>2. SubStep
  BY DEF IInv, TypeOK, Create, SubStep, SubStatus
<1>3. RequestStep
  <2>1. ASSUME NEW pc \in {"items", "slots"}, gate' = [gate EXCEPT ![g].pc = pc]
        PROVE  RequestStep
    <3>1. PICK r \in Request : gate' = [gate EXCEPT ![g] = r] /\ r.pc = pc
      <4>1. gate \in [Gate -> Request] /\ [gate[g] EXCEPT !.pc = pc] \in Request
        BY DEF IInv, TypeOK, Request
      <4>2. gate' = [gate EXCEPT ![g] = [gate[g] EXCEPT !.pc = pc]]
        BY <2>1, <4>1
      <4>3. [gate[g] EXCEPT !.pc = pc].pc = pc
        BY <4>1 DEF Request
      <4> QED
        BY <4>1, <4>2, <4>3
    <3> QED
      BY <3>1, NoRequestBacked, RequestBecomes
  <2> QED
    BY <2>1 DEF Create
<1> QED
  BY <1>1, <1>2, <1>3, StepKeeps

LEMMA InsertItemsKeeps == ASSUME IInv, NEW g \in Gate, InsertItems(g) PROVE IInv'
<1>1. ObjectStep /\ SubStep /\ QueueStep /\ HandlerStep /\ faults' \in Nat
  BY SameObjects, SameSub, SameQueues, SameWorker, FaultyType DEF InsertItems
<1>2. RowStep
  <2>1. item \in [Item -> Row] /\ \A i \in Item : RowBacked(i)
    BY DEF IInv, TypeOK, Row, Backed
  <2>2. \A i \in Item : item'[i] = [item[i] EXCEPT !.status = "UPLOADING"]
    BY DEF InsertItems
  <2>3. item' \in [Item -> Row]
    BY <2>1 DEF InsertItems, Row, ItemStatus
  <2>4. ASSUME NEW i \in Item PROVE RowBacked(i)'
    <3>1. item'[i].status = "UPLOADING" /\ item'[i].path = item[i].path
      BY <2>1, <2>2 DEF Row
    <3> QED
      BY <2>1, <3>1 DEF RowBacked, CopiedStatus, Blob, InsertItems, objects
  <2> QED
    BY <2>3, <2>4 DEF RowStep
<1>3. RequestStep
  <2>1. PICK r \in Request : gate' = [gate EXCEPT ![g] = r] /\ r.pc = "slots"
    <3>1. gate \in [Gate -> Request] /\ [gate[g] EXCEPT !.pc = "slots"] \in Request
      BY DEF IInv, TypeOK, Request
    <3>2. gate' = [gate EXCEPT ![g] = [gate[g] EXCEPT !.pc = "slots"]]
      BY <3>1 DEF InsertItems
    <3>3. [gate[g] EXCEPT !.pc = "slots"].pc = "slots"
      BY <3>1 DEF Request
    <3> QED
      BY <3>1, <3>2, <3>3
  <2> QED
    BY <2>1, NoRequestBacked, RequestBecomes
<1> QED
  BY <1>1, <1>2, <1>3, StepKeeps

LEMMA ReadSlotsKeeps == ASSUME IInv, NEW g \in Gate, ReadSlots(g) PROVE IInv'
<1>1. ObjectStep /\ SubStep /\ RowStep /\ QueueStep /\ HandlerStep /\ faults' \in Nat
  BY SameObjects, SameSub, SameRows, SameQueues, SameWorker, FaultyType DEF ReadSlots, rows
<1>2. PICK r \in Request : gate' = [gate EXCEPT ![g] = r] /\ r.pc \in {"idle", "paths"}
  <2> DEFINE pathless == {i \in Inserted : item[i].path = "none"}
             r == IF pathless = {} THEN NoRequest
                  ELSE [NoRequest EXCEPT !.pc = "paths", !.todo = pathless]
  <2>1. pathless \in SUBSET Item
    BY DEF Inserted
  <2>2. r \in Request /\ r.pc \in {"idle", "paths"}
    BY <2>1 DEF NoRequest, Request, ItemStatus
  <2> QED
    BY <2>2 DEF ReadSlots
<1>3. RequestStep
  BY <1>2, NoRequestBacked, RequestBecomes
<1> QED
  BY <1>1, <1>3, StepKeeps

LEMMA AssignPathKeeps == ASSUME IInv, NEW g \in Gate, AssignPath(g) PROVE IInv'
<1>1. ObjectStep /\ SubStep /\ QueueStep /\ HandlerStep /\ faults' \in Nat
  BY SameObjects, SameSub, SameQueues, SameWorker, FaultyType DEF AssignPath
<1>2. gate \in [Gate -> Request] /\ item \in [Item -> Row] /\ \A i \in Item : RowBacked(i)
  BY DEF IInv, TypeOK, Row, Backed
<1>3. PICK i \in gate[g].todo :
         /\ item' = [item EXCEPT ![i].path = "incoming"]
         /\ gate' = [gate EXCEPT ![g] = IF gate[g].todo = {i} THEN NoRequest
                                        ELSE [gate[g] EXCEPT !.todo = @ \ {i}]]
  BY DEF AssignPath
<1>4. i \in Item
  BY <1>2 DEF Request
<1>5. RowStep
  <2>1. PICK row \in Row : /\ item' = [item EXCEPT ![i] = row]
                           /\ row.status = item[i].status /\ row.path = "incoming"
    <3>1. [item[i] EXCEPT !.path = "incoming"] \in Row
      BY <1>2, <1>4 DEF Row, Path
    <3>2. item' = [item EXCEPT ![i] = [item[i] EXCEPT !.path = "incoming"]]
      BY <1>2, <1>3, <1>4
    <3> QED
      BY <1>2, <1>4, <3>1, <3>2 DEF Row
  <2>2. UNCHANGED <<incoming, stored, artifacts>> /\ RowBacked(i)
    BY <1>2, <1>4 DEF AssignPath, objects
  <2> QED
    BY <1>1, <1>4, <2>1, <2>2, RowBecomes DEF RowBacked, Present, Blob
<1>6. RequestStep
  <2>1. PICK r \in Request : gate' = [gate EXCEPT ![g] = r] /\ r.pc \in {"idle", "paths"}
    <3>1. [gate[g] EXCEPT !.todo = @ \ {i}] \in Request /\ gate[g].pc = "paths"
      BY <1>2 DEF Request, AssignPath
    <3>2. [gate[g] EXCEPT !.todo = @ \ {i}].pc = "paths" /\ NoRequest.pc = "idle"
      BY <1>2, <3>1 DEF Request, NoRequest
    <3> QED
      BY <1>3, <3>1, <3>2, NoRequestBacked
  <2> QED
    BY <2>1, NoRequestBacked, RequestBecomes
<1> QED
  BY <1>1, <1>5, <1>6, StepKeeps

LEMMA UploadKeeps == ASSUME IInv, NEW i \in Item, Upload(i) PROVE IInv'
<1>1. SubStep /\ RowStep /\ QueueStep /\ HandlerStep /\ RequestStep /\ faults' \in Nat
  BY SameSub, SameRows, SameQueues, SameWorker, SameGate, FaultyType DEF Upload, rows
<1>2. ObjectStep
  BY DEF IInv, TypeOK, Upload, ObjectStep, Present, Blob
<1> QED
  BY <1>1, <1>2, StepKeeps

LEMMA StartRequeueKeeps ==
    ASSUME IInv, NEW g \in Gate, NEW i \in Item, StartRequeue(g, i) PROVE IInv'
<1>1. ObjectStep /\ SubStep /\ RowStep /\ QueueStep /\ HandlerStep /\ faults' \in Nat
  BY SameObjects, SameSub, SameRows, SameQueues, SameWorker, FaultyType DEF StartRequeue, rows
<1>2. item \in [Item -> Row] /\ RowBacked(i)
  BY DEF IInv, TypeOK, Row, Backed
<1>3. Present(i) /\ Present(i)'
  BY <1>1, <1>2 DEF StartRequeue, MayRequeue, RowBacked, Present, ObjectStep
<1>4. PICK r \in Request : gate' = [gate EXCEPT ![g] = r] /\ r.item = i
  <2> DEFINE r == [NoRequest EXCEPT !.pc = "requeue", !.item = i, !.from = item[i].status]
  <2>1. item[i].status \in ItemStatus
    BY <1>2 DEF Row
  <2>2. NoRequest \in Request
    BY NoRequestBacked
  <2>3. r \in Request /\ r.item = i
    BY <2>1, <2>2 DEF Request
  <2>4. gate' = [gate EXCEPT ![g] = r]
    BY DEF StartRequeue
  <2> QED
    BY <2>3, <2>4
<1>5. RequestStep
  BY <1>3, <1>4, RequestBecomes DEF RequestBacked
<1> QED
  BY <1>1, <1>5, StepKeeps

LEMMA RequeueKeeps == ASSUME IInv, NEW g \in Gate, Requeue(g) PROVE IInv'
<1>1. ObjectStep /\ SubStep /\ QueueStep /\ HandlerStep /\ faults' \in Nat
  BY SameObjects, SameSub, SameQueues, SameWorker, FaultyType DEF Requeue
<1>2. gate \in [Gate -> Request] /\ item \in [Item -> Row]
  BY DEF IInv, TypeOK, Row
<1> DEFINE i == gate[g].item
<1>3. i \in Item /\ Present(i) /\ RowBacked(i)
  BY DEF IInv, Backed, RequestBacked, Requeue
<1>4. PICK j \in Item : j = i
  BY <1>3
<1>5. Present(j)' /\ (Blob(j) => Blob(j)') /\ artifacts' = artifacts
  BY <1>1, <1>3, <1>4 DEF ObjectStep, Blob, Requeue, objects
<1>6. RowStep
  <2>1. CASE item[i].status # gate[g].from
    <3>1. item' = item
      BY <1>2, <1>3, <2>1 DEF Requeue
    <3> QED
      BY <3>1, SameRows
  <2>2. CASE item[i].status = gate[g].from
    <3>1. PICK row \in Row : /\ item' = [item EXCEPT ![j] = row]
                             /\ row.status = "QUEUED" /\ row.path = item[j].path
      <4> DEFINE row == [item[j] EXCEPT !.status = "QUEUED",
                                        !.code = IF item[j].status = "FAILED" THEN "none" ELSE @]
      <4>1. item[j] \in Row
        BY <1>2
      <4>2. row \in Row /\ row.status = "QUEUED" /\ row.path = item[j].path
        BY <4>1 DEF Row, ItemStatus, Code
      <4>3. item' = [item EXCEPT ![j] = row]
        BY <1>4, <2>2 DEF Requeue
      <4> HIDE DEF row
      <4> QED
        BY <4>2, <4>3
    <3> QED
      BY <1>1, <1>3, <1>4, <1>5, <3>1, RowBecomes DEF RowBacked, CopiedStatus
  <2> QED
    BY <2>1, <2>2
<1>7. RequestStep
  <2>1. PICK r \in Request : gate' = [gate EXCEPT ![g] = r] /\ r.item = j
    <3>1. [gate[g] EXCEPT !.pc = "enqueue"] \in Request
      BY <1>2 DEF Request
    <3>2. gate' = [gate EXCEPT ![g] = [gate[g] EXCEPT !.pc = "enqueue"]]
      BY <1>2 DEF Requeue
    <3> QED
      BY <1>2, <1>4, <3>1, <3>2 DEF Request
  <2> QED
    BY <1>5, <2>1, RequestBecomes DEF RequestBacked
<1> QED
  BY <1>1, <1>6, <1>7, StepKeeps

LEMMA EnqueueKeeps == ASSUME IInv, NEW g \in Gate, Enqueue(g) PROVE IInv'
<1>1. ObjectStep /\ SubStep /\ RowStep /\ HandlerStep /\ faults' \in Nat
  BY SameObjects, SameSub, SameRows, SameWorker, FaultyType DEF Enqueue, rows
<1>2. RequestStep
  BY NoRequestBacked, RequestBecomes DEF Enqueue, NoRequest
<1>3. gate[g].item \in Item /\ Present(gate[g].item)
  BY DEF IInv, Backed, RequestBacked, Enqueue
<1>4. QueueStep
  <2>1. files \in [Item -> Seq(Message)] /\ analyses \in Seq(Message)
    BY DEF IInv, TypeOK
  <2>2. Append(files[gate[g].item], "visible") \in Seq(Message)
    BY <1>3, <2>1 DEF Message
  <2>3. Present(gate[g].item)
    BY <1>3
  <2> QED
    BY <1>1, <1>3, <2>1, <2>2 DEF Enqueue, QueueStep, ObjectStep
<1> QED
  BY <1>1, <1>2, <1>4, StepKeeps

LEMMA AbandonKeeps == ASSUME IInv, NEW g \in Gate, Abandon(g) PROVE IInv'
<1>1. ObjectStep /\ SubStep /\ RowStep /\ QueueStep /\ HandlerStep /\ faults' \in Nat
  BY SameObjects, SameSub, SameRows, SameQueues, SameWorker, FaultyType DEF Abandon, rows
<1>2. RequestStep
  BY NoRequestBacked, RequestBecomes DEF Abandon, NoRequest
<1> QED
  BY <1>1, <1>2, StepKeeps

-----------------------------------------------------------------------------
(* The queues: a message of an item exists only once its bytes do. *)

LEMMA ClaimItemKeeps ==
    ASSUME IInv, NEW w \in Worker, NEW i \in Item, NEW m, ClaimItem(w, i, m) PROVE IInv'
<1>1. ObjectStep /\ SubStep /\ RowStep /\ RequestStep /\ faults' \in Nat
  BY SameObjects, SameSub, SameRows, SameGate, FaultyType DEF ClaimItem, rows
<1>2. files \in [Item -> Seq(Message)] /\ m \in DOMAIN files[i] /\ Present(i)
  BY DEF IInv, TypeOK, Backed, ClaimItem
<1>3. QueueStep
  <2>1. [files[i] EXCEPT ![m] = "claimed"] \in Seq(Message)
    BY <1>2 DEF Message
  <2>2. files' = [files EXCEPT ![i] = [files[i] EXCEPT ![m] = "claimed"]]
    BY <1>2 DEF ClaimItem
  <2>3. analyses' \in Seq(Message) /\ Present(i)'
    BY <1>1, <1>2 DEF ClaimItem, IInv, TypeOK, ObjectStep
  <2> QED
    BY <1>2, <2>1, <2>2, <2>3 DEF QueueStep, Present, Blob
<1>4. HandlerStep
  <2> DEFINE h == [Idle EXCEPT !.pc = "load", !.item = i, !.msg = m]
  <2>1. m \in Nat
    BY <1>2
  <2>2. h \in Handler /\ h.pc = "load" /\ h.item = i /\ h.path = "none"
    BY <2>1, IdleBacked DEF Handler, Pc, Idle
  <2>3. worker' = [worker EXCEPT ![w] = h]
    BY DEF ClaimItem
  <2> HIDE DEF h
  <2>4. PICK k \in Handler : /\ worker' = [worker EXCEPT ![w] = k]
                             /\ k.pc = "load" /\ k.item = i /\ k.path = "none"
    BY <2>2, <2>3
  <2>5. HandlerBacked(k)'
    BY <1>1, <1>2, <2>4 DEF HandlerBacked, ItemPc, CopiedPc, ObjectStep
  <2> QED
    BY <2>4, <2>5, Becomes
<1> QED
  BY <1>1, <1>3, <1>4, StepKeeps

LEMMA ClaimAnalysisKeeps ==
    ASSUME IInv, NEW w \in Worker, NEW m, ClaimAnalysis(w, m) PROVE IInv'
<1>1. ObjectStep /\ SubStep /\ RowStep /\ RequestStep /\ faults' \in Nat
  BY SameObjects, SameSub, SameRows, SameGate, FaultyType DEF ClaimAnalysis, rows
<1>2. analyses \in Seq(Message) /\ files \in [Item -> Seq(Message)] /\ m \in DOMAIN analyses
  BY DEF IInv, TypeOK, ClaimAnalysis
<1>3. QueueStep
  BY <1>2 DEF ClaimAnalysis, QueueStep, Message
<1>4. HandlerStep
  <2> DEFINE h == [Idle EXCEPT !.pc = "aload", !.msg = m]
  <2>1. m \in Nat
    BY <1>2
  <2>2. h \in Handler /\ h.pc = "aload" /\ h.item = NoItem
    BY <2>1, IdleBacked DEF Handler, Pc, Idle
  <2>3. worker' = [worker EXCEPT ![w] = h]
    BY DEF ClaimAnalysis
  <2> HIDE DEF h
  <2>4. PICK k \in Handler : worker' = [worker EXCEPT ![w] = k] /\ k.pc = "aload" /\ k.item = NoItem
    BY <2>2, <2>3
  <2>5. HandlerBacked(k)'
    BY <2>4 DEF HandlerBacked, ItemPc, CopiedPc
  <2> QED
    BY <2>4, <2>5, Becomes
<1> QED
  BY <1>1, <1>3, <1>4, StepKeeps

LEMMA LapseItemKeeps == ASSUME IInv, NEW i \in Item, NEW m, LapseItem(i, m) PROVE IInv'
<1>1. ObjectStep /\ SubStep /\ RowStep /\ HandlerStep /\ RequestStep /\ faults' \in Nat
  BY SameObjects, SameSub, SameRows, SameWorker, SameGate, FaultyType
  DEF LapseItem, MayLapse, rows
<1>2. files \in [Item -> Seq(Message)] /\ m \in DOMAIN files[i] /\ Present(i)
  BY DEF IInv, TypeOK, Backed, LapseItem
<1>3. QueueStep
  <2>1. [files[i] EXCEPT ![m] = "visible"] \in Seq(Message)
    BY <1>2 DEF Message
  <2>2. files' = [files EXCEPT ![i] = [files[i] EXCEPT ![m] = "visible"]]
    BY <1>2 DEF LapseItem
  <2>3. analyses' \in Seq(Message) /\ Present(i)'
    BY <1>1, <1>2 DEF LapseItem, IInv, TypeOK, ObjectStep
  <2> QED
    BY <1>2, <2>1, <2>2, <2>3 DEF QueueStep, Present, Blob
<1> QED
  BY <1>1, <1>3, StepKeeps

LEMMA LapseAnalysisKeeps == ASSUME IInv, NEW m, LapseAnalysis(m) PROVE IInv'
<1>1. ObjectStep /\ SubStep /\ RowStep /\ HandlerStep /\ RequestStep /\ faults' \in Nat
  BY SameObjects, SameSub, SameRows, SameWorker, SameGate, FaultyType
  DEF LapseAnalysis, MayLapse, rows
<1>2. QueueStep
  BY DEF IInv, TypeOK, LapseAnalysis, QueueStep, Message
<1> QED
  BY <1>1, <1>2, StepKeeps

-----------------------------------------------------------------------------
(* The file worker *)

(* A handler only moves on, with nothing else that the invariant reads. *)
LEMMA MovesKeep ==
    ASSUME IInv, UNCHANGED <<rows, objects, queues, gate>>, HandlerStep, faults' \in Nat
    PROVE  IInv'
BY SameObjects, SameSub, SameRows, SameQueues, SameGate, StepKeeps DEF rows

LEMMA LoadKeeps == ASSUME IInv, NEW w \in Worker, Load(w) PROVE IInv'
<1>1. ObjectStep /\ faults' \in Nat
  BY SameObjects, FaultyType DEF Load
<1> DEFINE i == worker[w].item
           row == item[i]
<1>2. /\ worker \in [Worker -> Handler] /\ worker[w] \in Handler
      /\ i \in Item /\ row \in Row /\ RowBacked(i) /\ Present(i)
  BY At DEF IInv, TypeOK, Load, ItemPc, HandlerBacked
<1>3. PICK pc \in {"list", "exhaust", "count"} :
         worker' = [worker EXCEPT ![w] = [worker[w] EXCEPT !.pc = pc, !.status = row.status,
                                             !.path = row.path, !.attempt = row.attempts + 1]]
  BY <1>2 DEF Load
<1>4. PICK h \in Handler : /\ worker' = [worker EXCEPT ![w] = h]
                           /\ h.pc = pc /\ h.item = i /\ h.status = row.status /\ h.path = row.path
  <2> DEFINE h == [worker[w] EXCEPT !.pc = pc, !.status = row.status,
                                    !.path = row.path, !.attempt = row.attempts + 1]
  <2>1. h \in Handler
    <3>1. row.status \in ItemStatus /\ row.path \in Path /\ row.attempts + 1 \in Nat
      BY <1>2 DEF Row
    <3>2. pc \in Pc
      BY DEF Pc
    <3> QED
      BY <1>2, <3>1, <3>2 DEF Handler
  <2>2. h.pc = pc /\ h.item = i /\ h.status = row.status /\ h.path = row.path
    BY <1>2 DEF Handler
  <2> QED
    BY <1>3, <2>1, <2>2
<1>5. PICK j \in Item : j = i
  BY <1>2
<1>6. Present(j)' /\ (Blob(j) => Blob(j)')
  BY <1>1, <1>2, <1>5 DEF ObjectStep, Blob
<1>7. HandlerBacked(h)'
  BY <1>2, <1>4, <1>5, <1>6 DEF HandlerBacked, RowBacked, ItemPc, CopiedPc, CopiedStatus
<1> QED
  BY <1>1, <1>4, <1>7, Becomes, MovesKeep DEF Load

(* A worker rewrites the row of its item, perhaps without effect. *)
LEMMA Rewrites ==
    ASSUME IInv, ObjectStep, NEW w \in Worker, worker[w].pc \in ItemPc,
           NEW i, i = worker[w].item, NEW row \in Row,
           item' = [item EXCEPT ![i] = row],
           row.path = "canonical" => Blob(i),
           row.status \in CopiedStatus => Blob(i),
           row.status = "READY" => Content[i] \in artifacts
    PROVE  RowStep
<1>1. i \in Item /\ Present(i) /\ RowBacked(i)
  BY At DEF HandlerBacked
<1>2. PICK j \in Item : j = i
  BY <1>1
<1>3. Present(j)' /\ (Blob(j) => Blob(j)') /\ artifacts \subseteq artifacts'
  BY <1>1, <1>2 DEF ObjectStep, Blob
<1> QED
  BY <1>2, <1>3, RowBecomes

LEMMA Updates ==
    ASSUME IInv, ObjectStep, NEW w \in Worker, worker[w].pc \in ItemPc,
           NEW i, i = worker[w].item, NEW row \in Row, UpdateItem(i, row),
           row.path = item[i].path,
           row.status \in CopiedStatus => Blob(i),
           row.status = "READY" => Content[i] \in artifacts
    PROVE  RowStep /\ faults' \in Nat
<1>1. CASE item' = [item EXCEPT ![i] = row] /\ UNCHANGED faults
  <2>0. row.path = "canonical" => Blob(i)
    BY At DEF RowBacked
  <2>1. RowStep
    BY <1>1, <2>0, Rewrites
  <2>2. faults' \in Nat
    BY <1>1, FaultyType
  <2> QED
    BY <2>1, <2>2
<1>2. CASE Faulty("silent") /\ UNCHANGED item
  BY <1>2, SameRows, FaultyType
<1> QED
  BY <1>1, <1>2 DEF UpdateItem

(* A guarded call leads to pc, or its answer is lost. *)
LEMMA ThenGoes ==
    ASSUME IInv, ObjectStep, NEW w \in Worker, NEW pc \in Pc,
           Then(w, [worker[w] EXCEPT !.pc = pc]),
           NEW i, i = worker[w].item,
           pc \in ItemPc <=> worker[w].pc \in ItemPc,
           pc # "count",
           pc \in CopiedPc => Blob(i)',
           pc = "ready" => (Content[i] \in artifacts)'
    PROVE  HandlerStep /\ faults' \in Nat
<1>1. CASE worker' = [worker EXCEPT ![w] = [worker[w] EXCEPT !.pc = pc]] /\ UNCHANGED faults
  <2>1. worker \in [Worker -> Handler]
    BY DEF IInv, TypeOK
  <2>2. Goto(w, pc)
    BY <1>1, <2>1 DEF Goto
  <2> QED
    BY <1>1, <2>2, Goes, FaultyType
<1>2. CASE worker[w].guarded /\ Faulty("call") /\ Raise(w, "transient")
  BY <1>2, Raises, FaultyType DEF Code
<1> QED
  BY <1>1, <1>2 DEF Then

LEMMA ExhaustKeeps == ASSUME IInv, NEW w \in Worker, Exhaust(w) PROVE IInv'
<1>1. ObjectStep /\ SubStep /\ QueueStep /\ RequestStep
  BY SameObjects, SameSub, SameQueues, SameGate DEF Exhaust
<1>2. RowStep /\ faults' \in Nat
  <2> DEFINE i == worker[w].item
             row == [item[i] EXCEPT !.status = "FAILED", !.attempts = worker[w].attempt,
                                    !.code = "exhausted"]
  <2>1. worker[w].attempt \in Nat /\ item[i] \in Row /\ worker[w].pc \in ItemPc
    BY At DEF Exhaust, ItemPc, Handler
  <2>2. row \in Row /\ row.path = item[i].path /\ row.status = "FAILED"
    BY <2>1 DEF Row, ItemStatus, Code
  <2>3. UpdateItem(i, row)
    BY DEF Exhaust
  <2> HIDE DEF row
  <2> QED
    BY <1>1, <2>1, <2>2, <2>3, Updates DEF CopiedStatus
<1>3. HandlerStep
  BY <1>1, Goes DEF Exhaust, Pc, ItemPc, CopiedPc
<1> QED
  BY <1>1, <1>2, <1>3, StepKeeps

LEMMA CountKeeps == ASSUME IInv, NEW w \in Worker, Count(w) PROVE IInv'
<1>1. ObjectStep /\ SubStep /\ QueueStep /\ RequestStep
  BY SameObjects, SameSub, SameQueues, SameGate DEF Count
<1> DEFINE i == worker[w].item
<1>2. /\ worker[w].attempt \in Nat /\ item[i] \in Row /\ worker[w].pc = "count"
      /\ worker[w] \in Handler /\ RowBacked(i) /\ HandlerBacked(worker[w])
  BY At DEF Count, ItemPc, Handler
<1>3. RowStep /\ faults' \in Nat
  <2> DEFINE row == [item[i] EXCEPT !.attempts = worker[w].attempt]
  <2>1. row \in Row /\ row.path = item[i].path /\ row.status = item[i].status
    BY <1>2 DEF Row
  <2>2. UpdateItem(i, row)
    BY DEF Count
  <2> HIDE DEF row
  <2> QED
    BY <1>1, <1>2, <2>1, <2>2, Updates DEF ItemPc, RowBacked
<1>4. HandlerStep
  <2> DEFINE stage == Stage(worker[w].status)
  <2>1. CASE stage = "idle"
    BY <2>1, Rests DEF Count
  <2>2. CASE stage # "idle"
    <3>1. /\ stage \in {"validate", "extract", "ocr", "persist"}
          /\ stage # "validate" => worker[w].status \in CopiedStatus
      BY <2>2 DEF Stage, CopiedStatus
    <3>2. PICK pc \in {"validate", "extract", "ocr", "persist"} : pc = stage
      BY <3>1
    <3>3. worker' = [worker EXCEPT ![w] = [worker[w] EXCEPT !.pc = pc, !.guarded = TRUE]]
      BY <2>2, <3>2 DEF Count
    <3>4. PICK h \in Handler : /\ worker' = [worker EXCEPT ![w] = h]
                               /\ h.pc = pc /\ h.item = i /\ h.path = worker[w].path
      <4>1. [worker[w] EXCEPT !.pc = pc, !.guarded = TRUE] \in Handler
        BY <1>2 DEF Handler, Pc
      <4> QED
        BY <1>2, <3>3, <4>1 DEF Handler
    <3>5. pc # "validate" => Blob(i) /\ Blob(i)'
      BY <1>1, <1>2, <3>1, <3>2 DEF HandlerBacked, Blob, Count, objects
    <3>6. h.pc \in CopiedPc => Blob(h.item)'
      BY <3>4, <3>5 DEF CopiedPc, Blob
    <3> QED
      BY <1>1, <1>2, <3>4, <3>6, Carries DEF ItemPc
  <2> QED
    BY <2>1, <2>2
<1> QED
  BY <1>1, <1>3, <1>4, StepKeeps

LEMMA ValidateKeeps == ASSUME IInv, NEW w \in Worker, Validate(w) PROVE IInv'
<1>1. ObjectStep /\ SubStep /\ QueueStep /\ RequestStep
  BY SameObjects, SameSub, SameQueues, SameGate DEF Validate
<1>2. RowStep /\ faults' \in Nat
  <2> DEFINE i == worker[w].item
             row == [item[i] EXCEPT !.status = "VALIDATING"]
  <2>1. item[i] \in Row /\ worker[w].pc \in ItemPc
    BY At DEF Validate, ItemPc
  <2>2. row \in Row /\ row.path = item[i].path /\ row.status = "VALIDATING"
    BY <2>1 DEF Row, ItemStatus
  <2>3. UpdateItem(i, row)
    BY DEF Validate
  <2> HIDE DEF row
  <2> QED
    BY <1>1, <2>1, <2>2, <2>3, Updates DEF CopiedStatus
<1>3. HandlerStep
  BY <1>1, Goes DEF Validate, Pc, ItemPc, CopiedPc
<1> QED
  BY <1>1, <1>2, <1>3, StepKeeps

LEMMA ReadKeeps == ASSUME IInv, NEW w \in Worker, Read(w) PROVE IInv'
<1>1. ObjectStep /\ faults' \in Nat
  BY SameObjects, FaultyType DEF Read
<1>2. CASE Goto(w, "probe")
  <2>1. HandlerStep
    BY <1>1, <1>2, Goes DEF Read, Pc, ItemPc, CopiedPc
  <2> QED
    BY <1>1, <2>1, MovesKeep DEF Read
<1>3. ASSUME NEW code \in Code, Raise(w, code) PROVE IInv'
  BY <1>1, <1>3, Raises, MovesKeep DEF Read
<1> QED
  BY <1>2, <1>3 DEF Read, Code

LEMMA UploadedPc == ASSUME NEW w PROVE Uploaded(w) \in {"verify", "remove"}
BY DEF Uploaded

LEMMA ProbeKeeps == ASSUME IInv, NEW w \in Worker, Probe(w) PROVE IInv'
<1>1. ObjectStep /\ faults' \in Nat
  BY SameObjects, FaultyType DEF Probe
<1> DEFINE i == worker[w].item
<1>2. CASE Blob(i)
  <2>1. PICK pc \in {"verify", "remove"} : Goto(w, pc)
    BY <1>2, UploadedPc DEF Probe
  <2>2. PICK j : j = i /\ Blob(j)'
    BY <1>2 DEF Probe, objects, Blob
  <2>3. HandlerStep
    BY <1>1, <2>1, <2>2, Goes DEF Probe, Pc, ItemPc, CopiedPc
  <2> QED
    BY <1>1, <2>3, MovesKeep DEF Probe
<1>3. CASE ~Blob(i)
  <2>1. Goto(w, "copy")
    BY <1>3 DEF Probe
  <2>2. HandlerStep
    BY <1>1, <2>1, Goes DEF Probe, Pc, ItemPc, CopiedPc
  <2> QED
    BY <1>1, <2>2, MovesKeep DEF Probe
<1> QED
  BY <1>2, <1>3

LEMMA CopyKeeps == ASSUME IInv, NEW w \in Worker, Copy(w) PROVE IInv'
<1>1. SubStep /\ RowStep /\ QueueStep /\ RequestStep
  BY SameSub, SameRows, SameQueues, SameGate DEF Copy, rows
<1> DEFINE i == worker[w].item
<1>2. worker[w].pc \in ItemPc /\ i \in Item /\ Content[i] \in Hash
  BY At DEF Copy, ItemPc
<1>3. PICK pc \in {"verify", "remove"} : pc = Uploaded(w)
  BY UploadedPc
<1>4. CASE Readable(i, worker[w].path)
  <2>1. stored' = stored \cup {Content[i]} /\ Then(w, [worker[w] EXCEPT !.pc = pc])
    BY <1>3, <1>4 DEF Copy
  <2>2. ObjectStep
    BY <1>2, <2>1 DEF Copy, IInv, TypeOK, ObjectStep, Present, Blob
  <2>3. PICK j \in Item : j = i /\ Blob(j)'
    BY <1>2, <2>1 DEF Blob
  <2>4. HandlerStep /\ faults' \in Nat
    BY <1>2, <2>1, <2>2, <2>3, ThenGoes DEF Pc, ItemPc
  <2> QED
    BY <1>1, <2>2, <2>4, StepKeeps
<1>5. CASE ~Readable(i, worker[w].path)
  <2>1. UNCHANGED objects /\ ObjectStep /\ faults' \in Nat
    BY <1>5, SameObjects, FaultyType DEF Copy, objects
  <2>2. CASE Blob(i)
    <3>1. Goto(w, pc)
      BY <1>3, <1>5, <2>2 DEF Copy
    <3>2. PICK j \in Item : j = i /\ Blob(j)'
      BY <1>2, <2>1, <2>2 DEF Blob, objects
    <3>3. HandlerStep
      BY <1>2, <2>1, <3>1, <3>2, Goes DEF Pc, ItemPc
    <3> QED
      BY <1>1, <2>1, <3>3, StepKeeps
  <2>3. CASE ~Blob(i)
    <3>1. Raise(w, "transient")
      BY <1>5, <2>3 DEF Copy
    <3>2. HandlerStep
      BY <2>1, <3>1, Raises DEF Code
    <3> QED
      BY <1>1, <2>1, <3>2, StepKeeps
  <2> QED
    BY <2>2, <2>3
<1> QED
  BY <1>4, <1>5

LEMMA RemoveKeeps == ASSUME IInv, NEW w \in Worker, Remove(w) PROVE IInv'
<1>1. SubStep /\ RowStep /\ QueueStep /\ RequestStep
  BY SameSub, SameRows, SameQueues, SameGate DEF Remove, rows
<1>2. PICK i \in Item : i = worker[w].item /\ Blob(i)
  BY At DEF Remove, ItemPc, CopiedPc, HandlerBacked
<1>3. ObjectStep /\ Blob(i)'
  BY <1>2 DEF Remove, IInv, TypeOK, ObjectStep, Present, Blob
<1>4. HandlerStep /\ faults' \in Nat
  BY <1>2, <1>3, ThenGoes DEF Remove, Pc, ItemPc
<1> QED
  BY <1>1, <1>3, <1>4, StepKeeps

LEMMA VerifyKeeps == ASSUME IInv, NEW w \in Worker, Verify(w) PROVE IInv'
<1>1. ObjectStep /\ SubStep /\ QueueStep /\ RequestStep
  BY SameObjects, SameSub, SameQueues, SameGate DEF Verify
<1>2. PICK i \in Item : i = worker[w].item /\ Blob(i) /\ item[i] \in Row
  BY At DEF Verify, ItemPc, CopiedPc, HandlerBacked
<1>3. Blob(i)' /\ Present(i)'
  BY <1>1, <1>2 DEF ObjectStep, Blob, Present
<1>4. RowStep
  <2> DEFINE row == [item[i] EXCEPT !.status = "EXTRACTING", !.path = "canonical", !.code = "none"]
  <2>1. row \in Row /\ row.status = "EXTRACTING" /\ row.path = "canonical"
    BY <1>2 DEF Row, ItemStatus, Path, Code
  <2>2. item' = [item EXCEPT ![i] = row]
    BY <1>2 DEF Verify, IInv, TypeOK
  <2> HIDE DEF row
  <2> QED
    BY <1>1, <1>2, <1>3, <2>1, <2>2, RowBecomes
<1>5. HandlerStep /\ faults' \in Nat
  <2>1. PICK h \in Handler : /\ Then(w, h)
                             /\ h.pc = "extract" /\ h.item = i /\ h.path = "canonical"
    <3> DEFINE h == [worker[w] EXCEPT !.pc = "extract", !.path = "canonical"]
    <3>1. worker[w] \in Handler
      BY At
    <3>2. h \in Handler
      BY <3>1 DEF Handler, Pc, Path
    <3>3. h.pc = "extract" /\ h.item = i /\ h.path = "canonical"
      BY <1>2, <3>1 DEF Handler
    <3>4. Then(w, h)
      BY DEF Verify
    <3> QED
      BY <3>2, <3>3, <3>4
  <2>2. HandlerBacked(h)'
    BY <1>2, <1>3, <2>1 DEF HandlerBacked, ItemPc
  <2> QED
    BY <1>1, <2>1, <2>2, Thens
<1> QED
  BY <1>1, <1>4, <1>5, StepKeeps

(* A step of a handler past the copy that checkpoints its item. *)
LEMMA Checkpoints ==
    ASSUME IInv, ObjectStep, NEW w \in Worker, worker[w].pc \in CopiedPc,
           NEW row \in Row, item' = [item EXCEPT ![worker[w].item] = row],
           row.path = item[worker[w].item].path,
           row.status = "READY" => worker[w].pc = "ready"
    PROVE  RowStep
<1>1. PICK i \in Item : i = worker[w].item /\ Blob(i) /\ RowBacked(i)
  BY At DEF ItemPc, CopiedPc, HandlerBacked
<1>2. worker[w].pc = "ready" => Content[i] \in artifacts
  BY <1>1, At DEF HandlerBacked
<1>3. worker[w].pc \in ItemPc
  BY DEF ItemPc, CopiedPc
<1> QED
  BY <1>1, <1>2, <1>3, Rewrites

LEMMA RowWithStatus ==
    ASSUME NEW old \in Row, NEW status \in ItemStatus
    PROVE  \E row \in Row : /\ row = [old EXCEPT !.status = status]
                            /\ row.status = status /\ row.path = old.path
<1> DEFINE row == [old EXCEPT !.status = status]
<1>1. row \in Row /\ row.status = status /\ row.path = old.path
  BY DEF Row
<1> QED
  BY <1>1

LEMMA RowWithCode ==
    ASSUME NEW old \in Row, NEW status \in ItemStatus, NEW code \in Code
    PROVE  \E row \in Row : /\ row = [old EXCEPT !.status = status, !.code = code]
                            /\ row.status = status /\ row.path = old.path
<1> DEFINE row == [old EXCEPT !.status = status, !.code = code]
<1>1. row \in Row /\ row.status = status /\ row.path = old.path
  BY DEF Row
<1> QED
  BY <1>1

LEMMA ExtractKeeps == ASSUME IInv, NEW w \in Worker, Extract(w) PROVE IInv'
<1>1. ObjectStep /\ SubStep /\ QueueStep /\ RequestStep
  BY SameObjects, SameSub, SameQueues, SameGate DEF Extract
<1>2. PICK i \in Item : i = worker[w].item /\ Blob(i) /\ item[i] \in Row
  BY At DEF Extract, ItemPc, CopiedPc, HandlerBacked
<1>3. Blob(i)'
  BY <1>1, <1>2 DEF ObjectStep, Blob
<1>4. CASE Readable(i, worker[w].path) /\ Refusal[i] # "extract"
  <2>1. PICK status \in {"OCR", "CHUNKING"} :
           item' = [item EXCEPT ![i] = [item[i] EXCEPT !.status = status]]
    BY <1>2, <1>4 DEF Extract, IInv, TypeOK
  <2>2. PICK pc \in {"ocr", "persist"} : Then(w, [worker[w] EXCEPT !.pc = pc])
    BY <1>2, <1>4 DEF Extract
  <2>3. RowStep
    <3>1. PICK row \in Row : /\ row = [item[i] EXCEPT !.status = status]
                             /\ row.status = status /\ row.path = item[i].path
      <4>1. status \in ItemStatus
        BY DEF ItemStatus
      <4> QED
        BY <1>2, <4>1, RowWithStatus
    <3>2. item' = [item EXCEPT ![i] = row]
      BY <2>1, <3>1
    <3> QED
      BY <1>1, <1>2, <3>1, <3>2, Checkpoints DEF Extract, CopiedPc
  <2>4. HandlerStep /\ faults' \in Nat
    BY <1>1, <1>2, <1>3, <2>2, ThenGoes DEF Extract, Pc, ItemPc
  <2> QED
    BY <1>1, <2>3, <2>4, StepKeeps
<1>5. CASE ~(Readable(i, worker[w].path) /\ Refusal[i] # "extract")
  <2>1. PICK code \in Code : Raise(w, code) /\ UNCHANGED <<item, faults>>
    BY <1>2, <1>5 DEF Extract, Code
  <2> QED
    BY <1>1, <2>1, Raises, SameRows, FaultyType, StepKeeps
<1> QED
  BY <1>4, <1>5

LEMMA OcrKeeps == ASSUME IInv, NEW w \in Worker, Ocr(w) PROVE IInv'
<1>1. ObjectStep /\ SubStep /\ QueueStep /\ RequestStep
  BY SameObjects, SameSub, SameQueues, SameGate DEF Ocr
<1>2. PICK i \in Item : i = worker[w].item /\ Blob(i) /\ item[i] \in Row
  BY At DEF Ocr, ItemPc, CopiedPc, HandlerBacked
<1>3. Blob(i)'
  BY <1>1, <1>2 DEF ObjectStep, Blob
<1>4. CASE Refusal[i] # "ocr" /\ Readable(i, worker[w].path)
  <2>1. item' = [item EXCEPT ![i] = [item[i] EXCEPT !.status = "CHUNKING", !.code = "none"]]
    BY <1>2, <1>4 DEF Ocr, IInv, TypeOK
  <2>2. Then(w, [worker[w] EXCEPT !.pc = "persist"])
    BY <1>2, <1>4 DEF Ocr
  <2>3. RowStep
    <3>1. PICK row \in Row : /\ row = [item[i] EXCEPT !.status = "CHUNKING", !.code = "none"]
                             /\ row.status = "CHUNKING" /\ row.path = item[i].path
      BY <1>2, RowWithCode, ZenonT(20) DEF ItemStatus, Code
    <3>2. item' = [item EXCEPT ![i] = row]
      BY <2>1, <3>1
    <3> QED
      BY <1>1, <1>2, <3>1, <3>2, Checkpoints DEF Ocr, CopiedPc
  <2>4. HandlerStep /\ faults' \in Nat
    BY <1>1, <1>2, <1>3, <2>2, ThenGoes DEF Ocr, Pc, ItemPc
  <2> QED
    BY <1>1, <2>3, <2>4, StepKeeps
<1>5. CASE ~(Refusal[i] # "ocr" /\ Readable(i, worker[w].path))
  <2>1. PICK code \in Code : Raise(w, code) /\ UNCHANGED <<item, faults>>
    BY <1>2, <1>5 DEF Ocr, Code
  <2> QED
    BY <1>1, <2>1, Raises, SameRows, FaultyType, StepKeeps
<1> QED
  BY <1>4, <1>5

LEMMA PersistKeeps == ASSUME IInv, NEW w \in Worker, Persist(w) PROVE IInv'
<1>1. SubStep /\ RowStep /\ QueueStep /\ RequestStep
  BY SameSub, SameRows, SameQueues, SameGate DEF Persist, rows
<1>2. PICK i \in Item : i = worker[w].item /\ Blob(i) /\ Content[i] \in Hash
  BY At DEF Persist, ItemPc, CopiedPc, HandlerBacked
<1>3. ObjectStep /\ Blob(i)' /\ (Content[i] \in artifacts)'
  BY <1>2 DEF Persist, IInv, TypeOK, ObjectStep, Present, Blob
<1>4. HandlerStep /\ faults' \in Nat
  BY <1>2, <1>3, ThenGoes DEF Persist, Pc, ItemPc
<1> QED
  BY <1>1, <1>3, <1>4, StepKeeps

LEMMA ReadyKeeps == ASSUME IInv, NEW w \in Worker, Ready(w) PROVE IInv'
<1>1. ObjectStep /\ SubStep /\ QueueStep /\ RequestStep
  BY SameObjects, SameSub, SameQueues, SameGate DEF Ready
<1>2. PICK i \in Item : i = worker[w].item /\ item[i] \in Row
  BY At DEF Ready, ItemPc
<1>3. RowStep
  <2>1. item' = [item EXCEPT ![i] = [item[i] EXCEPT !.status = "READY"]]
    BY <1>2 DEF Ready, IInv, TypeOK
  <2>2. PICK row \in Row : /\ row = [item[i] EXCEPT !.status = "READY"]
                           /\ row.path = item[i].path
    <3>1. "READY" \in ItemStatus
      BY DEF ItemStatus
    <3> QED
      BY <1>2, <3>1, RowWithStatus
  <2>3. item' = [item EXCEPT ![i] = row]
    BY <2>1, <2>2
  <2> QED
    BY <1>1, <1>2, <2>2, <2>3, Checkpoints DEF Ready, CopiedPc
<1>4. HandlerStep /\ faults' \in Nat
  BY <1>1, <1>2, ThenGoes DEF Ready, Pc, ItemPc, CopiedPc
<1> QED
  BY <1>1, <1>3, <1>4, StepKeeps

LEMMA CatchKeeps == ASSUME IInv, NEW w \in Worker, Catch(w) PROVE IInv'
<1>1. ObjectStep /\ SubStep /\ QueueStep /\ RequestStep
  BY SameObjects, SameSub, SameQueues, SameGate DEF Catch
<1>2. PICK i \in Item : i = worker[w].item /\ item[i] \in Row /\ worker[w] \in Handler
  BY At DEF Catch, ItemPc
<1>3. RowStep /\ faults' \in Nat
  <2>1. PICK status \in {"FAILED", "QUEUED"}, code \in Code :
           UpdateItem(i, [item[i] EXCEPT !.status = status, !.code = code])
    BY <1>2 DEF Catch, Handler, Code
  <2>2. PICK row \in Row : /\ row = [item[i] EXCEPT !.status = status, !.code = code]
                           /\ row.status = status /\ row.path = item[i].path
    <3>1. status \in ItemStatus
      BY DEF ItemStatus
    <3> QED
      BY <1>2, <3>1, RowWithCode
  <2>3. UpdateItem(i, row)
    BY <2>1, <2>2
  <2> QED
    BY <1>1, <1>2, <2>2, <2>3, Updates DEF Catch, CopiedStatus, ItemPc
<1>4. HandlerStep
  <2>1. CASE worker' = [worker EXCEPT ![w] = Idle]
    BY <2>1, Rests
  <2>2. CASE worker' = [worker EXCEPT ![w] = [worker[w] EXCEPT !.pc = "list"]]
    <3>1. Goto(w, "list")
      BY <2>2 DEF Goto, IInv, TypeOK
    <3> QED
      BY <1>1, <3>1, Goes DEF Catch, Pc, ItemPc, CopiedPc
  <2> QED
    BY <2>1, <2>2 DEF Catch
<1> QED
  BY <1>1, <1>3, <1>4, StepKeeps

LEMMA ListKeeps == ASSUME IInv, NEW w \in Worker, List(w) PROVE IInv'
<1>1. ObjectStep /\ faults' \in Nat
  BY SameObjects, FaultyType DEF List
<1>2. PICK h \in Handler : /\ worker' = [worker EXCEPT ![w] = h]
                           /\ h.pc = "decide"
                           /\ h.item = worker[w].item /\ h.path = worker[w].path
  <2> DEFINE h == [worker[w] EXCEPT !.pc = "decide", !.terminal = AllTerminal]
  <2>1. worker \in [Worker -> Handler] /\ worker[w] \in Handler
    BY DEF IInv, TypeOK
  <2>2. AllTerminal \in BOOLEAN
    BY DEF AllTerminal
  <2>3. h \in Handler
    BY <2>1, <2>2 DEF Handler, Pc
  <2>4. h.pc = "decide" /\ h.item = worker[w].item /\ h.path = worker[w].path
    BY <2>1 DEF Handler
  <2>5. worker' = [worker EXCEPT ![w] = h]
    BY <2>1 DEF List
  <2> QED
    BY <2>3, <2>4, <2>5
<1>3. HandlerStep
  BY <1>1, <1>2, Carries DEF List, ItemPc, CopiedPc
<1> QED
  BY <1>1, <1>3, MovesKeep DEF List

(* A handler that leaves the try block for its acknowledgement. *)
LEMMA AckHandler ==
    ASSUME NEW old \in Handler, NEW pc \in {"ack", "aack"}
    PROVE  \E h \in Handler : /\ h = [old EXCEPT !.pc = pc, !.guarded = FALSE]
                              /\ h.pc = pc /\ h.item = old.item /\ h.path = old.path
<1> DEFINE h == [old EXCEPT !.pc = pc, !.guarded = FALSE]
<1>1. h \in Handler /\ h.pc = pc /\ h.item = old.item /\ h.path = old.path
  BY DEF Handler, Pc
<1> QED
  BY <1>1

LEMMA DecideKeeps == ASSUME IInv, NEW w \in Worker, Decide(w) PROVE IInv'
<1>1. ObjectStep /\ faults' \in Nat
  BY SameObjects, FaultyType DEF Decide
<1>2. worker \in [Worker -> Handler] /\ worker[w] \in Handler
  BY DEF IInv, TypeOK
<1>3. HandlerStep
  <2>1. CASE sub.response
    <3>1. PICK h \in Handler : /\ h = [worker[w] EXCEPT !.pc = "ack", !.guarded = FALSE]
                               /\ h.pc = "ack"
                               /\ h.item = worker[w].item /\ h.path = worker[w].path
      BY <1>2, AckHandler
    <3>2. worker' = [worker EXCEPT ![w] = h]
      BY <1>2, <2>1, <3>1 DEF Decide
    <3> QED
      BY <1>1, <3>1, <3>2, Carries DEF Decide, ItemPc, CopiedPc
  <2>2. CASE ~sub.response
    <3>1. PICK pc \in {"send", "mark"} :
             worker' = [worker EXCEPT ![w] = [worker[w] EXCEPT !.pc = pc]]
      BY <1>2, <2>2 DEF Decide
    <3>2. Goto(w, pc)
      BY <1>2, <3>1 DEF Goto
    <3> QED
      BY <1>1, <3>2, Goes DEF Decide, Pc, ItemPc, CopiedPc
  <2> QED
    BY <2>1, <2>2
<1> QED
  BY <1>1, <1>3, MovesKeep DEF Decide

LEMMA SendKeeps == ASSUME IInv, NEW w \in Worker, Send(w) PROVE IInv'
<1>1. ObjectStep /\ SubStep /\ RowStep /\ RequestStep
  BY SameObjects, SameSub, SameRows, SameGate DEF Send, rows
<1>2. QueueStep
  BY DEF IInv, TypeOK, Send, QueueStep, Message
<1>3. HandlerStep /\ faults' \in Nat
  BY <1>1, ThenGoes DEF Send, Pc, ItemPc, CopiedPc
<1> QED
  BY <1>1, <1>2, <1>3, StepKeeps

LEMMA MarkKeeps == ASSUME IInv, NEW w \in Worker, Mark(w) PROVE IInv'
<1>1. ObjectStep /\ RowStep /\ QueueStep /\ RequestStep
  BY SameObjects, SameRows, SameQueues, SameGate DEF Mark
<1>2. SubStep
  BY DEF IInv, TypeOK, Mark, SubStep, SubStatus
<1>3. HandlerStep /\ faults' \in Nat
  <2>1. PICK h \in Handler : /\ h = [worker[w] EXCEPT !.pc = "ack", !.guarded = FALSE]
                             /\ h.pc = "ack"
                             /\ h.item = worker[w].item /\ h.path = worker[w].path
    BY At, AckHandler
  <2>2. Then(w, h)
    BY <2>1 DEF Mark
  <2>3. HandlerBacked(worker[w]) /\ worker[w].pc = "mark"
    BY At DEF Mark
  <2>4. HandlerBacked(h)'
    BY <1>1, <2>1, <2>3 DEF HandlerBacked, ItemPc, CopiedPc, ObjectStep, Blob, Mark, objects
  <2> QED
    BY <1>1, <2>2, <2>4, Thens
<1> QED
  BY <1>1, <1>2, <1>3, StepKeeps

LEMMA Marked ==
    ASSUME NEW queue \in Seq(Message), NEW m, NEW status \in Message
    PROVE  [queue EXCEPT ![m] = status] \in Seq(Message)
<1>1. CASE m \in DOMAIN queue
  BY <1>1
<1>2. CASE m \notin DOMAIN queue
  <2>1. [queue EXCEPT ![m] = status] = queue
    BY <1>2
  <2> QED
    BY <2>1
<1> QED
  BY <1>1, <1>2

LEMMA AckKeeps == ASSUME IInv, NEW w \in Worker, Ack(w) PROVE IInv'
<1>1. ObjectStep /\ SubStep /\ RowStep /\ RequestStep /\ faults' \in Nat
  BY SameObjects, SameSub, SameRows, SameGate, FaultyType DEF Ack, rows
<1>2. PICK i \in Item : i = worker[w].item /\ Present(i)
  BY At DEF Ack, ItemPc, HandlerBacked
<1>3. QueueStep
  <2>1. files \in [Item -> Seq(Message)] /\ analyses \in Seq(Message)
    BY DEF IInv, TypeOK
  <2>2. [files[i] EXCEPT ![worker[w].msg] = "deleted"] \in Seq(Message)
    BY <2>1, Marked DEF Message
  <2>3. files' = [files EXCEPT ![i] = [files[i] EXCEPT ![worker[w].msg] = "deleted"]]
    BY <1>2, <2>1 DEF Ack
  <2>4. analyses' \in Seq(Message) /\ Present(i)'
    BY <1>1, <1>2, <2>1 DEF Ack, ObjectStep
  <2> QED
    BY <2>1, <2>2, <2>3, <2>4 DEF QueueStep, Present, Blob
<1>4. HandlerStep
  BY Rests DEF Ack
<1> QED
  BY <1>1, <1>3, <1>4, StepKeeps

-----------------------------------------------------------------------------
(* The analysis writes the submission and the answer only. *)

LEMMA Reports ==
    ASSUME IInv, NEW status \in SubStatus, NEW attempts \in Nat,
           \/ UpdateSub([sub EXCEPT !.status = status, !.attempts = attempts])
           \/ UpdateSub([sub EXCEPT !.status = status])
    PROVE  SubStep /\ faults' \in Nat
<1>1. sub \in [status : SubStatus, attempts : Nat, response : BOOLEAN] /\ faults \in Nat
  BY DEF IInv, TypeOK
<1>2. SubStep
  BY <1>1 DEF UpdateSub, SubStep
<1>3. faults' \in Nat
  BY <1>1 DEF UpdateSub, Faulty
<1> QED
  BY <1>2, <1>3

LEMMA LoadSubmissionKeeps == ASSUME IInv, NEW w \in Worker, LoadSubmission(w) PROVE IInv'
<1>1. ObjectStep /\ faults' \in Nat
  BY SameObjects, FaultyType DEF LoadSubmission
<1>2. worker \in [Worker -> Handler] /\ worker[w] \in Handler /\ sub.attempts + 1 \in Nat
  BY DEF IInv, TypeOK
<1>3. PICK pc \in {"aack", "aitems"} :
         worker' = [worker EXCEPT ![w] = [worker[w] EXCEPT !.pc = pc, !.attempt = sub.attempts + 1]]
  BY <1>2 DEF LoadSubmission
<1>4. PICK h \in Handler : /\ worker' = [worker EXCEPT ![w] = h]
                           /\ h.pc = pc /\ h.item = worker[w].item /\ h.path = worker[w].path
  <2> DEFINE h == [worker[w] EXCEPT !.pc = pc, !.attempt = sub.attempts + 1]
  <2>1. h \in Handler
    BY <1>2 DEF Handler, Pc
  <2>2. h.pc = pc /\ h.item = worker[w].item /\ h.path = worker[w].path
    BY <1>2 DEF Handler
  <2> QED
    BY <1>3, <2>1, <2>2
<1>5. HandlerStep
  BY <1>1, <1>4, Carries DEF LoadSubmission, ItemPc, CopiedPc
<1> QED
  BY <1>1, <1>5, MovesKeep DEF LoadSubmission

LEMMA LoadItemsKeeps == ASSUME IInv, NEW w \in Worker, LoadItems(w) PROVE IInv'
<1>1. ObjectStep /\ faults' \in Nat
  BY SameObjects, FaultyType DEF LoadItems
<1>2. worker \in [Worker -> Handler] /\ worker[w] \in Handler
  BY DEF IInv, TypeOK
<1>3. HandlerStep
  <2>1. CASE ~AllTerminal
    BY <2>1, Rests DEF LoadItems
  <2>2. CASE AllTerminal
    <3> DEFINE failed == {i \in Item : item[i].status = "FAILED"}
    <3>1. PICK pc \in {"aexhaust", "acount"} :
             worker' = [worker EXCEPT ![w] = [worker[w] EXCEPT !.pc = pc, !.failed = failed]]
      BY <1>2, <2>2 DEF LoadItems
    <3>2. PICK h \in Handler : /\ worker' = [worker EXCEPT ![w] = h]
                               /\ h.pc = pc
                               /\ h.item = worker[w].item /\ h.path = worker[w].path
      <4> DEFINE h == [worker[w] EXCEPT !.pc = pc, !.failed = failed]
      <4>1. failed \in SUBSET Item /\ pc \in Pc
        BY DEF Pc
      <4> HIDE DEF failed
      <4>2. h \in Handler
        BY <1>2, <4>1 DEF Handler
      <4>3. h.pc = pc /\ h.item = worker[w].item /\ h.path = worker[w].path
        BY <1>2 DEF Handler
      <4> QED
        BY <3>1, <4>2, <4>3
    <3> QED
      BY <1>1, <3>2, Carries DEF LoadItems, ItemPc, CopiedPc
  <2> QED
    BY <2>1, <2>2
<1> QED
  BY <1>1, <1>3, MovesKeep DEF LoadItems

LEMMA ExhaustAnalysisKeeps ==
    ASSUME IInv, NEW w \in Worker, ExhaustAnalysis(w) PROVE IInv'
<1>1. ObjectStep /\ RowStep /\ QueueStep /\ RequestStep
  BY SameObjects, SameRows, SameQueues, SameGate DEF ExhaustAnalysis
<1>2. SubStep /\ faults' \in Nat
  BY At, Reports DEF ExhaustAnalysis, Handler, SubStatus
<1>3. HandlerStep
  BY <1>1, Goes DEF ExhaustAnalysis, Pc, ItemPc, CopiedPc
<1> QED
  BY <1>1, <1>2, <1>3, StepKeeps

LEMMA CountAnalysisKeeps ==
    ASSUME IInv, NEW w \in Worker, CountAnalysis(w) PROVE IInv'
<1>1. ObjectStep /\ RowStep /\ QueueStep /\ RequestStep
  BY SameObjects, SameRows, SameQueues, SameGate DEF CountAnalysis
<1>2. SubStep /\ faults' \in Nat
  BY At, Reports DEF CountAnalysis, Handler, SubStatus
<1>3. worker \in [Worker -> Handler] /\ worker[w] \in Handler
  BY DEF IInv, TypeOK
<1>4. PICK h \in Handler : /\ worker' = [worker EXCEPT ![w] = h]
                           /\ h.pc = "respond"
                           /\ h.item = worker[w].item /\ h.path = worker[w].path
  <2> DEFINE h == [worker[w] EXCEPT !.pc = "respond", !.guarded = TRUE]
  <2>1. h \in Handler
    BY <1>3 DEF Handler, Pc
  <2>2. h.pc = "respond" /\ h.item = worker[w].item /\ h.path = worker[w].path
    BY <1>3 DEF Handler
  <2>3. worker' = [worker EXCEPT ![w] = h]
    BY <1>3 DEF CountAnalysis
  <2> QED
    BY <2>1, <2>2, <2>3
<1>5. HandlerStep
  BY <1>1, <1>4, Carries DEF CountAnalysis, ItemPc, CopiedPc
<1> QED
  BY <1>1, <1>2, <1>5, StepKeeps

LEMMA RespondKeeps == ASSUME IInv, NEW w \in Worker, Respond(w) PROVE IInv'
<1>1. SubStep /\ RowStep /\ QueueStep /\ RequestStep
  BY SameSub, SameRows, SameQueues, SameGate DEF Respond, rows
<1>2. worker[w].failed \in SUBSET Item
  BY At DEF Handler
<1>3. ObjectStep
  BY <1>2 DEF Respond, IInv, TypeOK, ObjectStep, Present, Blob
<1>4. HandlerStep /\ faults' \in Nat
  BY <1>3, ThenGoes DEF Respond, Pc, ItemPc, CopiedPc
<1> QED
  BY <1>1, <1>3, <1>4, StepKeeps

LEMMA RecordKeeps == ASSUME IInv, NEW w \in Worker, Record(w) PROVE IInv'
<1>1. ObjectStep /\ RowStep /\ QueueStep /\ RequestStep
  BY SameObjects, SameRows, SameQueues, SameGate DEF Record
<1>2. SubStep
  BY DEF IInv, TypeOK, Record, SubStep, SubStatus
<1>3. HandlerStep /\ faults' \in Nat
  <2>1. PICK h \in Handler : /\ h = [worker[w] EXCEPT !.pc = "aack", !.guarded = FALSE]
                             /\ h.pc = "aack"
                             /\ h.item = worker[w].item /\ h.path = worker[w].path
    BY At, AckHandler
  <2>2. Then(w, h)
    BY <2>1 DEF Record
  <2>3. HandlerBacked(worker[w]) /\ worker[w].pc = "record"
    BY At DEF Record
  <2>4. HandlerBacked(h)'
    BY <2>1, <2>3 DEF HandlerBacked, ItemPc, CopiedPc
  <2> QED
    BY <1>1, <2>2, <2>4, Thens
<1> QED
  BY <1>1, <1>2, <1>3, StepKeeps

LEMMA CatchAnalysisKeeps ==
    ASSUME IInv, NEW w \in Worker, CatchAnalysis(w) PROVE IInv'
<1>1. ObjectStep /\ RowStep /\ QueueStep /\ RequestStep
  BY SameObjects, SameRows, SameQueues, SameGate DEF CatchAnalysis
<1>2. SubStep /\ faults' \in Nat
  <2>1. PICK status \in {"FAILED", "ANALYZING"} : UpdateSub([sub EXCEPT !.status = status])
    BY DEF CatchAnalysis
  <2> QED
    BY <2>1, Reports DEF SubStatus
<1>3. HandlerStep
  <2>1. CASE worker' = [worker EXCEPT ![w] = Idle]
    BY <2>1, Rests
  <2>2. CASE worker' = [worker EXCEPT ![w] = [worker[w] EXCEPT !.pc = "aack"]]
    <3>1. Goto(w, "aack")
      BY <2>2 DEF Goto, IInv, TypeOK
    <3> QED
      BY <1>1, <3>1, Goes DEF CatchAnalysis, Pc, ItemPc, CopiedPc
  <2> QED
    BY <2>1, <2>2 DEF CatchAnalysis, IInv, TypeOK
<1> QED
  BY <1>1, <1>2, <1>3, StepKeeps

LEMMA AckAnalysisKeeps ==
    ASSUME IInv, NEW w \in Worker, AckAnalysis(w) PROVE IInv'
<1>1. ObjectStep /\ SubStep /\ RowStep /\ RequestStep /\ faults' \in Nat
  BY SameObjects, SameSub, SameRows, SameGate, FaultyType DEF AckAnalysis, rows
<1>2. QueueStep
  BY Marked DEF IInv, TypeOK, AckAnalysis, QueueStep, Message
<1>3. HandlerStep
  BY Rests DEF AckAnalysis
<1> QED
  BY <1>1, <1>2, <1>3, StepKeeps

-----------------------------------------------------------------------------
(* Faults *)

LEMMA CallFailsKeeps == ASSUME IInv, NEW w \in Worker, CallFails(w) PROVE IInv'
<1>1. ObjectStep /\ faults' \in Nat
  BY SameObjects, FaultyType DEF CallFails
<1>2. HandlerStep
  BY <1>1, Raises DEF CallFails, Code
<1> QED
  BY <1>1, <1>2, MovesKeep DEF CallFails

LEMMA StopKeeps == ASSUME IInv, NEW w \in Worker, Stop(w) PROVE IInv'
BY Rests, FaultyType, MovesKeep DEF Stop

-----------------------------------------------------------------------------
LEMMA InitBacked == Init => IInv
<1> SUFFICES ASSUME Init PROVE IInv
  OBVIOUS
<1>1. TypeOK
  <2>1. worker \in [Worker -> Handler] /\ gate \in [Gate -> Request]
    BY IdleBacked, NoRequestBacked DEF Init
  <2>2. files \in [Item -> Seq(Message)] /\ analyses \in Seq(Message)
    BY DEF Init
  <2>3. /\ sub \in [status : SubStatus, attempts : Nat, response : BOOLEAN]
        /\ item \in [Item -> [status : ItemStatus, path : Path, attempts : Nat, code : Code]]
        /\ answer \in [made : BOOLEAN, failed : SUBSET Item]
    BY DEF Init, SubStatus, ItemStatus, Path, Code
  <2> QED
    BY <2>1, <2>2, <2>3 DEF TypeOK, Init
<1>2. \A w \in Worker : HandlerBacked(worker[w])
  BY IdleBacked DEF Init
<1>3. \A g \in Gate : RequestBacked(gate[g])
  BY DEF Init, NoRequest, RequestBacked
<1>4. \A i \in Item : files[i] = <<>> /\ RowBacked(i)
  BY DEF Init, RowBacked, CopiedStatus
<1> QED
  BY <1>1, <1>2, <1>3, <1>4 DEF IInv, Backed

LEMMA NextKeeps == IInv /\ [Next]_vars => IInv'
<1> SUFFICES ASSUME IInv, [Next]_vars PROVE IInv'
  OBVIOUS
<1>1. CASE UNCHANGED vars
  <2>1. UNCHANGED <<rows, objects, queues, gate, worker, faults>>
    BY <1>1 DEF vars, rows, objects, queues
  <2> QED
    BY <2>1, SameWorker, FaultyType, MovesKeep
<1>2. ASSUME NEW g \in Gate, Gateway(g) \/ Abandon(g) PROVE IInv'
  BY <1>2, CreateKeeps, InsertItemsKeeps, ReadSlotsKeeps, AssignPathKeeps,
     StartRequeueKeeps, RequeueKeeps, EnqueueKeeps, AbandonKeeps DEF Gateway
<1>3. ASSUME NEW i \in Item, Upload(i) PROVE IInv'
  BY <1>3, UploadKeeps
<1>4. ASSUME NEW w \in Worker, Claim(w) PROVE IInv'
  BY <1>4, ClaimItemKeeps, ClaimAnalysisKeeps DEF Claim
<1>5. ASSUME NEW w \in Worker, ProcessItem(w) PROVE IInv'
  BY <1>5, LoadKeeps, ExhaustKeeps, CountKeeps, ValidateKeeps, ReadKeeps, ProbeKeeps,
     CopyKeeps, RemoveKeeps, VerifyKeeps, ExtractKeeps, OcrKeeps, PersistKeeps, ReadyKeeps,
     CatchKeeps, ListKeeps, DecideKeeps, SendKeeps, MarkKeeps, AckKeeps DEF ProcessItem
<1>6. ASSUME NEW w \in Worker, Analyse(w) PROVE IInv'
  BY <1>6, LoadSubmissionKeeps, LoadItemsKeeps, ExhaustAnalysisKeeps, CountAnalysisKeeps,
     RespondKeeps, RecordKeeps, CatchAnalysisKeeps, AckAnalysisKeeps DEF Analyse
<1>7. ASSUME NEW w \in Worker, CallFails(w) \/ Stop(w) PROVE IInv'
  BY <1>7, CallFailsKeeps, StopKeeps
<1>8. CASE Lapse
  BY <1>8, LapseItemKeeps, LapseAnalysisKeeps DEF Lapse
<1> QED
  BY <1>1, <1>2, <1>3, <1>4, <1>5, <1>6, <1>7, <1>8 DEF Next

LEMMA Inductive == Spec => []IInv
BY InitBacked, NextKeeps, PTL DEF Spec

(* Every variable keeps its type under every kind of fault: in particular  *)
(* no handler acts on an item it does not have, and a status is never      *)
(* anything but one of the states of the upload contract.                  *)
THEOREM FileTypeInvariance == Spec => []TypeOK
<1>1. IInv => TypeOK
  BY DEF IInv
<1> QED
  BY <1>1, Inductive, PTL

(* Once an item was finalized its bytes are never lost, although several   *)
(* workers copy and remove the same upload, and items share blobs.         *)
THEOREM ContentSurvival == Spec => []ContentSurvives
<1>1. IInv => ContentSurvives
  BY DEF IInv, Backed, RowBacked, Present, ContentSurvives
<1> QED
  BY <1>1, Inductive, PTL

(* An item shown READY has its blob and its evidence artifact, even when   *)
(* overlapping handlers of the item write their checkpoints out of order.  *)
THEOREM ReadyEvidence == Spec => []ReadyIsBacked
<1>1. IInv => ReadyIsBacked
  BY DEF IInv, Backed, RowBacked, CopiedStatus, ReadyIsBacked
<1> QED
  BY <1>1, Inductive, PTL

-----------------------------------------------------------------------------
(* What a step does to a handler and to the row of its file *)

EarlyPc == {"load", "exhaust", "count"}
SettledPc == {"list", "decide", "send", "mark", "ack"}
BusyPc == ItemPc \ (EarlyPc \cup SettledPc)

SameStatus(i) == item'[i].status = item[i].status
EndsTerminal(i) == item'[i].status \in {"READY", "FAILED"}

(* A handler changes only the row of its file: never back to UPLOADING, and *)
(* never to a failure that the gateway would retry.                         *)
RowMoves(i) ==
    /\ \A j \in Item \ {i} : item'[j] = item[j]
    /\ SameStatus(i) \/ item'[i].status \notin {"absent", "UPLOADING"}
    /\ item'[i].status = "FAILED" =>
          \/ ~Retryable(item'[i].code)
          \/ item[i].status = "FAILED" /\ item'[i].code = item[i].code

(* A failing call leads to the catch block. *)
CallLost(k) == k.pc = "catch" /\ "call" \in Fault

(* The stages of the handler h of file i, which goes on as k.               *)
Loading(h, k, i) ==
    /\ UNCHANGED item
    /\ \/ k.pc = "idle" \/ CallLost(k)
       \/ k.pc = "list" /\ Terminal(i)
       \/ k.pc \in {"exhaust", "count"} /\ k.status = item[i].status /\ k.status # "READY"

Exhausting(k, i) ==
    \/ (k.pc = "idle" \/ CallLost(k)) /\ UNCHANGED item
    \/ k.pc = "list" /\ item'[i].status = "FAILED"
    \/ k.pc = "list" /\ UNCHANGED item /\ "silent" \in Fault

Counting(h, k, i) ==
    /\ SameStatus(i)
    /\ k.pc = "idle" \/ CallLost(k) \/ (k.pc \in BusyPc /\ h.status \notin {"READY", "FAILED"})

Working(k, i) ==
    \/ k.pc \in BusyPc \cup {"idle"} /\ (SameStatus(i) \/ ~EndsTerminal(i))
    \/ CallLost(k)
    \/ k.pc = "list" /\ EndsTerminal(i)
    \/ k.pc = "list" /\ UNCHANGED item /\ "silent" \in Fault

Settling(k) ==
    /\ UNCHANGED item
    /\ k.pc \in SettledPc \cup {"idle"} \/ CallLost(k)

Advances(h, k, i) ==
    /\ h.pc = "load" => Loading(h, k, i)
    /\ h.pc = "exhaust" => Exhausting(k, i)
    /\ h.pc = "count" => Counting(h, k, i)
    /\ h.pc \in BusyPc => Working(k, i)
    /\ h.pc \in SettledPc => Settling(k)

SameHold(h, k) == k.item = h.item /\ k.msg = h.msg
SameData(h, k) == k.attempt = h.attempt /\ k.failed = h.failed

Works(w, k) ==
    /\ worker[w].pc \in ItemPc
    /\ worker' = [worker EXCEPT ![w] = k]
    /\ k = Idle \/ (k.pc \in ItemPc /\ SameHold(worker[w], k))
    /\ RowMoves(worker[w].item)
    /\ Advances(worker[w], k, worker[w].item)

(* How a handler goes on. *)
LEMMA GotoIs ==
    ASSUME IInv, NEW w \in Worker, NEW pc, Goto(w, pc)
    PROVE  \E k : /\ worker' = [worker EXCEPT ![w] = k] /\ SameHold(worker[w], k)
                  /\ k.pc = pc /\ k.guarded = worker[w].guarded /\ SameData(worker[w], k)
<1>1. worker \in [Worker -> Handler] /\ worker[w] \in Handler
  BY DEF IInv, TypeOK
<1> DEFINE k == [worker[w] EXCEPT !.pc = pc]
<1>2. worker' = [worker EXCEPT ![w] = k]
  BY <1>1 DEF Goto
<1>3. k.pc = pc /\ k.guarded = worker[w].guarded /\ SameData(worker[w], k) /\ SameHold(worker[w], k)
  BY <1>1 DEF Handler, SameHold, SameData
<1> QED
  BY <1>2, <1>3

LEMMA RaiseIs ==
    ASSUME IInv, NEW w \in Worker, NEW code, Raise(w, code)
    PROVE  \E k : /\ worker' = [worker EXCEPT ![w] = k] /\ SameHold(worker[w], k)
                  /\ k.pc = IF worker[w].item = NoItem THEN "acatch" ELSE "catch"
                  /\ k.guarded = FALSE /\ SameData(worker[w], k)
<1>1. worker \in [Worker -> Handler] /\ worker[w] \in Handler
  BY DEF IInv, TypeOK
<1> DEFINE pc == IF worker[w].item = NoItem THEN "acatch" ELSE "catch"
           k == [worker[w] EXCEPT !.pc = pc, !.code = code, !.guarded = FALSE]
<1>2. worker' = [worker EXCEPT ![w] = k]
  BY <1>1 DEF Raise
<1>3. k.pc = pc /\ k.guarded = FALSE /\ SameData(worker[w], k) /\ SameHold(worker[w], k)
  BY <1>1 DEF Handler, SameHold, SameData
<1> QED
  BY <1>2, <1>3

LEMMA ThenIs ==
    ASSUME IInv, NEW w \in Worker, NEW k, Then(w, k)
    PROVE  \/ worker' = [worker EXCEPT ![w] = k]
           \/ "call" \in Fault /\ Raise(w, "transient")
BY DEF Then, Faulty

LEMMA ThenGoto ==
    ASSUME IInv, NEW w \in Worker, NEW pc, Then(w, [worker[w] EXCEPT !.pc = pc])
    PROVE  Goto(w, pc) \/ ("call" \in Fault /\ Raise(w, "transient"))
BY DEF Then, Faulty, Goto, IInv, TypeOK

(* A guarded call leads to pc, or its answer is lost. *)
LEMMA ThenGotoIs ==
    ASSUME IInv, NEW w \in Worker, NEW pc, Then(w, [worker[w] EXCEPT !.pc = pc])
    PROVE  \E k : /\ worker' = [worker EXCEPT ![w] = k]
                  /\ SameHold(worker[w], k) /\ SameData(worker[w], k)
                  /\ \/ k.pc = pc
                     \/ /\ "call" \in Fault /\ k.guarded = FALSE
                        /\ k.pc = IF worker[w].item = NoItem THEN "acatch" ELSE "catch"
<1>1. CASE Goto(w, pc)
  BY <1>1, GotoIs
<1>2. CASE "call" \in Fault /\ Raise(w, "transient")
  BY <1>2, RaiseIs
<1> QED
  BY <1>1, <1>2, ThenGoto

(* The file a handler works on. *)
LEMMA HandlerFile ==
    ASSUME IInv, NEW w \in Worker, worker[w].pc \in ItemPc
    PROVE  worker[w].item \in Item /\ worker[w].item # NoItem
BY At, ItemAssumption

LEMMA SameRowsMove == ASSUME IInv, UNCHANGED item, NEW i PROVE RowMoves(i)
BY DEF RowMoves, SameStatus

(* A row gets another status and perhaps another code. *)
LEMMA RowMovesTo ==
    ASSUME IInv, NEW i \in Item, NEW row, item' = [item EXCEPT ![i] = row],
           row.status = item[i].status \/ row.status \notin {"absent", "UPLOADING"},
           row.status = "FAILED" =>
              ~Retryable(row.code) \/ (item[i].status = "FAILED" /\ row.code = item[i].code)
    PROVE  RowMoves(i) /\ item'[i].status = row.status
BY DEF IInv, TypeOK, RowMoves, SameStatus

LEMMA StatusTo ==
    ASSUME IInv, NEW i \in Item, NEW status,
           item' = [item EXCEPT ![i] = [item[i] EXCEPT !.status = status]],
           status \notin {"absent", "UPLOADING", "FAILED"}
    PROVE  RowMoves(i) /\ item'[i].status = status
<1>1. item \in [Item -> Row] /\ item[i] \in Row
  BY DEF IInv, TypeOK, Row
<1> DEFINE row == [item[i] EXCEPT !.status = status]
<1>2. row.status = status
  BY <1>1 DEF Row
<1>3. item' = [item EXCEPT ![i] = row]
  OBVIOUS
<1> HIDE DEF row
<1> QED
  BY <1>2, <1>3, RowMovesTo

LEMMA StatusCodeTo ==
    ASSUME IInv, NEW i \in Item, NEW status, NEW code,
           item' = [item EXCEPT ![i] = [item[i] EXCEPT !.status = status, !.code = code]],
           status \notin {"absent", "UPLOADING"}, status = "FAILED" => ~Retryable(code)
    PROVE  RowMoves(i) /\ item'[i].status = status
<1>1. item \in [Item -> Row] /\ item[i] \in Row
  BY DEF IInv, TypeOK, Row
<1> DEFINE row == [item[i] EXCEPT !.status = status, !.code = code]
<1>2. row.status = status /\ row.code = code
  BY <1>1 DEF Row
<1>3. item' = [item EXCEPT ![i] = row]
  OBVIOUS
<1> HIDE DEF row
<1> QED
  BY <1>2, <1>3, RowMovesTo

-----------------------------------------------------------------------------
LEMMA LoadWorks == ASSUME IInv, NEW w \in Worker, Load(w) PROVE \E k : Works(w, k)
<1> DEFINE i == worker[w].item
           row == item[i]
<1>1. /\ worker \in [Worker -> Handler] /\ worker[w] \in Handler
      /\ worker[w].pc = "load" /\ UNCHANGED item
  BY DEF IInv, TypeOK, Load, rows
<1>2. PICK pc : /\ worker' = [worker EXCEPT ![w] = [worker[w] EXCEPT !.pc = pc, !.status = row.status,
                                             !.path = row.path, !.attempt = row.attempts + 1]]
                /\ \/ pc = "list" /\ row.status \in {"READY", "FAILED"}
                   \/ pc \in {"exhaust", "count"} /\ row.status # "READY"
  BY <1>1 DEF Load
<1>3. PICK k : worker' = [worker EXCEPT ![w] = k] /\ k.pc = pc /\ k.status = row.status
               /\ SameHold(worker[w], k)
  <2> DEFINE k == [worker[w] EXCEPT !.pc = pc, !.status = row.status,
                                    !.path = row.path, !.attempt = row.attempts + 1]
  <2>1. k.pc = pc /\ k.status = row.status /\ SameHold(worker[w], k)
    BY <1>1 DEF Handler, SameHold
  <2> QED
    BY <1>2, <2>1
<1>4. Loading(worker[w], k, i) /\ k.pc \in ItemPc
  BY <1>1, <1>2, <1>3 DEF Loading, Terminal, ItemPc
<1>5. RowMoves(i)
  BY <1>1, SameRowsMove
<1>6. Works(w, k)
  BY <1>1, <1>3, <1>4, <1>5 DEF Works, Advances, ItemPc, BusyPc, EarlyPc, SettledPc
<1> QED
  BY <1>6

LEMMA ExhaustWorks == ASSUME IInv, NEW w \in Worker, Exhaust(w) PROVE \E k : Works(w, k)
<1>1. worker[w].pc = "exhaust" /\ worker[w].pc \in ItemPc
  BY DEF Exhaust, ItemPc
<1>2. PICK i \in Item : i = worker[w].item
  BY <1>1, At
<1>3. PICK k : worker' = [worker EXCEPT ![w] = k] /\ k.pc = "list" /\ SameHold(worker[w], k)
  BY GotoIs DEF Exhaust
<1>4. RowMoves(i) /\ Exhausting(k, i)
  <2>1. CASE UNCHANGED item /\ "silent" \in Fault
    BY <1>3, <2>1, SameRowsMove DEF Exhausting
  <2>2. CASE ~(UNCHANGED item /\ "silent" \in Fault)
    <3> DEFINE row == [item[i] EXCEPT !.status = "FAILED", !.attempts = worker[w].attempt,
                                      !.code = "exhausted"]
    <3>1. item' = [item EXCEPT ![i] = row]
      BY <1>2, <2>2 DEF Exhaust, UpdateItem, Faulty
    <3>2. row.status = "FAILED" /\ row.code = "exhausted"
      BY DEF IInv, TypeOK
    <3> HIDE DEF row
    <3>3. RowMoves(i) /\ item'[i].status = "FAILED"
      BY <3>1, <3>2, RowMovesTo DEF Retryable
    <3> QED
      BY <1>3, <3>3 DEF Exhausting
  <2> QED
    BY <2>1, <2>2
<1>5. Works(w, k)
  BY <1>1, <1>2, <1>3, <1>4 DEF Works, Advances, ItemPc, BusyPc, EarlyPc, SettledPc
<1> QED
  BY <1>5

LEMMA CountWorks == ASSUME IInv, NEW w \in Worker, Count(w) PROVE \E k : Works(w, k)
<1>1. worker[w].pc = "count" /\ worker[w].pc \in ItemPc
  BY DEF Count, ItemPc
<1>2. PICK i \in Item : i = worker[w].item
  BY <1>1, At
<1>3. RowMoves(i) /\ SameStatus(i)
  <2>1. CASE UNCHANGED item
    BY <2>1, SameRowsMove DEF SameStatus
  <2>2. CASE ~UNCHANGED item
    <3> DEFINE row == [item[i] EXCEPT !.attempts = worker[w].attempt]
    <3>1. item' = [item EXCEPT ![i] = row]
      BY <1>2, <2>2 DEF Count, UpdateItem
    <3>2. row.status = item[i].status /\ row.code = item[i].code
      BY DEF IInv, TypeOK
    <3> HIDE DEF row
    <3> QED
      BY <3>1, <3>2, RowMovesTo DEF SameStatus
  <2> QED
    BY <2>1, <2>2
<1> DEFINE stage == Stage(worker[w].status)
<1>4. CASE stage = "idle"
  <2>1. worker' = [worker EXCEPT ![w] = Idle] /\ Idle.pc = "idle"
    BY <1>4 DEF Count, Idle
  <2>2. Works(w, Idle)
    BY <1>1, <1>2, <1>3, <2>1 DEF Works, Advances, Counting, ItemPc, BusyPc, EarlyPc, SettledPc
  <2> QED
    BY <2>2
<1>5. CASE stage # "idle"
  <2>1. stage \in {"validate", "extract", "ocr", "persist"} /\ worker[w].status \notin {"READY", "FAILED"}
    BY <1>5 DEF Stage
  <2>2. PICK k : worker' = [worker EXCEPT ![w] = k] /\ k.pc = stage /\ SameHold(worker[w], k)
    <3>1. worker[w] \in Handler
      BY DEF IInv, TypeOK
    <3> DEFINE k == [worker[w] EXCEPT !.pc = stage, !.guarded = TRUE]
    <3>2. k.pc = stage /\ SameHold(worker[w], k)
      BY <3>1 DEF Handler, SameHold
    <3>3. worker' = [worker EXCEPT ![w] = k]
      BY <1>5 DEF Count, IInv, TypeOK
    <3> HIDE DEF k
    <3> QED
      BY <3>2, <3>3
  <2> HIDE DEF stage
  <2>3. Works(w, k)
    BY <1>1, <1>2, <1>3, <2>1, <2>2 DEF Works, Advances, Counting, ItemPc, BusyPc, EarlyPc, SettledPc
  <2> QED
    BY <2>3
<1> QED
  BY <1>4, <1>5

(* A handler in the midst of its work goes on there. *)
LEMMA BusyGoes ==
    ASSUME IInv, NEW w \in Worker, worker[w].pc \in BusyPc,
           RowMoves(worker[w].item),
           SameStatus(worker[w].item) \/ ~EndsTerminal(worker[w].item),
           \/ \E pc \in BusyPc : Goto(w, pc) \/ Then(w, [worker[w] EXCEPT !.pc = pc])
           \/ \E code : Raise(w, code)
    PROVE  \E k : Works(w, k)
<1>1. worker[w].pc \in ItemPc
  BY DEF BusyPc
<1>2. worker[w].item # NoItem
  BY <1>1, HandlerFile
<1>3. PICK k : worker' = [worker EXCEPT ![w] = k] /\ k.pc \in BusyPc /\ SameHold(worker[w], k)
  <2>1. ASSUME NEW pc \in BusyPc, Goto(w, pc)
        PROVE  \E k : worker' = [worker EXCEPT ![w] = k] /\ k.pc \in BusyPc /\ SameHold(worker[w], k)
    BY <2>1, GotoIs
  <2>2. ASSUME NEW code, Raise(w, code)
        PROVE  \E k : worker' = [worker EXCEPT ![w] = k] /\ k.pc \in BusyPc /\ SameHold(worker[w], k)
    <3>1. "catch" \in BusyPc
      BY DEF BusyPc, ItemPc, EarlyPc, SettledPc
    <3> QED
      BY <1>2, <2>2, <3>1, RaiseIs
  <2> QED
    BY <2>1, <2>2, ThenGoto
<1>4. Working(k, worker[w].item)
  BY <1>3 DEF Working
<1>5. Works(w, k)
  BY <1>1, <1>3, <1>4 DEF Works, Advances, BusyPc, EarlyPc, SettledPc
<1> QED
  BY <1>5

LEMMA ValidateWorks == ASSUME IInv, NEW w \in Worker, Validate(w) PROVE \E k : Works(w, k)
<1>1. worker[w].pc \in BusyPc /\ "read" \in BusyPc
  BY DEF Validate, BusyPc, ItemPc, EarlyPc, SettledPc
<1>2. PICK i \in Item : i = worker[w].item
  BY <1>1, At DEF BusyPc
<1>3. RowMoves(i) /\ (SameStatus(i) \/ ~EndsTerminal(i))
  <2>1. CASE UNCHANGED item
    BY <2>1, SameRowsMove DEF SameStatus
  <2>2. CASE ~UNCHANGED item
    BY <1>2, <2>2, StatusTo DEF Validate, UpdateItem, EndsTerminal
  <2> QED
    BY <2>1, <2>2
<1> QED
  BY <1>1, <1>2, <1>3, BusyGoes DEF Validate

(* The steps that leave the row alone. *)
LEMMA TransferWorks ==
    ASSUME IInv, NEW w \in Worker,
           Read(w) \/ Probe(w) \/ Copy(w) \/ Remove(w) \/ Persist(w)
    PROVE  \E k : Works(w, k)
<1>1. /\ worker[w].pc \in BusyPc
      /\ {"probe", "verify", "remove", "copy", "ready"} \subseteq BusyPc
  BY DEF Read, Probe, Copy, Remove, Persist, BusyPc, ItemPc, EarlyPc, SettledPc
<1>2. RowMoves(worker[w].item) /\ SameStatus(worker[w].item)
  BY SameRowsMove DEF Read, Probe, Copy, Remove, Persist, rows, SameStatus
<1>3. Uploaded(w) \in BusyPc
  BY <1>1, UploadedPc
<1>4. \/ \E pc \in BusyPc : Goto(w, pc) \/ Then(w, [worker[w] EXCEPT !.pc = pc])
      \/ \E code : Raise(w, code)
  <2>1. CASE Read(w)
    BY <1>1, <2>1 DEF Read
  <2>2. CASE Probe(w)
    BY <1>1, <1>3, <2>2 DEF Probe
  <2>3. CASE Copy(w)
    BY <1>1, <1>3, <2>3 DEF Copy
  <2>4. CASE Remove(w)
    BY <1>1, <2>4 DEF Remove
  <2>5. CASE Persist(w)
    BY <1>1, <2>5 DEF Persist
  <2> QED
    BY <2>1, <2>2, <2>3, <2>4, <2>5
<1> QED
  BY <1>1, <1>2, <1>4, BusyGoes

LEMMA VerifyWorks == ASSUME IInv, NEW w \in Worker, Verify(w) PROVE \E k : Works(w, k)
<1>1. worker[w].pc \in BusyPc /\ "extract" \in BusyPc
  BY DEF Verify, BusyPc, ItemPc, EarlyPc, SettledPc
<1>2. PICK i \in Item : i = worker[w].item
  BY <1>1, At DEF BusyPc
<1>3. RowMoves(i) /\ ~EndsTerminal(i)
  <2> DEFINE row == [item[i] EXCEPT !.status = "EXTRACTING", !.path = "canonical", !.code = "none"]
  <2>1. item' = [item EXCEPT ![i] = row]
    BY <1>2 DEF Verify, IInv, TypeOK
  <2>2. row.status = "EXTRACTING"
    BY DEF IInv, TypeOK
  <2> HIDE DEF row
  <2> QED
    BY <2>1, <2>2, RowMovesTo DEF EndsTerminal
<1>4. PICK k : worker' = [worker EXCEPT ![w] = k] /\ k.pc \in BusyPc /\ SameHold(worker[w], k)
  <2> DEFINE h == [worker[w] EXCEPT !.pc = "extract", !.path = "canonical"]
  <2>1. Then(w, h)
    BY DEF Verify
  <2>2. worker[w] \in Handler /\ worker[w].item # NoItem
    BY <1>1, At, HandlerFile DEF BusyPc
  <2>3. h.pc = "extract" /\ SameHold(worker[w], h)
    BY <2>2 DEF Handler, SameHold
  <2>4. "catch" \in BusyPc
    BY DEF BusyPc, ItemPc, EarlyPc, SettledPc
  <2> HIDE DEF h
  <2> QED
    BY <1>1, <2>1, <2>2, <2>3, <2>4, ThenIs, RaiseIs
<1>5. Works(w, k)
  BY <1>1, <1>2, <1>3, <1>4 DEF Works, Advances, Working, BusyPc, EarlyPc, SettledPc
<1> QED
  BY <1>5

LEMMA ExtractWorks == ASSUME IInv, NEW w \in Worker, Extract(w) PROVE \E k : Works(w, k)
<1>1. worker[w].pc \in BusyPc /\ {"ocr", "persist"} \subseteq BusyPc
  BY DEF Extract, BusyPc, ItemPc, EarlyPc, SettledPc
<1>2. PICK i \in Item : i = worker[w].item
  BY <1>1, At DEF BusyPc
<1>3. CASE UNCHANGED item /\ \E code : Raise(w, code)
  BY <1>1, <1>2, <1>3, SameRowsMove, BusyGoes DEF SameStatus
<1>4. CASE ~(UNCHANGED item /\ \E code : Raise(w, code))
  <2>1. PICK status \in {"OCR", "CHUNKING"} :
           item' = [item EXCEPT ![i] = [item[i] EXCEPT !.status = status]]
    BY <1>2, <1>4 DEF Extract, IInv, TypeOK
  <2>2. RowMoves(i) /\ ~EndsTerminal(i)
    BY <2>1, StatusTo DEF EndsTerminal
  <2>3. \E pc \in BusyPc : Then(w, [worker[w] EXCEPT !.pc = pc])
    BY <1>1, <1>4 DEF Extract
  <2> QED
    BY <1>1, <1>2, <2>2, <2>3, BusyGoes
<1> QED
  BY <1>3, <1>4

LEMMA OcrWorks == ASSUME IInv, NEW w \in Worker, Ocr(w) PROVE \E k : Works(w, k)
<1>1. worker[w].pc \in BusyPc /\ "persist" \in BusyPc
  BY DEF Ocr, BusyPc, ItemPc, EarlyPc, SettledPc
<1>2. PICK i \in Item : i = worker[w].item
  BY <1>1, At DEF BusyPc
<1>3. CASE UNCHANGED item /\ \E code : Raise(w, code)
  BY <1>1, <1>2, <1>3, SameRowsMove, BusyGoes DEF SameStatus
<1>4. CASE ~(UNCHANGED item /\ \E code : Raise(w, code))
  <2>1. PICK status \in {"CHUNKING"}, code \in {"none"} :
           item' = [item EXCEPT ![i] = [item[i] EXCEPT !.status = status, !.code = code]]
    BY <1>2, <1>4 DEF Ocr, IInv, TypeOK
  <2>2. RowMoves(i) /\ ~EndsTerminal(i)
    BY <2>1, StatusCodeTo DEF EndsTerminal
  <2>3. \E pc \in BusyPc : Then(w, [worker[w] EXCEPT !.pc = pc])
    BY <1>1, <1>4 DEF Ocr
  <2> QED
    BY <1>1, <1>2, <2>2, <2>3, BusyGoes
<1> QED
  BY <1>3, <1>4

LEMMA ReadyWorks == ASSUME IInv, NEW w \in Worker, Ready(w) PROVE \E k : Works(w, k)
<1>1. worker[w].pc = "ready" /\ worker[w].pc \in BusyPc
  BY DEF Ready, BusyPc, ItemPc, EarlyPc, SettledPc
<1>2. PICK i \in Item : i = worker[w].item /\ i # NoItem
  BY <1>1, HandlerFile DEF BusyPc
<1>3. RowMoves(i) /\ EndsTerminal(i)
  <2>1. PICK status \in {"READY"} : item' = [item EXCEPT ![i] = [item[i] EXCEPT !.status = status]]
    BY <1>2 DEF Ready, IInv, TypeOK
  <2> QED
    BY <2>1, StatusTo DEF EndsTerminal
<1>4. PICK k : /\ worker' = [worker EXCEPT ![w] = k] /\ SameHold(worker[w], k)
               /\ k.pc = "list" \/ CallLost(k)
  BY <1>2, ThenGotoIs DEF Ready, CallLost
<1>5. Works(w, k)
  BY <1>1, <1>2, <1>3, <1>4 DEF Works, Advances, Working, CallLost, BusyPc, EarlyPc, SettledPc, ItemPc
<1> QED
  BY <1>5

LEMMA CatchWorks == ASSUME IInv, NEW w \in Worker, Catch(w) PROVE \E k : Works(w, k)
<1>1. worker[w].pc = "catch" /\ worker[w].pc \in BusyPc
  BY DEF Catch, BusyPc, ItemPc, EarlyPc, SettledPc
<1>2. PICK i \in Item : i = worker[w].item
  BY <1>1, At DEF BusyPc
<1> DEFINE terminal == worker[w].code = "deterministic" \/ worker[w].attempt >= MaxAttempts
<1>3. PICK k : /\ worker' = [worker EXCEPT ![w] = k]
               /\ IF terminal THEN k.pc = "list" /\ SameHold(worker[w], k) ELSE k = Idle
  <2>1. CASE terminal
    <3>1. Goto(w, "list")
      BY <2>1 DEF Catch, Goto, IInv, TypeOK
    <3> QED
      BY <2>1, <3>1, GotoIs
  <2>2. CASE ~terminal
    <3>1. worker' = [worker EXCEPT ![w] = Idle]
      BY <2>2 DEF Catch
    <3> QED
      BY <2>2, <3>1
  <2> QED
    BY <2>1, <2>2
<1>4. CASE UNCHANGED item /\ "silent" \in Fault
  <2>1. RowMoves(i) /\ Working(k, i)
    BY <1>3, <1>4, SameRowsMove DEF Working, SameStatus, Idle
  <2>2. Works(w, k)
    BY <1>1, <1>2, <1>3, <2>1 DEF Works, Advances, BusyPc, EarlyPc, SettledPc, ItemPc
  <2> QED
    BY <2>2
<1>5. CASE ~(UNCHANGED item /\ "silent" \in Fault)
  <2>1. PICK status, code :
           /\ item' = [item EXCEPT ![i] = [item[i] EXCEPT !.status = status, !.code = code]]
           /\ IF terminal THEN status = "FAILED" /\ ~Retryable(code) ELSE status = "QUEUED"
    <3> DEFINE spent == worker[w].attempt >= MaxAttempts
               status == IF terminal THEN "FAILED" ELSE "QUEUED"
               code == IF spent /\ worker[w].code # "deterministic" THEN "exhausted"
                       ELSE worker[w].code
    <3>1. item' = [item EXCEPT ![i] = [item[i] EXCEPT !.status = status, !.code = code]]
      BY <1>2, <1>5 DEF Catch, UpdateItem, Faulty
    <3>2. IF terminal THEN status = "FAILED" /\ ~Retryable(code) ELSE status = "QUEUED"
      BY DEF Retryable
    <3> HIDE DEF status, code
    <3> QED
      BY <3>1, <3>2
  <2> HIDE DEF terminal
  <2>2. RowMoves(i) /\ item'[i].status = status
    BY <2>1, StatusCodeTo
  <2>3. Working(k, i)
    BY <1>3, <2>1, <2>2 DEF Working, EndsTerminal, Idle
  <2>4. Works(w, k)
    BY <1>1, <1>2, <1>3, <2>2, <2>3 DEF Works, Advances, BusyPc, EarlyPc, SettledPc, ItemPc
  <2> QED
    BY <2>4
<1> QED
  BY <1>4, <1>5

(* A handler past its result leaves the row alone. *)
LEMMA SettledGoes ==
    ASSUME IInv, NEW w \in Worker, worker[w].pc \in SettledPc, UNCHANGED item,
           NEW k, worker' = [worker EXCEPT ![w] = k],
           k = Idle \/ (k.pc \in SettledPc \cup {"catch"} /\ SameHold(worker[w], k)),
           k.pc = "catch" => "call" \in Fault
    PROVE  Works(w, k)
<1>1. worker[w].pc \in ItemPc /\ RowMoves(worker[w].item)
  BY SameRowsMove DEF SettledPc, ItemPc
<1>2. Settling(k)
  BY DEF Settling, CallLost, Idle, SettledPc
<1> QED
  BY <1>1, <1>2 DEF Works, Advances, BusyPc, EarlyPc, SettledPc, ItemPc

LEMMA ListWorks ==
    ASSUME IInv, NEW w \in Worker, List(w)
    PROVE  \E k : Works(w, k) /\ k.pc = "decide" /\ k.terminal = AllTerminal
<1>1. worker[w] \in Handler /\ worker[w].pc \in SettledPc
  BY DEF IInv, TypeOK, List, SettledPc
<1> DEFINE k == [worker[w] EXCEPT !.pc = "decide", !.terminal = AllTerminal]
<1>2. worker' = [worker EXCEPT ![w] = k] /\ UNCHANGED item
  BY DEF List, IInv, TypeOK, rows
<1>3. k.pc = "decide" /\ SameHold(worker[w], k) /\ k.terminal = AllTerminal
  BY <1>1 DEF Handler, SameHold
<1> HIDE DEF k
<1>4. Works(w, k)
  BY <1>1, <1>2, <1>3, SettledGoes DEF SettledPc
<1> QED
  BY <1>3, <1>4

LEMMA DecideWorks ==
    ASSUME IInv, NEW w \in Worker, Decide(w)
    PROVE  \E k : /\ Works(w, k) /\ k.terminal = worker[w].terminal
                  /\ \/ sub.response /\ k.pc = "ack"
                     \/ k.pc = "send"
                     \/ k.pc = "mark" /\ (k.terminal => sub.status = "ANALYZING")
<1>1. worker[w] \in Handler /\ worker[w].pc \in SettledPc
  BY DEF IInv, TypeOK, Decide, SettledPc
<1> DEFINE due == worker[w].terminal /\ sub.status # "ANALYZING"
           k == IF sub.response THEN [worker[w] EXCEPT !.pc = "ack", !.guarded = FALSE]
                ELSE [worker[w] EXCEPT !.pc = IF due THEN "send" ELSE "mark"]
<1>2. worker' = [worker EXCEPT ![w] = k] /\ UNCHANGED item
  BY <1>1 DEF Decide, IInv, TypeOK, rows
<1>3. /\ SameHold(worker[w], k) /\ k.terminal = worker[w].terminal
      /\ k.pc = IF sub.response THEN "ack" ELSE IF due THEN "send" ELSE "mark"
  BY <1>1 DEF Handler, SameHold
<1> HIDE DEF k
<1>4. Works(w, k)
  BY <1>1, <1>2, <1>3, SettledGoes DEF SettledPc
<1> QED
  BY <1>3, <1>4

LEMMA SendWorks ==
    ASSUME IInv, NEW w \in Worker, Send(w)
    PROVE  \E k : Works(w, k) /\ (k.pc = "mark" \/ CallLost(k))
<1>1. worker[w].pc \in SettledPc /\ UNCHANGED item
  BY DEF Send, SettledPc, rows
<1>2. worker[w].item # NoItem
  BY <1>1, HandlerFile DEF SettledPc, ItemPc
<1>3. PICK k : /\ worker' = [worker EXCEPT ![w] = k] /\ SameHold(worker[w], k)
               /\ k.pc = "mark" \/ CallLost(k)
  BY <1>2, ThenGotoIs DEF Send, CallLost
<1>4. Works(w, k)
  BY <1>1, <1>3, SettledGoes DEF SettledPc, CallLost
<1> QED
  BY <1>3, <1>4

LEMMA MarkWorks ==
    ASSUME IInv, NEW w \in Worker, Mark(w)
    PROVE  \E k : Works(w, k) /\ (k.pc = "ack" \/ CallLost(k))
<1>1. worker[w] \in Handler /\ worker[w].pc \in SettledPc /\ UNCHANGED item
  BY DEF Mark, SettledPc, IInv, TypeOK
<1>2. worker[w].item # NoItem
  BY <1>1, HandlerFile DEF SettledPc, ItemPc
<1> DEFINE h == [worker[w] EXCEPT !.pc = "ack", !.guarded = FALSE]
<1>3. h.pc = "ack" /\ SameHold(worker[w], h) /\ Then(w, h)
  BY <1>1 DEF Handler, SameHold, Mark
<1> HIDE DEF h
<1>4. PICK k : /\ worker' = [worker EXCEPT ![w] = k] /\ SameHold(worker[w], k)
               /\ k.pc = "ack" \/ CallLost(k)
  BY <1>2, <1>3, ThenIs, RaiseIs DEF CallLost
<1>5. Works(w, k)
  BY <1>1, <1>4, SettledGoes DEF SettledPc, CallLost
<1> QED
  BY <1>4, <1>5

LEMMA AckWorks == ASSUME IInv, NEW w \in Worker, Ack(w) PROVE Works(w, Idle)
<1>1. worker[w].pc \in SettledPc /\ UNCHANGED item /\ worker' = [worker EXCEPT ![w] = Idle]
  BY DEF Ack, SettledPc, rows
<1> QED
  BY <1>1, SettledGoes DEF Idle

(* Faults of a handler of a file. *)
LEMMA StopWorks ==
    ASSUME IInv, NEW w \in Worker, Stop(w), worker[w].pc \in ItemPc PROVE Works(w, Idle)
<1>1. UNCHANGED item /\ worker' = [worker EXCEPT ![w] = Idle] /\ Idle.pc = "idle"
  BY DEF Stop, rows, Idle
<1>2. Advances(worker[w], Idle, worker[w].item)
  BY <1>1 DEF Advances, Loading, Exhausting, Counting, Working, Settling, SameStatus
<1> QED
  BY <1>1, <1>2, SameRowsMove DEF Works

LEMMA CallFailsWorks ==
    ASSUME IInv, NEW w \in Worker, CallFails(w), worker[w].pc \in ItemPc
    PROVE  \E k : Works(w, k) /\ k.pc = "catch"
<1>1. UNCHANGED item /\ "call" \in Fault /\ worker[w].item # NoItem
  BY HandlerFile DEF CallFails, rows, Faulty
<1>2. PICK k : worker' = [worker EXCEPT ![w] = k] /\ k.pc = "catch" /\ SameHold(worker[w], k)
  BY <1>1, RaiseIs DEF CallFails
<1>3. Advances(worker[w], k, worker[w].item)
  BY <1>1, <1>2 DEF Advances, Loading, Exhausting, Counting, Working, Settling, CallLost, SameStatus
<1>4. Works(w, k)
  BY <1>1, <1>2, <1>3, SameRowsMove DEF Works, ItemPc
<1> QED
  BY <1>2, <1>4

(* Every step of a handler of a file. *)
LEMMA FileWorks ==
    ASSUME IInv, NEW w \in Worker,
           ProcessItem(w) \/ (worker[w].pc \in ItemPc /\ (CallFails(w) \/ Stop(w)))
    PROVE  \E k : Works(w, k)
BY LoadWorks, ExhaustWorks, CountWorks, ValidateWorks, TransferWorks, VerifyWorks,
   ExtractWorks, OcrWorks, ReadyWorks, CatchWorks, ListWorks, DecideWorks, SendWorks,
   MarkWorks, AckWorks, StopWorks, CallFailsWorks DEF ProcessItem

-----------------------------------------------------------------------------
(* What a step of the analysis does *)

AnalysisPc == Pc \ (ItemPc \cup {"idle"})
TryPc == {"respond", "record"}

Guarded(h) == h.guarded => h.pc \in TryPc \cup ItemPc

Answers(w, k) ==
    /\ worker[w].pc \in AnalysisPc
    /\ UNCHANGED item
    /\ worker' = [worker EXCEPT ![w] = k]
    /\ k = Idle \/ (k.pc \in AnalysisPc /\ SameHold(worker[w], k) /\ Guarded(k))

Failures == {i \in Item : item[i].status = "FAILED"}

LEMMA AnalysisItem ==
    ASSUME IInv, NEW w \in Worker, worker[w].pc \in AnalysisPc PROVE worker[w].item = NoItem
BY DEF IInv, Backed, HandlerBacked, AnalysisPc

LEMMA LoadSubmissionAnswers ==
    ASSUME IInv, NEW w \in Worker, Guarded(worker[w]), LoadSubmission(w)
    PROVE  \E k : /\ Answers(w, k) /\ k.attempt = sub.attempts + 1
                  /\ k.pc = IF sub.response THEN "aack" ELSE "aitems"
<1>1. worker[w] \in Handler /\ worker[w].pc = "aload" /\ UNCHANGED item
  BY DEF IInv, TypeOK, LoadSubmission, rows
<1> DEFINE pc == IF sub.response THEN "aack" ELSE "aitems"
           k == [worker[w] EXCEPT !.pc = pc, !.attempt = sub.attempts + 1]
<1>2. worker' = [worker EXCEPT ![w] = k]
  BY DEF LoadSubmission, IInv, TypeOK
<1>3. /\ k.pc = pc /\ k.attempt = sub.attempts + 1 /\ SameHold(worker[w], k)
      /\ k.guarded = worker[w].guarded
  BY <1>1 DEF Handler, SameHold
<1> HIDE DEF k
<1>4. Answers(w, k)
  BY <1>1, <1>2, <1>3 DEF Answers, Guarded, AnalysisPc, TryPc, ItemPc, Pc
<1> QED
  BY <1>3, <1>4

LEMMA LoadItemsAnswers ==
    ASSUME IInv, NEW w \in Worker, Guarded(worker[w]), LoadItems(w)
    PROVE  \E k : /\ Answers(w, k)
                  /\ \/ k = Idle
                     \/ /\ AllTerminal /\ k.failed = Failures /\ k.attempt = worker[w].attempt
                        /\ k.pc = IF k.attempt > MaxAnalysisAttempts THEN "aexhaust" ELSE "acount"
<1>1. worker[w] \in Handler /\ worker[w].pc = "aitems" /\ UNCHANGED item
  BY DEF IInv, TypeOK, LoadItems, rows
<1>2. CASE ~AllTerminal
  <2>1. Answers(w, Idle)
    BY <1>1, <1>2 DEF LoadItems, Answers, AnalysisPc, ItemPc, Pc
  <2> QED
    BY <2>1
<1>3. CASE AllTerminal
  <2> DEFINE pc == IF worker[w].attempt > MaxAnalysisAttempts THEN "aexhaust" ELSE "acount"
             k == [worker[w] EXCEPT !.pc = pc, !.failed = Failures]
  <2>1. worker' = [worker EXCEPT ![w] = k]
    BY <1>3 DEF LoadItems, IInv, TypeOK, Failures
  <2> HIDE DEF Failures
  <2>2. /\ k.pc = pc /\ k.failed = Failures /\ k.attempt = worker[w].attempt
        /\ SameHold(worker[w], k) /\ k.guarded = worker[w].guarded
    BY <1>1 DEF Handler, SameHold
  <2> HIDE DEF k
  <2>3. Answers(w, k)
    BY <1>1, <2>1, <2>2 DEF Answers, Guarded, AnalysisPc, TryPc, ItemPc, Pc
  <2> QED
    BY <1>3, <2>2, <2>3
<1> QED
  BY <1>2, <1>3

LEMMA ExhaustAnalysisAnswers ==
    ASSUME IInv, NEW w \in Worker, Guarded(worker[w]), ExhaustAnalysis(w)
    PROVE  \E k : Answers(w, k) /\ k.pc = "aack"
<1>1. PICK k : /\ worker' = [worker EXCEPT ![w] = k] /\ SameHold(worker[w], k)
               /\ k.pc = "aack" /\ k.guarded = worker[w].guarded
  BY GotoIs DEF ExhaustAnalysis
<1>2. Answers(w, k)
  BY <1>1 DEF ExhaustAnalysis, Answers, Guarded, AnalysisPc, TryPc, ItemPc, Pc
<1> QED
  BY <1>1, <1>2

LEMMA CountAnalysisAnswers ==
    ASSUME IInv, NEW w \in Worker, CountAnalysis(w)
    PROVE  \E k : Answers(w, k) /\ k.pc = "respond" /\ SameData(worker[w], k)
<1>1. worker[w] \in Handler
  BY DEF IInv, TypeOK
<1> DEFINE k == [worker[w] EXCEPT !.pc = "respond", !.guarded = TRUE]
<1>2. worker' = [worker EXCEPT ![w] = k]
  BY DEF CountAnalysis, IInv, TypeOK
<1>3. k.pc = "respond" /\ SameData(worker[w], k) /\ SameHold(worker[w], k)
  BY <1>1 DEF Handler, SameHold, SameData
<1> HIDE DEF k
<1>4. Answers(w, k)
  BY <1>2, <1>3 DEF CountAnalysis, Answers, Guarded, AnalysisPc, TryPc, ItemPc, Pc
<1> QED
  BY <1>3, <1>4

(* A call of the analysis fails or loses its answer. *)
AnalysisLost(w, k) == k.pc = "acatch" /\ "call" \in Fault /\ SameData(worker[w], k)

LEMMA RespondAnswers ==
    ASSUME IInv, NEW w \in Worker, Respond(w)
    PROVE  \E k : Answers(w, k) /\ ((k.pc = "record" /\ SameData(worker[w], k)) \/ AnalysisLost(w, k))
<1>1. worker[w].item = NoItem
  BY AnalysisItem DEF Respond, AnalysisPc, ItemPc, Pc
<1>2. PICK k : /\ worker' = [worker EXCEPT ![w] = k] /\ SameHold(worker[w], k)
               /\ SameData(worker[w], k)
               /\ k.pc = "record" \/ (k.pc = "acatch" /\ "call" \in Fault /\ k.guarded = FALSE)
  BY <1>1, ThenGotoIs, ZenonT(20) DEF Respond
<1>3. Answers(w, k)
  BY <1>2 DEF Respond, rows, Answers, Guarded, AnalysisPc, TryPc, ItemPc, Pc
<1> QED
  BY <1>2, <1>3 DEF AnalysisLost

LEMMA RecordAnswers ==
    ASSUME IInv, NEW w \in Worker, Record(w)
    PROVE  \E k : Answers(w, k) /\ (k.pc = "aack" \/ AnalysisLost(w, k))
<1>1. worker[w].item = NoItem /\ worker[w] \in Handler
  BY AnalysisItem DEF Record, AnalysisPc, ItemPc, Pc, IInv, TypeOK
<1> DEFINE h == [worker[w] EXCEPT !.pc = "aack", !.guarded = FALSE]
<1>2. Then(w, h) /\ h.pc = "aack" /\ h.guarded = FALSE /\ SameHold(worker[w], h)
  BY <1>1 DEF Record, Handler, SameHold
<1> HIDE DEF h
<1>3. PICK k : /\ worker' = [worker EXCEPT ![w] = k] /\ SameHold(worker[w], k) /\ k.guarded = FALSE
               /\ k.pc = "aack" \/ AnalysisLost(w, k)
  BY <1>1, <1>2, ThenIs, RaiseIs DEF AnalysisLost
<1>4. Answers(w, k)
  BY <1>3 DEF Record, Answers, Guarded, AnalysisLost, AnalysisPc, TryPc, ItemPc, Pc
<1> QED
  BY <1>3, <1>4

LEMMA CatchAnalysisAnswers ==
    ASSUME IInv, NEW w \in Worker, Guarded(worker[w]), CatchAnalysis(w)
    PROVE  \E k : /\ Answers(w, k)
                  /\ IF worker[w].attempt >= MaxAnalysisAttempts THEN k.pc = "aack" ELSE k = Idle
<1>1. CASE worker[w].attempt >= MaxAnalysisAttempts
  <2>1. Goto(w, "aack")
    BY <1>1 DEF CatchAnalysis, Goto, IInv, TypeOK
  <2>2. PICK k : /\ worker' = [worker EXCEPT ![w] = k] /\ SameHold(worker[w], k)
                 /\ k.pc = "aack" /\ k.guarded = worker[w].guarded
    BY <2>1, GotoIs
  <2>3. Answers(w, k)
    BY <2>2 DEF CatchAnalysis, Answers, Guarded, AnalysisPc, TryPc, ItemPc, Pc
  <2> QED
    BY <1>1, <2>2, <2>3
<1>2. CASE ~(worker[w].attempt >= MaxAnalysisAttempts)
  <2>1. Answers(w, Idle)
    BY <1>2 DEF CatchAnalysis, Answers, AnalysisPc, ItemPc, Pc
  <2> QED
    BY <1>2, <2>1
<1> QED
  BY <1>1, <1>2

LEMMA AckAnalysisAnswers == ASSUME IInv, NEW w \in Worker, AckAnalysis(w) PROVE Answers(w, Idle)
BY DEF AckAnalysis, Answers, AnalysisPc, ItemPc, Pc, rows

LEMMA StopAnswers ==
    ASSUME IInv, NEW w \in Worker, Stop(w), worker[w].pc \in AnalysisPc PROVE Answers(w, Idle)
BY DEF Stop, Answers, rows

LEMMA CallFailsAnswers ==
    ASSUME IInv, NEW w \in Worker, Guarded(worker[w]), CallFails(w), worker[w].pc \notin ItemPc
    PROVE  worker[w].pc \in TryPc /\ \E k : Answers(w, k) /\ AnalysisLost(w, k)
<1>1. worker[w].pc \in TryPc /\ worker[w].pc \in AnalysisPc
  BY DEF CallFails, Guarded, TryPc, AnalysisPc, ItemPc, Pc
<1>2. worker[w].item = NoItem
  BY <1>1, AnalysisItem
<1>3. PICK k : /\ worker' = [worker EXCEPT ![w] = k] /\ SameHold(worker[w], k) /\ k.guarded = FALSE
               /\ AnalysisLost(w, k)
  BY <1>2, RaiseIs DEF CallFails, AnalysisLost, Faulty
<1>4. Answers(w, k)
  BY <1>1, <1>3 DEF CallFails, rows, Answers, Guarded, AnalysisLost, AnalysisPc, TryPc, ItemPc, Pc
<1> QED
  BY <1>1, <1>3, <1>4

LEMMA AnalysisAnswers ==
    ASSUME IInv, NEW w \in Worker, Guarded(worker[w]),
           Analyse(w) \/ (worker[w].pc \notin ItemPc /\ (CallFails(w) \/ Stop(w)))
    PROVE  \E k : Answers(w, k)
<1>1. Stop(w) /\ worker[w].pc \notin ItemPc => worker[w].pc \in AnalysisPc
  BY DEF Stop, AnalysisPc, IInv, TypeOK, Handler
<1> QED
  BY <1>1, LoadSubmissionAnswers, LoadItemsAnswers, ExhaustAnalysisAnswers, CountAnalysisAnswers,
     RespondAnswers, RecordAnswers, CatchAnalysisAnswers, AckAnalysisAnswers, StopAnswers,
     CallFailsAnswers DEF Analyse

-----------------------------------------------------------------------------
(* What every step keeps in order *)

Exists(i) == item[i].status # "absent"

(* The rows are inserted once and before anything is done with them; a row  *)
(* that failed is not one the gateway retries; and a handler is inside its  *)
(* try block only where the code has one.                                   *)
Orderly ==
    /\ sub.status = "absent" => \A g \in Gate : gate[g].pc # "items"
    /\ \A g \in Gate : gate[g].pc = "items" =>
          /\ \A i \in Item : ~Exists(i)
          /\ \A o \in Gate : gate[o].pc = "items" => o = g
    /\ sub.status = "absent" => \A i \in Item : ~Exists(i)
    /\ \A i \in Item : item[i].status = "FAILED" => ~Retryable(item[i].code)
    /\ \A i \in Item : files[i] # <<>> => Exists(i)
    /\ \A g \in Gate : gate[g].pc \in {"requeue", "enqueue"} => Exists(gate[g].item)
    /\ \A g \in Gate : gate[g].pc = "requeue" => gate[g].from = "UPLOADING"
    /\ \A w \in Worker : worker[w].pc \in ItemPc => Exists(worker[w].item)
    /\ \A w \in Worker : Guarded(worker[w])

RowsInOrder ==
    \A i \in Item :
        /\ (item'[i].status = "absent") <=> (item[i].status = "absent")
        /\ item'[i].status = "FAILED" => ~Retryable(item'[i].code)

FilesInOrder == \A i \in Item : files'[i] # <<>> => files[i] # <<>> \/ Exists(i)

RequestInOrder(r) ==
    /\ r.pc # "items"
    /\ r.pc \in {"requeue", "enqueue"} => r.item \in Item /\ Exists(r.item)
    /\ r.pc = "requeue" => r.from = "UPLOADING"

RequestsInOrder == \A g \in Gate : gate'[g] = gate[g] \/ \E r : gate'[g] = r /\ RequestInOrder(r)

HandlerInOrder(h) == Guarded(h) /\ (h.pc \in ItemPc => h.item \in Item /\ Exists(h.item))

HandlersInOrder ==
    \A w \in Worker : worker'[w] = worker[w] \/ \E h : worker'[w] = h /\ HandlerInOrder(h)

SubInOrder == sub'.status = "absent" => sub.status = "absent"

LEMMA OrderKept ==
    ASSUME IInv, Orderly, RowsInOrder, FilesInOrder, RequestsInOrder, HandlersInOrder, SubInOrder
    PROVE  Orderly'
<1>1. ASSUME NEW i \in Item PROVE Exists(i)' <=> Exists(i)
  BY DEF RowsInOrder, Exists
<1>2. ASSUME NEW g \in Gate
      PROVE  /\ (gate[g].pc = "items")' => gate[g].pc = "items" /\ gate'[g] = gate[g]
             /\ (gate[g].pc \in {"requeue", "enqueue"} => Exists(gate[g].item))'
             /\ (gate[g].pc = "requeue" => gate[g].from = "UPLOADING")'
  <2>1. CASE gate'[g] = gate[g]
    <3>1. gate[g].pc \in {"requeue", "enqueue"} => gate[g].item \in Item /\ Exists(gate[g].item)
      BY DEF Orderly, IInv, Backed, RequestBacked
    <3> QED
      BY <1>1, <2>1, <3>1 DEF Orderly, Exists
  <2>2. ASSUME NEW r, gate'[g] = r, RequestInOrder(r)
        PROVE  /\ (gate[g].pc = "items")' => gate[g].pc = "items" /\ gate'[g] = gate[g]
               /\ (gate[g].pc \in {"requeue", "enqueue"} => Exists(gate[g].item))'
               /\ (gate[g].pc = "requeue" => gate[g].from = "UPLOADING")'
    BY <1>1, <2>2 DEF RequestInOrder, Exists
  <2> QED
    BY <2>1, <2>2 DEF RequestsInOrder
<1>3. ASSUME NEW w \in Worker
      PROVE  Guarded(worker[w])' /\ (worker[w].pc \in ItemPc => Exists(worker[w].item))'
  <2>1. CASE worker'[w] = worker[w]
    <3>1. worker[w].pc \in ItemPc => worker[w].item \in Item /\ Exists(worker[w].item)
      BY At DEF Orderly
    <3> QED
      BY <1>1, <2>1, <3>1 DEF Orderly, Exists, Guarded
  <2>2. ASSUME NEW h, worker'[w] = h, HandlerInOrder(h)
        PROVE  Guarded(worker[w])' /\ (worker[w].pc \in ItemPc => Exists(worker[w].item))'
    BY <1>1, <2>2 DEF HandlerInOrder, Exists, Guarded
  <2> QED
    BY <2>1, <2>2 DEF HandlersInOrder
<1>4. ASSUME NEW i \in Item PROVE (files[i] # <<>> => Exists(i))'
  BY <1>1 DEF FilesInOrder, Orderly
<1>5. \A i \in Item : (item[i].status = "FAILED" => ~Retryable(item[i].code))'
  BY DEF RowsInOrder, Retryable
<1>6. /\ (sub.status = "absent" => \A g \in Gate : gate[g].pc # "items")'
      /\ (sub.status = "absent" => \A i \in Item : ~Exists(i))'
  BY <1>1, <1>2 DEF SubInOrder, Orderly
<1>7. ASSUME NEW g \in Gate, (gate[g].pc = "items")'
      PROVE  /\ \A i \in Item : ~Exists(i)'
             /\ \A o \in Gate : (gate[o].pc = "items" => o = g)'
  BY <1>1, <1>2, <1>7 DEF Orderly
<1> QED
  BY <1>2, <1>3, <1>4, <1>5, <1>6, <1>7 DEF Orderly

(* What a step leaves alone. *)
LEMMA SameRowsInOrder == ASSUME Orderly, UNCHANGED item PROVE RowsInOrder
BY DEF RowsInOrder, Orderly, Retryable

LEMMA SameFilesInOrder == ASSUME UNCHANGED files PROVE FilesInOrder
BY DEF FilesInOrder

LEMMA SameRequestsInOrder == ASSUME UNCHANGED gate PROVE RequestsInOrder
BY DEF RequestsInOrder

LEMMA SameHandlersInOrder == ASSUME UNCHANGED worker PROVE HandlersInOrder
BY DEF HandlersInOrder

LEMMA HandlerBecomesInOrder ==
    ASSUME IInv, NEW w \in Worker, NEW h, worker' = [worker EXCEPT ![w] = h], HandlerInOrder(h)
    PROVE  HandlersInOrder
BY DEF HandlersInOrder, IInv, TypeOK

LEMMA RequestBecomesInOrder ==
    ASSUME IInv, NEW g \in Gate, NEW r, gate' = [gate EXCEPT ![g] = r], RequestInOrder(r)
    PROVE  RequestsInOrder
BY DEF RequestsInOrder, IInv, TypeOK

LEMMA IdleInOrder == HandlerInOrder(Idle) /\ RequestInOrder(NoRequest)
BY DEF HandlerInOrder, Guarded, Idle, ItemPc, RequestInOrder, NoRequest

(* A handler of a file, or of the analysis. *)
LEMMA WorksInOrder ==
    ASSUME IInv, Orderly, NEW w \in Worker, NEW k, Works(w, k) PROVE RowsInOrder /\ HandlersInOrder
<1>1. PICK i \in Item : i = worker[w].item /\ Exists(i)
  BY At DEF Works, Orderly
<1>2. RowsInOrder
  BY <1>1 DEF Works, RowMoves, SameStatus, RowsInOrder, Orderly, Exists, Retryable
<1>3. HandlerInOrder(k)
  BY <1>1, IdleInOrder DEF Works, HandlerInOrder, SameHold, Guarded
<1> QED
  BY <1>2, <1>3, HandlerBecomesInOrder DEF Works

LEMMA AnswersInOrder ==
    ASSUME IInv, Orderly, NEW w \in Worker, NEW k, Answers(w, k) PROVE RowsInOrder /\ HandlersInOrder
<1>1. HandlerInOrder(k)
  BY IdleInOrder DEF Answers, HandlerInOrder, AnalysisPc
<1> QED
  BY <1>1, SameRowsInOrder, HandlerBecomesInOrder DEF Answers

(* What the steps of the handlers do to the queues and the submission. *)
LEMMA FileSteps ==
    ASSUME IInv, NEW w \in Worker, ProcessItem(w)
    PROVE  /\ UNCHANGED gate
           /\ UNCHANGED files \/ Ack(w)
           /\ UNCHANGED sub \/ Mark(w)
BY DEF ProcessItem, Load, Exhaust, Count, Validate, Read, Probe, Copy, Remove, Verify, Extract,
       Ocr, Persist, Ready, Catch, List, Decide, Send, Mark, Ack, rows, queues

LEMMA AnalysisSteps ==
    ASSUME IInv, NEW w \in Worker, Analyse(w)
    PROVE  UNCHANGED <<files, gate>> /\ SubInOrder
<1>1. sub \in [status : SubStatus, attempts : Nat, response : BOOLEAN]
  BY DEF IInv, TypeOK
<1>2. UNCHANGED <<files, gate>>
  BY DEF Analyse, LoadSubmission, LoadItems, ExhaustAnalysis, CountAnalysis, Respond, Record,
         CatchAnalysis, AckAnalysis, queues
<1>3. SubInOrder
  BY <1>1 DEF Analyse, LoadSubmission, LoadItems, ExhaustAnalysis, CountAnalysis, Respond, Record,
         CatchAnalysis, AckAnalysis, rows, SubInOrder, UpdateSub
<1> QED
  BY <1>2, <1>3

LEMMA ProcessItemOrder == ASSUME IInv, Orderly, NEW w \in Worker, ProcessItem(w) PROVE Orderly'
<1>1. RowsInOrder /\ HandlersInOrder
  BY FileWorks, WorksInOrder
<1>2. RequestsInOrder
  BY FileSteps, SameRequestsInOrder
<1>3. FilesInOrder
  <2>1. CASE UNCHANGED files
    BY <2>1, SameFilesInOrder
  <2>2. CASE Ack(w)
    <3>1. worker[w].pc \in ItemPc
      BY <2>2 DEF Ack, ItemPc
    <3>2. PICK i \in Item : i = worker[w].item /\ Exists(i)
      BY <3>1, At DEF Orderly
    <3>3. \A j \in Item \ {i} : files'[j] = files[j]
      BY <2>2, <3>2 DEF Ack, IInv, TypeOK
    <3> QED
      BY <3>2, <3>3 DEF FilesInOrder
  <2> QED
    BY <2>1, <2>2, FileSteps
<1>4. SubInOrder
  BY FileSteps DEF SubInOrder, Mark, IInv, TypeOK
<1> QED
  BY <1>1, <1>2, <1>3, <1>4, OrderKept

LEMMA AnalyseOrder == ASSUME IInv, Orderly, NEW w \in Worker, Analyse(w) PROVE Orderly'
<1>1. RowsInOrder /\ HandlersInOrder
  BY AnalysisAnswers, AnswersInOrder DEF Orderly
<1> QED
  BY <1>1, AnalysisSteps, SameFilesInOrder, SameRequestsInOrder, OrderKept

LEMMA FaultOrder ==
    ASSUME IInv, Orderly, NEW w \in Worker, CallFails(w) \/ Stop(w) PROVE Orderly'
<1>1. RowsInOrder /\ HandlersInOrder
  BY FileWorks, AnalysisAnswers, WorksInOrder, AnswersInOrder DEF Orderly
<1>2. UNCHANGED <<sub, files, gate>>
  BY DEF CallFails, Stop, rows, queues
<1> QED
  BY <1>1, <1>2, SameFilesInOrder, SameRequestsInOrder, OrderKept DEF SubInOrder

LEMMA ClaimOrder == ASSUME IInv, Orderly, NEW w \in Worker, Claim(w) PROVE Orderly'
<1>1. RowsInOrder /\ RequestsInOrder /\ SubInOrder
  BY SameRowsInOrder, SameRequestsInOrder DEF Claim, ClaimItem, ClaimAnalysis, rows, SubInOrder
<1>2. ASSUME NEW i \in Item, NEW m, ClaimItem(w, i, m) PROVE FilesInOrder /\ HandlersInOrder
  <2>1. files[i] # <<>> /\ Exists(i)
    BY <1>2 DEF ClaimItem, Orderly
  <2>2. \A j \in Item \ {i} : files'[j] = files[j]
    BY <1>2 DEF ClaimItem, IInv, TypeOK
  <2>3. FilesInOrder
    BY <2>1, <2>2 DEF FilesInOrder
  <2> DEFINE h == [Idle EXCEPT !.pc = "load", !.item = i, !.msg = m]
  <2>4. worker' = [worker EXCEPT ![w] = h] /\ h.pc = "load" /\ h.item = i /\ ~h.guarded
    BY <1>2 DEF ClaimItem, Idle
  <2> HIDE DEF h
  <2>5. HandlerInOrder(h)
    BY <2>1, <2>4 DEF HandlerInOrder, Guarded
  <2> QED
    BY <2>3, <2>4, <2>5, HandlerBecomesInOrder
<1>3. ASSUME NEW m, ClaimAnalysis(w, m) PROVE FilesInOrder /\ HandlersInOrder
  <2> DEFINE h == [Idle EXCEPT !.pc = "aload", !.msg = m]
  <2>1. worker' = [worker EXCEPT ![w] = h] /\ h.pc = "aload" /\ ~h.guarded
    BY <1>3 DEF ClaimAnalysis, Idle
  <2> HIDE DEF h
  <2>2. HandlerInOrder(h)
    BY <2>1 DEF HandlerInOrder, Guarded, ItemPc
  <2>3. UNCHANGED files
    BY <1>3 DEF ClaimAnalysis
  <2> QED
    BY <2>1, <2>2, <2>3, SameFilesInOrder, HandlerBecomesInOrder
<1> QED
  BY <1>1, <1>2, <1>3, OrderKept DEF Claim

LEMMA LapseOrder == ASSUME IInv, Orderly, Lapse PROVE Orderly'
<1>1. RowsInOrder /\ RequestsInOrder /\ SubInOrder /\ HandlersInOrder
  BY SameRowsInOrder, SameRequestsInOrder, SameHandlersInOrder
  DEF Lapse, LapseItem, LapseAnalysis, rows, SubInOrder
<1>2. FilesInOrder
  <2>1. ASSUME NEW i \in Item, NEW m, LapseItem(i, m) PROVE FilesInOrder
    <3>1. files[i] # <<>> /\ \A j \in Item \ {i} : files'[j] = files[j]
      BY <2>1 DEF LapseItem, IInv, TypeOK
    <3> QED
      BY <3>1 DEF FilesInOrder
  <2>2. ASSUME NEW m, LapseAnalysis(m) PROVE FilesInOrder
    BY <2>2, SameFilesInOrder DEF LapseAnalysis
  <2> QED
    BY <2>1, <2>2 DEF Lapse
<1> QED
  BY <1>1, <1>2, OrderKept

-----------------------------------------------------------------------------
(* The gateway keeps the order. *)

LEMMA CreateOrder == ASSUME IInv, Orderly, NEW g \in Gate, Create(g) PROVE Orderly'
<1>1. RowsInOrder /\ FilesInOrder /\ HandlersInOrder
  BY SameRowsInOrder, SameFilesInOrder, SameHandlersInOrder DEF Create, queues
<1>2. gate \in [Gate -> Request] /\ gate[g].pc = "idle"
  BY DEF IInv, TypeOK, Create
<1>3. CASE sub.status # "absent"
  <2> DEFINE r == [gate[g] EXCEPT !.pc = "slots"]
  <2>1. gate' = [gate EXCEPT ![g] = r] /\ UNCHANGED sub
    BY <1>2, <1>3 DEF Create
  <2>2. r.pc = "slots"
    BY <1>2 DEF Request
  <2> HIDE DEF r
  <2> QED
    BY <1>1, <2>1, <2>2, RequestBecomesInOrder, OrderKept DEF RequestInOrder, SubInOrder
<1>4. CASE sub.status = "absent"
  <2> DEFINE r == [gate[g] EXCEPT !.pc = "items"]
  <2>1. gate' = [gate EXCEPT ![g] = r] /\ sub' = [sub EXCEPT !.status = "UPLOADING"]
    BY <1>2, <1>4 DEF Create
  <2>2. r.pc = "items"
    BY <1>2 DEF Request
  <2> HIDE DEF r
  <2>3. sub'.status # "absent" /\ UNCHANGED <<item, files, worker>>
    BY <2>1 DEF IInv, TypeOK, Create, queues
  <2>4. gate'[g].pc = "items" /\ \A o \in Gate \ {g} : gate'[o] = gate[o] /\ gate[o].pc # "items"
    BY <1>2, <1>4, <2>1, <2>2 DEF Orderly
  <2> QED
    BY <1>4, <2>3, <2>4 DEF Orderly, Exists, Guarded
<1> QED
  BY <1>3, <1>4

LEMMA InsertItemsOrder == ASSUME IInv, Orderly, NEW g \in Gate, InsertItems(g) PROVE Orderly'
<1>1. gate \in [Gate -> Request] /\ item \in [Item -> Row] /\ gate[g].pc = "items"
  BY DEF IInv, TypeOK, Row, InsertItems
<1>2. PICK r : gate' = [gate EXCEPT ![g] = r] /\ r.pc = "slots"
  <2> DEFINE r == [gate[g] EXCEPT !.pc = "slots"]
  <2>1. gate' = [gate EXCEPT ![g] = r] /\ r.pc = "slots"
    BY <1>1 DEF InsertItems, Request
  <2> QED
    BY <2>1
<1>3. \A i \in Item : item'[i].status = "UPLOADING"
  BY <1>1 DEF InsertItems, Row
<1>4. \A o \in Gate : gate'[o].pc # "items" /\ (o # g => gate'[o] = gate[o])
  BY <1>1, <1>2 DEF Orderly
<1>5. /\ UNCHANGED <<sub, files, worker>>
      /\ sub.status # "absent"
  BY <1>1 DEF InsertItems, queues, Orderly
<1>6. \A o \in Gate : gate'[o].pc \in {"requeue", "enqueue"} => gate'[o] = gate[o] /\ gate[o].item \in Item
  BY <1>1, <1>2, <1>4 DEF IInv, Backed, RequestBacked
<1>7. \A w \in Worker : worker[w].pc \in ItemPc => worker[w].item \in Item
  BY At
<1> QED
  BY <1>3, <1>4, <1>5, <1>6, <1>7 DEF Orderly, Exists, Guarded

LEMMA ReadSlotsOrder == ASSUME IInv, Orderly, NEW g \in Gate, ReadSlots(g) PROVE Orderly'
<1>1. RowsInOrder /\ FilesInOrder /\ HandlersInOrder /\ SubInOrder
  BY SameRowsInOrder, SameFilesInOrder, SameHandlersInOrder DEF ReadSlots, queues, rows, SubInOrder
<1>2. PICK r : gate' = [gate EXCEPT ![g] = r] /\ r.pc \in {"idle", "paths"}
  <2> DEFINE pathless == {i \in Inserted : item[i].path = "none"}
             r == IF pathless = {} THEN NoRequest
                  ELSE [NoRequest EXCEPT !.pc = "paths", !.todo = pathless]
  <2>1. r.pc \in {"idle", "paths"}
    BY DEF NoRequest
  <2> QED
    BY <2>1 DEF ReadSlots
<1>3. RequestInOrder(r)
  BY <1>2 DEF RequestInOrder
<1> QED
  BY <1>1, <1>2, <1>3, RequestBecomesInOrder, OrderKept

LEMMA AssignPathOrder == ASSUME IInv, Orderly, NEW g \in Gate, AssignPath(g) PROVE Orderly'
<1>1. FilesInOrder /\ HandlersInOrder /\ SubInOrder
  BY SameFilesInOrder, SameHandlersInOrder DEF AssignPath, queues, SubInOrder
<1>2. gate \in [Gate -> Request] /\ item \in [Item -> Row]
  BY DEF IInv, TypeOK, Row
<1>3. PICK i \in gate[g].todo :
         /\ item' = [item EXCEPT ![i].path = "incoming"]
         /\ gate' = [gate EXCEPT ![g] = IF gate[g].todo = {i} THEN NoRequest
                                        ELSE [gate[g] EXCEPT !.todo = @ \ {i}]]
  BY DEF AssignPath
<1>4. RowsInOrder
  BY <1>2, <1>3 DEF Row, RowsInOrder, Orderly, Retryable
<1>5. PICK r : gate' = [gate EXCEPT ![g] = r] /\ r.pc \in {"idle", "paths"}
  <2>1. [gate[g] EXCEPT !.todo = @ \ {i}].pc = "paths" /\ NoRequest.pc = "idle"
    BY <1>2 DEF Request, NoRequest, AssignPath
  <2> QED
    BY <1>3, <2>1
<1>6. RequestInOrder(r)
  BY <1>5 DEF RequestInOrder
<1> QED
  BY <1>1, <1>4, <1>5, <1>6, RequestBecomesInOrder, OrderKept

LEMMA StartRequeueOrder ==
    ASSUME IInv, Orderly, NEW g \in Gate, NEW i \in Item, StartRequeue(g, i) PROVE Orderly'
<1>1. RowsInOrder /\ FilesInOrder /\ HandlersInOrder /\ SubInOrder
  BY SameRowsInOrder, SameFilesInOrder, SameHandlersInOrder
  DEF StartRequeue, queues, rows, SubInOrder
<1>2. item[i].status = "UPLOADING"
  BY DEF StartRequeue, MayRequeue, Orderly
<1> DEFINE r == [NoRequest EXCEPT !.pc = "requeue", !.item = i, !.from = item[i].status]
<1>3. gate' = [gate EXCEPT ![g] = r] /\ r.pc = "requeue" /\ r.item = i /\ r.from = item[i].status
  BY DEF StartRequeue, NoRequest
<1> HIDE DEF r
<1>4. RequestInOrder(r)
  BY <1>2, <1>3 DEF RequestInOrder, Exists
<1> QED
  BY <1>1, <1>3, <1>4, RequestBecomesInOrder, OrderKept

(* A request that is to queue an item. *)
LEMMA Requeuing ==
    ASSUME IInv, Orderly, NEW g \in Gate, gate[g].pc \in {"requeue", "enqueue"}
    PROVE  gate[g].item \in Item /\ Exists(gate[g].item)
BY DEF IInv, Backed, RequestBacked, Orderly

LEMMA RequeueIs ==
    ASSUME IInv, Orderly, NEW g \in Gate, Requeue(g)
    PROVE  \E r, i : /\ gate' = [gate EXCEPT ![g] = r] /\ r.pc = "enqueue" /\ r.item = i
                     /\ gate[g].item = i /\ i \in Item /\ Exists(i)
                     /\ \A j \in Item \ {i} : item'[j] = item[j]
                     /\ IF item[i].status = "UPLOADING" THEN item'[i].status = "QUEUED"
                        ELSE item' = item
<1>1. gate \in [Gate -> Request] /\ item \in [Item -> Row] /\ gate[g].from = "UPLOADING"
  BY DEF IInv, TypeOK, Row, Requeue, Orderly
<1>2. PICK i \in Item : i = gate[g].item /\ Exists(i)
  BY Requeuing DEF Requeue
<1> DEFINE r == [gate[g] EXCEPT !.pc = "enqueue"]
<1>3. gate' = [gate EXCEPT ![g] = r] /\ r.pc = "enqueue" /\ r.item = i
  BY <1>1, <1>2 DEF Requeue, Request
<1> HIDE DEF r
<1>4. CASE item[i].status # "UPLOADING"
  <2>1. item' = item
    BY <1>1, <1>2, <1>4 DEF Requeue
  <2> QED
    BY <1>2, <1>3, <1>4, <2>1
<1>5. CASE item[i].status = "UPLOADING"
  <2> DEFINE row == [item[i] EXCEPT !.status = "QUEUED",
                                    !.code = IF item[i].status = "FAILED" THEN "none" ELSE @]
  <2>1. item' = [item EXCEPT ![i] = row]
    BY <1>1, <1>2, <1>5 DEF Requeue
  <2>2. row.status = "QUEUED"
    BY <1>1 DEF Row
  <2> HIDE DEF row
  <2>3. item'[i].status = "QUEUED" /\ \A j \in Item \ {i} : item'[j] = item[j]
    BY <1>1, <2>1, <2>2
  <2> QED
    BY <1>2, <1>3, <1>5, <2>3
<1> QED
  BY <1>4, <1>5

LEMMA RequeueOrder == ASSUME IInv, Orderly, NEW g \in Gate, Requeue(g) PROVE Orderly'
<1>1. FilesInOrder /\ HandlersInOrder /\ SubInOrder
  BY SameFilesInOrder, SameHandlersInOrder DEF Requeue, queues, SubInOrder
<1>2. PICK r, i : /\ gate' = [gate EXCEPT ![g] = r] /\ r.pc = "enqueue" /\ r.item = i
                  /\ gate[g].item = i /\ i \in Item /\ Exists(i)
                  /\ \A j \in Item \ {i} : item'[j] = item[j]
                  /\ IF item[i].status = "UPLOADING" THEN item'[i].status = "QUEUED"
                     ELSE item' = item
  BY RequeueIs
<1>3. RowsInOrder
  BY <1>2 DEF RowsInOrder, Orderly, Retryable
<1>4. RequestInOrder(r)
  BY <1>2 DEF RequestInOrder
<1> QED
  BY <1>1, <1>2, <1>3, <1>4, RequestBecomesInOrder, OrderKept

LEMMA EnqueueOrder == ASSUME IInv, Orderly, NEW g \in Gate, Enqueue(g) PROVE Orderly'
<1>1. RowsInOrder /\ HandlersInOrder /\ SubInOrder
  BY SameRowsInOrder, SameHandlersInOrder DEF Enqueue, rows, SubInOrder
<1>2. PICK i \in Item : i = gate[g].item /\ Exists(i)
  BY Requeuing DEF Enqueue
<1>3. \A j \in Item \ {i} : files'[j] = files[j]
  BY <1>2 DEF Enqueue, IInv, TypeOK
<1>4. FilesInOrder
  BY <1>2, <1>3 DEF FilesInOrder
<1>5. RequestsInOrder
  BY IdleInOrder, RequestBecomesInOrder DEF Enqueue
<1> QED
  BY <1>1, <1>4, <1>5, OrderKept

LEMMA AbandonOrder == ASSUME IInv, Orderly, NEW g \in Gate, Abandon(g) PROVE Orderly'
<1>1. RowsInOrder /\ FilesInOrder /\ HandlersInOrder /\ SubInOrder
  BY SameRowsInOrder, SameFilesInOrder, SameHandlersInOrder DEF Abandon, queues, rows, SubInOrder
<1>2. RequestsInOrder
  BY IdleInOrder, RequestBecomesInOrder DEF Abandon
<1> QED
  BY <1>1, <1>2, OrderKept

LEMMA UnchangedOrder == ASSUME IInv, Orderly, UNCHANGED <<rows, queues, worker, gate>> PROVE Orderly'
<1>1. RowsInOrder /\ FilesInOrder /\ RequestsInOrder /\ HandlersInOrder /\ SubInOrder
  BY SameRowsInOrder, SameFilesInOrder, SameRequestsInOrder, SameHandlersInOrder
  DEF rows, queues, SubInOrder
<1> QED
  BY <1>1, OrderKept

LEMMA InitOrder == Init => Orderly
BY DEF Init, Orderly, Exists, Guarded, Idle, NoRequest, ItemPc

LEMMA NextOrder == IInv /\ Orderly /\ [Next]_vars => Orderly'
<1> SUFFICES ASSUME IInv, Orderly, [Next]_vars PROVE Orderly'
  OBVIOUS
<1>1. CASE UNCHANGED vars
  BY <1>1, UnchangedOrder DEF vars, rows, queues
<1>2. ASSUME NEW g \in Gate, Gateway(g) \/ Abandon(g) PROVE Orderly'
  BY <1>2, CreateOrder, InsertItemsOrder, ReadSlotsOrder, AssignPathOrder, StartRequeueOrder,
     RequeueOrder, EnqueueOrder, AbandonOrder DEF Gateway
<1>3. ASSUME NEW i \in Item, Upload(i) PROVE Orderly'
  BY <1>3, UnchangedOrder DEF Upload
<1>4. ASSUME NEW w \in Worker,
             Claim(w) \/ ProcessItem(w) \/ Analyse(w) \/ CallFails(w) \/ Stop(w)
      PROVE  Orderly'
  BY <1>4, ClaimOrder, ProcessItemOrder, AnalyseOrder, FaultOrder
<1>5. CASE Lapse
  BY <1>5, LapseOrder
<1> QED
  BY <1>1, <1>2, <1>3, <1>4, <1>5 DEF Next

LEMMA OrderInvariance == Spec => [](IInv /\ Orderly)
<1>1. Init => IInv /\ Orderly
  BY InitBacked, InitOrder
<1>2. (IInv /\ Orderly) /\ [Next]_vars => (IInv /\ Orderly)'
  BY NextKeeps, NextOrder
<1> QED
  BY <1>1, <1>2, PTL DEF Spec

-----------------------------------------------------------------------------
(* No two handlers of one message, as long as none outlives its claim *)

Busy(w) == worker[w].pc # "idle"

Exclusive ==
    /\ \A w \in Worker : Busy(w) =>
          /\ worker[w].msg \in DOMAIN Queue(worker[w].item)
          /\ Queue(worker[w].item)[worker[w].msg] = "claimed"
    /\ \A v, w \in Worker : Busy(v) /\ Busy(w) /\ SameHold(worker[v], worker[w]) => v = w

(* Message m of i is claimed after the step. *)
NextQueue(i) == IF i = NoItem THEN analyses' ELSE files'[i]
StaysClaimed(i, m) == m \in DOMAIN NextQueue(i) /\ NextQueue(i)[m] = "claimed"

(* The messages of i are there after the step, as they were. *)
Keeps(i) == \A m \in DOMAIN Queue(i) : m \in DOMAIN NextQueue(i) /\ NextQueue(i)[m] = Queue(i)[m]

LEMMA HolderItem ==
    ASSUME IInv, NEW w \in Worker
    PROVE  worker[w].item \in Item \cup {NoItem} /\ (worker[w].pc \in ItemPc <=> worker[w].item # NoItem)
BY ItemAssumption DEF IInv, Backed, HandlerBacked

LEMMA ExclusiveKept ==
    ASSUME IInv, Exclusive, NEW w \in Worker, NEW k, worker' = [worker EXCEPT ![w] = k],
           \A v \in Worker \ {w} : Busy(v) => StaysClaimed(worker[v].item, worker[v].msg),
           k.pc # "idle" =>
              /\ StaysClaimed(k.item, k.msg)
              /\ \A v \in Worker \ {w} : Busy(v) => ~SameHold(k, worker[v])
    PROVE  Exclusive'
<1>1. worker'[w] = k /\ \A v \in Worker \ {w} : worker'[v] = worker[v]
  BY DEF IInv, TypeOK
<1>2. ASSUME NEW v \in Worker, Busy(v)'
      PROVE  /\ (worker[v].msg \in DOMAIN Queue(worker[v].item))'
             /\ (Queue(worker[v].item)[worker[v].msg] = "claimed")'
  BY <1>1, <1>2 DEF Busy, StaysClaimed, NextQueue, Queue
<1>3. ASSUME NEW u \in Worker, NEW v \in Worker,
             Busy(u)', Busy(v)', SameHold(worker[u], worker[v])'
      PROVE  u = v
  BY <1>1, <1>3 DEF Busy, SameHold, Exclusive
<1> QED
  BY <1>2, <1>3 DEF Exclusive

(* A handler goes on or ends, and its queues keep what they have. *)
LEMMA ExclusiveGoesOn ==
    ASSUME IInv, Exclusive, NEW w \in Worker, NEW k, worker' = [worker EXCEPT ![w] = k],
           Busy(w), k = Idle \/ SameHold(worker[w], k),
           \A i \in Item \cup {NoItem} : Keeps(i)
    PROVE  Exclusive'
<1>1. ASSUME NEW v \in Worker, Busy(v) PROVE StaysClaimed(worker[v].item, worker[v].msg)
  <2>1. PICK i \in Item \cup {NoItem} : i = worker[v].item
    BY HolderItem
  <2> QED
    BY <1>1, <2>1 DEF Exclusive, Keeps, StaysClaimed
<1>2. Idle.pc = "idle"
  BY DEF Idle
<1> QED
  BY <1>1, <1>2, ExclusiveKept DEF Exclusive, SameHold

LEMMA SameQueuesKeep == ASSUME UNCHANGED queues, NEW i PROVE Keeps(i)
BY DEF queues, Keeps, Queue, NextQueue

LEMMA ExclusiveSame ==
    ASSUME IInv, Exclusive, UNCHANGED worker, \A i \in Item \cup {NoItem} : Keeps(i)
    PROVE  Exclusive'
<1>1. ASSUME NEW v \in Worker, Busy(v) PROVE StaysClaimed(worker[v].item, worker[v].msg)
  <2>1. PICK i \in Item \cup {NoItem} : i = worker[v].item
    BY HolderItem
  <2> QED
    BY <1>1, <2>1 DEF Exclusive, Keeps, StaysClaimed
<1>2. \A v \in Worker : (Busy(v)' <=> Busy(v)) /\ worker'[v] = worker[v]
  BY DEF Busy
<1>3. ASSUME NEW v \in Worker, Busy(v)
      PROVE  /\ worker'[v].msg \in DOMAIN NextQueue(worker'[v].item)
             /\ NextQueue(worker'[v].item)[worker'[v].msg] = "claimed"
  BY <1>1, <1>2, <1>3 DEF StaysClaimed
<1>4. \A v \in Worker : Busy(v)' =>
         /\ (worker[v].msg \in DOMAIN Queue(worker[v].item))'
         /\ (Queue(worker[v].item)[worker[v].msg] = "claimed")'
  BY <1>2, <1>3 DEF Queue, NextQueue
<1>5. \A u, v \in Worker : Busy(u)' /\ Busy(v)' /\ SameHold(worker[u], worker[v])' => u = v
  BY <1>2 DEF Exclusive, SameHold
<1> QED
  BY <1>4, <1>5 DEF Exclusive

(* A message is appended. *)
LEMMA EnqueueAppends ==
    ASSUME IInv, NEW g \in Gate, Enqueue(g), NEW i \in Item \cup {NoItem} PROVE Keeps(i)
<1>1. files \in [Item -> Seq(Message)] /\ UNCHANGED analyses
  BY DEF IInv, TypeOK, Enqueue
<1>2. PICK j \in Item : j = gate[g].item
  BY DEF IInv, Backed, RequestBacked, Enqueue
<1>3. files' = [files EXCEPT ![j] = Append(files[j], "visible")]
  BY <1>1, <1>2 DEF Enqueue
<1>4. files[j] \in Seq(Message)
  BY <1>1
<1>5. CASE i = NoItem
  BY <1>1, <1>5 DEF Keeps, Queue, NextQueue
<1>6. CASE i # NoItem /\ i # j
  BY <1>1, <1>3, <1>6 DEF Keeps, Queue, NextQueue
<1>7. CASE i # NoItem /\ i = j
  <2>1. files'[i] = Append(files[i], "visible") /\ files[i] \in Seq(Message)
    BY <1>1, <1>3, <1>4, <1>7
  <2>2. \A m \in DOMAIN files[i] :
           m \in DOMAIN Append(files[i], "visible") /\ Append(files[i], "visible")[m] = files[i][m]
    BY <2>1
  <2> QED
    BY <1>7, <2>1, <2>2 DEF Keeps, Queue, NextQueue
<1> QED
  BY <1>5, <1>6, <1>7

LEMMA SendAppends ==
    ASSUME IInv, NEW w \in Worker, Send(w), NEW i \in Item \cup {NoItem} PROVE Keeps(i)
<1>1. analyses \in Seq(Message) /\ analyses' = Append(analyses, "visible") /\ UNCHANGED files
  BY DEF IInv, TypeOK, Send
<1>2. \A m \in DOMAIN analyses : m \in DOMAIN analyses' /\ analyses'[m] = analyses[m]
  BY <1>1
<1> QED
  BY <1>1, <1>2 DEF Keeps, Queue, NextQueue

(* One message changes its state. *)
LEMMA SetMessage ==
    ASSUME NEW queue \in Seq(Message), NEW m, NEW status
    PROVE  /\ DOMAIN [queue EXCEPT ![m] = status] = DOMAIN queue
           /\ \A n \in DOMAIN queue : n # m => [queue EXCEPT ![m] = status][n] = queue[n]
           /\ m \in DOMAIN queue => [queue EXCEPT ![m] = status][m] = status
OBVIOUS

(* Message m of i gets a state, and nothing else changes in the queues. *)
Sets(i, m, status) ==
    /\ DOMAIN NextQueue(i) = DOMAIN Queue(i)
    /\ \A n \in DOMAIN Queue(i) : n # m => NextQueue(i)[n] = Queue(i)[n]
    /\ m \in DOMAIN Queue(i) => NextQueue(i)[m] = status
    /\ \A j \in (Item \cup {NoItem}) \ {i} : NextQueue(j) = Queue(j)

LEMMA FileSets ==
    ASSUME IInv, NEW i \in Item, NEW m, NEW status, UNCHANGED analyses,
           files' = [files EXCEPT ![i][m] = status]
    PROVE  Sets(i, m, status)
<1>1. files \in [Item -> Seq(Message)] /\ i # NoItem
  BY ItemAssumption DEF IInv, TypeOK
<1>2. files[i] \in Seq(Message) /\ files'[i] = [files[i] EXCEPT ![m] = status]
  BY <1>1
<1>3. \A j \in Item \ {i} : files'[j] = files[j]
  BY <1>1
<1> QED
  BY <1>1, <1>2, <1>3, SetMessage DEF Sets, Queue, NextQueue

LEMMA AnalysisSets ==
    ASSUME IInv, NEW m, NEW status, UNCHANGED files, analyses' = [analyses EXCEPT ![m] = status]
    PROVE  Sets(NoItem, m, status)
<1>1. analyses \in Seq(Message)
  BY DEF IInv, TypeOK
<1> QED
  BY <1>1, SetMessage DEF Sets, Queue, NextQueue

(* Whoever holds another message still holds it. *)
LEMMA OthersStay ==
    ASSUME IInv, Exclusive, NEW i, NEW m, NEW status, Sets(i, m, status),
           NEW v \in Worker, Busy(v), ~(worker[v].item = i /\ worker[v].msg = m)
    PROVE  StaysClaimed(worker[v].item, worker[v].msg)
<1>1. PICK j \in Item \cup {NoItem} : j = worker[v].item
  BY HolderItem
<1> QED
  BY <1>1 DEF Exclusive, Sets, StaysClaimed

LEMMA ReleaseExclusive ==
    ASSUME IInv, Exclusive, NEW w \in Worker, NEW i, NEW m, NEW status, Sets(i, m, status),
           worker' = [worker EXCEPT ![w] = Idle], Busy(w), worker[w].item = i, worker[w].msg = m
    PROVE  Exclusive'
<1>1. ASSUME NEW v \in Worker \ {w}, Busy(v) PROVE StaysClaimed(worker[v].item, worker[v].msg)
  <2>1. ~(worker[v].item = i /\ worker[v].msg = m)
    BY <1>1 DEF Exclusive, SameHold
  <2> QED
    BY <1>1, <2>1, OthersStay
<1>2. Idle.pc = "idle"
  BY DEF Idle
<1> QED
  BY <1>1, <1>2, ExclusiveKept

LEMMA AckSets ==
    ASSUME IInv, NEW w \in Worker, Ack(w)
    PROVE  Sets(worker[w].item, worker[w].msg, "deleted") /\ worker[w].item \in Item /\ Busy(w)
<1>1. worker[w].item \in Item /\ Busy(w)
  BY At DEF Ack, ItemPc, Busy
<1> QED
  BY <1>1, FileSets DEF Ack

LEMMA AckAnalysisSets ==
    ASSUME IInv, NEW w \in Worker, AckAnalysis(w)
    PROVE  Sets(NoItem, worker[w].msg, "deleted") /\ worker[w].item = NoItem /\ Busy(w)
<1>1. worker[w].item = NoItem /\ Busy(w)
  BY AnalysisItem DEF AckAnalysis, AnalysisPc, Pc, ItemPc, Busy
<1> QED
  BY <1>1, AnalysisSets DEF AckAnalysis

(* A visible message, which nobody holds, is claimed. *)
LEMMA ClaimIs ==
    ASSUME IInv, NEW w \in Worker, Claim(w)
    PROVE  \E i, m, k : /\ i \in Item \cup {NoItem} /\ m \in DOMAIN Queue(i) /\ Queue(i)[m] = "visible"
                        /\ Sets(i, m, "claimed")
                        /\ ~Busy(w) /\ worker' = [worker EXCEPT ![w] = k]
                        /\ k.item = i /\ k.msg = m /\ k.pc = IF i = NoItem THEN "aload" ELSE "load"
<1>1. ASSUME NEW i \in Item, NEW m, ClaimItem(w, i, m)
      PROVE  \E k : /\ m \in DOMAIN Queue(i) /\ Queue(i)[m] = "visible" /\ Sets(i, m, "claimed")
                    /\ ~Busy(w) /\ worker' = [worker EXCEPT ![w] = k]
                    /\ k.item = i /\ k.msg = m /\ k.pc = IF i = NoItem THEN "aload" ELSE "load"
  <2> DEFINE k == [Idle EXCEPT !.pc = "load", !.item = i, !.msg = m]
  <2>1. worker' = [worker EXCEPT ![w] = k] /\ k.pc = "load" /\ k.item = i /\ k.msg = m
    BY <1>1 DEF ClaimItem, Idle
  <2> HIDE DEF k
  <2>2. Sets(i, m, "claimed")
    BY <1>1, FileSets DEF ClaimItem
  <2>3. i # NoItem
    BY ItemAssumption
  <2> QED
    BY <1>1, <2>1, <2>2, <2>3 DEF ClaimItem, Queue, Busy
<1>2. ASSUME NEW m, ClaimAnalysis(w, m)
      PROVE  \E k : /\ m \in DOMAIN Queue(NoItem) /\ Queue(NoItem)[m] = "visible"
                    /\ Sets(NoItem, m, "claimed")
                    /\ ~Busy(w) /\ worker' = [worker EXCEPT ![w] = k]
                    /\ k.item = NoItem /\ k.msg = m /\ k.pc = "aload"
  <2> DEFINE k == [Idle EXCEPT !.pc = "aload", !.msg = m]
  <2>1. worker' = [worker EXCEPT ![w] = k] /\ k.pc = "aload" /\ k.item = NoItem /\ k.msg = m
    BY <1>2 DEF ClaimAnalysis, Idle
  <2> HIDE DEF k
  <2>2. Sets(NoItem, m, "claimed")
    BY <1>2, AnalysisSets DEF ClaimAnalysis
  <2> QED
    BY <1>2, <2>1, <2>2 DEF ClaimAnalysis, Queue, Busy
<1>3. CASE \E i \in Item, m \in 1..MaxSends : ClaimItem(w, i, m)
  BY <1>1, <1>3
<1>4. CASE \E m \in 1..MaxSends : ClaimAnalysis(w, m)
  BY <1>2, <1>4
<1> QED
  BY <1>3, <1>4 DEF Claim

LEMMA ClaimExclusive == ASSUME IInv, Exclusive, NEW w \in Worker, Claim(w) PROVE Exclusive'
<1>1. PICK i, m, k :
         /\ i \in Item \cup {NoItem} /\ m \in DOMAIN Queue(i) /\ Queue(i)[m] = "visible"
         /\ Sets(i, m, "claimed")
         /\ ~Busy(w) /\ worker' = [worker EXCEPT ![w] = k]
         /\ k.item = i /\ k.msg = m
  BY ClaimIs
<1>2. ASSUME NEW v \in Worker, Busy(v) PROVE ~(worker[v].item = i /\ worker[v].msg = m)
  BY <1>1, <1>2 DEF Exclusive
<1>3. StaysClaimed(i, m)
  BY <1>1 DEF StaysClaimed, Sets
<1> QED
  BY <1>1, <1>2, <1>3, OthersStay, ExclusiveKept, ZenonT(20) DEF SameHold

(* A message that is held does not lapse. *)
LEMMA LapseIs ==
    ASSUME IInv, Lapse, "overrun" \notin Fault
    PROVE  \E i, m : /\ i \in Item \cup {NoItem} /\ Queue(i)[m] = "claimed" /\ Sets(i, m, "visible")
                     /\ \A v \in Worker : Busy(v) => ~(worker[v].item = i /\ worker[v].msg = m)
                     /\ UNCHANGED worker
<1>1. ASSUME NEW i, NEW m, MayLapse(i, m)
      PROVE  \A v \in Worker : Busy(v) => ~(worker[v].item = i /\ worker[v].msg = m)
  BY <1>1 DEF MayLapse, Held, Faulty, Busy
<1>2. ASSUME NEW i \in Item, NEW m, LapseItem(i, m)
      PROVE  /\ Queue(i)[m] = "claimed" /\ Sets(i, m, "visible") /\ UNCHANGED worker
             /\ \A v \in Worker : Busy(v) => ~(worker[v].item = i /\ worker[v].msg = m)
  BY <1>1, <1>2, FileSets, ItemAssumption DEF LapseItem, Queue
<1>3. ASSUME NEW m, LapseAnalysis(m)
      PROVE  /\ Queue(NoItem)[m] = "claimed" /\ Sets(NoItem, m, "visible") /\ UNCHANGED worker
             /\ \A v \in Worker : Busy(v) => ~(worker[v].item = NoItem /\ worker[v].msg = m)
  BY <1>1, <1>3, AnalysisSets DEF LapseAnalysis, Queue
<1>4. CASE \E i \in Item, m \in 1..MaxSends : LapseItem(i, m)
  BY <1>2, <1>4
<1>5. CASE \E m \in 1..MaxSends : LapseAnalysis(m)
  BY <1>3, <1>5
<1> QED
  BY <1>4, <1>5 DEF Lapse

LEMMA LapseExclusive ==
    ASSUME IInv, Exclusive, Lapse, "overrun" \notin Fault PROVE Exclusive'
<1>1. PICK i, m :
         /\ i \in Item \cup {NoItem} /\ Sets(i, m, "visible") /\ UNCHANGED worker
         /\ \A v \in Worker : Busy(v) => ~(worker[v].item = i /\ worker[v].msg = m)
  BY LapseIs
<1>2. ASSUME NEW v \in Worker, Busy(v)
      PROVE  /\ worker[v].msg \in DOMAIN NextQueue(worker[v].item)
             /\ NextQueue(worker[v].item)[worker[v].msg] = "claimed"
  BY <1>1, <1>2, OthersStay DEF StaysClaimed
<1>3. \A v \in Worker : (Busy(v)' <=> Busy(v)) /\ worker'[v] = worker[v]
  BY <1>1 DEF Busy
<1>4. \A v \in Worker : Busy(v)' =>
         /\ (worker[v].msg \in DOMAIN Queue(worker[v].item))'
         /\ (Queue(worker[v].item)[worker[v].msg] = "claimed")'
  BY <1>2, <1>3 DEF Queue, NextQueue
<1>5. \A u, v \in Worker : Busy(u)' /\ Busy(v)' /\ SameHold(worker[u], worker[v])' => u = v
  BY <1>3 DEF Exclusive, SameHold
<1> QED
  BY <1>4, <1>5 DEF Exclusive

(* The steps of the handlers other than claims and acknowledgements. *)
LEMMA WorkQueues ==
    ASSUME IInv, NEW w \in Worker, ProcessItem(w), ~Ack(w), NEW i \in Item \cup {NoItem}
    PROVE  Keeps(i)
<1>1. UNCHANGED queues \/ Send(w)
  BY DEF ProcessItem, Load, Exhaust, Count, Validate, Read, Probe, Copy, Remove, Verify,
         Extract, Ocr, Persist, Ready, Catch, List, Decide, Mark
<1> QED
  BY <1>1, SameQueuesKeep, SendAppends

LEMMA WorksExclusive ==
    ASSUME IInv, Exclusive, NEW w \in Worker, NEW k, Works(w, k) \/ Answers(w, k),
           \A i \in Item \cup {NoItem} : Keeps(i)
    PROVE  Exclusive'
BY ExclusiveGoesOn DEF Works, Answers, Busy, AnalysisPc, ItemPc

LEMMA HandlerExclusive ==
    ASSUME IInv, Orderly, Exclusive, NEW w \in Worker,
           ProcessItem(w) \/ Analyse(w) \/ CallFails(w) \/ Stop(w)
    PROVE  Exclusive'
<1>1. CASE ProcessItem(w) /\ ~Ack(w)
  BY <1>1, FileWorks, WorkQueues, WorksExclusive
<1>2. CASE Ack(w)
  BY <1>2, AckSets, ReleaseExclusive DEF Ack
<1>3. CASE Analyse(w) /\ ~AckAnalysis(w)
  <2>1. UNCHANGED queues
    BY <1>3 DEF Analyse, LoadSubmission, LoadItems, ExhaustAnalysis, CountAnalysis, Respond,
                Record, CatchAnalysis
  <2> QED
    BY <1>3, <2>1, AnalysisAnswers, SameQueuesKeep, WorksExclusive DEF Orderly
<1>4. CASE AckAnalysis(w)
  BY <1>4, AckAnalysisSets, ReleaseExclusive DEF AckAnalysis
<1>5. CASE CallFails(w) \/ Stop(w)
  <2>1. \E k : Works(w, k) \/ Answers(w, k)
    BY <1>5, FileWorks, AnalysisAnswers DEF Orderly
  <2>2. UNCHANGED queues
    BY <1>5 DEF CallFails, Stop
  <2> QED
    BY <2>1, <2>2, SameQueuesKeep, WorksExclusive
<1> QED
  BY <1>1, <1>2, <1>3, <1>4, <1>5

LEMMA GatewayExclusive ==
    ASSUME IInv, Exclusive, NEW g \in Gate, Gateway(g) \/ Abandon(g) PROVE Exclusive'
<1>1. UNCHANGED worker
  BY DEF Gateway, Abandon, Create, InsertItems, ReadSlots, AssignPath, StartRequeue, Requeue, Enqueue
<1>2. UNCHANGED queues \/ Enqueue(g)
  BY DEF Gateway, Abandon, Create, InsertItems, ReadSlots, AssignPath, StartRequeue, Requeue
<1> QED
  BY <1>1, <1>2, SameQueuesKeep, EnqueueAppends, ExclusiveSame

LEMMA InitExclusive == Init => Exclusive
BY DEF Init, Exclusive, Busy, Idle

LEMMA NextExclusive ==
    ASSUME "overrun" \notin Fault
    PROVE  IInv /\ Orderly /\ Exclusive /\ [Next]_vars => Exclusive'
<1> SUFFICES ASSUME IInv, Orderly, Exclusive, [Next]_vars PROVE Exclusive'
  OBVIOUS
<1>1. CASE UNCHANGED vars
  BY <1>1, SameQueuesKeep, ExclusiveSame DEF vars, queues
<1>2. ASSUME NEW i \in Item, Upload(i) PROVE Exclusive'
  BY <1>2, SameQueuesKeep, ExclusiveSame DEF Upload
<1>3. ASSUME NEW w \in Worker,
             Claim(w) \/ ProcessItem(w) \/ Analyse(w) \/ CallFails(w) \/ Stop(w)
      PROVE  Exclusive'
  BY <1>3, ClaimExclusive, HandlerExclusive
<1> QED
  BY <1>1, <1>2, <1>3, GatewayExclusive, LapseExclusive DEF Next

(* While no handler outlives its claim. *)
Kept == IInv /\ Orderly /\ Exclusive

LEMMA KeptInvariance == ASSUME "overrun" \notin Fault PROVE Spec => []Kept
<1>1. Init => Kept
  BY InitBacked, InitOrder, InitExclusive DEF Kept
<1>2. Kept /\ [Next]_vars => Kept'
  BY NextKeeps, NextOrder, NextExclusive DEF Kept
<1> QED
  BY <1>1, <1>2, PTL DEF Spec

-----------------------------------------------------------------------------
(* An acknowledgement follows a durable result *)

(* A message of i that nobody is about to acknowledge. *)
Settles(h, i, m) == h.pc \in SettledPc /\ h.item = i /\ h.msg = m

Waiting(i, m) ==
    /\ files[i][m] # "deleted"
    /\ \A w \in Worker : ~Settles(worker[w], i, m)

Awaited == \A i \in Item :
    files[i] # <<>> /\ ~Terminal(i) => \E m \in DOMAIN files[i] : Waiting(i, m)

NextWaiting(i, m) ==
    /\ m \in DOMAIN files'[i] /\ files'[i][m] # "deleted"
    /\ \A w \in Worker : ~Settles(worker'[w], i, m)

(* Message m of i is left as it is, or claimed, or lapses. *)
FileKept(i, m) == m \in DOMAIN files'[i] /\ (files[i][m] # "deleted" => files'[i][m] # "deleted")

LEMMA AwaitedKept ==
    ASSUME \A i \in Item : files'[i] # <<>> /\ ~EndsTerminal(i) => \E m : NextWaiting(i, m)
    PROVE  Awaited'
<1> SUFFICES ASSUME NEW i \in Item, files'[i] # <<>>, ~Terminal(i)'
             PROVE  \E m \in DOMAIN files'[i] : Waiting(i, m)'
  BY DEF Awaited
<1>1. PICK m : NextWaiting(i, m)
  BY DEF EndsTerminal, Terminal
<1> QED
  BY <1>1 DEF NextWaiting, Waiting

(* The message that i waits for is not touched by a step of w. *)
LEMMA StillWaiting ==
    ASSUME IInv, NEW i \in Item, NEW m, Waiting(i, m), FileKept(i, m),
           NEW w \in Worker, NEW k, worker' = [worker EXCEPT ![w] = k],
           Settles(k, i, m) => Settles(worker[w], i, m)
    PROVE  NextWaiting(i, m)
BY DEF IInv, TypeOK, Waiting, FileKept, NextWaiting

LEMMA AwaitedWorks ==
    ASSUME Kept, Awaited, "silent" \notin Fault, UNCHANGED files,
           NEW w \in Worker, NEW k, Works(w, k)
    PROVE  Awaited'
<1> SUFFICES ASSUME NEW i \in Item, files'[i] # <<>>, ~EndsTerminal(i)
             PROVE  \E m : NextWaiting(i, m)
  BY AwaitedKept
<1>1. IInv /\ worker \in [Worker -> Handler] /\ worker' = [worker EXCEPT ![w] = k]
  BY DEF Kept, IInv, TypeOK, Works
<1>2. CASE worker[w].item # i
  <2>1. ~Terminal(i)
    BY <1>2 DEF Works, RowMoves, EndsTerminal, Terminal
  <2>2. PICK m \in DOMAIN files[i] : Waiting(i, m)
    BY <2>1 DEF Awaited
  <2>3. k.item # i
    BY <1>2, ItemAssumption DEF Works, SameHold, Idle
  <2> QED
    BY <1>1, <2>2, <2>3, StillWaiting DEF FileKept, Settles
<1>3. CASE worker[w].item = i /\ k.pc \notin SettledPc
  <2> DEFINE m == worker[w].msg
  <2>1. Busy(w) /\ i # NoItem
    BY ItemAssumption DEF Works, Busy, ItemPc
  <2>2. m \in DOMAIN files[i] /\ files[i][m] = "claimed"
    BY <1>3, <2>1 DEF Kept, Exclusive, Queue
  <2>3. ASSUME NEW v \in Worker, Settles(worker[v], i, m) PROVE v = w
    BY <1>3, <2>1, <2>3 DEF Kept, Exclusive, Settles, SettledPc, Busy, SameHold
  <2>4. \A v \in Worker : ~Settles(worker'[v], i, m)
    BY <1>1, <1>3, <2>3 DEF Settles
  <2> QED
    BY <2>2, <2>4 DEF NextWaiting
<1>4. CASE worker[w].item = i /\ k.pc \in SettledPc
  <2>1. k # Idle
    BY <1>4 DEF Idle, SettledPc
  <2>2. UNCHANGED item /\ worker[w].pc \in SettledPc
    <3>1. worker[w].pc \in EarlyPc \cup BusyPc \cup SettledPc
      BY DEF Works, BusyPc
    <3>2. k.pc \notin BusyPc \cup {"idle", "exhaust", "count", "catch"}
      BY <1>4 DEF SettledPc, BusyPc
    <3>3. worker[w].pc # "load"
      BY <1>4, <3>2 DEF Works, Advances, Loading, CallLost, EndsTerminal, Terminal
    <3>4. worker[w].pc # "exhaust"
      BY <1>4, <3>2 DEF Works, Advances, Exhausting, CallLost, EndsTerminal
    <3>5. worker[w].pc # "count"
      BY <1>4, <3>2 DEF Works, Advances, Counting, CallLost
    <3>6. worker[w].pc \notin BusyPc
      BY <1>4, <3>2 DEF Works, Advances, Working, CallLost
    <3>7. worker[w].pc \in SettledPc
      BY <3>1, <3>3, <3>4, <3>5, <3>6 DEF EarlyPc
    <3> QED
      BY <3>7 DEF Works, Advances, Settling
  <2>3. PICK m \in DOMAIN files[i] : Waiting(i, m)
    BY <2>2 DEF Awaited, EndsTerminal, Terminal
  <2>4. Settles(k, i, m) => Settles(worker[w], i, m)
    BY <1>4, <2>1, <2>2 DEF Works, SameHold, Settles
  <2> QED
    BY <1>1, <2>3, <2>4, StillWaiting DEF FileKept
<1> QED
  BY <1>2, <1>3, <1>4

LEMMA AwaitedAck == ASSUME Kept, Awaited, NEW w \in Worker, Ack(w) PROVE Awaited'
<1> SUFFICES ASSUME NEW i \in Item, files'[i] # <<>>, ~EndsTerminal(i)
             PROVE  \E m : NextWaiting(i, m)
  BY AwaitedKept
<1> DEFINE j == worker[w].item
           n == worker[w].msg
<1>1. /\ IInv /\ worker' = [worker EXCEPT ![w] = Idle] /\ UNCHANGED item /\ worker[w].pc \in SettledPc
      /\ files \in [Item -> Seq(Message)]
  BY DEF Kept, IInv, TypeOK, Ack, rows, SettledPc
<1>2. Sets(j, n, "deleted") /\ i # NoItem
  BY <1>1, AckSets, ItemAssumption
<1>3. /\ DOMAIN files'[i] = DOMAIN files[i]
      /\ \A m \in DOMAIN files[i] : ~(i = j /\ m = n) => files'[i][m] = files[i][m]
  BY <1>2 DEF Sets, NextQueue, Queue
<1>4. files[i] # <<>>
  <2>1. files' \in [Item -> Seq(Message)]
    BY <1>1, NextKeeps DEF Kept, IInv, TypeOK, Next, ProcessItem
  <2>2. files[i] \in Seq(Message) /\ files'[i] \in Seq(Message)
    BY <1>1, <2>1
  <2> QED
    BY <1>3, <2>2
<1>5. PICK m \in DOMAIN files[i] : Waiting(i, m)
  BY <1>1, <1>4 DEF Awaited, EndsTerminal, Terminal
<1>6. ~(i = j /\ m = n)
  BY <1>1, <1>5 DEF Waiting, Settles
<1>7. FileKept(i, m) /\ ~Settles(Idle, i, m)
  BY <1>3, <1>5, <1>6 DEF FileKept, Settles, Idle, SettledPc
<1> QED
  BY <1>1, <1>5, <1>7, StillWaiting

LEMMA AwaitedAnswers ==
    ASSUME Kept, Awaited, UNCHANGED files, NEW w \in Worker, NEW k, Answers(w, k)
    PROVE  Awaited'
<1> SUFFICES ASSUME NEW i \in Item, files'[i] # <<>>, ~EndsTerminal(i)
             PROVE  \E m : NextWaiting(i, m)
  BY AwaitedKept
<1>1. PICK m \in DOMAIN files[i] : Waiting(i, m)
  BY DEF Awaited, EndsTerminal, Terminal, Answers
<1>2. k.pc \notin SettledPc
  BY DEF Answers, AnalysisPc, ItemPc, SettledPc, Idle
<1> QED
  BY <1>1, <1>2, StillWaiting DEF FileKept, Settles, Answers, Kept

(* A step that sets one message to a state other than "deleted". *)
LEMMA SetsKeep ==
    ASSUME NEW i, NEW m, NEW status, status # "deleted", Sets(i, m, status),
           NEW j \in Item, NEW n \in DOMAIN files[j]
    PROVE  FileKept(j, n)
BY ItemAssumption DEF Sets, FileKept, Queue, NextQueue

LEMMA SetsEmpty ==
    ASSUME IInv, IInv', NEW i, NEW m, NEW status, Sets(i, m, status),
           NEW j \in Item, files'[j] # <<>>
    PROVE  files[j] # <<>>
<1>1. files[j] \in Seq(Message) /\ files'[j] \in Seq(Message)
  BY DEF IInv, TypeOK
<1>2. DOMAIN files'[j] = DOMAIN files[j]
  BY ItemAssumption DEF Sets, Queue, NextQueue
<1> QED
  BY <1>1, <1>2

LEMMA AwaitedClaim == ASSUME Kept, IInv', Awaited, NEW w \in Worker, Claim(w) PROVE Awaited'
<1> SUFFICES ASSUME NEW j \in Item, files'[j] # <<>>, ~EndsTerminal(j)
             PROVE  \E n : NextWaiting(j, n)
  BY AwaitedKept
<1>1. PICK i, m, k : /\ Sets(i, m, "claimed") /\ worker' = [worker EXCEPT ![w] = k]
                     /\ k.pc = IF i = NoItem THEN "aload" ELSE "load"
  BY ClaimIs DEF Kept
<1>2. UNCHANGED item
  BY DEF Claim, ClaimItem, ClaimAnalysis, rows
<1>3. files[j] # <<>>
  BY <1>1, SetsEmpty DEF Kept
<1>4. PICK n \in DOMAIN files[j] : Waiting(j, n)
  BY <1>2, <1>3 DEF Awaited, EndsTerminal, Terminal
<1>5. ~Settles(k, j, n) /\ FileKept(j, n)
  BY <1>1, SetsKeep DEF Settles, SettledPc
<1> QED
  BY <1>1, <1>4, <1>5, StillWaiting DEF Kept

LEMMA AwaitedLapse ==
    ASSUME Kept, IInv', Awaited, Lapse, "overrun" \notin Fault PROVE Awaited'
<1> SUFFICES ASSUME NEW j \in Item, files'[j] # <<>>, ~EndsTerminal(j)
             PROVE  \E n : NextWaiting(j, n)
  BY AwaitedKept
<1>1. PICK i, m : Sets(i, m, "visible") /\ UNCHANGED worker
  BY LapseIs DEF Kept
<1>2. UNCHANGED item
  BY DEF Lapse, LapseItem, LapseAnalysis, rows
<1>3. files[j] # <<>>
  BY <1>1, SetsEmpty DEF Kept
<1>4. PICK n \in DOMAIN files[j] : Waiting(j, n)
  BY <1>2, <1>3 DEF Awaited, EndsTerminal, Terminal
<1>5. FileKept(j, n)
  BY <1>1, SetsKeep
<1> QED
  BY <1>1, <1>4, <1>5 DEF Waiting, FileKept, NextWaiting

(* A step of the gateway or of the browser. *)
LEMMA AwaitedRows ==
    ASSUME Awaited, UNCHANGED <<files, worker>>,
           \A i \in Item : files[i] # <<>> /\ Terminal(i) => EndsTerminal(i)
    PROVE  Awaited'
<1> SUFFICES ASSUME NEW i \in Item, files'[i] # <<>>, ~EndsTerminal(i)
             PROVE  \E m : NextWaiting(i, m)
  BY AwaitedKept
<1>1. PICK m \in DOMAIN files[i] : Waiting(i, m)
  BY DEF Awaited
<1> QED
  BY <1>1 DEF Waiting, NextWaiting

LEMMA AwaitedGateway ==
    ASSUME Kept, Awaited, NEW g \in Gate, Gateway(g) \/ Abandon(g), ~Enqueue(g) PROVE Awaited'
<1>1. UNCHANGED <<files, worker>>
  BY DEF Gateway, Abandon, Create, InsertItems, ReadSlots, AssignPath, StartRequeue, Requeue, queues
<1>2. item \in [Item -> Row]
  BY DEF Kept, IInv, TypeOK, Row
<1>3. CASE InsertItems(g)
  <2>1. \A i \in Item : files[i] = <<>>
    BY <1>3 DEF Kept, Orderly, InsertItems
  <2> QED
    BY <1>1, <2>1, AwaitedRows
<1>4. CASE Requeue(g)
  <2>1. \A i \in Item : Terminal(i) => EndsTerminal(i)
    BY <1>4, RequeueIs DEF Kept, Terminal, EndsTerminal
  <2> QED
    BY <1>1, <2>1, AwaitedRows
<1>5. CASE AssignPath(g)
  <2>1. \A i \in Item : Terminal(i) => EndsTerminal(i)
    BY <1>2, <1>5 DEF AssignPath, Terminal, EndsTerminal, Row
  <2> QED
    BY <1>1, <2>1, AwaitedRows
<1>6. CASE UNCHANGED item
  BY <1>1, <1>6, AwaitedRows DEF Terminal, EndsTerminal
<1> QED
  BY <1>3, <1>4, <1>5, <1>6
  DEF Gateway, Abandon, Create, ReadSlots, StartRequeue, rows

LEMMA AwaitedEnqueue ==
    ASSUME Kept, Awaited, NEW g \in Gate, Enqueue(g) PROVE Awaited'
<1> SUFFICES ASSUME NEW i \in Item, files'[i] # <<>>, ~EndsTerminal(i)
             PROVE  \E m : NextWaiting(i, m)
  BY AwaitedKept
<1>1. IInv /\ UNCHANGED <<item, worker>> /\ files \in [Item -> Seq(Message)] /\ i # NoItem
  BY ItemAssumption DEF Kept, IInv, TypeOK, Enqueue, rows
<1>2. CASE files[i] # <<>>
  <2>1. PICK m \in DOMAIN files[i] : Waiting(i, m)
    BY <1>1, <1>2 DEF Awaited, EndsTerminal, Terminal
  <2>2. m \in DOMAIN files'[i] /\ files'[i][m] = files[i][m]
    BY <1>1, <2>1, EnqueueAppends DEF Keeps, Queue, NextQueue
  <2> QED
    BY <1>1, <2>1, <2>2 DEF Waiting, NextWaiting
<1>3. CASE files[i] = <<>>
  <2>1. PICK j \in Item : j = gate[g].item
    BY <1>1, Requeuing DEF Kept, Enqueue
  <2>2. files' = [files EXCEPT ![j] = Append(files[j], "visible")]
    BY <1>1, <2>1 DEF Enqueue
  <2>3. i = j
    BY <1>1, <1>3, <2>2
  <2>4. 1 \in DOMAIN files'[i] /\ files'[i][1] = "visible"
    BY <1>1, <1>3, <2>2, <2>3
  <2>5. ASSUME NEW v \in Worker, Settles(worker[v], i, 1) PROVE FALSE
    <3>1. 1 \in DOMAIN files[i]
      BY <1>1, <2>5 DEF Settles, SettledPc, Kept, Exclusive, Busy, Queue
    <3> QED
      BY <1>3, <3>1
  <2> QED
    BY <1>1, <2>4, <2>5 DEF NextWaiting
<1> QED
  BY <1>2, <1>3

LEMMA NextAwaited ==
    ASSUME {"silent", "overrun"} \cap Fault = {}
    PROVE  Kept /\ Awaited /\ [Next]_vars => Awaited'
<1> SUFFICES ASSUME Kept, Awaited, [Next]_vars PROVE Awaited'
  OBVIOUS
<1>0. IInv' /\ "silent" \notin Fault /\ "overrun" \notin Fault
  BY NextKeeps DEF Kept
<1>1. CASE UNCHANGED vars
  BY <1>1, AwaitedRows DEF vars, Terminal, EndsTerminal
<1>2. ASSUME NEW g \in Gate, Gateway(g) \/ Abandon(g) PROVE Awaited'
  BY <1>2, AwaitedGateway, AwaitedEnqueue
<1>3. ASSUME NEW i \in Item, Upload(i) PROVE Awaited'
  BY <1>3, AwaitedRows DEF Upload, rows, queues, Terminal, EndsTerminal
<1>4. ASSUME NEW w \in Worker, ProcessItem(w) PROVE Awaited'
  BY <1>0, <1>4, FileSteps, FileWorks, AwaitedWorks, AwaitedAck DEF Kept
<1>5. ASSUME NEW w \in Worker, Analyse(w) PROVE Awaited'
  BY <1>5, AnalysisSteps, AnalysisAnswers, AwaitedAnswers DEF Kept, Orderly
<1>6. ASSUME NEW w \in Worker, CallFails(w) \/ Stop(w) PROVE Awaited'
  <2>1. UNCHANGED files
    BY <1>6 DEF CallFails, Stop, queues
  <2>2. \E k : Works(w, k) \/ Answers(w, k)
    BY <1>6, FileWorks, AnalysisAnswers DEF Kept, Orderly
  <2> QED
    BY <1>0, <2>1, <2>2, AwaitedWorks, AwaitedAnswers
<1>7. ASSUME NEW w \in Worker, Claim(w) PROVE Awaited'
  BY <1>0, <1>7, AwaitedClaim
<1>8. CASE Lapse
  BY <1>0, <1>8, AwaitedLapse
<1> QED
  BY <1>1, <1>2, <1>3, <1>4, <1>5, <1>6, <1>7, <1>8 DEF Next

(* The worker acknowledges a message of an item only once the item is      *)
(* settled, however many gateways queue it and workers handle it, whatever *)
(* calls fail and isolates die: as long as the updates that it does not    *)
(* check take effect, and no handler outlives its claim.                   *)
THEOREM AcknowledgedAfterResult ==
    {"silent", "overrun"} \cap Fault = {} => (Spec => []AcknowledgedIsTerminal)
<1> SUFFICES ASSUME {"silent", "overrun"} \cap Fault = {}
             PROVE  Spec => []AcknowledgedIsTerminal
  OBVIOUS
<1>1. Init => Kept /\ Awaited
  BY InitBacked, InitOrder, InitExclusive DEF Kept, Init, Awaited
<1>2. (Kept /\ Awaited) /\ [Next]_vars => (Kept /\ Awaited)'
  BY NextKeeps, NextOrder, NextExclusive, NextAwaited DEF Kept
<1>3. Kept /\ Awaited => AcknowledgedIsTerminal
  BY DEF Awaited, Waiting, AcknowledgedIsTerminal, Live
<1> QED
  BY <1>1, <1>2, <1>3, PTL DEF Spec

-----------------------------------------------------------------------------
(* One gateway request at a time queues an item at most once *)

SingleGate == \A g, o \in Gate : g = o

QueuedOnce ==
    /\ \A i \in Item : Len(files[i]) <= 1
    /\ \A i \in Item : item[i].status = "UPLOADING" => Len(files[i]) = 0
    /\ \A g \in Gate : gate[g].pc = "requeue" =>
          Len(files[gate[g].item]) = 0 /\ item[gate[g].item].status = "UPLOADING"
    /\ \A g \in Gate : gate[g].pc = "enqueue" =>
          Len(files[gate[g].item]) = 0 /\ item[gate[g].item].status # "UPLOADING"

(* The row of an item that was not queued is left alone, and so is the      *)
(* number of its messages.                                                  *)
UnqueuedKept(i) ==
    /\ Len(files'[i]) = Len(files[i])
    /\ SameStatus(i) \/ (Len(files[i]) # 0 /\ item'[i].status # "UPLOADING")

LEMMA QueuedOnceKept ==
    ASSUME IInv, QueuedOnce, \A i \in Item : UnqueuedKept(i),
           \A g \in Gate : gate'[g] = gate[g] \/ gate'[g].pc \notin {"requeue", "enqueue"}
    PROVE  QueuedOnce'
<1>1. \A g \in Gate : gate[g].pc \in {"requeue", "enqueue"} => gate[g].item \in Item
  BY DEF IInv, Backed, RequestBacked
<1>2. ASSUME NEW i \in Item
      PROVE  Len(files'[i]) <= 1 /\ (item'[i].status = "UPLOADING" => Len(files'[i]) = 0)
  BY DEF UnqueuedKept, QueuedOnce, SameStatus
<1>3. ASSUME NEW g \in Gate, gate'[g].pc = "requeue"
      PROVE  Len(files'[gate'[g].item]) = 0 /\ item'[gate'[g].item].status = "UPLOADING"
  <2>1. PICK i \in Item : i = gate[g].item /\ gate'[g] = gate[g]
    BY <1>1, <1>3
  <2> QED
    BY <1>3, <2>1 DEF UnqueuedKept, QueuedOnce, SameStatus
<1>4. ASSUME NEW g \in Gate, gate'[g].pc = "enqueue"
      PROVE  Len(files'[gate'[g].item]) = 0 /\ item'[gate'[g].item].status # "UPLOADING"
  <2>1. PICK i \in Item : i = gate[g].item /\ gate'[g] = gate[g]
    BY <1>1, <1>4
  <2> QED
    BY <1>4, <2>1 DEF UnqueuedKept, QueuedOnce, SameStatus
<1> QED
  BY <1>2, <1>3, <1>4 DEF QueuedOnce

LEMMA SetsLength ==
    ASSUME IInv, IInv', NEW i, NEW m, NEW status, Sets(i, m, status), NEW j \in Item
    PROVE  Len(files'[j]) = Len(files[j])
<1>1. files[j] \in Seq(Message) /\ files'[j] \in Seq(Message)
  BY DEF IInv, TypeOK
<1>2. DOMAIN files'[j] = DOMAIN files[j]
  BY ItemAssumption DEF Sets, Queue, NextQueue
<1> QED
  BY <1>1, <1>2

(* Whoever handles an item holds a message of it. *)
LEMMA HandledIsQueued ==
    ASSUME Kept, NEW w \in Worker, worker[w].pc \in ItemPc
    PROVE  /\ worker[w].item \in Item /\ worker[w].msg \in DOMAIN files[worker[w].item]
           /\ Len(files[worker[w].item]) # 0
<1>1. worker[w].item \in Item /\ worker[w].item # NoItem /\ files \in [Item -> Seq(Message)]
  BY HandlerFile DEF Kept, IInv, TypeOK
<1>2. worker[w].msg \in DOMAIN files[worker[w].item]
  BY <1>1 DEF Kept, Exclusive, Queue, Busy, ItemPc
<1>3. files[worker[w].item] \in Seq(Message)
  BY <1>1
<1> QED
  BY <1>1, <1>2, <1>3

(* Nobody else handles the item. *)
LEMMA HandledAlone ==
    ASSUME Kept, QueuedOnce, NEW v \in Worker, NEW w \in Worker,
           worker[v].pc \in ItemPc, worker[w].pc \in ItemPc, worker[v].item = worker[w].item
    PROVE  v = w
<1>1. PICK i \in Item :
         i = worker[v].item /\ worker[v].msg \in DOMAIN files[i] /\ worker[w].msg \in DOMAIN files[i]
  BY HandledIsQueued
<1>2. files[i] \in Seq(Message) /\ Len(files[i]) <= 1
  BY DEF Kept, IInv, TypeOK, QueuedOnce
<1>3. worker[v].msg = worker[w].msg
  BY <1>1, <1>2
<1> QED
  BY <1>3 DEF Kept, Exclusive, Busy, SameHold, ItemPc

LEMMA WorksQueuedOnce ==
    ASSUME Kept, QueuedOnce, NEW w \in Worker, NEW k, Works(w, k), UNCHANGED gate,
           \A i \in Item : Len(files'[i]) = Len(files[i])
    PROVE  QueuedOnce'
<1>1. \A i \in Item : UnqueuedKept(i)
  BY HandledIsQueued DEF UnqueuedKept, Works, RowMoves, SameStatus
<1> QED
  BY <1>1, QueuedOnceKept DEF Kept

LEMMA RowsQueuedOnce ==
    ASSUME Kept, QueuedOnce, UNCHANGED <<item, gate>>,
           \A i \in Item : Len(files'[i]) = Len(files[i])
    PROVE  QueuedOnce'
BY QueuedOnceKept DEF Kept, UnqueuedKept, SameStatus

LEMMA HandlerQueuedOnce ==
    ASSUME Kept, IInv', QueuedOnce, NEW w \in Worker,
           ProcessItem(w) \/ Analyse(w) \/ CallFails(w) \/ Stop(w)
    PROVE  QueuedOnce'
<1>1. CASE ProcessItem(w)
  <2>1. \A i \in Item : Len(files'[i]) = Len(files[i])
    BY <1>1, FileSteps, AckSets, SetsLength DEF Kept
  <2> QED
    BY <1>1, <2>1, FileSteps, FileWorks, WorksQueuedOnce DEF Kept
<1>2. CASE Analyse(w)
  <2>1. UNCHANGED <<files, gate, item>>
    BY <1>2, AnalysisSteps, AnalysisAnswers DEF Kept, Orderly, Answers
  <2> QED
    BY <2>1, RowsQueuedOnce
<1>3. CASE CallFails(w) \/ Stop(w)
  <2>1. UNCHANGED <<files, gate, item>>
    BY <1>3 DEF CallFails, Stop, rows, queues
  <2> QED
    BY <2>1, RowsQueuedOnce
<1> QED
  BY <1>1, <1>2, <1>3

LEMMA QueueQueuedOnce ==
    ASSUME Kept, IInv', QueuedOnce, "overrun" \notin Fault,
           Lapse \/ \E w \in Worker : Claim(w)
    PROVE  QueuedOnce'
<1>1. UNCHANGED <<item, gate>>
  BY DEF Lapse, LapseItem, LapseAnalysis, Claim, ClaimItem, ClaimAnalysis, rows
<1>2. \A i \in Item : Len(files'[i]) = Len(files[i])
  BY ClaimIs, LapseIs, SetsLength DEF Kept
<1> QED
  BY <1>1, <1>2, RowsQueuedOnce

LEMMA RequestItem ==
    ASSUME IInv, NEW g \in Gate, gate[g].pc \in {"requeue", "enqueue"} PROVE gate[g].item \in Item
BY DEF IInv, Backed, RequestBacked

LEMMA GatewayQueuedOnce ==
    ASSUME SingleGate, Kept, QueuedOnce, NEW g \in Gate, Gateway(g) \/ Abandon(g)
    PROVE  QueuedOnce'
<1>1. /\ IInv /\ Orderly /\ gate \in [Gate -> Request] /\ files \in [Item -> Seq(Message)]
      /\ item \in [Item -> Row]
      /\ \A o \in Gate : o = g
  BY DEF Kept, IInv, TypeOK, Row, SingleGate
<1>2. CASE Create(g)
  <2>1. UNCHANGED <<item, files>> /\ gate'[g].pc \in {"items", "slots"}
    BY <1>1, <1>2 DEF Create, queues, Request
  <2> QED
    BY <1>1, <2>1, QueuedOnceKept DEF UnqueuedKept, SameStatus
<1>3. CASE InsertItems(g)
  <2>1. UNCHANGED files /\ gate'[g].pc = "slots"
    BY <1>1, <1>3 DEF InsertItems, queues, Request
  <2>2. \A i \in Item : Len(files[i]) = 0
    BY <1>1, <1>3 DEF InsertItems, Orderly
  <2> QED
    BY <1>1, <2>1, <2>2 DEF QueuedOnce
<1>4. CASE ReadSlots(g)
  <2>1. UNCHANGED <<item, files>> /\ gate'[g].pc \in {"idle", "paths"}
    BY <1>1, <1>4 DEF ReadSlots, rows, queues, NoRequest
  <2> QED
    BY <1>1, <2>1, QueuedOnceKept DEF UnqueuedKept, SameStatus
<1>5. CASE AssignPath(g)
  <2>1. UNCHANGED files /\ gate'[g].pc \in {"idle", "paths"} /\ \A i \in Item : SameStatus(i)
    BY <1>1, <1>5 DEF AssignPath, queues, NoRequest, Request, SameStatus, Row
  <2> QED
    BY <1>1, <2>1, QueuedOnceKept DEF UnqueuedKept
<1>6. ASSUME NEW i \in Item, StartRequeue(g, i) PROVE QueuedOnce'
  <2>1. item[i].status = "UPLOADING" /\ UNCHANGED <<item, files>>
    BY <1>1, <1>6 DEF StartRequeue, MayRequeue, Orderly, rows, queues
  <2>2. gate'[g].pc = "requeue" /\ gate'[g].item = i
    BY <1>1, <1>6 DEF StartRequeue, NoRequest
  <2>3. \A o \in Gate : gate'[o].pc = "requeue" /\ gate'[o].item = i
    BY <1>1, <2>2
  <2> QED
    BY <2>1, <2>3 DEF QueuedOnce
<1>7. CASE Requeue(g)
  <2>1. PICK r, i : /\ gate' = [gate EXCEPT ![g] = r] /\ r.pc = "enqueue" /\ r.item = i
                    /\ gate[g].item = i /\ i \in Item
                    /\ \A j \in Item \ {i} : item'[j] = item[j]
                    /\ IF item[i].status = "UPLOADING" THEN item'[i].status = "QUEUED"
                       ELSE item' = item
    BY <1>1, <1>7, RequeueIs
  <2>2. Len(files[i]) = 0 /\ item'[i].status = "QUEUED" /\ UNCHANGED files
    BY <1>7, <2>1 DEF QueuedOnce, Requeue, queues
  <2>3. \A o \in Gate : gate'[o].pc = "enqueue" /\ gate'[o].item = i
    BY <1>1, <2>1
  <2> QED
    BY <2>1, <2>2, <2>3 DEF QueuedOnce
<1>8. CASE Enqueue(g)
  <2>1. PICK i \in Item : i = gate[g].item
    BY <1>1, <1>8, RequestItem DEF Enqueue
  <2>2. /\ files' = [files EXCEPT ![i] = Append(files[i], "visible")]
        /\ UNCHANGED item /\ gate'[g].pc = "idle"
    BY <1>1, <1>8, <2>1 DEF Enqueue, rows, NoRequest
  <2>3. Len(files[i]) = 0 /\ item[i].status # "UPLOADING"
    BY <1>8, <2>1 DEF QueuedOnce, Enqueue
  <2>4. files[i] \in Seq(Message)
    BY <1>1
  <2>5. Len(files'[i]) = 1 /\ \A j \in Item \ {i} : files'[j] = files[j]
    BY <1>1, <2>2, <2>3, <2>4
  <2>6. \A o \in Gate : gate'[o].pc = "idle"
    BY <1>1, <2>2
  <2> QED
    BY <2>2, <2>3, <2>5, <2>6 DEF QueuedOnce
<1>9. CASE Abandon(g)
  <2>1. UNCHANGED <<item, files>> /\ gate'[g].pc = "idle"
    BY <1>1, <1>9 DEF Abandon, rows, queues, NoRequest
  <2> QED
    BY <1>1, <2>1, QueuedOnceKept DEF UnqueuedKept, SameStatus
<1> QED
  BY <1>2, <1>3, <1>4, <1>5, <1>6, <1>7, <1>8, <1>9 DEF Gateway

LEMMA NextQueuedOnce ==
    ASSUME SingleGate, "overrun" \notin Fault
    PROVE  Kept /\ QueuedOnce /\ [Next]_vars => QueuedOnce'
<1> SUFFICES ASSUME Kept, QueuedOnce, [Next]_vars PROVE QueuedOnce'
  OBVIOUS
<1>1. IInv'
  BY NextKeeps DEF Kept
<1>2. CASE UNCHANGED vars
  BY <1>2, RowsQueuedOnce DEF vars
<1>3. ASSUME NEW i \in Item, Upload(i) PROVE QueuedOnce'
  BY <1>3, RowsQueuedOnce DEF Upload, rows, queues
<1> QED
  BY <1>1, <1>2, <1>3, GatewayQueuedOnce, HandlerQueuedOnce, QueueQueuedOnce DEF Next

-----------------------------------------------------------------------------
(* The answer stays true *)

(* A handler past this point has seen every item settled.                   *)
RespondingPc == {"acount", "aexhaust", "respond", "record"}

(* What a handler remembers is still so.                                    *)
UpToDate(h) ==
    /\ h.pc \in BusyPc => ~Terminal(h.item)
    /\ h.pc \in {"exhaust", "count"} => item[h.item].status = h.status /\ h.status # "READY"
    /\ h.pc \in RespondingPc => AllTerminal /\ h.failed = Failures

Truthful ==
    /\ \A w \in Worker : UpToDate(worker[w])
    /\ answer.made => AllTerminal /\ answer.failed = Failures

NextUpToDate(h) ==
    /\ h.pc \in BusyPc => ~EndsTerminal(h.item)
    /\ h.pc \in {"exhaust", "count"} => item'[h.item].status = h.status /\ h.status # "READY"
    /\ h.pc \in RespondingPc => AllTerminal /\ h.failed = Failures

(* A settled item stays as it is, and no item is added to settled ones.     *)
SettledStays ==
    /\ \A i \in Item : Terminal(i) => SameStatus(i)
    /\ AllTerminal => \A i \in Item : SameStatus(i)

LEMMA OutcomeStays ==
    ASSUME SettledStays, AllTerminal PROVE AllTerminal' /\ Failures' = Failures
BY DEF SettledStays, AllTerminal, Inserted, Terminal, SameStatus, Failures

(* A handler that makes no step. *)
BystanderKept(w) == worker'[w] = worker[w] /\ (worker[w].pc \in ItemPc => SameStatus(worker[w].item))

LEMMA TruthfulKept ==
    ASSUME IInv, Truthful, SettledStays,
           \A w \in Worker : BystanderKept(w) \/ (\E k : worker'[w] = k /\ NextUpToDate(k)),
           answer' = answer \/ (AllTerminal /\ answer'.failed = Failures)
    PROVE  Truthful'
<1>1. ASSUME NEW w \in Worker PROVE NextUpToDate(worker'[w])
  <2>1. CASE BystanderKept(w)
    <3>1. worker'[w] = worker[w] /\ UpToDate(worker[w])
      BY <2>1 DEF BystanderKept, Truthful
    <3>2. worker[w].pc \in ItemPc => SameStatus(worker[w].item)
      BY <2>1 DEF BystanderKept
    <3>3. BusyPc \cup {"exhaust", "count"} \subseteq ItemPc
      BY DEF BusyPc, ItemPc
    <3> QED
      BY <3>1, <3>2, <3>3 DEF UpToDate, NextUpToDate, SameStatus, EndsTerminal, Terminal
  <2>2. CASE \E k : worker'[w] = k /\ NextUpToDate(k)
    BY <2>2
  <2> QED
    BY <2>1, <2>2
<1>2. AllTerminal => AllTerminal' /\ Failures' = Failures
  BY OutcomeStays
<1>3. \A w \in Worker : UpToDate(worker[w])'
  BY <1>1, <1>2 DEF UpToDate, NextUpToDate, EndsTerminal, Terminal
<1>4. (answer.made => AllTerminal /\ answer.failed = Failures)'
  BY <1>2 DEF Truthful
<1> QED
  BY <1>3, <1>4 DEF Truthful

LEMMA SameRowsStay == ASSUME UNCHANGED item PROVE SettledStays /\ \A i : SameStatus(i)
BY DEF SettledStays, SameStatus

(* Only the row of an item that was not settled changes. *)
LEMMA UnsettledMoves ==
    ASSUME Orderly, NEW i \in Item, Exists(i), ~Terminal(i) \/ SameStatus(i),
           \A j \in Item \ {i} : item'[j] = item[j]
    PROVE  SettledStays
BY DEF SettledStays, SameStatus, AllTerminal, Inserted, Exists

LEMMA WorksTruthful ==
    ASSUME Kept, QueuedOnce, Truthful, "call" \notin Fault, UNCHANGED answer,
           NEW w \in Worker, NEW k, Works(w, k)
    PROVE  Truthful'
<1> DEFINE h == worker[w]
<1>1. /\ IInv /\ Orderly /\ worker' = [worker EXCEPT ![w] = k] /\ worker \in [Worker -> Handler]
      /\ ~CallLost(k) /\ h.pc \in ItemPc
      /\ h.pc \in EarlyPc \cup BusyPc \cup SettledPc
      /\ UpToDate(h)
      /\ k = Idle \/ (k.pc \in ItemPc /\ SameHold(h, k))
  BY DEF Kept, IInv, TypeOK, Works, CallLost, BusyPc, Truthful
<1>2. PICK i \in Item : i = h.item /\ i # NoItem /\ Exists(i)
  BY <1>1, HandlerFile DEF Orderly
<1>3. \A j \in Item \ {i} : item'[j] = item[j]
  BY <1>2 DEF Works, RowMoves
<1>4. ~Terminal(i) \/ SameStatus(i)
  <2>1. CASE h.pc = "load" \/ h.pc \in SettledPc
    BY <2>1 DEF Works, Advances, Loading, Settling, SameStatus
  <2>2. CASE h.pc = "exhaust"
    <3>1. h.status = item[i].status /\ h.status # "READY"
      BY <1>1, <1>2, <2>2 DEF UpToDate
    <3>2. item'[i].status = "FAILED" \/ item' = item
      BY <1>2, <2>2 DEF Works, Advances, Exhausting
    <3> QED
      BY <3>1, <3>2 DEF Terminal, SameStatus
  <2>3. CASE h.pc = "count"
    BY <1>2, <2>3 DEF Works, Advances, Counting
  <2>4. CASE h.pc \in BusyPc
    BY <1>1, <1>2, <2>4 DEF UpToDate
  <2> QED
    BY <1>1, <2>1, <2>2, <2>3, <2>4 DEF EarlyPc
<1>5. NextUpToDate(k)
  <2>1. k.pc \notin RespondingPc
    BY <1>1 DEF RespondingPc, ItemPc, Idle
  <2>2. CASE k = Idle
    BY <2>2 DEF NextUpToDate, Idle, RespondingPc, BusyPc, ItemPc
  <2>3. CASE k # Idle
    <3>1. k.item = i /\ k.pc # "idle"
      BY <1>1, <1>2, <2>3 DEF SameHold, ItemPc
    <3>2. CASE h.pc = "load"
      <4>1. k.pc \notin BusyPc /\ item' = item
        BY <1>1, <3>1, <3>2 DEF Works, Advances, Loading, BusyPc, EarlyPc, SettledPc
      <4>2. k.pc \in {"exhaust", "count"} => k.status = item[i].status /\ k.status # "READY"
        BY <1>1, <1>2, <3>1, <3>2 DEF Works, Advances, Loading
      <4> QED
        BY <2>1, <3>1, <4>1, <4>2 DEF NextUpToDate
    <3>3. CASE h.pc = "exhaust"
      <4>1. k.pc = "list"
        BY <1>1, <3>1, <3>3 DEF Works, Advances, Exhausting
      <4> QED
        BY <4>1 DEF NextUpToDate, RespondingPc, BusyPc, SettledPc
    <3>4. CASE h.pc = "count"
      <4>1. k.pc \in BusyPc /\ SameStatus(i) /\ h.status \notin {"READY", "FAILED"}
        BY <1>1, <1>2, <3>1, <3>4 DEF Works, Advances, Counting
      <4>2. h.status = item[i].status
        BY <1>1, <1>2, <3>4 DEF UpToDate
      <4> QED
        BY <2>1, <3>1, <4>1, <4>2 DEF NextUpToDate, SameStatus, EndsTerminal, BusyPc, EarlyPc
    <3>5. CASE h.pc \in BusyPc
      <4>1. CASE k.pc = "list"
        BY <4>1 DEF NextUpToDate, RespondingPc, BusyPc, SettledPc
      <4>2. CASE k.pc # "list"
        <5>1. k.pc \in BusyPc /\ (SameStatus(i) \/ ~EndsTerminal(i))
          BY <1>1, <1>2, <3>1, <3>5, <4>2 DEF Works, Advances, Working
        <5>2. ~Terminal(i)
          BY <1>1, <1>2, <3>5 DEF UpToDate
        <5> QED
          BY <2>1, <3>1, <5>1, <5>2 DEF NextUpToDate, SameStatus, EndsTerminal, Terminal, BusyPc, EarlyPc
      <4> QED
        BY <4>1, <4>2
    <3>6. CASE h.pc \in SettledPc
      <4>1. k.pc \in SettledPc
        BY <1>1, <3>1, <3>6 DEF Works, Advances, Settling
      <4> QED
        BY <4>1 DEF NextUpToDate, RespondingPc, BusyPc, SettledPc
    <3> QED
      BY <1>1, <3>2, <3>3, <3>4, <3>5, <3>6 DEF EarlyPc
  <2> QED
    BY <2>2, <2>3
<1>6. SettledStays
  BY <1>1, <1>2, <1>3, <1>4, UnsettledMoves
<1>7. ASSUME NEW v \in Worker, v # w PROVE BystanderKept(v)
  <2>1. worker'[v] = worker[v]
    BY <1>1, <1>7
  <2>2. worker[v].pc \in ItemPc => worker[v].item \in Item \ {i}
    BY <1>1, <1>2, <1>7, HandledAlone, HandledIsQueued
  <2> QED
    BY <1>3, <2>1, <2>2 DEF BystanderKept, SameStatus
<1>8. worker'[w] = k
  BY <1>1
<1> QED
  BY <1>1, <1>5, <1>6, <1>7, <1>8, TruthfulKept

LEMMA AnswersTruthful ==
    ASSUME Kept, Truthful, NEW w \in Worker, NEW k, Answers(w, k), NextUpToDate(k),
           answer' = answer \/ (AllTerminal /\ answer'.failed = Failures)
    PROVE  Truthful'
<1>1. IInv /\ UNCHANGED item /\ worker' = [worker EXCEPT ![w] = k] /\ worker \in [Worker -> Handler]
  BY DEF Kept, IInv, TypeOK, Answers
<1>2. \A v \in Worker \ {w} : BystanderKept(v)
  BY <1>1 DEF BystanderKept, SameStatus
<1>3. worker'[w] = k
  BY <1>1
<1> QED
  BY <1>1, <1>2, <1>3, SameRowsStay, TruthfulKept

(* A handler of the analysis that does not answer yet. *)
LEMMA NotResponding ==
    ASSUME NEW k, k = Idle \/ k.pc \in {"aload", "aitems", "acatch", "aack"} PROVE NextUpToDate(k)
BY DEF NextUpToDate, Idle, RespondingPc, BusyPc, ItemPc

LEMMA StillResponding ==
    ASSUME Truthful, NEW w \in Worker, NEW k, worker[w].pc \in RespondingPc,
           k.pc \in {"respond", "record"}, SameData(worker[w], k)
    PROVE  NextUpToDate(k)
BY DEF Truthful, UpToDate, NextUpToDate, RespondingPc, SameData, BusyPc, ItemPc

LEMMA AnalyseTruthful ==
    ASSUME Kept, Truthful, NEW w \in Worker, Analyse(w) PROVE Truthful'
<1>1. IInv /\ Guarded(worker[w])
  BY DEF Kept, Orderly
<1>2. CASE LoadSubmission(w)
  <2>1. UNCHANGED answer
    BY <1>2 DEF LoadSubmission, objects
  <2> QED
    BY <1>1, <1>2, <2>1, LoadSubmissionAnswers, NotResponding, AnswersTruthful
<1>3. CASE LoadItems(w)
  <2>1. PICK k : /\ Answers(w, k)
                 /\ \/ k = Idle
                    \/ AllTerminal /\ k.failed = Failures /\ k.pc \in {"aexhaust", "acount"}
    BY <1>1, <1>3, LoadItemsAnswers
  <2>2. NextUpToDate(k)
    BY <2>1, NotResponding DEF NextUpToDate, RespondingPc, BusyPc, ItemPc
  <2>3. UNCHANGED answer
    BY <1>3 DEF LoadItems, objects
  <2> QED
    BY <2>1, <2>2, <2>3, AnswersTruthful
<1>4. CASE ExhaustAnalysis(w)
  <2>1. UNCHANGED answer
    BY <1>4 DEF ExhaustAnalysis, objects
  <2> QED
    BY <1>1, <1>4, <2>1, ExhaustAnalysisAnswers, NotResponding, AnswersTruthful
<1>5. CASE CountAnalysis(w)
  <2>1. UNCHANGED answer /\ worker[w].pc \in RespondingPc
    BY <1>5 DEF CountAnalysis, objects, RespondingPc
  <2> QED
    BY <1>1, <1>5, <2>1, CountAnalysisAnswers, StillResponding, AnswersTruthful
<1>6. CASE Respond(w)
  <2>1. worker[w].pc \in RespondingPc
    BY <1>6 DEF Respond, RespondingPc
  <2>2. answer' = answer \/ (AllTerminal /\ answer'.failed = Failures)
    BY <1>6, <2>1 DEF Respond, Truthful, UpToDate
  <2> QED
    BY <1>1, <1>6, <2>1, <2>2, RespondAnswers, StillResponding, NotResponding, AnswersTruthful
       DEF AnalysisLost
<1>7. CASE Record(w)
  <2>1. UNCHANGED answer
    BY <1>7 DEF Record, objects
  <2> QED
    BY <1>1, <1>7, <2>1, RecordAnswers, NotResponding, AnswersTruthful DEF AnalysisLost
<1>8. CASE CatchAnalysis(w)
  <2>1. UNCHANGED answer
    BY <1>8 DEF CatchAnalysis, objects
  <2> QED
    BY <1>1, <1>8, <2>1, CatchAnalysisAnswers, NotResponding, AnswersTruthful
<1>9. CASE AckAnalysis(w)
  <2>1. UNCHANGED answer
    BY <1>9 DEF AckAnalysis, objects
  <2> QED
    BY <1>1, <1>9, <2>1, AckAnalysisAnswers, NotResponding, AnswersTruthful
<1> QED
  BY <1>2, <1>3, <1>4, <1>5, <1>6, <1>7, <1>8, <1>9 DEF Analyse

LEMMA HandlerTruthful ==
    ASSUME Kept, QueuedOnce, Truthful, "call" \notin Fault, NEW w \in Worker,
           ProcessItem(w) \/ Analyse(w) \/ CallFails(w) \/ Stop(w)
    PROVE  Truthful'
<1>1. CASE ProcessItem(w)
  <2>1. UNCHANGED answer
    BY <1>1 DEF ProcessItem, Load, Exhaust, Count, Validate, Read, Probe, Copy, Remove, Verify,
         Extract, Ocr, Persist, Ready, Catch, List, Decide, Send, Mark, Ack, objects
  <2> QED
    BY <1>1, <2>1, FileWorks, WorksTruthful DEF Kept
<1>2. CASE Stop(w)
  <2>1. UNCHANGED answer
    BY <1>2 DEF Stop, objects
  <2>2. CASE worker[w].pc \in ItemPc
    BY <1>2, <2>1, <2>2, StopWorks, WorksTruthful DEF Kept
  <2>3. CASE worker[w].pc \notin ItemPc
    <3>1. worker[w].pc \in AnalysisPc
      BY <1>2, <2>3 DEF Stop, AnalysisPc, Kept, IInv, TypeOK, Handler
    <3> QED
      BY <1>2, <2>1, <3>1, StopAnswers, NotResponding, AnswersTruthful DEF Kept
  <2> QED
    BY <2>2, <2>3
<1> QED
  BY <1>1, <1>2, AnalyseTruthful DEF CallFails, Faulty

(* A claimed message starts a handler that knows nothing yet. *)
LEMMA ClaimTruthful == ASSUME Kept, Truthful, NEW w \in Worker, Claim(w) PROVE Truthful'
<1>1. UNCHANGED <<item, answer>>
  BY DEF Claim, ClaimItem, ClaimAnalysis, rows, objects
<1>2. PICK k : worker' = [worker EXCEPT ![w] = k] /\ k.pc \in {"load", "aload"}
  BY ClaimIs DEF Kept
<1>3. NextUpToDate(k)
  BY <1>2 DEF NextUpToDate, RespondingPc, BusyPc, EarlyPc, ItemPc
<1>4. IInv /\ worker \in [Worker -> Handler]
  BY DEF Kept, IInv, TypeOK
<1>5. \A v \in Worker \ {w} : BystanderKept(v)
  BY <1>1, <1>2, <1>4 DEF BystanderKept, SameStatus
<1>6. worker'[w] = k
  BY <1>2, <1>4
<1> QED
  BY <1>1, <1>3, <1>4, <1>5, <1>6, SameRowsStay, TruthfulKept

(* A step that leaves the handlers and the rows of queued items alone. *)
LEMMA OutsideTruthful ==
    ASSUME Kept, Truthful, UNCHANGED <<worker, answer>>, SettledStays,
           \A i \in Item : Len(files[i]) # 0 => SameStatus(i)
    PROVE  Truthful'
<1>1. \A w \in Worker : BystanderKept(w)
  BY HandledIsQueued DEF BystanderKept
<1> QED
  BY <1>1, TruthfulKept DEF Kept

LEMMA GatewayTruthful ==
    ASSUME Kept, QueuedOnce, Truthful, NEW g \in Gate, Gateway(g) \/ Abandon(g)
    PROVE  Truthful'
<1>1. UNCHANGED <<worker, answer>>
  BY DEF Gateway, Abandon, Create, InsertItems, ReadSlots, AssignPath, StartRequeue, Requeue,
         Enqueue, objects
<1>2. SettledStays /\ \A i \in Item : Len(files[i]) # 0 => SameStatus(i)
  <2>1. CASE UNCHANGED item
    BY <2>1, SameRowsStay
  <2>2. CASE InsertItems(g)
    <3>1. \A i \in Item : item[i].status = "absent" /\ Len(files[i]) = 0
      BY <2>2 DEF InsertItems, Kept, Orderly, Exists
    <3> QED
      BY <3>1 DEF SettledStays, Terminal, AllTerminal, Inserted
  <2>3. CASE AssignPath(g)
    <3>1. \A i \in Item : SameStatus(i)
      BY <2>3 DEF AssignPath, SameStatus, Kept, IInv, TypeOK
    <3> QED
      BY <3>1 DEF SettledStays
  <2>4. CASE Requeue(g)
    <3>1. PICK i \in Item : /\ gate[g].item = i /\ Exists(i)
                            /\ \A j \in Item \ {i} : item'[j] = item[j]
      BY <2>4, RequeueIs DEF Kept
    <3>2. Len(files[i]) = 0 /\ item[i].status = "UPLOADING"
      BY <2>4, <3>1 DEF QueuedOnce, Requeue
    <3>3. SettledStays
      BY <3>1, <3>2, UnsettledMoves DEF Kept, Terminal
    <3> QED
      BY <3>1, <3>2, <3>3 DEF SameStatus
  <2> QED
    BY <2>1, <2>2, <2>3, <2>4
    DEF Gateway, Abandon, Create, ReadSlots, StartRequeue, Enqueue, rows
<1> QED
  BY <1>1, <1>2, OutsideTruthful

LEMMA NextTruthful ==
    ASSUME "call" \notin Fault
    PROVE  Kept /\ QueuedOnce /\ Truthful /\ [Next]_vars => Truthful'
<1> SUFFICES ASSUME Kept, QueuedOnce, Truthful, [Next]_vars PROVE Truthful'
  OBVIOUS
<1>1. CASE UNCHANGED vars
  BY <1>1, SameRowsStay, OutsideTruthful DEF vars
<1>2. ASSUME NEW i \in Item, Upload(i) PROVE Truthful'
  BY <1>2, SameRowsStay, OutsideTruthful DEF Upload, rows
<1>3. CASE Lapse
  <2>1. UNCHANGED <<item, worker, answer>>
    BY <1>3 DEF Lapse, LapseItem, LapseAnalysis, rows, objects
  <2> QED
    BY <2>1, SameRowsStay, OutsideTruthful
<1> QED
  BY <1>1, <1>2, <1>3, GatewayTruthful, ClaimTruthful, HandlerTruthful DEF Next

(* The answer of a submission calls failed exactly the files that failed,   *)
(* and they stay as they are: whatever handlers die and unchecked updates   *)
(* are lost, as long as the gateway serves one request at a time, no        *)
(* checked call fails and no handler outlives its claim.                    *)
THEOREM AnswerIsTrue ==
    SingleGate /\ {"call", "overrun"} \cap Fault = {} => (Spec => []AnswerMatchesItems)
<1> SUFFICES ASSUME SingleGate, {"call", "overrun"} \cap Fault = {}
             PROVE  Spec => []AnswerMatchesItems
  OBVIOUS
<1>1. Init => QueuedOnce /\ Truthful
  BY DEF Init, QueuedOnce, Truthful, UpToDate, Idle, NoRequest, BusyPc, ItemPc, RespondingPc
<1>2. (Kept /\ QueuedOnce /\ Truthful) /\ [Next]_vars => (QueuedOnce /\ Truthful)'
  BY NextQueuedOnce, NextTruthful
<1>3. Kept /\ QueuedOnce /\ Truthful => AnswerMatchesItems
  BY DEF Truthful, AnswerMatchesItems, Failures
<1>4. Spec => []Kept
  BY KeptInvariance
<1> QED
  BY <1>1, <1>2, <1>3, <1>4, PTL DEF Spec

-----------------------------------------------------------------------------
(* No lost wake-up *)

(* An analysis that will acknowledge its message without another attempt.   *)
Spent(h) ==
    \/ h.pc \in {"aexhaust", "aack"}
    \/ h.pc = "aitems" /\ h.attempt > MaxAnalysisAttempts
    \/ /\ h.pc \in {"respond", "record", "acatch"} /\ h.attempt >= MaxAnalysisAttempts
       /\ "call" \in Fault

(* Analysis message m will lead to an attempt.                              *)
Pending(m) ==
    analyses[m] # "deleted" /\ \A w \in Worker : Spent(worker[w]) => worker[w].msg # m

Answering == Ended \/ \E m \in DOMAIN analyses : Pending(m)

(* A handler that will not look whether all items are settled.              *)
Aside(h) == h.pc \in {"mark", "ack"} \/ (h.pc = "decide" /\ ~h.terminal)

(* Message m of i will lead to a look at the items.                         *)
Aggregating(i, m) ==
    /\ files[i][m] # "deleted"
    /\ \A w \in Worker : Aside(worker[w]) => worker[w].item # i \/ worker[w].msg # m

(* What this handler does rests on an answer that is under way.             *)
Concludes(h) == Spent(h) \/ (h.pc = "mark" /\ h.terminal)

Sound(h) ==
    /\ h.pc = "acatch" => "call" \in Fault
    /\ h.pc = "aexhaust" => h.attempt > MaxAnalysisAttempts

Due ==
    /\ sub.status = "ANALYZING" => Answering
    /\ \A w \in Worker : Concludes(worker[w]) => Answering
    /\ \A w \in Worker : Sound(worker[w])
    /\ AllTerminal => Answering \/ \E i \in Item : \E m \in DOMAIN files[i] : Aggregating(i, m)

NextPending(m) ==
    /\ m \in DOMAIN analyses' /\ analyses'[m] # "deleted"
    /\ \A w \in Worker : Spent(worker'[w]) => worker'[w].msg # m

NextAnswering ==
    \/ sub'.response \/ sub'.attempts >= MaxAnalysisAttempts
    \/ \E m : NextPending(m)

NextAggregating(i, m) ==
    /\ m \in DOMAIN files'[i] /\ files'[i][m] # "deleted"
    /\ \A w \in Worker : Aside(worker'[w]) => worker'[w].item # i \/ worker'[w].msg # m

NextLook == NextAnswering \/ \E i \in Item : \E m : NextAggregating(i, m)

LEMMA DueKept ==
    ASSUME sub'.status = "ANALYZING" => NextAnswering,
           \A w \in Worker : Sound(worker'[w]) /\ (Concludes(worker'[w]) => NextAnswering),
           AllTerminal' => NextLook
    PROVE  Due'
<1>1. NextAnswering => Answering'
  BY DEF NextAnswering, NextPending, Answering, Pending, Ended
<1>2. ASSUME NEW i \in Item, NEW m, NextAggregating(i, m)
      PROVE  \E j \in Item : \E n \in DOMAIN files'[j] : Aggregating(j, n)'
  BY <1>2 DEF NextAggregating, Aggregating
<1> QED
  BY <1>1, <1>2 DEF Due, NextLook

(* A step that is not a handler's. *)
LEMMA DueBystanders ==
    ASSUME Due, UNCHANGED worker, Answering => NextAnswering,
           sub'.status = "ANALYZING" => sub.status = "ANALYZING",
           AllTerminal' => NextLook
    PROVE  Due'
BY DueKept DEF Due

LEMMA DueHandler ==
    ASSUME IInv, Due, NEW w \in Worker, NEW k, worker' = [worker EXCEPT ![w] = k],
           Answering => NextAnswering,
           sub'.status = "ANALYZING" => sub.status = "ANALYZING" \/ NextAnswering,
           Sound(k), Concludes(k) => NextAnswering,
           AllTerminal' => NextLook
    PROVE  Due'
<1>1. \A v \in Worker : worker'[v] = worker[v] \/ worker'[v] = k
  BY DEF IInv, TypeOK
<1>2. ASSUME NEW v \in Worker PROVE Sound(worker'[v]) /\ (Concludes(worker'[v]) => NextAnswering)
  BY <1>1 DEF Due
<1>3. sub'.status = "ANALYZING" => NextAnswering
  BY DEF Due
<1> QED
  BY <1>2, <1>3, DueKept

-----------------------------------------------------------------------------
(* What keeps an answer under way *)

AnalysesKept(m) == m \in DOMAIN analyses' /\ (analyses[m] # "deleted" => analyses'[m] # "deleted")

SubKept == sub'.response = sub.response /\ sub'.attempts = sub.attempts

LEMMA AnsweringGoesOn ==
    ASSUME IInv, NEW w \in Worker, NEW k, worker' = [worker EXCEPT ![w] = k], SubKept,
           \A m \in DOMAIN analyses : Pending(m) => AnalysesKept(m),
           Spent(k) => Spent(worker[w]) /\ k.msg = worker[w].msg,
           Answering
    PROVE  NextAnswering
<1>1. CASE Ended
  BY <1>1 DEF Ended, SubKept, NextAnswering
<1>2. ASSUME NEW m \in DOMAIN analyses, Pending(m) PROVE NextPending(m)
  BY <1>2 DEF IInv, TypeOK, Pending, AnalysesKept, NextPending
<1> QED
  BY <1>1, <1>2 DEF Answering, NextAnswering

LEMMA AnsweringElsewhere ==
    ASSUME UNCHANGED worker, SubKept, \A m \in DOMAIN analyses : AnalysesKept(m), Answering
    PROVE  NextAnswering
BY DEF Answering, Ended, SubKept, NextAnswering, Pending, AnalysesKept, NextPending

LEMMA SameAnalysesKept == ASSUME UNCHANGED analyses, NEW m \in DOMAIN analyses PROVE AnalysesKept(m)
BY DEF AnalysesKept

(* The message of a handler that is to give up only this attempt. *)
LEMMA OwnMessagePending ==
    ASSUME Kept, NEW w \in Worker, worker[w].pc \in AnalysisPc, UNCHANGED analyses,
           NEW k, worker' = [worker EXCEPT ![w] = k], ~Spent(k)
    PROVE  NextAnswering
<1> DEFINE m == worker[w].msg
<1>1. IInv /\ worker \in [Worker -> Handler] /\ Busy(w) /\ worker[w].item = NoItem
  BY AnalysisItem DEF Kept, IInv, TypeOK, Busy, AnalysisPc
<1>2. m \in DOMAIN analyses /\ analyses[m] = "claimed"
  BY <1>1 DEF Kept, Exclusive, Queue
<1>3. ASSUME NEW v \in Worker, v # w, Spent(worker[v]) PROVE worker[v].msg # m
  <2>1. worker[v].pc \in AnalysisPc
    BY <1>3 DEF Spent, AnalysisPc, Pc, ItemPc
  <2>2. Busy(v) /\ worker[v].item = NoItem
    BY <1>1, <2>1, AnalysisItem DEF Busy, AnalysisPc
  <2> QED
    BY <1>1, <1>3, <2>2 DEF Kept, Exclusive, SameHold
<1>4. NextPending(m)
  BY <1>1, <1>2, <1>3 DEF NextPending
<1> QED
  BY <1>4 DEF NextAnswering

(* The message of a handler that is to look at the items. *)
LEMMA OwnMessageAggregates ==
    ASSUME Kept, NEW w \in Worker, worker[w].pc \in ItemPc, UNCHANGED files,
           NEW k, worker' = [worker EXCEPT ![w] = k], ~Aside(k)
    PROVE  NextLook
<1> DEFINE i == worker[w].item
           m == worker[w].msg
<1>1. IInv /\ worker \in [Worker -> Handler] /\ Busy(w) /\ i \in Item /\ i # NoItem
  BY HandlerFile DEF Kept, IInv, TypeOK, Busy, ItemPc
<1>2. m \in DOMAIN files[i] /\ files[i][m] = "claimed"
  BY <1>1 DEF Kept, Exclusive, Queue
<1>3. ASSUME NEW v \in Worker, v # w, Aside(worker[v]) PROVE worker[v].item # i \/ worker[v].msg # m
  BY <1>1, <1>3 DEF Kept, Exclusive, SameHold, Busy, Aside
<1>4. NextAggregating(i, m)
  BY <1>1, <1>2, <1>3 DEF NextAggregating
<1> QED
  BY <1>1, <1>4 DEF NextLook

(* The same rows, and no message set aside. *)
LEMMA LookGoesOn ==
    ASSUME IInv, Due, UNCHANGED item, Answering => NextAnswering,
           NEW w \in Worker, NEW k, worker' = [worker EXCEPT ![w] = k],
           AllTerminal => \A i \in Item : \A m \in DOMAIN files[i] : Aggregating(i, m) => FileKept(i, m),
           AllTerminal /\ Aside(k) =>
               NextAnswering \/ (Aside(worker[w]) /\ SameHold(worker[w], k)),
           AllTerminal'
    PROVE  NextLook
<1>1. AllTerminal
  BY DEF AllTerminal, Inserted, Terminal
<1>2. ASSUME NEW i \in Item, NEW m \in DOMAIN files[i], Aggregating(i, m), ~NextAnswering
      PROVE  NextAggregating(i, m)
  <2>1. FileKept(i, m)
    BY <1>1, <1>2
  <2>2. Aside(k) => Aside(worker[w]) /\ SameHold(worker[w], k)
    BY <1>1, <1>2
  <2> QED
    BY <1>2, <2>1, <2>2 DEF IInv, TypeOK, Aggregating, FileKept, NextAggregating, SameHold
<1> QED
  BY <1>1, <1>2 DEF Due, NextLook

-----------------------------------------------------------------------------
(* The steps of the analysis *)

LEMMA AnswersDue ==
    ASSUME Kept, Due, UNCHANGED files, NEW w \in Worker, NEW k, Answers(w, k),
           Answering => NextAnswering,
           sub'.status = "ANALYZING" => sub.status = "ANALYZING" \/ NextAnswering,
           Sound(k), Spent(k) => NextAnswering
    PROVE  Due'
<1>1. k.pc # "mark" /\ ~Aside(k)
  BY DEF Answers, Idle, AnalysisPc, ItemPc, Aside
<1>2. IInv /\ UNCHANGED item /\ worker' = [worker EXCEPT ![w] = k]
  BY DEF Kept, Answers
<1>3. AllTerminal' => NextLook
  BY <1>1, <1>2, LookGoesOn DEF FileKept
<1> QED
  BY <1>1, <1>2, <1>3, DueHandler DEF Concludes

(* A step of the analysis that leaves the submission as it is. *)
LEMMA AnswersQuietly ==
    ASSUME Kept, Due, UNCHANGED <<sub, files, analyses>>, NEW w \in Worker, NEW k, Answers(w, k),
           Sound(k), Spent(k) => Ended \/ Spent(worker[w])
    PROVE  Due'
<1>1. Ended => NextAnswering
  BY DEF Ended, NextAnswering
<1>2. k # Idle => k.msg = worker[w].msg
  BY DEF Answers, SameHold
<1>3. ~Spent(Idle)
  BY DEF Spent, Idle
<1>4. Answering => NextAnswering
  BY <1>1, <1>2, <1>3, AnsweringGoesOn, SameAnalysesKept DEF Kept, Answers, SubKept
<1>5. Spent(k) => NextAnswering
  BY <1>1, <1>4 DEF Due, Concludes
<1> QED
  BY <1>4, <1>5, AnswersDue

LEMMA LoadSubmissionDue ==
    ASSUME Kept, Due, NEW w \in Worker, LoadSubmission(w) PROVE Due'
<1>1. PICK k : /\ Answers(w, k) /\ k.attempt = sub.attempts + 1
               /\ k.pc = IF sub.response THEN "aack" ELSE "aitems"
  BY LoadSubmissionAnswers DEF Kept, Orderly
<1>2. sub.attempts \in Nat /\ MaxAnalysisAttempts \in Nat
  BY AttemptsAssumption DEF Kept, IInv, TypeOK
<1>3. Sound(k) /\ (Spent(k) => Ended)
  BY <1>1, <1>2 DEF Sound, Spent, Ended
<1> QED
  BY <1>1, <1>3, AnswersQuietly DEF LoadSubmission, rows, queues

LEMMA LoadItemsDue == ASSUME Kept, Due, NEW w \in Worker, LoadItems(w) PROVE Due'
<1>1. PICK k : /\ Answers(w, k)
               /\ \/ k = Idle
                  \/ /\ k.attempt = worker[w].attempt
                     /\ k.pc = IF k.attempt > MaxAnalysisAttempts THEN "aexhaust" ELSE "acount"
  BY LoadItemsAnswers DEF Kept, Orderly
<1>2. Sound(k) /\ (Spent(k) => Spent(worker[w]))
  BY <1>1 DEF LoadItems, Sound, Spent, Idle
<1> QED
  BY <1>1, <1>2, AnswersQuietly DEF LoadItems, rows, queues

(* A call fails or loses its answer. *)
LEMMA LostSpent ==
    ASSUME NEW w, NEW k, AnalysisLost(w, k), worker[w].pc \in TryPc
    PROVE  Sound(k) /\ (Spent(k) => Spent(worker[w]))
BY DEF AnalysisLost, SameData, TryPc, Sound, Spent

LEMMA RespondDue == ASSUME Kept, Due, NEW w \in Worker, Respond(w) PROVE Due'
<1>1. PICK k : Answers(w, k) /\ ((k.pc = "record" /\ SameData(worker[w], k)) \/ AnalysisLost(w, k))
  BY RespondAnswers DEF Kept
<1>2. Sound(k) /\ (Spent(k) => Spent(worker[w]))
  <2>1. CASE k.pc = "record" /\ SameData(worker[w], k)
    BY <2>1 DEF Respond, Sound, Spent, SameData
  <2>2. CASE AnalysisLost(w, k)
    BY <2>2, LostSpent DEF Respond, TryPc
  <2> QED
    BY <1>1, <2>1, <2>2
<1> QED
  BY <1>1, <1>2, AnswersQuietly DEF Respond, rows, queues

LEMMA ExhaustAnalysisDue ==
    ASSUME Kept, Due, NEW w \in Worker, ExhaustAnalysis(w) PROVE Due'
<1>1. PICK k : Answers(w, k) /\ k.pc = "aack"
  BY ExhaustAnalysisAnswers DEF Kept, Orderly
<1>2. Sound(k) /\ Spent(worker[w]) /\ UNCHANGED <<files, analyses>>
  BY <1>1 DEF ExhaustAnalysis, Sound, Spent, queues
<1>3. CASE UNCHANGED sub
  BY <1>1, <1>2, <1>3, AnswersQuietly
<1>4. CASE ~UNCHANGED sub
  <2>1. worker[w].attempt > MaxAnalysisAttempts
    BY DEF Due, Sound, ExhaustAnalysis
  <2>2. worker[w].attempt \in Nat /\ MaxAnalysisAttempts \in Nat
    BY AttemptsAssumption DEF Kept, IInv, TypeOK, Handler
  <2>3. sub'.attempts = worker[w].attempt
    BY <1>4 DEF ExhaustAnalysis, UpdateSub, Kept, IInv, TypeOK
  <2>4. NextAnswering
    BY <2>1, <2>2, <2>3 DEF NextAnswering
  <2> QED
    BY <1>1, <1>2, <2>4, AnswersDue
<1> QED
  BY <1>3, <1>4

LEMMA CountAnalysisDue ==
    ASSUME Kept, Due, ~({"call", "silent"} \subseteq Fault),
           NEW w \in Worker, CountAnalysis(w)
    PROVE  Due'
<1>1. PICK k : Answers(w, k) /\ k.pc = "respond" /\ SameData(worker[w], k)
  BY CountAnalysisAnswers DEF Kept
<1>2. Sound(k) /\ UNCHANGED <<files, analyses>>
  BY <1>1 DEF CountAnalysis, Sound, queues
<1>3. Spent(k) => worker[w].attempt >= MaxAnalysisAttempts /\ "call" \in Fault
  BY <1>1 DEF Spent, SameData
<1>4. CASE UNCHANGED sub /\ "silent" \in Fault
  BY <1>1, <1>2, <1>3, <1>4, AnswersQuietly
<1>5. CASE ~(UNCHANGED sub /\ "silent" \in Fault)
  <2>1. sub'.attempts = worker[w].attempt
    BY <1>5 DEF CountAnalysis, UpdateSub, Faulty, Kept, IInv, TypeOK
  <2>2. Spent(k) => NextAnswering
    BY <1>3, <2>1 DEF NextAnswering
  <2>3. ~Spent(k) => NextAnswering
    BY <1>1, <1>2, OwnMessagePending DEF Answers
  <2> QED
    BY <1>1, <1>2, <2>2, <2>3, AnswersDue
<1> QED
  BY <1>4, <1>5

LEMMA RecordDue == ASSUME Kept, Due, NEW w \in Worker, Record(w) PROVE Due'
<1>1. PICK k : Answers(w, k) /\ (k.pc = "aack" \/ AnalysisLost(w, k))
  BY RecordAnswers DEF Kept
<1>2. sub'.response
  BY DEF Record, Kept, IInv, TypeOK
<1>3. NextAnswering /\ Sound(k) /\ UNCHANGED files
  BY <1>1, <1>2 DEF NextAnswering, Record, queues, Sound, AnalysisLost
<1> QED
  BY <1>1, <1>3, AnswersDue

LEMMA CatchAnalysisDue ==
    ASSUME Kept, Due, NEW w \in Worker, CatchAnalysis(w) PROVE Due'
<1> DEFINE spent == worker[w].attempt >= MaxAnalysisAttempts
<1>1. PICK k : Answers(w, k) /\ IF spent THEN k.pc = "aack" ELSE k = Idle
  BY CatchAnalysisAnswers DEF Kept, Orderly
<1>2. /\ SubKept /\ UNCHANGED <<files, analyses>> /\ worker[w].pc = "acatch"
      /\ spent => sub'.status = "FAILED" \/ sub' = sub
  BY DEF CatchAnalysis, UpdateSub, SubKept, queues, Kept, IInv, TypeOK
<1>3. Sound(k) /\ ~Spent(Idle)
  BY <1>1 DEF Sound, Spent, Idle
<1>4. CASE ~spent
  <2>1. NextAnswering
    BY <1>1, <1>2, <1>3, <1>4, OwnMessagePending DEF Answers, AnalysisPc
  <2> QED
    BY <1>1, <1>2, <1>3, <2>1, AnswersDue
<1>5. CASE spent
  <2>1. Spent(worker[w])
    BY <1>2, <1>5 DEF Due, Sound, Spent
  <2>2. k.msg = worker[w].msg
    BY <1>1, <1>5 DEF Answers, SameHold, Idle
  <2>3. Answering /\ NextAnswering
    BY <1>1, <1>2, <2>1, <2>2, AnsweringGoesOn, SameAnalysesKept DEF Due, Concludes, Answers, Kept
  <2> QED
    BY <1>1, <1>2, <1>3, <2>3, AnswersDue
<1> QED
  BY <1>4, <1>5

LEMMA AckAnalysisDue == ASSUME Kept, Due, NEW w \in Worker, AckAnalysis(w) PROVE Due'
<1>1. Answers(w, Idle) /\ UNCHANGED <<sub, files>> /\ Spent(worker[w])
  BY AckAnalysisAnswers DEF Kept, AckAnalysis, rows, Spent
<1>2. Sound(Idle) /\ ~Spent(Idle)
  BY DEF Sound, Spent, Idle
<1>3. Sets(NoItem, worker[w].msg, "deleted")
  BY AckAnalysisSets DEF Kept
<1>4. ASSUME NEW m \in DOMAIN analyses, Pending(m) PROVE AnalysesKept(m)
  BY <1>1, <1>3, <1>4 DEF Pending, Sets, Queue, NextQueue, AnalysesKept
<1>5. Answering => NextAnswering
  BY <1>1, <1>2, <1>4, AnsweringGoesOn DEF SubKept, Answers, Kept
<1> QED
  BY <1>1, <1>2, <1>5, AnswersDue

LEMMA AnalyseDue ==
    ASSUME Kept, Due, ~({"call", "silent"} \subseteq Fault), NEW w \in Worker, Analyse(w)
    PROVE  Due'
BY LoadSubmissionDue, LoadItemsDue, ExhaustAnalysisDue, CountAnalysisDue, RespondDue, RecordDue,
   CatchAnalysisDue, AckAnalysisDue DEF Analyse

-----------------------------------------------------------------------------
(* The steps of the handlers of files *)

LEMMA WorksAnswering ==
    ASSUME IInv, NEW w \in Worker, NEW k, Works(w, k), SubKept,
           \A m \in DOMAIN analyses : AnalysesKept(m), Answering
    PROVE  NextAnswering
<1>1. ~Spent(k)
  BY DEF Works, Idle, Spent, ItemPc
<1> QED
  BY <1>1, AnsweringGoesOn DEF Works

LEMMA WorksSound == ASSUME NEW w, NEW k, Works(w, k) PROVE Sound(k) /\ ~Spent(k)
BY DEF Works, Idle, Sound, Spent, ItemPc

(* Before it has settled its item, a handler has yet to look at the items. *)
LEMMA UnsettledDue ==
    ASSUME Kept, Due, UNCHANGED <<sub, files, analyses>>, NEW w \in Worker, NEW k, Works(w, k),
           worker[w].pc \notin SettledPc
    PROVE  Due'
<1>1. IInv /\ worker' = [worker EXCEPT ![w] = k] /\ worker[w].pc \in ItemPc
  BY DEF Kept, Works
<1>2. k.pc \notin {"mark", "ack", "decide"}
  <2>1. worker[w].pc \in EarlyPc \cup BusyPc
    BY <1>1 DEF BusyPc
  <2>2. {"mark", "ack", "decide"} \cap (BusyPc \cup {"idle", "list", "catch", "exhaust", "count"}) = {}
    BY DEF BusyPc, SettledPc
  <2> QED
    BY <2>1, <2>2
    DEF Works, Advances, Loading, Exhausting, Counting, Working, CallLost, EarlyPc
<1>3. NextLook
  BY <1>1, <1>2, OwnMessageAggregates DEF Aside
<1>4. Answering => NextAnswering
  BY <1>1, WorksAnswering, SameAnalysesKept DEF SubKept
<1> QED
  BY <1>1, <1>2, <1>3, <1>4, WorksSound, DueHandler DEF Concludes

(* Afterwards the rows stay. *)
LEMMA SettledDue ==
    ASSUME Kept, Due, NEW w \in Worker, NEW k, Works(w, k), UNCHANGED item,
           Answering => NextAnswering,
           sub'.status = "ANALYZING" => sub.status = "ANALYZING" \/ NextAnswering,
           k.pc = "mark" /\ k.terminal => NextAnswering,
           \A i \in Item : \A m \in DOMAIN files[i] : Aggregating(i, m) => FileKept(i, m),
           AllTerminal /\ Aside(k) => NextAnswering \/ Aside(worker[w])
    PROVE  Due'
<1>1. IInv /\ worker' = [worker EXCEPT ![w] = k]
  BY DEF Kept, Works
<1>2. Aside(k) => SameHold(worker[w], k)
  BY DEF Works, Aside, Idle
<1>3. AllTerminal' => NextLook
  BY <1>1, <1>2, LookGoesOn
<1> QED
  BY <1>1, <1>3, WorksSound, DueHandler DEF Concludes

LEMMA SameFilesKept == ASSUME UNCHANGED files, NEW i, NEW m \in DOMAIN files[i] PROVE FileKept(i, m)
BY DEF FileKept

LEMMA ListDue == ASSUME Kept, Due, NEW w \in Worker, List(w) PROVE Due'
<1>1. PICK k : Works(w, k) /\ k.pc = "decide" /\ k.terminal = AllTerminal
  BY ListWorks DEF Kept
<1>2. UNCHANGED <<item, sub, files, analyses>>
  BY DEF List, rows, queues
<1>3. Answering => NextAnswering
  BY <1>1, <1>2, WorksAnswering, SameAnalysesKept DEF Kept, SubKept
<1>4. AllTerminal => ~Aside(k)
  BY <1>1 DEF Aside
<1> QED
  BY <1>1, <1>2, <1>3, <1>4, SettledDue, SameFilesKept

LEMMA DecideDue == ASSUME Kept, Due, NEW w \in Worker, Decide(w) PROVE Due'
<1>1. PICK k : /\ Works(w, k) /\ k.terminal = worker[w].terminal
               /\ \/ sub.response /\ k.pc = "ack"
                  \/ k.pc = "send"
                  \/ k.pc = "mark" /\ (k.terminal => sub.status = "ANALYZING")
  BY DecideWorks DEF Kept
<1>2. UNCHANGED <<item, sub, files, analyses>> /\ worker[w].pc = "decide"
  BY DEF Decide, rows, queues
<1>3. Answering => NextAnswering
  BY <1>1, <1>2, WorksAnswering, SameAnalysesKept DEF Kept, SubKept
<1>4. sub.response => NextAnswering
  BY <1>2 DEF NextAnswering
<1>5. k.pc = "mark" /\ k.terminal => NextAnswering
  BY <1>1, <1>3 DEF Due
<1>6. Aside(k) => NextAnswering \/ Aside(worker[w])
  BY <1>1, <1>2, <1>4, <1>5 DEF Aside
<1> QED
  BY <1>1, <1>2, <1>3, <1>5, <1>6, SettledDue, SameFilesKept

(* The message that was sent is nobody's yet. *)
LEMMA SentPending ==
    ASSUME Kept, NEW w \in Worker, Send(w), NEW k, Works(w, k) PROVE NextAnswering
<1> DEFINE m == Len(analyses) + 1
<1>1. /\ IInv /\ analyses \in Seq(Message) /\ analyses' = Append(analyses, "visible")
      /\ worker' = [worker EXCEPT ![w] = k] /\ worker \in [Worker -> Handler] /\ ~Spent(k)
  BY WorksSound DEF Kept, IInv, TypeOK, Send, Works
<1>2. m \in DOMAIN analyses' /\ analyses'[m] = "visible" /\ m \notin DOMAIN analyses
  BY <1>1
<1>3. ASSUME NEW v \in Worker, v # w, Spent(worker[v]) PROVE worker[v].msg # m
  <2>1. worker[v].pc \in AnalysisPc
    BY <1>3 DEF Spent, AnalysisPc, Pc, ItemPc
  <2>2. Busy(v) /\ worker[v].item = NoItem
    BY <1>1, <2>1, AnalysisItem DEF Busy, AnalysisPc
  <2> QED
    BY <1>2, <2>2 DEF Kept, Exclusive, Queue
<1>4. NextPending(m)
  BY <1>1, <1>2, <1>3 DEF NextPending
<1> QED
  BY <1>4 DEF NextAnswering

LEMMA SendDue == ASSUME Kept, Due, NEW w \in Worker, Send(w) PROVE Due'
<1>1. PICK k : Works(w, k)
  BY SendWorks DEF Kept
<1>2. NextAnswering
  BY <1>1, SentPending
<1>3. UNCHANGED <<item, sub, files>>
  BY DEF Send, rows
<1> QED
  BY <1>1, <1>2, <1>3, SettledDue, SameFilesKept

LEMMA MarkDue == ASSUME Kept, Due, NEW w \in Worker, Mark(w) PROVE Due'
<1>1. PICK k : Works(w, k) /\ (k.pc = "ack" \/ CallLost(k))
  BY MarkWorks DEF Kept
<1>2. /\ UNCHANGED <<item, files, analyses>> /\ SubKept /\ Aside(worker[w])
      /\ sub'.status = "ANALYZING" => worker[w].terminal
  BY DEF Mark, queues, SubKept, Aside, Kept, IInv, TypeOK
<1>3. Answering => NextAnswering
  BY <1>1, <1>2, WorksAnswering, SameAnalysesKept DEF Kept
<1>4. worker[w].terminal => NextAnswering
  BY <1>3 DEF Due, Concludes, Mark
<1>5. k.pc # "mark"
  BY <1>1 DEF CallLost
<1> QED
  BY <1>1, <1>2, <1>3, <1>4, <1>5, SettledDue, SameFilesKept

LEMMA AckDue == ASSUME Kept, Due, NEW w \in Worker, Ack(w) PROVE Due'
<1>1. Works(w, Idle) /\ UNCHANGED <<item, sub, analyses>> /\ Aside(worker[w])
  BY AckWorks DEF Kept, Ack, rows, Aside
<1>2. Sets(worker[w].item, worker[w].msg, "deleted")
  BY AckSets DEF Kept
<1>3. ASSUME NEW i \in Item, NEW m \in DOMAIN files[i], Aggregating(i, m) PROVE FileKept(i, m)
  <2>1. ~(i = worker[w].item /\ m = worker[w].msg)
    BY <1>1, <1>3 DEF Aggregating
  <2> QED
    BY <1>2, <2>1, ItemAssumption DEF Sets, Queue, NextQueue, FileKept
<1>4. Answering => NextAnswering
  BY <1>1, WorksAnswering, SameAnalysesKept DEF Kept, SubKept
<1>5. Idle.pc = "idle"
  BY DEF Idle
<1> QED
  BY <1>1, <1>3, <1>4, <1>5, SettledDue

LEMMA ProcessItemDue == ASSUME Kept, Due, NEW w \in Worker, ProcessItem(w) PROVE Due'
<1>1. CASE worker[w].pc \in SettledPc
  <2>1. List(w) \/ Decide(w) \/ Send(w) \/ Mark(w) \/ Ack(w)
    BY <1>1 DEF SettledPc, ProcessItem, Load, Exhaust, Count, Validate, Read, Probe, Copy, Remove,
                Verify, Extract, Ocr, Persist, Ready, Catch
  <2> QED
    BY <2>1, ListDue, DecideDue, SendDue, MarkDue, AckDue
<1>2. CASE worker[w].pc \notin SettledPc
  <2>1. UNCHANGED <<sub, files, analyses>>
    BY <1>2 DEF SettledPc, ProcessItem, Load, Exhaust, Count, Validate, Read, Probe, Copy, Remove,
                Verify, Extract, Ocr, Persist, Ready, Catch, List, Decide, Send, Mark, Ack,
                rows, queues
  <2> QED
    BY <1>2, <2>1, FileWorks, UnsettledDue DEF Kept
<1> QED
  BY <1>1, <1>2

LEMMA FaultDue == ASSUME Kept, Due, NEW w \in Worker, CallFails(w) \/ Stop(w) PROVE Due'
<1>1. UNCHANGED <<item, sub, files, analyses>>
  BY DEF CallFails, Stop, rows, queues
<1>2. IInv /\ Guarded(worker[w])
  BY DEF Kept, Orderly
<1>3. CASE worker[w].pc \in ItemPc
  <2>1. PICK k : Works(w, k) /\ k.pc \in {"idle", "catch"}
    BY <1>2, <1>3, StopWorks, CallFailsWorks DEF Idle
  <2>2. Answering => NextAnswering
    BY <1>1, <1>2, <2>1, WorksAnswering, SameAnalysesKept DEF SubKept
  <2>3. ~Aside(k) /\ k.pc # "mark"
    BY <2>1 DEF Aside
  <2> QED
    BY <1>1, <2>1, <2>2, <2>3, SettledDue, SameFilesKept
<1>4. CASE worker[w].pc \notin ItemPc
  <2>1. PICK k : Answers(w, k) /\ Sound(k) /\ (Spent(k) => Spent(worker[w]))
    <3>1. CASE CallFails(w)
      BY <1>2, <1>4, <3>1, CallFailsAnswers, LostSpent
    <3>2. CASE Stop(w)
      <4>1. worker[w].pc \in AnalysisPc
        BY <1>2, <1>4, <3>2 DEF Stop, AnalysisPc, IInv, TypeOK, Handler
      <4>2. Sound(Idle) /\ ~Spent(Idle)
        BY DEF Sound, Spent, Idle
      <4> QED
        BY <1>2, <3>2, <4>1, <4>2, StopAnswers
    <3> QED
      BY <3>1, <3>2
  <2> QED
    BY <1>1, <2>1, AnswersQuietly
<1> QED
  BY <1>3, <1>4

-----------------------------------------------------------------------------
(* The steps of the queues and of the gateway *)

LEMMA SetsKeepAnalyses ==
    ASSUME NEW i, NEW m, NEW status, status # "deleted", Sets(i, m, status),
           NEW n \in DOMAIN analyses
    PROVE  AnalysesKept(n)
BY DEF Sets, AnalysesKept, Queue, NextQueue

LEMMA ClaimDue == ASSUME Kept, Due, NEW w \in Worker, Claim(w) PROVE Due'
<1>1. PICK i, m, k : /\ Sets(i, m, "claimed") /\ worker' = [worker EXCEPT ![w] = k]
                     /\ k.pc \in {"aload", "load"}
  BY ClaimIs DEF Kept
<1>2. IInv /\ UNCHANGED <<item, sub>>
  BY DEF Kept, Claim, ClaimItem, ClaimAnalysis, rows
<1>3. ~Spent(k) /\ ~Aside(k) /\ Sound(k) /\ k.pc # "mark"
  BY <1>1 DEF Spent, Aside, Sound
<1>4. Answering => NextAnswering
  BY <1>1, <1>2, <1>3, AnsweringGoesOn, SetsKeepAnalyses DEF SubKept
<1>5. AllTerminal' => NextLook
  BY <1>1, <1>2, <1>3, <1>4, LookGoesOn, SetsKeep
<1> QED
  BY <1>1, <1>2, <1>3, <1>4, <1>5, DueHandler DEF Concludes

(* A step that is not a handler's leaves the rows or some item unsettled. *)
LEMMA OutsideDue ==
    ASSUME Due, UNCHANGED worker, SubKept,
           sub'.status = "ANALYZING" => sub.status = "ANALYZING",
           \A m \in DOMAIN analyses : AnalysesKept(m),
           \A i \in Item : \A m \in DOMAIN files[i] : FileKept(i, m),
           AllTerminal' => AllTerminal
    PROVE  Due'
<1>1. Answering => NextAnswering
  BY AnsweringElsewhere
<1>2. ASSUME NEW i \in Item, NEW m \in DOMAIN files[i], Aggregating(i, m) PROVE NextAggregating(i, m)
  BY <1>2 DEF Aggregating, NextAggregating, FileKept
<1>3. AllTerminal' => NextLook
  BY <1>1, <1>2 DEF Due, NextLook
<1> QED
  BY <1>1, <1>3, DueBystanders

LEMMA SameOutcome == ASSUME UNCHANGED item PROVE AllTerminal' => AllTerminal
BY DEF AllTerminal, Inserted, Terminal

LEMMA LapseDue == ASSUME Kept, Due, Lapse, "overrun" \notin Fault PROVE Due'
<1>1. PICK i, m : Sets(i, m, "visible") /\ UNCHANGED worker
  BY LapseIs DEF Kept
<1>2. UNCHANGED <<item, sub>>
  BY DEF Lapse, LapseItem, LapseAnalysis, rows
<1> QED
  BY <1>1, <1>2, SetsKeep, SetsKeepAnalyses, SameOutcome, OutsideDue DEF SubKept

LEMMA GatewayDue ==
    ASSUME Kept, Due, NEW g \in Gate, Gateway(g) \/ Abandon(g) PROVE Due'
<1>1. UNCHANGED <<worker, analyses>>
  BY DEF Gateway, Abandon, Create, InsertItems, ReadSlots, AssignPath, StartRequeue, Requeue,
         Enqueue, queues
<1>2. SubKept /\ (sub'.status = "ANALYZING" => sub.status = "ANALYZING")
  <2>1. UNCHANGED sub \/ Create(g)
    BY DEF Gateway, Abandon, InsertItems, ReadSlots, AssignPath, StartRequeue, Requeue, Enqueue, rows
  <2> QED
    BY <2>1 DEF Create, SubKept, Kept, IInv, TypeOK
<1>3. ASSUME NEW i \in Item, NEW m \in DOMAIN files[i] PROVE FileKept(i, m)
  <2>1. UNCHANGED files \/ Enqueue(g)
    BY DEF Gateway, Abandon, Create, InsertItems, ReadSlots, AssignPath, StartRequeue, Requeue, queues
  <2>2. CASE Enqueue(g)
    BY <2>2, EnqueueAppends, ItemAssumption DEF Kept, Keeps, Queue, NextQueue, FileKept
  <2> QED
    BY <2>1, <2>2, SameFilesKept
<1>4. AllTerminal' => AllTerminal
  <2>1. item \in [Item -> Row]
    BY DEF Kept, IInv, TypeOK, Row
  <2>2. CASE UNCHANGED item
    BY <2>2, SameOutcome
  <2>3. CASE InsertItems(g)
    <3>1. \A i \in Item : item'[i].status = "UPLOADING"
      BY <2>1, <2>3 DEF InsertItems, Row
    <3> QED
      BY <3>1 DEF AllTerminal, Inserted, Terminal
  <2>4. CASE AssignPath(g)
    <3>1. \A i \in Item : item'[i].status = item[i].status
      BY <2>1, <2>4 DEF AssignPath, Row
    <3> QED
      BY <3>1 DEF AllTerminal, Inserted, Terminal
  <2>5. CASE Requeue(g)
    <3>1. UNCHANGED item \/ \E i \in Item : item'[i].status = "QUEUED"
      BY <2>5, RequeueIs DEF Kept
    <3> QED
      BY <3>1, SameOutcome DEF AllTerminal, Inserted, Terminal
  <2> QED
    BY <2>2, <2>3, <2>4, <2>5
    DEF Gateway, Abandon, Create, ReadSlots, StartRequeue, Enqueue, rows
<1> QED
  BY <1>1, <1>2, <1>3, <1>4, SameAnalysesKept, OutsideDue

LEMMA NextDue ==
    ASSUME "overrun" \notin Fault, ~({"call", "silent"} \subseteq Fault)
    PROVE  Kept /\ Due /\ [Next]_vars => Due'
<1> SUFFICES ASSUME Kept, Due, [Next]_vars PROVE Due'
  OBVIOUS
<1>1. CASE UNCHANGED <<rows, queues, worker>>
  BY <1>1, SameAnalysesKept, SameFilesKept, SameOutcome, OutsideDue DEF SubKept, rows, queues
<1>2. UNCHANGED vars \/ (\E i \in Item : Upload(i)) => UNCHANGED <<rows, queues, worker>>
  BY DEF vars, Upload, rows, queues
<1> QED
  BY <1>1, <1>2, GatewayDue, ClaimDue, ProcessItemDue, AnalyseDue, FaultDue, LapseDue DEF Next

(* Once all items are settled, the submission is answered, has used up its  *)
(* attempts, or a message remains that leads to an answer: however the      *)
(* stale reads of the aggregating workers interleave, isolates die and      *)
(* requests are given up, as long as no handler outlives its claim and not  *)
(* both checked calls fail and unchecked updates are lost.                  *)
THEOREM AnalysisStaysDue ==
    "overrun" \notin Fault /\ ~({"call", "silent"} \subseteq Fault) => (Spec => []AnalysisIsDue)
<1> SUFFICES ASSUME "overrun" \notin Fault, ~({"call", "silent"} \subseteq Fault)
             PROVE  Spec => []AnalysisIsDue
  OBVIOUS
<1>1. Init => Due
  BY DEF Init, Due, AllTerminal, Inserted, Concludes, Spent, Sound, Idle
<1>2. (Kept /\ Due) /\ [Next]_vars => Due'
  BY NextDue
<1>3. Due => AnalysisIsDue
  BY DEF Due, Answering, Pending, Aggregating, AnalysisIsDue, Live
<1>4. Spec => []Kept
  BY KeptInvariance
<1> QED
  BY <1>1, <1>2, <1>3, <1>4, PTL DEF Spec

-----------------------------------------------------------------------------
(* Drains *)

LEMMA DrainBecomes ==
    ASSUME DrainsTypeOK, NEW w \in Worker, NEW phase \in {"off", "items", "analyses"},
           NEW batch \in SUBSET Ref,
           drain' = [drain EXCEPT ![w] = [phase |-> phase, batch |-> batch]],
           wakes' \in Nat, stranded' \in SUBSET Ref, dropped' \in BOOLEAN
    PROVE  DrainsTypeOK'
BY DEF DrainsTypeOK

(* What the drains add keeps its type, whatever the handlers do. *)
LEMMA DrainsTypes == DrainsTypeOK /\ [DrainsNext]_allVars => DrainsTypeOK'
<1> SUFFICES ASSUME DrainsTypeOK, [DrainsNext]_allVars PROVE DrainsTypeOK'
  OBVIOUS
<1>1. CASE UNCHANGED drains
  BY <1>1 DEF DrainsTypeOK, drains
<1>2. ASSUME NEW w \in Worker, NEW owners \in SUBSET (Item \cup {NoItem}),
             NEW batch \in SUBSET WaitingFor(owners)
      PROVE  batch \in SUBSET Ref
  BY DEF WaitingFor, Ref
<1>3. ASSUME NEW g \in Gate, Serve(g) PROVE DrainsTypeOK'
  BY <1>3 DEF Serve, DrainsTypeOK
<1>4. CASE OtherWake \/ LoseWake
  <2>1. wakes' \in Nat /\ UNCHANGED <<drain, stranded>>
    BY <1>4 DEF OtherWake, LoseWake, DrainsTypeOK
  <2>2. dropped' \in BOOLEAN
    BY <1>4, Zenon DEF OtherWake, LoseWake, DrainsTypeOK
  <2> QED
    BY <2>1, <2>2 DEF DrainsTypeOK
<1>5. ASSUME NEW w \in Worker, StartDrain(w) PROVE DrainsTypeOK'
  <2>1. wakes' \in Nat
    BY <1>5 DEF StartDrain, DrainsTypeOK
  <2>2. PICK batch \in SUBSET WaitingFor(Item) :
           drain' = [drain EXCEPT ![w] = [phase |-> "items", batch |-> batch]]
    BY <1>5 DEF StartDrain
  <2>3. stranded' \in SUBSET Ref /\ dropped' \in BOOLEAN
    BY <1>5 DEF StartDrain, DrainsTypeOK
  <2> QED
    BY <1>2, <2>1, <2>2, <2>3, DrainBecomes
<1>6. ASSUME NEW w \in Worker, Begin(w) PROVE DrainsTypeOK'
  BY <1>6 DEF Begin, DrainsTypeOK
<1>7. ASSUME NEW w \in Worker, DrainAnalyses(w) PROVE DrainsTypeOK'
  <2>1. PICK batch \in SUBSET WaitingFor({NoItem}) :
           drain' = [drain EXCEPT ![w] = [phase |-> "analyses", batch |-> batch]]
    BY <1>7 DEF DrainAnalyses
  <2>2. wakes' \in Nat /\ stranded' \in SUBSET Ref /\ dropped' \in BOOLEAN
    BY <1>7 DEF DrainAnalyses, DrainsTypeOK
  <2> QED
    BY <1>2, <2>1, <2>2, DrainBecomes
<1>8. ASSUME NEW w \in Worker, EndDrain(w) \/ StopDrain(w) \/ LoseDrain(w)
      PROVE  DrainsTypeOK'
  <2>1. wakes' \in Nat /\ stranded' \in SUBSET Ref
    BY <1>8 DEF EndDrain, StopDrain, LoseDrain, Break, DrainsTypeOK
  <2>2. dropped' \in BOOLEAN
    BY <1>8, Zenon DEF EndDrain, StopDrain, LoseDrain, DrainsTypeOK
  <2>3. drain' = [drain EXCEPT ![w] = [phase |-> "off", batch |-> {}]]
    BY <1>8 DEF EndDrain, StopDrain, LoseDrain, Break, NoDrain
  <2>4. "off" \in {"off", "items", "analyses"} /\ {} \in SUBSET Ref
    OBVIOUS
  <2> QED
    BY <2>1, <2>2, <2>3, <2>4, DrainBecomes
<1>9. ASSUME NEW ref \in Ref, LapseStranded(ref) PROVE DrainsTypeOK'
  BY <1>9 DEF LapseStranded, DrainsTypeOK
<1>10. UNCHANGED allVars => UNCHANGED drains
  BY DEF allVars
<1>11. \A w \in Worker : Handle(w) \/ FailCall(w) => UNCHANGED drains
  BY DEF Handle, FailCall
<1>12. /\ \A g \in Gate : AbandonRequest(g) => UNCHANGED drains
       /\ \A i \in Item : UploadBytes(i) => UNCHANGED drains
       /\ \A ref \in Ref : LapseHandled(ref) => UNCHANGED drains
  BY DEF AbandonRequest, UploadBytes, LapseHandled
<1> QED
  BY <1>1, <1>3, <1>4, <1>5, <1>6, <1>7, <1>8, <1>9, <1>10, <1>11, <1>12
  DEF DrainsNext, Progress

(* What a step does to the handlers and their queues, by its kind. *)
LEMMA DrainsStep ==
    ASSUME DrainsTypeOK, [DrainsNext]_allVars
    PROVE  [Next]_vars
<1>1. ASSUME NEW g \in Gate, Serve(g) \/ AbandonRequest(g) PROVE Next
  BY <1>1 DEF Serve, AbandonRequest, Next
<1>2. ASSUME NEW i \in Item, UploadBytes(i) PROVE Next
  BY <1>2 DEF UploadBytes, Next
<1>3. ASSUME NEW w \in Worker, Begin(w) PROVE Next
  <2>1. PICK ref \in drain[w].batch :
           IF ref[1] = NoItem THEN ClaimAnalysis(w, ref[2]) ELSE ClaimItem(w, ref[1], ref[2])
    BY <1>3 DEF Begin
  <2>2. ref[1] \in Item \cup {NoItem} /\ ref[2] \in 1..MaxSends
    BY DEF DrainsTypeOK, Ref
  <2>3. Claim(w)
    BY <2>1, <2>2 DEF Claim
  <2> QED
    BY <2>3 DEF Next
<1>4. ASSUME NEW w \in Worker, Handle(w) \/ FailCall(w) \/ StopDrain(w) PROVE Next
  BY <1>4 DEF Handle, FailCall, StopDrain, Next
<1>5. ASSUME NEW ref \in Ref, LapseHandled(ref) PROVE Next
  <2>1. ref[1] \in Item \cup {NoItem} /\ ref[2] \in 1..MaxSends
    BY DEF Ref
  <2>2. Lapse
    BY <1>5, <2>1 DEF LapseHandled, Lapse
  <2> QED
    BY <2>2 DEF Next
<1>6. OtherWake \/ LoseWake => UNCHANGED vars
  BY DEF OtherWake, LoseWake
<1>7. \A w \in Worker :
         StartDrain(w) \/ DrainAnalyses(w) \/ EndDrain(w) \/ LoseDrain(w) => UNCHANGED vars
  BY DEF StartDrain, DrainAnalyses, EndDrain, LoseDrain
<1>8. \A ref \in Ref : LapseStranded(ref) => UNCHANGED vars
  BY DEF LapseStranded
<1>9. UNCHANGED allVars => UNCHANGED vars
  BY DEF allVars
<1> QED
  BY <1>1, <1>2, <1>3, <1>4, <1>5, <1>6, <1>7, <1>8, <1>9 DEF DrainsNext, Progress

LEMMA DrainsTyped == DrainsSpec => []DrainsTypeOK
<1>1. DrainsInit => DrainsTypeOK
  <2>1. NoDrain \in [phase : {"off", "items", "analyses"}, batch : SUBSET Ref]
    BY DEF NoDrain
  <2>2. DrainsInit => dropped \in BOOLEAN
    BY DEF DrainsInit
  <2>3. DrainsInit => /\ wakes \in Nat /\ stranded \subseteq Ref
                      /\ drain = [w \in Worker |-> NoDrain]
    BY DEF DrainsInit
  <2> QED
    BY <2>1, <2>2, <2>3 DEF DrainsTypeOK
<1> QED
  BY <1>1, DrainsTypes, PTL DEF DrainsSpec

(* Handlers that a drain runs one after the other, from batches claimed     *)
(* beforehand, behave as handlers that claim their message themselves: what *)
(* is proved of the handlers holds of the drains.                           *)
THEOREM DrainsRunHandlers == DrainsSpec => Spec
<1>1. DrainsInit => Init
  BY DEF DrainsInit
<1>2. DrainsTypeOK /\ [DrainsNext]_allVars => [Next]_vars
  BY DrainsStep
<1> QED
  BY <1>1, <1>2, DrainsTyped, PTL DEF DrainsSpec, Spec

(* A waiting message waits until it is claimed. *)
LEMMA VisibleStays ==
    ASSUME Kept, NEW i \in Item \cup {NoItem}, NEW m, Visible(i, m),
           \/ \E g \in Gate : Gateway(g) \/ Abandon(g)
           \/ \E j \in Item : Upload(j)
           \/ \E w \in Worker : ProcessItem(w) \/ Analyse(w) \/ CallFails(w) \/ Stop(w)
           \/ Lapse
    PROVE  Visible(i, m)'
<1>1. CASE Keeps(i)
  BY <1>1 DEF Keeps, Visible, Queue, NextQueue
<1>2. ASSUME NEW j, NEW n, NEW status, Sets(j, n, status),
             i = j /\ m = n => status = "visible"
      PROVE  Visible(i, m)'
  <2>1. m \in DOMAIN NextQueue(i) /\ NextQueue(i)[m] = "visible"
    BY <1>2 DEF Sets, Visible
  <2> QED
    BY <2>1 DEF Visible, Queue, NextQueue
<1>3. ASSUME NEW g \in Gate, Gateway(g) \/ Abandon(g) PROVE Keeps(i)
  <2>1. UNCHANGED queues \/ Enqueue(g)
    BY <1>3 DEF Gateway, Abandon, Create, InsertItems, ReadSlots, AssignPath, StartRequeue, Requeue
  <2> QED
    BY <2>1, SameQueuesKeep, EnqueueAppends DEF Kept
<1>4. ASSUME NEW j \in Item, Upload(j) PROVE Keeps(i)
  BY <1>4, SameQueuesKeep DEF Upload
<1>5. ASSUME NEW w \in Worker, ProcessItem(w), ~Ack(w) PROVE Keeps(i)
  BY <1>5, WorkQueues DEF Kept
<1>6. ASSUME NEW w \in Worker, Ack(w) PROVE Visible(i, m)'
  <2>1. Sets(worker[w].item, worker[w].msg, "deleted") /\ Busy(w)
    BY <1>6, AckSets DEF Kept
  <2>2. ~(i = worker[w].item /\ m = worker[w].msg)
    BY <2>1 DEF Kept, Exclusive, Visible
  <2> QED
    BY <1>2, <2>1, <2>2
<1>7. ASSUME NEW w \in Worker, Analyse(w), ~AckAnalysis(w) PROVE Keeps(i)
  <2>1. UNCHANGED queues
    BY <1>7 DEF Analyse, LoadSubmission, LoadItems, ExhaustAnalysis, CountAnalysis, Respond,
                Record, CatchAnalysis
  <2> QED
    BY <2>1, SameQueuesKeep
<1>8. ASSUME NEW w \in Worker, AckAnalysis(w) PROVE Visible(i, m)'
  <2>1. Sets(NoItem, worker[w].msg, "deleted") /\ worker[w].item = NoItem /\ Busy(w)
    BY <1>8, AckAnalysisSets DEF Kept
  <2>2. ~(i = NoItem /\ m = worker[w].msg)
    BY <2>1 DEF Kept, Exclusive, Visible
  <2> QED
    BY <1>2, <2>1, <2>2
<1>9. ASSUME NEW w \in Worker, CallFails(w) \/ Stop(w) PROVE Keeps(i)
  BY <1>9, SameQueuesKeep DEF CallFails, Stop
<1>10. CASE Lapse
  <2>1. PICK j, n : Sets(j, n, "visible")
    BY <1>10, LapseIs, DrainFaultAssumption DEF Kept
  <2> QED
    BY <1>2, <2>1
<1> QED
  BY <1>1, <1>3, <1>4, <1>5, <1>6, <1>7, <1>8, <1>9, <1>10

(* Hidden messages stay where they are. *)
LEMMA ClaimedStays ==
    ASSUME ClaimedOnce, UNCHANGED <<drain, stranded>>,
           \A ref \in Hidden : Visible(ref[1], ref[2])'
    PROVE  ClaimedOnce'
<1>1. Hidden' = Hidden
  BY DEF Hidden
<1> QED
  BY <1>1 DEF ClaimedOnce

(* One drain gets another batch. *)
LEMMA ClaimedMoves ==
    ASSUME DrainsTypeOK, ClaimedOnce, NEW w \in Worker, NEW d, drain' = [drain EXCEPT ![w] = d],
           d.batch \cap stranded' = {},
           \A v \in Worker \ {w} : drain[v].batch \cap (d.batch \cup stranded') = {},
           \A ref \in d.batch \cup stranded' : Visible(ref[1], ref[2])',
           \A v \in Worker \ {w} : \A ref \in drain[v].batch : Visible(ref[1], ref[2])'
    PROVE  ClaimedOnce'
<1>1. drain'[w] = d /\ \A v \in Worker \ {w} : drain'[v] = drain[v]
  BY DEF DrainsTypeOK
<1>2. \A u, v \in Worker : u # v => drain'[u].batch \cap drain'[v].batch = {}
  BY <1>1 DEF ClaimedOnce
<1>3. \A v \in Worker : drain'[v].batch \cap stranded' = {}
  BY <1>1
<1>4. ASSUME NEW ref \in Hidden' PROVE Visible(ref[1], ref[2])'
  BY <1>1, <1>4 DEF Hidden
<1> QED
  BY <1>2, <1>3, <1>4 DEF ClaimedOnce

LEMMA HiddenRef ==
    ASSUME DrainsTypeOK
    PROVE  /\ Hidden \subseteq Ref
           /\ \A w \in Worker : drain[w].batch \subseteq Hidden
           /\ stranded \subseteq Hidden
BY DEF DrainsTypeOK, Hidden

LEMMA SameVisible ==
    ASSUME UNCHANGED queues, NEW i, NEW m PROVE Visible(i, m)' = Visible(i, m)
BY DEF queues, Visible, Queue

LEMMA ClaimClaimed ==
    ASSUME DrainsTypeOK, ClaimedOnce, NEW w \in Worker, NEW owners, NEW d,
           d.batch \in SUBSET WaitingFor(owners), drain' = [drain EXCEPT ![w] = d],
           UNCHANGED <<stranded, vars>>
    PROVE  ClaimedOnce'
<1>1. \A ref \in d.batch : Visible(ref[1], ref[2]) /\ ref \notin Hidden
  BY DEF WaitingFor
<1>2. \A v \in Worker \ {w} : drain[v].batch \cap (d.batch \cup stranded') = {}
  BY <1>1, HiddenRef DEF ClaimedOnce
<1>3. \A ref \in d.batch \cup Hidden : Visible(ref[1], ref[2])'
  BY <1>1, SameVisible DEF vars, queues, ClaimedOnce
<1> QED
  BY <1>1, <1>2, <1>3, HiddenRef, ClaimedMoves

LEMMA BeginClaimed ==
    ASSUME Kept, DrainsTypeOK, ClaimedOnce, NEW w \in Worker, Begin(w)
    PROVE  ClaimedOnce'
<1>1. PICK ref \in drain[w].batch :
         /\ drain' = [drain EXCEPT ![w].batch = @ \ {ref}]
         /\ IF ref[1] = NoItem THEN ClaimAnalysis(w, ref[2]) ELSE ClaimItem(w, ref[1], ref[2])
  BY DEF Begin
<1>2. ref \in Ref /\ ref[1] \in Item \cup {NoItem} /\ ref[2] \in 1..MaxSends
  BY HiddenRef DEF Ref
<1>3. Sets(ref[1], ref[2], "claimed")
  BY <1>1, <1>2, FileSets, AnalysisSets DEF ClaimItem, ClaimAnalysis, Kept
<1> DEFINE d == [drain[w] EXCEPT !.batch = @ \ {ref}]
<1>4. drain' = [drain EXCEPT ![w] = d] /\ d.batch = drain[w].batch \ {ref}
  BY <1>1 DEF DrainsTypeOK
<1> HIDE DEF d
<1>5. UNCHANGED stranded
  BY DEF Begin
<1>6. ASSUME NEW other \in Hidden, other # ref PROVE Visible(other[1], other[2])'
  <2>1. other \in Ref /\ other[1] \in Item \cup {NoItem}
    BY HiddenRef DEF Ref
  <2>2. ~(other[1] = ref[1] /\ other[2] = ref[2])
    BY <1>2, <1>6, <2>1 DEF Ref
  <2>3. Visible(other[1], other[2])
    BY DEF ClaimedOnce
  <2>4. /\ other[2] \in DOMAIN NextQueue(other[1])
        /\ NextQueue(other[1])[other[2]] = "visible"
    BY <1>3, <2>1, <2>2, <2>3 DEF Sets, Visible
  <2> QED
    BY <2>4 DEF Visible, Queue, NextQueue
<1>7. ref \notin stranded /\ \A v \in Worker \ {w} : ref \notin drain[v].batch
  BY DEF ClaimedOnce
<1>8. \A other \in d.batch \cup stranded' : Visible(other[1], other[2])'
  BY <1>4, <1>5, <1>6, <1>7, HiddenRef
<1>9. \A v \in Worker \ {w} : \A other \in drain[v].batch : Visible(other[1], other[2])'
  BY <1>6, <1>7, HiddenRef
<1>10. /\ d.batch \cap stranded' = {}
       /\ \A v \in Worker \ {w} : drain[v].batch \cap (d.batch \cup stranded') = {}
  BY <1>4, <1>5 DEF ClaimedOnce
<1> QED
  BY <1>4, <1>8, <1>9, <1>10, ClaimedMoves

LEMMA BreakClaimed ==
    ASSUME DrainsTypeOK, ClaimedOnce, NEW w \in Worker, Break(w), UNCHANGED queues
    PROVE  ClaimedOnce'
<1>1. NoDrain.batch = {}
  BY DEF NoDrain
<1>2. \A v \in Worker \ {w} : drain[v].batch \cap stranded' = {}
  BY DEF Break, ClaimedOnce
<1>3. \A ref \in Hidden : Visible(ref[1], ref[2])'
  BY SameVisible DEF ClaimedOnce
<1>4. stranded' \subseteq Hidden
  BY HiddenRef DEF Break
<1>5. \A v \in Worker \ {w} : \A ref \in drain[v].batch : Visible(ref[1], ref[2])'
  BY <1>3, HiddenRef
<1>6. drain' = [drain EXCEPT ![w] = NoDrain]
  BY DEF Break
<1>7. /\ NoDrain.batch \cap stranded' = {}
      /\ \A v \in Worker \ {w} : drain[v].batch \cap (NoDrain.batch \cup stranded') = {}
      /\ \A ref \in NoDrain.batch \cup stranded' : Visible(ref[1], ref[2])'
  BY <1>1, <1>2, <1>3, <1>4
<1> QED
  BY <1>5, <1>6, <1>7, ClaimedMoves

LEMMA NextClaimedOnce ==
    Kept /\ DrainsTypeOK /\ ClaimedOnce /\ [DrainsNext]_allVars => ClaimedOnce'
<1> SUFFICES ASSUME Kept, DrainsTypeOK, ClaimedOnce, [DrainsNext]_allVars PROVE ClaimedOnce'
  OBVIOUS
<1>1. ASSUME UNCHANGED <<drain, stranded>>,
             \/ UNCHANGED queues
             \/ \E g \in Gate : Gateway(g) \/ Abandon(g)
             \/ \E j \in Item : Upload(j)
             \/ \E w \in Worker : ProcessItem(w) \/ Analyse(w) \/ CallFails(w) \/ Stop(w)
             \/ Lapse
      PROVE  ClaimedOnce'
  <2>1. ASSUME NEW ref \in Hidden PROVE Visible(ref[1], ref[2])'
    <3>1. Visible(ref[1], ref[2]) /\ ref[1] \in Item \cup {NoItem}
      BY HiddenRef DEF ClaimedOnce, Ref
    <3> QED
      BY <1>1, <3>1, SameVisible, VisibleStays
  <2> QED
    BY <1>1, <2>1, ClaimedStays
<1>2. ASSUME NEW g \in Gate, Serve(g) \/ AbandonRequest(g) PROVE ClaimedOnce'
  BY <1>1, <1>2 DEF Serve, AbandonRequest, drains
<1>3. ASSUME NEW i \in Item, UploadBytes(i) PROVE ClaimedOnce'
  BY <1>1, <1>3 DEF UploadBytes, drains
<1>4. CASE UNCHANGED allVars \/ OtherWake \/ LoseWake
  BY <1>1, <1>4 DEF allVars, OtherWake, LoseWake, vars, drains, queues
<1>5. ASSUME NEW w \in Worker, StartDrain(w) \/ DrainAnalyses(w) PROVE ClaimedOnce'
  <2>1. PICK owners, batch, phase :
           /\ batch \in SUBSET WaitingFor(owners)
           /\ drain' = [drain EXCEPT ![w] = [phase |-> phase, batch |-> batch]]
           /\ UNCHANGED <<stranded, vars>>
    BY <1>5 DEF StartDrain, DrainAnalyses
  <2>2. [phase |-> phase, batch |-> batch].batch = batch
    OBVIOUS
  <2> QED
    BY <2>1, <2>2, ClaimClaimed
<1>6. ASSUME NEW w \in Worker, Begin(w) PROVE ClaimedOnce'
  BY <1>6, BeginClaimed
<1>7. ASSUME NEW w \in Worker, Handle(w) \/ FailCall(w) PROVE ClaimedOnce'
  BY <1>1, <1>7 DEF Handle, FailCall, drains
<1>8. ASSUME NEW w \in Worker, EndDrain(w) PROVE ClaimedOnce'
  <2>1. NoDrain.batch = {}
    BY DEF NoDrain
  <2>2. drain' = [drain EXCEPT ![w] = NoDrain] /\ UNCHANGED <<stranded, vars>>
    BY <1>8 DEF EndDrain
  <2> QED
    BY <2>1, <2>2, ClaimClaimed
<1>9. ASSUME NEW w \in Worker, StopDrain(w) \/ LoseDrain(w) PROVE ClaimedOnce'
  BY <1>9, BreakClaimed DEF StopDrain, LoseDrain, Stop, vars, queues
<1>10. ASSUME NEW ref \in Ref, LapseHandled(ref) PROVE ClaimedOnce'
  <2>1. ref[1] \in Item \cup {NoItem} /\ ref[2] \in 1..MaxSends
    BY DEF Ref
  <2>2. Lapse
    BY <1>10, <2>1 DEF LapseHandled, Lapse
  <2> QED
    BY <1>1, <1>10, <2>2 DEF LapseHandled, drains
<1>11. ASSUME NEW ref \in Ref, LapseStranded(ref) PROVE ClaimedOnce'
  <2>1. Hidden' \subseteq Hidden /\ UNCHANGED <<drain, queues>> /\ stranded' \subseteq stranded
    BY <1>11 DEF LapseStranded, Hidden, vars, queues
  <2> QED
    BY <2>1, SameVisible DEF ClaimedOnce
<1> QED
  BY <1>2, <1>3, <1>4, <1>5, <1>6, <1>7, <1>8, <1>9, <1>10, <1>11 DEF DrainsNext, Progress

(* No message is in two batches, or in one and under a handler: two drains *)
(* that claim at the same time share none, and a message whose drain died  *)
(* is in no batch until its timeout gives it back.                         *)
THEOREM DrainsClaimOnce == DrainsSpec => []ClaimedOnce
<1>1. DrainsInit => ClaimedOnce
  BY DEF DrainsInit, ClaimedOnce, Hidden, NoDrain
<1> QED
  BY <1>1, NextClaimedOnce, DrainsTyped, DrainsRunHandlers, KeptInvariance,
     DrainFaultAssumption, PTL DEF DrainsSpec

=============================================================================
