----------------------------- MODULE FileDrains -----------------------------
(***************************************************************************)
(* What starts the handlers of FileIngestion.  The gateway asks for a      *)
(* drain with a request it neither awaits nor repeats, once per queued     *)
(* file; no timer does.  A drain claims a batch of ingestion messages,     *)
(* handles them in turn, then claims and handles a batch of analysis       *)
(* messages, and ends.  A message that becomes visible again waits for the *)
(* drain of a later request.                                               *)
(***************************************************************************)
EXTENDS FileIngestion

CONSTANTS
    ItemLimit,     \* messages one drain claims for ingestion
    AnalysisLimit, \* messages one drain claims for analysis
    MaxWakes       \* bound: pending requests when another upload adds one

(* A batch is held for less than its visibility timeout; FileIngestion has  *)
(* the handlers whose message lapses under them.                            *)
ASSUME DrainFaultAssumption == "overrun" \notin Fault

ASSUME DrainLimitAssumption ==
    ItemLimit \in Nat \ {0} /\ AnalysisLimit \in Nat \ {0} /\ MaxWakes \in Nat

VARIABLES
    wakes,    \* requests for a drain that were sent and did not arrive yet
    drain,    \* drain[w]: the drain running in w
    stranded, \* messages hidden by the claim of a drain that died
    dropped   \* a request, or a drain between two messages, was lost

drains == <<wakes, drain, stranded, dropped>>
allVars == <<vars, drains>>

(* A message: its file, NoItem for an analysis, and its place in the queue. *)
Ref == (Item \cup {NoItem}) \X (1..MaxSends)

NoDrain == [phase |-> "off", batch |-> {}]

DrainsTypeOK ==
    /\ wakes \in Nat
    /\ drain \in [Worker -> [phase : {"off", "items", "analyses"}, batch : SUBSET Ref]]
    /\ stranded \subseteq Ref
    /\ dropped \in BOOLEAN

DrainsInit ==
    /\ Init
    /\ wakes = 0
    /\ drain = [w \in Worker |-> NoDrain]
    /\ stranded = {}
    /\ dropped = FALSE

-----------------------------------------------------------------------------
Queue(i) == IF i = NoItem THEN analyses ELSE files[i]

Visible(i, m) == m \in DOMAIN Queue(i) /\ Queue(i)[m] = "visible"

(* FileIngestion shows a message visible until its handler begins; a batch  *)
(* that holds it, or held it when its drain died, hides it from others.     *)
Hidden == stranded \cup UNION {drain[w].batch : w \in Worker}

WaitingFor(owners) ==
    {ref \in owners \X (1..MaxSends) : Visible(ref[1], ref[2])} \ Hidden

(* The claims of the queue contract: all that wait, up to the limit.        *)
IsClaim(batch, waiting, limit) ==
    \/ batch = waiting /\ Cardinality(batch) <= limit
    \/ Cardinality(batch) = limit

(* Bound: a loss outside the handlers is one of the MaxFaults faults.       *)
InBound == dropped' => faults' < MaxFaults

-----------------------------------------------------------------------------
(* Mutant: the worker is woken before the message is in the queue.         *)
ServeWakesFirst(g) ==
    /\ Gateway(g)
    /\ wakes' = IF gate[g].pc = "requeue" THEN wakes + 1 ELSE wakes
    /\ UNCHANGED <<drain, stranded, dropped>>

(* The gateway wakes the worker when it has queued a file.                  *)
Serve(g) ==
    /\ Gateway(g)
    /\ wakes' = IF gate[g].pc = "enqueue" THEN wakes + 1 ELSE wakes
    /\ UNCHANGED <<drain, stranded, dropped>>

(* Another submission's file is queued.                                     *)
OtherWake ==
    /\ wakes < MaxWakes
    /\ wakes' = wakes + 1
    /\ UNCHANGED <<vars, drain, stranded, dropped>>

(* A request arrives: drain claims its batch.                               *)
StartDrain(w) ==
    /\ wakes > 0 /\ drain[w].phase = "off"
    /\ \E batch \in SUBSET WaitingFor(Item) :
          /\ IsClaim(batch, WaitingFor(Item), ItemLimit)
          /\ drain' = [drain EXCEPT ![w] = [phase |-> "items", batch |-> batch]]
    /\ wakes' = wakes - 1
    /\ UNCHANGED <<vars, stranded, dropped>>

Begin(w) ==
    /\ \E ref \in drain[w].batch :
          /\ drain' = [drain EXCEPT ![w].batch = @ \ {ref}]
          /\ IF ref[1] = NoItem THEN ClaimAnalysis(w, ref[2]) ELSE ClaimItem(w, ref[1], ref[2])
    /\ UNCHANGED <<wakes, stranded, dropped>>

Handle(w) ==
    /\ ProcessItem(w) \/ Analyse(w)
    /\ UNCHANGED drains
    /\ InBound

Through(w) == worker[w].pc = "idle" /\ drain[w].batch = {}

(* drainFileAnalysis, once the ingestion messages are through.              *)
DrainAnalyses(w) ==
    /\ drain[w].phase = "items" /\ Through(w)
    /\ \E batch \in SUBSET WaitingFor({NoItem}) :
          /\ IsClaim(batch, WaitingFor({NoItem}), AnalysisLimit)
          /\ drain' = [drain EXCEPT ![w] = [phase |-> "analyses", batch |-> batch]]
    /\ UNCHANGED <<vars, wakes, stranded, dropped>>

EndDrain(w) ==
    /\ drain[w].phase = "analyses" /\ Through(w)
    /\ drain' = [drain EXCEPT ![w] = NoDrain]
    /\ UNCHANGED <<vars, wakes, stranded, dropped>>

Progress(w) == Begin(w) \/ Handle(w) \/ DrainAnalyses(w) \/ EndDrain(w)

-----------------------------------------------------------------------------
(* Faults.  An exception of a handler, or of the acknowledgement after it,  *)
(* leaves the whole drain with the rest of its batch.                       *)
Break(w) ==
    /\ drain' = [drain EXCEPT ![w] = NoDrain]
    /\ stranded' = stranded \cup drain[w].batch

StopDrain(w) ==
    /\ Stop(w)
    /\ Break(w)
    /\ UNCHANGED <<wakes, dropped>>
    /\ InBound

FailCall(w) == CallFails(w) /\ UNCHANGED drains /\ InBound

AbandonRequest(g) == Abandon(g) /\ UNCHANGED drains /\ InBound

(* A request is lost on its way, or its claim fails; or the isolate dies    *)
(* between two messages.                                                    *)
LoseWake ==
    /\ "crash" \in Fault /\ ~dropped
    /\ wakes > 0
    /\ wakes' = wakes - 1
    /\ dropped' = TRUE
    /\ UNCHANGED <<vars, drain, stranded>>
    /\ InBound

LoseDrain(w) ==
    /\ "crash" \in Fault /\ ~dropped
    /\ drain[w].phase # "off" /\ worker[w].pc = "idle"
    /\ Break(w)
    /\ dropped' = TRUE
    /\ UNCHANGED <<vars, wakes>>
    /\ InBound

-----------------------------------------------------------------------------
(* The visibility timeouts.                                                 *)
LapseHandled(ref) ==
    /\ IF ref[1] = NoItem THEN LapseAnalysis(ref[2]) ELSE LapseItem(ref[1], ref[2])
    /\ UNCHANGED drains

LapseStranded(ref) ==
    /\ ref \in stranded
    /\ stranded' = stranded \ {ref}
    /\ UNCHANGED <<vars, wakes, drain, dropped>>

UploadBytes(i) == Upload(i) /\ UNCHANGED drains

DrainsNext ==
    \/ \E g \in Gate : Serve(g) \/ AbandonRequest(g)
    \/ \E i \in Item : UploadBytes(i)
    \/ OtherWake \/ LoseWake
    \/ \E w \in Worker :
          StartDrain(w) \/ Progress(w) \/ FailCall(w) \/ StopDrain(w) \/ LoseDrain(w)
    \/ \E ref \in Ref : LapseHandled(ref) \/ LapseStranded(ref)

DrainsSpec == DrainsInit /\ [][DrainsNext]_allVars

(* A request that was not lost starts a drain, a drain that runs takes its  *)
(* steps, and a hidden message that nobody holds becomes visible.  Nothing  *)
(* is assumed of gateway requests and uploads: users make them.             *)
DrainsFairness ==
    /\ WF_allVars(\E w \in Worker : StartDrain(w))
    /\ \A w \in Worker : WF_allVars(Progress(w))
    /\ \A i \in Item \cup {NoItem} : WF_allVars(\E m \in 1..MaxSends : LapseHandled(<<i, m>>))
    /\ WF_allVars(\E ref \in Ref : LapseStranded(ref))

FairDrainsSpec == DrainsSpec /\ DrainsFairness

-----------------------------------------------------------------------------
(* A message is in one batch, or stranded, and no handler has begun it.     *)
ClaimedOnce ==
    /\ \A v, w \in Worker : v # w => drain[v].batch \cap drain[w].batch = {}
    /\ \A w \in Worker : drain[w].batch \cap stranded = {}
    /\ \A ref \in Hidden : Visible(ref[1], ref[2])

AllQueued == \A i \in Item : Live(files[i])

Undisturbed == faults = 0 /\ ~dropped /\ \A i \in Item : Len(files[i]) <= 1

DrainsAgain == []<><<\E w \in Worker : StartDrain(w)>>_allVars

(* A submission whose files are all queued ends.  The wake-ups of the       *)
(* gateway see to it as long as nothing fails and no file is queued twice:  *)
(* the drain that settles the last file finds the analysis message too.     *)
(* Otherwise a message may be left without a drain, and the submission ends *)
(* if drains are started again, by whichever upload.                        *)
SubmissionEnds ==
    /\ AllQueued ~> (Ended \/ ~Undisturbed)
    /\ DrainsAgain => (AllQueued ~> Ended)

=============================================================================
