--------------------------- MODULE VerifiedMemory ---------------------------
(***************************************************************************)
(* Certified memory of one project and category: what is in force and how  *)
(* it leaves.                                                              *)
(*   - Promotion: the certification function compares a certified          *)
(*     candidate with the memory in force and calls the promotion RPC.     *)
(*     The RPC takes no lock before it writes, and each of its reads sees  *)
(*     what is committed by then, so they are steps of their own.  The     *)
(*     review of a think tank's learning promotes in the same way.         *)
(*   - Consolidation: the proposal and its execution check their members   *)
(*     with an unlocked read and write afterwards.                         *)
(*   - Review: retiring a memory locks its row.                            *)
(* A console session whose call raised, died or was given up is idle again *)
(* and may ask for the same promotion another time.  The note of a         *)
(* supersession in the staging database is left out: no code reads it.     *)
(***************************************************************************)
EXTENDS Naturals, FiniteSets, FiniteSetsExt

CONSTANTS
    Console,        \* sessions of owners and admins, one promotion each
    Content,        \* content hashes of certified candidates
    NoContent,      \* the content of an idle session, or of no row
    Similar,        \* sets of contents the relation classifier relates
    Memory,         \* row ids
    NoMemory,       \* null, where a row id is expected
    Consolidation   \* consolidation proposals

ASSUME ContentAssumption == NoContent \notin Content /\ Similar \subseteq SUBSET Content
ASSUME MemoryAssumption == NoMemory \notin Memory /\ IsFiniteSet(Memory)

VARIABLES
    memory,         \* memory[m]: the certified_memory row
    console,        \* console[s]: the promotion session s is executing
    consolidation   \* consolidation[k]: the proposal and its members

memoryVars == <<memory, console, consolidation>>

-----------------------------------------------------------------------------

MemoryRow == [content    : Content \cup {NoContent},
              version    : Nat,
              active     : BOOLEAN,
              supersedes : Memory \cup {NoMemory},
              into       : Memory \cup {NoMemory}]     \* consolidated_into_memory_id

NoRow == [content |-> NoContent, version |-> 0, active |-> FALSE,
          supersedes |-> NoMemory, into |-> NoMemory]

(* target: what the promotion supersedes. *)
Promotion == [pc      : {"idle", "number", "write"},
              content : Content \cup {NoContent},
              target  : Memory \cup {NoMemory},
              version : Nat]

IdleConsole == [pc |-> "idle", content |-> NoContent, target |-> NoMemory, version |-> 0]

ProposalOf == [status    : {"none", "checked", "proposed", "executing",
                            "executed", "rejected"},
               canonical : Memory \cup {NoMemory},
               members   : SUBSET Memory]

NotProposed == [status |-> "none", canonical |-> NoMemory, members |-> {}]

MemoryTypeOK ==
    /\ memory \in [Memory -> MemoryRow]
    /\ console \in [Console -> Promotion]
    /\ consolidation \in [Consolidation -> ProposalOf]

MemoryInit ==
    /\ memory = [m \in Memory |-> NoRow]
    /\ console = [s \in Console |-> IdleConsole]
    /\ consolidation = [k \in Consolidation |-> NotProposed]

Promoted == {m \in Memory : memory[m].content # NoContent}
InForce == {m \in Promoted : memory[m].active}

-----------------------------------------------------------------------------
(* Promotion: the function's own check, then the RPC statement by statement *)

(* A content that is in force is not promoted again. *)
NotInForce(c) == \A m \in InForce : memory[m].content # c

Promoting(s, c, target) ==
    /\ console[s].pc = "idle"
    /\ NotInForce(c)
    /\ console' = [console EXCEPT ![s] =
           [pc |-> "number", content |-> c, target |-> target, version |-> 0]]
    /\ UNCHANGED <<memory, consolidation>>

(* A candidate like something in force goes on only to supersede something. *)
(* That check of the function and the RPC's look for the content are one    *)
(* step: whatever is written between them may also be written after both.   *)
Promote(s, c, target) ==
    /\ \/ target # NoMemory
       \/ \A m \in InForce : {c, memory[m].content} \notin Similar
    /\ Promoting(s, c, target)

(* review_think_tank_learning_v1 compares with nothing and supersedes nothing. *)
ApproveLearning(s, c) == Promoting(s, c, NoMemory)

(* Mutant: the memory in force is counted instead of the versions. *)
NextOfActive == Cardinality(InForce) + 1

NextVersion == Max({memory[m].version : m \in Promoted} \cup {0}) + 1

Number(s) ==
    /\ console[s].pc = "number"
    /\ console' = [console EXCEPT ![s].pc = "write", ![s].version = NextVersion]
    /\ UNCHANGED <<memory, consolidation>>

(* Mutant: a target that is in force no more is superseded nonetheless. *)
SupersedablePromoted(m) == m \in Promoted

(* The update of the target finds it active, or the RPC raises. *)
Supersedable(m) == m \in InForce

NewRow(s) == [content    |-> console[s].content,
              version    |-> console[s].version,
              active     |-> TRUE,
              supersedes |-> console[s].target,
              into       |-> NoMemory]

(* The row of a content and a version is unique. *)
Write(s, m) ==
    LET target == console[s].target
    IN  /\ console[s].pc = "write"
        /\ target # NoMemory => Supersedable(target)
        /\ m \notin Promoted
        /\ \A n \in Promoted : memory[n].content = console[s].content =>
               memory[n].version # console[s].version
        /\ memory' = [n \in Memory |->
               CASE n = m      -> NewRow(s)
                 [] n = target -> [memory[n] EXCEPT !.active = FALSE]
                 [] OTHER      -> memory[n]]
        /\ console' = [console EXCEPT ![s] = IdleConsole]
        /\ UNCHANGED consolidation

(* The RPC raises, or the session dies before or after it. *)
GiveUp(s) ==
    /\ console[s].pc # "idle"
    /\ console' = [console EXCEPT ![s] = IdleConsole]
    /\ UNCHANGED <<memory, consolidation>>

-----------------------------------------------------------------------------
(* Review and consolidation *)

(* Retiring, which a memory out of force allows as well. *)
Retire(m) ==
    /\ m \in Promoted
    /\ memory' = [memory EXCEPT ![m].active = FALSE]
    /\ UNCHANGED <<console, consolidation>>

Pending == {k \in Consolidation : consolidation[k].status \in {"proposed", "executing"}}

CheckMembers(k, canonical, members) ==
    /\ consolidation[k].status = "none"
    /\ members \subseteq InForce /\ canonical \in members
    /\ Cardinality(members) >= 2
    /\ \A m \in members \ {canonical} : {memory[m].content, memory[canonical].content} \in Similar
    /\ \A j \in Pending : consolidation[j].members \cap members = {}
    /\ consolidation' = [consolidation EXCEPT ![k] =
           [status |-> "checked", canonical |-> canonical, members |-> members]]
    /\ UNCHANGED <<memory, console>>

Decide(k, from, to) ==
    /\ consolidation[k].status = from
    /\ consolidation' = [consolidation EXCEPT ![k].status = to]
    /\ UNCHANGED <<memory, console>>

InsertProposal(k) == Decide(k, "checked", "proposed")

RejectProposal(k) == Decide(k, "proposed", "rejected")

(* The proposal is locked and its members are found in force. *)
BeginExecution(k) ==
    /\ consolidation[k].members \subseteq InForce
    /\ Decide(k, "proposed", "executing")

(* An execution that raises. *)
ExecutionFails(k) == Decide(k, "executing", "proposed")

(* Mutant: the update takes members that left force since they were checked. *)
ConsolidatesMembers(k) == consolidation[k].members \ {consolidation[k].canonical}

(* Of the equivalent members, the update takes those still in force. *)
Consolidates(k) == (consolidation[k].members \ {consolidation[k].canonical}) \cap InForce

Execute(k) ==
    /\ consolidation[k].status = "executing"
    /\ memory' = [m \in Memory |->
           IF m \in Consolidates(k)
           THEN [memory[m] EXCEPT !.active = FALSE, !.into = consolidation[k].canonical]
           ELSE memory[m]]
    /\ consolidation' = [consolidation EXCEPT ![k].status = "executed"]
    /\ UNCHANGED console

-----------------------------------------------------------------------------

PromotionStep(s) ==
    \/ \E c \in Content, t \in Promoted \cup {NoMemory} : Promote(s, c, t)
    \/ \E c \in Content : ApproveLearning(s, c)
    \/ Number(s)
    \/ \E m \in Memory : Write(s, m)
    \/ GiveUp(s)

ConsolidationStep(k) ==
    \/ \E canonical \in Memory, members \in SUBSET InForce : CheckMembers(k, canonical, members)
    \/ InsertProposal(k) \/ RejectProposal(k)
    \/ BeginExecution(k) \/ ExecutionFails(k) \/ Execute(k)

MemoryNext ==
    \/ \E s \in Console : PromotionStep(s)
    \/ \E m \in Memory : Retire(m)
    \/ \E k \in Consolidation : ConsolidationStep(k)

MemorySpec == MemoryInit /\ [][MemoryNext]_memoryVars

-----------------------------------------------------------------------------
(* A memory leaves force once and in one way, however promotions,           *)
(* consolidations and reviews overlap: one memory supersedes it or one      *)
(* proposal consolidates it, and what is in force has neither behind it.    *)
LeavesForceOnce ==
    \A m \in Promoted :
        /\ \A n, o \in Promoted :
               memory[n].supersedes = m /\ memory[o].supersedes = m => n = o
        /\ (\E n \in Promoted : memory[n].supersedes = m) =>
               ~ memory[m].active /\ memory[m].into = NoMemory
        /\ memory[m].into # NoMemory => ~ memory[m].active

(* A memory supersedes an earlier one, although its version is read before  *)
(* and without a lock: the lineage of a memory has no cycle and its         *)
(* versions grow.                                                           *)
SupersessionAdvances ==
    \A m \in Promoted : memory[m].supersedes # NoMemory =>
        /\ memory[m].supersedes \in Promoted
        /\ memory[memory[m].supersedes].version < memory[m].version

=============================================================================
