-------------------------- MODULE GovernanceVoting --------------------------
(***************************************************************************)
(* Sovereign governance of one project: members propose protocol drafts    *)
(* for ratification and vote on them, an owner or admin closes the vote    *)
(* and ratifies.  A vote and a close lock the proposal (share and update), *)
(* so each is one action.  ratify locks its draft and then looks for the   *)
(* protocol to supersede, a row another ratification may be changing: it   *)
(* is a read step and a write step, and a unique index decides.            *)
(* An RPC that raises, or finds its work done, leaves the state alone.     *)
(***************************************************************************)
EXTENDS Naturals, Sequences, FiniteSets, FiniteSetsExt

CONSTANTS
    Member,      \* users with a role in the project
    Admin,       \* those whose role is owner or admin
    Draft,       \* protocol versions
    NoDraft,     \* null, where a protocol id is expected
    Proposal,    \* proposals
    Nobody,      \* the proposer of a proposal not made
    Choice,      \* choices members use: support, oppose, abstain
    MaxVotes     \* bound on the votes cast on a proposal

ASSUME MemberAssumption == Admin \subseteq Member /\ Nobody \notin Member
ASSUME FiniteMembers == IsFiniteSet(Member)
ASSUME DraftAssumption == NoDraft \notin Draft
ASSUME ChoiceAssumption == Choice \subseteq {"support", "oppose", "abstain"} /\ MaxVotes \in Nat

VARIABLES
    active,      \* members whose membership is active
    protocol,    \* protocol[d]: status of protocol version d
    supersedes,  \* supersedes[d]: supersedes_protocol_id
    proposal,    \* proposal[p]: the proposal's row
    votes,       \* votes[p]: its vote events, in order
    decision,    \* decision[p]: its decision row
    ratifying    \* ratifying[a]: the ratification a is executing

govVars == <<active, protocol, supersedes, proposal, votes, decision, ratifying>>

-----------------------------------------------------------------------------

ProposalRow == [status : {"none", "open", "accepted", "rejected", "withdrawn"},
                by     : Member \cup {Nobody},
                target : Draft \cup {NoDraft}]

NoProposal == [status |-> "none", by |-> Nobody, target |-> NoDraft]

Vote == [by : Member, choice : Choice]

DecisionRow == [outcome     : {"none", "accepted", "rejected"},
                support     : Nat,
                oppose      : Nat,
                counted     : Nat,         \* all effective votes
                independent : BOOLEAN]

NoDecision == [outcome |-> "none", support |-> 0, oppose |-> 0, counted |-> 0,
               independent |-> FALSE]

(* seen: the ratified protocol the ratification of draft found. *)
Ratification == [draft : Draft \cup {NoDraft}, seen : Draft \cup {NoDraft}]

NotRatifying == [draft |-> NoDraft, seen |-> NoDraft]

GovTypeOK ==
    /\ active \subseteq Member
    /\ protocol \in [Draft -> {"none", "draft", "ratified", "superseded"}]
    /\ supersedes \in [Draft -> Draft \cup {NoDraft}]
    /\ proposal \in [Proposal -> ProposalRow]
    /\ votes \in [Proposal -> Seq(Vote)]
    /\ decision \in [Proposal -> DecisionRow]
    /\ ratifying \in [Admin -> Ratification]

GovInit ==
    /\ active = Member
    /\ protocol = [d \in Draft |-> "none"]
    /\ supersedes = [d \in Draft |-> NoDraft]
    /\ proposal = [p \in Proposal |-> NoProposal]
    /\ votes = [p \in Proposal |-> << >>]
    /\ decision = [p \in Proposal |-> NoDecision]
    /\ ratifying = [a \in Admin |-> NotRatifying]

-----------------------------------------------------------------------------
(* Memberships change outside this module: invitations, revocations. *)

Join(m) ==
    /\ active' = active \cup {m}
    /\ UNCHANGED <<protocol, supersedes, proposal, votes, decision, ratifying>>

Leave(m) ==
    /\ active' = active \ {m}
    /\ UNCHANGED <<protocol, supersedes, proposal, votes, decision, ratifying>>

CreateDraft(d) ==
    /\ active \cap Admin # {}
    /\ protocol[d] = "none"
    /\ protocol' = [protocol EXCEPT ![d] = "draft"]
    /\ UNCHANGED <<active, supersedes, proposal, votes, decision, ratifying>>

(* create_governance_proposal_v1 of a protocol change.  Proposals of other  *)
(* types are decided alike and change no protocol; they are left out.       *)
Propose(p, m, d) ==
    /\ proposal[p].status = "none"
    /\ m \in active
    /\ protocol[d] = "draft"
    /\ proposal' = [proposal EXCEPT ![p] = [status |-> "open", by |-> m, target |-> d]]
    /\ UNCHANGED <<active, protocol, supersedes, votes, decision, ratifying>>

(* Mutant: a vote checks the proposal it sees and does not lock it. *)
VotableOnceMade(p) == proposal[p].status # "none"

Votable(p) == proposal[p].status = "open"

(* A member may vote again; the later event takes the place of the earlier  *)
(* one.  The voting window is compared with the start of the transaction,   *)
(* so a vote may be recorded until the proposal is closed.                  *)
CastVote(p, m, choice) ==
    /\ Votable(p)
    /\ m \in active
    /\ Len(votes[p]) < MaxVotes
    /\ votes' = [votes EXCEPT ![p] = Append(@, [by |-> m, choice |-> choice])]
    /\ UNCHANGED <<active, protocol, supersedes, proposal, decision, ratifying>>

Withdraw(p) ==
    /\ proposal[p].status = "open"
    /\ proposal' = [proposal EXCEPT ![p].status = "withdrawn"]
    /\ UNCHANGED <<active, protocol, supersedes, votes, decision, ratifying>>

-----------------------------------------------------------------------------
(* close_governance_proposal_v1 *)

(* Mutant: every vote event counts, not the latest of each member. *)
EveryVote(p) == {i \in DOMAIN votes[p] : votes[p][i].by \in active}

(* The latest vote event of every member who is still active. *)
EffectiveVotes(p) ==
    {i \in DOMAIN votes[p] :
        /\ votes[p][i].by \in active
        /\ \A j \in DOMAIN votes[p] : votes[p][j].by = votes[p][i].by => j <= i}

(* Mutant: the proposer's own support is support enough. *)
SupportedByAnyone(p) ==
    \E i \in EffectiveVotes(p) : votes[p][i].choice = "support"

IndependentlySupported(p) ==
    \E i \in EffectiveVotes(p) :
        votes[p][i].choice = "support" /\ votes[p][i].by # proposal[p].by

Tally(p) ==
    LET Of(choice) == Cardinality({i \in EffectiveVotes(p) : votes[p][i].choice = choice})
        counted == Cardinality(EffectiveVotes(p))
        accept == counted >= 1 /\ Of("support") > Of("oppose") /\ IndependentlySupported(p)
    IN  [outcome     |-> IF accept THEN "accepted" ELSE "rejected",
         support     |-> Of("support"),
         oppose      |-> Of("oppose"),
         counted     |-> counted,
         independent |-> IndependentlySupported(p)]

(* A proposal with a closing time is closed after it only; time is left out.*)
CloseProposal(p) ==
    /\ active \cap Admin # {}
    /\ proposal[p].status = "open"
    /\ decision' = [decision EXCEPT ![p] = Tally(p)]
    /\ proposal' = [proposal EXCEPT ![p].status = Tally(p).outcome]
    /\ UNCHANGED <<active, protocol, supersedes, votes, ratifying>>

-----------------------------------------------------------------------------
(* ratify_governance_protocol_v1 *)

Ratified == {d \in Draft : protocol[d] = "ratified"}

Accepted(p) == decision[p].outcome = "accepted" /\ decision[p].independent

(* The draft stays locked until the ratification ends. *)
BeginRatification(a, d, p) ==
    /\ a \in active
    /\ ratifying[a].draft = NoDraft
    /\ \A b \in Admin : ratifying[b].draft # d
    /\ protocol[d] = "draft"
    /\ proposal[p].target = d
    /\ Accepted(p)
    /\ \E seen \in IF Ratified = {} THEN {NoDraft} ELSE Ratified :
           ratifying' = [ratifying EXCEPT ![a] = [draft |-> d, seen |-> seen]]
    /\ UNCHANGED <<active, protocol, supersedes, proposal, votes, decision>>

(* The row seen is locked and looked at again: it may be superseded since.  *)
Prior(a) == IF ratifying[a].seen \in Ratified THEN ratifying[a].seen ELSE NoDraft

(* Mutant: there is no index on ratified protocols. *)
UncheckedRatification(a) == TRUE

(* governance_protocol_one_ratified_idx: a protocol ratified meanwhile      *)
(* makes this ratification raise.                                           *)
IndexAdmits(a) == Ratified \subseteq {Prior(a)}

(* Mutant: whatever is ratified is superseded, the pointer is what was seen. *)
RatifyOverAll(a) ==
    LET d == ratifying[a].draft
    IN  /\ d # NoDraft
        /\ protocol' = [e \in Draft |-> IF e = d THEN "ratified"
                                        ELSE IF e \in Ratified THEN "superseded"
                                        ELSE protocol[e]]
        /\ supersedes' = [supersedes EXCEPT ![d] = Prior(a)]
        /\ ratifying' = [ratifying EXCEPT ![a] = NotRatifying]
        /\ UNCHANGED <<active, proposal, votes, decision>>

Ratify(a) ==
    LET d == ratifying[a].draft
    IN  /\ d # NoDraft
        /\ IndexAdmits(a)
        /\ protocol' = [e \in Draft |-> IF e = d THEN "ratified"
                                        ELSE IF e = Prior(a) THEN "superseded"
                                        ELSE protocol[e]]
        /\ supersedes' = [supersedes EXCEPT ![d] = Prior(a)]
        /\ ratifying' = [ratifying EXCEPT ![a] = NotRatifying]
        /\ UNCHANGED <<active, proposal, votes, decision>>

(* The transaction raises, on the index or for another reason. *)
RatificationFails(a) ==
    /\ ratifying[a].draft # NoDraft
    /\ ratifying' = [ratifying EXCEPT ![a] = NotRatifying]
    /\ UNCHANGED <<active, protocol, supersedes, proposal, votes, decision>>

-----------------------------------------------------------------------------

ProposalStep(p) ==
    \/ \E m \in Member, d \in Draft : Propose(p, m, d)
    \/ \E m \in Member, choice \in Choice : CastVote(p, m, choice)
    \/ Withdraw(p) \/ CloseProposal(p)

RatificationStep(a) ==
    \/ \E d \in Draft, p \in Proposal : BeginRatification(a, d, p)
    \/ Ratify(a) \/ RatificationFails(a)

GovNext ==
    \/ \E m \in Member : Join(m) \/ Leave(m)
    \/ \E d \in Draft : CreateDraft(d)
    \/ \E p \in Proposal : ProposalStep(p)
    \/ \E a \in Admin : RatificationStep(a)

GovSpec == GovInit /\ [][GovNext]_govVars

-----------------------------------------------------------------------------
(* At most one protocol version is in force, however ratifications overlap. *)
OneProtocolInForce == \A d, e \in Ratified : d = e

(* The protocol's history is a chain: what was superseded was superseded by *)
(* one version, and of the versions ever in force only one had none before. *)
HistoryIsAChain ==
    LET everInForce == {d \in Draft : protocol[d] \in {"ratified", "superseded"}}
    IN  /\ \A d \in Draft : protocol[d] = "superseded" <=> \E e \in everInForce : supersedes[e] = d
        /\ \A d, e \in everInForce : supersedes[d] = supersedes[e] => d = e

(* A version in force, now or once, was proposed and accepted, and among    *)
(* the votes that stand is the support of a member other than the proposer. *)
InForceByIndependentVote ==
    \A d \in Draft : protocol[d] \in {"ratified", "superseded"} =>
        \E p \in Proposal :
            /\ proposal[p].target = d /\ proposal[p].status = "accepted"
            /\ \E i \in DOMAIN votes[p] :
                  /\ votes[p][i].choice = "support" /\ votes[p][i].by # proposal[p].by
                  /\ \A j \in DOMAIN votes[p] : votes[p][j].by = votes[p][i].by => j <= i

(* One member, one vote: a decision counts at most one vote of each member. *)
OneMemberOneVote ==
    \A p \in Proposal :
        decision[p].counted <= Cardinality({votes[p][i].by : i \in DOMAIN votes[p]})

(* A proposal that is decided or withdrawn keeps its status, its votes and  *)
(* its decision.                                                            *)
DecisionIsFinal ==
    [][ \A p \in Proposal : proposal[p].status \notin {"none", "open"} =>
          /\ proposal'[p] = proposal[p]
          /\ votes'[p] = votes[p]
          /\ decision'[p] = decision[p] ]_govVars

=============================================================================
