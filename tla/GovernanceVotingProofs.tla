----------------------- MODULE GovernanceVotingProofs -----------------------
(***************************************************************************)
(* Proofs about governance voting, for any members, drafts, proposals and  *)
(* any number of overlapping ratifications.                                *)
(***************************************************************************)
EXTENDS GovernanceVoting, FiniteSetTheorems, TLAPS

EverInForce == {d \in Draft : protocol[d] \in {"ratified", "superseded"}}

Voters(p) == {votes[p][i].by : i \in DOMAIN votes[p]}

IndependentVote(p) ==
    \E i \in DOMAIN votes[p] :
        /\ votes[p][i].choice = "support" /\ votes[p][i].by # proposal[p].by
        /\ \A j \in DOMAIN votes[p] : votes[p][j].by = votes[p][i].by => j <= i

(* A draft is locked by one ratification at most, which found it accepted. *)
DraftLocked ==
    \A a \in Admin : ratifying[a].draft # NoDraft =>
        /\ protocol[ratifying[a].draft] = "draft"
        /\ \E p \in Proposal : proposal[p].target = ratifying[a].draft /\ Accepted(p)
        /\ \A b \in Admin : ratifying[b].draft = ratifying[a].draft => a = b

(* A decision exists exactly when its proposal is decided, and agrees with *)
(* the votes, which are as they were when it was taken.                    *)
DecidedByVotes ==
    \A p \in Proposal :
        /\ proposal[p].status \in {"none", "open", "withdrawn"} => decision[p] = NoDecision
        /\ proposal[p].status \in {"accepted", "rejected"} =>
               decision[p].outcome = proposal[p].status
        /\ decision[p].independent => IndependentVote(p)
        /\ decision[p].counted <= Cardinality(Voters(p))

(* Once a version was ratified there is always one in force. *)
AlwaysOneInForce == EverInForce # {} => Ratified # {}

InForceAccepted ==
    \A d \in EverInForce : \E p \in Proposal : proposal[p].target = d /\ Accepted(p)

GovInv ==
    /\ GovTypeOK /\ DraftLocked /\ DecidedByVotes /\ AlwaysOneInForce
    /\ InForceAccepted /\ OneProtocolInForce /\ HistoryIsAChain

-----------------------------------------------------------------------------
LEMMA VotersFinite ==
    ASSUME NEW v \in Seq(Vote)
    PROVE  /\ \A i \in DOMAIN v : i \in Nat /\ v[i].by \in Member
           /\ IsFiniteSet({v[i].by : i \in DOMAIN v})
           /\ Cardinality({v[i].by : i \in DOMAIN v}) \in Nat
<1>1. DOMAIN v = 1 .. Len(v) /\ Len(v) \in Nat
  OBVIOUS
<1>2. \A i \in DOMAIN v : v[i] \in Vote
  BY <1>1
<1>3. \A i \in DOMAIN v : i \in Nat /\ v[i].by \in Member
  BY <1>1, <1>2 DEF Vote
<1>4. {v[i].by : i \in DOMAIN v} \in SUBSET Member
  BY <1>3
<1> QED
  BY <1>3, <1>4, FiniteMembers, FS_Subset, FS_CardinalityType

(* The effective votes are at most one of each voter. *)
LEMMA EffectiveVotesCount ==
    ASSUME GovTypeOK, NEW p \in Proposal
    PROVE  /\ IsFiniteSet(EffectiveVotes(p))
           /\ IsFiniteSet(Voters(p))
           /\ Cardinality(EffectiveVotes(p)) \in Nat
           /\ Cardinality(Voters(p)) \in Nat
           /\ Cardinality(EffectiveVotes(p)) <= Cardinality(Voters(p))
<1> DEFINE f == [i \in EffectiveVotes(p) |-> votes[p][i].by]
<1>1. votes[p] \in Seq(Vote)
  BY DEF GovTypeOK
<1>2. \A i \in DOMAIN votes[p] : i \in Nat
  BY <1>1, VotersFinite
<1>3. IsFiniteSet(Voters(p))
  BY <1>1, VotersFinite DEF Voters
<1>4. f \in [EffectiveVotes(p) -> Voters(p)]
  BY DEF EffectiveVotes, Voters
<1>5. ASSUME NEW i \in EffectiveVotes(p), NEW j \in EffectiveVotes(p), f[i] = f[j]
      PROVE  i = j
  <2>1. i \in Nat /\ j \in Nat /\ i <= j /\ j <= i
    BY <1>2, <1>5 DEF EffectiveVotes
  <2> QED
    BY <2>1
<1>6. f \in Injection(EffectiveVotes(p), Voters(p))
  BY <1>4, <1>5 DEF Injection, IsInjective
<1> QED
  BY <1>3, <1>6, FS_Injection, FS_CardinalityType

LEMMA TallyType ==
    ASSUME GovTypeOK, NEW p \in Proposal
    PROVE  /\ Tally(p) \in DecisionRow
           /\ Tally(p).outcome \in {"accepted", "rejected"}
           /\ Tally(p).counted <= Cardinality(Voters(p))
           /\ Tally(p).independent => IndependentVote(p)
<1> DEFINE Of(choice) == {i \in EffectiveVotes(p) : votes[p][i].choice = choice}
<1>1. \A choice : Cardinality(Of(choice)) \in Nat
  <2> SUFFICES ASSUME NEW choice PROVE Cardinality(Of(choice)) \in Nat
    OBVIOUS
  <2>1. Of(choice) \in SUBSET EffectiveVotes(p)
    OBVIOUS
  <2> QED
    BY <2>1, EffectiveVotesCount, FS_Subset, FS_CardinalityType
<1>2. Tally(p).independent <=> IndependentlySupported(p)
  BY DEF Tally
<1>3. IndependentlySupported(p) => IndependentVote(p)
  BY DEF IndependentlySupported, IndependentVote, EffectiveVotes
<1>4. IndependentlySupported(p) \in BOOLEAN
  BY DEF IndependentlySupported
<1>5. Tally(p).counted = Cardinality(EffectiveVotes(p))
  BY DEF Tally
<1>6. Tally(p) \in DecisionRow
  BY <1>1, <1>4, EffectiveVotesCount DEF Tally, DecisionRow
<1> QED
  BY <1>2, <1>3, <1>5, <1>6, EffectiveVotesCount DEF Tally

-----------------------------------------------------------------------------
LEMMA GovInitial == GovInit => GovInv
<1> SUFFICES ASSUME GovInit PROVE GovInv
  OBVIOUS
<1>1. NoProposal \in ProposalRow /\ NoDecision \in DecisionRow /\ NotRatifying \in Ratification
  BY DEF NoProposal, ProposalRow, NoDecision, DecisionRow, NotRatifying, Ratification
<1>2. GovTypeOK
  BY <1>1 DEF GovInit, GovTypeOK
<1>3. \A p \in Proposal : Cardinality(Voters(p)) \in Nat
  BY <1>2, EffectiveVotesCount
<1>4. DecidedByVotes
  BY <1>3 DEF DecidedByVotes, GovInit, NoProposal, NoDecision
<1>5. DraftLocked
  BY DEF DraftLocked, GovInit, NotRatifying
<1>6. AlwaysOneInForce /\ InForceAccepted /\ OneProtocolInForce /\ HistoryIsAChain
  BY DEF GovInit, AlwaysOneInForce, InForceAccepted, OneProtocolInForce, HistoryIsAChain,
         EverInForce, Ratified
<1> QED
  BY <1>2, <1>4, <1>5, <1>6 DEF GovInv

-----------------------------------------------------------------------------
(* Steps that leave protocols and ratifications alone. *)
LEMMA ProtocolsKept ==
    ASSUME GovInv, UNCHANGED <<protocol, supersedes, ratifying>>, DecidedByVotes',
           \A p \in Proposal : Accepted(p) =>
               decision'[p] = decision[p] /\ proposal'[p].target = proposal[p].target
    PROVE  /\ DraftLocked' /\ AlwaysOneInForce' /\ InForceAccepted'
           /\ OneProtocolInForce' /\ HistoryIsAChain'
<1>1. \A p \in Proposal : \A d : proposal[p].target = d /\ Accepted(p) =>
          proposal'[p].target = d /\ Accepted(p)'
  BY DEF Accepted
<1>2. DraftLocked'
  BY <1>1 DEF GovInv, DraftLocked
<1>3. InForceAccepted'
  BY <1>1 DEF GovInv, InForceAccepted, EverInForce
<1> QED
  BY <1>2, <1>3 DEF GovInv, AlwaysOneInForce, OneProtocolInForce, HistoryIsAChain,
                    EverInForce, Ratified

LEMMA MembershipStep ==
    ASSUME GovInv, NEW m \in Member, Join(m) \/ Leave(m)
    PROVE  GovInv'
<1>1. GovTypeOK'
  BY DEF GovInv, GovTypeOK, Join, Leave
<1>2. UNCHANGED <<protocol, supersedes, proposal, votes, decision, ratifying>>
  BY DEF Join, Leave
<1>3. DecidedByVotes'
  BY <1>2 DEF GovInv, DecidedByVotes, IndependentVote, Voters
<1> QED
  BY <1>1, <1>2, <1>3, ProtocolsKept DEF GovInv

LEMMA CreateDraftStep ==
    ASSUME GovInv, NEW d \in Draft, CreateDraft(d)
    PROVE  GovInv'
<1>1. GovTypeOK'
  BY DEF GovInv, GovTypeOK, CreateDraft
<1>2. DecidedByVotes'
  BY DEF GovInv, DecidedByVotes, IndependentVote, Voters, CreateDraft
<1>3. protocol[d] = "none" /\ protocol' = [protocol EXCEPT ![d] = "draft"]
  BY DEF CreateDraft
<1>4. \A e \in Draft : /\ protocol'[e] \in {"ratified", "superseded"}
                          <=> protocol[e] \in {"ratified", "superseded"}
                       /\ protocol'[e] = "ratified" <=> protocol[e] = "ratified"
                       /\ protocol'[e] = "superseded" <=> protocol[e] = "superseded"
                       /\ protocol[e] = "draft" => protocol'[e] = "draft"
  BY <1>3 DEF GovInv, GovTypeOK
<1>5. EverInForce' = EverInForce /\ Ratified' = Ratified
  BY <1>4 DEF EverInForce, Ratified
<1>6. UNCHANGED <<supersedes, proposal, votes, decision, ratifying>>
  BY DEF CreateDraft
<1>7. DraftLocked'
  <2>1. \A a \in Admin : ratifying[a].draft \in Draft \cup {NoDraft}
    BY DEF GovInv, GovTypeOK, Ratification
  <2> QED
    BY <1>4, <1>6, <2>1 DEF GovInv, DraftLocked, Accepted
<1>8. HistoryIsAChain'
  BY <1>4, <1>5, <1>6 DEF GovInv, HistoryIsAChain, EverInForce
<1> QED
  BY <1>1, <1>2, <1>5, <1>6, <1>7, <1>8
     DEF GovInv, AlwaysOneInForce, InForceAccepted, OneProtocolInForce, Accepted

LEMMA ProposeStep ==
    ASSUME GovInv, NEW p \in Proposal, NEW m \in Member, NEW d \in Draft, Propose(p, m, d)
    PROVE  GovInv'
<1> DEFINE row == [status |-> "open", by |-> m, target |-> d]
<1>1. row \in ProposalRow
  BY DEF ProposalRow
<1>2. GovTypeOK'
  BY <1>1 DEF GovInv, GovTypeOK, Propose
<1>3. /\ proposal'[p] = row
      /\ \A q \in Proposal \ {p} : proposal'[q] = proposal[q]
      /\ proposal[p].status = "none"
      /\ UNCHANGED <<protocol, supersedes, votes, decision, ratifying>>
  BY DEF Propose, GovInv, GovTypeOK
<1>4. decision[p] = NoDecision
  BY <1>3 DEF GovInv, DecidedByVotes
<1>5. DecidedByVotes'
  <2> SUFFICES ASSUME NEW q \in Proposal
               PROVE  /\ proposal'[q].status \in {"none", "open", "withdrawn"} =>
                             decision'[q] = NoDecision
                      /\ proposal'[q].status \in {"accepted", "rejected"} =>
                             decision'[q].outcome = proposal'[q].status
                      /\ decision'[q].independent => IndependentVote(q)'
                      /\ decision'[q].counted <= Cardinality(Voters(q))'
    BY DEF DecidedByVotes
  <2>1. CASE q = p
    BY <1>3, <1>4, <2>1 DEF NoDecision, GovInv, DecidedByVotes, Voters
  <2>2. CASE q # p
    BY <1>3, <2>2 DEF GovInv, DecidedByVotes, IndependentVote, Voters
  <2> QED
    BY <2>1, <2>2
<1>6. ~ Accepted(p)
  BY <1>4 DEF Accepted, NoDecision
<1>7. \A q \in Proposal : Accepted(q) =>
          decision'[q] = decision[q] /\ proposal'[q].target = proposal[q].target
  BY <1>3, <1>6
<1> QED
  BY <1>2, <1>3, <1>5, <1>7, ProtocolsKept DEF GovInv

LEMMA CastVoteStep ==
    ASSUME GovInv, NEW p \in Proposal, NEW m \in Member, NEW choice \in Choice,
           CastVote(p, m, choice)
    PROVE  GovInv'
<1>1. [by |-> m, choice |-> choice] \in Vote
  BY DEF Vote
<1>2. GovTypeOK'
  BY <1>1 DEF GovInv, GovTypeOK, CastVote
<1>3. /\ \A q \in Proposal \ {p} : votes'[q] = votes[q]
      /\ proposal[p].status = "open"
      /\ UNCHANGED <<protocol, supersedes, proposal, decision, ratifying>>
  BY DEF CastVote, Votable, GovInv, GovTypeOK
<1>4. decision[p] = NoDecision
  BY <1>3 DEF GovInv, DecidedByVotes
<1>5. Cardinality(Voters(p))' \in Nat
  <2>1. votes'[p] \in Seq(Vote)
    BY <1>2 DEF GovTypeOK
  <2> QED
    BY <2>1, VotersFinite DEF Voters
<1>6. DecidedByVotes'
  <2> SUFFICES ASSUME NEW q \in Proposal
               PROVE  /\ proposal'[q].status \in {"none", "open", "withdrawn"} =>
                             decision'[q] = NoDecision
                      /\ proposal'[q].status \in {"accepted", "rejected"} =>
                             decision'[q].outcome = proposal'[q].status
                      /\ decision'[q].independent => IndependentVote(q)'
                      /\ decision'[q].counted <= Cardinality(Voters(q))'
    BY DEF DecidedByVotes
  <2>1. CASE q = p
    BY <1>3, <1>4, <1>5, <2>1 DEF NoDecision
  <2>2. CASE q # p
    BY <1>3, <2>2 DEF GovInv, DecidedByVotes, IndependentVote, Voters
  <2> QED
    BY <2>1, <2>2
<1> QED
  BY <1>2, <1>3, <1>6, ProtocolsKept DEF GovInv

LEMMA WithdrawStep ==
    ASSUME GovInv, NEW p \in Proposal, Withdraw(p)
    PROVE  GovInv'
<1>1. GovTypeOK'
  <2>1. [proposal[p] EXCEPT !.status = "withdrawn"] \in ProposalRow
    BY DEF GovInv, GovTypeOK, ProposalRow
  <2> QED
    BY <2>1 DEF GovInv, GovTypeOK, Withdraw
<1>2. /\ proposal'[p] = [proposal[p] EXCEPT !.status = "withdrawn"]
      /\ \A q \in Proposal \ {p} : proposal'[q] = proposal[q]
      /\ proposal[p].status = "open"
      /\ UNCHANGED <<protocol, supersedes, votes, decision, ratifying>>
  BY DEF Withdraw, GovInv, GovTypeOK
<1>3. proposal[p] \in ProposalRow
  BY DEF GovInv, GovTypeOK
<1>4. /\ proposal'[p].status = "withdrawn" /\ proposal'[p].by = proposal[p].by
      /\ proposal'[p].target = proposal[p].target
  BY <1>2, <1>3 DEF ProposalRow
<1>5. decision[p] = NoDecision
  BY <1>2 DEF GovInv, DecidedByVotes
<1>6. DecidedByVotes'
  <2> SUFFICES ASSUME NEW q \in Proposal
               PROVE  /\ proposal'[q].status \in {"none", "open", "withdrawn"} =>
                             decision'[q] = NoDecision
                      /\ proposal'[q].status \in {"accepted", "rejected"} =>
                             decision'[q].outcome = proposal'[q].status
                      /\ decision'[q].independent => IndependentVote(q)'
                      /\ decision'[q].counted <= Cardinality(Voters(q))'
    BY DEF DecidedByVotes
  <2>1. CASE q = p
    <3>1. Cardinality(Voters(p))' = Cardinality(Voters(p))
      BY <1>2 DEF Voters
    <3>2. decision[p].counted <= Cardinality(Voters(p))
      BY DEF GovInv, DecidedByVotes
    <3>3. decision'[p] = NoDecision
      BY <1>2, <1>5
    <3> QED
      BY <1>4, <1>5, <2>1, <3>1, <3>2, <3>3 DEF NoDecision
  <2>2. CASE q # p
    BY <1>2, <2>2 DEF GovInv, DecidedByVotes, IndependentVote, Voters
  <2> QED
    BY <2>1, <2>2
<1>7. \A q \in Proposal : Accepted(q) =>
          decision'[q] = decision[q] /\ proposal'[q].target = proposal[q].target
  BY <1>2, <1>4
<1> QED
  BY <1>1, <1>2, <1>6, <1>7, ProtocolsKept DEF GovInv

LEMMA CloseProposalStep ==
    ASSUME GovInv, NEW p \in Proposal, CloseProposal(p)
    PROVE  GovInv'
<1>1. /\ Tally(p) \in DecisionRow
      /\ Tally(p).outcome \in {"accepted", "rejected"}
      /\ Tally(p).counted <= Cardinality(Voters(p))
      /\ Tally(p).independent => IndependentVote(p)
  BY TallyType DEF GovInv
<1>2. GovTypeOK'
  <2>1. proposal[p] \in ProposalRow
    BY DEF GovInv, GovTypeOK
  <2>2. [proposal[p] EXCEPT !.status = Tally(p).outcome] \in ProposalRow
    BY <1>1, <2>1 DEF ProposalRow
  <2> QED
    BY <1>1, <2>2 DEF GovInv, GovTypeOK, CloseProposal
<1>3. /\ proposal'[p] = [proposal[p] EXCEPT !.status = Tally(p).outcome]
      /\ decision'[p] = Tally(p)
      /\ \A q \in Proposal \ {p} : proposal'[q] = proposal[q] /\ decision'[q] = decision[q]
      /\ proposal[p].status = "open"
      /\ UNCHANGED <<protocol, supersedes, votes, ratifying>>
  BY DEF CloseProposal, GovInv, GovTypeOK
<1>4. proposal[p] \in ProposalRow
  BY DEF GovInv, GovTypeOK
<1>5. /\ proposal'[p].status = Tally(p).outcome /\ proposal'[p].by = proposal[p].by
      /\ proposal'[p].target = proposal[p].target
  BY <1>3, <1>4 DEF ProposalRow
<1>6. ~ Accepted(p)
  BY <1>3 DEF GovInv, DecidedByVotes, NoDecision, Accepted
<1>7. DecidedByVotes'
  <2> SUFFICES ASSUME NEW q \in Proposal
               PROVE  /\ proposal'[q].status \in {"none", "open", "withdrawn"} =>
                             decision'[q] = NoDecision
                      /\ proposal'[q].status \in {"accepted", "rejected"} =>
                             decision'[q].outcome = proposal'[q].status
                      /\ decision'[q].independent => IndependentVote(q)'
                      /\ decision'[q].counted <= Cardinality(Voters(q))'
    BY DEF DecidedByVotes
  <2>1. CASE q = p
    <3>1. decision'[q] = Tally(q) /\ proposal'[q].status = Tally(q).outcome
      BY <1>3, <1>5, <2>1
    <3>2. decision'[q].counted <= Cardinality(Voters(q))'
      BY <1>1, <1>3, <2>1, <3>1 DEF Voters
    <3>3. decision'[q].independent => IndependentVote(q)'
      <4>1. decision'[q].independent => IndependentVote(q)
        BY <1>1, <2>1, <3>1
      <4>2. proposal'[q].by = proposal[q].by /\ votes' = votes
        BY <1>3, <1>5, <2>1
      <4> QED
        BY <4>1, <4>2 DEF IndependentVote
    <3>4. proposal'[q].status \in {"accepted", "rejected"}
            /\ decision'[q].outcome = proposal'[q].status
      BY <1>1, <2>1, <3>1
    <3> QED
      BY <3>2, <3>3, <3>4
  <2>2. CASE q # p
    <3>1. proposal'[q] = proposal[q] /\ decision'[q] = decision[q] /\ votes' = votes
      BY <1>3, <2>2
    <3>2. (IndependentVote(q)' <=> IndependentVote(q)) /\ Voters(q)' = Voters(q)
      BY <3>1 DEF IndependentVote, Voters
    <3>3. Cardinality(Voters(q))' = Cardinality(Voters(q))
      BY <3>2
    <3>4. DecidedByVotes
      BY DEF GovInv
    <3> QED
      BY <3>1, <3>2, <3>3, <3>4 DEF DecidedByVotes
  <2> QED
    BY <2>1, <2>2
<1>8. \A q \in Proposal : Accepted(q) =>
          decision'[q] = decision[q] /\ proposal'[q].target = proposal[q].target
  BY <1>3, <1>6
<1> QED
  BY <1>2, <1>3, <1>7, <1>8, ProtocolsKept DEF GovInv

-----------------------------------------------------------------------------
LEMMA DecidedKept ==
    ASSUME DecidedByVotes, UNCHANGED <<proposal, votes, decision>>
    PROVE  DecidedByVotes'
BY DEF DecidedByVotes, IndependentVote, Voters

LEMMA BeginRatificationStep ==
    ASSUME GovInv, NEW a \in Admin, NEW d \in Draft, NEW p \in Proposal,
           BeginRatification(a, d, p)
    PROVE  GovInv'
<1> PICK seen \in Draft \cup {NoDraft} :
        ratifying' = [ratifying EXCEPT ![a] = [draft |-> d, seen |-> seen]]
  BY DEF BeginRatification, Ratified
<1>1. [draft |-> d, seen |-> seen] \in Ratification
  BY DEF Ratification
<1>2. GovTypeOK'
  BY <1>1 DEF GovInv, GovTypeOK, BeginRatification
<1>3. /\ ratifying'[a].draft = d
      /\ \A b \in Admin \ {a} : ratifying'[b] = ratifying[b]
      /\ \A b \in Admin : ratifying[b].draft # d
      /\ protocol[d] = "draft" /\ proposal[p].target = d /\ Accepted(p)
      /\ UNCHANGED <<active, protocol, supersedes, proposal, votes, decision>>
  BY DEF BeginRatification, GovInv, GovTypeOK
<1>4. \A q : Accepted(q)' <=> Accepted(q)
  BY <1>3 DEF Accepted
<1>5. DraftLocked'
  <2> SUFFICES ASSUME NEW b \in Admin, ratifying'[b].draft # NoDraft
               PROVE  /\ protocol'[ratifying'[b].draft] = "draft"
                      /\ \E q \in Proposal : proposal'[q].target = ratifying'[b].draft /\ Accepted(q)'
                      /\ \A c \in Admin : ratifying'[c].draft = ratifying'[b].draft => b = c
    BY DEF DraftLocked
  <2>1. CASE b = a
    BY <1>3, <1>4, <2>1
  <2>2. CASE b # a
    BY <1>3, <1>4, <2>2 DEF GovInv, DraftLocked
  <2> QED
    BY <2>1, <2>2
<1>6. DecidedByVotes'
  BY <1>3, DecidedKept DEF GovInv
<1>7. AlwaysOneInForce' /\ InForceAccepted' /\ OneProtocolInForce' /\ HistoryIsAChain'
  BY <1>3, <1>4 DEF GovInv, AlwaysOneInForce, InForceAccepted, OneProtocolInForce,
                    HistoryIsAChain, EverInForce, Ratified
<1> QED
  BY <1>2, <1>5, <1>6, <1>7 DEF GovInv

LEMMA RatificationFailsStep ==
    ASSUME GovInv, NEW a \in Admin, RatificationFails(a)
    PROVE  GovInv'
<1>1. NotRatifying \in Ratification
  BY DEF NotRatifying, Ratification
<1>2. GovTypeOK'
  BY <1>1 DEF GovInv, GovTypeOK, RatificationFails
<1>3. /\ ratifying'[a].draft = NoDraft
      /\ \A b \in Admin \ {a} : ratifying'[b] = ratifying[b]
      /\ UNCHANGED <<active, protocol, supersedes, proposal, votes, decision>>
  BY DEF RatificationFails, NotRatifying, GovInv, GovTypeOK
<1>4. DraftLocked'
  BY <1>3 DEF GovInv, DraftLocked, Accepted
<1>5. DecidedByVotes'
  BY <1>3, DecidedKept DEF GovInv
<1>6. AlwaysOneInForce' /\ InForceAccepted' /\ OneProtocolInForce' /\ HistoryIsAChain'
  BY <1>3 DEF GovInv, AlwaysOneInForce, InForceAccepted, OneProtocolInForce,
              HistoryIsAChain, EverInForce, Ratified, Accepted
<1> QED
  BY <1>2, <1>4, <1>5, <1>6 DEF GovInv

(* What a ratification supersedes is what is in force; it is in force from *)
(* then on, as the only one.                                               *)
LEMMA RatifyStep ==
    ASSUME GovInv, NEW a \in Admin, Ratify(a)
    PROVE  GovInv'
<1> DEFINE d == ratifying[a].draft
           s == Prior(a)
<1>1. /\ d \in Draft
      /\ protocol[d] = "draft"
      /\ \A b \in Admin : ratifying[b].draft = d => b = a
  BY DEF Ratify, GovInv, GovTypeOK, DraftLocked, Ratification
<1>2. PICK p \in Proposal : proposal[p].target = d /\ Accepted(p)
  BY DEF Ratify, GovInv, DraftLocked
<1>3. s \in Ratified \cup {NoDraft} /\ Ratified \subseteq {s}
  BY DEF Ratify, Prior, IndexAdmits
<1>4. s # d
  BY <1>1, <1>3, DraftAssumption DEF Ratified
<1>5. /\ protocol' \in [Draft -> {"none", "draft", "ratified", "superseded"}]
      /\ protocol'[d] = "ratified"
      /\ \A e \in Draft \ {d, s} : protocol'[e] = protocol[e]
      /\ s # NoDraft => protocol'[s] = "superseded"
      /\ supersedes'[d] = s
      /\ \A e \in Draft \ {d} : supersedes'[e] = supersedes[e]
      /\ ratifying'[a].draft = NoDraft
      /\ \A b \in Admin \ {a} : ratifying'[b] = ratifying[b]
      /\ UNCHANGED <<active, proposal, votes, decision>>
  BY <1>1, <1>3, <1>4 DEF Ratify, NotRatifying, GovInv, GovTypeOK, Ratified
<1>6. GovTypeOK'
  <2>1. NotRatifying \in Ratification
    BY DEF NotRatifying, Ratification
  <2>2. s \in Draft \cup {NoDraft}
    BY <1>3 DEF Ratified
  <2> QED
    BY <1>1, <1>5, <2>1, <2>2 DEF GovInv, GovTypeOK, Ratify
<1>7. \A q : Accepted(q)' <=> Accepted(q)
  BY <1>5 DEF Accepted
<1>8. DraftLocked'
  <2> SUFFICES ASSUME NEW b \in Admin, ratifying'[b].draft # NoDraft
               PROVE  /\ protocol'[ratifying'[b].draft] = "draft"
                      /\ \E q \in Proposal : proposal'[q].target = ratifying'[b].draft /\ Accepted(q)'
                      /\ \A c \in Admin : ratifying'[c].draft = ratifying'[b].draft => b = c
    BY DEF DraftLocked
  <2>1. b # a /\ ratifying'[b] = ratifying[b]
    BY <1>5
  <2>2. /\ protocol[ratifying[b].draft] = "draft"
        /\ \E q \in Proposal : proposal[q].target = ratifying[b].draft /\ Accepted(q)
        /\ \A c \in Admin : ratifying[c].draft = ratifying[b].draft => b = c
    BY <2>1 DEF GovInv, DraftLocked
  <2>3. ratifying[b].draft \in Draft /\ ratifying[b].draft # d
    BY <1>1, <2>1 DEF GovInv, GovTypeOK, Ratification
  <2>4. ratifying[b].draft # s
    BY <1>3, <2>2, <2>3, DraftAssumption DEF Ratified
  <2>5. protocol'[ratifying'[b].draft] = "draft"
    BY <1>5, <2>1, <2>2, <2>3, <2>4
  <2>6. \A c \in Admin : ratifying'[c].draft = ratifying'[b].draft => b = c
    BY <1>5, <2>1, <2>2
  <2> QED
    BY <1>5, <1>7, <2>1, <2>2, <2>5, <2>6
<1>9. DecidedByVotes'
  BY <1>5, DecidedKept DEF GovInv
<1>10. /\ EverInForce' = EverInForce \cup {d}
       /\ d \notin EverInForce
       /\ Ratified' = {d}
  <2>1. \A e \in Draft : protocol'[e] = "ratified" <=> e = d
    <3>1. \A e \in Draft : e # s => protocol[e] # "ratified"
      BY <1>3 DEF Ratified
    <3>2. s \in Draft => protocol'[s] = "superseded"
      BY <1>5, DraftAssumption
    <3> QED
      BY <1>5, <3>1, <3>2
  <2>2. \A e \in Draft : protocol'[e] \in {"ratified", "superseded"} <=>
              e = d \/ protocol[e] \in {"ratified", "superseded"}
    BY <1>3, <1>5, DraftAssumption DEF Ratified
  <2> QED
    BY <1>1, <2>1, <2>2 DEF EverInForce, Ratified
<1>11. AlwaysOneInForce' /\ OneProtocolInForce'
  BY <1>10 DEF AlwaysOneInForce, OneProtocolInForce
<1>12. InForceAccepted'
  <2> SUFFICES ASSUME NEW e \in EverInForce'
               PROVE  \E q \in Proposal : proposal'[q].target = e /\ Accepted(q)'
    BY DEF InForceAccepted
  <2>1. CASE e = d
    BY <1>2, <1>5, <1>7, <2>1
  <2>2. CASE e \in EverInForce
    BY <1>5, <1>7, <2>2 DEF GovInv, InForceAccepted
  <2> QED
    BY <1>10, <2>1, <2>2
<1>13. \A e \in EverInForce : supersedes[e] # s
  <2>1. CASE s = NoDraft
    BY <1>3, <2>1, DraftAssumption DEF GovInv, AlwaysOneInForce, Ratified
  <2>2. CASE s # NoDraft
    BY <1>3, <2>2 DEF GovInv, HistoryIsAChain, EverInForce, Ratified
  <2> QED
    BY <2>1, <2>2
<1>14. HistoryIsAChain'
  <2>1. \A e \in EverInForce : supersedes'[e] = supersedes[e]
    BY <1>5, <1>10 DEF EverInForce
  <2>2. \A e \in Draft : protocol'[e] = "superseded" <=> e = s \/ protocol[e] = "superseded"
    BY <1>1, <1>3, <1>4, <1>5, DraftAssumption DEF Ratified
  <2>3. \A e \in Draft : protocol[e] = "superseded" <=> \E f \in EverInForce : supersedes[f] = e
    BY DEF GovInv, HistoryIsAChain, EverInForce
  <2>4. \A e \in Draft : protocol'[e] = "superseded" <=> \E f \in EverInForce' : supersedes'[f] = e
    BY <1>5, <1>10, <2>1, <2>2, <2>3
  <2>5. \A e, f \in EverInForce : supersedes[e] = supersedes[f] => e = f
    BY DEF GovInv, HistoryIsAChain, EverInForce
  <2>6. \A e, f \in EverInForce' : supersedes'[e] = supersedes'[f] => e = f
    BY <1>5, <1>10, <1>13, <2>1, <2>5
  <2> QED
    BY <2>4, <2>6 DEF HistoryIsAChain, EverInForce
<1> QED
  BY <1>6, <1>8, <1>9, <1>11, <1>12, <1>14 DEF GovInv

-----------------------------------------------------------------------------
LEMMA GovStep == GovInv /\ [GovNext]_govVars => GovInv'
<1> SUFFICES ASSUME GovInv, [GovNext]_govVars PROVE GovInv'
  OBVIOUS
<1>1. CASE \E m \in Member : Join(m) \/ Leave(m)
  BY <1>1, MembershipStep
<1>2. CASE \E d \in Draft : CreateDraft(d)
  BY <1>2, CreateDraftStep
<1>3. CASE \E p \in Proposal : ProposalStep(p)
  BY <1>3, ProposeStep, CastVoteStep, WithdrawStep, CloseProposalStep DEF ProposalStep
<1>4. CASE \E a \in Admin : RatificationStep(a)
  BY <1>4, BeginRatificationStep, RatifyStep, RatificationFailsStep DEF RatificationStep
<1>5. CASE UNCHANGED govVars
  <2>1. GovTypeOK'
    BY <1>5 DEF govVars, GovInv, GovTypeOK
  <2>2. DecidedByVotes'
    BY <1>5, DecidedKept DEF govVars, GovInv
  <2> QED
    BY <1>5, <2>1, <2>2, ProtocolsKept DEF govVars, GovInv
<1> QED
  BY <1>1, <1>2, <1>3, <1>4, <1>5 DEF GovNext

(* The inductive invariant: drafts being ratified are locked and accepted, *)
(* decisions agree with the votes, the ratified protocols form a chain.    *)
THEOREM GovInvariance == GovSpec => []GovInv
<1> QED
  BY GovInitial, GovStep, PTL DEF GovSpec

(* Proposals, votes, decisions and protocols stay well formed. *)
THEOREM GovTypeInvariance == GovSpec => []GovTypeOK
<1>1. GovInv => GovTypeOK
  BY DEF GovInv
<1> QED
  BY <1>1, GovInvariance, PTL

(* However many ratifications overlap, one protocol is in force at most:   *)
(* ratify_governance_protocol_v1 with the index on ratified protocols.     *)
THEOREM OneProtocolInForceAlways == GovSpec => []OneProtocolInForce
<1>1. GovInv => OneProtocolInForce
  BY DEF GovInv
<1> QED
  BY <1>1, GovInvariance, PTL

(* However ratifications overlap, the versions ever in force form a chain  *)
(* of supersession: the pointer a ratification stores is what it replaced. *)
THEOREM HistoryIsAlwaysAChain == GovSpec => []HistoryIsAChain
<1>1. GovInv => HistoryIsAChain
  BY DEF GovInv
<1> QED
  BY <1>1, GovInvariance, PTL

(* No version comes into force without the standing support of a member    *)
(* other than its proposer: close_governance_proposal_v1's tally.          *)
THEOREM AlwaysInForceByIndependentVote == GovSpec => []InForceByIndependentVote
<1>1. GovInv => InForceByIndependentVote
  <2> SUFFICES ASSUME GovInv, NEW d \in Draft, protocol[d] \in {"ratified", "superseded"}
               PROVE  \E p \in Proposal : /\ proposal[p].target = d
                                          /\ proposal[p].status = "accepted"
                                          /\ IndependentVote(p)
    BY DEF InForceByIndependentVote, IndependentVote
  <2>1. PICK p \in Proposal : proposal[p].target = d /\ Accepted(p)
    BY DEF GovInv, InForceAccepted, EverInForce
  <2>2. IndependentVote(p)
    BY <2>1 DEF GovInv, DecidedByVotes, Accepted
  <2>3. proposal[p].status \in {"none", "open", "accepted", "rejected", "withdrawn"}
    BY DEF GovInv, GovTypeOK, ProposalRow
  <2>4. proposal[p].status = "accepted"
    BY <2>1, <2>3 DEF GovInv, DecidedByVotes, Accepted, NoDecision
  <2> QED
    BY <2>1, <2>2, <2>4
<1> QED
  BY <1>1, GovInvariance, PTL

(* A member who votes again changes their vote and adds none: the close    *)
(* counts at most as many votes as members voted.                          *)
THEOREM OneMemberOneVoteAlways == GovSpec => []OneMemberOneVote
<1>1. GovInv => OneMemberOneVote
  BY DEF GovInv, DecidedByVotes, OneMemberOneVote, Voters
<1> QED
  BY <1>1, GovInvariance, PTL

(* No vote, close or withdrawal touches a proposal that is decided or      *)
(* withdrawn: each of them looks at the proposal under its lock.           *)
THEOREM DecisionsAreFinal == GovSpec => DecisionIsFinal
<1> DEFINE Decided(p) == proposal[p].status \notin {"none", "open"}
           Kept(p) == proposal'[p] = proposal[p] /\ votes'[p] = votes[p]
                        /\ decision'[p] = decision[p]
<1>1. ASSUME GovTypeOK, [GovNext]_govVars, NEW p \in Proposal, Decided(p)
      PROVE  Kept(p)
  <2>1. CASE \E m \in Member : Join(m) \/ Leave(m)
    BY <2>1 DEF Join, Leave
  <2>2. CASE \E d \in Draft : CreateDraft(d)
    BY <2>2 DEF CreateDraft
  <2>3. CASE \E q \in Proposal : ProposalStep(q)
    <3> PICK q \in Proposal : ProposalStep(q)
      BY <2>3
    <3>1. CASE \E m \in Member, d \in Draft : Propose(q, m, d)
      BY <1>1, <3>1 DEF Propose, GovTypeOK
    <3>2. CASE \E m \in Member, choice \in Choice : CastVote(q, m, choice)
      BY <1>1, <3>2 DEF CastVote, Votable, GovTypeOK
    <3>3. CASE Withdraw(q)
      BY <1>1, <3>3 DEF Withdraw, GovTypeOK
    <3>4. CASE CloseProposal(q)
      BY <1>1, <3>4 DEF CloseProposal, GovTypeOK
    <3> QED
      BY <3>1, <3>2, <3>3, <3>4 DEF ProposalStep
  <2>4. CASE \E a \in Admin : RatificationStep(a)
    BY <2>4 DEF RatificationStep, BeginRatification, Ratify, RatificationFails
  <2>5. CASE UNCHANGED govVars
    BY <2>5 DEF govVars
  <2> QED
    BY <1>1, <2>1, <2>2, <2>3, <2>4, <2>5 DEF GovNext
<1>2. GovTypeOK /\ [GovNext]_govVars =>
        [ \A p \in Proposal : proposal[p].status \notin {"none", "open"} =>
              /\ proposal'[p] = proposal[p]
              /\ votes'[p] = votes[p]
              /\ decision'[p] = decision[p] ]_govVars
  BY <1>1
<1> QED
  BY <1>2, GovTypeInvariance, PTL DEF GovSpec, DecisionIsFinal

=============================================================================
