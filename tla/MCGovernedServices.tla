-------------------------- MODULE MCGovernedServices --------------------------
(***************************************************************************)
(* Model values for SparksEconomy, GovernanceVoting and VerifiedMemory.    *)
(* The three services write no common row, so a behaviour exercises one of *)
(* them: focus, which the initial state chooses.                           *)
(*                                                                         *)
(* Names that are used once and make no difference are taken in a fixed    *)
(* order, which leaves out renamings of other behaviours only.             *)
(***************************************************************************)
EXTENDS SparksEconomy, GovernanceVoting, VerifiedMemory, TLC

CONSTANTS u1, u2, w1, q1, q2, k1, k2,
          d1, d2, g1, g2, c1, c2, m1, m2, m3, x1

VARIABLE focus

Prices == <<1>>
Alike == {{c1}, {c2}, {c1, c2}}

(* People, who return to a service under the same name, and contents, which *)
(* are all alike.                                                           *)
Symmetry == Permutations({u1, u2}) \cup Permutations({c1, c2})

InOrder(names, used) ==
    \A j \in DOMAIN names : names[j] \in used =>
        \A i \in 1 .. j : names[i] \in used

SparksOrdered ==
    /\ InOrder(<<q1, q2>>, {q \in Redemption : redemption[q].status # "none"})
    /\ InOrder(<<k1, k2>>, {redemption[q].key : q \in Redemption})

GovOrdered ==
    /\ InOrder(<<d1, d2>>, {proposal[p].target : p \in Proposal})
    /\ InOrder(<<g1, g2>>, {p \in Proposal : proposal[p].status # "none"})

MemoryOrdered == InOrder(<<m1, m2, m3>>, Promoted)

ServiceInit ==
    /\ focus \in {"sparks", "governance", "memory"}
    /\ SparksInit /\ GovInit /\ MemoryInit

ServiceNext ==
    \/ /\ focus = "sparks"
       /\ SparksNext /\ SparksOrdered'
       /\ UNCHANGED <<govVars, memoryVars, focus>>
    \/ /\ focus = "governance"
       /\ GovNext /\ GovOrdered'
       /\ UNCHANGED <<sparkVars, memoryVars, focus>>
    \/ /\ focus = "memory"
       /\ MemoryNext /\ MemoryOrdered'
       /\ UNCHANGED <<sparkVars, govVars, focus>>

ServiceSpec ==
    ServiceInit /\ [][ServiceNext]_<<sparkVars, govVars, memoryVars, focus>>

=============================================================================
