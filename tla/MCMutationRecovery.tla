------------------------- MODULE MCMutationRecovery -------------------------
(* Model values for MutationRecovery. *)
EXTENDS MutationRecovery, TLC

CONSTANTS k1, k2, k3, p1, p2, tab1, tab2, s1, s2

OneKey == {k1}
TwoKeys == {k1, k2}
ThreeKeys == {k1, k2, k3}
OnePayload == {p1}
TwoPayloads == {p1, p2}
OneTab == {tab1}
TwoTabs == {tab1, tab2}
OneSlot == {s1}
TwoSlots == {s1, s2}

Symmetry == Permutations(Key) \cup Permutations(Payload)
            \cup Permutations(Tab) \cup Permutations(Slot)

=============================================================================
