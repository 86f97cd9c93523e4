------------------------------ MODULE MCAiTurns ------------------------------
(* Model values for AiTurns. *)
EXTENDS AiTurns, TLC

CONSTANTS r1, r2, r3, t1, t2, t3

Symmetry == Permutations(Request) \cup Permutations(Turn)

=============================================================================
