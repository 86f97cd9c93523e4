--------------------------- MODULE MCFileIngestion ---------------------------
(* Model values for FileIngestion. *)
EXTENDS FileIngestion, TLC

CONSTANTS i1, i2, h1, h2, w1, w2, g1

OneItem == {i1}
TwoItems == {i1, i2}
Hashes == {h1, h2}
Workers == {w1, w2}
OneGate == {g1}

(* The same bytes uploaded twice, and different ones.                       *)
SameContent == [i \in Item |-> h1]
OwnContent == [i \in Item |-> IF i = i1 THEN h1 ELSE h2]

(* Every file is sound; or i1 needs OCR that has no provider.               *)
AllSound == [i \in Item |-> "none"]
FirstUnrouted == [i \in Item |-> IF i = i1 THEN "ocr" ELSE "none"]

NoneScanned == {}

Symmetry == Permutations(Worker)

=============================================================================
