--------------------------- MODULE MCViewHandoff ---------------------------
(* Small instances of ViewHandoff: the launch slots are interchangeable.     *)
EXTENDS ViewHandoff, TLC

Symmetry == Permutations(Slots)
=============================================================================
