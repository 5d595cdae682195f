------------------------------ MODULE MCPanel -------------------------------
(* Panel, for TLC. *)
EXTENDS Panel, TLC

Symmetry == Permutations(Slots)
=============================================================================
