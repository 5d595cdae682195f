------------------------------ MODULE MCEditor ------------------------------
(* Editor, for TLC. *)
EXTENDS Editor, TLC

Symmetry == Permutations(Files) \cup Permutations(Shows)
=============================================================================
