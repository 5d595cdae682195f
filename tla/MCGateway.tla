----------------------------- MODULE MCGateway ------------------------------
(* Gateway, for TLC. *)
EXTENDS Gateway, TLC

Symmetry == Permutations(Users) \cup Permutations(Requests) \cup Permutations(Pids)
=============================================================================
