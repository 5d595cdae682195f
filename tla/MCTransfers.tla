---------------------------- MODULE MCTransfers -----------------------------
(* Transfers, for TLC. *)
EXTENDS Transfers, TLC
=============================================================================
