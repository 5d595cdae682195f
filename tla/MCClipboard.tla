---------------------------- MODULE MCClipboard -----------------------------
(* Clipboard, for TLC. *)
EXTENDS Clipboard, TLC

Symmetry == Permutations(Windows) \cup Permutations(Dirs)
=============================================================================
