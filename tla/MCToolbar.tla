----------------------------- MODULE MCToolbar ------------------------------
(* Toolbar, for TLC. *)
EXTENDS Toolbar, TLC

Symmetry == Permutations(Slots)

\* The bound on what is under way at once: while every request for a directory is, no
\* dialog is on display, no operation under way, and nothing selected.
OnlyLoadsRace ==
    (\A l \in Slots : loads[l] # Free) => task = NoTask /\ selected = {}

\* No step and no property of the run depends on the history variable alerted.
View == <<fs, shown, current, selected, Info, loads, task, changes, connected, told, page>>
=============================================================================
