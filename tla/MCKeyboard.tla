---------------------------- MODULE MCKeyboard ------------------------------
(* Keyboard and Windows, for TLC. *)
EXTENDS Windows, TLC

MCLetter == 1 :> "a" @@ 2 :> "b" @@ 3 :> "a"
MCSymmetry == Permutations(Slots)
MCTables == {{Up, 1, 2, 3}, {1, 3}, {Up}}
MCHabits == {
    {"d", "2", "g", "j", "k", "G", "^", "v", "y", "Escape", "x"},
    {"d", "j", "v", "y", "Down", "Space", "Escape"},
    {"/", "n", "N", "Down", "p", "Enter", "Escape"},
    {"a", "b", "Up", "Home", "End", "PageUp", "PageDown", "Escape"}, {"a", "b", "Click"},
    {"Space", "Insert", "ShiftUp", "*", "Ctrl+A", "+", "-", "Click", "Ctrl+Click",
     "Shift+Click"},
    {"F1", "F3"}, {"F3", "Down"}, {"F4", "Ctrl+M"}, {"Ctrl+M", "Insert"},
    {"F9", "View"}, {"F9", "Insert", "Download"}, {"F2", "F9", "Edit", "Upload"}}
=============================================================================
