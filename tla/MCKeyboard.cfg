CONSTANTS
    Entries = {1, 2, 3}
    Dirs = {1}
    Letter <- MCLetter
    Tables <- MCTables
    Habits <- MCHabits
    MaxWaiting = 2
    MaxIndex = 3
    Slots = {c1, c2}
    MaxWindows = 2
SPECIFICATION WindowsSpec
INVARIANT WindowsTypeOK
INVARIANT KeysComeBack
INVARIANT ViewShowsAsked
INVARIANT NamesOfTheirFiles
INVARIANT ParentLeftAlone
INVARIANT VisualTakesSwept
INVARIANT LetterGoesRound
INVARIANT TogglesCountOnce
SYMMETRY MCSymmetry
