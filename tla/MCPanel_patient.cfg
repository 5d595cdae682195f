CONSTANTS
    Root = 1
    Subs = {2, 3}
    Files = {4, 5}
    Fixed = {2}
    Slots = {l1}
    Patient = TRUE
    MaxChanges = 1
SPECIFICATION Spec
INVARIANT InfoMatchesPanel
INVARIANT OwnChangesShown
INVARIANT ReplacesOnlyAgreed
PROPERTY CursorKept
CHECK_DEADLOCK FALSE
