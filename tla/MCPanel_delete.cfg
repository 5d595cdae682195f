CONSTANTS
    Root = 1
    Subs = {2}
    Files = {3, 4}
    Fixed = {2}
    Slots = {l1}
    Patient = FALSE
    MaxChanges = 0
SPECIFICATION Spec
SYMMETRY Symmetry
INVARIANT DeletesWhatWasPrompted
CHECK_DEADLOCK FALSE
