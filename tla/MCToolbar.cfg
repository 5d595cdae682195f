CONSTANTS
    Root = 1
    Subs = {2}
    Files = {3}
    Fixed = {2}
    Slots = {l1, l2}
    Patient = FALSE
    MaxChanges = 0
SPECIFICATION ToolbarSpec
SYMMETRY Symmetry
CONSTRAINT OnlyLoadsRace
VIEW View
INVARIANT PanelTypeOK
INVARIANT PageFollows
INVARIANT ActsOnWhatWasSeen
CHECK_DEADLOCK FALSE
