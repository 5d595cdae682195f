CONSTANTS
    Files = {f1, f2}
    Shows = {s1, s2}
    None = None
    MaxVersions = 3
SPECIFICATION Spec
SYMMETRY Symmetry
INVARIANT OpensFresh
INVARIANT SavesOwnFile
INVARIANT EditsKept
CHECK_DEADLOCK FALSE
