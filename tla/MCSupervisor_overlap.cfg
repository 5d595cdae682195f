CONSTANTS
    Users = {u1}
    Requests = {r1, r2}
    Pids = {p1, p2}
    Main = Main
    NoUser = NoUser
    NoPid = NoPid
    Absent = Absent
    Empty = Empty
    MaxLaunches = 2
    Overlap = TRUE
    PromptSetsid = TRUE
    BackendsMayExit = TRUE
    SupervisorMayDie = FALSE
    PidReuse = FALSE
SPECIFICATION Spec
SYMMETRY Symmetry
INVARIANT OneBackend
CHECK_DEADLOCK FALSE
