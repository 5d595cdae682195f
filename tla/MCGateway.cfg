CONSTANTS
    Users = {u1, u2}
    Requests = {r1, r2}
    Pids = {p1, p2}
    Main = Main
    NoUser = NoUser
    NoPid = NoPid
    Absent = Absent
    Empty = Empty
    MaxLaunches = 2
    Overlap = FALSE
    PromptSetsid = TRUE
    BackendsMayExit = TRUE
    SupervisorMayDie = FALSE
    PidReuse = FALSE
SPECIFICATION GatewaySpec
SYMMETRY Symmetry
INVARIANT GatewayTypeOK
INVARIANT Tracked
INVARIANT GivenUpIsStopped
INVARIANT ShutdownLeavesNone
INVARIANT WaitEnds
INVARIANT ServedByOwnBackend
INVARIANT CookieStaysGood
PROPERTY ImplementsSession
CHECK_DEADLOCK FALSE
