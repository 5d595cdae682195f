CONSTANTS
    Users = {u1}
    Requests = {r1, r2}
    Pids = {p1, p2}
    Main = Main
    NoUser = NoUser
    NoPid = NoPid
    Absent = Absent
    Empty = Empty
    MaxLaunches = 2
    Overlap = TRUE
    PromptSetsid = FALSE
    BackendsMayExit = TRUE
    SupervisorMayDie = TRUE
    PidReuse = TRUE
SPECIFICATION FairSpec
PROPERTY EveryRequestAnswered
CONSTRAINT Serving
CHECK_DEADLOCK FALSE
