----------------------------- MODULE Supervisor -----------------------------
(***************************************************************************)
(* The File Manager API: a multi-threaded Sinatra application that starts, *)
(* reuses and stops one cloudcmd backend per user (src/api/app.rb,         *)
(* src/api/app/cloudcmd.rb, src/api/config.ru).  All the API remembers of  *)
(* a backend is in four files below data_dir/<user>; the in-memory table   *)
(* `instances' is only used when the API exits.                            *)
(*                                                                         *)
(* A request is a thread whose steps are separated where the code makes a  *)
(* system call another thread or the backend can interleave with.  The     *)
(* exit hook of config.ru is the thread Main.  A pid stands for the        *)
(* process, for its process group and for the port it listens on.          *)
(***************************************************************************)
EXTENDS Integers, FiniteSets

CONSTANTS
    Users, Requests, Pids,
    Main,                   \* the thread that runs the at_exit hooks
    NoUser, NoPid,
    Absent, Empty,          \* a port file that is missing, or has no content
    MaxLaunches,            \* bound on the passwords issued, hence on forks
    Overlap,                \* may one user have two requests in flight?
    PromptSetsid,           \* is setsid always reached before launch_timeout?
    BackendsMayExit,        \* may a backend exit on its own?
    SupervisorMayDie,       \* may the API be killed and started again?
    PidReuse                \* may the kernel hand out a reaped pid again?

Threads    == Requests \cup {Main}
NoPassword == 0
Passwords  == Nat \ {NoPassword}

ASSUME ConstantsAssumption ==
    /\ MaxLaunches \in Nat
    /\ IsFiniteSet(Requests)
    /\ Main \notin Requests
    /\ NoUser \notin Users
    /\ {NoPid, Absent, Empty} \cap Pids = {}
    /\ Absent # Empty
    /\ {Overlap, PromptSetsid, BackendsMayExit, SupervisorMayDie, PidReuse}
         \subseteq BOOLEAN

VARIABLES
    dataDir,                \* the users that have a data directory
    pidFile, portFile, pwFile,
    instances,              \* the users in CloudCmd.instances
    issued,                 \* how many passwords were generated
    phase, owner, own,      \* of a process: life cycle, user, password it read
    group,                  \* the processes that lead a process group
    children,               \* the processes waitpid of this API knows
    signalled,              \* the processes with a pending TERM or KILL
    pc, who, child, answer, \* of a thread: step, user, forked pid, response
    sup,                    \* up, exiting (the at_exit hooks run) or down
    pass, victims, todo     \* of the hook: its signal, the sessions it selected
                            \* and those it has yet to signal or to wait for

files   == <<dataDir, pidFile, portFile, pwFile>>
table   == <<phase, group, children>>
procs   == <<phase, owner, own, group, children, signalled>>
memory  == <<instances, issued>>
hook    == <<sup, pass, victims, todo>>
vars    == <<files, memory, procs, pc, who, child, answer, hook>>

Starting == {"forked", "touched"}                 \* not yet past setsid
Started  == {"session", "ready", "serving", "portless"}
Phases   == {"none", "zombie", "gone"} \cup Starting \cup Started

Alive(p)  == phase[p] \in Starting \cup Started
Free      == {p \in Pids : phase[p] = "none" \/ (PidReuse /\ phase[p] = "gone")}
Pending   == [status |-> 0, cookie |-> "keep", password |-> NoPassword]

Init ==
    /\ dataDir = {}
    /\ pidFile = [u \in Users |-> NoPid]
    /\ portFile = [u \in Users |-> Absent]
    /\ pwFile = [u \in Users |-> NoPassword]
    /\ instances = {}
    /\ issued = 0
    /\ phase = [p \in Pids |-> "none"]
    /\ owner = [p \in Pids |-> NoUser]
    /\ own = [p \in Pids |-> NoPassword]
    /\ group = {}
    /\ children = {}
    /\ signalled = {}
    /\ pc = [t \in Threads |-> "idle"]
    /\ who = [t \in Threads |-> NoUser]
    /\ child = [t \in Threads |-> NoPid]
    /\ answer = [t \in Threads |-> Pending]
    /\ sup = "up"
    /\ pass = "TERM"
    /\ victims = {}
    /\ todo = {}

-----------------------------------------------------------------------------
(* System calls and responses. *)

\* waitpid(p, WNOHANG): reaps p if it is a zombie child, else does nothing.
WaitPid(p) ==
    LET dead == {q \in children : q = p /\ phase[q] = "zombie"}
    IN  /\ phase' = [q \in Pids |-> IF q \in dead THEN "gone" ELSE phase[q]]
        /\ children' = children \ dead
        /\ group' = group \ dead
        /\ UNCHANGED <<owner, own, signalled>>

\* Mutant of Running: what waitpid returns, nil for a live child.
RunningIsWaitpid(u) == pidFile[u] \in children /\ phase[pidFile[u]] = "zombie"

\* What CloudCmd#running? returns: waitpid raises ECHILD for what is no child
\* any more.  It is true of the very call that reaps the process.
Running(u) == pidFile[u] \in children

\* Mutant of PortReady: an empty port file will do.
PortFileExists(u) == portFile[u] # Absent

PortReady(u) == portFile[u] \in Pids

\* Mutant of Signal: kill(0, pid).
Probe(p) == UNCHANGED signalled

\* Process.kill(-sig, pid): nobody gets it unless p leads a process group.
Signal(p) == signalled' = signalled \cup {q \in group : q = p /\ Alive(q)}

Goto(t, l) ==
    pc' = [pc EXCEPT ![t] = l] /\ UNCHANGED <<who, child, answer, hook>>

Answer(t, status, cookie, password) ==
    /\ pc' = [pc EXCEPT ![t] = "answered"]
    /\ answer' = [answer EXCEPT ![t] = [status |-> status, cookie |-> cookie,
                                        password |-> password]]
    /\ UNCHANGED <<who, child, hook>>

\* Mutant of Fail.
FailUnprocessable(t) == Answer(t, 422, "keep", NoPassword)

\* An exception no handler expects, or a launch that failed.
Fail(t) == Answer(t, 500, "keep", NoPassword)

-----------------------------------------------------------------------------
(* POST /cloudcmd *)

\* POSTs that may yet take a password: they count against MaxLaunches.
Undecided == {t \in Requests :
                pc[t] \in {"broken", "port", "running", "prepare", "password"}}

Arrives(t, u, l) ==
    /\ sup = "up" /\ pc[t] = "idle"
    /\ Overlap \/ u \notin {who[s] : s \in Requests}
    /\ pc' = [pc EXCEPT ![t] = l]
    /\ who' = [who EXCEPT ![t] = u]
    /\ UNCHANGED <<child, answer, files, memory, procs, hook>>

PostArrives(t, u) ==
    /\ issued + Cardinality(Undecided) < MaxLaunches
    /\ Arrives(t, u, "broken")

\* broken? is running? && port.nil?; first its running?.
Broken(t) ==
    /\ pc[t] = "broken"
    /\ WaitPid(pidFile[who[t]])
    /\ Goto(t, IF Running(who[t]) THEN "port" ELSE "running")
    /\ UNCHANGED <<files, memory>>

PortMissing(t) ==
    /\ pc[t] = "port"
    /\ ~PortReady(who[t])
    /\ instances' = instances \ {who[t]}
    /\ Answer(t, 500, "clear", NoPassword)
    /\ UNCHANGED <<files, issued, procs>>

PortPresent(t) ==
    /\ pc[t] = "port"
    /\ PortReady(who[t])
    /\ Goto(t, "running")
    /\ UNCHANGED <<files, memory, procs>>

FindSession(t) ==
    /\ pc[t] = "running"
    /\ WaitPid(pidFile[who[t]])
    /\ Goto(t, IF Running(who[t]) THEN "reuse" ELSE "prepare")
    /\ UNCHANGED <<files, memory>>

\* build_payload looks up the directory asked for once status and cookie are set:
\* it may be one no path leads to (a user or a loop that is not there, or a file on the
\* way), and the handler of what that raises sets another status and keeps the cookie.
Found(status) == {status, 500}

Reuse(t) ==
    /\ pc[t] = "reuse"
    /\ \E status \in Found(200) : Answer(t, status, "set", pwFile[who[t]])
    /\ UNCHANGED <<files, memory, procs>>

\* Until the new password is written and given to the user, the backend can
\* read no password: the file is missing, empty or not its user's.
Prepare(t) ==
    /\ pc[t] = "prepare"
    /\ dataDir' = dataDir \cup {who[t]}
    /\ portFile' = [portFile EXCEPT ![who[t]] = Absent]
    /\ pwFile' = [pwFile EXCEPT ![who[t]] = NoPassword]
    /\ Goto(t, "password")
    /\ UNCHANGED <<pidFile, memory, procs>>

WritePassword(t) ==
    /\ pc[t] = "password"
    /\ who[t] \in dataDir
    /\ issued' = issued + 1
    /\ pwFile' = [pwFile EXCEPT ![who[t]] = issued + 1]
    /\ Goto(t, "fork")
    /\ UNCHANGED <<dataDir, pidFile, portFile, instances, procs>>

\* A DELETE removed the directory meanwhile: File.open raises ENOENT.
DirectoryLost(t) ==
    /\ pc[t] = "password"
    /\ who[t] \notin dataDir
    /\ Fail(t)
    /\ UNCHANGED <<files, memory, procs>>

Fork(t) ==
    /\ pc[t] = "fork"
    /\ \E p \in Free :
         /\ phase' = [phase EXCEPT ![p] = "forked"]
         /\ owner' = [owner EXCEPT ![p] = who[t]]
         /\ own' = [own EXCEPT ![p] = NoPassword]
         /\ children' = children \cup {p}
         /\ child' = [child EXCEPT ![t] = p]
    /\ pc' = [pc EXCEPT ![t] = "writepid"]
    /\ UNCHANGED <<files, memory, group, signalled, who, answer, hook>>

WritePid(t) ==
    /\ pc[t] = "writepid"
    /\ dataDir' = dataDir \cup {who[t]}
    /\ pidFile' = [pidFile EXCEPT ![who[t]] = child[t]]
    /\ child' = [child EXCEPT ![t] = NoPid]
    /\ pc' = [pc EXCEPT ![t] = "reap"]
    /\ UNCHANGED <<portFile, pwFile, memory, procs, who, answer, hook>>

\* wait2 of the pid in the pid FILE: TypeError if the file is gone, ECHILD if
\* another thread reaped the process; neither is rescued.
ReapChild(t) ==
    LET p == pidFile[who[t]] IN
    /\ pc[t] = "reap"
    /\ WaitPid(p)
    /\ \/ p \notin children /\ Fail(t)
       \/ p \in children /\ phase[p] = "zombie" /\ Goto(t, "launched")
       \/ p \in children /\ phase[p] # "zombie" /\ Goto(t, "poll")
    /\ UNCHANGED <<files, memory>>

PollPort(t) ==
    /\ pc[t] = "poll"
    /\ Goto(t, IF PortReady(who[t]) THEN "launched" ELSE "sleep")
    /\ UNCHANGED <<files, memory, procs>>

WakeInTime(t) ==
    /\ pc[t] = "sleep"
    /\ Goto(t, "reap")
    /\ UNCHANGED <<files, memory, procs>>

\* Process.kill(-TERM, pid) is not rescued here: ESRCH before setsid and after
\* the process was reaped, TypeError without a pid file.
Overdue(t) ==
    LET p == pidFile[who[t]] IN
    /\ pc[t] = "sleep"
    /\ PromptSetsid => p \notin {q \in Pids : phase[q] \in Starting}
    /\ Signal(p)
    /\ IF p \in group THEN Goto(t, "reap") ELSE Fail(t)
    /\ UNCHANGED <<files, memory, phase, owner, own, group, children>>

Launched(t) ==
    /\ pc[t] = "launched"
    /\ WaitPid(pidFile[who[t]])
    /\ IF Running(who[t])
         THEN instances' = instances \cup {who[t]} /\ Goto(t, "created")
         ELSE UNCHANGED instances /\ Fail(t)
    /\ UNCHANGED <<files, issued>>

Created(t) ==
    /\ pc[t] = "created"
    /\ \E status \in Found(201) : Answer(t, status, "set", pwFile[who[t]])
    /\ UNCHANGED <<files, memory, procs>>

-----------------------------------------------------------------------------
(* DELETE /cloudcmd, and CloudCmd#kill, which the exit hook calls too *)

DeleteArrives(t, u) == Arrives(t, u, "delete")

DeleteFinds(t) ==
    /\ pc[t] = "delete"
    /\ WaitPid(pidFile[who[t]])
    /\ IF Running(who[t]) THEN Goto(t, "kill")
                          ELSE Answer(t, 204, "keep", NoPassword)
    /\ UNCHANGED <<files, memory>>

\* ESRCH is swallowed; without a pid file the call raises TypeError, which ends
\* a request with 500 and the exit hook's pass at once.
Kill(t) ==
    LET p == pidFile[who[t]] IN
    /\ pc[t] = "kill"
    /\ Signal(p)
    /\ \/ p # NoPid /\ Goto(t, "check")
       \/ p = NoPid /\ t # Main /\ Fail(t)
       \/ p = NoPid /\ t = Main /\ Goto(t, "passed")
    /\ UNCHANGED <<files, memory, phase, owner, own, group, children>>

AfterKill(t) == IF t = Main THEN "next" ELSE "forget"

\* cleanup unless running?
CheckKilled(t) ==
    /\ pc[t] = "check"
    /\ WaitPid(pidFile[who[t]])
    /\ Goto(t, IF Running(who[t]) THEN AfterKill(t) ELSE "cleanup")
    /\ UNCHANGED <<files, memory>>

Cleanup(t) ==
    /\ pc[t] = "cleanup"
    /\ dataDir' = dataDir \ {who[t]}
    /\ pidFile' = [pidFile EXCEPT ![who[t]] = NoPid]
    /\ portFile' = [portFile EXCEPT ![who[t]] = Absent]
    /\ pwFile' = [pwFile EXCEPT ![who[t]] = NoPassword]
    /\ Goto(t, AfterKill(t))
    /\ UNCHANGED <<memory, procs>>

Forget(t) ==
    /\ pc[t] = "forget"
    /\ instances' = instances \ {who[t]}
    /\ Goto(t, "final")
    /\ UNCHANGED <<files, issued, procs>>

DeleteAnswers(t) ==
    /\ pc[t] = "final"
    /\ WaitPid(pidFile[who[t]])
    /\ Answer(t, IF Running(who[t]) THEN 202 ELSE 204, "clear", NoPassword)
    /\ UNCHANGED <<files, memory>>

\* The browser has the response: the thread is free again.
Receive(t) ==
    /\ pc[t] = "answered"
    /\ pc' = [pc EXCEPT ![t] = "idle"]
    /\ who' = [who EXCEPT ![t] = NoUser]
    /\ answer' = [answer EXCEPT ![t] = Pending]
    /\ UNCHANGED <<child, files, memory, procs, hook>>

-----------------------------------------------------------------------------
(* The backend: the forked child of the API up to exec, then cloudcmd. *)

\* The process is a zombie until the API that forked it waits for it; init
\* reaps it at once when that API is gone.
Dies(p) ==
    /\ phase' = [phase EXCEPT ![p] = IF p \in children THEN "zombie" ELSE "gone"]
    /\ group' = IF p \in children THEN group ELSE group \ {p}
    /\ signalled' = signalled \ {p}
    /\ UNCHANGED <<owner, own, children>>

others == <<memory, pc, who, child, answer, hook>>

\* Still root: an empty port file the backend will be allowed to write.
ChildTouchesPort(p) ==
    /\ phase[p] = "forked"
    /\ IF owner[p] \in dataDir
         THEN /\ portFile' = [portFile EXCEPT ![owner[p]] = Empty]
              /\ phase' = [phase EXCEPT ![p] = "touched"]
              /\ UNCHANGED <<owner, own, group, children, signalled>>
         ELSE Dies(p) /\ UNCHANGED portFile
    /\ UNCHANGED <<dataDir, pidFile, pwFile, others>>

ChildLeadsGroup(p) ==
    /\ phase[p] = "touched"
    /\ phase' = [phase EXCEPT ![p] = "session"]
    /\ group' = group \cup {p}
    /\ UNCHANGED <<files, owner, own, children, signalled, others>>

BackendReadsPassword(p) ==
    /\ phase[p] = "session"
    /\ IF pwFile[owner[p]] # NoPassword
         THEN /\ own' = [own EXCEPT ![p] = pwFile[owner[p]]]
              /\ phase' = [phase EXCEPT ![p] = "ready"]
              /\ UNCHANGED <<owner, group, children, signalled>>
         ELSE Dies(p)
    /\ UNCHANGED <<files, others>>

\* The backend listens; it cannot create the port file in a directory of root's
\* and only logs that writing failed.
BackendWritesPort(p) ==
    LET u == owner[p] IN
    /\ phase[p] = "ready"
    /\ IF portFile[u] # Absent
         THEN /\ portFile' = [portFile EXCEPT ![u] = p]
              /\ phase' = [phase EXCEPT ![p] = "serving"]
         ELSE /\ phase' = [phase EXCEPT ![p] = "portless"]
              /\ UNCHANGED portFile
    /\ UNCHANGED <<dataDir, pidFile, pwFile, owner, own, group, children,
                   signalled, others>>

\* No code of the backend handles TERM, and nothing can handle KILL.
SignalDelivered(p) ==
    /\ p \in signalled /\ Alive(p)
    /\ Dies(p)
    /\ UNCHANGED <<files, others>>

BackendExits(p) ==
    /\ BackendsMayExit
    /\ phase[p] \in Started
    /\ Dies(p)
    /\ UNCHANGED <<files, others>>

-----------------------------------------------------------------------------
(* The end of the API: kill_instances('TERM'), then kill_instances('KILL') *)

hookUnchanged == <<who, child, answer, sup, pass, victims>>

\* Puma lets the requests it has accepted finish before it exits.
ShutdownBegins ==
    /\ sup = "up"
    /\ \A t \in Requests : pc[t] \in {"idle", "answered"}
    /\ sup' = "exiting"
    /\ pc' = [pc EXCEPT ![Main] = "select"]
    /\ UNCHANGED <<files, memory, procs, who, child, answer, pass, victims, todo>>

\* instances.values.select(&:running?)
Select ==
    LET dead == {p \in children : /\ phase[p] = "zombie"
                                  /\ \E u \in instances : pidFile[u] = p}
    IN  /\ pc[Main] = "select"
        /\ victims' = {u \in instances : Running(u)}
        /\ todo' = victims'
        /\ phase' = [p \in Pids |-> IF p \in dead THEN "gone" ELSE phase[p]]
        /\ children' = children \ dead
        /\ group' = group \ dead
        /\ pc' = [pc EXCEPT ![Main] = "next"]
        /\ UNCHANGED <<files, memory, owner, own, signalled, who, child, answer,
                       sup, pass>>

KillNext ==
    /\ pc[Main] = "next"
    /\ \E u \in todo : /\ who' = [who EXCEPT ![Main] = u]
                       /\ todo' = todo \ {u}
    /\ pc' = [pc EXCEPT ![Main] = "kill"]
    /\ UNCHANGED <<files, memory, procs, child, answer, sup, pass, victims>>

AllSignalled ==
    /\ pc[Main] = "next" /\ todo = {}
    /\ todo' = victims
    /\ pc' = [pc EXCEPT ![Main] = "wait"]
    /\ UNCHANGED <<files, memory, procs, hookUnchanged>>

WaitNext ==
    /\ pc[Main] = "wait"
    /\ \E u \in todo : /\ who' = [who EXCEPT ![Main] = u]
                       /\ todo' = todo \ {u}
    /\ pc' = [pc EXCEPT ![Main] = "waiting"]
    /\ UNCHANGED <<files, memory, procs, child, answer, sup, pass, victims>>

\* Process.wait blocks until the process is dead.  ECHILD is rescued, the
\* TypeError of a pid file that cleanup removed is not: it ends the pass.
WaitForVictim ==
    LET p == pidFile[who[Main]] IN
    /\ pc[Main] = "waiting"
    /\ p \in children => phase[p] = "zombie"
    /\ WaitPid(p)
    /\ Goto(Main, IF p = NoPid THEN "passed" ELSE "wait")
    /\ UNCHANGED <<files, memory>>

AllWaitedFor ==
    /\ pc[Main] = "wait" /\ todo = {}
    /\ Goto(Main, "passed")
    /\ UNCHANGED <<files, memory, procs>>

PassEnds ==
    /\ pc[Main] = "passed"
    /\ who' = [who EXCEPT ![Main] = NoUser]
    /\ victims' = {} /\ todo' = {}
    /\ IF pass = "TERM"
         THEN /\ pass' = "KILL" /\ UNCHANGED sup
              /\ pc' = [pc EXCEPT ![Main] = "select"]
         ELSE /\ sup' = "down" /\ UNCHANGED pass
              /\ pc' = [pc EXCEPT ![Main] = "idle"]
    /\ UNCHANGED <<files, memory, procs, child, answer>>

\* The API is killed (its README has the OOM killer do it) and started again:
\* setsid let the backends survive, but they are no children of the new API.
SupervisorDies ==
    LET dead == {p \in children : phase[p] = "zombie"} IN
    /\ SupervisorMayDie /\ sup = "up"
    /\ instances' = {}
    /\ phase' = [p \in Pids |-> IF p \in dead THEN "gone" ELSE phase[p]]
    /\ children' = {}
    /\ group' = group \ dead
    /\ pc' = [t \in Threads |-> "idle"]
    /\ who' = [t \in Threads |-> NoUser]
    /\ child' = [t \in Threads |-> NoPid]
    /\ answer' = [t \in Threads |-> Pending]
    /\ UNCHANGED <<files, issued, owner, own, signalled, hook>>

-----------------------------------------------------------------------------
Post(t) ==
    \/ Broken(t) \/ PortMissing(t) \/ PortPresent(t) \/ FindSession(t)
    \/ Reuse(t) \/ Prepare(t) \/ WritePassword(t) \/ DirectoryLost(t)
    \/ Fork(t) \/ WritePid(t) \/ ReapChild(t) \/ PollPort(t)
    \/ WakeInTime(t) \/ Overdue(t) \/ Launched(t) \/ Created(t)

KillSession(t) == Kill(t) \/ CheckKilled(t) \/ Cleanup(t)

Delete(t) == DeleteFinds(t) \/ KillSession(t) \/ Forget(t) \/ DeleteAnswers(t)

Shutdown ==
    \/ Select \/ KillNext \/ AllSignalled \/ KillSession(Main)
    \/ WaitNext \/ WaitForVictim \/ AllWaitedFor \/ PassEnds

StartUp(p) ==
    \/ ChildTouchesPort(p) \/ ChildLeadsGroup(p)
    \/ BackendReadsPassword(p) \/ BackendWritesPort(p)

Next ==
    \/ \E t \in Requests :
         \/ \E u \in Users : PostArrives(t, u) \/ DeleteArrives(t, u)
         \/ Post(t) \/ Delete(t) \/ Receive(t)
    \/ \E p \in Pids : StartUp(p) \/ SignalDelivered(p) \/ BackendExits(p)
    \/ ShutdownBegins \/ Shutdown \/ SupervisorDies

Spec == Init /\ [][Next]_vars

\* The scheduler runs every thread, a signal is delivered, and time passes: a
\* thread that sleeps between two looks at the port file again and again is
\* overdue some day.  Nobody has to call the API, nor to shut it down, and a
\* backend may take for ever to start.
Fairness ==
    /\ \A t \in Requests :
         WF_vars(Post(t) \/ Delete(t) \/ Receive(t)) /\ SF_vars(Overdue(t))
    /\ \A p \in Pids : WF_vars(SignalDelivered(p))
    /\ WF_vars(Shutdown)

FairSpec == Spec /\ Fairness

-----------------------------------------------------------------------------
RequestLabels ==
    {"idle", "broken", "port", "running", "reuse", "prepare", "password", "fork",
     "writepid", "reap", "poll", "sleep", "launched", "created", "delete", "kill",
     "check", "cleanup", "forget", "final", "answered"}
HookLabels == {"idle", "select", "next", "kill", "check", "cleanup", "wait",
               "waiting", "passed"}

Answers == [status : {0, 200, 201, 202, 204, 500},
            cookie : {"keep", "set", "clear"}, password : Nat]

\* A process leads its group from setsid until it is reaped, a child of the API
\* is alive or a zombie, a signal is pending for live ones, and only Main runs the hook.
TypeOK ==
    /\ dataDir \subseteq Users /\ instances \subseteq Users
    /\ pidFile \in [Users -> Pids \cup {NoPid}]
    /\ portFile \in [Users -> Pids \cup {Absent, Empty}]
    /\ pwFile \in [Users -> Nat] /\ issued \in Nat
    /\ phase \in [Pids -> Phases]
    /\ owner \in [Pids -> Users \cup {NoUser}]
    /\ own \in [Pids -> Nat]
    /\ group \subseteq {p \in Pids : phase[p] \in Started \cup {"zombie"}}
    /\ children \subseteq {p \in Pids : Alive(p) \/ phase[p] = "zombie"}
    /\ signalled \subseteq {p \in Pids : Alive(p)}
    /\ pc \in [Threads -> RequestLabels \cup HookLabels]
    /\ \A t \in Requests : pc[t] \in RequestLabels
    /\ pc[Main] \in HookLabels
    /\ who \in [Threads -> Users \cup {NoUser}]
    /\ child \in [Threads -> Pids \cup {NoPid}]
    /\ answer \in [Threads -> Answers]
    /\ sup \in {"up", "exiting", "down"} /\ pass \in {"TERM", "KILL"}
    /\ victims \subseteq Users /\ todo \subseteq victims

Stage(p) ==
    IF phase[p] = "none" THEN "unused"
    ELSE IF ~Alive(p) THEN "ended"
    ELSE IF p \in signalled THEN "ending"
    ELSE IF phase[p] \in {"serving", "portless"} THEN "serving"
    ELSE "starting"

Sessions == INSTANCE Session WITH stage <- [p \in Pids |-> Stage(p)], user <- owner

\* However the steps of requests, children and the exit hook interleave, together
\* they are sessions, one of a user at a time, none of which comes back once it was
\* told to end: backend-proxy/README.md:3, "For each user ... the API server launches
\* a cloudcmd process".
ImplementsSession == Sessions!Spec

\* A user never has two live backends: backend-proxy/README.md:3, "For each user
\* ... the API server launches a cloudcmd process".
OneBackend ==
    \A p, q \in Pids : Alive(p) /\ Alive(q) /\ owner[p] = owner[q] => p = q

\* No backend is lost: each live one is named by its user's pid file, which is
\* all DELETE and the exit hook find it by, or is about to be.
Tracked ==
    \A p \in Pids : Alive(p) => \/ pidFile[owner[p]] = p
                                \/ \E t \in Requests : child[t] = p

\* What was given up is stopped.  etc/file-manager-api.yaml:44: "The process will be
\* terminated if it does not return its port within this period", which POST answers
\* with 500; docs/routes.md:54: the session of a DELETE's 202 "SHOULD exit after the
\* response has been issued".  After either every live backend of the user has a
\* signal on its way, or the answer, whatever it says of the directory asked for, has
\* the cookie that opens it.
GivenUpIsStopped ==
    \A t \in Requests : answer[t].status \in {202, 500} =>
        \A p \in Pids : Alive(p) /\ owner[p] = who[t] =>
            \/ p \in signalled
            \/ answer[t].cookie = "set" /\ answer[t].password = own[p]

\* config.ru:47-50: when the API is gone, every backend it had was signalled.
ShutdownLeavesNone ==
    sup = "down" => \A p \in Pids : Alive(p) => p \in signalled

\* wait_for_port_to_be_written ends: every request is answered.
EveryRequestAnswered ==
    \A t \in Requests : pc[t] # "idle" ~> pc[t] = "idle"

\* Process.wait has no timeout: the exit hook waits only for a child that is dead
\* or was sent the signal it dies of, though backends end, are relaunched and are
\* reaped while it goes over the sessions twice.
WaitEnds ==
    LET p == pidFile[who[Main]] IN
    pc[Main] = "waiting" /\ p \in children /\ Alive(p) => p \in signalled
=============================================================================
