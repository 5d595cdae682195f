--------------------------- MODULE Gateway_proofs ---------------------------
(***************************************************************************)
(* Proofs about Supervisor and about Gateway, which composes with it, for  *)
(* any users, requests and pids.  TypeInv is inductive whatever the        *)
(* toggles say.  SessionInv needs the requests of a user not to overlap    *)
(* (the run overlap shows why), the API not to die and pids not to be      *)
(* reused.  As the API's steps are then steps of sessions (Implementation),*)
(* a process keeps its owner once it is started, which Gateway rests on.   *)
(* StopInv adds what the stop of a session and the shutdown hook know: a   *)
(* port file is that of the latest process, and whatever was given up or   *)
(* passed by the hook was signalled.  CookieInv ties the password in a jar *)
(* to the password file as long as the process it was made for lives, and  *)
(* PortInv the port of a backend to the one that listens on it.            *)
(***************************************************************************)
EXTENDS Gateway, TLAPS


\* A thread that is not idle serves a user; so does the hook while it handles a
\* session; and a process was forked for a user.
TypeInv ==
    /\ TypeOK
    /\ \A t \in Requests : pc[t] # "idle" => who[t] \in Users
    /\ pc[Main] \in {"kill", "check", "cleanup", "waiting"} => who[Main] \in Users
    /\ \A p \in Pids : phase[p] # "none" => owner[p] \in Users

-----------------------------------------------------------------------------
\* Nobody has asked for anything, and there are no processes.
LEMMA InitTypeInv == Init => TypeInv
  BY ConstantsAssumption
     DEF Init, TypeInv, TypeOK, Threads, Pending, NoPassword, Phases, RequestLabels,
         HookLabels, Answers

\* waitpid keeps the process table well formed and takes nothing else away.
LEMMA WaitPidType ==
  ASSUME TypeInv, NEW q, WaitPid(q)
  PROVE  /\ phase' \in [Pids -> Phases]
         /\ owner' = owner /\ own' = own /\ signalled' = signalled
         /\ signalled' \subseteq {p \in Pids : Alive(p)'}
         /\ group' \subseteq {p \in Pids : phase'[p] \in Started \cup {"zombie"}}
         /\ children' \subseteq {p \in Pids : Alive(p)' \/ phase'[p] = "zombie"}
         /\ \A p \in Pids : phase'[p] # "none" => phase[p] # "none"
  BY DEF TypeInv, TypeOK, WaitPid, Phases, Alive, Starting, Started

\* A process that dies keeps the process table well formed.
LEMMA DiesType ==
  ASSUME TypeInv, NEW q \in Pids, Dies(q), phase[q] # "none"
  PROVE  /\ phase' \in [Pids -> Phases]
         /\ owner' = owner /\ own' = own
         /\ signalled' \subseteq {p \in Pids : Alive(p)'}
         /\ group' \subseteq {p \in Pids : phase'[p] \in Started \cup {"zombie"}}
         /\ children' \subseteq {p \in Pids : Alive(p)' \/ phase'[p] = "zombie"}
         /\ \A p \in Pids : phase'[p] # "none" => phase[p] # "none"
  BY DEF TypeInv, TypeOK, Dies, Phases, Alive, Starting, Started

-----------------------------------------------------------------------------
(* Each action preserves TypeInv; the actions are grouped as in Next. *)

\* The steps of kill, in a request's thread or in the hook's.
LEMMA KillSessionType ==
  ASSUME TypeInv, NEW t \in Threads, KillSession(t)
  PROVE  TypeInv'
<1> USE ConstantsAssumption
    DEF TypeInv, TypeOK, Threads, RequestLabels, HookLabels, Answers, Goto, Answer,
        Fail, files, memory, procs, hook, NoPassword, Alive, AfterKill
<1>1. CASE Kill(t)
  <2>1. signalled' \subseteq {p \in Pids : Alive(p)'}
    BY <1>1 DEF Kill, Signal
  <2>2. CASE pc' = [pc EXCEPT ![t] = "check"]
    BY <1>1, <2>1, <2>2 DEF Kill
  <2>3. CASE t \in Requests /\ Fail(t)
    BY <1>1, <2>1, <2>3 DEF Kill
  <2>4. CASE t = Main /\ pc' = [pc EXCEPT ![t] = "passed"]
    BY <1>1, <2>1, <2>4 DEF Kill
  <2> QED
    BY <1>1, <2>2, <2>3, <2>4 DEF Kill
<1>2. CASE CheckKilled(t)
  BY <1>2, WaitPidType DEF CheckKilled
<1>3. CASE Cleanup(t)
  BY <1>3 DEF Cleanup
<1> QED
  BY <1>1, <1>2, <1>3 DEF KillSession

\* The steps of a POST and of a DELETE.
LEMMA RequestType ==
  ASSUME TypeInv, NEW t \in Requests,
         \/ \E u \in Users : PostArrives(t, u) \/ DeleteArrives(t, u)
         \/ Post(t) \/ Delete(t) \/ Receive(t)
  PROVE  TypeInv'
<1> USE ConstantsAssumption
    DEF TypeInv, TypeOK, Threads, RequestLabels, HookLabels, Answers, Pending,
        Goto, Answer, Fail, files, memory, procs, hook, NoPassword, Alive
<1>1. CASE \E u \in Users : PostArrives(t, u) \/ DeleteArrives(t, u)
  BY <1>1 DEF PostArrives, DeleteArrives, Arrives
<1>2. CASE PortMissing(t)
  BY <1>2 DEF PortMissing
<1>3. CASE PortPresent(t)
  BY <1>3 DEF PortPresent
<1>4. CASE Reuse(t)
  BY <1>4 DEF Reuse, Found
<1>5. CASE Prepare(t)
  BY <1>5 DEF Prepare
<1>6. CASE WritePassword(t)
  BY <1>6 DEF WritePassword
<1>7. CASE DirectoryLost(t)
  BY <1>7 DEF DirectoryLost
<1>8. CASE WritePid(t)
  BY <1>8 DEF WritePid
<1>9. CASE PollPort(t)
  BY <1>9 DEF PollPort
<1>10. CASE WakeInTime(t)
  BY <1>10 DEF WakeInTime
<1>11. CASE Overdue(t)
  BY <1>11 DEF Overdue, Signal
<1>12. CASE Created(t)
  BY <1>12 DEF Created, Found
<1>13. CASE Forget(t)
  BY <1>13 DEF Forget
<1>14. CASE Receive(t)
  BY <1>14 DEF Receive
<1>15. CASE Broken(t)
  BY <1>15, WaitPidType DEF Broken
<1>16. CASE FindSession(t)
  BY <1>16, WaitPidType DEF FindSession
<1>17. CASE ReapChild(t)
  <2>1. WaitPid(pidFile[who[t]])
    BY <1>17 DEF ReapChild
  <2>2. CASE Fail(t)
    BY <1>17, <2>1, <2>2, WaitPidType DEF ReapChild
  <2>3. CASE Goto(t, "launched")
    BY <1>17, <2>1, <2>3, WaitPidType DEF ReapChild
  <2>4. CASE Goto(t, "poll")
    BY <1>17, <2>1, <2>4, WaitPidType DEF ReapChild
  <2> QED
    BY <1>17, <2>2, <2>3, <2>4 DEF ReapChild
<1>18. CASE Launched(t)
  <2>1. WaitPid(pidFile[who[t]])
    BY <1>18 DEF Launched
  <2>2. CASE Goto(t, "created")
    BY <1>18, <2>1, <2>2, WaitPidType DEF Launched
  <2>3. CASE Fail(t)
    BY <1>18, <2>1, <2>3, WaitPidType DEF Launched
  <2> QED
    BY <1>18, <2>2, <2>3 DEF Launched
<1>19. CASE DeleteFinds(t)
  BY <1>19, WaitPidType DEF DeleteFinds
<1>20. CASE DeleteAnswers(t)
  BY <1>20, WaitPidType DEF DeleteAnswers
<1>21. CASE Fork(t)
  BY <1>21 DEF Fork, Free, Phases, Starting, Started
<1>22. CASE KillSession(t)
  BY <1>22, KillSessionType DEF Threads
<1> QED
  BY <1>1, <1>2, <1>3, <1>4, <1>5, <1>6, <1>7, <1>8, <1>9, <1>10, <1>11,
     <1>12, <1>13, <1>14, <1>15, <1>16, <1>17, <1>18, <1>19, <1>20, <1>21, <1>22
     DEF Post, Delete

\* The steps of a backend: its start, its signals, its exit.
LEMMA ProcessType ==
  ASSUME TypeInv, NEW p \in Pids, StartUp(p) \/ SignalDelivered(p) \/ BackendExits(p)
  PROVE  TypeInv'
<1> USE ConstantsAssumption
    DEF TypeInv, TypeOK, Threads, Goto, files, memory, procs, hook, others, NoPassword,
        Alive, Phases, Starting, Started
<1>1. CASE ChildTouchesPort(p)
  BY <1>1, DiesType DEF ChildTouchesPort
<1>2. CASE ChildLeadsGroup(p)
  BY <1>2 DEF ChildLeadsGroup
<1>3. CASE BackendReadsPassword(p)
  BY <1>3, DiesType DEF BackendReadsPassword
<1>4. CASE BackendWritesPort(p)
  BY <1>4 DEF BackendWritesPort
<1>5. CASE SignalDelivered(p)
  BY <1>5, DiesType DEF SignalDelivered
<1>6. CASE BackendExits(p)
  BY <1>6, DiesType DEF BackendExits
<1> QED
  BY <1>1, <1>2, <1>3, <1>4, <1>5, <1>6 DEF StartUp

\* The steps of the exit hook, and the API killed.
LEMMA HookType ==
  ASSUME TypeInv, ShutdownBegins \/ Shutdown \/ SupervisorDies
  PROVE  TypeInv'
<1> USE ConstantsAssumption
    DEF TypeInv, TypeOK, Threads, RequestLabels, HookLabels, Answers, Pending, Goto,
        files, memory, procs, hook, hookUnchanged, NoPassword, Alive, Phases,
        Starting, Started
<1>1. CASE ShutdownBegins
  BY <1>1 DEF ShutdownBegins
<1>2. CASE Select
  BY <1>2 DEF Select
<1>3. CASE KillNext
  BY <1>3 DEF KillNext
<1>4. CASE AllSignalled
  BY <1>4 DEF AllSignalled
<1>5. CASE WaitNext
  BY <1>5 DEF WaitNext
<1>6. CASE WaitForVictim
  BY <1>6, WaitPidType DEF WaitForVictim
<1>7. CASE AllWaitedFor
  BY <1>7 DEF AllWaitedFor
<1>8. CASE PassEnds
  BY <1>8 DEF PassEnds
<1>9. CASE SupervisorDies
  BY <1>9 DEF SupervisorDies
<1>10. CASE KillSession(Main)
  BY <1>10, KillSessionType DEF Threads
<1> QED
  BY <1>1, <1>2, <1>3, <1>4, <1>5, <1>6, <1>7, <1>8, <1>9, <1>10 DEF Shutdown

\* TypeInv is inductive: one lemma for each group of actions.
LEMMA NextTypeInv == TypeInv /\ [Next]_vars => TypeInv'
<1> SUFFICES ASSUME TypeInv, [Next]_vars PROVE TypeInv'
  OBVIOUS
<1>1. CASE UNCHANGED vars
  BY <1>1 DEF TypeInv, TypeOK, Alive, vars, files, memory, procs, hook
<1>2. CASE Next
  BY <1>2, RequestType, ProcessType, HookType DEF Next
<1> QED
  BY <1>1, <1>2

\* In every reachable state each variable has its type and each thread that does
\* something does it for a user, whatever interleaves, dies and restarts.
THEOREM TypeCorrect == Spec => []TypeOK
<1>1. TypeInv => TypeOK
  BY DEF TypeInv
<1> QED
  BY <1>1, InitTypeInv, NextTypeInv, PTL DEF Spec

-----------------------------------------------------------------------------
(* One backend per user, when the requests of a user do not overlap. *)

Serial == ~Overlap /\ ~SupervisorMayDie /\ ~PidReuse

\* Two requests that are being served are of different users.
Exclusive ==
    \A s, t \in Requests :
        pc[s] # "idle" /\ pc[t] # "idle" /\ who[s] = who[t] => s = t

\* The exit hook has the API for itself.
HookAlone ==
    /\ sup # "up" => \A t \in Requests : pc[t] \in {"idle", "answered"}
    /\ pc[Main] # "idle" => sup = "exiting"

\* A pid file names a process that was forked for its user.
PidFileOfUser ==
    \A u \in Users : pidFile[u] # NoPid =>
        phase[pidFile[u]] # "none" /\ owner[pidFile[u]] = u

\* The pid of a fork is known to the forking thread until it is in the file.
ChildKnown ==
    \A t \in Requests :
        /\ child[t] # NoPid => pc[t] = "writepid"
        /\ pc[t] = "writepid" => /\ child[t] \in Pids
                                 /\ phase[child[t]] # "none"
                                 /\ owner[child[t]] = who[t]

\* An unreaped process is in the pid file or in the hands of its thread, and a
\* live process is unreaped.  This, not Tracked, is what running? looks at.
ChildrenTracked ==
    /\ \A p \in Pids : Alive(p) => p \in children
    /\ \A p \in children : \/ pidFile[owner[p]] = p
                            \/ \E t \in Requests : child[t] = p

\* From running? = false to the fork a launch finds no unreaped process of its
\* user, and until the pid is written only the one it forked.
LaunchAlone ==
    \A t \in Requests : \A p \in children :
        /\ pc[t] \in {"prepare", "password", "fork"} => owner[p] # who[t]
        /\ pc[t] = "writepid" /\ owner[p] = who[t] => p = child[t]

\* Only the files of a reaped process are removed.
CleanupOfReaped ==
    \A t \in Threads : pc[t] = "cleanup" => pidFile[who[t]] \notin children

SessionInv ==
    /\ TypeInv /\ Exclusive /\ HookAlone /\ PidFileOfUser /\ ChildKnown
    /\ ChildrenTracked /\ LaunchAlone /\ CleanupOfReaped

\* There are no processes to track.
LEMMA InitSessionInv == Init => SessionInv
  BY InitTypeInv, ConstantsAssumption
     DEF Init, SessionInv, Exclusive, HookAlone, PidFileOfUser, ChildKnown,
         ChildrenTracked, LaunchAlone, CleanupOfReaped, Alive, Starting, Started, Threads

\* waitpid takes no live process from the children.
LEMMA WaitPidSession ==
  ASSUME SessionInv, NEW q, WaitPid(q)
  PROVE  /\ children' \subseteq children /\ owner' = owner
         /\ \A p \in Pids : Alive(p)' => p \in children'
         /\ \A p \in Pids : phase[p] # "none" => phase'[p] # "none"
  BY DEF SessionInv, ChildrenTracked, TypeInv, TypeOK, WaitPid, Alive, Starting, Started

\* A death leaves a zombie, which is still a child.
LEMMA DiesSession ==
  ASSUME SessionInv, NEW q \in Pids, Alive(q), Dies(q)
  PROVE  /\ children' = children /\ owner' = owner
         /\ \A p \in Pids : Alive(p)' => p \in children'
         /\ \A p \in Pids : phase[p] # "none" => phase'[p] # "none"
  BY DEF SessionInv, ChildrenTracked, TypeInv, TypeOK, Dies, Alive, Starting, Started

\* kill removes the files of a process it has seen reaped.
LEMMA KillSessionSession ==
  ASSUME Serial, SessionInv, NEW t \in Threads, KillSession(t)
  PROVE  SessionInv'
<1> USE ConstantsAssumption
    DEF SessionInv, Exclusive, HookAlone, PidFileOfUser, ChildKnown, ChildrenTracked,
        LaunchAlone, CleanupOfReaped, Threads, Goto, Answer, Fail, files, memory,
        procs, hook, AfterKill, Alive
<1> TypeInv'
  BY KillSessionType
<1> USE DEF TypeInv, TypeOK
<1>1. CASE Kill(t)
  BY <1>1 DEF Kill, Signal
<1>2. CASE CheckKilled(t)
  BY <1>2, WaitPidSession DEF CheckKilled, Running
<1>3. CASE Cleanup(t)
  BY <1>3 DEF Cleanup
<1> QED
  BY <1>1, <1>2, <1>3 DEF KillSession

\* A launch forks when running? has found no child of the user's, and writes the pid of
\* the child it forked.
LEMMA RequestSession ==
  ASSUME Serial, SessionInv, NEW t \in Requests,
         \/ \E u \in Users : PostArrives(t, u) \/ DeleteArrives(t, u)
         \/ Post(t) \/ Delete(t) \/ Receive(t)
  PROVE  SessionInv'
<1> USE ConstantsAssumption
    DEF SessionInv, Exclusive, HookAlone, PidFileOfUser, ChildKnown, ChildrenTracked,
        LaunchAlone, CleanupOfReaped, Threads, Goto, Answer, Fail, files, memory,
        procs, hook, Alive
<1> TypeInv'
  BY RequestType
<1> USE DEF TypeInv, TypeOK
<1>1. CASE \E u \in Users : PostArrives(t, u) \/ DeleteArrives(t, u)
  BY <1>1 DEF PostArrives, DeleteArrives, Arrives, Serial
<1>2. CASE PortMissing(t)
  BY <1>2 DEF PortMissing
<1>3. CASE PortPresent(t)
  BY <1>3 DEF PortPresent
<1>4. CASE Reuse(t)
  BY <1>4 DEF Reuse
<1>5. CASE Prepare(t)
  BY <1>5 DEF Prepare
<1>6. CASE WritePassword(t)
  BY <1>6 DEF WritePassword
<1>7. CASE DirectoryLost(t)
  BY <1>7 DEF DirectoryLost
<1>8. CASE WritePid(t)
  BY <1>8 DEF WritePid
<1>9. CASE PollPort(t)
  BY <1>9 DEF PollPort
<1>10. CASE WakeInTime(t)
  BY <1>10 DEF WakeInTime
<1>11. CASE Overdue(t)
  BY <1>11 DEF Overdue, Signal
<1>12. CASE Created(t)
  BY <1>12 DEF Created
<1>13. CASE Forget(t)
  BY <1>13 DEF Forget
<1>14. CASE Receive(t)
  BY <1>14 DEF Receive
<1>15. CASE Broken(t)
  BY <1>15, WaitPidSession, SMTT(30) DEF Broken, Running
<1>16. CASE FindSession(t)
  BY <1>16, WaitPidSession, SMTT(30) DEF FindSession, Running
<1>17. CASE ReapChild(t)
  BY <1>17, WaitPidSession, SMTT(30) DEF ReapChild
<1>18. CASE Launched(t)
  BY <1>18, WaitPidSession, SMTT(30) DEF Launched, Running
<1>19. CASE DeleteFinds(t)
  BY <1>19, WaitPidSession, SMTT(30) DEF DeleteFinds, Running
<1>20. CASE DeleteAnswers(t)
  BY <1>20, WaitPidSession, SMTT(30) DEF DeleteAnswers, Running
<1>21. CASE Fork(t)
  BY <1>21, SMTT(30) DEF Fork, Free, Serial, Starting, Started
<1>22. CASE KillSession(t)
  BY <1>22, KillSessionSession
<1> QED
  BY <1>1, <1>2, <1>3, <1>4, <1>5, <1>6, <1>7, <1>8, <1>9, <1>10, <1>11,
     <1>12, <1>13, <1>14, <1>15, <1>16, <1>17, <1>18, <1>19, <1>20, <1>21, <1>22
     DEF Post, Delete

\* What a backend does takes nothing from the pid files.
LEMMA ProcessSession ==
  ASSUME SessionInv, NEW p \in Pids,
         StartUp(p) \/ SignalDelivered(p) \/ BackendExits(p)
  PROVE  SessionInv'
<1> USE ConstantsAssumption
    DEF SessionInv, Exclusive, HookAlone, PidFileOfUser, ChildKnown, ChildrenTracked,
        LaunchAlone, CleanupOfReaped, Threads, files, memory, hook, others, Alive,
        Starting, Started
<1> TypeInv'
  BY ProcessType
<1> USE DEF TypeInv, TypeOK
<1>1. CASE ChildTouchesPort(p)
  BY <1>1, DiesSession DEF ChildTouchesPort
<1>2. CASE ChildLeadsGroup(p)
  BY <1>2 DEF ChildLeadsGroup
<1>3. CASE BackendReadsPassword(p)
  BY <1>3, DiesSession DEF BackendReadsPassword
<1>4. CASE BackendWritesPort(p)
  BY <1>4 DEF BackendWritesPort
<1>5. CASE SignalDelivered(p)
  BY <1>5, DiesSession DEF SignalDelivered
<1>6. CASE BackendExits(p)
  BY <1>6, DiesSession DEF BackendExits
<1> QED
  BY <1>1, <1>2, <1>3, <1>4, <1>5, <1>6 DEF StartUp

\* The hook kills one session after the other.
LEMMA HookSession ==
  ASSUME Serial, SessionInv, ShutdownBegins \/ Shutdown \/ SupervisorDies
  PROVE  SessionInv'
<1> USE ConstantsAssumption
    DEF SessionInv, Exclusive, HookAlone, PidFileOfUser, ChildKnown, ChildrenTracked,
        LaunchAlone, CleanupOfReaped, Threads, Goto, files, memory, procs, hook,
        hookUnchanged, Alive
<1> TypeInv'
  BY HookType
<1> USE DEF TypeInv, TypeOK
<1>1. CASE ShutdownBegins
  BY <1>1 DEF ShutdownBegins
<1>2. CASE Select
  BY <1>2 DEF Select, Starting, Started
<1>3. CASE KillNext
  BY <1>3 DEF KillNext
<1>4. CASE AllSignalled
  BY <1>4 DEF AllSignalled
<1>5. CASE WaitNext
  BY <1>5 DEF WaitNext
<1>6. CASE WaitForVictim
  BY <1>6, WaitPidSession DEF WaitForVictim
<1>7. CASE AllWaitedFor
  BY <1>7 DEF AllWaitedFor
<1>8. CASE PassEnds
  BY <1>8 DEF PassEnds
<1>9. CASE KillSession(Main)
  BY <1>9, KillSessionSession
<1>10. CASE SupervisorDies
  BY <1>10 DEF SupervisorDies, Serial
<1> QED
  BY <1>1, <1>2, <1>3, <1>4, <1>5, <1>6, <1>7, <1>8, <1>9, <1>10 DEF Shutdown

\* SessionInv is inductive while one user's requests take turns.
LEMMA NextSessionInv == Serial /\ SessionInv /\ [Next]_vars => SessionInv'
<1> SUFFICES ASSUME Serial, SessionInv, [Next]_vars PROVE SessionInv'
  OBVIOUS
<1>1. CASE UNCHANGED vars
  BY <1>1 DEF SessionInv, TypeInv, TypeOK, Exclusive, HookAlone, PidFileOfUser,
              ChildKnown, ChildrenTracked, LaunchAlone, CleanupOfReaped, Alive, vars,
              files, memory, procs, hook
<1>2. CASE Next
  BY <1>2, RequestSession, ProcessSession, HookSession DEF Next
<1> QED
  BY <1>1, <1>2

\* Two live backends of a user would both be in its pid file or with its thread.
LEMMA SessionInvImplies == SessionInv => OneBackend /\ Tracked
<1> SUFFICES ASSUME SessionInv PROVE OneBackend /\ Tracked
  OBVIOUS
<1>1. Tracked
  BY DEF SessionInv, ChildrenTracked, Tracked
<1>2. ASSUME NEW p \in Pids, NEW q \in Pids, Alive(p), Alive(q), owner[p] = owner[q]
      PROVE  p = q
  <2>1. p \in children /\ q \in children
    BY <1>2 DEF SessionInv, ChildrenTracked
  <2>2. ASSUME NEW t \in Requests, NEW r \in Pids, child[t] = r,
               NEW o \in children, owner[o] = owner[r]
        PROVE  o = r
    BY <2>2, ConstantsAssumption DEF SessionInv, ChildKnown, LaunchAlone
  <2>3. CASE \E t \in Requests : child[t] = p
    BY <1>2, <2>1, <2>2, <2>3
  <2>4. CASE \E t \in Requests : child[t] = q
    BY <1>2, <2>1, <2>2, <2>4
  <2> QED
    BY <1>2, <2>1, <2>3, <2>4 DEF SessionInv, ChildrenTracked
<1> QED
  BY <1>1, <1>2 DEF OneBackend

\* A user whose requests do not overlap never has two live backends, and every
\* live backend is one that DELETE and the exit hook can find.
THEOREM OneTrackedBackend ==
  ASSUME Serial
  PROVE  Spec => [](OneBackend /\ Tracked)
<1>1. SessionInv /\ [Next]_vars => SessionInv'
  BY NextSessionInv
<1> QED
  BY <1>1, InitSessionInv, SessionInvImplies, PTL DEF Spec

-----------------------------------------------------------------------------
(* Supervisor implements Session: each step moves one session or none. *)

StageNow == [p \in Pids |-> Stage(p)]

SessionStep == [Sessions!Next]_<<StageNow, owner>>

\* No session has begun.
LEMMA InitImplements == Init => Sessions!Init
  BY DEF Init, Sessions!Init, Stage

\* A step that leaves every session in its stage stutters.
LEMMA Stutters ==
  ASSUME owner' = owner, \A p \in Pids : Stage(p)' = Stage(p)
  PROVE  SessionStep
  BY DEF SessionStep, StageNow

\* One session goes on to a later stage of its life.
LEMMA Becomes ==
  ASSUME NEW p \in Pids, owner' = owner,
         \A q \in Pids \ {p} : Stage(q)' = Stage(q),
         \/ Stage(p)' = Stage(p)
         \/ Stage(p) = "starting" /\ Stage(p)' = "serving"
         \/ Stage(p) \in {"starting", "serving"} /\ Stage(p)' = "ending"
         \/ Stage(p) \in {"starting", "serving", "ending"} /\ Stage(p)' = "ended"
  PROVE  SessionStep
<1>1. CASE Stage(p)' = Stage(p)
  BY <1>1, Stutters
<1>2. StageNow' = [StageNow EXCEPT ![p] = Stage(p)']
  BY DEF StageNow
<1>3. StageNow[p] = Stage(p)
  BY DEF StageNow
<1>4. CASE Stage(p) = "starting" /\ Stage(p)' = "serving"
  <2>1. Sessions!Serve(p)
    BY <1>2, <1>3, <1>4 DEF Sessions!Serve, Sessions!Become, StageNow
  <2>2. StageNow'[p] # StageNow[p]
    BY <1>2, <1>3, <1>4 DEF StageNow
  <2> QED
    BY <2>1, <2>2 DEF SessionStep, Sessions!Next, StageNow
<1>5. CASE Stage(p) \in {"starting", "serving"} /\ Stage(p)' = "ending"
  <2>1. Sessions!Stop(p)
    BY <1>2, <1>3, <1>5 DEF Sessions!Stop, Sessions!Become, StageNow
  <2>2. StageNow'[p] # StageNow[p]
    BY <1>2, <1>3, <1>5 DEF StageNow
  <2> QED
    BY <2>1, <2>2 DEF SessionStep, Sessions!Next, StageNow
<1>6. CASE Stage(p) \in {"starting", "serving", "ending"} /\ Stage(p)' = "ended"
  <2>1. Sessions!End(p)
    BY <1>2, <1>3, <1>6 DEF Sessions!End, Sessions!Become, StageNow
  <2>2. StageNow'[p] # StageNow[p]
    BY <1>2, <1>3, <1>6 DEF StageNow
  <2> QED
    BY <2>1, <2>2 DEF SessionStep, Sessions!Next, StageNow
<1> QED
  BY <1>1, <1>4, <1>5, <1>6

\* What waitpid, a signal and a death do to the sessions.
LEMMA WaitPidStutters ==
  ASSUME TypeInv, NEW q, WaitPid(q)
  PROVE  SessionStep
<1>1. owner' = owner /\ \A p \in Pids : Stage(p)' = Stage(p)
  BY DEF TypeInv, TypeOK, WaitPid, Stage, Alive, Starting, Started
<1> QED
  BY <1>1, Stutters

\* A signal that reaches a live session's group makes it stop.
LEMMA SignalStops ==
  ASSUME TypeInv, NEW q, Signal(q), UNCHANGED <<phase, owner>>
  PROVE  SessionStep
<1>1. CASE q \in group /\ Alive(q)
  <2>1. q \in Pids
    BY <1>1 DEF TypeInv, TypeOK
  <2>2. \A p \in Pids \ {q} : Stage(p)' = Stage(p)
    BY <1>1 DEF Signal, Stage, Alive
  <2>3. \/ Stage(q)' = Stage(q)
        \/ Stage(q) \in {"starting", "serving"} /\ Stage(q)' = "ending"
    BY <1>1, <2>1 DEF Signal, Stage, Alive, Starting, Started
  <2> QED
    BY <2>1, <2>2, <2>3, Becomes
<1>2. CASE ~(q \in group /\ Alive(q))
  <2>1. signalled' = signalled
    BY <1>2 DEF Signal
  <2>2. \A p \in Pids : Stage(p)' = Stage(p)
    BY <2>1 DEF Stage, Alive
  <2> QED
    BY <2>2, Stutters
<1> QED
  BY <1>1, <1>2

\* A death ends a session, whatever stage it was in.
LEMMA DeathEnds ==
  ASSUME TypeInv, NEW q \in Pids, Alive(q), Dies(q)
  PROVE  SessionStep
<1>1. \A p \in Pids \ {q} : Stage(p)' = Stage(p)
  BY DEF TypeInv, TypeOK, Dies, Stage, Alive
<1>2. Stage(q)' = "ended" /\ Stage(q) \in {"starting", "serving", "ending"}
  BY DEF TypeInv, TypeOK, Dies, Stage, Alive, Starting, Started
<1>3. owner' = owner
  BY DEF Dies
<1> QED
  BY <1>1, <1>2, <1>3, Becomes

\* Steps on files and memory are stutters of the sessions.
LEMMA SameProcesses ==
  ASSUME UNCHANGED <<phase, owner, signalled>>
  PROVE  SessionStep
<1>1. \A p \in Pids : Stage(p)' = Stage(p)
  BY DEF Stage, Alive
<1> QED
  BY <1>1, Stutters

\* The launch finds no live session of its user: LaunchAlone and ChildrenTracked.
LEMMA ForkLaunches ==
  ASSUME Serial, SessionInv, NEW t \in Requests, Fork(t)
  PROVE  SessionStep
<1>1. PICK p \in Free : /\ phase' = [phase EXCEPT ![p] = "forked"]
                        /\ owner' = [owner EXCEPT ![p] = who[t]]
  BY DEF Fork
<1>2. p \in Pids /\ phase[p] = "none" /\ who[t] \in Users /\ signalled' = signalled
  BY <1>1 DEF Fork, Free, Serial, SessionInv, TypeInv
<1>3. pc[t] = "fork"
  BY DEF Fork
<1>4. \A q \in Pids : Sessions!Live(q) => Alive(q)
  BY DEF Sessions!Live, Stage
<1>5. \A q \in Pids : Alive(q) => owner[q] # who[t]
  BY <1>3 DEF SessionInv, ChildrenTracked, LaunchAlone
<1>6. \A q \in Pids \ {p} : Stage(q)' = Stage(q)
  BY <1>1, <1>2 DEF Stage, Alive, SessionInv, TypeInv, TypeOK
<1>7. Stage(p) = "unused" /\ Stage(p)' = "starting"
  BY <1>1, <1>2 DEF Stage, Alive, Starting, Started, SessionInv, TypeInv, TypeOK
<1>8. StageNow' = [StageNow EXCEPT ![p] = "starting"]
  BY <1>6, <1>7 DEF StageNow
<1>9. Sessions!Launch(p, who[t])
  BY <1>1, <1>2, <1>4, <1>5, <1>7, <1>8 DEF Sessions!Launch, StageNow
<1> QED
  BY <1>2, <1>7, <1>9 DEF SessionStep, Sessions!Next, StageNow

\* Each step of the API and its processes is a step of one session or a stutter.
LEMMA NextImplements == Serial /\ SessionInv /\ [Next]_vars => SessionStep
<1> SUFFICES ASSUME Serial, SessionInv, [Next]_vars PROVE SessionStep
  OBVIOUS
<1> TypeInv
  BY DEF SessionInv
<1>1. ASSUME NEW t \in Threads, KillSession(t) PROVE SessionStep
  BY <1>1, SignalStops, WaitPidStutters, SameProcesses
     DEF KillSession, Kill, CheckKilled, Cleanup, procs
<1>2. ASSUME NEW t \in Requests,
             \/ \E u \in Users : PostArrives(t, u) \/ DeleteArrives(t, u)
             \/ Post(t) \/ Delete(t) \/ Receive(t)
      PROVE  SessionStep
  <2>1. CASE \E u \in Users : PostArrives(t, u) \/ DeleteArrives(t, u)
    BY <2>1, SameProcesses DEF PostArrives, DeleteArrives, Arrives, procs
  <2>2. CASE \/ PortMissing(t) \/ PortPresent(t) \/ Reuse(t) \/ Prepare(t)
            \/ WritePassword(t) \/ DirectoryLost(t) \/ WritePid(t) \/ PollPort(t)
            \/ WakeInTime(t) \/ Created(t) \/ Forget(t) \/ Receive(t)
    BY <2>2, SameProcesses
       DEF PortMissing, PortPresent, Reuse, Prepare, WritePassword, DirectoryLost,
           WritePid, PollPort, WakeInTime, Created, Forget, Receive, procs
  <2>3. CASE \/ Broken(t) \/ FindSession(t) \/ ReapChild(t) \/ Launched(t)
            \/ DeleteFinds(t) \/ DeleteAnswers(t)
    BY <2>3, WaitPidStutters
       DEF Broken, FindSession, ReapChild, Launched, DeleteFinds, DeleteAnswers
  <2>4. CASE Overdue(t)
    BY <2>4, SignalStops DEF Overdue
  <2>5. CASE Fork(t)
    BY <2>5, ForkLaunches
  <2>6. CASE KillSession(t)
    BY <1>1, <2>6 DEF Threads
  <2> QED
    BY <1>2, <2>1, <2>2, <2>3, <2>4, <2>5, <2>6 DEF Post, Delete
<1>3. ASSUME NEW p \in Pids, StartUp(p) \/ SignalDelivered(p) \/ BackendExits(p)
      PROVE  SessionStep
  <2>1. CASE Dies(p)
    BY <1>3, <2>1, DeathEnds
       DEF StartUp, ChildTouchesPort, ChildLeadsGroup, BackendReadsPassword,
           BackendWritesPort, SignalDelivered, BackendExits, Alive, Starting, Started
  <2>2. CASE ~Dies(p)
    <3>1. /\ UNCHANGED <<owner, signalled>>
          /\ \E next \in {"touched", "session", "ready", "serving", "portless"} :
               phase' = [phase EXCEPT ![p] = next]
          /\ phase[p] \in {"forked", "touched", "session", "ready"}
          /\ phase'[p] \in {"serving", "portless"} => phase[p] = "ready"
      BY <1>3, <2>2
         DEF StartUp, ChildTouchesPort, ChildLeadsGroup, BackendReadsPassword,
             BackendWritesPort, SignalDelivered, BackendExits, TypeInv, TypeOK
    <3>2. \A q \in Pids \ {p} : Stage(q)' = Stage(q)
      BY <3>1 DEF Stage, Alive, TypeInv, TypeOK
    <3>3. \/ Stage(p)' = Stage(p)
          \/ Stage(p) = "starting" /\ Stage(p)' = "serving"
      BY <3>1 DEF Stage, Alive, Starting, Started, TypeInv, TypeOK
    <3> QED
      BY <3>1, <3>2, <3>3, Becomes
  <2> QED
    BY <2>1, <2>2
<1>4. ASSUME ShutdownBegins \/ Shutdown \/ SupervisorDies PROVE SessionStep
  <2>1. CASE Select
    <3>1. owner' = owner /\ \A p \in Pids : Stage(p)' = Stage(p)
      BY <2>1 DEF Select, Stage, Alive, Starting, Started, TypeInv, TypeOK
    <3> QED
      BY <3>1, Stutters
  <2>2. CASE WaitForVictim
    BY <2>2, WaitPidStutters DEF WaitForVictim
  <2>3. CASE KillSession(Main)
    BY <1>1, <2>3 DEF Threads
  <2>4. CASE ShutdownBegins \/ KillNext \/ AllSignalled \/ WaitNext \/ AllWaitedFor \/ PassEnds
    BY <2>4, SameProcesses
       DEF ShutdownBegins, KillNext, AllSignalled, WaitNext, AllWaitedFor, PassEnds, procs
  <2>5. ~SupervisorDies
    BY DEF SupervisorDies, Serial
  <2> QED
    BY <1>4, <2>1, <2>2, <2>3, <2>4, <2>5 DEF Shutdown
<1>5. CASE UNCHANGED vars
  BY <1>5, SameProcesses DEF vars, procs
<1> QED
  BY <1>2, <1>3, <1>4, <1>5 DEF Next

\* While the requests of a user do not overlap, the API and its backends are the
\* sessions that Session promises, in every interleaving.
THEOREM Implementation ==
  ASSUME Serial
  PROVE  Spec => ImplementsSession
<1>1. SessionInv /\ [Next]_vars => SessionInv'
  BY NextSessionInv
<1>2. SessionInv /\ [Next]_vars => [Sessions!Next]_<<[p \in Pids |-> Stage(p)], owner>>
  BY NextImplements DEF SessionStep, StageNow
<1> QED
  BY <1>1, <1>2, InitSessionInv, InitImplements, PTL DEF Spec, ImplementsSession, Sessions!Spec

-----------------------------------------------------------------------------
(* What was given up is stopped: by a DELETE, a launch that failed, the exit hook. *)

\* A process that is past setsid leads its group: kill reaches it.
SessionsLead == \A p \in Pids : phase[p] \in Started => p \in group

\* The port file names the backend launched last, which listened, or nobody.
PortFileOfLatest ==
    /\ \A t \in Requests :
         /\ pc[t] \in {"password", "fork"} => portFile[who[t]] \notin Pids
         /\ pc[t] = "writepid" /\ portFile[who[t]] \in Pids => portFile[who[t]] = child[t]
    /\ \A u \in Users : portFile[u] \in Pids =>
         /\ phase[portFile[u]] \in {"serving", "portless", "zombie", "gone"}
         /\ \/ portFile[u] = pidFile[u]
            \/ \E t \in Requests : pc[t] = "writepid" /\ who[t] = u

\* The port file of a live process is not removed, so that the backend can write it.
PortFileKept ==
    \A p \in Pids :
        /\ phase[p] \in {"touched", "session", "ready"} => portFile[owner[p]] # Absent
        /\ phase[p] # "portless"

Unstopped(p, u) == Alive(p) /\ owner[p] = u /\ p \notin signalled

Launching(u) ==
    \E t \in Requests : who[t] = u /\ pc[t] \in {"writepid", "reap", "poll", "sleep"}

\* A launch that found the port enters its session in instances.
Entering(u) == \E t \in Requests : who[t] = u /\ pc[t] = "launched"

\* A launch ends when the port is found: a backend that is neither being launched nor
\* stopped serves, on the port of the file, and the exit hook knows it.
ServesUnlessLaunching ==
    \A u \in Users, p \in Pids : Unstopped(p, u) /\ ~Launching(u) =>
        /\ phase[p] = "serving" /\ portFile[u] = p
        /\ Entering(u) \/ u \in instances

\* A DELETE past its kill, and an answer that gives a session up, leave no backend of
\* the user without a signal.
StoppedByKill ==
    \A t \in Requests : pc[t] \in {"check", "cleanup", "forget", "final"} =>
        \A p \in Pids : ~Unstopped(p, who[t])

GivenUp(t) ==
    \/ answer[t].status \in {202, 500} /\ answer[t].cookie # "set"
    \/ pc[t] = "answered" /\ answer[t].cookie = "keep"

StoppedWhenGivenUp ==
    \A t \in Requests :
        /\ answer[t].status # 0 => pc[t] = "answered"
        /\ GivenUp(t) => \A p \in Pids : ~Unstopped(p, who[t])

\* The hook: who is not signalled yet is still to do, and has a pid file; after the
\* first pass everybody is.
Signalling == pc[Main] \in {"next", "kill", "check", "cleanup"}

HookSignals ==
    /\ pass = "KILL" => sup # "up"
    /\ Signalling =>
         /\ \A u \in Users, p \in Pids : Unstopped(p, u) =>
               u \in todo \/ (pc[Main] = "kill" /\ u = who[Main])
         /\ \A u \in todo : pidFile[u] # NoPid
    /\ pc[Main] \in {"kill", "check", "cleanup"} => who[Main] \notin todo
    /\ pc[Main] = "kill" => pidFile[who[Main]] # NoPid
    /\ pc[Main] \in {"wait", "waiting", "passed"} \/ pass = "KILL" \/ sup = "down" =>
         \A p \in Pids : Alive(p) => p \in signalled

StopInv ==
    /\ SessionInv /\ SessionsLead /\ PortFileOfLatest /\ PortFileKept
    /\ ServesUnlessLaunching /\ StoppedByKill /\ StoppedWhenGivenUp /\ HookSignals

\* There are no processes to stop.
LEMMA InitStopInv == Init => StopInv
  BY InitSessionInv, ConstantsAssumption
     DEF Init, StopInv, SessionsLead, PortFileOfLatest, PortFileKept,
         ServesUnlessLaunching, StoppedByKill, StoppedWhenGivenUp, GivenUp, HookSignals,
         Signalling, Unstopped, Alive, Starting, Started, Threads, Pending

\* The live backend of a user is the one in its pid file, unless it was forked just now.
LEMMA TheBackend ==
  ASSUME SessionInv, NEW u \in Users, NEW p \in Pids, Alive(p), owner[p] = u,
         \A t \in Requests : ~(pc[t] = "writepid" /\ who[t] = u)
  PROVE  pidFile[u] = p /\ p \in children
  BY ConstantsAssumption DEF SessionInv, ChildrenTracked, ChildKnown

\* Whose process is reaped has no live backend.
LEMMA NoneAlive ==
  ASSUME SessionInv, NEW t \in Threads, who[t] \in Users, pc[t] \notin {"idle", "writepid"},
         pidFile[who[t]] \notin children
  PROVE  \A p \in Pids : Alive(p) => owner[p] # who[t]
<1>1. \A s \in Requests : ~(pc[s] = "writepid" /\ who[s] = who[t])
  BY DEF SessionInv, Exclusive, HookAlone, Threads
<1> QED
  BY <1>1, TheBackend

\* While a thread serves a user and does not launch, nobody launches for that user.
LEMMA NobodyLaunches ==
  ASSUME SessionInv, NEW t \in Threads, pc[t] # "idle",
         pc[t] \notin {"writepid", "reap", "poll", "sleep"}
  PROVE  /\ ~Launching(who[t])
         /\ pc[t] # "launched" => ~Entering(who[t])
  BY DEF SessionInv, Exclusive, HookAlone, Threads, Launching, Entering


\* A step that starts and stops nothing: it may signal, and reap what is dead.
Calm ==
    /\ UNCHANGED <<owner, portFile, pidFile>>
    /\ \A p \in Pids :
         /\ \/ phase'[p] = phase[p]
            \/ phase[p] = "zombie" /\ phase'[p] = "gone"
         /\ p \in group /\ phase[p] \in Started => p \in group'
         /\ p \in signalled => p \in signalled'

\* After such a step nobody is unstopped who was not before.
LEMMA CalmStops ==
  ASSUME StopInv, Calm
  PROVE  /\ SessionsLead' /\ PortFileKept'
         /\ \A p \in Pids, u \in Users : Unstopped(p, u)' => Unstopped(p, u)
         /\ \A p \in Pids : Alive(p)' = Alive(p)
         /\ \A p \in Pids : phase[p] = "serving" => phase'[p] = "serving"
         /\ \A u \in Users : portFile[u] \in Pids =>
              phase'[portFile[u]] \in {"serving", "portless", "zombie", "gone"}
<1> USE DEF Calm, Starting, Started
<1>1. SessionsLead'
  BY DEF StopInv, SessionsLead
<1>2. PortFileKept'
  BY DEF StopInv, PortFileKept
<1>3. \A p \in Pids : Alive(p)' = Alive(p)
  BY DEF Alive
<1>4. \A u \in Users : portFile[u] \in Pids =>
         phase'[portFile[u]] \in {"serving", "portless", "zombie", "gone"}
  BY DEF StopInv, PortFileOfLatest
<1> QED
  BY <1>1, <1>2, <1>3, <1>4 DEF Unstopped

\* waitpid reaps what is dead.
LEMMA WaitPidCalm ==
  ASSUME TypeInv, NEW q, WaitPid(q), UNCHANGED files
  PROVE  Calm
  BY DEF WaitPid, Calm, files, TypeInv, TypeOK, Started

\* A signal takes none back.
LEMMA SignalCalm ==
  ASSUME NEW q, Signal(q), UNCHANGED <<files, phase, owner, group>>
  PROVE  Calm
  BY DEF Signal, Calm, files

\* A step on other variables is calm.
LEMMA SameCalm ==
  ASSUME UNCHANGED <<pidFile, portFile, procs>>
  PROVE  Calm
  BY DEF Calm, procs

\* A request's thread goes on.  What there is to show is about its own user: that a
\* backend which is not stopped serves, unless the thread launches it, and that none
\* is left once it was killed or given up.
LEMMA RequestMoves ==
  ASSUME Serial, StopInv, SessionInv', Calm, NEW t \in Requests,
         pc[t] \notin {"idle", "answered", "writepid"},
         NEW l \in RequestLabels \ {"password", "writepid", "idle"},
         pc' = [pc EXCEPT ![t] = l], l = "fork" => pc[t] = "password",
         UNCHANGED <<who, hook>>, child' = child,
         \A s \in Requests \ {t} : answer'[s] = answer[s],
         \A u \in Users \ {who[t]} : u \in instances => u \in instances',
         \A p \in Pids : Unstopped(p, who[t])' /\ l \notin {"reap", "poll", "sleep"} =>
              /\ phase[p] = "serving" /\ portFile[who[t]] = p
              /\ l = "launched" \/ who[t] \in instances',
         l \in {"check", "cleanup", "forget", "final"} =>
              \A p \in Pids : ~Unstopped(p, who[t])',
         answer'[t].status # 0 => l = "answered",
         GivenUp(t)' => \A p \in Pids : ~Unstopped(p, who[t])'
  PROVE  StopInv'
<1>0. t # Main /\ t \in Threads /\ pc \in [Threads -> RequestLabels \cup HookLabels]
      /\ who[t] \in Users /\ Main \in Threads
  BY ConstantsAssumption DEF StopInv, SessionInv, TypeInv, TypeOK, Threads
<1>1. pc'[t] = l /\ \A s \in Threads \ {t} : pc'[s] = pc[s]
  BY <1>0
<1>2. \A s \in Requests : pc[s] # "idle" /\ who[s] = who[t] => s = t
  BY DEF StopInv, SessionInv, Exclusive
<1>3. \A u \in Users \ {who[t]} : Launching(u)' = Launching(u) /\ Entering(u)' = Entering(u)
  BY <1>0, <1>1 DEF Launching, Entering, Threads
<1>4. l \in {"reap", "poll", "sleep"} => Launching(who[t])'
  BY <1>1 DEF Launching
<1>5. l = "launched" => Entering(who[t])'
  BY <1>1 DEF Entering
<1>6. ServesUnlessLaunching'
  <2> SUFFICES ASSUME NEW u \in Users, NEW p \in Pids, Unstopped(p, u)', ~Launching(u)'
               PROVE  /\ phase'[p] = "serving" /\ portFile'[u] = p
                      /\ Entering(u)' \/ u \in instances'
    BY DEF ServesUnlessLaunching
  <2>1. CASE u = who[t]
    BY <1>4, <1>5, <2>1, CalmStops DEF Calm
  <2>2. CASE u # who[t]
    BY <1>3, <2>2, CalmStops DEF Calm, StopInv, ServesUnlessLaunching
  <2> QED
    BY <2>1, <2>2
<1>7. PortFileOfLatest'
  <2>1. ASSUME NEW s \in Requests
        PROVE  /\ pc'[s] \in {"password", "fork"} => portFile'[who'[s]] \notin Pids
               /\ pc'[s] = "writepid" /\ portFile'[who'[s]] \in Pids =>
                    portFile'[who'[s]] = child'[s]
    BY <1>0, <1>1 DEF StopInv, PortFileOfLatest, Calm, Threads
  <2>2. ASSUME NEW u \in Users, portFile'[u] \in Pids
        PROVE  \/ portFile'[u] = pidFile'[u]
               \/ \E s \in Requests : pc'[s] = "writepid" /\ who'[s] = u
    <3>1. CASE portFile[u] = pidFile[u]
      BY <3>1 DEF Calm
    <3>2. ASSUME NEW s \in Requests, pc[s] = "writepid", who[s] = u
          PROVE  pc'[s] = "writepid" /\ who'[s] = u
      BY <1>1, <3>2 DEF Threads
    <3> QED
      BY <2>2, <3>1, <3>2 DEF StopInv, PortFileOfLatest, Calm
  <2> QED
    BY <2>1, <2>2, CalmStops DEF PortFileOfLatest, Calm
<1>8. StoppedByKill'
  <2> SUFFICES ASSUME NEW s \in Requests, pc'[s] \in {"check", "cleanup", "forget", "final"},
                      NEW p \in Pids
               PROVE  ~Unstopped(p, who[s])'
    BY DEF StoppedByKill
  <2>1. CASE s = t
    BY <1>1, <2>1
  <2>2. CASE s # t
    <3>1. who[s] \in Users /\ pc[s] = pc'[s]
      BY <1>1, <2>2 DEF StopInv, SessionInv, TypeInv, Threads
    <3> QED
      BY <3>1, CalmStops DEF StopInv, StoppedByKill
  <2> QED
    BY <2>1, <2>2
<1>9. StoppedWhenGivenUp'
  <2> SUFFICES ASSUME NEW s \in Requests
               PROVE  /\ answer'[s].status # 0 => pc'[s] = "answered"
                      /\ GivenUp(s)' => \A p \in Pids : ~Unstopped(p, who[s])'
    BY DEF StoppedWhenGivenUp
  <2>1. CASE s = t
    BY <1>1, <2>1
  <2>2. CASE s # t
    <3>1. pc'[s] = pc[s] /\ answer'[s] = answer[s]
      BY <1>1, <2>2 DEF Threads
    <3>2. GivenUp(s)' = GivenUp(s)
      BY <3>1 DEF GivenUp
    <3>3. GivenUp(s) => pc[s] = "answered" /\ who[s] \in Users
      BY DEF StopInv, StoppedWhenGivenUp, GivenUp, SessionInv, TypeInv
    <3> QED
      BY <3>1, <3>2, <3>3, CalmStops DEF StopInv, StoppedWhenGivenUp
  <2> QED
    BY <2>1, <2>2
<1>10. HookSignals'
  <2>1. pc'[Main] = pc[Main] /\ UNCHANGED <<sup, pass, todo>>
    BY <1>0, <1>1 DEF hook
  <2>2. sup = "up" /\ ~Signalling /\ pass # "KILL"
        /\ pc[Main] \notin {"wait", "waiting", "passed"}
    <3>1. sup = "up"
      BY DEF StopInv, SessionInv, HookAlone
    <3> QED
      BY <3>1 DEF StopInv, SessionInv, HookAlone, HookSignals, Signalling
  <2> QED
    BY <2>1, <2>2 DEF HookSignals, Signalling
<1> QED
  BY <1>6, <1>7, <1>8, <1>9, <1>10, CalmStops DEF StopInv


\* The backend of a user whose thread does not launch serves.
LEMMA OwnBackend ==
  ASSUME StopInv, NEW t \in Threads, pc[t] # "idle", who[t] \in Users,
         pc[t] \notin {"writepid", "reap", "poll", "sleep"}, NEW p \in Pids,
         Unstopped(p, who[t])
  PROVE  /\ phase[p] = "serving" /\ portFile[who[t]] = p /\ pidFile[who[t]] = p
         /\ p \in children
         /\ pc[t] # "launched" => who[t] \in instances
<1>1. ~Launching(who[t]) /\ (pc[t] # "launched" => ~Entering(who[t]))
  BY NobodyLaunches DEF StopInv
<1>2. pidFile[who[t]] = p /\ p \in children
  BY <1>1, TheBackend DEF StopInv, Launching, Unstopped
<1> QED
  BY <1>1, <1>2 DEF StopInv, ServesUnlessLaunching

\* The steps of a POST and of a DELETE that write no file.
LEMMA CalmRequestStops ==
  ASSUME Serial, PromptSetsid, StopInv, NEW t \in Requests,
         \/ Broken(t) \/ PortMissing(t) \/ PortPresent(t) \/ FindSession(t) \/ Reuse(t)
         \/ DirectoryLost(t) \/ ReapChild(t) \/ PollPort(t) \/ WakeInTime(t) \/ Overdue(t)
         \/ Launched(t) \/ Created(t) \/ DeleteFinds(t) \/ Kill(t) \/ CheckKilled(t)
         \/ Forget(t) \/ DeleteAnswers(t)
  PROVE  StopInv'
<1>s. SessionInv /\ SessionInv' /\ TypeInv
  <2>1. SessionInv
    BY DEF StopInv
  <2> QED
    BY <2>1, RequestSession DEF Post, Delete, KillSession, SessionInv
<1>t. t \in Threads /\ t # Main /\ who[t] \in Users /\ answer \in [Threads -> Answers]
      /\ pc[t] \notin {"idle", "answered", "writepid"}
  BY <1>s, ConstantsAssumption
     DEF Threads, TypeInv, TypeOK, Broken, PortMissing, PortPresent, FindSession, Reuse,
         DirectoryLost, ReapChild, PollPort, WakeInTime, Overdue, Launched, Created,
         DeleteFinds, Kill, CheckKilled, Forget, DeleteAnswers
<1>a. answer[t].status = 0
  BY <1>t DEF StopInv, StoppedWhenGivenUp
<1>n. pidFile[who[t]] \notin children => \A p \in Pids : ~Unstopped(p, who[t])
  BY <1>s, <1>t, NoneAlive DEF Unstopped
<1>o. ASSUME NEW p \in Pids, Unstopped(p, who[t]), pc[t] \notin {"reap", "poll", "sleep"}
      PROVE  /\ phase[p] = "serving" /\ portFile[who[t]] = p /\ pidFile[who[t]] = p
             /\ p \in children
             /\ pc[t] # "launched" => who[t] \in instances
  BY <1>o, <1>t, OwnBackend
\* The thread goes on.
<1>h. ASSUME Calm, NEW l \in RequestLabels \ {"password", "writepid", "idle", "answered", "fork"},
             Goto(t, l),
             \A u \in Users \ {who[t]} : u \in instances => u \in instances',
             \A p \in Pids : Unstopped(p, who[t])' /\ l \notin {"reap", "poll", "sleep"} =>
               /\ phase[p] = "serving" /\ portFile[who[t]] = p
               /\ l = "launched" \/ who[t] \in instances',
             l \in {"check", "cleanup", "forget", "final"} =>
               \A p \in Pids : ~Unstopped(p, who[t])'
      PROVE  StopInv'
  <2>1. \A p \in Pids : Unstopped(p, who[t])' => Unstopped(p, who[t])
    BY <1>h, <1>t, CalmStops DEF Goto
  <2>2. ~GivenUp(t)' /\ answer'[t].status = 0
    BY <1>a, <1>h, <1>t DEF GivenUp, Goto, StopInv, SessionInv, TypeInv, TypeOK
  <2>3. /\ pc' = [pc EXCEPT ![t] = l] /\ UNCHANGED <<who, hook, child, answer>>
    BY <1>h DEF Goto
  <2> QED
    BY <1>h, <1>s, <1>t, <2>2, <2>3, RequestMoves
<1>g. ASSUME Calm, NEW l \in RequestLabels \ {"password", "writepid", "idle", "answered", "fork"},
             Goto(t, l), instances' = instances,
             l \in {"reap", "poll", "sleep"} \/ pc[t] \notin {"reap", "poll", "sleep", "launched"},
             l \in {"check", "cleanup", "forget", "final"} =>
               \A p \in Pids : ~Unstopped(p, who[t])'
      PROVE  StopInv'
  <2>1. \A p \in Pids : Unstopped(p, who[t])' => Unstopped(p, who[t])
    BY <1>g, <1>t, CalmStops DEF Goto
  <2>2. \A p \in Pids : Unstopped(p, who[t])' /\ l \notin {"reap", "poll", "sleep"} =>
              /\ phase[p] = "serving" /\ portFile[who[t]] = p
              /\ l = "launched" \/ who[t] \in instances'
    BY <1>g, <1>o, <2>1
  <2> QED
    BY <1>g, <1>h, <2>2
\* The thread answers, and with a backend it does not give up.
<1>w. ASSUME Calm, NEW status, NEW cookie, NEW password, Answer(t, status, cookie, password),
             \A u \in Users \ {who[t]} : u \in instances => u \in instances',
             \A p \in Pids : Unstopped(p, who[t])' => who[t] \in instances',
             (cookie # "set" /\ status \in {202, 500}) \/ cookie = "keep"
               \/ pc[t] \in {"reap", "poll", "sleep"} => \A p \in Pids : ~Unstopped(p, who[t])'
      PROVE  StopInv'
  <2>1. \A p \in Pids : Unstopped(p, who[t])' => Unstopped(p, who[t])
    BY <1>w, <1>t, CalmStops DEF Answer
  <2>2. /\ pc' = [pc EXCEPT ![t] = "answered"] /\ UNCHANGED <<who, hook, child>>
        /\ answer' = [answer EXCEPT ![t] = [status |-> status, cookie |-> cookie,
                                        password |-> password]]
    BY <1>w DEF Answer
  <2>3. answer'[t].status = status /\ answer'[t].cookie = cookie
        /\ \A s \in Requests \ {t} : answer'[s] = answer[s]
    BY <1>t, <2>2 DEF Threads
  <2>4. \A p \in Pids : Unstopped(p, who[t])' =>
              /\ phase[p] = "serving" /\ portFile[who[t]] = p /\ who[t] \in instances'
    BY <1>w, <1>o, <2>1
  <2>5. GivenUp(t)' => \A p \in Pids : ~Unstopped(p, who[t])'
    <3>1. GivenUp(t)' => (status \in {202, 500} /\ cookie # "set") \/ cookie = "keep"
      BY <2>3 DEF GivenUp
    <3> QED
      BY <1>w, <3>1
  <2>6. PICK l \in RequestLabels : l = "answered"
    BY DEF RequestLabels
  <2>7. l \in RequestLabels \ {"password", "writepid", "idle"} /\ l # "fork"
    BY <2>6
  <2>8. pc' = [pc EXCEPT ![t] = l] /\ child' = child /\ UNCHANGED <<who, hook>>
    BY <2>2, <2>6
  <2>9. l \notin {"check", "cleanup", "forget", "final"}
    BY <2>6
  <2>10. \A p \in Pids : Unstopped(p, who[t])' /\ l \notin {"reap", "poll", "sleep"} =>
              /\ phase[p] = "serving" /\ portFile[who[t]] = p
              /\ l = "launched" \/ who[t] \in instances'
    BY <2>4
  <2>11. answer'[t].status # 0 => l = "answered"
    BY <2>6
  <2>12. pc[t] \notin {"idle", "answered", "writepid"}
    BY <1>t
  <2>13. SessionInv'
    BY <1>s
  <2> QED
    BY <1>w, <2>3, <2>5, <2>7, <2>8, <2>9, <2>10, <2>11, <2>12, <2>13, RequestMoves
<1>r. ASSUME NEW q, WaitPid(q), UNCHANGED files PROVE Calm
  BY <1>r, <1>s, WaitPidCalm
<1>f. ASSUME UNCHANGED <<files, procs>> PROVE Calm
  BY <1>f, SameCalm DEF files
<1>e. ASSUME Calm, UNCHANGED who, pidFile[who[t]] \notin children
      PROVE  \A p \in Pids : ~Unstopped(p, who[t])'
  BY <1>e, <1>n, <1>t, CalmStops
<1>1. CASE Broken(t)
  <2>1. PICK l \in {"port", "running"} : Goto(t, l)
    BY <1>1 DEF Broken
  <2> QED
    BY <1>1, <1>g, <1>r, <2>1 DEF Broken, RequestLabels, memory
<1>2. CASE PortMissing(t)
  <2>1. Calm /\ UNCHANGED who
    BY <1>2, <1>f DEF PortMissing, Answer
  <2>2. \A p \in Pids : ~Unstopped(p, who[t])
    BY <1>2, <1>o DEF PortMissing, PortReady
  <2>3. \A p \in Pids : ~Unstopped(p, who[t])'
    BY <1>t, <2>1, <2>2, CalmStops
  <2> QED
    BY <1>2, <1>w, <2>1, <2>3 DEF PortMissing
<1>3. CASE PortPresent(t)
  BY <1>3, <1>g, <1>f DEF PortPresent, RequestLabels, memory
<1>4. CASE FindSession(t)
  <2>1. CASE Running(who[t])
    BY <1>4, <1>g, <1>r, <2>1 DEF FindSession, RequestLabels, memory
  <2>2. CASE ~Running(who[t])
    BY <1>4, <1>g, <1>r, <2>2 DEF FindSession, RequestLabels, memory
  <2> QED
    BY <2>1, <2>2
<1>5. CASE Reuse(t)
  <2>0. PICK status : Answer(t, status, "set", pwFile[who[t]])
    BY <1>5 DEF Reuse
  <2>1. Calm /\ UNCHANGED who
    BY <1>5, <1>f, <2>0 DEF Reuse, Answer
  <2>2. \A p \in Pids : Unstopped(p, who[t])' => who[t] \in instances
    BY <1>5, <1>o, <1>t, <2>1, CalmStops DEF Reuse
  <2> QED
    BY <1>5, <1>w, <2>0, <2>1, <2>2 DEF Reuse, memory
<1>6. CASE DirectoryLost(t)
  <2>1. Calm /\ UNCHANGED who
    BY <1>6, <1>f DEF DirectoryLost, Fail, Answer
  <2>2. \A p \in Pids : ~Unstopped(p, who[t])
    BY <1>6, <1>o, <1>s DEF DirectoryLost, SessionInv, LaunchAlone, Unstopped
  <2>3. \A p \in Pids : ~Unstopped(p, who[t])'
    BY <1>t, <2>1, <2>2, CalmStops
  <2> QED
    BY <1>6, <1>w, <2>1, <2>3 DEF DirectoryLost, Fail, memory
<1>7. CASE ReapChild(t)
  <2>1. Calm
    BY <1>7, <1>r DEF ReapChild
  <2>2. CASE pidFile[who[t]] \notin children
    <3>1. Fail(t)
      BY <1>7, <2>2 DEF ReapChild
    <3>2. \A p \in Pids : ~Unstopped(p, who[t])'
      BY <1>e, <2>1, <2>2, <3>1 DEF Fail, Answer
    <3> QED
      BY <1>7, <1>w, <2>1, <3>1, <3>2 DEF ReapChild, Fail, memory
  <2>3. CASE pidFile[who[t]] \in children /\ phase[pidFile[who[t]]] = "zombie"
    <3>1. Goto(t, "launched")
      BY <1>7, <2>3 DEF ReapChild
    <3>2. \A p \in Pids : ~Unstopped(p, who[t])
      <4>1. \A s \in Requests : ~(pc[s] = "writepid" /\ who[s] = who[t])
        BY <1>s, <1>t DEF SessionInv, Exclusive
      <4>2. \A p \in Pids : Alive(p) /\ owner[p] = who[t] => pidFile[who[t]] = p
        BY <1>s, <1>t, <4>1, TheBackend
      <4> QED
        BY <2>3, <4>2 DEF Unstopped, Alive, Starting, Started
    <3>3. \A p \in Pids : ~Unstopped(p, who[t])'
      BY <1>t, <2>1, <3>1, <3>2, CalmStops DEF Goto
    <3> QED
      BY <1>7, <1>h, <2>1, <3>1, <3>3 DEF ReapChild, RequestLabels, memory
  <2>4. CASE pidFile[who[t]] \in children /\ phase[pidFile[who[t]]] # "zombie"
    <3>1. Goto(t, "poll")
      BY <1>7, <2>4 DEF ReapChild
    <3> QED
      BY <1>7, <1>g, <2>1, <3>1 DEF ReapChild, RequestLabels, memory
  <2> QED
    BY <2>2, <2>3, <2>4
<1>8. CASE PollPort(t)
  <2>1. Calm
    BY <1>8, <1>f DEF PollPort
  <2>2. CASE PortReady(who[t])
    <3>1. Goto(t, "launched")
      BY <1>8, <2>2 DEF PollPort
    <3>2. \A s \in Requests : ~(pc[s] = "writepid" /\ who[s] = who[t])
      BY <1>8, <1>s, <1>t DEF SessionInv, Exclusive, PollPort
    <3>3. ASSUME NEW p \in Pids, Unstopped(p, who[t])
          PROVE  phase[p] = "serving" /\ portFile[who[t]] = p
      <4>1. pidFile[who[t]] = p
        BY <1>s, <1>t, <3>2, <3>3, TheBackend DEF Unstopped
      <4>2. portFile[who[t]] = p
        BY <1>t, <2>2, <3>2, <4>1 DEF StopInv, PortFileOfLatest, PortReady
      <4>3. phase[p] \in {"serving", "portless", "zombie", "gone"} /\ phase[p] # "portless"
        BY <1>t, <4>2 DEF StopInv, PortFileOfLatest, PortFileKept
      <4> QED
        BY <3>3, <4>2, <4>3 DEF Unstopped, Alive, Starting, Started
    <3>4. \A p \in Pids : Unstopped(p, who[t])' =>
            phase[p] = "serving" /\ portFile[who[t]] = p
      BY <1>t, <2>1, <3>1, <3>3, CalmStops DEF Goto
    <3> QED
      BY <1>8, <1>h, <2>1, <3>1, <3>4 DEF PollPort, RequestLabels, memory
  <2>3. CASE ~PortReady(who[t])
    <3>1. Goto(t, "sleep")
      BY <1>8, <2>3 DEF PollPort
    <3> QED
      BY <1>8, <1>g, <2>1, <3>1 DEF PollPort, RequestLabels, memory
  <2> QED
    BY <2>2, <2>3
<1>9. CASE WakeInTime(t)
  BY <1>9, <1>g, <1>f DEF WakeInTime, RequestLabels, memory
<1>10. CASE Overdue(t)
  <2>1. Calm
    BY <1>10, SignalCalm DEF Overdue
  <2>2. CASE pidFile[who[t]] \in group
    <3>1. Goto(t, "reap")
      BY <1>10, <2>2 DEF Overdue
    <3> QED
      BY <1>10, <1>g, <2>1, <3>1 DEF Overdue, RequestLabels, memory
  <2>3. CASE pidFile[who[t]] \notin group
    <3>1. Fail(t)
      BY <1>10, <2>3 DEF Overdue
    <3>2. \A s \in Requests : ~(pc[s] = "writepid" /\ who[s] = who[t])
      BY <1>10, <1>s, <1>t DEF SessionInv, Exclusive, Overdue
    <3>3. \A p \in Pids : ~Unstopped(p, who[t])
      <4> SUFFICES ASSUME NEW p \in Pids, Unstopped(p, who[t]) PROVE FALSE
        OBVIOUS
      <4>1. pidFile[who[t]] = p
        BY <1>s, <1>t, <3>2, TheBackend DEF Unstopped
      <4>2. phase[p] \notin Starting
        BY <1>10, <4>1 DEF Overdue
      <4> QED
        BY <2>3, <4>1, <4>2 DEF Unstopped, Alive, StopInv, SessionsLead
    <3>4. \A p \in Pids : ~Unstopped(p, who[t])'
      BY <1>t, <2>1, <3>1, <3>3, CalmStops DEF Fail, Answer
    <3> QED
      BY <1>10, <1>w, <2>1, <3>1, <3>4 DEF Overdue, Fail, memory
  <2> QED
    BY <2>2, <2>3
<1>11. CASE Launched(t)
  <2>1. Calm /\ UNCHANGED who
    BY <1>11, <1>r DEF Launched, Goto, Fail, Answer
  <2>2. CASE Running(who[t])
    <3>1. Goto(t, "created") /\ instances' = instances \cup {who[t]}
      BY <1>11, <2>2 DEF Launched
    <3>2. \A p \in Pids : Unstopped(p, who[t])' =>
            phase[p] = "serving" /\ portFile[who[t]] = p /\ who[t] \in instances'
      BY <1>11, <1>o, <1>t, <2>1, <3>1, CalmStops DEF Launched
    <3> QED
      BY <1>h, <2>1, <3>1, <3>2 DEF RequestLabels
  <2>3. CASE ~Running(who[t])
    <3>1. Fail(t) /\ instances' = instances
      BY <1>11, <2>3 DEF Launched
    <3>2. \A p \in Pids : ~Unstopped(p, who[t])'
      BY <1>e, <2>1, <2>3 DEF Running
    <3> QED
      BY <1>w, <2>1, <3>1, <3>2 DEF Fail
  <2> QED
    BY <2>2, <2>3
<1>12. CASE Created(t)
  <2>0. PICK status : Answer(t, status, "set", pwFile[who[t]])
    BY <1>12 DEF Created
  <2>1. Calm /\ UNCHANGED who
    BY <1>12, <1>f, <2>0 DEF Created, Answer
  <2>2. \A p \in Pids : Unstopped(p, who[t])' => who[t] \in instances
    BY <1>12, <1>o, <1>t, <2>1, CalmStops DEF Created
  <2> QED
    BY <1>12, <1>w, <2>0, <2>1, <2>2 DEF Created, memory
<1>13. CASE DeleteFinds(t)
  <2>1. Calm /\ UNCHANGED who
    BY <1>13, <1>r DEF DeleteFinds, Goto, Answer
  <2>2. CASE Running(who[t])
    BY <1>13, <1>g, <2>1, <2>2 DEF DeleteFinds, RequestLabels, memory
  <2>3. CASE ~Running(who[t])
    <3>1. \A p \in Pids : ~Unstopped(p, who[t])'
      BY <1>e, <2>1, <2>3 DEF Running
    <3> QED
      BY <1>13, <1>w, <2>1, <2>3, <3>1 DEF DeleteFinds, memory
  <2> QED
    BY <2>2, <2>3
<1>14. CASE Kill(t)
  <2>1. Calm /\ UNCHANGED who
    BY <1>14, SignalCalm DEF Kill, Goto, Fail, Answer
  <2>2. \A p \in Pids : ~Unstopped(p, who[t])'
    <3> SUFFICES ASSUME NEW p \in Pids, Unstopped(p, who[t])' PROVE FALSE
      BY <2>1
    <3>1. Unstopped(p, who[t])
      BY <1>t, <2>1, CalmStops
    <3>2. pidFile[who[t]] = p /\ phase[p] = "serving" /\ p \notin signalled'
      BY <1>14, <1>o, <3>1 DEF Kill, Unstopped
    <3> QED
      BY <1>14, <3>1, <3>2 DEF Kill, Signal, StopInv, SessionsLead, Started, Unstopped
  <2>3. CASE pidFile[who[t]] # NoPid
    <3>1. Goto(t, "check")
      BY <1>14, <1>t, <2>3 DEF Kill
    <3> QED
      BY <1>14, <1>g, <2>1, <2>2, <3>1 DEF Kill, RequestLabels, memory
  <2>4. CASE pidFile[who[t]] = NoPid
    <3>1. Fail(t)
      BY <1>14, <1>t, <2>4 DEF Kill
    <3> QED
      BY <1>14, <1>w, <2>1, <2>2, <3>1 DEF Kill, Fail, memory
  <2> QED
    BY <2>3, <2>4
<1>15. ASSUME pc[t] \in {"check", "cleanup", "forget", "final"}, Calm, UNCHANGED who
       PROVE  \A p \in Pids : ~Unstopped(p, who[t])'
  BY <1>15, <1>t, CalmStops DEF StopInv, StoppedByKill
<1>16. CASE CheckKilled(t)
  <2>1. Calm /\ UNCHANGED who
    BY <1>16, <1>r DEF CheckKilled, Goto
  <2>2. \A p \in Pids : ~Unstopped(p, who[t])'
    BY <1>15, <1>16, <2>1 DEF CheckKilled
  <2>3. PICK l \in {"forget", "cleanup"} : Goto(t, l)
    BY <1>16, <1>t DEF CheckKilled, AfterKill
  <2> QED
    BY <1>16, <1>g, <2>1, <2>2, <2>3 DEF CheckKilled, RequestLabels, memory
<1>17. CASE Forget(t)
  <2>1. Calm /\ UNCHANGED who
    BY <1>17, <1>f, SameCalm DEF Forget, Goto, files
  <2>2. \A p \in Pids : ~Unstopped(p, who[t])'
    BY <1>15, <1>17, <2>1 DEF Forget
  <2> QED
    BY <1>17, <1>h, <2>1, <2>2 DEF Forget, RequestLabels
<1>18. CASE DeleteAnswers(t)
  <2>1. Calm /\ UNCHANGED who
    BY <1>18, <1>r DEF DeleteAnswers, Answer
  <2>2. \A p \in Pids : ~Unstopped(p, who[t])'
    BY <1>15, <1>18, <2>1 DEF DeleteAnswers
  <2> QED
    BY <1>18, <1>w, <2>1, <2>2 DEF DeleteAnswers, memory
<1> QED
  BY <1>1, <1>2, <1>3, <1>4, <1>5, <1>6, <1>7, <1>8, <1>9, <1>10, <1>11, <1>12, <1>13,
     <1>14, <1>16, <1>17, <1>18

\* A request arrives, or its response does.
LEMMA ArrivalStops ==
  ASSUME Serial, StopInv, SessionInv', NEW t \in Requests,
         (\E u \in Users : PostArrives(t, u) \/ DeleteArrives(t, u)) \/ Receive(t)
  PROVE  StopInv'
<1>1. /\ UNCHANGED <<files, memory, procs, hook, child>>
      /\ pc[t] \in {"idle", "answered"} /\ pc'[t] \in {"idle", "broken", "delete"}
      /\ \A s \in Threads \ {t} : pc'[s] = pc[s] /\ who'[s] = who[s] /\ answer'[s] = answer[s]
      /\ answer'[t].status = 0
  BY ConstantsAssumption
     DEF PostArrives, DeleteArrives, Arrives, Receive, Pending, StopInv, SessionInv, TypeInv,
         TypeOK, Threads, StoppedWhenGivenUp
<1>2. \A p \in Pids : Alive(p)' = Alive(p) /\ \A u \in Users : Unstopped(p, u)' = Unstopped(p, u)
  BY <1>1 DEF procs, Alive, Unstopped
<1>3. \A u \in Users : Launching(u)' = Launching(u) /\ Entering(u)' = Entering(u)
  BY <1>1 DEF Launching, Entering, Threads
<1>4. SessionsLead' /\ PortFileKept'
  BY <1>1 DEF StopInv, SessionsLead, PortFileKept, files, procs
<1>5. PortFileOfLatest'
  BY <1>1 DEF StopInv, PortFileOfLatest, files, procs, Threads
<1>6. ServesUnlessLaunching'
  BY <1>1, <1>2, <1>3 DEF StopInv, ServesUnlessLaunching, files, memory, procs
<1>7. \A s \in Requests \ {t}, p \in Pids : Unstopped(p, who[s])' = Unstopped(p, who[s])
  BY <1>1 DEF procs, Alive, Unstopped, Threads
<1>8. StoppedByKill'
  BY <1>1, <1>7 DEF StopInv, StoppedByKill, Threads
<1>9. StoppedWhenGivenUp'
  BY <1>1, <1>7 DEF StopInv, StoppedWhenGivenUp, GivenUp, Threads
<1>10. HookSignals'
  <2>1. pc'[Main] = pc[Main] /\ who'[Main] = who[Main]
    BY <1>1, ConstantsAssumption DEF Threads
  <2> QED
    BY <1>1, <1>2, <2>1 DEF StopInv, HookSignals, Signalling, hook, files, procs
<1> QED
  BY <1>4, <1>5, <1>6, <1>8, <1>9, <1>10 DEF StopInv

\* The files of a user without a live backend are cleared, or get a new password, by a
\* thread that then goes on to step l.
LEMMA ClearingStops ==
  ASSUME Serial, StopInv, SessionInv', NEW t \in Requests,
         UNCHANGED <<memory, procs, who, child, answer, hook>>,
         pc[t] \in {"prepare", "cleanup"}, NEW l \in {"password", "forget"},
         pc' = [pc EXCEPT ![t] = l],
         portFile' = [portFile EXCEPT ![who[t]] = Absent],
         \A u \in Users \ {who[t]} : pidFile'[u] = pidFile[u],
         \A p \in Pids : Alive(p) => owner[p] # who[t]
  PROVE  StopInv'
<1>1. /\ TypeInv /\ who[t] \in Users /\ t # Main /\ Absent \notin Pids
      /\ portFile'[who[t]] = Absent
      /\ \A u \in Users \ {who[t]} : portFile'[u] = portFile[u]
  BY ConstantsAssumption DEF StopInv, SessionInv, TypeInv, TypeOK
<1>2. pc'[t] = l /\ \A s \in Threads \ {t} : pc'[s] = pc[s]
  BY <1>1 DEF TypeInv, TypeOK, Threads
<1>3. \A p \in Pids : Alive(p)' = Alive(p) /\ \A u : Unstopped(p, u)' = Unstopped(p, u)
  BY DEF procs, Alive, Unstopped
<1>4. \A u \in Users : Launching(u)' = Launching(u) /\ Entering(u)' = Entering(u)
  BY <1>2 DEF Launching, Entering, Threads
<1>5. SessionsLead'
  BY DEF StopInv, SessionsLead, procs
<1>6. PortFileKept'
  BY <1>1 DEF StopInv, PortFileKept, procs, Alive, Starting, Started, TypeInv
<1>7. PortFileOfLatest'
  <2>1. \A s \in Requests \ {t} : pc[s] # "idle" => who[s] # who[t] /\ who[s] \in Users
    BY <1>1 DEF StopInv, SessionInv, Exclusive, TypeInv
  <2>2. ASSUME NEW s \in Requests
        PROVE  /\ pc'[s] \in {"password", "fork"} => portFile'[who'[s]] \notin Pids
               /\ pc'[s] = "writepid" /\ portFile'[who'[s]] \in Pids =>
                    portFile'[who'[s]] = child'[s]
    BY <1>1, <1>2, <2>1 DEF StopInv, PortFileOfLatest, Threads
  <2>3. ASSUME NEW u \in Users, portFile'[u] \in Pids
        PROVE  /\ phase'[portFile'[u]] \in {"serving", "portless", "zombie", "gone"}
               /\ \/ portFile'[u] = pidFile'[u]
                  \/ \E s \in Requests : pc'[s] = "writepid" /\ who'[s] = u
    <3>1. u # who[t] /\ portFile'[u] = portFile[u] /\ pidFile'[u] = pidFile[u]
      BY <1>1, <2>3
    <3> QED
      BY <1>2, <2>3, <3>1 DEF StopInv, PortFileOfLatest, procs, Threads
  <2> QED
    BY <2>2, <2>3 DEF PortFileOfLatest
<1>8. ServesUnlessLaunching'
  BY <1>1, <1>3, <1>4 DEF StopInv, ServesUnlessLaunching, procs, memory, Unstopped
<1>9. \A p \in Pids : ~Unstopped(p, who[t])
  BY DEF Unstopped
<1>10. StoppedByKill'
  <2> SUFFICES ASSUME NEW s \in Requests, pc'[s] \in {"check", "cleanup", "forget", "final"},
                      NEW p \in Pids
               PROVE  ~Unstopped(p, who[s])'
    BY DEF StoppedByKill
  <2>1. CASE s = t
    BY <1>3, <1>9, <2>1
  <2>2. CASE s # t
    BY <1>2, <1>3, <2>2 DEF StopInv, StoppedByKill, Threads
  <2> QED
    BY <2>1, <2>2
<1>11. StoppedWhenGivenUp'
  <2>1. \A s \in Requests \ {t} : pc'[s] = pc[s] /\ GivenUp(s)' = GivenUp(s)
    BY <1>2 DEF GivenUp, Threads
  <2>2. ~GivenUp(t)' /\ answer'[t].status = 0
    BY <1>2 DEF StopInv, StoppedWhenGivenUp, GivenUp
  <2> QED
    BY <1>3, <2>1, <2>2 DEF StopInv, StoppedWhenGivenUp
<1>12. HookSignals'
  <2>1. pc'[Main] = pc[Main]
    BY <1>1, <1>2 DEF Threads
  <2>2. sup = "up" /\ pc[Main] = "idle"
    BY DEF StopInv, SessionInv, HookAlone
  <2> QED
    BY <2>1, <2>2 DEF StopInv, HookSignals, Signalling, hook
<1> QED
  BY <1>5, <1>6, <1>7, <1>8, <1>10, <1>11, <1>12 DEF StopInv

\* The directory of a launch is prepared, that of a killed session is removed.
LEMMA DirectoryStops ==
  ASSUME Serial, StopInv, SessionInv', NEW t \in Requests, Prepare(t) \/ Cleanup(t)
  PROVE  StopInv'
<1>1. /\ SessionInv /\ TypeInv /\ t # Main /\ t \in Threads /\ who[t] \in Users
  BY ConstantsAssumption DEF StopInv, SessionInv, TypeInv, Prepare, Cleanup, Threads
<1>2. CASE Prepare(t)
  <2>1. \A p \in Pids : Alive(p) => owner[p] # who[t]
    BY <1>1, <1>2 DEF Prepare, SessionInv, LaunchAlone, ChildrenTracked
  <2>2. /\ UNCHANGED <<memory, procs, who, child, answer, hook, pidFile>>
        /\ pc[t] = "prepare" /\ pc' = [pc EXCEPT ![t] = "password"]
        /\ portFile' = [portFile EXCEPT ![who[t]] = Absent]
    BY <1>2 DEF Prepare, Goto
  <2>3. PICK l \in {"password", "forget"} : pc' = [pc EXCEPT ![t] = l]
    BY <2>2
  <2> QED
    BY <2>1, <2>2, <2>3, ClearingStops
<1>3. CASE Cleanup(t)
  <2>1. \A p \in Pids : Alive(p) => owner[p] # who[t]
    BY <1>1, <1>3, NoneAlive DEF Cleanup, SessionInv, CleanupOfReaped
  <2>2. /\ UNCHANGED <<memory, procs, who, child, answer, hook>>
        /\ pc[t] = "cleanup" /\ pc' = [pc EXCEPT ![t] = "forget"]
        /\ portFile' = [portFile EXCEPT ![who[t]] = Absent]
        /\ pidFile' = [pidFile EXCEPT ![who[t]] = NoPid]
    BY <1>1, <1>3 DEF Cleanup, Goto, AfterKill
  <2>3. PICK l \in {"password", "forget"} : pc' = [pc EXCEPT ![t] = l]
    BY <2>2
  <2>4. \A u \in Users \ {who[t]} : pidFile'[u] = pidFile[u]
    BY <1>1, <2>2 DEF TypeInv, TypeOK
  <2> QED
    BY <2>1, <2>2, <2>3, <2>4, ClearingStops
<1> QED
  BY <1>2, <1>3

\* The password is written before there is a process.
LEMMA WritePasswordStops ==
  ASSUME Serial, StopInv, SessionInv', NEW t \in Requests, WritePassword(t)
  PROVE  StopInv'
<1>1. SessionInv /\ TypeInv /\ pc[t] = "password" /\ who[t] \in Users
  BY DEF StopInv, SessionInv, TypeInv, WritePassword
<1>2. /\ UNCHANGED <<pidFile, portFile, procs, who, hook>> /\ child' = child
      /\ instances' = instances /\ answer' = answer /\ pc' = [pc EXCEPT ![t] = "fork"]
  BY DEF WritePassword, Goto
<1>3. Calm
  BY <1>2, SameCalm
<1>4. \A p \in Pids : ~Unstopped(p, who[t])'
  BY <1>1, <1>2 DEF SessionInv, LaunchAlone, ChildrenTracked, Unstopped, Alive, procs
<1>5. answer'[t].status = 0
  BY <1>1, <1>2 DEF StopInv, StoppedWhenGivenUp
<1>6. PICK l \in RequestLabels : l = "fork"
  BY DEF RequestLabels
<1>7. /\ l \in RequestLabels \ {"password", "writepid", "idle"}
      /\ l = "fork" => pc[t] = "password"
      /\ pc' = [pc EXCEPT ![t] = l]
      /\ pc[t] \notin {"idle", "answered", "writepid"}
  BY <1>1, <1>2, <1>6
<1> QED
  BY <1>1, <1>2, <1>3, <1>4, <1>5, <1>7, RequestMoves

\* A backend that is being launched need not serve.
LEMMA ForkStops ==
  ASSUME Serial, StopInv, SessionInv', NEW t \in Requests, Fork(t)
  PROVE  StopInv'
<1>1. SessionInv /\ TypeInv /\ pc[t] = "fork" /\ who[t] \in Users /\ t # Main
      /\ t \in Threads
  BY ConstantsAssumption DEF StopInv, SessionInv, TypeInv, Fork, Threads
<1>2. PICK p \in Pids :
        /\ phase[p] = "none" /\ phase' = [phase EXCEPT ![p] = "forked"]
        /\ owner' = [owner EXCEPT ![p] = who[t]]
        /\ child' = [child EXCEPT ![t] = p]
  BY DEF Fork, Free, Serial
<1>3. /\ UNCHANGED <<files, memory, group, signalled, who, answer, hook>>
      /\ pc' = [pc EXCEPT ![t] = "writepid"]
  BY DEF Fork
<1>4. /\ pc'[t] = "writepid" /\ \A s \in Threads \ {t} : pc'[s] = pc[s] /\ child'[s] = child[s]
      /\ phase'[p] = "forked" /\ owner'[p] = who[t]
      /\ \A q \in Pids \ {p} : phase'[q] = phase[q] /\ owner'[q] = owner[q]
  BY <1>1, <1>2, <1>3 DEF TypeInv, TypeOK
<1>5. \A s \in Requests \ {t} : pc[s] # "idle" => who[s] # who[t] /\ who[s] \in Users
  BY <1>1 DEF SessionInv, Exclusive, TypeInv
<1>6. \A q \in Pids, u \in Users : u # who[t] /\ Unstopped(q, u)' => Unstopped(q, u)
  BY <1>3, <1>4 DEF Unstopped, Alive
<1>7. \A u \in Users : Launching(u)' = (Launching(u) \/ u = who[t])
  BY <1>1, <1>3, <1>4 DEF Launching, Threads
<1>8. \A u \in Users : Entering(u)' = Entering(u)
  BY <1>1, <1>3, <1>4 DEF Entering, Threads
<1>9. SessionsLead'
  BY <1>3, <1>4 DEF StopInv, SessionsLead, Started
<1>10. PortFileKept'
  BY <1>3, <1>4 DEF StopInv, PortFileKept, files
<1>11. PortFileOfLatest'
  <2>1. portFile[who[t]] \notin Pids
    BY <1>1 DEF StopInv, PortFileOfLatest
  <2> QED
    BY <1>1, <1>2, <1>3, <1>4, <2>1 DEF StopInv, PortFileOfLatest, files, Threads
<1>12. ServesUnlessLaunching'
  <2> SUFFICES ASSUME NEW u \in Users, NEW q \in Pids, Unstopped(q, u)', ~Launching(u)'
               PROVE  /\ phase'[q] = "serving" /\ portFile'[u] = q
                      /\ Entering(u)' \/ u \in instances'
    BY DEF ServesUnlessLaunching
  <2>1. u # who[t] /\ ~Launching(u) /\ Unstopped(q, u)
    BY <1>6, <1>7
  <2>2. q # p
    BY <1>2, <2>1 DEF Unstopped, Alive, Starting, Started
  <2> QED
    BY <1>3, <1>4, <1>8, <2>1, <2>2 DEF StopInv, ServesUnlessLaunching, files, memory
<1>13. StoppedByKill'
  <2> SUFFICES ASSUME NEW s \in Requests, pc'[s] \in {"check", "cleanup", "forget", "final"},
                      NEW q \in Pids
               PROVE  ~Unstopped(q, who[s])'
    BY DEF StoppedByKill
  <2>1. s # t /\ pc[s] = pc'[s]
    BY <1>4 DEF Threads
  <2>2. who[s] # who[t] /\ who[s] \in Users /\ who'[s] = who[s]
    BY <1>3, <1>5, <2>1
  <2>3. ~Unstopped(q, who[s])
    BY <2>1 DEF StopInv, StoppedByKill
  <2> QED
    BY <1>6, <2>2, <2>3 DEF Unstopped
<1>14. StoppedWhenGivenUp'
  <2>1. \A s \in Requests : pc'[s] = "answered" => pc[s] = "answered" /\ s # t
    BY <1>4 DEF Threads
  <2>2. \A s \in Requests \ {t} : pc'[s] = pc[s]
    BY <1>4 DEF Threads
  <2>3. \A s \in Requests \ {t} : GivenUp(s)' => GivenUp(s)
    BY <1>3, <2>2 DEF GivenUp
  <2>4. ~GivenUp(t)' /\ answer'[t].status = 0
    BY <1>1, <1>3, <1>4 DEF StopInv, StoppedWhenGivenUp, GivenUp
  <2>5. ASSUME NEW s \in Requests, s # t, GivenUp(s), NEW q \in Pids
        PROVE  ~Unstopped(q, who[s])'
    <3>1. pc[s] = "answered"
      BY <2>5 DEF StopInv, StoppedWhenGivenUp, GivenUp
    <3>2. who[s] # who[t] /\ who[s] \in Users /\ who'[s] = who[s]
      BY <1>3, <1>5, <2>5, <3>1
    <3>3. ~Unstopped(q, who[s])
      BY <2>5 DEF StopInv, StoppedWhenGivenUp
    <3> QED
      BY <1>6, <3>2, <3>3 DEF Unstopped
  <2> QED
    BY <1>3, <2>2, <2>3, <2>4, <2>5 DEF StopInv, StoppedWhenGivenUp
<1>15. HookSignals'
  <2>1. pc'[Main] = pc[Main]
    BY <1>1, <1>4, ConstantsAssumption DEF Threads
  <2>2. sup = "up" /\ pc[Main] = "idle"
    BY <1>1 DEF SessionInv, HookAlone
  <2> QED
    BY <1>3, <2>1, <2>2 DEF StopInv, HookSignals, Signalling, hook
<1> QED
  BY <1>9, <1>10, <1>11, <1>12, <1>13, <1>14, <1>15 DEF StopInv

\* The port file, if the backend was faster, names the pid that is written.
LEMMA WritePidStops ==
  ASSUME Serial, StopInv, SessionInv', NEW t \in Requests, WritePid(t)
  PROVE  StopInv'
<1>1. SessionInv /\ TypeInv /\ pc[t] = "writepid" /\ who[t] \in Users /\ t # Main
      /\ t \in Threads
  BY ConstantsAssumption DEF StopInv, SessionInv, TypeInv, WritePid, Threads
<1>2. /\ UNCHANGED <<portFile, instances, procs, who, answer, hook>>
      /\ pc' = [pc EXCEPT ![t] = "reap"] /\ pidFile' = [pidFile EXCEPT ![who[t]] = child[t]]
      /\ child' = [child EXCEPT ![t] = NoPid]
  BY DEF WritePid, memory
<1>3. /\ pc'[t] = "reap" /\ \A s \in Threads \ {t} : pc'[s] = pc[s] /\ child'[s] = child[s]
      /\ pidFile'[who[t]] = child[t]
      /\ \A u \in Users \ {who[t]} : pidFile'[u] = pidFile[u]
  BY <1>1, <1>2 DEF TypeInv, TypeOK
<1>4. \A p \in Pids : Alive(p)' = Alive(p)
  BY <1>2 DEF Alive, procs
<1>5. \A p \in Pids, s \in Threads : Unstopped(p, who[s])' = Unstopped(p, who[s])
  BY <1>2, <1>4 DEF Unstopped, procs
<1>6. \A p \in Pids, u \in Users : Unstopped(p, u)' = Unstopped(p, u)
  BY <1>2, <1>4 DEF Unstopped, procs
<1>7. \A u \in Users : Launching(u)' = Launching(u) /\ Entering(u)' = Entering(u)
  BY <1>1, <1>2, <1>3 DEF Launching, Entering, Threads
<1>8. SessionsLead' /\ PortFileKept'
  BY <1>2 DEF StopInv, SessionsLead, PortFileKept, procs
<1>9. PortFileOfLatest'
  <2>1. portFile[who[t]] \in Pids => portFile[who[t]] = child[t]
    BY <1>1 DEF StopInv, PortFileOfLatest
  <2>2. \A u \in Users \ {who[t]}, s \in Requests :
          pc[s] = "writepid" /\ who[s] = u => pc'[s] = "writepid"
    BY <1>3 DEF Threads
  <2> QED
    BY <1>2, <1>3, <2>1, <2>2 DEF StopInv, PortFileOfLatest, procs, Threads
<1>10. ServesUnlessLaunching'
  BY <1>2, <1>6, <1>7 DEF StopInv, ServesUnlessLaunching, procs
<1>11. StoppedByKill'
  BY <1>3, <1>5 DEF StopInv, StoppedByKill, Threads
<1>12. StoppedWhenGivenUp'
  <2>1. \A s \in Requests : GivenUp(s)' => GivenUp(s)
    BY <1>2, <1>3 DEF GivenUp, Threads
  <2>2. \A s \in Requests : answer[s].status # 0 => pc'[s] = "answered"
    BY <1>1, <1>3 DEF StopInv, StoppedWhenGivenUp, Threads
  <2> QED
    BY <1>2, <1>5, <2>1, <2>2 DEF StopInv, StoppedWhenGivenUp, Threads
<1>13. HookSignals'
  <2>1. pc'[Main] = pc[Main]
    BY <1>1, <1>3, ConstantsAssumption DEF Threads
  <2>2. sup = "up" /\ pc[Main] = "idle"
    BY <1>1 DEF SessionInv, HookAlone
  <2> QED
    BY <1>2, <2>1, <2>2 DEF StopInv, HookSignals, Signalling, hook
<1> QED
  BY <1>8, <1>9, <1>10, <1>11, <1>12, <1>13 DEF StopInv

\* A process goes on or dies, and nobody's thread does anything.
LEMMA ProcessMoves ==
  ASSUME StopInv, SessionInv', UNCHANGED <<pidFile, others>>, SessionsLead',
         PortFileOfLatest', PortFileKept',
         \A q \in Pids : Alive(q)' => Alive(q) /\ owner'[q] = owner[q],
         \A q \in Pids : Alive(q)' /\ q \in signalled => q \in signalled',
         \A q \in Pids, u \in Users : Unstopped(q, u)' /\ phase[q] = "serving" /\ portFile[u] = q =>
             phase'[q] = "serving" /\ portFile'[u] = q
  PROVE  StopInv'
<1>1. \A q \in Pids : \A u : Unstopped(q, u)' => Unstopped(q, u)
  BY DEF Unstopped
<1>2. \A u : Launching(u)' = Launching(u) /\ Entering(u)' = Entering(u)
  BY DEF Launching, Entering, others
<1>3. ServesUnlessLaunching'
  BY <1>1, <1>2 DEF StopInv, ServesUnlessLaunching, others, memory
<1>4. \A q \in Pids, s \in Requests : Unstopped(q, who[s])' => Unstopped(q, who[s])
  BY <1>1 DEF others, Unstopped
<1>5. StoppedByKill'
  BY <1>4 DEF StopInv, StoppedByKill, others
<1>6. \A s \in Requests : GivenUp(s)' = GivenUp(s)
  BY DEF GivenUp, others
<1>7. StoppedWhenGivenUp'
  BY <1>4, <1>6 DEF StopInv, StoppedWhenGivenUp, others
<1>8. HookSignals'
  <2>1. \A q \in Pids : Alive(q)' /\ q \notin signalled' => Alive(q) /\ q \notin signalled
    OBVIOUS
  <2>2. Signalling' = Signalling
    BY DEF Signalling, others
  <2> QED
    BY <1>1, <2>1, <2>2 DEF StopInv, HookSignals, others, hook
<1> QED
  BY <1>3, <1>5, <1>7, <1>8 DEF StopInv

\* A live backend is alone with its user's files: nobody else's process, and no thread
\* but its launch's, expects anything else in them.
LEMMA OwnFiles ==
  ASSUME SessionInv, NEW p \in Pids, Alive(p)
  PROVE  /\ owner[p] \in Users
         /\ \A q \in Pids : Alive(q) /\ owner[q] = owner[p] => q = p
         /\ \A t \in Requests : who[t] = owner[p] =>
              /\ pc[t] \notin {"password", "fork"}
              /\ pc[t] = "writepid" => child[t] = p
         /\ \/ pidFile[owner[p]] = p
            \/ \E t \in Requests : pc[t] = "writepid" /\ who[t] = owner[p]
<1>1. owner[p] \in Users /\ p \in children
  BY DEF SessionInv, ChildrenTracked, TypeInv, Alive, Starting, Started
<1>2. \A q \in Pids : Alive(q) /\ owner[q] = owner[p] => q = p
  BY SessionInvImplies DEF OneBackend
<1>3. \A t \in Requests : who[t] = owner[p] =>
        pc[t] \notin {"password", "fork"} /\ (pc[t] = "writepid" => child[t] = p)
  BY <1>1 DEF SessionInv, LaunchAlone
<1> QED
  BY <1>1, <1>2, <1>3, TheBackend

\* A death stops a process.
LEMMA DeathStops ==
  ASSUME StopInv, SessionInv', NEW p \in Pids, Alive(p), Dies(p), UNCHANGED <<files, others>>
  PROVE  StopInv'
<1>1. /\ SessionInv /\ phase \in [Pids -> Phases] /\ p \in children
  BY DEF StopInv, SessionInv, TypeInv, TypeOK, ChildrenTracked
<1>2. /\ phase'[p] = "zombie" /\ \A q \in Pids \ {p} : phase'[q] = phase[q]
      /\ group' = group /\ owner' = owner /\ signalled' = signalled \ {p}
  BY <1>1 DEF Dies
<1>3. ~Alive(p)' /\ \A q \in Pids \ {p} : Alive(q)' = Alive(q)
  BY <1>2 DEF Alive, Starting, Started
<1>4. SessionsLead' /\ PortFileKept'
  BY <1>2 DEF StopInv, SessionsLead, PortFileKept, Started, files
<1>5. PortFileOfLatest'
  BY <1>2 DEF StopInv, PortFileOfLatest, files, others
<1>6. \A q \in Pids, u \in Users : Unstopped(q, u)' /\ phase[q] = "serving" /\ portFile[u] = q =>
        phase'[q] = "serving" /\ portFile'[u] = q
  BY <1>2, <1>3 DEF Unstopped, files
<1> QED
  BY <1>2, <1>3, <1>4, <1>5, <1>6, ProcessMoves DEF files

\* A backend that starts is not stopped, and nobody takes it for stopped.
LEMMA ProcessStops ==
  ASSUME StopInv, SessionInv', NEW p \in Pids,
         StartUp(p) \/ SignalDelivered(p) \/ BackendExits(p)
  PROVE  StopInv'
<1>1. SessionInv /\ phase \in [Pids -> Phases] /\ portFile \in [Users -> Pids \cup {Absent, Empty}]
      /\ own \in [Pids -> Nat]
  BY DEF StopInv, SessionInv, TypeInv, TypeOK
<1>2. Alive(p)
  BY DEF StartUp, ChildTouchesPort, ChildLeadsGroup, BackendReadsPassword, BackendWritesPort,
         SignalDelivered, BackendExits, Alive, Starting, Started
<1>3. /\ owner[p] \in Users
      /\ \A q \in Pids : Alive(q) /\ owner[q] = owner[p] => q = p
      /\ \A t \in Requests : who[t] = owner[p] =>
           /\ pc[t] \notin {"password", "fork"}
           /\ pc[t] = "writepid" => child[t] = p
      /\ \/ pidFile[owner[p]] = p
         \/ \E t \in Requests : pc[t] = "writepid" /\ who[t] = owner[p]
  BY <1>1, <1>2, OwnFiles
<1>4. CASE Dies(p) /\ UNCHANGED <<files, others>>
  BY <1>2, <1>4, DeathStops
<1>5. CASE /\ phase[p] = "forked" /\ phase' = [phase EXCEPT ![p] = "touched"]
           /\ portFile' = [portFile EXCEPT ![owner[p]] = Empty]
           /\ UNCHANGED <<owner, group, signalled, pidFile, others>>
  <2>1. /\ phase'[p] = "touched" /\ \A q \in Pids \ {p} : phase'[q] = phase[q]
        /\ portFile'[owner[p]] = Empty
        /\ \A u \in Users \ {owner[p]} : portFile'[u] = portFile[u]
        /\ Empty \notin Pids /\ Empty # Absent
    BY <1>1, <1>3, <1>5, ConstantsAssumption
  <2>2. \A q \in Pids : Alive(q)' = Alive(q)
    BY <1>2, <2>1 DEF Alive, Starting, Started
  <2>3. SessionsLead' /\ PortFileKept'
    BY <1>5, <2>1 DEF StopInv, SessionsLead, PortFileKept, Started, SessionInv, TypeInv
  <2>4. PortFileOfLatest'
    BY <1>5, <2>1 DEF StopInv, PortFileOfLatest, others, SessionInv, TypeInv
  <2>5. \A q \in Pids, u \in Users :
          Unstopped(q, u)' /\ phase[q] = "serving" /\ portFile[u] = q =>
            phase'[q] = "serving" /\ portFile'[u] = q
    BY <1>3, <1>5, <2>1, <2>2 DEF Unstopped
  <2> QED
    BY <1>5, <2>2, <2>3, <2>4, <2>5, ProcessMoves
<1>6. CASE ChildLeadsGroup(p)
  <2>1. /\ phase'[p] = "session" /\ \A q \in Pids \ {p} : phase'[q] = phase[q]
        /\ phase[p] = "touched" /\ p \in group' /\ group \subseteq group'
        /\ UNCHANGED <<files, owner, signalled, others>>
    BY <1>1, <1>6 DEF ChildLeadsGroup
  <2>2. \A q \in Pids : Alive(q)' = Alive(q)
    BY <1>2, <2>1 DEF Alive, Starting, Started
  <2>3. SessionsLead' /\ PortFileKept'
    BY <2>1 DEF StopInv, SessionsLead, PortFileKept, files
  <2>4. PortFileOfLatest'
    BY <2>1 DEF StopInv, PortFileOfLatest, files, others
  <2>5. \A q \in Pids, u \in Users :
          Unstopped(q, u)' /\ phase[q] = "serving" /\ portFile[u] = q =>
            phase'[q] = "serving" /\ portFile'[u] = q
    BY <2>1 DEF files
  <2> QED
    BY <2>1, <2>2, <2>3, <2>4, <2>5, ProcessMoves DEF files
<1>7. CASE /\ phase[p] = "session" /\ phase' = [phase EXCEPT ![p] = "ready"]
           /\ UNCHANGED <<files, owner, group, signalled, others>>
  <2>1. phase'[p] = "ready" /\ \A q \in Pids \ {p} : phase'[q] = phase[q]
    BY <1>1, <1>7
  <2>2. \A q \in Pids : Alive(q)' = Alive(q)
    BY <1>2, <2>1 DEF Alive, Starting, Started
  <2>3. SessionsLead' /\ PortFileKept'
    BY <1>7, <2>1 DEF StopInv, SessionsLead, PortFileKept, files, Started
  <2>4. PortFileOfLatest'
    BY <1>7, <2>1 DEF StopInv, PortFileOfLatest, files, others
  <2>5. \A q \in Pids, u \in Users :
          Unstopped(q, u)' /\ phase[q] = "serving" /\ portFile[u] = q =>
            phase'[q] = "serving" /\ portFile'[u] = q
    BY <1>7, <2>1 DEF files
  <2> QED
    BY <1>7, <2>2, <2>3, <2>4, <2>5, ProcessMoves DEF files
<1>8. CASE BackendWritesPort(p)
  <2>1. portFile[owner[p]] # Absent
    BY <1>8 DEF StopInv, PortFileKept, BackendWritesPort
  <2>2. /\ phase'[p] = "serving" /\ \A q \in Pids \ {p} : phase'[q] = phase[q]
        /\ phase[p] = "ready" /\ portFile'[owner[p]] = p
        /\ \A u \in Users \ {owner[p]} : portFile'[u] = portFile[u]
        /\ UNCHANGED <<pidFile, owner, group, signalled, others>>
        /\ p # Absent
    BY <1>1, <1>3, <1>8, <2>1, ConstantsAssumption DEF BackendWritesPort
  <2>3. \A q \in Pids : Alive(q)' = Alive(q)
    BY <1>2, <2>2 DEF Alive, Starting, Started
  <2>4. SessionsLead' /\ PortFileKept'
    BY <2>2 DEF StopInv, SessionsLead, PortFileKept, Started, SessionInv, TypeInv
  <2>5. PortFileOfLatest'
    <3>1. ASSUME NEW t \in Requests
          PROVE  /\ pc'[t] \in {"password", "fork"} => portFile'[who'[t]] \notin Pids
                 /\ pc'[t] = "writepid" /\ portFile'[who'[t]] \in Pids =>
                      portFile'[who'[t]] = child'[t]
      <4>1. UNCHANGED <<pc, who, child>>
        BY <2>2 DEF others
      <4>2. CASE who[t] = owner[p]
        BY <1>3, <2>2, <4>1, <4>2
      <4>3. CASE who[t] # owner[p] /\ pc[t] # "idle"
        <5>1. portFile'[who[t]] = portFile[who[t]]
          BY <1>1, <2>2, <4>3 DEF SessionInv, TypeInv
        <5> QED
          BY <4>1, <5>1 DEF StopInv, PortFileOfLatest
      <4> QED
        BY <4>1, <4>2, <4>3
    <3>2. ASSUME NEW u \in Users, portFile'[u] \in Pids
          PROVE  /\ phase'[portFile'[u]] \in {"serving", "portless", "zombie", "gone"}
                 /\ \/ portFile'[u] = pidFile'[u]
                    \/ \E s \in Requests : pc'[s] = "writepid" /\ who'[s] = u
      <4>1. UNCHANGED <<pc, who, pidFile>>
        BY <2>2 DEF others
      <4>2. CASE u = owner[p]
        BY <1>3, <2>2, <4>1, <4>2
      <4>3. CASE u # owner[p]
        BY <2>2, <3>2, <4>1, <4>3 DEF StopInv, PortFileOfLatest
      <4> QED
        BY <4>2, <4>3
    <3> QED
      BY <3>1, <3>2 DEF PortFileOfLatest
  <2>6. \A q \in Pids, u \in Users :
          Unstopped(q, u)' /\ phase[q] = "serving" /\ portFile[u] = q =>
            phase'[q] = "serving" /\ portFile'[u] = q
    BY <1>3, <2>2, <2>3 DEF Unstopped
  <2> QED
    BY <2>2, <2>3, <2>4, <2>5, <2>6, ProcessMoves
<1> QED
  <2>1. CASE ChildTouchesPort(p)
    BY <1>4, <1>5, <2>1 DEF ChildTouchesPort, files
  <2>2. CASE BackendReadsPassword(p)
    BY <1>4, <1>7, <2>2 DEF BackendReadsPassword
  <2>3. CASE SignalDelivered(p) \/ BackendExits(p)
    BY <1>4, <2>3 DEF SignalDelivered, BackendExits
  <2> QED
    BY <1>6, <1>8, <2>1, <2>2, <2>3 DEF StartUp

\* The hook goes on: for the threads of the requests nothing happens.
LEMMA HookMoves ==
  ASSUME StopInv, SessionInv', Calm, UNCHANGED <<instances, child, answer>>, HookSignals',
         \A t \in Requests : pc'[t] = pc[t] /\ who'[t] = who[t]
  PROVE  StopInv'
<1>1. \A u \in Users : Launching(u)' = Launching(u) /\ Entering(u)' = Entering(u)
  BY DEF Launching, Entering
<1>2. ServesUnlessLaunching'
  BY <1>1, CalmStops DEF StopInv, ServesUnlessLaunching, Calm
<1>3. \A t \in Requests : pc[t] # "idle" => who[t] \in Users
  BY DEF StopInv, SessionInv, TypeInv
<1>4. \A t \in Requests, p \in Pids :
        pc[t] # "idle" /\ ~Unstopped(p, who[t]) => ~Unstopped(p, who[t])'
  <2> SUFFICES ASSUME NEW t \in Requests, NEW p \in Pids, pc[t] # "idle", Unstopped(p, who[t])'
               PROVE  Unstopped(p, who[t])
    OBVIOUS
  <2>1. who[t] \in Users /\ who'[t] = who[t]
    BY <1>3
  <2> QED
    BY <2>1, CalmStops
<1>5. StoppedByKill'
  BY <1>4 DEF StopInv, StoppedByKill
<1>6. \A t \in Requests : GivenUp(t)' = GivenUp(t) /\ (GivenUp(t) => pc[t] # "idle")
  BY DEF GivenUp, StopInv, StoppedWhenGivenUp
<1>7. StoppedWhenGivenUp'
  BY <1>4, <1>6 DEF StopInv, StoppedWhenGivenUp
<1>8. PortFileOfLatest'
  BY CalmStops DEF StopInv, PortFileOfLatest, Calm
<1> QED
  BY <1>2, <1>5, <1>7, <1>8, CalmStops DEF StopInv

\* When no request is being served, a backend that is not stopped is found by the hook.
LEMMA HookFinds ==
  ASSUME StopInv, sup # "up", NEW u \in Users, NEW p \in Pids, Unstopped(p, u)
  PROVE  u \in instances /\ pidFile[u] = p /\ p \in children /\ p \in group
<1>1. \A t \in Requests : pc[t] \in {"idle", "answered"}
  BY DEF StopInv, SessionInv, HookAlone
<1>2. ~Launching(u) /\ ~Entering(u)
  BY <1>1 DEF Launching, Entering
<1>3. u \in instances /\ phase[p] = "serving"
  BY <1>2 DEF StopInv, ServesUnlessLaunching
<1>4. pidFile[u] = p /\ p \in children
  BY <1>1, TheBackend DEF StopInv, Unstopped
<1> QED
  BY <1>3, <1>4 DEF StopInv, SessionsLead, Started

\* The hook removes the files of a session it has seen end.
LEMMA HookCleanup ==
  ASSUME StopInv, SessionInv', Cleanup(Main)
  PROVE  StopInv'
<1>1. /\ SessionInv /\ TypeInv /\ sup # "up" /\ pc[Main] = "cleanup" /\ who[Main] \in Users
      /\ Main \in Threads /\ Main \notin Requests /\ Absent \notin Pids
      /\ \A t \in Requests : pc[t] \in {"idle", "answered"}
  BY ConstantsAssumption DEF StopInv, SessionInv, HookAlone, TypeInv, Cleanup, Threads
<1>2. /\ UNCHANGED <<memory, procs, who, child, answer, hook>>
      /\ pc' = [pc EXCEPT ![Main] = "next"]
      /\ portFile' = [portFile EXCEPT ![who[Main]] = Absent]
      /\ pidFile' = [pidFile EXCEPT ![who[Main]] = NoPid]
  BY <1>1 DEF Cleanup, Goto, AfterKill
<1>3. /\ pc'[Main] = "next" /\ \A t \in Requests : pc'[t] = pc[t]
      /\ portFile'[who[Main]] = Absent /\ pidFile'[who[Main]] = NoPid
      /\ \A u \in Users \ {who[Main]} : portFile'[u] = portFile[u] /\ pidFile'[u] = pidFile[u]
  BY <1>1, <1>2 DEF TypeInv, TypeOK, Threads
<1>4. \A p \in Pids : Alive(p) => owner[p] # who[Main]
  BY <1>1, NoneAlive DEF SessionInv, CleanupOfReaped
<1>5. \A p \in Pids : Alive(p)' = Alive(p) /\ \A u : Unstopped(p, u)' = Unstopped(p, u)
  BY <1>2 DEF procs, Alive, Unstopped
<1>6. SessionsLead'
  BY <1>2 DEF StopInv, SessionsLead, procs
<1>7. PortFileKept'
  BY <1>1, <1>2, <1>3, <1>4 DEF StopInv, PortFileKept, procs, Alive, Starting, Started, TypeInv
<1>8. PortFileOfLatest'
  BY <1>1, <1>2, <1>3 DEF StopInv, PortFileOfLatest, procs
<1>9. \A u : Launching(u)' = Launching(u) /\ Entering(u)' = Entering(u)
  BY <1>2, <1>3 DEF Launching, Entering
<1>10. ServesUnlessLaunching'
  BY <1>2, <1>3, <1>4, <1>5, <1>9 DEF StopInv, ServesUnlessLaunching, procs, memory, Unstopped
<1>11. StoppedByKill'
  BY <1>1, <1>3 DEF StoppedByKill
<1>12. StoppedWhenGivenUp'
  <2>1. \A t \in Requests : GivenUp(t)' = GivenUp(t)
    BY <1>2, <1>3 DEF GivenUp
  <2> QED
    BY <1>2, <1>3, <1>5, <2>1 DEF StopInv, StoppedWhenGivenUp
<1>13. HookSignals'
  <2>1. \A p \in Pids : ~Unstopped(p, who[Main])
    BY <1>4 DEF Unstopped
  <2> QED
    BY <1>1, <1>2, <1>3, <1>5, <2>1, ConstantsAssumption
       DEF StopInv, HookSignals, Signalling, hook, procs, TypeInv, TypeOK
<1> QED
  BY <1>6, <1>7, <1>8, <1>10, <1>11, <1>12, <1>13 DEF StopInv

\* The hook signals every backend in its first pass, before it waits for any.
LEMMA HookStops ==
  ASSUME Serial, StopInv, ShutdownBegins \/ Shutdown
  PROVE  StopInv'
<1>1. SessionInv /\ SessionInv' /\ TypeInv
  BY HookSession DEF StopInv, SessionInv
<1>2. /\ Main \in Threads /\ Main \notin Requests /\ NoPid \notin Pids
      /\ pc \in [Threads -> RequestLabels \cup HookLabels]
      /\ who \in [Threads -> Users \cup {NoUser}] /\ phase \in [Pids -> Phases]
      /\ children \subseteq Pids /\ pass \in {"TERM", "KILL"}
      /\ \A t \in Requests : t \in Threads
  BY <1>1, ConstantsAssumption DEF TypeInv, TypeOK, Threads
<1>3. ASSUME Calm, \A u \in Users, p \in Pids : ~Unstopped(p, u)
      PROVE  \A p \in Pids : Alive(p)' => p \in signalled'
  <2> SUFFICES ASSUME NEW p \in Pids, Alive(p)', p \notin signalled' PROVE FALSE
    OBVIOUS
  <2>1. Alive(p) /\ p \notin signalled
    BY <1>3, CalmStops DEF Calm
  <2>2. owner[p] \in Users
    BY <1>1, <2>1 DEF TypeInv, Alive, Starting, Started
  <2> QED
    BY <1>3, <2>1, <2>2 DEF Unstopped
<1>4. ASSUME Calm, \A p \in Pids : Alive(p) => p \in signalled
      PROVE  \A p \in Pids : Alive(p)' => p \in signalled'
  BY <1>4, CalmStops DEF Calm
<1>5. ASSUME UNCHANGED <<pidFile, portFile, procs>> PROVE Calm
  BY <1>5, SameCalm
<1>6. CASE ShutdownBegins
  <2>1. Calm
    BY <1>5, <1>6 DEF ShutdownBegins, files
  <2>2. pc'[Main] = "select" /\ pass # "KILL" /\ sup' = "exiting" /\ pass' = pass
    BY <1>2, <1>6 DEF ShutdownBegins, StopInv, HookSignals
  <2>3. HookSignals'
    BY <2>2 DEF HookSignals, Signalling
  <2> QED
    BY <1>1, <1>2, <1>6, <2>1, <2>3, HookMoves DEF ShutdownBegins, memory
<1>7. ASSUME Shutdown PROVE sup = "exiting"
  <2>1. pc[Main] # "idle"
    BY <1>7 DEF Shutdown, Select, KillNext, AllSignalled, KillSession, Kill, CheckKilled,
       Cleanup, WaitNext, WaitForVictim, AllWaitedFor, PassEnds
  <2> QED
    BY <1>1, <2>1 DEF SessionInv, HookAlone
<1>8. CASE Select
  <2>1. Calm
    BY <1>2, <1>8 DEF Select, Calm, files, Started
  <2>2. pc'[Main] = "next" /\ todo' = {u \in instances : Running(u)}
        /\ UNCHANGED <<pass, sup, who, pidFile>>
    BY <1>2, <1>8 DEF Select, files
  <2>3. \A u \in Users, p \in Pids : Unstopped(p, u)' => u \in todo'
    BY <1>7, <1>8, <2>1, <2>2, HookFinds, CalmStops DEF Running, Shutdown
  <2>4. \A u \in todo' : pidFile'[u] # NoPid
    BY <1>2, <2>2 DEF Running
  <2>5. pass' = "KILL" \/ sup' = "down" => \A p \in Pids : Alive(p)' => p \in signalled'
    BY <1>4, <2>1, <2>2 DEF StopInv, HookSignals
  <2>6. HookSignals'
    BY <1>7, <1>8, <2>2, <2>3, <2>4, <2>5 DEF HookSignals, Shutdown
  <2> QED
    BY <1>1, <1>2, <1>8, <2>1, <2>6, HookMoves DEF Select, memory
<1>9. CASE KillNext
  <2>1. Calm
    BY <1>5, <1>9 DEF KillNext, files
  <2>2. PICK u \in todo : who' = [who EXCEPT ![Main] = u] /\ todo' = todo \ {u}
    BY <1>9 DEF KillNext
  <2>3. pc'[Main] = "kill" /\ who'[Main] = u /\ UNCHANGED <<pass, sup, pidFile>>
        /\ \A t \in Requests : pc'[t] = pc[t] /\ who'[t] = who[t]
    BY <1>2, <1>9, <2>2 DEF KillNext, files
  <2>4. pass' = "KILL" \/ sup' = "down" => \A p \in Pids : Alive(p)' => p \in signalled'
    BY <1>4, <2>1, <2>3 DEF StopInv, HookSignals
  <2>5. \A v \in Users, p \in Pids : Unstopped(p, v)' => v \in todo' \/ v = who'[Main]
    BY <1>9, <2>1, <2>2, <2>3, CalmStops DEF KillNext, StopInv, HookSignals, Signalling
  <2>6. HookSignals'
    <3>1. \A v \in todo : pidFile[v] # NoPid
      BY <1>9 DEF KillNext, StopInv, HookSignals, Signalling
    <3> QED
      BY <1>7, <1>9, <2>2, <2>3, <2>4, <2>5, <3>1 DEF HookSignals, Signalling, Shutdown
  <2> QED
    BY <1>1, <1>9, <2>1, <2>3, <2>6, HookMoves DEF KillNext, memory
<1>10. CASE AllSignalled
  <2>1. Calm
    BY <1>5, <1>10 DEF AllSignalled, files
  <2>2. pc'[Main] = "wait" /\ UNCHANGED <<pass, sup>>
        /\ \A t \in Requests : pc'[t] = pc[t] /\ who'[t] = who[t]
    BY <1>2, <1>10 DEF AllSignalled, hookUnchanged
  <2>3. \A u \in Users, p \in Pids : ~Unstopped(p, u)
    BY <1>10 DEF AllSignalled, StopInv, HookSignals, Signalling
  <2>4. HookSignals'
    BY <1>3, <1>7, <1>10, <2>1, <2>2, <2>3 DEF HookSignals, Signalling, Shutdown
  <2> QED
    BY <1>1, <1>10, <2>1, <2>2, <2>4, HookMoves DEF AllSignalled, hookUnchanged, memory
<1>11. CASE Kill(Main)
  <2>1. Calm
    BY <1>11, SignalCalm DEF Kill
  <2>2. pc[Main] = "kill" /\ pidFile[who[Main]] # NoPid
    BY <1>11 DEF Kill, StopInv, HookSignals
  <2>3. Goto(Main, "check")
    BY <1>11, <2>2 DEF Kill
  <2>4. pc'[Main] = "check" /\ UNCHANGED <<pass, sup, todo, who, child, answer, pidFile>>
        /\ \A t \in Requests : pc'[t] = pc[t]
    BY <1>2, <1>11, <2>3 DEF Goto, hook, Kill, files
  <2>5. pass' = "KILL" \/ sup' = "down" => \A p \in Pids : Alive(p)' => p \in signalled'
    BY <1>4, <2>1, <2>4 DEF StopInv, HookSignals
  <2>6. \A v \in Users, p \in Pids : Unstopped(p, v)' => v \in todo'
    <3> SUFFICES ASSUME NEW v \in Users, NEW p \in Pids, Unstopped(p, v)', v \notin todo'
                 PROVE  FALSE
      OBVIOUS
    <3>1. Unstopped(p, v) /\ p \notin signalled'
      BY <2>1, CalmStops DEF Unstopped
    <3>2. v = who[Main]
      BY <2>2, <2>4, <3>1 DEF StopInv, HookSignals, Signalling
    <3>3. pidFile[v] = p /\ p \in group
      BY <1>7, <1>11, <3>1, HookFinds DEF Shutdown, KillSession
    <3> QED
      BY <1>11, <3>1, <3>2, <3>3 DEF Kill, Signal, Unstopped
  <2>7. HookSignals'
    BY <1>7, <1>11, <2>2, <2>4, <2>5, <2>6
       DEF HookSignals, Signalling, Shutdown, KillSession, StopInv
  <2> QED
    BY <1>1, <1>11, <2>1, <2>4, <2>7, HookMoves DEF Kill, memory
<1>12. CASE CheckKilled(Main)
  <2>1. Calm
    BY <1>1, <1>12, WaitPidCalm DEF CheckKilled
  <2>2. /\ pc'[Main] \in {"next", "cleanup"}
        /\ UNCHANGED <<pass, sup, todo, who, child, answer, pidFile>>
        /\ \A t \in Requests : pc'[t] = pc[t]
    BY <1>2, <1>12 DEF CheckKilled, Goto, hook, AfterKill, files
  <2>3. pass' = "KILL" \/ sup' = "down" => \A p \in Pids : Alive(p)' => p \in signalled'
    BY <1>4, <2>1, <2>2 DEF StopInv, HookSignals
  <2>4. \A v \in Users, p \in Pids : Unstopped(p, v)' => v \in todo'
    BY <1>12, <2>1, <2>2, CalmStops DEF CheckKilled, StopInv, HookSignals, Signalling
  <2>5. HookSignals'
    BY <1>7, <1>12, <2>2, <2>3, <2>4
       DEF CheckKilled, HookSignals, Signalling, Shutdown, KillSession, StopInv
  <2> QED
    BY <1>1, <1>12, <2>1, <2>2, <2>5, HookMoves DEF CheckKilled, memory
<1>13. CASE Cleanup(Main)
  BY <1>1, <1>13, HookCleanup
<1>14. ASSUME Calm, pc[Main] \in {"wait", "waiting", "passed"}, sup' # "up",
              pc'[Main] \in {"wait", "waiting", "passed", "select", "idle"},
              UNCHANGED <<instances, child, answer>>,
              \A t \in Requests : pc'[t] = pc[t] /\ who'[t] = who[t]
       PROVE  StopInv'
  <2>1. \A p \in Pids : Alive(p)' => p \in signalled'
    BY <1>4, <1>14 DEF StopInv, HookSignals
  <2>2. HookSignals'
    BY <1>14, <2>1 DEF HookSignals, Signalling
  <2> QED
    BY <1>1, <1>14, <2>2, HookMoves
<1>15. CASE WaitNext
  <2>1. Calm
    BY <1>5, <1>15 DEF WaitNext, files
  <2> QED
    BY <1>2, <1>7, <1>14, <1>15, <2>1 DEF WaitNext, Shutdown, memory
<1>16. CASE WaitForVictim
  <2>1. Calm
    BY <1>1, <1>16, WaitPidCalm DEF WaitForVictim
  <2> QED
    BY <1>2, <1>7, <1>14, <1>16, <2>1 DEF WaitForVictim, Shutdown, memory, Goto, hook
<1>17. CASE AllWaitedFor
  <2>1. Calm
    BY <1>5, <1>17 DEF AllWaitedFor, files
  <2> QED
    BY <1>2, <1>7, <1>14, <1>17, <2>1 DEF AllWaitedFor, Shutdown, memory, Goto, hook
<1>18. CASE PassEnds
  <2>1. Calm
    BY <1>5, <1>18 DEF PassEnds, files
  <2>2. sup' # "up" /\ pc'[Main] \in {"select", "idle"} /\ pc[Main] = "passed"
    BY <1>2, <1>7, <1>18 DEF PassEnds, Shutdown
  <2> QED
    BY <1>2, <1>14, <1>18, <2>1, <2>2 DEF PassEnds, memory
<1> QED
  BY <1>6, <1>8, <1>9, <1>10, <1>11, <1>12, <1>13, <1>15, <1>16, <1>17, <1>18
     DEF Shutdown, KillSession

\* StopInv is inductive while one user's requests take turns and setsid is prompt.
LEMMA NextStopInv == Serial /\ PromptSetsid /\ StopInv /\ [Next]_vars => StopInv'
<1> SUFFICES ASSUME Serial, PromptSetsid, StopInv, [Next]_vars PROVE StopInv'
  OBVIOUS
<1>1. SessionInv'
  BY NextSessionInv DEF StopInv
<1>2. CASE UNCHANGED vars
  BY <1>1, <1>2 DEF StopInv, SessionsLead, PortFileOfLatest, PortFileKept,
     ServesUnlessLaunching, StoppedByKill, StoppedWhenGivenUp, GivenUp, HookSignals,
     Signalling, Unstopped, Alive, Launching, Entering, vars, files, memory, procs, hook
<1>3. ASSUME NEW t \in Requests,
             \/ \E u \in Users : PostArrives(t, u) \/ DeleteArrives(t, u)
             \/ Post(t) \/ Delete(t) \/ Receive(t)
      PROVE  StopInv'
  BY <1>1, <1>3, ArrivalStops, CalmRequestStops, DirectoryStops, WritePasswordStops,
     ForkStops, WritePidStops DEF Post, Delete, KillSession
<1>4. ASSUME NEW p \in Pids, StartUp(p) \/ SignalDelivered(p) \/ BackendExits(p)
      PROVE  StopInv'
  BY <1>1, <1>4, ProcessStops
<1>5. CASE ShutdownBegins \/ Shutdown
  BY <1>5, HookStops
<1>6. ~SupervisorDies
  BY DEF SupervisorDies, Serial
<1> QED
  BY <1>2, <1>3, <1>4, <1>5, <1>6 DEF Next

\* What StopInv says of the hook.
LEMMA StopInvImplies == StopInv => ShutdownLeavesNone /\ WaitEnds
<1> SUFFICES ASSUME StopInv PROVE ShutdownLeavesNone /\ WaitEnds
  OBVIOUS
<1>1. ShutdownLeavesNone
  BY DEF StopInv, HookSignals, ShutdownLeavesNone
<1>2. WaitEnds
  BY DEF StopInv, HookSignals, WaitEnds, SessionInv, TypeInv, TypeOK
<1> QED
  BY <1>1, <1>2

\* When the API has exited, every backend that still lives was signalled: the hook
\* found each by way of instances and of its pid file.
THEOREM ShutdownStopsAll ==
  ASSUME Serial, PromptSetsid
  PROVE  Spec => []ShutdownLeavesNone
<1>1. StopInv /\ [Next]_vars => StopInv'
  BY NextStopInv
<1> QED
  BY <1>1, InitStopInv, StopInvImplies, PTL DEF Spec

\* The hook blocks in Process.wait for nobody but a child that was signalled.
THEOREM HookWaitsForSignalled ==
  ASSUME Serial, PromptSetsid
  PROVE  Spec => []WaitEnds
<1>1. StopInv /\ [Next]_vars => StopInv'
  BY NextStopInv
<1> QED
  BY <1>1, InitStopInv, StopInvImplies, PTL DEF Spec

-----------------------------------------------------------------------------
(* The password file, the cookies and the ports: what a step can do to them. *)

Served == {"serving", "portless", "zombie", "gone"}

\* A request's step is its own thread's; it starts a process only by fork, writes the
\* password file only while its user has no live backend, and answers with the password
\* in the file.
LEMMA RequestEffects ==
  ASSUME Serial, SessionInv, NEW t \in Requests,
         \/ \E u \in Users : PostArrives(t, u) \/ DeleteArrives(t, u)
         \/ Post(t) \/ Delete(t) \/ Receive(t)
  PROVE  /\ \A s \in Requests \ {t} :
              pc'[s] = pc[s] /\ who'[s] = who[s] /\ answer'[s] = answer[s]
         /\ \A p \in Pids :
              /\ phase'[p] \in {"ready", "serving", "portless"} =>
                   phase[p] = phase'[p] /\ own'[p] = own[p] /\ owner'[p] = owner[p]
              /\ phase[p] \in Served => phase'[p] \in Served
              /\ Alive(p)' => \/ Alive(p) /\ owner'[p] = owner[p]
                              \/ pc[t] = "fork" /\ owner'[p] = who[t]
              /\ p \in signalled => p \in signalled'
         /\ \/ UNCHANGED pwFile
            \/ /\ pc[t] \in {"prepare", "password", "cleanup"} /\ UNCHANGED procs
               /\ \A u \in Users \ {who[t]} : pwFile'[u] = pwFile[u]
         /\ answer'[t].cookie = "set" =>
              \/ pc[t] = "answered" /\ pc'[t] = "answered" /\ answer'[t] = answer[t]
              \/ /\ pc[t] \notin {"idle", "answered"} /\ pc'[t] = "answered"
                 /\ answer'[t].password = pwFile[who[t]] /\ UNCHANGED <<pwFile, procs>>
              \/ answer'[t] = answer[t] /\ pc[t] # "answered"
         /\ pc[t] \notin {"idle", "answered"} => who'[t] = who[t] /\ pc'[t] # "idle"
         /\ pc[t] = "idle" => who'[t] \in Users /\ pc'[t] # "idle"
         /\ pc[t] = "answered" => Receive(t)
<1> USE ConstantsAssumption
    DEF SessionInv, Threads, Goto, Answer, Fail, files, memory, procs, hook, Alive, Starting,
        Started, TypeInv, TypeOK, Served
<1>1. CASE \E u \in Users : PostArrives(t, u) \/ DeleteArrives(t, u)
  BY <1>1 DEF PostArrives, DeleteArrives, Arrives, Serial
<1>2. CASE PortMissing(t)
  BY <1>2 DEF PortMissing
<1>3. CASE PortPresent(t)
  BY <1>3 DEF PortPresent
<1>4. CASE Reuse(t)
  BY <1>4 DEF Reuse
<1>5. CASE Prepare(t)
  BY <1>5 DEF Prepare
<1>6. CASE WritePassword(t)
  BY <1>6 DEF WritePassword
<1>7. CASE DirectoryLost(t)
  BY <1>7 DEF DirectoryLost
<1>8. CASE WritePid(t)
  BY <1>8 DEF WritePid
<1>9. CASE PollPort(t)
  BY <1>9 DEF PollPort
<1>10. CASE WakeInTime(t)
  BY <1>10 DEF WakeInTime
<1>11. CASE Overdue(t)
  BY <1>11 DEF Overdue, Signal
<1>12. CASE Created(t)
  BY <1>12 DEF Created
<1>13. CASE Forget(t)
  BY <1>13 DEF Forget
<1>14. CASE Receive(t)
  BY <1>14 DEF Receive, Pending
<1>15. CASE Broken(t)
  BY <1>15 DEF Broken, Running, WaitPid
<1>16. CASE FindSession(t)
  BY <1>16 DEF FindSession, Running, WaitPid
<1>17. CASE ReapChild(t)
  BY <1>17 DEF ReapChild, WaitPid
<1>18. CASE Launched(t)
  BY <1>18 DEF Launched, Running, WaitPid
<1>19. CASE DeleteFinds(t)
  BY <1>19 DEF DeleteFinds, Running, WaitPid
<1>20. CASE DeleteAnswers(t)
  BY <1>20 DEF DeleteAnswers, Running, WaitPid
<1>21. CASE Fork(t)
  BY <1>21 DEF Fork, Free, Serial
<1>22. CASE Kill(t)
  BY <1>22 DEF Kill, Signal
<1>23. CASE CheckKilled(t)
  BY <1>23 DEF CheckKilled, Running, WaitPid, AfterKill
<1>24. CASE Cleanup(t)
  BY <1>24 DEF Cleanup, AfterKill
<1> QED
  BY <1>1, <1>2, <1>3, <1>4, <1>5, <1>6, <1>7, <1>8, <1>9, <1>10, <1>11, <1>12, <1>13,
     <1>14, <1>15, <1>16, <1>17, <1>18, <1>19, <1>20, <1>21, <1>22, <1>23, <1>24
     DEF Post, Delete, KillSession

\* A process starts, listens or dies, each on its own; it reads the password in the file.
LEMMA ProcessEffects ==
  ASSUME SessionInv, NEW q \in Pids,
         StartUp(q) \/ SignalDelivered(q) \/ BackendExits(q)
  PROVE  /\ UNCHANGED <<pc, who, answer, pwFile, owner>>
         /\ \A p \in Pids :
              /\ phase'[p] \in {"ready", "serving"} =>
                   \/ phase[p] \in {"ready", "serving"} /\ own'[p] = own[p]
                   \/ own'[p] = pwFile[owner[p]] /\ own'[p] # NoPassword
              /\ phase[p] \in Served => phase'[p] \in Served
              /\ Alive(p)' => Alive(p) /\ (p \in signalled => p \in signalled')
              /\ Listening(p)' => Listening(p) \/ (p = q /\ phase[p] = "ready")
<1> USE ConstantsAssumption
    DEF SessionInv, files, others, Alive, Starting, Started, TypeInv, TypeOK, Served,
        Dies, Listening
<1>1. CASE ChildTouchesPort(q)
  BY <1>1 DEF ChildTouchesPort
<1>2. CASE ChildLeadsGroup(q)
  BY <1>2 DEF ChildLeadsGroup
<1>3. CASE BackendReadsPassword(q)
  BY <1>3 DEF BackendReadsPassword
<1>4. CASE BackendWritesPort(q)
  BY <1>4 DEF BackendWritesPort
<1>5. CASE SignalDelivered(q)
  BY <1>5 DEF SignalDelivered
<1>6. CASE BackendExits(q)
  BY <1>6 DEF BackendExits
<1> QED
  BY <1>1, <1>2, <1>3, <1>4, <1>5, <1>6 DEF StartUp

\* The hook starts nothing, and clears a password file only when its user has no backend.
LEMMA HookEffects ==
  ASSUME SessionInv, ShutdownBegins \/ Shutdown
  PROVE  /\ \A t \in Requests : pc'[t] = pc[t] /\ who'[t] = who[t] /\ answer'[t] = answer[t]
         /\ owner' = owner /\ own' = own
         /\ \A p \in Pids :
              /\ phase'[p] \in {"ready", "serving", "portless"} => phase[p] = phase'[p]
              /\ phase[p] \in Served => phase'[p] \in Served
              /\ Alive(p)' => Alive(p) /\ (p \in signalled => p \in signalled')
         /\ \/ UNCHANGED pwFile
            \/ /\ pc[Main] = "cleanup" /\ UNCHANGED procs
               /\ \A u \in Users \ {who[Main]} : pwFile'[u] = pwFile[u]
<1> USE ConstantsAssumption
    DEF SessionInv, Threads, Goto, files, memory, procs, hook, hookUnchanged, Alive, Starting,
        Started, TypeInv, TypeOK, Served
<1>1. CASE ShutdownBegins
  BY <1>1 DEF ShutdownBegins
<1>2. CASE Select
  BY <1>2 DEF Select
<1>3. CASE KillNext
  BY <1>3 DEF KillNext
<1>4. CASE AllSignalled
  BY <1>4 DEF AllSignalled
<1>5. CASE WaitNext
  BY <1>5 DEF WaitNext
<1>6. CASE WaitForVictim
  BY <1>6 DEF WaitForVictim, WaitPid
<1>7. CASE AllWaitedFor
  BY <1>7 DEF AllWaitedFor
<1>8. CASE PassEnds
  BY <1>8 DEF PassEnds
<1>9. CASE Kill(Main)
  BY <1>9 DEF Kill, Signal, Fail
<1>10. CASE CheckKilled(Main)
  BY <1>10 DEF CheckKilled, WaitPid
<1>11. CASE Cleanup(Main)
  BY <1>11 DEF Cleanup
<1> QED
  BY <1>1, <1>2, <1>3, <1>4, <1>5, <1>6, <1>7, <1>8, <1>9, <1>10, <1>11
     DEF Shutdown, KillSession

\* A backend that has read its password has read the one in the file, which stays there
\* as long as the backend lives.
PasswordRead ==
    \A p \in Pids : phase[p] \in {"ready", "serving"} =>
        own[p] = pwFile[owner[p]] /\ own[p] # NoPassword

\* The password of a user whose thread's work is not a launch changes only without a
\* live backend.
LEMMA PasswordFileKept ==
  ASSUME Serial, SessionInv, [Next]_vars, NEW p \in Pids, Alive(p)'
  PROVE  /\ owner[p] = owner'[p] => pwFile'[owner[p]] = pwFile[owner[p]]
         /\ UNCHANGED procs \/ UNCHANGED pwFile
<1>1. CASE UNCHANGED vars
  BY <1>1 DEF vars, files, procs
<1>2. ASSUME NEW t \in Requests,
             \/ \E u \in Users : PostArrives(t, u) \/ DeleteArrives(t, u)
             \/ Post(t) \/ Delete(t) \/ Receive(t)
      PROVE  /\ owner[p] = owner'[p] => pwFile'[owner[p]] = pwFile[owner[p]]
             /\ UNCHANGED procs \/ UNCHANGED pwFile
  <2>1. CASE UNCHANGED pwFile
    BY <2>1
  <2>2. CASE /\ pc[t] \in {"prepare", "password", "cleanup"} /\ UNCHANGED procs
             /\ \A u \in Users \ {who[t]} : pwFile'[u] = pwFile[u]
    <3>1. Alive(p) /\ p \in children /\ owner[p] \in Users
      <4>1. Alive(p)
        BY <2>2 DEF Alive, procs
      <4> QED
        BY <4>1 DEF SessionInv, ChildrenTracked, TypeInv, Alive, Starting, Started
    <3>2. owner[p] # who[t]
      <4>1. CASE pc[t] = "cleanup"
        <5>1. t \in Threads /\ who[t] \in Users /\ pidFile[who[t]] \notin children
          BY <4>1 DEF Threads, SessionInv, TypeInv, CleanupOfReaped
        <5> QED
          BY <3>1, <4>1, <5>1, NoneAlive
      <4>2. CASE pc[t] # "cleanup"
        BY <2>2, <3>1, <4>2 DEF SessionInv, LaunchAlone
      <4> QED
        BY <4>1, <4>2
    <3> QED
      BY <2>2, <3>1, <3>2
  <2> QED
    BY <1>2, <2>1, <2>2, RequestEffects
<1>3. ASSUME NEW q \in Pids, StartUp(q) \/ SignalDelivered(q) \/ BackendExits(q)
      PROVE  UNCHANGED pwFile
  BY <1>3, ProcessEffects
<1>4. CASE ShutdownBegins \/ Shutdown
  <2>1. CASE UNCHANGED pwFile
    BY <2>1
  <2>2. CASE /\ pc[Main] = "cleanup" /\ UNCHANGED procs
             /\ \A u \in Users \ {who[Main]} : pwFile'[u] = pwFile[u]
    <3>1. Alive(p)
      BY <2>2 DEF Alive, procs
    <3>2. Main \in Threads /\ who[Main] \in Users /\ pidFile[who[Main]] \notin children
      BY <2>2 DEF Threads, SessionInv, TypeInv, CleanupOfReaped
    <3>3. owner[p] # who[Main] /\ owner[p] \in Users
      BY <2>2, <3>1, <3>2, NoneAlive DEF SessionInv, TypeInv, Alive, Starting, Started
    <3> QED
      BY <2>2, <3>3
  <2> QED
    BY <1>4, <2>1, <2>2, HookEffects
<1>5. ~SupervisorDies
  BY DEF SupervisorDies, Serial
<1> QED
  BY <1>1, <1>2, <1>3, <1>4, <1>5 DEF Next

\* PasswordRead is inductive with SessionInv.
LEMMA NextPasswordRead ==
  ASSUME Serial, SessionInv, PasswordRead, [Next]_vars
  PROVE  PasswordRead'
<1> SUFFICES ASSUME NEW p \in Pids, phase'[p] \in {"ready", "serving"}
             PROVE  own'[p] = pwFile'[owner'[p]] /\ own'[p] # NoPassword
  BY DEF PasswordRead
<1>1. Alive(p)'
  BY DEF Alive, Started
<1>2. /\ owner[p] = owner'[p] => pwFile'[owner[p]] = pwFile[owner[p]]
      /\ UNCHANGED procs \/ UNCHANGED pwFile
  BY <1>1, PasswordFileKept
<1>3. ASSUME phase[p] \in {"ready", "serving"}, own'[p] = own[p], owner'[p] = owner[p]
      PROVE  own'[p] = pwFile'[owner'[p]] /\ own'[p] # NoPassword
  BY <1>2, <1>3 DEF PasswordRead
<1>4. CASE UNCHANGED vars
  BY <1>3, <1>4 DEF vars, procs
<1>5. ASSUME NEW t \in Requests,
             \/ \E u \in Users : PostArrives(t, u) \/ DeleteArrives(t, u)
             \/ Post(t) \/ Delete(t) \/ Receive(t)
      PROVE  own'[p] = pwFile'[owner'[p]] /\ own'[p] # NoPassword
  BY <1>3, <1>5, RequestEffects
<1>6. ASSUME NEW q \in Pids, StartUp(q) \/ SignalDelivered(q) \/ BackendExits(q)
      PROVE  own'[p] = pwFile'[owner'[p]] /\ own'[p] # NoPassword
  BY <1>3, <1>6, ProcessEffects
<1>7. CASE ShutdownBegins \/ Shutdown
  BY <1>3, <1>7, HookEffects
<1>8. ~SupervisorDies
  BY DEF SupervisorDies, Serial
<1> QED
  BY <1>4, <1>5, <1>6, <1>7, <1>8 DEF Next

-----------------------------------------------------------------------------
(* Answers: the cookie they set, and the session they give up. *)

\* An answer that sets the cookie carries the password of the live backend.
CookieAnswered ==
    \A t \in Requests : answer[t].cookie = "set" =>
        /\ pc[t] = "answered"
        /\ \A p \in Pids : Unstopped(p, who[t]) => answer[t].password = pwFile[who[t]]

AnswerInv == StopInv /\ PasswordRead /\ CookieAnswered

\* Which backend is live and not stopped, and its password, a step changes only by fork.
LEMMA Remains ==
  ASSUME Serial, SessionInv, [Next]_vars, NEW u \in Users, NEW p \in Pids, Unstopped(p, u)',
         \A t \in Requests : pc[t] = "fork" => who[t] # u
  PROVE  Unstopped(p, u) /\ pwFile'[u] = pwFile[u]
<1>1. Alive(p)' /\ owner'[p] = u /\ p \notin signalled'
  BY DEF Unstopped
<1>2. Alive(p) /\ owner'[p] = owner[p] /\ (p \in signalled => p \in signalled')
  <2>1. CASE UNCHANGED vars
    BY <1>1, <2>1 DEF vars, procs, Alive
  <2>2. ASSUME NEW t \in Requests,
               \/ \E v \in Users : PostArrives(t, v) \/ DeleteArrives(t, v)
               \/ Post(t) \/ Delete(t) \/ Receive(t)
        PROVE  Alive(p) /\ owner'[p] = owner[p] /\ (p \in signalled => p \in signalled')
    BY <1>1, <2>2, RequestEffects
  <2>3. ASSUME NEW q \in Pids, StartUp(q) \/ SignalDelivered(q) \/ BackendExits(q)
        PROVE  Alive(p) /\ owner'[p] = owner[p] /\ (p \in signalled => p \in signalled')
    BY <1>1, <2>3, ProcessEffects
  <2>4. CASE ShutdownBegins \/ Shutdown
    BY <1>1, <2>4, HookEffects
  <2> QED
    BY <2>1, <2>2, <2>3, <2>4 DEF Next, SupervisorDies, Serial
<1> QED
  BY <1>1, <1>2, PasswordFileKept DEF Unstopped

\* The answer of a thread stays good until the browser has it.
LEMMA NextCookieAnswered ==
  ASSUME Serial, SessionInv, CookieAnswered, [Next]_vars
  PROVE  CookieAnswered'
<1> SUFFICES ASSUME NEW s \in Requests, answer'[s].cookie = "set"
             PROVE  /\ pc'[s] = "answered"
                    /\ \A p \in Pids :
                         Unstopped(p, who[s])' => answer'[s].password = pwFile'[who'[s]]
  BY DEF CookieAnswered
<1>1. ASSUME pc'[s] = pc[s], who'[s] = who[s], answer'[s] = answer[s]
      PROVE  /\ pc'[s] = "answered"
             /\ \A p \in Pids : Unstopped(p, who[s])' => answer'[s].password = pwFile'[who'[s]]
  <2>1. pc[s] = "answered"
    BY <1>1 DEF CookieAnswered
  <2>2. who[s] \in Users /\ \A t \in Requests : pc[t] = "fork" => who[t] # who[s]
    BY <2>1 DEF SessionInv, TypeInv, Exclusive
  <2>3. ASSUME NEW p \in Pids, Unstopped(p, who[s])'
        PROVE  Unstopped(p, who[s]) /\ pwFile'[who[s]] = pwFile[who[s]]
    <3>1. PICK u \in Users : u = who[s]
      BY <2>2
    <3>2. Unstopped(p, u)' /\ \A t \in Requests : pc[t] = "fork" => who[t] # u
      BY <1>1, <2>2, <2>3, <3>1 DEF Unstopped
    <3> QED
      BY <3>1, <3>2, Remains
  <2> QED
    BY <1>1, <2>1, <2>3 DEF CookieAnswered
<1>2. ASSUME NEW t \in Requests,
             \/ \E v \in Users : PostArrives(t, v) \/ DeleteArrives(t, v)
             \/ Post(t) \/ Delete(t) \/ Receive(t)
      PROVE  /\ pc'[s] = "answered"
             /\ \A p \in Pids : Unstopped(p, who[s])' => answer'[s].password = pwFile'[who'[s]]
  <2>1. CASE s # t
    BY <1>1, <1>2, <2>1, RequestEffects
  <2>2. CASE s = t
    <3>1. /\ \/ pc[t] = "answered" /\ pc'[t] = "answered" /\ answer'[t] = answer[t]
             \/ /\ pc[t] \notin {"idle", "answered"} /\ pc'[t] = "answered"
                /\ answer'[t].password = pwFile[who[t]] /\ UNCHANGED <<pwFile, procs>>
             \/ answer'[t] = answer[t] /\ pc[t] # "answered"
          /\ pc[t] \notin {"idle", "answered"} => who'[t] = who[t]
          /\ pc[t] = "answered" => Receive(t)
      BY <1>2, <2>2, RequestEffects
    <3>2. Receive(t) => pc'[t] = "idle"
      BY DEF Receive, SessionInv, TypeInv, TypeOK, Threads
    <3>3. answer'[t] = answer[t] => pc[t] = "answered"
      BY <2>2 DEF CookieAnswered
    <3> QED
      BY <2>2, <3>1, <3>2, <3>3
  <2> QED
    BY <2>1, <2>2
<1>3. ASSUME NEW q \in Pids, StartUp(q) \/ SignalDelivered(q) \/ BackendExits(q)
      PROVE  pc'[s] = pc[s] /\ who'[s] = who[s] /\ answer'[s] = answer[s]
  BY <1>3, ProcessEffects
<1>4. CASE UNCHANGED vars \/ ShutdownBegins \/ Shutdown
  BY <1>1, <1>4, HookEffects DEF vars
<1> QED
  BY <1>1, <1>2, <1>3, <1>4 DEF Next, SupervisorDies, Serial

\* A backend that was not stopped when its user is answered serves, and has read the
\* password the answer has.
LEMMA AnswerInvImplies == AnswerInv => GivenUpIsStopped
<1> SUFFICES ASSUME AnswerInv, NEW t \in Requests, answer[t].status \in {202, 500},
                    NEW p \in Pids, Alive(p), owner[p] = who[t], p \notin signalled
             PROVE  answer[t].cookie = "set" /\ answer[t].password = own[p]
  BY DEF GivenUpIsStopped
<1>1. Unstopped(p, who[t])
  BY DEF Unstopped
<1>2. answer[t].cookie = "set"
  BY <1>1 DEF AnswerInv, StopInv, StoppedWhenGivenUp, GivenUp
<1>3. pc[t] = "answered" /\ answer[t].password = pwFile[who[t]]
  BY <1>1, <1>2 DEF AnswerInv, CookieAnswered
<1>4. who[t] \in Users /\ ~Launching(who[t])
  BY <1>3 DEF AnswerInv, StopInv, SessionInv, TypeInv, Exclusive, Launching
<1>5. phase[p] = "serving"
  BY <1>1, <1>4 DEF AnswerInv, StopInv, ServesUnlessLaunching
<1>6. own[p] = pwFile[owner[p]]
  BY <1>5 DEF AnswerInv, PasswordRead
<1> QED
  BY <1>2, <1>3, <1>6

\* An answer that gives a session up, 500 to a launch or 202 to a DELETE, leaves no
\* live backend of the user without a signal on its way; a 500 about the directory asked
\* for, which gives none up, comes with the cookie that opens the backend.
THEOREM GivenUpStopped ==
  ASSUME Serial, PromptSetsid
  PROVE  Spec => []GivenUpIsStopped
<1>1. Init => AnswerInv
  BY InitStopInv DEF Init, AnswerInv, PasswordRead, CookieAnswered, Pending, Threads
<1>2. AnswerInv /\ [Next]_vars => AnswerInv'
  BY NextStopInv, NextPasswordRead, NextCookieAnswered DEF AnswerInv, StopInv
<1> QED
  BY <1>1, <1>2, AnswerInvImplies, PTL DEF Spec

-----------------------------------------------------------------------------
(* Gateway: who answers a request that went through the proxy. *)

Statuses == {0, 200, 401, 403, 500, 502}
Hops == [step : {"idle", "lookup", "forward", "done"}, user : Users \cup {NoUser},
         password : Nat, port : Pids \cup {NoPid}, by : Pids \cup {NoPid},
         status : Statuses]

JarInv == cookies \subseteq Users /\ jar \in [Users -> Nat] /\ portOf \in [Pids -> Pids]

HopInv ==
    /\ hop \in Hops
    /\ hop.status = 200 => /\ hop.step = "done"
                           /\ hop.by \in Pids /\ Stage(hop.by) # "unused"
                           /\ owner[hop.by] = hop.user

GatewayInv == SessionInv /\ JarInv /\ HopInv

-----------------------------------------------------------------------------
\* What a step of sessions leaves alone.
LEMMA OwnerStays ==
  ASSUME TypeInv, SessionStep, NEW p \in Pids, Stage(p) # "unused"
  PROVE  Stage(p)' # "unused" /\ owner'[p] = owner[p]
<1>1. StageNow[p] = Stage(p) /\ StageNow'[p] = Stage(p)'
  BY DEF StageNow
<1>2. CASE StageNow' = StageNow /\ owner' = owner
  BY <1>1, <1>2
<1>3. ASSUME NEW q \in Pids, NEW u \in Users, Sessions!Launch(q, u)
      PROVE  StageNow'[p] # "unused" /\ owner'[p] = owner[p]
  <2>1. q # p /\ owner \in [Pids -> Users \cup {NoUser}]
    BY <1>1, <1>3 DEF Sessions!Launch, StageNow, TypeInv, TypeOK
  <2>2. owner' = [owner EXCEPT ![q] = u] /\ StageNow' = [StageNow EXCEPT ![q] = "starting"]
    BY <1>3 DEF Sessions!Launch, StageNow
  <2>3. StageNow'[p] = StageNow[p]
    BY <2>1, <2>2 DEF StageNow
  <2> QED
    BY <1>1, <2>1, <2>2, <2>3
<1>4. ASSUME NEW q \in Pids, Sessions!Serve(q) \/ Sessions!Stop(q) \/ Sessions!End(q)
      PROVE  StageNow'[p] # "unused" /\ owner'[p] = owner[p]
  BY <1>1, <1>4 DEF Sessions!Serve, Sessions!Stop, Sessions!End, Sessions!Become, StageNow
<1> QED
  BY <1>1, <1>2, <1>3, <1>4 DEF SessionStep, Sessions!Next, StageNow

\* No request is on its way and no browser has a password.
LEMMA InitGateway == GatewayInit => GatewayInv
<1> SUFFICES ASSUME GatewayInit PROVE GatewayInv
  OBVIOUS
<1>1. SessionInv
  BY InitSessionInv DEF GatewayInit
<1>2. HopInv
  <2>1. 0 \in Statuses
    BY DEF Statuses
  <2> QED
    BY <2>1 DEF GatewayInit, NoHop, NoPassword, HopInv, Hops
<1>3. JarInv
  BY DEF GatewayInit, NoPassword, JarInv
<1> QED
  BY <1>1, <1>2, <1>3 DEF GatewayInv

\* The API's answers keep the cookies well formed.
LEMMA SupervisorJar ==
  ASSUME TypeInv, JarInv, SupervisorStep
  PROVE  JarInv'
<1>1. \A u \in Users : \A a \in Received(u) : a.password \in Nat
  BY DEF Received, TypeInv, TypeOK, Answers, Threads
<1>2. cookies' \subseteq Users
  BY DEF SupervisorStep, KeepCookies
<1>3. jar' \in [Users -> Nat]
  <2>1. ASSUME NEW u \in Users, \E a \in Received(u) : a.cookie = "set"
        PROVE  (CHOOSE a \in Received(u) : a.cookie = "set").password \in Nat
    BY <1>1, <2>1
  <2> QED
    BY <2>1 DEF SupervisorStep, KeepCookies, JarInv, NoPassword
<1>4. portOf' \in [Pids -> Pids]
  BY DEF SupervisorStep, TakePort, JarInv
<1> QED
  BY <1>2, <1>3, <1>4 DEF JarInv

\* A step of the API does not touch the request on its way.
LEMMA SupervisorKeepsHop ==
  ASSUME Serial, GatewayInv, [Next]_vars, hop' = hop
  PROVE  HopInv'
<1>1. SessionStep
  BY NextImplements DEF GatewayInv
<1>2. CASE hop.status = 200
  <2>1. hop.by \in Pids /\ Stage(hop.by) # "unused" /\ owner[hop.by] = hop.user
    BY <1>2 DEF GatewayInv, HopInv
  <2>2. ASSUME NEW p \in Pids, p = hop.by
        PROVE  Stage(p)' # "unused" /\ owner'[p] = owner[p]
    BY <1>1, <2>1, <2>2, OwnerStays DEF GatewayInv, SessionInv
  <2>3. Stage(hop.by)' # "unused" /\ owner'[hop'.by] = owner[hop.by]
    BY <2>1, <2>2
  <2> QED
    BY <2>1, <2>3 DEF GatewayInv, HopInv
<1>3. CASE hop.status # 200
  BY <1>3 DEF GatewayInv, HopInv, Hops, JarInv
<1> QED
  BY <1>2, <1>3

\* A response is sent, and a request is sent on.
LEMMA Responds ==
  ASSUME hop \in Hops, NEW n \in Statuses, NEW b \in Pids \cup {NoPid}, Respond(n, b)
  PROVE  /\ hop' \in Hops /\ hop'.step = "done" /\ hop'.user = hop.user
         /\ hop'.status = n /\ hop'.by = b
  BY DEF Respond, Hops

\* The proxy sends a request on to the port it has looked up.
LEMMA SendsOn ==
  ASSUME hop \in Hops, LookUpPort, PortReady(hop.user), NEW q \in Pids,
         q = portOf[portFile[hop.user]]
  PROVE  hop' \in Hops /\ hop'.status = hop.status
<1>1. hop' = [hop EXCEPT !.step = "forward", !.port = q]
  BY DEF LookUpPort
<1> QED
  BY <1>1 DEF Hops

\* A request that has just been sent has not been served.
LEMMA Sends ==
  ASSUME hop \in Hops, NEW u \in Users, NEW method, NEW referer, Send(u, method, referer),
         jar[u] \in Nat
  PROVE  hop' \in Hops /\ hop'.status # 200
<1> DEFINE n == IF ~GoodOrigin(method, referer) THEN 403
                ELSE IF ~HasCredentials(u) THEN 401 ELSE 0
           s == IF n = 0 THEN "lookup" ELSE "done"
<1>1. n \in Statuses /\ n # 200
  BY DEF Statuses
<1>2. s \in {"idle", "lookup", "forward", "done"}
  OBVIOUS
<1>3. hop' = [hop EXCEPT !.user = u, !.password = jar[u], !.status = n, !.step = s]
  BY DEF Send
<1> HIDE DEF n, s
<1>4. hop' \in Hops /\ hop'.status = n
  BY <1>1, <1>2, <1>3 DEF Hops
<1> QED
  BY <1>1, <1>4

\* GatewayInv is inductive: a served request stays with the backend that served it, and
\* only a backend that was the user's can have served it.
LEMMA NextGateway == Serial /\ GatewayInv /\ [GatewayNext]_gatewayVars => GatewayInv'
<1> SUFFICES ASSUME Serial, GatewayInv, [GatewayNext]_gatewayVars PROVE GatewayInv'
  OBVIOUS
<1>0. hop \in Hops
  BY DEF GatewayInv, HopInv
<1>s. {0, 200, 401, 403, 500, 502} \subseteq Statuses
  BY DEF Statuses
<1>1. [Next]_vars
  BY DEF GatewayNext, gatewayVars, SupervisorStep, Send, LookUpPort, Forward, Done, unmoved
<1>2. SessionInv'
  BY <1>1, NextSessionInv DEF GatewayInv
<1>3. CASE hop' = hop
  <2>1. JarInv'
    <3>1. CASE SupervisorStep
      BY <3>1, SupervisorJar DEF GatewayInv, SessionInv
    <3>2. CASE UNCHANGED <<cookies, jar, portOf>>
      BY <3>2 DEF GatewayInv, JarInv
    <3> QED
      BY <3>1, <3>2 DEF GatewayNext, gatewayVars, Send, LookUpPort, Forward, Done, unmoved
  <2> QED
    BY <1>1, <1>2, <1>3, <2>1, SupervisorKeepsHop DEF GatewayInv
<1>4. ASSUME UNCHANGED unmoved, hop' \in Hops, hop'.status # 200 PROVE GatewayInv'
  BY <1>2, <1>4 DEF GatewayInv, HopInv, JarInv, unmoved
<1>5. ASSUME NEW u \in Users, NEW method, NEW referer, Send(u, method, referer)
      PROVE  GatewayInv'
  <2>1. hop' \in Hops /\ hop'.status # 200 /\ UNCHANGED unmoved
    <3>1. jar[u] \in Nat
      BY DEF GatewayInv, JarInv
    <3> QED
      <4>1. hop' \in Hops /\ hop'.status # 200
        BY <1>0, <1>5, <3>1, Sends
      <4> QED
        BY <1>5, <4>1 DEF Send
  <2> QED
    BY <2>1, <1>4
<1>6. CASE LookUpPort
  <2>1. hop' \in Hops /\ hop'.status # 200 /\ UNCHANGED unmoved
    <3>1. CASE PortReady(hop.user)
      <4>1. portOf[portFile[hop.user]] \in Pids
        BY <3>1 DEF PortReady, GatewayInv, JarInv
      <4>2. hop.status # 200
        BY <1>6 DEF LookUpPort, GatewayInv, HopInv
      <4> QED
        BY <1>0, <1>6, <3>1, <4>1, <4>2, SendsOn DEF LookUpPort
    <3>2. CASE ~PortReady(hop.user)
      <4>1. Respond(500, NoPid) /\ UNCHANGED unmoved
        BY <1>6, <3>2 DEF LookUpPort
      <4>2. 500 \in Statuses
        BY DEF Statuses
      <4> QED
        BY <1>0, <4>1, <4>2, Responds
    <3> QED
      BY <3>1, <3>2
  <2> QED
    BY <2>1, <1>4
<1>7. CASE Forward
  <2>0. UNCHANGED unmoved
    BY <1>7 DEF Forward
  <2>1. CASE \A p \in Pids : Listening(p) => portOf[p] # hop.port
    <3>1. Respond(502, NoPid) /\ 502 \in Statuses
      BY <1>7, <2>1 DEF Forward, Statuses
    <3>2. hop' \in Hops /\ hop'.status # 200
      BY <1>0, <3>1, Responds
    <3> QED
      BY <2>0, <3>2, <1>4
  <2>2. ASSUME NEW p \in Pids, Listening(p), ~Accepts(p, hop.user, hop.password),
               Respond(401, p)
        PROVE  GatewayInv'
    <3>1. 401 \in Statuses
      BY DEF Statuses
    <3>2. hop' \in Hops /\ hop'.status # 200
      BY <1>0, <2>2, <3>1, Responds
    <3> QED
      BY <2>0, <3>2, <1>4
  <2>3. ASSUME NEW p \in Pids, Listening(p), Accepts(p, hop.user, hop.password),
               Respond(200, p)
        PROVE  GatewayInv'
    <3>0. 200 \in Statuses
      BY DEF Statuses
    <3>1. hop' \in Hops /\ hop'.step = "done" /\ hop'.user = hop.user /\ hop'.by = p
      BY <1>0, <2>3, <3>0, Responds
    <3>2. Stage(p) # "unused" /\ owner[p] = hop.user
      BY <2>3 DEF Accepts, Listening, Stage, Alive, Started
    <3>3. Stage(p)' # "unused" /\ owner'[p] = hop.user
      <4>1. UNCHANGED <<phase, signalled, owner>>
        BY <2>0 DEF unmoved, vars, procs
      <4> QED
        BY <3>2, <4>1 DEF Stage, Alive
    <3> QED
      BY <1>2, <2>0, <3>1, <3>3 DEF GatewayInv, HopInv, JarInv, unmoved
  <2> QED
    BY <1>7, <2>1, <2>2, <2>3 DEF Forward
<1>8. CASE Done
  <2>1. hop' \in Hops /\ hop'.status # 200 /\ UNCHANGED unmoved
    BY <1>8, <1>s DEF Done, NoHop, unmoved, NoPassword, Hops
  <2> QED
    BY <2>1, <1>4
<1> QED
  BY <1>3, <1>5, <1>6, <1>7, <1>8 DEF GatewayNext, gatewayVars, SupervisorStep

\* While the requests of a user do not overlap, the API does not die and pids are not
\* reused, only a backend of the user in the cookie serves a request, whatever is read
\* from the port file and whoever has taken the port since.
THEOREM ServedByOwn ==
  ASSUME Serial
  PROVE  GatewaySpec => []ServedByOwnBackend
<1>1. GatewayInv => ServedByOwnBackend
  BY DEF GatewayInv, HopInv, ServedByOwnBackend
<1>2. GatewayInv /\ [GatewayNext]_gatewayVars => GatewayInv'
  BY NextGateway
<1> QED
  BY <1>1, <1>2, InitGateway, PTL DEF GatewaySpec
-----------------------------------------------------------------------------
(* The cookie in the jar opens the live backend of its user. *)

\* The jar has the password of the live backend while nothing of the user is pending.
NothingPends(u) == \A t \in Requests : pc[t] # "idle" => who[t] # u

CookieInJar ==
    \A u \in cookies, p \in Pids :
        Unstopped(p, u) /\ NothingPends(u) => jar[u] = pwFile[u]

CookieInv == StopInv /\ JarInv /\ PasswordRead /\ CookieAnswered /\ CookieInJar

\* Without cookies, files and processes.
LEMMA InitCookie == GatewayInit => CookieInv
<1> SUFFICES ASSUME GatewayInit PROVE CookieInv
  OBVIOUS
<1>1. StopInv /\ JarInv
  BY InitStopInv, InitGateway DEF GatewayInit, GatewayInv
<1> QED
  BY <1>1 DEF GatewayInit, Init, CookieInv, PasswordRead, CookieAnswered, CookieInJar,
     Pending, Threads

\* A browser that receives nothing keeps its cookie.
LEMMA BrowserKeeps ==
  ASSUME KeepCookies, NEW u \in Users, Received(u) = {}
  PROVE  (u \in cookies' => u \in cookies) /\ jar'[u] = jar[u]
  BY DEF KeepCookies

\* A browser does what the answer says.
LEMMA BrowserObeys ==
  ASSUME KeepCookies, NEW u \in Users, NEW a, Received(u) = {a}
  PROVE  /\ a.cookie = "set" => jar'[u] = a.password
         /\ a.cookie = "clear" => u \notin cookies'
  BY DEF KeepCookies

\* The jar stays good: a password is replaced by a launch, whose answer the browser takes.
LEMMA NextCookieInJar ==
  ASSUME Serial, CookieInv, [Next]_vars, KeepCookies
  PROVE  CookieInJar'
<1> SUFFICES ASSUME NEW u \in cookies', NEW p \in Pids, Unstopped(p, u)', NothingPends(u)'
             PROVE  jar'[u] = pwFile'[u]
  BY DEF CookieInJar
<1>0. SessionInv /\ u \in Users
  BY DEF CookieInv, StopInv, KeepCookies
<1>1. ASSUME NothingPends(u), Received(u) = {} PROVE jar'[u] = pwFile'[u]
  <2>1. u \in cookies /\ jar'[u] = jar[u]
    BY <1>0, <1>1, BrowserKeeps
  <2>2. Unstopped(p, u) /\ pwFile'[u] = pwFile[u]
    BY <1>0, <1>1, Remains DEF NothingPends
  <2> QED
    BY <1>1, <2>1, <2>2 DEF CookieInv, CookieInJar
<1>2. ASSUME \A s \in Requests : pc'[s] = pc[s] /\ who'[s] = who[s]
      PROVE  jar'[u] = pwFile'[u]
  <2>1. NothingPends(u)
    BY <1>2 DEF NothingPends
  <2>2. Received(u) = {}
    BY <1>2 DEF Received
  <2> QED
    BY <1>1, <2>1, <2>2
<1>3. ASSUME NEW t \in Requests,
             \/ \E v \in Users : PostArrives(t, v) \/ DeleteArrives(t, v)
             \/ Post(t) \/ Delete(t) \/ Receive(t)
      PROVE  jar'[u] = pwFile'[u]
  <2>1. /\ \A s \in Requests \ {t} : pc'[s] = pc[s] /\ who'[s] = who[s]
        /\ pc[t] \notin {"idle", "answered"} => who'[t] = who[t] /\ pc'[t] # "idle"
        /\ pc[t] = "idle" => pc'[t] # "idle"
        /\ pc[t] = "answered" => Receive(t)
    BY <1>0, <1>3, RequestEffects
  <2>2. CASE pc[t] = "answered" /\ who[t] = u
    <3>1. Receive(t)
      BY <2>1, <2>2
    <3>2. pc'[t] = "idle" /\ UNCHANGED <<files, procs>>
      BY <1>0, <3>1 DEF Receive, SessionInv, TypeInv, TypeOK, Threads
    <3>3. Received(u) = {answer[t]}
      BY <2>1, <2>2, <3>2 DEF Received
    <3>4. Unstopped(p, u) /\ pwFile' = pwFile
      BY <3>2 DEF Unstopped, Alive, procs, files
    <3>5. answer[t].cookie \in {"keep", "set", "clear"}
      BY <1>0 DEF SessionInv, TypeInv, TypeOK, Answers, Threads
    <3>6. answer[t].cookie # "keep"
      BY <2>2, <3>4 DEF CookieInv, StopInv, StoppedWhenGivenUp, GivenUp
    <3>7. answer[t].cookie # "clear" /\ (answer[t].cookie = "set" => jar'[u] = answer[t].password)
      BY <1>0, <3>3, BrowserObeys
    <3>8. answer[t].cookie = "set" => answer[t].password = pwFile[u]
      BY <2>2, <3>4 DEF CookieInv, CookieAnswered
    <3> QED
      BY <3>4, <3>5, <3>6, <3>7, <3>8
  <2>3. CASE ~(pc[t] = "answered" /\ who[t] = u)
    <3>1. NothingPends(u)
      <4> SUFFICES ASSUME NEW s \in Requests, pc[s] # "idle", who[s] = u PROVE FALSE
        BY DEF NothingPends
      <4>1. CASE s # t
        BY <2>1, <4>1 DEF NothingPends
      <4>2. CASE s = t
        BY <2>1, <2>3, <4>2 DEF NothingPends
      <4> QED
        BY <4>1, <4>2
    <3>2. Received(u) = {}
      BY <2>1, <2>3 DEF Received
    <3> QED
      BY <1>1, <3>1, <3>2
  <2> QED
    BY <2>2, <2>3
<1>4. ASSUME NEW q \in Pids, StartUp(q) \/ SignalDelivered(q) \/ BackendExits(q)
      PROVE  jar'[u] = pwFile'[u]
  BY <1>0, <1>2, <1>4, ProcessEffects
<1>5. CASE UNCHANGED vars
  BY <1>2, <1>5 DEF vars
<1>6. CASE ShutdownBegins \/ Shutdown
  BY <1>0, <1>2, <1>6, HookEffects
<1> QED
  BY <1>3, <1>4, <1>5, <1>6 DEF Next, SupervisorDies, Serial

\* CookieInv is inductive: what the proxy does leaves files, backends and jars alone.
LEMMA NextCookie ==
  Serial /\ PromptSetsid /\ CookieInv /\ [GatewayNext]_gatewayVars => CookieInv'
<1> SUFFICES ASSUME Serial, PromptSetsid, CookieInv, [GatewayNext]_gatewayVars
             PROVE  CookieInv'
  OBVIOUS
<1>1. SessionInv /\ TypeInv
  BY DEF CookieInv, StopInv, SessionInv
<1>2. CASE SupervisorStep
  <2>1. [Next]_vars /\ KeepCookies
    BY <1>2 DEF SupervisorStep
  <2>2. StopInv'
    BY <2>1, NextStopInv DEF CookieInv
  <2>3. JarInv'
    BY <1>1, <1>2, SupervisorJar DEF CookieInv
  <2>4. PasswordRead'
    BY <1>1, <2>1, NextPasswordRead DEF CookieInv
  <2>5. CookieAnswered'
    BY <1>1, <2>1, NextCookieAnswered DEF CookieInv
  <2>6. CookieInJar'
    BY <2>1, NextCookieInJar
  <2> QED
    BY <2>2, <2>3, <2>4, <2>5, <2>6 DEF CookieInv
<1>3. CASE UNCHANGED unmoved
  <2>1. UNCHANGED vars /\ UNCHANGED <<cookies, jar, portOf>>
    BY <1>3 DEF unmoved
  <2>2. StopInv'
    BY <2>1, NextStopInv DEF CookieInv
  <2>3. PasswordRead' /\ CookieAnswered'
    BY <1>1, <2>1, NextPasswordRead, NextCookieAnswered DEF CookieInv
  <2>4. JarInv'
    BY <2>1 DEF CookieInv, JarInv
  <2>5. CookieInJar'
    BY <2>1 DEF CookieInv, CookieInJar, Unstopped, Alive, NothingPends, vars, files, procs
  <2> QED
    BY <2>2, <2>3, <2>4, <2>5 DEF CookieInv
<1> QED
  BY <1>2, <1>3 DEF GatewayNext, gatewayVars, unmoved, Send, LookUpPort, Forward, Done

\* A user with a cookie and nothing pending has no backend, or one that listens on the
\* port in the port file and opens to the password in the jar; if setsid is prompt.
THEOREM CookieGood ==
  ASSUME Serial, PromptSetsid
  PROVE  GatewaySpec => []CookieStaysGood
<1>1. ASSUME CookieInv PROVE CookieStaysGood
  <2> SUFFICES ASSUME NEW u \in cookies, NEW p \in Pids, u \notin {who[t] : t \in Requests},
                      Alive(p), owner[p] = u, p \notin signalled
               PROVE  Listening(p) /\ portFile[u] = p /\ Accepts(p, u, jar[u])
    BY DEF CookieStaysGood
  <2>1. u \in Users /\ Unstopped(p, u) /\ NothingPends(u)
    BY <1>1 DEF CookieInv, JarInv, Unstopped, NothingPends
  <2>2. ~Launching(u)
    BY DEF Launching
  <2>3. phase[p] = "serving" /\ portFile[u] = p
    BY <1>1, <2>1, <2>2 DEF CookieInv, StopInv, ServesUnlessLaunching
  <2>4. jar[u] = own[p] /\ own[p] # NoPassword
    BY <1>1, <2>1, <2>3 DEF CookieInv, CookieInJar, PasswordRead
  <2> QED
    BY <2>3, <2>4 DEF Listening, Accepts
<1>2. CookieInv /\ [GatewayNext]_gatewayVars => CookieInv'
  BY NextCookie
<1> QED
  BY <1>1, <1>2, InitCookie, PTL DEF GatewaySpec

-----------------------------------------------------------------------------
(* Two backends that listen have different ports. *)

\* Who has not begun to listen has its own port to itself.
OwnPorts ==
    \A p, r \in Pids : portOf[r] = p /\ p # r => phase[p] \in Served

DistinctPorts ==
    \A p, q \in Pids : Listening(p) /\ Listening(q) /\ portOf[p] = portOf[q] => p = q

\* A request is sent on only to a port that was read.
SentToPort == hop.step = "forward" => hop.port \in Pids

PortInv == GatewayInv /\ OwnPorts /\ DistinctPorts /\ SentToPort

\* Nobody listens.
LEMMA InitPorts == GatewayInit => PortInv
  BY InitGateway DEF GatewayInit, Init, PortInv, OwnPorts, DistinctPorts, SentToPort, Listening,
     NoHop

\* One process at a time begins to listen; who has begun never goes back.
LEMMA ListensAlone ==
  ASSUME Serial, SessionInv, [Next]_vars
  PROVE  /\ \A p \in Pids : phase[p] \in Served => phase'[p] \in Served
         /\ \A p \in Pids : Listening(p)' => Listening(p) \/ phase[p] = "ready"
         /\ \A p, q \in Pids :
              /\ phase[p] = "ready" /\ Listening(p)'
              /\ phase[q] = "ready" /\ Listening(q)'
              => p = q
<1> USE DEF Listening
<1>1. CASE UNCHANGED vars
  BY <1>1 DEF vars, procs
<1>2. ASSUME NEW t \in Requests,
             \/ \E u \in Users : PostArrives(t, u) \/ DeleteArrives(t, u)
             \/ Post(t) \/ Delete(t) \/ Receive(t)
      PROVE  /\ \A p \in Pids : phase[p] \in Served => phase'[p] \in Served
             /\ \A p \in Pids : Listening(p)' => phase[p] = phase'[p]
  BY <1>2, RequestEffects
<1>3. ASSUME NEW q \in Pids, StartUp(q) \/ SignalDelivered(q) \/ BackendExits(q)
      PROVE  /\ \A p \in Pids : phase[p] \in Served => phase'[p] \in Served
             /\ \A p \in Pids : Listening(p)' => Listening(p) \/ (p = q /\ phase[p] = "ready")
  BY <1>3, ProcessEffects
<1>4. CASE ShutdownBegins \/ Shutdown
  BY <1>4, HookEffects
<1> QED
  BY <1>1, <1>2, <1>3, <1>4 DEF Next, SupervisorDies, Serial

\* The kernel gives a new listener its own port, or one nobody listens on.
LEMMA NextPorts ==
  ASSUME Serial, PortInv, SupervisorStep
  PROVE  OwnPorts' /\ DistinctPorts'
<1> DEFINE Fresh == {p \in Pids : phase[p] = "ready" /\ phase'[p] \in {"serving", "portless"}}
           Idle == {portOf[p] : p \in {r \in Pids : phase[r] \in {"zombie", "gone"}}}
                     \ {portOf[p] : p \in {r \in Pids : Listening(r)}}
<1>0. portOf \in [Pids -> Pids]
  BY DEF PortInv, GatewayInv, JarInv
<1>1. /\ \A p \in Pids : phase[p] \in Served => phase'[p] \in Served
      /\ \A p \in Pids : Listening(p)' => Listening(p) \/ phase[p] = "ready"
      /\ \A p, q \in Pids : p \in Fresh /\ q \in Fresh => p = q
  BY ListensAlone DEF PortInv, GatewayInv, SupervisorStep, Listening
<1>2. \A p \in Pids : Listening(p)' => Listening(p) \/ p \in Fresh
  BY <1>1 DEF Listening
<1>3. PICK q \in Pids :
        /\ q \in Idle \cup Fresh \/ Fresh = {}
        /\ portOf' = [p \in Pids |-> IF p \notin Fresh THEN portOf[p]
                                     ELSE IF q \in Idle THEN q ELSE p]
  BY DEF SupervisorStep, TakePort
<1>4. \A p \in Fresh : phase[p] = "ready" /\ phase'[p] \in Served /\ p \in Pids
  BY DEF Served
<1>5. ASSUME q \in Idle PROVE /\ phase[q] \in Served
                             /\ \A r \in Pids : Listening(r) => portOf[r] # q
  <2>1. PICK r \in Pids : phase[r] \in {"zombie", "gone"} /\ portOf[r] = q
    BY <1>5
  <2>2. phase[q] \in Served
    BY <2>1 DEF PortInv, OwnPorts, Served
  <2> QED
    BY <1>5, <2>2
<1> HIDE DEF Fresh, Idle
<1>6. OwnPorts'
  <2> SUFFICES ASSUME NEW p \in Pids, NEW r \in Pids, portOf'[r] = p, p # r
               PROVE  phase'[p] \in Served
    BY DEF OwnPorts
  <2>1. CASE r \notin Fresh
    <3>1. phase[p] \in Served
      BY <1>3, <2>1 DEF PortInv, OwnPorts
    <3> QED
      BY <1>1, <3>1
  <2>2. CASE r \in Fresh
    <3>1. q \in Idle /\ p = q
      BY <1>3, <2>2
    <3> QED
      BY <1>1, <1>5, <3>1
  <2> QED
    BY <2>1, <2>2
<1>7. ASSUME NEW p \in Fresh, NEW r \in Pids, r # p, Listening(r)'
      PROVE  portOf'[p] # portOf'[r]
  <2>1. r \notin Fresh /\ Listening(r) /\ portOf'[r] = portOf[r] /\ p \in Pids
    BY <1>1, <1>2, <1>3, <1>4, <1>7
  <2>2. CASE q \in Idle
    BY <1>3, <1>5, <1>7, <2>1, <2>2
  <2>3. CASE q \notin Idle
    <3>1. portOf'[p] = p
      BY <1>3, <1>7, <2>1, <2>3
    <3>2. portOf[r] # p
      BY <1>4, <1>7, <2>1 DEF PortInv, OwnPorts, Served
    <3> QED
      BY <2>1, <3>1, <3>2
  <2> QED
    BY <2>2, <2>3
<1>8. DistinctPorts'
  <2> SUFFICES ASSUME NEW p \in Pids, NEW r \in Pids, Listening(p)', Listening(r)', p # r
               PROVE  portOf'[p] # portOf'[r]
    BY DEF DistinctPorts
  <2>1. CASE p \in Fresh
    BY <1>7, <2>1
  <2>2. CASE r \in Fresh
    BY <1>7, <2>2
  <2>3. CASE p \notin Fresh /\ r \notin Fresh
    BY <1>2, <1>3, <2>3 DEF PortInv, DistinctPorts
  <2> QED
    BY <2>1, <2>2, <2>3
<1> QED
  BY <1>6, <1>8

\* PortInv is inductive.
LEMMA NextPortInv == Serial /\ PortInv /\ [GatewayNext]_gatewayVars => PortInv'
<1> SUFFICES ASSUME Serial, PortInv, [GatewayNext]_gatewayVars PROVE PortInv'
  OBVIOUS
<1>1. GatewayInv'
  BY NextGateway DEF PortInv
<1>2. hop \in Hops
  BY DEF PortInv, GatewayInv, HopInv
<1>3. CASE SupervisorStep
  <2>1. SentToPort'
    BY <1>3 DEF SupervisorStep, PortInv, SentToPort
  <2> QED
    BY <1>1, <1>3, <2>1, NextPorts DEF PortInv
<1>4. CASE UNCHANGED unmoved
  <2>1. OwnPorts' /\ DistinctPorts'
    BY <1>4 DEF unmoved, vars, procs, PortInv, OwnPorts, DistinctPorts, Listening
  <2>2. SentToPort'
    <3>1. CASE LookUpPort /\ PortReady(hop.user)
      <4>1. portOf[portFile[hop.user]] \in Pids
        BY <3>1 DEF PortReady, PortInv, GatewayInv, JarInv
      <4>2. hop' = [hop EXCEPT !.step = "forward", !.port = portOf[portFile[hop.user]]]
        BY <3>1 DEF LookUpPort
      <4> QED
        BY <1>2, <4>1, <4>2 DEF SentToPort, Hops
    <3>2. CASE hop' = hop
      BY <3>2 DEF PortInv, SentToPort
    <3>3. CASE hop'.step # "forward"
      BY <3>3 DEF SentToPort
    <3>4. ASSUME NEW n, NEW b, Respond(n, b) PROVE hop'.step # "forward"
      BY <1>2, <3>4 DEF Respond, Hops
    <3>5. ASSUME NEW u, NEW method, NEW referer, Send(u, method, referer)
          PROVE  hop'.step # "forward"
      BY <1>2, <3>5 DEF Send, Hops
    <3>6. ASSUME Done PROVE hop'.step # "forward"
      BY <3>6 DEF Done, NoHop
    <3> QED
      BY <3>1, <3>2, <3>3, <3>4, <3>5, <3>6
         DEF GatewayNext, gatewayVars, LookUpPort, Forward, SupervisorStep
  <2> QED
    BY <1>1, <2>1, <2>2 DEF PortInv
<1> QED
  BY <1>3, <1>4 DEF GatewayNext, gatewayVars, unmoved, Send, LookUpPort, Forward, Done

\* The state of the way to a backend is well formed: above all a port the proxy connects
\* to is listened on by one backend at most.
THEOREM GatewayTypeCorrect ==
  ASSUME Serial
  PROVE  GatewaySpec => []GatewayTypeOK
<1>1. PortInv => GatewayTypeOK
  BY ConstantsAssumption
     DEF PortInv, GatewayInv, SessionInv, TypeInv, JarInv, HopInv, Hops, Statuses, DistinctPorts,
         SentToPort, GatewayTypeOK
<1>2. PortInv /\ [GatewayNext]_gatewayVars => PortInv'
  BY NextPortInv
<1> QED
  BY <1>1, <1>2, InitPorts, PTL DEF GatewaySpec

=============================================================================
