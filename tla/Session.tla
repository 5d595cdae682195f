------------------------------ MODULE Session -------------------------------
(***************************************************************************)
(* What the File Manager API promises: one session per user.  A session is *)
(* launched when its user has none, serves once its backend listens, and   *)
(* is over for good when its backend has died, asked to or not.            *)
(***************************************************************************)
CONSTANTS Users, Pids, NoUser

VARIABLES
    stage,              \* of the session a process is started for
    user                \* whose it is

Live(p) == stage[p] \in {"starting", "serving", "ending"}

Init ==
    /\ stage = [p \in Pids |-> "unused"]
    /\ user = [p \in Pids |-> NoUser]

Launch(p, u) ==
    /\ stage[p] = "unused"
    /\ \A q \in Pids : Live(q) => user[q] # u
    /\ stage' = [stage EXCEPT ![p] = "starting"]
    /\ user' = [user EXCEPT ![p] = u]

Become(p, from, to) ==
    /\ stage[p] \in from
    /\ stage' = [stage EXCEPT ![p] = to]
    /\ UNCHANGED user

Serve(p) == Become(p, {"starting"}, "serving")
Stop(p)  == Become(p, {"starting", "serving"}, "ending")
End(p)   == Become(p, {"starting", "serving", "ending"}, "ended")

Next ==
    \E p \in Pids :
        /\ stage'[p] # stage[p]
        /\ (\E u \in Users : Launch(p, u)) \/ Serve(p) \/ Stop(p) \/ End(p)

Spec == Init /\ [][Next]_<<stage, user>>
=============================================================================
