---------------------------- MODULE MCSupervisor ----------------------------
(* Supervisor, for TLC.  Users, requests and pids are interchangeable. *)
EXTENDS Supervisor, TLC

Symmetry == Permutations(Users) \cup Permutations(Requests) \cup Permutations(Pids)

\* A CONSTRAINT for liveness, where symmetry is not sound: the API is shut down only
\* when nobody waits for it, of the interchangeable pids one is always forked first,
\* and of the answers that differ in the directory found, which no step looks at, one
\* is enough.
FirstPid == CHOOSE p \in Pids : TRUE
Serving ==
    /\ sup = "up" \/ \A t \in Requests : pc[t] = "idle"
    /\ \A t \in Requests : answer[t].cookie = "set" => answer[t].status # 500
    /\ phase[FirstPid] = "none" => \A p \in Pids : phase[p] = "none"
=============================================================================
