---------------------------- MODULE JobLifecycle ----------------------------
(***************************************************************************)
(* What the registry promises of garbage collection jobs: a job is         *)
(* accepted, in one step, only if no other is pending or running; it runs  *)
(* once and ends once, completed or failed.                                *)
(***************************************************************************)
EXTENDS Tables

CONSTANT Job      \* the ids of jobs

VARIABLE status   \* job -> status, for the jobs accepted

Unfinished == {j \in DOMAIN status : status[j] \in {"pending", "running"}}

Accept(j) ==
    /\ j \notin DOMAIN status
    /\ Unfinished = {}
    /\ status' = With(status, j, "pending")

Move(j, from, to) ==
    /\ j \in DOMAIN status
    /\ status[j] \in from
    /\ status' = [status EXCEPT ![j] = to]

Start(j)    == Move(j, {"pending"}, "running")
Complete(j) == Move(j, {"running"}, "completed")
Fail(j)     == Move(j, {"pending", "running"}, "failed")

Init == status = Empty

Next == \E j \in Job : Accept(j) \/ Start(j) \/ Complete(j) \/ Fail(j)

Spec == Init /\ [][Next]_status
=============================================================================
