------------------------------- MODULE GcJobs -------------------------------
(***************************************************************************)
(* The life of garbage collection jobs: POST /api/v1/gc, the task it       *)
(* spawns, and the rows of gc_jobs.                                        *)
(*                                                                         *)
(* start_gc looks for an active job and inserts its own in one SQLite      *)
(* transaction, which BEGIN opens without a lock: the query takes a        *)
(* snapshot, the insert asks for the one write lock of the database and is *)
(* refused if anything was committed since the snapshot or somebody else   *)
(* keeps the lock.  Commits of the rest of the registry are part of the    *)
(* environment.  A row outlives the process; the task that works on it     *)
(* does not.                                                               *)
(***************************************************************************)
EXTENDS Naturals, FiniteSets, Tables

CONSTANTS
    Request,    \* slots for POST requests in flight
    Job,        \* the UUIDs jobs may draw
    NoJob,      \* the job of a request that has not drawn one
    Faults      \* the faults of this instance, among "drop", "gc", "mark"
                \* and "crash"

ASSUME NoJobAssumption == NoJob \notin Job

Active == {"pending", "running"}
Final  == {"completed", "failed"}

VARIABLES
    jobs,       \* job -> status, the rows of gc_jobs
    req,        \* slot -> state of the POST in flight in it
    tasks,      \* job -> step of the task that works on it
    lock,       \* the slots whose transaction has the write lock
    lost        \* history: jobs whose task was never spawned, died with the
                \* process or failed to write its last status

vars == <<jobs, req, tasks, lock, lost>>

RequestState == [pc    : {"find", "insert", "commit", "denied"},
                 job   : Job \cup {NoJob},
                 stale : BOOLEAN]    \* somebody committed since the snapshot

TaskStep == {"start", "work", "finish", "fail"}

At(r, p) == r \in DOMAIN req /\ req[r].pc = p

End(r) == req' = Without(req, r)

Working(j, p) == j \in DOMAIN tasks /\ tasks[j] = p

ActiveJobs == {j \in DOMAIN jobs : jobs[j] \in Active}

\* The requests q after somebody has committed: their snapshots are old.
\* A request that has not read yet has none.
Outdated(q) == [s \in DOMAIN q |->
                  [q[s] EXCEPT !.stale = q[s].pc = "insert" \/ q[s].stale]]

\* A statement outside a transaction sets the status of job j.  It waits for
\* the write lock.
SetStatus(j, status) ==
    /\ lock = {}
    /\ jobs' = [jobs EXCEPT ![j] = status]
    /\ req' = Outdated(req)

-----------------------------------------------------------------------------
(* Steps as a faulty implementation would take them.  They are no part of   *)
(* the system: each shows that a property of this module can fail.          *)

\* The active job is looked for outside the transaction.
InsertJobUnchecked(r) ==
    /\ At(r, "insert")
    /\ lock = {}
    /\ lock' = {r}
    /\ \E j \in Job \ (DOMAIN jobs \cup {req[s].job : s \in DOMAIN req}) :
          req' = [req EXCEPT ![r].pc = "commit", ![r].job = j]
    /\ UNCHANGED <<jobs, tasks, lost>>

\* run_gc returns an error although it has set the job's status.
CompleteJobWithError(j) ==
    /\ Working(j, "finish")
    /\ SetStatus(j, "completed")
    /\ tasks' = [tasks EXCEPT ![j] = "fail"]
    /\ UNCHANGED <<lock, lost>>

\* The task ends on an error without a word to the database.
FailJobSilently(j) ==
    /\ Working(j, "fail")
    /\ tasks' = Without(tasks, j)
    /\ UNCHANGED <<jobs, req, lock, lost>>

\* The status of a failed job is written as a word nobody looks for.
FailJobAsError(j) ==
    /\ Working(j, "fail")
    /\ SetStatus(j, "error")
    /\ tasks' = Without(tasks, j)
    /\ UNCHANGED <<lock, lost>>

\* A job that failed is put back for another attempt.
FailJobRequeued(j) ==
    /\ Working(j, "fail")
    /\ SetStatus(j, "pending")
    /\ tasks' = Without(tasks, j)
    /\ UNCHANGED <<lock, lost>>

-----------------------------------------------------------------------------
(* POST /api/v1/gc *)

PostGc(r) ==
    /\ r \notin DOMAIN req
    /\ req' = With(req, r, [pc |-> "find", job |-> NoJob, stale |-> FALSE])
    /\ UNCHANGED <<jobs, tasks, lock, lost>>

\* The query for a job that is running or pending.
FindActive(r) ==
    /\ At(r, "find")
    /\ req' = [req EXCEPT ![r].pc = IF ActiveJobs = {} THEN "insert" ELSE "denied"]
    /\ UNCHANGED <<jobs, tasks, lock, lost>>

\* "GC job already running": 409 CONFLICT.
Deny(r) ==
    /\ At(r, "denied")
    /\ End(r)
    /\ UNCHANGED <<jobs, tasks, lock, lost>>

InsertJob(r) ==
    /\ At(r, "insert")
    /\ IF req[r].stale
       THEN End(r) /\ UNCHANGED lock
       ELSE /\ lock = {}
            /\ lock' = {r}
            /\ \E j \in Job \ (DOMAIN jobs \cup {req[s].job : s \in DOMAIN req}) :
                  req' = [req EXCEPT ![r].pc = "commit", ![r].job = j]
    /\ UNCHANGED <<jobs, tasks, lost>>

\* The lock is not given up in time.
InsertBusy(r) ==
    /\ At(r, "insert")
    /\ lock # {}
    /\ End(r)
    /\ UNCHANGED <<jobs, tasks, lock, lost>>

\* The row is there; the handler spawns run_gc without another await.
CommitJob(r) ==
    /\ At(r, "commit")
    /\ jobs' = With(jobs, req[r].job, "pending")
    /\ tasks' = With(tasks, req[r].job, "start")
    /\ lock' = {}
    /\ req' = Without(Outdated(req), r)
    /\ UNCHANGED lost

\* The client goes away: an open transaction is rolled back.
DropRequest(r) ==
    /\ "drop" \in Faults
    /\ r \in DOMAIN req
    /\ End(r)
    /\ lock' = lock \ {r}
    /\ UNCHANGED <<jobs, tasks, lost>>

\* The commit was already under way on the connection's thread: the row is
\* there and nobody is left to spawn the task.
DropCommitted(r) ==
    /\ "drop" \in Faults
    /\ At(r, "commit")
    /\ jobs' = With(jobs, req[r].job, "pending")
    /\ lost' = lost \cup {req[r].job}
    /\ lock' = {}
    /\ req' = Without(Outdated(req), r)
    /\ UNCHANGED tasks

-----------------------------------------------------------------------------
(* The task: run_gc, and mark_gc_failed if it returns an error *)

MarkRunning(j) ==
    /\ Working(j, "start")
    /\ SetStatus(j, "running")
    /\ tasks' = [tasks EXCEPT ![j] = "work"]
    /\ UNCHANGED <<lock, lost>>

\* The phases of the collection; UploadSessions models what they do.
Work(j) ==
    /\ Working(j, "work")
    /\ tasks' = [tasks EXCEPT ![j] = "finish"]
    /\ UNCHANGED <<jobs, req, lock, lost>>

CompleteJob(j) ==
    /\ Working(j, "finish")
    /\ SetStatus(j, "completed")
    /\ tasks' = Without(tasks, j)
    /\ UNCHANGED <<lock, lost>>

\* Any statement of run_gc may fail.
GcError(j) ==
    /\ "gc" \in Faults
    /\ j \in DOMAIN tasks
    /\ tasks[j] # "fail"
    /\ tasks' = [tasks EXCEPT ![j] = "fail"]
    /\ UNCHANGED <<jobs, req, lock, lost>>

FailJob(j) ==
    /\ Working(j, "fail")
    /\ SetStatus(j, "failed")
    /\ tasks' = Without(tasks, j)
    /\ UNCHANGED <<lock, lost>>

\* An error of mark_gc_failed is ignored.
MarkError(j) ==
    /\ "mark" \in Faults
    /\ Working(j, "fail")
    /\ tasks' = Without(tasks, j)
    /\ lost' = lost \cup {j}
    /\ UNCHANGED <<jobs, req, lock>>

-----------------------------------------------------------------------------
(* The process and the rest of the registry *)

\* Nothing looks at gc_jobs when the server starts again.
Crash ==
    /\ "crash" \in Faults
    /\ lost' = lost \cup DOMAIN tasks
    /\ req' = Empty
    /\ tasks' = Empty
    /\ lock' = {}
    /\ UNCHANGED jobs

\* Another handler commits.
CommitElsewhere ==
    /\ lock = {}
    /\ req' = Outdated(req)
    /\ UNCHANGED <<jobs, tasks, lock, lost>>

-----------------------------------------------------------------------------
Init ==
    /\ jobs = Empty
    /\ req = Empty
    /\ tasks = Empty
    /\ lock = {}
    /\ lost = {}

Handle(r) ==
    FindActive(r) \/ Deny(r) \/ InsertJob(r) \/ InsertBusy(r) \/ CommitJob(r)

Run(j) == MarkRunning(j) \/ Work(j) \/ CompleteJob(j) \/ FailJob(j)

Next ==
    \/ \E r \in Request :
          PostGc(r) \/ Handle(r) \/ DropRequest(r) \/ DropCommitted(r)
    \/ \E j \in Job : Run(j) \/ GcError(j) \/ MarkError(j)
    \/ Crash \/ CommitElsewhere

Spec == Init /\ [][Next]_vars

\* The spawned task is scheduled until it ends.
Fairness == \A j \in Job : WF_vars(Run(j))

FairSpec == Spec /\ Fairness

-----------------------------------------------------------------------------
(* Properties *)

\* Every variable has its type.
TypeOK ==
    /\ IsTable(jobs, Job, Active \cup Final)
    /\ IsTable(req, Request, RequestState)
    /\ IsTable(tasks, Job, TaskStep)
    /\ lock \in SUBSET Request
    /\ lost \in SUBSET Job

\* At most one job is pending or running, however POST requests overlap: the
\* two statements of start_gc act as one.
AtMostOneActive == Cardinality(ActiveJobs) <= 1

\* At most one task collects, and it works on the active job: after a crash or
\* an error no second collection runs beside a first one.
OneCollector ==
    /\ Cardinality(DOMAIN tasks) <= 1
    /\ \A j \in DOMAIN tasks : jobs[j] \in Active

\* A job that completed or failed keeps that status.
FinalStatusStays ==
    [][\A j \in DOMAIN jobs : jobs[j] \in Final => jobs'[j] = jobs[j]]_vars

\* A job comes to an end, completed or failed, unless its task was lost.
JobEnds ==
    \A j \in Job :
        (j \in DOMAIN jobs /\ jobs[j] \in Active)
        ~> (j \in lost \/ (j \in DOMAIN jobs /\ jobs[j] \in Final))

\* A request is told that a collection is running only if one is: some task
\* worked on the active job when the request looked.
DeniedOnlyWhileRunning ==
    [][\A r \in Request :
          At(r, "find") /\ At(r, "denied")' => DOMAIN tasks # {}]_vars

\* An active job is worked on, or its task was lost: nothing else leaves a row
\* behind that keeps later requests out.
ActiveHasTask == ActiveJobs \subseteq DOMAIN tasks \cup lost

\* What DeniedOnlyWhileRunning misses is a lost job and nothing else.
DeniedOnlyWhileRunningOrLost ==
    [][\A r \in Request :
          At(r, "find") /\ At(r, "denied")' =>
              DOMAIN tasks # {} \/ ActiveJobs \cap lost # {}]_vars

JobLifecycle == INSTANCE JobLifecycle WITH status <- jobs

\* The statements of start_gc, of the task and of mark_gc_failed act as if a
\* job were accepted in one step and went through its life in single file,
\* whatever crashes, drops and errors cut in.
ImplementsJobLifecycle == JobLifecycle!Spec
=============================================================================
