--------------------------- MODULE GcJobs_proofs ---------------------------
(***************************************************************************)
(* Proofs about GcJobs: however POST requests overlap, fail or are         *)
(* dropped, at most one job is active and at most one task works.          *)
(*                                                                         *)
(* AtMostOneActive is not inductive: a commit adds an active job whatever  *)
(* the others are.  What makes it safe is the transaction: a request whose *)
(* snapshot is up to date saw no active job (SnapshotHolds), and while a   *)
(* request has the write lock nobody else commits (LockHolds).             *)
(***************************************************************************)
EXTENDS GcJobs, Tables_proofs, FiniteSetTheorems

-----------------------------------------------------------------------------
(* The invariant *)

\* The lock belongs to the one request about to commit.
LockHolds ==
    /\ \A r \in DOMAIN req : req[r].pc = "commit" <=> r \in lock
    /\ lock \subseteq DOMAIN req
    /\ \A r, s \in lock : r = s

\* A request that inserts on a fresh snapshot, or has inserted, is right in
\* that no job is active; its own job is a new one.
SnapshotHolds ==
    \A r \in DOMAIN req :
        /\ req[r].pc = "insert" /\ ~req[r].stale => ActiveJobs = {}
        /\ req[r].pc = "commit" =>
              ActiveJobs = {} /\ req[r].job \in Job \ DOMAIN jobs

\* Two active jobs are one, and a task works on it.
OneActive ==
    /\ \A i, j \in ActiveJobs : i = j
    /\ DOMAIN tasks \subseteq ActiveJobs

JobsInv == TypeOK /\ LockHolds /\ SnapshotHolds /\ OneActive

LEMMA AtMostOneElement ==
    ASSUME NEW S, \A x, y \in S : x = y
    PROVE  Cardinality(S) <= 1
<1>1. CASE S = {}
  BY <1>1, FS_EmptySet
<1>2. ASSUME NEW x \in S PROVE Cardinality(S) <= 1
  <2>1. S = {x}
    BY <1>2
  <2> QED BY <2>1, FS_Singleton
<1> QED BY <1>1, <1>2

LEMMA JobsInvSuffices == JobsInv => AtMostOneActive /\ OneCollector
<1> SUFFICES ASSUME JobsInv PROVE AtMostOneActive /\ OneCollector
  OBVIOUS
<1>1. \A i, j \in DOMAIN tasks : i = j
  BY DEF JobsInv, OneActive
<1>2. \A j \in DOMAIN tasks : jobs[j] \in Active
  BY DEF JobsInv, OneActive, ActiveJobs
<1> QED BY <1>1, <1>2, AtMostOneElement
        DEF JobsInv, OneActive, AtMostOneActive, OneCollector

-----------------------------------------------------------------------------
(* How the table of requests changes *)

\* A commit leaves every request its step and its job, and no snapshot fresh.
LEMMA OutdatedEffect ==
    ASSUME NEW q, IsTable(q, Request, RequestState)
    PROVE  /\ IsTable(Outdated(q), Request, RequestState)
           /\ DOMAIN Outdated(q) = DOMAIN q
           /\ \A r \in DOMAIN q :
                /\ Outdated(q)[r].pc = q[r].pc
                /\ Outdated(q)[r].job = q[r].job
                /\ q[r].pc = "insert" => Outdated(q)[r].stale
<1>1. \A r \in DOMAIN q : q[r] \in RequestState
  BY DEF IsTable
<1>2. ASSUME NEW r \in DOMAIN q
      PROVE  /\ Outdated(q)[r] \in RequestState
             /\ Outdated(q)[r].pc = q[r].pc
             /\ Outdated(q)[r].job = q[r].job
             /\ q[r].pc = "insert" => Outdated(q)[r].stale
  <2>1. Outdated(q)[r] =
          [q[r] EXCEPT !.stale = q[r].pc = "insert" \/ q[r].stale]
    BY DEF Outdated
  <2>2. q[r].stale \in BOOLEAN
    BY <1>1 DEF RequestState
  <2> QED BY <1>1, <2>1, <2>2 DEF RequestState
<1> QED BY <1>2 DEF IsTable, Outdated

\* A request moves on, with the job and the snapshot it has or a new job.
LEMMA MoveEffect ==
    ASSUME TypeOK, NEW r \in DOMAIN req,
           NEW p \in {"insert", "commit", "denied"}, NEW j \in Job \cup {NoJob},
           \/ req' = [req EXCEPT ![r].pc = p] /\ j = req[r].job
           \/ req' = [req EXCEPT ![r].pc = p, ![r].job = j]
    PROVE  /\ IsTable(req', Request, RequestState)
           /\ DOMAIN req' = DOMAIN req
           /\ req'[r].pc = p /\ req'[r].job = j
           /\ req'[r].stale = req[r].stale
           /\ \A s \in DOMAIN req : s # r => req'[s] = req[s]
<1> DEFINE q == [pc |-> p, job |-> j, stale |-> req[r].stale]
<1>1. req[r] \in RequestState
  BY DEF TypeOK, IsTable
<1>2. q \in RequestState
  BY <1>1 DEF RequestState
<1>3. req' = [req EXCEPT ![r] = q]
  <2>1. CASE req' = [req EXCEPT ![r].pc = p] /\ j = req[r].job
    <3>1. PICK n : /\ n = [req[r] EXCEPT !.pc = p]
                   /\ req' = [req EXCEPT ![r] = n]
      BY <2>1
    <3>2. n = q
      BY <1>1, <2>1, <3>1 DEF RequestState
    <3> QED BY <3>1, <3>2
  <2>2. CASE req' = [req EXCEPT ![r].pc = p, ![r].job = j]
    <3>1. PICK n : /\ n = [req[r] EXCEPT !.pc = p, !.job = j]
                   /\ req' = [req EXCEPT ![r] = n]
      BY <2>2
    <3>2. n = q
      BY <1>1, <3>1 DEF RequestState
    <3> QED BY <3>1, <3>2
  <2> QED BY <2>1, <2>2
<1>4. q.pc = p /\ q.job = j /\ q.stale = req[r].stale
  OBVIOUS
<1>5. IsTable(req, Request, RequestState)
  BY DEF TypeOK
<1> HIDE DEF q
<1>6. IsTable(req', Request, RequestState)
  BY <1>2, <1>3, <1>5, ExceptTable
<1>7. /\ DOMAIN req' = DOMAIN req /\ req'[r] = q
      /\ \A s \in DOMAIN req : s # r => req'[s] = req[s]
  BY <1>3, <1>5 DEF IsTable
<1> QED BY <1>4, <1>6, <1>7

-----------------------------------------------------------------------------
(* The steps of a POST *)

\* A step that changes neither jobs nor tasks, ends request r or none, and
\* takes the lock from nobody but r.
LEMMA RequestsEnd ==
    ASSUME JobsInv, UNCHANGED <<jobs, tasks>>, lost' \in SUBSET Job,
           NEW r, End(r), lock' = lock \ {r}
    PROVE  JobsInv'
<1>1. /\ IsTable(req', Request, RequestState)
      /\ DOMAIN req' = DOMAIN req \ {r}
      /\ \A s \in DOMAIN req \ {r} : req'[s] = req[s]
  <2>1. IsTable(req, Request, RequestState) /\ req' = Without(req, r)
    BY DEF JobsInv, TypeOK, End
  <2> QED BY <2>1, WithoutTable
<1>2. TypeOK'
  BY <1>1 DEF JobsInv, TypeOK, IsTable
<1>3. LockHolds'
  BY <1>1 DEF JobsInv, LockHolds
<1>4. SnapshotHolds'
  BY <1>1 DEF JobsInv, SnapshotHolds, ActiveJobs
<1> QED BY <1>2, <1>3, <1>4 DEF JobsInv, OneActive, ActiveJobs

LEMMA PostGcStep ==
    ASSUME JobsInv, NEW r \in Request, PostGc(r)
    PROVE  JobsInv'
<1> DEFINE q == [pc |-> "find", job |-> NoJob, stale |-> FALSE]
<1>1. q \in RequestState /\ q.pc = "find"
  BY DEF RequestState
<1>2. r \notin DOMAIN req /\ req' = With(req, r, q)
  BY DEF PostGc
<1> HIDE DEF q
<1>3. /\ IsTable(req', Request, RequestState)
      /\ DOMAIN req' = DOMAIN req \cup {r}
      /\ req'[r] = q
      /\ \A s \in DOMAIN req : s # r => req'[s] = req[s]
  <2>1. IsTable(req, Request, RequestState)
    BY DEF JobsInv, TypeOK
  <2> QED BY <1>1, <1>2, <2>1, WithTable
<1>4. UNCHANGED <<jobs, tasks, lock, lost>>
  BY DEF PostGc
<1>5. TypeOK'
  BY <1>3, <1>4 DEF JobsInv, TypeOK, IsTable
<1>6. LockHolds'
  BY <1>1, <1>2, <1>3, <1>4 DEF JobsInv, LockHolds
<1>7. SnapshotHolds'
  BY <1>1, <1>2, <1>3, <1>4 DEF JobsInv, SnapshotHolds, ActiveJobs
<1> QED BY <1>4, <1>5, <1>6, <1>7 DEF JobsInv, OneActive, ActiveJobs

LEMMA FindActiveStep ==
    ASSUME JobsInv, NEW r \in Request, FindActive(r)
    PROVE  JobsInv'
<1> DEFINE p == IF ActiveJobs = {} THEN "insert" ELSE "denied"
<1>1. /\ r \in DOMAIN req /\ req[r].pc = "find"
      /\ req' = [req EXCEPT ![r].pc = p]
      /\ UNCHANGED <<jobs, tasks, lock, lost>>
  BY DEF FindActive, At
<1>2. /\ p \in {"insert", "denied"}
      /\ p = "insert" => ActiveJobs = {}
  OBVIOUS
<1>3. req[r].job \in Job \cup {NoJob}
  BY <1>1 DEF JobsInv, TypeOK, IsTable, RequestState
<1> HIDE DEF p
<1>4. /\ IsTable(req', Request, RequestState)
      /\ DOMAIN req' = DOMAIN req
      /\ req'[r].pc = p
      /\ \A s \in DOMAIN req : s # r => req'[s] = req[s]
  BY <1>1, <1>2, <1>3, MoveEffect DEF JobsInv
<1>5. TypeOK'
  BY <1>1, <1>4 DEF JobsInv, TypeOK, IsTable
<1>6. LockHolds'
  BY <1>1, <1>2, <1>4 DEF JobsInv, LockHolds
<1>7. SnapshotHolds'
  BY <1>1, <1>2, <1>4 DEF JobsInv, SnapshotHolds, ActiveJobs
<1> QED BY <1>1, <1>5, <1>6, <1>7 DEF JobsInv, OneActive, ActiveJobs

LEMMA InsertJobStep ==
    ASSUME JobsInv, NEW r \in Request, InsertJob(r)
    PROVE  JobsInv'
<1>1. /\ r \in DOMAIN req /\ req[r].pc = "insert"
      /\ UNCHANGED <<jobs, tasks, lost>>
  BY DEF InsertJob, At
<1>2. CASE req[r].stale
  <2>1. End(r) /\ UNCHANGED lock
    BY <1>2 DEF InsertJob
  <2>2. lock' = lock \ {r}
    BY <1>1, <2>1 DEF JobsInv, LockHolds
  <2> QED BY <1>1, <2>1, <2>2, RequestsEnd DEF JobsInv, TypeOK
<1>3. CASE ~req[r].stale
  <2>1. PICK j \in Job \ DOMAIN jobs :
          req' = [req EXCEPT ![r].pc = "commit", ![r].job = j]
    BY <1>3 DEF InsertJob
  <2>2. lock = {} /\ lock' = {r}
    BY <1>3 DEF InsertJob
  <2>3. /\ IsTable(req', Request, RequestState)
        /\ DOMAIN req' = DOMAIN req
        /\ req'[r].pc = "commit" /\ req'[r].job = j
        /\ \A s \in DOMAIN req : s # r => req'[s] = req[s]
    BY <1>1, <2>1, MoveEffect DEF JobsInv
  <2>4. ActiveJobs = {}
    BY <1>1, <1>3 DEF JobsInv, SnapshotHolds
  <2>5. TypeOK'
    BY <1>1, <2>2, <2>3 DEF JobsInv, TypeOK, IsTable
  <2>6. LockHolds'
    BY <1>1, <2>2, <2>3 DEF JobsInv, LockHolds
  <2>7. SnapshotHolds'
    BY <1>1, <2>3, <2>4 DEF JobsInv, SnapshotHolds, ActiveJobs
  <2> QED BY <1>1, <2>5, <2>6, <2>7 DEF JobsInv, OneActive, ActiveJobs
<1> QED BY <1>2, <1>3

\* The insert of a job becomes visible: the process goes on to spawn its task,
\* or nobody is left to.
LEMMA CommitStep ==
    ASSUME JobsInv, NEW r \in Request, CommitJob(r) \/ DropCommitted(r)
    PROVE  JobsInv'
<1> DEFINE j == req[r].job
<1>1. /\ r \in DOMAIN req /\ req[r].pc = "commit"
      /\ jobs' = With(jobs, j, "pending")
      /\ lock' = {}
      /\ req' = Without(Outdated(req), r)
  BY DEF CommitJob, DropCommitted, At
<1>2. j \in Job \ DOMAIN jobs /\ ActiveJobs = {} /\ tasks = Empty
  <2>1. j \in Job \ DOMAIN jobs /\ ActiveJobs = {}
    BY <1>1 DEF JobsInv, SnapshotHolds
  <2>2. DOMAIN tasks = {} /\ tasks = [k \in DOMAIN tasks |-> tasks[k]]
    BY <2>1 DEF JobsInv, OneActive, TypeOK, IsTable
  <2> QED BY <2>1, <2>2 DEF Empty
<1>3. lock = {r}
  BY <1>1 DEF JobsInv, LockHolds
<1> HIDE DEF j
<1>4. /\ IsTable(jobs', Job, Active \cup Final)
      /\ DOMAIN jobs' = DOMAIN jobs \cup {j}
      /\ jobs'[j] = "pending"
      /\ \A k \in DOMAIN jobs : jobs'[k] = jobs[k]
  BY <1>1, <1>2, WithTable DEF JobsInv, TypeOK, Active
<1>5. ActiveJobs' = {j}
  BY <1>2, <1>4 DEF ActiveJobs, Active
<1>6. /\ IsTable(req', Request, RequestState)
      /\ DOMAIN req' = DOMAIN req \ {r}
      /\ \A s \in DOMAIN req \ {r} :
           /\ req'[s].pc = req[s].pc
           /\ req[s].pc = "insert" => req'[s].stale
  <2>1. /\ IsTable(Outdated(req), Request, RequestState)
        /\ DOMAIN Outdated(req) = DOMAIN req
        /\ \A s \in DOMAIN req :
             /\ Outdated(req)[s].pc = req[s].pc
             /\ req[s].pc = "insert" => Outdated(req)[s].stale
    BY OutdatedEffect DEF JobsInv, TypeOK
  <2>2. PICK q : q = Outdated(req)
    OBVIOUS
  <2>3. IsTable(q, Request, RequestState) /\ req' = Without(q, r)
    BY <1>1, <2>1, <2>2
  <2>4. IsTable(req', Request, RequestState)
    BY <2>3, WithoutTable
  <2>5. /\ DOMAIN req' = DOMAIN q \ {r}
        /\ \A s \in DOMAIN q \ {r} : req'[s] = q[s]
    BY <2>3 DEF Without
  <2> QED BY <2>1, <2>2, <2>4, <2>5
<1>7. IsTable(tasks', Job, TaskStep) /\ DOMAIN tasks' \subseteq {j}
  <2>1. CASE CommitJob(r)
    <3>1. tasks' = With(tasks, j, "start")
      BY <2>1 DEF CommitJob, j
    <3>2. IsTable(tasks, Job, TaskStep) /\ DOMAIN tasks = {} /\ j \in Job
      BY <1>2 DEF JobsInv, TypeOK, OneActive
    <3>3. "start" \in TaskStep
      BY DEF TaskStep
    <3>4. IsTable(tasks', Job, TaskStep)
      BY <3>1, <3>2, <3>3, WithTable
    <3>5. DOMAIN tasks' \subseteq {j}
      BY <3>1, <3>2 DEF With
    <3> QED BY <3>4, <3>5
  <2>2. CASE DropCommitted(r)
    BY <1>2, <2>2 DEF DropCommitted, JobsInv, TypeOK, Empty
  <2> QED BY <2>1, <2>2
<1>8. lost' \in SUBSET Job
  BY <1>2 DEF CommitJob, DropCommitted, JobsInv, TypeOK, j
<1>9. TypeOK'
  BY <1>1, <1>4, <1>6, <1>7, <1>8 DEF TypeOK
<1>10. LockHolds'
  BY <1>1, <1>3, <1>6 DEF JobsInv, LockHolds
<1>11. SnapshotHolds'
  BY <1>3, <1>6 DEF JobsInv, LockHolds, SnapshotHolds
<1>12. OneActive'
  BY <1>5, <1>7 DEF OneActive
<1> QED BY <1>9, <1>10, <1>11, <1>12 DEF JobsInv

LEMMA PostStep ==
    ASSUME JobsInv, NEW r \in Request,
           PostGc(r) \/ Handle(r) \/ DropRequest(r) \/ DropCommitted(r)
    PROVE  JobsInv'
<1>1. CASE Deny(r) \/ InsertBusy(r)
  <2>1. /\ r \in DOMAIN req /\ req[r].pc # "commit" /\ End(r)
        /\ UNCHANGED <<jobs, tasks, lock, lost>>
    BY <1>1 DEF Deny, InsertBusy, At
  <2>2. lock' = lock \ {r}
    BY <2>1 DEF JobsInv, LockHolds
  <2> QED BY <2>1, <2>2, RequestsEnd DEF JobsInv, TypeOK
<1>2. CASE DropRequest(r)
  BY <1>2, RequestsEnd DEF DropRequest, JobsInv, TypeOK
<1> QED BY <1>1, <1>2, PostGcStep, FindActiveStep, InsertJobStep, CommitStep
        DEF Handle

-----------------------------------------------------------------------------
(* The steps of a task, and of everybody else *)

\* After a commit by somebody without a request no snapshot is fresh; it was
\* made while no request had the lock.
LEMMA OutdatedSafe ==
    ASSUME JobsInv, lock = {}, lock' = lock, req' = Outdated(req)
    PROVE  IsTable(req', Request, RequestState) /\ LockHolds' /\ SnapshotHolds'
<1>1. /\ IsTable(req', Request, RequestState)
      /\ DOMAIN req' = DOMAIN req
      /\ \A r \in DOMAIN req :
           /\ req'[r].pc = req[r].pc
           /\ req[r].pc = "insert" => req'[r].stale
  BY OutdatedEffect DEF JobsInv, TypeOK
<1>2. \A r \in DOMAIN req : req[r].pc # "commit"
  BY DEF JobsInv, LockHolds
<1>3. LockHolds'
  BY <1>1, <1>2 DEF JobsInv, LockHolds
<1>4. SnapshotHolds'
  BY <1>1, <1>2 DEF SnapshotHolds
<1> QED BY <1>1, <1>3, <1>4

\* The task of j writes a status and goes on or ends.
LEMMA SetStatusStep ==
    ASSUME JobsInv, NEW j \in DOMAIN tasks,
           NEW status \in {"running", "completed", "failed"},
           SetStatus(j, status), UNCHANGED <<lock, lost>>,
           \/ status = "running" /\ tasks' = [tasks EXCEPT ![j] = "work"]
           \/ tasks' = Without(tasks, j)
    PROVE  JobsInv'
<1>1. lock = {} /\ req' = Outdated(req) /\ jobs' = [jobs EXCEPT ![j] = status]
  BY DEF SetStatus
<1>2. j \in ActiveJobs /\ j \in DOMAIN jobs /\ jobs[j] \in Active
  BY DEF JobsInv, OneActive, ActiveJobs
<1>3. ActiveJobs = {j} /\ DOMAIN tasks = {j}
  BY <1>2 DEF JobsInv, OneActive
<1>4. /\ IsTable(jobs', Job, Active \cup Final)
      /\ DOMAIN jobs' = DOMAIN jobs
      /\ jobs'[j] = status
      /\ \A k \in DOMAIN jobs : k # j => jobs'[k] = jobs[k]
  <2>1. status \in Active \cup Final
    BY DEF Active, Final
  <2>2. IsTable(jobs, Job, Active \cup Final)
    BY DEF JobsInv, TypeOK
  <2> QED BY <1>1, <1>2, <2>1, <2>2, ExceptTable
<1>5. /\ ActiveJobs' \subseteq {j}
      /\ status = "running" => ActiveJobs' = {j}
  BY <1>2, <1>3, <1>4 DEF ActiveJobs, Active
<1>6. IsTable(tasks, Job, TaskStep)
  BY DEF JobsInv, TypeOK
<1>7. /\ IsTable(tasks', Job, TaskStep)
      /\ DOMAIN tasks' = {} \/ (status = "running" /\ DOMAIN tasks' = {j})
  <2>1. CASE status = "running" /\ tasks' = [tasks EXCEPT ![j] = "work"]
    <3>1. "work" \in TaskStep
      BY DEF TaskStep
    <3>2. IsTable(tasks', Job, TaskStep)
      BY <1>6, <2>1, <3>1, ExceptTable
    <3> QED BY <1>3, <2>1, <3>2
  <2>2. CASE tasks' = Without(tasks, j)
    <3>1. IsTable(tasks', Job, TaskStep)
      BY <1>6, <2>2, WithoutTable
    <3>2. DOMAIN tasks' = {}
      BY <1>3, <2>2 DEF Without
    <3> QED BY <3>1, <3>2
  <2> QED BY <2>1, <2>2
<1>8. IsTable(req', Request, RequestState) /\ LockHolds' /\ SnapshotHolds'
  BY <1>1, OutdatedSafe
<1>9. TypeOK'
  BY <1>4, <1>7, <1>8 DEF JobsInv, TypeOK
<1>10. OneActive'
  BY <1>5, <1>7 DEF OneActive
<1> QED BY <1>8, <1>9, <1>10 DEF JobsInv

\* A step of a task that writes nothing to the database.
LEMMA TaskOnlyStep ==
    ASSUME JobsInv, UNCHANGED <<jobs, req, lock>>, lost' \in SUBSET Job,
           IsTable(tasks', Job, TaskStep), DOMAIN tasks' \subseteq DOMAIN tasks
    PROVE  JobsInv'
BY DEF JobsInv, TypeOK, IsTable, LockHolds, SnapshotHolds, OneActive, ActiveJobs

LEMMA TaskStepKeeps ==
    ASSUME JobsInv, NEW j \in Job, Run(j) \/ GcError(j) \/ MarkError(j)
    PROVE  JobsInv'
<1>1. j \in DOMAIN tasks /\ IsTable(tasks, Job, TaskStep)
  BY DEF Run, MarkRunning, Work, CompleteJob, FailJob, GcError, MarkError,
         Working, JobsInv, TypeOK
<1>2. CASE MarkRunning(j) \/ CompleteJob(j) \/ FailJob(j)
  BY <1>1, <1>2, SetStatusStep DEF MarkRunning, CompleteJob, FailJob
<1>3. CASE Work(j) \/ GcError(j)
  <2>1. PICK step \in TaskStep : tasks' = [tasks EXCEPT ![j] = step]
    BY <1>3 DEF Work, GcError, TaskStep
  <2>2. IsTable(tasks', Job, TaskStep)
    BY <1>1, <2>1, ExceptTable
  <2> QED BY <1>3, <2>1, <2>2, TaskOnlyStep DEF Work, GcError, JobsInv, TypeOK
<1>4. CASE MarkError(j)
  <2>1. tasks' = Without(tasks, j)
    BY <1>4 DEF MarkError
  <2>2. IsTable(tasks', Job, TaskStep)
    BY <1>1, <2>1, WithoutTable
  <2>3. DOMAIN tasks' \subseteq DOMAIN tasks
    BY <2>1 DEF Without
  <2> QED BY <1>4, <2>2, <2>3, TaskOnlyStep DEF MarkError, JobsInv, TypeOK
<1> QED BY <1>2, <1>3, <1>4 DEF Run

LEMMA EmptyTable == \A K, V : IsTable(Empty, K, V) /\ DOMAIN Empty = {}
BY DEF IsTable, Empty

LEMMA CrashStep == ASSUME JobsInv, Crash PROVE JobsInv'
<1>1. /\ req' = Empty /\ tasks' = Empty /\ lock' = {} /\ jobs' = jobs
      /\ lost' \in SUBSET Job
  BY DEF Crash, JobsInv, TypeOK, IsTable
<1>2. TypeOK'
  BY <1>1, EmptyTable DEF JobsInv, TypeOK
<1> QED BY <1>1, <1>2, EmptyTable
        DEF JobsInv, LockHolds, SnapshotHolds, OneActive, ActiveJobs

LEMMA CommitElsewhereStep == ASSUME JobsInv, CommitElsewhere PROVE JobsInv'
<1>1. IsTable(req', Request, RequestState) /\ LockHolds' /\ SnapshotHolds'
  BY OutdatedSafe DEF CommitElsewhere
<1> QED BY <1>1 DEF CommitElsewhere, JobsInv, TypeOK, OneActive, ActiveJobs

-----------------------------------------------------------------------------
LEMMA JobsInit == Init => JobsInv
BY EmptyTable DEF Init, JobsInv, TypeOK, LockHolds, SnapshotHolds, OneActive,
                  ActiveJobs

LEMMA JobsStep == JobsInv /\ [Next]_vars => JobsInv'
<1> SUFFICES ASSUME JobsInv, [Next]_vars PROVE JobsInv'
  OBVIOUS
<1>1. CASE UNCHANGED vars
  BY <1>1 DEF vars, JobsInv, TypeOK, IsTable, LockHolds, SnapshotHolds,
     OneActive, ActiveJobs
<1> QED BY <1>1, PostStep, TaskStepKeeps, CrashStep, CommitElsewhereStep DEF Next

LEMMA JobsInvariant == Spec => []JobsInv
BY JobsInit, JobsStep, PTL DEF Spec

\* Every variable has its type.
THEOREM TypeCorrect == Spec => []TypeOK
<1>1. JobsInv => TypeOK
  BY DEF JobsInv
<1> QED BY <1>1, JobsInvariant, PTL

\* At most one job is pending or running, for any number of POST requests that
\* overlap, are refused, are dropped or are cut by a crash.
THEOREM AtMostOneActiveCorrect == Spec => []AtMostOneActive
BY JobsInvariant, JobsInvSuffices, PTL

\* At most one task collects, and the job it works on is active.
THEOREM OneCollectorCorrect == Spec => []OneCollector
BY JobsInvariant, JobsInvSuffices, PTL

\* Nothing writes the status of a job that completed or failed: a task exists
\* only for an active job, and a new job has a new row.
THEOREM FinalStatusStaysCorrect == Spec => FinalStatusStays
<1> DEFINE Stays == \A j \in DOMAIN jobs : jobs[j] \in Final => jobs'[j] = jobs[j]
<1>1. JobsInv /\ [Next]_vars => [Stays]_vars
  <2> SUFFICES ASSUME JobsInv, Next, NEW j \in DOMAIN jobs, jobs[j] \in Final
               PROVE  jobs'[j] = jobs[j]
    OBVIOUS
  <2>1. j \notin DOMAIN tasks
    BY DEF JobsInv, OneActive, ActiveJobs, Active, Final
  <2>2. ASSUME NEW r \in Request, CommitJob(r) \/ DropCommitted(r)
        PROVE  jobs'[j] = jobs[j]
    <3>1. req[r].job \notin DOMAIN jobs
      BY <2>2 DEF CommitJob, DropCommitted, At, JobsInv, SnapshotHolds
    <3>2. jobs' = With(jobs, req[r].job, "pending")
      BY <2>2 DEF CommitJob, DropCommitted
    <3> QED BY <3>1, <3>2 DEF With
  <2>3. ASSUME NEW k \in Job, Run(k) PROVE jobs'[j] = jobs[j]
    BY <2>1, <2>3 DEF Run, MarkRunning, Work, CompleteJob, FailJob, Working,
                      SetStatus
  <2>4. CASE UNCHANGED jobs
    BY <2>4
  <2> QED BY <2>2, <2>3, <2>4
          DEF Next, PostGc, Handle, FindActive, Deny, InsertJob, InsertBusy,
              DropRequest, GcError, MarkError, Crash, CommitElsewhere
<1> QED BY <1>1, JobsInvariant, PTL DEF Spec, FinalStatusStays
-----------------------------------------------------------------------------
(* The refinement of JobLifecycle *)

\* A task that has not started works on a pending job, one that has not failed
\* on a running one.
TaskStatus ==
    \A j \in DOMAIN tasks :
        /\ tasks[j] = "start" => jobs[j] = "pending"
        /\ tasks[j] \in {"work", "finish"} => jobs[j] = "running"

\* What a commit does to the table of jobs: the row it adds is new, and no
\* other job is active.
LEMMA CommitEffect ==
    ASSUME JobsInv, NEW r \in Request, CommitJob(r) \/ DropCommitted(r)
    PROVE  /\ req[r].job \in Job \ DOMAIN jobs
           /\ ActiveJobs = {} /\ DOMAIN tasks = {}
           /\ jobs' = With(jobs, req[r].job, "pending")
<1>1. r \in DOMAIN req /\ req[r].pc = "commit"
  BY DEF CommitJob, DropCommitted, At
<1>2. req[r].job \in Job \ DOMAIN jobs /\ ActiveJobs = {}
  BY <1>1 DEF JobsInv, SnapshotHolds
<1>3. DOMAIN tasks = {}
  BY <1>2 DEF JobsInv, OneActive
<1> QED BY <1>2, <1>3 DEF CommitJob, DropCommitted

LEMMA TaskStatusStep ==
    ASSUME JobsInv, TaskStatus, [Next]_vars
    PROVE  TaskStatus'
<1>1. ASSUME NEW r \in Request, CommitJob(r) PROVE TaskStatus'
  <2>1. /\ DOMAIN tasks = {} /\ jobs' = With(jobs, req[r].job, "pending")
        /\ tasks' = With(tasks, req[r].job, "start")
    BY <1>1, CommitEffect DEF CommitJob
  <2> QED BY <2>1 DEF With, TaskStatus
<1>2. ASSUME NEW r \in Request, DropCommitted(r) PROVE TaskStatus'
  <2>1. DOMAIN tasks = {} /\ tasks' = tasks
    BY <1>2, CommitEffect DEF DropCommitted
  <2> QED BY <2>1 DEF TaskStatus
<1>3. ASSUME NEW j \in Job, Run(j) \/ GcError(j) \/ MarkError(j)
      PROVE  TaskStatus'
  <2>1. /\ j \in DOMAIN tasks
        /\ IsTable(tasks, Job, TaskStep) /\ IsTable(jobs, Job, Active \cup Final)
    BY <1>3 DEF Run, MarkRunning, Work, CompleteJob, FailJob, GcError,
                MarkError, Working, JobsInv, TypeOK
  <2>2. DOMAIN tasks = {j} /\ j \in DOMAIN jobs
    BY <2>1 DEF JobsInv, OneActive, ActiveJobs
  <2>3. CASE MarkRunning(j)
    BY <2>1, <2>2, <2>3 DEF MarkRunning, SetStatus, TaskStatus, IsTable
  <2>4. CASE Work(j)
    BY <2>1, <2>2, <2>4 DEF Work, Working, TaskStatus, IsTable
  <2>5. CASE GcError(j)
    BY <2>1, <2>2, <2>5 DEF GcError, TaskStatus, IsTable
  <2>6. CASE CompleteJob(j) \/ FailJob(j) \/ MarkError(j)
    <3>1. DOMAIN tasks' = {}
      BY <2>2, <2>6 DEF CompleteJob, FailJob, MarkError, Without
    <3> QED BY <3>1 DEF TaskStatus
  <2> QED BY <1>3, <2>3, <2>4, <2>5, <2>6 DEF Run
<1>4. CASE Crash
  BY <1>4, EmptyTable DEF Crash, TaskStatus
<1>5. CASE UNCHANGED <<jobs, tasks>>
  BY <1>5 DEF TaskStatus
<1> QED BY <1>1, <1>2, <1>3, <1>4, <1>5
        DEF Next, PostGc, Handle, FindActive, Deny, InsertJob, InsertBusy,
            DropRequest, CommitElsewhere, vars

\* A step either leaves the table of jobs alone or is one of JobLifecycle's.
LEMMA LifecycleStep ==
    ASSUME JobsInv, TaskStatus, [Next]_vars
    PROVE  [JobLifecycle!Next]_jobs
<1>1. ASSUME NEW r \in Request, CommitJob(r) \/ DropCommitted(r)
      PROVE  JobLifecycle!Next
  <2>1. /\ req[r].job \in Job \ DOMAIN jobs /\ ActiveJobs = {}
        /\ jobs' = With(jobs, req[r].job, "pending")
    BY <1>1, CommitEffect
  <2>2. JobLifecycle!Accept(req[r].job)
    BY <2>1 DEF JobLifecycle!Accept, JobLifecycle!Unfinished, ActiveJobs, Active,
                JobLifecycle!With, With
  <2> QED BY <2>1, <2>2 DEF JobLifecycle!Next
<1>2. ASSUME NEW j \in Job, Run(j) PROVE [JobLifecycle!Next]_jobs
  <2>1. CASE MarkRunning(j) \/ CompleteJob(j) \/ FailJob(j)
    <3>1. j \in DOMAIN tasks /\ j \in DOMAIN jobs /\ jobs[j] \in Active
      BY <2>1 DEF MarkRunning, CompleteJob, FailJob, Working, JobsInv, OneActive,
                  ActiveJobs
    <3>2. CASE MarkRunning(j)
      <4>1. JobLifecycle!Start(j)
        BY <3>1, <3>2 DEF MarkRunning, Working, SetStatus, TaskStatus,
                          JobLifecycle!Start, JobLifecycle!Move
      <4> QED BY <4>1 DEF JobLifecycle!Next
    <3>3. CASE CompleteJob(j)
      <4>1. JobLifecycle!Complete(j)
        BY <3>1, <3>3 DEF CompleteJob, Working, SetStatus, TaskStatus,
                          JobLifecycle!Complete, JobLifecycle!Move
      <4> QED BY <4>1 DEF JobLifecycle!Next
    <3>4. CASE FailJob(j)
      <4>1. JobLifecycle!Fail(j)
        BY <3>1, <3>4 DEF FailJob, SetStatus, Active,
                          JobLifecycle!Fail, JobLifecycle!Move
      <4> QED BY <4>1 DEF JobLifecycle!Next
    <3> QED BY <2>1, <3>2, <3>3, <3>4
  <2>2. CASE Work(j)
    BY <2>2 DEF Work
  <2> QED BY <1>2, <2>1, <2>2 DEF Run
<1>3. CASE UNCHANGED jobs
  BY <1>3
<1> QED BY <1>1, <1>2, <1>3
        DEF Next, PostGc, Handle, FindActive, Deny, InsertJob, InsertBusy,
            DropRequest, GcError, MarkError, Crash, CommitElsewhere, vars

\* The jobs table goes through the life of a job as JobLifecycle has it: every
\* step of every statement, error, drop and crash is one of its steps or none.
THEOREM ImplementsJobLifecycleCorrect == Spec => ImplementsJobLifecycle
<1>1. Init => JobLifecycle!Init /\ TaskStatus
  BY EmptyTable DEF Init, JobLifecycle!Init, JobLifecycle!Empty, Empty, TaskStatus
<1> QED BY <1>1, TaskStatusStep, LifecycleStep, JobsInvariant, PTL
        DEF Spec, ImplementsJobLifecycle, JobLifecycle!Spec

-----------------------------------------------------------------------------
(* Why a job stays active *)

LEMMA ActiveHasTaskStep ==
    JobsInv /\ ActiveHasTask /\ [Next]_vars => ActiveHasTask'
<1> SUFFICES ASSUME JobsInv, ActiveHasTask, [Next]_vars PROVE ActiveHasTask'
  OBVIOUS
<1>1. ASSUME UNCHANGED jobs, DOMAIN tasks \cup lost \subseteq DOMAIN tasks' \cup lost'
      PROVE  ActiveHasTask'
  BY <1>1 DEF ActiveHasTask, ActiveJobs
<1>2. ASSUME NEW r \in Request, CommitJob(r) \/ DropCommitted(r)
      PROVE  ActiveHasTask'
  <2>1. PICK j : /\ jobs' = With(jobs, j, "pending")
                 /\ j \in DOMAIN tasks' \cup lost'
                 /\ DOMAIN tasks \cup lost \subseteq DOMAIN tasks' \cup lost'
    BY <1>2 DEF CommitJob, DropCommitted, With
  <2>2. \A i \in DOMAIN jobs' : i = j \/ (i \in DOMAIN jobs /\ jobs'[i] = jobs[i])
    BY <2>1 DEF With
  <2> QED BY <2>1, <2>2 DEF ActiveHasTask, ActiveJobs
<1>3. ASSUME NEW j \in Job, CompleteJob(j) \/ FailJob(j)
      PROVE  ActiveHasTask'
  <2>1. PICK status \in Final : /\ jobs' = [jobs EXCEPT ![j] = status]
                                /\ tasks' = Without(tasks, j) /\ lost' = lost
    BY <1>3 DEF CompleteJob, FailJob, SetStatus, Final
  <2>2. j \notin ActiveJobs'
    BY <2>1 DEF ActiveJobs, Active, Final
  <2>3. ActiveJobs' \subseteq ActiveJobs
    BY <2>1, <2>2 DEF ActiveJobs
  <2>4. DOMAIN tasks' = DOMAIN tasks \ {j}
    BY <2>1 DEF Without
  <2> QED BY <2>1, <2>2, <2>3, <2>4 DEF ActiveHasTask
<1>4. ASSUME NEW j \in Job, MarkRunning(j)
      PROVE  ActiveHasTask'
  <2>1. /\ DOMAIN jobs' = DOMAIN jobs
        /\ \A i \in DOMAIN jobs : i # j => jobs'[i] = jobs[i]
        /\ DOMAIN tasks' = DOMAIN tasks /\ lost' = lost /\ j \in DOMAIN tasks
    BY <1>4 DEF MarkRunning, SetStatus, Working, JobsInv, TypeOK, IsTable
  <2> QED BY <2>1 DEF ActiveHasTask, ActiveJobs
<1>5. ASSUME NEW j \in Job, Work(j) \/ GcError(j)
      PROVE  ActiveHasTask'
  BY <1>1, <1>5 DEF Work, GcError
<1>6. ASSUME NEW j \in Job, MarkError(j)
      PROVE  ActiveHasTask'
  BY <1>1, <1>6 DEF MarkError, Without
<1>7. CASE Crash
  BY <1>1, <1>7 DEF Crash
<1>8. ASSUME NEW r \in Request,
             PostGc(r) \/ FindActive(r) \/ Deny(r) \/ InsertJob(r) \/ InsertBusy(r)
             \/ DropRequest(r)
      PROVE  ActiveHasTask'
  BY <1>1, <1>8 DEF PostGc, FindActive, Deny, InsertJob, InsertBusy, DropRequest
<1>9. CASE CommitElsewhere \/ UNCHANGED vars
  BY <1>1, <1>9 DEF CommitElsewhere, vars
<1> QED BY <1>2, <1>3, <1>4, <1>5, <1>6, <1>7, <1>8, <1>9 DEF Next, Handle, Run

\* A job that is neither completed nor failed is worked on, unless its task was
\* lost: never spawned, gone with the process, or without a last word.
THEOREM ActiveHasTaskCorrect == Spec => []ActiveHasTask
<1>1. Init => ActiveHasTask
  BY DEF Init, ActiveHasTask, ActiveJobs, Empty
<1> QED BY <1>1, ActiveHasTaskStep, JobsInvariant, PTL DEF Spec

LEMMA OnlyFindDenies ==
    ASSUME JobsInv, [Next]_vars, NEW r \in Request, At(r, "find"), At(r, "denied")'
    PROVE  ActiveJobs # {}
<1>1. /\ r \in DOMAIN req /\ req[r].pc = "find"
      /\ r \in DOMAIN req' /\ req'[r].pc = "denied"
  BY DEF At
<1>2. IsTable(req, Request, RequestState)
  BY DEF JobsInv, TypeOK
<1>3. req[r] \in RequestState
  BY <1>1, <1>2 DEF IsTable
<1>4. ASSUME NEW s, s # r, NEW x, req' = [req EXCEPT ![s] = x] PROVE FALSE
  BY <1>1, <1>4
<1>5. ASSUME NEW s, req' = Without(req, s) PROVE FALSE
  BY <1>1, <1>5 DEF Without
<1>6. /\ DOMAIN Outdated(req) = DOMAIN req
      /\ \A s \in DOMAIN req : Outdated(req)[s].pc = req[s].pc
  BY <1>2, OutdatedEffect
<1>7. ASSUME req' = Outdated(req) PROVE FALSE
  BY <1>1, <1>6, <1>7
<1>8. ASSUME NEW s, req' = Without(Outdated(req), s) PROVE FALSE
  BY <1>1, <1>6, <1>8 DEF Without
<1>9. ASSUME NEW s \in Request, PostGc(s) PROVE FALSE
  BY <1>1, <1>9 DEF PostGc, With
<1>10. ASSUME NEW s \in Request, FindActive(s) PROVE ActiveJobs # {}
  <2>1. CASE s # r
    BY <1>1, <1>10, <2>1 DEF FindActive
  <2>2. ASSUME s = r, ActiveJobs = {} PROVE FALSE
    BY <1>1, <1>3, <1>10, <2>2 DEF FindActive, RequestState
  <2> QED BY <2>1, <2>2
<1>11. ASSUME NEW s \in Request, InsertJob(s) PROVE FALSE
  <2>1. s # r
    BY <1>1, <1>11 DEF InsertJob, At
  <2> QED BY <1>1, <1>5, <1>11, <2>1 DEF InsertJob, End
<1>12. ASSUME NEW s \in Request,
              Deny(s) \/ InsertBusy(s) \/ CommitJob(s) \/ DropRequest(s)
              \/ DropCommitted(s)
       PROVE  FALSE
  BY <1>5, <1>8, <1>12 DEF Deny, InsertBusy, CommitJob, DropRequest, DropCommitted, End
<1>13. ASSUME NEW j \in Job, Run(j) \/ GcError(j) \/ MarkError(j) PROVE FALSE
  BY <1>1, <1>7, <1>13 DEF Run, MarkRunning, Work, CompleteJob, FailJob, SetStatus,
                          GcError, MarkError
<1>14. CASE Crash
  BY <1>1, <1>14 DEF Crash, Empty
<1>15. CASE CommitElsewhere \/ UNCHANGED vars
  BY <1>1, <1>7, <1>15 DEF CommitElsewhere, vars
<1> QED BY <1>9, <1>10, <1>11, <1>12, <1>13, <1>14, <1>15 DEF Next, Handle

\* What DeniedOnlyWhileRunning misses is a lost job and nothing else: without
\* one, a POST is refused only while a task works on the active job.
THEOREM DeniedOnlyWhileRunningOrLostCorrect == Spec => DeniedOnlyWhileRunningOrLost
<1> DEFINE Right == \A r \in Request :
                       At(r, "find") /\ At(r, "denied")' =>
                           DOMAIN tasks # {} \/ ActiveJobs \cap lost # {}
<1>1. JobsInv /\ ActiveHasTask /\ [Next]_vars => [Right]_vars
  BY OnlyFindDenies DEF ActiveHasTask
<1> QED BY <1>1, JobsInvariant, ActiveHasTaskCorrect, PTL
        DEF Spec, DeniedOnlyWhileRunningOrLost
=============================================================================
