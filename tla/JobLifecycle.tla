----------------------------- MODULE JobLifecycle -----------------------------
(***************************************************************************)
(* The life of an HR's jobs, statement by statement: uploads, retries of a *)
(* failed parse (one more generation of the job's task), deletions, debug  *)
(* resets, the workers' completions and the rounds of matching, each one a *)
(* transaction that locks rows.  Reads see what is committed; a statement  *)
(* that wants a row another transaction holds waits; PostgreSQL ends one   *)
(* transaction of a cycle of waiting ones.                                 *)
(*                                                                         *)
(* Leases, publications and deliveries are AsyncTask's: here a running     *)
(* task has one execution, which may be given up by the stall recovery at  *)
(* any time, and a released one may be claimed again.                      *)
(***************************************************************************)
EXTENDS Integers, Sequences, FiniteSets

CONSTANTS
  Job, Hr, Worker, Round,  \* jobs; requests of HR, workers, rounds of matching at once
  MaxRequests              \* bound: requests of HR

ASSUME JobLifecycleAssumption == MaxRequests \in Nat

VARIABLES
  job,       \* none, live, deleted or gone (its row is removed)
  task,      \* the generations of the job's task: [status, at], at = created_at
  snapshot,  \* the generation that wrote the snapshot, or 0
  match,     \* whether there is a match of the job
  txn,       \* what each process is doing: [op, job, pc, at, ...]
  held,      \* the rows it has locked
  clock      \* requests so far: the time at which the next transaction starts

vars == <<job, task, snapshot, match, txn, held, clock>>

Proc == Hr \cup Worker \cup Round
Newest(j) == Len(task[j])

\* Rows: a job for update, a job for key share (by the foreign key of a match), a task.
JobRow(j) == <<"job", j, 0>>
KeyShare(j) == <<"share", j, 0>>
TaskRow(j, g) == <<"task", j, g>>
TaskRows(j, n) == {TaskRow(j, g) : g \in 1..n}

Conflicts(a, b) ==
  \/ a = b /\ a[1] # "share"
  \/ a[2] = b[2] /\ {a[1], b[1]} = {"job", "share"}

Blockers(p, rows) == {q \in Proc \ {p} : \E a \in rows, b \in held[q] : Conflicts(a, b)}
CanLock(p, rows) == Blockers(p, rows) = {}

Idle == [op |-> "idle", pc |-> "idle"]
At(p, op, pc) == txn[p].op = op /\ txn[p].pc = pc

\* mutant: the session is left open.
EndWithLocks(p) == txn' = [txn EXCEPT ![p] = Idle] /\ UNCHANGED held
\* The transaction ends, and with it its locks.
End(p) == /\ txn' = [txn EXCEPT ![p] = Idle]
          /\ held' = [held EXCEPT ![p] = {}]
\* It goes on, holding more rows.
Goto(p, pc, rows) == /\ txn' = [txn EXCEPT ![p].pc = pc]
                     /\ held' = [held EXCEPT ![p] = @ \cup rows]

\* "removed": the row has been deleted by a reset.
Active(t) == t.status \in {"queued", "running"}
Settled(t) == t.status \in {"succeeded", "failed"}

Init ==
  /\ job = [j \in Job |-> "none"]
  /\ task = [j \in Job |-> <<>>]
  /\ snapshot = [j \in Job |-> 0]
  /\ match = [j \in Job |-> FALSE]
  /\ txn = [p \in Proc |-> Idle]
  /\ held = [p \in Proc |-> {}]
  /\ clock = 0

-----------------------------------------------------------------------------
(* HR uploads *)

Resetting == \E h \in Hr : txn[h].op = "reset"

\* The new job refers to the HR's profile, whose row a reset holds.
Upload(j) ==
  /\ job[j] = "none" /\ ~Resetting
  /\ job' = [job EXCEPT ![j] = "live"]
  /\ task' = [task EXCEPT ![j] = <<[status |-> "queued", at |-> clock]>>]
  /\ UNCHANGED <<snapshot, match, txn, held, clock>>

-----------------------------------------------------------------------------
(* HR asks for another parse, or for the deletion of the job *)

\* The transaction starts: its time is what created_at will be.
Begin(h, op, j) ==
  /\ txn[h] = Idle /\ clock < MaxRequests /\ job[j] # "none"
  /\ clock' = clock + 1
  /\ txn' = [txn EXCEPT ![h] = [op |-> op, job |-> j, pc |-> "lock job", at |-> clock']]
  /\ UNCHANGED <<job, task, snapshot, match, held>>

\* Only retry asks whether the job has a match.
RetryLockJob(h) ==
  LET j == txn[h].job IN
  /\ txn[h].op \in {"submit", "retry"} /\ txn[h].pc = "lock job"
  /\ CanLock(h, {JobRow(j)})
  /\ IF job[j] = "live" /\ ~(txn[h].op = "retry" /\ match[j])
     THEN Goto(h, "lock task", {JobRow(j)}) ELSE End(h)
  /\ UNCHANGED <<job, task, snapshot, match, clock>>

\* mutant: anything but a running task may be retried.
MayRetryUnlessRunning(latest) == latest.status # "running"
MayRetry(latest) == latest.status = "failed"

RetryLockTasks(h) ==
  LET j == txn[h].job IN
  /\ txn[h].op \in {"submit", "retry"} /\ txn[h].pc = "lock task"
  /\ CanLock(h, TaskRows(j, Newest(j)))
  /\ task' = IF MayRetry(task[j][Newest(j)])
             THEN [task EXCEPT ![j] = Append(@, [status |-> "queued", at |-> txn[h].at])]
             ELSE task
  /\ End(h)
  /\ UNCHANGED <<job, snapshot, match, clock>>

DeleteLockJob(h) ==
  LET j == txn[h].job IN
  /\ At(h, "delete", "lock job")
  /\ CanLock(h, {JobRow(j)})
  /\ IF job[j] = "live" THEN Goto(h, "lock task", {JobRow(j)}) ELSE End(h)
  /\ UNCHANGED <<job, task, snapshot, match, clock>>

\* The latest by created_at, which need not be the newest generation.
LatestByTime(j) ==
  CHOOSE g \in DOMAIN task[j] :
    \A k \in DOMAIN task[j] :
      task[j][k].at < task[j][g].at \/ (task[j][k].at = task[j][g].at /\ k <= g)

\* mutant: a task that waits for a worker does not keep its job.
MayDeleteUnlessRunning(latest) == latest.status # "running"
MayDelete(latest) == Settled(latest)

\* mutant: the snapshot of a deleted job stays.
SnapshotKept(j) == snapshot[j]
SnapshotAfterDeletion(j) == 0

DeleteLockTask(h) ==
  LET j == txn[h].job
      g == LatestByTime(j)
      may == MayDelete(task[j][g]) /\ ~match[j]
  IN /\ At(h, "delete", "lock task")
     /\ CanLock(h, {TaskRow(j, g)})
     /\ job' = [job EXCEPT ![j] = IF may THEN "deleted" ELSE @]
     /\ snapshot' = [snapshot EXCEPT ![j] = IF may THEN SnapshotAfterDeletion(j) ELSE @]
     /\ End(h)
     /\ UNCHANGED <<task, match, clock>>

-----------------------------------------------------------------------------
(* HR resets the account *)

HasRow(j) == job[j] \in {"live", "deleted"}

\* The profile is locked, the jobs are read, active tasks looked for without a lock;
\* the matches are deleted.
ResetBegin(h) ==
  /\ txn[h] = Idle /\ clock < MaxRequests /\ ~Resetting
  /\ \A j \in Job : HasRow(j) => \A g \in DOMAIN task[j] : ~Active(task[j][g])
  /\ clock' = clock + 1
  /\ txn' = [txn EXCEPT ![h] = [op |-> "reset", pc |-> "read tasks", jobs |-> {j \in Job : HasRow(j)},
                                matches |-> {j \in Job : match[j]}, rows |-> {}]]
  /\ UNCHANGED <<job, task, snapshot, match, held>>

ResetReadTasks(h) ==
  /\ At(h, "reset", "read tasks")
  /\ txn' = [txn EXCEPT ![h].pc = "delete",
       ![h].rows = UNION {TaskRows(j, Newest(j)) \cup {JobRow(j)} : j \in txn[h].jobs}]
  /\ UNCHANGED <<job, task, snapshot, match, held, clock>>

\* The rows are deleted one by one, in an order the session chooses.
ResetDelete(h, row) ==
  /\ At(h, "reset", "delete")
  /\ row \in txn[h].rows \ held[h]
  /\ CanLock(h, {row})
  /\ held' = [held EXCEPT ![h] = @ \cup {row}]
  /\ UNCHANGED <<job, task, snapshot, match, txn, clock>>

\* A match that was inserted since keeps its job: the reset is undone.
ResetCommit(h) ==
  /\ At(h, "reset", "delete") /\ txn[h].rows \subseteq held[h]
  /\ LET done == \A j \in txn[h].jobs : match[j] => j \in txn[h].matches
         left(j) == done /\ j \in txn[h].jobs
     IN /\ job' = [j \in Job |-> IF left(j) THEN "gone" ELSE job[j]]
        /\ match' = [j \in Job |-> IF left(j) THEN FALSE ELSE match[j]]
        /\ snapshot' = [j \in Job |-> IF left(j) THEN 0 ELSE snapshot[j]]
        /\ task' = [j \in Job |-> [g \in DOMAIN task[j] |->
                      IF done /\ TaskRow(j, g) \in txn[h].rows
                      THEN [task[j][g] EXCEPT !.status = "removed"] ELSE task[j][g]]]
  /\ End(h)
  /\ UNCHANGED clock

-----------------------------------------------------------------------------
(* Workers *)

SetStatus(j, g, status) == task' = [task EXCEPT ![j][g].status = status]

Claimable(j, g) == task[j][g].status = "queued"

Claim(w, j, g) ==
  /\ txn[w] = Idle /\ Claimable(j, g) /\ CanLock(w, {TaskRow(j, g)})
  /\ SetStatus(j, g, "running")
  /\ txn' = [txn EXCEPT ![w] = [op |-> "execute", job |-> j, gen |-> g, pc |-> "parse",
                                found |-> job[j] = "live"]]
  /\ UNCHANGED <<job, snapshot, match, held, clock>>

\* The execution ends without a result; a write that comes too late is ignored.
GiveUp(w, status) ==
  LET j == txn[w].job  g == txn[w].gen IN
  /\ At(w, "execute", "parse")
  /\ CanLock(w, {TaskRow(j, g)})
  /\ IF task[j][g].status = "running" THEN SetStatus(j, g, status) ELSE UNCHANGED task
  /\ End(w)
  /\ UNCHANGED <<job, snapshot, match, clock>>

\* The content cannot be parsed, or the retries are used up.
FailTask(w) == GiveUp(w, "failed")

\* The file cannot be read or the job is deleted, or the parser raises something
\* unforeseen, and a retry is left.
ReleaseTask(w) == GiveUp(w, "queued")

\* It succeeds: the task is locked first.
CompleteLockTask(w) ==
  LET j == txn[w].job  g == txn[w].gen IN
  /\ At(w, "execute", "parse") /\ txn[w].found
  /\ CanLock(w, {TaskRow(j, g)})
  /\ IF task[j][g].status = "running" THEN Goto(w, "lock job", {TaskRow(j, g)}) ELSE End(w)
  /\ UNCHANGED <<job, task, snapshot, match, clock>>

\* A job that was deleted meanwhile gets no result, and its task stays running.
CompleteLockJob(w) ==
  LET j == txn[w].job  g == txn[w].gen IN
  /\ At(w, "execute", "lock job")
  /\ CanLock(w, {JobRow(j)})
  /\ IF job[j] = "live"
     THEN SetStatus(j, g, "succeeded") /\ snapshot' = [snapshot EXCEPT ![j] = g]
     ELSE UNCHANGED <<task, snapshot>>
  /\ End(w)
  /\ UNCHANGED <<job, match, clock>>

\* mutant: tasks whose job is deleted are not recovered.
RecoverableOfLiveJob(j, g) == task[j][g].status = "running" /\ job[j] = "live"
Recoverable(j, g) == task[j][g].status = "running"

\* The stall recovery: the lease of the execution has expired.
Recover(j, g) ==
  /\ Recoverable(j, g)
  /\ \A p \in Proc : TaskRow(j, g) \notin held[p]
  /\ SetStatus(j, g, "failed")
  /\ UNCHANGED <<job, snapshot, match, txn, held, clock>>

-----------------------------------------------------------------------------
(* Matching *)

RoundReadJobs(c) ==
  /\ txn[c] = Idle
  /\ txn' = [txn EXCEPT ![c] = [op |-> "round", pc |-> "read tasks",
               jobs |-> {j \in Job : job[j] = "live" /\ snapshot[j] # 0}]]
  /\ UNCHANGED <<job, task, snapshot, match, held, clock>>

\* By generation, and at a later moment than the jobs.
Eligible(j) ==
  Newest(j) # 0 /\ task[j][Newest(j)].status = "succeeded"

RoundReadTasks(c) ==
  /\ At(c, "round", "read tasks")
  /\ txn' = [txn EXCEPT ![c].pc = "insert", ![c].jobs = {j \in @ : Eligible(j)}]
  /\ UNCHANGED <<job, task, snapshot, match, held, clock>>

\* The match refers to the job: a key share lock, and an error if the row has gone,
\* which undoes the round.
RoundInsert(c, j) ==
  /\ At(c, "round", "insert") /\ j \in txn[c].jobs
  /\ CanLock(c, {KeyShare(j)})
  /\ IF job[j] = "gone" THEN End(c)
     ELSE /\ held' = [held EXCEPT ![c] = @ \cup {KeyShare(j)}]
          /\ txn' = [txn EXCEPT ![c].jobs = @ \ {j}]
  /\ UNCHANGED <<job, task, snapshot, match, clock>>

RoundCommit(c) ==
  /\ At(c, "round", "insert") /\ txn[c].jobs = {}
  /\ match' = [j \in Job |-> match[j] \/ KeyShare(j) \in held[c]]
  /\ End(c)
  /\ UNCHANGED <<job, task, snapshot, clock>>

-----------------------------------------------------------------------------
(* PostgreSQL *)

\* The rows a transaction waits for or would wait for with its next statement.
Wanted(p) ==
  LET t == txn[p] IN
  CASE t.pc = "lock job" -> {JobRow(t.job)}
    [] t.pc = "lock task" -> IF t.op = "delete" THEN {TaskRow(t.job, LatestByTime(t.job))}
                             ELSE TaskRows(t.job, Newest(t.job))
    [] t.pc = "delete" -> t.rows \ held[p]
    [] t.pc = "insert" -> {KeyShare(j) : j \in t.jobs}
    [] OTHER -> {}

\* A set of transactions each of which waits for another one of it.
Stuck(S) == \A p \in S : Blockers(p, Wanted(p)) \cap S # {}

\* One of a smallest such set is ended; the execution of a worker is then over, its
\* task still running.
BreakDeadlock(p) ==
  /\ \E S \in SUBSET Proc : /\ p \in S /\ Stuck(S)
                            /\ \A T \in SUBSET S : T \in {S, {}} \/ ~Stuck(T)
  /\ End(p)
  /\ UNCHANGED <<job, task, snapshot, match, clock>>

-----------------------------------------------------------------------------
HrStep(h) ==
  \/ RetryLockJob(h) \/ RetryLockTasks(h) \/ DeleteLockJob(h) \/ DeleteLockTask(h)
  \/ ResetReadTasks(h) \/ ResetCommit(h)
  \/ \E row \in (IF txn[h].op = "reset" THEN txn[h].rows ELSE {}) : ResetDelete(h, row)

WorkerStep(w) == FailTask(w) \/ ReleaseTask(w) \/ CompleteLockTask(w) \/ CompleteLockJob(w)

RoundStep(c) ==
  \/ RoundReadTasks(c) \/ RoundCommit(c)
  \/ \E j \in Job : RoundInsert(c, j)

Next ==
  \/ \E j \in Job : Upload(j)
  \/ \E h \in Hr, j \in Job, op \in {"submit", "retry", "delete"} : Begin(h, op, j)
  \/ \E h \in Hr : ResetBegin(h) \/ HrStep(h)
  \/ \E j \in Job : \E g \in DOMAIN task[j] :
       Recover(j, g) \/ \E w \in Worker : Claim(w, j, g)
  \/ \E w \in Worker : WorkerStep(w)
  \/ \E c \in Round : RoundReadJobs(c) \/ RoundStep(c)
  \/ \E p \in Proc : BreakDeadlock(p)

Spec == Init /\ [][Next]_vars

\* Transactions go on, the database breaks deadlocks, and the stall recovery runs.  That
\* a queued task is claimed is not assumed: its delivery may be dropped (AsyncTask).
Fairness ==
  /\ \A h \in Hr : WF_vars(HrStep(h))
  /\ \A w \in Worker : WF_vars(WorkerStep(w))
  /\ \A c \in Round : WF_vars(RoundStep(c))
  /\ WF_vars(\E p \in Proc : BreakDeadlock(p))
  /\ \A j \in Job : WF_vars(\E g \in DOMAIN task[j] : Recover(j, g))

FairSpec == Spec /\ Fairness

-----------------------------------------------------------------------------
(* Properties *)

Generation == [status : {"queued", "running", "succeeded", "failed", "removed"},
               at : 0..MaxRequests]

\* A process that does nothing has locked nothing.
TypeOK ==
  /\ job \in [Job -> {"none", "live", "deleted", "gone"}]
  /\ task \in [Job -> Seq(Generation)] /\ snapshot \in [Job -> Nat]
  /\ \A j \in Job : snapshot[j] <= Newest(j) /\ (job[j] = "none" <=> task[j] = <<>>)
  /\ match \in [Job -> BOOLEAN] /\ clock \in 0..MaxRequests
  /\ \A p \in Proc : txn[p] = Idle => held[p] = {}

\* However retries, submissions, completions and recoveries overlap, only the newest
\* generation of a job's task is ever active: no two are parsed at once, and a success
\* is never followed by another generation.
OnlyNewestIsActive ==
  \A j \in Job : \A g \in DOMAIN task[j] :
    g < Newest(j) => task[j][g].status \in {"failed", "removed"}

\* The times of a job's tasks go with their generations: no transaction that created
\* one started before the transaction of an earlier one.
InOrder(j) ==
  \A g, k \in DOMAIN task[j] : g < k => task[j][g].at <= task[j][k].at

\* A deleted job has no task that is queued or running, unless a retry that started
\* earlier came later: the deletion asks for the latest task by time.
DeletedIsSettled ==
  \A j \in Job : job[j] = "deleted" /\ InOrder(j) =>
    \A g \in DOMAIN task[j] : ~Active(task[j][g])

\* A snapshot is there exactly if the job is not deleted and its newest task succeeded:
\* a completion never brings the snapshot of a deleted job back, an aborted one leaves
\* none, and what matching reads belongs to the parse that HR sees.
SnapshotOfNewest ==
  \A j \in Job :
    /\ snapshot[j] # 0 =>
         /\ job[j] = "live" /\ snapshot[j] = Newest(j)
         /\ task[j][Newest(j)].status = "succeeded"
    /\ job[j] = "live" /\ Newest(j) # 0 /\ task[j][Newest(j)].status = "succeeded" =>
         snapshot[j] # 0

\* No task runs for ever, whatever is deleted, reset, aborted in a deadlock or found
\* deleted meanwhile: an execution that can no longer write its result leaves the task
\* to the stall recovery, and the rows of a task under way are locked for a time only.
\* The task may be queued again, and then wait for a delivery that does not come.
RunningEnds ==
  \A j \in Job : (\E g \in DOMAIN task[j] : task[j][g].status = "running")
                  ~> (\A g \in DOMAIN task[j] : task[j][g].status # "running")
=============================================================================
