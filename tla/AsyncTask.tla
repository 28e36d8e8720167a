----------------------------- MODULE AsyncTask -----------------------------
(***************************************************************************)
(* The durable task queue of the CareerPass backend: rows of the table     *)
(* async_task_runs, the Dispatcher that publishes them to the Celery       *)
(* broker, and the Celery workers that lease, execute and finish them.     *)
(*                                                                         *)
(* A task is bound to one resource: a resume (parsed into a                *)
(* CandidateProfile) or a job (parsed into a ParsedJobDescriptionSnapshot).*)
(* Every action is one database transaction of the code, one broker        *)
(* operation, or one process event (interruption, kill, crash).            *)
(*                                                                         *)
(* Time is relative: a lease is the time it has left, a running row its    *)
(* age since started_at, a worker the time since its delivery.  Tick moves *)
(* them together, so no clock grows and "expired" is "nothing left".       *)
(***************************************************************************)
EXTENDS Naturals, FiniteSets

CONSTANTS
  Task,           \* ids of async_task_runs
  ResumeTask,     \* those of type resume_parse; the others are job_jd_parse
  Worker,         \* Celery worker processes
  Dispatcher,     \* dispatcher processes (the deployment runs one)
  Token,          \* uuid4 values
  NoToken,        \* SQL NULL in a token column
  NoTask,         \* what an idle worker executes
  MaxRetries,     \* celery_task_max_retries
  SoftLimit,      \* celery_task_soft_time_limit_seconds
  HardLimit,      \* celery_task_time_limit_seconds
  ExecLease,      \* celery_execution_lease_seconds
  DispatchLease,  \* celery_dispatch_lease_seconds
  StallAfter,     \* stalled_after_seconds of fail_stalled_tasks
  BatchSize,      \* celery_dispatcher_batch_size
  MaxCopies,      \* bound: copies of one message the broker distinguishes
  MaxFaults       \* bound: faults (crashes, failed calls) in one behaviour

(* The last conjunct is Settings.reject_production_debug; nothing in the    *)
(* settings relates the execution lease to the limits.                      *)
ASSUME SettingsAssumption ==
  /\ ResumeTask \subseteq Task
  /\ NoToken \notin Token
  /\ NoTask \notin Task
  /\ MaxRetries \in Nat /\ MaxFaults \in Nat
  /\ BatchSize \in Nat \ {0} /\ MaxCopies \in Nat \ {0}
  /\ ExecLease \in Nat \ {0} /\ DispatchLease \in Nat \ {0}
  /\ StallAfter \in Nat \ {0}
  /\ SoftLimit \in Nat \ {0} /\ HardLimit \in Nat
  /\ SoftLimit < HardLimit

VARIABLES
  row,      \* Task -> its async_task_runs row
  parse,    \* ResumeTask -> Resume.parse_status
  result,   \* Task -> is there a profile (resume) or snapshot (job)?
  deleted,  \* Task -> is the resource's deleted_at set?
  queue,    \* Message -> copies waiting in the broker
  worker,   \* Worker -> the attempt it executes
  lease,    \* Dispatcher -> Task -> DispatchLease it still has to handle
  faults    \* faults so far

vars == <<row, parse, result, deleted, queue, worker, lease, faults>>

Terminal == {"succeeded", "failed"}
Status   == {"absent", "queued", "running"} \union Terminal

Message == [task : Task, retries : 0..MaxRetries]

Row == [status        : Status,
        dispatchToken : Token \union {NoToken},
        dispatchLease : 0..DispatchLease,
        dispatched    : BOOLEAN,
        execToken     : Token \union {NoToken},
        execLease     : 0..ExecLease,
        age           : 0..StallAfter]

Attempt == [pc      : {"idle", "started", "working", "retrying", "done"},
            task    : Task \union {NoTask},
            retries : 0..MaxRetries,
            token   : Token \union {NoToken},
            clock   : 0..HardLimit]

Held == [stage : {"none", "claimed", "published", "unsent"},
         token : Token \union {NoToken}]

NewRow  == [status |-> "absent", dispatchToken |-> NoToken, dispatchLease |-> 0,
            dispatched |-> FALSE, execToken |-> NoToken, execLease |-> 0, age |-> 0]
Idle    == [pc |-> "idle", task |-> NoTask, retries |-> 0, token |-> NoToken,
            clock |-> 0]
NotHeld == [stage |-> "none", token |-> NoToken]

(* A row holds an execution lease exactly while it runs.                    *)
LeaseOK(r) ==
  /\ r.status = "running" <=> r.execToken # NoToken
  /\ r.status # "running" => r.execLease = 0

TypeOK ==
  /\ row \in [Task -> Row]
  /\ \A t \in Task : LeaseOK(row[t])
  /\ parse \in [ResumeTask -> {"absent", "processing"} \union Terminal]
  /\ result \in [Task -> BOOLEAN]
  /\ deleted \in [Task -> BOOLEAN]
  /\ queue \in [Message -> 0..MaxCopies]
  /\ worker \in [Worker -> Attempt]
  /\ \A w \in Worker : worker[w].pc # "idle" => worker[w].task \in Task
  /\ lease \in [Dispatcher -> [Task -> Held]]
  /\ faults \in 0..MaxFaults

Init ==
  /\ row     = [t \in Task |-> NewRow]
  /\ parse   = [t \in ResumeTask |-> "absent"]
  /\ result  = [t \in Task |-> FALSE]
  /\ deleted = [t \in Task |-> FALSE]
  /\ queue   = [m \in Message |-> 0]
  /\ worker  = [w \in Worker |-> Idle]
  /\ lease   = [d \in Dispatcher |-> [t \in Task |-> NotHeld]]
  /\ faults  = 0

(* The broker: a copy beyond MaxCopies is not told apart.                   *)
Plus(q, m)  == [q EXCEPT ![m] = IF @ < MaxCopies THEN @ + 1 ELSE @]
Minus(q, m) == [q EXCEPT ![m] = @ - 1]
Msg(t, r)   == [task |-> t, retries |-> r]

(* What the repository writes into a row.                                   *)
ClaimedForDispatch(r, k) ==
  [r EXCEPT !.dispatchToken = k, !.dispatchLease = DispatchLease]
DispatchReleased(r)  == [r EXCEPT !.dispatchToken = NoToken, !.dispatchLease = 0]
DispatchConfirmed(r) == [DispatchReleased(r) EXCEPT !.dispatched = TRUE]

Leased(r, k) ==
  [r EXCEPT !.status = "running", !.execToken = k, !.execLease = ExecLease, !.age = 0]

\* mutant: the closed row keeps its execution token.
ClosedWithToken(r, s) == [r EXCEPT !.status = s, !.execLease = 0]

(* The age counts while the row runs: nobody compares it afterwards.        *)
Closed(r, s) ==
  [r EXCEPT !.status = s, !.execToken = NoToken, !.execLease = 0, !.age = 0]

(* The dispatch token and its lease stay in a row released for a retry.     *)
Requeued(r) == [Closed(r, "queued") EXCEPT !.dispatched = FALSE]

Fault == faults < MaxFaults /\ faults' = faults + 1

-----------------------------------------------------------------------------
(* The API: the upload that queues a task and the deletion of its resource. *)

(* submit_resume_parse_request or create_or_get_queued_job_task, in the     *)
(* transaction that creates the resource.                                   *)
Submit(t) ==
  /\ row[t].status = "absent"
  /\ row' = [row EXCEPT ![t].status = "queued"]
  /\ parse' = IF t \in ResumeTask THEN [parse EXCEPT ![t] = "processing"] ELSE parse
  /\ UNCHANGED <<result, deleted, queue, worker, lease, faults>>

(* delete_resume keeps the profile and asks the resume; delete_job deletes  *)
(* the snapshot and asks the task.                                          *)
Delete(t) ==
  /\ ~deleted[t]
  /\ IF t \in ResumeTask
     THEN parse[t] \in Terminal /\ UNCHANGED result
     ELSE row[t].status \in Terminal /\ result' = [result EXCEPT ![t] = FALSE]
  /\ deleted' = [deleted EXCEPT ![t] = TRUE]
  /\ UNCHANGED <<row, parse, queue, worker, lease, faults>>

-----------------------------------------------------------------------------
(* The Dispatcher: claim a batch, publish each lease, confirm or release it.*)

\* mutant: an expired dispatch lease is not taken over.
DispatchableUnclaimed(t) ==
  /\ row[t].status = "queued"
  /\ ~row[t].dispatched
  /\ row[t].dispatchToken = NoToken

Dispatchable(t) ==
  /\ row[t].status = "queued"
  /\ ~row[t].dispatched
  /\ row[t].dispatchToken = NoToken \/ row[t].dispatchLease = 0

BetweenBatches(d) == \A t \in Task : lease[d][t].stage = "none"

FreshDispatchToken(k) ==
  /\ \A t \in Task : row[t].dispatchToken # k
  /\ \A d \in Dispatcher, t \in Task : lease[d][t].token # k

(* Rows locked by other transactions are skipped, so any part of what is    *)
(* eligible may be claimed.                                                 *)
ClaimDispatchBatch(d) ==
  /\ BetweenBatches(d)
  /\ \E S \in SUBSET {t \in Task : Dispatchable(t)} :
       /\ S # {} /\ Cardinality(S) <= BatchSize
       /\ \E token \in [S -> Token] :
            /\ \A t \in S : FreshDispatchToken(token[t])
            /\ \A t, u \in S : token[t] = token[u] => t = u
            /\ row' = [t \in Task |->
                 IF t \in S THEN ClaimedForDispatch(row[t], token[t]) ELSE row[t]]
            /\ lease' = [lease EXCEPT ![d] = [t \in Task |->
                 IF t \in S THEN [stage |-> "claimed", token |-> token[t]]
                 ELSE NotHeld]]
  /\ UNCHANGED <<parse, result, deleted, queue, worker, faults>>

OwnsDispatch(d, t) ==
  /\ row[t].status = "queued"
  /\ row[t].dispatchToken = lease[d][t].token

(* The leases of a batch are handled one after the other.                   *)
Sending(d, t) ==
  /\ lease[d][t].stage = "claimed"
  /\ \A u \in Task : lease[d][u].stage \in {"none", "claimed"}

Publish(d, t) ==
  /\ Sending(d, t)
  /\ queue' = Plus(queue, Msg(t, 0))
  /\ lease' = [lease EXCEPT ![d][t].stage = "published"]
  /\ UNCHANGED <<row, parse, result, deleted, worker, faults>>

(* send_task raised, before or after the broker took the message.           *)
PublishFails(d, t) ==
  /\ Fault
  /\ Sending(d, t)
  /\ queue' \in {queue, Plus(queue, Msg(t, 0))}
  /\ lease' = [lease EXCEPT ![d][t].stage = "unsent"]
  /\ UNCHANGED <<row, parse, result, deleted, worker>>

ReleaseDispatch(d, t) ==
  /\ lease[d][t].stage = "unsent"
  /\ row' = IF OwnsDispatch(d, t)
            THEN [row EXCEPT ![t] = DispatchReleased(@)] ELSE row
  /\ lease' = [lease EXCEPT ![d][t] = NotHeld]
  /\ UNCHANGED <<parse, result, deleted, queue, worker, faults>>

ConfirmDispatch(d, t) ==
  /\ lease[d][t].stage = "published"
  /\ row' = IF OwnsDispatch(d, t)
            THEN [row EXCEPT ![t] = DispatchConfirmed(@)] ELSE row
  /\ lease' = [lease EXCEPT ![d][t] = NotHeld]
  /\ UNCHANGED <<parse, result, deleted, queue, worker, faults>>

DispatcherCrash(d) ==
  /\ Fault
  /\ ~BetweenBatches(d)
  /\ lease' = [lease EXCEPT ![d] = [t \in Task |-> NotHeld]]
  /\ UNCHANGED <<row, parse, result, deleted, queue, worker>>

FailRows(S) ==
  [t \in Task |-> IF t \in S THEN Closed(row[t], "failed") ELSE row[t]]

\* mutant: the comparison with the lease is reversed.
StalledLiveLease(t) ==
  row[t].status = "running" /\ row[t].age = StallAfter /\ row[t].execLease > 0

Stalled(t) ==
  /\ row[t].status = "running"
  /\ row[t].age = StallAfter
  /\ row[t].execLease = 0

\* mutant: the resume is left processing.
FailResumesForgotten(S) == parse

(* The resume of a task in S fails with it, if it is still processing.      *)
FailResumes(S) ==
  [t \in ResumeTask |-> IF t \in S /\ parse[t] = "processing" THEN "failed"
                        ELSE parse[t]]

(* Rows locked by other transactions are skipped here as well.              *)
RecoverStalled(d) ==
  /\ BetweenBatches(d)
  /\ \E S \in SUBSET {t \in Task : Stalled(t)} :
       /\ S # {}
       /\ row' = FailRows(S)
       /\ parse' = FailResumes(S)
  /\ UNCHANGED <<result, deleted, queue, worker, lease, faults>>

-----------------------------------------------------------------------------
(* The worker: deliver, claim, work, write the outcome, acknowledge.        *)

At(w, pc) == worker[w].pc = pc
(* Once the worker service has returned, its token is gone.                 *)
GoTo(w, pc) == worker' = [worker EXCEPT ![w].pc = pc, ![w].token = NoToken]

Deliver(w, m) ==
  /\ At(w, "idle")
  /\ queue[m] > 0
  /\ queue' = Minus(queue, m)
  /\ worker' = [worker EXCEPT ![w] =
       [pc |-> "started", task |-> m.task, retries |-> m.retries,
        token |-> NoToken, clock |-> 0]]
  /\ UNCHANGED <<row, parse, result, deleted, lease, faults>>

\* mutant: a running row is claimed whatever its lease.
ClaimableWhileLeased(t) == row[t].status \in {"queued", "running"}

Claimable(t) ==
  \/ row[t].status = "queued"
  \/ row[t].status = "running" /\ row[t].execLease = 0

FreshExecToken(k) ==
  /\ \A t \in Task : row[t].execToken # k
  /\ \A w \in Worker : worker[w].token # k

WorkingWith(a, k) == [a EXCEPT !.pc = "working", !.token = k]

ClaimExecution(w) ==
  LET t == worker[w].task IN
  /\ At(w, "started")
  /\ Claimable(t)
  /\ \E k \in Token :
       /\ FreshExecToken(k)
       /\ row' = [row EXCEPT ![t] = Leased(@, k)]
       /\ worker' = [worker EXCEPT ![w] = WorkingWith(@, k)]
  /\ UNCHANGED <<parse, result, deleted, queue, lease, faults>>

(* claim_execution returned None: a duplicate or late delivery.             *)
IgnoreDelivery(w) ==
  /\ At(w, "started")
  /\ ~Claimable(worker[w].task)
  /\ GoTo(w, "done")
  /\ UNCHANGED <<row, parse, result, deleted, queue, lease, faults>>

\* mutant: the write asks the status but not the token.
OwnsExecutionByStatus(w) == row[worker[w].task].status = "running"

\* mutant: the write asks nothing.
OwnsExecutionUnchecked(w) == TRUE

(* The guard of every write of an outcome: the row still holds the token.   *)
OwnsExecution(w) ==
  /\ row[worker[w].task].status = "running"
  /\ row[worker[w].task].execToken = worker[w].token

(* The guard both resume writes add.                                        *)
ResumeOpen(t) == t \in ResumeTask => parse[t] = "processing" /\ ~deleted[t]

ResultWritable(t) ==
  /\ ResumeOpen(t)
  /\ ~deleted[t]
  /\ t \in ResumeTask => ~result[t]

Succeed(w) ==
  LET t == worker[w].task IN
  /\ At(w, "working")
  /\ OwnsExecution(w)
  /\ ResultWritable(t)
  /\ row' = [row EXCEPT ![t] = Closed(@, "succeeded")]
  /\ parse' = IF t \in ResumeTask THEN [parse EXCEPT ![t] = "succeeded"] ELSE parse
  /\ result' = [result EXCEPT ![t] = TRUE]
  /\ GoTo(w, "done")
  /\ UNCHANGED <<deleted, queue, lease, faults>>

(* A failure that is not retryable, or whose retries are used up.           *)
Fail(w) ==
  LET t == worker[w].task IN
  /\ At(w, "working")
  /\ OwnsExecution(w)
  /\ ResumeOpen(t)
  /\ row' = FailRows({t})
  /\ parse' = FailResumes({t})
  /\ GoTo(w, "done")
  /\ UNCHANGED <<result, deleted, queue, lease, faults>>

\* mutant: the outcome "retry" is not turned into a task.retry.
ReleaseWithoutRetry(w) ==
  LET t == worker[w].task IN
  /\ At(w, "working")
  /\ worker[w].retries < MaxRetries
  /\ OwnsExecution(w)
  /\ row' = [row EXCEPT ![t] = Requeued(@)]
  /\ GoTo(w, "done")
  /\ UNCHANGED <<parse, result, deleted, queue, lease, faults>>

(* A retryable failure with retries left.                                   *)
ReleaseForRetry(w) ==
  LET t == worker[w].task IN
  /\ At(w, "working")
  /\ worker[w].retries < MaxRetries
  /\ OwnsExecution(w)
  /\ row' = [row EXCEPT ![t] = Requeued(@)]
  /\ GoTo(w, "retrying")
  /\ UNCHANGED <<parse, result, deleted, queue, lease, faults>>

(* Any of the three writes found its guard false and returned False.        *)
IgnoreOutcome(w) ==
  /\ At(w, "working")
  /\ ~OwnsExecution(w) \/ ~ResultWritable(worker[w].task)
  /\ GoTo(w, "done")
  /\ UNCHANGED <<row, parse, result, deleted, queue, lease, faults>>

(* task.retry: a new message with the next retry count.                     *)
SendRetry(w) ==
  /\ At(w, "retrying")
  /\ queue' = Plus(queue, Msg(worker[w].task, worker[w].retries + 1))
  /\ GoTo(w, "done")
  /\ UNCHANGED <<row, parse, result, deleted, lease, faults>>

Ack(w) ==
  /\ At(w, "done")
  /\ worker' = [worker EXCEPT ![w] = Idle]
  /\ UNCHANGED <<row, parse, result, deleted, queue, lease, faults>>

Busy(w) == worker[w].pc \in {"started", "working", "retrying"}

(* SoftTimeLimitExceeded: _fail_interrupted_task closes whatever lease the  *)
(* row holds, and the message is acknowledged.                              *)
Interrupt(w) ==
  LET t == worker[w].task
      S == {t} \intersect {u \in Task : row[u].status = "running" /\ row[u].execLease > 0} IN
  /\ Busy(w)
  /\ worker[w].clock >= SoftLimit
  /\ row' = FailRows(S)
  /\ parse' = FailResumes(S)
  /\ GoTo(w, "done")
  /\ UNCHANGED <<result, deleted, queue, lease, faults>>

(* An exception nothing in the task catches (settings, database): Celery    *)
(* records the failure and acknowledges the message.                        *)
Abort(w) ==
  /\ Fault
  /\ Busy(w)
  /\ GoTo(w, "done")
  /\ UNCHANGED <<row, parse, result, deleted, queue, lease>>

(* The hard limit kills the process; Celery acknowledges the message.       *)
HardKill(w) ==
  /\ ~At(w, "idle")
  /\ worker[w].clock = HardLimit
  /\ worker' = [worker EXCEPT ![w] = Idle]
  /\ UNCHANGED <<row, parse, result, deleted, queue, lease, faults>>

(* The worker is lost; its unacknowledged message goes back to the broker.  *)
WorkerCrash(w) ==
  /\ Fault
  /\ ~At(w, "idle")
  /\ queue' = Plus(queue, Msg(worker[w].task, worker[w].retries))
  /\ worker' = [worker EXCEPT ![w] = Idle]
  /\ UNCHANGED <<row, parse, result, deleted, lease>>

-----------------------------------------------------------------------------
Down(n) == IF n > 0 THEN n - 1 ELSE 0

Aged(r) ==
  [r EXCEPT !.dispatchLease = Down(@), !.execLease = Down(@),
            !.age = IF r.status = "running" /\ @ < StallAfter THEN @ + 1 ELSE @]

(* No process outlives the hard limit.                                      *)
Tick ==
  /\ \A w \in Worker : At(w, "idle") \/ worker[w].clock < HardLimit
  /\ row' = [t \in Task |-> Aged(row[t])]
  /\ worker' = [w \in Worker |->
       IF At(w, "idle") THEN worker[w] ELSE [worker[w] EXCEPT !.clock = @ + 1]]
  /\ UNCHANGED <<parse, result, deleted, queue, lease, faults>>

APIStep == \E t \in Task : Submit(t) \/ Delete(t)

DispatcherStep(d) ==
  \/ ClaimDispatchBatch(d) \/ RecoverStalled(d)
  \/ \E t \in Task : Publish(d, t) \/ ReleaseDispatch(d, t) \/ ConfirmDispatch(d, t)

WorkerStep(w) ==
  \/ \E m \in Message : Deliver(w, m)
  \/ ClaimExecution(w) \/ IgnoreDelivery(w)
  \/ Succeed(w) \/ Fail(w) \/ ReleaseForRetry(w) \/ IgnoreOutcome(w)
  \/ SendRetry(w) \/ Ack(w) \/ Interrupt(w) \/ HardKill(w)

FaultStep ==
  \/ \E d \in Dispatcher : DispatcherCrash(d) \/ \E t \in Task : PublishFails(d, t)
  \/ \E w \in Worker : Abort(w) \/ WorkerCrash(w)

Next ==
  \/ APIStep
  \/ \E d \in Dispatcher : DispatcherStep(d)
  \/ \E w \in Worker : WorkerStep(w)
  \/ FaultStep
  \/ Tick

Spec == Init /\ [][Next]_vars

(* The dispatcher loops for ever and its container is restarted; Celery     *)
(* workers consume while there are messages and are killed at the limit;    *)
(* time passes.  The API and the faults owe nothing.                        *)
DispatchesOn(d) ==
  \/ ClaimDispatchBatch(d)
  \/ \E t \in Task : Publish(d, t) \/ ReleaseDispatch(d, t) \/ ConfirmDispatch(d, t)

Fairness ==
  /\ WF_vars(Tick)
  /\ \A d \in Dispatcher : WF_vars(DispatchesOn(d)) /\ WF_vars(RecoverStalled(d))
  /\ \A w \in Worker : WF_vars(WorkerStep(w))

FairSpec == Spec /\ Fairness

-----------------------------------------------------------------------------
(* Properties.                                                              *)

(* Two workers are never inside the same task: a redelivered message, a     *)
(* second publication or a take-over of an expired lease finds the previous *)
(* worker killed.  It needs the lease to outlive the hard limit, as the     *)
(* defaults (150 s and 180 s) do.                                           *)
ExclusiveExecution ==
  \A v, w \in Worker :
    (v # w /\ At(v, "working") /\ At(w, "working"))
      => worker[v].task # worker[w].task

LeaseOutlivesHardLimit == HardLimit < ExecLease

(* The task row and what parsing leaves behind never disagree, whoever      *)
(* wrote last (complete_*, fail_*, the soft limit, the stall recovery, the  *)
(* deletion): a profile exists exactly for a succeeded resume, a snapshot   *)
(* exactly for a succeeded job that is not deleted, and nothing is deleted  *)
(* while its task is open.                                                  *)
Agrees(t) ==
  /\ t \in ResumeTask =>
       /\ parse[t] = IF row[t].status \in {"queued", "running"} THEN "processing"
                     ELSE row[t].status
       /\ result[t] <=> parse[t] = "succeeded"
  /\ t \notin ResumeTask =>
       (result[t] <=> row[t].status = "succeeded" /\ ~deleted[t])
  /\ deleted[t] => row[t].status \in Terminal
ResultAgreesWithTask == \A t \in Task : Agrees(t)

(* A finished task stays as it finished: no late token, no second delivery, *)
(* no dispatcher and no recovery reopens or rewrites it, and its result     *)
(* goes only with the deletion of the job.                                  *)
FinalOf(t) ==
  row[t].status \in Terminal =>
    /\ row'[t].status = row[t].status
    /\ t \in ResumeTask => parse'[t] = parse[t]
    /\ result'[t] # result[t] => deleted'[t] /\ ~deleted[t]
TerminalIsFinal == [][\A t \in Task : FinalOf(t)]_vars

(* A worker whose lease was taken over writes nothing: whatever its attempt *)
(* ends with, and however late, the row, the resume and the result stay as  *)
(* they are.  Only the soft limit's handler, which closes leases without    *)
(* asking for a token (LiveLeaseClosedByHolder), is excepted.               *)
StaleWritesNothing(w) ==
  LET t == worker[w].task IN
  (/\ At(w, "working") /\ worker'[w].pc # "working"
   /\ row[t].execToken # worker[w].token
   /\ ~Interrupt(w))
    => /\ row'[t] = row[t]
       /\ t \in ResumeTask => parse'[t] = parse[t]
       /\ result'[t] = result[t]
StaleWorkerWritesNothing == [][\A w \in Worker : StaleWritesNothing(w)]_vars

(* "its token must guard every later state write" (ExecutionLease): a lease *)
(* that has not expired ends only by a step of the worker that holds it.    *)
ClosedByHolder(t) ==
  (row[t].status = "running" /\ row[t].execLease > 0 /\ row'[t].status # "running")
    => \E w \in Worker : /\ At(w, "working") /\ worker[w].task = t
                         /\ worker[w].token = row[t].execToken
                         /\ worker'[w].pc # "working"
LiveLeaseClosedByHolder == [][\A t \in Task : ClosedByHolder(t)]_vars

(* A running task does not run for ever: its worker finishes it, or the     *)
(* lease expires and the recovery of stalled tasks fails it, whichever      *)
(* processes are lost meanwhile (running ~> not running, in other words).   *)
RunningSettles ==
  \A t \in Task : []<>(row[t].status # "running")

(* A queued task that is not marked dispatched is published or executed,    *)
(* even when a dispatcher dies between claiming, publishing and confirming. *)
UndispatchedIsPublished ==
  \A t \in Task : []<>(row[t].status # "queued" \/ row[t].dispatched)
=============================================================================
