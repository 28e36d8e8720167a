# A formal model of CareerPass

CareerPass is a recruiting system: a candidate uploads a resume and states a job
goal, an HR user uploads job descriptions, both are parsed by background workers,
an agent matches the candidate with the jobs and applies, and HR moves the
applications forward and talks to the candidate's agent.  The repository holds a
FastAPI backend with Celery workers over PostgreSQL and Redis
(`careerpass-backend`) and a React frontend (`careerpass-frontend`).

This directory holds TLA+ modules that model the backend's state machines, its
decision rules and the frontend's store, the TLC configurations that check them on
small instances, and theorems about them checked by TLAPS.  `PROJECT.json` maps every definition to the lines it models.

## 1. Inventory

| Component | State it keeps | Operations | Interacts with |
| --- | --- | --- | --- |
| Task queue (`async_task_repository`, `tasks/dispatcher`, `tasks/worker`) | `async_task_runs` rows: status, dispatch token and lease, execution token and lease | submit, claim for dispatch, publish, confirm, release, claim execution, release for retry, complete, fail, soft-limit failure, stall recovery | broker (messages), parsing workers (the executor), resumes, jobs |
| Parsing workers (`resume_parse_worker_service`, `job_description_worker_service`) | `resumes.parse_status`, `candidate_profiles`, `parsed_job_description_snapshots` | one attempt: read, extract, complete / fail / retry | task queue, object storage, MinerU, Qwen |
| JD task generations (`job_description_repository`) | the latest task of a job | create or get, retry a failed one | task queue, matching, deletion |
| Object storage (`object_storage_repository`, `storage/*`, `object_cleanup_service`) | `stored_file_objects` rows and files on disk | put, acquire for a reference (reuse, revive, insert), claim expired, unlink, finalize, restore | resumes, documents, jobs, message attachments |
| Candidate preparation (`candidate_preparation_*`) and job upload (`job_upload_*`) | resumes, candidate documents, jobs, the current-resume pointer | upload with idempotency key or content digest, list | object storage, task queue |
| Resource deletion (`business_resource_deletion_*`) | `deleted_at`, audit events | delete resume / document / job | agent run, matching, task queue, storage |
| Job goal (`job_goal_*`) | one goal per candidate | save | agent run |
| Agent run, matching, applications (`agent_run_*`, `matching_*`, `application_*`) | runs, matches, applications, progress events | start, match, finish without match, HR status update, finish for offer target | goal, resume, jobs |
| Conversation (`conversation_*`, `document_delivery_service`, `s10_03_goal_communication`) | conversations, messages, turns, attachments, goal queries | HR message, agent turn, document delivery, proactive query, answer | applications, Qwen, storage |
| Debug reset (`debug_reset_*`) | all of the above, for one identity | preview, reset | everything |
| Accounts (`login`, `registration`, `demo_account`, `identity`) | users, roles, profiles | register, log in, switch role, seed | none of the above |
| Resume profile extraction (`qwen_profile`, `schemas/document_parsing`) | none beyond one extraction: the profile to mend and what is wrong with it | one or two requests, checks of a profile against the resume's text, experience from the dates | Qwen, resume worker, matching |
| Adapters and parsers (`mineru_*`, `qwen_communication`, `parsers/*`) | none | extract text, job description, reply | workers, conversation |
| API layer, configuration, health | none | HTTP | all services |
| Frontend workspace store and polling (`workspaceStore`, pages) | a snapshot of the server's state | refresh, upload, poll, delete | API |

What is hard here is mostly not in one function: transactions of different
requests that read before they lock, leases and tokens under redelivery, two
transactions of one request with a crash between them, database rows and files
that are changed one after the other, and a client that overwrites newer state
with an older answer.  `PROJECT.json` lists each hazard at its line with the
properties that cover it.

What makes each component correct:

* *Task queue*: one execution at a time; only the holder of the token writes; a
  finished task stays finished; a resume and its task agree; nothing that is
  running, or waiting to be published, is forgotten.
* *Object storage*: a row that something refers to has its file; a file that
  nothing refers to is removed in the end; a revived row never points at a file
  that was deleted under it.
* *Agent run*: the resume of a run is not deleted under it; a run stops when it has
  the offers its goal asks for, and only then is the goal achieved; a finished run
  stays as it is; an application only moves forward.
* *Matching and goal communication*: rounding never decides a match; more evidence
  never costs one; how pay is written makes no difference; an answer of HR decides
  exactly when it is clear.
* *Resume profile*: every name in it is in the resume, whichever of two replies it is from; what
  the resume shows is in it; its experience is the time in which there was any work.
* *Jobs*: one active parse at most; what matching reads is the newest parse of a job
  that is not deleted; a deleted job has no work left.
* *Conversation*: a message has one reply and it is its own; only an answer of HR
  judges the question; an open turn has one handler or was lost to a fault.
* *Frontend store*: a command that ends shows what it did; one account never sees
  another one's data; a parse shown as pending is updated, but for three ways in which the
  polling gives up (section 5).

## 2. Plan

The order follows what the system can least afford to get wrong: work that is
lost or done twice, then files, then the protocol of a run, then conversations,
what becomes of a job, and the client.

| Order | Module | Models |
| --- | --- | --- |
| 1 | `AsyncTask`, `AsyncTaskHistory` (+ `MCAsyncTask`, `MCAsyncTaskHistory`) | the task queue with dispatcher, broker and workers; lost deliveries over a whole behaviour |
| 2 | `TaskLifecycle`, `AsyncTaskRefinement` | what the queue promises, and that it keeps it |
| 3 | `AgentRun` (+ `MCAgentRun`), `RunLifecycle`, `AgentRunRefinement` | goal, resume, start, matching round, applications, HR updates; what they promise the candidate, and that they keep it |
| 4 | `ObjectStorage`, `ObjectStorageHistory` (+ `MCObjectStorage`) | stored files, uploads, deletion, cleanup, debug reset |
| 5 | `Conversation` (+ `MCConversation`) | HR's messages, the agent's turns, its question and HR's answers, deliveries |
| 6 | `Matching`, `GoalCommunication`, `ResumeProfile`, `Decisions` (+ `MCDecisions`) | the pure rules: filters and scores, what is asked, how an answer is read, which document fits, what is read of a resume |
| 7 | `JobLifecycle` (+ `MCJobLifecycle`) | a job's parse generations, retry, deletion, reset and matching, with row locks and deadlocks |
| 8 | `WorkspaceStore` (+ `MCWorkspaceStore`) | the frontend's snapshot: refreshes, commands, identities, polling |
| 9 | `AsyncTask_proofs`, `AgentRun_proofs`, `ObjectStorage_proofs`, `JobLifecycle_proofs`, `Conversation_proofs`, `ResumeProfile_proofs`, `Decisions_proofs`, `WorkspaceStore_proofs` | the theorems of section 6 |

All of them are there.  Worth adding: the reset of a candidate's goal and run beside
starts, and accounts.

## 3. Modules and code

Paths below are relative to `careerpass-backend/app`.

### AsyncTask

| State | Code |
| --- | --- |
| `row` | a row of `async_task_runs`: status, dispatch token, lease and `dispatched_at`, execution token and lease, `started_at` (as an age) |
| `parse`, `result`, `deleted` | `Resume.parse_status`; whether a `CandidateProfile` or a `ParsedJobDescriptionSnapshot` exists; `deleted_at` |
| `queue` | messages in Redis: task id and Celery's retry count, with multiplicity |
| `worker` | the attempt a Celery process is in: its position, its token, the time since delivery |
| `lease` | the `DispatchLease` objects a dispatcher still has to handle |

Each action is one transaction, one broker operation or one process event.
`ClaimDispatchBatch`, `Publish`, `PublishFails`, `ReleaseDispatch`, `ConfirmDispatch` and
`RecoverStalled` are the loop of `infrastructure/tasks/dispatcher.py`;
`Deliver` to `Ack` are `infrastructure/tasks/worker.py` with the repository
calls it makes; `Interrupt` and `HardKill` are Celery's two time limits.  A task
and its resource share one name, since a resume has exactly one task; the several
tasks of a job are in `JobLifecycle`.

Abstractions: time is relative (a lease is what is left of it), so no clock
grows; broker copies beyond `MaxCopies` are not told apart; the countdown of a
retry is any delay; a soft limit that strikes inside the extraction is caught by
`except Exception` there and is then a retryable failure, otherwise it is
`Interrupt`; `now` is read just before a row lock and not compared again after
waiting for it; `celery_task_id` is written and never read; Redis keeps its
messages (the deployment uses an append-only file).

### AgentRun

| State | Code |
| --- | --- |
| `goal`, `save` | `job_goals`; a `PUT` of the goal between its reads and its write |
| `resume`, `current`, `del` | resumes with profile, `candidates.current_resume_id`, a `delete_resume` that holds the resume |
| `job` | jobs with the latest task of each |
| `run`, `latest`, `match`, `app` | `agent_run_contexts`, the newest run, `matches`, `applications.status` |
| `req`, `hr` | handlers of `POST .../start` and of `PATCH` application status |

A step is the part of a transaction that needs not wait for a lock.  Who holds
which row lock is read off the positions of the handlers (`CandidateLocked`,
`RunLocked`, `GoalLocked`), so that locks need no variables.  A start request is
two transactions over one ORM session (`api/dependencies/services.py:137`), made
with `expire_on_commit=False`: what it saw of the run in the first is what it
compares in the second (`seen`).

Abstractions: which jobs fit is any set; a candidate has at most one unfinished
save; reads that change nothing (current run, lists, progress events) are left out;
the branch `existing.status == "matched"` of the matching round is unreachable and
left out; the first name of a profile is not empty (the parser asks for it).

`RunLifecycle` is what all this amounts to for a candidate: a goal asks for a number of
offers (`target`) and is saved before its run, but for one save that ends later; a run
starts once; a round, even a late one, applies where there is no application; a run that has
none may end without a match; an application moves to a later stage (`Later`) or to the end,
and the offer with which the target is reached ends the run and achieves the goal in the same
step.  The abstract action decides all that from one state, without locks.  `AgentRunRefinement`
maps the rows to it and hides requests, locks, sessions, resumes, jobs, matches and crashes.

### ObjectStorage

| State | Code |
| --- | --- |
| `object`, `files` | `stored_file_objects` (one row per SHA-256) and the files under the storage root |
| `upload`, `reference` | an upload request, and the resume, document or job row it inserts |
| `delivery` | a document delivery: the row it has read, the attachment it inserted |
| `remover` | claims of the hourly cleanup (`object_cleanup_service`) and of debug resets |
| `scan`, `old`, `older` | the cleanup's `SELECT` before its locks; which rows are an hour old; the order of `updated_at` |

An upload is named by the storage key it draws.  A transaction that holds the
row lock of its content until it commits is one action; the two reads that this
lock does not cover (`CheckDuplicate` of documents and jobs, `Scan` of the
cleanup) are actions of their own.  `Acquired` is `acquire_for_reference`:
insert, reuse a ready row, or revive a deleting one with a new key.

`RefuseName` is the name of a resume that is checked between `put` and the `try` that would
delete the file; the name of a document is checked inside the `try`.

Abstractions: `Rollback` stands for every way a transaction of an upload can end
without effect (idempotency conflict, unique index, deadlock, lost connection); the
status `writing` is never set by the code, so it appears in a mutant only; the
claims of a batch are processed in any order; rows that `SKIP LOCKED` may skip are
those some transaction may hold (`MaybeLocked`); one cleanup runs, as
the deployment starts one API worker; the debug reset needs
`DEBUG_RESET_ENABLED`, which production refuses (`core/config.py:96`).
`ObjectStorageHistory` adds two ghosts: `raced`, contents hit by one of the two
races below, and `late`, attachments inserted after their row ceased to be ready.

### Conversation

| State | Code |
| --- | --- |
| `turn` | `agent_turns`: status, scene, outcome and `result_message_id`, by the HR message or the question they belong to |
| `messages` | `messages` in the order of `created_at` |
| `attachment` | `message_attachments.status` |
| `gap` | whether `find_goal_condition_gap` finds a condition (it asks for an active goal) |
| `exists` | whether the conversation is there (a debug reset removes it with its run) |
| `req` | handlers of `POST .../messages` and of the proactive query |

A request is two transactions with the model or the answer parser between them.
`Receive` is the first of a new message: it holds the conversation's row until its
commit, chooses the scene and stores message and turn.  `Resend`, `PollEnds` and
`PollGivesUp` are the same message sent again, whose turn is done or still open
(forty looks within two seconds).  `Answer`, `Deliver`, `DeliveryRaises`/`FailTurn`,
`JudgeRead` with `JudgeUnclear` or `JudgeClear` are the second transactions; a
judgement reads the question's turn without a lock, so its read and its write are
two actions, and `Flushed` is what SQLAlchemy writes: the columns that differ from
what was read.  `Crash` is a process that dies or a transaction that fails between them.

Abstractions: one conversation and one question of it; what a message says is one of
a stop, a continue, a question or a request; the order of `created_at` is taken to
be the order of the commits; the two ways to find a message already stored (the read,
or the unique index and a second read) have one effect.

### Matching, GoalCommunication, ResumeProfile, Decisions

Operators without state: `Matching` is `matching_algorithm_v0_1.evaluate` with its
filters and scores, `GoalCommunication` is `s10_03_goal_communication` and
`document_delivery_service`.  A text is the set (or the sequence) of the terms the
code looks for in it; scores are integers in hundredths.  `Decisions` strings them
together: a job is evaluated, a match is asked about, an answer is judged; a request
for a document is resolved.  Its properties are statements about the inputs that do
not repeat the code's case distinctions: the exact weighted sum for the rounding, another
notation of the same pay for the units, the words of an answer for the parser.

The goal's filters are one text with two readers, so a clause carries what each looks for:
`atLeast` tells a lower bound that both know (`不低于`, `至少`, `>=`) from one only the round
knows (`最低`, `大于等于`), `amount` and `unit` are the number behind it whatever it counts,
`pay` is a word for the salary, which only the question asks for, `located` the wording by
which the question takes an exclusion for a place, and `prefer` where in the clause `优先`
stands, since the round's window of four characters reaches into the neighbouring clauses
(`Soft`).  Pay is a number of thousands or of yuan as the code tells them apart, and a whole one.
Which document fits (`FindDocument`) is modelled without a property: one that
resolves a request is the only one with such a name by the rule itself, and whether that
is the one meant is not in the data.

`ResumeProfile` holds the rules of `qwen_profile.py` and of the schema it validates
against: what the schema accepts, the facts of a profile the text does not support or
shows and the profile lacks (`InvalidFacts`), and the experience from the dates.
`extract_profile` itself is actions of `Decisions`: `OpenResume` is what happens before
the first request, `ReadReply` one answer (`ReplyFails`, `ReplyMalformed`, `ReplyRefused`,
`ReplyInvalid`, `ReplyKept`); what its local variables carry from one attempt to the next
is `recovery` and `reasons`.  A resume's text is the headings it shows, how often a value
occurs in it, the values of which only the words occur, whether PDF text was found in it
(`canonical`), and the scalars found without help.  Left out: the prompts and patterns; the
comparison letter by letter, the parts and aliases of skills (`Supports` is any relation of
values and text); cuts of values that are too long; the two ways in which a reply may be malformed
(no JSON, wrong types) are one.

### JobLifecycle

| State | Code |
| --- | --- |
| `job`, `match` | `jobs` (`deleted_at`), whether `matches` has a row of the job |
| `task` | the `async_task_runs` of the job by `task_generation`, with status and `created_at` |
| `snapshot` | `parsed_job_description_snapshots`, with the generation that wrote it |
| `txn`, `held` | transactions in progress and the row locks they hold |
| `clock` | `now()` of a transaction is its start |

Each action is one statement that locks or reads, or the commit.  `retry_failed_task`,
`create_or_get_queued_task` and `delete_job` lock the job and then its tasks, a
completion locks the task and then the job, a reset deletes rows in an order of its
own, and a matching round takes a key share of the job by its foreign key: they wait
for each other, and `BreakDeadlock` ends one transaction of a smallest cycle.  The
lease, publication and retry counts of one execution are `AsyncTask`'s; here an execution
without a result fails (`FailTask`) or goes back to the queue (`ReleaseTask`: an unreadable file, a
deleted job, an unforeseen exception), and the stall recovery may give up a running task
(`Recoverable`) at any time its row is not locked.

### WorkspaceStore

Paths are relative to `careerpass-frontend/src`.

| State | Code |
| --- | --- |
| `server` | the version of each slice of each account at the backend; odd while a parse is pending |
| `store`, `initialized`, `loading`, `busy` | `stores/workspace-store.ts`: whose slice is shown and which version, and the flags |
| `auth`, `page`, `visit` | `stores/auth-store.ts`, the route, and which mount of a page this is |
| `ops` | refreshes, commands and ticks in flight: requests still to come, the copy of the store, what was answered |
| `poll` | the polling effect of `features/workspace/useWorkspaceRefresh.ts` |

JavaScript runs one piece at a time, and every `await` is a point where another one
runs: `Send`, `Reply` and `Read` are the requests, `RefreshEnds`, `CommandEnds` and
`TickEnds` what follows the last of them.  `Commands` is a table: what each command
changes, lists, and when it copies the rest of the store.  `Rerender` runs the polling
effect again when what it depends on changed.

Abstractions: a list is the version of its slice; a deletion keeps the parity of the
slice; a tick that fails goes on, stops at a 401, or finishes at a 404 or the last failure in a row
(`MaxFailures`, three in the code); the sum of the delays may have been reached at any tick;
the mock mode is left out.  `poll` also says how a poll ended: `finished`, `dropped` (its last
refresh met another one), `failed` (a 401, a 404, the last failure in a row, or a last refresh that failed) or `timedOut`.

## 4. Runs

| Run | Checks | Bounds |
| --- | --- | --- |
| `safety` | `TypeOK`, `ExclusiveExecution`, `ResultAgreesWithTask`, `DispatchedIsInFlight`, `ImplementsLifecycle` | 1 resume task, 2 workers, 1 dispatcher, 1 retry, 2 faults, 2 message copies; limits 1 < 2 < 3 (soft, hard, lease), stall 4; 379k states |
| `live` | `RunningSettles`, `UndispatchedIsPublished`, `StaleWorkerWritesNothing` | 1 job task, 2 workers, a lease (1) shorter than the soft (2) and the hard limit (3), stall 2, 1 retry, 1 fault, fairness; 356k states |
| `run_safety` | `TypeOK`, `RunKeepsResume`, `OffersFinishRun`, `AchievedByOffers`, `ImplementsRunLifecycle`, `FinishedStays` | 1 candidate, 2 resumes, 2 jobs, 2 starts, 2 HR handlers, targets 1 and 2, three stages; 1.0M states |
| `objects_safety` | `TypeOK`, `ResourceKeepsFile`, `AttachmentKeepsFile`, `NoFileForgotten` | 2 uploads, 2 contents, 1 delivery, 1 reset, 1 fault, batches of 1; 431k states |
| `conversation` | `TypeOK`, `OneReplyEach`, `ReplyIsOwn`, `JudgedByAnAnswer`, `OpenIsAttended`, `JudgedStaysAlone`, `TurnSettles` | 2 messages, 2 handlers, 1 fault, fairness; 101k states |
| `decisions` | `ThresholdIsExact`, `MoreEvidenceNeverHurts`, `NotationNeverDecides`, `AnswerDecides`, `ProfileIsFaithful`, `ExperienceIsCoveredTime` | goals of up to 2 clauses, up to 27 skills (all the code knows), 5 ways to write pay, answers of up to 3 words, up to 2 documents; 37 resumes, each with every reply of a set of profiles in both requests, careers of up to 3 entries with dates around the month (1), the year (12) and the half year (18, 30) the rounding knows; 290k states |
| `jobs` | `TypeOK`, `OnlyNewestIsActive`, `DeletedIsSettled`, `SnapshotOfNewest`, `RunningEnds` | 1 job, 2 HR handlers, 1 worker, 1 round, 3 requests, fairness; 53k states |
| `store` | `TypeOK`, `CommandShown`, `ShownSettles` | 1 candidate and 1 HR, 2 operations in flight, 2 commands, 2 mounts, 1 fault, a poll that gives up after 2 failures in a row, fairness; 253k states |
| `steal`, `objects_claim`, `conversation_final`, `store_identity` | one statement each that the repository makes and the code does not keep (section 5) | the same instances, without faults or resets where they are not needed |

`TerminalIsFinal` (a finished task stays as it is) is not in `safety`: `ImplementsLifecycle` and
`ResultAgreesWithTask` say it for the status and the result, and it is a theorem (`FinalTasksStay`).
Nor is `OnlyForward` of `AgentRun` in `run_safety`: `ImplementsRunLifecycle` implies it, and it is a theorem
(`ApplicationsMoveForward`).

Why these bounds are enough.  The hazards of the queue are two holders of one row:
two workers and a message with two copies give every pair of attempts, one
retry gives a message beside the dispatcher's, and two faults are any two
crashes at any position; the limits 1 < 2 < 3 keep the order of the defaults (120 s,
150 s, 180 s) and `live` the other order the settings allow: with the lease below the soft
limit a task is taken over from a worker that still works and has not been interrupted,
which is what `StaleWorkerWritesNothing` is about.  Overlaps in `AgentRun`
are pairwise (start and start, start and deletion, HR and HR), and runs of
different candidates meet only in `latest`.  Files are named by their content, so two contents
show a batch with something left out and two uploads every pair of insert, reuse and
revive.  `BatchSize` 1 stands for 100: what matters is that a batch can be full.  Larger
instances (three uploads of one content, 8.1 million states) pass as well.
The races of a conversation are two handlers and the question; those of a job are two
HR transactions, an execution and a round, and three requests make a failed parse be
retried, overtaken and deleted.  Rules are checked against every combination of the
terms they tell apart; three entries of a career are two that overlap, touch or leave a gap, and one that
spans them.  In the browser two operations overlap, and two mounts are an
account before and one after a sign-out.  Symmetry is
used over tokens, workers, handlers, uploads and contents, in safety runs only.

Deadlock is checked except in `decisions`, where a decision ends, and in the two runs
of the store, where nobody has to do anything and the bounds on commands and mounts end the
behaviour.  In `jobs` it is the check that no set of transactions waits for
ever after PostgreSQL has broken its cycles.

Fairness.  `live` assumes that time passes, that the dispatcher's loop goes on (its
container is restarted), and that each worker consumes and executes (Celery's prefork
pool replaces lost processes); the API and the faults owe nothing, and faults are
bounded by `MaxFaults`.  `conversation` assumes that a handler that has begun goes on (a
coroutine of a living process); nobody has to send, ask or download, and `Crash` is a
fault.  `jobs` assumes that open transactions go on, that PostgreSQL breaks deadlocks
and that the stall recovery comes back; HR owes nothing, and no worker owes it to take a queued
task, since its message may have been dropped: `RunningEnds` is about running tasks only, and one that is
released for a retry has ended.
`store` assumes that each request in flight is answered or fails and its continuation
runs, that timers fire while the page is there, and that a parse at the backend ends;
whoever sits at the browser owes nothing.

## 5. Findings

| Run | What it shows |
| --- | --- |
| `steal` | `fail_execution_after_timeout` takes no token: a worker whose soft limit passes before its own claim (a second delivery that has started and waits), or after its lease was taken over, fails the attempt of the worker that holds the lease. The order of the default limits (soft 1, hard 2, lease 3) suffices. |
| `objects_claim` | The cleanup looks for references in its snapshot; an upload that reuses the row commits before the cleanup's lock, changes nothing in the row, and its file is unlinked. |
| `conversation_final` | Two messages that came while a question waited are both judged: the second opens the question that the first has completed, or turns "stop" into "continue"; HR reads two contradictory replies. |
| `store_identity` | A refresh that is in flight at the sign-out keeps its token, ends after the next sign-in and shows the first account's data to the second one. |

Behaviours the models reach, and that no run is spent on.  Of the task queue:

* a release for retry clears `dispatched_at`, so the dispatcher publishes the task beside
  Celery's own retry and with retry count 0: it may be released more often than the two
  times of `docs/development/backend-gap-analysis.md:326`;
* a JD parse whose file cannot be read goes back to the queue and is published with count 0 as well;
* a delivery dropped between its delivery and its claim leaves the task queued and
  marked dispatched for ever (`DispatchedIsInFlight` excepts it by name).

Of goals and runs:

* a save that checked before a start committed writes after it and changes the goal of a
  running run, against `slice-07-agent-start/technical-design.md:208`;
* a second start works with the run as its session first saw it (`expire_on_commit=False`,
  no `populate_existing`), and applies within a run another start has finished with `no_match`, against
  `docs/business/business-baseline.md:115`;
* starting again after `no_match` ends in the unique constraint of the run (`StartConflict`);
* a run ends with `no_match` without a single evaluated job when the last job is
  deleted between its two transactions; a run whose applications all end without
  an offer stays running;
* a start and `delete_resume` can deadlock and PostgreSQL ends one (`BreakDeadlock`);
* an upload during a run replaces the current resume, not the one the run keeps (BF-RULE-060).

Of stored files:

* a row whose resource is soft-deleted can never be finalized (`RESTRICT`), is claimed again
  each hour and remains the oldest: a batch of a hundred such rows starves all others,
  against `docs/development/backend-troubleshooting.md:174`;
* the cleanup puts a row back to `ready` that a debug reset has claimed and unlinked
  (the second case of `raced`); a delivery attaches a row that stopped being ready
  after it was read (`late`);
* a process that dies between writing a file and its row leaves the file for ever,
  since nothing lists the storage root (`NoFileForgotten` holds while `faults = 0`);
* `upload_resume` puts the file and only then, before its `try`, checks the name (`candidate_preparation_service.py:69`):
  a blank name or one of more than 255 characters is refused and its file stays for ever, without any
  fault (`RefuseName`, excepted by `NoFileForgotten`); the file of a document is then deleted;
* uploading the content of an older resume again returns it and does not make it current;
  two uploads of one document at the same time insert two.

Of conversations:

* a message sent again whose turn has no result shows the first agent message after
  it, which may be the reply to another message (`ResultMessage`), against
  `slice-10-ai-job-communication/technical-design.md:216`; `ReplyIsOwn` holds from the moment the turn has a reply;
* a turn whose handler died stays `processing`, and each retry of its message is told
  after two seconds that the conversation is not found (`PollGivesUp`);
* once the goal is achieved there is no gap any more, and a question that still waits
  takes every later message of HR as an unclear answer without a reply.

Of the rules:

* a clause like "不考虑杭州" excludes the place in the matching and is asked about all the
  same, since only clauses that say "region" or "place of work" count as consumed
  (`business-baseline.md:132` and the comment in `s10_03_goal_communication.py:70` say they must not be);
* goal and question read a demand for pay by different words: "最低20k" and "大于等于20k" filter the jobs and HR is asked
  about them all the same, against BF-RULE-051 (`business-baseline.md:132`); "至少3年经验" is taken for a pay of 3 thousand and
  never asked about; "至少20000" without a unit is read as 20000 thousand, and excludes every job that states its pay;
* "优先" within four characters of an exclusion or a demand lifts it, also from the neighbouring clause, where
  `docs/business/matching/matching-algorithm-v0.1.md:63` only leaves the preference itself out;
* a job that has what the candidate excludes (outsourcing by its nature, "加班" in its text)
  is neither filtered nor asked about; outsourcing that only its text mentions is asked about;
* "拒绝" excludes for the question but not for the matching filter;
* rounding decides a match only from 200 required skills on; the code knows 27.

Of a resume's profile:

* PDF text that names no contact makes no profile at all, and so does a mended one that the schema
  refuses: the refusal is a `ValueError` outside the `try` around the replies (`qwen_profile.py:117`) or not the kind
  it looks for (`:164`, `:195`), and ends as `internal_error`, which is retried, where the same fault of
  a reply is `schema_validation_failed`, which is not;
* a first reply with a fault in a section and one in a scalar is mended in the section only, and the
  mended profile is refused for the scalar whatever the second reply says.

Of jobs:

* a match can be inserted for a job that was deleted after the round had read it
  (`slice-11-business-material-deletion/slice-spec.md:47` leaves that out of the scope);
* deletion and HR's list take the latest task by `created_at`, retries number by generation: a retry whose
  transaction began earlier and waited has the newer generation and the older time, and a job may be deleted under
  a queued task (`InOrder` in `DeletedIsSettled`);
* a completion that finds its job deleted, or is ended in a deadlock, leaves its task
  running until the stall recovery closes it;
* a job whose newest task succeeded but whose snapshot is gone is counted nowhere in the round's summary.

Of the store:

* a parse stays shown as pending in three cases, all excepted by `ShownSettles`: the poll's time is over (210 s; only the
  candidate's documents page says so, `DocumentsPage.tsx:132`, and an HR is told nothing); it ends after
  a 401, a 404 or the last failure in a row, or its last refresh fails; or, for a candidate, that refresh is dropped because another one is in flight (`refreshInFlight`; an HR's ticks write
  what they read, a candidate's do not);
* `deleteDocument`, `saveGoal` and `updateApplicationStatus` copy the store before their
  request and put older versions of the other slices back; the other commands do so for one await;
* a deleted job comes back when the list of an upload or a retry that was read before is
  stored later, although the comment at `workspace-store.ts:419` calls the deletion authoritative;
* the notice that parsing takes long goes with the next refresh or command, and the poll
  is not set again as long as what the effect depends on has not changed;
* `loading` is one flag for all operations: a command of an old page that ends clears it under
  the refresh of the new one, and the initial query of `ConversationsPage.tsx:22` does not wait for that;
* a 401 of an old operation signs out whoever is signed in now, and does not clear the store.

## 6. Proofs

All theorems hold for every value of the constants that the `ASSUME`s of the modules
allow, TLC evaluates those assumptions in the runs, and each proof goes from `Init` and one step
of `Next` by an inductive invariant.

*`AsyncTask_proofs`.*  `TypeCorrect`: the types are inductive with `LeaseOK`, a token and a lease only
while running.  `OneExecution` assumes `LeaseOutlivesHardLimit` and rests on `ExecInv`: the task of
a working attempt is finished, or its row still has the attempt's token and a lease that
has lost no more than the attempt's clock has gained.  A claim needs an expired lease, and
an attempt is killed at the hard limit, so none is claimed under a worker.  `ResultAgreement` (for all
limits) and `FinalTasksStay` come from one lemma, `AgreeNext`: every step keeps the
agreement of row, resume, result and deletion, and leaves finished rows alone.
`ImplementsTheLifecycle`: with the types and `ResultAgreement` (a deletion
finds its task finished) every action is one action of `TaskLifecycle` or changes no status; taking over
an expired lease is such a stutter.  `DispatchedTasksAreInFlight` rests on `FlightInv`, which asks for a
message as soon as a dispatcher has published, not only when it has confirmed: the worker may be faster.
`SentInv` adds that a task not yet submitted has no mark and no lease, and that a retry is announced only
while one is left.  `SentNext` says what a step may do to the mark, `FlightNext` that the
message is delivered, passed on or returned unless dropped.  `StaleWorkersWriteNothing`: of the steps that
end an attempt, those that write ask for its token, but for the soft limit's handler.

*`AgentRun_proofs`.*  `ResumeKept` rests on `ResumeInv`: the property, that a start between
its check and its insert holds the candidate's row, whence the resume it has read is still current and
ready (`CreatingHoldsResume`), and that a handler past the check works for a candidate with a run
(`StartedHasRun`).  `FinishedRunsStay` rests on `AppliedInv`: a run
that offers have finished has an application (`OffersApplied`), so a round with an old status
does not find that there is none, and the job of an HR handler that writes is a job (`HrHoldsJob`).
`OffersFinishTheRun` and `AchievedExactlyByOffers` add `Parts`
to these two invariants: what an HR handler has counted under its locks is still so when it
writes (`Counted`), since the run's row lets one such handler or one round work (`Alone`); an
application belongs to a run and a match (`OfRun`); a save that began before the run writes
into the goal that run was started with (`GoalFirst`).  So two offers at once count each
other, and a new round inserts no offers.  `ApplicationsMoveForward` follows from the same.
`ImplementsTheRunLifecycle` needs no more than all these and that a pending save asks for a target there
is (`SaveAsks`): a round is `Apply`, `NoMatch` or a stutter (`LifeRound`), and the commit of an HR
handler is `Move`, whose count is the one the handler has made earlier (`LifeCommit`, by `Counted`),
to a stage that is later because its rank is its place in the order (`RankIsNumber`, `ValidIsLater`).

*`ObjectStorage_proofs`.*  `ResourceKeepsItsFile` and `AttachmentKeepsItsFile` rest on
`StorageInv`.  Storage keys are used once: a key of a row, of a claim or of a pending deletion belongs to
an upload that is past its transaction, and a row's key to an upload of its content
(`KeysSpent`), so that no later upload draws it and no two rows share it.  A remover claims a row
once (`OneClaimEach`); the file of an upload that is not saved is there (`FreshFiles`); no
request is about to delete the key of a row and no claim names the key of a ready one (`KeysKept`);
what is referred to is ready (`UsedIsReady`).  The last two except the contents that raced.  The proof
first shows that every action is one of a few moves of rows, claims, deletions,
files and references (`MovesStep`), then that such moves keep each part.  `NoFileIsForgotten` adds
`FilesInv`: before the first fault every file is remembered by a row, an upload, a request about to
delete or a claim, the file of a `deleting` row by a claim, and a cleanup that has
scanned holds no claim that its next one would overwrite.

*`JobLifecycle_proofs`.*  `JobOnlyNewestIsActive`, `JobSnapshotOfNewest` and `JobDeletedIsSettled`
are inductive together with two facts about locks: locks other than key shares exclude
each other (`Exclusive`), and what a transaction has read of a row it holds stays true until
it ends (`Knows`): a retry knows its job is live, an execution that has passed its task's lock
knows the task runs, a reset deletes the tasks of the jobs it has locked.  A deletion
judges the latest task only when it has its lock, so it needs no such fact.

*`Conversation_proofs`.*  Every theorem comes from one invariant: the states each kind of turn can
have (`Turns`), that a handler at work has an open turn and a shown reply is the turn's or that of a
turn with none for good (`Handles`), one handler per turn, and at most as many open turns
without one as faults.  `OpenIsAttended` needs the counting because `Crash` is the only step that
leaves a turn; `JudgedStaysAlone` because a judged question has no pending query for a new message to find.

*`Decisions_proofs`.*  The stored decisions are what the rules say of the input (`Told`), and
the theorems are arithmetic and set reasoning about the rules, for all jobs, goals, resumes, answers and
documents that `DecisionsAssumption` types.  `RoundingDecidesNothing` assumes `FewSkills`, fewer than 200 required
skills: the weighted sum then differs from the threshold by more than half a hundredth or not at all.
`NotationsDecideNothing` holds for goals with any number of clauses: the first clause with a demand is the same in
both notations and asks for the same pay (`Rewording`, `SameFilters`, by `Least` of `ResumeProfile_proofs`), and the two ways to write
the pay of a job are read alike (`AmountReads`).  `AnswersDecide`: a clause that is asked about is one
of the goal (`AskedClause`, by `FirstOpen`), and for answers of any length the parser's search for a yes and for a no
finds both exactly if the negations of its yes words differ.
`ProfilesAreFaithful` needs an invariant of the extraction, `Founded`: the profile to be mended is a profile
still, and the one that was kept has, but for its years, the facts of one in which no fault was found and
whose technologies are skills (`YearsChangeNoFact`, since it is rebuilt after the check).  Its years are those
of its own work, whence `ExperienceIsCovered` by `YearsAreWorked`.  It does not say
which reply the parts are from, since the check comes after the mending.

*`ResumeProfile_proofs`.*  `YearsAreWorked`: the experience that the merge of the intervals yields is, for every
career, the number of months some entry covers.  The merge and the sum are folds over finite sets: functions that choose
an element and go on with the rest.  That such a function exists is shown size by size (`FoldExists`), with `AllNumbers` in place of the induction
theorems: a set of numbers that has 0 and every successor has all of them, or its complement had a least one.
An interval is merged after all that start before it (`LatestExists`), so one that begins at the latest in the
month after the last merged interval only extends that one, and any other stands apart from all (`JoinedMerges`); the
merged intervals therefore cover the same months in order and with gaps (`MergedCovers`), and the sum of their
lengths is the cardinality of their union (`SumIsCardinality`).

*`WorkspaceStore_proofs`.*  `StoreTyped` and `CommandsAreShown` rest on `StoreInv`.  `Sound` says what each
operation in flight still asks for, and of a command how far it is (`Progress`): from its change on the server
has what it made, or newer (`Sent`), and when nothing is left to ask, what it has been told is of its account
and as new (`Listed`).  Since a server's versions only grow, the steps of others keep that.
`PollHasReason` is about the polling: a timer is armed, or a tick listened to, only where
`ShouldPoll` holds, so a tick has an account to ask with; without it not even the types are
inductive.  It is kept because every change of what `ShouldPoll` reads runs the effect again (`Rerender`).

Only model-checked: the liveness properties `RunningSettles`, `UndispatchedIsPublished`, `TurnSettles`, `RunningEnds`
and `ShownSettles` (fairness and `ENABLED` are out of the prover's reach).

## 7. Not modelled

* *Accounts and identity*: single inserts under unique constraints; no other component waits for or
  changes them.  An account is a name in `WorkspaceStore`.
* *Adapters (MinerU, Qwen for replies and job descriptions) and parsers*: calls and text functions whose effect
  on the rest is success, failure or a retryable failure, which the models choose freely.  What the text says
  is a choice too, made before the rules of `Decisions` read it; of the extraction from resumes the rules
  are modelled, the wording of its requests and the patterns it looks for are not.
* *API layer, configuration, runtime and health*: they keep no state.  Statuses and schemas are left out;
  the settings' validation is an assumption of `AsyncTask`.
* *Migrations*: the constraints they install are in the actions that run into them.
* *Frontend pages, API clients, mock data*: rendering and URLs; the pages that drive the store (the
  polling hook, the workspace's routes, the sign-out) are in `WorkspaceStore`, the mock mode is not.
* *Scripts and deployment*: start-up, backup and readiness probes.

Partly modelled: the debug reset of a candidate's goal and run beside starts of that run (its effect on
files, jobs and the conversation is modelled); the list queries and progress events of matching and
applications; the idempotency keys, names, types and sizes of uploads, of which `ObjectStorage`
keeps the outcome; a batch of job files, which is one upload after the other.
