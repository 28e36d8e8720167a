------------------------------ MODULE AgentRun ------------------------------
(***************************************************************************)
(* The agent run of a candidate: the goal and the resume it is started     *)
(* from, the matching round, the applications, and HR's updates.  A step   *)
(* is a part of one PostgreSQL transaction (READ COMMITTED) in which it    *)
(* does not wait for a lock; who holds a row lock is read off where the    *)
(* processes stand (GoalLocked ...).  A start request is two transactions: *)
(* agent_run_service.start commits the run before matching_service.execute *)
(* begins, and both use one ORM session, so that what the first has read   *)
(* the second sees again, whatever another request has committed since.    *)
(***************************************************************************)
EXTENDS Integers, Sequences, FiniteSets

CONSTANTS
  Candidate,    \* candidates
  Request,      \* POST /agent_runs/current/start handlers
  Hr,           \* PATCH application status handlers
  Content,      \* what a goal says: title and filters
  Target,       \* offer targets
  Order,        \* APPLICATION_STATUS_ORDER, in which "offer" comes last
  MaxJobs,      \* jobs, numbered in the order of their creation
  MaxResumes,   \* resumes of a candidate
  MatchLimit    \* jobs one matching round takes: eligible_rows[:20]

ASSUME LimitsAssumption ==
  /\ MaxJobs \in Nat /\ MaxResumes \in Nat /\ MatchLimit \in Nat
  /\ Target \subseteq Nat \ {0} /\ Candidate # {}
ASSUME OrderAssumption ==
  /\ Order \in Seq(STRING) /\ Len(Order) > 1
  /\ Order[1] = "submitted" /\ Order[Len(Order)] = "offer"
  /\ \A i, k \in 1..Len(Order) : Order[i] = Order[k] => i = k
  /\ \A i \in 1..Len(Order) : Order[i] \notin {"none", "terminated"}

VARIABLES
  goal,      \* job_goals: the goal of a candidate
  save,      \* PUT of a goal, between its checks and its write
  resume,    \* resumes of a candidate
  current,   \* candidates.current_resume_id (0: NULL)
  del,       \* delete_resume holds this resume and waits for the candidate
  job,       \* jobs with the latest task of each
  run,       \* agent_run_contexts
  latest,    \* the candidate of the newest run
  match,     \* matches of the run of a candidate
  app,       \* applications.status
  req,       \* the start handlers
  hr         \* the HR handlers

vars == <<goal, save, resume, current, del, job, run, latest, match, app, req, hr>>
demand == <<goal, save>>
papers == <<resume, current, del>>
round == <<run, latest, match, app>>

Job == 1..MaxJobs
ResumeId == 1..MaxResumes
NoWish == [content |-> CHOOSE x \in Content : TRUE, target |-> 1]
Wish == [content : Content, target : Target] \cup {NoWish}
Status == {Order[i] : i \in 1..Len(Order)} \cup {"terminated"}
NoRun == [status |-> "none", reason |-> "none", wish |-> NoWish, resume |-> 0]
NoReq(reply) == [pc |-> "idle", cand |-> CHOOSE c \in Candidate : TRUE, wish |-> NoWish,
                 resume |-> 0, seen |-> "none", jobs |-> {}, reply |-> reply]
NoHr == [pc |-> "idle", cand |-> CHOOSE c \in Candidate : TRUE, job |-> 1,
         next |-> "terminated", offers |-> 0]

GoalRow == [status : {"none", "active", "achieved"}, wish : Wish]
SaveState == [pc : {"idle", "insert", "update"}, wish : Wish]
RunRow == [status : {"none", "running", "finished"},
           reason : {"none", "no_match", "offer_target_reached"},
           wish : Wish, resume : 0..MaxResumes]
ReqState == [pc : {"idle", "creating", "started", "matching"}, cand : Candidate, wish : Wish,
             resume : 0..MaxResumes, seen : {"none", "running"}, jobs : SUBSET Job,
             reply : {"none", "ok", "precondition", "integrity_error", "deadlock"}]
HrState == [pc : {"idle", "writing"}, cand : Candidate, job : Job \cup {1},
            next : Status, offers : Nat]

TypeOK ==
  /\ goal \in [Candidate -> GoalRow]
  /\ save \in [Candidate -> SaveState]
  /\ resume \in [Candidate -> [ResumeId -> {"absent", "processing", "ready", "unready", "deleted"}]]
  /\ current \in [Candidate -> 0..MaxResumes]
  /\ del \in [Candidate -> 0..MaxResumes]
  /\ job \in [Job -> {"absent", "pending", "failed", "eligible", "deleted"}]
  /\ run \in [Candidate -> RunRow]
  /\ \A c \in Candidate : run[c].status = "finished" <=> run[c].reason # "none"
  /\ latest \subseteq Candidate
  /\ match \in [Candidate -> [Job -> {"none", "not_matched", "application_created"}]]
  /\ app \in [Candidate -> [Job -> Status \cup {"none"}]]
  /\ req \in [Request -> ReqState]
  /\ hr \in [Hr -> HrState]

Init ==
  /\ goal = [c \in Candidate |-> [status |-> "none", wish |-> NoWish]]
  /\ save = [c \in Candidate |-> [pc |-> "idle", wish |-> NoWish]]
  /\ resume = [c \in Candidate |-> [i \in ResumeId |-> "absent"]]
  /\ current = [c \in Candidate |-> 0]
  /\ del = [c \in Candidate |-> 0]
  /\ job = [j \in Job |-> "absent"]
  /\ run = [c \in Candidate |-> NoRun]
  /\ latest = {}
  /\ match = [c \in Candidate |-> [j \in Job |-> "none"]]
  /\ app = [c \in Candidate |-> [j \in Job |-> "none"]]
  /\ req = [q \in Request |-> NoReq("none")]
  /\ hr = [h \in Hr |-> NoHr]

-----------------------------------------------------------------------------
(* Row locks.  A start at "creating" holds its goal and its candidate; a    *)
(* matching round holds its run; an HR update holds application, run and    *)
(* goal; delete_resume holds the resume while it waits for the candidate.   *)

\* mutant: the candidate is read without FOR UPDATE.
CandidateUnlocked(c) == FALSE
CandidateLocked(c) == \E q \in Request : req[q].pc = "creating" /\ req[q].cand = c

\* mutant: HR's query locks the application alone.
HrUnlocked(c) == FALSE
HrLocked(c) == \E h \in Hr : hr[h].pc = "writing" /\ hr[h].cand = c

RunLocked(c) ==
  HrLocked(c) \/ \E q \in Request : req[q].pc = "matching" /\ req[q].cand = c
GoalLocked(c) == HrLocked(c) \/ CandidateLocked(c)

-----------------------------------------------------------------------------
(* The goal *)

\* The goal is read, and that no run exists, without a lock.
SaveCheck(c, wish) ==
  /\ save[c].pc = "idle"
  /\ run[c].status = "none"
  /\ goal[c].status \in {"none", "active"}
  /\ save' = [save EXCEPT ![c] =
       [pc |-> IF goal[c].status = "none" THEN "insert" ELSE "update", wish |-> wish]]
  /\ UNCHANGED <<goal, papers, job, round, req, hr>>

\* mutant: a save always makes the goal active.
SavedActive(g, s) == [status |-> "active", wish |-> s.wish]
\* An insert makes an active goal; an update sets title, filters and target only.
Saved(g, s) == [status |-> IF s.pc = "insert" THEN "active" ELSE g.status, wish |-> s.wish]

\* An UPDATE waits for the goal.
SaveWrite(c) ==
  /\ save[c].pc # "idle"
  /\ save[c].pc = "update" => ~GoalLocked(c)
  /\ goal' = [goal EXCEPT ![c] = Saved(@, save[c])]
  /\ save' = [save EXCEPT ![c] = [pc |-> "idle", wish |-> NoWish]]
  /\ UNCHANGED <<papers, job, round, req, hr>>

-----------------------------------------------------------------------------
(* Resumes and jobs *)

\* An upload of new content makes a resume and makes it the current one.
UploadResume(c, i) ==
  /\ \A k \in ResumeId : resume[c][k] = "absent" <=> k >= i
  /\ ~CandidateLocked(c)
  /\ resume' = [resume EXCEPT ![c][i] = "processing"]
  /\ current' = [current EXCEPT ![c] = i]
  /\ UNCHANGED <<demand, del, job, round, req, hr>>

\* Parsed and the profile can be matched, or parsed without that, or failed; the
\* worker's write waits for the row.
ParseResume(c, i) ==
  /\ resume[c][i] = "processing"
  /\ del[c] # i
  /\ \E s \in {"ready", "unready"} : resume' = [resume EXCEPT ![c][i] = s]
  /\ UNCHANGED <<demand, current, del, job, round, req, hr>>

\* delete_resume locks the resume before the candidate.
LockResume(c, i) ==
  /\ del[c] = 0
  /\ resume[c][i] \notin {"absent", "deleted"}
  /\ del' = [del EXCEPT ![c] = i]
  /\ UNCHANGED <<demand, resume, current, job, round, req, hr>>

MayDeleteResume(c, i) ==
  /\ current[c] = i
  /\ resume[c][i] \in {"ready", "unready"}
  /\ run[c].status = "none"

DeleteResume(c) ==
  /\ del[c] # 0
  /\ ~CandidateLocked(c)
  /\ IF MayDeleteResume(c, del[c])
     THEN /\ resume' = [resume EXCEPT ![c][del[c]] = "deleted"]
          /\ current' = [current EXCEPT ![c] = 0]
     ELSE UNCHANGED <<resume, current>>
  /\ del' = [del EXCEPT ![c] = 0]
  /\ UNCHANGED <<demand, job, round, req, hr>>

UploadJob(j) ==
  /\ \A k \in Job : job[k] = "absent" <=> k >= j
  /\ job' = [job EXCEPT ![j] = "pending"]
  /\ UNCHANGED <<demand, papers, round, req, hr>>

ParseJob(j) ==
  /\ job[j] = "pending"
  /\ \E s \in {"eligible", "failed"} : job' = [job EXCEPT ![j] = s]
  /\ UNCHANGED <<demand, papers, round, req, hr>>

RetryJob(j) ==
  /\ job[j] = "failed"
  /\ job' = [job EXCEPT ![j] = "pending"]
  /\ UNCHANGED <<demand, papers, round, req, hr>>

\* A job that no match refers to, as far as the transaction sees.
DeleteJob(j) ==
  /\ job[j] \in {"eligible", "failed"}
  /\ \A c \in Candidate : match[c][j] = "none" /\ app[c][j] = "none"
  /\ job' = [job EXCEPT ![j] = "deleted"]
  /\ UNCHANGED <<demand, papers, round, req, hr>>

-----------------------------------------------------------------------------
(* Starting a run *)

Eligible == {j \in Job : job[j] = "eligible"}

Prerequisites(c) ==
  /\ goal[c].status = "active"
  /\ current[c] # 0
  /\ resume[c][current[c]] = "ready"
  /\ Eligible # {}

\* mutant: only applications HR has not moved yet are counted.
HasNoSubmitted(apps) == \A j \in Job : apps[j] # "submitted"
HasNoApplication(apps) == \A j \in Job : apps[j] = "none"

\* A finished run without match and without application may be followed by another.
Restartable(c) ==
  /\ run[c].status = "finished"
  /\ run[c].reason = "no_match"
  /\ HasNoApplication(app[c])

Begun(c, pc, seen) ==
  [pc |-> pc, cand |-> c, wish |-> goal[c].wish, resume |-> current[c], seen |-> seen,
   jobs |-> {}, reply |-> "none"]

\* get_start_preconditions locks goal and candidate; then the service decides.
StartCheck(q, c) ==
  /\ req[q].pc = "idle"
  /\ ~GoalLocked(c)
  /\ LET creates == /\ run[c].status = "none" \/ Restartable(c)
                    /\ Prerequisites(c)
     IN req' = [req EXCEPT ![q] =
          CASE creates                  -> Begun(c, "creating", "none")
            [] run[c].status = "running" -> Begun(c, "started", "running")
            [] run[c].status = "finished" /\ ~creates -> NoReq("ok")
            [] OTHER                    -> NoReq("precondition")]
  /\ UNCHANGED <<demand, papers, job, round, hr>>

\* create_running: the foreign key waits for the resume, the commit lets go.
StartCreate(q) ==
  LET r == req[q] IN
  /\ r.pc = "creating"
  /\ run[r.cand].status = "none"
  /\ del[r.cand] # r.resume
  /\ run' = [run EXCEPT ![r.cand] =
       [status |-> "running", reason |-> "none", wish |-> r.wish, resume |-> r.resume]]
  /\ latest' = {r.cand}
  /\ req' = [req EXCEPT ![q] = [@ EXCEPT !.pc = "started", !.seen = "running"]]
  /\ UNCHANGED <<demand, papers, job, match, app, hr>>

\* UNIQUE (candidate_id, job_goal_id) refuses a second run of the same goal.
StartConflict(q) ==
  /\ req[q].pc = "creating"
  /\ run[req[q].cand].status # "none"
  /\ req' = [req EXCEPT ![q] = NoReq("integrity_error")]
  /\ UNCHANGED <<demand, papers, job, round, hr>>

\* The start waits for the resume, the deletion for the candidate: PostgreSQL
\* ends one of the two.
BreakDeadlock(q) ==
  /\ req[q].pc = "creating"
  /\ run[req[q].cand].status = "none"
  /\ del[req[q].cand] = req[q].resume
  /\ \/ req' = [req EXCEPT ![q] = NoReq("deadlock")] /\ UNCHANGED del
     \/ del' = [del EXCEPT ![req[q].cand] = 0] /\ UNCHANGED req
  /\ UNCHANGED <<demand, resume, current, job, round, hr>>

-----------------------------------------------------------------------------
(* The matching round *)

FirstEligible ==
  {j \in Eligible : Cardinality({i \in Eligible : i < j}) < MatchLimit}

\* The run is locked, but the session keeps the run it has: the status that is
\* compared with "running" is the one seen in the first transaction.
SeesRunning(q) == req[q].seen = "running"

LoadRunInput(q) ==
  /\ req[q].pc = "started"
  /\ ~RunLocked(req[q].cand)
  /\ req' = [req EXCEPT ![q] = IF SeesRunning(q)
                               THEN [@ EXCEPT !.pc = "matching", !.jobs = FirstEligible]
                               ELSE NoReq("ok")]
  /\ UNCHANGED <<demand, papers, job, round, hr>>

\* mutant: the reason is forgotten.
FinishedWithoutReason(r, reason) == [r EXCEPT !.status = "finished"]
Finished(r, reason) == [r EXCEPT !.status = "finished", !.reason = reason]

\* Every job of the round that has no match gets one; a match that fits gets an
\* application; without any application of the run the run is finished.
Evaluate(q) ==
  LET c == req[q].cand
      new == {j \in req[q].jobs : match[c][j] = "none"}
  IN
  /\ req[q].pc = "matching"
  /\ \E fits \in SUBSET new :
       /\ match' = [match EXCEPT ![c] = [j \in Job |->
            IF j \notin new THEN @[j] ELSE
            IF j \in fits THEN "application_created" ELSE "not_matched"]]
       /\ app' = [app EXCEPT ![c] = [j \in Job |-> IF j \in fits THEN "submitted" ELSE @[j]]]
       /\ run' = IF HasNoApplication(app'[c])
                 THEN [run EXCEPT ![c] = Finished(@, "no_match")]
                 ELSE run
  /\ req' = [req EXCEPT ![q] = NoReq("ok")]
  /\ UNCHANGED <<demand, papers, job, latest, hr>>

\* The handler dies; PostgreSQL rolls back what it has not committed.
Crash(q) ==
  /\ req[q].pc # "idle"
  /\ req' = [req EXCEPT ![q] = NoReq("none")]
  /\ UNCHANGED <<demand, papers, job, round, hr>>

-----------------------------------------------------------------------------
(* HR moves an application *)

\* "terminated" comes after every stage.
Rank(s) ==
  IF s = "terminated" THEN Len(Order) + 1 ELSE CHOOSE i \in 1..Len(Order) : Order[i] = s

ValidTransition(from, to) ==
  from \notin {"offer", "terminated"} /\ Rank(to) > Rank(from)

Offers(c) == {j \in Job : app[c][j] = "offer"}

\* get_for_hr_update waits for run and goal, then the offers are counted with
\* the one that is about to be written.
HrLock(h, c, j, next) ==
  /\ hr[h].pc = "idle"
  /\ ~RunLocked(c) /\ ~GoalLocked(c)
  /\ latest = {c} /\ app[c][j] # "none" /\ job[j] # "deleted"
  /\ app[c][j] # next /\ ValidTransition(app[c][j], next)
  /\ hr' = [hr EXCEPT ![h] = [pc |-> "writing", cand |-> c, job |-> j, next |-> next,
       offers |-> Cardinality(IF next = "offer" THEN Offers(c) \cup {j} ELSE Offers(c))]]
  /\ UNCHANGED <<demand, papers, job, round, req>>

\* The commit of the status, and with the target reached of run and goal.
HrCommit(h) ==
  LET w == hr[h]
      reached == /\ w.next = "offer"
                 /\ run[w.cand].status = "running"
                 /\ w.offers >= goal[w.cand].wish.target
  IN
  /\ w.pc = "writing"
  /\ app' = [app EXCEPT ![w.cand][w.job] = w.next]
  /\ run' = IF reached
            THEN [run EXCEPT ![w.cand] = Finished(@, "offer_target_reached")]
            ELSE run
  /\ goal' = IF reached THEN [goal EXCEPT ![w.cand].status = "achieved"] ELSE goal
  /\ hr' = [hr EXCEPT ![h] = NoHr]
  /\ UNCHANGED <<save, papers, job, latest, match, req>>

-----------------------------------------------------------------------------
CandidateStep(c) ==
  \/ \E x \in Content, n \in Target : SaveCheck(c, [content |-> x, target |-> n])
  \/ SaveWrite(c)
  \/ \E i \in ResumeId : UploadResume(c, i) \/ ParseResume(c, i) \/ LockResume(c, i)
  \/ DeleteResume(c)

JobStep(j) == UploadJob(j) \/ ParseJob(j) \/ RetryJob(j) \/ DeleteJob(j)

StartStep(q) ==
  \/ \E c \in Candidate : StartCheck(q, c)
  \/ StartCreate(q) \/ StartConflict(q) \/ BreakDeadlock(q)
  \/ LoadRunInput(q) \/ Evaluate(q) \/ Crash(q)

HrStep(h) ==
  \/ \E c \in Candidate, j \in Job, next \in Status : HrLock(h, c, j, next)
  \/ HrCommit(h)

Next ==
  \/ \E c \in Candidate : CandidateStep(c)
  \/ \E j \in Job : JobStep(j)
  \/ \E q \in Request : StartStep(q)
  \/ \E h \in Hr : HrStep(h)

Spec == Init /\ [][Next]_vars

-----------------------------------------------------------------------------
(* Properties *)

\* The resume a run was started from is never deleted: delete_resume and start
\* meet at the candidate's row lock, whichever comes first.
RunKeepsResume ==
  \A c \in Candidate : run[c].status # "none" =>
    /\ run[c].resume # 0
    /\ resume[c][run[c].resume] = "ready"

\* As long as the goal is the one the run was started with, a run that has as
\* many offers as the goal asks for is finished and its goal achieved, whatever
\* number of HR updates count the offers at the same time.
OffersFinishRun ==
  \A c \in Candidate :
    run[c].status = "running" /\ goal[c].wish = run[c].wish
      => Cardinality(Offers(c)) < goal[c].wish.target

\* A goal is achieved exactly when its run was finished by the offers.
AchievedByOffers ==
  \A c \in Candidate :
    goal[c].status = "achieved" <=> run[c].reason = "offer_target_reached"

\* An application only moves forward, or to "terminated", and stays where it
\* ended, although two HR requests may have read the same status.
OnlyForward ==
  [][\A c \in Candidate, j \in Job : app[c][j] # "none" /\ app'[c][j] # app[c][j]
       => ValidTransition(app[c][j], app'[c][j])]_app

\* A finished run is not started again and does not change its reason: a round
\* that works with an old status does not turn offers into "no match".
FinishedStays ==
  [][\A c \in Candidate : run[c].status = "finished" => run'[c] = run[c]]_run
=============================================================================
