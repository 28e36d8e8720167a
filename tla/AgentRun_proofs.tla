-------------------------- MODULE AgentRun_proofs --------------------------
(* Theorems about AgentRun, for every value of its constants.              *)
EXTENDS AgentRunRefinement, FiniteSetTheorems, TLAPS

(* What the constants say of the values the records are built from.        *)
LEMMA Values ==
  /\ MaxJobs \in Nat /\ MaxResumes \in Nat /\ 0 \in 0..MaxResumes
  /\ NoWish \in Wish
  /\ "terminated" \in Status /\ "offer" \in Status /\ "submitted" \in Status
  /\ (CHOOSE c \in Candidate : TRUE) \in Candidate
<1>1. MaxJobs \in Nat /\ MaxResumes \in Nat /\ 0 \in 0..MaxResumes
  BY LimitsAssumption DEF LimitsAssumption
<1>2. NoWish \in Wish /\ "terminated" \in Status
  BY DEF Wish, Status
<1>3. "offer" \in Status /\ "submitted" \in Status
  <2>1. /\ Len(Order) \in Nat /\ Len(Order) > 1
        /\ Order[Len(Order)] = "offer" /\ Order[1] = "submitted"
    BY OrderAssumption DEF OrderAssumption
  <2>2. Len(Order) \in 1..Len(Order) /\ 1 \in 1..Len(Order)
    BY <2>1
  <2> QED BY <2>1, <2>2 DEF Status
<1>4. (CHOOSE c \in Candidate : TRUE) \in Candidate
  BY LimitsAssumption DEF LimitsAssumption
<1> QED BY <1>1, <1>2, <1>3, <1>4

(* What a start handler writes into its state keeps the state's type.      *)
LEMMA ReqWrites ==
  /\ \A reply \in {"none", "ok", "precondition", "integrity_error", "deadlock"} :
       /\ NoReq(reply) \in ReqState
       /\ NoReq(reply).pc = "idle"
  /\ \A r \in ReqState :
       /\ [r EXCEPT !.pc = "started", !.seen = "running"] \in ReqState
       /\ [r EXCEPT !.pc = "started", !.seen = "running"].pc = "started"
       /\ \A S \in SUBSET Job :
            /\ [r EXCEPT !.pc = "matching", !.jobs = S] \in ReqState
            /\ [r EXCEPT !.pc = "matching", !.jobs = S].pc = "matching"
<1>1. \A reply \in {"none", "ok", "precondition", "integrity_error", "deadlock"} :
        NoReq(reply) \in ReqState /\ NoReq(reply).pc = "idle"
  BY Values DEF NoReq, ReqState
<1>2. ASSUME NEW r \in ReqState
      PROVE  /\ [r EXCEPT !.pc = "started", !.seen = "running"] \in ReqState
             /\ [r EXCEPT !.pc = "started", !.seen = "running"].pc = "started"
             /\ \A S \in SUBSET Job :
                  /\ [r EXCEPT !.pc = "matching", !.jobs = S] \in ReqState
                  /\ [r EXCEPT !.pc = "matching", !.jobs = S].pc = "matching"
  <2> DEFINE r1 == [r EXCEPT !.pc = "started"]
             r2 == [r EXCEPT !.pc = "matching"]
  <2>1. r1 \in ReqState /\ r1.pc = "started" /\ r2 \in ReqState /\ r2.pc = "matching"
    BY DEF ReqState
  <2>2. /\ [r1 EXCEPT !.seen = "running"] \in ReqState
        /\ [r1 EXCEPT !.seen = "running"].pc = "started"
    BY <2>1 DEF ReqState
  <2>3. \A S \in SUBSET Job : /\ [r2 EXCEPT !.jobs = S] \in ReqState
                              /\ [r2 EXCEPT !.jobs = S].pc = "matching"
    BY <2>1 DEF ReqState
  <2> QED BY <2>2, <2>3
<1> QED BY <1>1, <1>2

(* A handler that has read its conditions holds what it has read.          *)
LEMMA BegunWrites ==
  ASSUME TypeOK, NEW c \in Candidate,
         NEW pc \in {"creating", "started"}, NEW seen \in {"none", "running"}
  PROVE  Begun(c, pc, seen) \in ReqState
<1>1. goal[c].wish \in Wish /\ current[c] \in 0..MaxResumes
  BY DEF TypeOK, GoalRow
<1> QED BY <1>1 DEF ReqState, Begun

(* Finishing a run sets status and reason and nothing else.                *)
LEMMA FinishedWrites ==
  ASSUME NEW r \in RunRow, NEW reason \in {"no_match", "offer_target_reached"}
  PROVE  /\ Finished(r, reason) \in RunRow
         /\ Finished(r, reason).status = "finished"
         /\ Finished(r, reason).reason = reason
         /\ Finished(r, reason).resume = r.resume
         /\ r.status = "finished" /\ r.reason = reason => Finished(r, reason) = r
<1> DEFINE r1 == [r EXCEPT !.status = "finished"]
<1>1. r1 \in RunRow /\ r1.status = "finished" /\ r1.resume = r.resume
  BY DEF RunRow
<1>2. Finished(r, reason) = [r1 EXCEPT !.reason = reason]
  BY DEF Finished
<1>3. /\ Finished(r, reason) \in RunRow
      /\ Finished(r, reason).status = "finished"
      /\ Finished(r, reason).reason = reason
      /\ Finished(r, reason).resume = r.resume
  BY <1>1, <1>2 DEF RunRow
<1>4. ASSUME r.status = "finished", r.reason = reason
      PROVE  Finished(r, reason) = r
  <2>1. r = [status |-> r.status, reason |-> r.reason, wish |-> r.wish, resume |-> r.resume]
    BY DEF RunRow
  <2>2. r1 = r
    BY <1>4, <2>1
  <2>3. [r EXCEPT !.reason = reason] = r
    BY <1>4, <2>1
  <2> QED BY <1>2, <2>2, <2>3
<1> QED BY <1>3, <1>4

(* So a table of runs in which one is finished is again a table of runs.   *)
LEMMA RunTable ==
  ASSUME run \in [Candidate -> RunRow],
         \A d \in Candidate : run[d].status = "finished" <=> run[d].reason # "none",
         NEW c \in Candidate, NEW reason \in {"no_match", "offer_target_reached"}
  PROVE  LET runs == [run EXCEPT ![c] = Finished(@, reason)] IN
           /\ runs \in [Candidate -> RunRow]
           /\ \A d \in Candidate : runs[d].status = "finished" <=> runs[d].reason # "none"
           /\ runs[c] = Finished(run[c], reason)
           /\ \A d \in Candidate : runs[d].resume = run[d].resume
           /\ \A d \in Candidate \ {c} : runs[d] = run[d]
<1>1. run[c] \in RunRow
  OBVIOUS
<1>2. /\ Finished(run[c], reason) \in RunRow
      /\ Finished(run[c], reason).status = "finished"
      /\ Finished(run[c], reason).reason = reason
      /\ Finished(run[c], reason).resume = run[c].resume
  BY <1>1, FinishedWrites
<1> QED BY <1>2

(* Every action keeps the state well typed.                                *)
LEMMA TypeStep == TypeOK /\ [Next]_vars => TypeOK'
<1> SUFFICES ASSUME TypeOK, [Next]_vars
             PROVE  TypeOK'
  OBVIOUS
<1> USE DEF TypeOK
<1>1. ASSUME NEW c \in Candidate, CandidateStep(c)
      PROVE  TypeOK'
  <2>1. ASSUME NEW x \in Content, NEW n \in Target,
               SaveCheck(c, [content |-> x, target |-> n])
        PROVE  TypeOK'
    <3>1. [content |-> x, target |-> n] \in Wish
      BY DEF Wish
    <3>2. [pc |-> IF goal[c].status = "none" THEN "insert" ELSE "update",
           wish |-> [content |-> x, target |-> n]] \in SaveState
      BY <3>1 DEF SaveState
    <3> QED BY <2>1, <3>2 DEF SaveCheck, papers, round
  <2>2. ASSUME SaveWrite(c)
        PROVE  TypeOK'
    <3>1. Saved(goal[c], save[c]) \in GoalRow
      BY DEF Saved, GoalRow, SaveState
    <3>2. [pc |-> "idle", wish |-> NoWish] \in SaveState
      BY Values DEF SaveState
    <3> QED BY <2>2, <3>1, <3>2 DEF SaveWrite, papers, round
  <2>3. ASSUME NEW i \in ResumeId, UploadResume(c, i)
        PROVE  TypeOK'
    <3>1. i \in 0..MaxResumes
      BY Values DEF ResumeId
    <3> QED BY <2>3, <3>1 DEF UploadResume, demand, round
  <2>4. ASSUME NEW i \in ResumeId, ParseResume(c, i)
        PROVE  TypeOK'
    BY <2>4 DEF ParseResume, demand, round
  <2>5. ASSUME NEW i \in ResumeId, LockResume(c, i)
        PROVE  TypeOK'
    <3>1. i \in 0..MaxResumes
      BY Values DEF ResumeId
    <3> QED BY <2>5, <3>1 DEF LockResume, demand, round
  <2>6. ASSUME DeleteResume(c)
        PROVE  TypeOK'
    <3>1. del[c] \in ResumeId /\ 0 \in 0..MaxResumes
      BY <2>6, Values DEF DeleteResume, ResumeId
    <3>2. /\ resume' \in [Candidate -> [ResumeId ->
                {"absent", "processing", "ready", "unready", "deleted"}]]
          /\ current' \in [Candidate -> 0..MaxResumes]
      <4>1. CASE MayDeleteResume(c, del[c])
        <5> DEFINE Kinds == {"absent", "processing", "ready", "unready", "deleted"}
        <5>1. [resume[c] EXCEPT ![del[c]] = "deleted"] \in [ResumeId -> Kinds]
          BY <3>1
        <5>2. /\ resume' = [resume EXCEPT ![c] = [@ EXCEPT ![del[c]] = "deleted"]]
              /\ current' = [current EXCEPT ![c] = 0]
          BY <2>6, <4>1 DEF DeleteResume
        <5> QED BY <3>1, <5>1, <5>2
      <4>2. CASE ~MayDeleteResume(c, del[c])
        BY <2>6, <4>2 DEF DeleteResume
      <4> QED BY <4>1, <4>2
    <3> QED BY <2>6, <3>1, <3>2 DEF DeleteResume, demand, round
  <2> QED BY <1>1, <2>1, <2>2, <2>3, <2>4, <2>5, <2>6 DEF CandidateStep
<1>2. ASSUME NEW j \in Job, JobStep(j)
      PROVE  TypeOK'
  BY <1>2 DEF JobStep, UploadJob, ParseJob, RetryJob, DeleteJob, demand, papers, round
<1>3. ASSUME NEW q \in Request, StartStep(q)
      PROVE  TypeOK'
  <2>1. ASSUME NEW c \in Candidate, StartCheck(q, c)
        PROVE  TypeOK'
    <3>1. PICK r \in ReqState : req' = [req EXCEPT ![q] = r]
      <4>1. Begun(c, "creating", "none") \in ReqState /\ Begun(c, "started", "running") \in ReqState
        BY BegunWrites
      <4> QED BY <2>1, <4>1, ReqWrites DEF StartCheck
    <3> QED BY <2>1, <3>1 DEF StartCheck, demand, papers, round
  <2>2. ASSUME StartCreate(q)
        PROVE  TypeOK'
    <3>1. req[q] \in ReqState /\ req[q].cand \in Candidate
      BY DEF ReqState
    <3>2. [status |-> "running", reason |-> "none", wish |-> req[q].wish,
           resume |-> req[q].resume] \in RunRow
      BY <3>1 DEF ReqState, RunRow
    <3>3. [req[q] EXCEPT !.pc = "started", !.seen = "running"] \in ReqState
      BY <3>1, ReqWrites
    <3>4. req' \in [Request -> ReqState]
      BY <2>2, <3>3 DEF StartCreate
    <3>5. run' \in [Candidate -> RunRow]
      BY <2>2, <3>1, <3>2 DEF StartCreate
    <3>6. \A c \in Candidate : run'[c].status = "finished" <=> run'[c].reason # "none"
      BY <2>2, <3>1, <3>2 DEF StartCreate
    <3> QED BY <2>2, <3>1, <3>4, <3>5, <3>6 DEF StartCreate, demand, papers
  <2>3. ASSUME StartConflict(q)
        PROVE  TypeOK'
    BY <2>3, ReqWrites DEF StartConflict, demand, papers, round
  <2>4. ASSUME BreakDeadlock(q)
        PROVE  TypeOK'
    <3>1. req[q].cand \in Candidate
      BY DEF ReqState
    <3>2. NoReq("deadlock") \in ReqState /\ 0 \in 0..MaxResumes
      BY ReqWrites, Values
    <3>3. req' \in [Request -> ReqState] /\ del' \in [Candidate -> 0..MaxResumes]
      BY <2>4, <3>1, <3>2, ZenonT(40) DEF BreakDeadlock
    <3> QED BY <2>4, <3>3 DEF BreakDeadlock, demand, round
  <2>5. ASSUME LoadRunInput(q)
        PROVE  TypeOK'
    <3>1. FirstEligible \in SUBSET Job /\ req[q] \in ReqState
      BY DEF FirstEligible, Eligible
    <3>2. /\ [req[q] EXCEPT !.pc = "matching", !.jobs = FirstEligible] \in ReqState
          /\ NoReq("ok") \in ReqState
      BY <3>1, ReqWrites
    <3> QED BY <2>5, <3>2 DEF LoadRunInput, demand, papers, round
  <2>6. ASSUME Evaluate(q)
        PROVE  TypeOK'
    <3> DEFINE c == req[q].cand
               new == {j \in req[q].jobs : match[c][j] = "none"}
    <3>1. c \in Candidate /\ new \in SUBSET Job
      BY DEF ReqState
    <3>2. PICK fits \in SUBSET new :
            /\ match' = [match EXCEPT ![c] = [j \in Job |->
                 IF j \notin new THEN @[j] ELSE
                 IF j \in fits THEN "application_created" ELSE "not_matched"]]
            /\ app' = [app EXCEPT ![c] = [j \in Job |-> IF j \in fits THEN "submitted" ELSE @[j]]]
            /\ run' = IF HasNoApplication(app'[c])
                      THEN [run EXCEPT ![c] = Finished(@, "no_match")]
                      ELSE run
      BY <2>6 DEF Evaluate
    <3>3. match' \in [Candidate -> [Job -> {"none", "not_matched", "application_created"}]]
      BY <3>1, <3>2
    <3>4. app' \in [Candidate -> [Job -> Status \cup {"none"}]]
      BY <3>1, <3>2, Values
    <3>5. run' = run \/ run' = [run EXCEPT ![c] = Finished(@, "no_match")]
      BY <3>2
    <3>6. /\ run' \in [Candidate -> RunRow]
          /\ \A d \in Candidate : run'[d].status = "finished" <=> run'[d].reason # "none"
      <4> DEFINE runs == [run EXCEPT ![c] = Finished(@, "no_match")]
      <4>1. /\ runs \in [Candidate -> RunRow]
            /\ \A d \in Candidate : runs[d].status = "finished" <=> runs[d].reason # "none"
        BY <3>1, RunTable
      <4>2. CASE run' = run
        BY <4>2
      <4>3. CASE run' = runs
        BY <4>1, <4>3
      <4> QED BY <3>5, <4>2, <4>3
    <3> QED BY <2>6, <3>3, <3>4, <3>6, ReqWrites DEF Evaluate, demand, papers
  <2>7. ASSUME Crash(q)
        PROVE  TypeOK'
    BY <2>7, ReqWrites DEF Crash, demand, papers, round
  <2> QED BY <1>3, <2>1, <2>2, <2>3, <2>4, <2>5, <2>6, <2>7 DEF StartStep
<1>4. ASSUME NEW h \in Hr, HrStep(h)
      PROVE  TypeOK'
  <2>1. ASSUME NEW c \in Candidate, NEW j \in Job, NEW next \in Status, HrLock(h, c, j, next)
        PROVE  TypeOK'
    <3>1. Offers(c) \in SUBSET Job /\ Offers(c) \cup {j} \in SUBSET Job
      BY DEF Offers
    <3>2. IsFiniteSet(Offers(c)) /\ IsFiniteSet(Offers(c) \cup {j})
      <4>1. IsFiniteSet(1..MaxJobs)
        BY Values, FS_Interval
      <4>2. Offers(c) \in SUBSET (1..MaxJobs) /\ Offers(c) \cup {j} \in SUBSET (1..MaxJobs)
        BY <3>1 DEF Job
      <4> QED BY <4>1, <4>2, FS_Subset
    <3>3. Cardinality(Offers(c)) \in Nat /\ Cardinality(Offers(c) \cup {j}) \in Nat
      BY <3>2, FS_CardinalityType
    <3>4. [pc |-> "writing", cand |-> c, job |-> j, next |-> next,
           offers |-> Cardinality(IF next = "offer" THEN Offers(c) \cup {j} ELSE Offers(c))]
            \in HrState
      BY <3>3 DEF HrState
    <3> QED BY <2>1, <3>4 DEF HrLock, demand, papers, round
  <2>2. ASSUME HrCommit(h)
        PROVE  TypeOK'
    <3> DEFINE c == hr[h].cand
    <3>1. c \in Candidate /\ hr[h].next \in Status
      BY DEF HrState
    <3>2. app' \in [Candidate -> [Job -> Status \cup {"none"}]]
      BY <2>2, <3>1 DEF HrCommit
    <3>4. run' = run \/ run' = [run EXCEPT ![c] = Finished(@, "offer_target_reached")]
      BY <2>2 DEF HrCommit
    <3>5. /\ run' \in [Candidate -> RunRow]
          /\ \A d \in Candidate : run'[d].status = "finished" <=> run'[d].reason # "none"
      <4> DEFINE runs == [run EXCEPT ![c] = Finished(@, "offer_target_reached")]
      <4>1. /\ runs \in [Candidate -> RunRow]
            /\ \A d \in Candidate : runs[d].status = "finished" <=> runs[d].reason # "none"
        BY <3>1, RunTable
      <4>2. CASE run' = run
        BY <4>2
      <4>3. CASE run' = runs
        BY <4>1, <4>3
      <4> QED BY <3>4, <4>2, <4>3
    <3>6. goal' \in [Candidate -> GoalRow]
      <4>1. [goal[c] EXCEPT !.status = "achieved"] \in GoalRow
        <5>1. goal[c] \in GoalRow
          BY <3>1
        <5> QED BY <5>1 DEF GoalRow
      <4> QED BY <2>2, <3>1, <4>1 DEF HrCommit
    <3>7. NoHr \in HrState
      BY Values DEF NoHr, HrState
    <3> QED BY <2>2, <3>2, <3>5, <3>6, <3>7 DEF HrCommit, papers
  <2> QED BY <1>4, <2>1, <2>2 DEF HrStep
<1>5. ASSUME UNCHANGED vars
      PROVE  TypeOK'
  BY <1>5 DEF vars
<1> QED BY <1>1, <1>2, <1>3, <1>4, <1>5 DEF Next

-----------------------------------------------------------------------------
(* The resume of a run                                                     *)

(* Strengthening: between the check and the insert a start holds the       *)
(* candidate's row, so that the resume it has read stays current and ready.*)
CreatingHoldsResume ==
  \A q \in Request : req[q].pc = "creating" =>
    /\ req[q].resume # 0
    /\ current[req[q].cand] = req[q].resume
    /\ resume[req[q].cand][req[q].resume] = "ready"

(* A handler that is past the check works for a candidate that has a run.  *)
StartedHasRun ==
  \A q \in Request : req[q].pc \in {"started", "matching"} => run[req[q].cand].status # "none"

ResumeInv == RunKeepsResume /\ CreatingHoldsResume /\ StartedHasRun

(* Steps that leave runs, resumes and the start handlers alone keep it.    *)
LEMMA ResumeFrame ==
  ASSUME ResumeInv, UNCHANGED <<run, resume, current, req>>
  PROVE  ResumeInv'
BY DEF ResumeInv, RunKeepsResume, CreatingHoldsResume, StartedHasRun

(* So do steps of one handler that leave it elsewhere than at "creating".  *)
LEMMA ReqFrame ==
  ASSUME TypeOK, ResumeInv, NEW q \in Request, NEW r \in ReqState, r.pc # "creating",
         r.pc # "idle" => run[r.cand].status # "none",
         req' = [req EXCEPT ![q] = r], UNCHANGED <<run, resume, current>>
  PROVE  ResumeInv'
<1>1. RunKeepsResume'
  BY DEF ResumeInv, RunKeepsResume
<1>2. ASSUME NEW p \in Request, req'[p].pc = "creating"
      PROVE  p # q /\ req'[p] = req[p]
  BY <1>2 DEF TypeOK
<1>3. CreatingHoldsResume'
  BY <1>2 DEF ResumeInv, CreatingHoldsResume
<1>4. StartedHasRun'
  BY DEF ResumeInv, StartedHasRun, TypeOK
<1> QED BY <1>1, <1>3, <1>4 DEF ResumeInv

(* A step of the candidate's resumes: what is not "ready" may change, and   *)
(* for a candidate that nobody holds and that has no run, everything.      *)
LEMMA PaperFrame ==
  ASSUME TypeOK, ResumeInv, NEW c \in Candidate, UNCHANGED <<run, req>>,
         \A d \in Candidate \ {c} : resume'[d] = resume[d] /\ current'[d] = current[d],
         current'[c] = current[c] \/ ~CandidateLocked(c),
         \/ \A i \in ResumeId : resume[c][i] = "ready" => resume'[c][i] = "ready"
         \/ run[c].status = "none" /\ ~CandidateLocked(c)
  PROVE  ResumeInv'
<1>1. ASSUME NEW d \in Candidate, run'[d].status # "none"
      PROVE  run'[d].resume # 0 /\ resume'[d][run'[d].resume] = "ready"
  <2>1. run[d].resume # 0 /\ resume[d][run[d].resume] = "ready"
    BY <1>1 DEF ResumeInv, RunKeepsResume
  <2>2. run[d].resume \in ResumeId
    BY <2>1, Values DEF TypeOK, RunRow, ResumeId
  <2> QED BY <1>1, <2>1, <2>2
<1>2. ASSUME NEW q \in Request, req'[q].pc = "creating"
      PROVE  /\ req'[q].resume # 0
             /\ current'[req'[q].cand] = req'[q].resume
             /\ resume'[req'[q].cand][req'[q].resume] = "ready"
  <2>1. /\ req[q].resume # 0 /\ current[req[q].cand] = req[q].resume
        /\ resume[req[q].cand][req[q].resume] = "ready"
    BY <1>2 DEF ResumeInv, CreatingHoldsResume
  <2>2. req[q].cand \in Candidate /\ req[q].resume \in ResumeId
    BY <2>1, Values DEF TypeOK, ReqState, ResumeId
  <2>3. req[q].cand = c => CandidateLocked(c)
    BY <1>2 DEF CandidateLocked
  <2> QED BY <2>1, <2>2, <2>3
<1> QED BY <1>1, <1>2 DEF ResumeInv, RunKeepsResume, CreatingHoldsResume, StartedHasRun

(* Finishing a run that exists neither makes one nor gives it a resume.    *)
LEMMA RunSteps ==
  ASSUME run \in [Candidate -> RunRow],
         NEW c \in Candidate, run[c].status # "none",
         NEW reason \in {"no_match", "offer_target_reached"},
         run' = run \/ run' = [run EXCEPT ![c] = Finished(@, reason)]
  PROVE  \A d \in Candidate : /\ run'[d].resume = run[d].resume
                              /\ (run'[d].status = "none" <=> run[d].status = "none")
<1>1. run[c] \in RunRow
  OBVIOUS
<1>2. /\ Finished(run[c], reason).status = "finished"
      /\ Finished(run[c], reason).resume = run[c].resume
  BY <1>1, FinishedWrites
<1>3. CASE run' = run
  BY <1>3
<1>4. CASE run' = [run EXCEPT ![c] = Finished(@, reason)]
  BY <1>2, <1>4
<1> QED BY <1>3, <1>4

(* A step that finishes runs, and may end a handler, keeps the invariant.  *)
LEMMA FinishFrame ==
  ASSUME TypeOK, ResumeInv, UNCHANGED <<resume, current>>,
         \A d \in Candidate : /\ run'[d].resume = run[d].resume
                              /\ (run'[d].status = "none" <=> run[d].status = "none"),
         \/ UNCHANGED req
         \/ \E q \in Request : req' = [req EXCEPT ![q] = NoReq("ok")]
  PROVE  ResumeInv'
<1>1. ASSUME NEW p \in Request, req'[p].pc # "idle"
      PROVE  req'[p] = req[p] /\ req[p].cand \in Candidate
  <2>1. NoReq("ok").pc = "idle"
    BY ReqWrites
  <2> QED BY <1>1, <2>1 DEF TypeOK, ReqState
<1>2. RunKeepsResume'
  BY DEF ResumeInv, RunKeepsResume
<1>3. CreatingHoldsResume'
  BY <1>1 DEF ResumeInv, CreatingHoldsResume
<1>4. StartedHasRun'
  BY <1>1 DEF ResumeInv, StartedHasRun
<1> QED BY <1>2, <1>3, <1>4 DEF ResumeInv

(* Every action keeps the resume of every run and of every start.          *)
LEMMA ResumeStep == TypeOK /\ TypeOK' /\ ResumeInv /\ [Next]_vars => ResumeInv'
<1> SUFFICES ASSUME TypeOK, TypeOK', ResumeInv, [Next]_vars
             PROVE  ResumeInv'
  OBVIOUS
<1>1. ASSUME NEW c \in Candidate, CandidateStep(c)
      PROVE  ResumeInv'
  <2>1. ASSUME NEW w, SaveCheck(c, w) \/ SaveWrite(c)
        PROVE  ResumeInv'
    BY <2>1, ResumeFrame DEF SaveCheck, SaveWrite, papers, round
  <2>2. ASSUME NEW i \in ResumeId, UploadResume(c, i)
        PROVE  ResumeInv'
    <3>1. /\ UNCHANGED <<run, req>> /\ ~CandidateLocked(c)
          /\ resume' = [resume EXCEPT ![c] = [@ EXCEPT ![i] = "processing"]]
          /\ current' = [current EXCEPT ![c] = i]
          /\ resume[c][i] = "absent"
      <4>1. i >= i
        BY Values DEF ResumeId
      <4> QED BY <2>2, <4>1 DEF UploadResume, round
    <3>2. \A d \in Candidate \ {c} : resume'[d] = resume[d] /\ current'[d] = current[d]
      BY <3>1 DEF TypeOK
    <3>3. \A k \in ResumeId : resume[c][k] = "ready" => resume'[c][k] = "ready"
      BY <3>1 DEF TypeOK
    <3> QED BY <3>1, <3>2, <3>3, PaperFrame
  <2>3. ASSUME NEW i \in ResumeId, ParseResume(c, i)
        PROVE  ResumeInv'
    <3>1. PICK s : /\ resume[c][i] = "processing"
                   /\ resume' = [resume EXCEPT ![c] = [@ EXCEPT ![i] = s]]
                   /\ UNCHANGED <<run, req, current>>
      BY <2>3 DEF ParseResume, round
    <3>2. \A d \in Candidate \ {c} : resume'[d] = resume[d] /\ current'[d] = current[d]
      BY <3>1 DEF TypeOK
    <3>3. \A k \in ResumeId : resume[c][k] = "ready" => resume'[c][k] = "ready"
      BY <3>1 DEF TypeOK
    <3> QED BY <3>1, <3>2, <3>3, PaperFrame
  <2>4. ASSUME NEW i \in ResumeId, LockResume(c, i)
        PROVE  ResumeInv'
    BY <2>4, ResumeFrame DEF LockResume, round
  <2>5. ASSUME DeleteResume(c)
        PROVE  ResumeInv'
    <3>1. CASE MayDeleteResume(c, del[c])
      <4>1. /\ UNCHANGED <<run, req>> /\ ~CandidateLocked(c) /\ run[c].status = "none"
            /\ resume' = [resume EXCEPT ![c] = [@ EXCEPT ![del[c]] = "deleted"]]
            /\ current' = [current EXCEPT ![c] = 0]
        BY <2>5, <3>1 DEF DeleteResume, MayDeleteResume, round
      <4>2. \A d \in Candidate \ {c} : resume'[d] = resume[d] /\ current'[d] = current[d]
        BY <4>1 DEF TypeOK
      <4> QED BY <4>1, <4>2, PaperFrame
    <3>2. CASE ~MayDeleteResume(c, del[c])
      BY <2>5, <3>2, ResumeFrame DEF DeleteResume, round
    <3> QED BY <3>1, <3>2
  <2> QED BY <1>1, <2>1, <2>2, <2>3, <2>4, <2>5 DEF CandidateStep
<1>2. ASSUME NEW j \in Job, JobStep(j)
      PROVE  ResumeInv'
  BY <1>2, ResumeFrame DEF JobStep, UploadJob, ParseJob, RetryJob, DeleteJob, papers, round
<1>3. ASSUME NEW q \in Request, StartStep(q)
      PROVE  ResumeInv'
  <2>1. ASSUME NEW c \in Candidate, StartCheck(q, c)
        PROVE  ResumeInv'
    <3>1. UNCHANGED <<run, resume, current>>
      BY <2>1 DEF StartCheck, papers, round
    <3>2. CASE req' = [req EXCEPT ![q] = Begun(c, "creating", "none")] /\ Prerequisites(c)
      <4>1. RunKeepsResume'
        BY <3>1 DEF ResumeInv, RunKeepsResume
      <4>2. ASSUME NEW p \in Request, req'[p].pc = "creating"
            PROVE  /\ req'[p].resume # 0
                   /\ current'[req'[p].cand] = req'[p].resume
                   /\ resume'[req'[p].cand][req'[p].resume] = "ready"
        <5>1. CASE p = q
          BY <3>1, <3>2, <5>1 DEF Begun, Prerequisites, TypeOK
        <5>2. CASE p # q
          <6>1. req'[p] = req[p]
            BY <3>2, <5>2 DEF TypeOK
          <6> QED BY <3>1, <4>2, <6>1 DEF ResumeInv, CreatingHoldsResume
        <5> QED BY <5>1, <5>2
      <4>3. StartedHasRun'
        <5>1. Begun(c, "creating", "none").pc = "creating"
          BY DEF Begun
        <5> QED BY <3>1, <3>2, <5>1 DEF ResumeInv, StartedHasRun, TypeOK
      <4> QED BY <4>1, <4>2, <4>3 DEF ResumeInv, CreatingHoldsResume
    <3>3. CASE req' = [req EXCEPT ![q] = Begun(c, "started", "running")] /\ run[c].status = "running"
      <4>1. Begun(c, "started", "running") \in ReqState
        BY BegunWrites
      <4>2. /\ Begun(c, "started", "running").pc # "creating"
            /\ run[Begun(c, "started", "running").cand].status # "none"
        BY <3>3 DEF Begun
      <4> QED BY <3>1, <3>3, <4>1, <4>2, ReqFrame
    <3>4. CASE \E reply \in {"ok", "precondition"} : req' = [req EXCEPT ![q] = NoReq(reply)]
      <4>1. PICK reply \in {"ok", "precondition"} : req' = [req EXCEPT ![q] = NoReq(reply)]
        BY <3>4
      <4>2. NoReq(reply) \in ReqState /\ NoReq(reply).pc = "idle"
        BY ReqWrites
      <4> QED BY <3>1, <4>1, <4>2, ReqFrame
    <3> DEFINE creates == (run[c].status = "none" \/ Restartable(c)) /\ Prerequisites(c)
               next == CASE creates                  -> Begun(c, "creating", "none")
                         [] run[c].status = "running" -> Begun(c, "started", "running")
                         [] run[c].status = "finished" /\ ~creates -> NoReq("ok")
                         [] OTHER                    -> NoReq("precondition")
    <3>5. req' = [req EXCEPT ![q] = next]
      BY <2>1 DEF StartCheck
    <3>6. CASE creates
      <4>1. run[c].status # "running"
        BY <3>6 DEF Restartable
      <4>2. next = Begun(c, "creating", "none")
        BY <3>6, <4>1
      <4> QED BY <3>2, <3>5, <3>6, <4>2
    <3>7. CASE ~creates
      <4>1. \/ next = Begun(c, "started", "running") /\ run[c].status = "running"
            \/ next = NoReq("ok") \/ next = NoReq("precondition")
        BY <3>7
      <4> HIDE DEF next
      <4> QED BY <3>3, <3>4, <3>5, <4>1
    <3> QED BY <3>6, <3>7
  <2>2. ASSUME StartCreate(q)
        PROVE  ResumeInv'
    <3> DEFINE c == req[q].cand
    <3>1. /\ c \in Candidate /\ req[q] \in ReqState
          /\ req[q].resume # 0 /\ resume[c][req[q].resume] = "ready"
      BY <2>2 DEF TypeOK, ReqState, StartCreate, ResumeInv, CreatingHoldsResume
    <3>2. /\ UNCHANGED <<resume, current>>
          /\ run' = [run EXCEPT ![c] = [status |-> "running", reason |-> "none",
                                        wish |-> req[q].wish, resume |-> req[q].resume]]
          /\ req' = [req EXCEPT ![q] = [@ EXCEPT !.pc = "started", !.seen = "running"]]
      BY <2>2 DEF StartCreate, papers
    <3>3. ASSUME NEW d \in Candidate, run'[d].status # "none"
          PROVE  run'[d].resume # 0 /\ resume'[d][run'[d].resume] = "ready"
      <4>1. CASE d = c
        BY <3>1, <3>2, <4>1 DEF TypeOK
      <4>2. CASE d # c
        <5>1. run'[d] = run[d]
          BY <3>1, <3>2, <4>2 DEF TypeOK
        <5> QED BY <3>2, <3>3, <5>1 DEF ResumeInv, RunKeepsResume
      <4> QED BY <4>1, <4>2
    <3>4. ASSUME NEW p \in Request, req'[p].pc = "creating"
          PROVE  req'[p] = req[p]
      <4>1. [req[q] EXCEPT !.pc = "started", !.seen = "running"].pc = "started"
        BY <3>1, ReqWrites
      <4> QED BY <3>2, <3>4, <4>1 DEF TypeOK
    <3>5. CreatingHoldsResume'
      BY <3>2, <3>4 DEF ResumeInv, CreatingHoldsResume
    <3>6. ASSUME NEW p \in Request, req'[p].pc \in {"started", "matching"}
          PROVE  run'[req'[p].cand].status # "none"
      <4>1. run'[c].status = "running"
        BY <3>1, <3>2 DEF TypeOK
      <4>2. CASE p = q
        <5>1. [req[q] EXCEPT !.pc = "started", !.seen = "running"].cand = c
          BY <3>1 DEF ReqState
        <5> QED BY <3>2, <4>1, <4>2, <5>1 DEF TypeOK
      <4>3. CASE p # q
        <5>1. req'[p] = req[p] /\ run[req[p].cand].status # "none"
          BY <3>2, <3>6, <4>3 DEF TypeOK, ResumeInv, StartedHasRun
        <5>2. \A d \in Candidate \ {c} : run'[d] = run[d]
          BY <3>2 DEF TypeOK
        <5>3. req[p].cand \in Candidate
          BY DEF TypeOK, ReqState
        <5>4. CASE req[p].cand = c
          BY <4>1, <5>1, <5>4
        <5>5. CASE req[p].cand # c
          BY <5>1, <5>2, <5>3, <5>5
        <5> QED BY <5>4, <5>5
      <4> QED BY <4>2, <4>3
    <3> QED BY <3>3, <3>5, <3>6 DEF ResumeInv, RunKeepsResume, StartedHasRun
  <2>3. ASSUME StartConflict(q) \/ Crash(q)
        PROVE  ResumeInv'
    <3>1. PICK reply \in {"none", "integrity_error"} : req' = [req EXCEPT ![q] = NoReq(reply)]
      BY <2>3 DEF StartConflict, Crash
    <3>2. NoReq(reply) \in ReqState /\ NoReq(reply).pc = "idle"
      BY ReqWrites
    <3> QED BY <2>3, <3>1, <3>2, ReqFrame DEF StartConflict, Crash, papers, round
  <2>4. ASSUME BreakDeadlock(q)
        PROVE  ResumeInv'
    <3>1. UNCHANGED <<run, resume, current>>
      BY <2>4 DEF BreakDeadlock, round
    <3>2. CASE req' = [req EXCEPT ![q] = NoReq("deadlock")]
      <4>1. NoReq("deadlock") \in ReqState /\ NoReq("deadlock").pc = "idle"
        BY ReqWrites
      <4> QED BY <3>1, <3>2, <4>1, ReqFrame
    <3>3. CASE UNCHANGED req
      BY <3>1, <3>3, ResumeFrame
    <3> QED BY <2>4, <3>2, <3>3 DEF BreakDeadlock
  <2>5. ASSUME LoadRunInput(q)
        PROVE  ResumeInv'
    <3> DEFINE r == IF SeesRunning(q)
                    THEN [req[q] EXCEPT !.pc = "matching", !.jobs = FirstEligible]
                    ELSE NoReq("ok")
    <3>1. FirstEligible \in SUBSET Job /\ req[q] \in ReqState
      BY DEF TypeOK, FirstEligible, Eligible
    <3>2. r \in ReqState /\ r.pc # "creating" /\ (r.pc # "idle" => r.cand = req[q].cand)
      BY <3>1, ReqWrites, ZenonT(40) DEF ReqState
    <3>4. run[req[q].cand].status # "none"
      BY <2>5 DEF LoadRunInput, ResumeInv, StartedHasRun
    <3>3. req' = [req EXCEPT ![q] = r] /\ UNCHANGED <<run, resume, current>>
      BY <2>5 DEF LoadRunInput, papers, round
    <3> HIDE DEF r
    <3> QED BY <3>2, <3>3, <3>4, ReqFrame
  <2>6. ASSUME Evaluate(q)
        PROVE  ResumeInv'
    <3> DEFINE c == req[q].cand
    <3>1. c \in Candidate /\ NoReq("ok") \in ReqState /\ NoReq("ok").pc = "idle"
      BY ReqWrites DEF TypeOK, ReqState
    <3>2. /\ UNCHANGED <<resume, current>>
          /\ req' = [req EXCEPT ![q] = NoReq("ok")]
          /\ run' = run \/ run' = [run EXCEPT ![c] = Finished(@, "no_match")]
      BY <2>6 DEF Evaluate, papers
    <3>3. run[c].status # "none"
      BY <2>6 DEF Evaluate, ResumeInv, StartedHasRun
    <3>4. \A d \in Candidate : run'[d].resume = run[d].resume
                             /\ (run'[d].status = "none" <=> run[d].status = "none")
      BY <3>1, <3>2, <3>3, RunSteps DEF TypeOK
    <3> QED BY <3>1, <3>2, <3>4, FinishFrame
  <2> QED BY <1>3, <2>1, <2>2, <2>3, <2>4, <2>5, <2>6 DEF StartStep
<1>4. ASSUME NEW h \in Hr, HrStep(h)
      PROVE  ResumeInv'
  <2>1. ASSUME NEW c \in Candidate, NEW j \in Job, NEW next \in Status, HrLock(h, c, j, next)
        PROVE  ResumeInv'
    BY <2>1, ResumeFrame DEF HrLock, papers, round
  <2>2. ASSUME HrCommit(h)
        PROVE  ResumeInv'
    <3> DEFINE c == hr[h].cand
    <3>1. c \in Candidate
      BY DEF TypeOK, HrState
    <3>2. UNCHANGED <<resume, current, req>>
      BY <2>2 DEF HrCommit, papers
    <3>3. CASE UNCHANGED run
      BY <3>2, <3>3, ResumeFrame
    <3>4. CASE run[c].status = "running" /\ run' = [run EXCEPT ![c] = Finished(@, "offer_target_reached")]
      <4>1. \A d \in Candidate : run'[d].resume = run[d].resume
                               /\ (run'[d].status = "none" <=> run[d].status = "none")
        BY <3>1, <3>4, RunSteps DEF TypeOK
      <4> QED BY <3>2, <4>1, FinishFrame
    <3> QED BY <2>2, <3>3, <3>4 DEF HrCommit
  <2> QED BY <1>4, <2>1, <2>2 DEF HrStep
<1>5. CASE UNCHANGED vars
  BY <1>5, ResumeFrame DEF vars
<1> QED BY <1>1, <1>2, <1>3, <1>4, <1>5 DEF Next

(* The initial state is well typed.                                        *)
LEMMA TypeInit == Init => TypeOK
<1> SUFFICES ASSUME Init
             PROVE  TypeOK
  OBVIOUS
<1>1. [status |-> "none", wish |-> NoWish] \in GoalRow
  BY Values DEF GoalRow
<1>2. [pc |-> "idle", wish |-> NoWish] \in SaveState
  BY Values DEF SaveState
<1>3. NoRun \in RunRow /\ NoRun.status # "finished" /\ NoRun.reason = "none"
  BY Values DEF NoRun, RunRow
<1>4. NoReq("none") \in ReqState
  BY ReqWrites
<1>5. NoHr \in HrState
  BY Values DEF NoHr, HrState
<1> QED BY <1>1, <1>2, <1>3, <1>4, <1>5, Values DEF Init, TypeOK

(* Every variable keeps its type: in particular a run has a reason exactly *)
(* when it is finished, as the CHECK of agent_run_contexts demands.        *)
THEOREM TypeCorrect == Spec => []TypeOK
<1>1. Init => TypeOK
  BY TypeInit
<1>2. TypeOK /\ [Next]_vars => TypeOK'
  BY TypeStep
<1> QED BY <1>1, <1>2, PTL DEF Spec

(* The resume of a run is never deleted, whatever the number of starts,    *)
(* uploads and deletions that meet at the candidate's row lock.            *)
THEOREM ResumeKept == Spec => []RunKeepsResume
<1>1. Init => TypeOK /\ ResumeInv
  BY TypeInit DEF Init, NoRun, NoReq, ResumeInv, RunKeepsResume, CreatingHoldsResume, StartedHasRun
<1>2. (TypeOK /\ ResumeInv) /\ [Next]_vars => (TypeOK /\ ResumeInv)'
  BY TypeStep, ResumeStep
<1>3. TypeOK /\ ResumeInv => RunKeepsResume
  BY DEF ResumeInv
<1> QED BY <1>1, <1>2, <1>3, PTL DEF Spec

-----------------------------------------------------------------------------
(* A finished run stays as it is.                                          *)

(* A run that the offers finished has an application, so that a round that *)
(* still works on it cannot find that there is none.                       *)
OffersApplied ==
  \A c \in Candidate :
    run[c].reason = "offer_target_reached" => ~HasNoApplication(app[c])
HrHoldsJob == \A h \in Hr : hr[h].pc = "writing" => hr[h].job \in Job
AppliedInv == TypeOK /\ OffersApplied /\ HrHoldsJob

(* A status is never "none", the value of an application that is not there. *)
LEMMA StatusNotNone == "none" \notin Status
<1>1. \A i \in 1..Len(Order) : Order[i] # "none"
  BY OrderAssumption DEF OrderAssumption
<1> QED BY <1>1 DEF Status

(* Once there is an application there always is one.                       *)
LEMMA ApplicationsStay ==
  ASSUME AppliedInv, [Next]_vars, NEW c \in Candidate, NEW j \in Job, app[c][j] # "none"
  PROVE  app'[c][j] # "none"
<1>1. CASE UNCHANGED app
  BY <1>1
<1>2. ASSUME NEW q \in Request, Evaluate(q)
      PROVE  app'[c][j] # "none"
  <2>1. PICK fits \in SUBSET Job : app' =
          [app EXCEPT ![req[q].cand] = [k \in Job |-> IF k \in fits THEN "submitted" ELSE @[k]]]
    BY <1>2, ZenonT(40) DEF Evaluate, AppliedInv, TypeOK, ReqState
  <2> QED BY <2>1 DEF AppliedInv, TypeOK
<1>3. ASSUME NEW h \in Hr, HrCommit(h)
      PROVE  app'[c][j] # "none"
  <2>1. hr[h].next # "none" /\ hr[h].job \in Job
    BY <1>3, StatusNotNone DEF HrCommit, AppliedInv, TypeOK, HrState, HrHoldsJob
  <2>2. app' = [app EXCEPT ![hr[h].cand] = [@ EXCEPT ![hr[h].job] = hr[h].next]]
    BY <1>3 DEF HrCommit
  <2> QED BY <2>1, <2>2 DEF AppliedInv, TypeOK
<1>4. ASSUME NEW d \in Candidate, CandidateStep(d)
      PROVE  UNCHANGED app
  BY <1>4 DEF CandidateStep, SaveCheck, SaveWrite, UploadResume, ParseResume, LockResume,
              DeleteResume, round
<1>5. ASSUME NEW i \in Job, JobStep(i)
      PROVE  UNCHANGED app
  BY <1>5 DEF JobStep, UploadJob, ParseJob, RetryJob, DeleteJob, round
<1>6. ASSUME NEW q \in Request, StartStep(q)
      PROVE  Evaluate(q) \/ UNCHANGED app
  BY <1>6 DEF StartStep, StartCheck, StartCreate, StartConflict, BreakDeadlock, LoadRunInput,
              Crash, round
<1>7. ASSUME NEW h \in Hr, HrStep(h)
      PROVE  HrCommit(h) \/ UNCHANGED app
  BY <1>7 DEF HrStep, HrLock, round
<1>8. CASE UNCHANGED vars
  BY <1>8 DEF vars
<1> QED BY <1>1, <1>2, <1>3, <1>4, <1>5, <1>6, <1>7, <1>8 DEF Next

(* What a step does to the runs and to the HR handlers: nothing, it makes  *)
(* the first run of a candidate, or it finishes one for a reason that the  *)
(* applications bear out.                                                  *)
LEMMA RunChanges ==
  ASSUME AppliedInv, [Next]_vars
  PROVE  \A c \in Candidate :
           \/ run'[c] = run[c]
           \/ run[c].status = "none" /\ run'[c].reason = "none"
           \/ /\ run'[c] = Finished(run[c], "no_match")
              /\ HasNoApplication(app'[c])
           \/ /\ run[c].status = "running"
              /\ run'[c] = Finished(run[c], "offer_target_reached")
              /\ ~HasNoApplication(app'[c])
<1> DEFINE Change(c) ==
           \/ run'[c] = run[c]
           \/ run[c].status = "none" /\ run'[c].reason = "none"
           \/ /\ run'[c] = Finished(run[c], "no_match")
              /\ HasNoApplication(app'[c])
           \/ /\ run[c].status = "running"
              /\ run'[c] = Finished(run[c], "offer_target_reached")
              /\ ~HasNoApplication(app'[c])
<1> SUFFICES ASSUME NEW c \in Candidate
             PROVE  Change(c)
  OBVIOUS
<1>1. ASSUME NEW q \in Request, StartCreate(q)
      PROVE  Change(c)
  <2>1. run[req[q].cand].status = "none"
    BY <1>1 DEF StartCreate
  <2>2. run' = [run EXCEPT ![req[q].cand] = [status |-> "running", reason |-> "none",
                              wish |-> req[q].wish, resume |-> req[q].resume]]
    BY <1>1 DEF StartCreate
  <2>3. CASE c = req[q].cand
    BY <2>1, <2>2, <2>3 DEF AppliedInv, TypeOK
  <2>4. CASE c # req[q].cand
    BY <2>2, <2>4 DEF AppliedInv, TypeOK
  <2> QED BY <2>3, <2>4
<1>2. ASSUME NEW q \in Request, Evaluate(q)
      PROVE  Change(c)
  <2>1. CASE run' = run
    BY <2>1
  <2>2. CASE /\ run' = [run EXCEPT ![req[q].cand] = Finished(@, "no_match")]
             /\ HasNoApplication(app'[req[q].cand])
    <3>1. CASE c = req[q].cand
      BY <2>2, <3>1 DEF AppliedInv, TypeOK
    <3>2. CASE c # req[q].cand
      BY <2>2, <3>2 DEF AppliedInv, TypeOK
    <3> QED BY <3>1, <3>2
  <2> QED BY <1>2, <2>1, <2>2 DEF Evaluate
<1>3. ASSUME NEW h \in Hr, HrCommit(h)
      PROVE  Change(c)
  <2> DEFINE d == hr[h].cand
  <2>1. CASE run' = run
    BY <2>1
  <2>2. CASE run[d].status = "running" /\ run' = [run EXCEPT ![d] = Finished(@, "offer_target_reached")]
    <3>1. d \in Candidate /\ hr[h].job \in Job /\ hr[h].next # "none"
      BY <1>3, StatusNotNone DEF HrCommit, AppliedInv, TypeOK, HrState, HrHoldsJob
    <3>2. app' = [app EXCEPT ![d] = [@ EXCEPT ![hr[h].job] = hr[h].next]]
      BY <1>3 DEF HrCommit
    <3>3. app'[d][hr[h].job] # "none"
      BY <3>1, <3>2 DEF AppliedInv, TypeOK
    <3>4. CASE c = d
      BY <2>2, <3>1, <3>3, <3>4 DEF AppliedInv, TypeOK, HasNoApplication
    <3>5. CASE c # d
      BY <2>2, <3>5 DEF AppliedInv, TypeOK
    <3> QED BY <3>4, <3>5
  <2> QED BY <1>3, <2>1, <2>2 DEF HrCommit
<1>4. CASE UNCHANGED run
  BY <1>4
<1>5. ASSUME NEW d \in Candidate, CandidateStep(d)
      PROVE  UNCHANGED run
  BY <1>5 DEF CandidateStep, SaveCheck, SaveWrite, UploadResume, ParseResume, LockResume,
              DeleteResume, round
<1>6. ASSUME NEW i \in Job, JobStep(i)
      PROVE  UNCHANGED run
  BY <1>6 DEF JobStep, UploadJob, ParseJob, RetryJob, DeleteJob, round
<1>7. ASSUME NEW q \in Request, StartStep(q)
      PROVE  StartCreate(q) \/ Evaluate(q) \/ UNCHANGED run
  BY <1>7 DEF StartStep, StartCheck, StartConflict, BreakDeadlock, LoadRunInput, Crash, round
<1>8. ASSUME NEW h \in Hr, HrStep(h)
      PROVE  HrCommit(h) \/ UNCHANGED run
  BY <1>8 DEF HrStep, HrLock, round
<1>9. CASE UNCHANGED vars
  BY <1>9 DEF vars
<1> HIDE DEF Change
<1> QED BY <1>1, <1>2, <1>3, <1>4, <1>5, <1>6, <1>7, <1>8, <1>9 DEF Next

(* An HR handler that writes writes an application of a job.               *)
LEMMA HrKeepsJob == AppliedInv /\ [Next]_vars => HrHoldsJob'
<1> SUFFICES ASSUME AppliedInv, [Next]_vars
             PROVE  HrHoldsJob'
  OBVIOUS
<1>1. CASE UNCHANGED hr
  BY <1>1 DEF AppliedInv, HrHoldsJob
<1>2. ASSUME NEW h \in Hr, NEW c \in Candidate, NEW j \in Job, NEW next \in Status,
             HrLock(h, c, j, next)
      PROVE  HrHoldsJob'
  <2>1. PICK n : hr' = [hr EXCEPT ![h] = [pc |-> "writing", cand |-> c, job |-> j,
                                           next |-> next, offers |-> n]]
    BY <1>2 DEF HrLock
  <2> QED BY <2>1 DEF AppliedInv, HrHoldsJob, TypeOK
<1>3. ASSUME NEW h \in Hr, HrCommit(h)
      PROVE  HrHoldsJob'
  BY <1>3 DEF HrCommit, NoHr, AppliedInv, HrHoldsJob, TypeOK
<1>4. ASSUME NEW d \in Candidate, CandidateStep(d)
      PROVE  UNCHANGED hr
  BY <1>4 DEF CandidateStep, SaveCheck, SaveWrite, UploadResume, ParseResume, LockResume,
              DeleteResume
<1>5. ASSUME NEW i \in Job, JobStep(i)
      PROVE  UNCHANGED hr
  BY <1>5 DEF JobStep, UploadJob, ParseJob, RetryJob, DeleteJob
<1>6. ASSUME NEW q \in Request, StartStep(q)
      PROVE  UNCHANGED hr
  BY <1>6 DEF StartStep, StartCheck, StartCreate, StartConflict, BreakDeadlock, LoadRunInput,
              Evaluate, Crash
<1>7. CASE UNCHANGED vars
  BY <1>1, <1>7 DEF vars
<1>8. ASSUME NEW h \in Hr, HrStep(h)
      PROVE  HrHoldsJob'
  BY <1>2, <1>3, <1>8 DEF HrStep
<1> QED BY <1>1, <1>4, <1>5, <1>6, <1>7, <1>8 DEF Next

(* Every action leaves a finished run as it is, and keeps what this rests on. *)
LEMMA FinishedStep ==
  ASSUME AppliedInv, [Next]_vars
  PROVE  /\ AppliedInv'
         /\ \A c \in Candidate : run[c].status = "finished" => run'[c] = run[c]
<1>1. TypeOK' /\ HrHoldsJob'
  BY TypeStep, HrKeepsJob DEF AppliedInv
<1>2. ASSUME NEW c \in Candidate, HasNoApplication(app'[c])
      PROVE  HasNoApplication(app[c])
  BY <1>2, ApplicationsStay DEF HasNoApplication
<1>3. ASSUME NEW c \in Candidate
      PROVE  /\ run'[c].reason = "offer_target_reached" => ~HasNoApplication(app'[c])
             /\ run[c].status = "finished" => run'[c] = run[c]
  <2>1. /\ run[c] \in RunRow
        /\ run[c].status = "finished" => run[c].reason \in {"no_match", "offer_target_reached"}
        /\ run[c].reason = "offer_target_reached" => ~HasNoApplication(app[c])
    BY DEF AppliedInv, OffersApplied, TypeOK, RunRow
  <2>2. CASE run'[c] = run[c]
    BY <1>2, <2>1, <2>2
  <2>3. CASE run[c].status = "none" /\ run'[c].reason = "none"
    BY <2>3
  <2>4. CASE run'[c] = Finished(run[c], "no_match") /\ HasNoApplication(app'[c])
    BY <1>2, <2>1, <2>4, FinishedWrites
  <2>5. CASE /\ run[c].status = "running" /\ ~HasNoApplication(app'[c])
             /\ run'[c] = Finished(run[c], "offer_target_reached")
    BY <2>5
  <2> QED BY <2>2, <2>3, <2>4, <2>5, RunChanges
<1> QED BY <1>1, <1>3 DEF AppliedInv, OffersApplied

(* A finished run is not started again and keeps its reason: no round that *)
(* works with an old status turns reached offers into "no match".          *)
THEOREM FinishedRunsStay == Spec => FinishedStays
<1>1. Init => AppliedInv
  BY TypeInit DEF Init, NoRun, NoHr, AppliedInv, OffersApplied, HrHoldsJob
<1>2. AppliedInv /\ [Next]_vars =>
        AppliedInv' /\ [\A c \in Candidate : run[c].status = "finished" => run'[c] = run[c]]_run
  BY FinishedStep
<1> QED BY <1>1, <1>2, PTL DEF Spec, FinishedStays

-----------------------------------------------------------------------------
(* The end of a run: what offers, goal and run say of each other, and where an *)
(* application may go.                                                         *)

(* A goal that is being inserted is not there, one that is updated and one of  *)
(* a run is; a save that began before the run writes into the goal the run was *)
(* started with, and a start holds the goal it has read.                       *)
GoalFirst ==
  /\ \A c \in Candidate :
       /\ save[c].pc # "idle" => (save[c].pc = "insert" <=> goal[c].status = "none")
       /\ run[c].status # "none" => goal[c].status # "none"
       /\ save[c].pc # "idle" /\ run[c].status # "none" => goal[c].wish = run[c].wish
  /\ \A q \in Request : req[q].pc = "creating" =>
       goal[req[q].cand].status # "none" /\ req[q].wish = goal[req[q].cand].wish

(* An application belongs to a run and a match.                                *)
OfRun ==
  \A c \in Candidate, j \in Job :
    app[c][j] # "none" => run[c].status # "none" /\ match[c][j] # "none"

(* What an HR handler has read under its locks is still so when it writes.     *)
Counted(h) ==
  hr[h].pc = "writing" =>
    LET c == hr[h].cand IN
    /\ app[c][hr[h].job] # "none"
    /\ ValidTransition(app[c][hr[h].job], hr[h].next)
    /\ hr[h].offers =
         Cardinality(IF hr[h].next = "offer" THEN Offers(c) \cup {hr[h].job} ELSE Offers(c))

(* The row lock of the run: one HR handler, or one matching round.             *)
Alone ==
  /\ \A g, h \in Hr :
       hr[g].pc = "writing" /\ hr[h].pc = "writing" /\ hr[g].cand = hr[h].cand => g = h
  /\ \A q \in Request, h \in Hr :
       ~(req[q].pc = "matching" /\ hr[h].pc = "writing" /\ req[q].cand = hr[h].cand)

Parts ==
  /\ GoalFirst /\ OfRun /\ (\A h \in Hr : Counted(h)) /\ Alone
  /\ AchievedByOffers /\ OffersFinishRun
OfferInv == AppliedInv /\ ResumeInv /\ Parts

-----------------------------------------------------------------------------
(* Steps of start handlers, and steps that touch nothing of this.              *)
LEMMA HandlersMove ==
  ASSUME OfferInv, UNCHANGED <<goal, save, run, match, app, hr>>,
         \A q \in Request :
           \/ req'[q] = req[q]
           \/ req'[q].pc \in {"idle", "started"}
           \/ /\ req'[q].pc = "creating" /\ goal[req'[q].cand].status # "none"
              /\ req'[q].wish = goal[req'[q].cand].wish
           \/ req'[q].pc = "matching" /\ ~HrLocked(req'[q].cand)
  PROVE  Parts'
<1>1. Parts
  BY DEF OfferInv
<1>2. GoalFirst'
  BY <1>1 DEF Parts, GoalFirst
<1>3. OfRun' /\ AchievedByOffers'
  BY <1>1 DEF Parts, OfRun, AchievedByOffers
<1>4. \A c : Offers(c)' = Offers(c)
  BY DEF Offers
<1>5. \A h \in Hr : Counted(h)'
  BY <1>1, <1>4 DEF Parts, Counted
<1>6. Alone'
  BY <1>1 DEF Parts, Alone, HrLocked
<1>7. OffersFinishRun'
  BY <1>1, <1>4 DEF Parts, OffersFinishRun
<1> QED BY <1>2, <1>3, <1>5, <1>6, <1>7 DEF Parts

LEMMA StartStepKeeps ==
  ASSUME OfferInv, NEW q \in Request,
         \/ \E c \in Candidate : StartCheck(q, c)
         \/ StartConflict(q) \/ BreakDeadlock(q) \/ LoadRunInput(q) \/ Crash(q)
  PROVE  Parts'
<1>1. req \in [Request -> ReqState] /\ UNCHANGED <<goal, save, run, match, app, hr>>
  BY DEF OfferInv, AppliedInv, TypeOK, StartCheck, StartConflict, BreakDeadlock, LoadRunInput,
         Crash, demand, round
<1>2. \A reply : NoReq(reply).pc = "idle"
  BY DEF NoReq
<1>3. ASSUME NEW c \in Candidate, StartCheck(q, c)
      PROVE  Parts'
  <2>1. \/ req' = [req EXCEPT ![q] = Begun(c, "creating", "none")] /\ Prerequisites(c)
        \/ req' = [req EXCEPT ![q] = Begun(c, "started", "running")]
        \/ \E reply : req' = [req EXCEPT ![q] = NoReq(reply)]
    <3> DEFINE creates == (run[c].status = "none" \/ Restartable(c)) /\ Prerequisites(c)
    <3>1. req' = [req EXCEPT ![q] =
            CASE creates                  -> Begun(c, "creating", "none")
              [] run[c].status = "running" -> Begun(c, "started", "running")
              [] run[c].status = "finished" /\ ~creates -> NoReq("ok")
              [] OTHER                    -> NoReq("precondition")]
      BY <1>3 DEF StartCheck
    <3>2. creates => run[c].status # "running" /\ Prerequisites(c)
      BY DEF Restartable
    <3> HIDE DEF creates
    <3> QED BY <3>1, <3>2
  <2>2. /\ Begun(c, "creating", "none").pc = "creating" /\ Begun(c, "creating", "none").cand = c
        /\ Begun(c, "creating", "none").wish = goal[c].wish
        /\ Begun(c, "started", "running").pc = "started"
    BY DEF Begun
  <2>3. Prerequisites(c) => goal[c].status # "none"
    BY DEF Prerequisites
  <2>4. \A p \in Request : \/ req'[p] = req[p]
                           \/ req'[p].pc \in {"idle", "started"}
                           \/ /\ req'[p].pc = "creating" /\ goal[req'[p].cand].status # "none"
                              /\ req'[p].wish = goal[req'[p].cand].wish
    BY <1>1, <1>2, <2>1, <2>2, <2>3
  <2> QED BY <1>1, <2>4, HandlersMove
<1>4. ASSUME NEW reply, req' = [req EXCEPT ![q] = NoReq(reply)]
      PROVE  Parts'
  <2>1. \A p \in Request : req'[p] = req[p] \/ req'[p].pc \in {"idle", "started"}
    BY <1>1, <1>2, <1>4
  <2> QED BY <1>1, <2>1, HandlersMove
<1>5. CASE UNCHANGED req
  BY <1>1, <1>5, HandlersMove
<1>6. CASE LoadRunInput(q) /\ SeesRunning(q)
  <2>1. /\ req' = [req EXCEPT ![q] = [@ EXCEPT !.pc = "matching", !.jobs = FirstEligible]]
        /\ ~HrLocked(req[q].cand)
    BY <1>6 DEF LoadRunInput, RunLocked
  <2>2. [req[q] EXCEPT !.pc = "matching", !.jobs = FirstEligible].pc = "matching"
        /\ [req[q] EXCEPT !.pc = "matching", !.jobs = FirstEligible].cand = req[q].cand
    BY <1>1 DEF ReqState
  <2>3. \A p \in Request : req'[p] = req[p] \/ (req'[p].pc = "matching" /\ ~HrLocked(req'[p].cand))
    BY <1>1, <2>1, <2>2
  <2> QED BY <1>1, <2>3, HandlersMove
<1> QED BY <1>3, <1>4, <1>5, <1>6 DEF StartConflict, BreakDeadlock, LoadRunInput, Crash

-----------------------------------------------------------------------------
(* The goal                                                                  *)

LEMMA SaveKeeps ==
  ASSUME OfferInv, NEW c \in Candidate,
         SaveWrite(c) \/ \E x \in Content, n \in Target : SaveCheck(c, [content |-> x, target |-> n])
  PROVE  Parts'
<1>1. Parts /\ TypeOK
  BY DEF OfferInv, AppliedInv
<1>2. UNCHANGED <<run, match, app, req, hr>>
  BY DEF SaveWrite, SaveCheck, round
<1>3. \A d : Offers(d)' = Offers(d)
  BY <1>2 DEF Offers
<1>4. OfRun' /\ Alone' /\ \A h \in Hr : Counted(h)'
  BY <1>1, <1>2, <1>3 DEF Parts, OfRun, Alone, Counted
<1>5. ASSUME NEW x \in Content, NEW n \in Target, SaveCheck(c, [content |-> x, target |-> n])
      PROVE  Parts'
  <2> DEFINE s == [pc |-> IF goal[c].status = "none" THEN "insert" ELSE "update",
                   wish |-> [content |-> x, target |-> n]]
  <2>1. /\ save' = [save EXCEPT ![c] = s] /\ run[c].status = "none" /\ UNCHANGED goal
        /\ s.pc = "insert" <=> goal[c].status = "none"
    BY <1>5 DEF SaveCheck
  <2> HIDE DEF s
  <2>2. GoalFirst'
    BY <1>1, <1>2, <2>1 DEF TypeOK, Parts, GoalFirst
  <2>3. AchievedByOffers' /\ OffersFinishRun'
    BY <1>1, <1>2, <1>3, <2>1 DEF Parts, AchievedByOffers, OffersFinishRun
  <2> QED BY <1>4, <2>2, <2>3 DEF Parts
<1>6. CASE SaveWrite(c)
  <2>1. /\ save[c].pc # "idle" /\ (save[c].pc = "update" => ~GoalLocked(c))
        /\ goal' = [goal EXCEPT ![c] = Saved(goal[c], save[c])]
        /\ save' = [save EXCEPT ![c] = [pc |-> "idle", wish |-> NoWish]]
    BY <1>6 DEF SaveWrite
  <2>2. save[c].pc \in {"insert", "update"} /\ (save[c].pc = "insert" <=> goal[c].status = "none")
    BY <1>1, <2>1 DEF TypeOK, SaveState, Parts, GoalFirst
  <2>3. run[c].status # "none" => goal[c].status # "none" /\ goal[c].wish = run[c].wish
    BY <1>1, <2>1 DEF Parts, GoalFirst
  <2>4. /\ Saved(goal[c], save[c]).status # "none"
        /\ Saved(goal[c], save[c]).status = "achieved" <=> goal[c].status = "achieved"
    BY <2>2 DEF Saved
  <2>5. /\ goal'[c] = Saved(goal[c], save[c]) /\ save'[c].pc = "idle"
        /\ \A d \in Candidate \ {c} : goal'[d] = goal[d] /\ save'[d] = save[d]
    BY <1>1, <2>1 DEF TypeOK
  <2>6. \A q \in Request : req[q].pc = "creating" => req[q].cand # c /\ req[q].cand \in Candidate
    <3> TAKE q \in Request
    <3>1. req[q].cand \in Candidate
      BY <1>1 DEF TypeOK, ReqState
    <3>2. req[q].pc = "creating" /\ req[q].cand = c => GoalLocked(c) /\ goal[c].status # "none"
      BY <1>1 DEF Parts, GoalFirst, GoalLocked, CandidateLocked
    <3> QED BY <2>1, <2>2, <3>1, <3>2
  <2>7. GoalFirst'
    BY <1>1, <1>2, <2>4, <2>5, <2>6 DEF Parts, GoalFirst
  <2>8. AchievedByOffers'
    BY <1>1, <1>2, <2>4, <2>5 DEF Parts, AchievedByOffers
  <2>9. OffersFinishRun'
    <3>1. ASSUME NEW d \in Candidate, run[d].status = "running", goal'[d].wish = run[d].wish
          PROVE  goal[d].wish = run[d].wish
      BY <2>3, <2>5, <3>1
    <3> QED BY <1>1, <1>2, <1>3, <3>1 DEF Parts, OffersFinishRun
  <2> QED BY <1>4, <2>7, <2>8, <2>9 DEF Parts
<1> QED BY <1>5, <1>6

-----------------------------------------------------------------------------
(* Runs and applications                                                     *)

LEMMA OffersFinite ==
  ASSUME NEW c, NEW j \in Job
  PROVE  /\ IsFiniteSet(Offers(c)) /\ Cardinality(Offers(c)) \in Nat
         /\ Cardinality(Offers(c) \cup {j}) \in Nat
<1>1. MaxJobs \in Int /\ 1 \in Int
  BY Values
<1>2. IsFiniteSet(Job)
  BY <1>1, FS_Interval DEF Job
<1>3. Offers(c) \in SUBSET Job /\ Offers(c) \cup {j} \in SUBSET Job
  BY DEF Offers
<1> QED BY <1>2, <1>3, FS_Subset, FS_CardinalityType

LEMMA TargetIsPositive ==
  ASSUME NEW wish \in Wish
  PROVE  wish.target \in Nat /\ wish.target > 0
<1>1. Target \subseteq Nat \ {0}
  BY LimitsAssumption DEF LimitsAssumption
<1>2. CASE wish = NoWish
  BY <1>2 DEF NoWish
<1>3. CASE wish \in [content : Content, target : Target]
  <2>1. wish.target \in Target
    BY <1>3
  <2>2. wish.target \in Nat \ {0}
    BY <1>1, <2>1
  <2> QED BY <2>2
<1> QED BY <1>2, <1>3 DEF Wish

LEMMA CreateKeeps == ASSUME OfferInv, NEW q \in Request, StartCreate(q) PROVE Parts'
<1> DEFINE c == req[q].cand
           new == [status |-> "running", reason |-> "none", wish |-> req[q].wish,
                   resume |-> req[q].resume]
<1>1. Parts /\ TypeOK /\ c \in Candidate
  BY DEF OfferInv, AppliedInv, TypeOK, ReqState
<1>2. /\ req[q].pc = "creating" /\ run[c].status = "none" /\ run' = [run EXCEPT ![c] = new]
      /\ req' = [req EXCEPT ![q] = [@ EXCEPT !.pc = "started", !.seen = "running"]]
      /\ UNCHANGED <<goal, save, match, app, hr>>
  BY DEF StartCreate, demand
<1>3. run'[c] = new /\ \A d \in Candidate \ {c} : run'[d] = run[d]
  BY <1>1, <1>2 DEF TypeOK
<1>4. req'[q].pc = "started" /\ \A p \in Request \ {q} : req'[p] = req[p]
  <2>1. req \in [Request -> ReqState]
    BY <1>1 DEF TypeOK
  <2> QED BY <1>2, <2>1
<1>5. goal[c].status # "none" /\ goal[c].wish = req[q].wish
  BY <1>1, <1>2 DEF Parts, GoalFirst
<1>6. \A d : Offers(d)' = Offers(d)
  BY <1>2 DEF Offers
<1>7. GoalFirst'
  BY <1>1, <1>2, <1>3, <1>4, <1>5 DEF Parts, GoalFirst
<1>8. OfRun' /\ \A h \in Hr : Counted(h)'
  BY <1>1, <1>2, <1>3, <1>6 DEF Parts, OfRun, Counted
<1>9. Alone'
  BY <1>1, <1>2, <1>4 DEF Parts, Alone
<1>10. AchievedByOffers'
  <2>1. run[c].reason # "offer_target_reached"
    BY <1>1, <1>2 DEF TypeOK
  <2> QED BY <1>1, <1>2, <1>3, <2>1 DEF Parts, AchievedByOffers
<1>11. OffersFinishRun'
  <2>1. Offers(c) = {}
    BY <1>1, <1>2 DEF Parts, OfRun, Offers
  <2>2. goal[c].wish.target \in Nat /\ goal[c].wish.target > 0
    BY <1>1, TargetIsPositive DEF TypeOK, GoalRow
  <2>3. Cardinality(Offers(c)) < goal[c].wish.target
    BY <2>1, <2>2, FS_EmptySet
  <2> QED BY <1>1, <1>2, <1>3, <1>6, <2>3 DEF Parts, OffersFinishRun
<1> QED BY <1>7, <1>8, <1>9, <1>10, <1>11 DEF Parts

(* A matching round adds applications where there was no match, and may finish *)
(* the run; no HR handler is at work on it.                                    *)
LEMMA RoundKeeps == ASSUME OfferInv, NEW q \in Request, Evaluate(q) PROVE Parts'
<1> DEFINE c == req[q].cand
           new == {j \in req[q].jobs : match[c][j] = "none"}
<1>1. Parts /\ TypeOK /\ c \in Candidate /\ new \in SUBSET Job /\ OffersApplied
  BY DEF OfferInv, AppliedInv, TypeOK, ReqState
<1>2. PICK fits \in SUBSET new :
        /\ match' = [match EXCEPT ![c] = [j \in Job |->
             IF j \notin new THEN @[j] ELSE
             IF j \in fits THEN "application_created" ELSE "not_matched"]]
        /\ app' = [app EXCEPT ![c] = [j \in Job |-> IF j \in fits THEN "submitted" ELSE @[j]]]
        /\ run' = IF HasNoApplication(app'[c])
                  THEN [run EXCEPT ![c] = Finished(@, "no_match")]
                  ELSE run
  BY DEF Evaluate
<1>3. /\ req[q].pc = "matching" /\ req' = [req EXCEPT ![q] = NoReq("ok")]
      /\ UNCHANGED <<goal, save, hr>> /\ run[c].status # "none"
  BY DEF Evaluate, demand, OfferInv, ResumeInv, StartedHasRun
<1>4. NoReq("ok").pc = "idle"
  BY ReqWrites
<1>5. /\ \A j \in Job : app'[c][j] = IF j \in fits THEN "submitted" ELSE app[c][j]
      /\ \A j \in Job : match[c][j] # "none" \/ j \in fits => match'[c][j] # "none"
      /\ \A d \in Candidate \ {c} : app'[d] = app[d] /\ match'[d] = match[d]
  <2> HIDE DEF new, c
  <2>1. \A j \in Job : match'[c][j] = IF j \notin new THEN match[c][j] ELSE
             IF j \in fits THEN "application_created" ELSE "not_matched"
    BY <1>1, <1>2 DEF TypeOK
  <2>2. \A j \in Job : app'[c][j] = IF j \in fits THEN "submitted" ELSE app[c][j]
    BY <1>1, <1>2 DEF TypeOK
  <2>3. \A d \in Candidate \ {c} : app'[d] = app[d] /\ match'[d] = match[d]
    BY <1>1, <1>2 DEF TypeOK
  <2> QED BY <1>2, <2>1, <2>2, <2>3
<1>6. \A d \in Candidate : /\ run'[d].wish = run[d].wish
                           /\ run'[d].status = "none" <=> run[d].status = "none"
                           /\ run'[d].status = "running" => run[d].status = "running"
                           /\ run'[d].reason = "offer_target_reached" <=>
                                run[d].reason = "offer_target_reached"
  <2>1. CASE run' = run
    BY <2>1
  <2>2. CASE HasNoApplication(app'[c]) /\ run' = [run EXCEPT ![c] = Finished(run[c], "no_match")]
    <3>1. run[c] \in RunRow
      BY <1>1 DEF TypeOK
    <3>2. Finished(run[c], "no_match").wish = run[c].wish
      BY <3>1 DEF Finished, RunRow
    <3>3. /\ Finished(run[c], "no_match").status = "finished"
          /\ Finished(run[c], "no_match").reason = "no_match"
      BY <3>1, FinishedWrites
    <3>4. run[c].reason # "offer_target_reached"
      BY <1>1, <1>3, <1>5, <2>2, StatusNotNone, Values DEF OffersApplied, HasNoApplication
    <3>5. run'[c] = Finished(run[c], "no_match") /\ \A d \in Candidate \ {c} : run'[d] = run[d]
      BY <1>1, <2>2 DEF TypeOK
    <3> QED BY <1>3, <3>2, <3>3, <3>4, <3>5
  <2> QED BY <1>2, <2>1, <2>2
<1>7. \A d \in Candidate : Offers(d)' \in SUBSET Offers(d)
  <2> TAKE d \in Candidate
  <2>1. "submitted" # "offer"
    OBVIOUS
  <2> QED BY <1>5, <2>1 DEF Offers
<1> HIDE DEF c, new
<1>8. GoalFirst'
  <2>1. \A p \in Request : req'[p].pc = "creating" => req'[p] = req[p] /\ req[p].cand \in Candidate
    BY <1>1, <1>3, <1>4 DEF TypeOK, ReqState
  <2> QED BY <1>1, <1>3, <1>6, <2>1 DEF Parts, GoalFirst
<1>9. OfRun'
  BY <1>1, <1>3, <1>5, <1>6 DEF Parts, OfRun
<1>10. \A h \in Hr : Counted(h)'
  <2> SUFFICES ASSUME NEW h \in Hr, hr[h].pc = "writing"
               PROVE  Counted(h)'
    BY <1>3 DEF Counted
  <2>1. hr[h].cand \in Candidate /\ hr[h].cand # c
    BY <1>1, <1>3 DEF TypeOK, HrState, Parts, Alone, c
  <2>2. Counted(h) /\ app'[hr[h].cand] = app[hr[h].cand] /\ hr' = hr
    BY <1>1, <1>3, <1>5, <2>1 DEF Parts
  <2>3. Offers(hr[h].cand)' = Offers(hr[h].cand)
    BY <2>2 DEF Offers
  <2> QED BY <2>2, <2>3 DEF Counted
<1>11. Alone'
  BY <1>1, <1>3, <1>4 DEF Parts, Alone, TypeOK
<1>12. AchievedByOffers'
  BY <1>1, <1>3, <1>6 DEF Parts, AchievedByOffers
<1>13. OffersFinishRun'
  <2> SUFFICES ASSUME NEW d \in Candidate, run'[d].status = "running", goal'[d].wish = run'[d].wish
               PROVE  Cardinality(Offers(d))' < goal'[d].wish.target
    BY DEF OffersFinishRun
  <2>1. Cardinality(Offers(d)) < goal[d].wish.target /\ goal' = goal
    BY <1>1, <1>3, <1>6 DEF Parts, OffersFinishRun
  <2>2. goal[d].wish.target \in Nat
    BY <1>1, TargetIsPositive DEF TypeOK, GoalRow
  <2>3. IsFiniteSet(Job)
    <3>1. MaxJobs \in Int /\ 1 \in Int
      BY Values
    <3> QED BY <3>1, FS_Interval DEF Job
  <2>4. IsFiniteSet(Offers(d)) /\ Cardinality(Offers(d)) \in Nat
    <3>1. Offers(d) \in SUBSET Job
      BY DEF Offers
    <3> QED BY <2>3, <3>1, FS_Subset, FS_CardinalityType
  <2>5. Cardinality(Offers(d)') <= Cardinality(Offers(d)) /\ Cardinality(Offers(d)') \in Nat
    BY <1>7, <2>4, FS_Subset, FS_CardinalityType
  <2> QED BY <2>1, <2>2, <2>4, <2>5
<1> QED BY <1>8, <1>9, <1>10, <1>11, <1>12, <1>13 DEF Parts

-----------------------------------------------------------------------------
(* HR                                                                        *)

LEMMA HrLockKeeps ==
  ASSUME OfferInv, NEW h \in Hr, NEW c \in Candidate, NEW j \in Job, NEW next \in Status,
         HrLock(h, c, j, next)
  PROVE  Parts'
<1> DEFINE offers == Cardinality(IF next = "offer" THEN Offers(c) \cup {j} ELSE Offers(c))
           w == [pc |-> "writing", cand |-> c, job |-> j, next |-> next, offers |-> offers]
<1>1. Parts /\ TypeOK
  BY DEF OfferInv, AppliedInv
<1>2. /\ hr' = [hr EXCEPT ![h] = w] /\ hr[h].pc = "idle"
      /\ UNCHANGED <<goal, save, run, match, app, req>>
      /\ app[c][j] # "none" /\ ValidTransition(app[c][j], next)
      /\ \A g \in Hr : hr[g].pc = "writing" => hr[g].cand # c
      /\ \A q \in Request : req[q].pc = "matching" => req[q].cand # c
  BY DEF HrLock, RunLocked, HrLocked, demand, round
<1>3. w.pc = "writing" /\ w.cand = c /\ w.job = j /\ w.next = next /\ w.offers = offers
  OBVIOUS
<1>4. \A d : Offers(d)' = Offers(d)
  BY <1>2 DEF Offers
<1> HIDE DEF w
<1>5. hr'[h] = w /\ \A g \in Hr \ {h} : hr'[g] = hr[g]
  BY <1>1, <1>2 DEF TypeOK
<1>6. GoalFirst' /\ OfRun' /\ AchievedByOffers'
  BY <1>1, <1>2 DEF Parts, GoalFirst, OfRun, AchievedByOffers
<1>7. OffersFinishRun'
  BY <1>1, <1>2, <1>4 DEF Parts, OffersFinishRun
<1>8. \A g \in Hr : Counted(g)'
  <2>1. Counted(h)'
    BY <1>2, <1>3, <1>4, <1>5 DEF Counted
  <2>2. \A g \in Hr \ {h} : Counted(g)'
    BY <1>1, <1>2, <1>4, <1>5 DEF Parts, Counted
  <2> QED BY <2>1, <2>2
<1>9. Alone'
  BY <1>1, <1>2, <1>3, <1>5 DEF Parts, Alone
<1> QED BY <1>6, <1>7, <1>8, <1>9 DEF Parts

LEMMA HrCommitKeeps == ASSUME OfferInv, NEW h \in Hr, HrCommit(h) PROVE Parts'
<1> DEFINE w == hr[h]
           c == w.cand
           j == w.job
           reached == /\ w.next = "offer" /\ run[c].status = "running"
                      /\ w.offers >= goal[c].wish.target
<1>1. Parts /\ TypeOK /\ HrHoldsJob
  BY DEF OfferInv, AppliedInv
<1>2. /\ w.pc = "writing" /\ app' = [app EXCEPT ![c] = [@ EXCEPT ![j] = w.next]]
      /\ run' = IF reached THEN [run EXCEPT ![c] = Finished(run[c], "offer_target_reached")] ELSE run
      /\ goal' = IF reached THEN [goal EXCEPT ![c] = [@ EXCEPT !.status = "achieved"]] ELSE goal
      /\ hr' = [hr EXCEPT ![h] = NoHr] /\ UNCHANGED <<save, match, req>>
  BY DEF HrCommit
<1>3. /\ c \in Candidate /\ j \in Job /\ w.next \in Status /\ w.next # "none" /\ w.offers \in Nat
  BY <1>1, <1>2, StatusNotNone DEF TypeOK, HrState, HrHoldsJob
<1>4. /\ app[c][j] # "none" /\ ValidTransition(app[c][j], w.next)
      /\ w.offers = Cardinality(IF w.next = "offer" THEN Offers(c) \cup {j} ELSE Offers(c))
  BY <1>1, <1>2 DEF Parts, Counted
<1>5. /\ app'[c][j] = w.next /\ \A i \in Job \ {j} : app'[c][i] = app[c][i]
      /\ \A d \in Candidate \ {c} : app'[d] = app[d]
  BY <1>1, <1>2, <1>3 DEF TypeOK
<1>6. hr'[h].pc = "idle" /\ \A g \in Hr \ {h} : hr'[g] = hr[g]
  BY <1>1, <1>2 DEF TypeOK, NoHr
<1>7. /\ run[c].status = "running" => run[c].status # "none"
      /\ run[c] \in RunRow /\ goal[c] \in GoalRow
  BY <1>1, <1>3 DEF TypeOK
<1>8. \A d \in Candidate : /\ run'[d].wish = run[d].wish /\ goal'[d].wish = goal[d].wish
                           /\ run'[d].status = "none" <=> run[d].status = "none"
                           /\ goal'[d].status = "none" => goal[d].status = "none"
                           /\ \/ run'[d] = run[d] /\ goal'[d] = goal[d] /\ (d = c => ~reached)
                              \/ /\ run'[d].reason = "offer_target_reached"
                                 /\ goal'[d].status = "achieved" /\ run'[d].status = "finished"
  <2>1. CASE ~reached
    BY <1>2, <2>1
  <2>2. CASE reached
    <3>1. /\ Finished(run[c], "offer_target_reached").wish = run[c].wish
          /\ Finished(run[c], "offer_target_reached").status = "finished"
          /\ Finished(run[c], "offer_target_reached").reason = "offer_target_reached"
      <4>1. Finished(run[c], "offer_target_reached").wish = run[c].wish
        BY <1>7 DEF Finished, RunRow
      <4> QED BY <1>7, <4>1, FinishedWrites
    <3>2. run'[c] = Finished(run[c], "offer_target_reached") /\ \A d \in Candidate \ {c} : run'[d] = run[d]
      BY <1>1, <1>2, <1>3, <2>2 DEF TypeOK
    <3>3. /\ [goal[c] EXCEPT !.status = "achieved"].status = "achieved"
          /\ [goal[c] EXCEPT !.status = "achieved"].wish = goal[c].wish
      BY <1>7 DEF GoalRow
    <3>4. goal'[c] = [goal[c] EXCEPT !.status = "achieved"] /\ \A d \in Candidate \ {c} : goal'[d] = goal[d]
      BY <1>1, <1>2, <1>3, <2>2 DEF TypeOK
    <3>5. /\ run'[c].wish = run[c].wish /\ goal'[c].wish = goal[c].wish
          /\ run'[c].status = "finished" /\ run[c].status = "running"
          /\ run'[c].reason = "offer_target_reached" /\ goal'[c].status = "achieved"
      BY <2>2, <3>1, <3>2, <3>3, <3>4
    <3> HIDE DEF c, reached
    <3>6. \A d \in Candidate \ {c} : run'[d] = run[d] /\ goal'[d] = goal[d]
      BY <3>2, <3>4
    <3> SUFFICES ASSUME NEW d \in Candidate
                 PROVE  /\ run'[d].wish = run[d].wish /\ goal'[d].wish = goal[d].wish
                        /\ run'[d].status = "none" <=> run[d].status = "none"
                        /\ goal'[d].status = "none" => goal[d].status = "none"
                        /\ \/ run'[d] = run[d] /\ goal'[d] = goal[d] /\ (d = c => ~reached)
                           \/ /\ run'[d].reason = "offer_target_reached"
                              /\ goal'[d].status = "achieved" /\ run'[d].status = "finished"
      OBVIOUS
    <3>7. CASE d = c
      BY <3>5, <3>7
    <3>8. CASE d # c
      BY <3>6, <3>8
    <3> QED BY <3>7, <3>8
  <2> QED BY <2>1, <2>2
<1> HIDE DEF w, c, j, reached
<1>9. GoalFirst'
  <2>1. \A q \in Request : req[q].pc = "creating" => req[q].cand \in Candidate
    BY <1>1 DEF TypeOK, ReqState
  <2>2. \A d \in Candidate : goal[d].status = "none" => goal'[d].status = "none"
    BY <1>1, <1>8 DEF Parts, GoalFirst, AchievedByOffers
  <2> QED BY <1>1, <1>2, <1>8, <2>1, <2>2 DEF Parts, GoalFirst
<1>10. OfRun'
  BY <1>1, <1>2, <1>3, <1>4, <1>5, <1>8 DEF Parts, OfRun
<1>11. \A g \in Hr : Counted(g)'
  <2> SUFFICES ASSUME NEW g \in Hr, hr'[g].pc = "writing"
               PROVE  Counted(g)'
    BY DEF Counted
  <2>1. g # h /\ hr'[g] = hr[g] /\ hr[g].pc = "writing"
    BY <1>6
  <2>2. hr[g].cand # c /\ hr[g].cand \in Candidate
    BY <1>1, <1>2, <2>1 DEF Parts, Alone, TypeOK, HrState, w, c
  <2>3. Counted(g) /\ app'[hr[g].cand] = app[hr[g].cand]
    BY <1>1, <1>5, <2>2 DEF Parts
  <2>4. Offers(hr[g].cand)' = Offers(hr[g].cand)
    BY <2>1, <2>3 DEF Offers
  <2> QED BY <2>1, <2>3, <2>4 DEF Counted
<1>12. Alone'
  BY <1>1, <1>2, <1>6 DEF Parts, Alone
<1>13. AchievedByOffers'
  BY <1>1, <1>8 DEF Parts, AchievedByOffers
<1>14. OffersFinishRun'
  <2> SUFFICES ASSUME NEW d \in Candidate, run'[d].status = "running", goal'[d].wish = run'[d].wish
               PROVE  Cardinality(Offers(d))' < goal'[d].wish.target
    BY DEF OffersFinishRun
  <2>1. run[d].status = "running" /\ goal'[d] = goal[d] /\ (d = c => ~reached)
    BY <1>8
  <2>2. Cardinality(Offers(d)) < goal[d].wish.target /\ goal[d].wish.target \in Nat
    BY <1>1, <1>8, <2>1, TargetIsPositive DEF Parts, OffersFinishRun, TypeOK, GoalRow
  <2>3. CASE d # c
    <3>1. Offers(d)' = Offers(d)
      BY <1>5, <2>3 DEF Offers
    <3> QED BY <2>1, <2>2, <3>1
  <2>4. PICK k \in Job : k = j
    BY <1>3
  <2>5. CASE d = c /\ w.next = "offer"
    <3>1. app'[d][k] = "offer" /\ \A i \in Job \ {k} : app'[d][i] = app[d][i]
      BY <1>5, <2>4, <2>5
    <3>2. Offers(d)' = Offers(d) \cup {k}
      BY <2>4, <3>1 DEF Offers
    <3>3. w.offers < goal[d].wish.target
      BY <1>3, <2>1, <2>2, <2>5 DEF reached
    <3>4. w.offers = Cardinality(Offers(d) \cup {k})
      BY <1>4, <2>4, <2>5
    <3> QED BY <2>1, <3>2, <3>3, <3>4
  <2>6. CASE d = c /\ w.next # "offer"
    <3>1. app'[d][k] # "offer" /\ \A i \in Job \ {k} : app'[d][i] = app[d][i]
      BY <1>5, <2>4, <2>6
    <3>2. Offers(d)' \subseteq Offers(d)
      BY <2>4, <3>1 DEF Offers
    <3>3. IsFiniteSet(Offers(d)) /\ Cardinality(Offers(d)) \in Nat
      BY <2>4, OffersFinite
    <3>4. Cardinality(Offers(d)') <= Cardinality(Offers(d)) /\ Cardinality(Offers(d)') \in Nat
      BY <3>2, <3>3, FS_Subset, FS_CardinalityType
    <3> QED BY <2>1, <2>2, <3>3, <3>4
  <2> QED BY <2>3, <2>5, <2>6
<1> QED BY <1>9, <1>10, <1>11, <1>12, <1>13, <1>14 DEF Parts

-----------------------------------------------------------------------------
(* The invariant and the theorems                                            *)

LEMMA OfferStep == OfferInv /\ [Next]_vars => OfferInv'
<1> SUFFICES ASSUME OfferInv, [Next]_vars PROVE OfferInv'
  OBVIOUS
<1>1. AppliedInv' /\ TypeOK /\ TypeOK'
  BY FinishedStep DEF OfferInv, AppliedInv
<1>2. ResumeInv'
  BY <1>1, ResumeStep DEF OfferInv
<1>3. ASSUME UNCHANGED <<goal, save, run, match, app, req, hr>>
      PROVE  Parts'
  <2>1. \A q \in Request : req'[q] = req[q]
    BY <1>3
  <2> QED BY <1>3, <2>1, HandlersMove
<1>4. ASSUME NEW c \in Candidate, CandidateStep(c)
      PROVE  Parts'
  <2>1. ASSUME NEW i \in ResumeId, UploadResume(c, i) \/ ParseResume(c, i) \/ LockResume(c, i)
        PROVE  Parts'
    BY <1>3, <2>1 DEF UploadResume, ParseResume, LockResume, demand, round
  <2>2. CASE DeleteResume(c)
    BY <1>3, <2>2 DEF DeleteResume, demand, round
  <2> QED BY <1>4, <2>1, <2>2, SaveKeeps DEF CandidateStep
<1>5. ASSUME NEW j \in Job, JobStep(j)
      PROVE  Parts'
  BY <1>3, <1>5 DEF JobStep, UploadJob, ParseJob, RetryJob, DeleteJob, demand, round
<1>6. ASSUME NEW q \in Request, StartStep(q)
      PROVE  Parts'
  BY <1>6, StartStepKeeps, CreateKeeps, RoundKeeps DEF StartStep
<1>7. ASSUME NEW h \in Hr, HrStep(h)
      PROVE  Parts'
  BY <1>7, HrLockKeeps, HrCommitKeeps DEF HrStep
<1>8. ASSUME UNCHANGED vars PROVE Parts'
  <2>1. UNCHANGED <<goal, save, run, match, app, req, hr>>
    BY <1>8 DEF vars, demand, round
  <2> QED BY <1>3, <2>1
<1>9. ASSUME Next PROVE Parts'
  BY <1>4, <1>5, <1>6, <1>7, <1>9 DEF Next
<1>10. Parts'
  BY <1>8, <1>9
<1> QED BY <1>1, <1>2, <1>10 DEF OfferInv

LEMMA OfferInit == Init => OfferInv
<1> SUFFICES ASSUME Init PROVE OfferInv
  OBVIOUS
<1>1. AppliedInv
  BY TypeInit DEF Init, NoRun, NoHr, AppliedInv, OffersApplied, HrHoldsJob
<1>2. /\ \A c \in Candidate : /\ goal[c].status = "none" /\ save[c].pc = "idle"
                              /\ run[c].status = "none" /\ run[c].reason = "none"
                              /\ \A j \in Job : app[c][j] = "none"
      /\ \A q \in Request : req[q].pc = "idle"
      /\ \A h \in Hr : hr[h].pc = "idle"
  BY DEF Init, NoRun, NoReq, NoHr
<1>3. ResumeInv
  BY <1>2 DEF ResumeInv, RunKeepsResume, CreatingHoldsResume, StartedHasRun
<1>4. Parts
  BY <1>2 DEF Parts, GoalFirst, OfRun, Counted, Alone, AchievedByOffers, OffersFinishRun
<1> QED BY <1>1, <1>3, <1>4 DEF OfferInv

LEMMA OfferInvariant == Spec => []OfferInv
<1> QED BY OfferInit, OfferStep, PTL DEF Spec

(* A run does not outlive the offers its goal asks for, however many HR         *)
(* handlers count them at once: get_for_hr_update and finish_for_offer_target.  *)
THEOREM OffersFinishTheRun == Spec => []OffersFinishRun
<1>1. OfferInv => OffersFinishRun
  BY DEF OfferInv, Parts
<1> QED BY <1>1, OfferInvariant, PTL

(* A goal is achieved exactly when the offers have finished its run: no save    *)
(* and no second round separates the two.                                      *)
THEOREM AchievedExactlyByOffers == Spec => []AchievedByOffers
<1>1. OfferInv => AchievedByOffers
  BY DEF OfferInv, Parts
<1> QED BY <1>1, OfferInvariant, PTL

(* An application only moves forward, also when two HR handlers have read the    *)
(* same status or a second round begins: update_status and create_match.        *)
THEOREM ApplicationsMoveForward == Spec => OnlyForward
<1> DEFINE Forward == \A c \in Candidate, j \in Job : app[c][j] # "none" /\ app'[c][j] # app[c][j]
                        => ValidTransition(app[c][j], app'[c][j])
<1>1. ASSUME OfferInv, Next PROVE Forward
  <2>1. Parts /\ TypeOK /\ HrHoldsJob
    BY <1>1 DEF OfferInv, AppliedInv
  <2>2. ASSUME NEW q \in Request, Evaluate(q) PROVE Forward
    <3> DEFINE new == {j \in req[q].jobs : match[req[q].cand][j] = "none"}
    <3>1. PICK fits \in SUBSET new :
            app' = [app EXCEPT ![req[q].cand] = [j \in Job |-> IF j \in fits THEN "submitted" ELSE @[j]]]
      BY <2>2 DEF Evaluate
    <3>2. req[q].cand \in Candidate
      BY <2>1 DEF TypeOK, ReqState
    <3>3. \A j \in Job : j \in fits => app[req[q].cand][j] = "none"
      BY <2>1, <3>2 DEF Parts, OfRun
    <3> HIDE DEF new
    <3> QED BY <2>1, <3>1, <3>2, <3>3 DEF TypeOK
  <2>3. ASSUME NEW h \in Hr, HrCommit(h) PROVE Forward
    <3>1. /\ hr[h].cand \in Candidate /\ hr[h].job \in Job
          /\ ValidTransition(app[hr[h].cand][hr[h].job], hr[h].next)
      BY <2>1, <2>3 DEF HrCommit, TypeOK, HrState, HrHoldsJob, Parts, Counted
    <3>2. app' = [app EXCEPT ![hr[h].cand] = [@ EXCEPT ![hr[h].job] = hr[h].next]]
      BY <2>3 DEF HrCommit
    <3> QED BY <2>1, <3>1, <3>2 DEF TypeOK
  <2>4. ASSUME UNCHANGED app PROVE Forward
    BY <2>4
  <2>5. ASSUME NEW d \in Candidate, CandidateStep(d) PROVE UNCHANGED app
    BY <2>5 DEF CandidateStep, SaveCheck, SaveWrite, UploadResume, ParseResume, LockResume,
                DeleteResume, round
  <2>6. ASSUME NEW i \in Job, JobStep(i) PROVE UNCHANGED app
    BY <2>6 DEF JobStep, UploadJob, ParseJob, RetryJob, DeleteJob, round
  <2>7. ASSUME NEW q \in Request, StartStep(q) PROVE Evaluate(q) \/ UNCHANGED app
    BY <2>7 DEF StartStep, StartCheck, StartCreate, StartConflict, BreakDeadlock, LoadRunInput,
                Crash, round
  <2>8. ASSUME NEW h \in Hr, HrStep(h) PROVE HrCommit(h) \/ UNCHANGED app
    BY <2>8 DEF HrStep, HrLock, round
  <2> HIDE DEF Forward
  <2> QED BY <1>1, <2>2, <2>3, <2>4, <2>5, <2>6, <2>7, <2>8 DEF Next
<1>2. ASSUME OfferInv, [Next]_vars PROVE [Forward]_app
  BY <1>1, <1>2 DEF vars
<1> QED BY <1>2, OfferInvariant, PTL DEF Spec, OnlyForward

-----------------------------------------------------------------------------
(* The refinement of RunLifecycle                                            *)

(* A save that is under way asks for a target there is.                        *)
SaveAsks == \A c \in Candidate : save[c].pc # "idle" => save[c].wish.target \in Target

LEMMA SaveAsksInvariant == Spec => []SaveAsks
<1>1. Init => SaveAsks
  BY DEF Init, SaveAsks
<1>2. TypeOK /\ SaveAsks /\ [Next]_vars => SaveAsks'
  <2> SUFFICES ASSUME TypeOK, SaveAsks, [Next]_vars PROVE SaveAsks'
    OBVIOUS
  <2>1. ASSUME NEW c \in Candidate, NEW x \in Content, NEW n \in Target,
               SaveCheck(c, [content |-> x, target |-> n])
        PROVE  SaveAsks'
    <3>1. save' = [save EXCEPT ![c] =
             [pc |-> IF goal[c].status = "none" THEN "insert" ELSE "update",
              wish |-> [content |-> x, target |-> n]]]
      BY <2>1 DEF SaveCheck
    <3>2. save'[c].wish.target = n /\ \A d \in Candidate \ {c} : save'[d] = save[d]
      BY <3>1 DEF TypeOK
    <3> QED BY <3>2 DEF SaveAsks
  <2>2. ASSUME NEW c \in Candidate, SaveWrite(c) PROVE SaveAsks'
    <3>1. save'[c].pc = "idle" /\ \A d \in Candidate \ {c} : save'[d] = save[d]
      BY <2>2 DEF SaveWrite, TypeOK
    <3> QED BY <3>1 DEF SaveAsks
  <2>3. CASE UNCHANGED save
    BY <2>3 DEF SaveAsks
  <2>4. ASSUME NEW c \in Candidate, CandidateStep(c) PROVE SaveAsks'
    <3>1. CASE \E x \in Content, n \in Target : SaveCheck(c, [content |-> x, target |-> n])
      BY <2>1, <3>1
    <3>2. CASE SaveWrite(c)
      BY <2>2, <3>2
    <3>3. CASE \E i \in ResumeId : UploadResume(c, i) \/ ParseResume(c, i) \/ LockResume(c, i)
      BY <2>3, <3>3 DEF UploadResume, ParseResume, LockResume, demand
    <3>4. CASE DeleteResume(c)
      BY <2>3, <3>4 DEF DeleteResume, demand
    <3> QED BY <2>4, <3>1, <3>2, <3>3, <3>4 DEF CandidateStep
  <2>5. ASSUME NEW j \in Job, JobStep(j) PROVE SaveAsks'
    BY <2>3, <2>5 DEF JobStep, UploadJob, ParseJob, RetryJob, DeleteJob, demand
  <2>6. ASSUME NEW q \in Request, StartStep(q) PROVE SaveAsks'
    BY <2>3, <2>6 DEF StartStep, StartCheck, StartCreate, StartConflict, BreakDeadlock,
                      LoadRunInput, Evaluate, Crash, demand
  <2>7. ASSUME NEW h \in Hr, HrStep(h) PROVE SaveAsks'
    BY <2>3, <2>7 DEF HrStep, HrLock, HrCommit, demand
  <2> QED BY <2>3, <2>4, <2>5, <2>6, <2>7 DEF Next, vars, demand
<1> QED BY <1>1, <1>2, TypeCorrect, PTL DEF Spec

(* The rank of a stage is its number, so that a valid transition leads to a     *)
(* later stage or to the end.                                                   *)
LEMMA RankIsNumber ==
  ASSUME NEW i \in StageNumber
  PROVE  Order[i] # "terminated" /\ Rank(Order[i]) = i
<1>1. Order[i] # "terminated" /\ \A k \in 1..Len(Order) : Order[k] = Order[i] => k = i
  BY OrderAssumption DEF OrderAssumption, StageNumber
<1>2. (CHOOSE k \in 1..Len(Order) : Order[k] = Order[i]) = i
  BY <1>1 DEF StageNumber
<1> QED BY <1>1, <1>2 DEF Rank

LEMMA ValidIsLater ==
  ASSUME NEW from \in Status, NEW to \in Status, ValidTransition(from, to)
  PROVE  <<from, to>> \in LaterStages /\ to # from
<1>1. Len(Order) \in Nat /\ Order[Len(Order)] = "offer"
  BY OrderAssumption DEF OrderAssumption
<1>2. from \notin {"offer", "terminated"} /\ Rank(to) > Rank(from)
  BY DEF ValidTransition
<1>3. PICK i \in StageNumber : from = Order[i]
  BY <1>2 DEF Status, StageNumber
<1>4. i # Len(Order) /\ Rank(from) = i
  BY <1>1, <1>2, <1>3, RankIsNumber
<1>5. CASE to = "terminated"
  <2>1. <<Order[i], "terminated">> \in LaterStages
    BY <1>4 DEF LaterStages
  <2> QED BY <1>2, <1>3, <1>5, <2>1
<1>6. CASE to # "terminated"
  <2>1. PICK k \in StageNumber : to = Order[k]
    BY <1>6 DEF Status, StageNumber
  <2>2. Rank(to) = k
    BY <2>1, RankIsNumber
  <2>3. i < k
    BY <1>1, <1>2, <1>4, <2>2 DEF StageNumber
  <2>4. <<i, k>> \in {p \in StageNumber \X StageNumber : p[1] < p[2]}
    BY <2>3
  <2>5. <<Order[i], Order[k]>> \in LaterStages
    BY <2>4 DEF LaterStages
  <2>6. Rank(to) # Rank(from)
    BY <1>1, <1>4, <2>2, <2>3 DEF StageNumber
  <2> QED BY <1>3, <2>1, <2>5, <2>6
<1> QED BY <1>5, <1>6

LifeStep == [Lifecycle!Next]_(Lifecycle!rvars)
LifeInv == OfferInv /\ SaveAsks

(* What leaves goals, saves, runs and applications alone is no step of the life.*)
LEMMA LifeSame == ASSUME UNCHANGED <<goal, save, run, app>> PROVE LifeStep
BY DEF LifeStep, Lifecycle!rvars, Saving, AskedFor, Achieved, RunState

(* The steps of a save, a start, a round and an HR handler, one by one.         *)
LEMMA LifeSave ==
  ASSUME LifeInv, NEW c \in Candidate, NEW x \in Content, NEW n \in Target,
         SaveCheck(c, [content |-> x, target |-> n])
  PROVE  LifeStep
<1>1. TypeOK
  BY DEF LifeInv, OfferInv, AppliedInv
<1>2. /\ save[c].pc = "idle" /\ run[c].status = "none" /\ UNCHANGED <<goal, run, app>>
      /\ save' = [save EXCEPT ![c] =
           [pc |-> IF goal[c].status = "none" THEN "insert" ELSE "update",
            wish |-> [content |-> x, target |-> n]]]
  BY DEF SaveCheck, round
<1>3. save'[c].pc # "idle" /\ \A d \in Candidate \ {c} : save'[d] = save[d]
  BY <1>1, <1>2 DEF TypeOK
<1>4. ~Saving[c] /\ RunState[c] = "none" /\ Saving' = [Saving EXCEPT ![c] = TRUE]
  BY <1>2, <1>3 DEF Saving, RunState
<1>5. UNCHANGED <<AskedFor, Achieved, RunState, app>>
  BY <1>2 DEF AskedFor, Achieved, RunState
<1>6. Lifecycle!BeginSave(c)
  BY <1>4, <1>5 DEF Lifecycle!BeginSave
<1> QED BY <1>6 DEF LifeStep, Lifecycle!Next

LEMMA LifeWrite ==
  ASSUME LifeInv, NEW c \in Candidate, SaveWrite(c)
  PROVE  LifeStep
<1>1. TypeOK /\ Parts /\ SaveAsks
  BY DEF LifeInv, OfferInv, AppliedInv
<1>2. /\ save[c].pc # "idle" /\ UNCHANGED <<run, app>>
      /\ goal' = [goal EXCEPT ![c] = Saved(goal[c], save[c])]
      /\ save' = [save EXCEPT ![c] = [pc |-> "idle", wish |-> NoWish]]
  BY DEF SaveWrite, round
<1>3. save[c].pc = "insert" <=> goal[c].status = "none"
  BY <1>1, <1>2 DEF Parts, GoalFirst
<1>4. /\ save'[c].pc = "idle" /\ goal'[c] = Saved(goal[c], save[c])
      /\ \A d \in Candidate \ {c} : save'[d] = save[d] /\ goal'[d] = goal[d]
  BY <1>1, <1>2 DEF TypeOK
<1>5. /\ goal'[c].status # "none" /\ goal'[c].wish = save[c].wish
      /\ goal'[c].status = "achieved" <=> goal[c].status = "achieved"
  BY <1>3, <1>4 DEF Saved
<1> DEFINE n == save[c].wish.target
<1>6. n \in Target
  BY <1>1, <1>2 DEF SaveAsks
<1>7. Saving[c] /\ Saving' = [Saving EXCEPT ![c] = FALSE]
  BY <1>2, <1>4 DEF Saving
<1>8. AskedFor' = [AskedFor EXCEPT ![c] = n]
  BY <1>4, <1>5 DEF AskedFor
<1>9. UNCHANGED <<Achieved, RunState, app>>
  BY <1>2, <1>4, <1>5 DEF Achieved, RunState
<1> HIDE DEF n
<1>10. Lifecycle!EndSave(c, n)
  BY <1>7, <1>8, <1>9 DEF Lifecycle!EndSave
<1> QED BY <1>6, <1>10 DEF LifeStep, Lifecycle!Next

LEMMA LifeCreate ==
  ASSUME LifeInv, NEW q \in Request, StartCreate(q)
  PROVE  LifeStep
<1> DEFINE c == req[q].cand
           new == [status |-> "running", reason |-> "none", wish |-> req[q].wish,
                   resume |-> req[q].resume]
<1>1. TypeOK /\ Parts /\ c \in Candidate
  BY DEF LifeInv, OfferInv, AppliedInv, TypeOK, ReqState
<1>2. /\ req[q].pc = "creating" /\ run[c].status = "none" /\ run' = [run EXCEPT ![c] = new]
      /\ UNCHANGED <<goal, save, app>>
  BY DEF StartCreate, demand
<1>3. run'[c] = new /\ \A d \in Candidate \ {c} : run'[d] = run[d]
  BY <1>1, <1>2 DEF TypeOK
<1>4. goal[c].status # "none"
  BY <1>1, <1>2 DEF Parts, GoalFirst
<1>5. AskedFor[c] # 0
  <2>1. goal[c].wish.target \in Nat /\ goal[c].wish.target > 0
    BY <1>1, TargetIsPositive DEF TypeOK, GoalRow
  <2> QED BY <1>1, <1>4, <2>1 DEF AskedFor
<1>9. new.status = "running"
  OBVIOUS
<1> HIDE DEF c, new
<1>6. RunState[c] = "none" /\ RunState' = [RunState EXCEPT ![c] = "running"]
  <2>1. RunState[c] = "none"
    BY <1>1, <1>2 DEF RunState
  <2>2. /\ RunState'[c] = "running"
        /\ \A d \in Candidate \ {c} : RunState'[d] = RunState[d]
    BY <1>1, <1>3, <1>9 DEF RunState
  <2>3. RunState' = [RunState EXCEPT ![c] = "running"]
    BY <1>1, <2>2 DEF RunState
  <2> QED BY <2>1, <2>3
<1>7. UNCHANGED <<Saving, AskedFor, Achieved, app>>
  BY <1>2 DEF Saving, AskedFor, Achieved
<1>8. Lifecycle!Start(c)
  BY <1>5, <1>6, <1>7 DEF Lifecycle!Start
<1> QED BY <1>1, <1>8 DEF LifeStep, Lifecycle!Next

LEMMA LifeRound ==
  ASSUME LifeInv, NEW q \in Request, Evaluate(q)
  PROVE  LifeStep
<1> DEFINE c == req[q].cand
           new == {j \in req[q].jobs : match[c][j] = "none"}
<1>1. TypeOK /\ Parts /\ OffersApplied /\ c \in Candidate /\ new \in SUBSET Job
  BY DEF LifeInv, OfferInv, AppliedInv, TypeOK, ReqState
<1>2. PICK fits \in SUBSET new :
        /\ app' = [app EXCEPT ![c] = [j \in Job |-> IF j \in fits THEN "submitted" ELSE @[j]]]
        /\ run' = IF HasNoApplication(app'[c])
                  THEN [run EXCEPT ![c] = Finished(@, "no_match")]
                  ELSE run
  BY DEF Evaluate
<1>3. run[c].status # "none" /\ UNCHANGED <<goal, save>>
  BY DEF Evaluate, demand, LifeInv, OfferInv, ResumeInv, StartedHasRun
<1>4. \A j \in fits : app[c][j] = "none"
  BY <1>1 DEF Parts, OfRun
<1> HIDE DEF c, new
<1>5. app'[c] = [j \in Job |-> IF j \in fits THEN "submitted" ELSE app[c][j]]
  BY <1>1, <1>2 DEF TypeOK
<1>6. UNCHANGED <<Saving, AskedFor, Achieved>>
  BY <1>3 DEF Saving, AskedFor, Achieved
<1>7. run[c] \in RunRow /\ (run[c].status = "finished" <=> run[c].reason # "none")
  BY <1>1 DEF TypeOK
<1>8. CASE fits # {}
  <2>1. PICK j \in fits : j \in Job
    BY <1>1, <1>8
  <2>2. app'[c][j] = "submitted" /\ app[c][j] = "none"
    BY <1>4, <1>5, <2>1
  <2>3. ~HasNoApplication(app'[c]) /\ app'[c] # app[c]
    BY <2>1, <2>2 DEF HasNoApplication
  <2>4. UNCHANGED RunState
    BY <1>2, <2>3 DEF RunState
  <2>5. RunState[c] # "none"
    BY <1>1, <1>3, <1>7 DEF RunState
  <2>6. fits \in SUBSET {i \in Job : app[c][i] = "none"}
    BY <1>1, <1>4
  <2>7. Lifecycle!Apply(c)
    BY <1>2, <1>6, <2>3, <2>4, <2>5, <2>6 DEF Lifecycle!Apply
  <2> QED BY <1>1, <2>7 DEF LifeStep, Lifecycle!Next
<1>9. CASE fits = {}
  <2>1. app' = app
    BY <1>1, <1>2, <1>9 DEF TypeOK
  <2>2. CASE ~HasNoApplication(app[c])
    BY <1>2, <1>3, <2>1, <2>2, LifeSame
  <2>3. CASE HasNoApplication(app[c])
    <3> DEFINE done == Finished(run[c], "no_match")
    <3>1. run' = [run EXCEPT ![c] = done]
      BY <1>2, <2>1, <2>3
    <3>2. done.status = "finished" /\ done.reason = "no_match"
      BY <1>7 DEF Finished, RunRow
    <3> HIDE DEF done
    <3>3. run'[c] = done /\ \A d \in Candidate \ {c} : run'[d] = run[d]
      BY <1>1, <3>1 DEF TypeOK
    <3>4. RunState' = [RunState EXCEPT ![c] = "no_match"]
      BY <1>1, <3>2, <3>3 DEF RunState
    <3>5. CASE run[c].status = "running"
      <4>1. RunState[c] = "running" /\ \A j \in Job : app[c][j] = "none"
        BY <1>1, <2>3, <3>5 DEF RunState, HasNoApplication
      <4>2. Lifecycle!NoMatch(c)
        BY <1>6, <2>1, <3>4, <4>1 DEF Lifecycle!NoMatch
      <4> QED BY <1>1, <4>2 DEF LifeStep, Lifecycle!Next
    <3>6. CASE run[c].status = "finished"
      <4>1. run[c].reason # "offer_target_reached"
        BY <1>1, <2>3 DEF OffersApplied, HasNoApplication
      <4>2. RunState[c] = "no_match"
        BY <1>1, <1>7, <3>6, <4>1 DEF RunState, RunRow
      <4>3. UNCHANGED RunState
        BY <3>4, <4>2 DEF RunState
      <4> QED BY <1>6, <2>1, <4>3 DEF LifeStep, Lifecycle!rvars
    <3> QED BY <1>3, <1>7, <3>5, <3>6 DEF RunRow
  <2> QED BY <2>2, <2>3
<1> QED BY <1>8, <1>9

(* Both modules count the elements of a set alike.                             *)
LEMMA SameCount == \A S : Lifecycle!Cardinality(S) = Cardinality(S)
BY DEF Lifecycle!Cardinality, Cardinality

LEMMA LifeCommit ==
  ASSUME LifeInv, NEW h \in Hr, HrCommit(h)
  PROVE  LifeStep
<1> DEFINE c == hr[h].cand
           j == hr[h].job
           to == hr[h].next
           reached == /\ to = "offer" /\ run[c].status = "running"
                      /\ hr[h].offers >= goal[c].wish.target
<1>1. TypeOK /\ Parts /\ c \in Candidate /\ j \in Job /\ to \in Status
  BY DEF LifeInv, OfferInv, AppliedInv, TypeOK, HrState, HrHoldsJob, HrCommit
<1>2. /\ hr[h].pc = "writing" /\ app' = [app EXCEPT ![c][j] = to] /\ UNCHANGED save
      /\ run' = IF reached THEN [run EXCEPT ![c] = Finished(@, "offer_target_reached")] ELSE run
      /\ goal' = IF reached THEN [goal EXCEPT ![c].status = "achieved"] ELSE goal
  BY DEF HrCommit
<1>3. /\ app[c][j] # "none" /\ ValidTransition(app[c][j], to)
      /\ to = "offer" => hr[h].offers = Cardinality(Offers(c) \cup {j})
  BY <1>1, <1>2 DEF Parts, Counted
<1> HIDE DEF reached, c, j, to
<1>4. app[c][j] \in Status /\ app \in [Candidate -> [Job -> Status \cup {"none"}]]
  BY <1>1, <1>3 DEF TypeOK
<1>5. <<app[c][j], to>> \in LaterStages /\ to # app[c][j]
  BY <1>1, <1>3, <1>4, ValidIsLater
<1>6. app'[c][j] = to /\ \A i \in Job \ {j} : app'[c][i] = app[c][i]
  BY <1>1, <1>2, <1>4
<1>7. to = "offer" => {i \in Job : app'[c][i] = "offer"} = Offers(c) \cup {j}
  BY <1>1, <1>6 DEF Offers
<1>8. run[c].status # "none" /\ goal[c].status # "none"
  BY <1>1, <1>3 DEF Parts, OfRun, GoalFirst
<1>9. run[c] \in RunRow /\ goal[c] \in GoalRow /\ (run[c].status = "finished" <=> run[c].reason # "none")
  BY <1>1 DEF TypeOK
<1>10. AskedFor[c] = goal[c].wish.target /\ (RunState[c] = "running" <=> run[c].status = "running")
  BY <1>1, <1>8, <1>9 DEF AskedFor, RunState, RunRow
<1>11. Lifecycle!Reaches(c, j) <=> reached
  <2> DEFINE count == Cardinality({i \in Job : app'[c][i] = "offer"})
  <2>1. Lifecycle!Reaches(c, j) <=>
          to = "offer" /\ run[c].status = "running" /\ count >= goal[c].wish.target
    <3>1. Lifecycle!Reaches(c, j) <=>
            app'[c][j] = "offer" /\ RunState[c] = "running" /\ count >= AskedFor[c]
      BY SameCount DEF Lifecycle!Reaches
    <3> HIDE DEF count
    <3> QED BY <1>6, <1>10, <3>1
  <2>2. to = "offer" => hr[h].offers = count
    BY <1>3, <1>7
  <2> HIDE DEF count
  <2> QED BY <2>1, <2>2 DEF reached
<1>12. UNCHANGED Saving
  BY <1>2 DEF Saving
<1>13. CASE reached
  <2> DEFINE done == Finished(run[c], "offer_target_reached")
             won == [goal[c] EXCEPT !.status = "achieved"]
  <2>1. run' = [run EXCEPT ![c] = done] /\ goal' = [goal EXCEPT ![c] = won]
    BY <1>2, <1>13
  <2>2. /\ done.status = "finished" /\ done.reason = "offer_target_reached"
        /\ won.status = "achieved" /\ won.wish = goal[c].wish
    BY <1>9 DEF Finished, RunRow, GoalRow
  <2> HIDE DEF done, won
  <2>3. /\ run'[c] = done /\ goal'[c] = won
        /\ \A d \in Candidate \ {c} : run'[d] = run[d] /\ goal'[d] = goal[d]
    BY <1>1, <2>1 DEF TypeOK
  <2>4. RunState' = [RunState EXCEPT ![c] = "offer_target_reached"]
    BY <1>1, <2>2, <2>3 DEF RunState
  <2>5. Achieved' = [Achieved EXCEPT ![c] = TRUE]
    BY <1>1, <2>2, <2>3 DEF Achieved
  <2>6. UNCHANGED AskedFor
    BY <1>8, <2>2, <2>3 DEF AskedFor
  <2>7. Lifecycle!Move(c, j)
    BY <1>2, <1>5, <1>6, <1>11, <1>12, <1>13, <2>4, <2>5, <2>6 DEF Lifecycle!Move
  <2> QED BY <1>1, <2>7 DEF LifeStep, Lifecycle!Next
<1>14. CASE ~reached
  <2>1. UNCHANGED <<RunState, Achieved, AskedFor>>
    BY <1>2, <1>14 DEF RunState, Achieved, AskedFor
  <2>2. Lifecycle!Move(c, j)
    BY <1>2, <1>5, <1>6, <1>11, <1>12, <1>14, <2>1 DEF Lifecycle!Move
  <2> QED BY <1>1, <2>2 DEF LifeStep, Lifecycle!Next
<1> QED BY <1>13, <1>14

LEMMA LifeNext == LifeInv /\ [Next]_vars => LifeStep
<1> SUFFICES ASSUME LifeInv, [Next]_vars PROVE LifeStep
  OBVIOUS
<1>1. ASSUME NEW c \in Candidate, CandidateStep(c) PROVE LifeStep
  <2>1. CASE \E x \in Content, n \in Target : SaveCheck(c, [content |-> x, target |-> n])
    BY <2>1, LifeSave
  <2>2. CASE SaveWrite(c)
    BY <2>2, LifeWrite
  <2>3. CASE \E i \in ResumeId : UploadResume(c, i) \/ ParseResume(c, i) \/ LockResume(c, i)
    BY <2>3, LifeSame DEF UploadResume, ParseResume, LockResume, demand, round
  <2>4. CASE DeleteResume(c)
    BY <2>4, LifeSame DEF DeleteResume, demand, round
  <2> QED BY <1>1, <2>1, <2>2, <2>3, <2>4 DEF CandidateStep
<1>2. ASSUME NEW j \in Job, JobStep(j) PROVE LifeStep
  BY <1>2, LifeSame DEF JobStep, UploadJob, ParseJob, RetryJob, DeleteJob, demand, round
<1>3. ASSUME NEW q \in Request, StartStep(q) PROVE LifeStep
  <2>1. CASE StartCreate(q)
    BY <2>1, LifeCreate
  <2>2. CASE Evaluate(q)
    BY <2>2, LifeRound
  <2>3. CASE (\E c \in Candidate : StartCheck(q, c)) \/ StartConflict(q) \/ BreakDeadlock(q)
             \/ LoadRunInput(q) \/ Crash(q)
    BY <2>3, LifeSame DEF StartCheck, StartConflict, BreakDeadlock, LoadRunInput, Crash, demand, round
  <2> QED BY <1>3, <2>1, <2>2, <2>3 DEF StartStep
<1>4. ASSUME NEW h \in Hr, HrStep(h) PROVE LifeStep
  <2>1. CASE HrCommit(h)
    BY <2>1, LifeCommit
  <2>2. CASE \E c \in Candidate, j \in Job, next \in Status : HrLock(h, c, j, next)
    BY <2>2, LifeSame DEF HrLock, demand, round
  <2> QED BY <1>4, <2>1, <2>2 DEF HrStep
<1>5. CASE UNCHANGED vars
  BY <1>5, LifeSame DEF vars
<1> QED BY <1>1, <1>2, <1>3, <1>4, <1>5 DEF Next

(* Goal, run and applications implement RunLifecycle: whatever start requests,  *)
(* rounds, late saves and HR handlers overlap, a candidate sees one run that    *)
(* ends without a match or with the offer that reaches the target.              *)
THEOREM ImplementsTheRunLifecycle == Spec => ImplementsRunLifecycle
<1>1. Init => Lifecycle!Init
  <2> SUFFICES ASSUME Init PROVE Lifecycle!Init
    OBVIOUS
  <2>1. Saving = [c \in Candidate |-> FALSE]
    BY DEF Init, Saving
  <2>2. AskedFor = [c \in Candidate |-> 0] /\ Achieved = [c \in Candidate |-> FALSE]
    BY DEF Init, AskedFor, Achieved
  <2>3. RunState = [c \in Candidate |-> "none"]
    BY DEF Init, NoRun, RunState
  <2>4. app = [c \in Candidate |-> [j \in Job |-> "none"]]
    BY DEF Init
  <2> QED BY <2>1, <2>2, <2>3, <2>4 DEF Lifecycle!Init
<1>2. LifeInv /\ [Next]_vars => [Lifecycle!Next]_(Lifecycle!rvars)
  BY LifeNext DEF LifeStep
<1> QED BY <1>1, <1>2, OfferInvariant, SaveAsksInvariant, PTL
        DEF Spec, LifeInv, ImplementsRunLifecycle, Lifecycle!Spec
=============================================================================
