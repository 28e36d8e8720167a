-------------------------- MODULE AsyncTask_proofs --------------------------
(* Theorems about AsyncTask, for every value of its constants: executions   *)
(* exclude each other, what is written agrees, the queue implements         *)
(* TaskLifecycle, and a task that is marked dispatched keeps a message.     *)
EXTENDS AsyncTaskHistory, AsyncTaskRefinement, TLAPS

(* What the settings say of the numbers the proofs compute with.            *)
LEMMA Numbers ==
  /\ ExecLease \in Nat /\ DispatchLease \in Nat /\ StallAfter \in Nat
  /\ MaxCopies \in Nat /\ HardLimit \in Nat /\ MaxRetries \in Nat
  /\ MaxFaults \in Nat /\ NoToken \notin Token
  /\ 0 \in 0..DispatchLease /\ DispatchLease \in 0..DispatchLease
  /\ 0 \in 0..ExecLease /\ ExecLease \in 0..ExecLease
  /\ 0 \in 0..StallAfter
  BY SettingsAssumption DEF SettingsAssumption

(* Setting one column of a row to a value of its type keeps it a row.       *)
LEMMA RowUpdate ==
  ASSUME NEW r \in Row
  PROVE  /\ \A s \in Status : [r EXCEPT !.status = s] \in Row
         /\ \A k \in Token \union {NoToken} :
              /\ [r EXCEPT !.dispatchToken = k] \in Row
              /\ [r EXCEPT !.execToken = k] \in Row
         /\ \A n \in 0..DispatchLease : [r EXCEPT !.dispatchLease = n] \in Row
         /\ \A n \in 0..ExecLease : [r EXCEPT !.execLease = n] \in Row
         /\ \A n \in 0..StallAfter : [r EXCEPT !.age = n] \in Row
         /\ \A b \in BOOLEAN : [r EXCEPT !.dispatched = b] \in Row
<1>1. \A s \in Status : [r EXCEPT !.status = s] \in Row
  BY DEF Row
<1>2. \A k \in Token \union {NoToken} : [r EXCEPT !.dispatchToken = k] \in Row
  BY DEF Row
<1>3. \A k \in Token \union {NoToken} : [r EXCEPT !.execToken = k] \in Row
  BY DEF Row
<1>4. \A n \in 0..DispatchLease : [r EXCEPT !.dispatchLease = n] \in Row
  BY DEF Row
<1>5. \A n \in 0..ExecLease : [r EXCEPT !.execLease = n] \in Row
  BY DEF Row
<1>6. \A n \in 0..StallAfter : [r EXCEPT !.age = n] \in Row
  BY DEF Row
<1>7. \A b \in BOOLEAN : [r EXCEPT !.dispatched = b] \in Row
  BY DEF Row
<1> QED BY <1>1, <1>2, <1>3, <1>4, <1>5, <1>6, <1>7

(* Claiming a row for publication leaves its execution alone.               *)
LEMMA ClaimWrite ==
  ASSUME NEW r \in Row, NEW k \in Token
  PROVE  LET x == ClaimedForDispatch(r, k) IN
           /\ x \in Row /\ x.status = r.status
           /\ x.execToken = r.execToken /\ x.execLease = r.execLease
<1> DEFINE c1 == [r EXCEPT !.dispatchToken = k]
<1>1. c1 \in Row /\ [c1 EXCEPT !.dispatchLease = DispatchLease] \in Row
  BY RowUpdate, Numbers
<1>2. ClaimedForDispatch(r, k) = [c1 EXCEPT !.dispatchLease = DispatchLease]
  BY DEF ClaimedForDispatch
<1> QED BY <1>1, <1>2 DEF ClaimedForDispatch, Row

(* So do releasing and confirming the publication.                          *)
LEMMA ReleaseWrites ==
  ASSUME NEW r \in Row
  PROVE  \A x \in {DispatchReleased(r), DispatchConfirmed(r)} :
           /\ x \in Row /\ x.status = r.status
           /\ x.execToken = r.execToken /\ x.execLease = r.execLease
<1> DEFINE d1 == [r EXCEPT !.dispatchToken = NoToken]
<1>1. d1 \in Row /\ [d1 EXCEPT !.dispatchLease = 0] \in Row
  BY RowUpdate, Numbers
<1>2. DispatchReleased(r) = [d1 EXCEPT !.dispatchLease = 0]
  BY DEF DispatchReleased
<1>3. DispatchConfirmed(r) \in Row
  BY <1>1, <1>2, RowUpdate DEF DispatchConfirmed
<1> QED BY <1>1, <1>2, <1>3 DEF DispatchReleased, DispatchConfirmed, Row

(* Taking a lease makes a running row that holds the token.                 *)
LEMMA LeasedWrite ==
  ASSUME NEW r \in Row, NEW k \in Token
  PROVE  /\ Leased(r, k) \in Row
         /\ Leased(r, k).status = "running" /\ Leased(r, k).execToken = k
         /\ Leased(r, k).execLease = ExecLease
<1> DEFINE r1 == [r EXCEPT !.status = "running"]
           r2 == [r1 EXCEPT !.execToken = k]
           r3 == [r2 EXCEPT !.execLease = ExecLease]
<1>1. r1 \in Row
  BY RowUpdate DEF Status, Terminal
<1>2. r2 \in Row
  BY <1>1, RowUpdate
<1>3. r3 \in Row
  BY <1>2, RowUpdate, Numbers
<1>4. [r3 EXCEPT !.age = 0] \in Row
  BY <1>3, RowUpdate, Numbers
<1>5. Leased(r, k) = [r3 EXCEPT !.age = 0]
  BY DEF Leased
<1> QED BY <1>4, <1>5 DEF Leased, Row

(* Closing a row, or putting it back in the queue, leaves it without lease. *)
LEMMA ClosedWrite ==
  ASSUME NEW r \in Row, NEW s \in Status
  PROVE  /\ Closed(r, s) \in Row /\ Requeued(r) \in Row
         /\ Closed(r, s).status = s /\ Closed(r, s).execToken = NoToken
         /\ Closed(r, s).execLease = 0
         /\ Requeued(r).status = "queued" /\ Requeued(r).execToken = NoToken
         /\ Requeued(r).execLease = 0
<1>1. ASSUME NEW x \in Status
      PROVE  /\ Closed(r, x) \in Row
             /\ Closed(r, x).status = x /\ Closed(r, x).execToken = NoToken
             /\ Closed(r, x).execLease = 0
  <2> DEFINE r1 == [r EXCEPT !.status = x]
             r2 == [r1 EXCEPT !.execToken = NoToken]
  <2>1. r1 \in Row
    BY RowUpdate
  <2>2. r2 \in Row
    BY <2>1, RowUpdate
  <2>3. [r2 EXCEPT !.execLease = 0] \in Row
    BY <2>2, RowUpdate, Numbers
  <2> DEFINE r3 == [r2 EXCEPT !.execLease = 0]
  <2>4. [r3 EXCEPT !.age = 0] \in Row
    BY <2>3, RowUpdate, Numbers
  <2>5. Closed(r, x) = [r3 EXCEPT !.age = 0]
    BY DEF Closed
  <2> QED BY <2>4, <2>5 DEF Closed, Row
<1>2. Closed(r, "queued") \in Row
  BY <1>1 DEF Status
<1>3. [Closed(r, "queued") EXCEPT !.dispatched = FALSE] \in Row
  BY <1>2, RowUpdate
<1>4. Requeued(r) = [Closed(r, "queued") EXCEPT !.dispatched = FALSE]
  BY DEF Requeued
<1>5. /\ Requeued(r).status = "queued" /\ Requeued(r).execToken = NoToken
      /\ Requeued(r).execLease = 0
  BY <1>4 DEF Closed, Row
<1> QED BY <1>1, <1>3, <1>4, <1>5

(* A tick takes one from the leases of a row and keeps its status and token.*)
LEMMA AgedWrite ==
  ASSUME NEW r \in Row
  PROVE  /\ Aged(r) \in Row
         /\ Aged(r).status = r.status /\ Aged(r).execToken = r.execToken
         /\ Aged(r).execLease = Down(r.execLease)
<1> DEFINE r1 == [r EXCEPT !.dispatchLease = Down(@)]
           r2 == [r1 EXCEPT !.execLease = Down(@)]
           n  == IF r.status = "running" /\ r.age < StallAfter THEN r.age + 1 ELSE r.age
<1>1. r1 \in Row
  BY RowUpdate, Numbers DEF Row, Down
<1>2. r2 \in Row
  <2>1. Down(r1.execLease) \in 0..ExecLease
    BY <1>1, Numbers DEF Row, Down
  <2> QED BY <1>1, <2>1, RowUpdate
<1>3. n \in 0..StallAfter
  BY Numbers DEF Row
<1>4. [r2 EXCEPT !.age = n] \in Row
  BY <1>2, <1>3, RowUpdate
<1>5. Aged(r) = [r2 EXCEPT !.age = n]
  BY DEF Aged, Row
<1> QED BY <1>4, <1>5 DEF Aged, Row

-----------------------------------------------------------------------------
(* Rows \in [Task -> Row] that hold a lease exactly while they run.         *)
RowsOK(rows) == rows \in [Task -> Row] /\ \A t \in Task : LeaseOK(rows[t])

(* Failing any set of tasks keeps the rows well formed.                     *)
LEMMA FailRowsType ==
  ASSUME NEW S, RowsOK(row)
  PROVE  RowsOK(FailRows(S))
<1>1. ASSUME NEW t \in Task
      PROVE  Closed(row[t], "failed") \in Row /\ LeaseOK(Closed(row[t], "failed"))
  BY ClosedWrite DEF RowsOK, LeaseOK, Status, Terminal
<1> QED BY <1>1 DEF FailRows, RowsOK

(* Replacing one row by a well-formed row keeps the rows well formed.       *)
LEMMA OneRowType ==
  ASSUME RowsOK(row), NEW t \in Task, NEW r \in Row, LeaseOK(r)
  PROVE  RowsOK([row EXCEPT ![t] = r])
  BY DEF RowsOK

(* Sending adds at most one copy of a message, within the bound.            *)
LEMMA PlusType ==
  ASSUME NEW q \in [Message -> 0..MaxCopies], NEW m
  PROVE  Plus(q, m) \in [Message -> 0..MaxCopies]
<1> SUFFICES ASSUME NEW x \in Message PROVE Plus(q, m)[x] \in 0..MaxCopies
  BY DEF Plus
<1>1. CASE x # m
  BY <1>1 DEF Plus
<1>2. CASE x = m /\ q[x] < MaxCopies
  BY <1>2, Numbers DEF Plus
<1>3. CASE x = m /\ ~(q[x] < MaxCopies)
  BY <1>3 DEF Plus
<1> QED BY <1>1, <1>2, <1>3

(* Removing a waiting copy leaves a number of copies.                       *)
LEMMA MinusType ==
  ASSUME NEW q \in [Message -> 0..MaxCopies], NEW m \in Message, q[m] > 0
  PROVE  Minus(q, m) \in [Message -> 0..MaxCopies]
  BY Numbers DEF Minus

ParseType == [ResumeTask -> {"absent", "processing"} \union Terminal]

(* Failing the resumes of some tasks leaves every resume with a status.     *)
LEMMA FailResumesType ==
  ASSUME NEW S, parse \in ParseType
  PROVE  FailResumes(S) \in ParseType
  BY DEF FailResumes, Terminal, ParseType

WorkersOK(ws) ==
  /\ ws \in [Worker -> Attempt]
  /\ \A w \in Worker : ws[w].pc # "idle" => ws[w].task \in Task

(* Replacing one attempt by one that names a task keeps the workers well    *)
(* formed, and so does an idle worker.                                      *)
LEMMA OneWorkerType ==
  ASSUME WorkersOK(worker), NEW w \in Worker, NEW a \in Attempt,
         a.pc # "idle" => a.task \in Task
  PROVE  WorkersOK([worker EXCEPT ![w] = a])
  BY DEF WorkersOK

(* Moving a busy worker to another point of the task keeps it an attempt.   *)
LEMMA GoToType ==
  ASSUME WorkersOK(worker), NEW w \in Worker,
         NEW pc \in {"started", "working", "retrying", "done"},
         ~At(w, "idle"), GoTo(w, pc)
  PROVE  WorkersOK(worker')
<1>1. [worker[w] EXCEPT !.pc = pc, !.token = NoToken] \in Attempt
  BY DEF WorkersOK, Attempt
<1>2. [worker[w] EXCEPT !.pc = pc, !.token = NoToken].task \in Task
  BY DEF WorkersOK, Attempt, At
<1>3. worker' = [worker EXCEPT ![w] = [worker[w] EXCEPT !.pc = pc, !.token = NoToken]]
  BY DEF GoTo
<1> QED BY <1>1, <1>2, <1>3, OneWorkerType

(* An idle worker and a dispatcher without a lease are well formed.         *)
LEMMA IdleType == Idle \in Attempt /\ Idle.pc = "idle" /\ NotHeld \in Held
  BY Numbers DEF Idle, Attempt, NotHeld, Held

(* A fault is counted while the bound allows it.                            *)
LEMMA FaultType ==
  ASSUME faults \in 0..MaxFaults, Fault
  PROVE  faults' \in 0..MaxFaults
  BY Numbers DEF Fault

LeasesType == [Dispatcher -> [Task -> Held]]

(* TypeOK in the parts the lemmas are about.                                *)
TypeParts ==
  /\ RowsOK(row) /\ parse \in ParseType
  /\ result \in [Task -> BOOLEAN] /\ deleted \in [Task -> BOOLEAN]
  /\ queue \in [Message -> 0..MaxCopies] /\ WorkersOK(worker)
  /\ lease \in LeasesType /\ faults \in 0..MaxFaults

(* The two ways to say it agree, in a state and in its successor.           *)
LEMMA TypeOKParts == (TypeOK <=> TypeParts) /\ (TypeOK' <=> TypeParts')
  BY DEF TypeOK, TypeParts, RowsOK, ParseType, WorkersOK, LeasesType

-----------------------------------------------------------------------------
(* The empty table, broker and processes are well formed.                   *)
LEMMA TypeInit == Init => TypeParts
<1> SUFFICES ASSUME Init PROVE TypeParts
  OBVIOUS
<1>1. RowsOK(row)
  BY Numbers DEF Init, RowsOK, NewRow, Row, LeaseOK, Status, Terminal
<1>2. WorkersOK(worker)
  BY IdleType DEF Init, WorkersOK
<1>3. lease \in LeasesType
  BY IdleType DEF Init, LeasesType
<1> QED BY <1>1, <1>2, <1>3, Numbers DEF Init, TypeParts, ParseType

(* An upload or a deletion keeps the types.                                 *)
LEMMA TypeAPI == TypeParts /\ APIStep => TypeParts'
<1> SUFFICES ASSUME TypeParts, NEW t \in Task, Submit(t) \/ Delete(t) PROVE TypeParts'
  BY DEF APIStep
<1>1. CASE Submit(t)
  <2> DEFINE r == [row[t] EXCEPT !.status = "queued"]
  <2>0. row[t] \in Row /\ row[t].status = "absent" /\ LeaseOK(row[t])
    BY <1>1 DEF Submit, TypeParts, RowsOK
  <2>1. r \in Row /\ LeaseOK(r)
    <3>1. r \in Row
      BY <2>0, RowUpdate DEF Status
    <3> QED BY <2>0, <3>1 DEF LeaseOK, Row
  <2>2. row' = [row EXCEPT ![t] = r]
    BY <1>1 DEF Submit
  <2>3. RowsOK(row')
    BY <2>1, <2>2, OneRowType DEF TypeParts
  <2> QED BY <1>1, <2>3 DEF Submit, TypeParts, ParseType
<1>2. CASE Delete(t)
  BY <1>2 DEF Delete, TypeParts
<1> QED BY <1>1, <1>2

(* Claiming a batch of rows keeps the types, whichever rows and tokens.     *)
LEMMA TypeClaimBatch ==
  ASSUME TypeParts, NEW d \in Dispatcher, ClaimDispatchBatch(d)
  PROVE  TypeParts'
<1>0. PICK S \in SUBSET {t \in Task : Dispatchable(t)} :
        /\ S # {} /\ Cardinality(S) <= BatchSize
        /\ \E token \in [S -> Token] :
            /\ \A t \in S : FreshDispatchToken(token[t])
            /\ \A t, u \in S : token[t] = token[u] => t = u
            /\ row' = [t \in Task |->
                 IF t \in S THEN ClaimedForDispatch(row[t], token[t]) ELSE row[t]]
            /\ lease' = [lease EXCEPT ![d] = [t \in Task |->
                 IF t \in S THEN [stage |-> "claimed", token |-> token[t]]
                 ELSE NotHeld]]
  BY DEF ClaimDispatchBatch
<1>1. PICK token \in [S -> Token] :
        /\ row' = [t \in Task |->
             IF t \in S THEN ClaimedForDispatch(row[t], token[t]) ELSE row[t]]
        /\ lease' = [lease EXCEPT ![d] = [t \in Task |->
             IF t \in S THEN [stage |-> "claimed", token |-> token[t]] ELSE NotHeld]]
  BY <1>0
<1>2. ASSUME NEW t \in Task PROVE row'[t] \in Row /\ LeaseOK(row'[t])
  <2>1. CASE t \in S
    <3>1. token[t] \in Token
      BY <2>1
    <3>2. row[t] \in Row /\ LeaseOK(row[t])
      BY DEF TypeParts, RowsOK
    <3>3. row'[t] = ClaimedForDispatch(row[t], token[t])
      BY <1>1, <2>1
    <3>4. ClaimedForDispatch(row[t], token[t]) \in Row
      BY <3>1, <3>2, ClaimWrite
    <3>5. LeaseOK(ClaimedForDispatch(row[t], token[t]))
      BY <3>1, <3>2, ClaimWrite DEF LeaseOK
    <3> QED BY <3>3, <3>4, <3>5
  <2>2. CASE t \notin S
    BY <1>1, <2>2 DEF TypeParts, RowsOK
  <2> QED BY <2>1, <2>2
<1>3. RowsOK(row')
  BY <1>1, <1>2 DEF RowsOK
<1>4. [t \in Task |-> IF t \in S THEN [stage |-> "claimed", token |-> token[t]]
                      ELSE NotHeld] \in [Task -> Held]
  BY IdleType DEF Held
<1>5. lease' \in LeasesType
  BY <1>1, <1>4 DEF TypeParts, LeasesType
<1> QED BY <1>3, <1>5 DEF ClaimDispatchBatch, TypeParts

(* So does every other step of a dispatcher.                                *)
LEMMA TypeDispatcher ==
  ASSUME TypeParts, NEW d \in Dispatcher, DispatcherStep(d)
  PROVE  TypeParts'
<1>1. CASE ClaimDispatchBatch(d)
  BY <1>1, TypeClaimBatch
<1>2. CASE RecoverStalled(d)
  BY <1>2, FailRowsType, FailResumesType DEF RecoverStalled, TypeParts
<1>3. ASSUME NEW t \in Task, Publish(d, t) PROVE TypeParts'
  <2>1. queue' \in [Message -> 0..MaxCopies]
    BY <1>3, PlusType DEF Publish, TypeParts
  <2>2. lease' \in LeasesType
    <3> DEFINE h == [lease[d][t] EXCEPT !.stage = "published"]
    <3>0. lease[d][t] \in Held
      BY DEF TypeParts, LeasesType
    <3>1. h \in Held
      BY <3>0 DEF Held
    <3>2. lease' = [lease EXCEPT ![d] = [lease[d] EXCEPT ![t] = h]]
      BY <1>3 DEF Publish
    <3> QED BY <3>1, <3>2 DEF TypeParts, LeasesType
  <2> QED BY <1>3, <2>1, <2>2 DEF Publish, TypeParts
<1>4. ASSUME NEW t \in Task, ConfirmDispatch(d, t) PROVE TypeParts'
  <2>1. lease' \in LeasesType
    BY <1>4, IdleType DEF ConfirmDispatch, TypeParts, LeasesType
  <2>2. RowsOK(row')
    <3>1. ASSUME NEW r \in Row, LeaseOK(r)
          PROVE  DispatchConfirmed(r) \in Row /\ LeaseOK(DispatchConfirmed(r))
      BY <3>1, ReleaseWrites DEF LeaseOK
    <3> QED BY <1>4, <3>1, OneRowType DEF ConfirmDispatch, TypeParts, RowsOK
  <2> QED BY <1>4, <2>1, <2>2 DEF ConfirmDispatch, TypeParts
<1>5. ASSUME NEW t \in Task, ReleaseDispatch(d, t) PROVE TypeParts'
  <2>1. lease' \in LeasesType
    BY <1>5, IdleType DEF ReleaseDispatch, TypeParts, LeasesType
  <2>2. RowsOK(row')
    <3>1. ASSUME NEW r \in Row, LeaseOK(r)
          PROVE  DispatchReleased(r) \in Row /\ LeaseOK(DispatchReleased(r))
      BY <3>1, ReleaseWrites DEF LeaseOK
    <3> QED BY <1>5, <3>1, OneRowType DEF ReleaseDispatch, TypeParts, RowsOK
  <2> QED BY <1>5, <2>1, <2>2 DEF ReleaseDispatch, TypeParts
<1> QED BY <1>1, <1>2, <1>3, <1>4, <1>5 DEF DispatcherStep

(* A crash or a failed call keeps the types.                                *)
LEMMA TypeFault == TypeParts /\ FaultStep => TypeParts'
<1> SUFFICES ASSUME TypeParts, FaultStep PROVE TypeParts'
  OBVIOUS
<1>1. ASSUME NEW d \in Dispatcher, DispatcherCrash(d) PROVE TypeParts'
  <2>1. lease' \in LeasesType
    BY <1>1, IdleType DEF DispatcherCrash, TypeParts, LeasesType
  <2> QED BY <1>1, <2>1, FaultType DEF DispatcherCrash, TypeParts
<1>2. ASSUME NEW d \in Dispatcher, NEW t \in Task, PublishFails(d, t) PROVE TypeParts'
  <2>1. lease' \in LeasesType
    <3> DEFINE h == [lease[d][t] EXCEPT !.stage = "unsent"]
    <3>0. lease[d][t] \in Held
      BY DEF TypeParts, LeasesType
    <3>1. h \in Held
      BY <3>0 DEF Held
    <3>2. lease' = [lease EXCEPT ![d] = [lease[d] EXCEPT ![t] = h]]
      BY <1>2 DEF PublishFails
    <3> QED BY <3>1, <3>2 DEF TypeParts, LeasesType
  <2>2. queue' \in [Message -> 0..MaxCopies]
    BY <1>2, PlusType DEF PublishFails, TypeParts
  <2> QED BY <1>2, <2>1, <2>2, FaultType DEF PublishFails, TypeParts
<1>3. ASSUME NEW w \in Worker, Abort(w) PROVE TypeParts'
  BY <1>3, GoToType, FaultType DEF Abort, Busy, At, TypeParts
<1>4. ASSUME NEW w \in Worker, WorkerCrash(w) PROVE TypeParts'
  BY <1>4, IdleType, OneWorkerType, FaultType, PlusType DEF WorkerCrash, TypeParts
<1> QED BY <1>1, <1>2, <1>3, <1>4 DEF FaultStep

(* The passing of time keeps the types.                                     *)
LEMMA TypeTick == TypeParts /\ Tick => TypeParts'
<1> SUFFICES ASSUME TypeParts, Tick PROVE TypeParts'
  OBVIOUS
<1>1. RowsOK(row')
  <2>1. ASSUME NEW t \in Task PROVE Aged(row[t]) \in Row /\ LeaseOK(Aged(row[t]))
    BY AgedWrite DEF TypeParts, RowsOK, LeaseOK, Down
  <2> QED BY <2>1 DEF Tick, RowsOK
<1>2. WorkersOK(worker')
  <2>1. ASSUME NEW w \in Worker
        PROVE  /\ worker'[w] \in Attempt
               /\ worker'[w].pc # "idle" => worker'[w].task \in Task
    <3>1. CASE At(w, "idle")
      BY <3>1 DEF Tick, TypeParts, WorkersOK
    <3>2. CASE ~At(w, "idle")
      BY <3>2, Numbers DEF Tick, TypeParts, WorkersOK, Attempt, At
    <3> QED BY <3>1, <3>2
  <2> QED BY <2>1 DEF Tick, WorkersOK
<1> QED BY <1>1, <1>2 DEF Tick, TypeParts

(* Every step of a worker keeps the types.                                  *)
LEMMA TypeWorker ==
  ASSUME TypeParts, NEW w \in Worker, WorkerStep(w)
  PROVE  TypeParts'
<1> DEFINE t == worker[w].task
<1>1. ASSUME NEW m \in Message, Deliver(w, m) PROVE TypeParts'
  <2> DEFINE a == [pc |-> "started", task |-> m.task, retries |-> m.retries,
                   token |-> NoToken, clock |-> 0]
  <2>1. a \in Attempt /\ a.task \in Task
    BY Numbers DEF Attempt, Message
  <2>2. WorkersOK(worker')
    BY <1>1, <2>1, OneWorkerType DEF Deliver, TypeParts
  <2> QED BY <1>1, <2>2, MinusType DEF Deliver, TypeParts
<1>2. CASE ClaimExecution(w)
  <2>1. t \in Task
    BY <1>2 DEF ClaimExecution, TypeParts, WorkersOK, At
  <2>2. PICK k \in Token : /\ row' = [row EXCEPT ![t] = Leased(row[t], k)]
                           /\ worker' = [worker EXCEPT ![w] = WorkingWith(worker[w], k)]
    BY <1>2 DEF ClaimExecution
  <2>3. Leased(row[t], k) \in Row /\ LeaseOK(Leased(row[t], k))
    BY <2>1, LeasedWrite, Numbers DEF TypeParts, RowsOK, LeaseOK
  <2>4. WorkingWith(worker[w], k) \in Attempt /\ WorkingWith(worker[w], k).task \in Task
    <3>1. [worker[w] EXCEPT !.pc = "working"] \in Attempt
      BY DEF TypeParts, WorkersOK, Attempt
    <3>2. [[worker[w] EXCEPT !.pc = "working"] EXCEPT !.token = k] \in Attempt
      BY <3>1 DEF Attempt
    <3> QED BY <2>1, <3>2 DEF WorkingWith, Attempt, TypeParts, WorkersOK
  <2> QED BY <1>2, <2>1, <2>2, <2>3, <2>4, OneRowType, OneWorkerType
          DEF ClaimExecution, TypeParts
<1>3. CASE IgnoreDelivery(w)
  BY <1>3, GoToType DEF IgnoreDelivery, At, TypeParts
<1>4. CASE Succeed(w)
  <2>1. t \in Task
    BY <1>4 DEF Succeed, TypeParts, WorkersOK, At
  <2>2. RowsOK(row')
    BY <1>4, <2>1, ClosedWrite, OneRowType DEF Succeed, TypeParts, RowsOK, LeaseOK, Status, Terminal
  <2>3. parse' \in ParseType /\ result' \in [Task -> BOOLEAN]
    BY <1>4, <2>1 DEF Succeed, TypeParts, ParseType, Terminal
  <2> QED BY <1>4, <2>2, <2>3, GoToType DEF Succeed, At, TypeParts
<1>5. CASE Fail(w)
  BY <1>5, GoToType, FailRowsType, FailResumesType DEF Fail, At, TypeParts
<1>6. CASE ReleaseForRetry(w)
  <2>1. t \in Task
    BY <1>6 DEF ReleaseForRetry, TypeParts, WorkersOK, At
  <2>2. RowsOK(row')
    BY <1>6, <2>1, ClosedWrite, OneRowType DEF ReleaseForRetry, TypeParts, RowsOK, LeaseOK, Status
  <2> QED BY <1>6, <2>2, GoToType DEF ReleaseForRetry, At, TypeParts
<1>7. CASE IgnoreOutcome(w)
  BY <1>7, GoToType DEF IgnoreOutcome, At, TypeParts
<1>8. CASE SendRetry(w)
  BY <1>8, GoToType, PlusType DEF SendRetry, At, TypeParts
<1>9. CASE Ack(w) \/ HardKill(w)
  BY <1>9, IdleType, OneWorkerType DEF Ack, HardKill, TypeParts
<1>10. CASE Interrupt(w)
  BY <1>10, GoToType, FailRowsType, FailResumesType DEF Interrupt, Busy, At, TypeParts
<1> QED BY <1>1, <1>2, <1>3, <1>4, <1>5, <1>6, <1>7, <1>8, <1>9, <1>10 DEF WorkerStep

(* Every row, message, attempt and lease the system can reach is well       *)
(* formed; in particular a row holds an execution token and an unexpired    *)
(* lease only while it runs.                                                *)
THEOREM TypeCorrect == Spec => []TypeOK
<1>1. Init => TypeOK
  BY TypeInit, TypeOKParts
<1>2. TypeOK /\ [Next]_vars => TypeOK'
  <2> SUFFICES ASSUME TypeParts, [Next]_vars PROVE TypeParts'
    BY TypeOKParts
  <2>1. CASE UNCHANGED vars
    BY <2>1 DEF vars, TypeParts, RowsOK, WorkersOK
  <2> QED BY <2>1, TypeAPI, TypeDispatcher, TypeWorker, TypeFault, TypeTick DEF Next
<1> QED BY <1>1, <1>2, PTL DEF Spec

-----------------------------------------------------------------------------
(* Exclusive execution.  A working worker w is covered by its row: the row  *)
(* still holds its lease, with enough time left for the time w has used, or *)
(* the task was finished over its head and will not be claimed again.       *)
HoldsLease(w) ==
  LET r == row[worker[w].task] IN
  /\ r.status = "running"
  /\ r.execToken = worker[w].token
  /\ r.execLease + worker[w].clock >= ExecLease

Covered(w) == HoldsLease(w) \/ row[worker[w].task].status \in Terminal

ExecInv ==
  /\ \A w \in Worker : At(w, "working") => Covered(w)
  /\ ExclusiveExecution

(* The columns of a row that say who executes it.                           *)
SameExecution(r, s) ==
  r.status = s.status /\ r.execToken = s.execToken /\ r.execLease = s.execLease

(* A step that lets nobody start work, and changes the row under a worker   *)
(* that goes on working only by finishing the task, keeps the invariant.    *)
LEMMA NobodyStarts ==
  ASSUME ExecInv,
         \A w \in Worker : worker'[w].pc = "working" =>
           /\ worker'[w] = worker[w]
           /\ \/ SameExecution(row[worker[w].task], row'[worker[w].task])
              \/ row'[worker[w].task].status \in Terminal
  PROVE  ExecInv'
  BY DEF ExecInv, Covered, HoldsLease, SameExecution, ExclusiveExecution, At

(* What a step that moves only worker w, and takes it out of its work, owes. *)
LEMMA OneStops ==
  ASSUME TypeParts, ExecInv, NEW w \in Worker, NEW a,
         worker' = [worker EXCEPT ![w] = a], a.pc # "working",
         \A v \in Worker : (v # w /\ At(v, "working")) =>
           \/ SameExecution(row[worker[v].task], row'[worker[v].task])
           \/ row'[worker[v].task].status \in Terminal
  PROVE  ExecInv'
<1>1. \A v \in Worker : v # w => worker'[v] = worker[v]
  BY DEF TypeParts, WorkersOK
<1>2. worker'[w].pc # "working"
  BY DEF TypeParts, WorkersOK
<1> QED BY <1>1, <1>2, NobodyStarts DEF At

(* Moving w from its work to another point of its task is such a change.    *)
LEMMA GoToStops ==
  ASSUME TypeParts, ExecInv, NEW w \in Worker, NEW pc, pc # "working", GoTo(w, pc),
         \A v \in Worker : (v # w /\ At(v, "working")) =>
           \/ SameExecution(row[worker[v].task], row'[worker[v].task])
           \/ row'[worker[v].task].status \in Terminal
  PROVE  ExecInv'
<1> DEFINE a == [worker[w] EXCEPT !.pc = pc, !.token = NoToken]
<1>1. worker' = [worker EXCEPT ![w] = a]
  BY DEF GoTo
<1>2. a.pc # "working"
  BY DEF TypeParts, WorkersOK, Attempt
<1> QED BY <1>1, <1>2, OneStops

(* Failing the rows of S changes no other row.                              *)
LEMMA FailRowsEffect ==
  ASSUME RowsOK(row), NEW S, NEW t \in Task
  PROVE  SameExecution(row[t], FailRows(S)[t]) \/ FailRows(S)[t].status \in Terminal
<1>1. row[t] \in Row
  BY DEF RowsOK
<1>2. Closed(row[t], "failed").status = "failed"
  BY <1>1 DEF Closed, Row
<1> QED BY <1>2 DEF FailRows, SameExecution, Terminal

(* An upload starts a row nobody works on; a deletion touches no row.       *)
LEMMA ExecAPI == TypeParts /\ ExecInv /\ APIStep => ExecInv'
<1> SUFFICES ASSUME TypeParts, ExecInv, NEW t \in Task, Submit(t) \/ Delete(t)
             PROVE  ExecInv'
  BY DEF APIStep
<1>1. CASE Submit(t)
  <2>1. ASSUME NEW w \in Worker, At(w, "working")
        PROVE  SameExecution(row[worker[w].task], row'[worker[w].task])
    <3>1. worker[w].task # t
      BY <1>1, <2>1 DEF Submit, ExecInv, Covered, HoldsLease, Terminal
    <3>2. worker[w].task \in Task
      BY <2>1 DEF TypeParts, WorkersOK, At
    <3> QED BY <1>1, <3>1, <3>2 DEF Submit, SameExecution, TypeParts, RowsOK
  <2>2. worker' = worker
    BY <1>1 DEF Submit
  <2> QED BY <2>1, <2>2, NobodyStarts DEF At
<1>2. CASE Delete(t)
  BY <1>2, NobodyStarts DEF Delete, SameExecution, At
<1> QED BY <1>1, <1>2

(* Claiming a batch for publication changes the execution of no row.        *)
LEMMA ClaimKeeps ==
  ASSUME TypeParts, NEW d \in Dispatcher, ClaimDispatchBatch(d), NEW t \in Task
  PROVE  SameExecution(row[t], row'[t])
<1>0. PICK S \in SUBSET {u \in Task : Dispatchable(u)} :
        /\ S # {} /\ Cardinality(S) <= BatchSize
        /\ \E token \in [S -> Token] :
            /\ \A u \in S : FreshDispatchToken(token[u])
            /\ \A u, v \in S : token[u] = token[v] => u = v
            /\ row' = [u \in Task |->
                 IF u \in S THEN ClaimedForDispatch(row[u], token[u]) ELSE row[u]]
            /\ lease' = [lease EXCEPT ![d] = [u \in Task |->
                 IF u \in S THEN [stage |-> "claimed", token |-> token[u]]
                 ELSE NotHeld]]
  BY DEF ClaimDispatchBatch
<1>1. PICK token \in [S -> Token] :
        row' = [u \in Task |->
          IF u \in S THEN ClaimedForDispatch(row[u], token[u]) ELSE row[u]]
  BY <1>0
<1>2. row[t] \in Row
  BY DEF TypeParts, RowsOK
<1>3. CASE t \in S
  <2>1. token[t] \in Token
    BY <1>3
  <2>2. row'[t] = ClaimedForDispatch(row[t], token[t])
    BY <1>1, <1>3
  <2> QED BY <1>2, <2>1, <2>2, ClaimWrite DEF SameExecution
<1>4. CASE t \notin S
  BY <1>1, <1>4 DEF SameExecution
<1> QED BY <1>3, <1>4

(* The dispatcher changes no execution; the recovery only finishes tasks.   *)
LEMMA ExecDispatcher ==
  ASSUME TypeParts, ExecInv, NEW d \in Dispatcher, DispatcherStep(d)
  PROVE  ExecInv'
<1>0. \A w \in Worker : At(w, "working") => worker[w].task \in Task
  BY DEF TypeParts, WorkersOK, At
<1>1. CASE ClaimDispatchBatch(d)
  <2>1. \A t \in Task : SameExecution(row[t], row'[t])
    BY <1>1, ClaimKeeps
  <2>2. worker' = worker
    BY <1>1 DEF ClaimDispatchBatch
  <2> QED BY <1>0, <2>1, <2>2, NobodyStarts DEF At
<1>2. CASE RecoverStalled(d)
  <2>1. \A t \in Task : SameExecution(row[t], row'[t]) \/ row'[t].status \in Terminal
    BY <1>2, FailRowsEffect DEF RecoverStalled, TypeParts
  <2>2. worker' = worker
    BY <1>2 DEF RecoverStalled
  <2> QED BY <1>0, <2>1, <2>2, NobodyStarts DEF At
<1>3. ASSUME NEW t \in Task, Publish(d, t) PROVE ExecInv'
  BY <1>3, NobodyStarts DEF Publish, SameExecution, At
<1>4. ASSUME NEW t \in Task, ConfirmDispatch(d, t) PROVE ExecInv'
  <2>1. ASSUME NEW u \in Task PROVE SameExecution(row[u], row'[u])
    <3>1. row[t] \in Row
      BY DEF TypeParts, RowsOK
    <3>2. SameExecution(row[t], DispatchConfirmed(row[t]))
      BY <3>1, ReleaseWrites DEF SameExecution
    <3> QED BY <1>4, <3>2 DEF ConfirmDispatch, SameExecution, TypeParts, RowsOK
  <2>2. worker' = worker
    BY <1>4 DEF ConfirmDispatch
  <2> QED BY <1>0, <2>1, <2>2, NobodyStarts DEF At
<1>5. ASSUME NEW t \in Task, ReleaseDispatch(d, t) PROVE ExecInv'
  <2>1. ASSUME NEW u \in Task PROVE SameExecution(row[u], row'[u])
    <3>1. row[t] \in Row
      BY DEF TypeParts, RowsOK
    <3>2. SameExecution(row[t], DispatchReleased(row[t]))
      BY <3>1, ReleaseWrites DEF SameExecution
    <3> QED BY <1>5, <3>2 DEF ReleaseDispatch, SameExecution, TypeParts, RowsOK
  <2>2. worker' = worker
    BY <1>5 DEF ReleaseDispatch
  <2> QED BY <1>0, <2>1, <2>2, NobodyStarts DEF At
<1> QED BY <1>1, <1>2, <1>3, <1>4, <1>5 DEF DispatcherStep

(* A crash stops a worker, and a failed publication changes no execution.   *)
LEMMA ExecFault == TypeParts /\ ExecInv /\ FaultStep => ExecInv'
<1> SUFFICES ASSUME TypeParts, ExecInv, FaultStep PROVE ExecInv'
  OBVIOUS
<1>0. \A w \in Worker : At(w, "working") => worker[w].task \in Task
  BY DEF TypeParts, WorkersOK, At
<1>1. ASSUME NEW d \in Dispatcher, DispatcherCrash(d) PROVE ExecInv'
  BY <1>1, NobodyStarts DEF DispatcherCrash, SameExecution, At
<1>2. ASSUME NEW d \in Dispatcher, NEW t \in Task, PublishFails(d, t) PROVE ExecInv'
  BY <1>2, NobodyStarts DEF PublishFails, SameExecution, At
<1>3. ASSUME NEW w \in Worker, Abort(w) PROVE ExecInv'
  BY <1>3, GoToStops DEF Abort, SameExecution
<1>4. ASSUME NEW w \in Worker, WorkerCrash(w) PROVE ExecInv'
  BY <1>4, IdleType, OneStops DEF WorkerCrash, SameExecution
<1> QED BY <1>1, <1>2, <1>3, <1>4 DEF FaultStep

(* Time takes from a lease what it gives to the clock of its holder.        *)
LEMMA ExecTick == TypeParts /\ ExecInv /\ Tick => ExecInv'
<1> SUFFICES ASSUME TypeParts, ExecInv, Tick PROVE ExecInv'
  OBVIOUS
<1>1. ASSUME NEW w \in Worker
      PROVE  /\ worker'[w].pc = worker[w].pc /\ worker'[w].task = worker[w].task
             /\ worker'[w].token = worker[w].token
             /\ worker[w].pc = "working" => worker'[w].clock = worker[w].clock + 1
             /\ worker[w].clock \in Nat
  <2>1. worker[w] \in Attempt
    BY DEF TypeParts, WorkersOK
  <2> QED BY <2>1, Numbers DEF Tick, At, Attempt
<1>2. ASSUME NEW w \in Worker, worker[w].pc = "working", Covered(w)
      PROVE  Covered(w)'
  <2> DEFINE t == worker[w].task
  <2>1. t \in Task /\ row[t] \in Row
    BY <1>2 DEF TypeParts, WorkersOK, RowsOK
  <2>2. /\ row'[t].status = row[t].status /\ row'[t].execToken = row[t].execToken
        /\ row'[t].execLease = Down(row[t].execLease)
    BY <2>1, AgedWrite DEF Tick
  <2>3. row[t].execLease \in Nat
    BY <2>1, Numbers DEF Row
  <2>4. HoldsLease(w) => HoldsLease(w)'
    BY <1>1, <1>2, <2>2, <2>3, Numbers DEF HoldsLease, Down
  <2> QED BY <1>1, <1>2, <2>2, <2>4 DEF Covered
<1> QED BY <1>1, <1>2 DEF ExecInv, ExclusiveExecution, At

(* A claim finds no other worker inside the task: its lease would outlive   *)
(* the limit that killed that worker.                                       *)
LEMMA ExecClaim ==
  ASSUME LeaseOutlivesHardLimit, TypeParts, ExecInv, NEW w \in Worker, ClaimExecution(w)
  PROVE  ExecInv'
<1> DEFINE t == worker[w].task
<1>1. t \in Task /\ row[t] \in Row /\ worker[w] \in Attempt
  BY DEF ClaimExecution, TypeParts, WorkersOK, RowsOK, At
<1>2. PICK k \in Token : /\ row' = [row EXCEPT ![t] = Leased(row[t], k)]
                         /\ worker' = [worker EXCEPT ![w] = WorkingWith(worker[w], k)]
  BY DEF ClaimExecution
<1>3. ASSUME NEW v \in Worker, At(v, "working") PROVE worker[v].task # t
  <2>1. worker[v].clock \in 0..HardLimit
    BY DEF TypeParts, WorkersOK, Attempt
  <2>2. ~(row[t].execLease = 0 /\ row[t].execLease + worker[v].clock >= ExecLease)
    BY <2>1, Numbers DEF LeaseOutlivesHardLimit
  <2> QED BY <1>3, <2>2 DEF ClaimExecution, Claimable, ExecInv, Covered, HoldsLease, Terminal
<1>4. /\ worker'[w].pc = "working" /\ worker'[w].task = t /\ worker'[w].token = k
      /\ worker'[w].clock = worker[w].clock
      /\ \A v \in Worker : v # w => worker'[v] = worker[v]
  BY <1>1, <1>2 DEF TypeParts, WorkersOK, WorkingWith, Attempt
<1>5. /\ row'[t] = Leased(row[t], k)
      /\ \A u \in Task : u # t => row'[u] = row[u]
  BY <1>1, <1>2 DEF TypeParts, RowsOK
<1>6. Covered(w)'
  <2>1. worker[w].clock \in Nat
    BY <1>1, Numbers DEF Attempt
  <2> QED BY <1>1, <1>4, <1>5, <2>1, LeasedWrite, Numbers DEF Covered, HoldsLease
<1>7. ASSUME NEW v \in Worker, v # w, At(v, "working") PROVE Covered(v)'
  <2>1. worker[v].task # t /\ worker[v].task \in Task
    BY <1>3, <1>7 DEF TypeParts, WorkersOK, At
  <2> QED BY <1>4, <1>5, <1>7, <2>1 DEF ExecInv, Covered, HoldsLease
<1> QED BY <1>3, <1>4, <1>6, <1>7 DEF ExecInv, ExclusiveExecution, At

(* Every other step of a worker stops it or finishes its task.              *)
LEMMA ExecWorker ==
  ASSUME LeaseOutlivesHardLimit, TypeParts, ExecInv, NEW w \in Worker, WorkerStep(w)
  PROVE  ExecInv'
<1> DEFINE t == worker[w].task
<1>0. \A v \in Worker : At(v, "working") => worker[v].task \in Task /\ row[worker[v].task] \in Row
  BY DEF TypeParts, WorkersOK, RowsOK, At
<1>1. ASSUME NEW m \in Message, Deliver(w, m) PROVE ExecInv'
  <2> DEFINE a == [pc |-> "started", task |-> m.task, retries |-> m.retries,
                   token |-> NoToken, clock |-> 0]
  <2>1. worker' = [worker EXCEPT ![w] = a] /\ a.pc # "working"
    BY <1>1 DEF Deliver
  <2> HIDE DEF a
  <2> QED BY <1>1, <2>1, OneStops DEF Deliver, SameExecution
<1>2. CASE ClaimExecution(w)
  BY <1>2, ExecClaim
<1>3. CASE IgnoreDelivery(w)
  BY <1>3, GoToStops DEF IgnoreDelivery, SameExecution
<1>4. CASE Succeed(w)
  <2>1. ASSUME NEW v \in Worker, v # w, At(v, "working")
        PROVE  SameExecution(row[worker[v].task], row'[worker[v].task])
    <3>1. worker[v].task # t
      BY <1>4, <2>1 DEF Succeed, ExecInv, ExclusiveExecution
    <3> QED BY <1>4, <3>1 DEF Succeed, SameExecution, TypeParts, RowsOK
  <2>2. GoTo(w, "done")
    BY <1>4 DEF Succeed
  <2> QED BY <1>0, <2>1, <2>2, GoToStops
<1>5. CASE Fail(w)
  <2>1. ASSUME NEW u \in Task PROVE SameExecution(row[u], row'[u]) \/ row'[u].status \in Terminal
    BY <1>5, FailRowsEffect DEF Fail, TypeParts
  <2>2. GoTo(w, "done")
    BY <1>5 DEF Fail
  <2> QED BY <1>0, <2>1, <2>2, GoToStops
<1>6. CASE ReleaseForRetry(w)
  <2>1. ASSUME NEW v \in Worker, v # w, At(v, "working")
        PROVE  SameExecution(row[worker[v].task], row'[worker[v].task])
    <3>1. worker[v].task # t
      BY <1>6, <2>1 DEF ReleaseForRetry, ExecInv, ExclusiveExecution
    <3> QED BY <1>6, <3>1 DEF ReleaseForRetry, SameExecution, TypeParts, RowsOK
  <2>2. GoTo(w, "retrying")
    BY <1>6 DEF ReleaseForRetry
  <2> QED BY <1>0, <2>1, <2>2, GoToStops
<1>7. CASE IgnoreOutcome(w)
  BY <1>7, GoToStops DEF IgnoreOutcome, SameExecution
<1>8. CASE SendRetry(w)
  BY <1>8, GoToStops DEF SendRetry, SameExecution
<1>9. CASE Ack(w) \/ HardKill(w)
  BY <1>9, IdleType, OneStops DEF Ack, HardKill, SameExecution
<1>10. CASE Interrupt(w)
  <2>1. ASSUME NEW u \in Task PROVE SameExecution(row[u], row'[u]) \/ row'[u].status \in Terminal
    BY <1>10, FailRowsEffect DEF Interrupt, TypeParts
  <2>2. GoTo(w, "done")
    BY <1>10 DEF Interrupt
  <2> QED BY <1>0, <2>1, <2>2, GoToStops
<1> QED BY <1>1, <1>2, <1>3, <1>4, <1>5, <1>6, <1>7, <1>8, <1>9, <1>10 DEF WorkerStep

(* When the execution lease outlives the hard limit, two workers are never  *)
(* inside the same task, whatever is redelivered, published twice, crashed  *)
(* or recovered.                                                            *)
THEOREM OneExecution ==
  ASSUME LeaseOutlivesHardLimit
  PROVE  Spec => []ExclusiveExecution
<1>1. Init => ExecInv
  BY DEF Init, ExecInv, ExclusiveExecution, At, Idle
<1>2. TypeOK /\ ExecInv /\ [Next]_vars => ExecInv'
  <2> SUFFICES ASSUME TypeParts, ExecInv, [Next]_vars PROVE ExecInv'
    BY TypeOKParts
  <2>1. CASE UNCHANGED vars
    BY <2>1, NobodyStarts DEF vars, SameExecution, At
  <2> QED BY <2>1, ExecAPI, ExecDispatcher, ExecWorker, ExecFault, ExecTick DEF Next
<1>3. ExecInv => ExclusiveExecution
  BY DEF ExecInv
<1> QED BY <1>1, <1>2, <1>3, TypeCorrect, PTL DEF Spec

-----------------------------------------------------------------------------
(* Agreement of the task row with the resume, the result and the deletion.  *)
(* It is inductive together with the types.                                 *)
SameTask(t) ==
  /\ row'[t].status = row[t].status
  /\ t \in ResumeTask => parse'[t] = parse[t]
  /\ result'[t] = result[t] /\ deleted'[t] = deleted[t]

(* The step fails the running task t, and its resume if it is processing.   *)
FailsTask(t) ==
  /\ row[t].status = "running" /\ row'[t].status = "failed"
  /\ t \in ResumeTask =>
       parse'[t] = IF parse[t] = "processing" THEN "failed" ELSE parse[t]
  /\ result'[t] = result[t] /\ deleted'[t] = deleted[t]

(* A task the step leaves alone, or fails while it runs, still agrees, and  *)
(* if it was finished nothing about it changed.                             *)
LEMMA AgreeFrame ==
  ASSUME NEW t \in Task, Agrees(t), SameTask(t) \/ FailsTask(t)
  PROVE  Agrees(t)' /\ FinalOf(t)
  BY DEF Agrees, SameTask, FailsTask, FinalOf, Terminal

(* Failing the running tasks of S fails those and leaves the others alone.  *)
LEMMA FailsOrSame ==
  ASSUME TypeParts, NEW S, \A t \in S \intersect Task : row[t].status = "running",
         row' = FailRows(S), parse' = FailResumes(S),
         UNCHANGED <<result, deleted>>, NEW t \in Task
  PROVE  SameTask(t) \/ FailsTask(t)
<1>1. row[t] \in Row
  BY DEF TypeParts, RowsOK
<1>2. CASE t \in S
  <2>1. Closed(row[t], "failed").status = "failed"
    BY <1>1 DEF Closed, Row
  <2> QED BY <1>2, <2>1 DEF FailRows, FailResumes, FailsTask
<1>3. CASE t \notin S
  BY <1>3 DEF FailRows, FailResumes, SameTask
<1> QED BY <1>2, <1>3

AgreedStep == ResultAgreesWithTask' /\ \A t \in Task : FinalOf(t)

(* A step that leaves alone or fails each task keeps the agreement.         *)
LEMMA AgreeStep ==
  ASSUME ResultAgreesWithTask, \A t \in Task : SameTask(t) \/ FailsTask(t)
  PROVE  AgreedStep
  BY AgreeFrame DEF ResultAgreesWithTask, AgreedStep

(* A step that rewrites one task and leaves the others alone.               *)
LEMMA AgreeOne ==
  ASSUME ResultAgreesWithTask, NEW t \in Task, Agrees(t)', FinalOf(t),
         \A u \in Task : u # t => SameTask(u)
  PROVE  AgreedStep
  BY AgreeFrame DEF ResultAgreesWithTask, AgreedStep

(* The upload opens a task and the deletion asks for a finished one.        *)
LEMMA AgreeAPI == TypeParts /\ ResultAgreesWithTask /\ APIStep => AgreedStep
<1> SUFFICES ASSUME TypeParts, ResultAgreesWithTask, NEW t \in Task, Submit(t) \/ Delete(t)
             PROVE  AgreedStep
  BY DEF APIStep
<1>0. Agrees(t) /\ row[t] \in Row
  BY DEF ResultAgreesWithTask, TypeParts, RowsOK
<1>1. CASE Submit(t)
  <2>1. row'[t].status = "queued"
    BY <1>1, <1>0 DEF Submit, TypeParts, RowsOK, Row
  <2>2. t \in ResumeTask => parse'[t] = "processing"
    BY <1>1 DEF Submit, TypeParts, ParseType
  <2>3. Agrees(t)' /\ FinalOf(t)
    BY <1>0, <1>1, <2>1, <2>2 DEF Submit, Agrees, FinalOf, Terminal
  <2>4. \A u \in Task : u # t => SameTask(u)
    BY <1>1 DEF Submit, SameTask, TypeParts, RowsOK, ParseType
  <2> QED BY <2>3, <2>4, AgreeOne
<1>2. CASE Delete(t)
  <2>1. deleted'[t] /\ row' = row /\ parse' = parse
    BY <1>2 DEF Delete, TypeParts
  <2>2. row[t].status \in Terminal
    BY <1>0, <1>2 DEF Delete, Agrees, Terminal
  <2>3. IF t \in ResumeTask THEN result' = result ELSE ~result'[t]
    BY <1>2 DEF Delete, TypeParts
  <2>4. Agrees(t)' /\ FinalOf(t)
    BY <1>0, <1>2, <2>1, <2>2, <2>3 DEF Delete, Agrees, FinalOf
  <2>5. \A u \in Task : u # t => SameTask(u)
    BY <1>2 DEF Delete, SameTask, TypeParts
  <2> QED BY <2>4, <2>5, AgreeOne
<1> QED BY <1>1, <1>2

(* The dispatcher changes the status of no task, except for those it fails. *)
LEMMA AgreeDispatcher ==
  ASSUME TypeParts, ResultAgreesWithTask, NEW d \in Dispatcher, DispatcherStep(d)
  PROVE  AgreedStep
<1>1. CASE ClaimDispatchBatch(d)
  <2>1. \A t \in Task : row'[t].status = row[t].status
    BY <1>1, ClaimKeeps DEF SameExecution
  <2> QED BY <1>1, <2>1, AgreeStep DEF ClaimDispatchBatch, SameTask
<1>2. CASE RecoverStalled(d)
  <2>1. ASSUME NEW t \in Task PROVE SameTask(t) \/ FailsTask(t)
    BY <1>2, FailsOrSame DEF RecoverStalled, Stalled
  <2> QED BY <2>1, AgreeStep
<1>3. ASSUME NEW t \in Task, Publish(d, t) PROVE AgreedStep
  BY <1>3, AgreeStep DEF Publish, SameTask
<1>4. ASSUME NEW t \in Task, ConfirmDispatch(d, t) PROVE AgreedStep
  <2>1. \A u \in Task : row'[u].status = row[u].status
    <3>1. row[t] \in Row
      BY DEF TypeParts, RowsOK
    <3>2. DispatchConfirmed(row[t]).status = row[t].status
      BY <3>1, ReleaseWrites
    <3> QED BY <1>4, <3>2 DEF ConfirmDispatch, TypeParts, RowsOK
  <2> QED BY <1>4, <2>1, AgreeStep DEF ConfirmDispatch, SameTask
<1>5. ASSUME NEW t \in Task, ReleaseDispatch(d, t) PROVE AgreedStep
  <2>1. \A u \in Task : row'[u].status = row[u].status
    <3>1. row[t] \in Row
      BY DEF TypeParts, RowsOK
    <3>2. DispatchReleased(row[t]).status = row[t].status
      BY <3>1, ReleaseWrites
    <3> QED BY <1>5, <3>2 DEF ReleaseDispatch, TypeParts, RowsOK
  <2> QED BY <1>5, <2>1, AgreeStep DEF ReleaseDispatch, SameTask
<1> QED BY <1>1, <1>2, <1>3, <1>4, <1>5 DEF DispatcherStep

(* Faults change the status of no task.                                     *)
LEMMA AgreeFault == TypeParts /\ ResultAgreesWithTask /\ FaultStep => AgreedStep
<1> SUFFICES ASSUME TypeParts, ResultAgreesWithTask, FaultStep PROVE AgreedStep
  OBVIOUS
<1>1. ASSUME NEW d \in Dispatcher, DispatcherCrash(d) PROVE AgreedStep
  BY <1>1, AgreeStep DEF DispatcherCrash, SameTask
<1>2. ASSUME NEW d \in Dispatcher, NEW t \in Task, PublishFails(d, t) PROVE AgreedStep
  BY <1>2, AgreeStep DEF PublishFails, SameTask
<1>3. ASSUME NEW w \in Worker, Abort(w) \/ WorkerCrash(w) PROVE AgreedStep
  BY <1>3, AgreeStep DEF Abort, WorkerCrash, SameTask
<1> QED BY <1>1, <1>2, <1>3 DEF FaultStep

(* A worker opens, finishes or requeues only a task whose row still runs    *)
(* under its token.                                                         *)
LEMMA AgreeWorker ==
  ASSUME TypeParts, ResultAgreesWithTask, NEW w \in Worker, WorkerStep(w)
  PROVE  AgreedStep
<1>0. \A t \in Task : row[t] \in Row /\ Agrees(t)
  BY DEF TypeParts, RowsOK, ResultAgreesWithTask
<1>1. CASE \/ \E m \in Message : Deliver(w, m)
           \/ IgnoreDelivery(w) \/ IgnoreOutcome(w) \/ SendRetry(w)
           \/ Ack(w) \/ HardKill(w)
  BY <1>1, AgreeStep
     DEF Deliver, IgnoreDelivery, IgnoreOutcome, SendRetry, Ack, HardKill, SameTask
<1>2. ASSUME NEW t \in Task, t = worker[w].task, ClaimExecution(w) PROVE AgreedStep
  <2>1. row[t] \in Row /\ Agrees(t)
    BY <1>0
  <2>2. row'[t].status = "running"
    BY <1>2, <2>1, LeasedWrite DEF ClaimExecution, TypeParts, RowsOK
  <2>3. Agrees(t)' /\ FinalOf(t)
    BY <1>2, <2>1, <2>2 DEF ClaimExecution, Claimable, Agrees, FinalOf, Terminal
  <2>4. \A u \in Task : u # t => SameTask(u)
    BY <1>2 DEF ClaimExecution, SameTask, TypeParts, RowsOK
  <2> QED BY <2>1, <2>3, <2>4, AgreeOne
<1>3. ASSUME NEW t \in Task, t = worker[w].task, Succeed(w) PROVE AgreedStep
  <2>1. row[t] \in Row /\ Agrees(t)
    BY <1>0
  <2>2. row'[t].status = "succeeded"
    <3>1. Closed(row[t], "succeeded").status = "succeeded"
      BY <2>1 DEF Closed, Row
    <3> QED BY <1>3, <2>1, <3>1 DEF Succeed, TypeParts, RowsOK
  <2>3. /\ t \in ResumeTask => parse'[t] = "succeeded"
        /\ result'[t] /\ deleted' = deleted /\ ~deleted[t]
    BY <1>3, <2>1 DEF Succeed, ResultWritable, TypeParts, ParseType
  <2>4. Agrees(t)' /\ FinalOf(t)
    BY <1>3, <2>1, <2>2, <2>3 DEF Succeed, OwnsExecution, Agrees, FinalOf, Terminal
  <2>5. \A u \in Task : u # t => SameTask(u)
    BY <1>3 DEF Succeed, SameTask, TypeParts, RowsOK, ParseType
  <2> QED BY <2>1, <2>4, <2>5, AgreeOne
<1>4. ASSUME NEW t \in Task, t = worker[w].task, Fail(w) PROVE AgreedStep
  <2>1. ASSUME NEW u \in Task PROVE SameTask(u) \/ FailsTask(u)
    <3> DEFINE S == {t}
    <3>1. \A v \in S \intersect Task : row[v].status = "running"
      BY <1>4 DEF Fail, OwnsExecution
    <3>2. row' = FailRows(S) /\ parse' = FailResumes(S) /\ UNCHANGED <<result, deleted>>
      BY <1>4 DEF Fail
    <3> HIDE DEF S
    <3> QED BY <3>1, <3>2, FailsOrSame
  <2> QED BY <2>1, AgreeStep
<1>5. ASSUME NEW t \in Task, t = worker[w].task, ReleaseForRetry(w) PROVE AgreedStep
  <2>1. row[t] \in Row /\ Agrees(t)
    BY <1>0
  <2>2. row'[t].status = "queued"
    <3>1. Requeued(row[t]).status = "queued"
      BY <2>1 DEF Requeued, Closed, Row
    <3> QED BY <1>5, <2>1, <3>1 DEF ReleaseForRetry, TypeParts, RowsOK
  <2>3. Agrees(t)' /\ FinalOf(t)
    BY <1>5, <2>1, <2>2 DEF ReleaseForRetry, OwnsExecution, Agrees, FinalOf, Terminal
  <2>4. \A u \in Task : u # t => SameTask(u)
    BY <1>5 DEF ReleaseForRetry, SameTask, TypeParts, RowsOK
  <2> QED BY <2>1, <2>3, <2>4, AgreeOne
<1>6. CASE Interrupt(w)
  <2>1. ASSUME NEW u \in Task PROVE SameTask(u) \/ FailsTask(u)
    <3> DEFINE S == {worker[w].task} \intersect
                    {v \in Task : row[v].status = "running" /\ row[v].execLease > 0}
    <3>1. \A v \in S \intersect Task : row[v].status = "running"
      OBVIOUS
    <3>2. row' = FailRows(S) /\ parse' = FailResumes(S) /\ UNCHANGED <<result, deleted>>
      BY <1>6 DEF Interrupt
    <3> HIDE DEF S
    <3> QED BY <3>1, <3>2, FailsOrSame
  <2> QED BY <2>1, AgreeStep
<1>7. CASE worker[w].pc # "idle"
  <2>1. worker[w].task \in Task
    BY <1>7 DEF TypeParts, WorkersOK
  <2> QED BY <1>1, <1>2, <1>3, <1>4, <1>5, <1>6, <2>1 DEF WorkerStep
<1>8. CASE worker[w].pc = "idle"
  BY <1>1, <1>6, <1>8
     DEF WorkerStep, ClaimExecution, Succeed, Fail, ReleaseForRetry, At
<1> QED BY <1>7, <1>8

(* Every step of the system keeps the agreement and rewrites no finished    *)
(* task.                                                                    *)
LEMMA AgreeNext == TypeOK /\ ResultAgreesWithTask /\ [Next]_vars => AgreedStep
<1> SUFFICES ASSUME TypeParts, ResultAgreesWithTask, [Next]_vars PROVE AgreedStep
  BY TypeOKParts
<1>1. CASE UNCHANGED vars
  BY <1>1, AgreeStep DEF vars, SameTask
<1>2. CASE Tick
  <2>1. \A t \in Task : row'[t].status = row[t].status
    BY <1>2, AgedWrite DEF Tick, TypeParts, RowsOK
  <2> QED BY <1>2, <2>1, AgreeStep DEF Tick, SameTask
<1> QED BY <1>1, <1>2, AgreeAPI, AgreeDispatcher, AgreeWorker, AgreeFault DEF Next

(* The task row, the parse status of the resume, the profile or snapshot    *)
(* and the deletion agree in every reachable state, whoever wrote last.     *)
THEOREM ResultAgreement == Spec => []ResultAgreesWithTask
<1>1. Init => ResultAgreesWithTask
  BY DEF Init, ResultAgreesWithTask, Agrees, NewRow
<1>2. TypeOK /\ ResultAgreesWithTask /\ [Next]_vars => ResultAgreesWithTask'
  BY AgreeNext DEF AgreedStep
<1> QED BY <1>1, <1>2, TypeCorrect, PTL DEF Spec

(* No step ever reopens or rewrites a finished task.                        *)
THEOREM FinalTasksStay == Spec => TerminalIsFinal
<1>1. TypeOK /\ ResultAgreesWithTask /\ [Next]_vars => [\A t \in Task : FinalOf(t)]_vars
  BY AgreeNext DEF AgreedStep
<1> QED BY <1>1, TypeCorrect, ResultAgreement, PTL DEF Spec, TerminalIsFinal

-----------------------------------------------------------------------------
(* The refinement: the status of each task, its result and its deletion.    *)

LifeStep == [Lifecycle!Next]_(Lifecycle!lvars)

(* A step that moves no task, deletes and yields nothing stutters.          *)
LEMMA LifeSame ==
  ASSUME \A t \in Task : row'[t].status = row[t].status, UNCHANGED <<result, deleted>>
  PROVE  LifeStep
<1>1. [t \in Task |-> row[t].status]' = [t \in Task |-> row[t].status]
  OBVIOUS
<1> QED BY <1>1 DEF LifeStep, Lifecycle!lvars

(* A step that moves one task.                                              *)
LEMMA LifeMove ==
  ASSUME NEW t \in Task, NEW from, NEW to, row[t].status = from, row'[t].status = to,
         \A u \in Task \ {t} : row'[u].status = row[u].status
  PROVE  Lifecycle!Move(t, from, to)
  BY DEF Lifecycle!Move

(* A step that fails the running tasks of a set.                            *)
LEMMA LifeFail ==
  ASSUME TypeParts, NEW S, \A t \in S : t \in Task /\ row[t].status = "running",
         row' = FailRows(S), UNCHANGED <<result, deleted>>
  PROVE  LifeStep
<1>1. \A t \in Task : row'[t].status = IF t \in S THEN "failed" ELSE row[t].status
  <2>1. \A t \in Task : Closed(row[t], "failed").status = "failed"
    BY DEF TypeParts, RowsOK, Closed, Row
  <2> QED BY <2>1 DEF FailRows
<1>2. S \in SUBSET Task /\ Lifecycle!Fail(S)
  BY <1>1 DEF Lifecycle!Fail
<1> QED BY <1>2 DEF LifeStep, Lifecycle!Next
(* The upload submits a task; the deletion asks for a finished one.         *)
LEMMA LifeAPI ==
  ASSUME TypeParts, ResultAgreesWithTask, NEW t \in Task, Submit(t) \/ Delete(t)
  PROVE  LifeStep
<1>1. CASE Submit(t)
  <2>1. row[t].status = "absent" /\ row'[t].status = "queued"
    BY <1>1 DEF Submit, TypeParts, RowsOK, Row
  <2>2. \A u \in Task \ {t} : row'[u].status = row[u].status
    BY <1>1 DEF Submit, TypeParts, RowsOK
  <2>3. Lifecycle!Move(t, "absent", "queued")
    BY <2>1, <2>2, LifeMove
  <2>4. Lifecycle!Submit(t)
    BY <1>1, <2>3 DEF Submit, Lifecycle!Submit
  <2> QED BY <2>4 DEF LifeStep, Lifecycle!Next
<1>2. CASE Delete(t)
  <2>1. row[t].status \in Terminal
    BY <1>2 DEF Delete, ResultAgreesWithTask, Agrees, Terminal
  <2>2. result' = IF t \in ResumeTask THEN result ELSE [result EXCEPT ![t] = FALSE]
    BY <1>2 DEF Delete
  <2>3. Lifecycle!Delete(t)
    BY <1>2, <2>1, <2>2 DEF Delete, Lifecycle!Delete, Lifecycle!Finished, Terminal
  <2> QED BY <2>3 DEF LifeStep, Lifecycle!Next
<1> QED BY <1>1, <1>2

(* A dispatcher moves no task but fails the stalled ones.                   *)
LEMMA LifeDispatcher ==
  ASSUME TypeParts, NEW d \in Dispatcher, DispatcherStep(d)
  PROVE  LifeStep
<1>1. CASE ClaimDispatchBatch(d)
  <2>1. \A t \in Task : row'[t].status = row[t].status
    BY <1>1, ClaimKeeps DEF SameExecution
  <2> QED BY <1>1, <2>1, LifeSame DEF ClaimDispatchBatch
<1>2. CASE RecoverStalled(d)
  <2>1. PICK S \in SUBSET {t \in Task : Stalled(t)} : row' = FailRows(S)
    BY <1>2 DEF RecoverStalled
  <2>2. \A t \in S : t \in Task /\ row[t].status = "running"
    BY DEF Stalled
  <2>3. UNCHANGED <<result, deleted>>
    BY <1>2 DEF RecoverStalled
  <2> QED BY <2>1, <2>2, <2>3, LifeFail
<1>3. ASSUME NEW t \in Task, Publish(d, t) PROVE LifeStep
  BY <1>3, LifeSame DEF Publish
<1>4. ASSUME NEW t \in Task, ConfirmDispatch(d, t) PROVE LifeStep
  <2>1. DispatchConfirmed(row[t]).status = row[t].status
    BY ReleaseWrites DEF TypeParts, RowsOK
  <2>2. \A u \in Task : row'[u].status = row[u].status
    BY <1>4, <2>1 DEF ConfirmDispatch, TypeParts, RowsOK
  <2> QED BY <1>4, <2>2, LifeSame DEF ConfirmDispatch
<1>5. ASSUME NEW t \in Task, ReleaseDispatch(d, t) PROVE LifeStep
  <2>1. DispatchReleased(row[t]).status = row[t].status
    BY ReleaseWrites DEF TypeParts, RowsOK
  <2>2. \A u \in Task : row'[u].status = row[u].status
    BY <1>5, <2>1 DEF ReleaseDispatch, TypeParts, RowsOK
  <2> QED BY <1>5, <2>2, LifeSame DEF ReleaseDispatch
<1> QED BY <1>1, <1>2, <1>3, <1>4, <1>5 DEF DispatcherStep

(* No fault moves a task.                                                   *)
LEMMA LifeFault == TypeParts /\ FaultStep => LifeStep
<1> SUFFICES ASSUME TypeParts, FaultStep PROVE LifeStep
  OBVIOUS
<1>1. ASSUME NEW d \in Dispatcher, DispatcherCrash(d) PROVE LifeStep
  BY <1>1, LifeSame DEF DispatcherCrash
<1>2. ASSUME NEW d \in Dispatcher, NEW t \in Task, PublishFails(d, t) PROVE LifeStep
  BY <1>2, LifeSame DEF PublishFails
<1>3. ASSUME NEW w \in Worker, Abort(w) \/ WorkerCrash(w) PROVE LifeStep
  BY <1>3, LifeSame DEF Abort, WorkerCrash
<1> QED BY <1>1, <1>2, <1>3 DEF FaultStep

(* A worker starts, requeues, finishes or fails the task it holds; a second *)
(* claim of a running task is not seen.                                     *)
LEMMA LifeAttempt ==
  ASSUME TypeParts, NEW w \in Worker, NEW t \in Task, t = worker[w].task,
         \/ ClaimExecution(w) \/ ReleaseForRetry(w) \/ Succeed(w) \/ Fail(w)
  PROVE  LifeStep
<1>0. row[t] \in Row /\ row \in [Task -> Row]
  BY DEF TypeParts, RowsOK
<1>1. CASE ClaimExecution(w)
  <2>1. row'[t].status = "running" /\ \A u \in Task \ {t} : row'[u].status = row[u].status
    BY <1>0, <1>1, LeasedWrite DEF ClaimExecution
  <2>2. UNCHANGED <<result, deleted>> /\ row[t].status \in {"queued", "running"}
    BY <1>1 DEF ClaimExecution, Claimable
  <2>3. CASE row[t].status = "running"
    BY <2>1, <2>2, <2>3, LifeSame
  <2>4. CASE row[t].status = "queued"
    <3>1. Lifecycle!Move(t, "queued", "running")
      BY <2>1, <2>4, LifeMove
    <3>2. Lifecycle!Start(t)
      BY <2>2, <3>1 DEF Lifecycle!Start
    <3> QED BY <3>2 DEF LifeStep, Lifecycle!Next
  <2> QED BY <2>2, <2>3, <2>4
<1>2. CASE ReleaseForRetry(w)
  <2>1. Requeued(row[t]).status = "queued"
    BY <1>0 DEF Requeued, Closed, Row
  <2>2. /\ row[t].status = "running" /\ row'[t].status = "queued"
        /\ \A u \in Task \ {t} : row'[u].status = row[u].status
    BY <1>0, <1>2, <2>1 DEF ReleaseForRetry, OwnsExecution
  <2>3. Lifecycle!Move(t, "running", "queued")
    BY <2>2, LifeMove
  <2>4. Lifecycle!Requeue(t)
    BY <1>2, <2>3 DEF ReleaseForRetry, Lifecycle!Requeue
  <2> QED BY <2>4 DEF LifeStep, Lifecycle!Next
<1>3. CASE Succeed(w)
  <2>1. Closed(row[t], "succeeded").status = "succeeded"
    BY <1>0 DEF Closed, Row
  <2>2. /\ row[t].status = "running" /\ row'[t].status = "succeeded"
        /\ \A u \in Task \ {t} : row'[u].status = row[u].status
    BY <1>0, <1>3, <2>1 DEF Succeed, OwnsExecution
  <2>3. Lifecycle!Move(t, "running", "succeeded")
    BY <2>2, LifeMove
  <2>4. Lifecycle!Succeed(t)
    BY <1>3, <2>3 DEF Succeed, ResultWritable, Lifecycle!Succeed
  <2> QED BY <2>4 DEF LifeStep, Lifecycle!Next
<1>4. CASE Fail(w)
  <2> DEFINE S == {t}
  <2>1. \A u \in S : u \in Task /\ row[u].status = "running"
    BY <1>4 DEF Fail, OwnsExecution
  <2>2. row' = FailRows(S) /\ UNCHANGED <<result, deleted>>
    BY <1>4 DEF Fail
  <2> HIDE DEF S
  <2> QED BY <2>1, <2>2, LifeFail
<1> QED BY <1>1, <1>2, <1>3, <1>4

LEMMA LifeWorker ==
  ASSUME TypeParts, NEW w \in Worker, WorkerStep(w)
  PROVE  LifeStep
<1>1. CASE \/ \E m \in Message : Deliver(w, m)
           \/ IgnoreDelivery(w) \/ IgnoreOutcome(w) \/ SendRetry(w)
           \/ Ack(w) \/ HardKill(w)
  BY <1>1, LifeSame
     DEF Deliver, IgnoreDelivery, IgnoreOutcome, SendRetry, Ack, HardKill
<1>2. CASE Interrupt(w)
  <2> DEFINE S == {worker[w].task} \intersect
                  {u \in Task : row[u].status = "running" /\ row[u].execLease > 0}
  <2>1. \A u \in S : u \in Task /\ row[u].status = "running"
    OBVIOUS
  <2>2. row' = FailRows(S) /\ UNCHANGED <<result, deleted>>
    BY <1>2 DEF Interrupt
  <2> HIDE DEF S
  <2> QED BY <2>1, <2>2, LifeFail
<1>3. CASE ClaimExecution(w) \/ ReleaseForRetry(w) \/ Succeed(w) \/ Fail(w)
  <2>1. worker[w].pc # "idle"
    BY <1>3 DEF ClaimExecution, ReleaseForRetry, Succeed, Fail, At
  <2>2. worker[w].task \in Task
    BY <2>1 DEF TypeParts, WorkersOK
  <2> QED BY <1>3, <2>2, LifeAttempt
<1> QED BY <1>1, <1>2, <1>3 DEF WorkerStep

(* Every step is a step of the life of a task or changes none.              *)
LEMMA LifeNext == TypeOK /\ ResultAgreesWithTask /\ [Next]_vars => LifeStep
<1> SUFFICES ASSUME TypeParts, ResultAgreesWithTask, [Next]_vars PROVE LifeStep
  BY TypeOKParts
<1>1. CASE UNCHANGED vars
  BY <1>1, LifeSame DEF vars
<1>2. CASE Tick
  <2>1. \A t \in Task : row'[t].status = row[t].status
    BY <1>2, AgedWrite DEF Tick, TypeParts, RowsOK
  <2> QED BY <1>2, <2>1, LifeSame DEF Tick
<1>3. CASE APIStep
  BY <1>3, LifeAPI DEF APIStep
<1> QED BY <1>1, <1>2, <1>3, LifeDispatcher, LifeWorker, LifeFault DEF Next

(* The task queue implements TaskLifecycle: whatever the tokens, leases,    *)
(* messages and crashes, the backend sees tasks that are submitted, started,*)
(* requeued, finished once, and deleted only when finished.                 *)
THEOREM ImplementsTheLifecycle == Spec => ImplementsLifecycle
<1>1. Init => Lifecycle!Init
  BY DEF Init, NewRow, Lifecycle!Init
<1>2. TypeOK /\ ResultAgreesWithTask /\ [Next]_vars
        => [Lifecycle!Next]_(Lifecycle!lvars)
  BY LifeNext DEF LifeStep
<1> QED BY <1>1, <1>2, TypeCorrect, ResultAgreement, PTL
        DEF Spec, ImplementsLifecycle, Lifecycle!Spec
-----------------------------------------------------------------------------
(* The dispatch mark: a task counts as sent once a dispatcher has published *)
(* it, also before the confirmation; a task that was never submitted has    *)
(* neither mark nor lease; and a retry is only announced while one is left. *)
Sent(t) ==
  row[t].dispatched \/ \E d \in Dispatcher : lease[d][t].stage = "published"

Unborn(t) ==
  row[t].status = "absent" =>
    ~row[t].dispatched /\ \A d \in Dispatcher : lease[d][t].stage = "none"

RetryLeft(w) == At(w, "retrying") => worker[w].retries < MaxRetries

SentInv ==
  (\A t \in Task : Unborn(t)) /\ (\A w \in Worker : RetryLeft(w))

(* What a step may do to the mark of t: nothing brings a task back to       *)
(* absence, and one that is queued and sent was so before or has a message. *)
SentStep(t) ==
  /\ row'[t].status = "absent" =>
       /\ row[t].status = "absent" /\ row'[t].dispatched = row[t].dispatched
       /\ \A d \in Dispatcher : lease'[d][t].stage \in {lease[d][t].stage, "none"}
  /\ row'[t].status = "queued" /\ Sent(t)' =>
       InFlight(t)' \/ (row[t].status = "queued" /\ Sent(t))

LeaseKept(t) ==
  \A d \in Dispatcher : lease'[d][t].stage \in {lease[d][t].stage, "none"}

(* Steps that leave the mark alone; a claim of a queued task is one of them.*)
LEMMA SentSame ==
  ASSUME NEW t \in Task,
         row'[t].status = row[t].status, row'[t].dispatched = row[t].dispatched,
         \/ LeaseKept(t)
         \/ /\ row[t].status = "queued"
            /\ \A d \in Dispatcher :
                 lease'[d][t].stage \in {lease[d][t].stage, "none", "claimed"}
  PROVE  SentStep(t)
  BY DEF SentStep, Sent, LeaseKept

(* Steps that take or finish the task, whatever they do to its mark.        *)
LEMMA SentLeft ==
  ASSUME NEW t \in Task, row'[t].status \notin {"absent", "queued"}
  PROVE  SentStep(t)
  BY DEF SentStep

(* What the writes of the repository do to the mark.                        *)
LEMMA MarkWrites ==
  ASSUME NEW r \in Row
  PROVE  /\ \A k \in Token : ClaimedForDispatch(r, k).dispatched = r.dispatched
         /\ DispatchReleased(r).dispatched = r.dispatched
         /\ Aged(r).dispatched = r.dispatched
  BY DEF ClaimedForDispatch, DispatchReleased, Aged, Row

(* A published message is in the broker, and the others stay there.         *)
LEMMA PlusAdds ==
  ASSUME TypeParts, NEW m \in Message
  PROVE  /\ Plus(queue, m)[m] > 0
         /\ \A n \in Message : queue[n] > 0 => Plus(queue, m)[n] > 0
<1>1. MaxCopies \in Nat /\ MaxCopies > 0
  BY SettingsAssumption DEF SettingsAssumption
<1>2. queue[m] \in 0..MaxCopies
  BY DEF TypeParts
<1> QED BY <1>1, <1>2 DEF Plus, TypeParts

(* A first publication is a message.                                        *)
LEMMA FirstMessage ==
  ASSUME NEW t \in Task
  PROVE  Msg(t, 0) \in Message /\ Msg(t, 0).task = t
  BY Numbers DEF Msg, Message

(* The upload.                                                              *)
LEMMA SentAPI ==
  ASSUME TypeParts, SentInv, NEW t \in Task, APIStep
  PROVE  SentStep(t)
<1>1. ASSUME NEW u \in Task, Delete(u) PROVE SentStep(t)
  BY <1>1, SentSame DEF Delete, LeaseKept
<1>2. ASSUME NEW u \in Task, Submit(u), u # t PROVE SentStep(t)
  <2>1. row'[t] = row[t]
    BY <1>2 DEF Submit, TypeParts, RowsOK
  <2> QED BY <1>2, <2>1, SentSame DEF Submit, LeaseKept
<1>3. ASSUME Submit(t) PROVE SentStep(t)
  <2>1. row[t] \in Row /\ row'[t] = [row[t] EXCEPT !.status = "queued"]
    BY <1>3 DEF Submit, TypeParts, RowsOK
  <2>2. row'[t].status = "queued" /\ row'[t].dispatched = row[t].dispatched
    BY <2>1 DEF Row
  <2>3. ~Sent(t)'
    BY <1>3, <2>2 DEF Submit, SentInv, Unborn, Sent
  <2> QED BY <2>2, <2>3 DEF SentStep
<1> QED BY <1>1, <1>2, <1>3 DEF APIStep
(* A claim marks nothing: it takes queued tasks only.                       *)
LEMMA SentClaimBatch ==
  ASSUME TypeParts, NEW t \in Task, NEW d \in Dispatcher, ClaimDispatchBatch(d)
  PROVE  SentStep(t)
<1>0. PICK S \in SUBSET {u \in Task : Dispatchable(u)} :
        /\ S # {} /\ Cardinality(S) <= BatchSize
        /\ \E token \in [S -> Token] :
             /\ \A u \in S : FreshDispatchToken(token[u])
             /\ \A u, v \in S : token[u] = token[v] => u = v
             /\ row' = [u \in Task |->
                  IF u \in S THEN ClaimedForDispatch(row[u], token[u]) ELSE row[u]]
             /\ lease' = [lease EXCEPT ![d] = [u \in Task |->
                  IF u \in S THEN [stage |-> "claimed", token |-> token[u]]
                  ELSE NotHeld]]
  BY DEF ClaimDispatchBatch
<1>1. PICK token \in [S -> Token] :
        /\ row' = [u \in Task |->
             IF u \in S THEN ClaimedForDispatch(row[u], token[u]) ELSE row[u]]
        /\ lease' = [lease EXCEPT ![d] = [u \in Task |->
             IF u \in S THEN [stage |-> "claimed", token |-> token[u]] ELSE NotHeld]]
  BY <1>0
<1>2. row'[t].status = row[t].status
  BY ClaimKeeps DEF SameExecution
<1>3. row'[t].dispatched = row[t].dispatched
  BY <1>1, MarkWrites DEF TypeParts, RowsOK
<1>4. CASE t \in S
  <2>1. row[t].status = "queued"
    BY <1>4 DEF Dispatchable
  <2>2. \A e \in Dispatcher :
          lease'[e][t].stage = IF e = d THEN "claimed" ELSE lease[e][t].stage
    BY <1>1, <1>4 DEF TypeParts, LeasesType
  <2> QED BY <1>2, <1>3, <2>1, <2>2, SentSame
<1>5. CASE t \notin S
  <2>1. \A e \in Dispatcher :
          lease'[e][t].stage = IF e = d THEN "none" ELSE lease[e][t].stage
    BY <1>1, <1>5 DEF TypeParts, LeasesType, NotHeld
  <2> QED BY <1>2, <1>3, <2>1, SentSame DEF LeaseKept
<1> QED BY <1>4, <1>5

(* Failing running tasks leaves the mark of the others alone.               *)
LEMMA SentFailed ==
  ASSUME TypeParts, NEW t \in Task, NEW S, row' = FailRows(S), lease' = lease
  PROVE  SentStep(t)
<1>1. CASE t \in S
  <2>1. row'[t].status = "failed"
    BY <1>1, ClosedWrite DEF FailRows, TypeParts, RowsOK, Status, Terminal
  <2> QED BY <2>1, SentLeft
<1>2. CASE t \notin S
  <2>1. row'[t] = row[t]
    BY <1>2 DEF FailRows
  <2> QED BY <2>1, SentSame DEF LeaseKept
<1> QED BY <1>1, <1>2

(* A dispatcher marks a task only after it has published it.                *)
LEMMA SentDispatcher ==
  ASSUME TypeParts, SentInv, NEW t \in Task, NEW d \in Dispatcher, DispatcherStep(d)
  PROVE  SentStep(t)
<1>1. CASE RecoverStalled(d)
  BY <1>1, SentFailed DEF RecoverStalled
<1>4. ASSUME NEW u \in Task, ReleaseDispatch(d, u) PROVE SentStep(t)
  <2>1. LeaseKept(t)
    BY <1>4 DEF ReleaseDispatch, TypeParts, LeasesType, NotHeld, LeaseKept
  <2>2. row[t] \in Row /\ row'[t] \in {row[t], DispatchReleased(row[t])}
    BY <1>4 DEF ReleaseDispatch, TypeParts, RowsOK
  <2>3. row'[t].status = row[t].status /\ row'[t].dispatched = row[t].dispatched
    BY <2>2, ReleaseWrites, MarkWrites
  <2> QED BY <2>1, <2>3, SentSame
<1>2. ASSUME NEW u \in Task, Publish(d, u) PROVE SentStep(t)
  <2>1. CASE u # t
    <3>1. \A e \in Dispatcher : lease'[e][t] = lease[e][t]
      BY <1>2, <2>1 DEF Publish, TypeParts, LeasesType
    <3> QED BY <1>2, <3>1, SentSame DEF Publish, LeaseKept
  <2>2. CASE u = t
    <3>1. queue'[Msg(t, 0)] > 0
      BY <1>2, <2>2, PlusAdds, FirstMessage DEF Publish
    <3>2. InFlight(t)'
      BY <3>1, FirstMessage DEF InFlight
    <3>3. row[t].status # "absent" /\ row' = row
      BY <1>2, <2>2 DEF Publish, Sending, SentInv, Unborn
    <3> QED BY <3>2, <3>3 DEF SentStep
  <2> QED BY <2>1, <2>2
<1>3. ASSUME NEW u \in Task, ConfirmDispatch(d, u) PROVE SentStep(t)
  <2>1. LeaseKept(t)
    BY <1>3 DEF ConfirmDispatch, TypeParts, LeasesType, NotHeld, LeaseKept
  <2>2. CASE u # t
    <3>1. row'[t] = row[t]
      BY <1>3, <2>2 DEF ConfirmDispatch, TypeParts, RowsOK
    <3> QED BY <2>1, <3>1, SentSame
  <2>3. CASE u = t
    <3>1. row[t].status # "absent" /\ Sent(t)
      BY <1>3, <2>3 DEF ConfirmDispatch, SentInv, Unborn, Sent
    <3>2. DispatchConfirmed(row[t]).status = row[t].status
      BY ReleaseWrites DEF TypeParts, RowsOK
    <3>3. row'[t].status = row[t].status
      BY <1>3, <2>3, <3>2 DEF ConfirmDispatch, TypeParts, RowsOK
    <3> QED BY <3>1, <3>3 DEF SentStep
  <2> QED BY <2>2, <2>3
<1> QED BY <1>1, <1>2, <1>3, <1>4, SentClaimBatch DEF DispatcherStep

(* A fault takes leases away, or leaves one that is not sent.               *)
LEMMA SentFault ==
  ASSUME TypeParts, SentInv, NEW t \in Task, FaultStep
  PROVE  SentStep(t)
<1>1. ASSUME NEW d \in Dispatcher, DispatcherCrash(d) PROVE SentStep(t)
  <2>1. LeaseKept(t)
    BY <1>1 DEF DispatcherCrash, TypeParts, LeasesType, NotHeld, LeaseKept
  <2> QED BY <1>1, <2>1, SentSame DEF DispatcherCrash
<1>2. ASSUME NEW d \in Dispatcher, NEW u \in Task, PublishFails(d, u) PROVE SentStep(t)
  <2>1. row' = row
    BY <1>2 DEF PublishFails
  <2>2. CASE u # t
    <3>1. \A e \in Dispatcher : lease'[e][t] = lease[e][t]
      BY <1>2, <2>2 DEF PublishFails, TypeParts, LeasesType
    <3> QED BY <2>1, <3>1, SentSame DEF LeaseKept
  <2>3. CASE u = t
    <3>1. row[t].status # "absent"
      BY <1>2, <2>3 DEF PublishFails, Sending, SentInv, Unborn
    <3>2. \A e \in Dispatcher : lease'[e][t].stage \in {lease[e][t].stage, "unsent"}
      BY <1>2, <2>3 DEF PublishFails, TypeParts, LeasesType, Held
    <3>3. Sent(t)' => Sent(t)
      BY <2>1, <3>2 DEF Sent
    <3> QED BY <2>1, <3>1, <3>3 DEF SentStep
  <2> QED BY <2>2, <2>3
<1>3. ASSUME NEW w \in Worker, Abort(w) \/ WorkerCrash(w) PROVE SentStep(t)
  BY <1>3, SentSame DEF Abort, WorkerCrash, LeaseKept
<1> QED BY <1>1, <1>2, <1>3 DEF FaultStep

(* A worker takes a queued task, or gives it back with a retry to announce. *)
LEMMA SentWorker ==
  ASSUME TypeParts, NEW t \in Task, NEW w \in Worker, WorkerStep(w)
  PROVE  SentStep(t)
<1>0. row[t] \in Row /\ row \in [Task -> Row]
  BY DEF TypeParts, RowsOK
<1>1. CASE \/ \E m \in Message : Deliver(w, m)
           \/ IgnoreDelivery(w) \/ IgnoreOutcome(w) \/ SendRetry(w)
           \/ Ack(w) \/ HardKill(w)
  BY <1>1, SentSame
     DEF Deliver, IgnoreDelivery, IgnoreOutcome, SendRetry, Ack, HardKill, LeaseKept
<1>2. CASE Fail(w) \/ Interrupt(w)
  BY <1>2, SentFailed DEF Fail, Interrupt
<1>3. CASE ClaimExecution(w) \/ Succeed(w) \/ ReleaseForRetry(w)
  <2>1. CASE t # worker[w].task
    <3>1. row'[t] = row[t] /\ lease' = lease
      BY <1>0, <1>3, <2>1 DEF ClaimExecution, Succeed, ReleaseForRetry
    <3> QED BY <3>1, SentSame DEF LeaseKept
  <2>2. CASE t = worker[w].task /\ ClaimExecution(w)
    <3>1. row'[t].status = "running"
      BY <1>0, <2>2, LeasedWrite DEF ClaimExecution
    <3> QED BY <3>1, SentLeft
  <2>3. CASE t = worker[w].task /\ Succeed(w)
    <3>1. row'[t].status = "succeeded"
      BY <1>0, <2>3, ClosedWrite DEF Succeed, Status, Terminal
    <3> QED BY <3>1, SentLeft
  <2>4. CASE t = worker[w].task /\ ReleaseForRetry(w)
    <3>1. row'[t].status = "queued"
      BY <1>0, <2>4, ClosedWrite DEF ReleaseForRetry, Status
    <3>2. worker[w] \in Attempt /\ worker'[w] = [worker[w] EXCEPT !.pc = "retrying", !.token = NoToken]
      BY <2>4 DEF ReleaseForRetry, GoTo, TypeParts, WorkersOK
    <3>3. worker'[w].task = t /\ worker'[w].pc = "retrying"
      BY <2>4, <3>2 DEF Attempt
    <3>4. InFlight(t)'
      BY <3>3 DEF InFlight
    <3> QED BY <3>1, <3>4 DEF SentStep
  <2> QED BY <1>3, <2>1, <2>2, <2>3, <2>4
<1> QED BY <1>1, <1>2, <1>3 DEF WorkerStep

LEMMA SentNext ==
  ASSUME TypeParts, SentInv, [Next]_vars, NEW t \in Task
  PROVE  SentStep(t)
<1>1. CASE UNCHANGED vars
  BY <1>1, SentSame DEF vars, LeaseKept
<1>2. CASE Tick
  <2>1. row'[t].status = row[t].status /\ row'[t].dispatched = row[t].dispatched
    BY <1>2, AgedWrite, MarkWrites DEF Tick, TypeParts, RowsOK
  <2> QED BY <1>2, <2>1, SentSame DEF Tick, LeaseKept
<1> QED BY <1>1, <1>2, SentAPI, SentDispatcher, SentWorker, SentFault DEF Next
(* A worker announces a retry only from a release that had one left.        *)
LEMMA RetryNext ==
  ASSUME TypeParts, SentInv, [Next]_vars, NEW v \in Worker
  PROVE  RetryLeft(v)'
<1>0. RetryLeft(v) /\ worker[v] \in Attempt /\ worker \in [Worker -> Attempt]
  BY DEF SentInv, TypeParts, WorkersOK
<1>1. CASE worker' = worker
  BY <1>0, <1>1 DEF RetryLeft, At
<1>2. CASE Tick
  <2>1. worker'[v].pc = worker[v].pc /\ worker'[v].retries = worker[v].retries
    BY <1>0, <1>2 DEF Tick, Attempt
  <2> QED BY <1>0, <2>1 DEF RetryLeft, At
<1>3. ASSUME NEW w \in Worker, WorkerStep(w) \/ Abort(w) \/ WorkerCrash(w)
      PROVE  RetryLeft(v)'
  <2>1. CASE v # w
    <3>1. worker'[v] = worker[v]
      BY <1>0, <1>3, <2>1
         DEF WorkerStep, Deliver, ClaimExecution, IgnoreDelivery, Succeed, Fail,
             ReleaseForRetry, IgnoreOutcome, SendRetry, Ack, Interrupt, HardKill,
             Abort, WorkerCrash, GoTo
    <3> QED BY <1>0, <3>1 DEF RetryLeft, At
  <2>2. CASE v = w /\ ReleaseForRetry(w)
    <3>1. worker'[v] = [worker[v] EXCEPT !.pc = "retrying", !.token = NoToken] /\ worker[v].retries < MaxRetries
      BY <1>0, <2>2 DEF ReleaseForRetry, GoTo
    <3> QED BY <1>0, <3>1 DEF RetryLeft, Attempt
  <2>3. CASE v = w /\ ~ReleaseForRetry(w)
    <3>1. worker'[v].pc # "retrying"
      <4>1. CASE \E k : worker' = [worker EXCEPT ![w] = WorkingWith(@, k)]
        BY <1>0, <2>3, <4>1 DEF WorkingWith, Attempt
      <4>2. CASE GoTo(w, "done")
        BY <1>0, <2>3, <4>2 DEF GoTo, Attempt
      <4>3. CASE worker' = [worker EXCEPT ![w] = Idle]
        BY <1>0, <2>3, <4>3 DEF Idle
      <4>4. CASE \E m \in Message : Deliver(w, m)
        BY <1>0, <2>3, <4>4 DEF Deliver
      <4>5. \/ \E k : worker' = [worker EXCEPT ![w] = WorkingWith(@, k)]
            \/ GoTo(w, "done") \/ worker' = [worker EXCEPT ![w] = Idle]
            \/ \E m \in Message : Deliver(w, m)
        BY <1>3, <2>3
           DEF WorkerStep, ClaimExecution, IgnoreDelivery, Succeed, Fail,
               IgnoreOutcome, SendRetry, Ack, Interrupt, HardKill, Abort, WorkerCrash
      <4> QED BY <4>1, <4>2, <4>3, <4>4, <4>5
    <3> QED BY <3>1 DEF RetryLeft, At
  <2> QED BY <2>1, <2>2, <2>3
<1>4. worker' = worker \/ Tick
      \/ \E w \in Worker : WorkerStep(w) \/ Abort(w) \/ WorkerCrash(w)
  BY DEF vars, Next, APIStep, Submit, Delete, DispatcherStep, ClaimDispatchBatch,
         RecoverStalled, Publish, ReleaseDispatch, ConfirmDispatch, FaultStep, DispatcherCrash, PublishFails
<1> QED BY <1>1, <1>2, <1>3, <1>4

-----------------------------------------------------------------------------
(* The messages on their way.                                               *)

(* A message that stays, or a worker that stays on its way, is enough.      *)
LEMMA FlightFrame ==
  ASSUME NEW t \in Task,
         \A m \in Message : m.task = t /\ queue[m] > 0 => queue'[m] > 0,
         \A w \in Worker : worker'[w].task = worker[w].task /\ worker'[w].pc = worker[w].pc,
         InFlight(t)
  PROVE  InFlight(t)'
  BY DEF InFlight

(* What one worker owes when the others are left alone.                     *)
LEMMA FlightOne ==
  ASSUME NEW t \in Task, NEW w \in Worker, InFlight(t),
         \A m \in Message : m.task = t /\ queue[m] > 0 => queue'[m] > 0,
         \A v \in Worker \ {w} : worker'[v] = worker[v],
         \/ worker[w].task # t
         \/ worker[w].pc \notin {"started", "retrying"}
         \/ InFlight(t)'
  PROVE  InFlight(t)'
  BY DEF InFlight

(* A step of a worker keeps the message of a queued task that is not        *)
(* dropped: it is delivered, passed on, or returned to the broker.          *)
LEMMA FlightWorker ==
  ASSUME TypeParts, SentInv, NEW t \in Task, NEW w \in Worker,
         WorkerStep(w) \/ Abort(w) \/ WorkerCrash(w),
         row[t].status = "queued", row'[t].status = "queued", InFlight(t),
         worker[w].task = t => ~DropsMessage(w)
  PROVE  InFlight(t)'
<1>0. /\ worker[w] \in Attempt /\ worker \in [Worker -> Attempt]
      /\ row[t] \in Row /\ row \in [Task -> Row]
  BY DEF TypeParts, RowsOK, WorkersOK
<1>1. \A v \in Worker \ {w} : worker'[v] = worker[v]
  BY <1>0
     DEF WorkerStep, Deliver, ClaimExecution, IgnoreDelivery, Succeed, Fail,
         ReleaseForRetry, IgnoreOutcome, SendRetry, Ack, Interrupt, HardKill,
         Abort, WorkerCrash, GoTo
<1>2. ASSUME NEW m \in Message, Deliver(w, m) PROVE InFlight(t)'
  <2>1. CASE m.task = t
    <3>1. worker'[w].task = t /\ worker'[w].pc = "started"
      BY <1>0, <1>2, <2>1 DEF Deliver
    <3> QED BY <3>1 DEF InFlight
  <2>2. CASE m.task # t
    <3>1. \A n \in Message : n.task = t /\ queue[n] > 0 => queue'[n] > 0
      BY <1>2, <2>2 DEF Deliver, Minus, TypeParts
    <3> QED BY <1>1, <1>2, <3>1, FlightOne DEF Deliver, At
  <2> QED BY <2>1, <2>2
<1>3. CASE ClaimExecution(w) \/ IgnoreDelivery(w)
  <2>1. worker[w].task # t
    <3>1. ASSUME worker[w].task = t, ClaimExecution(w) PROVE FALSE
      <4>1. row'[t].status = "running"
        BY <1>0, <3>1, LeasedWrite DEF ClaimExecution
      <4> QED BY <4>1
    <3> QED BY <1>3, <3>1 DEF IgnoreDelivery, Claimable
  <2>2. queue' = queue
    BY <1>3 DEF ClaimExecution, IgnoreDelivery
  <2> QED BY <1>1, <2>1, <2>2, FlightOne
<1>4. CASE \/ Succeed(w) \/ Fail(w) \/ ReleaseForRetry(w) \/ IgnoreOutcome(w) \/ Ack(w)
  <2>1. worker[w].pc \notin {"started", "retrying"} /\ queue' = queue
    BY <1>4 DEF Succeed, Fail, ReleaseForRetry, IgnoreOutcome, Ack, At
  <2> QED BY <1>1, <2>1, FlightOne
<1>5. CASE SendRetry(w) \/ WorkerCrash(w)
  <2> DEFINE m == IF SendRetry(w) THEN Msg(worker[w].task, worker[w].retries + 1)
                  ELSE Msg(worker[w].task, worker[w].retries)
  <2>1. worker[w].task \in Task
    BY <1>5 DEF SendRetry, WorkerCrash, At, TypeParts, WorkersOK
  <2>2. m \in Message /\ m.task = worker[w].task
    <3>1. worker[w].retries \in 0..MaxRetries
      BY <1>0 DEF Attempt
    <3>2. SendRetry(w) => worker[w].retries + 1 \in 0..MaxRetries
      BY <3>1, Numbers DEF SendRetry, SentInv, RetryLeft
    <3> QED BY <2>1, <3>1, <3>2 DEF Msg, Message
  <2>3. queue' = Plus(queue, m)
    BY <1>5 DEF SendRetry, WorkerCrash
  <2> HIDE DEF m
  <2>4. queue'[m] > 0 /\ \A n \in Message : queue[n] > 0 => queue'[n] > 0
    BY <2>2, <2>3, PlusAdds
  <2>5. worker[w].task = t => InFlight(t)'
    BY <2>2, <2>4 DEF InFlight
  <2> QED BY <1>1, <2>4, <2>5, FlightOne
<1>6. CASE Abort(w) \/ Interrupt(w) \/ HardKill(w)
  <2>1. queue' = queue
    BY <1>6 DEF Abort, Interrupt, HardKill
  <2>2. worker[w].task # t \/ worker[w].pc \notin {"started", "retrying"}
    BY <1>6 DEF DropsMessage
  <2> QED BY <1>1, <2>1, <2>2, FlightOne
<1> QED BY <1>2, <1>3, <1>4, <1>5, <1>6 DEF WorkerStep

LEMMA FlightNext ==
  ASSUME TypeParts, SentInv, [Next]_vars, NEW t \in Task,
         row[t].status = "queued", row'[t].status = "queued", InFlight(t),
         \A w \in Worker : worker[w].task = t => ~DropsMessage(w)
  PROVE  InFlight(t)'
<1>1. CASE queue' = queue /\ worker' = worker
  BY <1>1, FlightFrame
<1>2. ASSUME NEW u \in Task, queue' = Plus(queue, Msg(u, 0)), worker' = worker
      PROVE  InFlight(t)'
  <2>1. \A n \in Message : queue[n] > 0 => queue'[n] > 0
    BY <1>2, PlusAdds, FirstMessage
  <2> QED BY <1>2, <2>1, FlightFrame
<1>3. CASE Tick
  <2>1. \A w \in Worker : worker'[w].task = worker[w].task /\ worker'[w].pc = worker[w].pc
    BY <1>3 DEF Tick, TypeParts, WorkersOK, Attempt
  <2> QED BY <1>3, <2>1, FlightFrame DEF Tick
<1>4. ASSUME NEW w \in Worker, WorkerStep(w) \/ Abort(w) \/ WorkerCrash(w)
      PROVE  InFlight(t)'
  BY <1>4, FlightWorker
<1>5. \/ queue' = queue /\ worker' = worker
      \/ \E u \in Task : queue' = Plus(queue, Msg(u, 0)) /\ worker' = worker
      \/ Tick
      \/ \E w \in Worker : WorkerStep(w) \/ Abort(w) \/ WorkerCrash(w)
  BY DEF vars, Next, APIStep, Submit, Delete, DispatcherStep, ClaimDispatchBatch,
         RecoverStalled, Publish, ReleaseDispatch, ConfirmDispatch, FaultStep, DispatcherCrash, PublishFails
<1> QED BY <1>1, <1>2, <1>3, <1>4, <1>5

-----------------------------------------------------------------------------
(* A task whose first message is out, and of which no delivery was dropped, *)
(* has a message while it is queued.                                        *)
FlightOf(t) ==
  row[t].status = "queued" /\ Sent(t) /\ ~lost[t] => InFlight(t)

FlightInv == SentInv /\ \A t \in Task : FlightOf(t)

LEMMA FlightInit == HInit => FlightInv
  BY DEF HInit, Init, NewRow, NotHeld, Idle, FlightInv, SentInv, Unborn, RetryLeft, At,
         FlightOf

LEMMA FlightStep == TypeOK /\ FlightInv /\ [HNext]_hvars => FlightInv'
<1> SUFFICES ASSUME TypeParts, SentInv, \A t \in Task : FlightOf(t), [HNext]_hvars
             PROVE  FlightInv'
  BY TypeOKParts DEF FlightInv
<1>0. [Next]_vars
  BY DEF HNext, hvars
<1>1. ASSUME NEW t \in Task PROVE Unborn(t)' /\ FlightOf(t)'
  <2>1. SentStep(t) /\ Unborn(t) /\ FlightOf(t)
    BY <1>0, SentNext DEF SentInv
  <2>2. Unborn(t)'
    BY <2>1 DEF SentStep, Unborn
  <2>3. ~lost'[t] => ~lost[t] /\ \A w \in Worker : worker[w].task = t => ~DropsMessage(w)
    <3>1. CASE UNCHANGED hvars
      <4>1. ASSUME NEW w \in Worker, DropsMessage(w) PROVE FALSE
        <5>1. worker[w] \in Attempt /\ worker[w].pc \in {"started", "retrying"}
          BY <4>1 DEF DropsMessage, TypeParts, WorkersOK
        <5>2. worker'[w].pc \in {"done", "idle"}
          BY <4>1, <5>1 DEF DropsMessage, Abort, Interrupt, HardKill, GoTo, Idle,
                            TypeParts, WorkersOK, Attempt
        <5> QED BY <3>1, <5>1, <5>2 DEF hvars, vars
      <4> QED BY <3>1, <4>1 DEF hvars
    <3>2. CASE HNext
      BY <3>2, ZenonT(40) DEF HNext
    <3> QED BY <3>1, <3>2
  <2>4. FlightOf(t)'
    <3> SUFFICES ASSUME row'[t].status = "queued", Sent(t)', ~lost'[t] PROVE InFlight(t)'
      BY DEF FlightOf
    <3>1. CASE row[t].status = "queued" /\ Sent(t)
      <4>1. InFlight(t)
        BY <2>1, <2>3, <3>1 DEF FlightOf
      <4> QED BY <1>0, <2>3, <3>1, <4>1, FlightNext
    <3> QED BY <2>1, <3>1 DEF SentStep
  <2> QED BY <2>2, <2>4
<1>2. \A w \in Worker : RetryLeft(w)'
  BY <1>0, RetryNext
<1> QED BY <1>1, <1>2 DEF FlightInv, SentInv

(* A queued task that is marked dispatched, which no dispatcher will ever   *)
(* publish again, keeps a message or a worker on its way to it, through     *)
(* late confirmations, second publications, retries and crashes, until a    *)
(* delivery is dropped.                                                     *)
THEOREM DispatchedTasksAreInFlight == HSpec => []DispatchedIsInFlight
<1>1. HInit => Init
  BY DEF HInit
<1>2. [HNext]_hvars => [Next]_vars
  BY DEF HNext, hvars
<1>3. HSpec => []TypeOK
  BY <1>1, <1>2, TypeCorrect, PTL DEF HSpec, Spec
<1>4. FlightInv => DispatchedIsInFlight
  BY DEF FlightInv, FlightOf, Sent, DispatchedIsInFlight
<1> QED BY <1>3, <1>4, FlightInit, FlightStep, PTL DEF HSpec
-----------------------------------------------------------------------------
(* A worker whose lease was taken over writes nothing: of the steps that    *)
(* take it out of its work, those that write ask for its token, but for the *)
(* handler of the soft limit.                                               *)
LEMMA StaleStep ==
  ASSUME TypeParts, [Next]_vars, NEW w \in Worker, worker[w].task \in Task
  PROVE  StaleWritesNothing(w)
<1> SUFFICES ASSUME At(w, "working"), worker'[w].pc # "working", ~Interrupt(w),
                    row[worker[w].task].execToken # worker[w].token
             PROVE  UNCHANGED <<row, parse, result>>
  BY DEF StaleWritesNothing
<1>0. worker[w] \in Attempt /\ worker \in [Worker -> Attempt]
  BY DEF TypeParts, WorkersOK
<1>1. worker' # worker
  BY DEF At
<1>2. ~Tick
  BY <1>0 DEF Tick, At, Attempt
<1>3. ASSUME NEW v \in Worker, WorkerStep(v) \/ Abort(v) \/ WorkerCrash(v)
      PROVE  UNCHANGED <<row, parse, result>>
  <2>1. v = w
    BY <1>0, <1>3
       DEF WorkerStep, Deliver, ClaimExecution, IgnoreDelivery, Succeed, Fail,
           ReleaseForRetry, IgnoreOutcome, SendRetry, Ack, Interrupt, HardKill,
           Abort, WorkerCrash, GoTo, At
  <2>2. ~OwnsExecution(w)
    BY DEF OwnsExecution
  <2>3. \/ IgnoreOutcome(w) \/ HardKill(w) \/ Abort(w) \/ WorkerCrash(w)
    BY <1>3, <2>1, <2>2
       DEF WorkerStep, Deliver, ClaimExecution, IgnoreDelivery, Succeed, Fail,
           ReleaseForRetry, SendRetry, Ack, At
  <2> QED BY <2>3 DEF IgnoreOutcome, HardKill, Abort, WorkerCrash
<1>4. \/ worker' = worker \/ Tick
      \/ \E v \in Worker : WorkerStep(v) \/ Abort(v) \/ WorkerCrash(v)
  BY DEF vars, Next, APIStep, Submit, Delete, DispatcherStep, ClaimDispatchBatch,
         RecoverStalled, Publish, ReleaseDispatch, ConfirmDispatch, FaultStep, DispatcherCrash, PublishFails
<1> QED BY <1>1, <1>2, <1>3, <1>4

(* Whatever the attempt of a worker without its lease ends with, the row,   *)
(* the resume and the result stay as they are.                              *)
THEOREM StaleWorkersWriteNothing == Spec => StaleWorkerWritesNothing
<1>1. TypeOK /\ [Next]_vars => [\A w \in Worker : StaleWritesNothing(w)]_vars
  <2> SUFFICES ASSUME TypeParts, [Next]_vars, NEW w \in Worker PROVE StaleWritesNothing(w)
    BY TypeOKParts
  <2>1. CASE worker[w].pc = "idle"
    BY <2>1 DEF StaleWritesNothing, At
  <2>2. CASE worker[w].pc # "idle"
    BY <2>2, StaleStep DEF TypeParts, WorkersOK
  <2> QED BY <2>1, <2>2
<1> QED BY <1>1, TypeCorrect, PTL DEF Spec, StaleWorkerWritesNothing
=============================================================================
