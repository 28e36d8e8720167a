------------------------ MODULE JobLifecycle_proofs ------------------------
(* Theorems about JobLifecycle, for every number of jobs, requests, workers *)
(* and rounds.  The inductive invariant adds to the properties what the     *)
(* transactions hold: locks exclude each other, and what a transaction has  *)
(* read of a row it has locked stays true until it ends.                    *)
EXTENDS JobLifecycle, SequenceTheorems, TLAPS

Row == {"job", "share", "task"} \X Job \X Nat

RequestTxn == [op : {"submit", "retry", "delete"}, job : Job,
               pc : {"lock job", "lock task"}, at : 0..MaxRequests]
ResetTxn == [op : {"reset"}, pc : {"read tasks", "delete"}, jobs : SUBSET Job,
             matches : SUBSET Job, rows : SUBSET Row]
ExecuteTxn == [op : {"execute"}, job : Job, gen : Nat, pc : {"parse", "lock job"},
               found : BOOLEAN]
RoundTxn == [op : {"round"}, pc : {"read tasks", "insert"}, jobs : SUBSET Job]
Txn == {Idle} \cup RequestTxn \cup ResetTxn \cup ExecuteTxn \cup RoundTxn

TxnType == txn \in [Proc -> Txn] /\ held \in [Proc -> SUBSET Row]

(* A row is locked by one transaction, unless it is shared.                 *)
Exclusive ==
  \A p, q \in Proc : p # q => \A r \in held[p] \cap held[q] : r[1] = "share"

(* What a transaction has found out and keeps by its locks.                 *)
Knows(p) ==
  /\ txn[p] \in RequestTxn =>
       /\ job[txn[p].job] # "none"
       /\ txn[p].pc = "lock task" =>
            JobRow(txn[p].job) \in held[p] /\ job[txn[p].job] = "live"
  /\ txn[p] \in ExecuteTxn =>
       /\ txn[p].gen \in DOMAIN task[txn[p].job]
       /\ txn[p].pc = "lock job" =>
            /\ TaskRow(txn[p].job, txn[p].gen) \in held[p]
            /\ task[txn[p].job][txn[p].gen].status = "running"
  /\ txn[p] \in ResetTxn => \A j \in txn[p].jobs : job[j] # "none"
  /\ txn[p] \in ResetTxn /\ txn[p].pc = "delete" =>
       /\ \A j \in txn[p].jobs : JobRow(j) \in txn[p].rows
       /\ \A r \in txn[p].rows : r[2] \in txn[p].jobs

Data == OnlyNewestIsActive /\ SnapshotOfNewest /\ DeletedIsSettled

IInv == TypeOK /\ TxnType /\ Exclusive /\ (\A p \in Proc : Knows(p)) /\ Data

-----------------------------------------------------------------------------
(* Transactions                                                              *)

(* The operation tells the kind of a transaction.                            *)
LEMMA Kinds ==
  ASSUME NEW x \in Txn
  PROVE  /\ x.op \in {"submit", "retry", "delete"} => x \in RequestTxn
         /\ x.op = "reset" => x \in ResetTxn
         /\ x.op = "execute" => x \in ExecuteTxn
         /\ x.op = "round" => x \in RoundTxn
<1>1. x \in RequestTxn => x.op \in {"submit", "retry", "delete"}
  BY DEF RequestTxn
<1>2. x \in ResetTxn => x.op = "reset"
  BY DEF ResetTxn
<1>3. x \in ExecuteTxn => x.op = "execute"
  BY DEF ExecuteTxn
<1>4. x \in RoundTxn => x.op = "round"
  BY DEF RoundTxn
<1>5. x = Idle => x.op = "idle"
  BY DEF Idle
<1> QED BY <1>1, <1>2, <1>3, <1>4, <1>5 DEF Txn

(* The kinds are disjoint.                                                    *)
LEMMA Disjoint ==
  /\ \A x \in RequestTxn : x \notin ResetTxn /\ x \notin ExecuteTxn /\ x # Idle
  /\ \A x \in ResetTxn : x \notin RequestTxn /\ x \notin ExecuteTxn /\ x # Idle
  /\ \A x \in ExecuteTxn : x \notin RequestTxn /\ x \notin ResetTxn /\ x # Idle
  /\ \A x \in RoundTxn : x \notin RequestTxn /\ x \notin ResetTxn /\ x \notin ExecuteTxn /\ x # Idle
  /\ Idle \notin RequestTxn /\ Idle \notin ResetTxn /\ Idle \notin ExecuteTxn
<1>1. \A x \in RequestTxn : x.op \in {"submit", "retry", "delete"}
  BY DEF RequestTxn
<1>2. \A x \in ResetTxn : x.op = "reset"
  BY DEF ResetTxn
<1>3. \A x \in ExecuteTxn : x.op = "execute"
  BY DEF ExecuteTxn
<1>4. \A x \in RoundTxn : x.op = "round"
  BY DEF RoundTxn
<1>5. Idle.op = "idle"
  BY DEF Idle
<1> QED BY <1>1, <1>2, <1>3, <1>4, <1>5

(* A process that goes on, holding rows no other one has locked, or ends.      *)
LEMMA Locks ==
  ASSUME TxnType, Exclusive, NEW p \in Proc, NEW x \in Txn, NEW rows \in SUBSET Row,
         txn' = [txn EXCEPT ![p] = x],
         \/ held' = [held EXCEPT ![p] = {}]
         \/ held' = [held EXCEPT ![p] = @ \cup rows] /\ CanLock(p, rows)
  PROVE  TxnType' /\ Exclusive'
<1>1. TxnType'
  BY DEF TxnType
<1>2. Exclusive'
  <2> SUFFICES ASSUME NEW a \in Proc, NEW b \in Proc, a # b,
                      NEW r \in held'[a] \cap held'[b]
               PROVE  r[1] = "share"
    BY DEF Exclusive
  <2>1. CASE held' = [held EXCEPT ![p] = {}]
    <3>1. r \in held[a] /\ r \in held[b]
      BY <2>1 DEF TxnType
    <3> QED BY <3>1 DEF Exclusive
  <2>2. CASE held' = [held EXCEPT ![p] = @ \cup rows] /\ CanLock(p, rows)
    <3>1. \A q \in Proc \ {p} : \A s \in rows \cap held[q] : s[1] = "share"
      BY <2>2 DEF CanLock, Blockers, Conflicts
    <3>2. /\ r \in held[a] \/ (a = p /\ r \in rows)
          /\ r \in held[b] \/ (b = p /\ r \in rows)
      BY <2>2 DEF TxnType
    <3>3. CASE r \in held[a] /\ r \in held[b]
      BY <3>3 DEF Exclusive
    <3>4. CASE a = p /\ r \in rows
      BY <3>1, <3>2, <3>4
    <3>5. CASE b = p /\ r \in rows
      BY <3>1, <3>2, <3>5
    <3> QED BY <3>2, <3>3, <3>4, <3>5
  <2> QED BY <2>1, <2>2
<1> QED BY <1>1, <1>2

(* What a process knows stays true while it rests and no other one writes       *)
(* a row it has locked.                                                        *)
LEMMA Rests ==
  ASSUME TypeOK, TxnType, NEW p \in Proc, Knows(p),
         txn'[p] = txn[p], held'[p] = held[p],
         \A j \in Job : /\ job[j] # "none" => job'[j] # "none"
                        /\ DOMAIN task[j] \subseteq DOMAIN task'[j]
                        /\ JobRow(j) \in held[p] /\ job[j] = "live" => job'[j] = "live",
         \A j \in Job : \A g \in DOMAIN task[j] :
           TaskRow(j, g) \in held[p] /\ task[j][g].status = "running" =>
             task'[j][g].status = "running"
  PROVE  Knows(p)'
<1>1. txn[p] \in RequestTxn \cup ExecuteTxn => txn[p].job \in Job
  BY DEF RequestTxn, ExecuteTxn
<1>2. txn[p] \in ResetTxn => txn[p].jobs \subseteq Job
  BY DEF ResetTxn
<1> QED BY <1>1, <1>2 DEF Knows

-----------------------------------------------------------------------------
(* Jobs and tasks                                                            *)

(* A transaction that changes no row of the tables kept here, or only matches. *)
LEMMA TablesRest ==
  ASSUME TypeOK, Data, job' = job, task' = task, snapshot' = snapshot
  PROVE  Data'
BY DEF Data, OnlyNewestIsActive, SnapshotOfNewest, DeletedIsSettled, InOrder, Active, Newest

(* One generation gets a status, and nothing else of the tasks changes.        *)
LEMMA StatusSet ==
  ASSUME TypeOK, NEW j \in Job, NEW g \in DOMAIN task[j],
         NEW s \in {"queued", "running", "succeeded", "failed", "removed"},
         SetStatus(j, g, s)
  PROVE  /\ task' \in [Job -> Seq(Generation)]
         /\ \A k \in Job : Len(task'[k]) = Len(task[k]) /\ DOMAIN task'[k] = DOMAIN task[k]
         /\ task'[j][g].status = s
         /\ \A k \in Job : \A i \in DOMAIN task[k] :
              /\ task'[k][i].at = task[k][i].at
              /\ k # j \/ i # g => task'[k][i] = task[k][i]
<1> DEFINE new == [task[j] EXCEPT ![g].status = s]
<1>1. /\ task \in [Job -> Seq(Generation)] /\ task[j] \in Seq(Generation)
      /\ \A k \in Job : DOMAIN task[k] = 1..Len(task[k])
  BY DEF TypeOK
<1>2. task[j][g] \in Generation
  BY <1>1
<1>3. /\ [task[j][g] EXCEPT !.status = s] \in Generation
      /\ [task[j][g] EXCEPT !.status = s].status = s
      /\ [task[j][g] EXCEPT !.status = s].at = task[j][g].at
  BY <1>2 DEF Generation
<1>4. /\ new \in Seq(Generation) /\ Len(new) = Len(task[j])
      /\ DOMAIN new = DOMAIN task[j]
      /\ new[g] = [task[j][g] EXCEPT !.status = s]
      /\ \A i \in DOMAIN task[j] : i # g => new[i] = task[j][i]
  BY <1>1, <1>3, ExceptSeq
<1>5. task' = [task EXCEPT ![j] = new]
  BY DEF SetStatus
<1> HIDE DEF new
<1>6. /\ task' \in [Job -> Seq(Generation)] /\ task'[j] = new
      /\ \A k \in Job : k # j => task'[k] = task[k]
  BY <1>1, <1>4, <1>5
<1>7. \A k \in Job : \A i \in DOMAIN task[k] :
        /\ task'[k][i].at = task[k][i].at
        /\ k # j \/ i # g => task'[k][i] = task[k][i]
  BY <1>3, <1>4, <1>6
<1> QED BY <1>3, <1>4, <1>6, <1>7

(* The latest task by time is the newest one, if times go with generations.    *)
LEMMA LatestIsNewest ==
  ASSUME TypeOK, NEW j \in Job, InOrder(j), task[j] # <<>>
  PROVE  LatestByTime(j) = Newest(j)
<1> DEFINE Latest(g) == \A k \in DOMAIN task[j] :
             task[j][k].at < task[j][g].at \/ (task[j][k].at = task[j][g].at /\ k <= g)
<1>1. /\ task[j] \in Seq(Generation) /\ Newest(j) \in DOMAIN task[j]
      /\ \A k \in DOMAIN task[j] : k \in Nat /\ k <= Newest(j) /\ task[j][k].at \in Nat
  <2>1. /\ task[j] \in Seq(Generation) /\ Newest(j) \in Nat
        /\ DOMAIN task[j] = 1..Newest(j) /\ Newest(j) # 0
    BY EmptySeq DEF TypeOK, Newest
  <2>2. \A k \in DOMAIN task[j] : task[j][k] \in Generation
    BY <2>1
  <2> QED BY <2>1, <2>2, JobLifecycleAssumption DEF Generation, JobLifecycleAssumption
<1>2. Latest(Newest(j))
  BY <1>1 DEF InOrder
<1>3. \A g \in DOMAIN task[j] : Latest(g) => g = Newest(j)
  BY <1>1 DEF InOrder
<1>4. LatestByTime(j) = CHOOSE g \in DOMAIN task[j] : Latest(g)
  BY DEF LatestByTime
<1> HIDE DEF Latest
<1> QED BY <1>1, <1>2, <1>3, <1>4

(* What an active generation says of its job.                                   *)
LEMMA ActiveIsNewest ==
  ASSUME TypeOK, Data, NEW j \in Job, NEW g \in DOMAIN task[j], Active(task[j][g])
  PROVE  /\ g = Newest(j) /\ snapshot[j] = 0
         /\ job[j] = "deleted" => ~InOrder(j)
<1>1. Newest(j) \in Nat /\ g \in 1..Newest(j)
  BY DEF TypeOK, Newest
<1>2. g = Newest(j)
  BY <1>1 DEF Data, OnlyNewestIsActive, Active
<1> QED BY <1>2 DEF Data, SnapshotOfNewest, DeletedIsSettled, Active

(* Times are as they were when lengths and times are.                           *)
LEMMA SameOrder ==
  ASSUME NEW j \in Job, DOMAIN task'[j] = DOMAIN task[j],
         \A g \in DOMAIN task[j] : task'[j][g].at = task[j][g].at
  PROVE  InOrder(j)' <=> InOrder(j)
BY DEF InOrder

-----------------------------------------------------------------------------
(* Steps                                                                     *)

Tables ==
  /\ job \in [Job -> {"none", "live", "deleted", "gone"}]
  /\ task \in [Job -> Seq(Generation)] /\ snapshot \in [Job -> Nat]
  /\ \A j \in Job : snapshot[j] <= Newest(j) /\ (job[j] = "none" <=> task[j] = <<>>)
  /\ match \in [Job -> BOOLEAN] /\ clock \in 0..MaxRequests

(* A step respects the locks of a process: it forgets no job or generation, and *)
(* leaves alone what the process has locked.                                    *)
Respects(q) ==
  /\ \A j \in Job : /\ job[j] # "none" => job'[j] # "none"
                    /\ DOMAIN task[j] \subseteq DOMAIN task'[j]
                    /\ JobRow(j) \in held[q] /\ job[j] = "live" => job'[j] = "live"
  /\ \A j \in Job : \A g \in DOMAIN task[j] :
       TaskRow(j, g) \in held[q] /\ task[j][g].status = "running" =>
         task'[j][g].status = "running"

(* A step of one process keeps the invariant if it takes rows nobody holds, or    *)
(* gives up all it has, and respects the locks of the others.                    *)
LEMMA ActorStep ==
  ASSUME IInv, NEW p \in Proc, NEW x \in Txn, NEW rows \in SUBSET Row,
         txn' = [txn EXCEPT ![p] = x],
         \/ held' = [held EXCEPT ![p] = {}]
         \/ held' = [held EXCEPT ![p] = @ \cup rows] /\ CanLock(p, rows) /\ x # Idle,
         Tables', \A q \in Proc \ {p} : Respects(q), Knows(p)', Data'
  PROVE  IInv'
<1>1. TypeOK /\ TxnType /\ Exclusive /\ \A q \in Proc : Knows(q)
  BY DEF IInv
<1>2. TxnType' /\ Exclusive'
  BY <1>1, Locks
<1>3. \A q \in Proc : Knows(q)'
  <2> SUFFICES ASSUME NEW q \in Proc, q # p
               PROVE  Knows(q)'
    OBVIOUS
  <2>1. txn'[q] = txn[q] /\ held'[q] = held[q]
    BY <1>1 DEF TxnType
  <2>2. Respects(q) /\ Knows(q)
    BY <1>1
  <2> QED BY <1>1, <2>1, <2>2, Rests DEF Respects
<1>4. TypeOK'
  <2>1. \A q \in Proc : txn'[q] = Idle => held'[q] = {}
    BY <1>1 DEF TxnType, TypeOK
  <2> QED BY <2>1 DEF Tables, TypeOK, Generation, Newest
<1> QED BY <1>2, <1>3, <1>4 DEF IInv

(* A step of nobody that has locked anything.                                     *)
LEMMA OutsideStep ==
  ASSUME IInv, UNCHANGED <<txn, held>>, Tables', \A q \in Proc : Respects(q), Data'
  PROVE  IInv'
<1>1. TypeOK /\ TxnType /\ Exclusive /\ \A q \in Proc : Knows(q)
  BY DEF IInv
<1>2. TxnType' /\ Exclusive'
  BY <1>1 DEF TxnType, Exclusive
<1>3. \A q \in Proc : Knows(q)'
  BY <1>1, Rests DEF Respects
<1>4. TypeOK'
  BY <1>1 DEF Tables, TypeOK, Generation, Newest
<1> QED BY <1>2, <1>3, <1>4 DEF IInv

(* A step of one process that changes no job, task or snapshot.                    *)
LEMMA QuietStep ==
  ASSUME IInv, NEW p \in Proc, NEW x \in Txn, NEW rows \in SUBSET Row,
         txn' = [txn EXCEPT ![p] = x],
         \/ held' = [held EXCEPT ![p] = {}]
         \/ held' = [held EXCEPT ![p] = @ \cup rows] /\ CanLock(p, rows) /\ x # Idle,
         UNCHANGED <<job, task, snapshot>>,
         match' \in [Job -> BOOLEAN], clock' \in 0..MaxRequests, Knows(p)'
  PROVE  IInv'
<1>1. TypeOK /\ Data
  BY DEF IInv
<1>2. Tables'
  BY <1>1 DEF Tables, TypeOK, Generation, Newest
<1>3. \A q \in Proc \ {p} : Respects(q)
  BY DEF Respects
<1>4. Data'
  BY <1>1, TablesRest
<1> QED BY <1>2, <1>3, <1>4, ActorStep

(* Holding what it holds is taking no more.                                        *)
LEMMA TakesNothing ==
  ASSUME TxnType, NEW p \in Proc, UNCHANGED held
  PROVE  held' = [held EXCEPT ![p] = @ \cup {}] /\ CanLock(p, {})
BY DEF TxnType, CanLock, Blockers

(* A transaction that ends knows nothing.                                          *)
LEMMA IdleKnows ==
  ASSUME NEW p \in Proc, txn'[p] = Idle
  PROVE  Knows(p)'
BY Disjoint DEF Knows

(* A transaction may end at any time.                                              *)
LEMMA Ends ==
  ASSUME IInv, NEW p \in Proc, End(p), UNCHANGED <<job, task, snapshot>>,
         match' \in [Job -> BOOLEAN], clock' \in 0..MaxRequests
  PROVE  IInv'
<1>1. Idle \in Txn /\ {} \in SUBSET Row
  BY DEF Txn
<1>2. txn' = [txn EXCEPT ![p] = Idle] /\ held' = [held EXCEPT ![p] = {}]
  BY DEF End
<1>3. txn'[p] = Idle
  BY <1>2 DEF IInv, TxnType
<1>4. Knows(p)'
  BY <1>3, IdleKnows
<1> QED BY <1>1, <1>2, <1>4, QuietStep

(* Rows are rows.                                                                  *)
LEMMA RowsAreRows ==
  /\ \A j \in Job : JobRow(j) \in Row /\ KeyShare(j) \in Row
  /\ \A j \in Job : \A g \in Nat : TaskRow(j, g) \in Row
BY DEF JobRow, KeyShare, TaskRow, Row

-----------------------------------------------------------------------------
(* HR's requests                                                             *)

(* A transaction that asks for another parse or a deletion begins.             *)
LEMMA BeginKeeps ==
  ASSUME IInv, NEW h \in Hr, NEW j \in Job, NEW op \in {"submit", "retry", "delete"},
         Begin(h, op, j)
  PROVE  IInv'
<1> DEFINE x == [op |-> op, job |-> j, pc |-> "lock job", at |-> clock + 1]
<1>1. TypeOK /\ TxnType /\ h \in Proc
  BY DEF IInv, Proc
<1>2. clock + 1 \in 0..MaxRequests /\ clock' = clock + 1
  <2>1. clock \in 0..MaxRequests /\ MaxRequests \in Nat
    BY <1>1, JobLifecycleAssumption DEF TypeOK, JobLifecycleAssumption
  <2>2. clock < MaxRequests /\ clock' = clock + 1
    BY DEF Begin
  <2> QED BY <2>1, <2>2
<1>3. x \in RequestTxn /\ x \in Txn /\ x # Idle
  <2>1. x \in RequestTxn
    BY <1>2 DEF RequestTxn
  <2> QED BY <2>1, Disjoint DEF Txn
<1>4. txn' = [txn EXCEPT ![h] = x] /\ txn'[h] = x
  BY <1>1, <1>2 DEF Begin, TxnType
<1>5. held' = [held EXCEPT ![h] = @ \cup {}] /\ CanLock(h, {})
  BY <1>1, TakesNothing DEF Begin
<1>6. x.job = j /\ x.pc = "lock job" /\ job'[j] # "none"
  BY DEF Begin
<1> HIDE DEF x
<1>8. Knows(h)'
  BY <1>3, <1>4, <1>6, Disjoint DEF Knows
<1>7. /\ UNCHANGED <<job, task, snapshot>>
      /\ match' \in [Job -> BOOLEAN] /\ clock' \in 0..MaxRequests
  BY <1>1, <1>2 DEF Begin, TypeOK
<1> QED BY <1>1, <1>3, <1>4, <1>5, <1>7, <1>8, QuietStep

(* It goes on to its task with the row of a job that is live.                   *)
LEMMA JobLocked ==
  ASSUME IInv, NEW h \in Hr, txn[h] \in RequestTxn,
         CanLock(h, {JobRow(txn[h].job)}), job[txn[h].job] = "live",
         Goto(h, "lock task", {JobRow(txn[h].job)}),
         UNCHANGED <<job, task, snapshot, match, clock>>
  PROVE  IInv'
<1> DEFINE x == [txn[h] EXCEPT !.pc = "lock task"]
<1>1. TypeOK /\ TxnType /\ h \in Proc
  BY DEF IInv, Proc
<1>2. /\ x \in RequestTxn /\ x.job = txn[h].job /\ x.job \in Job
  BY DEF RequestTxn
<1>3. x \in Txn /\ x # Idle
  BY <1>2, Disjoint DEF Txn
<1>4. /\ txn' = [txn EXCEPT ![h] = x] /\ txn'[h] = x
      /\ held' = [held EXCEPT ![h] = @ \cup {JobRow(txn[h].job)}]
      /\ JobRow(txn[h].job) \in held'[h]
  BY <1>1 DEF Goto, TxnType
<1> HIDE DEF x
<1>5. Knows(h)'
  BY <1>2, <1>4, Disjoint DEF Knows
<1>6. {JobRow(txn[h].job)} \in SUBSET Row
  BY <1>2, RowsAreRows
<1>7. match' \in [Job -> BOOLEAN] /\ clock' \in 0..MaxRequests
  BY <1>1 DEF TypeOK
<1> QED BY <1>1, <1>3, <1>4, <1>5, <1>6, <1>7, QuietStep

LEMMA LockJobKeeps ==
  ASSUME IInv, NEW h \in Hr, RetryLockJob(h) \/ DeleteLockJob(h)
  PROVE  IInv'
<1>1. TypeOK /\ TxnType /\ h \in Proc
  BY DEF IInv, Proc
<1>2. txn[h] \in RequestTxn
  BY <1>1, Kinds DEF TxnType, RetryLockJob, DeleteLockJob, At
<1>3. match' \in [Job -> BOOLEAN] /\ clock' \in 0..MaxRequests
  BY <1>1 DEF TypeOK, RetryLockJob, DeleteLockJob
<1>4. \/ End(h)
      \/ /\ job[txn[h].job] = "live" /\ CanLock(h, {JobRow(txn[h].job)})
         /\ Goto(h, "lock task", {JobRow(txn[h].job)})
  BY DEF RetryLockJob, DeleteLockJob
<1>5. UNCHANGED <<job, task, snapshot, match, clock>>
  BY DEF RetryLockJob, DeleteLockJob
<1> QED BY <1>1, <1>2, <1>3, <1>4, <1>5, Ends, JobLocked

(* A failed generation gets a successor, in a job that stays locked.             *)
LEMMA RetryKeeps ==
  ASSUME IInv, NEW h \in Hr, RetryLockTasks(h)
  PROVE  IInv'
<1>1. TypeOK /\ TxnType /\ Data /\ Knows(h) /\ h \in Proc
  BY DEF IInv, Proc
<1>2. /\ txn[h] \in RequestTxn /\ txn[h].pc = "lock task"
      /\ txn[h].job \in Job /\ txn[h].at \in 0..MaxRequests
  <2>1. txn[h] \in RequestTxn /\ txn[h].pc = "lock task"
    BY <1>1, Kinds DEF TxnType, RetryLockTasks
  <2> QED BY <2>1 DEF RequestTxn
<1> PICK j \in Job : j = txn[h].job
  BY <1>2
<1> PICK new \in Generation : new = [status |-> "queued", at |-> txn[h].at]
  BY <1>2 DEF Generation
<1>0. new.status = "queued"
  OBVIOUS
<1>3. /\ job[j] = "live" /\ task[j] # <<>>
      /\ task \in [Job -> Seq(Generation)] /\ task[j] \in Seq(Generation)
      /\ Newest(j) \in Nat /\ Newest(j) # 0 /\ DOMAIN task[j] = 1..Newest(j)
  <2>1. job[j] = "live"
    BY <1>1, <1>2 DEF Knows
  <2>2. task \in [Job -> Seq(Generation)] /\ task[j] # <<>>
    BY <1>1, <2>1 DEF TypeOK
  <2> QED BY <2>1, <2>2, EmptySeq DEF Newest
<1>4. End(h) /\ UNCHANGED <<job, snapshot, match, clock>>
  BY DEF RetryLockTasks
<1>5. CASE task' = task
  <2>1. match' \in [Job -> BOOLEAN] /\ clock' \in 0..MaxRequests
    BY <1>1, <1>4 DEF TypeOK
  <2> QED BY <1>1, <1>4, <1>5, <2>1, Ends
<1>6. CASE /\ task[j][Newest(j)].status = "failed"
           /\ task' = [task EXCEPT ![j] = Append(@, new)]
  <2> DEFINE s == Append(task[j], new)
  <2>1. /\ s \in Seq(Generation) /\ Len(s) = Newest(j) + 1 /\ s # <<>>
        /\ DOMAIN s = 1..(Newest(j) + 1)
        /\ \A g \in 1..Newest(j) : s[g] = task[j][g]
        /\ s[Newest(j) + 1] = new
    <3>1. s \in Seq(Generation) /\ Len(s) = Newest(j) + 1
      BY <1>3 DEF Newest
    <3>2. \A g \in 1..Newest(j) : s[g] = task[j][g]
      BY <1>3 DEF Newest
    <3>3. s[Newest(j) + 1] = new
      BY <1>3 DEF Newest
    <3> HIDE DEF s
    <3>4. DOMAIN s = 1..(Newest(j) + 1) /\ s # <<>>
      BY <1>3, <3>1, EmptySeq
    <3> QED BY <3>1, <3>2, <3>3, <3>4
  <2> HIDE DEF s
  <2>2. /\ task' \in [Job -> Seq(Generation)] /\ task'[j] = s
        /\ \A k \in Job : k # j => task'[k] = task[k]
    BY <1>3, <1>6, <2>1 DEF s
  <2>3. Tables'
    <3>1. \A k \in Job : snapshot[k] \in Nat /\ snapshot[k] <= Newest(k)
                         /\ (job[k] = "none" <=> task[k] = <<>>)
      BY <1>1 DEF TypeOK
    <3>2. \A k \in Job : /\ snapshot[k] <= Len(task'[k])
                         /\ job[k] = "none" <=> task'[k] = <<>>
      BY <1>3, <2>1, <2>2, <3>1 DEF Newest
    <3>3. /\ job' \in [Job -> {"none", "live", "deleted", "gone"}]
          /\ snapshot' \in [Job -> Nat] /\ snapshot' = snapshot /\ job' = job
          /\ match' \in [Job -> BOOLEAN] /\ clock' \in 0..MaxRequests
      BY <1>1, <1>4 DEF TypeOK
    <3>4. \A k \in Job : /\ snapshot'[k] <= Newest(k)'
                         /\ job'[k] = "none" <=> task'[k] = <<>>
      BY <3>2, <3>3 DEF Newest
    <3> QED BY <2>2, <3>3, <3>4 DEF Tables, Generation
  <2>4. \A q \in Proc \ {h} : Respects(q)
    <3>1. \A k \in Job : /\ DOMAIN task[k] \subseteq DOMAIN task'[k]
                         /\ \A g \in DOMAIN task[k] : task'[k][g] = task[k][g]
      <4> TAKE k \in Job
      <4>1. CASE k = j
        BY <1>3, <2>1, <2>2, <4>1
      <4>2. CASE k # j
        BY <2>2, <4>2
      <4> QED BY <4>1, <4>2
    <3> QED BY <1>4, <3>1 DEF Respects
  <2>5. \A g \in 1..Newest(j) : task[j][g].status \in {"failed", "removed"}
    BY <1>1, <1>3, <1>6 DEF Data, OnlyNewestIsActive
  <2>6. OnlyNewestIsActive'
    <3>1. \A k \in Job \ {j} : task'[k] = task[k]
      BY <2>2
    <3>2. \A g \in DOMAIN task'[j] :
            g < Len(task'[j]) => task'[j][g].status \in {"failed", "removed"}
      <4>1. task'[j] = s /\ Len(task'[j]) = Newest(j) + 1
        BY <2>1, <2>2
      <4> QED BY <1>3, <2>1, <2>5, <4>1
    <3> QED BY <1>1, <3>1, <3>2 DEF Data, OnlyNewestIsActive, Newest
  <2>7. SnapshotOfNewest'
    <3>1. snapshot[j] = 0
      BY <1>1, <1>3, <1>6 DEF Data, SnapshotOfNewest
    <3>2. task'[j][Newest(j)'].status = "queued"
      BY <1>0, <1>3, <2>1, <2>2 DEF Newest
    <3> QED BY <1>1, <1>3, <1>4, <2>2, <3>1, <3>2, ZenonT(40) DEF Data, SnapshotOfNewest, Newest
  <2>8. DeletedIsSettled'
    BY <1>1, <1>3, <1>4, <2>2 DEF Data, DeletedIsSettled, InOrder, Active
  <2>9. txn' = [txn EXCEPT ![h] = Idle] /\ held' = [held EXCEPT ![h] = {}] /\ txn'[h] = Idle
    BY <1>1, <1>4 DEF End, TxnType
  <2>10. Knows(h)' /\ Idle \in Txn /\ {} \in SUBSET Row
    BY <1>1, <2>9, IdleKnows DEF Txn
  <2> QED BY <1>1, <2>3, <2>4, <2>6, <2>7, <2>8, <2>9, <2>10, ActorStep DEF Data
<1> QED BY <1>5, <1>6 DEF RetryLockTasks, MayRetry

(* A deletion finds all generations of its job settled, if their times go with  *)
(* them, and no retry is under way that could add one.                          *)
LEMMA DeleteKeeps ==
  ASSUME IInv, NEW h \in Hr, DeleteLockTask(h)
  PROVE  IInv'
<1>1. TypeOK /\ TxnType /\ Exclusive /\ Data /\ Knows(h) /\ h \in Proc
  BY DEF IInv, Proc
<1>2. /\ txn[h] \in RequestTxn /\ txn[h].pc = "lock task"
      /\ txn[h].job \in Job
  <2>1. txn[h] \in RequestTxn /\ txn[h].pc = "lock task"
    BY <1>1, Kinds DEF TxnType, DeleteLockTask, At
  <2> QED BY <2>1 DEF RequestTxn
<1> PICK j \in Job : j = txn[h].job
  BY <1>2
<1>3. JobRow(j) \in held[h] /\ job[j] = "live" /\ task[j] # <<>>
  BY <1>1, <1>2 DEF Knows, TypeOK
<1>4. End(h) /\ UNCHANGED <<task, match, clock>>
  BY DEF DeleteLockTask
<1>5. \/ UNCHANGED <<job, snapshot>>
      \/ /\ MayDelete(task[j][LatestByTime(j)])
         /\ job' = [job EXCEPT ![j] = "deleted"]
         /\ snapshot' = [snapshot EXCEPT ![j] = 0]
  <2>1. CASE MayDelete(task[j][LatestByTime(j)]) /\ ~match[j]
    BY <2>1 DEF DeleteLockTask, SnapshotAfterDeletion
  <2>2. CASE ~(MayDelete(task[j][LatestByTime(j)]) /\ ~match[j])
    <3>1. job' = [job EXCEPT ![j] = job[j]] /\ snapshot' = [snapshot EXCEPT ![j] = snapshot[j]]
      BY <2>2 DEF DeleteLockTask
    <3> QED BY <1>1, <3>1 DEF TypeOK
  <2> QED BY <2>1, <2>2
<1>6. CASE UNCHANGED <<job, snapshot>>
  <2>1. match' \in [Job -> BOOLEAN] /\ clock' \in 0..MaxRequests
    BY <1>1, <1>4 DEF TypeOK
  <2> QED BY <1>1, <1>4, <1>6, <2>1, Ends
<1>7. CASE /\ MayDelete(task[j][LatestByTime(j)])
           /\ job' = [job EXCEPT ![j] = "deleted"]
           /\ snapshot' = [snapshot EXCEPT ![j] = 0]
  <2>1. /\ job' \in [Job -> {"none", "live", "deleted", "gone"}]
        /\ snapshot' \in [Job -> Nat] /\ job'[j] = "deleted" /\ snapshot'[j] = 0
        /\ \A k \in Job : k # j => job'[k] = job[k] /\ snapshot'[k] = snapshot[k]
    BY <1>1, <1>7 DEF TypeOK
  <2>2. Tables'
    <3>1. \A k \in Job : /\ snapshot'[k] <= Len(task[k])
                         /\ job'[k] = "none" <=> task[k] = <<>>
      BY <1>1, <1>3, <2>1 DEF TypeOK, Newest
    <3>2. /\ task' \in [Job -> Seq(Generation)] /\ task' = task
          /\ match' \in [Job -> BOOLEAN] /\ clock' \in 0..MaxRequests
      BY <1>1, <1>4 DEF TypeOK
    <3> QED BY <2>1, <3>1, <3>2 DEF Tables, Newest, Generation
  <2>3. ASSUME NEW q \in Proc \ {h}
        PROVE  Respects(q)
    <3>1. JobRow(j) \notin held[q]
      <4>1. JobRow(j)[1] = "job"
        BY DEF JobRow
      <4> QED BY <1>1, <1>3, <4>1 DEF Exclusive
    <3> QED BY <1>4, <2>1, <3>1 DEF Respects
  <2>4. InOrder(j) => \A g \in DOMAIN task[j] : ~Active(task[j][g])
    <3>1. ASSUME InOrder(j), NEW g \in DOMAIN task[j], Active(task[j][g])
          PROVE  FALSE
      <4>1. g = Newest(j)
        BY <1>1, <3>1, ActiveIsNewest
      <4>2. LatestByTime(j) = Newest(j)
        BY <1>1, <1>3, <3>1, LatestIsNewest
      <4> QED BY <1>7, <3>1, <4>1, <4>2 DEF MayDelete, Settled, Active
    <3> QED BY <3>1
  <2>5. Data'
    <3>1. OnlyNewestIsActive'
      BY <1>1, <1>4 DEF Data, OnlyNewestIsActive, Newest
    <3>2. SnapshotOfNewest'
      BY <1>1, <1>4, <2>1 DEF Data, SnapshotOfNewest, Newest
    <3>3. DeletedIsSettled'
      BY <1>1, <1>4, <2>1, <2>4 DEF Data, DeletedIsSettled, InOrder, Active
    <3> QED BY <3>1, <3>2, <3>3 DEF Data
  <2>6. txn' = [txn EXCEPT ![h] = Idle] /\ held' = [held EXCEPT ![h] = {}] /\ txn'[h] = Idle
    BY <1>1, <1>4 DEF End, TxnType
  <2>7. Knows(h)' /\ Idle \in Txn /\ {} \in SUBSET Row
    BY <1>1, <2>6, IdleKnows DEF Txn
  <2> QED BY <1>1, <2>2, <2>3, <2>5, <2>6, <2>7, ActorStep
<1> QED BY <1>5, <1>6, <1>7

-----------------------------------------------------------------------------
(* HR's resets                                                               *)

LEMMA ResetBeginKeeps ==
  ASSUME IInv, NEW h \in Hr, ResetBegin(h)
  PROVE  IInv'
<1> DEFINE x == [op |-> "reset", pc |-> "read tasks", jobs |-> {j \in Job : HasRow(j)},
                 matches |-> {j \in Job : match[j]}, rows |-> {}]
<1>1. TypeOK /\ TxnType /\ h \in Proc
  BY DEF IInv, Proc
<1>2. x \in ResetTxn
  BY DEF ResetTxn
<1>3. /\ x \in Txn /\ x # Idle /\ x.pc = "read tasks"
      /\ \A j \in x.jobs : job'[j] # "none"
  BY <1>2, Disjoint DEF Txn, HasRow, ResetBegin
<1>4. txn' = [txn EXCEPT ![h] = x] /\ txn'[h] = x
  BY <1>1 DEF ResetBegin, TxnType
<1> HIDE DEF x
<1>5. held' = [held EXCEPT ![h] = @ \cup {}] /\ CanLock(h, {}) /\ {} \in SUBSET Row
  BY <1>1, TakesNothing DEF ResetBegin
<1>6. Knows(h)'
  BY <1>2, <1>3, <1>4, Disjoint DEF Knows
<1>7. /\ UNCHANGED <<job, task, snapshot>>
      /\ match' \in [Job -> BOOLEAN] /\ clock' \in 0..MaxRequests
  <2>1. clock \in 0..MaxRequests /\ MaxRequests \in Nat /\ match \in [Job -> BOOLEAN]
    BY <1>1, JobLifecycleAssumption DEF TypeOK, JobLifecycleAssumption
  <2>2. /\ clock < MaxRequests /\ clock' = clock + 1
        /\ UNCHANGED <<job, task, snapshot, match>>
    BY DEF ResetBegin
  <2> QED BY <2>1, <2>2
<1> QED BY <1>1, <1>3, <1>4, <1>5, <1>6, <1>7, QuietStep

(* The rows it will delete are those of the jobs it has read.                  *)
LEMMA ResetReadKeeps ==
  ASSUME IInv, NEW h \in Hr, ResetReadTasks(h)
  PROVE  IInv'
<1> DEFINE rows == UNION {TaskRows(j, Newest(j)) \cup {JobRow(j)} : j \in txn[h].jobs}
           x1 == [txn[h] EXCEPT !.pc = "delete"]
           x == [x1 EXCEPT !.rows = rows]
<1>1. TypeOK /\ TxnType /\ h \in Proc
  BY DEF IInv, Proc
<1>2. txn[h] \in ResetTxn
  BY <1>1, Kinds DEF TxnType, ResetReadTasks, At
<1>3. txn[h].jobs \in SUBSET Job
  BY <1>2 DEF ResetTxn
<1>4. rows \in SUBSET Row
  <2>1. ASSUME NEW j \in txn[h].jobs, NEW g \in 1..Newest(j)
        PROVE  TaskRow(j, g) \in Row
    BY <1>1, <1>3, RowsAreRows DEF TypeOK, Newest
  <2> QED BY <1>3, <2>1, RowsAreRows DEF TaskRows
<1>5. /\ \A j \in txn[h].jobs : JobRow(j) \in rows
      /\ \A r \in rows : r[2] \in txn[h].jobs
  BY DEF TaskRows, TaskRow, JobRow
<1> HIDE DEF rows
<1>6. x1 \in ResetTxn /\ x1.pc = "delete" /\ x1.jobs = txn[h].jobs
  BY <1>2 DEF ResetTxn
<1>7. x \in ResetTxn /\ x.rows = rows /\ x.jobs = txn[h].jobs
  BY <1>4, <1>6 DEF ResetTxn
<1>8. txn' = [txn EXCEPT ![h] = x] /\ txn'[h] = x
  BY <1>1 DEF ResetReadTasks, rows, TxnType
<1> HIDE DEF x, x1
<1>9. x \in Txn /\ x # Idle
  BY <1>7, Disjoint DEF Txn
<1>10. held' = [held EXCEPT ![h] = @ \cup {}] /\ CanLock(h, {})
  BY <1>1, TakesNothing DEF ResetReadTasks
<1>11. Knows(h)'
  <2>1. \A j \in x.jobs : job'[j] # "none"
    BY <1>2, <1>7 DEF IInv, Proc, Knows, ResetReadTasks
  <2> QED BY <1>5, <1>7, <1>8, <2>1, Disjoint DEF Knows
<1>12. /\ UNCHANGED <<job, task, snapshot>>
       /\ match' \in [Job -> BOOLEAN] /\ clock' \in 0..MaxRequests
  BY <1>1 DEF ResetReadTasks, TypeOK
<1> QED BY <1>1, <1>8, <1>9, <1>10, <1>11, <1>12, QuietStep, ZenonT(40)

LEMMA ResetDeleteKeeps ==
  ASSUME IInv, NEW h \in Hr, NEW row, ResetDelete(h, row)
  PROVE  IInv'
<1>1. TypeOK /\ TxnType /\ Knows(h) /\ h \in Proc
  BY DEF IInv, Proc
<1>2. txn[h] \in ResetTxn
  BY <1>1, Kinds DEF TxnType, ResetDelete, At
<1>3. txn[h] \in Txn /\ txn[h] # Idle /\ {row} \in SUBSET Row
  <2>1. row \in Row
    BY <1>2 DEF ResetDelete, ResetTxn
  <2> QED BY <1>2, <2>1, Disjoint DEF Txn
<1>4. /\ txn' = [txn EXCEPT ![h] = txn[h]] /\ txn' = txn
      /\ held' = [held EXCEPT ![h] = @ \cup {row}] /\ CanLock(h, {row})
  BY <1>1 DEF ResetDelete, TxnType
<1>5. /\ UNCHANGED <<job, task, snapshot>>
      /\ match' \in [Job -> BOOLEAN] /\ clock' \in 0..MaxRequests
  BY <1>1 DEF ResetDelete, TypeOK
<1>6. Knows(h)'
  BY <1>1, <1>2, <1>4, <1>5, Disjoint DEF Knows
<1> QED BY <1>1, <1>3, <1>4, <1>5, <1>6, QuietStep

(* A reset that is done takes the jobs it has read, with all that is kept of     *)
(* them here; it holds their rows.                                               *)
LEMMA ResetCommitKeeps ==
  ASSUME IInv, NEW h \in Hr, ResetCommit(h)
  PROVE  IInv'
<1>1. TypeOK /\ TxnType /\ Exclusive /\ Data /\ Knows(h) /\ h \in Proc
  BY DEF IInv, Proc
<1>2. txn[h] \in ResetTxn /\ txn[h].pc = "delete" /\ txn[h].rows \subseteq held[h]
  BY <1>1, Kinds DEF TxnType, ResetCommit, At
<1> PICK J \in SUBSET Job : J = txn[h].jobs
  BY <1>2 DEF ResetTxn
<1> PICK rows \in SUBSET held[h] : rows = txn[h].rows
  BY <1>2
<1>3. /\ \A j \in J : JobRow(j) \in held[h]
      /\ \A j, g : TaskRow(j, g) \in rows => j \in J
  <2>1. \A r \in rows : r[2] \in J
    BY <1>1, <1>2 DEF Knows
  <2>2. \A j, g : TaskRow(j, g)[2] = j
    BY DEF TaskRow
  <2> QED BY <1>1, <1>2, <2>1, <2>2 DEF Knows
<1>4. End(h) /\ UNCHANGED clock
  BY DEF ResetCommit
<1> DEFINE done == \A j \in J : match[j] => j \in txn[h].matches
           taken(j) == done /\ j \in J
<1>5. /\ job' = [j \in Job |-> IF taken(j) THEN "gone" ELSE job[j]]
      /\ match' = [j \in Job |-> IF taken(j) THEN FALSE ELSE match[j]]
      /\ snapshot' = [j \in Job |-> IF taken(j) THEN 0 ELSE snapshot[j]]
      /\ task' = [j \in Job |-> [g \in DOMAIN task[j] |->
                   IF done /\ TaskRow(j, g) \in rows
                   THEN [task[j][g] EXCEPT !.status = "removed"] ELSE task[j][g]]]
  BY DEF ResetCommit
<1> HIDE DEF done
<1>6. /\ job' \in [Job -> {"none", "live", "deleted", "gone"}]
      /\ match' \in [Job -> BOOLEAN] /\ snapshot' \in [Job -> Nat]
      /\ clock' \in 0..MaxRequests
  BY <1>1, <1>4, <1>5 DEF TypeOK
<1>7. ASSUME NEW j \in Job
      PROVE  /\ task'[j] \in Seq(Generation)
             /\ Len(task'[j]) = Len(task[j]) /\ DOMAIN task'[j] = DOMAIN task[j]
             /\ \A g \in DOMAIN task[j] :
                  /\ task'[j][g].at = task[j][g].at
                  /\ \/ task'[j][g] = task[j][g]
                     \/ TaskRow(j, g) \in rows /\ taken(j) /\ task'[j][g].status = "removed"
  <2>1. /\ task[j] \in Seq(Generation) /\ DOMAIN task[j] = 1..Len(task[j])
        /\ Len(task[j]) \in Nat
    BY <1>1 DEF TypeOK
  <2>2. \A g \in DOMAIN task[j] :
          task'[j][g] = IF done /\ TaskRow(j, g) \in rows
                        THEN [task[j][g] EXCEPT !.status = "removed"] ELSE task[j][g]
    BY <1>5
  <2>3. ASSUME NEW g \in DOMAIN task[j]
        PROVE  /\ task'[j][g] \in Generation
               /\ task'[j][g].at = task[j][g].at
               /\ \/ task'[j][g] = task[j][g]
                  \/ TaskRow(j, g) \in rows /\ taken(j) /\ task'[j][g].status = "removed"
    <3>1. task[j][g] \in Generation
      BY <2>1
    <3> DEFINE r == [task[j][g] EXCEPT !.status = "removed"]
    <3>2. r \in Generation /\ r.status = "removed" /\ r.at = task[j][g].at
      BY <3>1 DEF Generation
    <3>3. task'[j][g] = IF done /\ TaskRow(j, g) \in rows THEN r ELSE task[j][g]
      BY <2>2
    <3> HIDE DEF r
    <3>4. CASE done /\ TaskRow(j, g) \in rows
      BY <1>3, <3>2, <3>3, <3>4
    <3>5. CASE ~(done /\ TaskRow(j, g) \in rows)
      BY <3>1, <3>3, <3>5
    <3> QED BY <3>4, <3>5
  <2>4. \A g \in DOMAIN task[j] :
          /\ task'[j][g] \in Generation
          /\ task'[j][g].at = task[j][g].at
          /\ \/ task'[j][g] = task[j][g]
             \/ TaskRow(j, g) \in rows /\ taken(j) /\ task'[j][g].status = "removed"
    BY <2>3
  <2>5. task'[j] \in [1..Len(task[j]) -> Generation]
    BY <1>5, <2>1, <2>4
  <2>6. task'[j] \in Seq(Generation) /\ Len(task'[j]) = Len(task[j])
    BY <2>1, <2>5, IsASeq
  <2> QED BY <2>1, <2>4, <2>5, <2>6
<1>8. task' \in [Job -> Seq(Generation)]
  BY <1>5, <1>7
<1>9. \A j \in Job : /\ job'[j] = IF taken(j) THEN "gone" ELSE job[j]
                     /\ snapshot'[j] = IF taken(j) THEN 0 ELSE snapshot[j]
  BY <1>5
<1>10. Tables'
  <2>1. \A j \in Job : /\ snapshot'[j] <= Len(task'[j])
                       /\ job'[j] = "none" <=> task'[j] = <<>>
    <3> TAKE j \in Job
    <3>1. /\ snapshot[j] \in Nat /\ snapshot[j] <= Len(task[j]) /\ Len(task[j]) \in Nat
          /\ job[j] = "none" <=> task[j] = <<>>
          /\ task[j] \in Seq(Generation)
      BY <1>1 DEF TypeOK, Newest
    <3>2. taken(j) => job[j] # "none"
      BY <1>1, <1>2 DEF Knows
    <3> QED BY <1>7, <1>9, <3>1, <3>2, EmptySeq
  <2> QED BY <1>6, <1>8, <2>1 DEF Tables, Newest, Generation
<1>11. ASSUME NEW q \in Proc \ {h}
       PROVE  Respects(q)
  <2>1. \A j \in J : JobRow(j) \notin held[q]
    <3>1. \A j : JobRow(j)[1] = "job"
      BY DEF JobRow
    <3> QED BY <1>1, <1>3, <3>1 DEF Exclusive
  <2>2. \A j, g : TaskRow(j, g) \in rows => TaskRow(j, g) \notin held[q]
    <3>1. \A j, g : TaskRow(j, g)[1] = "task"
      BY DEF TaskRow
    <3> QED BY <1>1, <3>1 DEF Exclusive
  <2>3. \A j \in Job : /\ job[j] # "none" => job'[j] # "none"
                       /\ JobRow(j) \in held[q] /\ job[j] = "live" => job'[j] = "live"
    BY <1>9, <2>1
  <2>4. \A j \in Job : \A g \in DOMAIN task[j] :
          TaskRow(j, g) \in held[q] => task'[j][g] = task[j][g]
    BY <1>7, <2>2
  <2> QED BY <1>7, <2>3, <2>4 DEF Respects
<1>12. Data'
  <2>1. OnlyNewestIsActive'
    <3>1. \A j \in Job : \A g \in DOMAIN task[j] :
            g < Len(task[j]) => task'[j][g].status \in {"failed", "removed"}
      BY <1>1, <1>7 DEF Data, OnlyNewestIsActive, Newest
    <3> QED BY <1>7, <3>1 DEF OnlyNewestIsActive, Newest
  <2>2. ASSUME NEW j \in Job, ~taken(j)
        PROVE  /\ job'[j] = job[j] /\ snapshot'[j] = snapshot[j]
               /\ \A g \in DOMAIN task[j] : task'[j][g] = task[j][g]
    BY <1>7, <1>9, <2>2
  <2>3. SnapshotOfNewest'
    <3> SUFFICES ASSUME NEW j \in Job
                 PROVE  /\ snapshot'[j] # 0 =>
                             /\ job'[j] = "live" /\ snapshot'[j] = Len(task'[j])
                             /\ task'[j][Len(task'[j])].status = "succeeded"
                        /\ job'[j] = "live" /\ Len(task'[j]) # 0
                             /\ task'[j][Len(task'[j])].status = "succeeded" =>
                               snapshot'[j] # 0
      BY DEF SnapshotOfNewest, Newest
    <3>1. CASE taken(j)
      BY <1>9, <3>1
    <3>2. CASE ~taken(j)
      <4>1. DOMAIN task[j] = 1..Len(task[j]) /\ Len(task[j]) \in Nat
        BY <1>1 DEF TypeOK
      <4>2. Len(task[j]) # 0 => task'[j][Len(task[j])] = task[j][Len(task[j])]
        BY <2>2, <3>2, <4>1
      <4>3. snapshot[j] <= Len(task[j]) /\ snapshot[j] \in Nat
        BY <1>1 DEF TypeOK, Newest
      <4> QED BY <1>1, <1>7, <2>2, <3>2, <4>1, <4>2, <4>3 DEF Data, SnapshotOfNewest, Newest
    <3> QED BY <3>1, <3>2
  <2>4. DeletedIsSettled'
    <3> SUFFICES ASSUME NEW j \in Job, job'[j] = "deleted", InOrder(j)'
                 PROVE  \A g \in DOMAIN task'[j] : ~Active(task'[j][g])
      BY DEF DeletedIsSettled, Active
    <3>1. ~taken(j)
      BY <1>9
    <3>2. InOrder(j)
      BY <1>7, SameOrder
    <3> QED BY <1>1, <1>7, <2>2, <3>1, <3>2 DEF Data, DeletedIsSettled
  <2> QED BY <2>1, <2>3, <2>4 DEF Data
<1>13. txn' = [txn EXCEPT ![h] = Idle] /\ held' = [held EXCEPT ![h] = {}] /\ txn'[h] = Idle
  BY <1>1, <1>4 DEF End, TxnType
<1>14. Knows(h)' /\ Idle \in Txn /\ {} \in SUBSET Row
  BY <1>1, <1>13, IdleKnows DEF Txn
<1> QED BY <1>1, <1>10, <1>11, <1>12, <1>13, <1>14, ActorStep

-----------------------------------------------------------------------------
(* Workers                                                                   *)

(* An active generation starts, fails, or succeeds with its snapshot.          *)
LEMMA ActiveWritten ==
  ASSUME TypeOK, Data, NEW j \in Job, NEW g \in DOMAIN task[j], Active(task[j][g]),
         NEW s \in {"queued", "running", "failed", "succeeded"}, SetStatus(j, g, s),
         UNCHANGED <<job, match, clock>>,
         \/ s # "succeeded" /\ UNCHANGED snapshot
         \/ s = "succeeded" /\ job[j] = "live" /\ snapshot' = [snapshot EXCEPT ![j] = g]
  PROVE  /\ Tables' /\ Data'
         /\ \A k \in Job : DOMAIN task'[k] = DOMAIN task[k]
         /\ \A k \in Job : \A i \in DOMAIN task[k] :
              k # j \/ i # g => task'[k][i] = task[k][i]
<1>1. /\ task' \in [Job -> Seq(Generation)]
      /\ \A k \in Job : Len(task'[k]) = Len(task[k]) /\ DOMAIN task'[k] = DOMAIN task[k]
      /\ task'[j][g].status = s
      /\ \A k \in Job : \A i \in DOMAIN task[k] :
           /\ task'[k][i].at = task[k][i].at
           /\ k # j \/ i # g => task'[k][i] = task[k][i]
  BY StatusSet
<1>2. /\ g = Newest(j) /\ snapshot[j] = 0
      /\ job[j] = "deleted" => ~InOrder(j)
  BY ActiveIsNewest
<1>3. \A k \in Job : /\ task[k] \in Seq(Generation) /\ Len(task[k]) \in Nat
                     /\ DOMAIN task[k] = 1..Len(task[k])
                     /\ snapshot[k] \in Nat /\ snapshot[k] <= Len(task[k])
                     /\ job[k] = "none" <=> task[k] = <<>>
  BY DEF TypeOK, Newest
<1>4. /\ snapshot' \in [Job -> Nat]
      /\ snapshot'[j] = IF s = "succeeded" THEN g ELSE 0
      /\ \A k \in Job \ {j} : snapshot'[k] = snapshot[k]
  <2>1. g \in Nat
    BY <1>3
  <2> QED BY <1>2, <2>1 DEF TypeOK
<1>5. Tables'
  <2>1. \A k \in Job : snapshot'[k] <= Len(task'[k])
    BY <1>1, <1>2, <1>3, <1>4 DEF Newest
  <2>2. \A k \in Job : job'[k] = "none" <=> task'[k] = <<>>
    BY <1>1, <1>3, EmptySeq
  <2>3. /\ job' \in [Job -> {"none", "live", "deleted", "gone"}]
        /\ match' \in [Job -> BOOLEAN] /\ clock' \in 0..MaxRequests
    BY DEF TypeOK
  <2> QED BY <1>1, <1>4, <2>1, <2>2, <2>3 DEF Tables, Newest, Generation
<1>6. OnlyNewestIsActive'
  <2>1. \A k \in Job : \A i \in DOMAIN task[k] :
          i < Len(task[k]) => task'[k][i] = task[k][i]
    BY <1>1, <1>2, <1>3 DEF Newest
  <2> QED BY <1>1, <2>1 DEF Data, OnlyNewestIsActive, Newest
<1>7. SnapshotOfNewest'
  <2> SUFFICES ASSUME NEW k \in Job
               PROVE  /\ snapshot'[k] # 0 =>
                           /\ job'[k] = "live" /\ snapshot'[k] = Len(task'[k])
                           /\ task'[k][Len(task'[k])].status = "succeeded"
                      /\ job'[k] = "live" /\ Len(task'[k]) # 0
                           /\ task'[k][Len(task'[k])].status = "succeeded" =>
                             snapshot'[k] # 0
    BY DEF SnapshotOfNewest, Newest
  <2>1. CASE k = j
    BY <1>1, <1>2, <1>3, <1>4, <2>1 DEF Newest
  <2>2. CASE k # j
    <3>1. snapshot'[k] = snapshot[k] /\ Len(task'[k]) = Len(task[k]) /\ job' = job
      BY <1>1, <1>4, <2>2
    <3>2. Len(task[k]) # 0 => task'[k][Len(task[k])] = task[k][Len(task[k])]
      BY <1>1, <1>3, <2>2
    <3> QED BY <1>3, <3>1, <3>2 DEF Data, SnapshotOfNewest, Newest
  <2> QED BY <2>1, <2>2
<1>8. DeletedIsSettled'
  <2> SUFFICES ASSUME NEW k \in Job, job[k] = "deleted", InOrder(k)'
               PROVE  \A i \in DOMAIN task'[k] : ~Active(task'[k][i])
    BY DEF DeletedIsSettled, Active
  <2>1. InOrder(k)
    BY <1>1, SameOrder
  <2>2. k # j
    BY <1>2, <2>1
  <2> QED BY <1>1, <2>1, <2>2 DEF Data, DeletedIsSettled
<1> QED BY <1>1, <1>5, <1>6, <1>7, <1>8 DEF Data

LEMMA ClaimKeeps ==
  ASSUME IInv, NEW w \in Worker, NEW j \in Job, NEW g \in DOMAIN task[j], Claim(w, j, g)
  PROVE  IInv'
<1> DEFINE x == [op |-> "execute", job |-> j, gen |-> g, pc |-> "parse",
                 found |-> job[j] = "live"]
<1>1. TypeOK /\ TxnType /\ Data /\ w \in Proc /\ g \in Nat
  BY DEF IInv, Proc, TypeOK
<1>2. x \in ExecuteTxn
  BY <1>1 DEF ExecuteTxn
<1>3. /\ x \in Txn /\ x # Idle
      /\ x.pc = "parse" /\ x.job = j /\ x.gen = g
  BY <1>2, Disjoint DEF Txn
<1>4. txn' = [txn EXCEPT ![w] = x] /\ txn'[w] = x
  BY <1>1 DEF Claim, TxnType
<1> HIDE DEF x
<1>5. held' = [held EXCEPT ![w] = @ \cup {}] /\ CanLock(w, {}) /\ {} \in SUBSET Row
  BY <1>1, TakesNothing DEF Claim
<1>6. /\ task[j][g].status = "queued" /\ Active(task[j][g])
      /\ SetStatus(j, g, "running") /\ UNCHANGED <<job, snapshot, match, clock>>
  BY DEF Claim, Claimable, Active
<1>7. /\ Tables' /\ Data'
      /\ \A k \in Job : DOMAIN task'[k] = DOMAIN task[k]
      /\ \A k \in Job : \A i \in DOMAIN task[k] :
           k # j \/ i # g => task'[k][i] = task[k][i]
  BY <1>1, <1>6, ActiveWritten
<1>8. \A q \in Proc \ {w} : Respects(q)
  <2>1. \A k \in Job : \A i \in DOMAIN task[k] :
          task[k][i].status = "running" => task'[k][i] = task[k][i]
    BY <1>6, <1>7
  <2> QED BY <1>6, <1>7, <2>1 DEF Respects
<1>9. Knows(w)'
  BY <1>2, <1>3, <1>4, <1>7, Disjoint DEF Knows
<1> QED BY <1>1, <1>3, <1>4, <1>5, <1>7, <1>8, <1>9, ActorStep

(* What an execution that is under way has of its generation.                    *)
LEMMA Executes ==
  ASSUME IInv, NEW w \in Worker, txn[w].op = "execute"
  PROVE  /\ txn[w] \in ExecuteTxn /\ txn[w].job \in Job
         /\ txn[w].gen \in DOMAIN task[txn[w].job] /\ txn[w].gen \in Nat
         /\ txn[w].pc = "lock job" =>
              /\ TaskRow(txn[w].job, txn[w].gen) \in held[w]
              /\ task[txn[w].job][txn[w].gen].status = "running"
<1>1. txn[w] \in ExecuteTxn /\ Knows(w)
  BY Kinds DEF IInv, TxnType, Proc
<1>2. txn[w].job \in Job /\ txn[w].gen \in Nat
  BY <1>1 DEF ExecuteTxn
<1> QED BY <1>1, <1>2 DEF Knows

(* An execution that writes what nobody else has locked, and ends.                *)
LEMMA ExecutionEnds ==
  ASSUME IInv, NEW w \in Worker, NEW j \in Job, NEW g \in DOMAIN task[j],
         task[j][g].status = "running", \A q \in Proc \ {w} : TaskRow(j, g) \notin held[q],
         NEW s \in {"queued", "failed", "succeeded"}, SetStatus(j, g, s), End(w),
         UNCHANGED <<job, match, clock>>,
         \/ s # "succeeded" /\ UNCHANGED snapshot
         \/ s = "succeeded" /\ job[j] = "live" /\ snapshot' = [snapshot EXCEPT ![j] = g]
  PROVE  IInv'
<1>1. TypeOK /\ TxnType /\ Data /\ w \in Proc
  BY DEF IInv, Proc
<1>2. /\ Tables' /\ Data'
      /\ \A k \in Job : DOMAIN task'[k] = DOMAIN task[k]
      /\ \A k \in Job : \A i \in DOMAIN task[k] :
           k # j \/ i # g => task'[k][i] = task[k][i]
  <2>1. Active(task[j][g])
    BY DEF Active
  <2> QED BY <1>1, <2>1, ActiveWritten
<1>3. \A q \in Proc \ {w} : Respects(q)
  BY <1>2 DEF Respects
<1>4. txn' = [txn EXCEPT ![w] = Idle] /\ held' = [held EXCEPT ![w] = {}] /\ txn'[w] = Idle
  BY <1>1 DEF End, TxnType
<1>5. Knows(w)' /\ Idle \in Txn /\ {} \in SUBSET Row
  BY <1>1, <1>4, IdleKnows DEF Txn
<1> QED BY <1>1, <1>2, <1>3, <1>4, <1>5, ActorStep

LEMMA GiveUpKeeps ==
  ASSUME IInv, NEW w \in Worker, NEW s \in {"failed", "queued"}, GiveUp(w, s)
  PROVE  IInv'
<1>1. TypeOK /\ w \in Proc
  BY DEF IInv, Proc
<1>2. txn[w].job \in Job /\ txn[w].gen \in DOMAIN task[txn[w].job]
  BY Executes DEF GiveUp, At
<1> PICK j \in Job : j = txn[w].job
  BY <1>2
<1> PICK g \in DOMAIN task[j] : g = txn[w].gen
  BY <1>2
<1>3. /\ CanLock(w, {TaskRow(j, g)}) /\ End(w)
      /\ IF task[j][g].status = "running" THEN SetStatus(j, g, s) ELSE UNCHANGED task
      /\ UNCHANGED <<job, snapshot, match, clock>>
  BY DEF GiveUp
<1>4. match' \in [Job -> BOOLEAN] /\ clock' \in 0..MaxRequests
  BY <1>1, <1>3 DEF TypeOK
<1>5. CASE task[j][g].status = "running"
  <2>1. \A q \in Proc \ {w} : TaskRow(j, g) \notin held[q]
    <3>1. TaskRow(j, g)[1] # "share"
      BY DEF TaskRow
    <3> QED BY <1>3, <3>1 DEF CanLock, Blockers, Conflicts
  <2> QED BY <1>3, <1>5, <2>1, ExecutionEnds
<1>6. CASE task[j][g].status # "running"
  BY <1>1, <1>3, <1>4, <1>6, Ends
<1> QED BY <1>5, <1>6

LEMMA CompleteLockTaskKeeps ==
  ASSUME IInv, NEW w \in Worker, CompleteLockTask(w)
  PROVE  IInv'
<1>1. TypeOK /\ TxnType /\ w \in Proc
  BY DEF IInv, Proc
<1>2. /\ txn[w] \in ExecuteTxn /\ txn[w].job \in Job
      /\ txn[w].gen \in DOMAIN task[txn[w].job] /\ txn[w].gen \in Nat
  BY Executes DEF CompleteLockTask, At
<1> PICK j \in Job : j = txn[w].job
  BY <1>2
<1> PICK g \in Nat : g = txn[w].gen
  BY <1>2
<1>3. /\ CanLock(w, {TaskRow(j, g)})
      /\ IF task[j][g].status = "running" THEN Goto(w, "lock job", {TaskRow(j, g)}) ELSE End(w)
      /\ UNCHANGED <<job, task, snapshot, match, clock>>
  BY DEF CompleteLockTask
<1>4. match' \in [Job -> BOOLEAN] /\ clock' \in 0..MaxRequests
  BY <1>1, <1>3 DEF TypeOK
<1>5. CASE task[j][g].status = "running"
  <2> DEFINE x == [txn[w] EXCEPT !.pc = "lock job"]
  <2>1. x \in ExecuteTxn /\ x.job = j /\ x.gen = g
    BY <1>2 DEF ExecuteTxn
  <2>2. x \in Txn /\ x # Idle
    BY <2>1, Disjoint DEF Txn
  <2>3. /\ txn' = [txn EXCEPT ![w] = x] /\ txn'[w] = x
        /\ held' = [held EXCEPT ![w] = @ \cup {TaskRow(j, g)}]
        /\ TaskRow(j, g) \in held'[w]
    BY <1>1, <1>3, <1>5 DEF Goto, TxnType
  <2> HIDE DEF x
  <2>4. Knows(w)'
    BY <1>2, <1>3, <1>5, <2>1, <2>3, Disjoint DEF Knows
  <2>5. {TaskRow(j, g)} \in SUBSET Row
    BY RowsAreRows
  <2> QED BY <1>1, <1>3, <1>4, <2>2, <2>3, <2>4, <2>5, QuietStep
<1>6. CASE task[j][g].status # "running"
  BY <1>1, <1>3, <1>4, <1>6, Ends
<1> QED BY <1>5, <1>6

LEMMA CompleteLockJobKeeps ==
  ASSUME IInv, NEW w \in Worker, CompleteLockJob(w)
  PROVE  IInv'
<1>1. TypeOK /\ Exclusive /\ w \in Proc
  BY DEF IInv, Proc
<1>2. /\ txn[w].job \in Job /\ txn[w].gen \in DOMAIN task[txn[w].job]
      /\ TaskRow(txn[w].job, txn[w].gen) \in held[w]
      /\ task[txn[w].job][txn[w].gen].status = "running"
  BY Executes DEF CompleteLockJob, At
<1> PICK j \in Job : j = txn[w].job
  BY <1>2
<1> PICK g \in DOMAIN task[j] : g = txn[w].gen
  BY <1>2
<1>3. /\ End(w) /\ UNCHANGED <<job, match, clock>>
      /\ IF job[j] = "live"
         THEN SetStatus(j, g, "succeeded") /\ snapshot' = [snapshot EXCEPT ![j] = g]
         ELSE UNCHANGED <<task, snapshot>>
  BY DEF CompleteLockJob
<1>4. match' \in [Job -> BOOLEAN] /\ clock' \in 0..MaxRequests
  BY <1>1, <1>3 DEF TypeOK
<1>5. CASE job[j] = "live"
  <2>1. \A q \in Proc \ {w} : TaskRow(j, g) \notin held[q]
    <3>1. TaskRow(j, g)[1] # "share"
      BY DEF TaskRow
    <3> QED BY <1>1, <1>2, <3>1 DEF Exclusive
  <2> QED BY <1>2, <1>3, <1>5, <2>1, ExecutionEnds
<1>6. CASE job[j] # "live"
  BY <1>1, <1>3, <1>4, <1>6, Ends
<1> QED BY <1>5, <1>6

LEMMA RecoverKeeps ==
  ASSUME IInv, NEW j \in Job, NEW g \in DOMAIN task[j], Recover(j, g)
  PROVE  IInv'
<1>1. TypeOK /\ Data
  BY DEF IInv
<1>2. /\ task[j][g].status = "running" /\ Active(task[j][g])
      /\ \A p \in Proc : TaskRow(j, g) \notin held[p]
      /\ SetStatus(j, g, "failed")
      /\ UNCHANGED <<job, snapshot, match, txn, held, clock>>
  BY DEF Recover, Recoverable, Active
<1>3. /\ Tables' /\ Data'
      /\ \A k \in Job : DOMAIN task'[k] = DOMAIN task[k]
      /\ \A k \in Job : \A i \in DOMAIN task[k] :
           k # j \/ i # g => task'[k][i] = task[k][i]
  BY <1>1, <1>2, ActiveWritten
<1>4. \A q \in Proc : Respects(q)
  BY <1>2, <1>3 DEF Respects
<1> QED BY <1>2, <1>3, <1>4, OutsideStep

-----------------------------------------------------------------------------
(* Uploads, rounds of matching, deadlocks                                    *)

LEMMA UploadKeeps ==
  ASSUME IInv, NEW j \in Job, Upload(j)
  PROVE  IInv'
<1>1. TypeOK /\ Data
  BY DEF IInv
<1>2. /\ job[j] = "none" /\ job' = [job EXCEPT ![j] = "live"]
      /\ task' = [task EXCEPT ![j] = <<[status |-> "queued", at |-> clock]>>]
      /\ UNCHANGED <<snapshot, match, txn, held, clock>>
  BY DEF Upload
<1> PICK new \in Generation : new = [status |-> "queued", at |-> clock]
  BY <1>1 DEF TypeOK, Generation
<1>3. new.status = "queued"
  OBVIOUS
<1>4. /\ task' \in [Job -> Seq(Generation)] /\ task'[j] = <<new>>
      /\ Len(task'[j]) = 1 /\ DOMAIN task'[j] = {1} /\ task'[j][1] = new
      /\ job' \in [Job -> {"none", "live", "deleted", "gone"}] /\ job'[j] = "live"
      /\ \A k \in Job \ {j} : task'[k] = task[k] /\ job'[k] = job[k]
  <2>1. <<new>> \in Seq(Generation) /\ Len(<<new>>) = 1 /\ <<new>>[1] = new
        /\ DOMAIN <<new>> = 1..1
    OBVIOUS
  <2>2. task' = [task EXCEPT ![j] = <<new>>]
    BY <1>2
  <2> QED BY <1>1, <1>2, <2>1, <2>2 DEF TypeOK
<1>5. snapshot[j] = 0 /\ task[j] = <<>>
  BY <1>1, <1>2 DEF Data, SnapshotOfNewest, TypeOK
<1>6. Tables'
  <2>1. \A k \in Job : /\ snapshot'[k] <= Len(task'[k])
                       /\ job'[k] = "none" <=> task'[k] = <<>>
    <3> TAKE k \in Job
    <3>1. CASE k = j
      <4>1. <<new>> # <<>>
        OBVIOUS
      <4> QED BY <1>2, <1>4, <1>5, <3>1, <4>1
    <3>2. CASE k # j
      BY <1>1, <1>2, <1>4, <3>2 DEF TypeOK, Newest
    <3> QED BY <3>1, <3>2
  <2>2. snapshot' \in [Job -> Nat] /\ match' \in [Job -> BOOLEAN] /\ clock' \in 0..MaxRequests
    BY <1>1, <1>2 DEF TypeOK
  <2> QED BY <1>4, <2>1, <2>2 DEF Tables, Newest, Generation
<1>7. \A q \in Proc : Respects(q)
  <2>1. DOMAIN task[j] = {}
    BY <1>5
  <2> QED BY <1>2, <1>4, <2>1 DEF Respects
<1>8. OnlyNewestIsActive'
  <2>1. \A g \in DOMAIN task'[j] : ~(g < Len(task'[j]))
    BY <1>4
  <2> QED BY <1>1, <1>4, <2>1 DEF Data, OnlyNewestIsActive, Newest
<1>9. SnapshotOfNewest'
  BY <1>1, <1>2, <1>3, <1>4, <1>5 DEF Data, SnapshotOfNewest, Newest
<1>10. DeletedIsSettled'
  BY <1>1, <1>4 DEF Data, DeletedIsSettled, InOrder, Active
<1> QED BY <1>2, <1>6, <1>7, <1>8, <1>9, <1>10, OutsideStep DEF Data

(* A round that goes on.                                                       *)
LEMMA RoundGoesOn ==
  ASSUME IInv, NEW c \in Round, NEW x \in RoundTxn, NEW rows \in SUBSET Row,
         txn' = [txn EXCEPT ![c] = x],
         held' = [held EXCEPT ![c] = @ \cup rows], CanLock(c, rows),
         UNCHANGED <<job, task, snapshot, match, clock>>
  PROVE  IInv'
<1>1. TypeOK /\ TxnType /\ c \in Proc
  BY DEF IInv, Proc
<1>2. x \in Txn /\ x # Idle
  BY Disjoint DEF Txn
<1>3. Knows(c)'
  BY <1>1, Disjoint DEF Knows, TxnType
<1>4. match' \in [Job -> BOOLEAN] /\ clock' \in 0..MaxRequests
  BY <1>1 DEF TypeOK
<1> QED BY <1>1, <1>2, <1>3, <1>4, QuietStep

LEMMA RoundKeeps ==
  ASSUME IInv, NEW c \in Round, RoundReadJobs(c) \/ RoundStep(c)
  PROVE  IInv'
<1>1. TypeOK /\ TxnType /\ c \in Proc
  BY DEF IInv, Proc
<1>2. UNCHANGED held => /\ held' = [held EXCEPT ![c] = @ \cup {}] /\ CanLock(c, {})
                        /\ {} \in SUBSET Row
  BY <1>1, TakesNothing
<1>3. CASE RoundReadJobs(c)
  <2> DEFINE x == [op |-> "round", pc |-> "read tasks",
                   jobs |-> {j \in Job : job[j] = "live" /\ snapshot[j] # 0}]
  <2>1. x \in RoundTxn
    BY DEF RoundTxn
  <2>2. txn' = [txn EXCEPT ![c] = x] /\ UNCHANGED <<job, task, snapshot, match, held, clock>>
    BY <1>3 DEF RoundReadJobs
  <2> HIDE DEF x
  <2> QED BY <1>2, <2>1, <2>2, RoundGoesOn
<1>4. CASE RoundReadTasks(c)
  <2> DEFINE x1 == [txn[c] EXCEPT !.pc = "insert"]
             x == [x1 EXCEPT !.jobs = {j \in @ : Eligible(j)}]
  <2>1. txn[c] \in RoundTxn
    BY <1>1, <1>4, Kinds DEF TxnType, RoundReadTasks, At
  <2>2. x1 \in RoundTxn
    BY <2>1 DEF RoundTxn
  <2>3. x \in RoundTxn
    BY <2>2 DEF RoundTxn
  <2>4. txn' = [txn EXCEPT ![c] = x] /\ UNCHANGED <<job, task, snapshot, match, held, clock>>
    BY <1>4 DEF RoundReadTasks
  <2> HIDE DEF x, x1
  <2> QED BY <1>2, <2>3, <2>4, RoundGoesOn
<1>5. ASSUME NEW j \in Job, RoundInsert(c, j)
      PROVE  IInv'
  <2>1. txn[c] \in RoundTxn
    BY <1>1, <1>5, Kinds DEF TxnType, RoundInsert, At
  <2>2. /\ CanLock(c, {KeyShare(j)})
        /\ \/ End(c)
           \/ /\ held' = [held EXCEPT ![c] = @ \cup {KeyShare(j)}]
              /\ txn' = [txn EXCEPT ![c].jobs = @ \ {j}]
        /\ UNCHANGED <<job, task, snapshot, match, clock>>
    BY <1>5 DEF RoundInsert
  <2>3. match' \in [Job -> BOOLEAN] /\ clock' \in 0..MaxRequests
    BY <1>1, <2>2 DEF TypeOK
  <2> DEFINE x == [txn[c] EXCEPT !.jobs = @ \ {j}]
  <2>4. x \in RoundTxn /\ {KeyShare(j)} \in SUBSET Row
    BY <2>1, RowsAreRows DEF RoundTxn
  <2>5. CASE txn' = [txn EXCEPT ![c] = x] /\ held' = [held EXCEPT ![c] = @ \cup {KeyShare(j)}]
    <3> HIDE DEF x
    <3> QED BY <2>2, <2>4, <2>5, RoundGoesOn
  <2> QED BY <1>1, <2>2, <2>3, <2>5, Ends
<1>6. CASE RoundCommit(c)
  <2>1. /\ match' = [j \in Job |-> match[j] \/ KeyShare(j) \in held[c]] /\ End(c)
        /\ UNCHANGED <<job, task, snapshot, clock>>
    BY <1>6 DEF RoundCommit
  <2>2. match' \in [Job -> BOOLEAN]
    BY <1>1, <2>1, Zenon DEF TypeOK
  <2>3. clock' \in 0..MaxRequests
    BY <1>1, <2>1 DEF TypeOK
  <2> QED BY <1>1, <2>1, <2>2, <2>3, Ends
<1> QED BY <1>3, <1>4, <1>5, <1>6 DEF RoundStep

LEMMA BreakDeadlockKeeps ==
  ASSUME IInv, NEW p \in Proc, BreakDeadlock(p)
  PROVE  IInv'
<1>1. End(p) /\ UNCHANGED <<job, task, snapshot, match, clock>>
  BY DEF BreakDeadlock
<1>2. match' \in [Job -> BOOLEAN] /\ clock' \in 0..MaxRequests
  BY <1>1 DEF IInv, TypeOK
<1> QED BY <1>1, <1>2, Ends

-----------------------------------------------------------------------------
(* The theorems                                                              *)

LEMMA InitHolds == Init => IInv
<1> SUFFICES ASSUME Init
             PROVE  IInv
  OBVIOUS
<1>1. 0 \in 0..MaxRequests
  BY JobLifecycleAssumption DEF JobLifecycleAssumption
<1>2. TypeOK
  BY <1>1 DEF Init, TypeOK, Newest
<1>3. TxnType /\ Exclusive
  BY DEF Init, TxnType, Exclusive, Txn
<1>4. \A p \in Proc : Knows(p)
  BY Disjoint DEF Init, Knows
<1>5. Data
  BY DEF Init, Data, OnlyNewestIsActive, SnapshotOfNewest, DeletedIsSettled, Newest
<1> QED BY <1>2, <1>3, <1>4, <1>5 DEF IInv

LEMMA StepKeeps == IInv /\ [Next]_vars => IInv'
<1> SUFFICES ASSUME IInv, [Next]_vars
             PROVE  IInv'
  OBVIOUS
<1>1. ASSUME NEW j \in Job, Upload(j)
      PROVE  IInv'
  BY <1>1, UploadKeeps
<1>2. ASSUME NEW h \in Hr, NEW j \in Job, NEW op \in {"submit", "retry", "delete"},
             Begin(h, op, j)
      PROVE  IInv'
  BY <1>2, BeginKeeps
<1>3. ASSUME NEW h \in Hr, ResetBegin(h) \/ HrStep(h)
      PROVE  IInv'
  <2>1. CASE ResetBegin(h)
    BY <2>1, ResetBeginKeeps
  <2>2. CASE RetryLockJob(h) \/ DeleteLockJob(h)
    BY <2>2, LockJobKeeps
  <2>3. CASE RetryLockTasks(h)
    BY <2>3, RetryKeeps
  <2>4. CASE DeleteLockTask(h)
    BY <2>4, DeleteKeeps
  <2>5. CASE ResetReadTasks(h)
    BY <2>5, ResetReadKeeps
  <2>6. CASE ResetCommit(h)
    BY <2>6, ResetCommitKeeps
  <2>7. ASSUME NEW row, ResetDelete(h, row)
        PROVE  IInv'
    BY <2>7, ResetDeleteKeeps
  <2> QED BY <1>3, <2>1, <2>2, <2>3, <2>4, <2>5, <2>6, <2>7 DEF HrStep
<1>4. ASSUME NEW j \in Job, NEW g \in DOMAIN task[j],
             Recover(j, g) \/ \E w \in Worker : Claim(w, j, g)
      PROVE  IInv'
  BY <1>4, ClaimKeeps, RecoverKeeps
<1>5. ASSUME NEW w \in Worker, WorkerStep(w)
      PROVE  IInv'
  BY <1>5, GiveUpKeeps, CompleteLockTaskKeeps, CompleteLockJobKeeps
     DEF WorkerStep, FailTask, ReleaseTask
<1>6. ASSUME NEW c \in Round, RoundReadJobs(c) \/ RoundStep(c)
      PROVE  IInv'
  BY <1>6, RoundKeeps
<1>7. ASSUME NEW p \in Proc, BreakDeadlock(p)
      PROVE  IInv'
  BY <1>7, BreakDeadlockKeeps
<1>8. CASE UNCHANGED vars
  <2>1. UNCHANGED <<job, task, snapshot, match, txn, held, clock>>
    BY <1>8 DEF vars
  <2>2. TypeOK /\ Data
    BY DEF IInv
  <2>3. Tables'
    BY <2>1, <2>2 DEF Tables, TypeOK, Generation, Newest
  <2>4. Data'
    BY <2>1, <2>2, TablesRest
  <2>5. \A q \in Proc : Respects(q)
    BY <2>1 DEF Respects
  <2> QED BY <2>1, <2>3, <2>4, <2>5, OutsideStep
<1> QED BY <1>1, <1>2, <1>3, <1>4, <1>5, <1>6, <1>7, <1>8 DEF Next

(* The invariant holds in every behaviour.                                     *)
LEMMA Invariant == Spec => []IInv
BY InitHolds, StepKeeps, PTL DEF Spec

(* The types, and no process that has ended its transaction keeps a lock.      *)
THEOREM JobTypeCorrect == Spec => []TypeOK
<1>1. IInv => TypeOK
  BY DEF IInv
<1> QED BY <1>1, Invariant, PTL

(* However retries, submissions, completions, recoveries, resets and aborted    *)
(* transactions overlap, only the newest generation of a job's task is queued    *)
(* or running, and no generation follows a success.                             *)
THEOREM JobOnlyNewestIsActive == Spec => []OnlyNewestIsActive
<1>1. IInv => OnlyNewestIsActive
  BY DEF IInv, Data
<1> QED BY <1>1, Invariant, PTL

(* A job has a snapshot exactly while it is there and its newest parse has       *)
(* succeeded: what matching reads is what HR sees.                              *)
THEOREM JobSnapshotOfNewest == Spec => []SnapshotOfNewest
<1>1. IInv => SnapshotOfNewest
  BY DEF IInv, Data
<1> QED BY <1>1, Invariant, PTL

(* A deleted job leaves no task to run, if the times of its tasks go with their  *)
(* generations: the deletion reads the latest task by time.                     *)
THEOREM JobDeletedIsSettled == Spec => []DeletedIsSettled
<1>1. IInv => DeletedIsSettled
  BY DEF IInv, Data
<1> QED BY <1>1, Invariant, PTL
=============================================================================
