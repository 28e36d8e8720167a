--------------------------- MODULE TaskLifecycle ---------------------------
(***************************************************************************)
(* What the task queue promises the rest of the backend: every task goes   *)
(* queued -> running -> succeeded or failed, may go back to queued, stays  *)
(* finished, and leaves its result in the step in which it succeeds.       *)
(* Tokens, leases, messages, processes and time are gone.                  *)
(***************************************************************************)
CONSTANTS
  Task,        \* ids of async_task_runs
  ResumeTask   \* those whose result survives the deletion of the resource

VARIABLES
  status,   \* Task -> async_task_runs.status, or absent
  result,   \* Task -> is there a profile or snapshot?
  deleted   \* Task -> is the resource deleted?

lvars == <<status, result, deleted>>

Finished == {"succeeded", "failed"}

Init ==
  /\ status  = [t \in Task |-> "absent"]
  /\ result  = [t \in Task |-> FALSE]
  /\ deleted = [t \in Task |-> FALSE]

Move(t, from, to) == status[t] = from /\ status' = [status EXCEPT ![t] = to]

Submit(t) == Move(t, "absent", "queued") /\ UNCHANGED <<result, deleted>>

Start(t) == Move(t, "queued", "running") /\ UNCHANGED <<result, deleted>>

Requeue(t) == Move(t, "running", "queued") /\ UNCHANGED <<result, deleted>>

Succeed(t) ==
  /\ Move(t, "running", "succeeded")
  /\ ~deleted[t]
  /\ result' = [result EXCEPT ![t] = TRUE]
  /\ UNCHANGED deleted

(* One transaction of the stall recovery may fail several tasks.            *)
Fail(S) ==
  /\ \A t \in S : status[t] = "running"
  /\ status' = [t \in Task |-> IF t \in S THEN "failed" ELSE status[t]]
  /\ UNCHANGED <<result, deleted>>

Delete(t) ==
  /\ status[t] \in Finished
  /\ ~deleted[t]
  /\ deleted' = [deleted EXCEPT ![t] = TRUE]
  /\ result' = IF t \in ResumeTask THEN result ELSE [result EXCEPT ![t] = FALSE]
  /\ UNCHANGED status

Next ==
  \/ \E t \in Task : \/ Submit(t) \/ Start(t) \/ Requeue(t)
                     \/ Succeed(t) \/ Delete(t)
  \/ \E S \in SUBSET Task : Fail(S)

Spec == Init /\ [][Next]_lvars
=============================================================================
