-------------------------- MODULE AsyncTaskHistory --------------------------
(***************************************************************************)
(* AsyncTask with a history variable, which no action of the code reads:   *)
(* whether a delivery of a task was consumed without an attempt.           *)
(***************************************************************************)
EXTENDS AsyncTask

VARIABLE
  lost       \* Task -> was a delivery or a retry message lost?

hvars == <<vars, lost>>

HInit ==
  /\ Init
  /\ lost = [t \in Task |-> FALSE]

(* A worker that stops between its delivery and its claim, or between its   *)
(* release and its task.retry, takes the message with it.                   *)
DropsMessage(w) ==
  /\ worker[w].pc \in {"started", "retrying"}
  /\ Abort(w) \/ Interrupt(w) \/ HardKill(w)

HNext ==
  /\ Next
  /\ lost' = [t \in Task |->
       lost[t] \/ \E w \in Worker : worker[w].task = t /\ DropsMessage(w)]

HSpec == HInit /\ [][HNext]_hvars

InFlight(t) ==
  \/ \E m \in Message : m.task = t /\ queue[m] > 0
  \/ \E w \in Worker : worker[w].task = t /\ worker[w].pc \in {"started", "retrying"}

(* A queued task marked dispatched is never published again, so it needs a  *)
(* message on its way: confirmations that come late, after the worker has   *)
(* already claimed and released the task, keep one, and so do crashes.      *)
(* Only a delivery that is dropped leaves the task without.                 *)
DispatchedIsInFlight ==
  \A t \in Task :
    (row[t].status = "queued" /\ row[t].dispatched /\ ~lost[t]) => InFlight(t)
=============================================================================
