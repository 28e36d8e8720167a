------------------------- MODULE AsyncTaskRefinement -------------------------
(* The task queue implements TaskLifecycle: a row's status is the status of  *)
(* its task, everything else is hidden.                                      *)
EXTENDS AsyncTask

Lifecycle == INSTANCE TaskLifecycle WITH
  status <- [t \in Task |-> row[t].status]

(* Every step of a dispatcher, a worker, the broker or a fault is a step of  *)
(* the life of a task or changes none.                                       *)
ImplementsLifecycle == Lifecycle!Spec
=============================================================================
