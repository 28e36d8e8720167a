---------------------------- MODULE RunLifecycle ----------------------------
(***************************************************************************)
(* What goal, run and applications promise a candidate: one run of a goal, *)
(* applications that only move forward, and the offer that reaches the     *)
(* target ends the run and achieves the goal in one step.  Requests, HR    *)
(* handlers, locks, sessions, resumes and matches are gone.                *)
(***************************************************************************)
EXTENDS Integers, FiniteSets

CONSTANTS
  Candidate, Job,
  Target,   \* numbers of offers a goal may ask for
  Later     \* the pairs of a stage of an application and a later one

VARIABLES
  saving,    \* is a save of the candidate's goal under way?
  target,    \* the offers the goal asks for, 0 without a goal
  achieved,  \* is it achieved?
  run,       \* "none", "running" or why it is finished
  app        \* the stage of each application, or "none"

rvars == <<saving, target, achieved, run, app>>

Init ==
  /\ saving = [c \in Candidate |-> FALSE]
  /\ target = [c \in Candidate |-> 0]
  /\ achieved = [c \in Candidate |-> FALSE]
  /\ run = [c \in Candidate |-> "none"]
  /\ app = [c \in Candidate |-> [j \in Job |-> "none"]]

(* A goal is saved before its run; one save may end after the run began.   *)
BeginSave(c) ==
  /\ ~saving[c] /\ run[c] = "none"
  /\ saving' = [saving EXCEPT ![c] = TRUE]
  /\ UNCHANGED <<target, achieved, run, app>>

EndSave(c, n) ==
  /\ saving[c]
  /\ saving' = [saving EXCEPT ![c] = FALSE]
  /\ target' = [target EXCEPT ![c] = n]
  /\ UNCHANGED <<achieved, run, app>>

Start(c) ==
  /\ run[c] = "none" /\ target[c] # 0
  /\ run' = [run EXCEPT ![c] = "running"]
  /\ UNCHANGED <<saving, target, achieved, app>>

(* A matching round, also a late one, applies for jobs without application. *)
Apply(c) ==
  /\ run[c] # "none" /\ app'[c] # app[c]
  /\ \E J \in SUBSET {j \in Job : app[c][j] = "none"} :
       app' = [app EXCEPT ![c] = [j \in Job |-> IF j \in J THEN "submitted" ELSE @[j]]]
  /\ UNCHANGED <<saving, target, achieved, run>>

NoMatch(c) ==
  /\ run[c] = "running" /\ \A j \in Job : app[c][j] = "none"
  /\ run' = [run EXCEPT ![c] = "no_match"]
  /\ UNCHANGED <<saving, target, achieved, app>>

-----------------------------------------------------------------------------
(* Is it the offer the run was for?                                        *)
Reaches(c, j) ==
  /\ app'[c][j] = "offer" /\ run[c] = "running"
  /\ Cardinality({i \in Job : app'[c][i] = "offer"}) >= target[c]

Move(c, j) ==
  /\ app'[c][j] # app[c][j]
  /\ <<app[c][j], app'[c][j]>> \in Later
  /\ app' = [app EXCEPT ![c][j] = app'[c][j]]
  /\ IF Reaches(c, j)
     THEN /\ achieved' = [achieved EXCEPT ![c] = TRUE]
          /\ run' = [run EXCEPT ![c] = "offer_target_reached"]
     ELSE UNCHANGED <<achieved, run>>
  /\ UNCHANGED <<saving, target>>

(* What changes nothing of this is no step.                                *)
Next ==
  /\ rvars' # rvars
  /\ \E c \in Candidate :
       \/ BeginSave(c) \/ (\E n \in Target : EndSave(c, n))
       \/ Start(c) \/ NoMatch(c)
       \/ Apply(c) \/ \E j \in Job : Move(c, j)

Spec == Init /\ [][Next]_rvars
=============================================================================
