------------------------- MODULE AgentRunRefinement -------------------------
(* Goal, run and applications implement RunLifecycle: rows are mapped to what *)
(* they mean to the candidate, requests, locks and matches are hidden.        *)
EXTENDS AgentRun

(* Any stage but the last may be followed by a later one or by the end.        *)
StageNumber == 1..Len(Order)
LaterStages ==
  {<<Order[i], "terminated">> : i \in StageNumber \ {Len(Order)}}
    \cup {<<Order[s[1]], Order[s[2]]>> : s \in {p \in StageNumber \X StageNumber : p[1] < p[2]}}

Saving == [c \in Candidate |-> save[c].pc # "idle"]
AskedFor == [c \in Candidate |-> IF goal[c].status = "none" THEN 0 ELSE goal[c].wish.target]
Achieved == [c \in Candidate |-> goal[c].status = "achieved"]
RunState == [c \in Candidate |-> IF run[c].status = "finished" THEN run[c].reason
                                                               ELSE run[c].status]

Lifecycle == INSTANCE RunLifecycle WITH
  Later <- LaterStages, saving <- Saving, target <- AskedFor,
  achieved <- Achieved, run <- RunState

(* Every step of a start request, a matching round, a save or an HR handler is *)
(* a step of the life of the run or changes none; in particular two handlers   *)
(* that count offers side by side end the run with the offer that reaches the  *)
(* target, and no application leaves the order of the stages.                  *)
ImplementsRunLifecycle == Lifecycle!Spec
=============================================================================
