----------------------------- MODULE MCAgentRun -----------------------------
(* Instances of AgentRun: HR's stages are cut to three, with the last one. *)
EXTENDS AgentRunRefinement, TLC

Stages == <<"submitted", "interview_1", "offer">>
TwoStages == <<"submitted", "offer">>

(* Handlers of one kind are interchangeable. *)
Symmetry == Permutations(Request) \union Permutations(Hr)
=============================================================================
