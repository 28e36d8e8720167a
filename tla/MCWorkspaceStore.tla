--------------------------- MODULE MCWorkspaceStore ---------------------------
(* Instances of WorkspaceStore for TLC: one candidate and one HR.             *)
EXTENDS WorkspaceStore, TLC

CONSTANTS candidate1, hr1

Roles == candidate1 :> "candidate" @@ hr1 :> "hr"
=============================================================================
