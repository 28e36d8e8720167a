------------------------- MODULE MCAsyncTaskHistory -------------------------
(* Instances of AsyncTaskHistory for TLC.                                   *)
EXTENDS AsyncTaskHistory, AsyncTaskRefinement, TLC

Symmetry == Permutations(Token) \union Permutations(Worker)
=============================================================================
