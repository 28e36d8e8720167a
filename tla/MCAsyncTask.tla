---------------------------- MODULE MCAsyncTask ----------------------------
(* Instances of AsyncTask for TLC.                                          *)
EXTENDS AsyncTaskRefinement, TLC

(* Tokens are compared only with each other, workers are interchangeable.   *)
Symmetry == Permutations(Token) \union Permutations(Worker)
=============================================================================
