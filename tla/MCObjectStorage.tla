--------------------------- MODULE MCObjectStorage ---------------------------
(* Small instances of ObjectStorage and its history.                        *)
EXTENDS ObjectStorageHistory, TLC

Symmetry == Permutations(Uploads) \cup Permutations(Contents)
=============================================================================
