---------------------------- MODULE MCJobLifecycle ----------------------------
(* Instances of JobLifecycle for TLC.                                        *)
EXTENDS JobLifecycle
=============================================================================
