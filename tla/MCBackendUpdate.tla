---------------------------- MODULE MCBackendUpdate ---------------------------
(***************************************************************************)
(* Instances of BackendUpdate for TLC.                                      *)
(***************************************************************************)
EXTENDS BackendUpdate

\* Bootstrap and updater do not overlap, and what was begun goes on.
AloneFairSpec == AloneSpec /\ Fairness
=============================================================================
