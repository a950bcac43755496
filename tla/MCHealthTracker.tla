-------------------------- MODULE MCHealthTracker --------------------------
(***************************************************************************)
(* Instance of HealthTracker for TLC.                                      *)
(***************************************************************************)
EXTENDS HealthTracker
=============================================================================
