--------------------------- MODULE MCTaskRegistry ---------------------------
(***************************************************************************)
(* Instance of TaskRegistry for TLC.                                       *)
(***************************************************************************)
EXTENDS TaskRegistry
=============================================================================
