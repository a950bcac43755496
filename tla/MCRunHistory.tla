---------------------------- MODULE MCRunHistory ----------------------------
(***************************************************************************)
(* Instance of RunHistory for TLC: its cfgs give the bounds.               *)
(***************************************************************************)
EXTENDS RunHistory
=============================================================================
