--------------------------- MODULE MCSpendLedger ---------------------------
(***************************************************************************)
(* Instance of SpendLedger for TLC.                                        *)
(***************************************************************************)
EXTENDS SpendLedger

=============================================================================
