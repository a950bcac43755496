--------------------------- MODULE MCRateLimiter ---------------------------
(***************************************************************************)
(* Instance of RateLimiter for TLC.                                        *)
(***************************************************************************)
EXTENDS RateLimiter, TLC

\* Requests are interchangeable: no action and no property names one.
RequestSymmetry == Permutations(Requests)
=============================================================================
