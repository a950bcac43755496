--------------------------- MODULE MCFallbackWalk ---------------------------
(***************************************************************************)
(* Instance of FallbackWalk for TLC.                                       *)
(***************************************************************************)
EXTENDS FallbackWalk

CONSTANTS m1, m2

\* Three steps over two circuits: Task.Validate lets a chain name a model
\* twice, and the walk then meets a circuit it may have tripped itself.
RevisitingChain == {<<m1, m2, m1>>}
=============================================================================
