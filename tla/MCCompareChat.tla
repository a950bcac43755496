---------------------------- MODULE MCCompareChat ----------------------------
(***************************************************************************)
(* Instance of CompareChat for TLC, with at most MaxClicks clicks beside   *)
(* the questions.                                                          *)
(***************************************************************************)
EXTENDS CompareChat

CONSTANT MaxClicks

VARIABLE clicks

MCInit == ChatInit /\ clicks = 0

MCNext == \/ Click /\ clicks < MaxClicks /\ clicks' = clicks + 1
          \/ Run /\ UNCHANGED clicks

MCSpec == MCInit /\ [][MCNext]_<<compareVars, clicks>> /\ ChatFairness

\* A disturbed conversation is followed while a click can still replace it, and
\* until two turns run at once.
Followed == interrupted => /\ clicks < MaxClicks
                           /\ Cardinality({t \in Turns : UnderWay(t)}) < 2
=============================================================================
