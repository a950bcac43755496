---------------------------- MODULE MCTaskStudio -----------------------------
(***************************************************************************)
(* Instance of TaskStudio for TLC, with at most MaxMoves moves: clicks and *)
(* edits that send no request, and edits by others.                        *)
(***************************************************************************)
EXTENDS TaskStudio

CONSTANTS MaxMoves, v1, v2, loose

\* loose is v2 written otherwise; of names, v2 and loose are v1 with blanks around it.
MCTexts == {v1, v2, loose, Bad}
MCMeant == [s \in Sections |-> [t \in MCTexts |-> IF t = Bad THEN Bad
                                                 ELSE IF s = "identity" THEN v1
                                                 ELSE IF t = loose THEN v2 ELSE t]]

VARIABLE moves

Still == Press \/ \E r \in pending : Answer(r) \/ Refetch(r)

MCInit == Init /\ moves = 0

MCNext == \/ (Move \/ Elsewhere) /\ moves < MaxMoves /\ moves' = moves + 1
          \/ Still /\ UNCHANGED moves

MCSpec == MCInit /\ [][MCNext]_<<vars, moves>> /\ Fairness
=============================================================================
