---------------------------- MODULE MCAdminTabs ----------------------------
(***************************************************************************)
(* Instance of AdminTabs for TLC.  Its pages share nothing, so a behaviour *)
(* mounts one of them, and the other starts in one state; it makes at most *)
(* MaxMoves moves: changes at the server, clicks of the health page,       *)
(* changes of the portal's task and images.  A tab that is mounted is not  *)
(* gone to again.                                                          *)
(***************************************************************************)
EXTENDS AdminTabs

CONSTANT MaxMoves

VARIABLE moves

Mounted == Cardinality(visited \cap {"health", "test"}) + (IF tab THEN 0 ELSE 1)

Move == \/ changes' # changes \/ clicks' # clicks
        \/ offered' # offered \/ chosen' # chosen
        \/ picks' \ picks # {} \/ Len(images') < Len(images)

MCInit == /\ TabsInit /\ moves = 0 /\ Mounted <= 1
          /\ IF admin THEN tab /\ view \in {"compare", "test"} ELSE view = "history"
          /\ view # "test" => chosen = Nothing /\ offered = [t \in Offers |-> "active"]
          /\ view # "compare" => circuits = Unseen

MCNext == /\ TabsNext
          /\ Mounted' <= 1 /\ (view' # view => view' \notin visited /\ Cardinality(visited') = 2)
          /\ IF Move THEN moves < MaxMoves /\ moves' = moves + 1 ELSE UNCHANGED moves

MCSpec == MCInit /\ [][MCNext]_<<tabsVars, moves>> /\ HealthFairness
=============================================================================
