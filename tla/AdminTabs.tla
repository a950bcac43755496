----------------------------- MODULE AdminTabs -----------------------------
(***************************************************************************)
(* The tabs of the workspace (components/AppShell.tsx), with two of the    *)
(* pages they hold for administrators, model health and the test portal,   *)
(* and the demonstration app beside it.  A tab's page is mounted when it   *)
(* is first visited and then kept, hidden or not, with all it has out.     *)
(* The pages share no state; the other tabs are modules of their own.      *)
(***************************************************************************)
EXTENDS HealthConsole, ClientPortal, FiniteSets

VARIABLES admin,    \* the user's role
          view,     \* the tab that is remembered
          visited   \* the tabs whose pages are mounted

shell    == <<admin, view, visited>>
tabsVars == <<shell, consoleVars, portalVars>>

AdminOnly == {"history", "health", "test"}
Tabs      == {"compare", "tasks", "dashboard"} \cup AdminOnly

Nav == IF admin THEN Tabs ELSE Tabs \ AdminOnly

\* A remembered tab that the user may not see gives way to the first one.
ActiveView == IF view \in Nav THEN view ELSE "compare"

TabsInit ==
    /\ admin \in BOOLEAN /\ view \in Tabs /\ visited = {"compare", ActiveView}
    /\ ConsoleInit /\ PortalInit

GoTo(key) ==
    /\ key \in Nav /\ key # view
    /\ view' = key /\ visited' = visited \cup {key}
    /\ UNCHANGED <<admin, consoleVars, portalVars>>

HealthOpen == "health" \in visited
PortalOpen == tab => "test" \in visited

TabsNext ==
    \/ \E key \in Tabs : GoTo(key)
    \/ HealthOpen /\ ConsoleNext /\ UNCHANGED <<shell, portalVars>>
    \/ PortalOpen /\ PortalNext /\ UNCHANGED <<shell, consoleVars>>

\* While the health page is mounted its interval goes on, a request ends with its
\* answer or its timer, and not every poll fails for ever.
HealthFairness ==
    /\ WF_consoleVars(HealthOpen /\ Tick)
    /\ \A i \in Slots :
          WF_consoleVars(HealthOpen /\ (ReadStatus(i) \/ ShowStatus(i) \/ LoseStatus(i)))
    /\ SF_consoleVars(HealthOpen /\ \E i \in Slots : ReadStatus(i))
    /\ SF_consoleVars(HealthOpen /\ \E i \in Slots : ShowStatus(i))

TabsSpec == TabsInit /\ [][TabsNext]_tabsVars /\ HealthFairness

-----------------------------------------------------------------------------
\* Once traffic and resets have ended, the table of a mounted health page shows the
\* tracker for good, whichever tab is in front.
HealthCatchesUp == <>HealthOpen => TableCatchesUp
=============================================================================
