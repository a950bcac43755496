---------------------------- MODULE ClientPortal ----------------------------
(***************************************************************************)
(* What a caller of the platform tries its tasks with: the test tab of the *)
(* administrators (pages/ClientPortalPage.tsx) and the demonstration app   *)
(* (llm_platform_client), which are two versions of one page: the catalog, *)
(* refetched every 30 s and on focus, and the panel of a task, which       *)
(* predicts and, in the tab, shows the trace of what it predicted.         *)
(***************************************************************************)
EXTENDS ImagePicker

CONSTANTS Offers,      \* task ids
          Nothing,     \* no task
          MaxFetches,  \* fetches of the catalog in flight (bound)
          MaxPresses   \* predictions of a behaviour (bound)

ASSUME PortalAssumption ==
    /\ Nothing \notin Offers
    /\ MaxFetches \in Nat \ {0} /\ MaxPresses \in Nat

VARIABLES tab,                  \* which it is: the tab, or the app
          offered,              \* the tasks at the server
          catalog,              \* the tasks on show
          waiting, unreachable, \* loading, error
          fetches,              \* fetches of the catalog, by slot
          chosen,               \* selectedId
          kept,                 \* what the tab stores of each task's field
          calls, presses,       \* the panel's prediction in flight, their number so far
          outcome, problem,     \* the prediction whose answer, or error, is on show
          trace, traces,        \* the prediction whose trace is on show, or sought
          lost, early           \* history: see LastRunIsShown and TraceOfOutcome

shelf == <<catalog, waiting, unreachable, fetches>>
field == <<pickerVars, kept>>
panel == <<calls, outcome, problem, trace, traces>>
past  == <<presses, lost, early>>
world == <<tab, offered>>
portalVars == <<world, shelf, chosen, panel, past, field>>

Shelf  == [Offers -> {"active", "inactive", "gone"}]
Empty  == [t \in Offers |-> "gone"]
NoFetch == [stage |-> "idle", list |-> Empty]
Fetched == [stage |-> "sent", list |-> Empty]

View == IF waiting THEN "spinner" ELSE IF unreachable THEN "error"
        ELSE IF chosen # Nothing /\ catalog[chosen] # "gone" THEN "detail" ELSE "catalog"

PortalInit ==
    /\ tab \in BOOLEAN /\ offered \in [Offers -> {"active", "inactive"}]
    /\ catalog = Empty /\ waiting = TRUE /\ unreachable = FALSE
    /\ fetches = [i \in 1..MaxFetches |-> IF i = 1 THEN Fetched ELSE NoFetch]
    /\ chosen \in IF tab THEN Offers \cup {Nothing} ELSE {Nothing}
    /\ calls = {} /\ presses = 0 /\ outcome = 0 /\ problem = 0
    /\ trace = 0 /\ traces = {} /\ lost = {} /\ early = FALSE
    /\ PickerInit /\ kept = [t \in Offers |-> <<>>]

\* The panel of a task lives as long as the task's page; its picks and answers go
\* nowhere afterwards.  The tab stores what the field holds, the app does not.
Remount ==
    IF View = "detail" /\ View' = "detail" /\ chosen' = chosen
    THEN UNCHANGED <<panel, past, field>>
    ELSE /\ calls' = {} /\ outcome' = 0 /\ problem' = 0 /\ trace' = 0 /\ traces' = {}
         /\ lost' = lost \cup calls \cup {outcome, problem}
         /\ kept' = IF tab /\ View = "detail" THEN [kept EXCEPT ![chosen] = images] ELSE kept
         /\ images' = IF View' = "detail" THEN kept'[chosen'] ELSE <<>>
         /\ wanted' = images' /\ picks' = {} /\ raced' = FALSE
         /\ UNCHANGED <<presses, early>>

-----------------------------------------------------------------------------
\* In the studio a task is created, switched on or off, or deleted.
Changed(t, s) ==
    /\ offered[t] # s
    /\ offered' = [offered EXCEPT ![t] = s]
    /\ UNCHANGED <<tab, shelf, chosen, panel, past, field>>

\* Every 30 s, and when the window is focused.
Refetch == /\ \E i \in DOMAIN fetches : /\ fetches[i].stage = "idle"
                                        /\ fetches' = [fetches EXCEPT ![i] = Fetched]
           /\ UNCHANGED <<world, catalog, waiting, unreachable, chosen, panel, past, field>>

ReadCatalog(i) ==
    /\ fetches[i].stage = "sent"
    /\ fetches' = [fetches EXCEPT ![i] = [stage |-> "read", list |-> offered]]
    /\ UNCHANGED <<world, catalog, waiting, unreachable, chosen, panel, past, field>>

\* The catalog is shown, or the error in its place: a panel is left either way
\* unless its task is still there.
ShowCatalog(i) ==
    /\ fetches[i].stage = "read"
    /\ catalog' = fetches[i].list /\ unreachable' = FALSE /\ waiting' = FALSE
    /\ fetches' = [fetches EXCEPT ![i] = NoFetch]
    /\ UNCHANGED <<world, chosen>> /\ Remount

LoseCatalog(i) ==
    /\ fetches[i].stage # "idle"
    /\ unreachable' = TRUE /\ waiting' = FALSE
    /\ fetches' = [fetches EXCEPT ![i] = NoFetch]
    /\ UNCHANGED <<world, catalog, chosen>> /\ Remount

Select(t) ==
    /\ View = "catalog" /\ catalog[t] # "gone"
    /\ chosen' = t
    /\ UNCHANGED <<world, shelf>> /\ Remount

Back ==
    /\ View = "detail"
    /\ chosen' = Nothing
    /\ UNCHANGED <<world, shelf>> /\ Remount

-----------------------------------------------------------------------------
\* Faulty: the trace of the prediction before stays.
PredictOverTrace ==
    /\ View = "detail" /\ calls = {} /\ catalog[chosen] = "active"
    /\ presses < MaxPresses
    /\ presses' = presses + 1 /\ calls' = {presses'}
    /\ outcome' = 0 /\ problem' = 0
    /\ early' = (traces # {})
    /\ UNCHANGED <<world, shelf, chosen, trace, traces, lost, field>>

\* "Predict" of an active task; what was shown before goes.
Predict ==
    /\ View = "detail" /\ calls = {} /\ catalog[chosen] = "active"
    /\ presses < MaxPresses
    /\ presses' = presses + 1 /\ calls' = {presses'}
    /\ outcome' = 0 /\ problem' = 0 /\ trace' = 0
    /\ early' = (traces # {})
    /\ UNCHANGED <<world, shelf, chosen, traces, lost, field>>

\* An answer is shown; the tab then seeks its trace.
Outcome(n) ==
    /\ n \in calls
    /\ calls' = {} /\ outcome' = n
    /\ traces' = IF tab THEN traces \cup {n} ELSE traces
    /\ UNCHANGED <<world, shelf, chosen, problem, trace, past, field>>

\* Faulty: a prediction that failed releases the button only.
ProblemUnsaid(n) ==
    /\ n \in calls
    /\ calls' = {}
    /\ UNCHANGED <<world, shelf, chosen, outcome, problem, trace, traces, past, field>>

\* An error is shown: the budget is spent, the call refused, or nothing came.
Problem(n) ==
    /\ n \in calls
    /\ calls' = {} /\ problem' = n
    /\ UNCHANGED <<world, shelf, chosen, outcome, trace, traces, past, field>>

\* The tab takes the 502 of a prediction that found no valid answer for its outcome,
\* as it carries the run's id; the app takes it for an error.
NoValidAnswer(n) == IF tab THEN Outcome(n) ELSE Problem(n)

\* The trace is found, its run and attempts having been written meanwhile, or given
\* up after seven tries.
TraceFound(n) ==
    /\ n \in traces
    /\ traces' = traces \ {n} /\ trace' = n
    /\ UNCHANGED <<world, shelf, chosen, calls, outcome, problem, past, field>>

TraceGivenUp(n) ==
    /\ n \in traces
    /\ traces' = traces \ {n} /\ trace' = 0
    /\ UNCHANGED <<world, shelf, chosen, calls, outcome, problem, past, field>>

\* The image field of the panel.
Field ==
    /\ View = "detail"
    /\ \/ \E i \in Images : Pick(<<i>>)
       \/ \E i, j \in Images : i # j /\ Pick(<<i, j>>)
       \/ \E p \in picks : Commit(p)
       \/ \E i \in DOMAIN images : RemoveAt(i)
       \/ tab /\ Clear
    /\ UNCHANGED <<world, shelf, chosen, panel, past, kept>>

-----------------------------------------------------------------------------
PortalNext ==
    \/ \E t \in Offers : Select(t) \/ \E s \in {"active", "inactive", "gone"} : Changed(t, s)
    \/ Refetch \/ \E i \in DOMAIN fetches : ReadCatalog(i) \/ ShowCatalog(i) \/ LoseCatalog(i)
    \/ Back \/ Predict \/ Field
    \/ \E n \in calls : Outcome(n) \/ Problem(n) \/ NoValidAnswer(n)
    \/ \E n \in traces : TraceFound(n) \/ TraceGivenUp(n)

PortalSpec == PortalInit /\ [][PortalNext]_portalVars

-----------------------------------------------------------------------------
\* The trace on show is that of the outcome on show, but for a prediction started
\* while an earlier one's trace was still sought.
TraceOfOutcome == trace # 0 /\ outcome # 0 /\ ~early => trace = outcome

\* The last prediction is out, or its answer or error is on show, unless its panel was
\* left since, by the user, by its task or by a failed refetch.
LastRunIsShown == presses \in calls \cup {outcome, problem} \cup lost
=============================================================================
