---------------------------- MODULE SpendLedger ----------------------------
(***************************************************************************)
(* The daily budget of one task on one server process: the gate of Predict *)
(* (internal/api/task_handlers.go), its cached view of the day's spend     *)
(* (budget_cache.go), the run rows executePrediction writes and counts     *)
(* (predict_core.go), the writer that brings them to the database, and the *)
(* shutdown of the process (cmd/server/main.go).  A cost is recorded twice *)
(* on different ways: in the view, and through the writer in the database  *)
(* the view is refreshed from.                                             *)
(*                                                                         *)
(* A view is the set of rows its sum was made of: those the last refresh   *)
(* found in the database and those added since.  For the properties it     *)
(* also keeps those the refresh missed because the writer still had them.  *)
(***************************************************************************)
EXTENDS AsyncWriter, FiniteSets, FiniteSetsExt

CONSTANTS Predicts,   \* requests that are a Predict; the others are Studio tests
          Slots,      \* predictions clients keep in flight at a time (bound)
          Budget,     \* the task's daily budget; 0, exempt, is left out
          Costs,      \* what the serving model's call may cost
          TTL,        \* age at which the view is refreshed, in ticks
          LastDay,    \* last day of the run (bound)
          LastBoot,   \* restarts of the process (bound)
          NoView      \* no cached view yet

Requests == Rows

ASSUME LedgerAssumption ==
    /\ IsFiniteSet(Rows) /\ Predicts \subseteq Rows
    /\ Slots \in Nat /\ Budget \in Nat \ {0} /\ TTL \in Nat \ {0}
    /\ Costs \subseteq Nat /\ IsFiniteSet(Costs) /\ Costs # {}
    /\ LastDay \in Nat /\ LastBoot \in Nat

View == [base   : SUBSET Requests,   \* in the database at the refresh
         missed : SUBSET Requests,   \* history: with the writer at the refresh
         added  : SUBSET Requests,   \* added since
         age    : 0..TTL]

ASSUME NoViewAssumption == NoView \notin View

VARIABLES server,    \* serving, draining (Shutdown waits), closing (Close waits), down
          timedOut,  \* history: Shutdown gave up on requests in flight
          boots,     \* restarts so far
          day,       \* the UTC day
          view,      \* spendCache's entry for the task
          pc,        \* progress of a request
          cost,      \* cost of its run row
          born       \* the day of its run row

serverVars == <<server, timedOut, boots>>
vars == <<writerVars, serverVars, day, view, pc, cost, born>>

Init == /\ WriterInit
        /\ server   = "serving"
        /\ timedOut = FALSE
        /\ boots    = 0
        /\ day      = 0
        /\ view     = NoView
        /\ pc       = [r \in Requests |-> "idle"]
        /\ cost     = [r \in Requests |-> 0]
        /\ born     = [r \in Requests |-> 0]

-----------------------------------------------------------------------------
Active == {r \in Requests : pc[r] \in {"running", "written"}}

TotalCost(S) == MapThenSumSet(LAMBDA r : cost[r], S)

\* What the view says was spent.  A row both found and added counts twice.
Spend(v) == TotalCost(v.base) + TotalCost(v.added)

\* TaskSpendToday's rows.
StoredToday == {r \in stored : born[r] = day}

\* The view currentSpend answers with.
Fresh == view # NoView /\ view.age < TTL
Refreshed == [base   |-> StoredToday,
              missed |-> (Queued \cup {hand}) \ {NoRow},
              added  |-> {},
              age    |-> 0]

\* Faulty: the refresh replaces the sum and keeps the increments.
CurrentViewKeepingAdded ==
    IF Fresh THEN view
    ELSE IF view = NoView THEN Refreshed ELSE [Refreshed EXCEPT !.added = view.added]

CurrentView == IF Fresh THEN view ELSE Refreshed

Begin(r) == /\ server = "serving" /\ Cardinality(Active) < Slots
            /\ pc[r] = "idle"

\* Predict's budget gate.
Gate(r) ==
    /\ r \in Predicts /\ Begin(r)
    /\ view' = CurrentView
    /\ pc'   = [pc EXCEPT ![r] = IF Spend(CurrentView) >= Budget THEN "ended" ELSE "running"]
    /\ UNCHANGED <<writerVars, serverVars, day, cost, born>>

\* The refresh fails: a 500, and the view stays as it was.
GateError(r) ==
    /\ r \in Predicts /\ Begin(r)
    /\ ~Fresh
    /\ pc' = [pc EXCEPT ![r] = "ended"]
    /\ UNCHANGED <<writerVars, serverVars, day, view, cost, born>>

\* A test of the Studio or an item of a shadow comparison.
Test(r) ==
    /\ r \notin Predicts /\ Begin(r)
    /\ pc' = [pc EXCEPT ![r] = "running"]
    /\ UNCHANGED <<writerVars, serverVars, day, view, cost, born>>

\* executePrediction refuses the input or the limiter the request: no row.
Reject(r) ==
    /\ pc[r] = "running" /\ server # "down"
    /\ pc' = [pc EXCEPT ![r] = "ended"]
    /\ UNCHANGED <<writerVars, serverVars, day, view, cost, born>>

\* The walk is over, whatever it cost (a cache hit and a failed chain cost
\* nothing): insertRun.
Answer(r, c) ==
    /\ pc[r] = "running" /\ server # "down"
    /\ Write(r)
    /\ cost' = [cost EXCEPT ![r] = c]
    /\ born' = [born EXCEPT ![r] = day]
    /\ pc'   = [pc EXCEPT ![r] = "written"]
    /\ UNCHANGED <<serverVars, day, view>>

\* Faulty: leaves the spend to the next refresh.
CountNothing(r) ==
    /\ pc[r] = "written" /\ server # "down"
    /\ pc' = [pc EXCEPT ![r] = "done"]
    /\ UNCHANGED <<writerVars, serverVars, day, view, cost, born>>

\* addSpend.
Count(r) ==
    /\ pc[r] = "written" /\ server # "down"
    /\ view' = IF cost[r] = 0 \/ view = NoView THEN view
               ELSE [view EXCEPT !.added = @ \cup {r}]
    /\ pc'   = [pc EXCEPT ![r] = "done"]
    /\ UNCHANGED <<writerVars, serverVars, day, cost, born>>

-----------------------------------------------------------------------------
Drain == /\ server # "down"
         /\ Take \/ \E ok \in BOOLEAN : Inserted(ok)
         /\ UNCHANGED <<serverVars, day, view, pc, cost, born>>

Tick == /\ view # NoView /\ view.age < TTL
        /\ view' = [view EXCEPT !.age = @ + 1]
        /\ UNCHANGED <<writerVars, serverVars, day, pc, cost, born>>

Midnight == /\ day < LastDay
            /\ day' = day + 1
            /\ UNCHANGED <<writerVars, serverVars, view, pc, cost, born>>

-----------------------------------------------------------------------------
\* SIGTERM: server.Shutdown stops accepting and waits for the handlers.
Terminate == /\ server = "serving"
             /\ server' = "draining"
             /\ UNCHANGED <<writerVars, timedOut, boots, day, view, pc, cost, born>>

\* Faulty: closes the writers without waiting for the handlers.
ShutDownAtOnce ==
    /\ server = "draining"
    /\ CloseChannel
    /\ server' = "closing"
    /\ UNCHANGED <<timedOut, boots, day, view, pc, cost, born>>

\* Shutdown returns, with the handlers done or after 25 seconds; then main calls
\* Close.
ShutDown ==
    /\ server = "draining"
    /\ timedOut' = (timedOut \/ Active # {})
    /\ CloseChannel
    /\ server' = "closing"
    /\ UNCHANGED <<boots, day, view, pc, cost, born>>

CutShort == [r \in Requests |-> IF r \in Active THEN "ended" ELSE pc[r]]

\* Close returns and so does main.
Exit == /\ server = "closing"
        /\ Flushed
        /\ server' = "down"
        /\ view'   = NoView
        /\ pc'     = CutShort
        /\ UNCHANGED <<writerVars, timedOut, boots, day, cost, born>>

Crash == /\ server # "down"
         /\ Vanish
         /\ server' = "down"
         /\ view'   = NoView
         /\ pc'     = CutShort
         /\ UNCHANGED <<timedOut, boots, day, cost, born>>

Restart == /\ server = "down" /\ boots < LastBoot
           /\ server' = "serving"
           /\ closed' = FALSE
           /\ boots'  = boots + 1
           /\ UNCHANGED <<queue, hand, stored, lost, timedOut, day, view, pc, cost, born>>

Handler(r) == \/ Reject(r)
              \/ \E c \in Costs : Answer(r, c)
              \/ Count(r)

Next == \/ \E r \in Requests : Gate(r) \/ GateError(r) \/ Test(r) \/ Handler(r)
        \/ Drain
        \/ Tick
        \/ Midnight
        \/ Terminate
        \/ ShutDown
        \/ Exit
        \/ Crash
        \/ Restart

Spec == Init /\ [][Next]_vars

\* The drain goroutine runs and its inserts return, and main goes on with the
\* shutdown once Shutdown (bounded by its timeout) or Close lets it.
FairSpec == Spec /\ WF_vars(Drain) /\ WF_vars(ShutDown) /\ WF_vars(Exit)

-----------------------------------------------------------------------------
TypeOK == /\ WriterTypeOK
          /\ server   \in {"serving", "draining", "closing", "down"}
          /\ timedOut \in BOOLEAN
          /\ boots    \in 0..LastBoot
          /\ day      \in 0..LastDay
          /\ view     \in View \cup {NoView}
          /\ pc       \in [Requests -> {"idle", "ended", "running", "written", "done"}]
          /\ cost     \in [Requests -> Costs \cup {0}]
          /\ born     \in [Requests -> 0..LastDay]

\* Where the run row of a request is.
Places(r) == {p \in {"channel", "hand", "database", "lost"} :
                  CASE p = "channel"  -> r \in Queued
                    [] p = "hand"     -> r = hand
                    [] p = "database" -> r \in stored
                    [] p = "lost"     -> lost[r] # "kept"}

\* A run row is in exactly one place - the channel, the hand of the drain
\* goroutine, the database or the count of lost rows - whatever overflows,
\* fails, closes or crashes, and a request that did not get to insertRun has
\* none.  One cut short by the end of the process may have had it.
RowsConserved ==
    /\ Cardinality(Queued) = Len(queue)
    /\ \A r \in Requests :
           /\ Cardinality(Places(r)) <= 1
           /\ pc[r] \in {"written", "done"} => Places(r) # {}
           /\ pc[r] \in {"idle", "running"} => Places(r) = {}

\* "let in-flight requests drain, then close the async writers so their
\* buffered rows flush instead of being dropped on exit" (main.go:195-197): a
\* row meets a closed writer only after a shutdown that timed out.
GracefulLosesNothing == (\E r \in Requests : lost[r] = "closed") => timedOut

\* The gate is late only by what the writer holds: a prediction of the day that
\* was answered, and whose row is not lost, is in the view unless its row was
\* with the writer when the view was refreshed.  So a day's spend passes the
\* budget by at most BufSize + 1 rows, the Slots requests in flight, the tests
\* and the lost rows - "never toward unbounded overspend"
\* (budget_cache.go:17-18).
ViewMissesOnlyQueued ==
    Fresh => \A r \in Requests :
                 pc[r] = "done" /\ born[r] = day /\ cost[r] > 0 /\ lost[r] = "kept"
                     => r \in view.base \cup view.added \cup view.missed

\* The view counts a row twice only if its request was in flight at the refresh
\* (found in the database before it reached addSpend), so fewer than Slots rows:
\* the request that refreshes holds a slot itself.
DoubleCountBounded ==
    view # NoView => Cardinality(view.base \cap view.added) < Slots

\* A server told to stop does stop, with its rows flushed or lost.
ShutdownCompletes == (server = "draining") ~> (server = "down")
=============================================================================
