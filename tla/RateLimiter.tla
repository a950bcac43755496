---------------------------- MODULE RateLimiter ----------------------------
(***************************************************************************)
(* The per-task rate limiter (internal/ratelimit/limiter.go) under         *)
(* concurrent requests.  The map of windows is guarded by one lock and     *)
(* each window by its own; between the lookup of a window, its creation    *)
(* and the reservation any other request may run.  Windows are objects: a  *)
(* request that creates one gives it its own name, and a reference is that *)
(* name.                                                                   *)
(***************************************************************************)
EXTENDS Naturals, FiniteSets, FiniteSetsExt

CONSTANTS Tasks,
          Requests,         \* requests, each made once (bounds every counter)
          Window,           \* length of a window, in ticks
          MaxRequests,      \* accepted requests per window, 0 for no cap
          MaxTokens,        \* token budget per window, 0 for none
          MaxInputTokens,   \* cap on one request's estimate, 0 for none
          Estimates,        \* what Estimate may return
          Usages,           \* tokens a request may turn out to have consumed
          Horizon,          \* last tick of the clock (bound)
          None              \* no window, no task, no reservation

ASSUME LimiterAssumption ==
    /\ IsFiniteSet(Requests)
    /\ Window \in Nat \ {0} /\ Horizon \in Nat
    /\ MaxRequests \in Nat /\ MaxTokens \in Nat /\ MaxInputTokens \in Nat
    /\ Estimates \subseteq Nat /\ Usages \subseteq Nat
    /\ None \notin Requests \cup Tasks \cup Nat

VARIABLES now,
          tasks,      \* Limiter.tasks: the window object of a task, or None
          windows,    \* the window objects: start, requests, tokens
          pc,         \* progress of a request
          task,       \* the task a request is for
          held,       \* the window a request found or created
          resv,       \* its reservation: window start and estimate, or None
          at,         \* history: when it was accepted
          used,       \* history: what it was settled to, None before
          hint        \* what a refused request was told, and of which window

vars == <<now, tasks, windows, pc, task, held, resv, at, used, hint>>

WindowObject == [start : Nat, requests : Nat, tokens : Nat]
Reservation  == [start : Nat, est : Nat]
RetryHint    == [window : Nat, retryAt : Nat]    \* Decision.RetryAfter, absolute

Init == /\ now     = 0
        /\ tasks   = [t \in Tasks |-> None]
        /\ windows = [w \in Requests |-> [start |-> 0, requests |-> 0, tokens |-> 0]]
        /\ pc      = [r \in Requests |-> "idle"]
        /\ task    = [r \in Requests |-> None]
        /\ held    = [r \in Requests |-> None]
        /\ resv    = [r \in Requests |-> None]
        /\ at      = [r \in Requests |-> None]
        /\ used    = [r \in Requests |-> None]
        /\ hint    = [r \in Requests |-> None]

-----------------------------------------------------------------------------
\* Reserve up to the read-locked lookup in windowFor: the input cap, which no
\* window is needed for, then the window of the task if it has one.
Arrive(r, t, est) ==
    /\ pc[r] = "idle"
    /\ task' = [task EXCEPT ![r] = t]
    /\ IF MaxInputTokens > 0 /\ est > MaxInputTokens
       THEN /\ pc' = [pc EXCEPT ![r] = "refused"]
            /\ UNCHANGED <<held, resv>>
       ELSE /\ held' = [held EXCEPT ![r] = tasks[t]]
            /\ resv' = [resv EXCEPT ![r] = [start |-> 0, est |-> est]]
            /\ pc'   = [pc EXCEPT ![r] = IF tasks[t] = None THEN "create" ELSE "reserve"]
    /\ UNCHANGED <<now, tasks, windows, at, used, hint>>

\* windowFor's write-locked half: look again, create a window if there still
\* is none.
Create(r) ==
    /\ pc[r] = "create"
    /\ IF tasks[task[r]] = None
       THEN /\ windows' = [windows EXCEPT ![r] =
                              [start |-> now, requests |-> 0, tokens |-> 0]]
            /\ tasks'   = [tasks EXCEPT ![task[r]] = r]
       ELSE UNCHANGED <<windows, tasks>>
    /\ held' = [held EXCEPT ![r] = tasks'[task[r]]]
    /\ pc'   = [pc EXCEPT ![r] = "reserve"]
    /\ UNCHANGED <<now, task, resv, at, used, hint>>

\* The window as Reserve finds it after rolling an expired one.
Rolled(w) == IF now - w.start >= Window
             THEN [start |-> now, requests |-> 0, tokens |-> 0]
             ELSE w

\* Faulty: forgets to count the request itself.
RequestRateExceededOffByOne(w) == MaxRequests > 0 /\ w.requests > MaxRequests

RequestRateExceeded(w) == MaxRequests > 0 /\ w.requests + 1 > MaxRequests
TokenBudgetExhausted(w, est) == MaxTokens > 0 /\ w.tokens + est > MaxTokens

\* Faulty: the hint is the time elapsed in the window, not the time left.
ReserveHintingElapsed(r) ==
    LET w   == Rolled(windows[held[r]])
        est == resv[r].est IN
    /\ pc[r] = "reserve"
    /\ IF RequestRateExceeded(w) \/ TokenBudgetExhausted(w, est)
       THEN /\ windows' = [windows EXCEPT ![held[r]] = w]
            /\ resv'    = [resv EXCEPT ![r] = None]
            /\ hint'    = [hint EXCEPT ![r] = [window  |-> w.start,
                                               retryAt |-> now + (now - w.start)]]
            /\ pc'      = [pc EXCEPT ![r] = "refused"]
            /\ UNCHANGED at
       ELSE /\ windows' = [windows EXCEPT ![held[r]] =
                              [w EXCEPT !.requests = @ + 1, !.tokens = @ + est]]
            /\ resv'    = [resv EXCEPT ![r] = [start |-> w.start, est |-> est]]
            /\ at'      = [at EXCEPT ![r] = now]
            /\ pc'      = [pc EXCEPT ![r] = "running"]
            /\ UNCHANGED hint
    /\ UNCHANGED <<now, tasks, task, held, used>>

\* Reserve's section under the window's lock.  A refusal keeps the roll.
Reserve(r) ==
    LET w   == Rolled(windows[held[r]])
        est == resv[r].est IN
    /\ pc[r] = "reserve"
    /\ IF RequestRateExceeded(w) \/ TokenBudgetExhausted(w, est)
       THEN /\ windows' = [windows EXCEPT ![held[r]] = w]
            /\ resv'    = [resv EXCEPT ![r] = None]
            /\ hint'    = [hint EXCEPT ![r] = [window  |-> w.start,
                                            retryAt |-> now + (Window - (now - w.start))]]
            /\ pc'      = [pc EXCEPT ![r] = "refused"]
            /\ UNCHANGED at
       ELSE /\ windows' = [windows EXCEPT ![held[r]] =
                              [w EXCEPT !.requests = @ + 1, !.tokens = @ + est]]
            /\ resv'    = [resv EXCEPT ![r] = [start |-> w.start, est |-> est]]
            /\ at'      = [at EXCEPT ![r] = now]
            /\ pc'      = [pc EXCEPT ![r] = "running"]
            /\ UNCHANGED hint
    /\ UNCHANGED <<now, tasks, task, held, used>>

\* Faulty: settles into a window that rolled since.
ReconcileLate(r, actual) ==
    LET w == windows[tasks[task[r]]] IN
    /\ pc[r] = "running"
    /\ windows' = [windows EXCEPT ![tasks[task[r]]].tokens =
                       IF w.tokens + actual < resv[r].est
                       THEN 0 ELSE w.tokens + actual - resv[r].est]
    /\ used' = [used EXCEPT ![r] = actual]
    /\ pc'   = [pc EXCEPT ![r] = "settled"]
    /\ UNCHANGED <<now, tasks, task, held, resv, at, hint>>

\* Reconcile: settle the estimate to the actual usage, unless the window
\* rolled since.  The caller reconciles every reservation (predict_core.go).
Reconcile(r, actual) ==
    LET w == windows[tasks[task[r]]]
        settled == w.tokens + actual - resv[r].est IN
    /\ pc[r] = "running"
    /\ IF w.start = resv[r].start
       THEN windows' = [windows EXCEPT ![tasks[task[r]]].tokens =
                           IF w.tokens + actual < resv[r].est THEN 0 ELSE settled]
       ELSE UNCHANGED windows
    /\ used' = [used EXCEPT ![r] = actual]
    /\ pc'   = [pc EXCEPT ![r] = "settled"]
    /\ UNCHANGED <<now, tasks, task, held, resv, at, hint>>

Tick == /\ now < Horizon
        /\ now' = now + 1
        /\ UNCHANGED <<tasks, windows, pc, task, held, resv, at, used, hint>>

Next == \/ \E r \in Requests : \/ \E t \in Tasks, est \in Estimates : Arrive(r, t, est)
                               \/ Create(r)
                               \/ Reserve(r)
                               \/ \E actual \in Usages : Reconcile(r, actual)
        \/ Tick

Spec == Init /\ [][Next]_vars

-----------------------------------------------------------------------------
TypeOK == /\ now     \in Nat
          /\ tasks   \in [Tasks -> Requests \cup {None}]
          /\ windows \in [Requests -> WindowObject]
          /\ pc      \in [Requests -> {"idle", "create", "reserve", "running",
                                       "settled", "refused"}]
          /\ task    \in [Requests -> Tasks \cup {None}]
          /\ held    \in [Requests -> Requests \cup {None}]
          /\ resv    \in [Requests -> Reservation \cup {None}]
          /\ at      \in [Requests -> Nat \cup {None}]
          /\ used    \in [Requests -> Nat \cup {None}]
          /\ hint    \in [Requests -> RetryHint \cup {None}]

Accepted == {r \in Requests : pc[r] \in {"running", "settled"}}

\* The requests accepted for a task in the window that began at s.
AcceptedIn(t, s) == {r \in Accepted : task[r] = t /\ resv[r].start = s}

\* A task never has two windows, whoever raced to create the first: all its
\* requests count against one object (windowFor's second look).
OneWindowPerTask ==
    \A r \in Requests : held[r] # None => held[r] = tasks[task[r]]

\* A window counts exactly the requests accepted in it, and never more than
\* the cap, however reservations, rolls and settlements interleave.
RequestsCounted ==
    \A t \in Tasks : tasks[t] # None =>
        LET w == windows[tasks[t]] IN
        /\ w.requests = Cardinality(AcceptedIn(t, w.start))
        /\ MaxRequests > 0 => w.requests <= MaxRequests

\* A window's token count is the sum over the requests accepted in it of what
\* they consumed, or of their estimate while they run: no settlement of an
\* earlier window leaks into it, and none is applied twice or lost (so the
\* clamp at zero never bites).
TokensAddUp ==
    \A t \in Tasks : tasks[t] # None =>
        LET w == windows[tasks[t]]
            charge(r) == IF used[r] = None THEN resv[r].est ELSE used[r]
        IN  w.tokens = MapThenSumSet(charge, AcceptedIn(t, w.start))

\* The requests of a task accepted in the interval [x, x + Window).
AcceptedWithin(t, x) ==
    {r \in Accepted : task[r] = t /\ x <= at[r] /\ at[r] < x + Window}

\* The worst burst: windows are tumbling, so an interval of Window's length
\* may meet two of them, and never more.
BurstBounded ==
    MaxRequests > 0 =>
        \A t \in Tasks, x \in 0..now :
            Cardinality(AcceptedWithin(t, x)) <= 2 * MaxRequests

\* The Retry-After hint is honest, also when others rolled the window since:
\* once that time has come the window that refused the request has been, or on
\* the next request will be, replaced, and not a tick earlier.
RetryHintSuffices ==
    \A r \in Requests : hint[r] # None =>
        LET w == windows[held[r]]
            replaced == w.start # hint[r].window \/ now - w.start >= Window
        IN  replaced <=> now >= hint[r].retryAt

-----------------------------------------------------------------------------
(* What makes the bounds inductive, beyond the properties above.           *)

\* A request past the lookup has a task, an estimate and a window, and none
\* before it.
RequestsPlaced ==
    \A r \in Requests :
        /\ pc[r] # "idle" => task[r] \in Tasks
        /\ pc[r] \in {"create", "reserve", "running", "settled"} => resv[r] \in Reservation
        /\ pc[r] \in {"reserve", "running", "settled"} => held[r] \in Requests
        /\ pc[r] \in {"idle", "create"} => held[r] = None

\* A window belongs to the task of the request that created it.
WindowsOwned ==
    \A t \in Tasks : tasks[t] # None =>
        /\ task[tasks[t]] = t
        /\ pc[tasks[t]] \notin {"idle", "create"}
        /\ windows[tasks[t]].start <= now

\* A request was accepted inside its window, which is the task's current one
\* or ended before that began.
AcceptedInTime ==
    \A r \in Accepted :
        /\ at[r] \in resv[r].start..now
        /\ at[r] < resv[r].start + Window
        /\ LET w == windows[tasks[task[r]]] IN
           resv[r].start = w.start \/ resv[r].start + Window <= w.start

\* Two windows of a task begin at least Window apart.
WindowsApart ==
    \A r, q \in Accepted : task[r] = task[q] =>
        \/ resv[r].start = resv[q].start
        \/ resv[r].start + Window <= resv[q].start
        \/ resv[q].start + Window <= resv[r].start

\* The cap holds for every window there has been.
CapPerWindow ==
    MaxRequests > 0 =>
        \A t \in Tasks, s \in 0..now : Cardinality(AcceptedIn(t, s)) <= MaxRequests

LimiterInv == /\ TypeOK
              /\ RequestsPlaced
              /\ OneWindowPerTask
              /\ WindowsOwned
              /\ AcceptedInTime
              /\ WindowsApart
              /\ RequestsCounted
              /\ CapPerWindow

=============================================================================
