------------------------- MODULE RateLimiterProofs -------------------------
(***************************************************************************)
(* Proofs about RateLimiter, for any number of tasks and requests and any  *)
(* setting of the caps: the invariant LimiterInv, from it the bound on     *)
(* bursts, the honesty of hints, and the sums of tokens.                   *)
(***************************************************************************)
EXTENDS RateLimiter, SumTheorems, FiniteSetTheorems, TLAPS

USE LimiterAssumption

LEMMA AcceptedFinite ==
    ASSUME NEW t, NEW s
    PROVE  /\ IsFiniteSet(AcceptedIn(t, s))
           /\ Cardinality(AcceptedIn(t, s)) \in Nat
BY FS_Subset, FS_CardinalityType DEF AcceptedIn, Accepted

LEMMA InitInv == Init => LimiterInv
<1> SUFFICES ASSUME Init PROVE LimiterInv
  OBVIOUS
<1>1. Accepted = {}
  BY DEF Init, Accepted
<1>2. \A t, s : AcceptedIn(t, s) = {}
  BY <1>1 DEF AcceptedIn
<1>3. TypeOK
  BY DEF Init, TypeOK, WindowObject
<1>4. RequestsPlaced /\ OneWindowPerTask /\ WindowsOwned /\ RequestsCounted
  BY DEF Init, RequestsPlaced, OneWindowPerTask, WindowsOwned, RequestsCounted
<1>5. AcceptedInTime /\ WindowsApart
  BY <1>1 DEF AcceptedInTime, WindowsApart
<1>6. CapPerWindow
  BY <1>2, FS_EmptySet DEF CapPerWindow
<1>7. QED
  BY <1>3, <1>4, <1>5, <1>6 DEF LimiterInv

-----------------------------------------------------------------------------
\* A step that neither accepts a request nor changes an accepted one, nor the
\* start and count of a task's window, keeps what is said of accepted ones.
LEMMA AcceptedUnchanged ==
    ASSUME LimiterInv, TypeOK',
           now' \in Nat, now <= now',
           Accepted' = Accepted,
           \A r \in Accepted : /\ task'[r] = task[r] /\ resv'[r] = resv[r]
                               /\ at'[r] = at[r] /\ task[r] \in Tasks
           ,
           \A t \in Tasks : tasks[t] # None =>
               /\ tasks'[t] = tasks[t]
               /\ windows'[tasks[t]].start = windows[tasks[t]].start
               /\ windows'[tasks[t]].requests = windows[tasks[t]].requests,
           \A t \in Tasks : tasks[t] = None /\ tasks'[t] # None =>
               windows'[tasks'[t]].requests = 0
    PROVE  /\ AcceptedInTime'
           /\ WindowsApart'
           /\ RequestsCounted'
           /\ CapPerWindow'
<1> USE DEF LimiterInv
<1>1. \A t, s : AcceptedIn(t, s)' = AcceptedIn(t, s)
  BY DEF AcceptedIn
<1>2. \A r \in Accepted : /\ r \in Requests /\ task[r] \in Tasks
                          /\ tasks[task[r]] \in Requests /\ tasks[task[r]] # None
  BY DEF RequestsPlaced, OneWindowPerTask, Accepted
<1>3. AcceptedInTime'
  <2> SUFFICES ASSUME NEW r \in Accepted
               PROVE  /\ at'[r] \in resv'[r].start..now'
                      /\ at'[r] < resv'[r].start + Window
                      /\ \/ resv'[r].start = windows'[tasks'[task'[r]]].start
                         \/ resv'[r].start + Window <= windows'[tasks'[task'[r]]].start
    BY DEF AcceptedInTime
  <2>1. /\ at[r] \in resv[r].start..now /\ at[r] < resv[r].start + Window
        /\ \/ resv[r].start = windows[tasks[task[r]]].start
           \/ resv[r].start + Window <= windows[tasks[task[r]]].start
    BY DEF AcceptedInTime
  <2>2. windows'[tasks'[task'[r]]].start = windows[tasks[task[r]]].start
    BY <1>2
  <2>3. at'[r] = at[r] /\ resv'[r] = resv[r] /\ resv[r].start \in Nat /\ now \in Nat
    BY <1>2 DEF TypeOK, RequestsPlaced, Reservation, Accepted
  <2>4. QED
    BY <2>1, <2>2, <2>3
<1>4. WindowsApart'
  BY DEF WindowsApart
<1>5. RequestsCounted'
  <2> SUFFICES ASSUME NEW t \in Tasks, tasks'[t] # None,
                      NEW s, s = windows'[tasks'[t]].start
               PROVE  /\ windows'[tasks'[t]].requests = Cardinality(AcceptedIn(t, s)')
                      /\ MaxRequests > 0 => windows'[tasks'[t]].requests <= MaxRequests
    BY DEF RequestsCounted, AcceptedIn
  <2>1. CASE tasks[t] # None
    <3>1. s = windows[tasks[t]].start
          /\ windows'[tasks'[t]].requests = windows[tasks[t]].requests
      BY <2>1
    <3>2. windows[tasks[t]].requests = Cardinality(AcceptedIn(t, s))
      BY <2>1, <3>1 DEF RequestsCounted
    <3>3. QED
      BY <1>1, <2>1, <3>1, <3>2 DEF RequestsCounted
  <2>2. CASE tasks[t] = None
    <3>1. AcceptedIn(t, s) = {}
      BY <1>2, <2>2 DEF AcceptedIn
    <3>2. windows'[tasks'[t]].requests = 0
      BY <2>2
    <3>3. Cardinality(AcceptedIn(t, s)') = 0
      BY <1>1, <3>1, FS_EmptySet, Zenon
    <3>4. QED
      BY <3>2, <3>3
  <2>3. QED
    BY <2>1, <2>2
<1>6. CapPerWindow'
  <2> SUFFICES ASSUME MaxRequests > 0, NEW t \in Tasks, NEW s \in 0..now'
               PROVE  Cardinality(AcceptedIn(t, s)') <= MaxRequests
    BY DEF CapPerWindow
  <2>1. CASE s <= now
    <3>1. s \in 0..now
      BY <2>1 DEF TypeOK
    <3>2. QED
      BY <1>1, <3>1 DEF CapPerWindow
  <2>2. CASE s > now
    <3>1. \A r \in Accepted : resv[r].start <= now
      BY <1>2 DEF AcceptedInTime, TypeOK, RequestsPlaced, Reservation, Accepted
    <3>2. AcceptedIn(t, s) = {}
      BY <1>2, <2>2, <3>1 DEF AcceptedIn, TypeOK, RequestsPlaced, Reservation, Accepted
    <3>3. Cardinality(AcceptedIn(t, s)') = 0
      BY <1>1, <3>2, FS_EmptySet, Zenon
    <3>4. QED
      BY <3>3
  <2>3. QED
    BY <2>1, <2>2 DEF TypeOK
<1>7. QED
  BY <1>3, <1>4, <1>5, <1>6

-----------------------------------------------------------------------------
LEMMA ArriveInv ==
    ASSUME LimiterInv, NEW r \in Requests, NEW t \in Tasks, NEW est \in Estimates,
           Arrive(r, t, est)
    PROVE  LimiterInv'
<1> USE DEF LimiterInv
<1>1. est \in Nat /\ r \notin Accepted /\ pc[r] = "idle" /\ held[r] = None
  BY DEF Arrive, Accepted, RequestsPlaced
<1>2. TypeOK'
  BY <1>1 DEF Arrive, TypeOK, Reservation
<1>3. RequestsPlaced'
  BY <1>1 DEF Arrive, TypeOK, RequestsPlaced, Reservation
<1>4. WindowsOwned'
  BY <1>1 DEF Arrive, TypeOK, WindowsOwned
<1>5. OneWindowPerTask'
  BY <1>1 DEF Arrive, TypeOK, OneWindowPerTask
<1>6. Accepted' = Accepted
  BY <1>1 DEF Arrive, TypeOK, Accepted
<1>7. \A q \in Accepted : /\ task'[q] = task[q] /\ resv'[q] = resv[q]
                          /\ at'[q] = at[q] /\ task[q] \in Tasks
  BY <1>1 DEF Arrive, TypeOK, Accepted, RequestsPlaced
<1>8. now' = now /\ tasks' = tasks /\ windows' = windows /\ now \in Nat
  BY DEF Arrive, TypeOK
<1>9. AcceptedInTime' /\ WindowsApart' /\ RequestsCounted' /\ CapPerWindow'
  BY <1>2, <1>6, <1>7, <1>8, AcceptedUnchanged
<1>10. QED
  BY <1>2, <1>3, <1>4, <1>5, <1>9

LEMMA CreateInv ==
    ASSUME LimiterInv, NEW r \in Requests, Create(r)
    PROVE  LimiterInv'
<1> USE DEF LimiterInv
<1> DEFINE t == task[r]
<1>1. /\ r \notin Accepted /\ pc[r] = "create" /\ held[r] = None
      /\ t \in Tasks /\ resv[r] \in Reservation /\ now \in Nat
  BY DEF Create, Accepted, RequestsPlaced, TypeOK
<1>2. \A u \in Tasks : tasks[u] # r
  BY <1>1 DEF WindowsOwned
<1>3. /\ pc' = [pc EXCEPT ![r] = "reserve"]
      /\ held' = [held EXCEPT ![r] = tasks'[t]]
      /\ UNCHANGED <<now, task, resv, at, used, hint>>
  BY DEF Create
<1>4. /\ tasks' \in [Tasks -> Requests \cup {None}]
      /\ tasks'[t] \in Requests
      /\ \A u \in Tasks : tasks[u] # None => tasks'[u] = tasks[u]
      /\ \A u \in Tasks : u # t => tasks'[u] = tasks[u]
      /\ tasks[t] = None => tasks'[t] = r
      /\ windows' \in [Requests -> WindowObject]
      /\ \A w \in Requests : w # r => windows'[w] = windows[w]
      /\ tasks[t] = None => windows'[r] = [start |-> now, requests |-> 0, tokens |-> 0]
  <2>1. CASE tasks[t] = None
    <3>1. /\ windows' = [windows EXCEPT ![r] = [start |-> now, requests |-> 0, tokens |-> 0]]
          /\ tasks' = [tasks EXCEPT ![t] = r]
      BY <2>1 DEF Create
    <3>2. [start |-> now, requests |-> 0, tokens |-> 0] \in WindowObject
      BY <1>1 DEF WindowObject
    <3>3. QED
      BY <1>1, <2>1, <3>1, <3>2 DEF TypeOK
  <2>2. CASE tasks[t] # None
    <3>1. windows' = windows /\ tasks' = tasks
      BY <2>2 DEF Create
    <3>2. QED
      BY <1>1, <2>2, <3>1 DEF TypeOK
  <2>3. QED
    BY <2>1, <2>2
<1> HIDE DEF t
<1>5. TypeOK'
  BY <1>3, <1>4 DEF TypeOK
<1>6. RequestsPlaced'
  BY <1>1, <1>3, <1>4 DEF TypeOK, RequestsPlaced
<1>7. WindowsOwned'
  <2> SUFFICES ASSUME NEW u \in Tasks, tasks'[u] # None
               PROVE  /\ task'[tasks'[u]] = u
                      /\ pc'[tasks'[u]] \notin {"idle", "create"}
                      /\ windows'[tasks'[u]].start <= now'
    BY DEF WindowsOwned
  <2>1. CASE tasks[u] # None
    <3>1. tasks'[u] = tasks[u] /\ tasks[u] # r /\ tasks[u] \in Requests
      BY <1>2, <1>4, <2>1 DEF TypeOK
    <3>2. windows'[tasks[u]] = windows[tasks[u]]
      BY <1>4, <3>1
    <3>3. QED
      BY <1>3, <2>1, <3>1, <3>2 DEF WindowsOwned, TypeOK
  <2>2. CASE tasks[u] = None
    <3>1. u = t /\ tasks'[u] = r
      BY <1>4, <2>2
    <3>2. windows'[r].start = now
      BY <1>4, <2>2, <3>1
    <3>3. QED
      BY <1>1, <1>3, <3>1, <3>2 DEF TypeOK, t
  <2>3. QED
    BY <2>1, <2>2
<1>8. OneWindowPerTask'
  <2> SUFFICES ASSUME NEW q \in Requests, held'[q] # None
               PROVE  held'[q] = tasks'[task'[q]]
    BY DEF OneWindowPerTask
  <2>1. CASE q = r
    BY <1>3, <2>1 DEF TypeOK, t
  <2>2. CASE q # r
    <3>1. held'[q] = held[q] /\ held[q] = tasks[task[q]] /\ task[q] \in Tasks
      BY <1>3, <2>2 DEF TypeOK, OneWindowPerTask, RequestsPlaced
    <3>2. QED
      BY <1>3, <1>4, <3>1
  <2>3. QED
    BY <2>1, <2>2
<1>9. Accepted' = Accepted
  BY <1>1, <1>3 DEF Accepted, TypeOK
<1>10. \A q \in Accepted : /\ task'[q] = task[q] /\ resv'[q] = resv[q]
                           /\ at'[q] = at[q] /\ task[q] \in Tasks
  BY <1>3 DEF Accepted, RequestsPlaced
<1>11. \A u \in Tasks : tasks[u] # None =>
           /\ tasks'[u] = tasks[u]
           /\ windows'[tasks[u]].start = windows[tasks[u]].start
           /\ windows'[tasks[u]].requests = windows[tasks[u]].requests
  BY <1>2, <1>4 DEF TypeOK
<1>12. \A u \in Tasks : tasks[u] = None /\ tasks'[u] # None =>
           windows'[tasks'[u]].requests = 0
  BY <1>4
<1>13. AcceptedInTime' /\ WindowsApart' /\ RequestsCounted' /\ CapPerWindow'
  BY <1>1, <1>3, <1>5, <1>9, <1>10, <1>11, <1>12, AcceptedUnchanged
<1>14. QED
  BY <1>5, <1>6, <1>7, <1>8, <1>13

-----------------------------------------------------------------------------
\* The window a reservation is decided on: it is open, it counts the requests
\* accepted in it, and every earlier request is in it or before it.
LEMMA RolledWindow ==
    ASSUME LimiterInv, NEW r \in Requests, pc[r] = "reserve",
           NEW w, w = Rolled(windows[held[r]])
    PROVE  /\ w \in WindowObject
           /\ w.start <= now /\ now < w.start + Window
           /\ w.requests = Cardinality(AcceptedIn(task[r], w.start))
           /\ MaxRequests > 0 => w.requests <= MaxRequests
           /\ \A q \in Accepted : task[q] = task[r] =>
                  resv[q].start = w.start \/ resv[q].start + Window <= w.start
<1> USE DEF LimiterInv
<1>1. /\ task[r] \in Tasks /\ held[r] \in Requests /\ held[r] # None
      /\ held[r] = tasks[task[r]] /\ now \in Nat
  BY DEF RequestsPlaced, OneWindowPerTask, TypeOK
<1> DEFINE old == windows[held[r]]
<1>2. /\ old \in WindowObject /\ old.start <= now
      /\ old.requests = Cardinality(AcceptedIn(task[r], old.start))
      /\ MaxRequests > 0 => old.requests <= MaxRequests
  BY <1>1 DEF TypeOK, WindowsOwned, RequestsCounted
<1>3. \A q \in Accepted : task[q] = task[r] =>
         /\ resv[q].start \in Nat
         /\ resv[q].start = old.start \/ resv[q].start + Window <= old.start
  BY <1>1 DEF AcceptedInTime, RequestsPlaced, Accepted, Reservation
<1> HIDE DEF old
<1>4. CASE now - old.start < Window
  <2>1. w = old
    BY <1>1, <1>2, <1>4 DEF Rolled, WindowObject, old
  <2>2. QED
    BY <1>1, <1>2, <1>3, <1>4, <2>1 DEF WindowObject
<1>5. CASE now - old.start >= Window
  <2>1. w = [start |-> now, requests |-> 0, tokens |-> 0]
    BY <1>5 DEF Rolled, old
  <2>2. w \in WindowObject /\ w.start = now /\ w.requests = 0
    BY <1>1, <2>1 DEF WindowObject
  <2>3. \A q \in Accepted : task[q] = task[r] => resv[q].start + Window <= now
    BY <1>1, <1>2, <1>3, <1>5 DEF WindowObject
  <2>4. AcceptedIn(task[r], now) = {}
    BY <1>1, <1>3, <2>3 DEF AcceptedIn
  <2>5. Cardinality(AcceptedIn(task[r], now)) = 0
    BY <2>4, FS_EmptySet, Zenon
  <2>6. QED
    BY <1>1, <2>2, <2>3, <2>5
<1>6. QED
  BY <1>1, <1>2, <1>4, <1>5 DEF WindowObject

\* What a reservation does to the state, whether it accepts or refuses: the
\* window in force takes the place of the old one, with one more request if
\* the request was accepted.
LEMMA ReserveStep ==
    ASSUME LimiterInv, NEW r \in Requests, Reserve(r),
           NEW w, w = Rolled(windows[held[r]]), NEW t, t = task[r]
    PROVE  /\ UNCHANGED <<now, tasks, task, held, used>>
           /\ TypeOK'
           /\ t \in Tasks /\ tasks[t] = held[r] /\ held[r] \in Requests
           /\ windows'[held[r]].start = w.start
           /\ \A v \in Requests : v # held[r] => windows'[v] = windows[v]
           /\ \A q \in Requests : q # r =>
                  resv'[q] = resv[q] /\ at'[q] = at[q] /\ pc'[q] = pc[q]
           /\ \/ /\ Accepted' = Accepted
                 /\ pc'[r] = "refused"
                 /\ windows'[held[r]].requests = w.requests
                 /\ windows'[held[r]].tokens = w.tokens
              \/ /\ Accepted' = Accepted \cup {r}
                 /\ pc'[r] = "running"
                 /\ resv'[r] \in Reservation /\ resv'[r].start = w.start
                 /\ resv'[r].est = resv[r].est /\ resv[r].est \in Nat
                 /\ at'[r] = now
                 /\ windows'[held[r]].requests = w.requests + 1
                 /\ windows'[held[r]].tokens = w.tokens + resv[r].est
                 /\ MaxRequests > 0 => w.requests + 1 <= MaxRequests
<1> USE DEF LimiterInv
<1> DEFINE est == resv[r].est
           refused == RequestRateExceeded(w) \/ TokenBudgetExhausted(w, est)
           taken == [w EXCEPT !.requests = @ + 1, !.tokens = @ + est]
           told == [window |-> w.start, retryAt |-> now + (Window - (now - w.start))]
<1>1. /\ pc[r] = "reserve" /\ r \notin Accepted
      /\ UNCHANGED <<now, tasks, task, held, used>>
  BY DEF Reserve, Accepted
<1>2. /\ t \in Tasks /\ held[r] \in Requests /\ held[r] = tasks[t]
      /\ resv[r] \in Reservation /\ est \in Nat /\ now \in Nat
  BY <1>1 DEF RequestsPlaced, OneWindowPerTask, TypeOK, Reservation
<1>3. w \in WindowObject /\ w.start <= now /\ now < w.start + Window
  BY <1>1, RolledWindow
<1>4. /\ taken \in WindowObject
      /\ taken.start = w.start /\ taken.requests = w.requests + 1
      /\ taken.tokens = w.tokens + est
  <2> DEFINE counted == [w EXCEPT !.requests = @ + 1]
  <2>1. counted \in WindowObject /\ counted.start = w.start /\ counted.requests = w.requests + 1
    BY <1>3 DEF WindowObject
  <2>2. taken = [counted EXCEPT !.tokens = w.tokens + est]
    BY <1>3 DEF WindowObject
  <2> HIDE DEF counted, taken
  <2>3. QED
    BY <1>2, <1>3, <2>1, <2>2 DEF WindowObject
<1> HIDE DEF taken, told
<1>5. CASE refused
  <2>1. /\ windows' = [windows EXCEPT ![held[r]] = w]
        /\ resv'    = [resv EXCEPT ![r] = None]
        /\ hint'    = [hint EXCEPT ![r] = told]
        /\ pc'      = [pc EXCEPT ![r] = "refused"]
        /\ at' = at
    BY <1>5 DEF Reserve, told
  <2>2. told \in RetryHint
    BY <1>2, <1>3 DEF WindowObject, RetryHint, told
  <2>3. TypeOK'
    <3>1. /\ windows' \in [Requests -> WindowObject]
          /\ resv' \in [Requests -> Reservation \cup {None}]
          /\ pc' \in [Requests -> {"idle", "create", "reserve", "running",
                                   "settled", "refused"}]
      BY <1>2, <1>3, <2>1 DEF TypeOK
    <3>2. hint' \in [Requests -> RetryHint \cup {None}]
      BY <2>1, <2>2 DEF TypeOK
    <3>3. QED
      BY <1>1, <2>1, <3>1, <3>2 DEF TypeOK
  <2>4. Accepted' = Accepted
    BY <1>1, <2>1 DEF Accepted, TypeOK
  <2>5. /\ windows'[held[r]] = w
        /\ \A v \in Requests : v # held[r] => windows'[v] = windows[v]
        /\ \A q \in Requests : q # r =>
              resv'[q] = resv[q] /\ at'[q] = at[q] /\ pc'[q] = pc[q]
        /\ pc'[r] = "refused"
    BY <1>2, <2>1 DEF TypeOK
  <2>6. QED
    BY <1>1, <1>2, <2>3, <2>4, <2>5
<1>6. CASE ~refused
  <2>1. /\ windows' = [windows EXCEPT ![held[r]] = taken]
        /\ resv'    = [resv EXCEPT ![r] = [start |-> w.start, est |-> est]]
        /\ at'      = [at EXCEPT ![r] = now]
        /\ pc'      = [pc EXCEPT ![r] = "running"]
        /\ hint' = hint
    BY <1>6 DEF Reserve, taken
  <2>2. [start |-> w.start, est |-> est] \in Reservation
    BY <1>2, <1>3 DEF WindowObject, Reservation
  <2>3. TypeOK'
    <3>1. /\ windows' \in [Requests -> WindowObject]
          /\ resv' \in [Requests -> Reservation \cup {None}]
          /\ pc' \in [Requests -> {"idle", "create", "reserve", "running",
                                   "settled", "refused"}]
      BY <1>2, <1>4, <2>1, <2>2 DEF TypeOK
    <3>2. at' \in [Requests -> Nat \cup {None}]
      BY <1>2, <2>1 DEF TypeOK
    <3>3. QED
      BY <1>1, <2>1, <3>1, <3>2 DEF TypeOK
  <2>4. Accepted' = Accepted \cup {r}
    BY <1>1, <2>1 DEF Accepted, TypeOK
  <2>5. /\ windows'[held[r]] = taken
        /\ \A v \in Requests : v # held[r] => windows'[v] = windows[v]
        /\ \A q \in Requests : q # r =>
              resv'[q] = resv[q] /\ at'[q] = at[q] /\ pc'[q] = pc[q]
        /\ pc'[r] = "running" /\ at'[r] = now
        /\ resv'[r] = [start |-> w.start, est |-> est]
    BY <1>2, <2>1 DEF TypeOK
  <2>6. MaxRequests > 0 => w.requests + 1 <= MaxRequests
    BY <1>3, <1>6 DEF RequestRateExceeded, WindowObject
  <2>7. QED
    BY <1>1, <1>2, <1>4, <2>2, <2>3, <2>4, <2>5, <2>6
<1>7. QED
  BY <1>5, <1>6

LEMMA ReserveInv ==
    ASSUME LimiterInv, NEW r \in Requests, Reserve(r)
    PROVE  LimiterInv'
<1> USE DEF LimiterInv
<1> SUFFICES ASSUME NEW t, t = task[r], NEW w, w = Rolled(windows[held[r]])
             PROVE  LimiterInv'
  OBVIOUS
<1>1. pc[r] = "reserve" /\ r \notin Accepted
  BY DEF Reserve, Accepted
<1>2. /\ w \in WindowObject /\ w.start <= now /\ now < w.start + Window
      /\ w.requests = Cardinality(AcceptedIn(t, w.start))
      /\ MaxRequests > 0 => w.requests <= MaxRequests
      /\ \A q \in Accepted : task[q] = t =>
             resv[q].start = w.start \/ resv[q].start + Window <= w.start
  BY <1>1, RolledWindow
<1>3. /\ UNCHANGED <<now, tasks, task, held, used>>
      /\ TypeOK'
      /\ t \in Tasks /\ tasks[t] = held[r] /\ held[r] \in Requests
      /\ windows'[held[r]].start = w.start
      /\ \A v \in Requests : v # held[r] => windows'[v] = windows[v]
      /\ \A q \in Requests : q # r =>
             resv'[q] = resv[q] /\ at'[q] = at[q] /\ pc'[q] = pc[q]
      /\ \/ /\ Accepted' = Accepted
            /\ pc'[r] = "refused"
            /\ windows'[held[r]].requests = w.requests
         \/ /\ Accepted' = Accepted \cup {r}
            /\ pc'[r] = "running"
            /\ resv'[r] \in Reservation /\ resv'[r].start = w.start
            /\ at'[r] = now
            /\ windows'[held[r]].requests = w.requests + 1
            /\ MaxRequests > 0 => w.requests + 1 <= MaxRequests
  BY ReserveStep
<1>4. /\ now \in Nat /\ w.start \in Nat /\ w.start <= now
      /\ now < w.start + Window /\ w.requests \in Nat
  BY <1>2 DEF WindowObject, TypeOK
<1>5. \A q \in Accepted : /\ q \in Requests /\ q # r /\ task[q] \in Tasks
                          /\ resv[q].start \in Nat /\ tasks[task[q]] \in Requests
                          /\ at[q] \in resv[q].start..now
                          /\ at[q] < resv[q].start + Window
                          /\ \/ resv[q].start = windows[tasks[task[q]]].start
                             \/ resv[q].start + Window <= windows[tasks[task[q]]].start
  BY <1>1 DEF Accepted, RequestsPlaced, OneWindowPerTask, Reservation, AcceptedInTime
\* The windows of the other tasks are others.
<1>6. \A u \in Tasks : u # t /\ tasks[u] # None =>
         /\ tasks[u] \in Requests /\ tasks[u] # held[r]
         /\ windows'[tasks[u]] = windows[tasks[u]]
  BY <1>3 DEF WindowsOwned, TypeOK
<1>7. \A q \in Requests : held[q] # None \/ pc[q] \in {"idle", "create", "refused"}
  BY DEF RequestsPlaced, TypeOK
<1>8. RequestsPlaced'
  BY <1>1, <1>3 DEF RequestsPlaced
<1>9. OneWindowPerTask'
  BY <1>3 DEF OneWindowPerTask
<1>10. WindowsOwned'
  <2> SUFFICES ASSUME NEW u \in Tasks, tasks[u] # None
               PROVE  /\ task[tasks[u]] = u
                      /\ pc'[tasks[u]] \notin {"idle", "create"}
                      /\ windows'[tasks[u]].start <= now
    BY <1>3 DEF WindowsOwned
  <2>1. /\ tasks[u] \in Requests /\ task[tasks[u]] = u
        /\ pc[tasks[u]] \notin {"idle", "create"} /\ windows[tasks[u]].start <= now
    BY DEF WindowsOwned, TypeOK
  <2>2. pc'[tasks[u]] \notin {"idle", "create"}
    BY <1>3, <2>1
  <2>3. windows'[tasks[u]].start <= now
    BY <1>3, <1>4, <1>6, <2>1
  <2>4. QED
    BY <2>1, <2>2, <2>3
<1>11. \A q \in Accepted' : q # r =>
          /\ q \in Accepted /\ resv'[q] = resv[q] /\ at'[q] = at[q]
  BY <1>3, <1>5
<1>12. r \in Accepted' => resv'[r].start = w.start /\ at'[r] = now
  BY <1>1, <1>3
<1>13. AcceptedInTime'
  <2> SUFFICES ASSUME NEW q \in Accepted'
               PROVE  /\ at'[q] \in resv'[q].start..now
                      /\ at'[q] < resv'[q].start + Window
                      /\ \/ resv'[q].start = windows'[tasks[task[q]]].start
                         \/ resv'[q].start + Window <= windows'[tasks[task[q]]].start
    BY <1>3 DEF AcceptedInTime
  <2>1. CASE q = r
    BY <1>3, <1>4, <1>12, <2>1
  <2>2. CASE q # r /\ task[q] = t
    BY <1>2, <1>3, <1>5, <1>11, <2>2
  <2>3. CASE q # r /\ task[q] # t
    <3>1. q \in Accepted /\ resv'[q] = resv[q] /\ at'[q] = at[q]
      BY <1>11, <2>3
    <3>2. windows'[tasks[task[q]]] = windows[tasks[task[q]]]
      BY <1>5, <1>6, <2>3, <3>1
    <3>3. QED
      BY <1>5, <3>1, <3>2
  <2>4. QED
    BY <2>1, <2>2, <2>3
<1>14. WindowsApart'
  <2> SUFFICES ASSUME NEW p \in Accepted', NEW q \in Accepted', task[p] = task[q]
               PROVE  \/ resv'[p].start = resv'[q].start
                      \/ resv'[p].start + Window <= resv'[q].start
                      \/ resv'[q].start + Window <= resv'[p].start
    BY <1>3 DEF WindowsApart
  <2>1. CASE p # r /\ q # r
    BY <1>11, <2>1 DEF WindowsApart
  <2>2. CASE p = r /\ q # r
    BY <1>2, <1>11, <1>12, <2>2
  <2>3. CASE p # r /\ q = r
    BY <1>2, <1>11, <1>12, <2>3
  <2>4. CASE p = r /\ q = r
    BY <2>4
  <2>5. QED
    BY <2>1, <2>2, <2>3, <2>4
\* Only the count of this window changes, and by the request taken.
<1>15. \A s : \A u \in Tasks : u # t \/ s # w.start => AcceptedIn(u, s)' = AcceptedIn(u, s)
  BY <1>1, <1>3, <1>5, <1>11, <1>12 DEF AcceptedIn
<1>16. Cardinality(AcceptedIn(t, w.start)') = windows'[held[r]].requests
       /\ (MaxRequests > 0 => windows'[held[r]].requests <= MaxRequests)
  <2>1. CASE Accepted' = Accepted /\ windows'[held[r]].requests = w.requests
    <3>1. AcceptedIn(t, w.start)' = AcceptedIn(t, w.start)
      BY <1>3, <1>5, <1>11, <2>1 DEF AcceptedIn
    <3>2. QED
      BY <1>2, <2>1, <3>1
  <2>2. CASE /\ Accepted' = Accepted \cup {r}
             /\ windows'[held[r]].requests = w.requests + 1
             /\ MaxRequests > 0 => w.requests + 1 <= MaxRequests
    <3>1. AcceptedIn(t, w.start)' = AcceptedIn(t, w.start) \cup {r}
      BY <1>3, <1>5, <1>11, <1>12, <2>2 DEF AcceptedIn
    <3>2. r \notin AcceptedIn(t, w.start)
      BY <1>1 DEF AcceptedIn
    <3>3. Cardinality(AcceptedIn(t, w.start) \cup {r})
            = Cardinality(AcceptedIn(t, w.start)) + 1
      BY <3>2, AcceptedFinite, FS_AddElement
    <3>4. QED
      BY <1>2, <2>2, <3>1, <3>3
  <2>3. QED
    BY <1>3, <2>1, <2>2
<1>17. RequestsCounted'
  <2> SUFFICES ASSUME NEW u \in Tasks, tasks[u] # None,
                      NEW s, s = windows'[tasks[u]].start
               PROVE  /\ windows'[tasks[u]].requests = Cardinality(AcceptedIn(u, s)')
                      /\ MaxRequests > 0 => windows'[tasks[u]].requests <= MaxRequests
    BY <1>3 DEF RequestsCounted, AcceptedIn
  <2>1. CASE u = t
    BY <1>3, <1>16, <2>1
  <2>2. CASE u # t
    BY <1>6, <1>15, <2>2 DEF RequestsCounted
  <2>3. QED
    BY <2>1, <2>2
<1>18. CapPerWindow'
  <2> SUFFICES ASSUME MaxRequests > 0, NEW u \in Tasks, NEW s \in 0..now
               PROVE  Cardinality(AcceptedIn(u, s)') <= MaxRequests
    BY <1>3 DEF CapPerWindow
  <2>1. CASE u = t /\ s = w.start
    BY <1>16, <2>1
  <2>2. CASE u # t \/ s # w.start
    BY <1>15, <2>2 DEF CapPerWindow
  <2>3. QED
    BY <2>1, <2>2
<1>19. QED
  BY <1>3, <1>8, <1>9, <1>10, <1>13, <1>14, <1>17, <1>18

LEMMA ReconcileInv ==
    ASSUME LimiterInv, NEW r \in Requests, NEW actual \in Usages, Reconcile(r, actual)
    PROVE  LimiterInv'
<1> USE DEF LimiterInv
<1> DEFINE own == tasks[task[r]]
           tokens == IF windows[own].tokens + actual < resv[r].est
                     THEN 0
                     ELSE windows[own].tokens + actual - resv[r].est
<1>1. /\ pc[r] = "running" /\ task[r] \in Tasks /\ own \in Requests
      /\ resv[r].est \in Nat /\ actual \in Nat /\ now \in Nat
      /\ windows[own] \in WindowObject
  BY DEF Reconcile, RequestsPlaced, OneWindowPerTask, Reservation, TypeOK
<1>2. tokens \in Nat
  BY <1>1 DEF WindowObject
<1>3. /\ pc' = [pc EXCEPT ![r] = "settled"] /\ used' = [used EXCEPT ![r] = actual]
      /\ UNCHANGED <<now, tasks, task, held, resv, at, hint>>
      /\ windows' = windows \/ windows' = [windows EXCEPT ![own].tokens = tokens]
  BY DEF Reconcile
<1> HIDE DEF tokens, own
<1>4. /\ windows' \in [Requests -> WindowObject]
      /\ \A v \in Requests : /\ windows'[v].start = windows[v].start
                            /\ windows'[v].requests = windows[v].requests
  <2> DEFINE settled == [windows[own] EXCEPT !.tokens = tokens]
  <2>1. /\ settled \in WindowObject /\ settled.start = windows[own].start
        /\ settled.requests = windows[own].requests
    BY <1>1, <1>2 DEF WindowObject
  <2>2. windows' = windows \/ windows' = [windows EXCEPT ![own] = settled]
    BY <1>1, <1>3
  <2> HIDE DEF settled
  <2>3. QED
    BY <1>1, <2>1, <2>2 DEF TypeOK
<1>5. TypeOK'
  BY <1>1, <1>3, <1>4 DEF TypeOK
<1>6. RequestsPlaced' /\ OneWindowPerTask'
  BY <1>1, <1>3 DEF RequestsPlaced, OneWindowPerTask, TypeOK
<1>7. WindowsOwned'
  BY <1>1, <1>3, <1>4 DEF WindowsOwned, TypeOK
<1>8. Accepted' = Accepted
  BY <1>1, <1>3 DEF Accepted, TypeOK
<1>9. \A q \in Accepted : task[q] \in Tasks
  BY DEF Accepted, RequestsPlaced
<1>10. \A t \in Tasks : tasks[t] # None => tasks[t] \in Requests
  BY DEF TypeOK
<1>11. AcceptedInTime' /\ WindowsApart' /\ RequestsCounted' /\ CapPerWindow'
  BY <1>1, <1>3, <1>4, <1>5, <1>8, <1>9, <1>10, AcceptedUnchanged
<1>12. QED
  BY <1>5, <1>6, <1>7, <1>11

LEMMA TickInv == LimiterInv /\ Tick => LimiterInv'
<1> SUFFICES ASSUME LimiterInv, Tick PROVE LimiterInv'
  OBVIOUS
<1> USE DEF LimiterInv
<1>1. /\ now \in Nat /\ now' = now + 1
      /\ UNCHANGED <<tasks, windows, pc, task, held, resv, at, used, hint>>
  BY DEF Tick, TypeOK
<1>2. TypeOK'
  BY <1>1 DEF TypeOK
<1>3. RequestsPlaced' /\ OneWindowPerTask'
  BY <1>1 DEF RequestsPlaced, OneWindowPerTask
<1>4. WindowsOwned'
  BY <1>1 DEF WindowsOwned, TypeOK, WindowObject
<1>5. Accepted' = Accepted /\ \A q \in Accepted : task[q] \in Tasks
  BY <1>1 DEF Accepted, RequestsPlaced
<1>6. AcceptedInTime' /\ WindowsApart' /\ RequestsCounted' /\ CapPerWindow'
  BY <1>1, <1>2, <1>5, AcceptedUnchanged
<1>7. QED
  BY <1>2, <1>3, <1>4, <1>6

LEMMA NextInv == LimiterInv /\ [Next]_vars => LimiterInv'
<1> SUFFICES ASSUME LimiterInv, [Next]_vars PROVE LimiterInv'
  OBVIOUS
<1>1. ASSUME NEW r \in Requests, NEW t \in Tasks, NEW est \in Estimates, Arrive(r, t, est)
      PROVE  LimiterInv'
  BY <1>1, ArriveInv
<1>2. ASSUME NEW r \in Requests, Create(r) PROVE LimiterInv'
  BY <1>2, CreateInv
<1>3. ASSUME NEW r \in Requests, Reserve(r) PROVE LimiterInv'
  BY <1>3, ReserveInv
<1>4. ASSUME NEW r \in Requests, NEW actual \in Usages, Reconcile(r, actual)
      PROVE  LimiterInv'
  BY <1>4, ReconcileInv
<1>5. CASE Tick
  BY <1>5, TickInv
<1>6. CASE UNCHANGED vars
  BY <1>6 DEF LimiterInv, TypeOK, RequestsPlaced, OneWindowPerTask, WindowsOwned,
              AcceptedInTime, WindowsApart, RequestsCounted, CapPerWindow,
              Accepted, AcceptedIn, vars
<1>7. QED
  BY <1>1, <1>2, <1>3, <1>4, <1>5, <1>6 DEF Next

-----------------------------------------------------------------------------
\* Two windows' worth is all an interval of Window's length can hold: the
\* requests whose window had begun by x lie in one window, and so do those
\* whose window began after it.
LEMMA TwoWindows == LimiterInv => BurstBounded
<1> SUFFICES ASSUME LimiterInv, MaxRequests > 0, NEW t \in Tasks, NEW x \in 0..now
             PROVE  Cardinality(AcceptedWithin(t, x)) <= 2 * MaxRequests
  BY DEF BurstBounded
<1> USE DEF LimiterInv
<1> DEFINE begun == {r \in AcceptedWithin(t, x) : resv[r].start <= x}
           later == {r \in AcceptedWithin(t, x) : resv[r].start > x}
<1>1. \A r \in AcceptedWithin(t, x) :
         /\ r \in Accepted /\ task[r] = t
         /\ resv[r].start \in Nat /\ resv[r].start <= now
         /\ at[r] \in Nat /\ x <= at[r] /\ at[r] < x + Window
         /\ resv[r].start <= at[r] /\ at[r] < resv[r].start + Window
  BY DEF AcceptedWithin, Accepted, AcceptedInTime, RequestsPlaced, Reservation, TypeOK
<1>2. \A r, q \in begun : resv[r].start = resv[q].start
  BY <1>1 DEF WindowsApart, TypeOK
<1>3. \A r, q \in later : resv[r].start = resv[q].start
  BY <1>1 DEF WindowsApart, TypeOK
<1>4. ASSUME NEW S \in SUBSET AcceptedWithin(t, x),
             \A r, q \in S : resv[r].start = resv[q].start
      PROVE  IsFiniteSet(S) /\ Cardinality(S) \in Nat /\ Cardinality(S) <= MaxRequests
  <2>1. CASE S = {}
    <3>1. IsFiniteSet(S) /\ Cardinality(S) = 0
      BY <2>1, FS_EmptySet, Zenon
    <3>2. QED
      BY <3>1
  <2>2. CASE S # {}
    <3>1. PICK r \in S : TRUE
      BY <2>2
    <3>2. S \subseteq AcceptedIn(t, resv[r].start) /\ resv[r].start \in 0..now
      BY <1>1, <1>4, <3>1 DEF AcceptedIn, TypeOK
    <3>3. /\ IsFiniteSet(S)
          /\ Cardinality(S) <= Cardinality(AcceptedIn(t, resv[r].start))
      BY <3>2, AcceptedFinite, FS_Subset
    <3>4. Cardinality(AcceptedIn(t, resv[r].start)) <= MaxRequests
      BY <3>2 DEF CapPerWindow
    <3>5. Cardinality(S) \in Nat /\ Cardinality(AcceptedIn(t, resv[r].start)) \in Nat
      BY <3>3, AcceptedFinite, FS_CardinalityType
    <3>6. QED
      BY <3>3, <3>4, <3>5
  <2>3. QED
    BY <2>1, <2>2
<1> HIDE DEF begun, later
<1>5. /\ AcceptedWithin(t, x) = begun \cup later
      /\ begun \subseteq AcceptedWithin(t, x) /\ later \subseteq AcceptedWithin(t, x)
      /\ begun \cap later = {}
  BY <1>1 DEF begun, later, TypeOK
<1>6. /\ IsFiniteSet(begun) /\ Cardinality(begun) \in Nat
      /\ Cardinality(begun) <= MaxRequests
  BY <1>2, <1>4, <1>5
<1>7. /\ IsFiniteSet(later) /\ Cardinality(later) \in Nat
      /\ Cardinality(later) <= MaxRequests
  BY <1>3, <1>4, <1>5
<1>8. Cardinality(begun \cup later)
        = Cardinality(begun) + Cardinality(later) - Cardinality(begun \cap later)
  BY <1>6, <1>7, FS_Union
<1>9. Cardinality(begun \cap later) = 0
  BY <1>5, FS_EmptySet, Zenon
<1>10. QED
  BY <1>5, <1>6, <1>7, <1>8, <1>9

-----------------------------------------------------------------------------
\* What a hint rests on: the refused request still refers to its window, which is
\* the one that refused it or one that began after that ended.
HintsDue ==
    \A r \in Requests : hint[r] # None =>
        /\ pc[r] = "refused" /\ held[r] \in Requests
        /\ hint[r].window \in Nat /\ hint[r].window <= now
        /\ hint[r].retryAt = hint[r].window + Window
        /\ \/ windows[held[r]].start = hint[r].window
           \/ windows[held[r]].start >= hint[r].window + Window

\* A window starts when it did, or anew once it was over.
StartsMoveOn == \A t \in Tasks : tasks[t] # None =>
    LET s == windows[tasks[t]].start  s1 == windows'[tasks[t]].start IN
    s1 = s \/ s1 >= s + Window

LEMMA HintedWindow ==
    ASSUME LimiterInv, HintsDue, NEW r \in Requests, hint[r] # None
    PROVE  /\ task[r] \in Tasks /\ tasks[task[r]] = held[r] /\ held[r] # None
           /\ windows[held[r]].start \in Nat /\ windows[held[r]].start <= now
<1>1. /\ pc[r] = "refused" /\ held[r] \in Requests /\ held[r] # None
  BY DEF HintsDue
<1>2. task[r] \in Tasks /\ tasks[task[r]] = held[r]
  BY <1>1 DEF LimiterInv, RequestsPlaced, OneWindowPerTask
<1>3. windows[held[r]] \in WindowObject
  BY <1>1 DEF LimiterInv, TypeOK
<1>4. QED
  BY <1>1, <1>2, <1>3 DEF LimiterInv, WindowsOwned, WindowObject

\* A hint that was given stays due.
LEMMA HintStays ==
    ASSUME LimiterInv, LimiterInv', HintsDue, NEW r \in Requests, hint[r] # None,
           now <= now', StartsMoveOn,
           hint'[r] = hint[r], pc'[r] = pc[r], held'[r] = held[r]
    PROVE  /\ pc'[r] = "refused" /\ held'[r] \in Requests
           /\ hint'[r].window \in Nat /\ hint'[r].window <= now'
           /\ hint'[r].retryAt = hint'[r].window + Window
           /\ \/ windows'[held'[r]].start = hint'[r].window
              \/ windows'[held'[r]].start >= hint'[r].window + Window
<1>1. /\ task[r] \in Tasks /\ tasks[task[r]] = held[r] /\ held[r] # None
      /\ windows[held[r]].start \in Nat /\ windows[held[r]].start <= now
  BY HintedWindow
<1>2. /\ pc[r] = "refused" /\ held[r] \in Requests
      /\ hint[r].window \in Nat /\ hint[r].window <= now
      /\ hint[r].retryAt = hint[r].window + Window
      /\ \/ windows[held[r]].start = hint[r].window
         \/ windows[held[r]].start >= hint[r].window + Window
  BY DEF HintsDue
<1>3. now \in Nat /\ now' \in Nat
  BY DEF LimiterInv, TypeOK
<1>4. \/ windows'[held[r]].start = windows[held[r]].start
      \/ windows'[held[r]].start >= windows[held[r]].start + Window
  BY <1>1 DEF StartsMoveOn
<1>5. windows'[held[r]].start \in Nat
  <2>1. windows'[held[r]] \in WindowObject
    BY <1>2 DEF LimiterInv, TypeOK
  <2>2. QED
    BY <2>1 DEF WindowObject
<1>6. hint'[r].window <= now'
  BY <1>2, <1>3
<1>7. \/ windows'[held[r]].start = hint[r].window
      \/ windows'[held[r]].start >= hint[r].window + Window
  BY <1>1, <1>2, <1>4, <1>5
<1>8. QED
  BY <1>2, <1>6, <1>7

\* A step that gives no hint, and moves no request that has one.
LEMMA HintsKept ==
    ASSUME LimiterInv, LimiterInv', HintsDue, now <= now', StartsMoveOn, hint' = hint,
           \A q \in Requests : pc[q] = "refused" => pc'[q] = pc[q] /\ held'[q] = held[q]
    PROVE  HintsDue'
<1> SUFFICES ASSUME NEW q \in Requests, hint'[q] # None
             PROVE  /\ pc'[q] = "refused" /\ held'[q] \in Requests
                    /\ hint'[q].window \in Nat /\ hint'[q].window <= now'
                    /\ hint'[q].retryAt = hint'[q].window + Window
                    /\ \/ windows'[held'[q]].start = hint'[q].window
                       \/ windows'[held'[q]].start >= hint'[q].window + Window
  BY DEF HintsDue
<1>1. hint[q] # None /\ pc[q] = "refused" /\ hint'[q] = hint[q]
  BY DEF HintsDue
<1>2. QED
  BY <1>1, HintStays

LEMMA HintsNext == LimiterInv /\ HintsDue /\ [Next]_vars => HintsDue'
<1> SUFFICES ASSUME LimiterInv, HintsDue, [Next]_vars PROVE HintsDue'
  OBVIOUS
<1>1. LimiterInv'
  BY NextInv
<1>2. now \in Nat /\ pc \in [Requests -> {"idle", "create", "reserve", "running",
                                         "settled", "refused"}]
      /\ held \in [Requests -> Requests \cup {None}] /\ hint \in [Requests -> RetryHint \cup {None}]
      /\ windows \in [Requests -> WindowObject] /\ tasks \in [Tasks -> Requests \cup {None}]
  BY DEF LimiterInv, TypeOK
<1>3. UNCHANGED <<windows, tasks>> => StartsMoveOn
  BY DEF StartsMoveOn
<1>4. ASSUME NEW r \in Requests, NEW t \in Tasks, NEW est \in Estimates, Arrive(r, t, est)
      PROVE  HintsDue'
  <2>1. /\ pc[r] = "idle" /\ UNCHANGED <<now, tasks, windows, hint>>
        /\ \A q \in Requests \ {r} : pc'[q] = pc[q] /\ held'[q] = held[q]
    BY <1>2, <1>4 DEF Arrive
  <2>2. QED
    BY <1>1, <1>2, <1>3, <2>1, HintsKept
<1>5. ASSUME NEW r \in Requests, Create(r) PROVE HintsDue'
  <2>1. /\ pc[r] = "create" /\ UNCHANGED <<now, hint>>
        /\ \A q \in Requests \ {r} : /\ pc'[q] = pc[q] /\ held'[q] = held[q]
                                     /\ windows'[q] = windows[q]
    BY <1>2, <1>5 DEF Create
  <2>2. StartsMoveOn
    <3>1. \A t \in Tasks : tasks[t] # None => tasks[t] \in Requests \ {r}
      BY <1>2, <2>1 DEF LimiterInv, WindowsOwned
    <3>2. QED
      BY <2>1, <3>1 DEF StartsMoveOn
  <2>3. QED
    BY <1>1, <1>2, <2>1, <2>2, HintsKept
<1>6. ASSUME NEW r \in Requests, Reserve(r) PROVE HintsDue'
  <2> DEFINE w == Rolled(windows[held[r]])
             est == resv[r].est
  <2>1. /\ pc[r] = "reserve" /\ held[r] \in Requests
        /\ windows[held[r]].start \in Nat /\ windows[held[r]].start <= now
    <3>1. pc[r] = "reserve"
      BY <1>6 DEF Reserve
    <3>2. held[r] \in Requests /\ held[r] # None /\ task[r] \in Tasks
      BY <3>1 DEF LimiterInv, RequestsPlaced
    <3>3. tasks[task[r]] = held[r]
      BY <3>2 DEF LimiterInv, OneWindowPerTask
    <3>4. windows[held[r]].start \in Nat
      BY <1>2, <3>2 DEF WindowObject
    <3>5. QED
      BY <3>1, <3>2, <3>3, <3>4 DEF LimiterInv, WindowsOwned
  <2>2. /\ w \in WindowObject /\ w.start \in Nat /\ w.start <= now
        /\ \/ w.start = windows[held[r]].start
           \/ w.start >= windows[held[r]].start + Window
    <3>1. CASE now - windows[held[r]].start >= Window
      BY <1>2, <2>1, <3>1 DEF Rolled, WindowObject
    <3>2. CASE ~(now - windows[held[r]].start >= Window)
      BY <1>2, <2>1, <3>2 DEF Rolled, WindowObject
    <3>3. QED
      BY <3>1, <3>2
  <2>3. /\ now' = now /\ tasks' = tasks /\ held' = held
        /\ pc' = [pc EXCEPT ![r] = "refused"] \/ pc' = [pc EXCEPT ![r] = "running"]
    BY <1>6 DEF Reserve
  <2>4. /\ windows'[held[r]].start = w.start
        /\ \A v \in Requests \ {held[r]} : windows'[v] = windows[v]
    <3>1. CASE windows' = [windows EXCEPT ![held[r]] = w]
      BY <1>2, <2>1, <3>1
    <3>2. CASE windows' = [windows EXCEPT ![held[r]] =
                              [w EXCEPT !.requests = @ + 1, !.tokens = @ + est]]
      <4> DEFINE counted == [w EXCEPT !.requests = @ + 1, !.tokens = @ + est]
      <4>1. counted.start = w.start
        BY <2>2 DEF WindowObject
      <4> HIDE DEF counted, w
      <4>2. windows' = [windows EXCEPT ![held[r]] = counted]
        BY <3>2 DEF counted
      <4>3. QED
        BY <1>2, <2>1, <4>1, <4>2
    <3>3. QED
      BY <1>6, <3>1, <3>2 DEF Reserve
  <2>5. StartsMoveOn
    <3>1. \A v \in Requests : \/ windows'[v].start = windows[v].start
                              \/ windows'[v].start >= windows[v].start + Window
      BY <2>2, <2>4
    <3>2. QED
      BY <1>2, <3>1 DEF StartsMoveOn
  <2>6. CASE hint' = hint
    BY <1>1, <1>2, <2>1, <2>3, <2>5, <2>6, HintsKept
  <2>7. CASE /\ hint' = [hint EXCEPT ![r] = [window  |-> w.start,
                                             retryAt |-> now + (Window - (now - w.start))]]
             /\ pc' = [pc EXCEPT ![r] = "refused"]
    <3>1. /\ hint'[r].window = w.start /\ hint'[r].retryAt = w.start + Window
          /\ \A q \in Requests \ {r} : hint'[q] = hint[q] /\ pc'[q] = pc[q]
          /\ pc'[r] = "refused"
      <4>1. now + (Window - (now - w.start)) = w.start + Window
        BY <1>2, <2>2
      <4> HIDE DEF w
      <4>2. hint'[r] = [window |-> w.start, retryAt |-> w.start + Window]
        BY <1>2, <2>7, <4>1
      <4>3. QED
        BY <1>2, <2>7, <4>2
    <3> SUFFICES ASSUME NEW q \in Requests, hint'[q] # None
                 PROVE  /\ pc'[q] = "refused" /\ held'[q] \in Requests
                        /\ hint'[q].window \in Nat /\ hint'[q].window <= now'
                        /\ hint'[q].retryAt = hint'[q].window + Window
                        /\ \/ windows'[held'[q]].start = hint'[q].window
                           \/ windows'[held'[q]].start >= hint'[q].window + Window
      BY DEF HintsDue
    <3> HIDE DEF w
    <3>2. CASE q = r
      BY <2>1, <2>2, <2>3, <2>4, <3>1, <3>2
    <3>3. CASE q # r
      <4>1. hint[q] # None /\ hint'[q] = hint[q] /\ pc'[q] = pc[q] /\ held'[q] = held[q]
        BY <2>3, <3>1, <3>3
      <4>2. now <= now'
        BY <1>2, <2>3
      <4>3. QED
        BY <1>1, <2>5, <4>1, <4>2, HintStays
    <3>4. QED
      BY <3>2, <3>3
  <2>8. QED
    BY <1>6, <2>6, <2>7 DEF Reserve
<1>7. ASSUME NEW r \in Requests, NEW actual \in Usages, Reconcile(r, actual)
      PROVE  HintsDue'
  <2> DEFINE own == tasks[task[r]]
             tokens == IF windows[own].tokens + actual < resv[r].est
                       THEN 0
                       ELSE windows[own].tokens + actual - resv[r].est
  <2>1. /\ pc[r] = "running" /\ UNCHANGED <<now, hint, held, tasks>>
        /\ \A q \in Requests \ {r} : pc'[q] = pc[q]
        /\ windows' = windows \/ windows' = [windows EXCEPT ![own].tokens = tokens]
    BY <1>2, <1>7 DEF Reconcile
  <2>2. own \in Requests
    BY <2>1 DEF LimiterInv, RequestsPlaced, OneWindowPerTask
  <2>3. \A v \in Requests : windows'[v].start = windows[v].start
    <3> DEFINE settled == [windows[own] EXCEPT !.tokens = tokens]
    <3>1. settled.start = windows[own].start
      BY <1>2, <2>2 DEF WindowObject
    <3>2. windows' = windows \/ windows' = [windows EXCEPT ![own] = settled]
      BY <1>2, <2>1, <2>2
    <3> HIDE DEF settled, own
    <3>3. QED
      BY <1>2, <2>2, <3>1, <3>2
  <2> HIDE DEF own, tokens
  <2>4. StartsMoveOn
    BY <1>2, <2>3 DEF StartsMoveOn
  <2>5. now <= now' /\ hint' = hint
        /\ \A q \in Requests : pc[q] = "refused" => pc'[q] = pc[q] /\ held'[q] = held[q]
    BY <1>2, <2>1
  <2>6. QED
    BY <1>1, <2>4, <2>5, HintsKept
<1>8. CASE Tick
  <2>1. now <= now' /\ UNCHANGED <<tasks, windows, pc, held, hint>>
    BY <1>2, <1>8 DEF Tick
  <2>2. QED
    BY <1>1, <1>3, <2>1, HintsKept
<1>9. CASE UNCHANGED vars
  <2>1. now <= now' /\ UNCHANGED <<tasks, windows, pc, held, hint>>
    BY <1>2, <1>9 DEF vars
  <2>2. QED
    BY <1>1, <1>3, <2>1, HintsKept
<1>10. QED
  BY <1>4, <1>5, <1>6, <1>7, <1>8, <1>9 DEF Next

LEMMA DueSuffices == LimiterInv /\ HintsDue => RetryHintSuffices
<1> SUFFICES ASSUME LimiterInv, HintsDue, NEW r \in Requests, hint[r] # None
             PROVE  LET w == windows[held[r]]
                        replaced == w.start # hint[r].window \/ now - w.start >= Window
                    IN  replaced <=> now >= hint[r].retryAt
  BY DEF RetryHintSuffices
<1>1. /\ windows[held[r]].start \in Nat /\ windows[held[r]].start <= now /\ now \in Nat
  BY HintedWindow DEF LimiterInv, TypeOK
<1>2. /\ hint[r].window \in Nat /\ hint[r].retryAt = hint[r].window + Window
      /\ \/ windows[held[r]].start = hint[r].window
         \/ windows[held[r]].start >= hint[r].window + Window
  BY DEF HintsDue
<1>3. QED
  BY <1>1, <1>2

-----------------------------------------------------------------------------
\* What a request counts for in its window.
Charge == [r \in Requests |-> IF used[r] = None THEN resv[r].est ELSE used[r]]

\* Nothing is known of a request's usage before it is settled.
UsedOnceSettled == \A r \in Requests : pc[r] # "settled" => used[r] = None

TokensAreTotals ==
    \A t \in Tasks : tasks[t] # None =>
        windows[tasks[t]].tokens = Total(Charge, AcceptedIn(t, windows[tasks[t]].start))

TokensInv == UsedOnceSettled /\ TokensAreTotals

\* The fold of the community modules computes this total.
LEMMA TotalsAddUp == TokensAreTotals => TokensAddUp
<1> SUFFICES ASSUME TokensAreTotals, NEW t \in Tasks, tasks[t] # None,
                    NEW S, S = AcceptedIn(t, windows[tasks[t]].start)
             PROVE  windows[tasks[t]].tokens
                      = MapThenSumSet(LAMBDA r : IF used[r] = None THEN resv[r].est ELSE used[r], S)
  BY DEF TokensAddUp
<1> DEFINE P(f) == f = [s \in SUBSET S |-> IF s = {} THEN 0 ELSE
                           (IF used[First(s)] = None THEN resv[First(s)].est ELSE used[First(s)])
                               + f[s \ {First(s)}]]
           chosen == CHOOSE f : P(f)
<1>1. MapThenSumSet(LAMBDA r : IF used[r] = None THEN resv[r].est ELSE used[r], S) = chosen[S]
  BY DEF MapThenSumSet, MapThenFoldSet, First
<1>2. IsFiniteSet(S) /\ S \subseteq Requests
  <2>1. IsFiniteSet(S)
    BY AcceptedFinite
  <2>2. S \subseteq Requests
    BY DEF AcceptedIn, Accepted
  <2>3. QED
    BY <2>1, <2>2
<1>3. \A s \in SUBSET S : s # {} =>
          Charge[First(s)] = IF used[First(s)] = None THEN resv[First(s)].est ELSE used[First(s)]
  BY <1>2, FirstIn DEF Charge
<1>4. \A f : [s \in SUBSET S |-> IF s = {} THEN 0 ELSE Charge[First(s)] + f[s \ {First(s)}]]
           = [s \in SUBSET S |-> IF s = {} THEN 0 ELSE
                  (IF used[First(s)] = None THEN resv[First(s)].est ELSE used[First(s)])
                      + f[s \ {First(s)}]]
  BY <1>3
<1>5. \A f : P(f) <=> Sums(Charge, S, f)
  BY <1>4 DEF Sums, SumAt
<1>6. \E f : P(f)
  BY <1>2, <1>5, SumsExist
<1>7. P(chosen)
  <2> HIDE DEF P
  <2>1. QED
    BY <1>6
<1> HIDE DEF P, chosen
<1>8. Total(Charge, S) = chosen[S]
  BY <1>2, <1>5, <1>7, TotalIs
<1>9. QED
  BY <1>1, <1>8 DEF TokensAreTotals

LEMMA ChargesAreTokens ==
    ASSUME LimiterInv, NEW r \in Accepted
    PROVE  Charge[r] \in Nat
<1>1. r \in Requests /\ resv[r] \in Reservation /\ used[r] \in Nat \cup {None}
  BY DEF LimiterInv, TypeOK, RequestsPlaced, Accepted
<1>2. Charge[r] = IF used[r] = None THEN resv[r].est ELSE used[r]
  BY <1>1 DEF Charge
<1>3. resv[r].est \in Nat
  BY <1>1 DEF Reservation
<1>4. QED
  BY <1>1, <1>2, <1>3

\* A step that neither accepts nor settles, and leaves the windows as they are
\* or adds an empty one for a task that had none.
LEMMA TotalsUnchanged ==
    ASSUME LimiterInv, TokensInv, Accepted' = Accepted,
           \A r \in Accepted : /\ task'[r] = task[r] /\ resv'[r] = resv[r]
                               /\ used'[r] = used[r],
           \A t \in Tasks : tasks[t] # None =>
               tasks'[t] = tasks[t] /\ windows'[tasks[t]] = windows[tasks[t]],
           \A t \in Tasks : tasks[t] = None /\ tasks'[t] # None =>
               windows'[tasks'[t]].tokens = 0
    PROVE  TokensAreTotals'
<1>1. \A t, s : AcceptedIn(t, s)' = AcceptedIn(t, s)
  BY DEF AcceptedIn
<1>2. \A r \in Accepted : Charge'[r] = Charge[r]
  BY DEF Charge, Accepted
<1>3. \A t, s : Total(Charge', AcceptedIn(t, s)) = Total(Charge, AcceptedIn(t, s))
  <2> SUFFICES ASSUME NEW t, NEW s, NEW S, S = AcceptedIn(t, s)
               PROVE  Total(Charge', S) = Total(Charge, S)
    OBVIOUS
  <2>1. IsFiniteSet(S)
    BY AcceptedFinite
  <2>2. S \subseteq Accepted
    BY DEF AcceptedIn
  <2>3. QED
    BY <1>2, <2>1, <2>2, TotalAgrees
<1> SUFFICES ASSUME NEW t \in Tasks, tasks'[t] # None, NEW s, s = windows'[tasks'[t]].start
             PROVE  windows'[tasks'[t]].tokens = Total(Charge', AcceptedIn(t, s))
  BY <1>1 DEF TokensAreTotals
<1>4. CASE tasks[t] # None
  <2>1. tasks'[t] = tasks[t] /\ windows'[tasks[t]] = windows[tasks[t]]
    BY <1>4
  <2>2. windows[tasks[t]].tokens = Total(Charge, AcceptedIn(t, s))
    BY <1>4, <2>1 DEF TokensInv, TokensAreTotals
  <2>3. QED
    BY <1>3, <2>1, <2>2
<1>5. CASE tasks[t] = None
  <2>1. \A r \in Accepted : task[r] \in Tasks /\ tasks[task[r]] # None
    BY DEF LimiterInv, RequestsPlaced, OneWindowPerTask, Accepted
  <2>2. AcceptedIn(t, s) = {}
    BY <1>5, <2>1 DEF AcceptedIn
  <2>3. windows'[tasks'[t]].tokens = 0
    BY <1>5
  <2>4. QED
    BY <2>2, <2>3, TotalEmpty
<1>6. QED
  BY <1>4, <1>5

\* The window a reservation is decided on holds the tokens of those accepted in it.
LEMMA RolledTokens ==
    ASSUME LimiterInv, TokensInv, NEW r \in Requests, pc[r] = "reserve",
           NEW w, w = Rolled(windows[held[r]])
    PROVE  w.tokens = Total(Charge, AcceptedIn(task[r], w.start))
<1>1. /\ task[r] \in Tasks /\ held[r] = tasks[task[r]] /\ held[r] # None
  BY DEF LimiterInv, RequestsPlaced, OneWindowPerTask
<1> DEFINE old == windows[held[r]]
<1>2. old.tokens = Total(Charge, AcceptedIn(task[r], old.start))
  BY <1>1 DEF TokensInv, TokensAreTotals
<1>3. CASE ~(now - old.start >= Window)
  BY <1>2, <1>3 DEF Rolled
<1>4. CASE now - old.start >= Window
  <2>1. w = [start |-> now, requests |-> 0, tokens |-> 0]
    BY <1>4 DEF Rolled
  <2>2. w.start = now /\ w.requests = 0 /\ w.tokens = 0
    BY <2>1
  <2>3. w.requests = Cardinality(AcceptedIn(task[r], w.start))
    BY RolledWindow
  <2>4. AcceptedIn(task[r], now) = {}
    BY <2>2, <2>3, AcceptedFinite, FS_EmptySet
  <2>5. QED
    BY <2>2, <2>4, TotalEmpty
<1>5. QED
  BY <1>3, <1>4

LEMMA ReserveTokens ==
    ASSUME LimiterInv, TokensInv, NEW r \in Requests, Reserve(r)
    PROVE  TokensAreTotals'
<1> SUFFICES ASSUME NEW t, t = task[r], NEW w, w = Rolled(windows[held[r]])
             PROVE  TokensAreTotals'
  OBVIOUS
<1>1. pc[r] = "reserve" /\ r \notin Accepted /\ used[r] = None
  BY DEF Reserve, Accepted, TokensInv, UsedOnceSettled
<1>2. w.tokens = Total(Charge, AcceptedIn(t, w.start))
  BY <1>1, RolledTokens
<1>3. /\ UNCHANGED <<tasks, task, used>>
      /\ t \in Tasks /\ tasks[t] = held[r] /\ held[r] \in Requests
      /\ windows'[held[r]].start = w.start
      /\ \A v \in Requests : v # held[r] => windows'[v] = windows[v]
      /\ \A q \in Requests : q # r => resv'[q] = resv[q]
      /\ \/ /\ Accepted' = Accepted
            /\ windows'[held[r]].tokens = w.tokens
         \/ /\ Accepted' = Accepted \cup {r}
            /\ resv'[r].start = w.start
            /\ resv'[r].est = resv[r].est /\ resv[r].est \in Nat
            /\ windows'[held[r]].tokens = w.tokens + resv[r].est
  BY ReserveStep
<1>4. \A q \in Accepted : q # r /\ resv'[q] = resv[q] /\ Charge'[q] = Charge[q]
  BY <1>1, <1>3 DEF Charge, Accepted
<1>5. \A u, s : Total(Charge', AcceptedIn(u, s)) = Total(Charge, AcceptedIn(u, s))
  <2> SUFFICES ASSUME NEW u, NEW s, NEW S, S = AcceptedIn(u, s)
               PROVE  Total(Charge', S) = Total(Charge, S)
    OBVIOUS
  <2>1. IsFiniteSet(S)
    BY AcceptedFinite
  <2>2. S \subseteq Accepted
    BY DEF AcceptedIn
  <2>3. QED
    BY <1>4, <2>1, <2>2, TotalAgrees
<1>6. windows'[held[r]].tokens = Total(Charge', AcceptedIn(t, w.start)')
  <2>1. CASE Accepted' = Accepted /\ windows'[held[r]].tokens = w.tokens
    <3>1. AcceptedIn(t, w.start)' = AcceptedIn(t, w.start)
      BY <1>3, <1>4, <2>1 DEF AcceptedIn
    <3>2. QED
      BY <1>2, <1>5, <2>1, <3>1
  <2>2. CASE /\ Accepted' = Accepted \cup {r}
             /\ resv'[r].start = w.start
             /\ resv'[r].est = resv[r].est /\ resv[r].est \in Nat
             /\ windows'[held[r]].tokens = w.tokens + resv[r].est
    <3> DEFINE S == AcceptedIn(t, w.start)
    <3>1. AcceptedIn(t, w.start)' = S \cup {r}
      BY <1>3, <1>4, <2>2 DEF AcceptedIn
    <3>2. r \notin S /\ S \subseteq Accepted
      BY <1>1 DEF AcceptedIn
    <3>3. IsFiniteSet(S)
      BY AcceptedFinite
    <3> HIDE DEF S
    <3>4. IsFiniteSet(S \cup {r}) /\ (S \cup {r}) \ {r} = S
      BY <3>2, <3>3, FS_AddElement
    <3>5. Charge'[r] = resv[r].est
      BY <1>1, <1>3, <2>2 DEF Charge
    <3>6. \A q \in S \cup {r} : Charge'[q] \in Nat
      BY <1>4, <2>2, <3>2, <3>5, ChargesAreTokens
    <3>7. Total(Charge', S \cup {r}) = Charge'[r] + Total(Charge', S)
      BY <3>4, <3>6, TotalWithout
    <3>8. Total(Charge', S) = w.tokens /\ Total(Charge', S) \in Nat
      BY <1>2, <1>5, <3>3, <3>6, TotalNat DEF S
    <3>9. QED
      BY <2>2, <3>1, <3>5, <3>7, <3>8
  <2>3. QED
    BY <1>3, <2>1, <2>2
<1>7. \A u \in Tasks : u # t /\ tasks[u] # None =>
         tasks[u] \in Requests /\ tasks[u] # held[r]
  BY <1>3 DEF LimiterInv, WindowsOwned, TypeOK
<1>8. \A u \in Tasks : \A s : u # t => AcceptedIn(u, s)' = AcceptedIn(u, s)
  BY <1>1, <1>3, <1>4 DEF AcceptedIn
<1> SUFFICES ASSUME NEW u \in Tasks, tasks[u] # None, NEW s, s = windows'[tasks[u]].start
             PROVE  windows'[tasks[u]].tokens = Total(Charge', AcceptedIn(u, s)')
  BY <1>3 DEF TokensAreTotals, AcceptedIn
<1>9. CASE u = t
  BY <1>3, <1>6, <1>9
<1>10. CASE u # t
  <2>1. windows'[tasks[u]] = windows[tasks[u]]
    BY <1>3, <1>7, <1>10
  <2>2. windows[tasks[u]].tokens = Total(Charge, AcceptedIn(u, s))
    BY <2>1 DEF TokensInv, TokensAreTotals
  <2>3. QED
    BY <1>5, <1>8, <1>10, <2>1, <2>2
<1>11. QED
  BY <1>9, <1>10

\* A settlement: in the window that accepted the request it replaces the estimate,
\* which is part of the count, so that the clamp at zero does not bite; in a later
\* one the request does not count.
LEMMA ReconcileTokens ==
    ASSUME LimiterInv, TokensInv, NEW r \in Requests, NEW actual \in Usages,
           Reconcile(r, actual)
    PROVE  TokensAreTotals'
<1> SUFFICES ASSUME NEW t, t = task[r], NEW w, w = windows[tasks[t]], NEW own, own = tasks[t]
             PROVE  TokensAreTotals'
  OBVIOUS
<1> DEFINE S == AcceptedIn(t, w.start)
<1>1. /\ pc[r] = "running" /\ t \in Tasks /\ own \in Requests /\ own # None
      /\ resv[r].est \in Nat /\ actual \in Nat
      /\ w \in WindowObject /\ w.tokens \in Nat
  BY DEF Reconcile, LimiterInv, RequestsPlaced, OneWindowPerTask, Reservation, TypeOK, WindowObject
<1>2. /\ pc' = [pc EXCEPT ![r] = "settled"] /\ used' = [used EXCEPT ![r] = actual]
      /\ UNCHANGED <<tasks, task, resv>>
  BY DEF Reconcile
<1>3. r \in Accepted /\ Accepted' = Accepted /\ used[r] = None
  BY <1>1, <1>2 DEF Accepted, LimiterInv, TypeOK, TokensInv, UsedOnceSettled
<1>4. \A u, s : AcceptedIn(u, s)' = AcceptedIn(u, s)
  BY <1>2, <1>3 DEF AcceptedIn
<1>5. /\ \A q \in Accepted : q # r => Charge'[q] = Charge[q]
      /\ Charge[r] = resv[r].est /\ Charge'[r] = actual
  <2>1. actual # None
    BY <1>1
  <2>2. QED
    BY <1>2, <1>3, <2>1 DEF Charge, Accepted, LimiterInv, TypeOK
<1>6. \A u, s : r \notin AcceptedIn(u, s) =>
          Total(Charge', AcceptedIn(u, s)) = Total(Charge, AcceptedIn(u, s))
  <2> SUFFICES ASSUME NEW u, NEW s, NEW T, T = AcceptedIn(u, s), r \notin T
               PROVE  Total(Charge', T) = Total(Charge, T)
    OBVIOUS
  <2>1. IsFiniteSet(T)
    BY AcceptedFinite
  <2>2. T \subseteq Accepted
    BY DEF AcceptedIn
  <2>3. QED
    BY <1>5, <2>1, <2>2, TotalAgrees
<1>7. w.tokens = Total(Charge, S)
  BY <1>1 DEF TokensInv, TokensAreTotals
<1>8. /\ \A v \in Requests : v # own => windows'[v] = windows[v]
      /\ windows'[own].start = w.start
      /\ windows'[own].tokens = Total(Charge', S)
  <2>1. CASE w.start = resv[r].start
    <3> DEFINE tokens == IF w.tokens + actual < resv[r].est
                         THEN 0 ELSE w.tokens + actual - resv[r].est
               settled == [w EXCEPT !.tokens = tokens]
    <3>1. windows' = [windows EXCEPT ![own].tokens = tokens]
      BY <2>1 DEF Reconcile
    <3>2. settled.start = w.start /\ settled.tokens = tokens
      BY <1>1 DEF WindowObject
    <3>3. tokens = Total(Charge', S)
      <4>1. r \in S /\ S \subseteq Accepted
        BY <1>3, <2>1 DEF AcceptedIn
      <4>2. IsFiniteSet(S) /\ IsFiniteSet(S \ {r})
        BY AcceptedFinite, FS_Subset
      <4> HIDE DEF S
      <4>3. \A q \in S : Charge[q] \in Nat /\ Charge'[q] \in Nat
        BY <1>1, <1>5, <4>1, ChargesAreTokens
      <4>4. /\ Total(Charge, S) = resv[r].est + Total(Charge, S \ {r})
            /\ Total(Charge', S) = actual + Total(Charge', S \ {r})
        BY <1>5, <4>1, <4>2, <4>3, TotalWithout
      <4>5. Total(Charge', S \ {r}) = Total(Charge, S \ {r})
        BY <1>5, <4>1, <4>2, TotalAgrees
      <4>6. Total(Charge, S \ {r}) \in Nat
        BY <4>2, <4>3, TotalNat
      <4>7. QED
        BY <1>1, <1>7, <4>4, <4>5, <4>6
    <3> HIDE DEF tokens, S
    <3>4. windows' = [windows EXCEPT ![own] = settled]
      BY <1>1, <3>1
    <3> HIDE DEF settled
    <3>5. QED
      BY <1>1, <3>2, <3>3, <3>4 DEF LimiterInv, TypeOK
  <2>2. CASE w.start # resv[r].start
    <3>1. windows' = windows
      BY <2>2 DEF Reconcile
    <3>2. r \notin S
      BY <2>2 DEF AcceptedIn
    <3>3. QED
      BY <1>6, <1>7, <3>1, <3>2
  <2>3. QED
    BY <2>1, <2>2
<1> SUFFICES ASSUME NEW u \in Tasks, tasks[u] # None, NEW s, s = windows'[tasks[u]].start
             PROVE  windows'[tasks[u]].tokens = Total(Charge', AcceptedIn(u, s))
  BY <1>2, <1>4 DEF TokensAreTotals
<1>9. CASE u = t
  BY <1>8, <1>9
<1>10. CASE u # t
  <2>1. tasks[u] \in Requests /\ tasks[u] # own
    BY <1>1, <1>10 DEF LimiterInv, WindowsOwned, TypeOK
  <2>2. windows'[tasks[u]] = windows[tasks[u]]
    BY <1>8, <2>1
  <2>3. windows[tasks[u]].tokens = Total(Charge, AcceptedIn(u, s))
    BY <2>2 DEF TokensInv, TokensAreTotals
  <2>4. r \notin AcceptedIn(u, s)
    BY <1>10 DEF AcceptedIn
  <2>5. QED
    BY <1>6, <2>2, <2>3, <2>4
<1>11. QED
  BY <1>9, <1>10

LEMMA TokensNext == LimiterInv /\ TokensInv /\ [Next]_vars => TokensInv'
<1> SUFFICES ASSUME LimiterInv, TokensInv, [Next]_vars PROVE TokensInv'
  OBVIOUS
<1>1. /\ pc \in [Requests -> {"idle", "create", "reserve", "running", "settled", "refused"}]
      /\ used \in [Requests -> Nat \cup {None}]
      /\ resv \in [Requests -> Reservation \cup {None}]
      /\ task \in [Requests -> Tasks \cup {None}]
      /\ windows \in [Requests -> WindowObject] /\ tasks \in [Tasks -> Requests \cup {None}]
  BY DEF LimiterInv, TypeOK
<1>2. ASSUME NEW r \in Requests, NEW t \in Tasks, NEW est \in Estimates, Arrive(r, t, est)
      PROVE  TokensInv'
  <2>1. /\ r \notin Accepted /\ UNCHANGED <<tasks, windows, used>>
        /\ \A q \in Requests : q # r => /\ pc'[q] = pc[q] /\ task'[q] = task[q]
                                        /\ resv'[q] = resv[q]
        /\ pc[r] = "idle" /\ pc'[r] \in {"refused", "create", "reserve"}
    BY <1>1, <1>2 DEF Arrive, Accepted
  <2>2. Accepted' = Accepted /\ UsedOnceSettled'
    BY <2>1 DEF Accepted, TokensInv, UsedOnceSettled
  <2>3. \A q \in Accepted : q \in Requests /\ q # r
    BY <2>1 DEF Accepted
  <2>4. TokensAreTotals'
    BY <2>1, <2>2, <2>3, TotalsUnchanged
  <2>5. QED
    BY <2>2, <2>4 DEF TokensInv
<1>3. ASSUME NEW r \in Requests, Create(r) PROVE TokensInv'
  <2>1. /\ pc[r] = "create" /\ pc' = [pc EXCEPT ![r] = "reserve"]
        /\ UNCHANGED <<task, resv, used>> /\ task[r] \in Tasks
    BY <1>3 DEF Create, LimiterInv, RequestsPlaced
  <2>2. Accepted' = Accepted /\ UsedOnceSettled'
    BY <1>1, <2>1 DEF Accepted, TokensInv, UsedOnceSettled
  <2>3. \A u \in Tasks : tasks[u] # r
    BY <2>1 DEF LimiterInv, WindowsOwned
  <2>4. /\ \A u \in Tasks : tasks[u] # None =>
               tasks'[u] = tasks[u] /\ windows'[tasks[u]] = windows[tasks[u]]
        /\ \A u \in Tasks : tasks[u] = None /\ tasks'[u] # None =>
               windows'[tasks'[u]].tokens = 0
    <3>1. CASE tasks[task[r]] = None
      <4> DEFINE new == [start |-> now, requests |-> 0, tokens |-> 0]
      <4>1. /\ windows' = [windows EXCEPT ![r] = new]
            /\ tasks' = [tasks EXCEPT ![task[r]] = r]
        BY <1>3, <3>1 DEF Create
      <4>2. new.tokens = 0
        OBVIOUS
      <4> HIDE DEF new
      <4>3. QED
        BY <1>1, <2>1, <2>3, <3>1, <4>1, <4>2
    <3>2. CASE tasks[task[r]] # None
      BY <1>3, <3>2 DEF Create
    <3>3. QED
      BY <3>1, <3>2
  <2>5. TokensAreTotals'
    BY <2>1, <2>2, <2>4, TotalsUnchanged
  <2>6. QED
    BY <2>2, <2>5 DEF TokensInv
<1>4. ASSUME NEW r \in Requests, Reserve(r) PROVE TokensInv'
  <2>1. /\ pc[r] = "reserve" /\ used' = used
        /\ pc' = [pc EXCEPT ![r] = "refused"] \/ pc' = [pc EXCEPT ![r] = "running"]
    BY <1>4 DEF Reserve
  <2>2. UsedOnceSettled'
    BY <1>1, <2>1 DEF TokensInv, UsedOnceSettled
  <2>3. QED
    BY <1>4, <2>2, ReserveTokens DEF TokensInv
<1>5. ASSUME NEW r \in Requests, NEW actual \in Usages, Reconcile(r, actual)
      PROVE  TokensInv'
  <2>1. pc' = [pc EXCEPT ![r] = "settled"] /\ used' = [used EXCEPT ![r] = actual]
    BY <1>5 DEF Reconcile
  <2>2. UsedOnceSettled'
    BY <1>1, <2>1 DEF TokensInv, UsedOnceSettled
  <2>3. QED
    BY <1>5, <2>2, ReconcileTokens DEF TokensInv
<1>6. CASE UNCHANGED <<tasks, windows, pc, task, resv, used>>
  <2>1. Accepted' = Accepted /\ UsedOnceSettled'
    BY <1>6 DEF Accepted, TokensInv, UsedOnceSettled
  <2>2. TokensAreTotals'
    BY <1>6, <2>1, TotalsUnchanged
  <2>3. QED
    BY <2>1, <2>2 DEF TokensInv
<1>7. Tick \/ UNCHANGED vars => UNCHANGED <<tasks, windows, pc, task, resv, used>>
  BY DEF Tick, vars
<1>8. QED
  BY <1>2, <1>3, <1>4, <1>5, <1>6, <1>7 DEF Next

-----------------------------------------------------------------------------
\* The invariant, with the types, the ownership of windows and the cap per
\* window in it, holds throughout.
THEOREM LimiterCorrect == Spec => []LimiterInv
BY InitInv, NextInv, PTL DEF Spec

\* Requests racing to create a task's window end up with one.
THEOREM TaskHasOneWindow == Spec => []OneWindowPerTask
<1>1. LimiterInv => OneWindowPerTask
  BY DEF LimiterInv
<1>2. QED
  BY <1>1, InitInv, NextInv, PTL DEF Spec

\* A window counts exactly the requests it accepted, within the cap.
THEOREM CountIsExact == Spec => []RequestsCounted
<1>1. LimiterInv => RequestsCounted
  BY DEF LimiterInv
<1>2. QED
  BY <1>1, InitInv, NextInv, PTL DEF Spec

\* What MaxRequests bounds: at most twice as many in any interval as long as
\* the window.
THEOREM BurstIsBounded == Spec => []BurstBounded
BY TwoWindows, InitInv, NextInv, PTL DEF Spec

\* The Retry-After of a refusal says exactly when its window is over, whatever other
\* requests make of that window meanwhile (Reserve's refusals).
THEOREM HintsSuffice == Spec => []RetryHintSuffices
<1>1. Init => HintsDue
  BY DEF Init, HintsDue
<1>2. QED
  BY <1>1, InitInv, NextInv, HintsNext, DueSuffices, PTL DEF Spec

\* The tokens a window counts are what the requests accepted in it consumed, or
\* are estimated to while they run: settlements are neither lost, doubled nor
\* booked into a later window (Reconcile), and the clamp at zero never bites.
THEOREM TokensAlwaysAddUp == Spec => []TokensAddUp
<1>1. Init => TokensInv
  BY DEF Init, TokensInv, UsedOnceSettled, TokensAreTotals
<1>2. TokensInv => TokensAddUp
  BY TotalsAddUp DEF TokensInv
<1>3. QED
  BY <1>1, <1>2, InitInv, NextInv, TokensNext, PTL DEF Spec
=============================================================================
