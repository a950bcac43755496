--------------------------- MODULE CircuitProofs ----------------------------
(***************************************************************************)
(* Proofs about HealthTracker and FallbackWalk, for every setting of the   *)
(* breaker, any number of pairs, calls and resets, and any chains and      *)
(* requests.  First what the operations of Breaker do to one entry and the *)
(* invariants of the concurrent tracker; then what the trace of a walk     *)
(* says of it, what the degraded flag says of its trace, and what the      *)
(* circuits say of all the traces.                                         *)
(***************************************************************************)
EXTENDS HealthTracker, FallbackWalk, FiniteSetTheorems, TLAPS

\* The cooldown of any trip is positive and capped (tracker.go's backoff).
LEMMA BackoffBounded ==
    ASSUME NEW n
    PROVE  Backoff(n) \in 1..MaxCooldown
BY BreakerAssumption DEF Backoff

\* Each operation on an entry yields an entry and keeps it consistent.
LEMMA FreshEntryOK == FreshEntry \in Entry /\ Consistent(FreshEntry)
BY BreakerAssumption DEF FreshEntry, Entry, CircuitState, Consistent, TripsOf

LEMMA AfterAllowOK ==
    ASSUME NEW e \in Entry
    PROVE  /\ AfterAllow(e) \in Entry
           /\ Consistent(e) => Consistent(AfterAllow(e))
<1>1. AfterAllow(e) \in Entry
  BY DEF AfterAllow, Entry, CircuitState
<1>2. ASSUME Consistent(e) PROVE Consistent(AfterAllow(e))
  BY <1>2, BreakerAssumption DEF AfterAllow, Entry, CircuitState, Consistent
<1>3. QED
  BY <1>1, <1>2

\* The five assignments of a recovery, one field at a time.
LEMMA ClosedOK ==
    ASSUME NEW e \in Entry
    PROVE  Closed(e) \in Entry /\ Consistent(Closed(e))
<1> DEFINE e1 == [e  EXCEPT !.consecutive = 0]
           e2 == [e1 EXCEPT !.state = "healthy"]
           e3 == [e2 EXCEPT !.openFor = 0]
           e4 == [e3 EXCEPT !.cooldown = 0]
           e5 == [e4 EXCEPT !.trips = 0]
<1>1. Closed(e) = e5
  BY DEF Closed
<1>2. e1 \in Entry
  BY DEF Entry
<1>3. e2 \in Entry
  <2> HIDE DEF e1
  <2> QED BY <1>2 DEF Entry, CircuitState
<1>4. e3 \in Entry
  <2> HIDE DEF e2
  <2> QED BY <1>3 DEF Entry
<1>5. e4 \in Entry
  <2> HIDE DEF e3
  <2> QED BY <1>4 DEF Entry
<1>6. e5 \in Entry
  <2> HIDE DEF e4
  <2> QED BY <1>5 DEF Entry
<1>7. /\ Closed(e).state = "healthy" /\ Closed(e).consecutive = 0
      /\ Closed(e).trips = 0 /\ Closed(e).cooldown = 0 /\ Closed(e).openFor = 0
  BY DEF Closed, Entry
<1>8. Consistent(Closed(e))
  BY <1>7, BreakerAssumption DEF Consistent, TripsOf
<1>9. QED
  BY <1>1, <1>6, <1>8

LEMMA AfterResetOK ==
    ASSUME NEW e \in Entry
    PROVE  AfterReset(e) \in Entry /\ Consistent(AfterReset(e))
BY ClosedOK DEF AfterReset

LEMMA AfterSuccessOK ==
    ASSUME NEW e \in Entry
    PROVE  AfterSuccess(e) \in Entry /\ Consistent(AfterSuccess(e))
<1> DEFINE c == Closed(e)
<1>1. c \in Entry /\ Consistent(c)
  BY ClosedOK
<1> HIDE DEF c
<1>2. AfterSuccess(e) = [c EXCEPT !.seen = TRUE, !.successes = @ + 1]
  BY DEF AfterSuccess, c
<1>3. [c EXCEPT !.seen = TRUE, !.successes = @ + 1] \in Entry
  <2> DEFINE d == [c EXCEPT !.seen = TRUE]
  <2>1. d \in Entry
    BY <1>1 DEF Entry
  <2>2. [c EXCEPT !.seen = TRUE, !.successes = @ + 1] = [d EXCEPT !.successes = @ + 1]
    BY <1>1 DEF Entry
  <2> HIDE DEF d
  <2>3. [d EXCEPT !.successes = @ + 1] \in Entry
    BY <2>1 DEF Entry
  <2>4. QED
    BY <2>2, <2>3
<1>4. Consistent([c EXCEPT !.seen = TRUE, !.successes = @ + 1])
  BY <1>1 DEF Consistent, Entry
<1>5. QED
  BY <1>2, <1>3, <1>4

LEMMA AfterTickOK ==
    ASSUME NEW e \in Entry
    PROVE  /\ AfterTick(e) \in Entry
           /\ Consistent(e) => Consistent(AfterTick(e))
BY BreakerAssumption DEF AfterTick, Entry, CircuitState, Consistent, TripsOf

LEMMA AfterFailureOK ==
    ASSUME NEW e \in Entry
    PROVE  /\ AfterFailure(e) \in Entry
           /\ Consistent(e) => Consistent(AfterFailure(e))
<1> DEFINE f == [e EXCEPT !.seen = TRUE, !.failures = @ + 1, !.consecutive = @ + 1]
           trips == f.state = "probing" \/ f.consecutive >= Threshold
<1>1. f \in Entry /\ f.state = e.state /\ f.consecutive = e.consecutive + 1
      /\ f.trips = e.trips /\ f.openFor = e.openFor /\ f.cooldown = e.cooldown
  <2> DEFINE f1 == [e EXCEPT !.seen = TRUE]
             f2 == [f1 EXCEPT !.failures = @ + 1]
  <2>1. f1 \in Entry /\ f1.failures = e.failures /\ f1.consecutive = e.consecutive
    BY DEF Entry
  <2>2. f = [f2 EXCEPT !.consecutive = @ + 1]
    BY DEF Entry
  <2> HIDE DEF f1
  <2>3. f2 \in Entry
    BY <2>1 DEF Entry
  <2> HIDE DEF f2
  <2>4. [f2 EXCEPT !.consecutive = @ + 1] \in Entry
    BY <2>3 DEF Entry
  <2>5. /\ f.state = e.state /\ f.consecutive = e.consecutive + 1
        /\ f.trips = e.trips /\ f.openFor = e.openFor /\ f.cooldown = e.cooldown
    BY DEF Entry
  <2>6. QED
    BY <2>2, <2>4, <2>5
<1> HIDE DEF f
<1>2. AfterFailure(e) = IF trips THEN Trip(f) ELSE f
  BY DEF AfterFailure, f
<1>3. Backoff(f.trips + 1) \in 1..MaxCooldown /\ MaxCooldown \in Nat
  BY BackoffBounded, BreakerAssumption
<1>4. CASE trips
  <2>1. AfterFailure(e) = Trip(f)
    BY <1>2, <1>4
  <2>2. Trip(f) \in Entry
    <3> DEFINE w  == Backoff(f.trips + 1)
               g1 == [f  EXCEPT !.trips = @ + 1]
               g2 == [g1 EXCEPT !.cooldown = w]
               g3 == [g2 EXCEPT !.openFor = w]
    <3>1. w \in Nat
      BY <1>3
    <3> HIDE DEF w
    <3>2. Trip(f) = [g3 EXCEPT !.state = "unhealthy"]
      BY DEF Trip, w
    <3>3. g1 \in Entry
      BY <1>1 DEF Entry
    <3> HIDE DEF g1
    <3>4. g2 \in Entry
      BY <3>1, <3>3 DEF Entry
    <3> HIDE DEF g2
    <3>5. g3 \in Entry
      BY <3>1, <3>4 DEF Entry
    <3> HIDE DEF g3
    <3>6. QED
      BY <3>2, <3>5 DEF Entry, CircuitState
  <2>3. /\ Trip(f).state = "unhealthy" /\ Trip(f).trips = e.trips + 1
        /\ Trip(f).consecutive = e.consecutive + 1
        /\ Trip(f).cooldown = Backoff(e.trips + 1)
        /\ Trip(f).openFor = Backoff(e.trips + 1)
    BY <1>1 DEF Trip, Entry
  <2>4. ASSUME Consistent(e) PROVE e.consecutive + 1 >= Threshold
    BY <1>1, <1>4, <2>4, BreakerAssumption DEF Consistent, Entry, CircuitState
  <2>5. ASSUME Consistent(e) PROVE e.trips + 1 = TripsOf(e.consecutive + 1)
    BY <2>4, <2>5, BreakerAssumption DEF Consistent, Entry, TripsOf
  <2>6. ASSUME Consistent(e) PROVE Consistent(Trip(f))
    BY <1>1, <1>3, <2>3, <2>4, <2>5, <2>6, BreakerAssumption DEF Consistent, Entry
  <2>7. QED
    BY <2>1, <2>2, <2>6
<1>5. CASE ~trips
  <2>1. AfterFailure(e) = f
    BY <1>2, <1>5
  <2>2. ASSUME Consistent(e) PROVE Consistent(f)
    BY <1>1, <1>5, <2>2, BreakerAssumption
       DEF Consistent, Entry, CircuitState, TripsOf
  <2>3. QED
    BY <1>1, <2>1, <2>2
<1>6. QED
  BY <1>4, <1>5

-----------------------------------------------------------------------------
\* The inductive invariant: types and consistency of every circuit.
CircuitInv == TrackerTypeOK /\ CircuitConsistent

\* Appending an event to either event sequence keeps its type.
LEMMA IssueType ==
    ASSUME TrackerTypeOK, NEW c \in Callers, NEW kind \in {"failure", "tripped", "recovered", "manual_reset"},
           entries' \in [Pairs -> Entry], Issue(c, kind)
    PROVE  /\ pending' \in [Callers -> Event \cup {NoEvent}]
           /\ issued' \in Seq(Event)
<1> DEFINE ev == [pair |-> target[c], kind |-> kind, state |-> entries'[target[c]].state]
<1>1. ev \in Event
  BY DEF TrackerTypeOK, Event, Entry
<1> HIDE DEF ev
<1>2. pending' = [pending EXCEPT ![c] = ev] /\ issued' = Append(issued, ev)
  BY DEF Issue, ev
<1>3. QED
  BY <1>1, <1>2 DEF TrackerTypeOK

LEMMA InitInv == TrackerInit => CircuitInv
<1> SUFFICES ASSUME TrackerInit PROVE CircuitInv
  OBVIOUS
<1>1. TrackerTypeOK
  BY FreshEntryOK DEF TrackerInit, TrackerTypeOK, Phase, CircuitState
<1>2. CircuitConsistent
  BY FreshEntryOK DEF TrackerInit, CircuitConsistent
<1>3. QED
  BY <1>1, <1>2 DEF CircuitInv

LEMMA NextInv == CircuitInv /\ [TrackerNext]_trackerVars => CircuitInv'
<1> SUFFICES ASSUME CircuitInv, [TrackerNext]_trackerVars PROVE CircuitInv'
  OBVIOUS
<1> USE DEF CircuitInv
<1>0. TrackerTypeOK /\ CircuitConsistent
  OBVIOUS
<1>1. ASSUME NEW c \in Calls, Allow(c) PROVE CircuitInv'
  <2> DEFINE p == target[c]
             e == entries[p]
  <2>1. c \in Callers /\ p \in Pairs /\ e \in Entry /\ Consistent(e)
    BY <1>0 DEF TrackerTypeOK, Callers, CircuitConsistent
  <2>2. AfterAllow(e) \in Entry /\ Consistent(AfterAllow(e))
    BY <2>1, AfterAllowOK
  <2>3. entries' = [entries EXCEPT ![p] = AfterAllow(e)]
    BY <1>1 DEF Allow
  <2>4. AfterAllow(e).state \in CircuitState
    BY <2>2 DEF Entry
  <2>5. TrackerTypeOK'
    BY <1>0, <1>1, <2>1, <2>2, <2>3, <2>4 DEF Allow, TrackerTypeOK, Phase
  <2>6. CircuitConsistent'
    BY <1>0, <2>1, <2>2, <2>3 DEF TrackerTypeOK, CircuitConsistent
  <2>7. QED
    BY <2>5, <2>6
<1>2. ASSUME NEW c \in Calls, RecordSuccess(c) PROVE CircuitInv'
  <2> DEFINE p == target[c]
             e == entries[p]
  <2>1. c \in Callers /\ p \in Pairs /\ e \in Entry
    BY <1>0 DEF TrackerTypeOK, Callers
  <2>2. AfterSuccess(e) \in Entry /\ Consistent(AfterSuccess(e))
    BY <2>1, AfterSuccessOK
  <2>3. entries' = [entries EXCEPT ![p] = AfterSuccess(e)]
    BY <1>2 DEF RecordSuccess
  <2>4. entries' \in [Pairs -> Entry]
    BY <1>0, <2>2, <2>3 DEF TrackerTypeOK
  <2>5. /\ pending' \in [Callers -> Event \cup {NoEvent}]
        /\ issued' \in Seq(Event)
    BY <1>0, <1>2, <2>1, <2>4, IssueType DEF RecordSuccess, IssueNothing, TrackerTypeOK
  <2>6. outcomes' \in [Pairs -> Seq({"success", "failure", "reset"})]
    BY <1>0, <1>2, <2>1 DEF RecordSuccess, TrackerTypeOK
  <2>7. TrackerTypeOK'
    BY <1>0, <1>2, <2>1, <2>4, <2>5, <2>6 DEF RecordSuccess, TrackerTypeOK, Phase
  <2>8. CircuitConsistent'
    BY <1>0, <2>1, <2>2, <2>3 DEF TrackerTypeOK, CircuitConsistent
  <2>9. QED
    BY <2>7, <2>8
<1>3. ASSUME NEW c \in Calls, RecordFailure(c) PROVE CircuitInv'
  <2> DEFINE p == target[c]
             e == entries[p]
             kind == IF AfterFailure(e).trips > e.trips THEN "tripped" ELSE "failure"
  <2>1. c \in Callers /\ p \in Pairs /\ e \in Entry /\ Consistent(e)
    BY <1>0 DEF TrackerTypeOK, Callers, CircuitConsistent
  <2>2. AfterFailure(e) \in Entry /\ Consistent(AfterFailure(e))
    BY <2>1, AfterFailureOK
  <2>3. entries' = [entries EXCEPT ![p] = AfterFailure(e)] /\ Issue(c, kind)
    BY <1>3 DEF RecordFailure
  <2>4. entries' \in [Pairs -> Entry]
    BY <1>0, <2>2, <2>3 DEF TrackerTypeOK
  <2>5. kind \in {"failure", "tripped", "recovered", "manual_reset"}
    OBVIOUS
  <2> HIDE DEF kind
  <2>6. /\ pending' \in [Callers -> Event \cup {NoEvent}]
        /\ issued' \in Seq(Event)
    BY <1>0, <2>1, <2>3, <2>4, <2>5, IssueType
  <2>7. outcomes' \in [Pairs -> Seq({"success", "failure", "reset"})]
    BY <1>0, <1>3, <2>1 DEF RecordFailure, TrackerTypeOK
  <2>8. TrackerTypeOK'
    BY <1>0, <1>3, <2>1, <2>4, <2>6, <2>7 DEF RecordFailure, TrackerTypeOK, Phase
  <2>9. CircuitConsistent'
    BY <1>0, <2>1, <2>2, <2>3 DEF TrackerTypeOK, CircuitConsistent
  <2>10. QED
    BY <2>8, <2>9
<1>4. ASSUME NEW c \in Calls, RecordNothing(c) PROVE CircuitInv'
  BY <1>0, <1>4 DEF RecordNothing, TrackerTypeOK, CircuitConsistent, Callers, Phase
<1>5. ASSUME NEW a \in Resets, Reset(a) PROVE CircuitInv'
  <2> DEFINE p == target[a]
             e == entries[p]
  <2>1. a \in Callers /\ p \in Pairs /\ e \in Entry
    BY <1>0 DEF TrackerTypeOK, Callers
  <2>2. AfterReset(e) \in Entry /\ Consistent(AfterReset(e))
    BY <2>1, AfterResetOK
  <2>3. entries' = [entries EXCEPT ![p] = AfterReset(e)]
    BY <1>5 DEF Reset
  <2>4. entries' \in [Pairs -> Entry]
    BY <1>0, <2>2, <2>3 DEF TrackerTypeOK
  <2>5. /\ pending' \in [Callers -> Event \cup {NoEvent}]
        /\ issued' \in Seq(Event)
    BY <1>0, <1>5, <2>1, <2>4, IssueType DEF Reset
  <2>6. outcomes' \in [Pairs -> Seq({"success", "failure", "reset"})]
    BY <1>0, <1>5, <2>1 DEF Reset, TrackerTypeOK
  <2>7. TrackerTypeOK'
    BY <1>0, <1>5, <2>1, <2>4, <2>5, <2>6 DEF Reset, TrackerTypeOK, Phase
  <2>8. CircuitConsistent'
    BY <1>0, <2>1, <2>2, <2>3 DEF TrackerTypeOK, CircuitConsistent
  <2>9. QED
    BY <2>7, <2>8
<1>6. ASSUME NEW c \in Callers, Emit(c) PROVE CircuitInv'
  <2>1. pending[c] \in Event
    BY <1>0, <1>6 DEF Emit, TrackerTypeOK
  <2>2. sunk' \in Seq(Event) /\ pending' \in [Callers -> Event \cup {NoEvent}]
    BY <1>0, <1>6, <2>1 DEF Emit, TrackerTypeOK
  <2>3. QED
    BY <1>0, <1>6, <2>2 DEF Emit, TrackerTypeOK, CircuitConsistent
<1>7. ASSUME Elapse PROVE CircuitInv'
  <2>1. \A p \in Pairs : AfterTick(entries[p]) \in Entry /\ Consistent(AfterTick(entries[p]))
    BY <1>0, AfterTickOK DEF TrackerTypeOK, CircuitConsistent
  <2>2. QED
    BY <1>0, <1>7, <2>1 DEF Elapse, TrackerTypeOK, CircuitConsistent
<1>8. CASE UNCHANGED trackerVars
  BY <1>0, <1>8 DEF trackerVars, TrackerTypeOK, CircuitConsistent
<1>9. QED
  BY <1>1, <1>2, <1>3, <1>4, <1>5, <1>6, <1>7, <1>8 DEF TrackerNext

\* Types are respected in every reachable state.
THEOREM TrackerTyped == TrackerSpec => []TrackerTypeOK
<1>1. CircuitInv => TrackerTypeOK
  BY DEF CircuitInv
<1>2. QED
  BY InitInv, NextInv, <1>1, PTL DEF TrackerSpec

\* No interleaving of calls, probes, resets and ticks leaves a circuit whose
\* state, failure run, trip count and cooldown contradict one another.
THEOREM CircuitsStayConsistent == TrackerSpec => []CircuitConsistent
<1>1. CircuitInv => CircuitConsistent
  BY DEF CircuitInv
<1>2. QED
  BY InitInv, NextInv, <1>1, PTL DEF TrackerSpec

-----------------------------------------------------------------------------
\* What each operation does to the run of failures of an entry.
LEMMA ConsecutiveAfter ==
    ASSUME NEW e \in Entry
    PROVE  /\ AfterAllow(e).consecutive = e.consecutive
           /\ AfterTick(e).consecutive = e.consecutive
           /\ AfterSuccess(e).consecutive = 0
           /\ AfterReset(e).consecutive = 0
           /\ AfterFailure(e).consecutive = e.consecutive + 1
<1>1. AfterAllow(e).consecutive = e.consecutive
  BY DEF AfterAllow, Entry
<1>2. AfterTick(e).consecutive = e.consecutive
  BY DEF AfterTick, Entry
<1>3. Closed(e).consecutive = 0 /\ Closed(e) \in Entry
  BY ClosedOK DEF Closed, Entry
<1>4. AfterSuccess(e).consecutive = 0
  BY <1>3 DEF AfterSuccess, Entry
<1>5. AfterFailure(e).consecutive = e.consecutive + 1
  BY DEF AfterFailure, Trip, Entry
<1>6. QED
  BY <1>1, <1>2, <1>3, <1>4, <1>5 DEF AfterReset

\* How one more outcome moves the run of failures at the end of a history.
LEMMA EndsInFailuresAppend ==
    ASSUME NEW S, NEW h \in Seq(S), NEW n \in Nat, EndsInFailures(h, n), NEW x \in S
    PROVE  /\ x = "failure" => EndsInFailures(Append(h, x), n + 1)
           /\ x # "failure" => EndsInFailures(Append(h, x), 0)
<1> DEFINE g == Append(h, x)
<1>1. /\ Len(h) \in Nat /\ Len(g) = Len(h) + 1 /\ g[Len(h) + 1] = x
      /\ \A i \in 1..Len(h) : g[i] = h[i]
  OBVIOUS
<1> HIDE DEF g
<1>2. ASSUME x = "failure" PROVE EndsInFailures(g, n + 1)
  <2>1. n + 1 <= Len(g)
    BY <1>1 DEF EndsInFailures
  <2>2. ASSUME NEW i \in 1..Len(g), i > Len(g) - (n + 1) PROVE g[i] = "failure"
    BY <1>1, <1>2, <2>2 DEF EndsInFailures
  <2>3. ASSUME n + 1 < Len(g) PROVE g[Len(g) - (n + 1)] # "failure"
    BY <1>1, <2>3 DEF EndsInFailures
  <2>4. QED
    BY <2>1, <2>2, <2>3 DEF EndsInFailures
<1>3. ASSUME x # "failure" PROVE EndsInFailures(g, 0)
  BY <1>1, <1>3 DEF EndsInFailures
<1>4. QED
  BY <1>2, <1>3 DEF g

LEMMA HistoryInit == TrackerInit => OpenIffRecentFailures
BY BreakerAssumption
   DEF TrackerInit, OpenIffRecentFailures, EndsInFailures, FreshEntry

\* The run of failures of every history is what its circuit counted.
RunCounted == \A p \in Pairs : EndsInFailures(outcomes[p], entries[p].consecutive)

LEMMA HistoryNext == CircuitInv /\ RunCounted /\ [TrackerNext]_trackerVars => RunCounted'
<1> SUFFICES ASSUME CircuitInv, RunCounted, [TrackerNext]_trackerVars PROVE RunCounted'
  OBVIOUS
<1>0. TrackerTypeOK
  BY DEF CircuitInv
<1>a. \A p \in Pairs : entries[p] \in Entry /\ entries[p].consecutive \in Nat
  BY <1>0 DEF TrackerTypeOK, Entry
\* A step that appends one outcome to the history of one pair.
<1>b. ASSUME NEW p \in Pairs, NEW x \in {"success", "failure", "reset"}, NEW f,
             entries' = [entries EXCEPT ![p] = f],
             outcomes' = [outcomes EXCEPT ![p] = Append(@, x)],
             f.consecutive = (IF x = "failure" THEN entries[p].consecutive + 1 ELSE 0)
      PROVE  RunCounted'
  <2> SUFFICES ASSUME NEW q \in Pairs
               PROVE  EndsInFailures(outcomes'[q], entries'[q].consecutive)
    BY DEF RunCounted
  <2>1. CASE q = p
    <3>1. outcomes'[q] = Append(outcomes[q], x) /\ entries'[q] = f
      BY <1>0, <1>b, <2>1 DEF TrackerTypeOK
    <3>2. outcomes[q] \in Seq({"success", "failure", "reset"})
      BY <1>0 DEF TrackerTypeOK
    <3>3. QED
      BY <1>a, <1>b, <2>1, <3>1, <3>2, EndsInFailuresAppend DEF RunCounted
  <2>2. CASE q # p
    BY <1>0, <1>b, <2>2 DEF TrackerTypeOK, RunCounted
  <2>3. QED
    BY <2>1, <2>2
<1>1. ASSUME NEW c \in Calls, Allow(c) PROVE RunCounted'
  <2>1. \A p \in Pairs : entries'[p].consecutive = entries[p].consecutive
    BY <1>0, <1>1, <1>a, ConsecutiveAfter DEF Allow, TrackerTypeOK
  <2>2. QED
    BY <1>1, <2>1 DEF Allow, RunCounted
<1>2. ASSUME NEW c \in Calls, RecordSuccess(c) PROVE RunCounted'
  <2>1. c \in Callers /\ target[c] \in Pairs
    BY <1>0 DEF TrackerTypeOK, Callers
  <2>2. AfterSuccess(entries[target[c]]).consecutive = 0
    BY <1>a, <2>1, ConsecutiveAfter
  <2>3. QED
    BY <1>2, <1>b, <2>1, <2>2 DEF RecordSuccess
<1>3. ASSUME NEW c \in Calls, RecordFailure(c) PROVE RunCounted'
  <2>1. c \in Callers /\ target[c] \in Pairs
    BY <1>0 DEF TrackerTypeOK, Callers
  <2>2. AfterFailure(entries[target[c]]).consecutive = entries[target[c]].consecutive + 1
    BY <1>a, <2>1, ConsecutiveAfter
  <2>3. QED
    BY <1>3, <1>b, <2>1, <2>2 DEF RecordFailure
<1>4. ASSUME NEW c \in Calls, RecordNothing(c) PROVE RunCounted'
  BY <1>4 DEF RecordNothing, RunCounted
<1>5. ASSUME NEW a \in Resets, Reset(a) PROVE RunCounted'
  <2>1. a \in Callers /\ target[a] \in Pairs
    BY <1>0 DEF TrackerTypeOK, Callers
  <2>2. AfterReset(entries[target[a]]).consecutive = 0
    BY <1>a, <2>1, ConsecutiveAfter
  <2>3. QED
    BY <1>5, <1>b, <2>1, <2>2 DEF Reset
<1>6. ASSUME NEW c \in Callers, Emit(c) PROVE RunCounted'
  BY <1>6 DEF Emit, RunCounted
<1>7. ASSUME Elapse PROVE RunCounted'
  <2>1. \A p \in Pairs : entries'[p].consecutive = entries[p].consecutive
    BY <1>7, <1>a, ConsecutiveAfter DEF Elapse
  <2>2. QED
    BY <1>7, <2>1 DEF Elapse, RunCounted
<1>8. CASE UNCHANGED trackerVars
  BY <1>8 DEF trackerVars, RunCounted
<1>9. QED
  BY <1>1, <1>2, <1>3, <1>4, <1>5, <1>6, <1>7, <1>8 DEF TrackerNext

\* The circuit of a pair is open exactly when the last Threshold outcomes
\* recorded for it are failures, whatever ran concurrently.
THEOREM CircuitFollowsOutcomes == TrackerSpec => []OpenIffRecentFailures
<1>1. TrackerInit => RunCounted
  BY HistoryInit DEF OpenIffRecentFailures, RunCounted
<1>2. CircuitInv /\ RunCounted => OpenIffRecentFailures
  BY BreakerAssumption DEF CircuitInv, TrackerTypeOK, CircuitConsistent, Consistent,
                           RunCounted, OpenIffRecentFailures, Entry
<1>3. QED
  BY InitInv, NextInv, HistoryNext, <1>1, <1>2, PTL DEF TrackerSpec
-----------------------------------------------------------------------------
(* Events: the bags are compared event by event.                           *)

Places(s, x) == {i \in DOMAIN s : s[i] = x}
Holders(x)   == {c \in Callers : pending[c] = x}

Balanced == \A x \in Event :
    Cardinality(Places(issued, x)) = Cardinality(Places(sunk, x)) + Cardinality(Holders(x))

\* A caller holds an event only once it has recorded.
HeldAfterRecord == \A c \in Callers : pending[c] # NoEvent => phase[c] = "recorded"

LEMMA PlacesFinite ==
    ASSUME NEW s \in Seq(Event), NEW x
    PROVE  /\ IsFiniteSet(Places(s, x)) /\ Cardinality(Places(s, x)) \in Nat
           /\ Cardinality(Places(s, x)) = 0 <=> Places(s, x) = {}
<1>1. Len(s) \in Nat /\ DOMAIN s = 1..Len(s)
  OBVIOUS
<1>2. IsFiniteSet(1..Len(s))
  BY <1>1, FS_Interval
<1>3. IsFiniteSet(Places(s, x))
  BY <1>1, <1>2, FS_Subset DEF Places
<1>4. QED
  BY <1>3, FS_CardinalityType, FS_EmptySet

LEMMA HoldersFinite ==
    ASSUME NEW x
    PROVE  /\ IsFiniteSet(Holders(x)) /\ Cardinality(Holders(x)) \in Nat
           /\ Cardinality(Holders(x)) = 0 <=> Holders(x) = {}
<1>1. IsFiniteSet(Callers)
  BY TrackerAssumption, FS_Union DEF Callers
<1>2. IsFiniteSet(Holders(x))
  BY <1>1, FS_Subset DEF Holders
<1>3. QED
  BY <1>2, FS_CardinalityType, FS_EmptySet

LEMMA PlacesAppend ==
    ASSUME NEW s \in Seq(Event), NEW ev \in Event, NEW x
    PROVE  Cardinality(Places(Append(s, ev), x)) =
               Cardinality(Places(s, x)) + (IF x = ev THEN 1 ELSE 0)
<1>1. /\ Len(s) \in Nat /\ DOMAIN s = 1..Len(s) /\ DOMAIN Append(s, ev) = 1..(Len(s) + 1)
      /\ Append(s, ev)[Len(s) + 1] = ev
      /\ \A i \in 1..Len(s) : Append(s, ev)[i] = s[i]
  OBVIOUS
<1>2. \A i : /\ i \in 1..(Len(s) + 1) <=> i \in 1..Len(s) \/ i = Len(s) + 1
             /\ i \in 1..Len(s) => i # Len(s) + 1
  BY <1>1
<1>3. /\ x = ev => Places(Append(s, ev), x) = Places(s, x) \cup {Len(s) + 1}
      /\ x # ev => Places(Append(s, ev), x) = Places(s, x)
      /\ Len(s) + 1 \notin Places(s, x)
  BY <1>1, <1>2 DEF Places
<1>4. QED
  BY <1>3, PlacesFinite, FS_AddElement

LEMMA BalancedConserves == TrackerTypeOK /\ Balanced => EventsConserved
<1> SUFFICES ASSUME TrackerTypeOK, Balanced PROVE EventsConserved
  OBVIOUS
<1>1. issued \in Seq(Event) /\ sunk \in Seq(Event) /\ pending \in [Callers -> Event \cup {NoEvent}]
  BY DEF TrackerTypeOK
<1>2. ASSUME NEW s \in Seq(Event)
      PROVE  /\ DOMAIN SeqBag(s) = {s[i] : i \in DOMAIN s} /\ DOMAIN SeqBag(s) \subseteq Event
             /\ \A x : x \in DOMAIN SeqBag(s) <=> Cardinality(Places(s, x)) # 0
             /\ \A x \in DOMAIN SeqBag(s) : SeqBag(s)[x] = Cardinality(Places(s, x))
  <2>1. DOMAIN SeqBag(s) = {s[i] : i \in DOMAIN s}
    BY DEF SeqBag
  <2>2. \A x : x \in {s[i] : i \in DOMAIN s} <=> Places(s, x) # {}
    BY DEF Places
  <2>3. \A x \in DOMAIN SeqBag(s) : SeqBag(s)[x] = Cardinality(Places(s, x))
    BY DEF SeqBag, Places
  <2>4. {s[i] : i \in DOMAIN s} \subseteq Event
    OBVIOUS
  <2>5. QED
    BY <2>1, <2>2, <2>3, <2>4, PlacesFinite
<1>3. /\ DOMAIN PendingBag \subseteq Event
      /\ \A x \in Event : x \in DOMAIN PendingBag <=> Cardinality(Holders(x)) # 0
      /\ \A x \in DOMAIN PendingBag : PendingBag[x] = Cardinality(Holders(x))
  <2> DEFINE waiting == {c \in Callers : pending[c] # NoEvent}
  <2>1. PendingBag = [x \in {pending[c] : c \in waiting} |->
                          Cardinality({c \in waiting : pending[c] = x})]
    BY DEF PendingBag
  <2>2. {pending[c] : c \in waiting} \subseteq Event
    BY <1>1
  <2>3. \A x \in Event : {c \in waiting : pending[c] = x} = Holders(x)
    BY NoEventAssumption DEF Holders
  <2>4. \A x \in Event : x \in {pending[c] : c \in waiting} <=> Holders(x) # {}
    BY NoEventAssumption DEF Holders
  <2> HIDE DEF waiting
  <2>5. QED
    BY <2>1, <2>2, <2>3, <2>4, HoldersFinite
<1>4. \A x \in Event : /\ Cardinality(Places(issued, x)) \in Nat /\ Cardinality(Places(sunk, x)) \in Nat
                       /\ Cardinality(Holders(x)) \in Nat
  BY <1>1, PlacesFinite, HoldersFinite
<1> DEFINE B == SeqBag(sunk)
           P == PendingBag
           I == SeqBag(issued)
           whole == [x \in DOMAIN B \cup DOMAIN P |->
                        (IF x \in DOMAIN B THEN B[x] ELSE 0) + (IF x \in DOMAIN P THEN P[x] ELSE 0)]
<1>5. B (+) P = whole
  BY DEF (+)
<1>6. /\ DOMAIN I \subseteq Event /\ DOMAIN B \subseteq Event
      /\ \A x : /\ x \in DOMAIN I <=> Cardinality(Places(issued, x)) # 0
                /\ x \in DOMAIN B <=> Cardinality(Places(sunk, x)) # 0
      /\ \A x \in DOMAIN I : I[x] = Cardinality(Places(issued, x))
      /\ \A x \in DOMAIN B : B[x] = Cardinality(Places(sunk, x))
  BY <1>1, <1>2
<1> HIDE DEF B, P, I
<1>7. DOMAIN I = DOMAIN B \cup DOMAIN P
  <2>1. ASSUME NEW x \in Event PROVE x \in DOMAIN I <=> x \in DOMAIN B \cup DOMAIN P
    BY <1>3, <1>4, <1>6 DEF Balanced, P
  <2>2. QED
    BY <1>3, <1>6, <2>1 DEF P
<1>8. \A x \in DOMAIN I : I[x] = whole[x]
  <2> SUFFICES ASSUME NEW x \in DOMAIN I PROVE I[x] = whole[x]
    OBVIOUS
  <2>1. x \in Event /\ x \in DOMAIN B \cup DOMAIN P
    BY <1>6, <1>7
  <2>2. (IF x \in DOMAIN B THEN B[x] ELSE 0) = Cardinality(Places(sunk, x))
    BY <1>6
  <2>3. (IF x \in DOMAIN P THEN P[x] ELSE 0) = Cardinality(Holders(x))
    BY <1>3, <2>1 DEF P
  <2>4. QED
    BY <1>6, <2>1, <2>2, <2>3 DEF Balanced
<1>9. I = whole
  <2>1. I = [x \in DOMAIN I |-> I[x]]
    BY DEF I, SeqBag
  <2>2. QED
    BY <1>7, <1>8, <2>1
<1>10. QED
  BY <1>5, <1>9 DEF EventsConserved, B, P, I

\* Who hands over an event, or takes one, changes the bags by that event.
LEMMA IssueBalanced ==
    ASSUME TrackerTypeOK, Balanced, NEW c \in Callers, pending[c] = NoEvent, NEW ev \in Event,
           pending' = [pending EXCEPT ![c] = ev], issued' = Append(issued, ev), sunk' = sunk
    PROVE  Balanced'
<1> SUFFICES ASSUME NEW x \in Event
             PROVE  Cardinality(Places(issued', x)) =
                        Cardinality(Places(sunk', x)) + Cardinality(Holders(x)')
  BY DEF Balanced, Places, Holders
<1>1. issued \in Seq(Event) /\ sunk \in Seq(Event) /\ pending \in [Callers -> Event \cup {NoEvent}]
  BY DEF TrackerTypeOK
<1>2. /\ x = ev => Holders(x)' = Holders(x) \cup {c}
      /\ x # ev => Holders(x)' = Holders(x)
      /\ c \notin Holders(x)
  BY <1>1, NoEventAssumption DEF Holders
<1>3. Cardinality(Holders(x)') = Cardinality(Holders(x)) + (IF x = ev THEN 1 ELSE 0)
  <2>1. IsFiniteSet(Holders(x)) /\ Cardinality(Holders(x)) \in Nat
    BY HoldersFinite
  <2>2. CASE x = ev
    BY <1>2, <2>1, <2>2, FS_AddElement
  <2>3. CASE x # ev
    BY <1>2, <2>1, <2>3
  <2>4. QED
    BY <2>2, <2>3
<1>4. Cardinality(Places(issued', x)) = Cardinality(Places(issued, x)) + (IF x = ev THEN 1 ELSE 0)
  BY <1>1, PlacesAppend
<1>5. /\ Cardinality(Places(issued, x)) \in Nat /\ Cardinality(Places(sunk, x)) \in Nat
      /\ Cardinality(Holders(x)) \in Nat
  BY <1>1, PlacesFinite, HoldersFinite
<1>6. QED
  BY <1>3, <1>4, <1>5 DEF Balanced

LEMMA EmitBalanced ==
    ASSUME TrackerTypeOK, Balanced, NEW c \in Callers, Emit(c)
    PROVE  Balanced'
<1> DEFINE ev == pending[c]
<1>1. issued \in Seq(Event) /\ sunk \in Seq(Event) /\ pending \in [Callers -> Event \cup {NoEvent}]
  BY DEF TrackerTypeOK
<1>2. /\ ev \in Event /\ sunk' = Append(sunk, ev) /\ issued' = issued
      /\ pending' = [pending EXCEPT ![c] = NoEvent]
  BY <1>1 DEF Emit
<1> SUFFICES ASSUME NEW x \in Event
             PROVE  Cardinality(Places(issued', x)) =
                        Cardinality(Places(sunk', x)) + Cardinality(Holders(x)')
  BY DEF Balanced, Places, Holders
<1>3. /\ x = ev => Holders(x) = Holders(x)' \cup {c}
      /\ x # ev => Holders(x)' = Holders(x)
      /\ c \notin Holders(x)' /\ Holders(x)' \subseteq Holders(x)
  BY <1>1, <1>2, NoEventAssumption DEF Holders
<1>4. IsFiniteSet(Holders(x)') /\ Cardinality(Holders(x)') \in Nat
  BY <1>3, HoldersFinite, FS_Subset, FS_CardinalityType
<1> HIDE DEF ev
<1>5. Cardinality(Holders(x)) = Cardinality(Holders(x)') + (IF x = ev THEN 1 ELSE 0)
  <2>1. CASE x = ev
    BY <1>3, <1>4, <2>1, FS_AddElement
  <2>2. CASE x # ev
    BY <1>3, <1>4, <2>2
  <2>3. QED
    BY <2>1, <2>2
<1>6. Cardinality(Places(sunk', x)) = Cardinality(Places(sunk, x)) + (IF x = ev THEN 1 ELSE 0)
  BY <1>1, <1>2, PlacesAppend
<1>7. /\ Cardinality(Places(issued, x)) \in Nat /\ Cardinality(Places(sunk, x)) \in Nat
  BY <1>1, PlacesFinite
<1>8. QED
  BY <1>2, <1>4, <1>5, <1>6, <1>7 DEF Balanced

EventInv == CircuitInv /\ HeldAfterRecord /\ Balanced

LEMMA EventInit == TrackerInit => EventInv
<1> SUFFICES ASSUME TrackerInit PROVE EventInv
  OBVIOUS
<1>1. issued = <<>> /\ sunk = <<>> /\ \A c \in Callers : pending[c] = NoEvent
  BY DEF TrackerInit
<1>2. DOMAIN <<>> = {}
  OBVIOUS
<1>3. \A x \in Event : Places(issued, x) = {} /\ Places(sunk, x) = {} /\ Holders(x) = {}
  BY <1>1, <1>2, NoEventAssumption DEF Places, Holders
<1>4. Balanced
  BY <1>3, FS_EmptySet DEF Balanced
<1>5. QED
  BY <1>1, <1>4, InitInv DEF EventInv, HeldAfterRecord

LEMMA EventNext == EventInv /\ [TrackerNext]_trackerVars => EventInv'
<1> SUFFICES ASSUME EventInv, [TrackerNext]_trackerVars PROVE EventInv'
  OBVIOUS
<1>1. CircuitInv /\ CircuitInv' /\ TrackerTypeOK /\ TrackerTypeOK'
  BY NextInv DEF EventInv, CircuitInv
<1>2. HeldAfterRecord /\ Balanced
  BY DEF EventInv
<1>3. ASSUME UNCHANGED <<issued, sunk, pending>>
      PROVE  Balanced'
  BY <1>2, <1>3 DEF Balanced, Holders, Places
<1>4. ASSUME NEW c \in Callers, phase[c] # "recorded", phase' = [phase EXCEPT ![c] = "recorded"],
             sunk' = sunk, NEW kind, Issue(c, kind),
             kind \in {"failure", "tripped", "recovered", "manual_reset"}
      PROVE  HeldAfterRecord' /\ Balanced'
  <2> DEFINE ev == [pair |-> target[c], kind |-> kind, state |-> entries'[target[c]].state]
  <2>1. ev \in Event
    BY <1>1, <1>4 DEF TrackerTypeOK, Event, Entry
  <2> HIDE DEF ev
  <2>2. pending' = [pending EXCEPT ![c] = ev] /\ issued' = Append(issued, ev)
    BY <1>4 DEF Issue, ev
  <2>3. pending[c] = NoEvent
    BY <1>2, <1>4 DEF HeldAfterRecord
  <2>4. HeldAfterRecord'
    BY <1>1, <1>2, <1>4, <2>2 DEF HeldAfterRecord, TrackerTypeOK
  <2>5. QED
    BY <1>1, <1>2, <1>4, <2>1, <2>2, <2>3, <2>4, IssueBalanced
<1>5. ASSUME NEW c \in Calls, Allow(c) PROVE HeldAfterRecord' /\ Balanced'
  <2>1. HeldAfterRecord'
    BY <1>1, <1>2, <1>5 DEF Allow, HeldAfterRecord, TrackerTypeOK, Callers
  <2>2. QED
    BY <1>3, <1>5, <2>1 DEF Allow
<1>6. ASSUME NEW c \in Calls, RecordSuccess(c) PROVE HeldAfterRecord' /\ Balanced'
  <2>1. /\ c \in Callers /\ phase[c] # "recorded" /\ phase' = [phase EXCEPT ![c] = "recorded"]
        /\ sunk' = sunk
        /\ Issue(c, "recovered") \/ UNCHANGED <<pending, issued>>
    BY <1>6 DEF RecordSuccess, IssueNothing, Callers
  <2>2. CASE Issue(c, "recovered")
    BY <1>4, <2>1, <2>2
  <2>3. CASE UNCHANGED <<pending, issued>>
    BY <1>1, <1>2, <1>3, <2>1, <2>3 DEF HeldAfterRecord, TrackerTypeOK
  <2>4. QED
    BY <2>1, <2>2, <2>3
<1>7. ASSUME NEW c \in Calls, RecordFailure(c) PROVE HeldAfterRecord' /\ Balanced'
  <2>1. /\ c \in Callers /\ phase[c] # "recorded" /\ phase' = [phase EXCEPT ![c] = "recorded"]
        /\ sunk' = sunk
        /\ \E kind \in {"tripped", "failure"} : Issue(c, kind)
    BY <1>7 DEF RecordFailure, Callers
  <2>2. QED
    BY <1>4, <2>1
<1>8. ASSUME NEW c \in Calls, RecordNothing(c) PROVE HeldAfterRecord' /\ Balanced'
  <2>1. HeldAfterRecord'
    BY <1>1, <1>2, <1>8 DEF RecordNothing, HeldAfterRecord, TrackerTypeOK, Callers
  <2>2. QED
    BY <1>3, <1>8, <2>1 DEF RecordNothing
<1>9. ASSUME NEW a \in Resets, Reset(a) PROVE HeldAfterRecord' /\ Balanced'
  <2>1. /\ a \in Callers /\ phase[a] # "recorded" /\ phase' = [phase EXCEPT ![a] = "recorded"]
        /\ sunk' = sunk /\ Issue(a, "manual_reset")
    BY <1>9 DEF Reset, Callers
  <2>2. QED
    BY <1>4, <2>1
<1>10. ASSUME NEW c \in Callers, Emit(c) PROVE HeldAfterRecord' /\ Balanced'
  <2>1. HeldAfterRecord'
    BY <1>1, <1>2, <1>10 DEF Emit, HeldAfterRecord, TrackerTypeOK
  <2>2. QED
    BY <1>1, <1>2, <1>10, <2>1, EmitBalanced
<1>11. ASSUME Elapse PROVE HeldAfterRecord' /\ Balanced'
  BY <1>2, <1>3, <1>11 DEF Elapse, HeldAfterRecord
<1>12. ASSUME UNCHANGED trackerVars PROVE HeldAfterRecord' /\ Balanced'
  BY <1>2, <1>3, <1>12 DEF trackerVars, HeldAfterRecord
<1>13. QED
  BY <1>1, <1>5, <1>6, <1>7, <1>8, <1>9, <1>10, <1>11, <1>12 DEF TrackerNext, EventInv

\* Between the transition and the sink no event is lost or duplicated, whoever moves
\* the circuit in between (Tracker.emit after the unlock).
THEOREM EventsAreConserved == TrackerSpec => []EventsConserved
<1>1. EventInv => EventsConserved
  BY BalancedConserves DEF EventInv, CircuitInv
<1>2. QED
  BY <1>1, EventInit, EventNext, PTL DEF TrackerSpec

-----------------------------------------------------------------------------
(* Circuits: types, and the two counters that only outcomes move. *)

LEMMA BackoffIsNat == \A n \in Nat : Backoff(n) \in Nat
BY BreakerAssumption DEF Backoff

LEMMA AllowKeepsCounts ==
    ASSUME NEW e \in Entry
    PROVE  /\ AfterAllow(e) \in Entry
           /\ AfterAllow(e).failures = e.failures /\ AfterAllow(e).successes = e.successes
BY DEF AfterAllow, Entry, CircuitState

LEMMA TickKeepsCounts ==
    ASSUME NEW e \in Entry
    PROVE  /\ AfterTick(e) \in Entry
           /\ AfterTick(e).failures = e.failures /\ AfterTick(e).successes = e.successes
BY DEF AfterTick, Entry

LEMMA ClosedKeepsCounts ==
    ASSUME NEW e \in Entry
    PROVE  /\ Closed(e) \in Entry
           /\ Closed(e).failures = e.failures /\ Closed(e).successes = e.successes
<1> DEFINE e1 == [e  EXCEPT !.consecutive = 0, !.state = "healthy"]
           e2 == [e1 EXCEPT !.openFor = 0, !.cooldown = 0]
           e3 == [e2 EXCEPT !.trips = 0]
<1>1. Closed(e) = e3
  BY DEF Closed
<1>2. e1 \in Entry /\ e1.failures = e.failures /\ e1.successes = e.successes
  BY DEF Entry, CircuitState
<1>3. e2 \in Entry /\ e2.failures = e1.failures /\ e2.successes = e1.successes
  <2> HIDE DEF e1
  <2> QED BY <1>2 DEF Entry
<1>4. e3 \in Entry /\ e3.failures = e2.failures /\ e3.successes = e2.successes
  <2> HIDE DEF e2
  <2> QED BY <1>3 DEF Entry
<1>5. QED
  BY <1>1, <1>2, <1>3, <1>4

LEMMA SuccessCounts ==
    ASSUME NEW e \in Entry
    PROVE  /\ AfterSuccess(e) \in Entry
           /\ AfterSuccess(e).failures = e.failures
           /\ AfterSuccess(e).successes = e.successes + 1
<1> DEFINE c == Closed(e)
           d == [c EXCEPT !.seen = TRUE]
<1>1. c \in Entry /\ c.failures = e.failures /\ c.successes = e.successes
  BY ClosedKeepsCounts
<1>2. AfterSuccess(e) = [c EXCEPT !.seen = TRUE, !.successes = @ + 1]
  BY DEF AfterSuccess
<1> HIDE DEF c
<1>3. d \in Entry /\ d.failures = c.failures /\ d.successes = c.successes
  BY <1>1 DEF Entry
<1>4. AfterSuccess(e) = [d EXCEPT !.successes = @ + 1]
  BY <1>1, <1>2 DEF Entry
<1> HIDE DEF d
<1>5. [d EXCEPT !.successes = @ + 1] \in Entry
  BY <1>3 DEF Entry
<1>6. /\ [d EXCEPT !.successes = @ + 1].failures = d.failures
      /\ [d EXCEPT !.successes = @ + 1].successes = d.successes + 1
  BY <1>3 DEF Entry
<1>7. QED
  BY <1>1, <1>3, <1>4, <1>5, <1>6

LEMMA FailureCounts ==
    ASSUME NEW e \in Entry
    PROVE  /\ AfterFailure(e) \in Entry
           /\ AfterFailure(e).failures = e.failures + 1
           /\ AfterFailure(e).successes = e.successes
<1> DEFINE f1 == [e EXCEPT !.seen = TRUE]
           f2 == [f1 EXCEPT !.failures = @ + 1]
           f  == [f2 EXCEPT !.consecutive = @ + 1]
<1>1. f1 \in Entry /\ f1.failures = e.failures /\ f1.successes = e.successes
  BY DEF Entry
<1>2. f2 \in Entry /\ f2.failures = f1.failures + 1 /\ f2.successes = f1.successes
  <2> HIDE DEF f1
  <2>1. f2 \in Entry
    BY <1>1 DEF Entry
  <2>2. f2.failures = f1.failures + 1 /\ f2.successes = f1.successes
    BY <1>1 DEF Entry
  <2>3. QED
    BY <2>1, <2>2
<1>3. f \in Entry /\ f.failures = f2.failures /\ f.successes = f2.successes
  <2> HIDE DEF f2
  <2>1. f \in Entry
    BY <1>2 DEF Entry
  <2>2. f.failures = f2.failures /\ f.successes = f2.successes
    BY <1>2 DEF Entry
  <2>3. QED
    BY <2>1, <2>2
<1>4. f.trips + 1 \in Nat /\ Backoff(f.trips + 1) \in Nat
  <2> HIDE DEF f
  <2>1. f.trips \in Nat
    BY <1>3 DEF Entry
  <2>2. QED
    BY <2>1, BackoffIsNat
<1>5. Trip(f) \in Entry /\ Trip(f).failures = f.failures /\ Trip(f).successes = f.successes
  <2> HIDE DEF f
  <2> DEFINE t1 == [f EXCEPT !.trips = @ + 1]
             t2 == [t1 EXCEPT !.cooldown = Backoff(f.trips + 1)]
             t3 == [t2 EXCEPT !.openFor = Backoff(f.trips + 1)]
             t4 == [t3 EXCEPT !.state = "unhealthy"]
  <2>1. t1 \in Entry /\ t1.failures = f.failures /\ t1.successes = f.successes
    <3>1. t1 \in Entry
      BY <1>3 DEF Entry
    <3>2. t1.failures = f.failures /\ t1.successes = f.successes
      BY <1>3 DEF Entry
    <3>3. QED
      BY <3>1, <3>2
  <2>2. t2 \in Entry /\ t2.failures = t1.failures /\ t2.successes = t1.successes
    <3> HIDE DEF t1
    <3> QED BY <1>4, <2>1 DEF Entry
  <2>3. t3 \in Entry /\ t3.failures = t2.failures /\ t3.successes = t2.successes
    <3> HIDE DEF t2
    <3> QED BY <1>4, <2>2 DEF Entry
  <2>4. t4 \in Entry /\ t4.failures = t3.failures /\ t4.successes = t3.successes
    <3> HIDE DEF t3
    <3> QED BY <2>3 DEF Entry, CircuitState
  <2>5. Trip(f) = t4
    BY DEF Trip
  <2>6. QED
    BY <2>1, <2>2, <2>3, <2>4, <2>5
<1>6. AfterFailure(e) \in {f, Trip(f)}
  <2>1. f = [e EXCEPT !.seen = TRUE, !.failures = @ + 1, !.consecutive = @ + 1]
    BY DEF Entry
  <2>2. QED
    BY <2>1 DEF AfterFailure
<1>7. QED
  BY <1>1, <1>2, <1>3, <1>5, <1>6

-----------------------------------------------------------------------------
(* What holds of every state. *)

\* A request stands at a model of its chain, and its trace is the chain up to it.
Traces ==
    \A r \in Requests : LET tr == attempts[r]  n == Len(tr) IN
        /\ pos[r] \in 1..Len(chain[r])
        /\ n = IF pc[r] = "done" THEN pos[r] ELSE pos[r] - 1
        /\ \A i \in 1..n : /\ tr[i].at = i /\ tr[i].model = chain[r][i]
                           /\ i < n \/ pc[r] # "done" => tr[i].outcome \in FallThrough

\* A walk that returned has a result, and a reason.
Returned ==
    \A r \in Requests :
        /\ (result[r] = NoResult) <=> (pc[r] # "done")
        /\ pc[r] = "done" =>
              LET o == attempts[r][pos[r]].outcome IN
              /\ o \in Definitive \/ pos[r] = Len(chain[r]) \/ gone[r]
              /\ result[r].degraded <=> (pos[r] > 1 \/ o \notin Definitive)

\* A call that starts after the caller left is the last of its walk.
LateIsLast ==
    \A r \in Requests :
        /\ lateCalls[r] <= 1
        /\ ~gone[r] \/ pc[r] \in {"gate", "lookup"} => lateCalls[r] = 0

WalkInv == TypeOK /\ Traces /\ Returned /\ LateIsLast

-----------------------------------------------------------------------------
(* The kinds of steps a request takes. *)

\* The circuits count the outcome of a model.
Counts(m, outcome) ==
    \A k \in Models :
        /\ entry'[k].failures  = entry[k].failures + (IF k = m /\ outcome \in Penalised THEN 1 ELSE 0)
        /\ entry'[k].successes = entry[k].successes + (IF k = m /\ outcome = "success" THEN 1 ELSE 0)

SameCounts == \A k \in Models : /\ entry'[k].failures = entry[k].failures
                                /\ entry'[k].successes = entry[k].successes

\* It moves on within the loop body.
Moves(r) ==
    /\ pc[r] # "done"
    /\ \E p \in {"lookup", "calling", "sleeping"} : pc' = [pc EXCEPT ![r] = p]
    /\ \E t \in 0..MaxTries : tries' = [tries EXCEPT ![r] = t]
    /\ pc'[r] = "lookup" => lateCalls' = lateCalls /\ pc[r] = "gate"
    /\ \/ lateCalls' = lateCalls
       \/ pc[r] = "lookup" /\ lateCalls' = [lateCalls EXCEPT ![r] = @ + (IF gone[r] THEN 1 ELSE 0)]
    /\ SameCounts
    /\ UNCHANGED <<pos, attempts, result>>

Returns(r) ==
    /\ pc[r] # "done"
    /\ \E o \in Definitive, s \in BOOLEAN : Return(r, o, s) /\ Counts(Model(r), o)
    /\ UNCHANGED lateCalls

GoesOn(r) ==
    /\ pc[r] # "done"
    /\ \E o \in FallThrough, b \in BOOLEAN :
          /\ GoOn(r, o, b) /\ Counts(Model(r), o)
          /\ b => gone[r]
          /\ ~b => ~gone[r] \/ pc[r] = "gate"
    /\ UNCHANGED lateCalls

Kind(r) == /\ Moves(r) \/ Returns(r) \/ GoesOn(r)
           /\ entry' \in [Models -> Entry]
           /\ chain' = chain /\ gone' = gone

LEMMA ModelInChain ==
    ASSUME TypeOK, Traces, NEW r \in Requests
    PROVE  Model(r) \in Models
BY WalkAssumption DEF TypeOK, Traces, Model

\* A circuit moves by the outcome of its model.
LEMMA CircuitMoved ==
    ASSUME entry \in [Models -> Entry], NEW m \in Models, NEW e \in Entry, NEW o,
           entry' = [entry EXCEPT ![m] = e],
           e.failures  = entry[m].failures + (IF o \in Penalised THEN 1 ELSE 0),
           e.successes = entry[m].successes + (IF o = "success" THEN 1 ELSE 0)
    PROVE  entry' \in [Models -> Entry] /\ Counts(m, o)
<1>1. \A k \in Models : entry[k].failures \in Nat /\ entry[k].successes \in Nat
  BY DEF Entry
<1>2. \A k \in Models : entry'[k] = IF k = m THEN e ELSE entry[k]
  OBVIOUS
<1>3. QED
  BY <1>1, <1>2 DEF Counts

LEMMA SettleKind ==
    ASSUME TypeOK, Traces, NEW r \in Requests, NEW a \in Answer, Settle(r, a),
           pc[r] # "done", chain' = chain, gone' = gone, lateCalls' = lateCalls
    PROVE  Kind(r)
<1>1. Model(r) \in Models /\ entry \in [Models -> Entry] /\ gone[r] \in BOOLEAN
  BY ModelInChain DEF TypeOK
<1>2. CASE a = "valid"
  <2>1. entry' = [entry EXCEPT ![Model(r)] = AfterSuccess(@)] /\ Return(r, "success", TRUE)
    BY <1>2 DEF Settle
  <2>2. /\ entry' \in [Models -> Entry]
        /\ Counts(Model(r), "success")
    <3> DEFINE e == AfterSuccess(entry[Model(r)])
    <3>1. /\ e \in Entry /\ e.failures = entry[Model(r)].failures
          /\ e.successes = entry[Model(r)].successes + 1
          /\ entry[Model(r)].failures \in Nat
      BY <1>1, SuccessCounts DEF Entry
    <3>2. entry' = [entry EXCEPT ![Model(r)] = e] /\ "success" \notin Penalised
      BY <2>1 DEF Penalised
    <3> HIDE DEF e
    <3>3. /\ e.failures  = entry[Model(r)].failures + (IF "success" \in Penalised THEN 1 ELSE 0)
          /\ e.successes = entry[Model(r)].successes + (IF "success" = "success" THEN 1 ELSE 0)
      BY <3>1, <3>2
    <3>4. QED
      BY <1>1, <3>1, <3>2, <3>3, CircuitMoved
  <2>3. QED
    BY <2>1, <2>2 DEF Kind, Returns, Definitive
<1>3. CASE a = "invalid"
  <2>1. entry' = [entry EXCEPT ![Model(r)] = AfterFailure(@)] /\ GoOn(r, "schema_invalid", gone[r])
    BY <1>3 DEF Settle
  <2>2. /\ entry' \in [Models -> Entry]
        /\ Counts(Model(r), "schema_invalid")
    <3> DEFINE e == AfterFailure(entry[Model(r)])
    <3>1. /\ e \in Entry /\ e.failures = entry[Model(r)].failures + 1
          /\ e.successes = entry[Model(r)].successes
          /\ entry[Model(r)].successes \in Nat
      BY <1>1, FailureCounts DEF Entry
    <3>2. entry' = [entry EXCEPT ![Model(r)] = e] /\ "schema_invalid" \in Penalised
      BY <2>1 DEF Penalised
    <3> HIDE DEF e
    <3>3. /\ e.failures  = entry[Model(r)].failures + (IF "schema_invalid" \in Penalised THEN 1 ELSE 0)
          /\ e.successes = entry[Model(r)].successes + (IF "schema_invalid" = "success" THEN 1 ELSE 0)
      BY <3>1, <3>2
    <3>4. QED
      BY <1>1, <3>1, <3>2, <3>3, CircuitMoved
  <2>3. QED
    BY <1>1, <2>1, <2>2 DEF Kind, GoesOn, FallThrough
<1>4. CASE a \in {"definitive", "canceled"}
  <2>1. entry' = entry /\ Return(r, "error_definitive", FALSE)
    BY <1>4 DEF Settle
  <2>2. Counts(Model(r), "error_definitive")
    BY <1>1, <2>1 DEF Counts, Penalised, Entry
  <2>3. QED
    BY <1>1, <2>1, <2>2 DEF Kind, Returns, Definitive
<1>5. CASE a \in {"transient", "unavailable"}
  <2>1. entry' = [entry EXCEPT ![Model(r)] = AfterFailure(@)] /\ GoOn(r, "error_fallback", gone[r])
    BY <1>5 DEF Settle
  <2>2. /\ entry' \in [Models -> Entry]
        /\ Counts(Model(r), "error_fallback")
    <3> DEFINE e == AfterFailure(entry[Model(r)])
    <3>1. /\ e \in Entry /\ e.failures = entry[Model(r)].failures + 1
          /\ e.successes = entry[Model(r)].successes
          /\ entry[Model(r)].successes \in Nat
      BY <1>1, FailureCounts DEF Entry
    <3>2. entry' = [entry EXCEPT ![Model(r)] = e] /\ "error_fallback" \in Penalised
      BY <2>1 DEF Penalised
    <3> HIDE DEF e
    <3>3. /\ e.failures  = entry[Model(r)].failures + (IF "error_fallback" \in Penalised THEN 1 ELSE 0)
          /\ e.successes = entry[Model(r)].successes + (IF "error_fallback" = "success" THEN 1 ELSE 0)
      BY <3>1, <3>2
    <3>4. QED
      BY <1>1, <3>1, <3>2, <3>3, CircuitMoved
  <2>3. QED
    BY <1>1, <2>1, <2>2 DEF Kind, GoesOn, FallThrough
<1>6. QED
  BY <1>2, <1>3, <1>4, <1>5 DEF Answer

LEMMA StepKind ==
    ASSUME TypeOK, Traces, NEW r \in Requests, Step(r)
    PROVE  Kind(r)
<1>1. /\ Model(r) \in Models /\ entry \in [Models -> Entry]
      /\ tries[r] \in 0..MaxTries /\ tries \in [Requests -> 0..MaxTries]
      /\ pc \in [Requests -> {"gate", "lookup", "calling", "sleeping", "done"}]
  BY ModelInChain DEF TypeOK
<1>2. CASE Skip(r)
  <2>1. /\ pc[r] = "gate" /\ entry' = entry /\ chain' = chain /\ gone' = gone
        /\ lateCalls' = lateCalls /\ GoOn(r, "skipped_unhealthy", FALSE)
    BY <1>2 DEF Skip
  <2>2. Counts(Model(r), "skipped_unhealthy")
    BY <1>1, <2>1 DEF Counts, Penalised, Entry
  <2>3. QED
    BY <1>1, <2>1, <2>2 DEF Kind, GoesOn, FallThrough
<1>3. CASE Enter(r)
  <2>1. entry' \in [Models -> Entry] /\ SameCounts
    BY <1>1, <1>3, AllowKeepsCounts DEF Enter, SameCounts
  <2>2. tries = [tries EXCEPT ![r] = tries[r]]
    BY <1>1
  <2>3. QED
    BY <1>1, <1>3, <2>1, <2>2 DEF Enter, Kind, Moves
<1>4. CASE LookupHit(r)
  <2>1. /\ pc[r] = "lookup" /\ entry' = entry /\ chain' = chain /\ gone' = gone
        /\ lateCalls' = lateCalls /\ Return(r, "cache_hit", TRUE)
    BY <1>4 DEF LookupHit
  <2>2. Counts(Model(r), "cache_hit")
    BY <1>1, <2>1 DEF Counts, Penalised, Entry
  <2>3. QED
    BY <1>1, <2>1, <2>2 DEF Kind, Returns, Definitive
<1>5. CASE LookupMiss(r)
  <2>1. 1 \in 0..MaxTries /\ pc'[r] = "calling"
    BY <1>1, <1>5, WalkAssumption DEF LookupMiss
  <2>2. SameCounts /\ entry' \in [Models -> Entry]
    BY <1>1, <1>5 DEF LookupMiss, SameCounts
  <2>3. QED
    BY <1>5, <2>1, <2>2 DEF LookupMiss, Kind, Moves
<1>6. ASSUME NEW a \in Answer, Answered(r, a) PROVE Kind(r)
  <2>1. pc[r] = "calling" /\ chain' = chain /\ gone' = gone /\ lateCalls' = lateCalls
    BY <1>6 DEF Answered
  <2>2. CASE a = "transient" /\ ~gone[r]
    <3>1. /\ pc' = [pc EXCEPT ![r] = "sleeping"] /\ pc'[r] = "sleeping"
          /\ UNCHANGED <<entry, pos, tries, attempts, result>>
      BY <1>1, <1>6, <2>2 DEF Answered
    <3>2. SameCounts /\ entry' \in [Models -> Entry] /\ tries' = [tries EXCEPT ![r] = tries[r]]
      BY <1>1, <3>1 DEF SameCounts
    <3>3. QED
      BY <1>1, <2>1, <3>1, <3>2 DEF Kind, Moves
  <2>3. CASE ~(a = "transient" /\ ~gone[r])
    <3>1. Settle(r, a)
      BY <1>6, <2>3 DEF Answered
    <3>2. QED
      BY <2>1, <3>1, SettleKind
  <2>4. QED
    BY <2>2, <2>3
<1>7. CASE Retry(r)
  <2>1. tries[r] + 1 \in 0..MaxTries /\ tries' = [tries EXCEPT ![r] = tries[r] + 1]
    BY <1>1, <1>7, WalkAssumption DEF Retry
  <2>2. SameCounts /\ entry' \in [Models -> Entry] /\ pc'[r] = "calling"
    BY <1>1, <1>7 DEF Retry, SameCounts
  <2>3. QED
    BY <1>7, <2>1, <2>2 DEF Retry, Kind, Moves
<1>8. CASE GiveUp(r)
  <2>1. /\ pc[r] = "sleeping" /\ Settle(r, "transient") /\ "transient" \in Answer
        /\ chain' = chain /\ gone' = gone /\ lateCalls' = lateCalls
    BY <1>8 DEF GiveUp, Answer
  <2>2. QED
    BY <2>1, SettleKind
<1>9. QED
  BY <1>2, <1>3, <1>4, <1>5, <1>6, <1>7, <1>8 DEF Step

-----------------------------------------------------------------------------
LEMMA WalkInit == Init => WalkInv
<1> SUFFICES ASSUME Init PROVE WalkInv
  OBVIOUS
<1>1. FreshEntry \in Entry
  BY DEF FreshEntry, Entry, CircuitState
<1>2. \A r \in Requests : chain[r] \in Seq(Models) /\ chain[r] # <<>>
  BY WalkAssumption DEF Init
<1>3. \A r \in Requests : Len(chain[r]) \in Nat /\ 1 \in 1..Len(chain[r])
  BY <1>2
<1>4. <<>> \in Seq(Attempt) /\ Len(<<>>) = 0 /\ 0 \in 0..MaxTries
  BY WalkAssumption
<1>5. TypeOK
  BY <1>1, <1>4 DEF Init, TypeOK
<1>6. Traces
  BY <1>3, <1>4 DEF Init, Traces
<1>7. Returned /\ LateIsLast
  BY DEF Init, Returned, LateIsLast
<1>8. QED
  BY <1>5, <1>6, <1>7 DEF WalkInv

\* The trace with an outcome added.
LEMMA TraceGrows ==
    ASSUME TypeOK, Traces, NEW r \in Requests, pc[r] # "done",
           NEW o \in FallThrough \cup Definitive
    PROVE  /\ Traced(r, o) \in Seq(Attempt) /\ Len(Traced(r, o)) = pos[r]
           /\ Len(attempts[r]) = pos[r] - 1
           /\ \A i \in 1..pos[r] :
                 Traced(r, o)[i] = IF i = pos[r] THEN [at |-> i, model |-> chain[r][i], outcome |-> o]
                                   ELSE attempts[r][i]
           /\ DOMAIN Traced(r, o) = 1..pos[r] /\ DOMAIN attempts[r] = 1..(pos[r] - 1)
<1> DEFINE a == [at |-> pos[r], model |-> Model(r), outcome |-> o]
<1>1. a \in Attempt
  BY ModelInChain DEF TypeOK, Attempt
<1>2. /\ attempts[r] \in Seq(Attempt) /\ pos[r] \in Nat \ {0}
      /\ Len(attempts[r]) = pos[r] - 1
  BY DEF TypeOK, Traces
<1>3. Traced(r, o) = Append(attempts[r], a) /\ Model(r) = chain[r][pos[r]]
  BY DEF Traced, Model
<1> HIDE DEF a
<1>4. /\ Append(attempts[r], a) \in Seq(Attempt)
      /\ Len(Append(attempts[r], a)) = pos[r]
      /\ \A i \in 1..(pos[r] - 1) : Append(attempts[r], a)[i] = attempts[r][i]
      /\ Append(attempts[r], a)[pos[r]] = a
      /\ DOMAIN Append(attempts[r], a) = 1..pos[r]
      /\ DOMAIN attempts[r] = 1..(pos[r] - 1)
  BY <1>1, <1>2
<1>5. \A i \in 1..pos[r] : i = pos[r] \/ i \in 1..(pos[r] - 1)
  BY <1>2
<1>6. QED
  BY <1>2, <1>3, <1>4, <1>5 DEF a

\* What a step that ends the work on a model does to its request.
Ends(r, o, res) ==
    /\ attempts' = [attempts EXCEPT ![r] = Traced(r, o)]
    /\ result' = [result EXCEPT ![r] = res]
    /\ pc' = [pc EXCEPT ![r] = "done"]
    /\ UNCHANGED <<pos, tries>>

Advances(r, o) ==
    /\ attempts' = [attempts EXCEPT ![r] = Traced(r, o)]
    /\ pos' = [pos EXCEPT ![r] = @ + 1] /\ pos[r] # Len(chain[r])
    /\ tries' = [tries EXCEPT ![r] = 0]
    /\ pc' = [pc EXCEPT ![r] = "gate"]
    /\ UNCHANGED result

LEMMA GoOnEnds ==
    ASSUME TypeOK, NEW r \in Requests, NEW o \in FallThrough, NEW b \in BOOLEAN, GoOn(r, o, b)
    PROVE  \/ ~b /\ Advances(r, o)
           \/ \E res \in Result : /\ Ends(r, o, res) /\ res.degraded = TRUE
                                  /\ b \/ pos[r] = Len(chain[r])
<1>1. CASE b \/ pos[r] = Len(chain[r])
  <2>1. Ends(r, o, Exhausted(r, o))
    BY <1>1 DEF GoOn, Ends
  <2>2. Exhausted(r, o) \in Result /\ Exhausted(r, o).degraded = TRUE
    BY DEF Exhausted, Result
  <2>3. QED
    BY <1>1, <2>1, <2>2
<1>2. CASE ~b /\ pos[r] # Len(chain[r])
  BY <1>2 DEF GoOn, Advances
<1>3. QED
  BY <1>1, <1>2

LEMMA ReturnEnds ==
    ASSUME TypeOK, NEW r \in Requests, NEW o, NEW s \in BOOLEAN, Return(r, o, s)
    PROVE  \E res \in Result : /\ Ends(r, o, res)
                               /\ res.degraded <=> pos[r] > 1
<1> DEFINE res == [success |-> s, fallbackUsed |-> pos[r] > 1, degraded |-> pos[r] > 1]
<1>1. res \in Result /\ (res.degraded <=> pos[r] > 1)
  <2>1. CASE pos[r] > 1
    BY <2>1 DEF Result
  <2>2. CASE ~(pos[r] > 1)
    <3>1. (pos[r] > 1) = FALSE
      BY <2>2
    <3>2. res = [success |-> s, fallbackUsed |-> FALSE, degraded |-> FALSE]
      BY <3>1, Zenon
    <3>3. QED
      BY <2>2, <3>2 DEF Result
  <2>3. QED
    BY <2>1, <2>2
<1>2. Ends(r, o, res)
  BY DEF Return, Ends
<1>3. QED
  BY <1>1, <1>2

\* Every kind of step, in those terms.
LEMMA KindEffect ==
    ASSUME TypeOK, NEW r \in Requests, Kind(r)
    PROVE  \/ Moves(r)
           \/ /\ pc[r] # "done" /\ UNCHANGED lateCalls
              /\ \E o \in FallThrough \cup Definitive :
                    /\ Counts(Model(r), o)
                    /\ \/ /\ Advances(r, o) /\ o \in FallThrough
                          /\ ~gone[r] \/ pc[r] = "gate"
                       \/ \E res \in Result :
                             /\ Ends(r, o, res)
                             /\ o \in Definitive \/ pos[r] = Len(chain[r]) \/ gone[r]
                             /\ res.degraded <=> (pos[r] > 1 \/ o \notin Definitive)
<1>1. \A o \in FallThrough : o \notin Definitive
  BY DEF FallThrough, Definitive
<1>2. CASE Returns(r)
  <2>1. PICK o \in Definitive, s \in BOOLEAN : Return(r, o, s) /\ Counts(Model(r), o)
    BY <1>2 DEF Returns
  <2>2. PICK res \in Result : Ends(r, o, res) /\ (res.degraded <=> pos[r] > 1)
    BY <2>1, ReturnEnds
  <2>3. QED
    BY <1>2, <2>1, <2>2 DEF Returns
<1>3. CASE GoesOn(r)
  <2>1. PICK o \in FallThrough, b \in BOOLEAN :
            /\ GoOn(r, o, b) /\ Counts(Model(r), o)
            /\ b => gone[r]
            /\ ~b => ~gone[r] \/ pc[r] = "gate"
    BY <1>3 DEF GoesOn
  <2>2. pc[r] # "done" /\ UNCHANGED lateCalls
    BY <1>3 DEF GoesOn
  <2>3. CASE ~b /\ Advances(r, o)
    BY <2>1, <2>2, <2>3
  <2>4. CASE \E res \in Result : /\ Ends(r, o, res) /\ res.degraded = TRUE
                                 /\ b \/ pos[r] = Len(chain[r])
    BY <1>1, <2>1, <2>2, <2>4
  <2>5. QED
    BY <2>1, <2>3, <2>4, GoOnEnds
<1>4. QED
  BY <1>2, <1>3 DEF Kind

-----------------------------------------------------------------------------
(* Each part is kept by a step of a request. *)

LEMMA TypeKept ==
    ASSUME TypeOK, Traces, NEW r \in Requests, Kind(r)
    PROVE  TypeOK'
<1>1. entry' \in [Models -> Entry] /\ chain' \in [Requests -> Chains] /\ gone' \in [Requests -> BOOLEAN]
  BY DEF Kind, TypeOK
<1>2. CASE Moves(r)
  <2>1. lateCalls[r] \in Nat /\ lateCalls[r] + 1 \in Nat /\ lateCalls[r] + 0 \in Nat
    BY DEF TypeOK
  <2>2. lateCalls' \in [Requests -> Nat]
    BY <1>2, <2>1 DEF Moves, TypeOK
  <2>3. pc' \in [Requests -> {"gate", "lookup", "calling", "sleeping", "done"}]
    BY <1>2 DEF Moves, TypeOK
  <2>4. tries' \in [Requests -> 0..MaxTries]
    BY <1>2 DEF Moves, TypeOK
  <2>5. UNCHANGED <<pos, attempts, result>>
    BY <1>2 DEF Moves
  <2>6. QED
    BY <1>1, <2>2, <2>3, <2>4, <2>5 DEF TypeOK
<1>3. ASSUME NEW o \in FallThrough \cup Definitive, pc[r] # "done", UNCHANGED lateCalls,
             Advances(r, o)
      PROVE  TypeOK'
  <2>1. Traced(r, o) \in Seq(Attempt)
    BY <1>3, TraceGrows
  <2>2. pos[r] + 1 \in Nat \ {0} /\ 0 \in 0..MaxTries
    BY WalkAssumption DEF TypeOK
  <2>3. QED
    BY <1>1, <1>3, <2>1, <2>2 DEF Advances, TypeOK
<1>4. ASSUME NEW o \in FallThrough \cup Definitive, pc[r] # "done", UNCHANGED lateCalls,
             NEW res \in Result, Ends(r, o, res)
      PROVE  TypeOK'
  <2>1. Traced(r, o) \in Seq(Attempt)
    BY <1>4, TraceGrows
  <2>2. QED
    BY <1>1, <1>4, <2>1 DEF Ends, TypeOK
<1>5. QED
  BY <1>2, <1>3, <1>4, KindEffect

LEMMA TracesKept ==
    ASSUME TypeOK, Traces, NEW r \in Requests, Kind(r)
    PROVE  Traces'
<1>1. chain' = chain
  BY DEF Kind
<1>2. CASE Moves(r)
  <2>1. /\ pos' = pos /\ attempts' = attempts
        /\ \A q \in Requests : pc'[q] = "done" <=> pc[q] = "done"
    BY <1>2 DEF Moves, TypeOK
  <2>2. QED
    BY <1>1, <2>1 DEF Traces
<1>3. /\ pos[r] \in 1..Len(chain[r]) /\ pos[r] \in Nat \ {0} /\ Len(chain[r]) \in Nat
      /\ chain[r] \in Seq(Models)
  BY WalkAssumption DEF TypeOK, Traces
<1>4. pc[r] # "done" => \A i \in 1..(pos[r] - 1) :
          attempts[r][i].at = i /\ attempts[r][i].model = chain[r][i]
          /\ attempts[r][i].outcome \in FallThrough
  BY DEF Traces
<1>5. ASSUME NEW o \in FallThrough \cup Definitive, pc[r] # "done", Advances(r, o), o \in FallThrough
      PROVE  Traces'
  <2>1. /\ attempts'[r] = Traced(r, o) /\ pos'[r] = pos[r] + 1 /\ pc'[r] = "gate"
        /\ \A q \in Requests \ {r} : attempts'[q] = attempts[q] /\ pos'[q] = pos[q] /\ pc'[q] = pc[q]
    BY <1>5 DEF Advances, TypeOK
  <2>2. pos[r] + 1 \in 1..Len(chain[r])
    BY <1>3, <1>5 DEF Advances
  <2>3. /\ Len(attempts'[r]) = pos[r]
        /\ \A i \in 1..pos[r] : /\ attempts'[r][i].at = i /\ attempts'[r][i].model = chain[r][i]
                                /\ attempts'[r][i].outcome \in FallThrough
    <3>1. \A i \in 1..pos[r] : i = pos[r] \/ i \in 1..(pos[r] - 1)
      BY <1>3
    <3>2. QED
      <4>1. \A i \in 1..pos[r] :
                attempts'[r][i] = IF i = pos[r]
                                  THEN [at |-> i, model |-> chain[r][i], outcome |-> o]
                                  ELSE attempts[r][i]
        BY <1>5, <2>1, TraceGrows
      <4>2. Len(attempts'[r]) = pos[r]
        BY <1>5, <2>1, TraceGrows
      <4>3. ASSUME NEW i \in 1..pos[r]
            PROVE  /\ attempts'[r][i].at = i /\ attempts'[r][i].model = chain[r][i]
                   /\ attempts'[r][i].outcome \in FallThrough
        <5>1. CASE i = pos[r]
          <6>1. attempts'[r][i] = [at |-> i, model |-> chain[r][i], outcome |-> o]
            BY <4>1, <5>1
          <6>2. i \in Nat
            BY <1>3, <5>1
          <6>3. QED
            BY <1>5, <5>1, <6>1, <6>2
        <5>2. CASE i # pos[r]
          BY <1>4, <1>5, <3>1, <4>1, <5>2
        <5>3. QED
          BY <5>1, <5>2
      <4>4. QED
        BY <4>2, <4>3
  <2>4. \A q \in Requests \ {r} : chain'[q] = chain[q]
    BY <1>1
  <2>5. pos'[r] - 1 = pos[r]
    BY <1>3, <2>1
  <2>6. QED
    <3>1. SUFFICES ASSUME NEW q \in Requests
                   PROVE  LET tr == attempts'[q]  n == Len(tr) IN
                          /\ pos'[q] \in 1..Len(chain[q])
                          /\ n = IF pc'[q] = "done" THEN pos'[q] ELSE pos'[q] - 1
                          /\ \A i \in 1..n :
                                /\ tr[i].at = i /\ tr[i].model = chain[q][i]
                                /\ i < n \/ pc'[q] # "done" => tr[i].outcome \in FallThrough
      BY <1>1 DEF Traces
    <3>2. CASE q = r
      BY <2>1, <2>2, <2>3, <2>5, <3>2
    <3>3. CASE q # r
      BY <2>1, <3>3 DEF Traces
    <3>4. QED
      BY <3>2, <3>3
<1>6. ASSUME NEW o \in FallThrough \cup Definitive, pc[r] # "done", NEW res \in Result, Ends(r, o, res)
      PROVE  Traces'
  <2>1. /\ attempts'[r] = Traced(r, o) /\ pos' = pos /\ pc'[r] = "done"
        /\ \A q \in Requests \ {r} : attempts'[q] = attempts[q] /\ pc'[q] = pc[q]
    BY <1>6 DEF Ends, TypeOK
  <2>2. /\ Len(attempts'[r]) = pos[r]
        /\ \A i \in 1..pos[r] : /\ attempts'[r][i].at = i /\ attempts'[r][i].model = chain[r][i]
                                /\ i < pos[r] => attempts'[r][i].outcome \in FallThrough
    <3>1. \A i \in 1..pos[r] : i = pos[r] \/ i \in 1..(pos[r] - 1)
      BY <1>3
    <3>2. \A i \in 1..pos[r] : i < pos[r] => i # pos[r]
      BY <1>3
    <3>3. QED
      <4>1. \A i \in 1..pos[r] :
                attempts'[r][i] = IF i = pos[r]
                                  THEN [at |-> i, model |-> chain[r][i], outcome |-> o]
                                  ELSE attempts[r][i]
        BY <1>6, <2>1, TraceGrows
      <4>2. Len(attempts'[r]) = pos[r]
        BY <1>6, <2>1, TraceGrows
      <4>3. ASSUME NEW i \in 1..pos[r]
            PROVE  /\ attempts'[r][i].at = i /\ attempts'[r][i].model = chain[r][i]
                   /\ i < pos[r] => attempts'[r][i].outcome \in FallThrough
        <5>1. CASE i = pos[r]
          <6>1. attempts'[r][i] = [at |-> i, model |-> chain[r][i], outcome |-> o]
            BY <4>1, <5>1
          <6>2. ~(i < pos[r])
            BY <1>3, <5>1
          <6>3. QED
            BY <5>1, <6>1, <6>2
        <5>2. CASE i # pos[r]
          BY <1>4, <1>6, <3>1, <4>1, <5>2
        <5>3. QED
          BY <5>1, <5>2
      <4>4. QED
        BY <4>2, <4>3
  <2>3. SUFFICES ASSUME NEW q \in Requests
                 PROVE  LET tr == attempts'[q]  n == Len(tr) IN
                        /\ pos'[q] \in 1..Len(chain[q])
                        /\ n = IF pc'[q] = "done" THEN pos'[q] ELSE pos'[q] - 1
                        /\ \A i \in 1..n :
                              /\ tr[i].at = i /\ tr[i].model = chain[q][i]
                              /\ i < n \/ pc'[q] # "done" => tr[i].outcome \in FallThrough
    BY <1>1 DEF Traces
  <2>4. CASE q = r
    BY <1>3, <2>1, <2>2, <2>4
  <2>5. CASE q # r
    BY <2>1, <2>5 DEF Traces
  <2>6. QED
    BY <2>4, <2>5
<1>7. QED
  BY <1>2, <1>5, <1>6, KindEffect

LEMMA ReturnedKept ==
    ASSUME TypeOK, Traces, Returned, NEW r \in Requests, Kind(r)
    PROVE  Returned'
<1>1. chain' = chain /\ gone' = gone
  BY DEF Kind
<1>2. CASE Moves(r)
  BY <1>1, <1>2 DEF Moves, TypeOK, Returned
<1>3. ASSUME NEW o \in FallThrough \cup Definitive, pc[r] # "done", Advances(r, o)
      PROVE  Returned'
  <2>1. /\ result' = result /\ pc'[r] = "gate"
        /\ \A q \in Requests \ {r} : attempts'[q] = attempts[q] /\ pos'[q] = pos[q] /\ pc'[q] = pc[q]
    BY <1>3 DEF Advances, TypeOK
  <2>2. QED
    BY <1>1, <1>3, <2>1 DEF Returned
<1>4. ASSUME NEW o \in FallThrough \cup Definitive, pc[r] # "done", NEW res \in Result, Ends(r, o, res),
             o \in Definitive \/ pos[r] = Len(chain[r]) \/ gone[r],
             res.degraded <=> (pos[r] > 1 \/ o \notin Definitive)
      PROVE  Returned'
  <2>1. /\ attempts'[r] = Traced(r, o) /\ pos' = pos /\ pc'[r] = "done"
        /\ result'[r] = res /\ res # NoResult
        /\ \A q \in Requests \ {r} : /\ attempts'[q] = attempts[q] /\ pc'[q] = pc[q]
                                     /\ result'[q] = result[q]
    BY <1>4, NoResultAssumption DEF Ends, TypeOK
  <2>2. attempts'[r][pos[r]].outcome = o
    <3>1. pos[r] \in 1..pos[r]
      BY DEF TypeOK
    <3>2. QED
      <4>1. Traced(r, o)[pos[r]] = [at |-> pos[r], model |-> chain[r][pos[r]], outcome |-> o]
        BY <1>4, <3>1, TraceGrows
      <4>2. QED
        BY <2>1, <4>1
  <2>3. QED
    BY <1>1, <1>4, <2>1, <2>2 DEF Returned
<1>5. QED
  BY <1>2, <1>3, <1>4, KindEffect

LEMMA LateKept ==
    ASSUME TypeOK, LateIsLast, NEW r \in Requests, Kind(r)
    PROVE  LateIsLast'
<1>1. gone' = gone /\ gone \in [Requests -> BOOLEAN] /\ lateCalls \in [Requests -> Nat]
      /\ pc \in [Requests -> {"gate", "lookup", "calling", "sleeping", "done"}]
  BY DEF Kind, TypeOK
<1>2. CASE Moves(r)
  <2>1. /\ pc'[r] \in {"lookup", "calling", "sleeping"}
        /\ \A q \in Requests \ {r} : pc'[q] = pc[q] /\ lateCalls'[q] = lateCalls[q]
    BY <1>1, <1>2 DEF Moves
  <2>2. CASE lateCalls' = lateCalls
    BY <1>1, <1>2, <2>1, <2>2 DEF Moves, LateIsLast
  <2>3. CASE pc[r] = "lookup" /\ lateCalls' = [lateCalls EXCEPT ![r] = @ + (IF gone[r] THEN 1 ELSE 0)]
    <3>1. lateCalls[r] = 0
      BY <2>3 DEF LateIsLast
    <3>2. lateCalls'[r] = IF gone[r] THEN 1 ELSE 0
      BY <1>1, <2>3, <3>1
    <3>3. pc'[r] = "lookup" => lateCalls'[r] = 0
      BY <1>2, <3>1 DEF Moves
    <3>4. pc'[r] # "gate"
      BY <2>1
    <3>5. QED
      BY <1>1, <2>1, <3>2, <3>3, <3>4 DEF LateIsLast
  <2>4. QED
    BY <1>2, <2>2, <2>3 DEF Moves
<1>3. ASSUME NEW o, pc[r] # "done", lateCalls' = lateCalls, Advances(r, o), ~gone[r] \/ pc[r] = "gate"
      PROVE  LateIsLast'
  <2>1. pc' = [pc EXCEPT ![r] = "gate"] /\ lateCalls[r] = 0
    BY <1>3 DEF Advances, LateIsLast
  <2>2. QED
    BY <1>1, <1>3, <2>1 DEF LateIsLast
<1>4. ASSUME NEW o, NEW res, pc[r] # "done", lateCalls' = lateCalls, Ends(r, o, res)
      PROVE  LateIsLast'
  <2>1. pc' = [pc EXCEPT ![r] = "done"]
    BY <1>4 DEF Ends
  <2>2. QED
    BY <1>1, <1>4, <2>1 DEF LateIsLast
<1>5. QED
  BY <1>2, <1>3, <1>4, KindEffect

LEMMA WalkStep == WalkInv /\ [Next]_vars => WalkInv'
<1> SUFFICES ASSUME WalkInv, [Next]_vars PROVE WalkInv'
  OBVIOUS
<1> USE DEF WalkInv
<1>1. ASSUME NEW r \in Requests, Step(r) PROVE WalkInv'
  BY <1>1, StepKind, TypeKept, TracesKept, ReturnedKept, LateKept
<1>2. ASSUME NEW r \in Requests, Leave(r) PROVE WalkInv'
  <2>1. /\ gone' = [gone EXCEPT ![r] = TRUE] /\ pc[r] # "done"
        /\ UNCHANGED <<entry, chain, pc, pos, tries, attempts, result, lateCalls>>
    BY <1>2 DEF Leave
  <2>2. TypeOK'
    BY <2>1 DEF TypeOK
  <2>3. Traces'
    BY <2>1 DEF Traces
  <2>4. Returned' /\ LateIsLast'
    BY <2>1 DEF TypeOK, Returned, LateIsLast
  <2>5. QED
    BY <2>2, <2>3, <2>4
<1>3. CASE Tick
  <2>1. /\ entry' = [m \in Models |-> AfterTick(entry[m])]
        /\ UNCHANGED <<chain, pc, pos, tries, gone, attempts, result, lateCalls>>
    BY <1>3 DEF Tick
  <2>2. entry' \in [Models -> Entry]
    BY <2>1, TickKeepsCounts DEF TypeOK
  <2>3. TypeOK'
    BY <2>1, <2>2 DEF TypeOK
  <2>4. Traces' /\ Returned' /\ LateIsLast'
    BY <2>1 DEF Traces, Returned, LateIsLast
  <2>5. QED
    BY <2>3, <2>4
<1>4. CASE UNCHANGED vars
  <2>1. UNCHANGED <<entry, chain, pc, pos, tries, gone, attempts, result, lateCalls>>
    BY <1>4 DEF vars
  <2>2. QED
    BY <2>1 DEF TypeOK, Traces, Returned, LateIsLast
<1>5. QED
  BY <1>1, <1>2, <1>3, <1>4 DEF Next

\* Whatever providers answer and callers do, the inductive invariant of the walks
\* holds (CallWithFallbackOpts, CallModel).
THEOREM WalkInvariant == Spec => []WalkInv
BY WalkInit, WalkStep, PTL DEF Spec

\* The variables of the walks always have their types (CallWithFallbackOpts).
THEOREM WalkTyped == Spec => []TypeOK
<1>1. WalkInv => TypeOK
  BY DEF WalkInv
<1>2. QED
  BY <1>1, WalkInvariant, PTL

\* The trace of every walk is its chain in order; all its models but the last fell
\* through, it stopped early only at a definitive outcome or for a caller that had
\* left, and called at most one model for it then (CallWithFallbackOpts's loop).
THEOREM TraceIsAlwaysWalk == Spec => []TraceIsWalk
<1>1. WalkInv => TraceIsWalk
  <2> SUFFICES ASSUME WalkInv, NEW r \in Requests
               PROVE  LET tr == attempts[r]  n == Len(tr) IN
                      /\ n <= Len(chain[r])
                      /\ \A i \in 1..n : /\ tr[i].at = i /\ tr[i].model = chain[r][i]
                                         /\ i < n => tr[i].outcome \in FallThrough
                      /\ result[r] # NoResult =>
                            tr[n].outcome \in Definitive \/ n = Len(chain[r]) \/ gone[r]
                      /\ result[r] = NoResult => n = pos[r] - 1
                      /\ lateCalls[r] <= 1
    BY DEF TraceIsWalk
  <2>1. /\ pos[r] \in 1..Len(chain[r]) /\ pos[r] \in Nat /\ chain[r] \in Seq(Models)
        /\ Len(attempts[r]) = IF pc[r] = "done" THEN pos[r] ELSE pos[r] - 1
    BY WalkAssumption DEF WalkInv, TypeOK, Traces
  <2>2. Len(attempts[r]) <= Len(chain[r])
    BY <2>1
  <2>3. \A i \in 1..Len(attempts[r]) :
            /\ attempts[r][i].at = i /\ attempts[r][i].model = chain[r][i]
            /\ i < Len(attempts[r]) => attempts[r][i].outcome \in FallThrough
    BY DEF WalkInv, Traces
  <2>4. QED
    BY <2>1, <2>2, <2>3 DEF WalkInv, Returned, LateIsLast
<1>2. QED
  BY <1>1, WalkInvariant, PTL

\* A reply is marked degraded if and only if a fallback was reached or the chain
\* failed (X-Platform-Degraded; CallWithFallbackOpts's returns).
THEOREM DegradedKeepsContract == Spec => []DegradedContract
<1>1. WalkInv => DegradedContract
  <2> SUFFICES ASSUME WalkInv, NEW r \in Requests, result[r] # NoResult
               PROVE  LET tr == attempts[r]  n == Len(tr) IN
                      result[r].degraded <=> (n > 1 \/ tr[n].outcome \notin Definitive)
    BY DEF DegradedContract
  <2>1. pc[r] = "done"
    BY DEF WalkInv, Returned
  <2>2. Len(attempts[r]) = pos[r]
    BY <2>1 DEF WalkInv, Traces
  <2>3. QED
    BY <2>1, <2>2 DEF WalkInv, Returned
<1>2. QED
  BY <1>1, WalkInvariant, PTL

-----------------------------------------------------------------------------
(* Counting the traces: a step adds at most one entry, for one model. *)

\* The places in the traces that name a model with one of the wanted outcomes.
TracedAt(m, wanted) ==
    {w \in UNION {{r} \X DOMAIN attempts[r] : r \in Requests} :
        /\ attempts[w[1]][w[2]].model = m
        /\ attempts[w[1]][w[2]].outcome \in wanted}

Countable == \A m \in Models : /\ IsFiniteSet(TracedAt(m, Penalised))
                               /\ IsFiniteSet(TracedAt(m, {"success"}))

LEMMA TracedTimesCounts ==
    \A m, wanted : TracedTimes(m, wanted) = Cardinality(TracedAt(m, wanted))
BY DEF TracedTimes, TracedAt

LEMMA IsTracedAt ==
    ASSUME NEW m, NEW wanted, NEW w
    PROVE  w \in TracedAt(m, wanted) <=>
               \E q \in Requests : \E i \in DOMAIN attempts[q] :
                   /\ w = <<q, i>>
                   /\ attempts[q][i].model = m /\ attempts[q][i].outcome \in wanted
<1>1. w \in UNION {{q} \X DOMAIN attempts[q] : q \in Requests} <=>
          \E q \in Requests : \E i \in DOMAIN attempts[q] : w = <<q, i>>
  OBVIOUS
<1>2. QED
  BY <1>1 DEF TracedAt

LEMMA OneMorePlace ==
    ASSUME TypeOK, Traces, NEW r \in Requests, pc[r] # "done",
           NEW o \in FallThrough \cup Definitive,
           attempts' = [attempts EXCEPT ![r] = Traced(r, o)],
           NEW m, NEW wanted
    PROVE  /\ <<r, pos[r]>> \notin TracedAt(m, wanted)
           /\ TracedAt(m, wanted)' =
                 IF m = Model(r) /\ o \in wanted
                 THEN TracedAt(m, wanted) \cup {<<r, pos[r]>>} ELSE TracedAt(m, wanted)
<1>1. /\ DOMAIN Traced(r, o) = 1..pos[r] /\ DOMAIN attempts[r] = 1..(pos[r] - 1)
      /\ pos[r] \in Nat \ {0}
      /\ \A i \in 1..pos[r] :
            Traced(r, o)[i] = IF i = pos[r] THEN [at |-> i, model |-> chain[r][i], outcome |-> o]
                              ELSE attempts[r][i]
  BY TraceGrows DEF TypeOK
<1>2. /\ attempts'[r] = Traced(r, o)
      /\ \A q \in Requests \ {r} : attempts'[q] = attempts[q]
  BY DEF TypeOK
<1>3. \A i : /\ i \in 1..pos[r] <=> i = pos[r] \/ i \in 1..(pos[r] - 1)
             /\ i \in 1..(pos[r] - 1) => i # pos[r]
  BY <1>1
<1>4. <<r, pos[r]>> \notin TracedAt(m, wanted)
  BY <1>1, <1>3, IsTracedAt
<1>5. Traced(r, o)[pos[r]].model = Model(r) /\ Traced(r, o)[pos[r]].outcome = o
  <2>1. pos[r] \in 1..pos[r]
    BY <1>1
  <2>2. Traced(r, o)[pos[r]] = [at |-> pos[r], model |-> chain[r][pos[r]], outcome |-> o]
    BY <1>1, <2>1
  <2>3. QED
    BY <2>2 DEF Model
<1>6. \A i \in DOMAIN attempts[r] : Traced(r, o)[i] = attempts[r][i]
  BY <1>1, <1>3
<1>7. \A w : w \in TracedAt(m, wanted)' <=>
          \E q \in Requests : \E i \in DOMAIN attempts'[q] :
              /\ w = <<q, i>>
              /\ attempts'[q][i].model = m /\ attempts'[q][i].outcome \in wanted
  <2>1. \A w : w \in UNION {{q} \X DOMAIN attempts'[q] : q \in Requests} <=>
            \E q \in Requests : \E i \in DOMAIN attempts'[q] : w = <<q, i>>
    OBVIOUS
  <2>2. QED
    BY <2>1 DEF TracedAt
<1>8. \A w : w \in TracedAt(m, wanted)' <=>
          \/ w \in TracedAt(m, wanted)
          \/ w = <<r, pos[r]>> /\ m = Model(r) /\ o \in wanted
  <2>1. ASSUME NEW w, w \in TracedAt(m, wanted)'
        PROVE  \/ w \in TracedAt(m, wanted)
               \/ w = <<r, pos[r]>> /\ m = Model(r) /\ o \in wanted
    <3>0. PICK q \in Requests : \E i \in DOMAIN attempts'[q] :
              /\ w = <<q, i>>
              /\ attempts'[q][i].model = m /\ attempts'[q][i].outcome \in wanted
      BY <1>7, <2>1
    <3>1. PICK i \in DOMAIN attempts'[q] :
              /\ w = <<q, i>>
              /\ attempts'[q][i].model = m /\ attempts'[q][i].outcome \in wanted
      BY <3>0
    <3>2. CASE q # r
      BY <1>2, <3>1, <3>2, IsTracedAt
    <3>3. CASE q = r /\ i = pos[r]
      BY <1>2, <1>5, <3>1, <3>3
    <3>4. CASE q = r /\ i # pos[r]
      <4>1. i \in DOMAIN attempts[r] /\ attempts'[r][i] = attempts[r][i]
        BY <1>1, <1>2, <1>3, <1>6, <3>1, <3>4
      <4>2. QED
        BY <3>1, <3>4, <4>1, IsTracedAt
    <3>5. QED
      BY <3>2, <3>3, <3>4
  <2>2. ASSUME NEW w, w \in TracedAt(m, wanted)
        PROVE  w \in TracedAt(m, wanted)'
    <3>0. PICK q \in Requests : \E i \in DOMAIN attempts[q] :
              /\ w = <<q, i>>
              /\ attempts[q][i].model = m /\ attempts[q][i].outcome \in wanted
      BY <2>2, IsTracedAt
    <3>1. PICK i \in DOMAIN attempts[q] :
              /\ w = <<q, i>>
              /\ attempts[q][i].model = m /\ attempts[q][i].outcome \in wanted
      BY <3>0
    <3>2. i \in DOMAIN attempts'[q] /\ attempts'[q][i] = attempts[q][i]
      BY <1>1, <1>2, <1>3, <1>6, <3>1
    <3>3. QED
      BY <1>7, <3>1, <3>2
  <2>3. m = Model(r) /\ o \in wanted => <<r, pos[r]>> \in TracedAt(m, wanted)'
    <3>1. pos[r] \in DOMAIN attempts'[r]
      BY <1>1, <1>2, <1>3
    <3>2. QED
      BY <1>2, <1>5, <1>7, <3>1
  <2>4. QED
    BY <2>1, <2>2, <2>3
<1>9. QED
  BY <1>4, <1>8

LEMMA StoryStep ==
    ASSUME WalkInv, Countable, HealthMatchesTraces, NEW r \in Requests, Kind(r)
    PROVE  Countable' /\ HealthMatchesTraces'
<1>1. TypeOK /\ Traces /\ entry \in [Models -> Entry]
  BY DEF WalkInv, TypeOK
<1>2. CASE Moves(r)
  <2>1. SameCounts /\ UNCHANGED attempts
    BY <1>2 DEF Moves
  <2>2. \A m, wanted : TracedAt(m, wanted)' = TracedAt(m, wanted)
    BY <2>1 DEF TracedAt
  <2>3. \A m, wanted : TracedTimes(m, wanted)' = TracedTimes(m, wanted)
    BY <2>1 DEF TracedTimes
  <2>4. QED
    BY <2>1, <2>2, <2>3 DEF Countable, HealthMatchesTraces, SameCounts
<1>3. ASSUME NEW o \in FallThrough \cup Definitive, pc[r] # "done", Counts(Model(r), o),
             attempts' = [attempts EXCEPT ![r] = Traced(r, o)]
      PROVE  Countable' /\ HealthMatchesTraces'
  <2>0. \A m, wanted :
          /\ <<r, pos[r]>> \notin TracedAt(m, wanted)
          /\ TracedAt(m, wanted)' =
                IF m = Model(r) /\ o \in wanted
                THEN TracedAt(m, wanted) \cup {<<r, pos[r]>>} ELSE TracedAt(m, wanted)
    <3>1. TypeOK /\ Traces /\ pc[r] # "done" /\ attempts' = [attempts EXCEPT ![r] = Traced(r, o)]
      BY <1>1, <1>3
    <3>2. QED
      BY <3>1, OneMorePlace, ZenonT(30)
  <2>1. ASSUME NEW m \in Models, NEW wanted, IsFiniteSet(TracedAt(m, wanted))
        PROVE  /\ IsFiniteSet(TracedAt(m, wanted)')
               /\ TracedTimes(m, wanted)' =
                     TracedTimes(m, wanted) + (IF m = Model(r) /\ o \in wanted THEN 1 ELSE 0)
    <3>0. /\ <<r, pos[r]>> \notin TracedAt(m, wanted)
          /\ TracedAt(m, wanted)' =
                IF m = Model(r) /\ o \in wanted
                THEN TracedAt(m, wanted) \cup {<<r, pos[r]>>} ELSE TracedAt(m, wanted)
      BY <2>0
    <3> DEFINE S == TracedAt(m, wanted)
               x == <<r, pos[r]>>
    <3>1. /\ x \notin S
          /\ S' = IF m = Model(r) /\ o \in wanted THEN S \cup {x} ELSE S
      BY <3>0
    <3>2. IsFiniteSet(S \cup {x}) /\ Cardinality(S \cup {x}) = Cardinality(S) + 1
      <4>1. IsFiniteSet(S) /\ x \notin S
        BY <2>1, <3>1
      <4> HIDE DEF S, x
      <4>2. QED
        BY <4>1, FS_AddElement
    <3>3. Cardinality(S) \in Nat
      BY <2>1, FS_CardinalityType
    <3>4. TracedTimes(m, wanted)' = Cardinality(S') /\ TracedTimes(m, wanted) = Cardinality(S)
      BY DEF TracedTimes, TracedAt
    <3> HIDE DEF S, x
    <3>5. IsFiniteSet(S') /\ TracedTimes(m, wanted)' =
              TracedTimes(m, wanted) + (IF m = Model(r) /\ o \in wanted THEN 1 ELSE 0)
      <4>1. CASE m = Model(r) /\ o \in wanted
        BY <3>1, <3>2, <3>4, <4>1
      <4>2. CASE ~(m = Model(r) /\ o \in wanted)
        <5>1. S' = S
          BY <3>1, <4>2
        <5>2. IsFiniteSet(S')
          BY <2>1, <5>1 DEF S
        <5>3. QED
          BY <3>3, <3>4, <4>2, <5>1, <5>2
      <4>3. QED
        BY <4>1, <4>2
    <3>6. QED
      BY <3>5 DEF S
  <2>2. Countable'
    BY <2>1 DEF Countable
  <2>3. ASSUME NEW m \in Models
        PROVE  /\ entry'[m].failures  = TracedTimes(m, Penalised)'
               /\ entry'[m].successes = TracedTimes(m, {"success"})'
    <3>1. /\ TracedTimes(m, Penalised)' = TracedTimes(m, Penalised)
                 + (IF m = Model(r) /\ o \in Penalised THEN 1 ELSE 0)
          /\ TracedTimes(m, {"success"})' = TracedTimes(m, {"success"})
                 + (IF m = Model(r) /\ o \in {"success"} THEN 1 ELSE 0)
      BY <2>1 DEF Countable
    <3>2. o \in {"success"} <=> o = "success"
      OBVIOUS
    <3>3. QED
      BY <1>3, <3>1, <3>2 DEF Counts, HealthMatchesTraces
  <2>4. QED
    BY <2>2, <2>3 DEF HealthMatchesTraces
<1>4. QED
  BY <1>1, <1>2, <1>3, KindEffect DEF Advances, Ends

LEMMA StoryInit == Init => Countable /\ HealthMatchesTraces
<1> SUFFICES ASSUME Init PROVE Countable /\ HealthMatchesTraces
  OBVIOUS
<1>1. \A r \in Requests : attempts[r] = <<>>
  BY DEF Init
<1>2. DOMAIN <<>> = {}
  OBVIOUS
<1>3. \A m, wanted : TracedAt(m, wanted) = {}
  BY <1>1, <1>2, IsTracedAt
<1>4. \A m \in Models : entry[m].failures = 0 /\ entry[m].successes = 0
  BY DEF Init, FreshEntry
<1>5. \A m, wanted : TracedTimes(m, wanted) = 0
  BY <1>3, TracedTimesCounts, FS_EmptySet
<1>6. QED
  BY <1>3, <1>4, <1>5, FS_EmptySet DEF Countable, HealthMatchesTraces

\* Every model's failures and successes are exactly what the traces of all the
\* requests show of it: nothing else moves a circuit (recordSuccess and
\* recordFailure of CallWithFallbackOpts).
THEOREM HealthAlwaysMatchesTraces == Spec => []HealthMatchesTraces
<1> DEFINE Story == WalkInv /\ Countable /\ HealthMatchesTraces
<1>1. Init => Story
  BY WalkInit, StoryInit
<1>2. Story /\ [Next]_vars => Story'
  <2> SUFFICES ASSUME Story, [Next]_vars PROVE Story'
    OBVIOUS
  <2>1. WalkInv'
    BY WalkStep
  <2>2. ASSUME NEW r \in Requests, Step(r)
        PROVE  Countable' /\ HealthMatchesTraces'
    BY <2>2, StepKind, StoryStep DEF WalkInv
  <2>3. ASSUME UNCHANGED attempts, SameCounts
        PROVE  Countable' /\ HealthMatchesTraces'
    <3>1. \A m, wanted : /\ TracedAt(m, wanted)' = TracedAt(m, wanted)
                           /\ TracedTimes(m, wanted)' = TracedTimes(m, wanted)
      BY <2>3 DEF TracedAt, TracedTimes
    <3>2. QED
      BY <2>3, <3>1 DEF Countable, HealthMatchesTraces, SameCounts
  <2>4. ASSUME NEW r \in Requests, Leave(r)
        PROVE  Countable' /\ HealthMatchesTraces'
    BY <2>3, <2>4 DEF Leave, SameCounts
  <2>5. CASE Tick
    <3>1. entry \in [Models -> Entry]
      BY DEF WalkInv, TypeOK
    <3>2. UNCHANGED attempts /\ \A m \in Models : entry'[m] = AfterTick(entry[m])
      BY <2>5 DEF Tick
    <3>3. \A m \in Models : /\ entry'[m].failures = entry[m].failures
                            /\ entry'[m].successes = entry[m].successes
      BY <3>1, <3>2, TickKeepsCounts
    <3>4. QED
      BY <2>1, <2>3, <3>2, <3>3 DEF SameCounts
  <2>6. CASE UNCHANGED vars
    <3>1. UNCHANGED <<attempts, entry>>
      BY <2>6 DEF vars
    <3>2. QED
      BY <2>1, <2>3, <3>1 DEF SameCounts
  <2>7. QED
    BY <2>1, <2>2, <2>4, <2>5, <2>6 DEF Next
<1>3. QED
  BY <1>1, <1>2, PTL DEF Spec
=============================================================================
