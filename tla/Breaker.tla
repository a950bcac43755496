------------------------------ MODULE Breaker ------------------------------
(***************************************************************************)
(* The circuit the health tracker keeps for one (task, model) pair         *)
(* (internal/health/tracker.go): what each method of Tracker does to an    *)
(* entry while it holds the tracker's lock.  Time is relative: openFor is  *)
(* the part of the cooldown still to run, max(0, openUntil - now), so that *)
(* "now is not before openUntil" is openFor = 0.                           *)
(*                                                                         *)
(* The tracker is modelled enabled.  A disabled one answers Allow with     *)
(* TRUE and ignores both Record methods, so it keeps no entry at all.      *)
(***************************************************************************)
EXTENDS Naturals

CONSTANTS Threshold,      \* consecutive failures before the circuit trips
          BaseCooldown,   \* first unhealthy window, in ticks
          MaxCooldown,    \* cap of the backed-off window
          Factor          \* cooldown multiplier per re-trip

\* What NewTracker's defaulting of unset fields leaves possible.
ASSUME BreakerAssumption ==
    /\ Threshold    \in Nat \ {0}
    /\ BaseCooldown \in Nat \ {0}
    /\ MaxCooldown  \in Nat \ {0}
    /\ Factor       \in Nat \ {0, 1}

CircuitState == {"healthy", "unhealthy", "probing"}

Entry == [seen        : BOOLEAN,        \* FALSE: no entry in the map yet
          state       : CircuitState,
          consecutive : Nat,
          trips       : Nat,
          cooldown    : Nat,
          openFor     : Nat,
          failures    : Nat,            \* totalFailures
          successes   : Nat]            \* totalSuccesses

\* A pair the tracker has not recorded anything for; ensure() creates it.
FreshEntry == [seen |-> FALSE, state |-> "healthy", consecutive |-> 0,
               trips |-> 0, cooldown |-> 0, openFor |-> 0,
               failures |-> 0, successes |-> 0]

\* Cooldown of the nth trip: BaseCooldown * Factor^(n-1), capped.
Backoff(n) == LET d == BaseCooldown * Factor^(n - 1)
              IN  IF d \in 1..MaxCooldown THEN d ELSE MaxCooldown

Trip(e) == [e EXCEPT !.trips    = @ + 1,
                     !.cooldown = Backoff(e.trips + 1),
                     !.openFor  = Backoff(e.trips + 1),
                     !.state    = "unhealthy"]

\* Faulty: forgets to clear the trip count.
ClosedKeepingTrips(e) == [e EXCEPT !.consecutive = 0, !.state = "healthy",
                                   !.openFor = 0, !.cooldown = 0]

\* The five assignments RecordSuccess and Reset share.
Closed(e) == [e EXCEPT !.consecutive = 0, !.state = "healthy",
                       !.openFor = 0, !.cooldown = 0, !.trips = 0]

\* Faulty: an open circuit waits for somebody else to close it.
AllowedOnlyClosed(e) == e.state # "unhealthy"

Allowed(e) == e.state # "unhealthy" \/ e.openFor = 0

AfterAllow(e) == IF e.state = "unhealthy" /\ e.openFor = 0
                 THEN [e EXCEPT !.state = "probing"]
                 ELSE e

AfterSuccess(e) == [Closed(e) EXCEPT !.seen = TRUE, !.successes = @ + 1]

\* Faulty: trips one failure too late.
AfterFailureLate(e) ==
    LET f == [e EXCEPT !.seen = TRUE, !.failures = @ + 1, !.consecutive = @ + 1]
    IN  IF f.state = "probing" \/ f.consecutive > Threshold THEN Trip(f) ELSE f

\* A failed probe and a failure past the threshold both trip, whatever the
\* state the entry was in.
AfterFailure(e) ==
    LET f == [e EXCEPT !.seen = TRUE, !.failures = @ + 1, !.consecutive = @ + 1]
    IN  IF f.state = "probing" \/ f.consecutive >= Threshold THEN Trip(f) ELSE f

AfterReset(e) == Closed(e)

\* One unit of time passes.
AfterTick(e) == [e EXCEPT !.openFor = IF @ > 0 THEN @ - 1 ELSE 0]

-----------------------------------------------------------------------------
\* How many trips a run of n consecutive failures amounts to: every failure
\* from the Threshold-th on trips again.
TripsOf(n) == IF n >= Threshold THEN n - Threshold + 1 ELSE 0

\* What the fields of an entry say of one another: a healthy circuit has
\* fewer than Threshold failures and no trip or window left over; any other
\* has as many trips as its run of failures, the cooldown that many trips
\* earn, and never a longer wait.
Consistent(e) ==
    /\ (e.state = "healthy") <=> (e.consecutive < Threshold)
    /\ e.trips = TripsOf(e.consecutive)
    /\ e.cooldown = (IF e.trips = 0 THEN 0 ELSE Backoff(e.trips))
    /\ e.openFor <= e.cooldown /\ e.cooldown <= MaxCooldown
    /\ e.state = "probing" => e.openFor = 0
=============================================================================
