--------------------------- MODULE HealthTracker ---------------------------
(***************************************************************************)
(* The health tracker under concurrent use.  Each call asks Allow, talks   *)
(* to the model without holding the lock, and then records a success, a    *)
(* failure or nothing at all.  The event of a Record or a Reset is built   *)
(* under the lock and handed to the sink after it was released, so between *)
(* the two any other caller may move the circuit and emit its own event.   *)
(***************************************************************************)
EXTENDS Breaker, Sequences, FiniteSets, Bags

CONSTANTS Pairs,    \* the (task, model) pairs
          Calls,    \* model calls, each made once (bounds every counter)
          Resets,   \* admin resets, each made once
          NoEvent   \* a caller with no event to hand to the sink

ASSUME TrackerAssumption ==
    /\ Calls \cap Resets = {}
    /\ IsFiniteSet(Calls) /\ IsFiniteSet(Resets)

Callers == Calls \cup Resets

Event == [pair : Pairs, kind : {"failure", "tripped", "recovered", "manual_reset"},
          state : CircuitState]

ASSUME NoEventAssumption == NoEvent \notin Event

VARIABLES entries,   \* Tracker.entries
          phase,     \* progress of each caller
          target,    \* the pair a caller works on (meaningful once it started)
          saw,       \* the state Allow returned to a call
          pending,   \* event built under the lock, not yet with the sink
          sunk,      \* events in the order the sink received them
          issued,    \* history: events in the order of the transitions
          outcomes   \* history: what was recorded for each pair, in order

trackerVars == <<entries, phase, target, saw, pending, sunk, issued, outcomes>>

TrackerInit ==
    /\ entries  = [p \in Pairs |-> FreshEntry]
    /\ phase    = [c \in Callers |-> "idle"]
    /\ target   \in [Callers -> Pairs]
    /\ saw      = [c \in Calls |-> "healthy"]
    /\ pending  = [c \in Callers |-> NoEvent]
    /\ sunk     = <<>>
    /\ issued   = <<>>
    /\ outcomes = [p \in Pairs |-> <<>>]

-----------------------------------------------------------------------------
\* Tracker.Allow: one lock section, which emits nothing.
Allow(c) ==
    LET e == entries[target[c]] IN
    /\ phase[c] = "idle"
    /\ entries' = [entries EXCEPT ![target[c]] = AfterAllow(e)]
    /\ phase' = [phase EXCEPT ![c] = IF Allowed(e) THEN "calling" ELSE "skipped"]
    /\ saw'   = [saw EXCEPT ![c] = AfterAllow(e).state]
    /\ UNCHANGED <<target, pending, sunk, issued, outcomes>>

\* The event a lock section leaves behind for the sink.
Issue(c, kind) ==
    LET ev == [pair |-> target[c], kind |-> kind, state |-> entries'[target[c]].state]
    IN  /\ pending' = [pending EXCEPT ![c] = ev]
        /\ issued'  = Append(issued, ev)

IssueNothing == UNCHANGED <<pending, issued>>

\* RecordSuccess emits "recovered" only if the circuit was not healthy.
RecordSuccess(c) ==
    LET e == entries[target[c]] IN
    /\ phase[c] = "calling"
    /\ entries' = [entries EXCEPT ![target[c]] = AfterSuccess(e)]
    /\ phase' = [phase EXCEPT ![c] = "recorded"]
    /\ IF e.state # "healthy" THEN Issue(c, "recovered") ELSE IssueNothing
    /\ outcomes' = [outcomes EXCEPT ![target[c]] = Append(@, "success")]
    /\ UNCHANGED <<target, saw, sunk>>

\* RecordFailure always emits: "tripped" when it tripped, else "failure".
RecordFailure(c) ==
    LET e == entries[target[c]]
        f == AfterFailure(e) IN
    /\ phase[c] = "calling"
    /\ entries' = [entries EXCEPT ![target[c]] = f]
    /\ phase' = [phase EXCEPT ![c] = "recorded"]
    /\ Issue(c, IF f.trips > e.trips THEN "tripped" ELSE "failure")
    /\ outcomes' = [outcomes EXCEPT ![target[c]] = Append(@, "failure")]
    /\ UNCHANGED <<target, saw, sunk>>

\* The walk records nothing for a cache hit, a 400/422, an empty answer or a
\* cancelled caller (internal/llm/fallback.go).
RecordNothing(c) ==
    /\ phase[c] = "calling"
    /\ phase' = [phase EXCEPT ![c] = "recorded"]
    /\ UNCHANGED <<entries, target, saw, pending, sunk, issued, outcomes>>

\* Tracker.Reset returns early for a pair it never saw.
Reset(a) ==
    /\ phase[a] = "idle"
    /\ entries[target[a]].seen
    /\ entries' = [entries EXCEPT ![target[a]] = AfterReset(@)]
    /\ phase' = [phase EXCEPT ![a] = "recorded"]
    /\ Issue(a, "manual_reset")
    /\ outcomes' = [outcomes EXCEPT ![target[a]] = Append(@, "reset")]
    /\ UNCHANGED <<target, saw, sunk>>

\* Faulty: an event may be handed over again.
EmitAgain(c) ==
    /\ pending[c] # NoEvent
    /\ sunk' = Append(sunk, pending[c])
    /\ UNCHANGED <<entries, phase, target, saw, pending, issued, outcomes>>

\* Tracker.emit, outside the lock.
Emit(c) ==
    /\ pending[c] # NoEvent
    /\ sunk'    = Append(sunk, pending[c])
    /\ pending' = [pending EXCEPT ![c] = NoEvent]
    /\ UNCHANGED <<entries, phase, target, saw, issued, outcomes>>

\* Time matters to the tracker only while a cooldown runs.
Elapse ==
    /\ \E p \in Pairs : entries[p].openFor > 0
    /\ entries' = [p \in Pairs |-> AfterTick(entries[p])]
    /\ UNCHANGED <<phase, target, saw, pending, sunk, issued, outcomes>>

TrackerNext ==
    \/ \E c \in Calls : \/ Allow(c)
                        \/ RecordSuccess(c)
                        \/ RecordFailure(c)
                        \/ RecordNothing(c)
    \/ \E a \in Resets : Reset(a)
    \/ \E c \in Callers : Emit(c)
    \/ Elapse

TrackerSpec == TrackerInit /\ [][TrackerNext]_trackerVars

\* Time passes, and a goroutine that left the lock reaches its sink call.
\* Nothing forces a call to start or a model to answer.
Fairness == WF_trackerVars(Elapse) /\ \A c \in Callers : WF_trackerVars(Emit(c))

TrackerFairSpec == TrackerSpec /\ Fairness

-----------------------------------------------------------------------------
Phase == {"idle", "calling", "skipped", "recorded"}

TrackerTypeOK ==
    /\ entries  \in [Pairs -> Entry]
    /\ phase    \in [Callers -> Phase]
    /\ target   \in [Callers -> Pairs]
    /\ saw      \in [Calls -> CircuitState]
    /\ pending  \in [Callers -> Event \cup {NoEvent}]
    /\ sunk     \in Seq(Event)
    /\ issued   \in Seq(Event)
    /\ outcomes \in [Pairs -> Seq({"success", "failure", "reset"})]

\* Every circuit's fields agree with one another at every moment (see
\* Consistent in Breaker): no interleaving of calls, probes, ticks and resets
\* leaves a healthy circuit with a trip or a cooldown of an earlier outage, or
\* an open one with a cooldown its run of failures has not earned.
CircuitConsistent == \A p \in Pairs : Consistent(entries[p])

\* h ends with exactly n failures in a row.
EndsInFailures(h, n) ==
    /\ n <= Len(h)
    /\ \A i \in 1..Len(h) : i > Len(h) - n => h[i] = "failure"
    /\ n < Len(h) => h[Len(h) - n] # "failure"

\* Whatever the interleaving of concurrent calls, resets and probes, the
\* circuit is a function of the outcomes recorded for its own pair: open
\* exactly when the last Threshold of them are failures (tracker.go's "after
\* Threshold consecutive failures the model is tripped"; a success or an
\* admin reset closes it at once), and blind to outcomes of other pairs and
\* to calls that recorded nothing.
OpenIffRecentFailures ==
    \A p \in Pairs :
        /\ EndsInFailures(outcomes[p], entries[p].consecutive)
        /\ (entries[p].state # "healthy") <=> (entries[p].consecutive >= Threshold)

SeqBag(s) == [x \in {s[i] : i \in DOMAIN s} |-> Cardinality({i \in DOMAIN s : s[i] = x})]

PendingBag == LET waiting == {c \in Callers : pending[c] # NoEvent}
              IN  [x \in {pending[c] : c \in waiting} |->
                      Cardinality({c \in waiting : pending[c] = x})]

\* No event is lost or duplicated on its way out of the lock: what the sink
\* has received and what callers still hold is what the transitions issued.
EventsConserved == SeqBag(issued) = SeqBag(sunk) (+) PendingBag

\* A tripped circuit does not stay shut for ever: late failures of calls
\* admitted before the trip can prolong the cooldown, but a trial call or a
\* recovery becomes possible.
TrialEventuallyAllowed ==
    \A p \in Pairs : (entries[p].state = "unhealthy") ~> Allowed(entries[p])
=============================================================================
