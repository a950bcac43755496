--------------------------- MODULE HealthConsole ---------------------------
(***************************************************************************)
(* The model health page (pages/ModelHealthPage.tsx) of an administrator:  *)
(* the circuits of /v1/admin/model-health, polled every 4 s, the events of *)
(* one of them or of all, and "Mark healthy".  Of the events on show the   *)
(* model keeps whose they are.                                             *)
(***************************************************************************)
EXTENDS Naturals

CONSTANTS Circuits,    \* the (task, model) pairs
          All,         \* no pair
          MaxPolls,    \* polls in flight (bound)
          MaxChanges,  \* changes of a circuit by traffic (bound)
          MaxClicks    \* clicks of a row, of "clear", of "Mark healthy" (bound)

ASSUME ConsoleAssumption ==
    /\ All \notin Circuits
    /\ MaxPolls \in Nat \ {0} /\ MaxChanges \in Nat /\ MaxClicks \in Nat

VARIABLES circuits, changes,  \* the tracker, and how often traffic changed it
          statuses,           \* the circuits on show
          first,              \* no answer has come yet
          noAccess, broken,   \* forbidden, error
          polls,              \* the polls in flight, by slot
          focus, events,      \* whose events are asked for, whose are on show
          eventLoads, asked,  \* loads of events in flight, their number so far
          outdated,           \* history: see EventsAreAsked
          busy,               \* the circuit whose button is locked
          resets, clicks,     \* resets in flight, clicks so far
          crossed             \* history: see LockMeansReset

tracker == <<circuits, changes>>
table   == <<statuses, first, noAccess, broken>>
log     == <<focus, events, eventLoads, asked, outdated>>
marks   == <<busy, resets, clicks, crossed>>
consoleVars == <<tracker, table, polls, log, marks>>

\* A circuit is tracked once it has seen a prediction; probing is unhealthy here.
States == {"untracked", "healthy", "unhealthy"}
Table  == [Circuits -> States]
Slots  == 1..MaxPolls

Unseen == [c \in Circuits |-> "untracked"]
NoPoll == [stage |-> "idle", table |-> Unseen]
Polled == [stage |-> "sent", table |-> Unseen]

ConsoleInit ==
    /\ circuits \in [Circuits -> {"untracked", "unhealthy"}] /\ changes = 0
    /\ statuses = Unseen /\ first = TRUE /\ noAccess = FALSE /\ broken = FALSE
    /\ polls = [i \in Slots |-> IF i = 1 THEN Polled ELSE NoPoll]
    /\ focus = All /\ events = [of |-> All, n |-> 0]
    /\ eventLoads = {[n |-> 1, of |-> All]} /\ asked = 1 /\ outdated = FALSE
    /\ busy = All /\ resets = {} /\ clicks = 0 /\ crossed = FALSE

-----------------------------------------------------------------------------
\* Predictions change a circuit.
Traffic(c, s) ==
    /\ changes < MaxChanges /\ s # "untracked" /\ circuits[c] # s
    /\ circuits' = [circuits EXCEPT ![c] = s] /\ changes' = changes + 1
    /\ UNCHANGED <<table, polls, log, marks>>

\* refresh, sent into a free slot.
Poll == \E i \in Slots : polls[i].stage = "idle" /\ polls' = [polls EXCEPT ![i] = Polled]

\* Faulty: an error ends the polling.
TickUnlessBroken == ~broken /\ Poll /\ UNCHANGED <<tracker, table, log, marks>>

\* Every 4 s, and "Retry" of a page that is in error.
Tick == Poll /\ UNCHANGED <<tracker, table, log, marks>>

\* The tracker is read, and the answer arrives or is lost.
ReadStatus(i) ==
    /\ polls[i].stage = "sent"
    /\ polls' = [polls EXCEPT ![i] = [stage |-> "read", table |-> circuits]]
    /\ UNCHANGED <<tracker, table, log, marks>>

ShowStatus(i) ==
    /\ polls[i].stage = "read"
    /\ statuses' = polls[i].table
    /\ first' = FALSE /\ noAccess' = FALSE /\ broken' = FALSE
    /\ polls' = [polls EXCEPT ![i] = NoPoll]
    /\ UNCHANGED <<tracker, log, marks>>

LoseStatus(i) ==
    /\ polls[i].stage # "idle"
    /\ \/ noAccess' = TRUE /\ UNCHANGED broken
       \/ broken' = TRUE /\ UNCHANGED noAccess
    /\ first' = FALSE
    /\ polls' = [polls EXCEPT ![i] = NoPoll]
    /\ UNCHANGED <<tracker, statuses, log, marks>>

-----------------------------------------------------------------------------
Visible == ~noAccess /\ ~first /\ ~(broken /\ statuses = Unseen)

Shown == {c \in Circuits : statuses[c] # "untracked"}

\* refreshEvents: the events of f; later loads are newer.
AskEvents(f) ==
    /\ asked' = asked + 1
    /\ eventLoads' = eventLoads \cup {[n |-> asked + 1, of |-> f]}

Click == Visible /\ clicks < MaxClicks /\ clicks' = clicks + 1

\* Faulty: the events are not fetched anew.
FocusOnly(f) ==
    /\ Click /\ f # focus
    /\ focus' = f
    /\ UNCHANGED <<tracker, table, polls, events, eventLoads, asked, outdated, busy, resets, crossed>>

\* A click of a row, a second click of it, or "clear".
Focus(f) ==
    /\ Click /\ f \in (Shown \cup {All}) \ {focus}
    /\ focus' = f /\ AskEvents(f) /\ outdated' = FALSE
    /\ UNCHANGED <<tracker, table, polls, events, busy, resets, crossed>>

ShowEvents(r) ==
    /\ r \in eventLoads
    /\ eventLoads' = eventLoads \ {r} /\ events' = [of |-> r.of, n |-> r.n]
    /\ UNCHANGED <<tracker, table, polls, focus, asked, outdated, marks>>

\* A failure is logged only.
LoseEvents(r) ==
    /\ r \in eventLoads
    /\ eventLoads' = eventLoads \ {r}
    /\ UNCHANGED <<tracker, table, polls, focus, events, asked, outdated, marks>>

-----------------------------------------------------------------------------
Live == {r \in resets : r.stage # "abandoned"}

\* The button of a circuit that is not healthy; the handler keeps the focus of now.
MarkHealthy(c) ==
    /\ Click /\ statuses[c] = "unhealthy" /\ busy # c
    /\ busy' = c
    /\ resets' = resets \cup {[n |-> clicks', of |-> c, stage |-> "sent", focus |-> focus]}
    /\ crossed' = (Live # {})
    /\ UNCHANGED <<tracker, table, polls, log>>

\* The server resets a tracked circuit, whether or not the page still waits.
ResetCircuit(r) ==
    /\ r \in resets /\ r.stage # "done" /\ circuits[r.of] # "untracked"
    /\ circuits' = [circuits EXCEPT ![r.of] = "healthy"]
    /\ resets' = (resets \ {r}) \cup
                 (IF r.stage = "sent" THEN {[r EXCEPT !.stage = "done"]} ELSE {})
    /\ UNCHANGED <<changes, table, polls, log, busy, clicks, crossed>>

\* Faulty: only a reset that succeeded releases the button.
RejectedReset(r) ==
    /\ r \in Live
    /\ resets' = (resets \ {r}) \cup
                 (IF r.stage = "sent" THEN {[r EXCEPT !.stage = "abandoned"]} ELSE {})
    /\ UNCHANGED <<tracker, table, polls, log, busy, clicks, crossed>>

\* Then circuits and events are fetched, or the error is shown; either way the
\* button is released, whosever it is.
ResetSucceeded(r) ==
    /\ r \in resets /\ r.stage = "done"
    /\ resets' = resets \ {r} /\ busy' = All
    /\ Poll /\ AskEvents(r.focus) /\ outdated' = (r.focus # focus)
    /\ UNCHANGED <<tracker, table, focus, events, clicks, crossed>>

ResetFailed(r) ==
    /\ r \in Live
    /\ resets' = (resets \ {r}) \cup
                 (IF r.stage = "sent" THEN {[r EXCEPT !.stage = "abandoned"]} ELSE {})
    /\ busy' = All
    /\ UNCHANGED <<tracker, table, polls, log, clicks, crossed>>

-----------------------------------------------------------------------------
ConsoleNext ==
    \/ \E c \in Circuits : MarkHealthy(c) \/ \E s \in States : Traffic(c, s)
    \/ Tick
    \/ \E i \in Slots : ReadStatus(i) \/ ShowStatus(i) \/ LoseStatus(i)
    \/ \E f \in Circuits \cup {All} : Focus(f)
    \/ \E r \in eventLoads : ShowEvents(r) \/ LoseEvents(r)
    \/ \E r \in resets : ResetCircuit(r) \/ ResetSucceeded(r) \/ ResetFailed(r)

ConsoleSpec == ConsoleInit /\ [][ConsoleNext]_consoleVars

-----------------------------------------------------------------------------
\* The variables have their types.
ConsoleTypeOK ==
    /\ circuits \in Table /\ statuses \in Table /\ changes \in Nat
    /\ polls \in [Slots -> [stage : {"idle", "sent", "read"}, table : Table]]
    /\ focus \in Circuits \cup {All} /\ busy \in Circuits \cup {All}
    /\ events \in [of : Circuits \cup {All}, n : Nat]
    /\ eventLoads \subseteq [n : Nat, of : Circuits \cup {All}]
    /\ asked \in Nat /\ clicks \in Nat
    /\ resets \subseteq [n : Nat, of : Circuits, stage : {"sent", "done", "abandoned"},
                         focus : Circuits \cup {All}]
    /\ {first, noAccess, broken, outdated, crossed} \subseteq BOOLEAN

\* When traffic and resets have ended, the table comes to show the tracker for good:
\* no error, and no late answer, ends the polling.
TableCatchesUp == <>[](statuses = circuits)

\* When the newest load of events has arrived and nothing else is out, the events
\* are those of the circuit the page names; but for a reset that was answered
\* after the focus had moved.
EventsAreAsked ==
    eventLoads = {} /\ events.n = asked /\ ~outdated => events.of = focus

\* A button is locked only while its reset is out; and while resets of several
\* circuits did not overlap, every reset that is out locks its button.
LockMeansReset ==
    /\ busy # All => \E r \in Live : r.of = busy
    /\ ~crossed => \A r \in Live : r.of = busy
=============================================================================
