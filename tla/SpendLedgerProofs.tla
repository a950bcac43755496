------------------------- MODULE SpendLedgerProofs --------------------------
(***************************************************************************)
(* Proofs about SpendLedger, for any number of requests, any channel and   *)
(* any limits: what becomes of run rows, of a shutdown, of the cached view *)
(* of the day's spend, and by how much the spend passes the budget.        *)
(***************************************************************************)
EXTENDS SpendLedger, SumTheorems, FiniteSetTheorems, TLAPS

USE WriterAssumption, LedgerAssumption, NoViewAssumption DEF Requests

-----------------------------------------------------------------------------
(* The channel as a set. *)

LEMMA QueuedAppended ==
    ASSUME NEW r \in Rows, queue \in Seq(Rows), queue' = Append(queue, r)
    PROVE  Queued' = Queued \cup {r}
<1>1. /\ Len(queue') = Len(queue) + 1 /\ DOMAIN queue' = 1..Len(queue')
      /\ DOMAIN queue = 1..Len(queue) /\ Len(queue) \in Nat
      /\ queue'[Len(queue) + 1] = r
      /\ \A i \in 1..Len(queue) : queue'[i] = queue[i]
  OBVIOUS
<1>2. DOMAIN queue' = DOMAIN queue \cup {Len(queue) + 1}
  BY <1>1
<1>3. QED
  BY <1>1, <1>2 DEF Queued

LEMMA QueuedTaken ==
    ASSUME queue \in Seq(Rows), queue # <<>>, queue' = Tail(queue)
    PROVE  /\ Head(queue) \in Rows /\ queue[1] = Head(queue)
           /\ Queued = Queued' \cup {Head(queue)}
<1>1. /\ Len(queue) \in Nat \ {0} /\ DOMAIN queue = 1..Len(queue)
      /\ Len(queue') = Len(queue) - 1 /\ DOMAIN queue' = 1..(Len(queue) - 1)
      /\ \A i \in 1..(Len(queue) - 1) : queue'[i] = queue[i + 1]
      /\ Head(queue) = queue[1] /\ Head(queue) \in Rows
  OBVIOUS
<1>2. Queued' \cup {Head(queue)} \subseteq Queued
  BY <1>1 DEF Queued
<1>3. ASSUME NEW x \in Queued PROVE x \in Queued' \cup {Head(queue)}
  <2>1. PICK i \in 1..Len(queue) : x = queue[i]
    BY <1>1 DEF Queued
  <2>2. CASE i = 1
    BY <1>1, <2>1, <2>2
  <2>3. CASE i # 1
    <3>1. i - 1 \in 1..(Len(queue) - 1) /\ queue'[i - 1] = queue[i]
      BY <1>1, <2>1, <2>3
    <3>2. QED
      BY <1>1, <2>1, <3>1 DEF Queued
  <2>4. QED
    BY <2>2, <2>3
<1>4. QED
  BY <1>1, <1>2, <1>3

-----------------------------------------------------------------------------
(* What holds of every state. *)

\* A row is in one place, and has left its handler.
InOnePlace ==
    /\ \A i, j \in 1..Len(queue) : queue[i] = queue[j] => i = j
    /\ \A r \in Rows :
          /\ r \in Queued => r # hand /\ r \notin stored /\ lost[r] = "kept"
          /\ r = hand => r \notin stored /\ lost[r] = "kept"
          /\ r \in stored => lost[r] = "kept"
          /\ pc[r] \in {"idle", "running"} =>
                r \notin Queued /\ r # hand /\ r \notin stored /\ lost[r] = "kept"
          /\ pc[r] \in {"written", "done"} =>
                r \in Queued \/ r = hand \/ r \in stored \/ lost[r] # "kept"

\* The writer is closed only when main is past Shutdown, with no handler left unless
\* the wait for them ran out.
ClosedLate ==
    /\ closed => server \in {"closing", "down"}
    /\ server = "closing" /\ ~timedOut => Active = {}
    /\ \A r \in Rows : lost[r] = "closed" => timedOut

\* The cached view, stale or not, has the rows counted today but for those the
\* refresh missed.
ViewCovers ==
    /\ \A r \in Rows : born[r] <= day
    /\ view # NoView =>
          \A r \in Rows : pc[r] = "done" /\ born[r] = day /\ cost[r] > 0 /\ lost[r] = "kept"
                             => r \in view.base \cup view.added \cup view.missed

\* The rows the refresh found that were added too, or may be yet.
Twice == view.base \cap (view.added \cup Active)

FewTwice ==
    view # NoView => /\ view.base \subseteq stored
                     /\ Cardinality(Twice) < Slots

LedgerInv == /\ TypeOK
             /\ InOnePlace
             /\ ClosedLate
             /\ ViewCovers
             /\ FewTwice

LEMMA LedgerInit == Init => LedgerInv
<1> SUFFICES ASSUME Init PROVE LedgerInv
  OBVIOUS
<1> USE DEF Init, WriterInit
<1>1. queue = <<>> /\ queue \in Seq(Rows) /\ Len(queue) = 0 /\ Queued = {}
  BY DEF Queued
<1>2. TypeOK
  <2>1. WriterTypeOK
    <3>1. queue \in Seq(Rows) /\ Len(queue) <= BufSize
      BY <1>1 DEF Init
    <3>2. lost \in [Rows -> Reason]
      BY DEF Reason
    <3>3. QED
      BY <3>1, <3>2 DEF WriterTypeOK
  <2>2. 0 \in 0..LastBoot /\ 0 \in 0..LastDay
    OBVIOUS
  <2>3. QED
    BY <2>1, <2>2 DEF TypeOK
<1>3. InOnePlace
  BY <1>1 DEF InOnePlace
<1>4. ClosedLate /\ ViewCovers /\ FewTwice
  BY DEF ClosedLate, ViewCovers, FewTwice
<1>5. QED
  BY <1>2, <1>3, <1>4 DEF LedgerInv

-----------------------------------------------------------------------------
(* Types. *)

LEMMA ViewTyped ==
    ASSUME TypeOK
    PROVE  /\ Refreshed \in View /\ CurrentView \in View
           /\ CurrentView # NoView
<1>1. Refreshed \in View
  <2>1. StoredToday \subseteq Rows
    BY DEF StoredToday, TypeOK, WriterTypeOK
  <2>2. (Queued \cup {hand}) \ {NoRow} \subseteq Rows
    BY DEF Queued, TypeOK, WriterTypeOK
  <2>3. QED
    BY <2>1, <2>2 DEF Refreshed, View
<1>2. QED
  BY <1>1 DEF CurrentView, Fresh, TypeOK

LEMMA CutShortTyped ==
    ASSUME TypeOK
    PROVE  CutShort \in [Rows -> {"idle", "ended", "running", "written", "done"}]
BY DEF TypeOK, CutShort

LEMMA TypeStep == TypeOK /\ [Next]_vars => TypeOK'
<1> SUFFICES ASSUME TypeOK, [Next]_vars PROVE TypeOK'
  OBVIOUS
<1> USE DEF TypeOK, WriterTypeOK
<1>1. ASSUME NEW r \in Requests, Gate(r) PROVE TypeOK'
  BY <1>1, ViewTyped DEF Gate, writerVars, serverVars
<1>2. ASSUME NEW r \in Requests, GateError(r) \/ Test(r) \/ Reject(r) PROVE TypeOK'
  BY <1>2 DEF GateError, Test, Reject, writerVars, serverVars
<1>3. ASSUME NEW r \in Requests, NEW c \in Costs, Answer(r, c) PROVE TypeOK'
  <2>1. Len(queue) < BufSize => Append(queue, r) \in Seq(Rows) /\ Len(Append(queue, r)) <= BufSize
    OBVIOUS
  <2>2. WriterTypeOK'
    BY <1>3, <2>1 DEF Answer, Write, Reason
  <2>3. QED
    BY <1>3, <2>2 DEF Answer, serverVars
<1>4. ASSUME NEW r \in Requests, Count(r) PROVE TypeOK'
  <2>1. view # NoView => [view EXCEPT !.added = @ \cup {r}] \in View
    BY DEF View
  <2>2. QED
    BY <1>4, <2>1 DEF Count, writerVars, serverVars
<1>5. CASE Drain
  <2>1. queue # <<>> => /\ Head(queue) \in Rows /\ Tail(queue) \in Seq(Rows)
                        /\ Len(Tail(queue)) <= BufSize
    OBVIOUS
  <2>2. WriterTypeOK'
    BY <1>5, <2>1 DEF Drain, Take, Inserted, Reason
  <2>3. QED
    BY <1>5, <2>2 DEF Drain, serverVars
<1>6. CASE Tick
  <2>1. view # NoView /\ view.age < TTL => [view EXCEPT !.age = @ + 1] \in View
    <3>1. SUFFICES ASSUME view \in View, view.age < TTL
                   PROVE  [view EXCEPT !.age = @ + 1] \in View
      OBVIOUS
    <3>2. view.age \in 0..TTL
      BY <3>1 DEF View
    <3>3. view.age + 1 \in 0..TTL
      BY <3>1, <3>2
    <3>4. QED
      BY <3>1, <3>3 DEF View
  <2>2. QED
    BY <1>6, <2>1 DEF Tick, writerVars, serverVars
<1>7. CASE Midnight
  BY <1>7 DEF Midnight, writerVars, serverVars
<1>8. CASE Terminate
  BY <1>8 DEF Terminate, writerVars
<1>9. CASE ShutDown
  BY <1>9 DEF ShutDown, CloseChannel
<1>10. CASE Exit
  BY <1>10, CutShortTyped DEF Exit, writerVars
<1>11. CASE Crash
  <2>1. <<>> \in Seq(Rows) /\ Len(<<>>) = 0
    OBVIOUS
  <2>2. WriterTypeOK'
    <3>1. queue' = <<>> /\ hand' = NoRow /\ stored' = stored /\ closed' = FALSE
      BY <1>11 DEF Crash, Vanish
    <3>2. lost' \in [Rows -> Reason]
      BY <1>11 DEF Crash, Vanish, Reason
    <3>3. queue' \in Seq(Rows) /\ Len(queue') <= BufSize
      BY <2>1, <3>1
    <3>4. QED
      BY <3>1, <3>2, <3>3
  <2>3. QED
    BY <1>11, <2>2, CutShortTyped DEF Crash
<1>12. CASE Restart
  <2>1. boots + 1 \in 0..LastBoot
    BY <1>12 DEF Restart
  <2>2. QED
    BY <1>12, <2>1 DEF Restart
<1>13. CASE UNCHANGED vars
  BY <1>13 DEF vars, writerVars, serverVars
<1>14. QED
  BY <1>1, <1>2, <1>3, <1>4, <1>5, <1>6, <1>7, <1>8, <1>9, <1>10, <1>11, <1>12, <1>13
     DEF Next, Handler

-----------------------------------------------------------------------------
(* Places. *)

\* A step that leaves the writer alone, and makes no row written or fresh.
LEMMA PlacesKept ==
    ASSUME InOnePlace,
           queue' = queue, hand' = hand, stored' = stored, lost' = lost,
           \A r \in Rows : /\ pc'[r] \in {"idle", "running"} => pc[r] \in {"idle", "running"}
                           /\ pc'[r] \in {"written", "done"} => pc[r] \in {"written", "done"}
    PROVE  InOnePlace'
<1>1. Queued' = Queued
  BY DEF Queued
<1>2. QED
  BY <1>1 DEF InOnePlace

LEMMA PlacesWritten ==
    ASSUME TypeOK, InOnePlace, NEW r \in Rows, NEW c \in Costs, Answer(r, c)
    PROVE  InOnePlace'
<1> USE DEF TypeOK, WriterTypeOK
<1>1. /\ pc[r] = "running" /\ pc' = [pc EXCEPT ![r] = "written"]
      /\ hand' = hand /\ stored' = stored
  BY DEF Answer, Write
<1>2. /\ r \notin Queued /\ r # hand /\ r \notin stored /\ lost[r] = "kept"
  BY <1>1 DEF InOnePlace
<1>3. CASE ~closed /\ Len(queue) < BufSize
  <2>1. lost' = [lost EXCEPT ![r] = "kept"] /\ queue' = Append(queue, r)
    <3>1. ~(Len(queue) >= BufSize)
      BY <1>3
    <3>2. QED
      BY <1>3, <3>1 DEF Answer, Write
  <2>2. Queued' = Queued \cup {r}
    BY <2>1, QueuedAppended
  <2>3. \A i \in 1..Len(queue) : queue[i] # r
    BY <1>2 DEF Queued
  <2>4. /\ Len(queue') = Len(queue) + 1 /\ queue'[Len(queue) + 1] = r
        /\ \A i \in 1..Len(queue) : queue'[i] = queue[i]
    BY <2>1
  <2>5. \A i, j \in 1..Len(queue') : queue'[i] = queue'[j] => i = j
    <3>1. \A i \in 1..Len(queue') : i \in 1..Len(queue) \/ i = Len(queue) + 1
      <4>1. Len(queue) \in Nat
        OBVIOUS
      <4> HIDE DEF TypeOK, WriterTypeOK
      <4>2. QED
        BY <2>4, <4>1
    <3>2. \A i, j \in 1..Len(queue) : queue[i] = queue[j] => i = j
      BY DEF InOnePlace
    <3>3. QED
      BY <2>3, <2>4, <3>1, <3>2
  <2>6. QED
    BY <1>1, <1>2, <2>1, <2>2, <2>5 DEF InOnePlace
<1>4. CASE closed \/ Len(queue) >= BufSize
  <2>1. queue' = queue /\ \E why \in {"closed", "full"} : lost' = [lost EXCEPT ![r] = why]
    BY <1>4 DEF Answer, Write
  <2>2. Queued' = Queued
    BY <2>1 DEF Queued
  <2>3. QED
    BY <1>1, <1>2, <2>1, <2>2 DEF InOnePlace
<1>5. QED
  BY <1>3, <1>4

LEMMA PlacesDrained == TypeOK /\ InOnePlace /\ Drain => InOnePlace'
<1> SUFFICES ASSUME TypeOK, InOnePlace, Drain PROVE InOnePlace'
  OBVIOUS
<1> USE DEF TypeOK, WriterTypeOK
<1>1. pc' = pc
  BY DEF Drain
<1>2. CASE Take
  <2>1. /\ hand = NoRow /\ queue # <<>> /\ hand' = Head(queue) /\ queue' = Tail(queue)
        /\ stored' = stored /\ lost' = lost
    BY <1>2 DEF Take
  <2>2. /\ Head(queue) \in Rows /\ queue[1] = Head(queue)
        /\ Queued = Queued' \cup {Head(queue)}
    BY <2>1, QueuedTaken
  <2>3. /\ Len(queue) \in Nat \ {0} /\ Len(queue') = Len(queue) - 1
        /\ \A i \in 1..(Len(queue) - 1) : queue'[i] = queue[i + 1]
        /\ DOMAIN queue' = 1..(Len(queue) - 1)
    BY <2>1
  <2>4. \A i, j \in 1..Len(queue) : queue[i] = queue[j] => i = j
    BY DEF InOnePlace
  <2>5. \A i, j \in 1..Len(queue') : queue'[i] = queue'[j] => i = j
    <3>1. SUFFICES ASSUME NEW i \in 1..Len(queue'), NEW j \in 1..Len(queue'),
                          queue'[i] = queue'[j]
                   PROVE  i = j
      OBVIOUS
    <3>2. i + 1 \in 1..Len(queue) /\ j + 1 \in 1..Len(queue)
      BY <2>3
    <3>3. queue[i + 1] = queue[j + 1]
      BY <2>3, <3>1
    <3>4. i + 1 = j + 1
      BY <2>4, <3>2, <3>3
    <3>5. i \in Nat /\ j \in Nat
      BY <2>3
    <3>6. QED
      BY <3>4, <3>5
  <2>6. Head(queue) \notin Queued'
    <3>1. SUFFICES ASSUME NEW i \in 1..(Len(queue) - 1), queue'[i] = Head(queue) PROVE FALSE
      BY <2>3 DEF Queued
    <3>2. i + 1 \in 1..Len(queue) /\ 1 \in 1..Len(queue) /\ queue[i + 1] = queue[1]
      BY <2>2, <2>3, <3>1
    <3>3. QED
      BY <2>4, <3>2
  <2>7. QED
    BY <1>1, <2>1, <2>2, <2>5, <2>6 DEF InOnePlace
<1>3. ASSUME NEW ok \in BOOLEAN, Inserted(ok) PROVE InOnePlace'
  <2>1. hand \in Rows /\ hand' = NoRow /\ queue' = queue
    BY <1>3 DEF Inserted
  <2>2. Queued' = Queued
    BY <2>1 DEF Queued
  <2>3. hand \notin Queued
    BY <2>1 DEF InOnePlace
  <2>4. CASE ok
    BY <1>1, <1>3, <2>1, <2>2, <2>3, <2>4 DEF Inserted, InOnePlace
  <2>5. CASE ~ok
    BY <1>1, <1>3, <2>1, <2>2, <2>3, <2>5 DEF Inserted, InOnePlace
  <2>6. QED
    BY <2>4, <2>5
<1>4. QED
  BY <1>2, <1>3 DEF Drain

\* What a process that ends leaves behind.
LEMMA PlacesCrashed == TypeOK /\ InOnePlace /\ Crash => InOnePlace'
<1> SUFFICES ASSUME TypeOK, InOnePlace, Crash PROVE InOnePlace'
  OBVIOUS
<1>1. queue' = <<>> /\ Len(queue') = 0 /\ Queued' = {} /\ hand' = NoRow /\ stored' = stored
  BY DEF Crash, Vanish, Queued
<1>2. \A r \in Rows : lost'[r] = IF r \in Queued \cup {hand} THEN "crash" ELSE lost[r]
  BY DEF Crash, Vanish
<1>3. \A r \in Rows : pc'[r] = IF pc[r] \in {"running", "written"} THEN "ended" ELSE pc[r]
  BY DEF Crash, CutShort, Active
<1>4. QED
  BY <1>1, <1>2, <1>3 DEF InOnePlace, TypeOK

LEMMA PlacesStep == TypeOK /\ InOnePlace /\ [Next]_vars => InOnePlace'
<1> SUFFICES ASSUME TypeOK, InOnePlace, [Next]_vars PROVE InOnePlace'
  OBVIOUS
<1>1. ASSUME NEW r \in Requests, Gate(r) \/ GateError(r) \/ Test(r) PROVE InOnePlace'
  <2>1. /\ queue' = queue /\ hand' = hand /\ stored' = stored /\ lost' = lost
        /\ \E p \in {"ended", "running"} : pc' = [pc EXCEPT ![r] = p]
        /\ pc[r] = "idle" /\ pc \in [Rows -> {"idle", "ended", "running", "written", "done"}]
    BY <1>1 DEF Gate, GateError, Test, Begin, writerVars, TypeOK
  <2>2. QED
    BY <2>1, PlacesKept
<1>2. ASSUME NEW r \in Requests, Reject(r) \/ Count(r) PROVE InOnePlace'
  <2>1. /\ queue' = queue /\ hand' = hand /\ stored' = stored /\ lost' = lost
        /\ \/ pc[r] = "running" /\ pc' = [pc EXCEPT ![r] = "ended"]
           \/ pc[r] = "written" /\ pc' = [pc EXCEPT ![r] = "done"]
        /\ pc \in [Rows -> {"idle", "ended", "running", "written", "done"}]
    BY <1>2 DEF Reject, Count, writerVars, TypeOK
  <2>2. QED
    BY <2>1, PlacesKept
<1>3. ASSUME NEW r \in Requests, NEW c \in Costs, Answer(r, c) PROVE InOnePlace'
  BY <1>3, PlacesWritten
<1>4. CASE Drain
  BY <1>4, PlacesDrained
<1>5. CASE Tick \/ Midnight \/ Terminate \/ ShutDown \/ Restart \/ UNCHANGED vars
  <2>1. queue' = queue /\ hand' = hand /\ stored' = stored /\ lost' = lost /\ pc' = pc
    BY <1>5 DEF Tick, Midnight, Terminate, ShutDown, CloseChannel, Restart, vars, writerVars
  <2>2. QED
    BY <2>1, PlacesKept
<1>6. CASE Exit
  <2>1. queue' = queue /\ hand' = hand /\ stored' = stored /\ lost' = lost
    BY <1>6 DEF Exit, writerVars
  <2>2. \A r \in Rows : pc'[r] = IF pc[r] \in {"running", "written"} THEN "ended" ELSE pc[r]
    BY <1>6 DEF Exit, CutShort, Active
  <2>3. QED
    BY <2>1, <2>2, PlacesKept
<1>7. CASE Crash
  BY <1>7, PlacesCrashed
<1>8. QED
  BY <1>1, <1>2, <1>3, <1>4, <1>5, <1>6, <1>7 DEF Next, Handler

-----------------------------------------------------------------------------
(* Shutdown. *)

LEMMA ShutdownStep == TypeOK /\ ClosedLate /\ [Next]_vars => ClosedLate'
<1> SUFFICES ASSUME TypeOK, ClosedLate, [Next]_vars PROVE ClosedLate'
  OBVIOUS
<1> USE DEF TypeOK, WriterTypeOK, ClosedLate
<1>1. ASSUME NEW r \in Requests, Gate(r) \/ GateError(r) \/ Test(r) PROVE ClosedLate'
  BY <1>1 DEF Gate, GateError, Test, Begin, writerVars, serverVars
<1>2. ASSUME NEW r \in Requests, Reject(r) \/ Count(r) PROVE ClosedLate'
  <2>1. /\ closed' = closed /\ server' = server /\ timedOut' = timedOut /\ lost' = lost
        /\ r \in Active
    BY <1>2 DEF Reject, Count, writerVars, serverVars, Active
  <2>2. QED
    BY <2>1
<1>3. ASSUME NEW r \in Requests, NEW c \in Costs, Answer(r, c) PROVE ClosedLate'
  <2>1. r \in Active /\ server # "down" /\ server' = server /\ timedOut' = timedOut /\ closed' = closed
    BY <1>3 DEF Answer, Write, serverVars, Active
  <2>2. \A q \in Rows : lost'[q] = "closed" => lost[q] = "closed" \/ closed
    BY <1>3 DEF Answer, Write
  <2>3. closed => timedOut
    BY <2>1
  <2>4. QED
    BY <2>1, <2>2, <2>3
<1>4. CASE Drain
  <2>1. /\ closed' = closed /\ server' = server /\ timedOut' = timedOut /\ Active' = Active
        /\ \A q \in Rows : lost'[q] = "closed" => lost[q] = "closed"
    BY <1>4 DEF Drain, Take, Inserted, serverVars, Active
  <2>2. QED
    BY <2>1
<1>5. CASE Tick \/ Midnight \/ UNCHANGED vars
  <2>1. /\ closed' = closed /\ server' = server /\ timedOut' = timedOut /\ lost' = lost /\ Active' = Active
    BY <1>5 DEF Tick, Midnight, vars, writerVars, serverVars, Active
  <2>2. QED
    BY <2>1
<1>6. CASE Terminate
  BY <1>6 DEF Terminate, writerVars
<1>7. CASE ShutDown
  BY <1>7 DEF ShutDown, CloseChannel, Active
<1>8. CASE Exit
  BY <1>8 DEF Exit, writerVars
<1>9. CASE Crash
  BY <1>9 DEF Crash, Vanish
<1>10. CASE Restart
  BY <1>10 DEF Restart
<1>11. QED
  BY <1>1, <1>2, <1>3, <1>4, <1>5, <1>6, <1>7, <1>8, <1>9, <1>10 DEF Next, Handler

-----------------------------------------------------------------------------
(* The view covers what was counted. *)

LEMMA CoversKept ==
    ASSUME ViewCovers, day' = day, born' = born,
           \/ view' = NoView
           \/ view # NoView /\ view \in View /\ view' \in View
              /\ view'.base = view.base /\ view'.missed = view.missed
              /\ view.added \subseteq view'.added,
           \A r \in Rows : pc'[r] = "done" /\ lost'[r] = "kept" /\ cost'[r] > 0 =>
               \/ pc[r] = "done" /\ lost[r] = "kept" /\ cost[r] > 0
               \/ view' # NoView /\ r \in view'.added
    PROVE  ViewCovers'
BY DEF ViewCovers, View

LEMMA CoversRefreshed ==
    ASSUME TypeOK, InOnePlace, ViewCovers, view' = Refreshed,
           day' = day, born' = born, cost' = cost, lost' = lost,
           \A r \in Rows : pc'[r] = "done" => pc[r] = "done"
    PROVE  ViewCovers'
<1>1. ASSUME NEW r \in Rows, pc[r] = "done", born[r] = day, lost[r] = "kept"
      PROVE  r \in Refreshed.base \cup Refreshed.missed
  <2>1. r \in Queued \/ r = hand \/ r \in stored
    BY <1>1 DEF InOnePlace
  <2>2. r # NoRow
    OBVIOUS
  <2>3. QED
    BY <1>1, <2>1, <2>2 DEF Refreshed, StoredToday
<1>2. QED
  BY <1>1 DEF ViewCovers

LEMMA CoversStep == TypeOK /\ InOnePlace /\ ViewCovers /\ [Next]_vars => ViewCovers'
<1> SUFFICES ASSUME TypeOK, InOnePlace, ViewCovers, [Next]_vars PROVE ViewCovers'
  OBVIOUS
<1>1. /\ view \in View \cup {NoView} /\ cost \in [Rows -> Costs \cup {0}]
      /\ pc \in [Rows -> {"idle", "ended", "running", "written", "done"}]
      /\ lost \in [Rows -> Reason] /\ born \in [Rows -> 0..LastDay] /\ day \in 0..LastDay
  BY DEF TypeOK, WriterTypeOK
<1>2. ASSUME NEW r \in Requests, Gate(r) PROVE ViewCovers'
  <2>1. /\ view' = CurrentView /\ day' = day /\ born' = born /\ cost' = cost /\ lost' = lost
        /\ \A q \in Rows : pc'[q] = "done" => pc[q] = "done"
    BY <1>1, <1>2 DEF Gate, writerVars
  <2>2. CASE Fresh
    BY <1>1, <2>1, <2>2, CoversKept DEF CurrentView, Fresh
  <2>3. CASE ~Fresh
    BY <2>1, <2>3, CoversRefreshed DEF CurrentView
  <2>4. QED
    BY <2>2, <2>3
<1>3. ASSUME NEW r \in Requests, GateError(r) \/ Test(r) \/ Reject(r) PROVE ViewCovers'
  <2>1. /\ view' = view /\ day' = day /\ born' = born /\ cost' = cost /\ lost' = lost
        /\ \A q \in Rows : pc'[q] = "done" => pc[q] = "done"
    BY <1>1, <1>3 DEF GateError, Test, Reject, writerVars
  <2>2. QED
    BY <1>1, <2>1, CoversKept
<1>4. ASSUME NEW r \in Requests, NEW c \in Costs, Answer(r, c) PROVE ViewCovers'
  <2>1. /\ view' = view /\ day' = day /\ pc'[r] = "written" /\ born'[r] = day
        /\ \A q \in Rows \ {r} : /\ pc'[q] = pc[q] /\ born'[q] = born[q]
                                 /\ cost'[q] = cost[q] /\ lost'[q] = lost[q]
    BY <1>1, <1>4 DEF Answer, Write
  <2>2. QED
    BY <1>1, <2>1 DEF ViewCovers
<1>5. ASSUME NEW r \in Requests, Count(r) PROVE ViewCovers'
  <2>1. /\ day' = day /\ born' = born /\ cost' = cost /\ lost' = lost
        /\ \A q \in Rows : pc'[q] = "done" => pc[q] = "done" \/ q = r
    BY <1>1, <1>5 DEF Count, writerVars
  <2>2. CASE cost[r] = 0 \/ view = NoView
    <3>1. view' = view
      BY <1>5, <2>2 DEF Count
    <3>2. QED
      BY <1>1, <2>1, <2>2, <3>1 DEF ViewCovers
  <2>3. CASE cost[r] # 0 /\ view # NoView
    <3>1. view' = [view EXCEPT !.added = @ \cup {r}]
      BY <1>5, <2>3 DEF Count
    <3>2. /\ view' \in View /\ view'.base = view.base /\ view'.missed = view.missed
          /\ view'.added = view.added \cup {r}
      BY <1>1, <2>3, <3>1 DEF View
    <3>3. QED
      BY <1>1, <2>1, <2>3, <3>2, CoversKept
  <2>4. QED
    BY <2>2, <2>3
<1>6. CASE Drain
  <2>1. /\ view' = view /\ day' = day /\ born' = born /\ cost' = cost /\ pc' = pc
        /\ \A q \in Rows : lost'[q] = "kept" => lost[q] = "kept"
    BY <1>1, <1>6 DEF Drain, Take, Inserted
  <2>2. QED
    BY <1>1, <2>1, CoversKept
<1>7. CASE Tick
  <2>1. /\ view # NoView /\ view' = [view EXCEPT !.age = @ + 1]
        /\ day' = day /\ born' = born /\ cost' = cost /\ pc' = pc /\ lost' = lost
    BY <1>7 DEF Tick, writerVars
  <2>2. view'.base = view.base /\ view'.missed = view.missed /\ view'.added = view.added
    BY <1>1, <2>1 DEF View
  <2>3. QED
    BY <2>1, <2>2 DEF ViewCovers
<1>8. CASE Midnight
  <2>1. day' = day + 1 /\ view' = view /\ born' = born
    BY <1>8 DEF Midnight
  <2>2. \A q \in Rows : born[q] <= day /\ born[q] \in Nat
    BY <1>1 DEF ViewCovers
  <2>3. \A q \in Rows : born[q] <= day + 1 /\ born[q] # day + 1
    BY <1>1, <2>2
  <2>4. QED
    BY <2>1, <2>3 DEF ViewCovers
<1>9. CASE Terminate \/ ShutDown \/ Restart \/ UNCHANGED vars
  <2>1. /\ view' = view /\ day' = day /\ born' = born /\ cost' = cost /\ pc' = pc /\ lost' = lost
    BY <1>9 DEF Terminate, ShutDown, CloseChannel, Restart, vars, writerVars
  <2>2. QED
    BY <2>1 DEF ViewCovers
<1>10. CASE Exit \/ Crash
  <2>1. view' = NoView /\ day' = day /\ born' = born
    BY <1>10 DEF Exit, Crash
  <2>2. QED
    BY <2>1 DEF ViewCovers
<1>11. QED
  BY <1>2, <1>3, <1>4, <1>5, <1>6, <1>7, <1>8, <1>9, <1>10 DEF Next, Handler

-----------------------------------------------------------------------------
(* Rows counted twice. *)

LEMMA FinitelyMany ==
    ASSUME NEW S, NEW T, S \subseteq T, T \subseteq Rows
    PROVE  /\ Cardinality(S) \in Nat /\ Cardinality(T) \in Nat
           /\ Cardinality(S) <= Cardinality(T)
BY FS_Subset, FS_CardinalityType

LEMMA TwiceShrinks ==
    ASSUME TypeOK, FewTwice, view # NoView, stored \subseteq stored',
           view' # NoView, view'.base = view.base, Twice' \subseteq Twice
    PROVE  FewTwice'
<1>1. Twice \subseteq Rows
  BY DEF Twice, TypeOK, View
<1>2. Cardinality(Twice') <= Cardinality(Twice) /\ Cardinality(Twice') \in Nat /\ Cardinality(Twice) \in Nat
  BY <1>1, FinitelyMany
<1>3. QED
  BY <1>2 DEF FewTwice

LEMMA TwiceBegun ==
    ASSUME TypeOK, InOnePlace, FewTwice, NEW r \in Rows, Begin(r),
           stored' = stored, view' = view \/ view' = Refreshed,
           \E p \in {"ended", "running"} : pc' = [pc EXCEPT ![r] = p]
    PROVE  FewTwice'
<1>1. r \notin stored
  BY DEF Begin, InOnePlace
<1>2. Active' \subseteq Active \cup {r}
  BY DEF Active, TypeOK
<1>3. CASE view' = view
  <2>1. view # NoView => Twice' \subseteq Twice
    BY <1>1, <1>2, <1>3 DEF Twice, FewTwice
  <2>2. QED
    BY <1>3, <2>1, TwiceShrinks DEF FewTwice
<1>4. CASE view' = Refreshed
  <2>1. /\ view'.base \subseteq stored /\ view'.added = {}
    BY <1>4 DEF Refreshed, StoredToday
  <2>2. Twice' \subseteq Active /\ Active \subseteq Rows
    BY <1>1, <1>2, <2>1 DEF Twice, Active
  <2>3. /\ Cardinality(Twice') <= Cardinality(Active) /\ Cardinality(Active) < Slots
        /\ Cardinality(Twice') \in Nat /\ Cardinality(Active) \in Nat
    BY <2>2, FinitelyMany DEF Begin
  <2>4. QED
    BY <2>1, <2>3 DEF FewTwice
<1>5. QED
  BY <1>3, <1>4

LEMMA TwiceStep == TypeOK /\ InOnePlace /\ FewTwice /\ [Next]_vars => FewTwice'
<1> SUFFICES ASSUME TypeOK, InOnePlace, FewTwice, [Next]_vars PROVE FewTwice'
  OBVIOUS
<1>1. /\ view \in View \cup {NoView}
      /\ pc \in [Rows -> {"idle", "ended", "running", "written", "done"}]
  BY DEF TypeOK
<1>2. ASSUME NEW r \in Requests, Gate(r) \/ GateError(r) \/ Test(r) PROVE FewTwice'
  <2>1. /\ Begin(r) /\ stored' = stored /\ (view' = view \/ view' = Refreshed)
        /\ \E p \in {"ended", "running"} : pc' = [pc EXCEPT ![r] = p]
    BY <1>2 DEF Gate, GateError, Test, CurrentView, writerVars
  <2>2. QED
    BY <2>1, TwiceBegun
<1>3. ASSUME NEW r \in Requests, Reject(r) \/ \E c \in Costs : Answer(r, c) PROVE FewTwice'
  <2>1. /\ stored' = stored /\ view' = view /\ pc[r] = "running"
        /\ \E p \in {"ended", "written"} : pc' = [pc EXCEPT ![r] = p]
    BY <1>3 DEF Reject, Answer, Write, writerVars
  <2>2. Active' \subseteq Active
    BY <1>1, <2>1 DEF Active
  <2>3. view # NoView => Twice' \subseteq Twice
    BY <2>1, <2>2 DEF Twice
  <2>4. QED
    BY <2>1, <2>3, TwiceShrinks DEF FewTwice
<1>4. ASSUME NEW r \in Requests, Count(r) PROVE FewTwice'
  <2>1. /\ stored' = stored /\ pc[r] = "written" /\ pc' = [pc EXCEPT ![r] = "done"]
        /\ view' = view \/ (view # NoView /\ view' = [view EXCEPT !.added = @ \cup {r}])
    BY <1>4 DEF Count, writerVars
  <2>2. Active' \subseteq Active /\ r \in Active
    BY <1>1, <2>1 DEF Active
  <2>3. CASE view = NoView
    BY <2>1, <2>3 DEF FewTwice
  <2>4. CASE view # NoView
    <3>1. /\ view' # NoView /\ view'.base = view.base
          /\ view'.added \subseteq view.added \cup {r}
      <4>1. [view EXCEPT !.added = @ \cup {r}] \in View
        BY <1>1, <2>4 DEF View
      <4>2. QED
        BY <1>1, <2>1, <2>4, <4>1 DEF View
    <3>2. Twice' \subseteq Twice
      BY <2>2, <3>1 DEF Twice
    <3>3. QED
      BY <2>1, <2>4, <3>1, <3>2, TwiceShrinks
  <2>5. QED
    BY <2>3, <2>4
<1>5. CASE Drain
  <2>1. stored \subseteq stored' /\ view' = view /\ pc' = pc
    BY <1>5 DEF Drain, Take, Inserted
  <2>2. Twice' = Twice
    BY <2>1 DEF Twice, Active
  <2>3. QED
    BY <2>1, <2>2, TwiceShrinks DEF FewTwice
<1>6. CASE Tick
  <2>1. stored' = stored /\ view # NoView /\ view' = [view EXCEPT !.age = @ + 1] /\ pc' = pc
        /\ view.age < TTL
    BY <1>6 DEF Tick, writerVars
  <2>2. /\ view' \in View /\ view'.base = view.base /\ view'.added = view.added
    BY <1>1, <2>1 DEF View
  <2>3. Twice' = Twice
    BY <2>1, <2>2 DEF Twice, Active
  <2>4. QED
    BY <2>1, <2>2, <2>3, TwiceShrinks
<1>7. CASE Midnight \/ Terminate \/ ShutDown \/ Restart \/ UNCHANGED vars
  <2>1. stored' = stored /\ view' = view /\ pc' = pc
    BY <1>7 DEF Midnight, Terminate, ShutDown, CloseChannel, Restart, vars, writerVars
  <2>2. Twice' = Twice
    BY <2>1 DEF Twice, Active
  <2>3. QED
    BY <2>1, <2>2 DEF FewTwice
<1>8. CASE Exit \/ Crash
  BY <1>8 DEF Exit, Crash, FewTwice
<1>9. QED
  BY <1>2, <1>3, <1>4, <1>5, <1>6, <1>7, <1>8 DEF Next, Handler

-----------------------------------------------------------------------------
\* Through answers, counts, refreshes, midnights, shutdowns and crashes the inductive
\* invariant of writer, view and process holds (RunWriter, spendCache, main).
THEOREM LedgerInvariant == Spec => []LedgerInv
<1>1. LedgerInv /\ [Next]_vars => LedgerInv'
  BY TypeStep, PlacesStep, ShutdownStep, CoversStep, TwiceStep DEF LedgerInv
<1>2. QED
  BY <1>1, LedgerInit, PTL DEF Spec

\* Places as a set of at most one name.
LEMMA OnePlace == TypeOK /\ InOnePlace => RowsConserved
<1> SUFFICES ASSUME TypeOK, InOnePlace PROVE RowsConserved
  OBVIOUS
<1>1. Cardinality(Queued) = Len(queue)
  <2>1. Len(queue) \in Nat /\ DOMAIN queue = 1..Len(queue)
    BY DEF TypeOK, WriterTypeOK
  <2>2. [i \in 1..Len(queue) |-> queue[i]] \in Bijection(1..Len(queue), Queued)
    BY <2>1 DEF Bijection, Injection, Surjection, IsInjective, Queued, InOnePlace
  <2>3. QED
    BY <2>1, <2>2, FS_CountingElements DEF ExistsBijection
<1>2. ASSUME NEW r \in Rows
      PROVE  /\ Cardinality(Places(r)) <= 1
             /\ pc[r] \in {"written", "done"} => Places(r) # {}
             /\ pc[r] \in {"idle", "running"} => Places(r) = {}
  <2>1. /\ "channel" \in Places(r) <=> r \in Queued
        /\ "hand" \in Places(r) <=> r = hand
        /\ "database" \in Places(r) <=> r \in stored
        /\ "lost" \in Places(r) <=> lost[r] # "kept"
        /\ Places(r) \subseteq {"channel", "hand", "database", "lost"}
    BY DEF Places
  <2>2. \E p : Places(r) \subseteq {p}
    <3>1. CASE r \in Queued
      <4>1. Places(r) \subseteq {"channel"}
        BY <2>1, <3>1 DEF InOnePlace
      <4>2. QED
        BY <4>1
    <3>2. CASE r = hand
      <4>1. Places(r) \subseteq {"hand"}
        BY <2>1, <3>2 DEF InOnePlace
      <4>2. QED
        BY <4>1
    <3>3. CASE r \in stored
      <4>1. Places(r) \subseteq {"database"}
        BY <2>1, <3>3 DEF InOnePlace
      <4>2. QED
        BY <4>1
    <3>4. CASE r \notin Queued /\ r # hand /\ r \notin stored
      <4>1. Places(r) \subseteq {"lost"}
        BY <2>1, <3>4
      <4>2. QED
        BY <4>1
    <3>5. QED
      BY <3>1, <3>2, <3>3, <3>4
  <2>3. Cardinality(Places(r)) <= 1
    <3>1. PICK p : Places(r) \subseteq {p}
      BY <2>2
    <3>2. /\ IsFiniteSet({p}) /\ Cardinality({p}) = 1
      BY FS_Singleton
    <3>3. QED
      BY <3>1, <3>2, FS_Subset
  <2>4. QED
    BY <2>1, <2>3 DEF InOnePlace
<1>3. QED
  BY <1>1, <1>2 DEF RowsConserved

\* Every run row is in one place - the channel, the hand of the drain goroutine, the
\* database or the count of lost ones - through overflows, failed inserts, shutdowns,
\* crashes and restarts (RunWriter, main).
THEOREM RowsAreConserved == Spec => []RowsConserved
<1>1. LedgerInv => RowsConserved
  BY OnePlace DEF LedgerInv
<1>2. QED
  BY <1>1, LedgerInvariant, PTL

\* A row meets a closed writer only after a shutdown that gave up on its handlers
\* (main's shutdown sequence, RunWriter.Write).
THEOREM ShutdownKeepsRows == Spec => []GracefulLosesNothing
<1>1. LedgerInv => GracefulLosesNothing
  BY DEF LedgerInv, ClosedLate, GracefulLosesNothing
<1>2. QED
  BY <1>1, LedgerInvariant, PTL

\* The view the budget gate uses misses, of the counted rows of the day, only those
\* that were with the writer at its refresh (spendCache.currentSpend, addSpend).
THEOREM GateSeesTheRest == Spec => []ViewMissesOnlyQueued
<1>1. LedgerInv => ViewMissesOnlyQueued
  BY DEF LedgerInv, ViewCovers, ViewMissesOnlyQueued, Fresh
<1>2. QED
  BY <1>1, LedgerInvariant, PTL

\* Fewer rows than there are requests in flight count twice in the view
\* (executePrediction's insertRun before addSpend).
THEOREM FewCountTwice == Spec => []DoubleCountBounded
<1>1. LedgerInv => DoubleCountBounded
  <2> SUFFICES ASSUME LedgerInv, view # NoView
               PROVE  Cardinality(view.base \cap view.added) < Slots
    BY DEF DoubleCountBounded
  <2>1. view.base \cap view.added \subseteq Twice /\ Twice \subseteq Rows
    BY DEF LedgerInv, TypeOK, View, Twice
  <2>2. /\ Cardinality(view.base \cap view.added) <= Cardinality(Twice)
        /\ Cardinality(view.base \cap view.added) \in Nat /\ Cardinality(Twice) \in Nat
    BY <2>1, FinitelyMany
  <2>3. QED
    BY <2>2 DEF LedgerInv, FewTwice
<1>2. QED
  BY <1>1, LedgerInvariant, PTL

-----------------------------------------------------------------------------
(* How far the day's spend passes the budget. *)

\* Predictions of the day whose rows the writer has or brought to the database.
KeptToday == {r \in Predicts : born[r] = day /\ r \in Queued \cup {hand} \cup stored}

\* What the gate has let through today costs less than the budget and the most a
\* call costs for every row the writer can hold and every request in flight.
OverspendBounded ==
    \A most \in Nat : (\A c \in Costs : c <= most) =>
        TotalCost(KeptToday) < Budget + (BufSize + 1 + Slots) * most

\* What a prediction of the day may cost: a request under way, the most.
Exposure(most) ==
    [r \in Predicts |-> IF pc[r] = "running" THEN most
                        ELSE IF r \in KeptToday THEN cost[r] ELSE 0]

Allowance(most) == Budget + (BufSize + 1 + Slots) * most

ExposureBounded ==
    \A most \in Nat : (\A c \in Costs : c <= most) =>
        Total(Exposure(most), Predicts) < Allowance(most)

\* The rows of requests that a stopping process cut short count from the database.
EndedCounted ==
    \A r \in Rows : pc[r] = "ended" =>
        /\ r \notin Queued /\ r # hand
        /\ view # NoView /\ r \in stored /\ born[r] = day => r \in view.base

MissedFew == view # NoView => Cardinality(view.missed) <= BufSize + 1

OverspendInv == EndedCounted /\ MissedFew /\ ExposureBounded

LEMMA EndedStep ==
    ASSUME TypeOK, InOnePlace, ViewCovers, EndedCounted, [Next]_vars PROVE EndedCounted'
<1>1. /\ view \in View \cup {NoView}
      /\ pc \in [Rows -> {"idle", "ended", "running", "written", "done"}]
      /\ born \in [Rows -> 0..LastDay] /\ day \in 0..LastDay /\ queue \in Seq(Rows)
  BY DEF TypeOK, WriterTypeOK
<1>2. ASSUME NEW r \in Requests, Gate(r) \/ GateError(r) \/ Test(r) \/ Reject(r)
      PROVE  EndedCounted'
  <2>1. /\ Queued' = Queued /\ hand' = hand /\ stored' = stored /\ born' = born /\ day' = day
        /\ view' = view \/ view' = Refreshed
        /\ pc[r] \in {"idle", "running"}
        /\ \A q \in Rows \ {r} : pc'[q] = pc[q]
    BY <1>1, <1>2 DEF Gate, GateError, Test, Reject, Begin, CurrentView, writerVars, Queued
  <2>2. r \notin Queued /\ r # hand /\ r \notin stored
    BY <2>1 DEF InOnePlace
  <2>3. CASE view' = view
    BY <2>1, <2>2, <2>3 DEF EndedCounted
  <2>4. CASE view' = Refreshed
    <3>1. view'.base = {q \in stored : born[q] = day}
      BY <2>4 DEF Refreshed, StoredToday
    <3>2. QED
      BY <2>1, <2>2, <3>1 DEF EndedCounted
  <2>5. QED
    BY <2>1, <2>3, <2>4
<1>3. ASSUME NEW r \in Requests, NEW c \in Costs, Answer(r, c) PROVE EndedCounted'
  <2>1. /\ hand' = hand /\ stored' = stored /\ view' = view /\ day' = day
        /\ pc'[r] = "written"
        /\ \A q \in Rows \ {r} : pc'[q] = pc[q] /\ born'[q] = born[q]
    BY <1>1, <1>3 DEF Answer, Write
  <2>2. Queued' \subseteq Queued \cup {r}
    <3>1. CASE queue' = queue
      BY <3>1 DEF Queued
    <3>2. CASE queue' = Append(queue, r)
      BY <1>1, <3>2, QueuedAppended
    <3>3. QED
      BY <1>3, <3>1, <3>2 DEF Answer, Write
  <2>3. QED
    BY <2>1, <2>2 DEF EndedCounted
<1>4. ASSUME NEW r \in Requests, Count(r) PROVE EndedCounted'
  <2>1. /\ Queued' = Queued /\ hand' = hand /\ stored' = stored /\ born' = born /\ day' = day
        /\ view' = view \/ (view # NoView /\ view' = [view EXCEPT !.added = @ \cup {r}])
        /\ \A q \in Rows : pc'[q] = "ended" => pc[q] = "ended"
    BY <1>1, <1>4 DEF Count, writerVars, Queued
  <2>2. view' # NoView => view # NoView /\ view'.base = view.base
    BY <1>1, <2>1 DEF View
  <2>3. QED
    BY <2>1, <2>2 DEF EndedCounted
<1>5. CASE Drain
  <2>1. pc' = pc /\ born' = born /\ day' = day /\ view' = view
    BY <1>5 DEF Drain
  <2>2. CASE Take
    <3>1. queue # <<>> /\ hand' = Head(queue) /\ queue' = Tail(queue) /\ stored' = stored
      BY <2>2 DEF Take
    <3>2. Queued = Queued' \cup {hand'}
      BY <1>1, <3>1, QueuedTaken
    <3>3. QED
      BY <2>1, <3>1, <3>2 DEF EndedCounted
  <2>3. CASE \E ok \in BOOLEAN : Inserted(ok)
    <3>1. Queued' = Queued /\ hand' = NoRow /\ stored' \subseteq stored \cup {hand}
      BY <2>3 DEF Inserted, Queued
    <3>2. QED
      BY <2>1, <3>1 DEF EndedCounted
  <2>4. QED
    BY <1>5, <2>2, <2>3 DEF Drain
<1>6. CASE Tick
  <2>1. /\ Queued' = Queued /\ hand' = hand /\ stored' = stored /\ born' = born /\ day' = day
        /\ pc' = pc /\ view # NoView /\ view' = [view EXCEPT !.age = @ + 1]
    BY <1>6 DEF Tick, writerVars, Queued
  <2>2. view'.base = view.base
    BY <1>1, <2>1 DEF View
  <2>3. QED
    BY <2>1, <2>2 DEF EndedCounted
<1>7. CASE Midnight
  <2>1. /\ Queued' = Queued /\ hand' = hand /\ stored' = stored /\ born' = born /\ pc' = pc
        /\ day' = day + 1
    BY <1>7 DEF Midnight, writerVars, Queued
  <2>2. \A q \in Rows : born[q] <= day /\ born[q] \in Nat
    BY <1>1 DEF ViewCovers
  <2>3. \A q \in Rows : born'[q] # day'
    BY <1>1, <2>1, <2>2
  <2>4. QED
    BY <2>1, <2>3 DEF EndedCounted
<1>8. CASE Terminate \/ ShutDown \/ Restart \/ UNCHANGED vars
  <2>1. /\ Queued' = Queued /\ hand' = hand /\ stored' = stored /\ born' = born /\ day' = day
        /\ pc' = pc /\ view' = view
    BY <1>8 DEF Terminate, ShutDown, CloseChannel, Restart, vars, writerVars, Queued
  <2>2. QED
    BY <2>1 DEF EndedCounted
<1>9. CASE Exit \/ Crash
  <2>1. queue' = <<>> /\ hand' = NoRow /\ view' = NoView
    BY <1>9 DEF Exit, Crash, Flushed, Vanish, writerVars
  <2>2. Queued' = {}
    BY <2>1 DEF Queued
  <2>3. QED
    BY <2>1, <2>2 DEF EndedCounted
<1>10. QED
  BY <1>2, <1>3, <1>4, <1>5, <1>6, <1>7, <1>8, <1>9 DEF Next, Handler

LEMMA OneMore ==
    ASSUME NEW S, NEW x, IsFiniteSet(S)
    PROVE  /\ IsFiniteSet(S \cup {x}) /\ Cardinality(S \cup {x}) \in Nat
           /\ Cardinality(S \cup {x}) <= Cardinality(S) + 1
<1>1. IsFiniteSet(S \cup {x}) /\ Cardinality(S) \in Nat
  BY FS_AddElement, FS_CardinalityType
<1>2. Cardinality(S \cup {x}) = IF x \in S THEN Cardinality(S) ELSE Cardinality(S) + 1
  BY FS_AddElement
<1>3. QED
  BY <1>1, <1>2

LEMMA MissedStep ==
    ASSUME TypeOK, InOnePlace, MissedFew, [Next]_vars PROVE MissedFew'
<1>1. view \in View \cup {NoView}
  BY DEF TypeOK
<1>2. ASSUME NEW r \in Requests, Gate(r) PROVE MissedFew'
  <2>1. CASE view' = view
    BY <2>1 DEF MissedFew
  <2>2. CASE view' = Refreshed
    <3>1. view'.missed \subseteq Queued \cup {hand}
      BY <2>2 DEF Refreshed
    <3>2. /\ Cardinality(Queued) \in Nat /\ Cardinality(Queued) <= BufSize
          /\ IsFiniteSet(Queued)
      <4>1. Queued \subseteq Rows /\ Len(queue) <= BufSize /\ Len(queue) \in Nat
        BY DEF Queued, TypeOK, WriterTypeOK
      <4>2. Cardinality(Queued) = Len(queue)
        BY OnePlace DEF RowsConserved
      <4>3. IsFiniteSet(Queued)
        BY <4>1, FS_Subset
      <4>4. QED
        BY <4>1, <4>2, <4>3
    <3>3. /\ IsFiniteSet(Queued \cup {hand})
          /\ Cardinality(Queued \cup {hand}) <= BufSize + 1
      <4>1. /\ IsFiniteSet(Queued \cup {hand})
            /\ Cardinality(Queued \cup {hand}) \in Nat
            /\ Cardinality(Queued \cup {hand}) <= Cardinality(Queued) + 1
        BY <3>2, OneMore
      <4>2. QED
        BY <3>2, <4>1
    <3>4. /\ Cardinality(view'.missed) <= Cardinality(Queued \cup {hand})
          /\ Cardinality(view'.missed) \in Nat /\ Cardinality(Queued \cup {hand}) \in Nat
      BY <3>1, <3>3, FS_Subset, FS_CardinalityType
    <3>5. QED
      BY <3>3, <3>4 DEF MissedFew
  <2>3. QED
    BY <1>2, <2>1, <2>2 DEF Gate, CurrentView
<1>3. ASSUME NEW r \in Requests, Count(r) PROVE MissedFew'
  <2>1. view' = view \/ (view # NoView /\ view' = [view EXCEPT !.added = @ \cup {r}])
    BY <1>3 DEF Count
  <2>2. view' # NoView => view # NoView /\ view'.missed = view.missed
    BY <1>1, <2>1 DEF View
  <2>3. QED
    BY <2>2 DEF MissedFew
<1>4. CASE Tick
  <2>1. view # NoView /\ view' = [view EXCEPT !.age = @ + 1]
    BY <1>4 DEF Tick
  <2>2. view'.missed = view.missed
    BY <1>1, <2>1 DEF View
  <2>3. QED
    BY <2>1, <2>2 DEF MissedFew
<1>5. ASSUME view' = view \/ view' = NoView PROVE MissedFew'
  BY <1>5 DEF MissedFew
<1>6. CASE Drain \/ Midnight \/ Terminate \/ ShutDown \/ Exit \/ Crash \/ Restart \/ UNCHANGED vars
  BY <1>5, <1>6 DEF Drain, Midnight, Terminate, ShutDown, Exit, Crash, Restart, vars
<1>7. ASSUME NEW r \in Requests, GateError(r) \/ Test(r) \/ Reject(r) \/ \E c \in Costs : Answer(r, c)
      PROVE  MissedFew'
  BY <1>5, <1>7 DEF GateError, Test, Reject, Answer
<1>8. QED
  BY <1>2, <1>3, <1>4, <1>6, <1>7 DEF Next, Handler

LEMMA PredictsFinite ==
    /\ IsFiniteSet(Predicts)
    /\ \A S \in SUBSET Rows : IsFiniteSet(S) /\ Cardinality(S) \in Nat
BY FS_Subset, FS_CardinalityType

LEMMA CostsNat ==
    ASSUME TypeOK
    PROVE  \A r \in Rows : cost[r] \in Nat
<1>1. \A r \in Rows : cost[r] \in Costs \cup {0}
  BY DEF TypeOK
<1>2. \A c \in Costs \cup {0} : c \in Nat
  OBVIOUS
<1>3. QED
  BY <1>1, <1>2

LEMMA CostsAtMost ==
    ASSUME NEW most \in Nat, \A c \in Costs : c <= most, NEW c \in Costs \cup {0}
    PROVE  c \in Nat /\ c <= most
<1>1. CASE c \in Costs
  BY <1>1
<1>2. CASE c = 0
  BY <1>2
<1>3. QED
  BY <1>1, <1>2

LEMMA ExposureNat ==
    ASSUME TypeOK, NEW most \in Nat
    PROVE  \A r \in Predicts : Exposure(most)[r] \in Nat
<1>1. \A r \in Predicts : cost[r] \in Nat
  BY CostsNat
<1>2. QED
  BY <1>1 DEF Exposure

\* A step after which no prediction is newly under way, and none is newly kept
\* that was not under way.
LEMMA ExposureShrinks ==
    ASSUME TypeOK, TypeOK', ExposureBounded,
           \A r \in Predicts : \/ pc[r] = "running"
                               \/ /\ pc'[r] # "running"
                                  /\ r \in KeptToday' => r \in KeptToday /\ cost'[r] = cost[r]
    PROVE  ExposureBounded'
<1> SUFFICES ASSUME NEW most \in Nat, \A c \in Costs : c <= most
             PROVE  Total(Exposure(most)', Predicts) < Allowance(most)
  BY DEF ExposureBounded, Allowance
<1>1. \A r \in Predicts : /\ cost[r] \in Nat /\ cost'[r] \in Nat /\ cost'[r] <= most
  <2>1. \A r \in Predicts : cost[r] \in Costs \cup {0} /\ cost'[r] \in Costs \cup {0}
    BY DEF TypeOK
  <2>2. QED
    BY <2>1, CostsAtMost
<1>2. \A r \in Predicts : /\ Exposure(most)[r] \in Nat /\ Exposure(most)'[r] \in Nat
                          /\ Exposure(most)'[r] <= Exposure(most)[r]
  BY <1>1 DEF Exposure
<1>3. Total(Exposure(most)', Predicts) <= Total(Exposure(most), Predicts)
  BY <1>2, PredictsFinite, TotalDominated
<1>4. /\ Total(Exposure(most)', Predicts) \in Nat
      /\ Total(Exposure(most), Predicts) \in Nat
  BY <1>2, PredictsFinite, TotalNat
<1>5. Total(Exposure(most), Predicts) < Allowance(most) /\ Allowance(most) \in Nat
  BY DEF ExposureBounded, Allowance
<1>6. QED
  BY <1>3, <1>4, <1>5

\* TotalCost is the total of the costs.
LEMMA CostsAreTotals ==
    ASSUME NEW S \in SUBSET Rows
    PROVE  TotalCost(S) = Total(cost, S)
<1> DEFINE P(f) == f = [s \in SUBSET S |-> IF s = {} THEN 0
                                           ELSE cost[First(s)] + f[s \ {First(s)}]]
           chosen == CHOOSE f : P(f)
<1>1. TotalCost(S) = chosen[S]
  BY DEF TotalCost, MapThenSumSet, MapThenFoldSet, First
<1>2. IsFiniteSet(S)
  BY PredictsFinite
<1>3. \A f : P(f) <=> Sums(cost, S, f)
  BY DEF Sums, SumAt
<1>4. P(chosen)
  <2>1. \E f : P(f)
    BY <1>2, <1>3, SumsExist
  <2> HIDE DEF P
  <2>2. QED
    BY <2>1
<1> HIDE DEF P, chosen
<1>5. Total(cost, S) = chosen[S]
  BY <1>2, <1>3, <1>4, TotalIs
<1>6. QED
  BY <1>1, <1>5

LEMMA SpendNat ==
    ASSUME TypeOK, NEW v \in View
    PROVE  Spend(v) \in Nat
<1>1. v.base \in SUBSET Rows /\ v.added \in SUBSET Rows
  BY DEF View
<1>2. /\ TotalCost(v.base) = Total(cost, v.base)
      /\ TotalCost(v.added) = Total(cost, v.added)
  BY <1>1, CostsAreTotals
<1>3. Total(cost, v.base) \in Nat /\ Total(cost, v.added) \in Nat
  <2>1. \A x \in Rows : cost[x] \in Nat
    BY CostsNat
  <2>2. QED
    BY <1>1, <2>1, PredictsFinite, TotalNat
<1>4. QED
  BY <1>2, <1>3 DEF Spend

\* The gate lets a prediction begin: what it may cost is under way, and what went
\* before it is in the view, with the writer or under way.
LEMMA ExposureAdmitted ==
    ASSUME TypeOK', InOnePlace', ViewCovers', EndedCounted', MissedFew', TypeOK,
           NEW q \in Predicts, Gate(q), Spend(CurrentView) < Budget
    PROVE  ExposureBounded'
<1>1. /\ view' = CurrentView /\ view' # NoView /\ view' \in View /\ cost' = cost
      /\ Begin(q) /\ pc' = [pc EXCEPT ![q] = "running"]
      /\ pc \in [Rows -> {"idle", "ended", "running", "written", "done"}]
  <2>1. CurrentView # NoView /\ CurrentView \in View
    BY ViewTyped
  <2>2. ~(Spend(CurrentView) >= Budget)
    <3>1. Spend(CurrentView) \in Nat
      BY <2>1, SpendNat
    <3>2. QED
      BY <3>1
  <2>3. QED
    BY <2>1, <2>2 DEF Gate, TypeOK
<1> SUFFICES ASSUME NEW most \in Nat, \A c \in Costs : c <= most
             PROVE  Total(Exposure(most)', Predicts) < Allowance(most)
  BY DEF ExposureBounded, Allowance
<1> DEFINE E    == Exposure(most)'
           base  == view'.base
           added == view'.added
           apart == view'.missed \cup Active'
           seen  == (base \cup added) \ apart
           w     == [r \in Rows |-> IF r \in apart THEN most ELSE cost[r]]
<1>2. base \in SUBSET Rows /\ added \in SUBSET Rows /\ view'.missed \in SUBSET Rows
  BY <1>1 DEF View
<1>3. Active' \in SUBSET Rows /\ Active' \subseteq Active \cup {q} /\ Active \in SUBSET Rows
  BY <1>1 DEF Active
<1>4. apart \in SUBSET Rows /\ seen \in SUBSET Rows
  BY <1>2, <1>3
<1>5. \A r \in Rows : cost[r] \in Nat /\ cost[r] <= most
  <2>1. \A r \in Rows : cost[r] \in Costs \cup {0}
    BY DEF TypeOK
  <2>2. QED
    BY <2>1, CostsAtMost
<1>6. \A r \in Predicts : E[r] \in Nat /\ E[r] <= most /\ (r \notin Active' => E[r] <= cost[r])
  BY <1>1, <1>5 DEF Exposure, Active
<1>7. \A r \in Predicts : r \notin base \cup added /\ r \notin apart => E[r] = 0
  <2> SUFFICES ASSUME NEW r \in Predicts, r \notin base \cup added, r \notin apart
               PROVE  E[r] = 0
    OBVIOUS
  <2>1. /\ r \in Rows /\ pc'[r] \in {"idle", "ended", "done"} /\ cost'[r] \in Nat
        /\ E[r] = IF r \in KeptToday' THEN cost'[r] ELSE 0
    BY <1>1, <1>5 DEF Active, Exposure
  <2>2. CASE r \in KeptToday'
    <3>1. born'[r] = day' /\ (r \in Queued' \/ r = hand' \/ r \in stored')
      BY <2>2 DEF KeptToday
    <3>2. pc'[r] # "idle" /\ lost'[r] = "kept"
      BY <2>1, <3>1 DEF InOnePlace
    <3>3. pc'[r] # "ended"
      BY <1>1, <2>1, <3>1 DEF EndedCounted
    <3>4. ~(cost'[r] > 0)
      BY <1>1, <2>1, <3>1, <3>2, <3>3 DEF ViewCovers
    <3>5. QED
      BY <2>1, <2>2, <3>4
  <2>3. QED
    BY <2>1, <2>2
<1> HIDE DEF E
<1>8. Total(E, Predicts) <= Total(w, seen \cup apart)
  <2>1. \A r \in seen \cup apart : w[r] \in Nat
    BY <1>4, <1>5
  <2>2. ASSUME NEW r \in Predicts
        PROVE  IF r \in seen \cup apart THEN E[r] <= w[r] ELSE E[r] = 0
    BY <1>3, <1>6, <1>7
  <2>3. IsFiniteSet(seen \cup apart)
    BY <1>4, PredictsFinite
  <2> HIDE DEF w, seen, apart
  <2>4. QED
    BY <1>6, <2>1, <2>2, <2>3, PredictsFinite, TotalDominated
<1>9. Total(w, seen \cup apart) <= Total(w, seen) + Total(w, apart)
  <2>1. IsFiniteSet(seen) /\ IsFiniteSet(apart)
    BY <1>4, PredictsFinite
  <2>2. \A r \in seen \cup apart : w[r] \in Nat
    BY <1>4, <1>5
  <2> HIDE DEF w, seen, apart
  <2>3. QED
    BY <2>1, <2>2, TotalCovered
<1>10. Total(w, apart) <= Cardinality(apart) * most
  <2>1. \A r \in apart : w[r] \in Nat /\ w[r] <= most
    BY <1>4
  <2>2. IsFiniteSet(apart)
    BY <1>4, PredictsFinite
  <2> HIDE DEF w, apart
  <2>3. QED
    BY <2>1, <2>2, TotalAtMost
<1>11. Total(w, seen) <= Total(cost, base \cup added)
  <2>1. \A r \in seen : w[r] \in Nat /\ r \in base \cup added /\ w[r] <= cost[r]
    BY <1>4, <1>5
  <2>2. \A r \in base \cup added : cost[r] \in Nat
    BY <1>2, <1>5
  <2>3. IsFiniteSet(seen) /\ IsFiniteSet(base \cup added)
    BY <1>2, <1>4, PredictsFinite
  <2> HIDE DEF w, seen, base, added
  <2>4. QED
    BY <2>1, <2>2, <2>3, TotalDominated
<1>12. Total(cost, base \cup added) <= Total(cost, base) + Total(cost, added)
  <2>1. IsFiniteSet(base) /\ IsFiniteSet(added)
    BY <1>2, PredictsFinite
  <2>2. \A r \in base \cup added : cost[r] \in Nat
    BY <1>2, <1>5
  <2> HIDE DEF base, added
  <2>3. QED
    BY <2>1, <2>2, TotalCovered
<1>13. Total(cost, base) + Total(cost, added) < Budget
  <2>1. TotalCost(base) = Total(cost, base) /\ TotalCost(added) = Total(cost, added)
    BY <1>2, CostsAreTotals
  <2>2. Spend(CurrentView) = TotalCost(base) + TotalCost(added)
    BY <1>1 DEF Spend
  <2>3. QED
    BY <2>1, <2>2
<1>14. Cardinality(apart) <= BufSize + 1 + Slots /\ Cardinality(apart) \in Nat
  <2>1. /\ IsFiniteSet(view'.missed) /\ IsFiniteSet(Active') /\ IsFiniteSet(Active)
        /\ Cardinality(view'.missed) \in Nat /\ Cardinality(Active') \in Nat
        /\ Cardinality(Active) \in Nat
    BY <1>2, <1>3, PredictsFinite
  <2>2. Cardinality(view'.missed) <= BufSize + 1
    BY <1>1 DEF MissedFew
  <2>3. Cardinality(Active') <= Slots
    <3>1. Cardinality(Active) < Slots
      BY <1>1 DEF Begin
    <3>2. IsFiniteSet(Active \cup {q}) /\ Cardinality(Active \cup {q}) <= Cardinality(Active) + 1
          /\ Cardinality(Active \cup {q}) \in Nat
      BY <2>1, OneMore
    <3>3. Cardinality(Active') <= Cardinality(Active \cup {q})
      BY <1>3, <3>2, FS_Subset
    <3>4. QED
      BY <2>1, <3>1, <3>2, <3>3
  <2>4. /\ Cardinality(apart) \in Nat
        /\ Cardinality(apart) <= Cardinality(view'.missed) + Cardinality(Active')
    <3>1. Cardinality(apart) \in Nat
      BY <1>4, PredictsFinite
    <3>2. Cardinality(apart) = Cardinality(view'.missed) + Cardinality(Active')
                                 - Cardinality(view'.missed \cap Active')
      BY <2>1, FS_Union
    <3>3. Cardinality(view'.missed \cap Active') \in Nat
      BY <1>2, PredictsFinite
    <3>4. QED
      BY <2>1, <3>1, <3>2, <3>3
  <2>5. QED
    BY <2>1, <2>2, <2>3, <2>4
<1>15. /\ Total(E, Predicts) \in Nat /\ Total(w, seen \cup apart) \in Nat
       /\ Total(w, seen) \in Nat /\ Total(w, apart) \in Nat
       /\ Total(cost, base \cup added) \in Nat /\ Total(cost, base) \in Nat
       /\ Total(cost, added) \in Nat
  <2>1. \A S \in SUBSET Rows : \A r \in S : w[r] \in Nat /\ cost[r] \in Nat
    BY <1>5
  <2>2. seen \cup apart \in SUBSET Rows /\ base \cup added \in SUBSET Rows
    BY <1>2, <1>4
  <2> HIDE DEF w, seen, apart, base, added
  <2>3. \A S \in SUBSET Rows : Total(w, S) \in Nat /\ Total(cost, S) \in Nat
    BY <2>1, PredictsFinite, TotalNat
  <2>4. Total(E, Predicts) \in Nat
    BY <1>6, PredictsFinite, TotalNat
  <2>5. QED
    BY <1>2, <1>4, <2>2, <2>3, <2>4
<1> HIDE DEF E, w, seen, apart, base, added
<1>16. Cardinality(apart) * most <= (BufSize + 1 + Slots) * most
       /\ Cardinality(apart) * most \in Nat /\ (BufSize + 1 + Slots) * most \in Nat
  <2>1. \A m, n \in Nat : m <= n => m * most <= n * most /\ m * most \in Nat /\ n * most \in Nat
    OBVIOUS
  <2>2. BufSize + 1 + Slots \in Nat
    OBVIOUS
  <2>3. QED
    BY <1>14, <2>1, <2>2
<1>17. Total(E, Predicts) < Budget + (BufSize + 1 + Slots) * most
  BY <1>8, <1>9, <1>10, <1>11, <1>12, <1>13, <1>15, <1>16
<1>18. QED
  BY <1>17 DEF E, Allowance

LEMMA ExposureStep ==
    ASSUME LedgerInv, LedgerInv', OverspendInv, EndedCounted', MissedFew', [Next]_vars
    PROVE  ExposureBounded'
<1> USE DEF LedgerInv, OverspendInv
<1>1. /\ pc \in [Rows -> {"idle", "ended", "running", "written", "done"}]
      /\ born \in [Rows -> 0..LastDay] /\ day \in 0..LastDay /\ queue \in Seq(Rows)
      /\ cost \in [Rows -> Costs \cup {0}]
  BY DEF TypeOK, WriterTypeOK
<1>2. ASSUME NEW r \in Requests, Gate(r) PROVE ExposureBounded'
  <2>1. CASE Spend(CurrentView) < Budget
    BY <1>2, <2>1, ExposureAdmitted DEF Gate
  <2>2. CASE ~(Spend(CurrentView) < Budget)
    <3>1. Spend(CurrentView) >= Budget
      <4>1. Spend(CurrentView) \in Nat
        BY ViewTyped, SpendNat
      <4>2. QED
        BY <2>2, <4>1
    <3>2. /\ pc' = [pc EXCEPT ![r] = "ended"] /\ KeptToday' = KeptToday /\ cost' = cost
      BY <1>2, <3>1 DEF Gate, writerVars, KeptToday, Queued
    <3>3. QED
      BY <1>1, <3>2, ExposureShrinks
  <2>3. QED
    BY <2>1, <2>2
<1>3. ASSUME NEW r \in Requests, GateError(r) \/ Test(r) \/ Reject(r) \/ Count(r)
      PROVE  ExposureBounded'
  <2>1. /\ KeptToday' = KeptToday /\ cost' = cost
        /\ \A q \in Predicts : pc'[q] = "running" => pc[q] = "running"
    BY <1>1, <1>3 DEF GateError, Test, Reject, Count, writerVars, KeptToday, Queued
  <2>2. QED
    BY <2>1, ExposureShrinks
<1>4. ASSUME NEW r \in Requests, NEW c \in Costs, Answer(r, c) PROVE ExposureBounded'
  <2>1. /\ pc[r] = "running" /\ hand' = hand /\ stored' = stored /\ day' = day
        /\ \A q \in Rows \ {r} : pc'[q] = pc[q] /\ born'[q] = born[q] /\ cost'[q] = cost[q]
    BY <1>1, <1>4 DEF Answer, Write
  <2>2. Queued' \subseteq Queued \cup {r}
    <3>1. CASE queue' = queue
      BY <3>1 DEF Queued
    <3>2. CASE queue' = Append(queue, r)
      BY <1>1, <3>2, QueuedAppended
    <3>3. QED
      BY <1>4, <3>1, <3>2 DEF Answer, Write
  <2>3. \A q \in Predicts \ {r} : q \in KeptToday' => q \in KeptToday
    BY <2>1, <2>2 DEF KeptToday
  <2>4. QED
    BY <2>1, <2>3, ExposureShrinks
<1>5. CASE Drain
  <2>1. pc' = pc /\ born' = born /\ day' = day /\ cost' = cost
    BY <1>5 DEF Drain
  <2>2. \A q \in Rows : q \in Queued' \cup {hand'} \cup stored' => q \in Queued \cup {hand} \cup stored
    <3>1. CASE Take
      <4>1. queue # <<>> /\ hand' = Head(queue) /\ queue' = Tail(queue) /\ stored' = stored
        BY <3>1 DEF Take
      <4>2. Queued = Queued' \cup {hand'}
        BY <1>1, <4>1, QueuedTaken
      <4>3. QED
        BY <4>1, <4>2
    <3>2. CASE \E ok \in BOOLEAN : Inserted(ok)
      <4>1. Queued' = Queued /\ hand' = NoRow /\ stored' \subseteq stored \cup {hand}
        BY <3>2 DEF Inserted, Queued
      <4>2. QED
        BY <4>1
    <3>3. QED
      BY <1>5, <3>1, <3>2 DEF Drain
  <2>3. \A q \in Predicts : q \in KeptToday' => q \in KeptToday
    BY <2>1, <2>2 DEF KeptToday
  <2>4. QED
    BY <2>1, <2>3, ExposureShrinks
<1>6. CASE Midnight
  <2>1. born' = born /\ pc' = pc /\ day' = day + 1
    BY <1>6 DEF Midnight
  <2>2. \A q \in Rows : born[q] <= day /\ born[q] \in Nat
    BY <1>1 DEF ViewCovers
  <2>3. \A q \in Rows : born'[q] # day'
    BY <1>1, <2>1, <2>2
  <2>4. \A q \in Predicts : q \notin KeptToday'
    BY <2>3 DEF KeptToday
  <2>5. QED
    BY <2>1, <2>4, ExposureShrinks
<1>7. CASE Tick \/ Terminate \/ ShutDown \/ Restart \/ UNCHANGED vars
  <2>1. KeptToday' = KeptToday /\ cost' = cost /\ pc' = pc
    BY <1>7 DEF Tick, Terminate, ShutDown, CloseChannel, Restart, vars, writerVars, KeptToday, Queued
  <2>2. QED
    BY <2>1, ExposureShrinks
<1>8. CASE Exit \/ Crash
  <2>1. /\ queue' = <<>> /\ hand' = NoRow /\ stored' = stored /\ born' = born /\ day' = day
        /\ cost' = cost /\ pc' = CutShort
    BY <1>8 DEF Exit, Crash, Flushed, Vanish, writerVars
  <2>2. Queued' = {}
    BY <2>1 DEF Queued
  <2>3. \A q \in Predicts : pc'[q] # "running"
    BY <1>1, <2>1 DEF CutShort, Active
  <2>4. \A q \in Predicts : q \in KeptToday' => q \in KeptToday
    BY <2>1, <2>2 DEF KeptToday
  <2>5. QED
    BY <2>1, <2>3, <2>4, ExposureShrinks
<1>9. QED
  BY <1>2, <1>3, <1>4, <1>5, <1>6, <1>7, <1>8 DEF Next, Handler

LEMMA OverspendInit == Init => OverspendInv
<1> SUFFICES ASSUME Init PROVE OverspendInv
  OBVIOUS
<1>1. EndedCounted /\ MissedFew
  BY DEF Init, EndedCounted, MissedFew
<1>2. ASSUME NEW most \in Nat, \A c \in Costs : c <= most
      PROVE  Total(Exposure(most), Predicts) < Allowance(most)
  <2>1. \A r \in Predicts : Exposure(most)[r] \in Nat /\ Exposure(most)[r] <= 0
    <3>1. \A r \in Predicts : pc[r] # "running" /\ cost[r] = 0
      BY DEF Init
    <3>2. \A r \in Predicts : Exposure(most)[r] = 0
      BY <3>1 DEF Exposure
    <3>3. QED
      BY <3>2
  <2>2. Total(Exposure(most), Predicts) <= Cardinality(Predicts) * 0
    BY <2>1, PredictsFinite, TotalAtMost
  <2>3. Cardinality(Predicts) * 0 = 0
    BY PredictsFinite
  <2>4. Allowance(most) \in Nat \ {0}
    BY DEF Allowance
  <2>5. Total(Exposure(most), Predicts) \in Nat
    BY <2>1, PredictsFinite, TotalNat
  <2>6. QED
    BY <2>2, <2>3, <2>4, <2>5
<1>3. QED
  BY <1>1, <1>2 DEF OverspendInv, ExposureBounded

LEMMA KeptWithinExposure == LedgerInv /\ OverspendInv => OverspendBounded
<1> SUFFICES ASSUME LedgerInv, OverspendInv, NEW most \in Nat, \A c \in Costs : c <= most
             PROVE  TotalCost(KeptToday) < Allowance(most)
  BY DEF OverspendBounded, Allowance
<1>1. KeptToday \in SUBSET Rows /\ KeptToday \subseteq Predicts
  BY DEF KeptToday
<1>2. \A r \in Rows : cost[r] \in Nat
  BY CostsNat DEF LedgerInv
<1>3. \A r \in KeptToday : cost[r] <= Exposure(most)[r]
  <2>1. \A r \in KeptToday : pc[r] # "running"
    BY <1>1 DEF LedgerInv, InOnePlace, KeptToday
  <2>2. \A r \in KeptToday : Exposure(most)[r] = cost[r]
    BY <1>1, <2>1 DEF Exposure
  <2>3. \A r \in KeptToday : cost[r] \in Nat
    BY <1>1, <1>2
  <2>4. QED
    BY <2>2, <2>3
<1>4. \A r \in Predicts : Exposure(most)[r] \in Nat
  BY ExposureNat DEF LedgerInv
<1>5. Total(cost, KeptToday) <= Total(Exposure(most), Predicts)
  BY <1>1, <1>2, <1>3, <1>4, PredictsFinite, TotalDominated
<1>6. Total(cost, KeptToday) \in Nat /\ Total(Exposure(most), Predicts) \in Nat
  BY <1>1, <1>2, <1>4, PredictsFinite, TotalNat
<1>7. Total(Exposure(most), Predicts) < Allowance(most) /\ Allowance(most) \in Nat
  BY DEF OverspendInv, ExposureBounded, Allowance
<1>8. TotalCost(KeptToday) = Total(cost, KeptToday)
  BY <1>1, CostsAreTotals
<1>9. QED
  BY <1>5, <1>6, <1>7, <1>8

\* Predictions whose rows are kept cost, on any day and whatever the writer holds,
\* fails to insert or loses, less than the budget and the most a call costs for
\* each row of a full channel, the one being inserted and each request in flight
\* ("never toward unbounded overspend", budget_cache.go:17-18).
THEOREM OverspendIsBounded == Spec => []OverspendBounded
<1>1. Init => LedgerInv /\ OverspendInv
  BY LedgerInit, OverspendInit
<1>2. LedgerInv /\ OverspendInv /\ [Next]_vars => LedgerInv' /\ OverspendInv'
  <2> SUFFICES ASSUME LedgerInv, OverspendInv, [Next]_vars PROVE LedgerInv' /\ OverspendInv'
    OBVIOUS
  <2>1. LedgerInv'
    BY TypeStep, PlacesStep, ShutdownStep, CoversStep, TwiceStep DEF LedgerInv
  <2>2. EndedCounted' /\ MissedFew'
    BY EndedStep, MissedStep DEF LedgerInv, OverspendInv
  <2>3. ExposureBounded'
    BY <2>1, <2>2, ExposureStep
  <2>4. QED
    BY <2>1, <2>2, <2>3 DEF OverspendInv
<1>3. QED
  BY <1>1, <1>2, KeptWithinExposure, PTL DEF Spec
=============================================================================
