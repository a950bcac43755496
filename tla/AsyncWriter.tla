---------------------------- MODULE AsyncWriter ----------------------------
(***************************************************************************)
(* The asynchronous writer that moves inserts off the request path.  The   *)
(* code has it three times, for run rows, gateway attempts and health      *)
(* events (internal/db/runwriter.go, attemptwriter.go, healthwriter.go):   *)
(* a bounded channel, a send that never blocks, one goroutine that drains  *)
(* into the database, and a Close that flushes.                            *)
(***************************************************************************)
EXTENDS Naturals, Sequences

CONSTANTS Rows,
          BufSize,     \* capacity of the channel
          NoRow

ASSUME WriterAssumption == BufSize \in Nat \ {0} /\ NoRow \notin Rows

VARIABLES queue,     \* the channel
          hand,      \* the row the drain goroutine is inserting, or NoRow
          stored,    \* rows in the database
          lost,      \* why a row was lost, "kept" while it was not
          closed     \* Close was called

writerVars == <<queue, hand, stored, lost, closed>>

Reason == {"kept", "full", "closed", "insert", "crash"}

WriterInit == /\ queue  = <<>>
              /\ hand   = NoRow
              /\ stored = {}
              /\ lost   = [row \in Rows |-> "kept"]
              /\ closed = FALSE

\* Faulty: a row that finds the channel full is counted as dropped and still
\* waits for room.
WriteDroppedToo(row) ==
    /\ lost'  = [lost EXCEPT ![row] = IF Len(queue) >= BufSize THEN "full" ELSE "kept"]
    /\ queue' = Append(queue, row)
    /\ UNCHANGED <<hand, stored, closed>>

\* Write: one lock section with a non-blocking send.
Write(row) ==
    LET fate == IF closed THEN "closed"
                ELSE IF Len(queue) >= BufSize THEN "full" ELSE "kept"
    IN  /\ lost'  = [lost EXCEPT ![row] = fate]
        /\ queue' = IF fate = "kept" THEN Append(queue, row) ELSE queue
        /\ UNCHANGED <<hand, stored, closed>>

\* The drain goroutine receives; a closed channel still hands out its rows.
Take == /\ hand = NoRow /\ queue # <<>>
        /\ hand'  = Head(queue)
        /\ queue' = Tail(queue)
        /\ UNCHANGED <<stored, lost, closed>>

\* Its insert returns; a failed one is logged and forgotten.
Inserted(ok) ==
    /\ hand # NoRow
    /\ IF ok THEN /\ stored' = stored \cup {hand}
                  /\ UNCHANGED lost
             ELSE /\ lost' = [lost EXCEPT ![hand] = "insert"]
                  /\ UNCHANGED stored
    /\ hand' = NoRow
    /\ UNCHANGED <<queue, closed>>

\* Faulty: waits for the drain goroutine without closing its channel.
CloseForgotten == UNCHANGED writerVars

\* Close up to its wait for the drain goroutine, and what it waits for.
CloseChannel == closed' = TRUE /\ UNCHANGED <<queue, hand, stored, lost>>

Flushed == closed /\ queue = <<>> /\ hand = NoRow

Queued == {queue[i] : i \in DOMAIN queue}

\* The process dies: what it held in memory is lost.
Vanish ==
    /\ lost'   = [row \in Rows |->
                     IF row \in Queued \cup {hand} THEN "crash" ELSE lost[row]]
    /\ queue'  = <<>>
    /\ hand'   = NoRow
    /\ closed' = FALSE
    /\ UNCHANGED stored

WriterTypeOK == /\ queue  \in Seq(Rows) /\ Len(queue) <= BufSize
                /\ hand   \in Rows \cup {NoRow}
                /\ stored \subseteq Rows
                /\ lost   \in [Rows -> Reason]
                /\ closed \in BOOLEAN
=============================================================================
