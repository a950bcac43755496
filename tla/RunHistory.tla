----------------------------- MODULE RunHistory -----------------------------
(***************************************************************************)
(* The prompt history of an administrator (pages/AdminRunsPage.tsx) over   *)
(* /v1/admin/runs.  The list is meant to be a snapshot: the first answer   *)
(* pins the run id it was sliced against, later loads send that id, and    *)
(* Refresh drops it.  Loads are neither cancelled nor ordered.  Beside     *)
(* them runs are recorded, and rows go when a session is deleted.          *)
(*                                                                         *)
(* A run is what the filters tell apart, its kind; its id is its place in  *)
(* the order of recording, and is not given out again.                     *)
(***************************************************************************)
EXTENDS Integers, Sequences, FiniteSets

CONSTANTS Kinds, Any,   \* kinds of runs, and the filter that lets all pass
          SessionKinds, \* those of runs that belong to a session
          PageSize,     \* rows of a page
          MaxPage,      \* the largest page that may be remembered (bound)
          MaxRuns,      \* runs there can be (bound)
          MaxDeleted,   \* of them, rows that may be deleted (bound)
          MaxLoads,     \* loads of a behaviour (bound)
          NoData        \* nothing on show, or no answer yet

Unpinned == -1
Uncounted == -1

ASSUME HistoryAssumption ==
    /\ Any \notin Kinds /\ SessionKinds \subseteq Kinds
    /\ PageSize \in Nat \ {0} /\ MaxPage \in Nat \ {0}
    /\ MaxRuns \in Nat /\ MaxDeleted \in Nat /\ MaxLoads \in Nat

VARIABLES runs,             \* the kinds of the runs ever recorded, by id
          deleted,          \* the ids whose rows are gone from the table
          filters,          \* what is asked for: kind and page
          due,              \* the 300 ms after an edit are running
          anchor,           \* anchorRef: a run id, 0, or Unpinned
          data,             \* the answer on show
          failed, forbidden, loading,
          loads,            \* the loads in flight
          sent,             \* loads so far
          refreshes,        \* times the snapshot was dropped
          answered,         \* the newest load that was answered
          mixed, overtaken  \* history: see SnapshotHolds and ShownIsAsked

status == <<failed, forbidden, loading>>
notes  == <<answered, mixed, overtaken>>
historyVars == <<runs, deleted, filters, due, anchor, data, status, loads, sent, refreshes, notes>>

Filter == [kind : Kinds \cup {Any}, page : Nat \ {0}]

\* The rows of the table, less those in gone, up to an anchor that pass a filter; an
\* anchor of 0 is no condition.
Passing(kind, a, gone) ==
    {i \in DOMAIN runs \ gone : (a > 0 => i <= a) /\ kind \in {Any, runs[i]}}

\* One page of them, the newest first.
Slice(kind, a, page, gone) ==
    {i \in Passing(kind, a, gone) :
        Cardinality({j \in Passing(kind, a, gone) : j >= i})
            \in ((page - 1) * PageSize + 1)..(page * PageSize)}

Pages(kind, a) == (Cardinality(Passing(kind, a, deleted)) + PageSize - 1) \div PageSize

\* SELECT COALESCE(MAX(id), 0) FROM runs.
IsNewestRow(a) ==
    /\ a \in (DOMAIN runs \ deleted) \cup {0}
    /\ \A i \in DOMAIN runs \ deleted : i <= a

Answer(r) == [kind |-> r.kind, page |-> r.page, anchor |-> r.at, era |-> r.era,
              rows |-> Slice(r.kind, r.at, r.page, deleted), pages |-> r.pages,
              gone |-> deleted]

HistoryInit ==
    /\ runs \in UNION {[1..n -> Kinds] : n \in 0..MaxRuns} /\ deleted = {}
    /\ filters \in [kind : Kinds \cup {Any}, page : 1..MaxPage]
    /\ due = TRUE /\ anchor = Unpinned /\ data = NoData
    /\ failed = FALSE /\ forbidden = FALSE /\ loading = TRUE
    /\ loads = {} /\ sent = 0 /\ refreshes = 0
    /\ answered = 0 /\ mixed = FALSE /\ overtaken = FALSE

-----------------------------------------------------------------------------
\* A prediction or a test of anybody is recorded.
Recorded(k) ==
    /\ Len(runs) < MaxRuns
    /\ runs' = Append(runs, k)
    /\ UNCHANGED <<deleted, filters, due, anchor, data, status, loads, sent, refreshes, notes>>

\* Sessions are deleted, and their rows with them.
SessionDeleted(D) ==
    /\ D # {} /\ D \subseteq {i \in DOMAIN runs \ deleted : runs[i] \in SessionKinds}
    /\ deleted' = deleted \cup D /\ Cardinality(deleted') <= MaxDeleted
    /\ UNCHANGED <<runs, filters, due, anchor, data, status, loads, sent, refreshes, notes>>

\* An edit of a filter goes back to the first page and starts the 300 ms anew.
Ask(f) ==
    /\ ~forbidden
    /\ filters' = f /\ due' = TRUE
    /\ UNCHANGED <<runs, deleted, anchor, data, status, loads, sent, refreshes, notes>>

\* Faulty: an edit is not among what the effect depends on.
PatchUnseen(k) ==
    /\ ~forbidden
    /\ filters' = [kind |-> k, page |-> 1]
    /\ UNCHANGED <<runs, deleted, due, anchor, data, status, loads, sent, refreshes, notes>>

Patch(k) == Ask([kind |-> k, page |-> 1])

Paged == data # NoData /\ data.pages > 1

Prev == Paged /\ filters.page > 1 /\ Ask([filters EXCEPT !.page = @ - 1])

NextPage == Paged /\ filters.page < data.pages /\ Ask([filters EXCEPT !.page = @ + 1])

GoToPage(p) == Paged /\ p \in 1..data.pages \ {filters.page} /\ Ask([filters EXCEPT !.page = p])

\* Faulty: no load sends the anchor.
SendUnanchored(a) ==
    /\ sent < MaxLoads
    /\ sent' = sent + 1
    /\ anchor' = a /\ loading' = TRUE
    /\ loads' = loads \cup {[n |-> sent + 1, kind |-> filters.kind, page |-> filters.page,
                             anchor |-> Unpinned, era |-> refreshes', at |-> Unpinned,
                             pages |-> Uncounted, answer |-> NoData]}
    /\ mixed' = IF a > 0 THEN mixed ELSE loads # {}
    /\ UNCHANGED <<runs, deleted, filters, data, failed, forbidden, answered, overtaken>>

\* load, with a for the anchor: an anchor that is unset, or 0, is not sent.
Send(a) ==
    /\ sent < MaxLoads
    /\ sent' = sent + 1
    /\ anchor' = a /\ loading' = TRUE
    /\ loads' = loads \cup {[n |-> sent + 1, kind |-> filters.kind, page |-> filters.page,
                             anchor |-> a, era |-> refreshes',
                             at |-> IF a > 0 THEN a ELSE Unpinned,
                             pages |-> Uncounted, answer |-> NoData]}
    /\ mixed' = IF a > 0 THEN mixed ELSE loads # {}
    /\ UNCHANGED <<runs, deleted, filters, data, failed, forbidden, answered, overtaken>>

Settle == due /\ due' = FALSE /\ UNCHANGED refreshes /\ Send(anchor)

Refresh ==
    /\ ~loading /\ ~forbidden
    /\ refreshes' = refreshes + 1
    /\ UNCHANGED due /\ Send(Unpinned)

Retry == failed /\ ~forbidden /\ UNCHANGED <<due, refreshes>> /\ Send(anchor)

-----------------------------------------------------------------------------
\* ListAllRuns, one statement after the other: the anchor of a load that sent none,
\* the count, and the rows.
ReadBy(r, q) ==
    /\ loads' = (loads \ {r}) \cup {q}
    /\ UNCHANGED <<runs, deleted, filters, due, anchor, data, status, sent, refreshes, notes>>

Pin(r, a) ==
    /\ r \in loads /\ r.at = Unpinned /\ IsNewestRow(a)
    /\ ReadBy(r, [r EXCEPT !.at = a])

Count(r) ==
    /\ r \in loads /\ r.at # Unpinned /\ r.pages = Uncounted
    /\ ReadBy(r, [r EXCEPT !.pages = Pages(r.kind, r.at)])

Read(r) ==
    /\ r \in loads /\ r.pages # Uncounted /\ r.answer = NoData
    /\ ReadBy(r, [r EXCEPT !.answer = Answer(r)])

Newest(r) == answered' = IF r.n > answered THEN r.n ELSE answered

\* The answer arrives: the first one of a snapshot pins it.
Show(r) ==
    /\ r \in loads /\ r.answer # NoData
    /\ loads' = loads \ {r}
    /\ anchor' = IF anchor = Unpinned THEN r.answer.anchor ELSE anchor
    /\ data' = r.answer
    /\ failed' = FALSE /\ forbidden' = FALSE /\ loading' = FALSE
    /\ Newest(r) /\ overtaken' = (r.n < answered)
    /\ UNCHANGED <<runs, deleted, filters, due, sent, refreshes, mixed>>

\* It is refused to who is no administrator any more, or fails.
Lose(r) ==
    /\ r \in loads
    /\ loads' = loads \ {r}
    /\ \/ forbidden' = TRUE /\ UNCHANGED failed
       \/ failed' = TRUE /\ UNCHANGED forbidden
    /\ loading' = FALSE
    /\ Newest(r)
    /\ UNCHANGED <<runs, deleted, filters, due, anchor, data, sent, refreshes, mixed, overtaken>>

HistoryNext ==
    \/ \E k \in Kinds : Recorded(k)
    \/ \E D \in SUBSET DOMAIN runs : SessionDeleted(D)
    \/ \E k \in Kinds \cup {Any} : Patch(k)
    \/ Prev \/ NextPage \/ \E p \in 1..MaxRuns : GoToPage(p)
    \/ Settle \/ Refresh \/ Retry
    \/ \E r \in loads : \/ \E a \in 0..Len(runs) : Pin(r, a)
                       \/ Count(r) \/ Read(r) \/ Show(r) \/ Lose(r)

HistorySpec == HistoryInit /\ [][HistoryNext]_historyVars

-----------------------------------------------------------------------------
\* The variables have their types.
Result == [kind : Kinds \cup {Any}, page : Nat \ {0}, anchor : Nat, era : Nat,
           rows : SUBSET Nat, pages : Nat, gone : SUBSET Nat]

Load == [n : Nat \ {0}, kind : Kinds \cup {Any}, page : Nat \ {0}, anchor : Nat \cup {Unpinned},
         era : Nat, at : Nat \cup {Unpinned}, pages : Nat \cup {Uncounted},
         answer : Result \cup {NoData}]

HistoryTypeOK ==
    /\ runs \in Seq(Kinds) /\ deleted \subseteq DOMAIN runs /\ filters \in Filter
    /\ anchor \in Nat \cup {Unpinned} /\ data \in Result \cup {NoData}
    /\ loads \subseteq Load /\ \A r \in loads : r.pages # Uncounted => r.at # Unpinned
    /\ sent \in Nat /\ refreshes \in Nat /\ answered \in Nat
    /\ {due, failed, forbidden, loading, mixed, overtaken} \subseteq BOOLEAN

\* The rows on show are, at any later time, those of the page in the snapshot that
\* is pinned, less the runs that were deleted before the page was read: runs recorded
\* meanwhile shift nothing, only a deleted session does; but for a history that was
\* empty when it was pinned, and loads that overlapped one that was to pin it.
SnapshotHolds ==
    data # NoData /\ anchor > 0 /\ ~mixed
        => /\ data.anchor = anchor
           /\ data.rows = Slice(data.kind, anchor, data.page, data.gone)

\* When nothing is out, the rows on show are those of the filters and the page, or
\* an error is; but for an answer that came after a newer one.
ShownIsAsked ==
    loads = {} /\ ~due /\ data # NoData /\ ~failed /\ ~forbidden /\ ~overtaken
        => data.kind = filters.kind /\ data.page = filters.page

\* "Every page change and filter edit then reuses this same anchor": what is shown
\* between two refreshes is of one snapshot.
OneSnapshot ==
    [][data # NoData /\ data'.era = data.era => data'.anchor = data.anchor]_data
=============================================================================
