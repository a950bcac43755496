# LLM platform: a TLA+ model of the prediction gateway

The repository is a multi-tenant gateway to language models: a Go backend (`llm_platform_go`), an admin and
playground frontend (`llm_platform_frontend`) and a demonstration client (`llm_platform_client`). A *task* is a
registered use case (prompt, schemas, a primary model and fallbacks, limits); `POST /v1/tasks/{id}/predict` runs
one prediction for it. This directory holds TLA+ modules translated from that code, TLC instances that check
them, and proofs that hold for every value of the constants. Paths below are relative to
`llm_platform_go/internal` unless they say otherwise.

## 1. Inventory

| Part | State | Operations | Shared with | Modelled by |
|---|---|---|---|---|
| Health tracker `health/tracker.go` | per (task, model): state, consecutive failures, trips, cooldown, end of cooldown | Allow, RecordSuccess, RecordFailure, Reset, event emission | every walk, admin reset, health-event writer | `Breaker`, `HealthTracker` |
| Fallback walk `llm/fallback.go`, `llm/runner.go`, `llm/failure.go` | position in the chain, tries, trace | gate, cache lookup, call with retries, classify, return or go on | circuits, cache, providers, the caller's connection | `FallbackWalk` |
| Rate limiter `ratelimit/limiter.go` | per task: window start, requests, tokens | Reserve (with window lookup, creation, roll), Reconcile | concurrent predictions of a task | `RateLimiter` |
| Async writers `db/{run,attempt,health}writer.go` | bounded channel, closed flag, drop counter | Write, drain, Close | handlers, `main` | `AsyncWriter` |
| Budget gate `api/budget_cache.go`, `Predict` | per task: sum, time of refresh | currentSpend, addSpend | run rows in the database, the writer | `SpendLedger` |
| Start and shutdown `cmd/server/main.go` | - | SIGTERM, Shutdown with timeout, Close, exit | HTTP handlers, writers | `SpendLedger` |
| Task registry `tasks/store.go`, `tasks/versions.go`, handlers | rows of `tasks` and `prompt_versions`, config cache | Create, Update, Delete, SaveDraft, Deploy, DeleteVersion, Get | predictions, several editors | `TaskRegistry`, `PromptLedger` |
| Prediction pipeline `api/predict_core.go` | none of its own | validate, render, reserve, walk, reconcile, cache fill, rows, spend | all of the above | `PredictionPipeline`, `PredictionOracle` |
| Prediction cache `cache/` | entries with expiry | Get, Set | pipeline | `PredictionPipeline` |
| Compare workspace `frontend: hooks/useChat.ts`, `useSessions.ts`, `pages/ComparePage.tsx`; playground `api/handlers.go`, `RunAll` | a conversation per model, session id, loading flag; run rows by session | submit, answers, failures, new chat, load, delete, reload | playground API, run writer, local storage | `CompareChat` |
| Task studio `frontend: pages/TasksPage.tsx` | the list, the open task's sections, prompt drafts, the form of a new task | choose, edit, save, draft, deploy, create, delete, refetch | registry API, other administrators | `TaskStudio` |
| Schema editors `frontend: utils/schema.ts`, `components/*SchemaEditor.tsx`, `utils/defaultPrompts.ts` | the schema held by task, section and editor; fields or text | edit, tabs, switch, save; conversions | the section's save button, the renderer | `SchemaFields`, `DefaultPrompts`, `SchemaForms` |
| Run history `frontend: pages/AdminRunsPage.tsx`, `ListAllRuns` | filters, page, anchor, rows on show, loads in flight | patch, page, refresh, retry, answers | the runs table: the run writer, deleted sessions | `RunHistory` |
| Model health page `frontend: pages/ModelHealthPage.tsx` | circuits and events on show, focus, the busy key, polls and resets in flight | poll, focus, mark healthy | tracker, events | `HealthConsole` |
| Test portal `frontend: pages/ClientPortalPage.tsx`, and the client app | catalog, chosen task, prediction, trace, images | refetch, select, predict, trace, pick | catalog and predict API | `ClientPortal`, `ImagePicker` |
| Tabs `frontend: components/AppShell.tsx` | tab in front, tabs mounted | go to | the two pages before | `AdminTabs` |
| Shadow comparison `api/shadow_handlers.go` | one report row | bounded fan-out of test predictions | pipeline | an item is `SpendLedger!Test`, and a test question of `PredictionPipeline`; the fan-out is not modelled |
| Validation and rendering `tasks/{validate,render}.go`, `schema/` | - | pure functions | pipeline | which fields are images: `DefaultPrompts`; the rest is an outcome |
| Auth and roles `auth/`, `api/middleware.go`, `api/router.go` | a constant table | token check, permission check | every route | not modelled: no state |
| LLM client, pricing, models; errors, types; command-line tools; dashboard | - | HTTP, tables, declarations, rendering | - | not modelled: I/O and data |

How they interact. A prediction (1) passes the budget gate, which reads the cached spend of the day; (2) reserves
in the rate limiter; (3) walks its chain, asking the tracker before each model, looking into the cache, calling
with retries, and telling the tracker what happened; (4) settles the reservation; (5) hands one run row and one
row per attempt to the writers; (6) adds its cost to the cached spend. Config edits reach predictions through the
registry's cache. Shutdown stops new requests, waits at most 25 seconds, then closes the writers.

What is hard about it. All shared state is under small locks held for one section each, so a prediction is a
sequence of lock sections that other predictions interleave with: outcomes arrive after the circuit they belong
to has moved on, settlements after their window rolled, refreshes between a row and its count. The pages of the
frontend are single-threaded and yet concurrent: every `await` lets the user, a timer or another answer in, no
request is cancelled when its page moves on, none is ordered after the one before, and a handler goes on with the
values its closure had when it was made. Writers lose rows
by design, at a full channel, a closed one, a failing insert or a crash. Edits are pairs of SQL statements
without a transaction. The hazards, each at its line and with the property that watches it, are listed in
`PROJECT.json`.

What makes each part correct, in a line: a circuit is a function of its own outcomes; a walk's trace is its chain
in order and tells the same story as the circuits; a window counts exactly what it accepted; a row is in one
place and lost only for a reason the code names; the gate misses no more than what the writer holds; the version
a task points at is recorded and a number means one prompt; an answer was said to the question that gets it. A page
shows what it was last asked for, once everything it waits for has come or failed; a button that is locked is
unlocked; what is saved is what was on the screen; a conversation is of one session and pairs questions with answers.

## 2. Modules

**`Breaker`** is one entry of the tracker: what each method does to it while it holds the lock. Time is relative:
`openFor` is what is left of the cooldown, so that "now is not before openUntil" is `openFor = 0`.

**`HealthTracker`** puts circuits under concurrent calls. `Allow`, `RecordSuccess`, `RecordFailure`, `Reset` are
the lock sections, `Emit` the hand-over of the event after the unlock, `Elapse` time. A call that records nothing
(cache hit, bad request, cancelled caller) is `RecordNothing`. The variables `issued` and `outcomes` are history.

**`FallbackWalk`** is `CallWithFallbackOpts` for concurrent requests of one task, with `CallModel`'s retry loop
inside. An action is a step of the loop body between two points where others may run: `Skip` and `Enter` (the
gate), `LookupHit`/`LookupMiss`, `Answered` (a provider call returns; `Settle` classifies the answer and records
it), `Retry`/`GiveUp` (a sleep ends), `Leave` (the caller goes). The six kinds of answer are those
`failure.go` and the validator tell apart.

**`RateLimiter`** has a step for the read-locked lookup (`Arrive`), for the write-locked creation (`Create`), for
the section under the window's lock (`Reserve`) and for `Reconcile`. Window objects are named by the request that
made them, so that two objects for one task would be visible.

**`AsyncWriter`** is the three writers of `db/`, the same code over three row types: `Write`, `Take` and
`Inserted` (the drain goroutine), `CloseChannel`/`Flushed` (Close, before and after its wait), `Vanish` (the
process ends). `lost` says why a row was lost.

**`SpendLedger`** extends it with the budget gate and the life of the process. `Gate` is Predict's check with the
refresh inside it (one lock section), `Answer` is `insertRun`, `Count` is `addSpend`, two steps as in the code.
A view is kept as the *set of rows* it sums, so that a row counted twice, or missed, can be told from a cheap one.
`Terminate`, `ShutDown`, `Exit`, `Crash`, `Restart` are `main`.

**`TaskRegistry`** is the store and its editing handlers for one task id on one server. A handler first reads the
task (`Resolve`, its `Get`), then calls the store. `Update` merges over what the handler *read* and numbers over
what is *in force*, as `UpdateTask` and `updateLocked` do. An edit of two statements is two actions with the lock
held (`pc` is `recording` or `deleting`); the second may fail (`RecordFails`, `DeleteRowFails`) or never happen
(`Reboot`, which also runs the backfill of `Migrate`). `given`, `retired` and `unrecorded` are history.

**`PromptLedger`** is the abstract specification: a live prompt and a ledger of numbered prompts, every operation
one atomic step that never fails. `TaskRegistry` implements it under the mapping `LiveBar`, `LedgerBar`: a version
counts as recorded as soon as the task's row carries it, so that the statement that records it is a stutter and
the first statement of `Delete` already forgets everything but the live prompt.

**`PredictionPipeline`** is `executePrediction` with its callers `Predict` and `TestTask`, for concurrent predictions
of one task that an administrator edits meanwhile (`Edit`). A prediction keeps the configuration it read (`Begin`),
asks the cache under a key per model and calls (`Hit`, `Call`, `Answered`, `Failed`, `Skip`: one iteration of the
walk), settles its reservation (`Settle`), and either replays the entry (`ServeCached`) or stores a clean answer
(`Fill`) and writes its row (`Record`). The points between these actions are where other requests and edits come in:
a fill may land after the edit that outdates it. Circuits and retries are left to `FallbackWalk`: here any model may
be skipped, answer or fail. An answer is a token that says who said it, on what, and which schemas it fits, so that
a wrong cache key shows as a wrong answer.

**`PredictionOracle`** is the abstract specification: a prediction asks a question, models say things, and the reply
is something a model of its chain said to that question and that fits its schema, or a failure. It knows no cache,
no keys, no fallback order. `PredictionTerms` is the vocabulary the two share.

**`CompareChat`** is the Compare workspace. A turn is `SubmitPrompt` (the click: the closure takes the session, the
models and the columns), `Send` once the attachments are read, `Show`/`Fail` per call, and `Finish`
(`Promise.allSettled` and what follows). The server's side of a call is `row`: answered, with the run writer, in the
table, deleted. The sidebar's `GetSession`/`LoadSession` and `DeleteSession`/`Deleted` are a request and its answer.
Only the send button is locked during a turn, so every other click may come between; `interrupted` remembers that one
did that changes what is shown, and the properties are about conversations for which it did not.

**`TaskStudio`** is the prompt studio over the registry's list. A request goes `sent`, `done`, `listing`, `listed`:
`Perform`, `Refuse` or `Abandon` (the browser's timer, while the server may still perform it), `Succeeded` (the
handler goes on and refetches), `ReadList`, `ShowList` or `LoseList`. `Opened` is the mounting of the detail: a
step that changes what fills the page orphans what the old one waits for (`mine`). A section's fields hold a *text*, and
what is saved of it is `Meant`: a name without the blanks around it, the number a text is read as. `Dirty` compares as
the code does, the text itself for the name and the cap (`ByText`), what it would save for the others. `disturbed` and
`mixed` are history: what happened that the page cannot know of, since the list was last complete.

**`RunHistory`** is the prompt history. `Patch`, `Prev`, `NextPage` and `GoToPage` edit the filters, `Settle` is the
effect 300 ms later, `Refresh` and `Retry` load at once; the server answers a load with the three statements of
`ListAllRuns` (`Pin`, `Count`, `Read`), and answers are shown or lost in any order. Runs are `Recorded` and rows go with a
`SessionDeleted` at any time, between those statements too; an answer notes which rows were gone when it was read.

**`HealthConsole`** is the model health page: polls in `MaxPolls` slots, loads of events, "Mark healthy" whose handler
keeps the focus of the click. **`ClientPortal`** is the page of one task's "Try it" panel, in its two versions: the
portal tab of the workspace and the page of the demonstration app (`tab` tells them apart where the code differs: who
stores images, who treats a 502 as an outcome, who polls for a trace). **`ImagePicker`** is its image field: a `Pick`
reads files, and its `Commit` builds on the images it saw when it began. **`AdminTabs`** composes the pages under the
tabs that keep them mounted; their fairness is stated there, for a page that is mounted.

**`SchemaFields`** holds the conversions of `utils/schema.ts` and the scalar constraints as operators over schemas that
keep the keywords the editors tell apart, the order of the properties and of the required names, and descriptions (a
keyword that is accepted and not written back is `lost`); **`DefaultPrompts`** the prompt the studio derives from a schema beside
the fields the Go renderer takes for images; **`SchemaForms`** the state machine of a pane: task, section and editor each
hold a schema, and edits, tabs, switch and save move it between them.

`MC*` modules are the instances for TLC, `*Proofs` modules the proofs: `CircuitProofs` is about `HealthTracker` and
`FallbackWalk`, `WorkspaceProofs` about `CompareChat` and `TaskStudio`, `AdminPagesProofs` about `SchemaForms`,
`RunHistory` and `AdminTabs`, the others about the module they are named after. `SumTheorems` has the facts on sums
over finite sets that the token counts and the spend rest on. Operators whose comment begins with
"Faulty:" are mutated forms of the definition after them; no specification uses them. They show that each checked
property would catch a plausible slip in that code.

## 3. Runs

| Run | Instance | Shows |
|---|---|---|
| `health_tracker` | 2 circuits, 3 calls, 1 reset, threshold 2, cooldowns 2 and 3 | consistency of the fields, open iff the last failures cross the threshold, events neither lost nor doubled, a trial is possible again |
| `fallback_walk` | 2 requests over the chain m1, m2, m1; 2 tries; threshold 1 | circuits agree with traces, trace is the chain, degraded flag, an abandoned walk stops, every walk returns |
| `rate_limiter` | 5 requests, windows of 2 ticks, cap 2, tokens 4, 3 ticks | token sums, honest retry hints, at most two quotas in any window's length |
| `spend_ledger` | 2 predictions and a test, channel of 1, 2 slots, midnight, one restart | rows in one place, graceful shutdown loses none, the view misses only what the writer held, double counting bounded, shutdown completes |
| `task_registry` | 2 clients, 2 prompts, versions 1..3, crashes and failing statements | live version recorded, a number means one prompt, refinement of `PromptLedger` |
| `prediction_pipeline` | 2 predictions, each a Predict or a test, 2 models, 4 configurations, 1 edit | charge and run row account for one walk, reply, row and trace agree, refinement of `PredictionOracle` |
| `compare_chat` | 2 models, 2 sessions, 2 turns, 2 clicks | questions meet their answers, one session, locked exactly while calls are out, every turn ends |
| `task_studio` | 2 tasks (one built in), 2 values, a third text that means one of them, 2 requests, 3 moves | list is the registry when nothing is out, unedited sections are clean, locks end |
| `run_history` | 2 kinds, pages of 1, 3 runs of which 2 may be deleted, 2 loads | a page at an anchor is that of the snapshot less deleted rows, what is shown is what is asked |
| `admin_tabs` | 2 circuits, 2 polls, 2 images, 2 predictions, 2 moves | events, locks, images, traces and outcomes belong to what they are shown with; the table catches up |
| `schema_forms` | 3 edits over 17 stored and 17 typed schemas | savable is shown, looking is clean, images are images |
| `history_snapshot` | as `run_history`, 2 runs, 1 may be deleted, 3 loads | *violation*: an empty history pins nothing, and its pages slide |

`history_snapshot` checks a sentence of a comment (`AdminRunsPage.tsx:43-45`); `PROJECT.json` quotes it beside what
the code does. It does not contradict `SnapshotHolds` of the passing run, which states what does hold: of an anchor
that was given, by a load that overlapped none before it.

Why these bounds. Each is the smallest at which the case in question happens. Three calls let one trip a circuit
and a third fail late with threshold two. Two tries, not the code's three, show a retry and giving up; a chain
that returns to its first model meets a circuit it may have tripped itself. Five requests fill two windows of two
and leave one to be refused; 3 ticks with windows of 2 reach every offset across a border. A channel of one row
is full, empty and in between with two rows, and a third row is with the drain goroutine. `Costs` is `{1}`: a
free row never reaches the view and every sum only shrinks without it; `Slots` 2 is needed for a refresh between
another request's row and its count. Three version numbers allow a draft past a live one past a first one; one value of
`rest` suffices where only prompts matter. In the pipeline one prediction fills what the other hits, with an edit
anywhere between; the four configurations differ in prompt, schema, order of the chain and caching, and one input
suffices since inputs are in the key beside the prompt. Two turns overlap (a turn ends its predecessor's lock on a reload or by the reading of files), and two clicks replace a
conversation and come back. Two requests of the studio overlap each other's refetches, the third of the moves edits
what a refetch brings back; the third text is a padded name and a number written otherwise, so that what is saved differs
from what is typed. Two loads of the history are one that overtakes the other, or one that pins and one that uses the pin
(a third, one on show while the two are out, is left to the proof: it takes the run past five minutes); a row is deleted
before, between and after the statements that read it. Schemas are of at most two fields, whose names cover blank, spaced, repeated and image-like ones; every stored and
typed schema stands for a kind the editors treat differently.

Two instances cut more than counters. `MCCompareChat` has a `CONSTRAINT`, `Followed`: a conversation that was
disturbed is not followed once no click is left to replace it, or two turns run in it at once, since the safety
properties say nothing about it; `TurnsEnd` is thus checked on the behaviours that stay within it. `MCAdminTabs` mounts
at most one of the two pages in a behaviour: they share no variable, and `AdminPagesProofs` proves the safety
properties without that bound. Deadlock checking is off in the bounded models that run to an
end (every call made, every request served, every bound used); `TaskRegistry` and `SchemaForms` never end and are
checked for it.

Fairness. `HealthTracker`: `Elapse`, since time passes, and `Emit`, since a goroutine past its unlock reaches the
next statement; nothing makes a call start or a model answer. `FallbackWalk`: each request's `Step`, since the
provider clients carry timeouts and sleeps end; nothing about `Leave` or time. `SpendLedger`: `Drain` (a running
goroutine over a database call), `ShutDown` (bounded by the 25 second context) and `Exit` (after the wait group);
nothing about handlers, which may hang until the timeout. `CompareChat`: files are read or not, a call is answered or
its 60 second timer fires, the handler goes on. `TaskStudio`: a request ends with its answer or its 10 second timer.
`AdminTabs`: the 4 second interval of a mounted page goes on, a poll ends, and (strong fairness) not every poll fails
for ever. The API client clears its timer once the headers have come (`api/client.ts:67-69`); the last three assume
that a body follows its headers. Safety runs assume none.

The bound behind "never toward unbounded overspend" (`budget_cache.go:17-18`): by `ViewMissesOnlyQueued` a fresh
view contains every counted row of the day but those that were in the channel or in the drain goroutine's hand at
the refresh, at most `BufSize + 1`; to these add the requests in flight past the gate, tests and shadow items
(which skip it), rows lost, and the answers a walk discarded (section 6). The deployment
guide's "concurrency x cost per call" counts only the second. `OverspendIsBounded` (section 4) proves the bound for the
predictions whose rows are kept.

## 4. Proofs

Eleven modules are proved about, for all constants that meet the named `ASSUME`s: every safety property the passing
runs check is a theorem, and so are the two refinements and a bound on overspending that no run states.

*`CircuitProofs`, the tracker.* `TrackerTyped` and `CircuitsStayConsistent` from `CircuitInv`, types and `Consistent`
(`Breaker`), which ties state, failure run, trips and cooldown together and is inductive once each `After...`
operator is shown to preserve it - one lemma per operator. `CircuitFollowsOutcomes`: the history of outcomes ends
with exactly `consecutive` failures; the lemma about appending to a run of failures carries the induction.
`EventsAreConserved`: a caller holds an event only once it has recorded (`HeldAfterRecord`), and the bags are counted
event by event (`Balanced`).

*`RateLimiterProofs`.* `LimiterInv` is inductive: `OneWindowPerTask` needs `RequestsPlaced` and `WindowsOwned`;
`RequestsCounted` needs that requests carry the start of the window that accepted them (`AcceptedInTime`); and
`BurstIsBounded` needs `WindowsApart` and `CapPerWindow`: an interval of a window's length meets at most two
starts (`TwoWindows`), each with at most the cap. `TokensAlwaysAddUp` rests on `TokensInv`: usage is known only of
settled requests (`UsedOnceSettled`), and the count of a window is the total of what its accepted requests used or
reserved (`TokensAreTotals`). A settlement takes one term out of that total and puts another in, whichever that is,
so it needs that the order of a sum does not matter (`TotalWithout`); and the estimate is part of the count, so the
clamp at zero in `Reconcile` never bites. `HintsSuffice` rests on `HintsDue`: a refused request still refers to
the window that refused it, or to one that began after its end, since a start only ever moves on by a window or more.

*`CircuitProofs`, the walk.* `WalkInv` is the types and three facts: a request that has not returned has traced the models
before its position, all of which fell through, and one that has returned has traced that model too (`Traces`); a
result has a reason and the flag that goes with it (`Returned`); and a late call is the walk's last (`LateIsLast`).
Every action is first shown to be of one of three kinds - it moves within the loop body, returns, or goes on - so the
invariant is proved per kind (`KindEffect`) and not per action. `HealthAlwaysMatchesTraces` counts: a step adds at
most one place to the traces (`OneMorePlace`), and moves the counters of that model alone, by the same one (`Counts`).

*`SpendLedgerProofs`.* `LedgerInv` has four parts beside the types. `InOnePlace` has a row in the channel, in hand, in
the database or lost, and in none before it was written; the channel repeats none. `ClosedLate` ties a closed writer
to a server that has no handler left, or gave up on them. `ViewCovers` is `ViewMissesOnlyQueued` without `Fresh`,
since a stale view may be what the next `addSpend` adds to. `FewTwice` counts, beside the rows that are in the view
twice, those the refresh found and `addSpend` may still add: these only shrink after a refresh, at which they are
requests in flight other than the one that refreshes.
`OverspendIsBounded` is the comment's "never toward unbounded overspend" in money: the predictions of a day whose rows
are kept cost less than `Budget + (BufSize + 1 + Slots) * most`, if no call costs more than `most`. Its invariant
bounds not what was spent but what may yet be (`Exposure`: a request under way counts the most it may cost), since
an answer only turns that into a cost. The bound is met anew each time the gate admits a request
(`ExposureAdmitted`): what it admitted before is in the view, which is below the budget, or with the writer at the
refresh (`MissedFew`: at most `BufSize + 1`), or in flight. `EndedCounted` covers requests a stopping process cut
short: their rows are in the database when the next view is made. Every other step can only lower the exposure
(`ExposureShrinks`), and a midnight keeps only requests under way.

*`TaskRegistryProofs`.* The inductive invariant `IInv` adds to the types, to `LiveVersionRecorded` and to a cache
that is the row or empty (`CacheCoherent`): `OneHolder` (one client
holds editMu), `ResolvedHasRead` (a resolved handler has read a task), `NoOrphans` (no versions without a task),
`RecordingLive` (the client about to record holds the row in force, and its number is free), `DeletingEmptied`,
and `GivenOnce` (a number's history is empty or one prompt, and that of a recorded number is its prompt). They
are needed because a property about the moments *between* edits says nothing inside one. That a new number passes
all recorded ones rests on `Max`, a `CHOOSE`; the lemma that it is the largest of a finite set of numbers is
proved from the well-foundedness of `<`. `RegistryKeepsLedger` is the refinement: initial states map to initial
states and every step to a ledger step or a stutter, one lemma per operation.

*`PredictionProofs`.* `IInv` adds to the types: `TraceSound` (every text on a trace was said by a model of the
prediction's own chain to its own question; only the last attempt serves, and only a usable answer), `ResultSound`
(the result has the text of the last attempt, and is a success exactly when there is one), `BooksSound` (nothing
before a prediction begins, no cache for a test, no reply before the end, and once settled the charge is what the
trace consumed), `AnswerSound` (row and reply follow from the last attempt) and `CacheHeard` (an entry is on some trace). A property of
finished predictions says nothing of those under way, and a hit is only as good as the fill of another prediction:
`CacheMeansItsKey` carries what was true of that other question over to this one, by equality of the keys.
`PipelineImplementsOracle` maps the oracle's `said` to the texts on traces, which only grow (`HeardGrows`): an
answer is `Say`, `ServeCached` and `Record` are `Reply` or `Fail`, the rest stutters.

*`AdminPagesProofs`, the history.* `HistoryTypeCorrect`, whatever the kinds, the page size and the loads in flight. `SnapshotAlwaysHolds`
rests on `SnapshotInv`: an anchor that was given is an id that was recorded (`AnchorsGiven`), an answer is *now* the slice
at its anchor less the rows that were gone when it was read (`AnswersSliced`), although runs were recorded and deleted since:
a new run has an id past any anchor given (`SlicedLater`), and a later deletion is not in the answer's own `gone`. A load in
flight carries the anchor that is pinned unless it overlapped the pinning one (`LoadsAnchored`). The three statements of
the server only fill in what a load lacks (`ReadStep`, `ReadFillsIn`). `ShownIsAlwaysAsked` rests on `AskedInv`: loads are numbered (`LoadsNumbered`),
an answer is to its load's question (`AnswersMatch`), and the newest load asked for the filters as they are unless an
edit is settling (`NewestIsAsked`).

*`AdminPagesProofs`, the tabs.* Five theorems over `TabsSpec`, both pages mounted or not, in any interleaving. `EventsInv`: the
newest load of events is of the focus, or a reset answered later is known to differ. `ResetsInv`: unless resets
crossed, the locked circuit has the one reset that is live. `PortalInv`: at most one prediction is out and every
number on show or sought is at most the number pressed; a trace on show is of the outcome unless a search was cut
into; and the images held are those wanted unless a pick raced.

*`AdminPagesProofs`, the schema editors.* `FormsInv` says how the held value, the editor and the stored schema agree.
`SavedIsAlwaysShown` needs `Agrees`: a valid held value is what is on screen, or the screen shows that value as the
editor draws it, which is what a switch or a reopening leaves. `Sources` and `Twice` are there for repeated names: a
name stands twice only in a list drawn from a schema that came with the task or was typed, since what the editor writes
has bare names. `LookingIsAlwaysClean` needs `Clean`, that before the first edit a plain schema is held and drawn
unchanged; that it is rests on `SchemaWrittenBack`, by which a schema with nothing beyond the field list comes back
from it as it was. Since lists are compared in order, that means place by place: the writer puts the names of the fields
in order of their places (`InOrder`), a set of places has one increasing enumeration (`InOrderExists`, `OneInOrder`), and
so the properties come back in the order they were drawn in (`OrderReadBack`) and the required names in the order they had,
if that was the properties' (`RequiredReadBack`). `Shaped` says that the editor has no state beside its five parts. `ImagesAreAlwaysImages` adds to
the invariant that a field made an image is written as one, and that one drawn as an image is one to the
renderer (`ImagesWritten`).

*`WorkspaceProofs`, the chat.* `ChatInv` is the types, three facts about turns and loads (`Begun`, `ReadRight`, `Barred`)
and `Whole`, which says nothing once a click changed the conversation under a turn, and otherwise that one turn is under
way at most and in the session on show (`OneTurn`), that every message is of that session (`Filed`), that a column is
pairs of questions and answers but for the one question whose call is out (`Settled`), and that the turn
under way asks its question after pairs (`Posed`): the closure puts it to the columns it *saw* at the click, so the
invariant has to speak of those as well. A loaded session is rebuilt from its rows (`RebuiltFacts`); that this gives
pairs again needs an i-th turn for every i up to their number, and counting the turns before each is one to one and so
onto (`NthIsOne`).

*`WorkspaceProofs`, the studio.* `Current` and `UneditedIsClean` are proved from three facts. `Typed`: each request asks for
what its kind may ask. `Refreshed`: the page has the list of the newest revision, or knows of an error, or a
request on its way will bring it, or something happened it cannot know of. `DetailSound`: in a detail that opened with
nothing on its way, every request is its own and at most one saves a section; a section left alone holds the server's
copy, or a text that saves as it (`Untouched`: a save leaves what was typed in the field), a save carried out is that copy (`SaveHolds`), and a list without that copy, on show or read, is
followed by the list of a save (`ShownAgrees`, `ReadAgrees`). The last two are what the property rests on: an older list
may take the place of a newer one, but not the last word.

Assumptions are the types of the constants and that the "nothing" values differ from the rest; TLC evaluates them
in every run. For `Breaker` they say what `NewTracker`'s defaulting leaves possible. In `TaskRegistry` the bound
`Limit` on version numbers is any natural number.

Only model-checked: the six liveness properties (`TrialEventuallyAllowed`, `EveryWalkReturns`, `ShutdownCompletes`,
`TurnsEnd`, `LocksEnd`, `HealthCatchesUp`), which rest on fairness and `ENABLED`, out of reach of the proof
system.

## 5. Abstractions

Prompts, answers, rows and costs are members of small sets; text, SQL, JSON and logging are left out. Time is in
ticks. A disabled tracker or limiter does nothing and is not modelled. `FallbackWalk` has one task, `SpendLedger`
one task and one process over its database, `TaskRegistry` one task id and one server. A validation that refuses
an edit is `Finish`. `HealthTracker` treats a model call as one step between Allow and Record; what happens inside
is `FallbackWalk`. In `PredictionPipeline` an entry that expired, a store that fails and an entry that cannot be read
are a lookup that misses, possible at any time; an answer costs one token and one unit of money; the values a
prompt version pins (template, system prompt, sampling parameters) are one value, and so are a caller's inputs and
images; budget, input and size checks are `Refuse`. A loaded session in `CompareChat` has its turns in
the order they were asked in; the query orders its rows by the time their answers came (`db/queries.go:699`), which
differs when turns overlapped. Property names in `SchemaFields` are no whole numbers, which a JavaScript object lists
before its other keys.

## 6. Disagreements between text and code that no run shows

Gateway.

- `health/tracker.go:12-14` ties the growth of the cooldown to a failed trial; a late failure of a call admitted
  before the trip escalates it without one (`:171`).
- `health/tracker.go:12` speaks of a single probing trial; `:111` admits every call while probing.
- `health/tracker.go:76` promises transitions on the sink; unhealthy to probing (`:115-118`) is silent.
- A schema-invalid answer is dropped, and the chain reported as down, when a later model is skipped or fails
  (`llm/fallback.go:165-168,178`).
- A fallback's cached answer is served after the primary was only skipped (`llm/fallback.go:13-17,94`).
- `llm/fallback.go:170-173` says the caller "still gets a 200" for a chain of schema-invalid answers;
  `api/predict_core.go` classifies it as a failure and `Predict` answers 502.
- A refresh of the spend view forgets finished predictions whose rows the writer holds (`api/budget_cache.go:15-18,48`).
- Schema-invalid answers on the way are billed but not counted as spend (`api/predict_core.go:379-380,473-474`).
- `ratelimit/limiter.go:8` bounds tokens per window; a settlement may take the count over the budget
  (`:207`), which the next request then meets.
- `ratelimit/limiter.go:2` calls the window rolling; an expired one is replaced by an empty one (`:160-164`), so up
  to two quotas fall within one window's length, which is what `BurstBounded` states.
- An update without a prompt reverts the prompt another client saved since (`api/task_handlers.go:72-73,97`).
- After an update whose version row failed to be written, `SaveDraft` (`tasks/versions.go:141-146`) lacks the
  safety of `tasks/store.go:190` and hands out the live number again; so does a draft after the newest one was
  deleted.
- A run row of a cached answer never carries `fallback_used` (`api/predict_core.go:513-528`), although the reply
  does (`:496-503`) and `docs/08-database.md` and the deployment guide's fallback rate read it from the row.
- `docs/10-caching-and-cost.md` says a hit keeps the token counts of the original call; `serveCached` reports and
  stores none.
- `docs/06-circuit-breaker.md` describes an `internal/llm/breaker.go` that does not exist.
- The deployment guide (section 7) lists a database read per request for task config; there is a 5 second cache.
- With several servers, one whose cached task is up to 5 seconds old lets `DeleteVersion` remove the live version.

Compare workspace.

- An answer that arrives after a new chat was begun or a session loaded is appended to the conversation then on show
  (`useChat.ts:178`), and a failed call removes its column's last message whatever that is by then (`:199`). These
  are the conversations `interrupted` sets apart.
- While attachments are read the send button is not locked yet, so a prompt can be submitted twice.
- Deleting begins a new chat by the session its closure saw, and does so when the request failed as well; rows of a
  running turn arrive later and bring a deleted session back (`db/queries.go:770`).
- Ratings are keyed by the place of a message and are not loaded back with a session. The list of sessions is fetched
  right after the answers and misses rows that are still with the writer. The text of a prompt whose calls fail is
  lost. An image without a text is offered and refused by the server.

Task studio and schema editors.

- What is typed into the create form during its POST is discarded with the draft; a late answer to a create or a
  delete takes the selection from the task opened since.
- A name saved with blanks around it, or a cap typed as `007` or `1e3`, stays an unsaved change after the save succeeded,
  until the cap is reset or the task opened anew: the field keeps what was typed and is compared with what was stored
  (`TasksPage.tsx:995` beside `:1001`, `:1229` beside `:1234`). `UneditedIsClean` sets exactly such texts aside.
- A section left and reopened during its save shows the old value as an unsaved change; an older refetch may replace
  the list of a newer one, or clear its error.
- `utils/schema.ts:4-9,66-70` promise that no schema loses anything undrawable. Lost at the first edit: `title`,
  `description` and `additionalProperties` of the object, `title` of a property, a name in `required` that is no
  property, the image format of a string property, and keywords of a scalar answer that have no control; an array
  without `items` gains one. Names are trimmed, and duplicates collapse on the way to the text tab.
- A change of tabs alone, to the text and back, makes an unsaved change of a schema whose `required` is not in the order of
  its properties, repeats a name or names no property, of an object without `properties`, of an empty `required`, and of
  a property whose description is blank or padded: `fieldsToSchema` writes them its own way (`schema.ts:164-169`) and
  `stableStringify` sorts keys but not lists (`:174-180`). These are what `Plain` excludes from `LookingIsClean`, beside
  what is lost at an edit.
- A field named `Image` is an image to the default prompt, which lowers names (`defaultPrompts.ts:53`), and a text to the
  server, which does not (`render.go:81`). A property whose type is a list does not decode there, and then no field but
  `image` and `images` is one (`render.go:94-95`).
- A text that is JSON but no object (`null`) is marked invalid and can be turned into an empty list of fields. A
  saved `{}` counts as no schema and stays an unsaved change.
- `utils/defaultPrompts.ts:9-11` calls the generated prompt always safe; a name that is no Go identifier (a hyphen)
  does not parse in a template.
- A text with two names that differ by spaces only (`"a"`, `" a"`), switched to fields, is reported valid and saves one
  property (`SchemaEditor.tsx:90-105`, `schema.ts:5-9`). `maxItems: 0` of an image field is drawn as "no limit" and dropped
  (`schema.ts:129-136,156`).

Administration pages.

- `ModelHealthPage.tsx:49` says that events are refetched alongside the circuits; a failed load of events is only
  logged. A reset answered after the focus moved fetches the old focus's events (`:60-65`). One `busy` key serves
  all rows, so overlapping resets unlock each other. These are `outdated` and `crossed`.
- A pick that began before another was committed loses its images or brings removed ones back
  (`ClientPortalPage.tsx:560-609`); this is `raced`. A failed refetch of the catalog replaces the open panel and
  loses its prediction. The search for a trace goes on under the next prediction (`:288`); this is `early`.
- `ClientPortalPage.tsx:395` says that the search for a trace stops at an access error; it goes on for its seven
  tries.
- An answer of an older filter may replace a newer one's in the run history (`overtaken`); a history that was empty
  pins nothing (`history_snapshot`).
- `db/queries.go:355-359` says that every page at an anchor "sees the same fixed set of rows", and `AdminRunsPage.tsx:45-47`
  that page 2 stays as it was. When a user deletes a session its rows leave the table (`db/queries.go:770-783`), and the
  pages after them slide up by as many rows. `SnapshotHolds` says that nothing else shifts them.
- `pages/VersionsPage.tsx` is mounted by no other file.

## 7. Not modelled, and what is left of the plan

Not modelled. *LLM client, pricing*: HTTP and tables. *JSON Schema validation, coercion and template execution*: the
schema library and Go's templates decide, and their verdicts are outcomes of the walk. *Authentication and
permissions*: signature checks by a library, and a constant table without state. *Errors, types, toasts, dashboard,
versions page, statistics*: declarations and rendering of one answer. *Seeding, migration and token tools*: run
once, alone.

Left, in this order.

1. `RegistryReplicas`: `TaskRegistry` on two servers over one database with their 5 second caches, for the day the
   deployment guide's "one replica" no longer holds.
2. `ShadowFanout` and `RunAll`: bounded concurrency, order of results, one report.
3. The list of sessions with its paging, and ratings; deletion of versions in the studio.
4. Proofs: an abstract limiter (a set of accepted requests per window) and its refinement by `RateLimiter`; the
   cost of tests and lost rows beside `OverspendIsBounded`.
