---------------------------- MODULE TaskRegistry ----------------------------
(***************************************************************************)
(* The registry of prediction tasks for one task id: tasks.Store           *)
(* (internal/tasks/store.go, versions.go) and the handlers that edit       *)
(* through it (internal/api/task_handlers.go, version_handlers.go), on one *)
(* server process.                                                         *)
(*                                                                         *)
(* A handler first reads the task (Resolve) and then calls the store; the  *)
(* store's editMu is held for the whole of an edit.  Every write to the    *)
(* database is a step, since a later one may fail or the process end       *)
(* before it.  A write that is the only one of its edit is one step with   *)
(* the reads that lead to it.                                              *)
(***************************************************************************)
EXTENDS Naturals, FiniteSets, FiniteSetsExt

CONSTANTS Clients,
          Prompts,    \* a template and its system prompt
          Rests,      \* the other fields of a task: routing, limits, schemas
          Limit,      \* largest version number (bound)
          NoPrompt,   \* no row of prompt_versions
          NoTask,     \* no row of tasks, no cached task
          Absent      \* a field the body of an update does not carry

Numbers == 1..Limit
Task == [version : Numbers, prompt : Prompts, rest : Rests]

ASSUME RegistryAssumption ==
    /\ Limit \in Nat
    /\ NoPrompt \notin Prompts
    /\ Absent \notin Prompts \cup Rests
    /\ NoTask \notin Task \cup [version : Numbers, prompt : Prompts]

VARIABLES task,        \* the row of tasks
          versions,    \* the rows of prompt_versions
          cached,      \* the store's cached task
          pc,          \* where the handler of a client is
          seen,        \* the task it has read, or written
          given,       \* history: the prompts a number has stood for
          retired,     \* history: numbers whose row was deleted
          unrecorded   \* history: the second write of an edit has failed

db      == <<task, versions>>
history == <<given, retired, unrecorded>>
vars    == <<task, versions, cached, pc, seen, given, retired, unrecorded>>

Empty == [n \in Numbers |-> NoPrompt]

Init == /\ task       = NoTask
        /\ versions   = Empty
        /\ cached     = NoTask
        /\ pc         = [c \in Clients |-> "idle"]
        /\ seen       = [c \in Clients |-> NoTask]
        /\ given      = [n \in Numbers |-> {}]
        /\ retired    = {}
        /\ unrecorded = FALSE

-----------------------------------------------------------------------------
\* Nobody holds editMu.
Unlocked == \A c \in Clients : pc[c] \notin {"recording", "deleting"}

\* getRaw.
Raw == IF cached # NoTask THEN cached ELSE task

Recorded == {n \in Numbers : versions[n] # NoPrompt}

\* maxVersion.
MaxVersion == Max(Recorded \cup {0})

\* From now on runs may be stamped with number n for prompt p.
Stamp(n, p) == given' = [given EXCEPT ![n] = @ \cup {p}]

\* The store answers the client, or refuses.
Done(c) == /\ pc'   = [pc EXCEPT ![c] = "idle"]
           /\ seen' = [seen EXCEPT ![c] = NoTask]

\* The client has written task t and goes on to append its version.
ToRecord(c, t) == /\ pc'   = [pc EXCEPT ![c] = "recording"]
                  /\ seen' = [seen EXCEPT ![c] = t]

\* Get, at the start of a handler.
Resolve(c) ==
    /\ pc[c] = "idle" /\ Unlocked /\ Raw # NoTask
    /\ cached' = Raw
    /\ seen'   = [seen EXCEPT ![c] = Raw]
    /\ pc'     = [pc EXCEPT ![c] = "resolved"]
    /\ UNCHANGED <<db, history>>

\* A handler that only reads, or whose edit is refused or fails at its first
\* write.
Finish(c) == /\ pc[c] = "resolved"
             /\ Done(c)
             /\ UNCHANGED <<db, cached, history>>

\* Create: the row, then its version.
Create(c, t) ==
    /\ pc[c] = "idle" /\ Unlocked /\ task = NoTask
    /\ task'   = t
    /\ cached' = NoTask
    /\ Stamp(t.version, t.prompt)
    /\ ToRecord(c, t)
    /\ UNCHANGED <<versions, retired, unrecorded>>

Merge(base, body) == [base EXCEPT
    !.prompt = IF body.prompt = Absent THEN @ ELSE body.prompt,
    !.rest   = IF body.rest = Absent THEN @ ELSE body.rest]

\* Faulty: the number after the live one.
NextOfLive(existing) == existing.version + 1

\* The number of a changed prompt: past every version, drafts included.
NextVersion(existing) == Max({MaxVersion, existing.version}) + 1

\* What an Update writes over the task in force, existing, when the handler had
\* read base.
Updated(base, body, existing) ==
    LET t == Merge(base, body)
    IN  [t EXCEPT !.version = IF t.prompt = existing.prompt THEN existing.version
                                                            ELSE NextVersion(existing)]

\* UpdateTask and Update: the merge is over the task the handler read, before
\* the lock; the version is that of the task in force.
Update(c, body) ==
    LET t == Updated(seen[c], body, Raw)
    IN  /\ pc[c] = "resolved" /\ Unlocked /\ Raw # NoTask
        /\ t.version \in Numbers
        /\ task'   = t
        /\ cached' = NoTask
        /\ IF t.prompt # Raw.prompt
           THEN ToRecord(c, t) /\ Stamp(t.version, t.prompt)
           ELSE Done(c) /\ UNCHANGED given
        /\ UNCHANGED <<versions, retired, unrecorded>>

\* appendVersion of a Create or an Update.
Record(c) ==
    /\ pc[c] = "recording" /\ versions[seen[c].version] = NoPrompt
    /\ versions' = [versions EXCEPT ![seen[c].version] = seen[c].prompt]
    /\ Done(c)
    /\ UNCHANGED <<task, cached, history>>

\* It fails: the task stays as written.
RecordFails(c) ==
    /\ pc[c] = "recording"
    /\ unrecorded' = TRUE
    /\ Done(c)
    /\ UNCHANGED <<db, cached, given, retired>>

SaveDraft(c, p) ==
    LET n == MaxVersion + 1
    IN  /\ pc[c] = "resolved" /\ Unlocked /\ Raw # NoTask
        /\ n \in Numbers
        /\ versions' = [versions EXCEPT ![n] = p]
        /\ cached'   = Raw
        /\ Stamp(n, p)
        /\ Done(c)
        /\ UNCHANGED <<task, retired, unrecorded>>

Deploy(c, n) ==
    /\ pc[c] = "resolved" /\ Unlocked
    /\ n \in Recorded /\ task # NoTask
    /\ task'   = [task EXCEPT !.version = n, !.prompt = versions[n]]
    /\ cached' = NoTask
    /\ Done(c)
    /\ UNCHANGED <<versions, history>>

\* Faulty: takes any version.
DeleteAnyVersion(c, n) ==
    /\ pc[c] = "resolved" /\ Unlocked /\ Raw # NoTask
    /\ n \in Recorded
    /\ versions' = [versions EXCEPT ![n] = NoPrompt]
    /\ retired'  = retired \cup {n}
    /\ cached'   = Raw
    /\ Done(c)
    /\ UNCHANGED <<task, given, unrecorded>>

DeleteVersion(c, n) ==
    /\ pc[c] = "resolved" /\ Unlocked /\ Raw # NoTask
    /\ n \in Recorded /\ n # Raw.version
    /\ versions' = [versions EXCEPT ![n] = NoPrompt]
    /\ retired'  = retired \cup {n}
    /\ cached'   = Raw
    /\ Done(c)
    /\ UNCHANGED <<task, given, unrecorded>>

\* Delete: the versions, then the row.
Delete(c) ==
    /\ pc[c] = "idle" /\ Unlocked /\ Raw # NoTask
    /\ versions' = Empty
    /\ retired'  = Numbers
    /\ cached'   = Raw
    /\ pc'       = [pc EXCEPT ![c] = "deleting"]
    /\ UNCHANGED <<task, seen, given, unrecorded>>

DeleteRow(c) ==
    /\ pc[c] = "deleting"
    /\ task'   = NoTask
    /\ cached' = NoTask
    /\ Done(c)
    /\ UNCHANGED <<versions, history>>

DeleteRowFails(c) ==
    /\ pc[c] = "deleting"
    /\ unrecorded' = TRUE
    /\ Done(c)
    /\ UNCHANGED <<db, cached, given, retired>>

-----------------------------------------------------------------------------
\* The cached task is older than configCacheTTL.
Expire == /\ cached # NoTask
          /\ cached' = NoTask
          /\ UNCHANGED <<db, pc, seen, history>>

\* Faulty: without the backfill.
RebootAsIs == /\ cached' = NoTask
              /\ pc'     = [c \in Clients |-> "idle"]
              /\ seen'   = [c \in Clients |-> NoTask]
              /\ UNCHANGED <<db, history>>

\* The process ends, wherever its handlers are, and starts again: Migrate
\* records the live version of a task that has no row for it.
Reboot ==
    /\ cached' = NoTask
    /\ pc'     = [c \in Clients |-> "idle"]
    /\ seen'   = [c \in Clients |-> NoTask]
    /\ versions' = [n \in Numbers |->
           IF versions[n] = NoPrompt /\ task # NoTask /\ n = task.version
           THEN task.prompt ELSE versions[n]]
    /\ UNCHANGED <<task, history>>

Body == [prompt : Prompts \cup {Absent}, rest : Rests \cup {Absent}]

Edit(c) == \/ \E t \in Task : Create(c, t)
           \/ \E body \in Body : Update(c, body)
           \/ Record(c)
           \/ RecordFails(c)
           \/ \E p \in Prompts : SaveDraft(c, p)
           \/ \E n \in Numbers : Deploy(c, n) \/ DeleteVersion(c, n)
           \/ Delete(c)
           \/ DeleteRow(c)
           \/ DeleteRowFails(c)

Next == \/ \E c \in Clients : Resolve(c) \/ Finish(c) \/ Edit(c)
        \/ Expire
        \/ Reboot

Spec == Init /\ [][Next]_vars

-----------------------------------------------------------------------------
TypeOK == /\ task       \in Task \cup {NoTask}
          /\ versions   \in [Numbers -> Prompts \cup {NoPrompt}]
          /\ cached     \in Task \cup {NoTask}
          /\ pc         \in [Clients -> {"idle", "resolved", "recording", "deleting"}]
          /\ seen       \in [Clients -> Task \cup {NoTask}]
          /\ given      \in [Numbers -> SUBSET Prompts]
          /\ retired    \subseteq Numbers
          /\ unrecorded \in BOOLEAN

\* Readers "never keep serving a stale chain once an edit has started"
\* (store.go:42-44): what Get answers with from memory is the row.
CacheCoherent == cached # NoTask => cached = task

\* "The task's active prompt is whichever version tasks.prompt_version points
\* at" (versions.go:15-16): between edits, and whatever crashes there were, the
\* live version has a row and the row has the live prompt - until an edit's
\* second write fails.
LiveVersionRecorded ==
    ~unrecorded /\ Unlocked /\ task # NoTask => versions[task.version] = task.prompt

\* Drafts, updates and deploys never give one number two prompts (store.go:164,
\* 184; versions.go:127), unless the number's row was deleted in between, so
\* runs stamped with it can be attributed - until an edit's second write fails.
NumberMeansOnePrompt ==
    ~unrecorded => \A n \in Numbers \ retired : Cardinality(given[n]) <= 1

\* The registry implements the ledger until an edit's second write fails.  A
\* version is recorded as soon as the row of tasks carries it.
LiveBar == IF task = NoTask THEN NoTask
           ELSE [version |-> task.version, prompt |-> task.prompt]
LedgerBar == [n \in Numbers |-> IF task # NoTask /\ n = task.version
                                THEN task.prompt ELSE versions[n]]

Ledger == INSTANCE PromptLedger WITH live <- LiveBar, ledger <- LedgerBar

KeepsLedger == Ledger!Init /\ [][unrecorded' \/ Ledger!Next]_<<LiveBar, LedgerBar>>
=============================================================================
