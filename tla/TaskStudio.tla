----------------------------- MODULE TaskStudio -----------------------------
(***************************************************************************)
(* The prompt studio (pages/TasksPage.tsx) of one administrator: the task  *)
(* list, the detail of one task with its sections, the prompt draft and    *)
(* the form for a new task, over the task registry behind /v1/tasks.       *)
(*                                                                         *)
(* A section copies its fields from the task when the detail is opened,    *)
(* saves them alone, and then has the whole list fetched again.  Sections  *)
(* save side by side, and nothing keeps the user from opening another task *)
(* meanwhile.  What the fields hold is a text; what is saved of it, a      *)
(* trimmed name, the number a text is read as, may be written otherwise.   *)
(***************************************************************************)
EXTENDS Naturals

CONSTANTS Ids,          \* task ids
          Playground,   \* the built-in task
          Values,       \* contents of a section, each as it is first shown, and prompts
          Texts,        \* what fields may hold
          Meant,        \* the value a section saves of a text, or Bad
          Initial,      \* those a task has when it is created
          MaxRequests,  \* requests of a behaviour, refetches aside (bound)
          Absent, NoId, Bad

Sections == {"identity", "model", "sampling", "budget", "limits", "schema"}

ASSUME StudioAssumption ==
    /\ Playground \in Ids /\ NoId \notin Ids
    /\ Initial \in Values /\ Bad \notin Values /\ Absent \notin [config : [Sections -> Values], prompt : Values]
    /\ MaxRequests \in Nat

\* A stored name may be one that its section would write otherwise, padded by another
\* client; the other values are shown as they are read.
ASSUME TextAssumption ==
    /\ Values \cup {Bad} \subseteq Texts
    /\ Meant \in [Sections -> [Texts -> Values \cup {Bad}]]
    /\ \A s \in Sections : Meant[s][Bad] = Bad
    /\ \A s \in Sections \ {"identity"}, v \in Values : Meant[s][v] = v

Task == [config : [Sections -> Values], prompt : Values]
List == [Ids -> Task \cup {Absent}]

VARIABLES server, rev,          \* the registry, and how often it changed
          tasks, seen,          \* the list on show, the newest rev a refetch was for
          error,                \* the last refetch failed
          selectedId, creating, \* the task that is chosen, "+ New" was chosen
          form, edited,         \* the sections' fields, those the user changed
          draft,                \* the prompt draft kept for each task
          newTask,              \* the draft of a new task
          pending, used,        \* requests that are out, their number so far
          disturbed, mixed      \* history: see Current and UneditedIsClean

registry == <<server, rev>>
page     == <<tasks, seen, error, selectedId, creating>>
detail   == <<form, edited>>
drafts   == <<draft, newTask>>
history  == <<disturbed, mixed>>
vars == <<registry, page, detail, drafts, pending, used, history>>

\* A request: what it asks, how far it is, and whether the detail or the form that
\* sent it is still open.  Refetching the list is its second half.  The browser
\* gave up an abandoned one, which the server may still carry out.
Request == [n : 1..MaxRequests, op : {"put", "draft", "deploy", "delete", "create", "retry"},
            id : Ids \cup {NoId}, section : Sections \cup {"none"}, value : Values \cup {Bad},
            stage : {"sent", "abandoned", "done", "listing", "listed"},
            list : List, rev : Nat, mine : BOOLEAN]

NewTask == [id : Ids \cup {NoId}, ready : BOOLEAN]
Blank   == [id |-> NoId, ready |-> FALSE]

\* What fills the page: the form, a task's detail, or neither.
View == IF creating THEN "create"
        ELSE IF selectedId # NoId /\ tasks[selectedId] # Absent THEN "detail" ELSE "none"

NoForm == [s \in Sections |-> Bad]

Remounts == View' # View \/ (View = "detail" /\ selectedId' # selectedId)

\* TaskDetail mounts with key={id}: a step that changes what fills the page, and
\* leaves rs pending, opens it with fresh fields and orphans what the old one
\* waits for; other steps leave the edits kept.  A task's draft is seeded once.
Opened(rs, kept) ==
    IF ~Remounts
    THEN /\ pending' = rs
         /\ mixed'   = (mixed \/ (disturbed' /\ ~disturbed))
         /\ edited'  = kept
         /\ UNCHANGED <<form, draft>>
    ELSE /\ edited'  = {}
         /\ pending' = {[r EXCEPT !.mine = FALSE] : r \in rs}
         /\ mixed'   = (disturbed' \/ error' \/ rs # {})
         /\ IF View' = "detail"
            THEN /\ form'  = tasks'[selectedId'].config
                 /\ draft' = [draft EXCEPT ![selectedId'] =
                                 IF @ = Bad THEN tasks'[selectedId'].prompt ELSE @]
            ELSE form' = NoForm /\ UNCHANGED draft

Created == [config |-> [s \in Sections |-> Initial], prompt |-> Initial]

Init == /\ server \in {[i \in Ids |-> IF i \in there THEN Created ELSE Absent] :
                          there \in {{Playground}, Ids}}
        /\ rev = 0
        /\ tasks = server /\ seen = 0 /\ error = FALSE
        /\ selectedId = NoId /\ creating = FALSE
        /\ form = NoForm /\ edited = {}
        /\ draft = [i \in Ids |-> Bad] /\ newTask = Blank
        /\ pending = {} /\ used = 0
        /\ disturbed = FALSE /\ mixed = FALSE

-----------------------------------------------------------------------------
\* A request of kind op for the section or action it locks.
Locked(op, s) == \E r \in pending : /\ r.mine /\ r.op = op /\ r.section = s
                                    /\ r.stage # "abandoned"

Ask(op, id, s, v) ==
    /\ used < MaxRequests
    /\ used' = used + 1
    /\ pending' = pending \cup
          {[n |-> used + 1, op |-> op, id |-> id, section |-> s, value |-> v,
            stage |-> IF op = "retry" THEN "listing" ELSE "sent",
            list |-> tasks, rev |-> 0, mine |-> TRUE]}
    /\ UNCHANGED <<registry, page, detail, drafts, history>>

\* The list: a task, or "+ New".
Choose(id) ==
    /\ tasks[id] # Absent
    /\ selectedId' = id /\ creating' = FALSE
    /\ UNCHANGED <<registry, tasks, seen, error, newTask, used, disturbed>>
    /\ Opened(pending, edited)

New ==
    /\ selectedId' = NoId /\ creating' = TRUE
    /\ UNCHANGED <<registry, tasks, seen, error, newTask, used, disturbed>>
    /\ Opened(pending, edited)

Retry == error /\ Ask("retry", NoId, "none", Bad)

-----------------------------------------------------------------------------
\* The form for a new task: its fields persist; cancel and submit are locked
\* while it is being created.
FillForm(t) ==
    /\ creating
    /\ newTask' = t
    /\ UNCHANGED <<registry, page, detail, draft, pending, used, history>>

Cancel ==
    /\ creating /\ ~Locked("create", "none")
    /\ creating' = FALSE
    /\ UNCHANGED <<registry, tasks, seen, error, selectedId, newTask, used, disturbed>>
    /\ Opened(pending, edited)

Submit ==
    /\ creating /\ ~Locked("create", "none")
    /\ newTask.id # NoId /\ tasks[newTask.id] = Absent /\ newTask.ready
    /\ Ask("create", newTask.id, "none", Bad)

-----------------------------------------------------------------------------
\* A section's fields, and the button that puts them back where there is one.  A
\* chain is picked, never typed, and the schema editors report a schema or none.
Inputs(s) == IF s = "model" THEN Values
             ELSE IF s = "schema" THEN Values \cup {Bad} ELSE Texts

Edit(s, t) ==
    /\ View = "detail" /\ t \in Inputs(s)
    /\ form'   = [form EXCEPT ![s] = t]
    /\ edited' = edited \cup {s}
    /\ UNCHANGED <<registry, page, drafts, pending, used, history>>

Saving(s) == Meant[s][form[s]]

\* A name, and a cap but for the blanks around it, are compared as they are typed;
\* the other sections compare what they would save.
ByText == {"identity", "sampling"}

Dirty(s) == tasks[selectedId].config[s] # IF s \in ByText THEN form[s] ELSE Saving(s)

Reset(s) ==
    /\ View = "detail" /\ s \in {"model", "sampling", "budget", "limits"}
    /\ Dirty(s) /\ ~Locked("put", s)
    /\ form'   = [form EXCEPT ![s] = tasks[selectedId].config[s]]
    /\ edited' = edited \ {s}
    /\ mixed'  = (mixed \/ error)
    /\ UNCHANGED <<registry, page, drafts, pending, used, disturbed>>

Save(s) == /\ View = "detail" /\ Dirty(s) /\ ~Locked("put", s)
           /\ Ask("put", selectedId, s, Saving(s))

\* The name is blank.
SaveIdentity == Saving("identity") # Bad /\ Save("identity")

\* A chain is never empty and names no model twice: there is no bad one.
SaveModel == Save("model")

\* The cap is no positive whole number.
SaveSampling == Saving("sampling") # Bad /\ Save("sampling")

\* The cap is no number, or negative; blank is 0.
SaveBudget == Saving("budget") # Bad /\ Save("budget")

\* One of the three is no whole number, or negative; blank is 0.
SaveLimits == Saving("limits") # Bad /\ Save("limits")

\* One of the editors that are switched on holds no schema.
SaveSchema == Saving("schema") # Bad /\ Save("schema")

\* The prompt editor, and its defaults.
EditDraft(v) ==
    /\ View = "detail"
    /\ draft' = [draft EXCEPT ![selectedId] = v]
    /\ UNCHANGED <<registry, page, detail, newTask, pending, used, history>>

Idle == ~Locked("draft", "none") /\ ~Locked("delete", "none")

SaveDraft ==
    /\ View = "detail" /\ Idle /\ draft[selectedId] # tasks[selectedId].prompt
    /\ Ask("draft", selectedId, "none", draft[selectedId])

\* VersionHistory: a version that is not live.
Deploy(v) ==
    /\ View = "detail" /\ ~Locked("deploy", "none") /\ v # tasks[selectedId].prompt
    /\ Ask("deploy", selectedId, "none", v)

DeleteTask ==
    /\ View = "detail" /\ Idle /\ selectedId # Playground
    /\ Ask("delete", selectedId, "none", Bad)

-----------------------------------------------------------------------------
Put(r, stage) == pending' = (pending \ {r}) \cup {[r EXCEPT !.stage = stage]}

Legal(r) == CASE r.op = "create" -> server[r.id] = Absent
              [] r.op = "delete" -> server[r.id] # Absent /\ r.id # Playground
              [] OTHER           -> server[r.id] # Absent

\* Faulty: a save sends the whole task as the page has it.
OutcomeOfWhole(r) == IF r.op = "put" THEN [tasks[r.id] EXCEPT !.config[r.section] = r.value]
                     ELSE IF r.op = "deploy" THEN [server[r.id] EXCEPT !.prompt = r.value]
                     ELSE IF r.op = "delete" THEN Absent
                     ELSE IF r.op = "create" THEN Created ELSE server[r.id]

\* The task as a request leaves it: a save merges its own fields only, a draft is
\* kept beside the task.
Outcome(r) == CASE r.op = "put"    -> [server[r.id] EXCEPT !.config[r.section] = r.value]
                [] r.op = "deploy" -> [server[r.id] EXCEPT !.prompt = r.value]
                [] r.op = "draft"  -> server[r.id]
                [] r.op = "delete" -> Absent
                [] r.op = "create" -> Created

\* The server carries a request out.  When the browser has given it up, nobody
\* learns of it.
Perform(r) ==
    /\ r \in pending /\ r.stage \in {"sent", "abandoned"} /\ Legal(r)
    /\ server' = [server EXCEPT ![r.id] = Outcome(r)]
    /\ rev' = IF r.op = "draft" THEN rev ELSE rev + 1
    /\ IF r.stage = "sent"
       THEN Put(r, "done") /\ UNCHANGED history
       ELSE /\ pending' = pending \ {r}
            /\ disturbed' = TRUE /\ mixed' = TRUE
    /\ UNCHANGED <<page, detail, drafts, used>>

\* It refuses it: no such task, already there, no valid content, an error.  The
\* error is shown, and the button unlocked.
Refuse(r) ==
    /\ r \in pending /\ r.stage = "sent"
    /\ pending' = pending \ {r}
    /\ UNCHANGED <<registry, page, detail, drafts, used, history>>

\* Faulty: there is no timer.
LoseAnswer(r) ==
    /\ r \in pending /\ r.stage = "done"
    /\ pending' = pending \ {r}
    /\ disturbed' = TRUE /\ mixed' = TRUE
    /\ UNCHANGED <<registry, page, detail, drafts, used>>

\* The browser gives up after 10 s, or loses the connection.
Abandon(r) ==
    /\ r \in pending /\ r.stage \in {"sent", "done"}
    /\ IF r.stage = "sent" THEN Put(r, "abandoned") /\ UNCHANGED history
       ELSE /\ pending' = pending \ {r}
            /\ disturbed' = TRUE /\ mixed' = TRUE
    /\ UNCHANGED <<registry, page, detail, drafts, used>>

\* Typed in a section and not saved by r.
Unsaved(r) == edited \ (IF r.op = "put" /\ r.mine /\ Saving(r.section) = r.value
                        THEN {r.section} ELSE {})

\* Faulty: a section that was saved does not have the list refetched.
SucceededQuietly(r) ==
    /\ r \in pending /\ r.stage = "done"
    /\ selectedId' = IF r.op = "delete" THEN NoId ELSE selectedId
    /\ creating'   = (creating /\ r.op # "create")
    /\ newTask'    = IF r.op = "create" THEN Blank ELSE newTask
    /\ UNCHANGED <<registry, tasks, seen, error, used, disturbed>>
    /\ Opened((pending \ {r}) \cup
              (IF r.op \in {"draft", "put"} THEN {} ELSE {[r EXCEPT !.stage = "listing"]}),
              Unsaved(r))

\* The request succeeded: a saved draft ends it; a deleted task is left, a created
\* one has its draft discarded and the form closed; then the list is refetched.
Succeeded(r) ==
    /\ r \in pending /\ r.stage = "done"
    /\ selectedId' = IF r.op = "delete" THEN NoId ELSE selectedId
    /\ creating'   = (creating /\ r.op # "create")
    /\ newTask'    = IF r.op = "create" THEN Blank ELSE newTask
    /\ UNCHANGED <<registry, tasks, seen, error, used, disturbed>>
    /\ Opened((pending \ {r}) \cup
              (IF r.op = "draft" THEN {} ELSE {[r EXCEPT !.stage = "listing"]}), Unsaved(r))

\* The list is read by the server, then shown, or it cannot be had.
ReadList(r) ==
    /\ r \in pending /\ r.stage = "listing"
    /\ pending' = (pending \ {r}) \cup {[r EXCEPT !.stage = "listed", !.list = server, !.rev = rev]}
    /\ UNCHANGED <<registry, page, detail, drafts, used, history>>

\* After the list came or failed, a created task is opened.
AfterList(r) == selectedId' = IF r.op = "create" THEN r.id ELSE selectedId

ShowList(r) ==
    /\ r \in pending /\ r.stage = "listed"
    /\ tasks' = r.list /\ error' = FALSE
    /\ seen' = IF r.rev < seen THEN seen ELSE r.rev
    /\ AfterList(r)
    /\ disturbed' = (r.rev # rev /\ (disturbed \/ r.rev < seen))
    /\ UNCHANGED <<registry, creating, newTask, used>>
    /\ Opened(pending \ {r}, edited)

LoseList(r) ==
    /\ r \in pending /\ r.stage \in {"listing", "listed"}
    /\ error' = TRUE /\ seen' = rev
    /\ AfterList(r)
    /\ UNCHANGED <<registry, tasks, creating, newTask, used, disturbed>>
    /\ Opened(pending \ {r}, edited)

\* Another administrator changes a task.
ChangedElsewhere(id, s, v) ==
    /\ server[id] # Absent /\ server[id].config[s] # v
    /\ server' = [server EXCEPT ![id].config[s] = v]
    /\ rev' = rev + 1
    /\ disturbed' = TRUE /\ mixed' = TRUE
    /\ UNCHANGED <<page, detail, drafts, pending, used>>

-----------------------------------------------------------------------------
Move == \/ \E id \in Ids : Choose(id)
        \/ \E t \in NewTask : FillForm(t)
        \/ \E s \in Sections : Reset(s) \/ \E t \in Texts : Edit(s, t)
        \/ \E v \in Values : EditDraft(v)
        \/ New \/ Cancel

Press == \/ SaveIdentity \/ SaveModel \/ SaveSampling \/ SaveBudget \/ SaveLimits \/ SaveSchema
         \/ SaveDraft \/ DeleteTask \/ Submit \/ Retry
         \/ \E v \in Values : Deploy(v)

Answer(r) == Perform(r) \/ Refuse(r) \/ Abandon(r) \/ Succeeded(r)

Refetch(r) == ReadList(r) \/ ShowList(r) \/ LoseList(r)

Elsewhere == \E id \in Ids, s \in Sections, v \in Values : ChangedElsewhere(id, s, v)

Next == Move \/ Press \/ Elsewhere \/ \E r \in pending : Answer(r) \/ Refetch(r)

\* A request ends with its answer or its timer; the handler then goes on.
Fairness == \A n \in 1..MaxRequests :
               WF_vars(\E r \in pending : /\ r.n = n
                                          /\ Abandon(r) \/ Succeeded(r) \/ Refetch(r))

Spec == Init /\ [][Next]_vars /\ Fairness

-----------------------------------------------------------------------------
\* The variables have their types.
TypeOK ==
    /\ server \in List /\ tasks \in List
    /\ rev \in Nat /\ seen \in Nat /\ used \in 0..MaxRequests
    /\ error \in BOOLEAN /\ creating \in BOOLEAN /\ selectedId \in Ids \cup {NoId}
    /\ form \in [Sections -> Texts] /\ edited \subseteq Sections
    /\ draft \in [Ids -> Values \cup {Bad}] /\ newTask \in NewTask
    /\ pending \subseteq Request
    /\ disturbed \in BOOLEAN /\ mixed \in BOOLEAN

\* When nothing is out, the list shows the registry or the error of its refetch;
\* but for what others changed, a request given up that was carried out, and an
\* answer that came after a newer one, since the list was last complete.
Current == pending = {} => tasks = server \/ error \/ disturbed

\* When nothing is out, an open section claims unsaved changes only where the user
\* made some, or where the name or the cap in its field, which stays after a save, is
\* the stored one written otherwise; but for the same, and for a task opened while
\* requests were out or while the list was in error.
UneditedIsClean ==
    pending = {} /\ View = "detail" /\ ~mixed /\ ~error
        => \A s \in Sections :
               Dirty(s) => \/ s \in edited
                           \/ s \in ByText /\ Saving(s) = tasks[selectedId].config[s]

\* No button stays locked: what an open page waits for ends.
Waits(n) == \E r \in pending : r.n = n /\ r.mine /\ r.stage # "abandoned"

LocksEnd == \A n \in 1..MaxRequests : Waits(n) ~> ~Waits(n)
=============================================================================
