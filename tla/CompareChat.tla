----------------------------- MODULE CompareChat -----------------------------
(***************************************************************************)
(* The Compare workspace of one signed-in user: the conversation columns   *)
(* of hooks/useChat.ts, the session list of hooks/useSessions.ts with      *)
(* pages/ComparePage.tsx and components/Sidebar.tsx, and the runs table    *)
(* behind POST /run as those see it.                                       *)
(*                                                                         *)
(* A prompt becomes a turn: one call per chosen model, each answered in   *)
(* its own time.  Meanwhile nothing in the workspace but the send button   *)
(* is locked.  A message is its role and its turn; what it says is left    *)
(* out, and an answer that reports a model's error is an answer.           *)
(***************************************************************************)
EXTENDS Naturals, Sequences, SequencesExt, FiniteSets

CONSTANTS Models,      \* MODELS
          Sessions,    \* session ids the browser can draw
          MaxTurns,    \* turns of a behaviour (bound)
          NoSession    \* sessionId = null

Turns == 1..MaxTurns

ASSUME ChatAssumption == MaxTurns \in Nat /\ NoSession \notin Sessions

Message == [role : {"user", "assistant"}, turn : Turns]
Column  == Seq(Message)

User(t)      == [role |-> "user", turn |-> t]
Assistant(t) == [role |-> "assistant", turn |-> t]

\* A call at the server: not there, running, answered with its row at the run
\* writer, in the runs table, deleted from it.  A row the writer loses is one
\* that stays queued, a call the server refuses one that stays running.
RowState == {"none", "running", "queued", "stored", "deleted"}

Answered == {"queued", "stored", "deleted"}

VARIABLES conversations,   \* the column of each model
          sessionId,       \* the session shown, or NoSession
          selectedModels,
          isLoading,
          turn,            \* what submitPrompt's closure holds for each turn
          row,             \* the server's side of each call, and its run row
          loads,           \* sessions read by the server and not yet shown
          deletes,         \* deleteSessions requests in flight
          interrupted      \* history: see Disturbs

chatVars    == <<conversations, sessionId, selectedModels, isLoading>>
sideVars    == <<loads, deletes>>
compareVars == <<chatVars, turn, row, sideVars, interrupted>>

\* free: not begun; reading: files being read; sent; ended.
Turn == [stage : {"free", "reading", "sent", "ended"}, session : Sessions \cup {NoSession},
         models : SUBSET Models, asked : [Models -> Column],
         calls : [Models -> {"none", "waiting", "shown", "failed"}]]

emptyConversations == [m \in Models |-> <<>>]

NoClosure(stage, s) == [stage |-> stage, session |-> s, models |-> {},
                        asked |-> emptyConversations, calls |-> [m \in Models |-> "none"]]

ChatInit ==
    /\ conversations = emptyConversations /\ sessionId = NoSession
    /\ selectedModels = Models /\ isLoading = FALSE
    /\ turn = [t \in Turns |-> NoClosure("free", NoSession)]
    /\ row = [t \in Turns |-> [m \in Models |-> "none"]]
    /\ loads = {} /\ deletes = {} /\ interrupted = FALSE

\* A turn that is over: its closure is gone.
Over(t) == NoClosure("ended", turn[t].session)

UnderWay(t) == turn[t].stage \in {"reading", "sent"}
Busy        == \E t \in Turns : UnderWay(t)

\* Another conversation is put on show: it mixes with a turn under way, whose
\* answers go to whatever is shown when they arrive.
Disturbs == interrupted' = Busy

\* The recorded turns of a session, as the models whose rows they have.
Detail(s) == [t \in Turns |-> IF turn[t].session = s
                               THEN {m \in Models : row[t][m] = "stored"} ELSE {}]

Empty(detail) == \A t \in Turns : detail[t] = {}

Selected(t) == turn[t].models

-----------------------------------------------------------------------------
\* ChatInput: the send button and the enter key.  The closure keeps the models
\* and the columns of the moment of the click; the files are then read.
SubmitPrompt(t) ==
    /\ turn[t].stage = "free" /\ \A u \in 1..(t - 1) : turn[u].stage # "free"
    /\ ~isLoading
    /\ \E sid \in IF sessionId = NoSession
                  THEN Sessions \ {turn[u].session : u \in Turns} ELSE {sessionId} :
          /\ sessionId' = sid
          /\ turn' = [turn EXCEPT ![t] =
                        [stage |-> "reading", session |-> sid, models |-> selectedModels,
                         asked |-> [m \in Models |-> IF m \in selectedModels
                                       THEN Append(conversations[m], User(t)) ELSE <<>>],
                         calls |-> [m \in Models |-> "none"]]]
    /\ interrupted' = (interrupted \/ Busy)
    /\ UNCHANGED <<conversations, selectedModels, isLoading, row, sideVars>>

\* A file cannot be read: the promise is rejected outside the try.
ReadFails(t) ==
    /\ turn[t].stage = "reading"
    /\ turn' = [turn EXCEPT ![t] = Over(t)]
    /\ UNCHANGED <<chatVars, row, sideVars, interrupted>>

\* The files are read: the question joins the columns and the calls leave.
Send(t) ==
    /\ turn[t].stage = "reading"
    /\ conversations' = [m \in Models |-> IF m \in Selected(t)
                            THEN Append(conversations[m], User(t)) ELSE conversations[m]]
    /\ isLoading' = TRUE
    /\ turn' = [turn EXCEPT ![t].stage = "sent",
                            ![t].calls = [m \in Models |->
                                 IF m \in Selected(t) THEN "waiting" ELSE "none"]]
    /\ row' = [row EXCEPT ![t] = [m \in Models |->
                                     IF m \in Selected(t) THEN "running" ELSE "none"]]
    /\ UNCHANGED <<sessionId, selectedModels, sideVars, interrupted>>

\* A call's answer arrives: it joins the column on show.
Show(t, m) ==
    /\ turn[t].stage = "sent" /\ turn[t].calls[m] = "waiting" /\ row[t][m] \in Answered
    /\ conversations' = [conversations EXCEPT ![m] = Append(@, Assistant(t))]
    /\ turn' = [turn EXCEPT ![t].calls[m] = "shown"]
    /\ UNCHANGED <<sessionId, selectedModels, isLoading, row, sideVars, interrupted>>

\* It is refused, cut off or timed out.
Fail(t, m) ==
    /\ turn[t].stage = "sent" /\ turn[t].calls[m] = "waiting"
    /\ turn' = [turn EXCEPT ![t].calls[m] = "failed"]
    /\ UNCHANGED <<chatVars, row, sideVars, interrupted>>

Failed(t) == {m \in Selected(t) : turn[t].calls[m] = "failed"}

\* Faulty: every column of the turn loses its last message.
RetractAll(t) == [m \in Models |->
    IF m \in Selected(t) /\ Failed(t) # {} /\ conversations[m] # <<>>
    THEN Front(conversations[m]) ELSE conversations[m]]

\* slice(0, -1): the question of a failed call leaves its column.
Retract(t) == [m \in Models |-> IF m \in Failed(t) /\ conversations[m] # <<>>
                                THEN Front(conversations[m]) ELSE conversations[m]]

\* Faulty: the send button is unlocked only when no call failed.
FinishClean(t) ==
    /\ turn[t].stage = "sent" /\ \A m \in Models : turn[t].calls[m] # "waiting"
    /\ conversations' = Retract(t)
    /\ isLoading' = (Failed(t) # {})
    /\ turn' = [turn EXCEPT ![t] = Over(t)]
    /\ UNCHANGED <<sessionId, selectedModels, row, sideVars, interrupted>>

\* Faulty: waits for an answer to every call.
FinishAnswered(t) ==
    /\ turn[t].stage = "sent" /\ \A m \in Selected(t) : turn[t].calls[m] = "shown"
    /\ isLoading' = FALSE
    /\ turn' = [turn EXCEPT ![t] = Over(t)]
    /\ UNCHANGED <<conversations, sessionId, selectedModels, row, sideVars, interrupted>>

\* Promise.allSettled: every call is answered or has failed.
Finish(t) ==
    /\ turn[t].stage = "sent" /\ \A m \in Models : turn[t].calls[m] # "waiting"
    /\ conversations' = Retract(t)
    /\ isLoading' = FALSE
    /\ turn' = [turn EXCEPT ![t] = Over(t)]
    /\ UNCHANGED <<sessionId, selectedModels, row, sideVars, interrupted>>

-----------------------------------------------------------------------------
\* The server runs a call to its end and queues its row, whether or not the
\* browser still waits for it.
AnswerCall(t, m) ==
    /\ row[t][m] = "running"
    /\ row' = [row EXCEPT ![t][m] = "queued"]
    /\ UNCHANGED <<chatVars, turn, sideVars, interrupted>>

\* The run writer stores the row.
Write(t, m) ==
    /\ row[t][m] = "queued"
    /\ row' = [row EXCEPT ![t][m] = "stored"]
    /\ UNCHANGED <<chatVars, turn, sideVars, interrupted>>

-----------------------------------------------------------------------------
\* The sidebar.  handleLoad: the server reads the session; a session without
\* rows is an error and shows nothing.
GetSession(s) ==
    /\ ~Empty(Detail(s))
    /\ loads' = loads \cup {[id |-> s, detail |-> Detail(s)]}
    /\ UNCHANGED <<chatVars, turn, row, deletes, interrupted>>

\* The i-th of some turns, in the order they were asked.
Nth(asked, i) == CHOOSE t \in asked : Cardinality({u \in asked : u < t}) = i - 1

\* What loadSession makes of a column: a question and an answer for each row.
Rebuilt(detail, m) ==
    LET asked == {t \in Turns : m \in detail[t]} IN
    [i \in 1..(2 * Cardinality(asked)) |-> IF i % 2 = 1 THEN User(Nth(asked, (i + 1) \div 2))
                                            ELSE Assistant(Nth(asked, i \div 2))]

\* Faulty: the session shown before stays the current one.
LoadColumns(d) ==
    /\ d \in loads
    /\ loads' = loads \ {d}
    /\ conversations'  = [m \in Models |-> Rebuilt(d.detail, m)]
    /\ selectedModels' = UNION {d.detail[t] : t \in Turns}
    /\ Disturbs
    /\ UNCHANGED <<sessionId, isLoading, turn, row, deletes>>

LoadSession(d) ==
    /\ d \in loads
    /\ loads' = loads \ {d}
    /\ conversations'  = [m \in Models |-> Rebuilt(d.detail, m)]
    /\ selectedModels' = UNION {d.detail[t] : t \in Turns}
    /\ sessionId'      = d.id
    /\ Disturbs
    /\ UNCHANGED <<isLoading, turn, row, deletes>>

NewChat ==
    /\ conversations' = emptyConversations
    /\ sessionId'     = NoSession
    /\ Disturbs
    /\ UNCHANGED <<selectedModels, isLoading, turn, row, loads, deletes>>

\* handleDelete: the handler keeps the session that is on show at the click; the
\* server deletes the rows that are in the table, or the request fails.
DeleteSession(s) ==
    /\ ~Empty(Detail(s))
    /\ deletes' = deletes \cup {[id |-> s, shown |-> sessionId]}
    /\ row' \in {row, [t \in Turns |-> [m \in Models |->
                          IF m \in Detail(s)[t] THEN "deleted" ELSE row[t][m]]]}
    /\ UNCHANGED <<chatVars, turn, loads, interrupted>>

\* The request returns; an error is shown, and what follows is the same.
Deleted(d) ==
    /\ d \in deletes
    /\ deletes' = deletes \ {d}
    /\ IF d.shown = d.id
       THEN conversations' = emptyConversations /\ sessionId' = NoSession /\ Disturbs
       ELSE UNCHANGED <<conversations, sessionId, interrupted>>
    /\ UNCHANGED <<selectedModels, isLoading, turn, row, loads>>

\* handleModelChange.
ToggleModel(m) ==
    /\ selectedModels' = IF m \in selectedModels THEN selectedModels \ {m}
                                                 ELSE selectedModels \cup {m}
    /\ UNCHANGED <<conversations, sessionId, isLoading, turn, row, sideVars, interrupted>>

\* The page is reloaded: what usePersistentState keeps is back, what was under
\* way in the browser is not.
Reload ==
    /\ isLoading' = FALSE
    /\ turn' = [t \in Turns |-> IF UnderWay(t) THEN Over(t) ELSE turn[t]]
    /\ loads' = {} /\ deletes' = {}
    /\ interrupted' = (interrupted \/ Busy)
    /\ UNCHANGED <<conversations, sessionId, selectedModels, row>>

-----------------------------------------------------------------------------
\* What the user does besides asking.
Click == \/ NewChat \/ Reload
         \/ \E s \in Sessions : GetSession(s) \/ DeleteSession(s)
         \/ \E m \in Models : ToggleModel(m)

\* What follows by itself, and the questions.
Run == \/ \E t \in Turns : \/ SubmitPrompt(t) \/ ReadFails(t) \/ Send(t) \/ Finish(t)
                           \/ \E m \in Models : \/ Show(t, m) \/ Fail(t, m)
                                                \/ AnswerCall(t, m) \/ Write(t, m)
       \/ \E d \in loads : LoadSession(d)
       \/ \E d \in deletes : Deleted(d)

ChatNext == Click \/ Run

\* Files are read or not, a call is answered or its timer fires (60 s), and the
\* handler that waits for them goes on.
ChatFairness ==
    \A t \in Turns : /\ WF_compareVars(Send(t) \/ ReadFails(t))
                     /\ WF_compareVars(Finish(t))
                     /\ \A m \in Models : WF_compareVars(Show(t, m) \/ Fail(t, m))

ChatSpec == ChatInit /\ [][ChatNext]_compareVars /\ ChatFairness

-----------------------------------------------------------------------------
\* The variables have their types.
ChatTypeOK ==
    /\ conversations \in [Models -> Column]
    /\ sessionId \in Sessions \cup {NoSession}
    /\ selectedModels \subseteq Models /\ isLoading \in BOOLEAN /\ interrupted \in BOOLEAN
    /\ turn \in [Turns -> Turn]
    /\ row \in [Turns -> [Models -> RowState]]
    /\ loads \subseteq [id : Sessions, detail : [Turns -> SUBSET Models]]
    /\ deletes \subseteq [id : Sessions, shown : Sessions \cup {NoSession}]

\* A column of questions each followed by its own answer.
Pairs(col) == /\ Len(col) % 2 = 0
              /\ \A i \in 1..(Len(col) \div 2) :
                    \E t \in Turns : col[2*i - 1] = User(t) /\ col[2*i] = Assistant(t)

\* The turn whose calls are out and have not filled the column of m.
Awaits(t, m) == turn[t].stage = "sent" /\ turn[t].calls[m] \in {"waiting", "failed"}

\* Unless the conversation was changed under a running turn, a column pairs each
\* question with its own answer, but for the question that waits now; and what a
\* call sends its model is the pairs of the column and the new question.
QuestionsMeetAnswers ==
    ~interrupted =>
       /\ \A m \in Models :
             \/ Pairs(conversations[m])
             \/ \E t \in Turns : /\ Awaits(t, m)
                                 /\ Last(conversations[m]) = User(t)
                                 /\ Pairs(Front(conversations[m]))
       /\ \A t \in Turns : UnderWay(t) =>
             \A m \in Selected(t) : /\ Last(turn[t].asked[m]) = User(t)
                                    /\ Pairs(Front(turn[t].asked[m]))

\* Unless it was so changed, every message on show is of the session on show, the
\* one the next question is filed under.
OneSession ==
    ~interrupted =>
       \A m \in Models : \A i \in DOMAIN conversations[m] :
          turn[conversations[m][i].turn].session = sessionId

\* ModelColumn: the dots under a column.
ShowTyping(m) == /\ isLoading /\ conversations[m] # <<>>
                 /\ Last(conversations[m]).role = "user"

\* Unless it was so changed, the send button is locked exactly while calls are
\* out, and the dots show exactly under the columns that are owed an answer.
SpinnerMeansWaiting ==
    ~interrupted =>
       /\ isLoading <=> \E t \in Turns : turn[t].stage = "sent"
       /\ \A m \in Models : ShowTyping(m) <=> \E t \in Turns : Awaits(t, m)

\* Every turn ends and unlocks the send button, whatever becomes of its calls.
TurnsEnd == /\ \A t \in Turns : UnderWay(t) ~> ~UnderWay(t)
            /\ isLoading ~> ~isLoading
=============================================================================
