------------------------- MODULE PredictionPipeline -------------------------
(***************************************************************************)
(* executePrediction (internal/api/predict_core.go) with its two callers   *)
(* Predict and TestTask, for concurrent predictions of one task whose      *)
(* configuration is edited meanwhile.  The predictions share the           *)
(* prediction cache (internal/cache); each keeps the configuration it read *)
(* when it began.  The walk over the chain is that of FallbackWalk, here   *)
(* with what the models say and without circuits and retries: a model may  *)
(* be skipped, and an error may or may not end the walk.                   *)
(***************************************************************************)
EXTENDS PredictionTerms, FiniteSets

CONSTANTS Estimate,    \* tokens the limiter reserves for a Predict; an answer uses 1
          MaxEdits,    \* edits of the task (bound)
          NoQuestion, NoReply, Failure, NoText, NoModel, NoResult, NoRun

Attempt == [model : Models, text : Text \cup {NoText},
            outcome : {"skipped_unhealthy", "cache_hit", "success", "schema_invalid", "error"}]

\* llm.ModelResult.
Result == [model : Models \cup {NoModel}, text : Text \cup {NoText},
           success : BOOLEAN, fallbackUsed : BOOLEAN, degraded : BOOLEAN]

\* types.RunRow, as far as it says how the prediction went.
RunRow == [model : Models \cup {NoModel}, success : BOOLEAN, fallbackUsed : BOOLEAN,
           cacheHit : BOOLEAN, cost : {0, 1}]

Key == [model : Models, prompt : Prompts, input : Inputs, schema : Schemas \cup {NoSchema}]

ASSUME PipelineAssumption ==
    /\ Estimate \in Nat /\ MaxEdits \in Nat
    /\ {NoReply, Failure, NoText} \cap Text = {}
    /\ NoReply # Failure
    /\ NoQuestion \notin Question
    /\ NoResult \notin Result /\ NoRun \notin RunRow /\ NoModel \notin Models

VARIABLES live, edits,   \* the task's configuration, edits so far
          cache,         \* the text stored under each key, or NoText
          pc,            \* progress of a prediction
          question,      \* what it asks
          cacheable,     \* whether it uses the cache
          trace,         \* the gateway trace so far
          result,        \* what the walk returned
          charge,        \* tokens its rate window holds for it
          run,           \* its run row
          reply,         \* what its caller got: a result, or Failure
          degraded       \* X-Platform-Degraded on that reply

taskVars   == <<live, edits>>
answerVars == <<run, reply, degraded>>
vars == <<taskVars, cache, pc, question, cacheable, trace, result, charge, answerVars>>

Init == /\ live      \in Configs
        /\ edits     = 0
        /\ cache     = [k \in Key |-> NoText]
        /\ pc        = [r \in Requests |-> "idle"]
        /\ question  = [r \in Requests |-> NoQuestion]
        /\ cacheable = [r \in Requests |-> FALSE]
        /\ trace     = [r \in Requests |-> <<>>]
        /\ result    = [r \in Requests |-> NoResult]
        /\ charge    = [r \in Requests |-> 0]
        /\ run       = [r \in Requests |-> NoRun]
        /\ reply     = [r \in Requests |-> NoReply]
        /\ degraded  = [r \in Requests |-> FALSE]

-----------------------------------------------------------------------------
\* The model the walk is at.
Model(r) == question[r].chain[Len(trace[r]) + 1]

\* Faulty: the key leaves out the schema.
KeySansSchema(r, m) == [model |-> m, prompt |-> question[r].prompt,
                        input |-> question[r].input, schema |-> NoSchema]

\* modelKey: the chain is no part of it.
KeyFor(r, m) == [model |-> m, prompt |-> question[r].prompt,
                 input |-> question[r].input, schema |-> question[r].schema]

\* Tokens a walk used: one for each live answer; a cached one is free and an
\* error carries no usage.
Consumed(tr) == Cardinality({i \in DOMAIN tr : tr[i].outcome \in {"success", "schema_invalid"}})

\* Refused before the walk: inactive task, budget, input, size or rate.
Refuse(r) ==
    /\ pc[r] = "idle"
    /\ pc' = [pc EXCEPT ![r] = "refused"]
    /\ UNCHANGED <<taskVars, cache, question, cacheable, trace, result, charge, answerVars>>

\* The task is read, the prompt rendered and a Predict's tokens reserved.
Begin(r) ==
    /\ pc[r] = "idle"
    /\ \E q \in Questions(live) :
          /\ question'  = [question EXCEPT ![r] = q]
          /\ cacheable' = [cacheable EXCEPT ![r] = live.caching /\ ~q.test]
          /\ charge'    = [charge EXCEPT ![r] = IF q.test THEN 0 ELSE Estimate]
    /\ pc'        = [pc EXCEPT ![r] = "walking"]
    /\ UNCHANGED <<taskVars, cache, trace, result, answerVars>>

-----------------------------------------------------------------------------
Attempted(r, outcome, text) == [model |-> Model(r), text |-> text, outcome |-> outcome]

\* The walk returns at this attempt.
Return(r, a) ==
    /\ trace'  = [trace EXCEPT ![r] = Append(@, a)]
    /\ result' = [result EXCEPT ![r] =
                     [model |-> a.model, text |-> a.text, success |-> a.text # NoText,
                      fallbackUsed |-> trace[r] # <<>>, degraded |-> trace[r] # <<>>]]
    /\ pc'     = [pc EXCEPT ![r] = "walked"]

\* What it returns when the chain is exhausted, or the caller gone, after a.
Exhausted(r, a) ==
    IF \A i \in DOMAIN Append(trace[r], a) :
           Append(trace[r], a)[i].outcome = "skipped_unhealthy"
    THEN [model |-> NoModel, text |-> NoText, success |-> FALSE,
          fallbackUsed |-> FALSE, degraded |-> TRUE]
    ELSE [model |-> a.model, text |-> a.text, success |-> a.text # NoText,
          fallbackUsed |-> trace[r] # <<>>, degraded |-> TRUE]

\* The model did not serve: the next one, or the end of the loop.
GoOn(r, a, stop) ==
    /\ trace' = [trace EXCEPT ![r] = Append(@, a)]
    /\ IF stop \/ Len(trace[r]) + 1 = Len(question[r].chain)
       THEN result' = [result EXCEPT ![r] = Exhausted(r, a)] /\ pc' = [pc EXCEPT ![r] = "walked"]
       ELSE pc' = [pc EXCEPT ![r] = "walking"] /\ UNCHANGED result

\* The circuit of the model is open; a Studio test asks no gate.
Skip(r) ==
    /\ pc[r] = "walking" /\ ~question[r].test
    /\ GoOn(r, Attempted(r, "skipped_unhealthy", NoText), FALSE)
    /\ UNCHANGED <<taskVars, cache, question, cacheable, charge, answerVars>>

\* modelLookup finds an entry for the model.
Hit(r) ==
    /\ pc[r] = "walking" /\ cacheable[r]
    /\ cache[KeyFor(r, Model(r))] # NoText
    /\ Return(r, Attempted(r, "cache_hit", cache[KeyFor(r, Model(r))]))
    /\ UNCHANGED <<taskVars, cache, question, cacheable, charge, answerVars>>

\* It does not - there is none, it has expired, the store fails or is not
\* asked: the model is called.
Call(r) ==
    /\ pc[r] = "walking"
    /\ pc' = [pc EXCEPT ![r] = "calling"]
    /\ UNCHANGED <<taskVars, cache, question, cacheable, trace, result, charge, answerVars>>

\* Whether the walk takes an answer: a Predict's is held to the schema.
Usable(r, text) == question[r].test \/ Valid(text, question[r].schema)

\* CallModel returns content.
Answered(r, fits) ==
    LET text == [by |-> Model(r), on |-> <<question[r].prompt, question[r].input>>, fits |-> fits]
    IN  /\ pc[r] = "calling"
        /\ \/ Usable(r, text) /\ Return(r, Attempted(r, "success", text))
           \/ /\ ~Usable(r, text)
              /\ \E gone \in BOOLEAN : GoOn(r, Attempted(r, "schema_invalid", text), gone)
        /\ UNCHANGED <<taskVars, cache, question, cacheable, charge, answerVars>>

\* CallModel returns an error: definitive, or one that lets the walk go on.
Failed(r) ==
    LET a == Attempted(r, "error", NoText)
    IN  /\ pc[r] = "calling"
        /\ Return(r, a) \/ \E gone \in BOOLEAN : GoOn(r, a, gone)
        /\ UNCHANGED <<taskVars, cache, question, cacheable, charge, answerVars>>

-----------------------------------------------------------------------------
CacheHit(r) == trace[r][Len(trace[r])].outcome = "cache_hit"

\* Faulty: settled after the branch that serves a cached answer.
SettleUnlessHit(r) ==
    /\ pc[r] = "walked"
    /\ charge' = [charge EXCEPT ![r] = IF question[r].test THEN 0
                                       ELSE IF CacheHit(r) THEN @ ELSE Consumed(trace[r])]
    /\ pc'     = [pc EXCEPT ![r] = "settled"]
    /\ UNCHANGED <<taskVars, cache, question, cacheable, trace, result, answerVars>>

\* Reconcile, and the trace goes to the attempt writer.
Settle(r) ==
    /\ pc[r] = "walked"
    /\ charge' = [charge EXCEPT ![r] = IF question[r].test THEN 0 ELSE Consumed(trace[r])]
    /\ pc'     = [pc EXCEPT ![r] = "settled"]
    /\ UNCHANGED <<taskVars, cache, question, cacheable, trace, result, answerVars>>

\* serveCached; its run row does not carry FallbackUsed.
ServeCached(r) ==
    /\ pc[r] = "settled" /\ CacheHit(r)
    /\ run' = [run EXCEPT ![r] = [model |-> result[r].model, success |-> TRUE,
                                  fallbackUsed |-> FALSE, cacheHit |-> TRUE, cost |-> 0]]
    /\ reply'    = [reply EXCEPT ![r] = result[r].text]
    /\ degraded' = [degraded EXCEPT ![r] = result[r].model # Head(question[r].chain)]
    /\ pc'       = [pc EXCEPT ![r] = "done"]
    /\ UNCHANGED <<taskVars, cache, question, cacheable, trace, result, charge>>

\* outcome.OutputValid is nil or true.
OutputValid(r) == Valid(result[r].text, question[r].schema)

\* The cache is filled with a clean success, if the store takes it.
Fill(r) ==
    /\ pc[r] = "settled" /\ ~CacheHit(r)
    /\ \/ /\ cacheable[r] /\ result[r].success /\ OutputValid(r)
          /\ cache' = [cache EXCEPT ![KeyFor(r, result[r].model)] = result[r].text]
       \/ UNCHANGED cache
    /\ pc' = [pc EXCEPT ![r] = "filled"]
    /\ UNCHANGED <<taskVars, question, cacheable, trace, result, charge, answerVars>>

\* Faulty: a Predict hands out what its schema rejects, marked as invalid.
ServedFlagged(r) == result[r].success

\* The caller gets a result: servedValid for a Predict, any answer for a test.
Served(r) == result[r].success /\ (question[r].test \/ OutputValid(r))

\* insertRun and addSpend of the result's cost, and the reply.
Record(r) ==
    /\ pc[r] = "filled"
    /\ run' = [run EXCEPT ![r] =
                  [model |-> result[r].model, success |-> result[r].success,
                   fallbackUsed |-> result[r].fallbackUsed, cacheHit |-> FALSE,
                   cost |-> IF result[r].success THEN 1 ELSE 0]]
    /\ reply'    = [reply EXCEPT ![r] = IF Served(r) THEN result[r].text ELSE Failure]
    /\ degraded' = [degraded EXCEPT ![r] = result[r].degraded]
    /\ pc'       = [pc EXCEPT ![r] = "done"]
    /\ UNCHANGED <<taskVars, cache, question, cacheable, trace, result, charge>>

\* An administrator edits the task; TaskRegistry has the details.
Edit == /\ edits < MaxEdits
        /\ live' \in Configs \ {live}
        /\ edits' = edits + 1
        /\ UNCHANGED <<cache, pc, question, cacheable, trace, result, charge, answerVars>>

Step(r) == \/ Refuse(r)
           \/ Begin(r)
           \/ Skip(r)
           \/ Hit(r)
           \/ Call(r)
           \/ \E fits \in SUBSET Schemas : Answered(r, fits)
           \/ Failed(r)
           \/ Settle(r)
           \/ ServeCached(r)
           \/ Fill(r)
           \/ Record(r)

Next == (\E r \in Requests : Step(r)) \/ Edit

Spec == Init /\ [][Next]_vars

-----------------------------------------------------------------------------
Began(r) == pc[r] \notin {"idle", "refused"}

TypeOK == /\ live      \in Configs
          /\ edits     \in 0..MaxEdits
          /\ cache     \in [Key -> Text \cup {NoText}]
          /\ pc        \in [Requests -> {"idle", "refused", "walking", "calling", "walked",
                                         "settled", "filled", "done"}]
          /\ question  \in [Requests -> Question \cup {NoQuestion}]
          /\ cacheable \in [Requests -> BOOLEAN]
          /\ trace     \in [Requests -> Seq(Attempt)]
          /\ result    \in [Requests -> Result \cup {NoResult}]
          /\ charge    \in [Requests -> Nat]
          /\ run       \in [Requests -> RunRow \cup {NoRun}]
          /\ reply     \in [Requests -> Text \cup {Failure, NoReply}]
          /\ degraded  \in [Requests -> BOOLEAN]
          /\ \A r \in Requests :
                 /\ Began(r) <=> question[r] # NoQuestion
                 /\ pc[r] \in {"walking", "calling"} => Len(trace[r]) < Len(question[r].chain)

Last(r) == trace[r][Len(trace[r])]

\* "If any of these differ, the key differs and the entry simply doesn't match"
\* (cache.go:19): an entry was said by the model of its key, on the prompt
\* and inputs of its key, and conforms to the schema of its key - whichever
\* configuration the prediction that stored it began with, and whatever was
\* edited before it did.
CacheMeansItsKey ==
    \A k \in Key : cache[k] # NoText =>
        /\ cache[k].by = k.model
        /\ cache[k].on = <<k.prompt, k.input>>
        /\ Valid(cache[k], k.schema)

\* The limiter and the run row account for the same walk (predict_core.go:
\* 377-388, 459): a finished Predict is charged with the tokens of all answers
\* of its trace, which are the one its run row has the cost of and those whose
\* output was discarded for the schema, also when a cached answer was served.
Discarded(r) == {i \in 1..(Len(trace[r]) - 1) : trace[r][i].outcome = "schema_invalid"}

AccountsAgree ==
    \A r \in Requests :
        /\ pc[r] \in {"idle", "refused"} => charge[r] = 0
        /\ pc[r] = "done" /\ ~question[r].test => charge[r] = run[r].cost + Cardinality(Discarded(r))

\* What the caller is told, the run row and the trace tell the same story
\* (predict_core.go:166-174): a Predict gets a result exactly when its walk
\* ended in a usable answer, although output is validated twice, on the walk
\* and after it; and a row marked successful without a result is one whose
\* last answer failed the schema.
RepliesMatchTraces ==
    \A r \in Requests : pc[r] = "done" =>
        /\ run[r].cacheHit <=> Last(r).outcome = "cache_hit"
        /\ reply[r] # Failure <=> Last(r).outcome \in {"success", "cache_hit"}
        /\ reply[r] # Failure => reply[r] = Last(r).text /\ run[r].model = Last(r).model
        /\ (run[r].success /\ reply[r] = Failure) <=> Last(r).outcome = "schema_invalid"

\* The pipeline implements the oracle: what is handed out was really said, by a
\* model of the chain, to the question of this prediction.
Heard == {text \in Text : \E r \in Requests : \E i \in DOMAIN trace[r] : trace[r][i].text = text}

Oracle == INSTANCE PredictionOracle WITH asked <- question, said <- Heard

KeepsOracle == Oracle!Spec
=============================================================================
