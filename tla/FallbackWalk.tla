---------------------------- MODULE FallbackWalk ----------------------------
(***************************************************************************)
(* The fallback walk (internal/llm/fallback.go, CallWithFallbackOpts) of   *)
(* concurrent requests for one task, over the circuits of its models and   *)
(* with the retry loop of CallModel (internal/llm/runner.go) inside it.    *)
(* Requests share nothing but the circuits; the provider, the cache and    *)
(* the caller's connection are the environment.                            *)
(***************************************************************************)
EXTENDS Breaker, Sequences, FiniteSets

CONSTANTS Models,     \* the models a chain may name
          Requests,   \* predictions, each made once (bounds every counter)
          Chains,     \* the chains requests run with: primary, then fallbacks
          MaxTries    \* tries of CallModel's retry loop (3 in the code)

ASSUME WalkAssumption ==
    /\ Chains \subseteq Seq(Models)
    /\ \A c \in Chains : c # <<>>
    /\ MaxTries \in Nat \ {0}

(***************************************************************************)
(* What provider.Call can come back with, by what the code does with it.   *)
(*   valid        content that passes the task's output schema             *)
(*   invalid      content that does not                                    *)
(*   definitive   400/422 and other 4xx, or an answer without content      *)
(*   canceled     context.Canceled: only once the caller has gone          *)
(*   transient    429, 500 or 503: retried                                 *)
(*   unavailable  other 5xx, network, timeout, 401/403/404, no client      *)
(***************************************************************************)
Answer == {"valid", "invalid", "definitive", "canceled", "transient", "unavailable"}

\* Outcomes of one model within a walk, as the gateway trace names them;
\* "error" is split by whether the walk went on (shouldFallback).
FallThrough == {"skipped_unhealthy", "schema_invalid", "error_fallback"}
Definitive  == {"success", "cache_hit", "error_definitive"}
Penalised   == {"schema_invalid", "error_fallback"}

Attempt == [at : Nat, model : Models, outcome : FallThrough \cup Definitive]

Result == [success : BOOLEAN, fallbackUsed : BOOLEAN, degraded : BOOLEAN]

CONSTANT NoResult     \* the walk has not returned
ASSUME NoResultAssumption == NoResult \notin Result

VARIABLES entry,      \* circuit of each model for this task
          chain,      \* the chain a request runs with
          pc, pos,    \* where in the loop body, and at which model, a request is
          tries,      \* tries made by CallModel for the current model
          gone,       \* the caller's context is done
          attempts,   \* the gateway trace so far
          result,     \* what the walk returned
          lateCalls   \* history: models a request called after its caller left

vars == <<entry, chain, pc, pos, tries, gone, attempts, result, lateCalls>>

Init == /\ entry     = [m \in Models |-> FreshEntry]
        /\ chain     \in [Requests -> Chains]
        /\ pc        = [r \in Requests |-> "gate"]
        /\ pos       = [r \in Requests |-> 1]
        /\ tries     = [r \in Requests |-> 0]
        /\ gone      = [r \in Requests |-> FALSE]
        /\ attempts  = [r \in Requests |-> <<>>]
        /\ result    = [r \in Requests |-> NoResult]
        /\ lateCalls = [r \in Requests |-> 0]

Model(r) == chain[r][pos[r]]

-----------------------------------------------------------------------------
\* Faulty: a skipped model leaves no trace.
TracedUnlessSkipped(r, outcome) ==
    IF outcome = "skipped_unhealthy" THEN attempts[r]
    ELSE Append(attempts[r], [at |-> pos[r], model |-> Model(r), outcome |-> outcome])

\* The trace with the outcome of the current model added (attemptFrom).
Traced(r, outcome) ==
    Append(attempts[r], [at |-> pos[r], model |-> Model(r), outcome |-> outcome])

\* The walk returns at the current model.
Return(r, outcome, success) ==
    /\ attempts' = [attempts EXCEPT ![r] = Traced(r, outcome)]
    /\ result'   = [result EXCEPT ![r] = [success      |-> success,
                                          fallbackUsed |-> pos[r] > 1,
                                          degraded     |-> pos[r] > 1]]
    /\ pc'       = [pc EXCEPT ![r] = "done"]
    /\ UNCHANGED <<pos, tries>>

\* Faulty: the last result is returned as the loop left it.
ExhaustedUnmarked(r, outcome) ==
    [success |-> outcome = "schema_invalid", fallbackUsed |-> pos[r] > 1,
     degraded |-> pos[r] > 1]

\* What is returned below the loop, given the outcome of the last model the
\* walk touched: a chain of skips only, or the last result marked degraded.
Exhausted(r, outcome) ==
    IF \A i \in 1..Len(Traced(r, outcome)) :
           Traced(r, outcome)[i].outcome = "skipped_unhealthy"
    THEN [success |-> FALSE, fallbackUsed |-> FALSE, degraded |-> TRUE]
    ELSE [success |-> outcome = "schema_invalid", fallbackUsed |-> pos[r] > 1,
          degraded |-> TRUE]

\* The current model did not serve: go on to the next one, or leave the loop
\* at the end of the chain or on a break.
GoOn(r, outcome, break) ==
    /\ attempts' = [attempts EXCEPT ![r] = Traced(r, outcome)]
    /\ IF break \/ pos[r] = Len(chain[r])
       THEN /\ result' = [result EXCEPT ![r] = Exhausted(r, outcome)]
            /\ pc'     = [pc EXCEPT ![r] = "done"]
            /\ UNCHANGED <<pos, tries>>
       ELSE /\ pos'   = [pos EXCEPT ![r] = @ + 1]
            /\ tries' = [tries EXCEPT ![r] = 0]
            /\ pc'    = [pc EXCEPT ![r] = "gate"]
            /\ UNCHANGED result

\* Gate.Allow: the model is skipped while its circuit is open.
Skip(r) ==
    /\ pc[r] = "gate"
    /\ ~Allowed(entry[Model(r)])
    /\ GoOn(r, "skipped_unhealthy", FALSE)
    /\ UNCHANGED <<entry, chain, gone, lateCalls>>

Enter(r) ==
    /\ pc[r] = "gate"
    /\ Allowed(entry[Model(r)])
    /\ entry' = [entry EXCEPT ![Model(r)] = AfterAllow(@)]
    /\ pc'    = [pc EXCEPT ![r] = "lookup"]
    /\ UNCHANGED <<chain, pos, tries, gone, attempts, result, lateCalls>>

\* Lookup: a cached answer of this model ends the walk.
LookupHit(r) ==
    /\ pc[r] = "lookup"
    /\ Return(r, "cache_hit", TRUE)
    /\ UNCHANGED <<entry, chain, gone, lateCalls>>

LookupMiss(r) ==
    /\ pc[r] = "lookup"
    /\ pc'        = [pc EXCEPT ![r] = "calling"]
    /\ tries'     = [tries EXCEPT ![r] = 1]
    /\ lateCalls' = [lateCalls EXCEPT ![r] = @ + (IF gone[r] THEN 1 ELSE 0)]
    /\ UNCHANGED <<entry, chain, pos, gone, attempts, result>>

\* Faulty: a bad request counts against the model.
SettlePenalisingAll(r, answer) ==
    LET m == Model(r) IN
    \/ /\ answer = "valid"
       /\ entry' = [entry EXCEPT ![m] = AfterSuccess(@)]
       /\ Return(r, "success", TRUE)
    \/ /\ answer \in {"definitive", "canceled"}
       /\ entry' = [entry EXCEPT ![m] = AfterFailure(@)]
       /\ Return(r, "error_definitive", FALSE)
    \/ /\ answer \in {"invalid", "transient", "unavailable"}
       /\ entry' = [entry EXCEPT ![m] = AfterFailure(@)]
       /\ GoOn(r, IF answer = "invalid" THEN "schema_invalid" ELSE "error_fallback",
               gone[r])

\* CallModel settled on an answer: record it, trace it, return or go on.
Settle(r, answer) ==
    LET m == Model(r) IN
    \/ /\ answer = "valid"
       /\ entry' = [entry EXCEPT ![m] = AfterSuccess(@)]
       /\ Return(r, "success", TRUE)
    \/ /\ answer = "invalid"
       /\ entry' = [entry EXCEPT ![m] = AfterFailure(@)]
       /\ GoOn(r, "schema_invalid", gone[r])
    \/ /\ answer \in {"definitive", "canceled"}
       /\ Return(r, "error_definitive", FALSE)
       /\ UNCHANGED entry
    \/ /\ answer \in {"transient", "unavailable"}
       /\ entry' = [entry EXCEPT ![m] = AfterFailure(@)]
       /\ GoOn(r, "error_fallback", gone[r])

\* One provider.Call returns.  A transient error sleeps, the last try's too,
\* unless the caller has gone.
Answered(r, answer) ==
    /\ pc[r] = "calling"
    /\ answer = "canceled" => gone[r]
    /\ IF answer = "transient" /\ ~gone[r]
       THEN /\ pc' = [pc EXCEPT ![r] = "sleeping"]
            /\ UNCHANGED <<entry, pos, tries, attempts, result>>
       ELSE Settle(r, answer)
    /\ UNCHANGED <<chain, gone, lateCalls>>

\* Faulty: tries are not counted.
RetryUncounted(r) ==
    /\ pc[r] = "sleeping"
    /\ tries[r] < MaxTries
    /\ pc' = [pc EXCEPT ![r] = "calling"]
    /\ UNCHANGED <<entry, chain, pos, tries, gone, attempts, result, lateCalls>>

\* The sleep between two tries is over.
Retry(r) ==
    /\ pc[r] = "sleeping"
    /\ tries[r] < MaxTries
    /\ tries' = [tries EXCEPT ![r] = @ + 1]
    /\ pc'    = [pc EXCEPT ![r] = "calling"]
    /\ UNCHANGED <<entry, chain, pos, gone, attempts, result, lateCalls>>

GiveUp(r) ==
    /\ pc[r] = "sleeping"
    /\ tries[r] = MaxTries
    /\ Settle(r, "transient")
    /\ UNCHANGED <<chain, gone, lateCalls>>

\* The caller disconnects.
Leave(r) ==
    /\ pc[r] # "done" /\ ~gone[r]
    /\ gone' = [gone EXCEPT ![r] = TRUE]
    /\ UNCHANGED <<entry, chain, pc, pos, tries, attempts, result, lateCalls>>

Tick ==
    /\ \E m \in Models : entry[m].openFor > 0
    /\ entry' = [m \in Models |-> AfterTick(entry[m])]
    /\ UNCHANGED <<chain, pc, pos, tries, gone, attempts, result, lateCalls>>

Step(r) == \/ Skip(r)
           \/ Enter(r)
           \/ LookupHit(r)
           \/ LookupMiss(r)
           \/ \E answer \in Answer : Answered(r, answer)
           \/ Retry(r)
           \/ GiveUp(r)

Next == (\E r \in Requests : Step(r) \/ Leave(r)) \/ Tick

Spec == Init /\ [][Next]_vars

\* The goroutine of a request is scheduled, and a provider call returns (the
\* HTTP clients carry a timeout).  Nothing is assumed about time or callers.
FairSpec == Spec /\ \A r \in Requests : WF_vars(Step(r))

-----------------------------------------------------------------------------
TypeOK == /\ entry     \in [Models -> Entry]
          /\ chain     \in [Requests -> Chains]
          /\ pc        \in [Requests -> {"gate", "lookup", "calling", "sleeping", "done"}]
          /\ pos       \in [Requests -> Nat \ {0}]
          /\ tries     \in [Requests -> 0..MaxTries]
          /\ gone      \in [Requests -> BOOLEAN]
          /\ attempts  \in [Requests -> Seq(Attempt)]
          /\ result    \in [Requests -> Result \cup {NoResult}]
          /\ lateCalls \in [Requests -> Nat]

\* How often an outcome of a set is traced for a model, over all requests.
TracedTimes(m, outcomes) ==
    LET Places == UNION {{r} \X DOMAIN attempts[r] : r \in Requests}
    IN  Cardinality({w \in Places : /\ attempts[w[1]][w[2]].model = m
                                    /\ attempts[w[1]][w[2]].outcome \in outcomes})

\* The breaker and the gateway trace tell the same story: each model's
\* failures are exactly the schema-invalid and fallback-eligible attempts the
\* traces of all requests show, and its successes the served live answers.
\* A cache hit, a bad request, an answer without content, a cancelled caller,
\* a skip or one of several tries never moves a circuit.
HealthMatchesTraces ==
    \A m \in Models : /\ entry[m].failures  = TracedTimes(m, Penalised)
                      /\ entry[m].successes = TracedTimes(m, {"success"})

\* The trace of a walk is the chain in order: the ith entry is the ith model,
\* every entry but the last one fell through, and the walk that returned
\* without a definitive outcome touched its whole chain or lost its caller; and
\* "caller gone - don't burn the rest of the chain" (fallback.go:150): after its
\* caller has left, a request starts a call to at most one more model.
TraceIsWalk ==
    \A r \in Requests : LET tr == attempts[r]  n == Len(tr) IN
        /\ n <= Len(chain[r])
        /\ \A i \in 1..n : /\ tr[i].at = i /\ tr[i].model = chain[r][i]
                           /\ i < n => tr[i].outcome \in FallThrough
        /\ result[r] # NoResult =>
               \/ tr[n].outcome \in Definitive
               \/ n = Len(chain[r])
               \/ gone[r]
        /\ result[r] = NoResult => n = pos[r] - 1
        /\ lateCalls[r] <= 1

\* The X-Platform-Degraded contract (fallback.go:28-30): the answer is marked
\* degraded if and only if a non-primary model was reached or the whole chain
\* failed, on every path out of the walk.
DegradedContract ==
    \A r \in Requests : result[r] # NoResult =>
        LET tr == attempts[r]  n == Len(tr) IN
        result[r].degraded <=> (n > 1 \/ tr[n].outcome \notin Definitive)

\* Every walk returns, whatever providers answer, callers do and other
\* requests make of the circuits.
EveryWalkReturns == \A r \in Requests : <>(result[r] # NoResult)
=============================================================================
