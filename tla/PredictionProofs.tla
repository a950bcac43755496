-------------------------- MODULE PredictionProofs --------------------------
(***************************************************************************)
(* Proofs about PredictionPipeline: its invariants, and that it implements *)
(* PredictionOracle.                                                       *)
(***************************************************************************)
EXTENDS PredictionPipeline, FiniteSetTheorems, SequenceTheorems, TLAPS

Returned(r) == pc[r] \in {"walked", "settled", "filled", "done"}
Answering   == {"success", "cache_hit"}
Content     == {"success", "cache_hit", "schema_invalid"}

\* What holds of each attempt: content was said by its model to the question,
\* and the outcome is the validator's verdict.
AttemptSound(r, a) ==
    /\ a.text # NoText <=> a.outcome \in Content
    /\ a.text # NoText => a.text.by = a.model /\ SaidTo(a.text, question[r])
    /\ a.outcome \in Answering => Usable(r, a.text)
    /\ a.outcome = "schema_invalid" => ~Usable(r, a.text)

TraceSound(r) ==
    /\ \A i \in DOMAIN trace[r] : AttemptSound(r, trace[r][i])
    /\ \A i \in DOMAIN trace[r] :
           i < Len(trace[r]) \/ ~Returned(r) => trace[r][i].outcome \notin Answering

\* The result is that of the last attempt.
ResultSound(r) ==
    Returned(r) => /\ trace[r] # <<>> /\ result[r] \in Result
                   /\ result[r].text = Last(r).text
                   /\ result[r].success <=> result[r].text # NoText
                   /\ result[r].text # NoText => result[r].model = Last(r).model

\* The books, stage by stage.
BooksSound(r) ==
    /\ ~Began(r) => trace[r] = <<>> /\ charge[r] = 0 /\ ~cacheable[r]
    /\ Began(r) /\ cacheable[r] => ~question[r].test
    /\ pc[r] # "done" => reply[r] = NoReply
    /\ pc[r] = "filled" => ~CacheHit(r)
    /\ pc[r] \in {"settled", "filled", "done"} /\ ~question[r].test
           => charge[r] = Consumed(trace[r])

AnswerSound(r) ==
    pc[r] = "done" =>
        /\ run[r] \in RunRow
        /\ run[r].cacheHit <=> CacheHit(r)
        /\ run[r].cost = IF Last(r).outcome \in {"success", "schema_invalid"} THEN 1 ELSE 0
        /\ run[r].success <=> Last(r).outcome \in Content
        /\ reply[r] = IF Last(r).outcome \in Answering THEN Last(r).text ELSE Failure
        /\ Last(r).outcome \in Content => run[r].model = Last(r).model

RequestInv(r) == TraceSound(r) /\ ResultSound(r) /\ BooksSound(r) /\ AnswerSound(r)

CacheHeard == \A k \in Key : cache[k] # NoText => cache[k] \in Heard

IInv == /\ TypeOK
        /\ CacheMeansItsKey
        /\ CacheHeard
        /\ \A r \in Requests : RequestInv(r)

-----------------------------------------------------------------------------
\* A request whose own variables do not change keeps its invariant.
LEMMA OthersKept ==
    ASSUME NEW s \in Requests, RequestInv(s),
           pc'[s] = pc[s], question'[s] = question[s], cacheable'[s] = cacheable[s],
           trace'[s] = trace[s], result'[s] = result[s], charge'[s] = charge[s],
           run'[s] = run[s], reply'[s] = reply[s]
    PROVE  RequestInv(s)'
<1>1. TraceSound(s)'
  BY DEF RequestInv, TraceSound, AttemptSound, Returned, Usable
<1>2. ResultSound(s)'
  BY DEF RequestInv, ResultSound, Returned, Last
<1>3. BooksSound(s)'
  BY DEF RequestInv, BooksSound, Began, CacheHit
<1>4. AnswerSound(s)'
  BY DEF RequestInv, AnswerSound, CacheHit, Last
<1>5. QED
  BY <1>1, <1>2, <1>3, <1>4 DEF RequestInv

LEMMA InitInv == Init => IInv
<1> SUFFICES ASSUME Init PROVE IInv
  OBVIOUS
<1>1. TypeOK
  BY PipelineAssumption DEF Init, TypeOK, Began
<1>2. CacheMeansItsKey /\ CacheHeard
  BY DEF Init, CacheMeansItsKey, CacheHeard
<1>3. ASSUME NEW r \in Requests PROVE RequestInv(r)
  BY DEF Init, RequestInv, TraceSound, ResultSound, BooksSound, AnswerSound, Returned, Began
<1>4. QED
  BY <1>1, <1>2, <1>3 DEF IInv

\* What a task's configuration lets be asked is a question with a chain.
LEMMA QuestionsTyped ==
    ASSUME NEW config \in Configs, NEW q \in Questions(config)
    PROVE  q \in Question /\ q.chain # <<>>
<1>1. config \in Config /\ config.chain # <<>>
  BY TermsAssumption
<1>2. \A m \in Models : <<m>> \in Seq(Models) /\ <<m>> # <<>>
  OBVIOUS
<1>3. QED
  BY <1>1, <1>2 DEF Questions, Question, Config

LEMMA AtAModel ==
    ASSUME TypeOK, NEW r \in Requests, pc[r] \in {"walking", "calling"}
    PROVE  /\ question[r] \in Question
           /\ Len(trace[r]) \in Nat
           /\ Len(trace[r]) + 1 \in DOMAIN question[r].chain
           /\ Model(r) \in Models
<1>1. question[r] \in Question
  BY DEF TypeOK, Began
<1>2. question[r].chain \in Seq(Models) /\ trace[r] \in Seq(Attempt)
  BY <1>1 DEF TypeOK, Question
<1>3. Len(trace[r]) \in Nat /\ Len(trace[r]) < Len(question[r].chain)
  BY <1>2 DEF TypeOK
<1>4. QED
  BY <1>1, <1>2, <1>3 DEF Model

\* What is heard grows with the attempts.
LEMMA HeardGrows ==
    ASSUME trace \in [Requests -> Seq(Attempt)], NEW r \in Requests, NEW a \in Attempt,
           trace' = [trace EXCEPT ![r] = Append(@, a)]
    PROVE  Heard' = Heard \cup ({a.text} \ {NoText})
<1> DEFINE n == Len(trace[r]) + 1
<1>1. /\ trace[r] \in Seq(Attempt) /\ n \in Nat /\ n \in DOMAIN trace'[r]
      /\ trace'[r] = Append(trace[r], a) /\ trace'[r][n] = a
      /\ DOMAIN trace'[r] = DOMAIN trace[r] \cup {n}
      /\ \A i \in DOMAIN trace[r] : trace'[r][i] = trace[r][i]
  OBVIOUS
<1>2. \A s \in Requests : s # r => trace'[s] = trace[s]
  OBVIOUS
<1>3. ASSUME NEW x \in Text
      PROVE  x \in Heard' <=> x \in Heard \/ x = a.text
  <2>1. ASSUME NEW s \in Requests, NEW i \in DOMAIN trace'[s], trace'[s][i].text = x
        PROVE  x \in Heard \/ x = a.text
    <3>1. CASE s = r /\ i = n
      BY <1>1, <2>1, <3>1
    <3>2. CASE ~(s = r /\ i = n)
      <4>1. i \in DOMAIN trace[s] /\ trace[s][i].text = x
        BY <1>1, <1>2, <2>1, <3>2
      <4>2. QED
        BY <4>1 DEF Heard
    <3>3. QED
      BY <3>1, <3>2
  <2>2. ASSUME NEW s \in Requests, NEW i \in DOMAIN trace[s], trace[s][i].text = x
        PROVE  x \in Heard'
    <3>1. i \in DOMAIN trace'[s] /\ trace'[s][i] = trace[s][i]
      BY <1>1, <1>2
    <3>2. QED
      BY <2>2, <3>1 DEF Heard
  <2>3. x = a.text => x \in Heard'
    BY <1>1 DEF Heard
  <2>4. QED
    BY <2>1, <2>2, <2>3 DEF Heard
<1>4. a.text \in Text <=> a.text # NoText
  BY PipelineAssumption DEF Attempt
<1>5. Heard \subseteq Text /\ Heard' \subseteq Text
  BY DEF Heard
<1>6. QED
  BY <1>3, <1>4, <1>5

\* A step that leaves cache and traces alone keeps what is said of the cache.
LEMMA CacheKept ==
    ASSUME CacheMeansItsKey, CacheHeard, UNCHANGED <<cache, trace>>
    PROVE  CacheMeansItsKey' /\ CacheHeard'
<1>1. Heard' = Heard
  BY DEF Heard
<1>2. QED
  BY <1>1 DEF CacheMeansItsKey, CacheHeard

-----------------------------------------------------------------------------
\* A step of the walk that adds a sound attempt, and returns it or goes on.
LEMMA WalkInv ==
    ASSUME IInv, NEW r \in Requests, pc[r] \in {"walking", "calling"},
           NEW a \in Attempt, AttemptSound(r, a),
           UNCHANGED <<taskVars, cache, question, cacheable, charge, answerVars>>,
           \/ Return(r, a)
           \/ a.outcome \notin Answering /\ \E stop \in BOOLEAN : GoOn(r, a, stop)
    PROVE  IInv' /\ Heard' = Heard \cup ({a.text} \ {NoText})
<1> DEFINE n == Len(trace[r]) + 1
<1>1. TypeOK /\ RequestInv(r) /\ Began(r) /\ ~Returned(r)
  BY DEF IInv, Began, Returned
<1>2. /\ question[r] \in Question /\ n \in Nat /\ n \in DOMAIN question[r].chain
      /\ Len(trace[r]) < Len(question[r].chain) /\ Len(question[r].chain) \in Nat
  BY <1>1, AtAModel DEF TypeOK, Question
<1>3. trace' = [trace EXCEPT ![r] = Append(@, a)]
  BY DEF Return, GoOn
<1>4. /\ trace' \in [Requests -> Seq(Attempt)]
      /\ Len(trace'[r]) = n /\ trace'[r] # <<>> /\ trace'[r][n] = a
      /\ DOMAIN trace'[r] = 1..n /\ DOMAIN trace[r] = 1..(n - 1)
      /\ \A i \in 1..(n - 1) : trace'[r][i] = trace[r][i]
  <2>1. trace[r] \in Seq(Attempt) /\ trace'[r] = Append(trace[r], a)
    BY <1>1, <1>3 DEF TypeOK
  <2>2. trace' \in [Requests -> Seq(Attempt)]
    BY <1>1, <1>3, <2>1 DEF TypeOK
  <2>3. DOMAIN trace'[r] = 1..n /\ Len(trace'[r]) = n /\ trace'[r] # <<>>
    BY <2>1
  <2>4. trace'[r][n] = a /\ \A i \in 1..(n - 1) : trace'[r][i] = trace[r][i]
    BY <2>1
  <2>5. DOMAIN trace[r] = 1..(n - 1)
    BY <2>1
  <2>6. QED
    BY <2>2, <2>3, <2>4, <2>5
<1>5. \/ /\ pc' = [pc EXCEPT ![r] = "walked"]
         /\ \E res \in Result : /\ result' = [result EXCEPT ![r] = res]
                                /\ res.text = a.text /\ (res.success <=> a.text # NoText)
                                /\ a.text # NoText => res.model = a.model
      \/ /\ pc' = [pc EXCEPT ![r] = "walking"] /\ result' = result
         /\ a.outcome \notin Answering /\ n < Len(question[r].chain)
  <2>1. CASE Return(r, a)
    <3> DEFINE res == [model |-> a.model, text |-> a.text, success |-> a.text # NoText,
                       fallbackUsed |-> trace[r] # <<>>, degraded |-> trace[r] # <<>>]
    <3>1. res \in Result
      BY DEF Result, Attempt
    <3>2. QED
      BY <2>1, <3>1 DEF Return
  <2>2. ASSUME NEW stop \in BOOLEAN, GoOn(r, a, stop), a.outcome \notin Answering 
        PROVE \/ /\ pc' = [pc EXCEPT ![r] = "walked"]
                 /\ \E res \in Result : /\ result' = [result EXCEPT ![r] = res]
                                        /\ res.text = a.text /\ (res.success <=> a.text # NoText)
                                        /\ a.text # NoText => res.model = a.model
              \/ /\ pc' = [pc EXCEPT ![r] = "walking"] /\ result' = result
                 /\ a.outcome \notin Answering /\ n < Len(question[r].chain)
    <3>1. CASE stop \/ n = Len(question[r].chain)
      <4>1. Exhausted(r, a) \in Result
        BY DEF Result, Attempt, Exhausted
      <4>2. /\ Exhausted(r, a).text = a.text
            /\ Exhausted(r, a).success <=> a.text # NoText
            /\ a.text # NoText => Exhausted(r, a).model = a.model
        <5>1. Append(trace[r], a)[n] = a /\ n \in DOMAIN Append(trace[r], a)
          BY <1>1 DEF TypeOK
        <5>2. a.outcome = "skipped_unhealthy" => a.text = NoText
          BY DEF AttemptSound, Content
        <5>3. QED
          BY <5>1, <5>2 DEF Exhausted
      <4>3. QED
        BY <2>2, <3>1, <4>1, <4>2 DEF GoOn
    <3>2. CASE ~(stop \/ n = Len(question[r].chain))
      BY <1>2, <2>2, <3>2 DEF GoOn
    <3>3. QED
      BY <3>1, <3>2
  <2>3. QED
    BY <2>1, <2>2
<1>6. TypeOK'
  <2>1. /\ pc' \in [Requests -> {"idle", "refused", "walking", "calling", "walked",
                                  "settled", "filled", "done"}]
        /\ result' \in [Requests -> Result \cup {NoResult}]
        /\ pc'[r] \in {"walked", "walking"}
        /\ pc'[r] = "walking" => n < Len(question[r].chain)
        /\ \A s \in Requests : s # r => pc'[s] = pc[s] /\ trace'[s] = trace[s]
    <3>1. result' \in [Requests -> Result \cup {NoResult}]
      BY <1>1, <1>5 DEF TypeOK
    <3>2. pc' = [pc EXCEPT ![r] = "walked"] \/ pc' = [pc EXCEPT ![r] = "walking"]
      BY <1>5
    <3>3. pc'[r] = "walking" => n < Len(question[r].chain)
      BY <1>1, <1>5 DEF TypeOK
    <3>4. QED
      BY <1>1, <1>3, <3>1, <3>2, <3>3 DEF TypeOK
  <2>2. \A s \in Requests :
           /\ Began(s)' <=> question'[s] # NoQuestion
           /\ pc'[s] \in {"walking", "calling"} => Len(trace'[s]) < Len(question'[s].chain)
    <3>1. question' = question /\ question[r] # NoQuestion
      BY <1>1 DEF TypeOK
    <3>2. ASSUME NEW s \in Requests, s # r
          PROVE  /\ Began(s)' <=> question'[s] # NoQuestion
                 /\ pc'[s] \in {"walking", "calling"} => Len(trace'[s]) < Len(question'[s].chain)
      BY <1>1, <2>1, <3>1, <3>2 DEF TypeOK, Began
    <3>3. /\ Began(r)'
          /\ pc'[r] \in {"walking", "calling"} => Len(trace'[r]) < Len(question'[r].chain)
      BY <1>4, <2>1, <3>1 DEF Began
    <3>4. QED
      BY <3>1, <3>2, <3>3
  <2>3. QED
    BY <1>1, <1>4, <2>1, <2>2 DEF TypeOK, taskVars, answerVars
<1>7. RequestInv(r)'
  <2>1. question'[r] = question[r] /\ charge'[r] = charge[r] /\ cacheable'[r] = cacheable[r]
        /\ reply'[r] = reply[r] /\ pc'[r] \in {"walked", "walking"}
        /\ reply[r] = NoReply
    BY <1>1, <1>5 DEF answerVars, RequestInv, BooksSound, TypeOK
  <2>2. TraceSound(r)'
    <3>1. ASSUME NEW i \in 1..n PROVE AttemptSound(r, trace[r][i])' 
      <4>1. CASE i = n
        BY <1>4, <2>1, <4>1 DEF AttemptSound, Usable
      <4>2. CASE i \in 1..(n - 1)
        BY <1>1, <1>4, <2>1, <4>2 DEF AttemptSound, Usable, RequestInv, TraceSound
      <4>3. QED
        BY <1>2, <4>1, <4>2
    <3>2. ASSUME NEW i \in 1..n, i < n \/ ~Returned(r)' PROVE trace'[r][i].outcome \notin Answering
      <4>1. CASE i = n
        BY <1>1, <1>2, <1>4, <1>5, <3>2, <4>1 DEF Returned, TypeOK
      <4>2. CASE i \in 1..(n - 1)
        BY <1>1, <1>4, <4>2 DEF RequestInv, TraceSound
      <4>3. QED
        BY <1>2, <4>1, <4>2
    <3>3. QED
      BY <1>4, <3>1, <3>2 DEF TraceSound
  <2>3. ResultSound(r)'
    BY <1>1, <1>4, <1>5 DEF ResultSound, Returned, Last, TypeOK
  <2>4. BooksSound(r)'
    BY <1>1, <2>1 DEF RequestInv, BooksSound, Began
  <2>5. AnswerSound(r)'
    BY <2>1 DEF AnswerSound
  <2>6. QED
    BY <2>2, <2>3, <2>4, <2>5 DEF RequestInv
<1>8. ASSUME NEW s \in Requests, s # r PROVE RequestInv(s)'
  <2>1. pc'[s] = pc[s] /\ result'[s] = result[s] /\ trace'[s] = trace[s]
    BY <1>1, <1>3, <1>5, <1>8 DEF TypeOK
  <2>2. RequestInv(s)
    BY DEF IInv
  <2>3. QED
    BY <2>1, <2>2, OthersKept DEF answerVars
<1>9. Heard' = Heard \cup ({a.text} \ {NoText})
  BY <1>1, <1>3, HeardGrows DEF TypeOK
<1>10. CacheMeansItsKey' /\ CacheHeard'
  BY <1>9 DEF IInv, CacheMeansItsKey, CacheHeard
<1>11. QED
  BY <1>6, <1>7, <1>8, <1>9, <1>10 DEF IInv

-----------------------------------------------------------------------------
\* A step of one request that leaves cache and traces alone.
LEMMA StepOfOne ==
    ASSUME IInv, NEW r \in Requests, UNCHANGED <<cache, trace>>, TypeOK', RequestInv(r)',
           \A s \in Requests \ {r} :
               /\ pc'[s] = pc[s] /\ question'[s] = question[s] /\ cacheable'[s] = cacheable[s]
               /\ result'[s] = result[s] /\ charge'[s] = charge[s]
               /\ run'[s] = run[s] /\ reply'[s] = reply[s]
    PROVE  IInv' /\ Heard' = Heard
<1>1. ASSUME NEW s \in Requests, s # r PROVE RequestInv(s)'
  <2>1. RequestInv(s)
    BY DEF IInv
  <2>2. QED
    BY <1>1, <2>1, OthersKept
<1>2. CacheMeansItsKey' /\ CacheHeard'
  BY CacheKept DEF IInv
<1>3. Heard' = Heard
  BY DEF Heard
<1>4. QED
  BY <1>1, <1>2, <1>3 DEF IInv

LEMMA RefuseInv ==
    ASSUME IInv, NEW r \in Requests, Refuse(r)
    PROVE  IInv' /\ Heard' = Heard
<1>1. TypeOK /\ RequestInv(r)
  BY DEF IInv
<1>2. TypeOK'
  BY <1>1 DEF Refuse, TypeOK, taskVars, answerVars, Began
<1>3. RequestInv(r)'
  BY <1>1 DEF Refuse, TypeOK, answerVars, RequestInv, TraceSound, ResultSound, BooksSound,
              AnswerSound, Returned, Began
<1>4. QED
  BY <1>1, <1>2, <1>3, StepOfOne DEF Refuse, TypeOK, answerVars

LEMMA BeginInv ==
    ASSUME IInv, NEW r \in Requests, Begin(r)
    PROVE  IInv' /\ Heard' = Heard
<1>1. TypeOK /\ RequestInv(r) /\ pc[r] = "idle" /\ ~Began(r)
  BY DEF IInv, Begin, Began
<1>2. PICK q \in Questions(live) :
          /\ question'  = [question EXCEPT ![r] = q]
          /\ cacheable' = [cacheable EXCEPT ![r] = live.caching /\ ~q.test]
          /\ charge'    = [charge EXCEPT ![r] = IF q.test THEN 0 ELSE Estimate]
  BY DEF Begin
<1>3. q \in Question /\ q.chain # <<>> /\ q # NoQuestion
  BY <1>1, QuestionsTyped, PipelineAssumption DEF TypeOK
<1>4. trace[r] = <<>> /\ reply[r] = NoReply
  BY <1>1 DEF RequestInv, BooksSound
<1>5. 0 < Len(q.chain)
  BY <1>3 DEF Question
<1>6. live.caching \in BOOLEAN
  BY <1>1, TermsAssumption DEF TypeOK, Config
<1>7. TypeOK'
  <2>1. /\ question' \in [Requests -> Question \cup {NoQuestion}]
        /\ cacheable' \in [Requests -> BOOLEAN]
        /\ charge' \in [Requests -> Nat]
    BY <1>1, <1>2, <1>3, <1>6, PipelineAssumption DEF TypeOK
  <2>2. pc' = [pc EXCEPT ![r] = "walking"] /\ UNCHANGED <<live, edits, cache, trace, result, run, reply, degraded>>
    BY DEF Begin, taskVars, answerVars
  <2>3. \A s \in Requests :
           /\ Began(s)' <=> question'[s] # NoQuestion
           /\ pc'[s] \in {"walking", "calling"} => Len(trace'[s]) < Len(question'[s].chain)
    <3>1. ASSUME NEW s \in Requests, s # r
          PROVE  /\ Began(s)' <=> question'[s] # NoQuestion
                 /\ pc'[s] \in {"walking", "calling"} => Len(trace'[s]) < Len(question'[s].chain)
      BY <1>1, <1>2, <2>2, <3>1 DEF TypeOK, Began
    <3>2. /\ Began(r)' /\ question'[r] # NoQuestion
          /\ Len(trace'[r]) < Len(question'[r].chain)
      BY <1>1, <1>2, <1>3, <1>4, <1>5, <2>2 DEF TypeOK, Began
    <3>3. QED
      BY <3>1, <3>2
  <2>4. QED
    BY <1>1, <2>1, <2>2, <2>3 DEF TypeOK
<1>8. RequestInv(r)'
  <2>1. trace'[r] = <<>> /\ reply'[r] = NoReply /\ pc'[r] = "walking"
        /\ (cacheable'[r] => ~question'[r].test)
    BY <1>1, <1>2, <1>4 DEF Begin, answerVars, TypeOK
  <2>2. QED
    BY <2>1 DEF RequestInv, TraceSound, ResultSound, BooksSound, AnswerSound, Returned, Began
<1>9. QED
  BY <1>1, <1>2, <1>7, <1>8, StepOfOne DEF Begin, TypeOK, answerVars

LEMMA CallInv ==
    ASSUME IInv, NEW r \in Requests, Call(r)
    PROVE  IInv' /\ Heard' = Heard
<1>1. TypeOK /\ RequestInv(r)
  BY DEF IInv
<1>2. TypeOK'
  BY <1>1 DEF Call, TypeOK, taskVars, answerVars, Began
<1>3. RequestInv(r)'
  <2>1. pc[r] = "walking" /\ pc'[r] = "calling"
        /\ UNCHANGED <<question, cacheable, trace, result, charge, run, reply>>
    BY <1>1 DEF Call, TypeOK, answerVars
  <2>2. TraceSound(r)'
    BY <1>1, <2>1 DEF RequestInv, TraceSound, AttemptSound, Usable, Returned
  <2>3. BooksSound(r)'
    BY <1>1, <2>1 DEF RequestInv, BooksSound, Began
  <2>4. QED
    BY <2>1, <2>2, <2>3 DEF RequestInv, ResultSound, AnswerSound, Returned
<1>4. QED
  BY <1>1, <1>2, <1>3, StepOfOne DEF Call, TypeOK, answerVars

\* An attempt without content is sound whatever was asked.
LEMMA EmptyAttempt ==
    ASSUME TypeOK, NEW r \in Requests, pc[r] \in {"walking", "calling"},
           NEW outcome \in {"skipped_unhealthy", "error"}
    PROVE  /\ Attempted(r, outcome, NoText) \in Attempt
           /\ AttemptSound(r, Attempted(r, outcome, NoText))
           /\ Attempted(r, outcome, NoText).outcome \notin Answering
           /\ Attempted(r, outcome, NoText).text = NoText
BY AtAModel DEF Attempted, Attempt, AttemptSound, Content, Answering

LEMMA SkipInv ==
    ASSUME IInv, NEW r \in Requests, Skip(r)
    PROVE  IInv' /\ Heard' = Heard
<1> DEFINE a == Attempted(r, "skipped_unhealthy", NoText)
<1>1. TypeOK /\ pc[r] \in {"walking", "calling"}
  BY DEF IInv, Skip
<1>2. a \in Attempt /\ AttemptSound(r, a) /\ a.outcome \notin Answering /\ a.text = NoText
  BY <1>1, EmptyAttempt
<1>3. GoOn(r, a, FALSE) /\ UNCHANGED <<taskVars, cache, question, cacheable, charge, answerVars>>
  BY DEF Skip
<1> HIDE DEF a
<1>4. IInv' /\ Heard' = Heard \cup ({a.text} \ {NoText})
  BY <1>1, <1>2, <1>3, WalkInv
<1>5. QED
  BY <1>2, <1>4

LEMMA FailedInv ==
    ASSUME IInv, NEW r \in Requests, Failed(r)
    PROVE  IInv' /\ Heard' = Heard
<1> DEFINE a == Attempted(r, "error", NoText)
<1>1. TypeOK /\ pc[r] \in {"walking", "calling"}
  BY DEF IInv, Failed
<1>2. a \in Attempt /\ AttemptSound(r, a) /\ a.outcome \notin Answering /\ a.text = NoText
  BY <1>1, EmptyAttempt
<1>3. /\ Return(r, a) \/ \E gone \in BOOLEAN : GoOn(r, a, gone)
      /\ UNCHANGED <<taskVars, cache, question, cacheable, charge, answerVars>>
  BY DEF Failed
<1> HIDE DEF a
<1>4. IInv' /\ Heard' = Heard \cup ({a.text} \ {NoText})
  BY <1>1, <1>2, <1>3, WalkInv
<1>5. QED
  BY <1>2, <1>4

\* An entry found under the key of this question and model was said to it.
LEMMA HitInv ==
    ASSUME IInv, NEW r \in Requests, Hit(r)
    PROVE  IInv' /\ Heard' = Heard
<1> DEFINE k == KeyFor(r, Model(r))
           a == Attempted(r, "cache_hit", cache[k])
<1>1. TypeOK /\ pc[r] \in {"walking", "calling"} /\ cache[k] # NoText
  BY DEF IInv, Hit
<1>2. /\ question[r] \in Question /\ Model(r) \in Models
      /\ Len(trace[r]) + 1 \in DOMAIN question[r].chain
  BY <1>1, AtAModel
<1>3. k \in Key
  BY <1>2 DEF KeyFor, Key, Question
<1>4. /\ cache[k] \in Text /\ cache[k].by = Model(r)
      /\ cache[k].on = <<question[r].prompt, question[r].input>>
      /\ Valid(cache[k], question[r].schema)
      /\ cache[k] \in Heard
  BY <1>1, <1>3 DEF IInv, CacheMeansItsKey, CacheHeard, KeyFor, Heard
<1>5. SaidTo(cache[k], question[r])
  BY <1>2, <1>4 DEF SaidTo, Model
<1>6. a \in Attempt /\ AttemptSound(r, a) /\ a.text \in Heard
  BY <1>1, <1>2, <1>4, <1>5 DEF Attempted, Attempt, AttemptSound, Content, Answering, Usable
<1>7. Return(r, a) /\ UNCHANGED <<taskVars, cache, question, cacheable, charge, answerVars>>
  BY DEF Hit
<1> HIDE DEF a
<1>8. IInv' /\ Heard' = Heard \cup ({a.text} \ {NoText})
  BY <1>1, <1>6, <1>7, WalkInv
<1>9. QED
  BY <1>6, <1>8

Said(r, fits) ==
    [by |-> Model(r), on |-> <<question[r].prompt, question[r].input>>, fits |-> fits]

LEMMA AnsweredInv ==
    ASSUME IInv, NEW r \in Requests, NEW fits \in SUBSET Schemas, Answered(r, fits)
    PROVE  /\ IInv'
           /\ Heard' = Heard \cup {Said(r, fits)}
           /\ Said(r, fits) \in Text /\ SaidTo(Said(r, fits), question[r])
<1> DEFINE text == Said(r, fits)
<1>1. TypeOK /\ pc[r] \in {"walking", "calling"}
  BY DEF IInv, Answered
<1>2. /\ question[r] \in Question /\ Model(r) \in Models
      /\ Len(trace[r]) + 1 \in DOMAIN question[r].chain
  BY <1>1, AtAModel
<1>3. text \in Text /\ text.by = Model(r)
  BY <1>2 DEF Said, Text, Question
<1>4. SaidTo(text, question[r])
  BY <1>2 DEF Said, SaidTo, Model
<1>5. text # NoText
  BY <1>3, PipelineAssumption
<1>6. UNCHANGED <<taskVars, cache, question, cacheable, charge, answerVars>>
  BY DEF Answered
<1>7. \/ Usable(r, text) /\ Return(r, Attempted(r, "success", text))
      \/ /\ ~Usable(r, text)
         /\ \E gone \in BOOLEAN : GoOn(r, Attempted(r, "schema_invalid", text), gone)
  BY DEF Answered, Said
<1> HIDE DEF text
<1>8. CASE Usable(r, text)
  <2> DEFINE a == Attempted(r, "success", text)
  <2>1. a \in Attempt /\ AttemptSound(r, a) /\ a.text = text
    BY <1>2, <1>3, <1>4, <1>5, <1>8 DEF Attempted, Attempt, AttemptSound, Content, Answering
  <2>2. Return(r, a)
    BY <1>7, <1>8
  <2> HIDE DEF a
  <2>3. IInv' /\ Heard' = Heard \cup ({a.text} \ {NoText})
    BY <1>1, <1>6, <2>1, <2>2, WalkInv
  <2>4. QED
    BY <1>3, <1>4, <1>5, <2>1, <2>3 DEF text
<1>9. CASE ~Usable(r, text)
  <2> DEFINE a == Attempted(r, "schema_invalid", text)
  <2>1. /\ a \in Attempt /\ AttemptSound(r, a) /\ a.text = text
        /\ a.outcome \notin Answering
    BY <1>2, <1>3, <1>4, <1>5, <1>9 DEF Attempted, Attempt, AttemptSound, Content, Answering
  <2>2. \E gone \in BOOLEAN : GoOn(r, a, gone)
    BY <1>7, <1>9
  <2> HIDE DEF a
  <2>3. IInv' /\ Heard' = Heard \cup ({a.text} \ {NoText})
    BY <1>1, <1>6, <2>1, <2>2, WalkInv
  <2>4. QED
    BY <1>3, <1>4, <1>5, <2>1, <2>3 DEF text
<1>10. QED
  BY <1>8, <1>9

\* Where a returned walk is: at its last attempt.
LEMMA AtLast ==
    ASSUME IInv, NEW r \in Requests, Returned(r)
    PROVE  /\ trace[r] \in Seq(Attempt) /\ Len(trace[r]) \in DOMAIN trace[r]
           /\ Last(r) \in Attempt /\ AttemptSound(r, Last(r))
           /\ result[r] \in Result /\ result[r].text = Last(r).text
           /\ result[r].success <=> Last(r).outcome \in Content
           /\ Last(r).outcome \in Content =>
                  /\ result[r].model = Last(r).model /\ result[r].model \in Models
                  /\ result[r].text \in Text /\ result[r].text \in Heard
           /\ question[r] \in Question
<1>1. TypeOK /\ RequestInv(r)
  BY DEF IInv
<1>2. trace[r] \in Seq(Attempt) /\ trace[r] # <<>> /\ question[r] \in Question
  BY <1>1 DEF TypeOK, RequestInv, ResultSound, Returned, Began
<1>3. Len(trace[r]) \in DOMAIN trace[r]
  BY <1>2
<1>4. Last(r) \in Attempt
  BY <1>2, <1>3 DEF Last
<1>5. AttemptSound(r, Last(r))
  BY <1>1, <1>3 DEF RequestInv, TraceSound, Last
<1>6. /\ result[r] \in Result /\ result[r].text = Last(r).text
      /\ result[r].success <=> Last(r).outcome \in Content
      /\ Last(r).outcome \in Content => result[r].model = Last(r).model
  BY <1>1, <1>5 DEF RequestInv, ResultSound, AttemptSound
<1>7. Last(r).outcome \in Content => result[r].model \in Models /\ result[r].text \in Text
  BY <1>4, <1>5, <1>6 DEF Attempt, AttemptSound
<1>8. Last(r).outcome \in Content => result[r].text \in Heard
  BY <1>3, <1>6, <1>7 DEF Heard, Last
<1>9. QED
  BY <1>2, <1>3, <1>4, <1>5, <1>6, <1>7, <1>8

LEMMA ConsumedNat ==
    ASSUME NEW tr \in Seq(Attempt) PROVE Consumed(tr) \in Nat
<1>1. IsFiniteSet(1..Len(tr)) /\ DOMAIN tr = 1..Len(tr)
  BY FS_Interval
<1>2. IsFiniteSet({i \in DOMAIN tr : tr[i].outcome \in {"success", "schema_invalid"}})
  BY <1>1, FS_Subset
<1>3. QED
  BY <1>2, FS_CardinalityType DEF Consumed

LEMMA SettleInv ==
    ASSUME IInv, NEW r \in Requests, Settle(r)
    PROVE  IInv' /\ Heard' = Heard
<1>1. TypeOK /\ RequestInv(r) /\ pc[r] = "walked" /\ Returned(r)
  BY DEF IInv, Settle, Returned
<1>2. Consumed(trace[r]) \in Nat
  BY <1>1, ConsumedNat DEF TypeOK
<1>3. /\ charge' = [charge EXCEPT ![r] = IF question[r].test THEN 0 ELSE Consumed(trace[r])]
      /\ pc' = [pc EXCEPT ![r] = "settled"]
      /\ UNCHANGED <<live, edits, cache, question, cacheable, trace, result, run, reply, degraded>>
  BY DEF Settle, taskVars, answerVars
<1>4. TypeOK'
  BY <1>1, <1>2, <1>3 DEF TypeOK, Began
<1>5. RequestInv(r)'
  <2>1. pc'[r] = "settled" /\ charge'[r] = IF question[r].test THEN 0 ELSE Consumed(trace[r])
    BY <1>1, <1>3 DEF TypeOK
  <2>2. TraceSound(r)' /\ ResultSound(r)'
    BY <1>1, <1>3, <2>1 DEF RequestInv, TraceSound, AttemptSound, Usable, ResultSound, Returned, Last
  <2>3. BooksSound(r)' /\ AnswerSound(r)'
    BY <1>1, <1>3, <2>1 DEF RequestInv, BooksSound, Began, AnswerSound
  <2>4. QED
    BY <2>2, <2>3 DEF RequestInv
<1>6. QED
  BY <1>1, <1>3, <1>4, <1>5, StepOfOne DEF TypeOK

LEMMA EditInv ==
    ASSUME IInv, Edit
    PROVE  IInv' /\ Heard' = Heard
<1>1. TypeOK'
  BY PipelineAssumption DEF IInv, Edit, TypeOK, answerVars, Began
<1>2. ASSUME NEW s \in Requests PROVE RequestInv(s)'
  <2>1. RequestInv(s)
    BY DEF IInv
  <2>2. QED
    BY <2>1, OthersKept DEF Edit, answerVars
<1>3. CacheMeansItsKey' /\ CacheHeard' /\ Heard' = Heard
  BY CacheKept DEF IInv, Edit, Heard
<1>4. QED
  BY <1>1, <1>2, <1>3 DEF IInv

LEMMA ServeCachedInv ==
    ASSUME IInv, NEW r \in Requests, ServeCached(r)
    PROVE  /\ IInv' /\ Heard' = Heard
           /\ Last(r).outcome = "cache_hit" /\ reply'[r] = Last(r).text
<1>1. TypeOK /\ RequestInv(r) /\ pc[r] = "settled" /\ Returned(r)
      /\ Last(r).outcome = "cache_hit"
  BY DEF IInv, ServeCached, Returned, CacheHit, Last
<1> DEFINE row == [model |-> result[r].model, success |-> TRUE,
                   fallbackUsed |-> FALSE, cacheHit |-> TRUE, cost |-> 0]
<1>2. /\ result[r].text = Last(r).text /\ result[r].text \in Text
      /\ result[r].model = Last(r).model /\ result[r].model \in Models
  BY <1>1, AtLast DEF Content
<1>3. row \in RunRow
  BY <1>2 DEF RunRow
<1>4. /\ run' = [run EXCEPT ![r] = row]
      /\ reply' = [reply EXCEPT ![r] = result[r].text]
      /\ degraded' = [degraded EXCEPT ![r] = result[r].model # Head(question[r].chain)]
      /\ pc' = [pc EXCEPT ![r] = "done"]
      /\ UNCHANGED <<live, edits, cache, question, cacheable, trace, result, charge>>
  BY DEF ServeCached, taskVars
<1>5. TypeOK'
  BY <1>1, <1>2, <1>3, <1>4 DEF TypeOK, Began
<1>6. RequestInv(r)'
  <2>1. pc'[r] = "done" /\ run'[r] = row /\ reply'[r] = Last(r).text
    BY <1>1, <1>2, <1>4 DEF TypeOK
  <2>2. TraceSound(r)' /\ ResultSound(r)'
    BY <1>1, <1>4, <2>1 DEF RequestInv, TraceSound, AttemptSound, Usable, ResultSound, Returned, Last
  <2>3. BooksSound(r)'
    BY <1>1, <1>4, <2>1 DEF RequestInv, BooksSound, Began
  <2>4. AnswerSound(r)'
    BY <1>1, <1>2, <1>3, <1>4, <2>1 DEF AnswerSound, CacheHit, Last, Content, Answering
  <2>5. QED
    BY <2>2, <2>3, <2>4 DEF RequestInv
<1>7. IInv' /\ Heard' = Heard
  BY <1>1, <1>4, <1>5, <1>6, StepOfOne DEF TypeOK
<1>8. QED
  BY <1>1, <1>2, <1>4, <1>7 DEF TypeOK

LEMMA FillInv ==
    ASSUME IInv, NEW r \in Requests, Fill(r)
    PROVE  IInv' /\ Heard' = Heard
<1>1. TypeOK /\ RequestInv(r) /\ pc[r] = "settled" /\ Returned(r) /\ ~CacheHit(r)
  BY DEF IInv, Fill, Returned
<1>2. /\ pc' = [pc EXCEPT ![r] = "filled"]
      /\ UNCHANGED <<live, edits, question, cacheable, trace, result, charge, run, reply, degraded>>
  BY DEF Fill, taskVars, answerVars
<1>3. Heard' = Heard
  BY <1>2 DEF Heard
<1>4. /\ cache' \in [Key -> Text \cup {NoText}]
      /\ CacheMeansItsKey' /\ CacheHeard'
  <2>1. CASE UNCHANGED cache
    BY <1>1, <1>2, <2>1, CacheKept DEF IInv, TypeOK
  <2>2. CASE /\ result[r].success /\ OutputValid(r)
             /\ cache' = [cache EXCEPT ![KeyFor(r, result[r].model)] = result[r].text]
    <3> DEFINE k == KeyFor(r, result[r].model)
    <3>1. /\ result[r].text \in Text /\ result[r].text \in Heard
          /\ result[r].model \in Models /\ result[r].model = Last(r).model
          /\ result[r].text = Last(r).text /\ AttemptSound(r, Last(r))
          /\ question[r] \in Question
      BY <1>1, <2>2, AtLast
    <3>2. /\ result[r].text.by = result[r].model
          /\ result[r].text.on = <<question[r].prompt, question[r].input>>
      BY <3>1, PipelineAssumption DEF AttemptSound, SaidTo
    <3>3. k \in Key
      BY <3>1 DEF KeyFor, Key, Question
    <3>4. /\ result[r].text.by = k.model /\ result[r].text.on = <<k.prompt, k.input>>
          /\ Valid(result[r].text, k.schema)
      BY <2>2, <3>2 DEF KeyFor, OutputValid
    <3> HIDE DEF k
    <3>5. cache' = [cache EXCEPT ![k] = result[r].text]
      BY <2>2 DEF k
    <3>6. cache' \in [Key -> Text \cup {NoText}]
      BY <1>1, <3>1, <3>5 DEF TypeOK
    <3>7. \A j \in Key : cache'[j] = IF j = k THEN result[r].text ELSE cache[j]
      BY <1>1, <3>5 DEF TypeOK
    <3>8. CacheMeansItsKey'
      BY <3>4, <3>7 DEF IInv, CacheMeansItsKey
    <3>9. CacheHeard'
      BY <1>3, <3>1, <3>7 DEF IInv, CacheHeard
    <3>10. QED
      BY <3>6, <3>8, <3>9
  <2>3. QED
    BY <2>1, <2>2 DEF Fill
<1>5. TypeOK'
  BY <1>1, <1>2, <1>4 DEF TypeOK, Began
<1>6. RequestInv(r)'
  <2>1. pc'[r] = "filled"
    BY <1>1, <1>2 DEF TypeOK
  <2>2. TraceSound(r)' /\ ResultSound(r)'
    BY <1>1, <1>2, <2>1 DEF RequestInv, TraceSound, AttemptSound, Usable, ResultSound, Returned, Last
  <2>3. BooksSound(r)' /\ AnswerSound(r)'
    BY <1>1, <1>2, <2>1 DEF RequestInv, BooksSound, Began, CacheHit, AnswerSound
  <2>4. QED
    BY <2>2, <2>3 DEF RequestInv
<1>7. ASSUME NEW s \in Requests, s # r PROVE RequestInv(s)'
  <2>1. pc'[s] = pc[s] /\ RequestInv(s)
    BY <1>1, <1>2, <1>7 DEF TypeOK, IInv
  <2>2. QED
    BY <1>2, <2>1, OthersKept
<1>8. QED
  BY <1>3, <1>4, <1>5, <1>6, <1>7 DEF IInv

LEMMA RecordInv ==
    ASSUME IInv, NEW r \in Requests, Record(r)
    PROVE  /\ IInv' /\ Heard' = Heard
           /\ reply'[r] = IF Last(r).outcome \in Answering THEN Last(r).text ELSE Failure
<1>1. TypeOK /\ RequestInv(r) /\ pc[r] = "filled" /\ Returned(r) /\ ~CacheHit(r)
  BY DEF IInv, Record, Returned, RequestInv, BooksSound
<1> DEFINE row == [model |-> result[r].model, success |-> result[r].success,
                   fallbackUsed |-> result[r].fallbackUsed, cacheHit |-> FALSE,
                   cost |-> IF result[r].success THEN 1 ELSE 0]
<1>2. /\ result[r] \in Result /\ result[r].text = Last(r).text
      /\ result[r].success <=> Last(r).outcome \in Content
      /\ Last(r).outcome \in Content => result[r].model = Last(r).model /\ Last(r).text \in Text
      /\ AttemptSound(r, Last(r)) /\ Last(r) \in Attempt
  BY <1>1, AtLast
<1>3. row \in RunRow
  BY <1>2 DEF RunRow, Result
<1>4. Served(r) <=> Last(r).outcome \in Answering
  BY <1>2 DEF Served, OutputValid, AttemptSound, Usable, Content, Answering
<1>5. /\ run' = [run EXCEPT ![r] = row]
      /\ reply' = [reply EXCEPT ![r] = IF Served(r) THEN result[r].text ELSE Failure]
      /\ degraded' = [degraded EXCEPT ![r] = result[r].degraded]
      /\ pc' = [pc EXCEPT ![r] = "done"]
      /\ UNCHANGED <<live, edits, cache, question, cacheable, trace, result, charge>>
  BY DEF Record, taskVars
<1>6. reply'[r] = IF Last(r).outcome \in Answering THEN Last(r).text ELSE Failure
  BY <1>1, <1>2, <1>4, <1>5 DEF TypeOK
<1>7. TypeOK'
  <2>1. run' \in [Requests -> RunRow \cup {NoRun}]
    BY <1>1, <1>3, <1>5 DEF TypeOK
  <2>2. reply' \in [Requests -> Text \cup {Failure, NoReply}]
    BY <1>1, <1>2, <1>4, <1>5 DEF TypeOK, Content, Answering
  <2>3. degraded' \in [Requests -> BOOLEAN]
    BY <1>1, <1>2, <1>5 DEF TypeOK, Result
  <2>4. QED
    BY <1>1, <1>5, <2>1, <2>2, <2>3 DEF TypeOK, Began
<1>8. RequestInv(r)'
  <2>1. pc'[r] = "done" /\ run'[r] = row
    BY <1>1, <1>5 DEF TypeOK
  <2>2. TraceSound(r)' /\ ResultSound(r)'
    BY <1>1, <1>5, <2>1 DEF RequestInv, TraceSound, AttemptSound, Usable, ResultSound, Returned, Last
  <2>3. BooksSound(r)'
    BY <1>1, <1>5, <2>1 DEF RequestInv, BooksSound, Began
  <2>4. AnswerSound(r)'
    <3>1. Last(r)' = Last(r) /\ CacheHit(r)' = CacheHit(r)
      BY <1>5 DEF Last, CacheHit
    <3>2. Last(r).outcome # "cache_hit"
      BY <1>1 DEF CacheHit, Last
    <3>3. row.cost = IF Last(r).outcome \in {"success", "schema_invalid"} THEN 1 ELSE 0
      BY <1>2, <3>2 DEF Content
    <3>4. QED
      BY <1>1, <1>2, <1>3, <1>6, <2>1, <3>1, <3>3 DEF AnswerSound
  <2>5. QED
    BY <2>2, <2>3, <2>4 DEF RequestInv
<1>9. IInv' /\ Heard' = Heard
  BY <1>1, <1>5, <1>7, <1>8, StepOfOne DEF TypeOK
<1>10. QED
  BY <1>6, <1>9

-----------------------------------------------------------------------------
LEMMA NextInv == IInv /\ [Next]_vars => IInv'
<1> SUFFICES ASSUME IInv, [Next]_vars PROVE IInv'
  OBVIOUS
<1>1. ASSUME NEW r \in Requests, Step(r) PROVE IInv'
  <2>1. CASE Refuse(r)
    BY <2>1, RefuseInv
  <2>2. CASE Begin(r)
    BY <2>2, BeginInv
  <2>3. CASE Skip(r)
    BY <2>3, SkipInv
  <2>4. CASE Hit(r)
    BY <2>4, HitInv
  <2>5. CASE Call(r)
    BY <2>5, CallInv
  <2>6. ASSUME NEW fits \in SUBSET Schemas, Answered(r, fits) PROVE IInv'
    BY <2>6, AnsweredInv
  <2>7. CASE Failed(r)
    BY <2>7, FailedInv
  <2>8. CASE Settle(r)
    BY <2>8, SettleInv
  <2>9. CASE ServeCached(r)
    BY <2>9, ServeCachedInv
  <2>10. CASE Fill(r)
    BY <2>10, FillInv
  <2>11. CASE Record(r)
    BY <2>11, RecordInv
  <2>12. QED
    BY <1>1, <2>1, <2>2, <2>3, <2>4, <2>5, <2>6, <2>7, <2>8, <2>9, <2>10, <2>11 DEF Step
<1>2. CASE Edit
  BY <1>2, EditInv
<1>3. CASE UNCHANGED vars
  <2>1. TypeOK'
    BY <1>3 DEF IInv, vars, taskVars, answerVars, TypeOK, Began
  <2>2. ASSUME NEW s \in Requests PROVE RequestInv(s)'
    <3>1. RequestInv(s)
      BY DEF IInv
    <3>2. QED
      BY <1>3, <3>1, OthersKept DEF vars, answerVars
  <2>3. CacheMeansItsKey' /\ CacheHeard'
    BY <1>3, CacheKept DEF IInv, vars
  <2>4. QED
    BY <2>1, <2>2, <2>3 DEF IInv
<1>4. QED
  BY <1>1, <1>2, <1>3 DEF Next

LEMMA Invariance == Spec => []IInv
BY InitInv, NextInv, PTL DEF Spec

\* The pipeline's state is always of the declared form, and a walk is at a
\* model of its chain (executePrediction's variables, predict_core.go:284-484).
THEOREM TypeCorrect == Spec => []TypeOK
<1>1. IInv => TypeOK
  BY DEF IInv
<1>2. QED
  BY <1>1, Invariance, PTL

\* Whatever predictions overlap and however the task is edited, an entry of the
\* cache is an answer of its key's model to its key's prompt and inputs, valid
\* under its key's schema (cache.go:13-25).
THEOREM CacheKeepsItsKeys == Spec => []CacheMeansItsKey
<1>1. IInv => CacheMeansItsKey
  BY DEF IInv
<1>2. QED
  BY <1>1, Invariance, PTL

LEMMA WalkConsumption ==
    ASSUME IInv, NEW r \in Requests, Returned(r)
    PROVE  Consumed(trace[r]) =
               Cardinality(Discarded(r)) +
               (IF Last(r).outcome \in {"success", "schema_invalid"} THEN 1 ELSE 0)
<1> DEFINE n == Len(trace[r])
           Used == {i \in DOMAIN trace[r] : trace[r][i].outcome \in {"success", "schema_invalid"}}
<1>1. trace[r] \in Seq(Attempt) /\ n \in DOMAIN trace[r] /\ TraceSound(r)
  BY AtLast DEF IInv, RequestInv
<1>2. n \in Nat /\ DOMAIN trace[r] = 1..n /\ n >= 1
  BY <1>1
<1>3. \A i \in 1..(n - 1) :
         trace[r][i].outcome \in {"success", "schema_invalid"}
             <=> trace[r][i].outcome = "schema_invalid"
  BY <1>1, <1>2 DEF TraceSound, Answering
<1>4. IsFiniteSet(Discarded(r)) /\ Cardinality(Discarded(r)) \in Nat /\ n \notin Discarded(r)
  <2>1. IsFiniteSet(1..(n - 1))
    <3>1. n - 1 \in Int
      BY <1>2
    <3>2. QED
      BY <3>1, FS_Interval
  <2>2. Discarded(r) \subseteq 1..(n - 1) /\ n \notin 1..(n - 1)
    BY <1>2 DEF Discarded
  <2>3. QED
    BY <2>1, <2>2, FS_Subset, FS_CardinalityType
<1>5. CASE Last(r).outcome \in {"success", "schema_invalid"}
  <2>1. Used = Discarded(r) \cup {n}
    BY <1>2, <1>3, <1>5 DEF Discarded, Last
  <2>2. Cardinality(Discarded(r) \cup {n}) = Cardinality(Discarded(r)) + 1
    BY <1>4, FS_AddElement
  <2>3. QED
    BY <1>5, <2>1, <2>2 DEF Consumed
<1>6. CASE Last(r).outcome \notin {"success", "schema_invalid"}
  <2>1. Used = Discarded(r)
    BY <1>2, <1>3, <1>6 DEF Discarded, Last
  <2>2. Consumed(trace[r]) = Cardinality(Discarded(r))
    BY <2>1, Zenon DEF Consumed
  <2>3. QED
    BY <1>4, <1>6, <2>2
<1>7. QED
  BY <1>5, <1>6

\* The rate limiter's charge and the run row's cost differ by exactly the
\* answers a walk discarded for the schema, cache hit or not
\* (predict_core.go:377-388, 459).
THEOREM AccountsAlwaysAgree == Spec => []AccountsAgree
<1>1. IInv => AccountsAgree
  <2> SUFFICES ASSUME IInv, NEW r \in Requests
               PROVE  /\ pc[r] \in {"idle", "refused"} => charge[r] = 0
                      /\ pc[r] = "done" /\ ~question[r].test
                             => charge[r] = run[r].cost + Cardinality(Discarded(r))
    BY DEF AccountsAgree
  <2>1. RequestInv(r)
    BY DEF IInv
  <2>2. pc[r] \in {"idle", "refused"} => charge[r] = 0
    BY <2>1 DEF RequestInv, BooksSound, Began
  <2>3. ASSUME pc[r] = "done", ~question[r].test
        PROVE  charge[r] = run[r].cost + Cardinality(Discarded(r))
    <3>1. /\ charge[r] = Consumed(trace[r])
          /\ run[r].cost = IF Last(r).outcome \in {"success", "schema_invalid"} THEN 1 ELSE 0
      BY <2>1, <2>3 DEF RequestInv, BooksSound, AnswerSound
    <3>2. Cardinality(Discarded(r)) \in Nat
      <4>1. trace[r] \in Seq(Attempt)
        BY DEF IInv, TypeOK
      <4>2. IsFiniteSet(1..(Len(trace[r]) - 1))
        BY <4>1, FS_Interval
      <4>3. IsFiniteSet(Discarded(r))
        BY <4>2, FS_Subset DEF Discarded
      <4>4. QED
        BY <4>3, FS_CardinalityType
    <3>3. QED
      BY <2>3, <3>1, <3>2, WalkConsumption DEF Returned
  <2>4. QED
    BY <2>2, <2>3
<1>2. QED
  BY <1>1, Invariance, PTL

\* Reply, run row and trace of a finished prediction agree, and a Predict gets a
\* result exactly when its walk ended in a usable answer
\* (predict_core.go:166-174, 404-414).
THEOREM RepliesAlwaysMatch == Spec => []RepliesMatchTraces
<1>1. IInv => RepliesMatchTraces
  <2> SUFFICES ASSUME IInv, NEW r \in Requests, pc[r] = "done"
               PROVE  /\ run[r].cacheHit <=> Last(r).outcome = "cache_hit"
                      /\ reply[r] # Failure <=> Last(r).outcome \in {"success", "cache_hit"}
                      /\ reply[r] # Failure => reply[r] = Last(r).text /\ run[r].model = Last(r).model
                      /\ (run[r].success /\ reply[r] = Failure) <=> Last(r).outcome = "schema_invalid"
    BY DEF RepliesMatchTraces
  <2>1. AnswerSound(r)
    BY DEF IInv, RequestInv
  <2>2. Last(r).outcome \in Answering => Last(r).text # Failure
    BY AtLast, PipelineAssumption DEF Returned, Answering, Content
  <2>3. QED
    BY <2>1, <2>2 DEF AnswerSound, CacheHit, Last, Answering, Content
<1>2. QED
  BY <1>1, Invariance, PTL

-----------------------------------------------------------------------------
LEMMA InitRefines == Init => Oracle!Init
<1> SUFFICES ASSUME Init PROVE Oracle!Init
  OBVIOUS
<1>1. Heard = {}
  BY DEF Init, Heard
<1>2. QED
  BY <1>1 DEF Init, Oracle!Init

LEMMA StepRefines ==
    IInv /\ [Next]_vars => [Oracle!Next]_<<live, question, Heard, reply>>
<1> SUFFICES ASSUME IInv, [Next]_vars
             PROVE  Oracle!Next \/ UNCHANGED <<live, question, Heard, reply>>
  OBVIOUS
<1>1. TypeOK /\ \A r \in Requests : RequestInv(r)
  BY DEF IInv
<1>2. ASSUME NEW r \in Requests, Step(r)
      PROVE  Oracle!Next \/ UNCHANGED <<live, question, Heard, reply>>
  <2>1. CASE Refuse(r)
    BY <2>1, RefuseInv DEF Refuse, taskVars, answerVars
  <2>2. CASE Begin(r)
    <3>1. question[r] = NoQuestion
      BY <1>1, <2>2 DEF Begin, TypeOK, Began
    <3>2. Heard' = Heard
      BY <2>2, BeginInv
    <3>3. Oracle!Ask(r)
      BY <2>2, <3>1, <3>2 DEF Begin, Oracle!Ask, Questions, Oracle!Questions, taskVars, answerVars
    <3>4. QED
      BY <3>3 DEF Oracle!Next
  <2>3. CASE Skip(r)
    BY <2>3, SkipInv DEF Skip, taskVars, answerVars
  <2>4. CASE Hit(r)
    BY <2>4, HitInv DEF Hit, taskVars, answerVars
  <2>5. CASE Call(r)
    BY <2>5, CallInv DEF Call, taskVars, answerVars
  <2>6. ASSUME NEW fits \in SUBSET Schemas, Answered(r, fits)
        PROVE  Oracle!Next
    <3>1. /\ Heard' = Heard \cup {Said(r, fits)}
          /\ Said(r, fits) \in Text /\ SaidTo(Said(r, fits), question[r])
      BY <2>6, AnsweredInv
    <3>2. question[r] # NoQuestion
      BY <1>1, <2>6 DEF Answered, TypeOK, Began
    <3>3. UNCHANGED <<live, question, reply>>
      BY <2>6 DEF Answered, taskVars, answerVars
    <3>4. Oracle!Say(r)
      BY <3>1, <3>2, <3>3 DEF Oracle!Say, Text, Oracle!Text, SaidTo, Oracle!SaidTo
    <3>5. QED
      BY <3>4 DEF Oracle!Next
  <2>7. CASE Failed(r)
    BY <2>7, FailedInv DEF Failed, taskVars, answerVars
  <2>8. CASE Settle(r)
    BY <2>8, SettleInv DEF Settle, taskVars, answerVars
  <2>9. ASSUME pc[r] \in {"settled", "filled"}, Heard' = Heard, UNCHANGED <<live, question>>,
               reply' = [reply EXCEPT ![r] =
                            IF Last(r).outcome \in Answering THEN Last(r).text ELSE Failure]
        PROVE  Oracle!Next
    <3>1. question[r] # NoQuestion /\ reply[r] = NoReply /\ Returned(r)
      BY <1>1, <2>9 DEF TypeOK, Began, RequestInv, BooksSound, Returned
    <3>2. CASE Last(r).outcome \in Answering
      <4>1. /\ Last(r).text \in Heard /\ SaidTo(Last(r).text, question[r])
            /\ question[r].test \/ Valid(Last(r).text, question[r].schema)
        BY <3>1, <3>2, AtLast DEF AttemptSound, Answering, Content, Usable
      <4>2. Oracle!Reply(r, Last(r).text)
        BY <2>9, <3>1, <3>2, <4>1 
           DEF Oracle!Reply, SaidTo, Oracle!SaidTo, Valid, Oracle!Valid
      <4>3. QED
        BY <4>1, <4>2 DEF Oracle!Next
    <3>3. CASE Last(r).outcome \notin Answering
      <4>1. Oracle!Fail(r)
        BY <2>9, <3>1, <3>3 DEF Oracle!Fail
      <4>2. QED
        BY <4>1 DEF Oracle!Next
    <3>4. QED
      BY <3>2, <3>3
  <2>10. CASE ServeCached(r)
    <3>1. Heard' = Heard /\ Last(r).outcome = "cache_hit" /\ reply'[r] = Last(r).text
      BY <2>10, ServeCachedInv
    <3>2. reply' = [reply EXCEPT ![r] = Last(r).text]
      BY <1>1, <2>10, <3>1 DEF ServeCached, TypeOK
    <3>3. QED
      BY <2>9, <2>10, <3>1, <3>2 DEF ServeCached, taskVars, Answering
  <2>11. CASE Fill(r)
    BY <2>11, FillInv DEF Fill, taskVars, answerVars
  <2>12. CASE Record(r)
    <3> DEFINE answer == IF Last(r).outcome \in Answering THEN Last(r).text ELSE Failure
    <3>1. Heard' = Heard /\ reply'[r] = answer
      BY <2>12, RecordInv
    <3>2. reply' = [reply EXCEPT ![r] = answer]
      BY <1>1, <2>12, <3>1 DEF Record, TypeOK
    <3>3. pc[r] = "filled" /\ UNCHANGED <<live, question>>
      BY <2>12 DEF Record, taskVars
    <3>4. QED
      BY <2>9, <3>1, <3>2, <3>3
  <2>13. QED
    BY <1>2, <2>1, <2>2, <2>3, <2>4, <2>5, <2>6, <2>7, <2>8, <2>10, <2>11, <2>12 DEF Step
<1>3. CASE Edit
  <2>1. live' \in Configs /\ UNCHANGED <<question, reply>> /\ Heard' = Heard
    BY <1>3, EditInv DEF Edit, answerVars
  <2>2. QED
    BY <2>1 DEF Oracle!Next, Oracle!Configure
<1>4. CASE UNCHANGED vars
  BY <1>4 DEF vars, taskVars, answerVars, Heard
<1>5. QED
  BY <1>2, <1>3, <1>4 DEF Next

\* The prediction pipeline implements the oracle: with the cache, the fallback
\* chain and concurrent edits of the task, a caller gets only what a model of
\* its chain said to its own question, valid under the schema it began with,
\* or a failure (executePrediction and Predict as a whole).
THEOREM PipelineImplementsOracle == Spec => KeepsOracle
BY Invariance, InitRefines, StepRefines, PTL DEF Spec, KeepsOracle, Oracle!Spec
=============================================================================
