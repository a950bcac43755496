--------------------------- MODULE WorkspaceProofs ---------------------------
(***************************************************************************)
(* Proofs about the two workspaces of a user, CompareChat and TaskStudio.  *)
(*                                                                         *)
(* The chat, for any models, sessions and turns: while no conversation is  *)
(* changed under a running turn, one turn at most is under way, and each   *)
(* column is of pairs but for the question that waits.                     *)
(*                                                                         *)
(* The studio, for any tasks, contents and number of requests in flight: a *)
(* refetch that reads the list is either as new as the registry or         *)
(* overtaken by a request that will read it again; an open section that    *)
(* the user left alone equals the server's copy of it.                     *)
(***************************************************************************)
EXTENDS CompareChat, TaskStudio, FiniteSetTheorems, SequenceTheorems, TLAPS

(***************************************************************************)
(* Columns.  Owed: a question waits at the end of pairs.                   *)
(***************************************************************************)

Owed(col, t) == col # <<>> /\ Last(col) = User(t) /\ Pairs(Front(col))

\* The question and the answer of a turn are messages, and differ.
LEMMA MessageFacts ==
    ASSUME NEW t \in Turns
    PROVE  User(t) \in Message /\ Assistant(t) \in Message /\ User(t) # Assistant(t)
BY DEF User, Assistant, Message

\* What stands in a column is a message, of a turn.
LEMMA MessageAt ==
    ASSUME NEW c \in Column, NEW i \in DOMAIN c
    PROVE  c[i] \in Message /\ c[i].turn \in Turns /\ i \in 1..Len(c)
<1>1. c[i] \in Message /\ i \in 1..Len(c)
  BY DEF Column
<1> QED BY <1>1 DEF Message

\* Appending is undone by Front and Last.
LEMMA AppendFacts ==
    ASSUME NEW c \in Column, NEW e \in Message
    PROVE  /\ Append(c, e) \in Column /\ Len(Append(c, e)) = Len(c) + 1
           /\ Append(c, e) # <<>> /\ Last(Append(c, e)) = e /\ Front(Append(c, e)) = c
           /\ \A i \in 1..Len(c) : Append(c, e)[i] = c[i]
           /\ Append(c, e)[Len(c) + 1] = e
<1> DEFINE a == Append(c, e)
<1>1. a \in Column /\ Len(a) = Len(c) + 1 /\ Len(c) \in Nat
  BY DEF Column
<1>2. (\A i \in 1..Len(c) : a[i] = c[i]) /\ a[Len(c) + 1] = e
  BY DEF Column
<1>3. a # <<>> /\ Last(a) = e
  BY <1>1, <1>2 DEF Last
<1>4. Front(a) = SubSeq(a, 1, Len(c))
  BY <1>1 DEF Front
<1>5. SubSeq(a, 1, Len(c)) = c
  BY <1>1, <1>2 DEF Column
<1> QED BY <1>1, <1>2, <1>3, <1>4, <1>5

\* What is left of a column without its last message.
LEMMA FrontFacts ==
    ASSUME NEW c \in Column, c # <<>>
    PROVE  /\ Front(c) \in Column /\ Len(Front(c)) = Len(c) - 1 /\ Len(c) > 0
           /\ \A i \in 1..Len(Front(c)) : Front(c)[i] = c[i]
           /\ Last(c) = c[Len(c)]
<1>1. Len(c) \in Nat /\ Len(c) # 0
  BY DEF Column
<1>2. Front(c) = SubSeq(c, 1, Len(c) - 1)
  BY DEF Front
<1>3. Front(c) \in Column /\ Len(Front(c)) = Len(c) - 1
  <2>1. PICK n \in Nat : Len(c) = n + 1
    <3>1. Len(c) - 1 \in Nat /\ Len(c) = (Len(c) - 1) + 1
      BY <1>1
    <3> QED BY <3>1
  <2>2. \A i \in 1..n : c[i] \in Message
    BY <2>1 DEF Column
  <2>3. SubSeq(c, 1, n) \in Seq(Message) /\ Len(SubSeq(c, 1, n)) = IF 1 <= n THEN n - 1 + 1 ELSE 0
    BY <2>2, SubSeqProperties
  <2>4. Len(SubSeq(c, 1, n)) = n
    BY <2>3
  <2>5. Len(c) - 1 = n
    BY <2>1
  <2> QED BY <1>2, <2>3, <2>4, <2>5 DEF Column
<1>4. ASSUME NEW i \in 1..Len(Front(c)) PROVE Front(c)[i] = c[i]
  BY <1>1, <1>2, <1>3 DEF Column
<1> QED BY <1>1, <1>3, <1>4 DEF Last

\* A column of pairs, by the number of its pairs.
LEMMA PairsByCount ==
    ASSUME NEW c \in Column
    PROVE  Pairs(c) <=> \E n \in Nat : /\ Len(c) = 2 * n
                                       /\ \A i \in 1..n : \E t \in Turns :
                                            c[2*i - 1] = User(t) /\ c[2*i] = Assistant(t)
<1>1. Len(c) \in Nat
  BY DEF Column
<1>2. ASSUME Pairs(c)
      PROVE  \E n \in Nat : /\ Len(c) = 2 * n
                            /\ \A i \in 1..n : \E t \in Turns :
                                 c[2*i - 1] = User(t) /\ c[2*i] = Assistant(t)
  <2>1. Len(c) \div 2 \in Nat /\ Len(c) = 2 * (Len(c) \div 2)
    BY <1>1, <1>2 DEF Pairs
  <2> QED BY <1>2, <2>1 DEF Pairs
<1>3. ASSUME NEW n \in Nat, Len(c) = 2 * n,
             \A i \in 1..n : \E t \in Turns : c[2*i - 1] = User(t) /\ c[2*i] = Assistant(t)
      PROVE  Pairs(c)
  <2>1. Len(c) % 2 = 0 /\ Len(c) \div 2 = n
    BY <1>3
  <2> QED BY <1>3, <2>1 DEF Pairs
<1> QED BY <1>2, <1>3

\* An empty column is one of pairs.
LEMMA EmptyPairs == <<>> \in Column /\ Pairs(<<>>)
<1>1. <<>> \in Column /\ Len(<<>>) = 2 * 0
  BY DEF Column
<1> QED BY <1>1, PairsByCount

\* The answer to the question that waits makes a column of pairs.
LEMMA AnsweredPairs ==
    ASSUME NEW c \in Column, NEW t \in Turns, Owed(c, t)
    PROVE  Append(c, Assistant(t)) \in Column /\ Pairs(Append(c, Assistant(t)))
<1> DEFINE f == Front(c)
           a == Append(c, Assistant(t))
<1>1. /\ f \in Column /\ Len(f) = Len(c) - 1 /\ c[Len(c)] = User(t)
      /\ (\A i \in 1..Len(f) : f[i] = c[i]) /\ Pairs(f)
  BY FrontFacts DEF Owed
<1>2. /\ a \in Column /\ Len(a) = Len(c) + 1 /\ a[Len(c) + 1] = Assistant(t)
      /\ \A i \in 1..Len(c) : a[i] = c[i]
  BY AppendFacts, MessageFacts
<1>3. PICK n \in Nat : /\ Len(f) = 2 * n
                       /\ \A i \in 1..n : \E u \in Turns :
                            f[2*i - 1] = User(u) /\ f[2*i] = Assistant(u)
  BY <1>1, PairsByCount
<1>4. Len(c) \in Nat
  BY DEF Column
<1> HIDE DEF f, a
<1>5. Len(a) = 2 * (n + 1) /\ Len(c) = 2 * n + 1
  BY <1>1, <1>2, <1>3, <1>4
<1>6. ASSUME NEW i \in 1..(n + 1)
      PROVE  \E u \in Turns : a[2*i - 1] = User(u) /\ a[2*i] = Assistant(u)
  <2>1. CASE i = n + 1
    <3>1. 2*i - 1 = Len(c) /\ 2*i = Len(c) + 1 /\ Len(c) \in 1..Len(c)
      BY <1>4, <1>5, <2>1
    <3>2. a[2*i - 1] = User(t) /\ a[2*i] = Assistant(t)
      BY <1>1, <1>2, <3>1
    <3> QED BY <3>2
  <2>2. CASE i # n + 1
    <3>1. i \in 1..n /\ 2*i - 1 \in 1..Len(f) /\ 2*i \in 1..Len(f)
      BY <1>3, <2>2
    <3>2. 2*i - 1 \in 1..Len(c) /\ 2*i \in 1..Len(c)
      BY <1>3, <1>5, <3>1
    <3>3. a[2*i - 1] = f[2*i - 1] /\ a[2*i] = f[2*i]
      BY <1>1, <1>2, <3>1, <3>2
    <3> QED BY <1>3, <3>1, <3>3
  <2> QED BY <2>1, <2>2
<1>7. n + 1 \in Nat /\ a \in Column
  BY <1>2
<1>8. Pairs(a)
  BY <1>5, <1>6, <1>7, PairsByCount
<1> QED BY <1>7, <1>8 DEF a

\* A question put to a column of pairs waits.
LEMMA PutQuestion ==
    ASSUME NEW c \in Column, NEW t \in Turns, Pairs(c)
    PROVE  Append(c, User(t)) \in Column /\ Owed(Append(c, User(t)), t)
BY AppendFacts, MessageFacts DEF Owed

\* A column cannot owe an answer and be of pairs; pairs end with an answer.
LEMMA PairsEndAnswered ==
    ASSUME NEW c \in Column, Pairs(c), c # <<>>
    PROVE  Last(c).role = "assistant"
<1>1. PICK n \in Nat : /\ Len(c) = 2 * n
                       /\ \A i \in 1..n : \E u \in Turns :
                            c[2*i - 1] = User(u) /\ c[2*i] = Assistant(u)
  BY PairsByCount
<1>2. Len(c) > 0 /\ Last(c) = c[Len(c)]
  BY FrontFacts
<1>3. n \in 1..n
  BY <1>1, <1>2
<1>4. PICK u \in Turns : c[2*n] = Assistant(u)
  BY <1>1, <1>3
<1> QED BY <1>1, <1>2, <1>4 DEF Assistant

(***************************************************************************)
(* The columns loadSession rebuilds.                                       *)
(***************************************************************************)

\* Among finitely many turns there is an i-th for every i up to their number:
\* counting the turns before each is one to one, and so onto.
LEMMA NthIsOne ==
    ASSUME NEW A \in SUBSET Turns, NEW i \in 1..Cardinality(A)
    PROVE  Nth(A, i) \in A
<1> DEFINE Before(t) == {u \in A : u < t}
           n == Cardinality(A)
           g == [t \in A |-> Cardinality(Before(t))]
<1>1. IsFiniteSet(A) /\ A \subseteq Nat
  <2>1. IsFiniteSet(Turns)
    BY ChatAssumption, FS_Interval DEF Turns
  <2>2. Turns \subseteq Nat
    BY DEF Turns
  <2> QED BY <2>1, <2>2, FS_Subset
<1>2. n \in Nat
  BY <1>1, FS_CardinalityType
<1>3. ASSUME NEW t \in A
      PROVE  g[t] \in 0..(n - 1) /\ IsFiniteSet(Before(t)) /\ g[t] = Cardinality(Before(t))
  <2>1. Before(t) \in SUBSET A /\ t \notin Before(t)
    BY <1>1
  <2>2. IsFiniteSet(Before(t)) /\ Cardinality(Before(t)) <= n /\ Cardinality(Before(t)) # n
    <3> HIDE DEF Before
    <3> QED BY <1>1, <2>1, FS_Subset
  <2>3. Cardinality(Before(t)) \in Nat
    <3> HIDE DEF Before
    <3> QED BY <2>2, FS_CardinalityType
  <2>4. Cardinality(Before(t)) \in 0..(n - 1)
    <3> HIDE DEF Before, n
    <3> QED BY <1>2, <2>2, <2>3
  <2> QED BY <2>2, <2>4
<1>4. ASSUME NEW t \in A, NEW v \in A, t < v
      PROVE  g[t] # g[v]
  <2>1. ASSUME NEW u \in Before(t) PROVE u \in Before(v)
    <3>1. u \in A /\ u < t /\ u \in Nat /\ t \in Nat /\ v \in Nat
      BY <1>1
    <3> QED BY <1>4, <3>1
  <2>2. t \in Before(v) /\ t \notin Before(t)
    BY <1>1, <1>4
  <2>3. Cardinality(Before(t)) # Cardinality(Before(v))
    <3> HIDE DEF Before
    <3> QED BY <1>3, <2>1, <2>2, FS_Subset
  <2> QED BY <1>3, <2>3
<1>5. g \in Injection(A, 0..(n - 1))
  <2>1. g \in [A -> 0..(n - 1)]
    <3>1. \A t \in A : Cardinality(Before(t)) \in 0..(n - 1)
      BY <1>3
    <3> HIDE DEF Before, n
    <3> QED BY <3>1
  <2>2. ASSUME NEW t \in A, NEW v \in A, g[t] = g[v]
        PROVE  t = v
    <3>1. ~(t < v) /\ ~(v < t)
      BY <1>4, <2>2
    <3>2. t \in Nat /\ v \in Nat
      BY <1>1
    <3> QED BY <3>1, <3>2
  <2> HIDE DEF g, n
  <2> QED BY <2>1, <2>2 DEF Injection, IsInjective
<1>6. IsFiniteSet(0..(n - 1)) /\ Cardinality(0..(n - 1)) = n
  <2> HIDE DEF n
  <2> QED BY <1>2, FS_Interval
<1>7. g \in Surjection(A, 0..(n - 1))
  <2> HIDE DEF g
  <2>1. Cardinality(A) = Cardinality(0..(n - 1))
    BY <1>6
  <2> HIDE DEF n
  <2> QED BY <1>5, <1>6, <2>1, FS_Injection
<1>8. i - 1 \in 0..(n - 1)
  BY <1>2
<1>9. PICK t \in A : g[t] = i - 1
  <2> HIDE DEF g, n
  <2> QED BY <1>7, <1>8 DEF Surjection
<1>10. Cardinality(Before(t)) = i - 1
  BY <1>3, <1>9
<1> QED BY <1>10 DEF Nth

\* A rebuilt column is one of pairs, of turns that have a row of the model.
LEMMA RebuiltFacts ==
    ASSUME NEW rows \in [Turns -> SUBSET Models], NEW m \in Models
    PROVE  /\ Rebuilt(rows, m) \in Column /\ Pairs(Rebuilt(rows, m))
           /\ \A i \in DOMAIN Rebuilt(rows, m) :
                 LET t == Rebuilt(rows, m)[i].turn IN t \in Turns /\ m \in rows[t]
<1> DEFINE A == {t \in Turns : m \in rows[t]}
           n == Cardinality(A)
           r == Rebuilt(rows, m)
           Cell(i) == IF i % 2 = 1 THEN User(Nth(A, (i + 1) \div 2))
                                    ELSE Assistant(Nth(A, i \div 2))
<1>1. n \in Nat
  <2>1. IsFiniteSet(Turns)
    BY ChatAssumption, FS_Interval DEF Turns
  <2>2. IsFiniteSet(A)
    BY <2>1, FS_Subset
  <2> HIDE DEF A
  <2> QED BY <2>2, FS_CardinalityType
<1>2. r = [i \in 1..(2 * n) |-> Cell(i)]
  BY DEF Rebuilt
<1>3. ASSUME NEW k \in 1..n
      PROVE  Nth(A, k) \in A /\ Nth(A, k) \in Turns
  <2>1. A \in SUBSET Turns
    OBVIOUS
  <2>2. Nth(A, k) \in A
    <3> HIDE DEF A
    <3> QED BY <2>1, NthIsOne
  <2> QED BY <2>2
<1> HIDE DEF r, A
<1>4. ASSUME NEW k \in 1..n
      PROVE  /\ 2*k - 1 \in 1..(2 * n) /\ 2*k \in 1..(2 * n)
             /\ r[2*k - 1] = User(Nth(A, k)) /\ r[2*k] = Assistant(Nth(A, k))
  <2> HIDE DEF n
  <2>1. 2*k - 1 \in 1..(2 * n) /\ 2*k \in 1..(2 * n)
    BY <1>1
  <2>2. (2*k - 1) % 2 = 1 /\ ((2*k - 1) + 1) \div 2 = k
    OBVIOUS
  <2>3. (2*k) % 2 # 1 /\ (2*k) \div 2 = k
    OBVIOUS
  <2>4. r[2*k - 1] = Cell(2*k - 1) /\ r[2*k] = Cell(2*k)
    <3> HIDE DEF Cell
    <3> QED BY <1>2, <2>1
  <2> QED BY <2>1, <2>2, <2>3, <2>4
<1>5. ASSUME NEW i \in 1..(2 * n)
      PROVE  \E k \in 1..n : i = 2*k - 1 \/ i = 2*k
  <2> HIDE DEF n
  <2>1. CASE i % 2 = 1
    <3>1. (i + 1) \div 2 \in 1..n /\ i = 2 * ((i + 1) \div 2) - 1
      BY <1>1, <2>1
    <3> QED BY <3>1
  <2>2. CASE i % 2 = 0
    <3>1. i \div 2 \in 1..n /\ i = 2 * (i \div 2)
      BY <1>1, <2>2
    <3> QED BY <3>1
  <2> QED BY <2>1, <2>2
<1>6. ASSUME NEW i \in 1..(2 * n)
      PROVE  r[i] \in Message /\ r[i].turn \in A
  <2>1. PICK k \in 1..n : i = 2*k - 1 \/ i = 2*k
    BY <1>5
  <2>2. r[i] = User(Nth(A, k)) \/ r[i] = Assistant(Nth(A, k))
    BY <1>4, <2>1
  <2> QED BY <1>3, <2>2 DEF User, Assistant, Message
<1>7. r \in [1..(2 * n) -> Message] /\ DOMAIN r = 1..(2 * n)
  <2> HIDE DEF n, Cell
  <2> QED BY <1>2, <1>6
<1>8. 2 * n \in Nat
  <2> HIDE DEF n
  <2> QED BY <1>1
<1> HIDE DEF n
<1>9. r \in Column /\ Len(r) = 2 * n
  BY <1>7, <1>8 DEF Column
<1>10. Pairs(r)
  BY <1>1, <1>3, <1>4, <1>9, PairsByCount
<1>11. \A i \in DOMAIN r : r[i].turn \in Turns /\ m \in rows[r[i].turn]
  BY <1>6, <1>7 DEF A
<1> QED BY <1>9, <1>10, <1>11 DEF r

(***************************************************************************)
(* The inductive invariant.                                                *)
(*                                                                         *)
(* Begun      a turn that began has its session; only such a turn has      *)
(*            rows, and it calls only the models it was put to.            *)
(* ReadRight  what a session read by the server holds is of that session.  *)
(* Barred     the send button is locked only while some turn is sent.      *)
(*                                                                         *)
(* While the conversation was not changed under a turn:                    *)
(* OneTurn    one turn at most is under way, filed under the session       *)
(*            shown; the send button is locked once it is sent.            *)
(* Filed      every message shown is of a turn of that session.            *)
(* Settled    a column is of pairs, but for the question that waits.       *)
(* Posed      what a turn asks is pairs and its question.                  *)
(***************************************************************************)

Begun == \A t \in Turns :
    /\ turn[t].stage # "free" => turn[t].session \in Sessions
    /\ \A m \in Models : row[t][m] # "none" => turn[t].stage # "free"
    /\ \A m \in Models : turn[t].calls[m] # "none" => m \in turn[t].models

ReadRight == \A d \in loads : \A t \in Turns : \A m \in d.detail[t] :
    turn[t].session = d.id /\ turn[t].stage # "free"

Barred == isLoading => \E t \in Turns : turn[t].stage = "sent"

OneTurn == \A t \in Turns : UnderWay(t) =>
    /\ turn[t].session = sessionId
    /\ turn[t].stage = "sent" => isLoading
    /\ \A u \in Turns : UnderWay(u) => u = t

Filed == \A m \in Models : \A i \in DOMAIN conversations[m] :
    /\ turn[conversations[m][i].turn].stage # "free"
    /\ turn[conversations[m][i].turn].session = sessionId

Settled == \A m \in Models :
    /\ \A t \in Turns : Awaits(t, m) => Owed(conversations[m], t)
    /\ (\A t \in Turns : ~Awaits(t, m)) => Pairs(conversations[m])

Posed == \A t \in Turns : UnderWay(t) =>
    \A m \in Selected(t) : Owed(turn[t].asked[m], t)

Whole == ~interrupted => OneTurn /\ Filed /\ Settled /\ Posed

ChatInv == ChatTypeOK /\ Begun /\ ReadRight /\ Barred /\ Whole

(***************************************************************************)
(* The types.                                                              *)
(***************************************************************************)

\* The closure of a turn that is over, or has not begun, is a closure.
LEMMA ClosureFacts ==
    ASSUME NEW stage \in {"free", "ended"}, NEW s \in Sessions \cup {NoSession}
    PROVE  /\ NoClosure(stage, s) \in Turn
           /\ emptyConversations \in [Models -> Column]
           /\ NoClosure(stage, s).stage = stage /\ NoClosure(stage, s).session = s
           /\ \A m \in Models : NoClosure(stage, s).calls[m] = "none"
<1>1. emptyConversations \in [Models -> Column]
  BY EmptyPairs DEF emptyConversations
<1> QED BY <1>1 DEF NoClosure, Turn

LEMMA ChatTypesInit == ChatInit => ChatTypeOK
<1> SUFFICES ASSUME ChatInit PROVE ChatTypeOK
  OBVIOUS
<1>1. emptyConversations \in [Models -> Column] /\ NoClosure("free", NoSession) \in Turn
  BY ClosureFacts
<1> QED BY <1>1 DEF ChatInit, ChatTypeOK, RowState

\* Which columns a turn retracts to.
LEMMA RetractFacts ==
    ASSUME ChatTypeOK, NEW t \in Turns
    PROVE  /\ Retract(t) \in [Models -> Column]
           /\ \A m \in Models :
                 Retract(t)[m] = IF m \in Failed(t) /\ conversations[m] # <<>>
                                 THEN Front(conversations[m]) ELSE conversations[m]
<1>1. \A m \in Models : conversations[m] \in Column
  BY DEF ChatTypeOK
<1>2. \A m \in Models : conversations[m] # <<>> => Front(conversations[m]) \in Column
  BY <1>1, FrontFacts
<1> QED BY <1>1, <1>2 DEF Retract

\* What a session read by the server holds.
LEMMA DetailFacts ==
    ASSUME NEW s
    PROVE  /\ Detail(s) \in [Turns -> SUBSET Models]
           /\ \A t \in Turns : \A m \in Detail(s)[t] :
                 turn[t].session = s /\ row[t][m] = "stored"
BY DEF Detail

\* The questions of a turn's actions.
TurnStep(t) == SubmitPrompt(t) \/ ReadFails(t) \/ Send(t) \/ Finish(t)

CallStep(t, m) == Show(t, m) \/ Fail(t, m) \/ AnswerCall(t, m) \/ Write(t, m)

\* A step of the workspace is one of these.
LEMMA StepKinds ==
    ASSUME ChatNext
    PROVE  \/ NewChat \/ Reload
           \/ \E s \in Sessions : GetSession(s) \/ DeleteSession(s)
           \/ \E m \in Models : ToggleModel(m)
           \/ \E t \in Turns : TurnStep(t)
           \/ \E t \in Turns, m \in Models : CallStep(t, m)
           \/ \E d \in loads : LoadSession(d)
           \/ \E d \in deletes : Deleted(d)
BY DEF ChatNext, Click, Run, TurnStep, CallStep

\* What the click on send puts in the closure.
LEMMA SubmitFacts ==
    ASSUME ChatTypeOK, NEW t \in Turns, SubmitPrompt(t)
    PROVE  /\ turn' \in [Turns -> Turn] /\ sessionId' \in Sessions
           /\ turn[t].stage = "free" /\ ~isLoading
           /\ turn'[t].stage = "reading" /\ turn'[t].session = sessionId'
           /\ turn'[t].models = selectedModels
           /\ \A m \in Models : turn'[t].calls[m] = "none"
           /\ \A m \in selectedModels :
                 turn'[t].asked[m] = Append(conversations[m], User(t))
           /\ \A u \in Turns \ {t} : turn'[u] = turn[u]
           /\ sessionId # NoSession => sessionId' = sessionId
           /\ interrupted' = (interrupted \/ Busy)
<1>1. PICK sid \in IF sessionId = NoSession
                   THEN Sessions \ {turn[u].session : u \in Turns} ELSE {sessionId} :
          /\ sessionId' = sid
          /\ turn' = [turn EXCEPT ![t] =
                        [stage |-> "reading", session |-> sid, models |-> selectedModels,
                         asked |-> [m \in Models |-> IF m \in selectedModels
                                       THEN Append(conversations[m], User(t)) ELSE <<>>],
                         calls |-> [m \in Models |-> "none"]]]
  BY DEF SubmitPrompt
<1> DEFINE asked == [m \in Models |-> IF m \in selectedModels
                                      THEN Append(conversations[m], User(t)) ELSE <<>>]
           closure == [stage |-> "reading", session |-> sid, models |-> selectedModels,
                       asked |-> asked, calls |-> [m \in Models |-> "none"]]
<1>2. sid \in Sessions /\ (sessionId # NoSession => sid = sessionId)
  BY DEF ChatTypeOK
<1>3. asked \in [Models -> Column]
  BY AppendFacts, MessageFacts, EmptyPairs DEF ChatTypeOK
<1>4. selectedModels \subseteq Models /\ turn \in [Turns -> Turn]
  BY DEF ChatTypeOK
<1>5. closure \in Turn
  <2> HIDE DEF asked
  <2> QED BY <1>2, <1>3, <1>4 DEF Turn
<1>6. turn' = [turn EXCEPT ![t] = closure]
  BY <1>1
<1>7. /\ turn' \in [Turns -> Turn] /\ turn'[t] = closure
      /\ \A u \in Turns \ {t} : turn'[u] = turn[u]
  <2> HIDE DEF closure
  <2> QED BY <1>4, <1>5, <1>6
<1>8. turn[t].stage = "free" /\ ~isLoading /\ interrupted' = (interrupted \/ Busy)
  BY DEF SubmitPrompt
<1>9. \A m \in selectedModels : asked[m] = Append(conversations[m], User(t))
  BY <1>4
<1> QED BY <1>1, <1>2, <1>4, <1>7, <1>8, <1>9

\* The turn that ends, and the ones that go on.
LEMMA OverFacts ==
    ASSUME ChatTypeOK, NEW t \in Turns, turn' = [turn EXCEPT ![t] = Over(t)]
    PROVE  /\ turn' \in [Turns -> Turn]
           /\ turn'[t].stage = "ended" /\ turn'[t].session = turn[t].session
           /\ \A m \in Models : turn'[t].calls[m] = "none"
           /\ \A u \in Turns \ {t} : turn'[u] = turn[u]
<1>1. turn \in [Turns -> Turn] /\ turn[t].session \in Sessions \cup {NoSession}
  BY DEF ChatTypeOK, Turn
<1>2. /\ Over(t) \in Turn /\ Over(t).stage = "ended" /\ Over(t).session = turn[t].session
      /\ \A m \in Models : Over(t).calls[m] = "none"
  BY <1>1, ClosureFacts DEF Over
<1> QED BY <1>1, <1>2

\* What sending changes of the turn.
LEMMA SendFacts ==
    ASSUME ChatTypeOK, NEW t \in Turns, Send(t)
    PROVE  /\ turn' \in [Turns -> Turn]
           /\ turn[t].stage = "reading" /\ turn'[t].stage = "sent"
           /\ turn'[t].session = turn[t].session /\ turn'[t].models = turn[t].models
           /\ turn'[t].asked = turn[t].asked
           /\ \A m \in Models : turn'[t].calls[m] = IF m \in Selected(t) THEN "waiting" ELSE "none"
           /\ \A u \in Turns \ {t} : turn'[u] = turn[u]
           /\ conversations' \in [Models -> Column]
           /\ \A m \in Models : conversations'[m] = IF m \in Selected(t)
                  THEN Append(conversations[m], User(t)) ELSE conversations[m]
           /\ row' \in [Turns -> [Models -> RowState]]
           /\ \A u \in Turns \ {t} : row'[u] = row[u]
<1>1. /\ turn \in [Turns -> Turn] /\ turn[t] \in Turn
      /\ row \in [Turns -> [Models -> RowState]] /\ conversations \in [Models -> Column]
  BY DEF ChatTypeOK
<1>2. /\ turn' = [turn EXCEPT ![t].stage = "sent",
                              ![t].calls = [m \in Models |->
                                 IF m \in Selected(t) THEN "waiting" ELSE "none"]]
      /\ row' = [row EXCEPT ![t] = [m \in Models |->
                                     IF m \in Selected(t) THEN "running" ELSE "none"]]
      /\ conversations' = [m \in Models |-> IF m \in Selected(t)
                            THEN Append(conversations[m], User(t)) ELSE conversations[m]]
      /\ turn[t].stage = "reading"
  BY DEF Send
<1> DEFINE calls == [m \in Models |-> IF m \in Selected(t) THEN "waiting" ELSE "none"]
<1>3. calls \in [Models -> {"none", "waiting", "shown", "failed"}]
  OBVIOUS
<1>4. /\ turn'[t] = [turn[t] EXCEPT !.stage = "sent", !.calls = calls]
      /\ \A u \in Turns \ {t} : turn'[u] = turn[u]
      /\ turn' = [turn EXCEPT ![t] = turn'[t]]
  BY <1>1, <1>2
<1>5. /\ turn'[t] \in Turn /\ turn'[t].stage = "sent" /\ turn'[t].calls = calls
      /\ turn'[t].session = turn[t].session /\ turn'[t].models = turn[t].models
      /\ turn'[t].asked = turn[t].asked
  <2> HIDE DEF calls
  <2> QED BY <1>1, <1>3, <1>4 DEF Turn
<1>6. turn' \in [Turns -> Turn]
  BY <1>1, <1>4, <1>5
<1>7. \A m \in Models : Append(conversations[m], User(t)) \in Column /\ conversations[m] \in Column
  BY <1>1, AppendFacts, MessageFacts
<1>8. conversations' \in [Models -> Column]
  BY <1>2, <1>7
<1>9. [m \in Models |-> IF m \in Selected(t) THEN "running" ELSE "none"] \in [Models -> RowState]
  BY DEF RowState
<1>10. row' \in [Turns -> [Models -> RowState]] /\ \A u \in Turns \ {t} : row'[u] = row[u]
  BY <1>1, <1>2, <1>9
<1> QED BY <1>2, <1>4, <1>5, <1>6, <1>8, <1>10

\* What the end of a turn changes.
LEMMA FinishFacts ==
    ASSUME ChatTypeOK, NEW t \in Turns, Finish(t)
    PROVE  /\ turn[t].stage = "sent" /\ turn' = [turn EXCEPT ![t] = Over(t)]
           /\ \A m \in Models : turn[t].calls[m] # "waiting"
           /\ conversations' = Retract(t) /\ ~isLoading'
           /\ UNCHANGED <<sessionId, selectedModels, row, sideVars, interrupted>>
BY DEF Finish

\* What an answer that arrives changes.
LEMMA ShowFacts ==
    ASSUME ChatTypeOK, NEW t \in Turns, NEW m \in Models, Show(t, m)
    PROVE  /\ turn[t].stage = "sent" /\ turn[t].calls[m] = "waiting"
           /\ conversations' \in [Models -> Column]
           /\ conversations'[m] = Append(conversations[m], Assistant(t))
           /\ \A k \in Models \ {m} : conversations'[k] = conversations[k]
           /\ turn' = [turn EXCEPT ![t].calls[m] = "shown"]
           /\ UNCHANGED <<sessionId, selectedModels, isLoading, row, sideVars, interrupted>>
<1>1. conversations \in [Models -> Column] /\ Append(conversations[m], Assistant(t)) \in Column
  BY AppendFacts, MessageFacts DEF ChatTypeOK
<1> QED BY <1>1 DEF Show

\* What the closure keeps when a call is shown or fails.
LEMMA CallFacts ==
    ASSUME ChatTypeOK, NEW t \in Turns, NEW m \in Models, NEW c \in {"shown", "failed"},
           turn' = [turn EXCEPT ![t].calls[m] = c]
    PROVE  /\ turn' \in [Turns -> Turn]
           /\ turn'[t].stage = turn[t].stage /\ turn'[t].session = turn[t].session
           /\ turn'[t].models = turn[t].models /\ turn'[t].asked = turn[t].asked
           /\ turn'[t].calls[m] = c
           /\ \A k \in Models \ {m} : turn'[t].calls[k] = turn[t].calls[k]
           /\ \A u \in Turns \ {t} : turn'[u] = turn[u]
<1>1. turn \in [Turns -> Turn] /\ turn[t] \in Turn
  BY DEF ChatTypeOK
<1>2. turn[t].calls \in [Models -> {"none", "waiting", "shown", "failed"}]
  BY <1>1 DEF Turn
<1> DEFINE calls == [turn[t].calls EXCEPT ![m] = c]
<1>3. /\ turn'[t] = [turn[t] EXCEPT !.calls = calls]
      /\ \A u \in Turns \ {t} : turn'[u] = turn[u]
      /\ turn' = [turn EXCEPT ![t] = turn'[t]]
  BY <1>1
<1>4. /\ calls \in [Models -> {"none", "waiting", "shown", "failed"}]
      /\ calls[m] = c /\ \A k \in Models \ {m} : calls[k] = turn[t].calls[k]
  BY <1>2
<1>5. /\ turn'[t] \in Turn /\ turn'[t].stage = turn[t].stage
      /\ turn'[t].session = turn[t].session /\ turn'[t].models = turn[t].models
      /\ turn'[t].asked = turn[t].asked /\ turn'[t].calls = calls
  <2> HIDE DEF calls
  <2> QED BY <1>1, <1>3, <1>4 DEF Turn
<1>6. turn' \in [Turns -> Turn]
  BY <1>1, <1>3, <1>5
<1> QED BY <1>3, <1>4, <1>5, <1>6

\* What a reload leaves of the turns.
LEMMA ReloadFacts ==
    ASSUME ChatTypeOK, Reload
    PROVE  /\ turn' \in [Turns -> Turn]
           /\ \A t \in Turns : /\ UnderWay(t) => /\ turn'[t].stage = "ended"
                                                 /\ turn'[t].session = turn[t].session
                                                 /\ \A m \in Models : turn'[t].calls[m] = "none"
                               /\ ~UnderWay(t) => turn'[t] = turn[t]
<1>1. \A t \in Turns : turn[t] \in Turn /\ turn[t].session \in Sessions \cup {NoSession}
  BY DEF ChatTypeOK, Turn
<1>2. turn' = [t \in Turns |-> IF UnderWay(t) THEN Over(t) ELSE turn[t]]
  BY DEF Reload
<1>3. \A t \in Turns : /\ Over(t) \in Turn /\ Over(t).stage = "ended"
                       /\ Over(t).session = turn[t].session
                       /\ \A m \in Models : Over(t).calls[m] = "none"
  BY <1>1, ClosureFacts DEF Over
<1> QED BY <1>1, <1>2, <1>3

\* What is put on show by a session read.
LEMMA LoadFacts ==
    ASSUME ChatTypeOK, NEW d \in loads, LoadSession(d)
    PROVE  /\ d.id \in Sessions /\ d.detail \in [Turns -> SUBSET Models]
           /\ conversations' \in [Models -> Column]
           /\ \A m \in Models : conversations'[m] = Rebuilt(d.detail, m)
           /\ sessionId' = d.id /\ selectedModels' \subseteq Models
           /\ loads' \subseteq loads /\ interrupted' = Busy
           /\ UNCHANGED <<isLoading, turn, row, deletes>>
<1>1. d.id \in Sessions /\ d.detail \in [Turns -> SUBSET Models]
  BY DEF ChatTypeOK
<1>2. \A m \in Models : Rebuilt(d.detail, m) \in Column
  BY <1>1, RebuiltFacts
<1>3. conversations' = [m \in Models |-> Rebuilt(d.detail, m)]
  BY DEF LoadSession
<1>4. conversations' \in [Models -> Column]
  BY <1>2, <1>3
<1>5. UNION {d.detail[t] : t \in Turns} \subseteq Models
  BY <1>1
<1> QED BY <1>1, <1>3, <1>4, <1>5 DEF LoadSession, Disturbs

\* The actions that leave the browser's side of the conversations alone.
Quiet == /\ UNCHANGED <<conversations, sessionId, isLoading, turn, interrupted>>
         /\ ChatTypeOK'
         /\ \A t \in Turns : \A m \in Models : row'[t][m] # "none" => row[t][m] # "none"
         /\ \A d \in loads' : d \in loads \/ \E s \in Sessions : d = [id |-> s, detail |-> Detail(s)]

LEMMA QuietSteps ==
    ASSUME ChatTypeOK,
           \/ \E s \in Sessions : GetSession(s) \/ DeleteSession(s)
           \/ \E m \in Models : ToggleModel(m)
           \/ \E t \in Turns, m \in Models : AnswerCall(t, m) \/ Write(t, m)
           \/ UNCHANGED compareVars
    PROVE  Quiet
<1> USE DEF chatVars, sideVars
<1>1. ASSUME NEW s \in Sessions, GetSession(s) PROVE Quiet
  <2>1. [id |-> s, detail |-> Detail(s)] \in [id : Sessions, detail : [Turns -> SUBSET Models]]
    BY DetailFacts
  <2>2. /\ loads' = loads \cup {[id |-> s, detail |-> Detail(s)]}
        /\ UNCHANGED <<chatVars, turn, row, deletes, interrupted>>
    BY <1>1 DEF GetSession
  <2>3. ChatTypeOK'
    BY <2>1, <2>2 DEF ChatTypeOK
  <2> QED BY <2>2, <2>3 DEF Quiet
<1>2. ASSUME NEW s \in Sessions, DeleteSession(s) PROVE Quiet
  <2> DEFINE gone == [t \in Turns |-> [m \in Models |->
                          IF m \in Detail(s)[t] THEN "deleted" ELSE row[t][m]]]
  <2>1. /\ deletes' = deletes \cup {[id |-> s, shown |-> sessionId]}
        /\ row' \in {row, gone}
        /\ UNCHANGED <<chatVars, turn, loads, interrupted>>
    BY <1>2 DEF DeleteSession
  <2>2. row \in [Turns -> [Models -> RowState]] /\ gone \in [Turns -> [Models -> RowState]]
    BY DEF ChatTypeOK, RowState
  <2>3. \A t \in Turns : \A m \in Models : gone[t][m] # "none" => row[t][m] # "none"
    BY DetailFacts
  <2>4. [id |-> s, shown |-> sessionId] \in [id : Sessions, shown : Sessions \cup {NoSession}]
    BY DEF ChatTypeOK
  <2> HIDE DEF gone
  <2>5. ChatTypeOK'
    BY <2>1, <2>2, <2>4 DEF ChatTypeOK
  <2> QED BY <2>1, <2>3, <2>5 DEF Quiet
<1>3. ASSUME NEW m \in Models, ToggleModel(m) PROVE Quiet
  <2>1. /\ selectedModels' \subseteq Models
        /\ UNCHANGED <<conversations, sessionId, isLoading, turn, row, sideVars, interrupted>>
    BY <1>3 DEF ToggleModel, ChatTypeOK
  <2>2. ChatTypeOK'
    BY <2>1 DEF ChatTypeOK
  <2> QED BY <2>1, <2>2 DEF Quiet
<1>4. ASSUME NEW t \in Turns, NEW m \in Models, AnswerCall(t, m) \/ Write(t, m) PROVE Quiet
  <2>1. PICK r \in {"queued", "stored"} : row' = [row EXCEPT ![t][m] = r]
    BY <1>4 DEF AnswerCall, Write
  <2>2. row[t][m] # "none" /\ UNCHANGED <<chatVars, turn, sideVars, interrupted>>
    BY <1>4 DEF AnswerCall, Write
  <2>3. row \in [Turns -> [Models -> RowState]] /\ r \in RowState
    BY DEF ChatTypeOK, RowState
  <2>4. row' \in [Turns -> [Models -> RowState]]
    BY <2>1, <2>3
  <2>5. \A u \in Turns : \A k \in Models : row'[u][k] # "none" => row[u][k] # "none"
    BY <2>1, <2>2, <2>3
  <2>6. ChatTypeOK'
    BY <2>2, <2>4 DEF ChatTypeOK
  <2> QED BY <2>2, <2>5, <2>6 DEF Quiet
<1>5. ASSUME UNCHANGED compareVars PROVE Quiet
  <2>1. ChatTypeOK'
    BY <1>5 DEF ChatTypeOK, compareVars
  <2> QED BY <1>5, <2>1 DEF Quiet, compareVars
<1> QED BY <1>1, <1>2, <1>3, <1>4, <1>5

\* The types are kept.
LEMMA ChatTypesStep == ChatTypeOK /\ [ChatNext]_compareVars => ChatTypeOK'
<1> SUFFICES ASSUME ChatTypeOK, [ChatNext]_compareVars PROVE ChatTypeOK'
  OBVIOUS
<1> USE DEF chatVars, sideVars
<1>1. CASE NewChat
  BY <1>1, EmptyPairs DEF NewChat, ChatTypeOK, emptyConversations, Disturbs, Busy
<1>2. CASE Reload
  <2>1. turn' \in [Turns -> Turn]
    BY <1>2, ReloadFacts
  <2>2. interrupted' \in BOOLEAN
    BY <1>2 DEF Reload, Busy
  <2> QED BY <1>2, <2>1, <2>2 DEF Reload, ChatTypeOK
<1>3. ASSUME NEW t \in Turns, SubmitPrompt(t) PROVE ChatTypeOK'
  <2>1. /\ turn' \in [Turns -> Turn] /\ sessionId' \in Sessions
        /\ interrupted' \in BOOLEAN
    BY <1>3, SubmitFacts DEF Busy
  <2>2. UNCHANGED <<conversations, selectedModels, isLoading, row, sideVars>>
    BY <1>3 DEF SubmitPrompt
  <2> QED BY <2>1, <2>2 DEF ChatTypeOK
<1>4. ASSUME NEW t \in Turns, ReadFails(t) PROVE ChatTypeOK'
  <2>1. turn' = [turn EXCEPT ![t] = Over(t)] /\ UNCHANGED <<chatVars, row, sideVars, interrupted>>
    BY <1>4 DEF ReadFails
  <2>2. turn' \in [Turns -> Turn]
    BY <2>1, OverFacts
  <2> QED BY <2>1, <2>2 DEF ChatTypeOK
<1>5. ASSUME NEW t \in Turns, Send(t) PROVE ChatTypeOK'
  <2>1. /\ turn' \in [Turns -> Turn] /\ conversations' \in [Models -> Column]
        /\ row' \in [Turns -> [Models -> RowState]]
    BY <1>5, SendFacts
  <2>2. isLoading' = TRUE /\ UNCHANGED <<sessionId, selectedModels, sideVars, interrupted>>
    BY <1>5 DEF Send
  <2> QED BY <2>1, <2>2 DEF ChatTypeOK
<1>6. ASSUME NEW t \in Turns, Finish(t) PROVE ChatTypeOK'
  <2>1. /\ turn' = [turn EXCEPT ![t] = Over(t)] /\ conversations' = Retract(t)
        /\ isLoading' = FALSE
        /\ UNCHANGED <<sessionId, selectedModels, row, sideVars, interrupted>>
    BY <1>6 DEF Finish
  <2>2. turn' \in [Turns -> Turn] /\ conversations' \in [Models -> Column]
    BY <2>1, OverFacts, RetractFacts
  <2> QED BY <2>1, <2>2 DEF ChatTypeOK
<1>7. ASSUME NEW t \in Turns, NEW m \in Models, Show(t, m) PROVE ChatTypeOK'
  <2>1. /\ conversations' \in [Models -> Column]
        /\ turn' = [turn EXCEPT ![t].calls[m] = "shown"]
        /\ UNCHANGED <<sessionId, selectedModels, isLoading, row, sideVars, interrupted>>
    BY <1>7, ShowFacts
  <2>2. turn' \in [Turns -> Turn]
    BY <2>1, CallFacts
  <2> QED BY <2>1, <2>2 DEF ChatTypeOK
<1>8. ASSUME NEW t \in Turns, NEW m \in Models, Fail(t, m) PROVE ChatTypeOK'
  <2>1. /\ turn' = [turn EXCEPT ![t].calls[m] = "failed"]
        /\ UNCHANGED <<chatVars, row, sideVars, interrupted>>
    BY <1>8 DEF Fail
  <2>2. turn' \in [Turns -> Turn]
    BY <2>1, CallFacts
  <2> QED BY <2>1, <2>2 DEF ChatTypeOK
<1>9. ASSUME NEW d \in loads, LoadSession(d) PROVE ChatTypeOK'
  <2>1. /\ conversations' \in [Models -> Column] /\ sessionId' \in Sessions
        /\ selectedModels' \subseteq Models /\ loads' \subseteq loads
        /\ interrupted' \in BOOLEAN /\ UNCHANGED <<isLoading, turn, row, deletes>>
    BY <1>9, LoadFacts DEF Busy
  <2> QED BY <2>1 DEF ChatTypeOK
<1>10. ASSUME NEW d \in deletes, Deleted(d) PROVE ChatTypeOK'
  <2>1. /\ conversations' \in [Models -> Column] /\ sessionId' \in Sessions \cup {NoSession}
        /\ interrupted' \in BOOLEAN
    BY <1>10, EmptyPairs DEF Deleted, ChatTypeOK, emptyConversations, Disturbs, Busy
  <2>2. deletes' \subseteq deletes /\ UNCHANGED <<selectedModels, isLoading, turn, row, loads>>
    BY <1>10 DEF Deleted
  <2> QED BY <2>1, <2>2 DEF ChatTypeOK
<1> QED
  BY <1>1, <1>2, <1>3, <1>4, <1>5, <1>6, <1>7, <1>8, <1>9, <1>10, StepKinds, QuietSteps
     DEF TurnStep, CallStep, Quiet

(***************************************************************************)
(* The parts that hold whatever the user does.                             *)
(***************************************************************************)

\* A turn that began keeps its session and never becomes free again.
LEMMA TurnsKeepSession ==
    ASSUME ChatTypeOK, [ChatNext]_compareVars
    PROVE  \A u \in Turns : turn[u].stage # "free" =>
              turn'[u].stage # "free" /\ turn'[u].session = turn[u].session
<1> DEFINE Stays == \A u \in Turns : turn[u].stage # "free" =>
              turn'[u].stage # "free" /\ turn'[u].session = turn[u].session
<1> SUFFICES Stays
  OBVIOUS
<1>1. ASSUME UNCHANGED turn PROVE Stays
  BY <1>1
<1>2. CASE NewChat
  BY <1>1, <1>2 DEF NewChat
<1>3. CASE Reload
  BY <1>3, ReloadFacts
<1>4. ASSUME NEW t \in Turns, TurnStep(t) PROVE Stays
  <2>1. CASE SubmitPrompt(t)
    BY <2>1, SubmitFacts
  <2>2. CASE ReadFails(t) \/ Finish(t)
    BY <2>2, OverFacts DEF ReadFails, Finish
  <2>3. CASE Send(t)
    BY <2>3, SendFacts
  <2> QED BY <1>4, <2>1, <2>2, <2>3 DEF TurnStep
<1>5. ASSUME NEW t \in Turns, NEW m \in Models, Show(t, m) \/ Fail(t, m) PROVE Stays
  BY <1>5, CallFacts DEF Show, Fail
<1>6. ASSUME NEW d \in loads, LoadSession(d) PROVE Stays
  BY <1>1, <1>6, LoadFacts
<1>7. ASSUME NEW d \in deletes, Deleted(d) PROVE Stays
  BY <1>1, <1>7 DEF Deleted
<1>8. CASE Quiet
  BY <1>1, <1>8 DEF Quiet
<1> HIDE DEF Stays
<1> QED BY <1>2, <1>3, <1>4, <1>5, <1>6, <1>7, <1>8, StepKinds, QuietSteps DEF TurnStep, CallStep

\* Begun is kept.
LEMMA BegunStep ==
    ASSUME ChatTypeOK, Begun, [ChatNext]_compareVars
    PROVE  Begun'
<1> USE DEF chatVars, sideVars
<1> DEFINE Good(u) == /\ turn'[u].stage # "free" => turn'[u].session \in Sessions
                      /\ \A m \in Models : row'[u][m] # "none" => turn'[u].stage # "free"
                      /\ \A m \in Models : turn'[u].calls[m] # "none" => m \in turn'[u].models
<1>1. ASSUME NEW u \in Turns, turn'[u] = turn[u],
             \A m \in Models : row'[u][m] # "none" => row[u][m] # "none"
      PROVE  Good(u)
  BY <1>1 DEF Begun
<1>2. CASE NewChat
  BY <1>1, <1>2 DEF NewChat, Begun
<1>3. CASE Reload
  <2>1. row' = row
    BY <1>3 DEF Reload
  <2> SUFFICES ASSUME NEW u \in Turns PROVE Good(u)
    BY DEF Begun
  <2>2. CASE UnderWay(u)
    <3>1. turn[u].session \in Sessions
      BY <2>2 DEF Begun, UnderWay
    <3>2. /\ turn'[u].stage = "ended" /\ turn'[u].session = turn[u].session
          /\ \A m \in Models : turn'[u].calls[m] = "none"
      BY <1>3, <2>2, ReloadFacts
    <3> QED BY <3>1, <3>2
  <2>3. CASE ~UnderWay(u)
    <3>1. turn'[u] = turn[u]
      BY <1>3, <2>3, ReloadFacts
    <3> QED BY <1>1, <2>1, <3>1
  <2> QED BY <2>2, <2>3
<1>4. ASSUME NEW t \in Turns, SubmitPrompt(t) PROVE Begun'
  <2>1. row' = row
    BY <1>4 DEF SubmitPrompt
  <2>2. Good(t)
    BY <1>4, SubmitFacts
  <2>3. ASSUME NEW u \in Turns \ {t} PROVE Good(u)
    BY <1>1, <1>4, <2>1, SubmitFacts
  <2> QED BY <2>2, <2>3 DEF Begun
<1>5. ASSUME NEW t \in Turns, ReadFails(t) \/ Finish(t) PROVE Begun'
  <2>1. /\ row' = row /\ turn' = [turn EXCEPT ![t] = Over(t)]
        /\ turn[t].stage # "free"
    BY <1>5 DEF ReadFails, Finish
  <2>2. turn[t].session \in Sessions
    BY <2>1 DEF Begun
  <2>3. Good(t)
    BY <2>1, <2>2, OverFacts
  <2>4. ASSUME NEW u \in Turns \ {t} PROVE Good(u)
    BY <1>1, <2>1, OverFacts
  <2> QED BY <2>3, <2>4 DEF Begun
<1>6. ASSUME NEW t \in Turns, Send(t) PROVE Begun'
  <2>1. turn[t].session \in Sessions
    BY <1>6, SendFacts DEF Begun
  <2>2. Good(t)
    BY <1>6, <2>1, SendFacts DEF Selected
  <2>3. ASSUME NEW u \in Turns \ {t} PROVE Good(u)
    BY <1>1, <1>6, SendFacts
  <2> QED BY <2>2, <2>3 DEF Begun
<1>7. ASSUME NEW t \in Turns, NEW m \in Models, Show(t, m) \/ Fail(t, m) PROVE Begun'
  <2>1. PICK c \in {"shown", "failed"} : turn' = [turn EXCEPT ![t].calls[m] = c]
    BY <1>7 DEF Show, Fail
  <2>2. row' = row /\ turn[t].stage = "sent" /\ turn[t].calls[m] = "waiting"
    BY <1>7 DEF Show, Fail
  <2>3. turn[t].session \in Sessions /\ m \in turn[t].models
    BY <2>2 DEF Begun
  <2>4. \A k \in Models : turn[t].calls[k] # "none" => k \in turn[t].models
    BY DEF Begun
  <2>5. Good(t)
    BY <2>1, <2>2, <2>3, <2>4, CallFacts
  <2>6. ASSUME NEW u \in Turns \ {t} PROVE Good(u)
    BY <1>1, <2>1, <2>2, CallFacts
  <2> QED BY <2>5, <2>6 DEF Begun
<1>8. ASSUME NEW d \in loads, LoadSession(d) PROVE Begun'
  BY <1>1, <1>8, LoadFacts DEF Begun
<1>9. ASSUME NEW d \in deletes, Deleted(d) PROVE Begun'
  BY <1>1, <1>9 DEF Deleted, Begun
<1>10. CASE Quiet
  BY <1>1, <1>10 DEF Quiet, Begun
<1> QED
  BY <1>2, <1>3, <1>4, <1>5, <1>6, <1>7, <1>8, <1>9, <1>10, StepKinds, QuietSteps
     DEF TurnStep, CallStep

\* ReadRight is kept.
LEMMA ReadRightStep ==
    ASSUME ChatTypeOK, Begun, ReadRight, [ChatNext]_compareVars
    PROVE  ReadRight'
<1> USE DEF chatVars, sideVars
<1>1. \A d \in loads' : d \in loads \/ \E s \in Sessions : d = [id |-> s, detail |-> Detail(s)]
  <2>1. ASSUME loads' \subseteq loads
        PROVE  \A d \in loads' : d \in loads \/ \E s \in Sessions : d = [id |-> s, detail |-> Detail(s)]
    BY <2>1
  <2>2. CASE NewChat
    BY <2>1, <2>2 DEF NewChat
  <2>3. CASE Reload
    BY <2>1, <2>3 DEF Reload
  <2>4. CASE \E t \in Turns : TurnStep(t)
    BY <2>1, <2>4 DEF TurnStep, SubmitPrompt, ReadFails, Send, Finish
  <2>5. CASE \E t \in Turns, m \in Models : Show(t, m) \/ Fail(t, m)
    BY <2>1, <2>5 DEF Show, Fail
  <2>6. CASE \E d \in loads : LoadSession(d)
    BY <2>1, <2>6, LoadFacts
  <2>7. CASE \E d \in deletes : Deleted(d)
    BY <2>1, <2>7 DEF Deleted
  <2>8. CASE Quiet
    BY <2>8 DEF Quiet
  <2> QED
    BY <2>2, <2>3, <2>4, <2>5, <2>6, <2>7, <2>8, StepKinds, QuietSteps DEF CallStep
<1>2. SUFFICES ASSUME NEW d \in loads', NEW t \in Turns, NEW m \in d.detail[t]
               PROVE  turn'[t].session = d.id /\ turn'[t].stage # "free"
  BY DEF ReadRight
<1>3. turn[t].session = d.id /\ turn[t].stage # "free"
  <2>1. CASE d \in loads
    BY <2>1 DEF ReadRight
  <2>2. ASSUME NEW s \in Sessions, d = [id |-> s, detail |-> Detail(s)]
        PROVE  turn[t].session = d.id /\ turn[t].stage # "free"
    <3>1. m \in Detail(s)[t] /\ m \in Models
      BY <2>2, DetailFacts
    <3>2. turn[t].session = s /\ row[t][m] = "stored"
      BY <3>1, DetailFacts
    <3> QED BY <2>2, <3>1, <3>2 DEF Begun
  <2> QED BY <1>1, <2>1, <2>2
<1> QED BY <1>3, TurnsKeepSession

\* Barred is kept.
LEMMA LockStep ==
    ASSUME ChatTypeOK, Barred, [ChatNext]_compareVars
    PROVE  Barred'
<1> USE DEF chatVars
<1> SUFFICES ASSUME isLoading' PROVE \E u \in Turns : turn'[u].stage = "sent"
  BY DEF Barred
<1>1. ASSUME isLoading, NEW t \in Turns, turn[t].stage # "sent" \/ turn'[t].stage = "sent",
             \A u \in Turns \ {t} : turn'[u] = turn[u]
      PROVE  \E u \in Turns : turn'[u].stage = "sent"
  BY <1>1 DEF Barred
<1>2. ASSUME UNCHANGED <<isLoading, turn>> PROVE \E u \in Turns : turn'[u].stage = "sent"
  BY <1>2 DEF Barred
<1>3. CASE NewChat
  BY <1>2, <1>3 DEF NewChat
<1>4. CASE Reload
  BY <1>4 DEF Reload
<1>5. ASSUME NEW t \in Turns, SubmitPrompt(t) PROVE \E u \in Turns : turn'[u].stage = "sent"
  BY <1>5 DEF SubmitPrompt
<1>6. ASSUME NEW t \in Turns, ReadFails(t) PROVE \E u \in Turns : turn'[u].stage = "sent"
  <2>1. isLoading /\ turn[t].stage # "sent" /\ turn' = [turn EXCEPT ![t] = Over(t)]
    BY <1>6 DEF ReadFails
  <2> QED BY <1>1, <2>1, OverFacts
<1>7. ASSUME NEW t \in Turns, Send(t) PROVE \E u \in Turns : turn'[u].stage = "sent"
  BY <1>7, SendFacts
<1>8. ASSUME NEW t \in Turns, Finish(t) PROVE \E u \in Turns : turn'[u].stage = "sent"
  BY <1>8 DEF Finish
<1>9. ASSUME NEW t \in Turns, NEW m \in Models, Show(t, m) \/ Fail(t, m)
      PROVE  \E u \in Turns : turn'[u].stage = "sent"
  <2>1. PICK c \in {"shown", "failed"} : turn' = [turn EXCEPT ![t].calls[m] = c]
    BY <1>9 DEF Show, Fail
  <2>2. turn[t].stage = "sent"
    BY <1>9 DEF Show, Fail
  <2> QED BY <2>1, <2>2, CallFacts
<1>10. ASSUME NEW d \in loads, LoadSession(d) PROVE \E u \in Turns : turn'[u].stage = "sent"
  BY <1>2, <1>10, LoadFacts
<1>11. ASSUME NEW d \in deletes, Deleted(d) PROVE \E u \in Turns : turn'[u].stage = "sent"
  BY <1>2, <1>11 DEF Deleted
<1>12. CASE Quiet
  BY <1>2, <1>12 DEF Quiet
<1> QED
  BY <1>3, <1>4, <1>5, <1>6, <1>7, <1>8, <1>9, <1>10, <1>11, <1>12, StepKinds, QuietSteps
     DEF TurnStep, CallStep
(***************************************************************************)
(* The parts that hold while no conversation is changed under a turn.      *)
(***************************************************************************)

\* With no turn sent, nothing is owed and every column is of pairs.
LEMMA NobodyWaits ==
    ASSUME Settled, \A t \in Turns : turn[t].stage # "sent"
    PROVE  \A m \in Models : Pairs(conversations[m])
BY DEF Settled, Awaits

\* Nothing under way: the columns are all that is to be said.
LEMMA IdleWhole ==
    ASSUME \A t \in Turns : ~UnderWay(t)', Filed',
           \A m \in Models : Pairs(conversations'[m])
    PROVE  (OneTurn /\ Filed /\ Settled /\ Posed)'
<1>1. \A t \in Turns : turn'[t].stage \notin {"reading", "sent"}
  BY DEF UnderWay
<1>2. OneTurn' /\ Posed'
  BY <1>1 DEF OneTurn, Posed, UnderWay
<1>3. Settled'
  BY <1>1 DEF Settled, Awaits, Pairs
<1> QED BY <1>2, <1>3

\* The turn under way is over: nothing is under way.
LEMMA OneTurnOver ==
    ASSUME ChatTypeOK, OneTurn, NEW t \in Turns, UnderWay(t),
           turn' = [turn EXCEPT ![t] = Over(t)]
    PROVE  \A u \in Turns : ~UnderWay(u)'
BY OverFacts DEF OneTurn, UnderWay

\* Columns not made longer stay filed.
LEMMA FiledStays ==
    ASSUME ChatTypeOK, ChatTypeOK', Filed, [ChatNext]_compareVars, sessionId' = sessionId,
           \A m \in Models : conversations'[m] = conversations[m]
    PROVE  Filed'
<1> SUFFICES ASSUME NEW m \in Models, NEW i \in DOMAIN conversations'[m]
             PROVE  LET u == conversations'[m][i].turn IN
                    turn'[u].stage # "free" /\ turn'[u].session = sessionId'
  BY DEF Filed
<1> DEFINE u == conversations[m][i].turn
<1>1. conversations[m] \in Column /\ i \in DOMAIN conversations[m]
  BY DEF ChatTypeOK
<1>2. u \in Turns
  BY <1>1, MessageAt
<1>3. turn[u].stage # "free" /\ turn[u].session = sessionId
  BY <1>1 DEF Filed
<1> QED BY <1>2, <1>3, TurnsKeepSession

\* A message of one of some turns joins a column of messages of those.
LEMMA ColumnGrows ==
    ASSUME NEW c \in Column, NEW e \in Message, NEW T,
           \A i \in DOMAIN c : c[i].turn \in T, e.turn \in T
    PROVE  \A i \in DOMAIN Append(c, e) : Append(c, e)[i].turn \in T
<1>1. DOMAIN Append(c, e) = 1..(Len(c) + 1) /\ DOMAIN c = 1..Len(c) /\ Len(c) \in Nat
  BY AppendFacts DEF Column
<1>2. /\ \A i \in 1..Len(c) : Append(c, e)[i] = c[i]
      /\ Append(c, e)[Len(c) + 1] = e
  BY AppendFacts
<1>3. ASSUME NEW i \in 1..(Len(c) + 1) PROVE Append(c, e)[i].turn \in T
  <2>1. CASE i = Len(c) + 1
    BY <1>2, <2>1
  <2>2. CASE i # Len(c) + 1
    <3>1. i \in 1..Len(c)
      BY <1>1, <2>2
    <3> QED BY <1>1, <1>2, <3>1
  <2> QED BY <2>1, <2>2
<1> QED BY <1>1, <1>3

\* A message of a turn of the session shown joins a column: it stays filed.
LEMMA FiledGrows ==
    ASSUME ChatTypeOK, ChatTypeOK', Filed, [ChatNext]_compareVars, sessionId' = sessionId,
           NEW t \in Turns, turn[t].stage # "free", turn[t].session = sessionId,
           NEW e \in Message, e.turn = t,
           \A m \in Models : \/ conversations'[m] = conversations[m]
                             \/ conversations'[m] = Append(conversations[m], e)
                             \/ /\ conversations[m] # <<>>
                                /\ conversations'[m] = Front(conversations[m])
    PROVE  Filed'
<1> DEFINE T == {u \in Turns : turn[u].stage # "free" /\ turn[u].session = sessionId}
<1>1. ASSUME NEW m \in Models, NEW i \in DOMAIN conversations[m]
      PROVE  conversations[m][i].turn \in T
  <2>1. conversations[m] \in Column
    BY DEF ChatTypeOK
  <2>2. conversations[m][i].turn \in Turns
    BY <2>1, MessageAt
  <2> QED BY <2>2 DEF Filed
<1>2. t \in T
  OBVIOUS
<1>3. \A u \in T : turn'[u].stage # "free" /\ turn'[u].session = sessionId'
  BY TurnsKeepSession
<1> HIDE DEF T
<1>4. ASSUME NEW m \in Models, NEW i \in DOMAIN conversations'[m]
      PROVE  conversations'[m][i].turn \in T
  <2>1. conversations[m] \in Column /\ \A k \in DOMAIN conversations[m] : conversations[m][k].turn \in T
    BY <1>1 DEF ChatTypeOK
  <2>2. CASE conversations'[m] = conversations[m]
    BY <2>1, <2>2
  <2>3. CASE conversations'[m] = Append(conversations[m], e)
    BY <1>2, <2>1, <2>3, ColumnGrows
  <2>4. CASE conversations[m] # <<>> /\ conversations'[m] = Front(conversations[m])
    <3> DEFINE c == conversations[m]
               f == Front(c)
    <3>1. /\ f \in Column /\ Len(f) = Len(c) - 1 /\ Len(c) > 0
          /\ \A k \in 1..Len(f) : f[k] = c[k]
      BY <2>1, <2>4, FrontFacts
    <3>2. i \in DOMAIN f
      BY <2>4
    <3> HIDE DEF f
    <3>3. i \in 1..Len(f)
      BY <3>1, <3>2, MessageAt
    <3>4. Len(c) \in Nat /\ DOMAIN c = 1..Len(c)
      BY <2>1 DEF Column
    <3>5. i \in DOMAIN c /\ f[i] = c[i]
      BY <3>1, <3>3, <3>4
    <3> QED BY <2>1, <2>4, <3>5 DEF f
  <2> QED BY <2>2, <2>3, <2>4
<1> QED BY <1>3, <1>4 DEF Filed

\* Another conversation is put on show: nothing was under way.
LEMMA NewChatWhole ==
    ASSUME ChatTypeOK, Whole, NewChat \/ (\E d \in deletes : Deleted(d) /\ d.shown = d.id),
           ~interrupted'
    PROVE  (OneTurn /\ Filed /\ Settled /\ Posed)'
<1>1. conversations' = emptyConversations /\ turn' = turn /\ ~Busy
  BY DEF NewChat, Deleted, Disturbs
<1>2. \A t \in Turns : ~UnderWay(t)'
  BY <1>1 DEF Busy, UnderWay
<1>3. \A m \in Models : conversations'[m] = <<>>
  BY <1>1 DEF emptyConversations
<1>4. Filed'
  BY <1>3 DEF Filed
<1>5. \A m \in Models : Pairs(conversations'[m])
  BY <1>3, EmptyPairs
<1> QED BY <1>2, <1>4, <1>5, IdleWhole

LEMMA LoadWhole ==
    ASSUME ChatTypeOK, ReadRight, NEW d \in loads, LoadSession(d), ~interrupted'
    PROVE  (OneTurn /\ Filed /\ Settled /\ Posed)'
<1>1. /\ turn' = turn /\ ~Busy /\ sessionId' = d.id
      /\ \A m \in Models : conversations'[m] = Rebuilt(d.detail, m)
      /\ d.detail \in [Turns -> SUBSET Models]
  BY LoadFacts
<1>2. \A t \in Turns : ~UnderWay(t)'
  BY <1>1 DEF Busy, UnderWay
<1>3. ASSUME NEW m \in Models, NEW i \in DOMAIN conversations'[m]
      PROVE  LET u == conversations'[m][i].turn IN
             turn'[u].stage # "free" /\ turn'[u].session = sessionId'
  <2> DEFINE u == Rebuilt(d.detail, m)[i].turn
  <2>1. u \in Turns /\ m \in d.detail[u]
    BY <1>1, RebuiltFacts
  <2> QED BY <1>1, <2>1 DEF ReadRight
<1>4. Filed'
  BY <1>3 DEF Filed
<1>5. \A m \in Models : Pairs(conversations'[m])
  BY <1>1, RebuiltFacts
<1> QED BY <1>2, <1>4, <1>5, IdleWhole

LEMMA ReloadWhole ==
    ASSUME ChatTypeOK, ChatTypeOK', Whole, Reload, ~interrupted'
    PROVE  (OneTurn /\ Filed /\ Settled /\ Posed)'
<1>1. ~interrupted /\ ~Busy /\ UNCHANGED <<conversations, sessionId>>
  BY DEF Reload
<1>2. \A t \in Turns : ~UnderWay(t)' /\ turn[t].stage # "sent"
  BY <1>1, ReloadFacts DEF Busy, UnderWay
<1>3. \A m \in Models : Pairs(conversations'[m])
  BY <1>1, <1>2, NobodyWaits DEF Whole
<1>4. [ChatNext]_compareVars
  BY DEF ChatNext, Click
<1>5. Filed'
  BY <1>1, <1>4, FiledStays DEF Whole
<1> QED BY <1>2, <1>3, <1>5, IdleWhole

LEMMA ReadFailsWhole ==
    ASSUME ChatTypeOK, ChatTypeOK', Whole, NEW t \in Turns, ReadFails(t), ~interrupted'
    PROVE  (OneTurn /\ Filed /\ Settled /\ Posed)'
<1>1. /\ ~interrupted /\ turn[t].stage = "reading" /\ turn' = [turn EXCEPT ![t] = Over(t)]
      /\ UNCHANGED <<conversations, sessionId>>
  BY DEF ReadFails, chatVars
<1>2. OneTurn /\ Filed /\ Settled /\ UnderWay(t)
  BY <1>1 DEF Whole, UnderWay
<1>3. \A u \in Turns : ~UnderWay(u)'
  BY <1>1, <1>2, OneTurnOver
<1>4. \A u \in Turns : turn[u].stage # "sent"
  BY <1>1, <1>2 DEF OneTurn, UnderWay
<1>5. \A m \in Models : Pairs(conversations'[m])
  BY <1>1, <1>2, <1>4, NobodyWaits
<1>6. [ChatNext]_compareVars
  BY DEF ChatNext, Run
<1>7. Filed'
  BY <1>1, <1>2, <1>6, FiledStays
<1> QED BY <1>3, <1>5, <1>7, IdleWhole
\* The question joins the columns of its turn, and waits there.
LEMMA SendWhole ==
    ASSUME ChatTypeOK, ChatTypeOK', Whole, NEW t \in Turns, Send(t), ~interrupted'
    PROVE  (OneTurn /\ Filed /\ Settled /\ Posed)'
<1>1. /\ ~interrupted /\ isLoading' /\ sessionId' = sessionId
      /\ turn[t].stage = "reading" /\ turn'[t].stage = "sent"
      /\ turn'[t].session = turn[t].session /\ turn'[t].models = turn[t].models
      /\ turn'[t].asked = turn[t].asked
  BY SendFacts DEF Send
<1>2. \A u \in Turns \ {t} : turn'[u] = turn[u]
  BY SendFacts
<1>3. OneTurn /\ Filed /\ Settled /\ Posed /\ UnderWay(t)
  BY <1>1 DEF Whole, UnderWay
<1>4. turn[t].session = sessionId /\ \A u \in Turns : UnderWay(u) => u = t
  BY <1>3 DEF OneTurn
<1>5. \A u \in Turns \ {t} : turn'[u].stage \notin {"reading", "sent"}
  BY <1>2, <1>4 DEF UnderWay
<1>6. OneTurn'
  BY <1>1, <1>4, <1>5 DEF OneTurn, UnderWay
<1>7. Posed'
  <2>1. \A m \in turn[t].models : Owed(turn[t].asked[m], t)
    BY <1>3 DEF Posed, Selected
  <2>2. ASSUME NEW u \in Turns, turn'[u].stage \in {"reading", "sent"}, NEW m \in turn'[u].models
        PROVE  Owed(turn'[u].asked[m], u)
    <3>1. u = t
      BY <1>5, <2>2
    <3>2. m \in turn[t].models
      BY <1>1, <2>2, <3>1
    <3> QED BY <1>1, <2>1, <3>1, <3>2
  <2> QED BY <2>2 DEF Posed, UnderWay, Selected, Owed, Pairs
<1>8. Filed'
  <2>1. [ChatNext]_compareVars
    BY DEF ChatNext, Run
  <2>2. User(t) \in Message /\ User(t).turn = t
    BY MessageFacts DEF User
  <2>3. \A m \in Models : \/ conversations'[m] = conversations[m]
                          \/ conversations'[m] = Append(conversations[m], User(t))
    BY SendFacts
  <2> QED BY <1>1, <1>3, <1>4, <2>1, <2>2, <2>3, FiledGrows
<1>9. \A m \in Models : Pairs(conversations[m])
  <2>1. \A u \in Turns : turn[u].stage # "sent"
    BY <1>1, <1>4 DEF UnderWay
  <2> QED BY <1>3, <2>1, NobodyWaits
<1>10. ASSUME NEW m \in Models, NEW u \in Turns, Awaits(u, m)'
       PROVE  Owed(conversations'[m], u)
  <2>1. u = t /\ turn'[t].calls[m] # "none"
    BY <1>5, <1>10 DEF Awaits
  <2>2. m \in Selected(t)
    BY <2>1, SendFacts
  <2>3. conversations'[m] = Append(conversations[m], User(t))
    BY <2>2, SendFacts
  <2>4. conversations[m] \in Column
    BY DEF ChatTypeOK
  <2> QED BY <1>9, <2>1, <2>3, <2>4, PutQuestion
<1>11. ASSUME NEW m \in Models, ~Awaits(t, m)'
       PROVE  Pairs(conversations'[m])
  <2>1. turn'[t].calls[m] \notin {"waiting", "failed"}
    BY <1>1, <1>11 DEF Awaits
  <2>2. m \notin Selected(t)
    BY <2>1, SendFacts
  <2>3. conversations'[m] = conversations[m]
    BY <2>2, SendFacts
  <2> QED BY <1>9, <2>3
<1>12. Settled'
  BY <1>10, <1>11 DEF Settled, Owed, Pairs
<1> QED BY <1>6, <1>7, <1>8, <1>12

\* Where a turn stands, and what it asked, are kept while its calls are out.
LEMMA CallKeepsTurn ==
    ASSUME ChatTypeOK, OneTurn, Posed, NEW t \in Turns, NEW m \in Models,
           NEW c \in {"shown", "failed"}, turn' = [turn EXCEPT ![t].calls[m] = c],
           sessionId' = sessionId, isLoading' = isLoading
    PROVE  OneTurn' /\ Posed'
<1>1. \A u \in Turns : /\ turn'[u].stage = turn[u].stage /\ turn'[u].session = turn[u].session
                       /\ turn'[u].models = turn[u].models /\ turn'[u].asked = turn[u].asked
  BY CallFacts
<1>2. OneTurn'
  BY <1>1 DEF OneTurn, UnderWay
<1>3. Posed'
  <2>1. ASSUME NEW u \in Turns, turn'[u].stage \in {"reading", "sent"}, NEW k \in turn'[u].models
        PROVE  Owed(turn'[u].asked[k], u)
    <3>1. turn[u].stage \in {"reading", "sent"} /\ k \in turn[u].models
      BY <1>1, <2>1
    <3>2. Owed(turn[u].asked[k], u)
      BY <3>1 DEF Posed, UnderWay, Selected
    <3> QED BY <1>1, <3>2
  <2> QED BY <2>1 DEF Posed, UnderWay, Selected, Owed, Pairs
<1> QED BY <1>2, <1>3

\* The answer meets its question.
LEMMA ShowWhole ==
    ASSUME ChatTypeOK, ChatTypeOK', Whole, NEW t \in Turns, NEW m \in Models,
           Show(t, m), ~interrupted'
    PROVE  (OneTurn /\ Filed /\ Settled /\ Posed)'
<1>1. /\ ~interrupted /\ sessionId' = sessionId /\ isLoading' = isLoading
      /\ turn[t].stage = "sent" /\ turn[t].calls[m] = "waiting"
      /\ turn' = [turn EXCEPT ![t].calls[m] = "shown"]
      /\ conversations'[m] = Append(conversations[m], Assistant(t))
      /\ \A k \in Models \ {m} : conversations'[k] = conversations[k]
  BY ShowFacts
<1>2. OneTurn /\ Filed /\ Settled /\ Posed /\ UnderWay(t)
  BY <1>1 DEF Whole, UnderWay
<1>3. turn[t].session = sessionId /\ \A u \in Turns : UnderWay(u) => u = t
  BY <1>2 DEF OneTurn
<1>4. OneTurn' /\ Posed'
  BY <1>1, <1>2, CallKeepsTurn
<1>5. Filed'
  <2>1. [ChatNext]_compareVars
    BY DEF ChatNext, Run
  <2>2. Assistant(t) \in Message /\ Assistant(t).turn = t
    BY MessageFacts DEF Assistant
  <2>3. \A k \in Models : \/ conversations'[k] = conversations[k]
                          \/ conversations'[k] = Append(conversations[k], Assistant(t))
    BY <1>1
  <2> QED BY <1>1, <1>2, <1>3, <2>1, <2>2, <2>3, FiledGrows
<1>6. Awaits(t, m) /\ \A u \in Turns \ {t} : turn[u].stage # "sent"
  BY <1>1, <1>3 DEF Awaits, UnderWay
<1>7. Pairs(conversations'[m])
  <2>1. conversations[m] \in Column /\ Owed(conversations[m], t)
    BY <1>2, <1>6 DEF Settled, ChatTypeOK
  <2> QED BY <1>1, <2>1, AnsweredPairs
<1>8. /\ turn'[t].calls[m] = "shown" /\ turn'[t].stage = "sent"
      /\ \A k \in Models \ {m} : turn'[t].calls[k] = turn[t].calls[k]
      /\ \A u \in Turns \ {t} : turn'[u] = turn[u]
  BY <1>1, CallFacts
<1>9. \A u \in Turns : ~Awaits(u, m)'
  BY <1>6, <1>8 DEF Awaits
<1>10. ASSUME NEW k \in Models \ {m}
       PROVE  /\ \A u \in Turns : Awaits(u, k)' <=> Awaits(u, k)
              /\ conversations'[k] = conversations[k]
  BY <1>1, <1>6, <1>8 DEF Awaits
<1>11. Settled'
  <2>1. ASSUME NEW k \in Models
        PROVE  /\ \A u \in Turns : Awaits(u, k)' => Owed(conversations'[k], u)
               /\ (\A u \in Turns : ~Awaits(u, k)') => Pairs(conversations'[k])
    <3>1. CASE k = m
      BY <1>7, <1>9, <3>1
    <3>2. CASE k # m
      BY <1>2, <1>10, <3>2 DEF Settled
    <3> QED BY <3>1, <3>2
  <2> QED BY <2>1 DEF Settled, Owed, Pairs
<1> QED BY <1>4, <1>5, <1>11

\* A call that failed still owes its answer, until the turn ends.
LEMMA FailWhole ==
    ASSUME ChatTypeOK, ChatTypeOK', Whole, NEW t \in Turns, NEW m \in Models,
           Fail(t, m), ~interrupted'
    PROVE  (OneTurn /\ Filed /\ Settled /\ Posed)'
<1>1. /\ ~interrupted /\ sessionId' = sessionId /\ isLoading' = isLoading
      /\ turn[t].stage = "sent" /\ turn[t].calls[m] = "waiting"
      /\ turn' = [turn EXCEPT ![t].calls[m] = "failed"]
      /\ conversations' = conversations
  BY DEF Fail, chatVars
<1>2. OneTurn /\ Filed /\ Settled /\ Posed
  BY <1>1 DEF Whole
<1>3. OneTurn' /\ Posed'
  BY <1>1, <1>2, CallKeepsTurn
<1>4. [ChatNext]_compareVars
  BY DEF ChatNext, Run
<1>5. Filed'
  BY <1>1, <1>2, <1>4, FiledStays
<1>6. ASSUME NEW k \in Models, NEW u \in Turns PROVE Awaits(u, k)' <=> Awaits(u, k)
  <2>1. CASE u = t /\ k = m
    BY <1>1, <2>1, CallFacts DEF Awaits
  <2>2. CASE ~(u = t /\ k = m)
    BY <1>1, <2>2, CallFacts DEF Awaits
  <2> QED BY <2>1, <2>2
<1>7. Settled'
  <2>1. ASSUME NEW k \in Models
        PROVE  /\ \A u \in Turns : Awaits(u, k)' => Owed(conversations'[k], u)
               /\ (\A u \in Turns : ~Awaits(u, k)') => Pairs(conversations'[k])
    BY <1>1, <1>2, <1>6 DEF Settled
  <2> QED BY <2>1 DEF Settled, Owed, Pairs
<1> QED BY <1>3, <1>5, <1>7

\* The questions that got no answer are retracted: the columns are of pairs.
LEMMA FinishWhole ==
    ASSUME ChatTypeOK, ChatTypeOK', Begun, Whole, NEW t \in Turns, Finish(t), ~interrupted'
    PROVE  (OneTurn /\ Filed /\ Settled /\ Posed)'
<1>1. /\ ~interrupted /\ sessionId' = sessionId /\ turn[t].stage = "sent"
      /\ turn' = [turn EXCEPT ![t] = Over(t)] /\ conversations' = Retract(t)
      /\ \A m \in Models : turn[t].calls[m] # "waiting"
  BY FinishFacts
<1>2. OneTurn /\ Filed /\ Settled /\ UnderWay(t)
  BY <1>1 DEF Whole, UnderWay
<1>3. turn[t].session = sessionId /\ \A u \in Turns : UnderWay(u) => u = t
  BY <1>2 DEF OneTurn
<1>4. \A u \in Turns : ~UnderWay(u)'
  BY <1>1, <1>2, OneTurnOver
<1>5. ASSUME NEW m \in Models
      PROVE  conversations'[m] = IF m \in Failed(t) /\ conversations[m] # <<>>
                                 THEN Front(conversations[m]) ELSE conversations[m]
  BY <1>1, RetractFacts
<1>6. ASSUME NEW m \in Models PROVE Pairs(conversations'[m])
  <2>1. CASE m \in Failed(t)
    <3>1. Awaits(t, m)
      BY <1>1, <2>1 DEF Awaits, Failed
    <3>2. Owed(conversations[m], t)
      BY <1>2, <3>1 DEF Settled
    <3> QED BY <1>5, <2>1, <3>2 DEF Owed
  <2>2. CASE m \notin Failed(t)
    <3>1. turn[t].calls[m] \notin {"waiting", "failed"}
      BY <1>1, <2>2 DEF Failed, Selected, Begun
    <3>2. \A u \in Turns : ~Awaits(u, m)
      BY <1>3, <3>1 DEF Awaits, UnderWay
    <3> QED BY <1>2, <1>5, <2>2, <3>2 DEF Settled
  <2> QED BY <2>1, <2>2
<1>7. Filed'
  <2>1. [ChatNext]_compareVars
    BY DEF ChatNext, Run
  <2>2. User(t) \in Message /\ User(t).turn = t
    BY MessageFacts DEF User
  <2>3. \A m \in Models : \/ conversations'[m] = conversations[m]
                          \/ /\ conversations[m] # <<>>
                             /\ conversations'[m] = Front(conversations[m])
    BY <1>5
  <2> QED BY <1>1, <1>2, <1>3, <2>1, <2>2, <2>3, FiledGrows
<1> QED BY <1>4, <1>6, <1>7, IdleWhole

\* The click on send: no other turn is under way, so its session is the one shown
\* and what it asks is the pairs on show and its question.
LEMMA SubmitWhole ==
    ASSUME ChatTypeOK, ChatTypeOK', Begun, Whole, NEW t \in Turns, SubmitPrompt(t),
           ~interrupted'
    PROVE  (OneTurn /\ Filed /\ Settled /\ Posed)'
<1>1. /\ ~interrupted /\ ~Busy /\ conversations' = conversations
      /\ turn'[t].stage = "reading" /\ turn'[t].session = sessionId'
      /\ turn'[t].models = selectedModels /\ turn[t].stage = "free"
  BY SubmitFacts DEF SubmitPrompt
<1>2. /\ \A u \in Turns \ {t} : turn'[u] = turn[u]
      /\ \A m \in selectedModels : turn'[t].asked[m] = Append(conversations[m], User(t))
      /\ sessionId # NoSession => sessionId' = sessionId
  BY SubmitFacts
<1>3. \A u \in Turns \ {t} : turn'[u].stage \notin {"reading", "sent"}
  BY <1>1, <1>2 DEF Busy, UnderWay
<1>4. OneTurn'
  BY <1>1, <1>3 DEF OneTurn, UnderWay
<1>5. \A m \in Models : Pairs(conversations[m])
  <2>1. \A u \in Turns : turn[u].stage # "sent"
    BY <1>1 DEF Busy, UnderWay
  <2> QED BY <1>1, <2>1, NobodyWaits DEF Whole
<1>6. ASSUME NEW m \in selectedModels PROVE Owed(turn'[t].asked[m], t)
  <2>1. conversations[m] \in Column /\ m \in Models
    BY DEF ChatTypeOK
  <2> QED BY <1>2, <1>5, <2>1, PutQuestion
<1>7. Posed'
  <2>1. ASSUME NEW u \in Turns, turn'[u].stage \in {"reading", "sent"}, NEW m \in turn'[u].models
        PROVE  Owed(turn'[u].asked[m], u)
    <3>1. u = t
      BY <1>3, <2>1
    <3> QED BY <1>1, <1>6, <2>1, <3>1
  <2> QED BY <2>1 DEF Posed, UnderWay, Selected, Owed, Pairs
<1>8. Settled'
  <2>1. \A m \in Models, u \in Turns : ~Awaits(u, m)'
    BY <1>1, <1>3 DEF Awaits
  <2> QED BY <1>1, <1>5, <2>1 DEF Settled, Pairs
<1>9. Filed'
  <2> SUFFICES ASSUME NEW m \in Models, NEW i \in DOMAIN conversations[m]
               PROVE  LET u == conversations[m][i].turn IN
                      turn'[u].stage # "free" /\ turn'[u].session = sessionId'
    BY <1>1 DEF Filed
  <2> DEFINE u == conversations[m][i].turn
  <2>1. conversations[m] \in Column
    BY DEF ChatTypeOK
  <2>2. u \in Turns /\ turn[u].stage # "free" /\ turn[u].session = sessionId
    BY <1>1, <2>1, MessageAt DEF Whole, Filed
  <2> HIDE DEF u
  <2>3. turn'[u] = turn[u] /\ turn[u].session # NoSession
    BY <1>1, <1>2, <2>2, ChatAssumption DEF Begun
  <2> QED BY <1>2, <2>2, <2>3 DEF u
<1> QED BY <1>4, <1>7, <1>8, <1>9
\* The invariant holds at the start and is kept.
LEMMA ChatInvInit == ChatInit => ChatInv
<1> SUFFICES ASSUME ChatInit PROVE ChatInv
  OBVIOUS
<1>1. ChatTypeOK
  BY ChatTypesInit
<1>2. /\ loads = {} /\ ~isLoading /\ ~interrupted
      /\ \A t \in Turns : turn[t].stage = "free" /\ \A m \in Models : turn[t].calls[m] = "none"
      /\ \A t \in Turns : \A m \in Models : row[t][m] = "none"
      /\ \A m \in Models : conversations[m] = <<>>
  BY ClosureFacts DEF ChatInit, emptyConversations
<1>3. Begun /\ ReadRight /\ Barred
  BY <1>2 DEF Begun, ReadRight, Barred
<1>4. OneTurn /\ Filed /\ Settled /\ Posed
  BY <1>2, EmptyPairs DEF OneTurn, Filed, Settled, Posed, Awaits, UnderWay
<1> QED BY <1>1, <1>3, <1>4 DEF ChatInv, Whole

LEMMA QuietWhole ==
    ASSUME Whole, Quiet
    PROVE  Whole'
<1>1. /\ conversations' = conversations /\ sessionId' = sessionId /\ turn' = turn
      /\ isLoading' = isLoading /\ interrupted' = interrupted
  BY DEF Quiet
<1>2. OneTurn => OneTurn'
  BY <1>1 DEF OneTurn, UnderWay
<1>3. Filed => Filed'
  BY <1>1 DEF Filed
<1>4. ASSUME Settled PROVE Settled'
  <2>1. ASSUME NEW m \in Models
        PROVE  /\ \A t \in Turns : Awaits(t, m)' => Owed(conversations'[m], t)
               /\ (\A t \in Turns : ~Awaits(t, m)') => Pairs(conversations'[m])
    BY <1>1, <1>4 DEF Settled, Awaits
  <2> QED BY <2>1 DEF Settled, Owed, Pairs
<1>5. ASSUME Posed PROVE Posed'
  <2>1. ASSUME NEW t \in Turns, UnderWay(t)', NEW m \in turn'[t].models
        PROVE  Owed(turn'[t].asked[m], t)
    BY <1>1, <1>5, <2>1 DEF Posed, UnderWay, Selected
  <2> QED BY <2>1 DEF Posed, Selected, Owed, Pairs
<1> QED BY <1>1, <1>2, <1>3, <1>4, <1>5 DEF Whole

LEMMA WholeStep ==
    ASSUME ChatTypeOK, ChatTypeOK', Begun, ReadRight, Whole, [ChatNext]_compareVars
    PROVE  Whole'
<1>1. CASE Quiet
  BY <1>1, QuietWhole
<1>2. ASSUME NEW d \in deletes, Deleted(d) PROVE Whole'
  <2>1. CASE d.shown = d.id
    BY <1>2, <2>1, NewChatWhole DEF Whole
  <2>2. CASE d.shown # d.id
    <3>1. UNCHANGED <<conversations, sessionId, isLoading, turn, row, loads, interrupted>>
      BY <1>2, <2>2 DEF Deleted
    <3>2. Quiet
      BY <3>1 DEF Quiet
    <3> QED BY <3>2, QuietWhole
  <2> QED BY <2>1, <2>2
<1>3. ASSUME ~interrupted', ~Quiet, \A d \in deletes : ~Deleted(d)
      PROVE  (OneTurn /\ Filed /\ Settled /\ Posed)'
  <2>1. CASE NewChat
    BY <1>3, <2>1, NewChatWhole
  <2>2. CASE Reload
    BY <1>3, <2>2, ReloadWhole
  <2>3. ASSUME NEW t \in Turns, TurnStep(t) PROVE (OneTurn /\ Filed /\ Settled /\ Posed)'
    BY <1>3, <2>3, SubmitWhole, ReadFailsWhole, SendWhole, FinishWhole DEF TurnStep
  <2>4. ASSUME NEW t \in Turns, NEW m \in Models, Show(t, m) \/ Fail(t, m)
        PROVE  (OneTurn /\ Filed /\ Settled /\ Posed)'
    BY <1>3, <2>4, ShowWhole, FailWhole
  <2>5. ASSUME NEW d \in loads, LoadSession(d) PROVE (OneTurn /\ Filed /\ Settled /\ Posed)'
    BY <1>3, <2>5, LoadWhole
  <2> QED
    BY <1>3, <2>1, <2>2, <2>3, <2>4, <2>5, StepKinds, QuietSteps DEF CallStep
<1> QED BY <1>1, <1>2, <1>3 DEF Whole

LEMMA ChatInvStep == ChatInv /\ [ChatNext]_compareVars => ChatInv'
BY ChatTypesStep, BegunStep, ReadRightStep, LockStep, WholeStep DEF ChatInv

LEMMA ChatInvAlways == ChatSpec => []ChatInv
BY ChatInvInit, ChatInvStep, PTL DEF ChatSpec

(***************************************************************************)
(* The theorems.                                                           *)
(***************************************************************************)

\* Types: of the columns, the closures of the turns, their rows and the requests
\* in flight of hooks/useChat.ts.
THEOREM ChatTyped == ChatSpec => []ChatTypeOK
<1>1. ChatInv => ChatTypeOK
  BY DEF ChatInv
<1> QED BY <1>1, ChatInvAlways, PTL

\* submitPrompt of hooks/useChat.ts: for any number of models, sessions and turns,
\* in any order of answers and failures, a column pairs every question with its own
\* answer but for the question that waits, and a call sends those pairs and the new
\* question, unless the conversation was changed under a running turn.
THEOREM QuestionsAlwaysMeetAnswers == ChatSpec => []QuestionsMeetAnswers
<1>1. ASSUME ChatInv PROVE QuestionsMeetAnswers
  <2> SUFFICES ASSUME ~interrupted
               PROVE  /\ \A m \in Models :
                           \/ Pairs(conversations[m])
                           \/ \E t \in Turns : /\ Awaits(t, m)
                                               /\ Last(conversations[m]) = User(t)
                                               /\ Pairs(Front(conversations[m]))
                      /\ \A t \in Turns : UnderWay(t) =>
                           \A m \in Selected(t) : /\ Last(turn[t].asked[m]) = User(t)
                                                  /\ Pairs(Front(turn[t].asked[m]))
    BY DEF QuestionsMeetAnswers
  <2>1. Settled /\ Posed
    BY <1>1 DEF ChatInv, Whole
  <2> QED BY <2>1 DEF Settled, Posed, Owed
<1> QED BY <1>1, ChatInvAlways, PTL

\* Every message on show belongs to the session the next question is filed under,
\* unless the conversation was so changed: loadSession, newChat and the deletion of
\* the session on show replace the columns and sessionId together.
THEOREM AlwaysOneSession == ChatSpec => []OneSession
<1>1. ChatInv => OneSession
  BY DEF ChatInv, Whole, Filed, OneSession
<1> QED BY <1>1, ChatInvAlways, PTL

\* isLoading of hooks/useChat.ts and the dots of components/ModelColumn.tsx: the send
\* button is locked exactly while calls are out, and the dots are under exactly the
\* columns that are owed an answer, unless the conversation was so changed.
THEOREM SpinnerAlwaysMeansWaiting == ChatSpec => []SpinnerMeansWaiting
<1>1. ASSUME ChatInv PROVE SpinnerMeansWaiting
  <2> SUFFICES ASSUME ~interrupted
               PROVE  /\ isLoading <=> \E t \in Turns : turn[t].stage = "sent"
                      /\ \A m \in Models : ShowTyping(m) <=> \E t \in Turns : Awaits(t, m)
    BY DEF SpinnerMeansWaiting
  <2>1. OneTurn /\ Settled /\ Barred /\ ChatTypeOK
    BY <1>1 DEF ChatInv, Whole
  <2>2. isLoading <=> \E t \in Turns : turn[t].stage = "sent"
    BY <2>1 DEF OneTurn, Barred, UnderWay
  <2>3. ASSUME NEW m \in Models, NEW t \in Turns, Awaits(t, m) PROVE ShowTyping(m)
    <3>1. Owed(conversations[m], t) /\ isLoading
      BY <2>1, <2>2, <2>3 DEF Settled, Awaits
    <3> QED BY <3>1 DEF Owed, ShowTyping, User
  <2>4. ASSUME NEW m \in Models, ShowTyping(m) PROVE \E t \in Turns : Awaits(t, m)
    <3> SUFFICES ASSUME \A t \in Turns : ~Awaits(t, m) PROVE FALSE
      OBVIOUS
    <3>1. Pairs(conversations[m]) /\ conversations[m] \in Column
      BY <2>1 DEF Settled, ChatTypeOK
    <3>2. Last(conversations[m]).role = "assistant"
      BY <2>4, <3>1, PairsEndAnswered DEF ShowTyping
    <3> QED BY <2>4, <3>2 DEF ShowTyping
  <2> QED BY <2>2, <2>3, <2>4
<1> QED BY <1>1, ChatInvAlways, PTL

-----------------------------------------------------------------------------
USE StudioAssumption

Stages == {"sent", "abandoned", "done", "listing", "listed"}

\* What a request asks never changes; its mark, its stage and what it read do.
Same(q, r) == q.n = r.n /\ q.op = r.op /\ q.id = r.id /\ q.section = r.section /\ q.value = r.value

\* A request that asks for something has what it needs.
WellAsked(r) ==
    /\ r.op = "retry" => r.stage \in {"listing", "listed"}
    /\ r.op # "retry" => r.id \in Ids
    /\ r.op = "put" <=> r.section \in Sections
    /\ r.op \in {"put", "deploy"} => r.value \in Values

\* The chain of an open detail is a value whatever the user types.
Filled == View = "detail" => form["model"] \in Values

Typed == TypeOK /\ Filled /\ \A r \in pending : WellAsked(r)

\* A request that will have the registry as it now is read again.
Brings(r) == \/ r.stage = "done" /\ r.op # "draft"
             \/ r.stage = "listing"
             \/ r.stage = "listed" /\ r.rev = rev

\* A list that was read is of no later revision than the registry, and of the same
\* one only when it is the registry.
AsRead(r) == r.stage = "listed" => r.rev <= rev /\ (r.rev = rev => r.list = server)

\* A list on show that is as new as the registry is the registry, and one that is
\* older has a request behind it that will bring the newest; but for the error and
\* the disturbances that Current names.
Refreshed ==
    /\ seen <= rev /\ \A r \in pending : AsRead(r)
    /\ seen = rev => tasks = server \/ error \/ disturbed
    /\ seen = rev \/ disturbed \/ \E r \in pending : Brings(r)

\* The rest is of an open detail.  What is out was asked by it, of its task, and
\* at most one save of a section is on its way.
Saves(r, s) == r.op = "put" /\ r.section = s

OwnOnly == \A r \in pending : r.mine /\ r.op # "create" /\ (r.op # "retry" => r.id = selectedId)

OneSave == \A r, q \in pending :
    r.op = "put" /\ q.op = "put" /\ r.section = q.section /\ r.stage # "abandoned" /\ q.stage # "abandoned"
        => r = q

\* A save of s was carried out, and a list of a revision after v will follow it.
Follows(r, s, v) == /\ Saves(r, s)
                    /\ r.stage \in {"done", "listing"} \/ (r.stage = "listed" /\ v < r.rev)

Agrees(list, s) == list[selectedId] # Absent => list[selectedId].config[s] = server[selectedId].config[s]

\* A section the user left alone holds the server's copy, or a text that saves as
\* it; a save of it is of that text, one that was carried out is that copy; and a list, on show or read and
\* not outdated, has that copy too unless the list of a save follows it.
Untouched(s) == s \notin edited => server[selectedId].config[s] \in {form[s], Saving(s)}
SaveHolds(s) == \A r \in pending : Saves(r, s) =>
                   /\ r.stage = "sent" /\ s \notin edited => r.value = Saving(s)
                   /\ r.stage = "done" => r.value = server[selectedId].config[s]
ShownAgrees(s) == error \/ Agrees(tasks, s) \/ \E q \in pending : Follows(q, s, seen)
ReadAgrees(s)  == \A r \in pending : r.stage = "listed" /\ seen <= r.rev =>
                     Agrees(r.list, s) \/ \E q \in pending : Follows(q, s, r.rev)

Kept(s) == Untouched(s) /\ SaveHolds(s) /\ ShownAgrees(s) /\ ReadAgrees(s)

\* A task that is gone from the registry was deleted by the detail itself.
Present == server[selectedId] # Absent
Deleting == \E r \in pending : r.op = "delete" /\ r.stage = "done"

Sound == /\ ~disturbed /\ OwnOnly /\ OneSave
         /\ Present => \A s \in Sections : Kept(s)
         /\ Present \/ Deleting

DetailSound == View = "detail" /\ ~mixed => Sound

-----------------------------------------------------------------------------
LEMMA RequestFields ==
    ASSUME NEW r \in Request
    PROVE  /\ r.n \in 1..MaxRequests /\ r.id \in Ids \cup {NoId}
           /\ r.op \in {"put", "draft", "deploy", "delete", "create", "retry"}
           /\ r.section \in Sections \cup {"none"} /\ r.value \in Values \cup {Bad}
           /\ r.stage \in Stages /\ r.list \in List /\ r.rev \in Nat /\ r.mine \in BOOLEAN
BY DEF Request, Stages

\* A request moves on to another stage.
LEMMA Staged ==
    ASSUME NEW r \in Request, NEW st \in Stages
    PROVE  LET q == [r EXCEPT !.stage = st]
           IN q \in Request /\ Same(q, r) /\ q.stage = st /\ q.list = r.list /\ q.rev = r.rev /\ q.mine = r.mine
BY DEF Request, Stages, Same

\* The page that sent it is gone.
LEMMA Orphaned ==
    ASSUME NEW r \in Request
    PROVE  LET q == [r EXCEPT !.mine = FALSE]
           IN q \in Request /\ Same(q, r) /\ q.stage = r.stage /\ q.list = r.list /\ q.rev = r.rev
BY DEF Request, Same

LEMMA SameAsked ==
    ASSUME NEW q, NEW r, Same(q, r), WellAsked(r),
           r.op = "retry" => q.stage \in {"listing", "listed"}
    PROVE  WellAsked(q)
BY DEF Same, WellAsked

LEMMA TaskIsThere == \A t \in Task : t # Absent
BY DEF Task

LEMMA ViewTyped == View \in {"create", "detail", "none"}
BY DEF View

LEMMA InDetail == View = "detail" => ~creating /\ selectedId # NoId /\ tasks[selectedId] # Absent
BY DEF View

LEMMA InCreate == View = "create" <=> creating
BY DEF View

\* What a section saves is a value or nothing; but for names, a value stands for itself.
LEMMA SavingTyped ==
    ASSUME form \in [Sections -> Texts], NEW s \in Sections
    PROVE  Saving(s) \in Values \cup {Bad}
BY TextAssumption DEF Saving

LEMMA ValuesAreMeant ==
    ASSUME NEW s \in Sections, s # "identity", NEW v \in Values
    PROVE  Meant[s][v] = v /\ v # Bad
BY TextAssumption

\* The list entry of an open detail is a task.
LEMMA OpenTask ==
    ASSUME TypeOK, View = "detail"
    PROVE  /\ selectedId \in Ids /\ tasks[selectedId] \in Task
           /\ tasks[selectedId].config \in [Sections -> Values] /\ tasks[selectedId].prompt \in Values
<1>1. selectedId \in Ids /\ tasks[selectedId] \in Task
  BY InDetail DEF TypeOK, List
<1>2. QED
  BY <1>1 DEF Task

-----------------------------------------------------------------------------
\* Typing.  A step that may change what fills the page.
LEMMA OpenedTyped ==
    ASSUME TypeOK, Filled, NEW rs, rs \subseteq Request, \A r \in rs : WellAsked(r),
           NEW kept, kept \subseteq Sections, Opened(rs, kept),
           tasks' \in List, selectedId' \in Ids \cup {NoId}, creating' \in BOOLEAN,
           disturbed' \in BOOLEAN, error' \in BOOLEAN
    PROVE  /\ pending' \subseteq Request /\ (\A r \in pending' : WellAsked(r))
           /\ form' \in [Sections -> Texts] /\ edited' \subseteq Sections
           /\ draft' \in [Ids -> Values \cup {Bad}] /\ mixed' \in BOOLEAN
           /\ Filled'
<1>1. CASE ~Remounts
  <2>1. pending' = rs /\ edited' = kept /\ form' = form /\ draft' = draft
    BY <1>1 DEF Opened
  <2>2. mixed' = (mixed \/ (disturbed' /\ ~disturbed))
    BY <1>1 DEF Opened
  <2>3. mixed' \in BOOLEAN
    BY <2>2, ZenonT(30) DEF TypeOK
  <2>4. Filled'
    BY <1>1, <2>1 DEF Filled, Remounts
  <2>5. QED
    BY <2>1, <2>3, <2>4 DEF TypeOK
<1>2. CASE Remounts
  <2>1. /\ edited' = {} /\ pending' = {[r EXCEPT !.mine = FALSE] : r \in rs}
        /\ mixed' = (disturbed' \/ error' \/ rs # {})
        /\ IF View' = "detail"
           THEN /\ form'  = tasks'[selectedId'].config
                /\ draft' = [draft EXCEPT ![selectedId'] =
                                IF @ = Bad THEN tasks'[selectedId'].prompt ELSE @]
           ELSE form' = NoForm /\ UNCHANGED draft
    BY <1>2 DEF Opened
  <2>2. pending' \subseteq Request /\ \A r \in pending' : WellAsked(r)
    <3>1. ASSUME NEW q \in pending' PROVE q \in Request /\ WellAsked(q)
      <4>1. PICK r \in rs : q = [r EXCEPT !.mine = FALSE]
        BY <2>1, <3>1
      <4>2. q \in Request /\ Same(q, r) /\ q.stage = r.stage
        BY <4>1, Orphaned
      <4>3. WellAsked(r)
        OBVIOUS
      <4>4. QED
        BY <4>2, <4>3, SameAsked DEF WellAsked
    <3>2. QED
      BY <3>1
  <2>3. mixed' \in BOOLEAN
    BY <2>1, ZenonT(30)
  <2>4. CASE View' = "detail"
    <3>1. selectedId' \in Ids /\ tasks'[selectedId'] \in Task
      BY <2>4 DEF View, List
    <3>2. tasks'[selectedId'].config \in [Sections -> Values] /\ tasks'[selectedId'].prompt \in Values
      BY <3>1 DEF Task
    <3>3. form' \in [Sections -> Values] /\ "model" \in Sections /\ Values \subseteq Texts
      BY <2>1, <2>4, <3>2, TextAssumption DEF Sections
    <3>4. draft' \in [Ids -> Values \cup {Bad}]
      BY <2>1, <2>4, <3>1, <3>2 DEF TypeOK
    <3>5. Filled'
      BY <3>3 DEF Filled
    <3>6. QED
      BY <2>1, <2>2, <2>3, <3>3, <3>4, <3>5
  <2>5. CASE View' # "detail"
    <3>1. form' = NoForm /\ draft' = draft
      BY <2>1, <2>5
    <3>2. form' \in [Sections -> Texts]
      BY <3>1, TextAssumption DEF NoForm
    <3>3. Filled'
      BY <2>5 DEF Filled
    <3>4. QED
      BY <2>1, <2>2, <2>3, <3>1, <3>2, <3>3 DEF TypeOK
  <2>6. QED
    BY <2>4, <2>5
<1>3. QED
  BY <1>1, <1>2

LEMMA InitTyped == Init => Typed
<1> SUFFICES ASSUME Init PROVE Typed
  OBVIOUS
<1>1. Created \in Task /\ \A there \in SUBSET Ids : [i \in Ids |-> IF i \in there THEN Created ELSE Absent] \in List
  BY DEF Created, Task, List
<1>2. server \in List
  BY <1>1 DEF Init
<1>3. View = "none"
  BY DEF Init, View
<1>4. form \in [Sections -> Texts] /\ draft \in [Ids -> Values \cup {Bad}] /\ newTask \in NewTask
  BY TextAssumption DEF Init, NoForm, NewTask, Blank
<1>5. TypeOK
  <2>1. /\ rev = 0 /\ tasks = server /\ seen = 0 /\ error = FALSE /\ selectedId = NoId /\ creating = FALSE
        /\ edited = {} /\ pending = {} /\ used = 0 /\ disturbed = FALSE /\ mixed = FALSE
    BY DEF Init
  <2>2. used \in 0..MaxRequests
    BY <2>1
  <2>3. QED
    BY <1>2, <1>4, <2>1, <2>2 DEF TypeOK
<1>6. QED
  BY <1>3, <1>5 DEF Init, Typed, Filled

LEMMA AskTyped ==
    ASSUME Typed, NEW op \in {"put", "draft", "deploy", "delete", "create", "retry"},
           NEW id \in Ids \cup {NoId}, NEW s \in Sections \cup {"none"}, NEW v \in Values \cup {Bad},
           Ask(op, id, s, v),
           op # "retry" => id \in Ids, op = "put" <=> s \in Sections,
           op \in {"put", "deploy"} => v \in Values
    PROVE  Typed'
<1> DEFINE q == [n |-> used + 1, op |-> op, id |-> id, section |-> s, value |-> v,
                 stage |-> IF op = "retry" THEN "listing" ELSE "sent",
                 list |-> tasks, rev |-> 0, mine |-> TRUE]
<1>1. /\ used < MaxRequests /\ used' = used + 1 /\ pending' = pending \cup {q}
      /\ UNCHANGED <<registry, page, detail, drafts, history>>
  BY DEF Ask
<1>2. used \in 0..MaxRequests /\ tasks \in List
  BY DEF Typed, TypeOK
<1>3. used + 1 \in 1..MaxRequests /\ used' \in 0..MaxRequests
  BY <1>1, <1>2
<1>4. q \in Request
  BY <1>2, <1>3 DEF Request
<1>5. WellAsked(q)
  BY DEF WellAsked
<1>6. View' = View
  BY <1>1 DEF View, page
<1> HIDE DEF q
<1>7. Filled'
  BY <1>1, <1>6 DEF Typed, Filled, detail, page
<1>8. pending' \subseteq Request /\ \A r \in pending' : WellAsked(r)
  BY <1>1, <1>4, <1>5 DEF Typed, TypeOK
<1>9. QED
  BY <1>1, <1>3, <1>7, <1>8 DEF Typed, TypeOK, registry, page, detail, drafts, history

LEMMA PressTyped == ASSUME Typed, Press PROVE Typed'
<1>1. ASSUME View = "detail", NEW s \in Sections, Save(s), Saving(s) # Bad PROVE Typed'
  <2>1. selectedId \in Ids /\ Saving(s) \in Values
    BY <1>1, OpenTask, SavingTyped DEF Typed, TypeOK
  <2>2. Ask("put", selectedId, s, Saving(s))
    BY <1>1 DEF Save
  <2>3. QED
    BY <2>1, <2>2, AskTyped
<1>2. CASE SaveIdentity \/ SaveModel \/ SaveSampling \/ SaveBudget \/ SaveLimits \/ SaveSchema
  <2>1. View = "detail"
    BY <1>2 DEF SaveIdentity, SaveModel, SaveSampling, SaveBudget, SaveLimits, SaveSchema, Save
  <2>2. Saving("model") # Bad
    BY <2>1, ValuesAreMeant DEF Typed, Filled, Saving, Sections
  <2>3. {"identity", "model", "sampling", "budget", "limits", "schema"} \subseteq Sections
    BY DEF Sections
  <2>4. \E s \in Sections : Save(s) /\ Saving(s) # Bad
    BY <1>2, <2>2, <2>3 DEF SaveIdentity, SaveModel, SaveSampling, SaveBudget, SaveLimits, SaveSchema
  <2>5. QED
    BY <1>1, <2>1, <2>4
<1>3. CASE SaveDraft
  <2>1. selectedId \in Ids /\ draft[selectedId] \in Values \cup {Bad}
    BY <1>3, OpenTask DEF Typed, TypeOK, SaveDraft
  <2>2. Ask("draft", selectedId, "none", draft[selectedId]) /\ "none" \notin Sections
    BY <1>3 DEF SaveDraft, Sections
  <2>3. QED
    BY <2>1, <2>2, AskTyped
<1>4. CASE DeleteTask
  <2>1. Ask("delete", selectedId, "none", Bad) /\ "none" \notin Sections /\ selectedId \in Ids
    BY <1>4, OpenTask DEF Typed, DeleteTask, Sections
  <2>2. QED
    BY <2>1, AskTyped
<1>5. CASE Submit
  <2>1. Ask("create", newTask.id, "none", Bad) /\ "none" \notin Sections /\ newTask.id \in Ids
    BY <1>5 DEF Typed, TypeOK, NewTask, Submit, Sections
  <2>2. QED
    BY <2>1, AskTyped
<1>6. CASE Retry
  <2>1. Ask("retry", NoId, "none", Bad) /\ "none" \notin Sections
    BY <1>6 DEF Retry, Sections
  <2>2. QED
    BY <2>1, AskTyped
<1>7. ASSUME NEW v \in Values, Deploy(v) PROVE Typed'
  <2>1. Ask("deploy", selectedId, "none", v) /\ "none" \notin Sections /\ selectedId \in Ids
    BY <1>7, OpenTask DEF Typed, Deploy, Sections
  <2>2. QED
    BY <2>1, AskTyped
<1>8. QED
  BY <1>2, <1>3, <1>4, <1>5, <1>6, <1>7 DEF Press

\* A step that opens or leaves a page: what it leaves pending is asked as before.
LEMMA TurnTyped ==
    ASSUME Typed, NEW rs, rs \subseteq Request, \A r \in rs : WellAsked(r),
           NEW kept, kept \subseteq Sections, Opened(rs, kept),
           server' = server, rev' = rev, used' = used, newTask' \in NewTask, seen' \in Nat,
           tasks' \in List, selectedId' \in Ids \cup {NoId}, creating' \in BOOLEAN,
           disturbed' \in BOOLEAN, error' \in BOOLEAN
    PROVE  Typed'
<1>1. TypeOK /\ Filled
  BY DEF Typed
<1>2. /\ pending' \subseteq Request /\ (\A r \in pending' : WellAsked(r))
      /\ form' \in [Sections -> Texts] /\ edited' \subseteq Sections
      /\ draft' \in [Ids -> Values \cup {Bad}] /\ mixed' \in BOOLEAN
      /\ Filled'
  BY <1>1, OpenedTyped
<1>3. QED
  BY <1>1, <1>2 DEF Typed, TypeOK

LEMMA MoveTyped == ASSUME Typed, Move PROVE Typed'
<1>1. ASSUME NEW id \in Ids, Choose(id) PROVE Typed'
  <2>1. /\ selectedId' \in Ids \cup {NoId} /\ creating' = FALSE /\ Opened(pending, edited)
        /\ UNCHANGED <<registry, tasks, seen, error, newTask, used, disturbed>>
    BY <1>1 DEF Choose
  <2>2. QED
    BY <2>1, TurnTyped DEF Typed, TypeOK, registry
<1>2. ASSUME New \/ Cancel PROVE Typed'
  <2>1. /\ selectedId' \in Ids \cup {NoId} /\ creating' \in BOOLEAN /\ Opened(pending, edited)
        /\ UNCHANGED <<registry, tasks, seen, error, newTask, used, disturbed>>
    BY <1>2 DEF New, Cancel, Typed, TypeOK
  <2>2. QED
    BY <2>1, TurnTyped DEF Typed, TypeOK, registry
<1>3. ASSUME NEW t \in NewTask, FillForm(t) PROVE Typed'
  BY <1>3 DEF FillForm, Typed, TypeOK, Filled, View, registry, page, detail, history
<1>4. ASSUME NEW s \in Sections, Reset(s) PROVE Typed'
  <2>1. /\ form' = [form EXCEPT ![s] = tasks[selectedId].config[s]] /\ edited' = edited \ {s}
        /\ mixed' = (mixed \/ error) /\ View = "detail"
        /\ UNCHANGED <<registry, page, drafts, pending, used, disturbed>>
    BY <1>4 DEF Reset
  <2>2. tasks[selectedId].config[s] \in Values
    BY <2>1, OpenTask DEF Typed
  <2>3. mixed' \in BOOLEAN
    BY <2>1, ZenonT(30) DEF Typed, TypeOK
  <2>4. form' \in [Sections -> Texts] /\ form'["model"] \in Values
    BY <2>1, <2>2, TextAssumption DEF Typed, TypeOK, Filled, Sections
  <2>5. QED
    BY <2>1, <2>3, <2>4 DEF Typed, TypeOK, Filled, registry, page, drafts
<1>5. ASSUME NEW s \in Sections, NEW v \in Texts, Edit(s, v) PROVE Typed'
  <2>1. /\ form' = [form EXCEPT ![s] = v] /\ edited' = edited \cup {s} /\ View = "detail" /\ (s = "model" => v \in Values)
        /\ UNCHANGED <<registry, page, drafts, pending, used, history>>
    BY <1>5 DEF Edit, Inputs
  <2>2. form' \in [Sections -> Texts] /\ form'["model"] \in Values
    BY <2>1 DEF Typed, TypeOK, Filled, Sections
  <2>3. QED
    BY <2>1, <2>2 DEF Typed, TypeOK, Filled, registry, page, drafts, history
<1>6. ASSUME NEW v \in Values, EditDraft(v) PROVE Typed'
  <2>1. selectedId \in Ids
    BY <1>6, OpenTask DEF Typed, EditDraft
  <2>2. draft' \in [Ids -> Values \cup {Bad}]
    BY <1>6, <2>1 DEF EditDraft, Typed, TypeOK
  <2>3. QED
    BY <1>6, <2>2 DEF EditDraft, Typed, TypeOK, Filled, View, registry, page, detail, history
<1>7. QED
  BY <1>1, <1>2, <1>3, <1>4, <1>5, <1>6 DEF Move

LEMMA OutcomeTyped ==
    ASSUME TypeOK, NEW r \in pending, WellAsked(r), r.stage \in {"sent", "abandoned"}, Legal(r)
    PROVE  r.id \in Ids /\ Outcome(r) \in Task \cup {Absent}
<1>1. r \in Request /\ server \in List
  BY DEF TypeOK
<1>2. r.op # "retry" /\ r.id \in Ids
  BY DEF WellAsked
<1>3. server[r.id] \in Task \cup {Absent}
  BY <1>1, <1>2 DEF List
<1>4. r.op \in {"put", "draft", "deploy", "delete", "create"}
  BY <1>1, <1>2, RequestFields
<1>5. CASE r.op = "put"
  <2>1. server[r.id] \in Task /\ r.section \in Sections /\ r.value \in Values
    BY <1>3, <1>5 DEF Legal, WellAsked
  <2>2. [server[r.id] EXCEPT !.config[r.section] = r.value] \in Task
    BY <2>1 DEF Task
  <2>3. QED
    BY <1>2, <1>5, <2>2 DEF Outcome
<1>6. CASE r.op = "deploy"
  <2>1. server[r.id] \in Task /\ r.value \in Values
    BY <1>3, <1>6 DEF Legal, WellAsked
  <2>2. [server[r.id] EXCEPT !.prompt = r.value] \in Task
    BY <2>1 DEF Task
  <2>3. QED
    BY <1>2, <1>6, <2>2 DEF Outcome
<1>7. CASE r.op = "draft"
  BY <1>2, <1>3, <1>7 DEF Outcome
<1>8. CASE r.op = "delete"
  BY <1>2, <1>8 DEF Outcome
<1>9. CASE r.op = "create"
  <2>1. Created \in Task
    BY DEF Created, Task
  <2>2. QED
    BY <1>2, <1>9, <2>1 DEF Outcome
<1>10. QED
  BY <1>4, <1>5, <1>6, <1>7, <1>8, <1>9

\* A request moves on or goes, and the page stays as it is.
LEMMA QuietTyped ==
    ASSUME Typed, UNCHANGED <<page, detail, drafts, used>>,
           pending' \subseteq Request, \A r \in pending' : WellAsked(r),
           server' \in List, rev' \in Nat, disturbed' \in BOOLEAN, mixed' \in BOOLEAN
    PROVE  Typed'
<1>1. View' = View
  BY DEF View, page
<1>2. QED
  BY <1>1 DEF Typed, TypeOK, Filled, page, detail, drafts

LEMMA PutTyped ==
    ASSUME Typed, NEW r \in pending, NEW st \in Stages, Put(r, st),
           r.op = "retry" => st \in {"listing", "listed"}
    PROVE  pending' \subseteq Request /\ \A q \in pending' : WellAsked(q)
<1> DEFINE q == [r EXCEPT !.stage = st]
<1>1. r \in Request /\ WellAsked(r)
  BY DEF Typed, TypeOK
<1>2. q \in Request /\ Same(q, r) /\ q.stage = st
  BY <1>1, Staged
<1>3. WellAsked(q)
  BY <1>1, <1>2, SameAsked
<1>4. pending' = (pending \ {r}) \cup {q}
  BY DEF Put
<1> HIDE DEF q
<1>5. QED
  BY <1>2, <1>3, <1>4 DEF Typed, TypeOK

LEMMA AnswerTyped == ASSUME Typed, NEW r \in pending, Answer(r) PROVE Typed'
<1>0. r \in Request /\ WellAsked(r) /\ TypeOK
  BY DEF Typed, TypeOK
<1>1. pending \ {r} \subseteq Request /\ \A q \in pending \ {r} : WellAsked(q)
  BY DEF Typed, TypeOK
<1>2. CASE Perform(r)
  <2>1. /\ r.stage \in {"sent", "abandoned"} /\ Legal(r)
        /\ server' = [server EXCEPT ![r.id] = Outcome(r)]
        /\ rev' = IF r.op = "draft" THEN rev ELSE rev + 1
        /\ UNCHANGED <<page, detail, drafts, used>>
    BY <1>2 DEF Perform
  <2>2. server' \in List
    BY <1>0, <2>1, OutcomeTyped DEF TypeOK, List
  <2>3. rev' \in Nat
    BY <1>0, <2>1 DEF TypeOK
  <2>4. CASE r.stage = "sent"
    <3>1. Put(r, "done") /\ UNCHANGED history
      BY <1>2, <2>4 DEF Perform
    <3>2. r.op # "retry" /\ "done" \in Stages
      BY <1>0, <2>4 DEF WellAsked, Stages
    <3>3. pending' \subseteq Request /\ \A q \in pending' : WellAsked(q)
      BY <3>1, <3>2, PutTyped
    <3>4. disturbed' \in BOOLEAN /\ mixed' \in BOOLEAN
      BY <1>0, <3>1 DEF TypeOK, history
    <3>5. QED
      BY <2>1, <2>2, <2>3, <3>3, <3>4, QuietTyped
  <2>5. CASE r.stage # "sent"
    <3>1. pending' = pending \ {r} /\ disturbed' = TRUE /\ mixed' = TRUE
      BY <1>2, <2>5 DEF Perform
    <3>2. QED
      BY <1>1, <2>1, <2>2, <2>3, <3>1, QuietTyped
  <2>6. QED
    BY <2>4, <2>5
<1>3. CASE Refuse(r)
  <2>1. pending' = pending \ {r} /\ UNCHANGED <<registry, page, detail, drafts, used, history>>
    BY <1>3 DEF Refuse
  <2>2. server' \in List /\ rev' \in Nat /\ disturbed' \in BOOLEAN /\ mixed' \in BOOLEAN
    BY <1>0, <2>1 DEF TypeOK, registry, history
  <2>3. QED
    BY <1>1, <2>1, <2>2, QuietTyped
<1>4. CASE Abandon(r)
  <2>1. UNCHANGED <<registry, page, detail, drafts, used>> /\ r.stage \in {"sent", "done"}
    BY <1>4 DEF Abandon
  <2>2. server' \in List /\ rev' \in Nat
    BY <1>0, <2>1 DEF TypeOK, registry
  <2>3. CASE r.stage = "sent"
    <3>1. Put(r, "abandoned") /\ UNCHANGED history
      BY <1>4, <2>3 DEF Abandon
    <3>2. r.op # "retry" /\ "abandoned" \in Stages
      BY <1>0, <2>3 DEF WellAsked, Stages
    <3>3. pending' \subseteq Request /\ \A q \in pending' : WellAsked(q)
      BY <3>1, <3>2, PutTyped
    <3>4. disturbed' \in BOOLEAN /\ mixed' \in BOOLEAN
      BY <1>0, <3>1 DEF TypeOK, history
    <3>5. QED
      BY <2>1, <2>2, <3>3, <3>4, QuietTyped
  <2>4. CASE r.stage # "sent"
    <3>1. pending' = pending \ {r} /\ disturbed' = TRUE /\ mixed' = TRUE
      BY <1>4, <2>4 DEF Abandon
    <3>2. QED
      BY <1>1, <2>1, <2>2, <3>1, QuietTyped
  <2>5. QED
    BY <2>3, <2>4
<1>5. CASE Succeeded(r)
  <2> DEFINE q  == [r EXCEPT !.stage = "listing"]
             rs == (pending \ {r}) \cup (IF r.op = "draft" THEN {} ELSE {q})
  <2>1. /\ selectedId' \in Ids \cup {NoId} /\ creating' \in BOOLEAN /\ newTask' \in NewTask
        /\ UNCHANGED <<registry, tasks, seen, error, used, disturbed>>
        /\ Opened(rs, Unsaved(r))
    <3>1. selectedId' = IF r.op = "delete" THEN NoId ELSE selectedId
      BY <1>5 DEF Succeeded
    <3>2. creating' = (creating /\ r.op # "create")
      BY <1>5 DEF Succeeded
    <3>3. newTask' = IF r.op = "create" THEN Blank ELSE newTask
      BY <1>5 DEF Succeeded
    <3>4. Blank \in NewTask
      BY DEF Blank, NewTask
    <3>5. UNCHANGED <<registry, tasks, seen, error, used, disturbed>> /\ Opened(rs, Unsaved(r))
      BY <1>5 DEF Succeeded
    <3>6. creating' \in BOOLEAN
      BY <3>2, ZenonT(30) DEF Typed, TypeOK
    <3> HIDE DEF rs
    <3>7. QED
      BY <1>0, <3>1, <3>3, <3>4, <3>5, <3>6 DEF TypeOK
  <2>2. q \in Request /\ Same(q, r) /\ q.stage = "listing"
    BY <1>0, Staged DEF Stages
  <2>3. WellAsked(q)
    BY <1>0, <2>2, SameAsked
  <2> HIDE DEF q
  <2>4. rs \subseteq Request /\ \A p \in rs : WellAsked(p)
    BY <1>1, <2>2, <2>3
  <2> HIDE DEF rs
  <2>5. Unsaved(r) \subseteq Sections
    BY <1>0 DEF Unsaved, TypeOK
  <2>6. QED
    BY <1>0, <2>1, <2>4, <2>5, TurnTyped DEF TypeOK, registry
<1>6. QED
  BY <1>2, <1>3, <1>4, <1>5 DEF Answer

LEMMA RefetchTyped == ASSUME Typed, NEW r \in pending, Refetch(r) PROVE Typed'
<1>0. r \in Request /\ WellAsked(r) /\ TypeOK
  BY DEF Typed, TypeOK
<1>1. pending \ {r} \subseteq Request /\ \A q \in pending \ {r} : WellAsked(q)
  BY DEF Typed, TypeOK
<1>2. r.id \in Ids \cup {NoId} /\ r.list \in List /\ r.rev \in Nat
  BY <1>0, RequestFields
<1>3. CASE ReadList(r)
  <2> DEFINE q == [r EXCEPT !.stage = "listed", !.list = server, !.rev = rev]
  <2>1. pending' = (pending \ {r}) \cup {q} /\ UNCHANGED <<registry, page, detail, drafts, used, history>>
    BY <1>3 DEF ReadList
  <2>2. q \in Request /\ Same(q, r) /\ q.stage = "listed"
    <3>1. server \in List /\ rev \in Nat
      BY <1>0 DEF TypeOK
    <3>2. QED
      BY <1>0, <3>1 DEF Request, Same
  <2>3. WellAsked(q)
    BY <1>0, <2>2, SameAsked
  <2> HIDE DEF q
  <2>4. pending' \subseteq Request /\ \A p \in pending' : WellAsked(p)
    BY <1>1, <2>1, <2>2, <2>3
  <2>5. server' \in List /\ rev' \in Nat /\ disturbed' \in BOOLEAN /\ mixed' \in BOOLEAN
    BY <1>0, <2>1 DEF TypeOK, registry, history
  <2>6. QED
    BY <2>1, <2>4, <2>5, QuietTyped
<1>4. CASE ShowList(r)
  <2>1. /\ tasks' = r.list /\ error' = FALSE
        /\ seen' = (IF r.rev < seen THEN seen ELSE r.rev)
        /\ selectedId' = (IF r.op = "create" THEN r.id ELSE selectedId)
        /\ UNCHANGED <<registry, creating, newTask, used>>
        /\ Opened(pending \ {r}, edited)
    BY <1>4 DEF ShowList, AfterList
  <2>2. disturbed' = (r.rev # rev /\ (disturbed \/ r.rev < seen))
    BY <1>4 DEF ShowList
  <2>3. disturbed' \in BOOLEAN
    BY <2>2, ZenonT(30)
  <2>4. tasks' \in List /\ seen' \in Nat /\ selectedId' \in Ids \cup {NoId}
    BY <1>0, <1>2, <2>1 DEF TypeOK
  <2>5. QED
    BY <1>0, <1>1, <2>1, <2>3, <2>4, TurnTyped DEF TypeOK, registry
<1>5. CASE LoseList(r)
  <2>1. /\ error' = TRUE /\ seen' = rev
        /\ selectedId' = (IF r.op = "create" THEN r.id ELSE selectedId)
        /\ UNCHANGED <<registry, tasks, creating, newTask, used, disturbed>>
        /\ Opened(pending \ {r}, edited)
    BY <1>5 DEF LoseList, AfterList
  <2>2. seen' \in Nat /\ selectedId' \in Ids \cup {NoId}
    BY <1>0, <1>2, <2>1 DEF TypeOK
  <2>3. QED
    BY <1>0, <1>1, <2>1, <2>2, TurnTyped DEF TypeOK, registry
<1>6. QED
  BY <1>3, <1>4, <1>5 DEF Refetch

LEMMA ElsewhereTyped == ASSUME Typed, Elsewhere PROVE Typed'
<1>1. PICK id \in Ids, s \in Sections, v \in Values : ChangedElsewhere(id, s, v)
  BY DEF Elsewhere
<1>2. /\ server[id] # Absent /\ server' = [server EXCEPT ![id].config[s] = v] /\ rev' = rev + 1
      /\ disturbed' = TRUE /\ mixed' = TRUE /\ UNCHANGED <<page, detail, drafts, pending, used>>
  BY <1>1 DEF ChangedElsewhere
<1>3. server \in List /\ server[id] \in Task
  BY <1>2 DEF Typed, TypeOK, List
<1>4. [server[id] EXCEPT !.config[s] = v] \in Task
  BY <1>3 DEF Task
<1>5. server' \in List
  BY <1>2, <1>3, <1>4 DEF List
<1>6. QED
  BY <1>2, <1>5, QuietTyped DEF Typed, TypeOK

LEMMA StepTyped == Typed /\ [Next]_vars => Typed'
<1> SUFFICES ASSUME Typed, [Next]_vars PROVE Typed'
  OBVIOUS
<1>1. CASE UNCHANGED vars
  BY <1>1 DEF vars, registry, page, detail, drafts, history, Typed, TypeOK, Filled, View
<1>2. QED
  BY <1>1, MoveTyped, PressTyped, ElsewhereTyped, AnswerTyped, RefetchTyped DEF Next

-----------------------------------------------------------------------------
\* What is on show.
LEMMA InitRefreshed == Init => Refreshed
BY DEF Init, Refreshed

\* A page that opens marks what is left as another's; that moves no request.
LEMMA OpenedPending ==
    ASSUME NEW rs, rs \subseteq Request, NEW kept, Opened(rs, kept)
    PROVE  /\ \A q \in pending' : \E r \in rs : /\ Same(q, r) /\ q.stage = r.stage
                                              /\ q.list = r.list /\ q.rev = r.rev
           /\ \A r \in rs : \E q \in pending' : /\ Same(q, r) /\ q.stage = r.stage
                                              /\ q.list = r.list /\ q.rev = r.rev
<1>1. CASE ~Remounts
  BY <1>1 DEF Opened, Same
<1>2. CASE Remounts
  <2>1. pending' = {[r EXCEPT !.mine = FALSE] : r \in rs}
    BY <1>2 DEF Opened
  <2>2. ASSUME NEW r \in rs
        PROVE  LET q == [r EXCEPT !.mine = FALSE]
               IN q \in pending' /\ Same(q, r) /\ q.stage = r.stage /\ q.list = r.list /\ q.rev = r.rev
    BY <2>1, <2>2, Orphaned
  <2>3. ASSUME NEW q \in pending'
        PROVE  \E r \in rs : Same(q, r) /\ q.stage = r.stage /\ q.list = r.list /\ q.rev = r.rev
    <3>1. PICK r \in rs : q = [r EXCEPT !.mine = FALSE]
      BY <2>1
    <3>2. QED
      BY <2>2, <3>1
  <2>4. ASSUME NEW r \in rs
        PROVE  \E q \in pending' : Same(q, r) /\ q.stage = r.stage /\ q.list = r.list /\ q.rev = r.rev
    BY <2>2
  <2>5. QED
    BY <2>3, <2>4
<1>3. QED
  BY <1>1, <1>2

\* A step that leaves the registry, the list and its error alone keeps Refreshed when
\* it keeps what is read, and what brings the registry.
LEMMA RefreshedKept ==
    ASSUME Refreshed, UNCHANGED <<server, rev, tasks, seen, error>>, disturbed => disturbed',
           \A q \in pending' : AsRead(q),
           \A r \in pending : Brings(r) => disturbed' \/ \E q \in pending' : Brings(q)
    PROVE  Refreshed'
BY DEF Refreshed, AsRead, Brings

LEMMA SameMoved ==
    ASSUME UNCHANGED <<server, rev>>, NEW q, NEW r, Same(q, r), q.stage = r.stage, q.list = r.list, q.rev = r.rev
    PROVE  /\ AsRead(r) => AsRead(q)' /\ AsRead(q)
           /\ Brings(r) => Brings(q)' /\ Brings(q)
BY DEF Same, AsRead, Brings

LEMMA MoveRefreshed == ASSUME Typed, Refreshed, Move PROVE Refreshed'
<1>1. ASSUME UNCHANGED <<server, rev, tasks, seen, error, disturbed>>, Opened(pending, edited) PROVE Refreshed'
  <2>1. pending \subseteq Request
    BY DEF Typed, TypeOK
  <2>2. \A q \in pending' : AsRead(q)
    BY <1>1, <2>1, OpenedPending, SameMoved DEF Refreshed
  <2>3. \A r \in pending : Brings(r) => \E q \in pending' : Brings(q)
    BY <1>1, <2>1, OpenedPending, SameMoved
  <2>4. QED
    BY <1>1, <2>2, <2>3, RefreshedKept
<1>2. ASSUME UNCHANGED <<registry, page, pending, disturbed>> PROVE Refreshed'
  BY <1>2 DEF registry, page, Refreshed, AsRead, Brings
<1>3. QED
  BY <1>1, <1>2 DEF Move, Choose, New, Cancel, FillForm, Reset, Edit, EditDraft, registry, page, history

LEMMA PressRefreshed == ASSUME Refreshed, Press PROVE Refreshed'
<1>1. ASSUME NEW op, NEW id, NEW s, NEW v, Ask(op, id, s, v) PROVE Refreshed'
  <2> DEFINE q == [n |-> used + 1, op |-> op, id |-> id, section |-> s, value |-> v,
                   stage |-> IF op = "retry" THEN "listing" ELSE "sent",
                   list |-> tasks, rev |-> 0, mine |-> TRUE]
  <2>1. pending' = pending \cup {q} /\ UNCHANGED <<registry, page, detail, drafts, history>>
    BY <1>1 DEF Ask
  <2>2. AsRead(q)
    BY DEF AsRead
  <2> HIDE DEF q
  <2>3. \A p \in pending' : AsRead(p)
    BY <2>1, <2>2 DEF Refreshed
  <2>4. QED
    BY <2>1, <2>3, RefreshedKept DEF registry, page, history
<1>2. QED
  BY <1>1 DEF Press, SaveIdentity, SaveModel, SaveSampling, SaveBudget, SaveLimits, SaveSchema, Save,
              SaveDraft, DeleteTask, Submit, Retry, Deploy

LEMMA ElsewhereRefreshed == ASSUME Typed, Refreshed, Elsewhere PROVE Refreshed'
<1>1. rev' = rev + 1 /\ disturbed' = TRUE /\ UNCHANGED <<page, pending>>
  BY DEF Elsewhere, ChangedElsewhere
<1>2. rev \in Nat /\ seen \in Nat /\ \A r \in pending : r.rev \in Nat
  BY RequestFields DEF Typed, TypeOK
<1>3. QED
  BY <1>1, <1>2 DEF Refreshed, AsRead, page

LEMMA AnswerRefreshed == ASSUME Typed, Refreshed, NEW r \in pending, Answer(r) PROVE Refreshed'
<1>0. r \in Request /\ WellAsked(r) /\ TypeOK
  BY DEF Typed, TypeOK
<1>1. rev \in Nat /\ seen \in Nat /\ \A p \in pending : p.rev \in Nat
  BY RequestFields DEF Typed, TypeOK
<1>2. CASE Perform(r)
  <2>1. /\ r.stage \in {"sent", "abandoned"} /\ Legal(r)
        /\ server' = [server EXCEPT ![r.id] = Outcome(r)]
        /\ rev' = IF r.op = "draft" THEN rev ELSE rev + 1
        /\ UNCHANGED <<page, detail, drafts, used>>
    BY <1>2 DEF Perform
  <2>2. ~Brings(r)
    BY <2>1 DEF Brings
  <2>3. CASE r.stage = "sent"
    <3> DEFINE q == [r EXCEPT !.stage = "done"]
    <3>1. pending' = (pending \ {r}) \cup {q} /\ UNCHANGED history
      BY <1>2, <2>3 DEF Perform, Put
    <3>2. Same(q, r) /\ q.stage = "done"
      BY <1>0, Staged DEF Stages
    <3> HIDE DEF q
    <3>3. CASE r.op = "draft"
      <4>1. r.id \in Ids /\ Outcome(r) = server[r.id]
        BY <1>0, <3>3 DEF WellAsked, Outcome
      <4>2. server' = server /\ rev' = rev
        BY <1>0, <2>1, <3>3, <4>1 DEF TypeOK, List
      <4>3. \A p \in pending' : AsRead(p)
        BY <3>1, <3>2 DEF Refreshed, AsRead
      <4>4. \A p \in pending : Brings(p) => \E p2 \in pending' : Brings(p2)
        BY <2>2, <3>1
      <4>5. QED
        BY <2>1, <3>1, <4>2, <4>3, <4>4, RefreshedKept DEF page, history
    <3>4. CASE r.op # "draft"
      <4>1. rev' = rev + 1 /\ Brings(q)'
        BY <2>1, <3>2, <3>4 DEF Brings, Same
      <4>2. \A p \in pending' : AsRead(p)'
        BY <1>1, <3>1, <3>2, <4>1 DEF Refreshed, AsRead
      <4>3. seen' < rev'
        BY <1>1, <2>1, <4>1 DEF Refreshed, page
      <4>4. QED
        BY <1>1, <2>1, <3>1, <4>1, <4>2, <4>3 DEF Refreshed, page
    <3>5. QED
      BY <3>3, <3>4
  <2>4. CASE r.stage # "sent"
    <3>1. pending' = pending \ {r} /\ disturbed' = TRUE
      BY <1>2, <2>4 DEF Perform
    <3>2. rev' = rev + 1 \/ (rev' = rev /\ server' = server)
      BY <1>0, <2>1 DEF TypeOK, List, Outcome, WellAsked
    <3>3. \A p \in pending' : AsRead(p)'
      BY <1>1, <3>1, <3>2 DEF Refreshed, AsRead
    <3>4. seen' <= rev'
      BY <1>1, <2>1, <3>2 DEF Refreshed, page
    <3>5. QED
      BY <3>1, <3>3, <3>4 DEF Refreshed
  <2>5. QED
    BY <2>3, <2>4
<1>3. CASE Refuse(r)
  <2>1. pending' = pending \ {r} /\ UNCHANGED <<registry, page, history>> /\ r.stage = "sent"
    BY <1>3 DEF Refuse
  <2>2. ~Brings(r) /\ \A p \in pending' : AsRead(p)
    BY <2>1 DEF Brings, Refreshed
  <2>3. QED
    BY <2>1, <2>2, RefreshedKept DEF registry, page, history
<1>4. CASE Abandon(r)
  <2>1. UNCHANGED <<registry, page>> /\ r.stage \in {"sent", "done"}
    BY <1>4 DEF Abandon
  <2>2. CASE r.stage = "sent"
    <3> DEFINE q == [r EXCEPT !.stage = "abandoned"]
    <3>1. pending' = (pending \ {r}) \cup {q} /\ UNCHANGED history
      BY <1>4, <2>2 DEF Abandon, Put
    <3>2. q.stage = "abandoned"
      BY <1>0, Staged DEF Stages
    <3> HIDE DEF q
    <3>3. ~Brings(r) /\ AsRead(q)
      BY <2>2, <3>2 DEF Brings, AsRead
    <3>4. \A p \in pending' : AsRead(p)
      BY <3>1, <3>3 DEF Refreshed
    <3>5. QED
      BY <2>1, <3>1, <3>3, <3>4, RefreshedKept DEF registry, page, history
  <2>3. CASE r.stage # "sent"
    <3>1. pending' = pending \ {r} /\ disturbed' = TRUE
      BY <1>4, <2>3 DEF Abandon
    <3>2. \A p \in pending' : AsRead(p)
      BY <3>1 DEF Refreshed
    <3>3. QED
      BY <2>1, <3>1, <3>2, RefreshedKept DEF registry, page
  <2>4. QED
    BY <2>2, <2>3
<1>5. CASE Succeeded(r)
  <2> DEFINE q  == [r EXCEPT !.stage = "listing"]
             rs == (pending \ {r}) \cup (IF r.op = "draft" THEN {} ELSE {q})
  <2>1. UNCHANGED <<registry, tasks, seen, error, used, disturbed>> /\ r.stage = "done" /\ Opened(rs, Unsaved(r))
    BY <1>5 DEF Succeeded
  <2>2. q \in Request /\ Same(q, r) /\ q.stage = "listing"
    BY <1>0, Staged DEF Stages
  <2> HIDE DEF q
  <2>3. AsRead(q) /\ Brings(q)
    BY <2>2 DEF AsRead, Brings
  <2>4. rs \subseteq Request
    BY <1>0, <2>2 DEF TypeOK
  <2>5. \A p \in rs : AsRead(p)
    BY <2>3 DEF Refreshed
  <2>6. ASSUME NEW p \in pending, Brings(p) PROVE \E p2 \in rs : Brings(p2)
    <3>1. CASE p # r
      BY <2>6, <3>1
    <3>2. CASE p = r
      BY <2>1, <2>3, <2>6, <3>2 DEF Brings
    <3>3. QED
      BY <3>1, <3>2
  <2> HIDE DEF rs
  <2>7. \A p \in pending' : AsRead(p)
    BY <2>1, <2>4, <2>5, OpenedPending, SameMoved DEF registry
  <2>8. \A p \in pending : Brings(p) => \E p2 \in pending' : Brings(p2)
    BY <2>1, <2>4, <2>6, OpenedPending, SameMoved DEF registry
  <2>9. QED
    BY <2>1, <2>7, <2>8, RefreshedKept DEF registry
<1>6. QED
  BY <1>2, <1>3, <1>4, <1>5 DEF Answer

LEMMA RefetchRefreshed == ASSUME Typed, Refreshed, NEW r \in pending, Refetch(r) PROVE Refreshed'
<1>0. r \in Request /\ AsRead(r) /\ TypeOK
  BY DEF Typed, TypeOK, Refreshed
<1>1. rev \in Nat /\ seen \in Nat /\ \A p \in pending : p.rev \in Nat
  BY RequestFields DEF Typed, TypeOK
<1>2. CASE ReadList(r)
  <2> DEFINE q == [r EXCEPT !.stage = "listed", !.list = server, !.rev = rev]
  <2>1. pending' = (pending \ {r}) \cup {q} /\ UNCHANGED <<registry, page, history>>
    BY <1>2 DEF ReadList
  <2>2. q.stage = "listed" /\ q.list = server /\ q.rev = rev
    <3>1. server \in List /\ rev \in Nat
      BY <1>0 DEF TypeOK
    <3>2. QED
      BY <1>0, <3>1 DEF Request, Same
  <2> HIDE DEF q
  <2>3. AsRead(q) /\ Brings(q)
    BY <1>1, <2>2 DEF AsRead, Brings
  <2>4. \A p \in pending' : AsRead(p)
    BY <2>1, <2>3 DEF Refreshed
  <2>5. QED
    BY <2>1, <2>3, <2>4, RefreshedKept DEF registry, page, history
<1>3. CASE ShowList(r)
  <2>1. /\ r.stage = "listed" /\ tasks' = r.list
        /\ seen' = (IF r.rev < seen THEN seen ELSE r.rev)
        /\ disturbed' = (r.rev # rev /\ (disturbed \/ r.rev < seen))
        /\ UNCHANGED registry /\ Opened(pending \ {r}, edited)
    BY <1>3 DEF ShowList
  <2>2. pending \ {r} \subseteq Request
    BY <1>0 DEF TypeOK
  <2>3. ASSUME NEW q \in pending' PROVE AsRead(q)'
    <3>1. PICK p \in pending \ {r} : /\ Same(q, p) /\ q.stage = p.stage
                                     /\ q.list = p.list /\ q.rev = p.rev
      BY <2>1, <2>2, OpenedPending
    <3>2. AsRead(p)
      BY DEF Refreshed
    <3>3. QED
      BY <2>1, <3>1, <3>2, SameMoved DEF registry
  <2>4. r.rev \in Nat /\ r.rev <= rev /\ (r.rev = rev => r.list = server) /\ seen <= rev
    BY <1>0, <1>1, <2>1 DEF AsRead, Refreshed
  <2>5. CASE r.rev = rev
    BY <1>1, <2>1, <2>3, <2>4, <2>5 DEF Refreshed, registry
  <2>6. CASE r.rev # rev /\ (disturbed \/ r.rev < seen)
    BY <1>1, <2>1, <2>3, <2>4, <2>6 DEF Refreshed, registry
  <2>7. CASE r.rev # rev /\ ~disturbed /\ ~(r.rev < seen)
    <3>1. seen # rev /\ seen' # rev'
      BY <1>1, <2>1, <2>4, <2>7 DEF registry
    <3>2. PICK p \in pending : Brings(p)
      BY <2>7, <3>1 DEF Refreshed
    <3>3. p \in pending \ {r}
      BY <2>1, <2>7, <3>2 DEF Brings
    <3>4. \A p1 \in pending \ {r} : \E q \in pending' : /\ Same(q, p1) /\ q.stage = p1.stage
                                                       /\ q.list = p1.list /\ q.rev = p1.rev
      BY <2>1, <2>2, OpenedPending
    <3>5. PICK q \in pending' : Same(q, p) /\ q.stage = p.stage /\ q.list = p.list /\ q.rev = p.rev
      BY <3>3, <3>4
    <3>6. Brings(q)'
      BY <2>1, <3>2, <3>5, SameMoved DEF registry
    <3>7. \E q1 \in pending' : Brings(q1)'
      BY <3>6
    <3>8. seen' <= rev'
      BY <1>1, <2>1, <2>4 DEF registry
    <3>9. QED
      BY <2>3, <3>7, <3>8, <3>1 DEF Refreshed
  <2>8. QED
    BY <2>5, <2>6, <2>7
<1>4. CASE LoseList(r)
  <2>1. error' = TRUE /\ seen' = rev /\ UNCHANGED registry /\ Opened(pending \ {r}, edited)
    BY <1>4 DEF LoseList
  <2>2. pending \ {r} \subseteq Request
    BY <1>0 DEF TypeOK
  <2>3. ASSUME NEW q \in pending' PROVE AsRead(q)'
    <3>1. PICK p \in pending \ {r} : /\ Same(q, p) /\ q.stage = p.stage
                                     /\ q.list = p.list /\ q.rev = p.rev
      BY <2>1, <2>2, OpenedPending
    <3>2. AsRead(p)
      BY DEF Refreshed
    <3>3. QED
      BY <2>1, <3>1, <3>2, SameMoved DEF registry
  <2>4. QED
    BY <1>1, <2>1, <2>3 DEF Refreshed, registry
<1>5. QED
  BY <1>2, <1>3, <1>4 DEF Refetch

LEMMA StepRefreshed == Typed /\ Refreshed /\ [Next]_vars => Refreshed'
<1> SUFFICES ASSUME Typed, Refreshed, [Next]_vars PROVE Refreshed'
  OBVIOUS
<1>1. CASE UNCHANGED vars
  BY <1>1 DEF vars, registry, page, history, Refreshed, AsRead, Brings
<1>2. QED
  BY <1>1, MoveRefreshed, PressRefreshed, ElsewhereRefreshed, AnswerRefreshed, RefetchRefreshed DEF Next

\* Nothing is out: no request is behind the list.
LEMMA RefreshedIsCurrent == Refreshed => Current
BY DEF Refreshed, Current

-----------------------------------------------------------------------------
\* An open detail.
LEMMA InitSound == Init => DetailSound
BY DEF Init, DetailSound, View

LEMMA OpenServerTask ==
    ASSUME Typed, View = "detail", Present
    PROVE  server[selectedId] \in Task /\ server[selectedId].config \in [Sections -> Values]
<1>1. selectedId \in Ids /\ server \in List
  BY OpenTask DEF Typed, TypeOK
<1>2. server[selectedId] \in Task
  BY <1>1 DEF Present, List
<1>3. QED
  BY <1>2 DEF Task

\* A detail that opens with nothing out shows the registry.
LEMMA MountSound ==
    ASSUME Typed', Refreshed', NEW rs, NEW kept, Opened(rs, kept), Remounts, View' = "detail", ~mixed'
    PROVE  Sound'
<1>1. /\ pending' = {[r EXCEPT !.mine = FALSE] : r \in rs}
      /\ mixed' = (disturbed' \/ error' \/ rs # {})
      /\ form' = tasks'[selectedId'].config
  BY DEF Opened
<1>2. rs = {} /\ ~disturbed' /\ ~error'
  BY <1>1
<1>3. pending' = {}
  BY <1>1, <1>2
<1>4. tasks' = server'
  BY <1>2, <1>3 DEF Refreshed
<1>5. tasks'[selectedId'] # Absent
  BY DEF View
<1>6. \A s \in Sections : Kept(s)'
  BY <1>1, <1>3, <1>4 DEF Kept, Untouched, SaveHolds, ShownAgrees, ReadAgrees, Agrees
<1>7. QED
  BY <1>2, <1>3, <1>4, <1>5, <1>6 DEF Sound, OwnOnly, OneSave, Present

LEMMA StayOrMount ==
    ASSUME Typed', Refreshed', DetailSound, NEW rs, NEW kept, Opened(rs, kept), View' = "detail", ~mixed'
    PROVE  \/ Sound'
           \/ /\ View = "detail" /\ ~mixed /\ Sound /\ selectedId' = selectedId /\ ~disturbed'
              /\ pending' = rs /\ edited' = kept /\ form' = form
<1>1. CASE Remounts
  BY <1>1, MountSound
<1>2. CASE ~Remounts
  <2>1. /\ pending' = rs /\ edited' = kept /\ form' = form
        /\ mixed' = (mixed \/ (disturbed' /\ ~disturbed))
    BY <1>2 DEF Opened
  <2>2. View = "detail" /\ selectedId' = selectedId
    BY <1>2 DEF Remounts
  <2>3. ~mixed /\ Sound
    BY <2>1, <2>2 DEF DetailSound
  <2>4. ~disturbed'
    BY <2>1, <2>3 DEF Sound
  <2>5. QED
    BY <2>1, <2>2, <2>3, <2>4
<1>3. QED
  BY <1>1, <1>2

\* Nothing changes but the fields.
LEMMA FieldsSound ==
    ASSUME Sound, UNCHANGED <<registry, page, pending, disturbed>>,
           \A s \in Sections : Present /\ Kept(s) => Untouched(s)' /\ SaveHolds(s)'
    PROVE  Sound'
<1>1. ASSUME NEW s \in Sections, Present PROVE Kept(s)'
  <2>1. Kept(s) /\ Untouched(s)' /\ SaveHolds(s)'
    BY <1>1 DEF Sound
  <2>2. ShownAgrees(s)' /\ ReadAgrees(s)'
    BY <2>1 DEF Kept, ShownAgrees, ReadAgrees, Agrees, Follows, Saves, registry, page
  <2>3. QED
    BY <2>1, <2>2 DEF Kept
<1>2. Present' <=> Present
  BY DEF Present, registry, page
<1>3. QED
  BY <1>1, <1>2 DEF Sound, OwnOnly, OneSave, Deleting, registry, page

LEMMA MoveSound == ASSUME Typed, Typed', Refreshed', DetailSound, Move PROVE DetailSound'
<1> SUFFICES ASSUME View' = "detail", ~mixed' PROVE Sound'
  BY DEF DetailSound
<1>1. ASSUME Opened(pending, edited), UNCHANGED <<server, rev, tasks, seen, error>> PROVE Sound'
  <2>1. CASE Sound'
    BY <2>1
  <2>2. CASE /\ Sound /\ selectedId' = selectedId /\ ~disturbed'
             /\ pending' = pending /\ edited' = edited /\ form' = form
    BY <1>1, <2>2 DEF Sound, OwnOnly, OneSave, Present, Deleting, Kept, Untouched, SaveHolds, Saving,
                      ShownAgrees, ReadAgrees, Agrees, Follows, Saves
  <2>3. QED
    BY <1>1, <2>1, <2>2, StayOrMount
<1>2. ASSUME NEW t \in NewTask, FillForm(t) PROVE Sound'
  BY <1>2 DEF FillForm, View, page
<1>3. ASSUME NEW s \in Sections, NEW v \in Texts, Edit(s, v) PROVE Sound'
  <2>1. /\ form' = [form EXCEPT ![s] = v] /\ edited' = edited \cup {s} /\ View = "detail"
        /\ UNCHANGED <<registry, page, pending, history>>
    BY <1>3 DEF Edit
  <2>2. Sound /\ form \in [Sections -> Texts]
    BY <2>1 DEF DetailSound, history, Typed, TypeOK
  <2>3. \A x \in Sections : Kept(x) => Untouched(x)' /\ SaveHolds(x)'
    BY <2>1, <2>2 DEF Kept, Untouched, SaveHolds, Saving, Saves, registry, page
  <2>4. QED
    BY <2>1, <2>2, <2>3, FieldsSound DEF history
<1>4. ASSUME NEW s \in Sections, Reset(s) PROVE Sound'
  <2>1. /\ form' = [form EXCEPT ![s] = tasks[selectedId].config[s]] /\ edited' = edited \ {s}
        /\ mixed' = (mixed \/ error) /\ View = "detail" /\ ~Locked("put", s)
        /\ UNCHANGED <<registry, page, pending, disturbed>>
    BY <1>4 DEF Reset
  <2>2. Sound /\ ~error /\ form \in [Sections -> Texts]
    BY <2>1 DEF DetailSound, Typed, TypeOK
  <2>3. \A r \in pending : Saves(r, s) => r.stage = "abandoned"
    BY <2>1, <2>2 DEF Sound, OwnOnly, Locked, Saves
  <2>4. ASSUME Kept(s) PROVE Untouched(s)' /\ SaveHolds(s)'
    <3>1. Agrees(tasks, s)
      BY <2>2, <2>3, <2>4 DEF Kept, ShownAgrees, Follows
    <3>2. tasks[selectedId].config[s] = server[selectedId].config[s]
      BY <2>1, <3>1, InDetail DEF Agrees
    <3>3. QED
      BY <2>1, <2>2, <2>3, <3>2 DEF Untouched, SaveHolds, Saving, Saves, registry, page
  <2>5. ASSUME NEW x \in Sections \ {s}, Kept(x) PROVE Untouched(x)' /\ SaveHolds(x)'
    BY <2>1, <2>2, <2>5 DEF Kept, Untouched, SaveHolds, Saving, Saves, registry, page
  <2>6. QED
    BY <2>1, <2>2, <2>4, <2>5, FieldsSound
<1>5. ASSUME NEW v \in Values, EditDraft(v) PROVE Sound'
  <2>1. UNCHANGED <<registry, page, detail, pending, history>> /\ View = "detail"
    BY <1>5 DEF EditDraft
  <2>2. Sound
    BY <2>1 DEF DetailSound, history
  <2>3. \A x \in Sections : Kept(x) => Untouched(x)' /\ SaveHolds(x)'
    BY <2>1 DEF Kept, Untouched, SaveHolds, Saving, Saves, registry, page, detail
  <2>4. QED
    BY <2>1, <2>2, <2>3, FieldsSound DEF history
<1>6. QED
  BY <1>1, <1>2, <1>3, <1>4, <1>5 DEF Move, Choose, New, Cancel, registry

\* A request leaves the detail.
LEMMA AskSound ==
    ASSUME Typed, Sound, NEW op \in {"put", "draft", "deploy", "delete", "retry"},
           NEW id \in Ids \cup {NoId}, NEW s \in Sections \cup {"none"}, NEW v, Ask(op, id, s, v),
           op = "put" => s \in Sections /\ v = Saving(s) /\ ~Locked("put", s),
           op # "retry" => id = selectedId
    PROVE  Sound'
<1> DEFINE q == [n |-> used + 1, op |-> op, id |-> id, section |-> s, value |-> v,
                 stage |-> IF op = "retry" THEN "listing" ELSE "sent",
                 list |-> tasks, rev |-> 0, mine |-> TRUE]
<1>1. pending' = pending \cup {q} /\ UNCHANGED <<registry, page, detail, drafts, history>>
  BY DEF Ask
<1>2. /\ q.op = op /\ q.id = id /\ q.section = s /\ q.value = v /\ q.mine = TRUE
      /\ op # "retry" => q.stage = "sent"
      /\ op = "retry" => q.stage = "listing"
  OBVIOUS
<1> HIDE DEF q
<1>3. OwnOnly'
  BY <1>1, <1>2 DEF Sound, OwnOnly, page
<1>4. op = "put" => \A r \in pending : Saves(r, s) => r.stage = "abandoned"
  BY DEF Sound, OwnOnly, Locked, Saves
<1>5. OneSave'
  <2>1. ASSUME NEW r \in pending, op = "put", r.op = "put", r.section = s PROVE r.stage = "abandoned"
    BY <1>4, <2>1 DEF Saves
  <2>2. ASSUME NEW r \in pending, r.op = "put", q.op = "put", r.section = q.section PROVE r.stage = "abandoned"
    BY <1>2, <2>1, <2>2
  <2>3. ASSUME NEW a \in pending', NEW b \in pending', a.op = "put", b.op = "put", a.section = b.section,
               a.stage # "abandoned", b.stage # "abandoned"
        PROVE  a = b
    <3>1. CASE a = q \/ b = q
      BY <1>1, <2>2, <2>3, <3>1
    <3>2. CASE a # q /\ b # q
      BY <1>1, <2>3, <3>2 DEF Sound, OneSave
    <3>3. QED
      BY <3>1, <3>2
  <2>4. QED
    BY <2>3 DEF OneSave
<1>6. ASSUME NEW x \in Sections, Kept(x) PROVE Kept(x)'
  <2>1. Untouched(x)'
    BY <1>1, <1>6 DEF Kept, Untouched, Saving, registry, page, detail
  <2>2. SaveHolds(x)'
    BY <1>1, <1>2, <1>6 DEF Kept, SaveHolds, Saving, Saves, registry, page, detail
  <2>3. \A w : (\E r \in pending : Follows(r, x, w)) => \E r \in pending' : Follows(r, x, w)
    BY <1>1
  <2>4. ShownAgrees(x)'
    BY <1>1, <1>6, <2>3 DEF Kept, ShownAgrees, Agrees, Follows, Saves, registry, page
  <2>5. ReadAgrees(x)'
    BY <1>1, <1>2, <1>6, <2>3 DEF Kept, ReadAgrees, Agrees, Follows, Saves, registry, page
  <2>6. QED
    BY <2>1, <2>2, <2>4, <2>5 DEF Kept
<1>7. (Present' <=> Present) /\ (Deleting => Deleting')
  BY <1>1 DEF Present, Deleting, registry, page
<1>8. QED
  BY <1>1, <1>3, <1>5, <1>6, <1>7 DEF Sound, history

LEMMA PressSound == ASSUME Typed, DetailSound, Press PROVE DetailSound'
<1> SUFFICES ASSUME View' = "detail", ~mixed' PROVE Sound'
  BY DEF DetailSound
<1>1. UNCHANGED <<page, history>>
  BY DEF Press, SaveIdentity, SaveModel, SaveSampling, SaveBudget, SaveLimits, SaveSchema, Save,
         SaveDraft, DeleteTask, Submit, Retry, Deploy, Ask
<1>2. View = "detail" /\ Sound /\ ~creating
  BY <1>1, InDetail DEF View, page, history, DetailSound
<1>3. selectedId \in Ids
  BY <1>2, OpenTask DEF Typed
<1>4. ASSUME NEW s \in Sections, Save(s) PROVE Sound'
  BY <1>2, <1>3, <1>4, AskSound DEF Save
<1>5. CASE SaveIdentity \/ SaveModel \/ SaveSampling \/ SaveBudget \/ SaveLimits \/ SaveSchema
  <2>1. {"identity", "model", "sampling", "budget", "limits", "schema"} \subseteq Sections
    BY DEF Sections
  <2>2. \E s \in Sections : Save(s)
    BY <1>5, <2>1 DEF SaveIdentity, SaveModel, SaveSampling, SaveBudget, SaveLimits, SaveSchema
  <2>3. QED
    BY <1>4, <2>2
<1>6. CASE SaveDraft
  BY <1>2, <1>3, <1>6, AskSound DEF SaveDraft
<1>7. CASE DeleteTask
  BY <1>2, <1>3, <1>7, AskSound DEF DeleteTask
<1>8. CASE Retry
  BY <1>2, <1>8, AskSound DEF Retry
<1>9. ASSUME NEW v \in Values, Deploy(v) PROVE Sound'
  BY <1>2, <1>3, <1>9, AskSound DEF Deploy
<1>10. QED
  BY <1>2, <1>5, <1>6, <1>7, <1>8, <1>9 DEF Press, Submit

\* A request goes to another stage without doing anything, or is given up.
LEMMA EndedSound ==
    ASSUME Sound, NEW r \in pending, r.stage = "sent", pending \ {r} \subseteq pending',
           \A q \in pending' \ (pending \ {r}) : Same(q, r) /\ q.stage = "abandoned" /\ q.mine = r.mine,
           UNCHANGED <<registry, page, detail, history>>
    PROVE  Sound'
<1>1. OwnOnly' /\ OneSave'
  BY DEF Sound, OwnOnly, OneSave, Same, page
<1>2. ASSUME NEW x \in Sections, Kept(x) PROVE Kept(x)'
  <2>1. Untouched(x)' /\ SaveHolds(x)'
    BY <1>2 DEF Kept, Untouched, SaveHolds, Saving, Saves, Same, registry, page, detail
  <2>2. \A w : (\E q \in pending : Follows(q, x, w)) => \E q \in pending' : Follows(q, x, w)
    BY DEF Follows
  <2>3. ShownAgrees(x)'
    BY <1>2, <2>2 DEF Kept, ShownAgrees, Agrees, Follows, Saves, registry, page
  <2>4. ReadAgrees(x)'
    BY <1>2, <2>2 DEF Kept, ReadAgrees, Agrees, Follows, Saves, registry, page
  <2>5. QED
    BY <2>1, <2>3, <2>4 DEF Kept
<1>3. (Present' <=> Present) /\ (Deleting => Deleting')
  BY DEF Present, Deleting, registry, page
<1>4. QED
  BY <1>1, <1>2, <1>3 DEF Sound, history

\* The server carries a request of the detail out.
LEMMA PerformSound ==
    ASSUME Typed, View = "detail", Sound, NEW r \in pending, r.stage = "sent", Perform(r)
    PROVE  Sound'
<1> DEFINE q == [r EXCEPT !.stage = "done"]
<1>0. r \in Request /\ WellAsked(r) /\ server \in List /\ selectedId \in Ids
  BY OpenTask DEF Typed, TypeOK
<1>1. /\ pending' = (pending \ {r}) \cup {q} /\ Legal(r)
      /\ server' = [server EXCEPT ![r.id] = Outcome(r)]
      /\ UNCHANGED <<page, detail, history>>
  BY DEF Perform, Put
<1>2. Same(q, r) /\ q.stage = "done" /\ q.mine = r.mine
  BY <1>0, Staged DEF Stages
<1> HIDE DEF q
<1>3. r.op \in {"put", "draft", "deploy", "delete"} /\ r.id = selectedId
  BY <1>0, RequestFields DEF WellAsked, Sound, OwnOnly
<1>4. Present /\ server'[selectedId] = Outcome(r)
  BY <1>0, <1>1, <1>3 DEF Legal, Present, List
<1>5. server[selectedId] \in Task /\ server[selectedId].config \in [Sections -> Values]
  BY <1>4, OpenServerTask
<1>6. OwnOnly' /\ OneSave'
  BY <1>1, <1>2 DEF Sound, OwnOnly, OneSave, Same, page
<1>7. \A w : \A x \in Sections : (\E p \in pending : Follows(p, x, w)) => \E p \in pending' : Follows(p, x, w)
  BY <1>1 DEF Follows
<1>8. CASE r.op = "delete"
  <2>1. server'[selectedId] = Absent
    BY <1>3, <1>4, <1>8 DEF Outcome
  <2>2. ~Present' /\ Deleting'
    BY <1>1, <1>2, <1>8, <2>1 DEF Present, Deleting, Same, page
  <2>3. QED
    BY <1>1, <1>6, <2>2 DEF Sound, history
<1>9. CASE r.op # "delete"
  <2>1. Outcome(r) \in Task
    BY <1>0, <1>1, <1>3, <1>5, <1>9, OutcomeTyped DEF Typed, Outcome, Task, WellAsked
  <2>2. Present'
    BY <1>1, <1>4, <2>1, TaskIsThere DEF Present, page
  <2>3. ASSUME NEW x \in Sections, ~Saves(r, x)
        PROVE  server'[selectedId].config[x] = server[selectedId].config[x]
    <3>1. CASE r.op = "put"
      <4>1. server'[selectedId] = [server[selectedId] EXCEPT !.config[r.section] = r.value]
        BY <1>3, <1>4, <3>1 DEF Outcome
      <4>2. r.section # x
        BY <2>3, <3>1 DEF Saves
      <4>3. QED
        BY <1>5, <4>1, <4>2 DEF Task
    <3>2. CASE r.op = "deploy"
      <4>1. server'[selectedId] = [server[selectedId] EXCEPT !.prompt = r.value]
        BY <1>3, <1>4, <3>2 DEF Outcome
      <4>2. QED
        BY <1>5, <4>1 DEF Task
    <3>3. CASE r.op = "draft"
      BY <1>3, <1>4, <3>3 DEF Outcome
    <3>4. QED
      BY <1>3, <1>9, <3>1, <3>2, <3>3
  <2>4. ASSUME NEW x \in Sections, Saves(r, x) PROVE server'[selectedId].config[x] = r.value
    <3>1. server'[selectedId] = [server[selectedId] EXCEPT !.config[x] = r.value]
      BY <1>3, <1>4, <2>4 DEF Outcome, Saves
    <3>2. QED
      BY <1>5, <3>1 DEF Task
  <2>5. ASSUME NEW x \in Sections, Kept(x), ~Saves(r, x) PROVE Kept(x)'
    <3>1. Untouched(x)' /\ SaveHolds(x)'
      BY <1>1, <1>2, <2>3, <2>5 DEF Kept, Untouched, SaveHolds, Saving, Saves, Same, page, detail
    <3>2. ShownAgrees(x)'
      BY <1>1, <1>7, <2>2, <2>3, <2>5 DEF Kept, ShownAgrees, Agrees, Follows, Saves, page
    <3>3. ReadAgrees(x)'
      BY <1>1, <1>2, <1>7, <2>2, <2>3, <2>5 DEF Kept, ReadAgrees, Agrees, Follows, Saves, page
    <3>4. QED
      BY <3>1, <3>2, <3>3 DEF Kept
  <2>6. ASSUME NEW x \in Sections, Kept(x), Saves(r, x) PROVE Kept(x)'
    <3>1. \A w : \E p \in pending' : Follows(p, x, w)
      BY <1>1, <1>2, <2>6 DEF Follows, Saves, Same
    <3>2. ShownAgrees(x)' /\ ReadAgrees(x)'
      BY <1>1, <3>1 DEF ShownAgrees, ReadAgrees, Follows, Saves, page
    <3>3. Untouched(x)'
      BY <1>1, <2>4, <2>6 DEF Kept, Untouched, SaveHolds, Saving, page, detail
    <3>4. SaveHolds(x)'
      <4>1. ASSUME NEW p \in pending', Saves(p, x), p.stage \in {"sent", "done"} PROVE p = q
        BY <1>1, <2>6, <4>1 DEF Sound, OneSave, Saves
      <4>2. QED
        BY <1>1, <1>2, <2>4, <2>6, <4>1 DEF SaveHolds, Saves, Same, page
    <3>5. QED
      BY <3>2, <3>3, <3>4 DEF Kept
  <2>7. QED
    BY <1>1, <1>4, <1>6, <2>2, <2>5, <2>6 DEF Sound, history
<1>10. QED
  BY <1>8, <1>9

LEMMA AnswerSound ==
    ASSUME Typed, Typed', Refreshed', DetailSound, NEW r \in pending, Answer(r) PROVE DetailSound'
<1> SUFFICES ASSUME View' = "detail", ~mixed' PROVE Sound'
  BY DEF DetailSound
<1>0. r \in Request /\ WellAsked(r)
  BY DEF Typed, TypeOK
<1>1. ASSUME UNCHANGED <<page, history>> PROVE View = "detail" /\ Sound
  BY <1>1 DEF View, page, history, DetailSound
<1>2. CASE Perform(r)
  <2>1. r.stage = "sent" /\ UNCHANGED <<page, history>>
    BY <1>2 DEF Perform, history
  <2>2. QED
    BY <1>1, <1>2, <2>1, PerformSound
<1>3. CASE Refuse(r)
  <2>1. pending' = pending \ {r} /\ r.stage = "sent" /\ UNCHANGED <<registry, page, detail, history>>
    BY <1>3 DEF Refuse
  <2>2. QED
    BY <1>1, <2>1, EndedSound
<1>4. CASE Abandon(r)
  <2> DEFINE q == [r EXCEPT !.stage = "abandoned"]
  <2>1. /\ r.stage = "sent" /\ UNCHANGED <<registry, page, detail, history>>
        /\ pending' = (pending \ {r}) \cup {q}
    BY <1>4 DEF Abandon, Put
  <2>2. Same(q, r) /\ q.stage = "abandoned" /\ q.mine = r.mine
    BY <1>0, Staged DEF Stages
  <2> HIDE DEF q
  <2>3. QED
    BY <1>1, <2>1, <2>2, EndedSound
<1>5. CASE Succeeded(r)
  <2> DEFINE q  == [r EXCEPT !.stage = "listing"]
             rs == (pending \ {r}) \cup (IF r.op = "draft" THEN {} ELSE {q})
  <2>1. /\ UNCHANGED <<registry, tasks, seen, error, used, disturbed>> /\ r.stage = "done" /\ Opened(rs, Unsaved(r))
        /\ selectedId' = IF r.op = "delete" THEN NoId ELSE selectedId
    BY <1>5 DEF Succeeded
  <2>2. Same(q, r) /\ q.stage = "listing" /\ q.mine = r.mine
    BY <1>0, Staged DEF Stages
  <2> HIDE DEF q
  <2>3. r.op # "delete"
    BY <2>1 DEF View
  <2>4. \/ Sound'
        \/ /\ View = "detail" /\ Sound /\ selectedId' = selectedId
           /\ pending' = rs /\ edited' = Unsaved(r) /\ form' = form
    BY <2>1, StayOrMount
  <2>5. ASSUME View = "detail", Sound, selectedId' = selectedId,
               pending' = rs, edited' = Unsaved(r), form' = form
        PROVE  Sound'
    <3>1. OwnOnly' /\ OneSave'
      BY <2>2, <2>1, <2>5 DEF Sound, OwnOnly, OneSave, Same
    <3>2. \A w : \A x \in Sections : (\E p \in pending : Follows(p, x, w)) => \E p \in pending' : Follows(p, x, w)
      BY <2>2, <2>5 DEF Follows, Saves, Same
    <3>3. ASSUME NEW x \in Sections, Present, Kept(x) PROVE Kept(x)'
      <4>1. SaveHolds(x)'
        <5>1. \A p \in pending : p # r /\ Saves(p, x) /\ p.stage = "sent" /\ x \notin edited' => x \notin edited
          BY <2>1, <2>5 DEF Unsaved, Sound, OneSave, Saves
        <5>2. QED
          BY <2>1, <2>2, <2>5, <3>3, <5>1 DEF Kept, SaveHolds, Saving, Saves, Same, registry
      <4>2. Untouched(x)'
        BY <2>1, <2>5, <3>3 DEF Kept, Untouched, SaveHolds, Saving, Unsaved, Saves, registry
      <4>3. ShownAgrees(x)'
        BY <2>1, <2>5, <3>2, <3>3 DEF Kept, ShownAgrees, Agrees, Follows, Saves, registry
      <4>4. ReadAgrees(x)'
        BY <2>1, <2>2, <2>5, <3>2, <3>3 DEF Kept, ReadAgrees, Agrees, Follows, Saves, registry
      <4>5. QED
        BY <4>1, <4>2, <4>3, <4>4 DEF Kept
    <3>4. (Present' <=> Present) /\ (Deleting => Deleting')
      BY <2>1, <2>3, <2>5 DEF Present, Deleting, registry
    <3>5. QED
      BY <2>1, <2>5, <3>1, <3>3, <3>4 DEF Sound
  <2>6. QED
    BY <2>4, <2>5
<1>6. QED
  BY <1>2, <1>3, <1>4, <1>5 DEF Answer

LEMMA RefetchSound ==
    ASSUME Typed, Typed', Refreshed, Refreshed', DetailSound, NEW r \in pending, Refetch(r) PROVE DetailSound'
<1> SUFFICES ASSUME View' = "detail", ~mixed' PROVE Sound'
  BY DEF DetailSound
<1>0. r \in Request /\ AsRead(r)
  BY DEF Typed, TypeOK, Refreshed
<1>1. rev \in Nat /\ seen \in Nat /\ seen <= rev /\ \A p \in pending : p.rev \in Nat
  BY RequestFields DEF Typed, TypeOK, Refreshed
<1>2. CASE ReadList(r)
  <2> DEFINE q == [r EXCEPT !.stage = "listed", !.list = server, !.rev = rev]
  <2>1. /\ r.stage = "listing" /\ pending' = (pending \ {r}) \cup {q}
        /\ UNCHANGED <<registry, page, detail, drafts, history>>
    BY <1>2 DEF ReadList
  <2>2. View = "detail" /\ Sound
    BY <2>1 DEF View, page, history, DetailSound
  <2>3. Same(q, r) /\ q.stage = "listed" /\ q.list = server /\ q.rev = rev /\ q.mine = r.mine
    <3>1. server \in List /\ rev \in Nat
      BY DEF Typed, TypeOK
    <3>2. QED
      BY <1>0, <3>1 DEF Request, Same
  <2> HIDE DEF q
  <2>4. OwnOnly' /\ OneSave'
    BY <2>1, <2>2, <2>3 DEF Sound, OwnOnly, OneSave, Same, page
  <2>5. \A w : \A x \in Sections : w < rev /\ (\E p \in pending : Follows(p, x, w)) => \E p \in pending' : Follows(p, x, w)
    BY <2>1, <2>3 DEF Follows, Saves, Same
  <2>6. ASSUME NEW x \in Sections, Kept(x) PROVE Kept(x)'
    <3>1. Untouched(x)' /\ SaveHolds(x)'
      BY <2>1, <2>3, <2>6 DEF Kept, Untouched, SaveHolds, Saving, Saves, Same, registry, page, detail
    <3>2. ShownAgrees(x)'
      <4>1. CASE seen = rev
        BY <2>1, <2>2, <4>1 DEF Sound, Refreshed, ShownAgrees, Agrees, registry, page
      <4>2. CASE seen # rev
        BY <1>1, <2>1, <2>5, <2>6, <4>2 DEF Kept, ShownAgrees, Agrees, Follows, Saves, registry, page
      <4>3. QED
        BY <4>1, <4>2
    <3>3. ASSUME NEW p \in pending', p.stage = "listed", seen <= p.rev
          PROVE  (Agrees(p.list, x) \/ \E p2 \in pending' : Follows(p2, x, p.rev))
      <4>1. CASE p = q
        BY <2>3, <4>1 DEF Agrees
      <4>2. CASE p # q /\ p.rev = rev
        BY <2>1, <3>3, <4>2 DEF Refreshed, AsRead, Agrees
      <4>3. CASE p # q /\ p.rev # rev
        <5>1. p \in pending /\ p.rev < rev
          BY <1>1, <2>1, <3>3, <4>3 DEF Refreshed, AsRead
        <5>2. Agrees(p.list, x) \/ \E p2 \in pending : Follows(p2, x, p.rev)
          BY <2>6, <3>3, <5>1 DEF Kept, ReadAgrees
        <5>3. QED
          BY <2>5, <5>1, <5>2
      <4>4. QED
        BY <4>1, <4>2, <4>3
    <3>4. ReadAgrees(x)'
      BY <2>1, <3>3 DEF ReadAgrees, Agrees, Follows, Saves, registry, page
    <3>5. QED
      BY <3>1, <3>2, <3>4 DEF Kept
  <2>7. (Present' <=> Present) /\ (Deleting => Deleting')
    BY <2>1 DEF Present, Deleting, registry, page
  <2>8. QED
    BY <2>1, <2>2, <2>4, <2>6, <2>7 DEF Sound, history
<1>3. ASSUME r.stage \in {"listing", "listed"}, UNCHANGED registry, seen <= seen',
             View = "detail", Sound, selectedId' = selectedId, ~disturbed',
             pending' = pending \ {r}, edited' = edited, form' = form,
             \A x \in Sections : Present /\ Kept(x) => ShownAgrees(x)',
             \A x \in Sections, p \in pending' :
                Present /\ Kept(x) /\ p.stage = "listed" /\ seen' <= p.rev =>
                   Agrees(p.list, x) \/ \E p2 \in pending' : Follows(p2, x, p.rev)
      PROVE  Sound'
  <2>1. OwnOnly' /\ OneSave'
    BY <1>3 DEF Sound, OwnOnly, OneSave
  <2>2. (Present' <=> Present) /\ (Deleting => Deleting')
    BY <1>3 DEF Present, Deleting, registry
  <2>3. ASSUME NEW x \in Sections, Present, Kept(x) PROVE Kept(x)'
    <3>1. Untouched(x)' /\ SaveHolds(x)'
      BY <1>3, <2>3 DEF Kept, Untouched, SaveHolds, Saving, Saves, registry
    <3>2. ReadAgrees(x)'
      BY <1>3, <2>3 DEF ReadAgrees, Agrees, Follows, Saves, registry
    <3>3. QED
      BY <1>3, <2>3, <3>1, <3>2 DEF Kept
  <2>4. QED
    BY <1>3, <2>1, <2>2, <2>3 DEF Sound
<1>4. CASE ShowList(r)
  <2>1. /\ r.stage = "listed" /\ tasks' = r.list
        /\ seen' = (IF r.rev < seen THEN seen ELSE r.rev)
        /\ disturbed' = (r.rev # rev /\ (disturbed \/ r.rev < seen))
        /\ UNCHANGED registry /\ Opened(pending \ {r}, edited)
    BY <1>4 DEF ShowList
  <2>2. \/ Sound'
        \/ /\ View = "detail" /\ Sound /\ selectedId' = selectedId /\ ~disturbed'
           /\ pending' = pending \ {r} /\ edited' = edited /\ form' = form
    BY <2>1, StayOrMount
  <2>3. ASSUME View = "detail", Sound, selectedId' = selectedId, ~disturbed',
               pending' = pending \ {r}, edited' = edited, form' = form
        PROVE  Sound'
    <3>1. seen <= r.rev /\ seen' = r.rev
      <4>1. r.rev = rev \/ ~(r.rev < seen)
        BY <2>1, <2>3
      <4>2. r.rev \in Nat
        BY <1>1
      <4>3. QED
        BY <1>1, <2>1, <4>1, <4>2
    <3>2. ASSUME NEW x \in Sections, Kept(x) PROVE ShownAgrees(x)'
      <4>1. Agrees(r.list, x) \/ \E p \in pending : Follows(p, x, r.rev)
        BY <2>1, <3>1, <3>2 DEF Kept, ReadAgrees
      <4>2. ~Follows(r, x, r.rev)
        BY <1>1, <2>1 DEF Follows
      <4>3. QED
        BY <2>1, <2>3, <3>1, <4>1, <4>2 DEF ShownAgrees, Agrees, Follows, Saves, registry
    <3>3. ASSUME NEW x \in Sections, NEW p \in pending', Kept(x), p.stage = "listed", seen' <= p.rev
          PROVE  Agrees(p.list, x) \/ \E p2 \in pending' : Follows(p2, x, p.rev)
      <4>1. seen <= p.rev /\ ~Follows(r, x, p.rev)
        BY <1>1, <2>1, <2>3, <3>1, <3>3 DEF Follows
      <4>2. Agrees(p.list, x) \/ \E p2 \in pending : Follows(p2, x, p.rev)
        BY <2>3, <3>3, <4>1 DEF Kept, ReadAgrees
      <4>3. QED
        BY <2>3, <4>1, <4>2
    <3>4. seen <= seen'
      BY <3>1
    <3>5. QED
      BY <1>3, <2>1, <2>3, <3>2, <3>3, <3>4
  <2>4. QED
    BY <2>2, <2>3
<1>5. CASE LoseList(r)
  <2>1. /\ r.stage \in {"listing", "listed"} /\ error' = TRUE /\ seen' = rev
        /\ UNCHANGED registry /\ Opened(pending \ {r}, edited)
    BY <1>5 DEF LoseList
  <2>2. \/ Sound'
        \/ /\ View = "detail" /\ Sound /\ selectedId' = selectedId /\ ~disturbed'
           /\ pending' = pending \ {r} /\ edited' = edited /\ form' = form
    BY <2>1, StayOrMount
  <2>3. ASSUME View = "detail", Sound, selectedId' = selectedId, ~disturbed',
               pending' = pending \ {r}, edited' = edited, form' = form
        PROVE  Sound'
    <3>1. \A x \in Sections : ShownAgrees(x)'
      BY <2>1 DEF ShownAgrees
    <3>2. ASSUME NEW x \in Sections, NEW p \in pending', p.stage = "listed", seen' <= p.rev
          PROVE  Agrees(p.list, x)
      <4>1. p.rev = rev /\ p.list = server
        BY <1>1, <2>1, <2>3, <3>2 DEF Refreshed, AsRead
      <4>2. QED
        BY <4>1 DEF Agrees
    <3>3. QED
      BY <1>1, <1>3, <2>1, <2>3, <3>1, <3>2
  <2>4. QED
    BY <2>2, <2>3
<1>6. QED
  BY <1>2, <1>4, <1>5 DEF Refetch

LEMMA StepSound ==
    ASSUME Typed, Typed', Refreshed, Refreshed', DetailSound, [Next]_vars PROVE DetailSound'
<1>1. CASE UNCHANGED vars
  BY <1>1 DEF vars, registry, page, detail, drafts, history, DetailSound, View, Sound, OwnOnly, OneSave, Present,
              Deleting, Kept, Untouched, SaveHolds, Saving, ShownAgrees, ReadAgrees, Agrees, Follows, Saves
<1>2. ASSUME Elsewhere PROVE DetailSound'
  BY <1>2 DEF Elsewhere, ChangedElsewhere, DetailSound
<1>3. QED
  BY <1>1, <1>2, MoveSound, PressSound, AnswerSound, RefetchSound DEF Next

\* A quiet detail shows the registry.
LEMMA SoundIsClean == ASSUME Typed, Refreshed, DetailSound PROVE UneditedIsClean
<1> SUFFICES ASSUME pending = {}, View = "detail", ~mixed, ~error, NEW s \in Sections, s \notin edited, Dirty(s)
             PROVE  s \in ByText /\ Saving(s) = tasks[selectedId].config[s]
  BY DEF UneditedIsClean
<1>1. Sound /\ tasks = server
  BY DEF DetailSound, Sound, Refreshed
<1>2. Present
  BY <1>1, InDetail DEF Present
<1>3. tasks[selectedId].config[s] \in {form[s], Saving(s)}
  BY <1>1, <1>2 DEF Sound, Kept, Untouched
<1>4. CASE tasks[selectedId].config[s] = Saving(s)
  BY <1>4 DEF Dirty
<1>5. CASE tasks[selectedId].config[s] = form[s]
  <2>1. s \notin ByText
    BY <1>5 DEF Dirty
  <2>2. tasks[selectedId].config[s] \in Values
    BY OpenTask DEF Typed
  <2>3. Saving(s) = form[s]
    BY <1>5, <2>1, <2>2, ValuesAreMeant DEF ByText, Saving
  <2>4. QED
    BY <1>5, <2>1, <2>3 DEF Dirty
<1>6. QED
  BY <1>3, <1>4, <1>5

-----------------------------------------------------------------------------
LEMMA StudioInvariant == Spec => [](Typed /\ Refreshed /\ DetailSound)
<1>1. Init => Typed /\ Refreshed /\ DetailSound
  BY InitTyped, InitRefreshed, InitSound
<1>2. (Typed /\ Refreshed /\ DetailSound) /\ [Next]_vars => (Typed /\ Refreshed /\ DetailSound)'
  BY StepTyped, StepRefreshed, StepSound
<1>3. QED
  BY <1>1, <1>2, PTL DEF Spec

\* The variables of the studio have their types, whatever is in flight.
THEOREM StudioTyped == Spec => []TypeOK
<1>1. Typed => TypeOK
  BY DEF Typed
<1>2. QED
  BY <1>1, StudioInvariant, PTL

\* Whatever the order in which saves, refetches and answers come and go
\* (pages/TasksPage.tsx, load and its callers), once nothing is out the list shows
\* the registry, or its error, or what only others changed.
THEOREM ListIsAlwaysCurrent == Spec => []Current
BY RefreshedIsCurrent, StudioInvariant, PTL

\* However sections save side by side and their refetches overtake each other, once
\* nothing is out no section of an open detail counts as changed that the user did
\* not change (pages/TasksPage.tsx, the dirty flags of the sections).
THEOREM UneditedIsAlwaysClean == Spec => []UneditedIsClean
<1>1. Typed /\ Refreshed /\ DetailSound => UneditedIsClean
  BY SoundIsClean
<1>2. QED
  BY <1>1, StudioInvariant, PTL
=============================================================================
