-------------------------- MODULE AdminPagesProofs --------------------------
(***************************************************************************)
(* Proofs about the administrator's pages: the schema editors of the task  *)
(* page, SchemaForms, for any names, schemas and edits; AdminTabs with the *)
(* health page and the portal; and RunHistory, for any circuits, tasks,    *)
(* images and kinds of runs and however many polls, resets, fetches,       *)
(* predictions and loads are in flight.  The pages share nothing: each has *)
(* an invariant that its own steps keep, and the tabs, which only say when *)
(* a page is mounted, keep them.                                           *)
(***************************************************************************)
EXTENDS SchemaForms, AdminTabs, RunHistory, FiniteSetTheorems, WellFoundedInduction, TLAPS

-----------------------------------------------------------------------------
\* The types of schemas, properties and fields.

LEMMA SeqParts ==
    ASSUME NEW T, NEW q \in Seq(T)
    PROVE  Len(q) \in Nat /\ DOMAIN q = 1..Len(q) /\ \A k \in DOMAIN q : q[k] \in T
OBVIOUS

LEMMA SeqIsFunction ==
    ASSUME NEW T, NEW q \in Seq(T)
    PROVE  q = [k \in 1..Len(q) |-> q[k]]
OBVIOUS

\* A schema has finitely many properties, all of them of the type.
LEMMA SchemaParts ==
    ASSUME NEW s, IsSchema(s)
    PROVE  /\ s \in SchemaOver(DOMAIN s.props) /\ DOMAIN s.props \in SUBSET Texts
           /\ IsFiniteSet(DOMAIN s.props)
           /\ s.props \in [DOMAIN s.props -> Property]
           /\ s.type \in FieldTypes \cup {"null", "empty", "any", "unparsable"}
           /\ s.enum \in Seq(Words) /\ s.pattern \in {"", "regex", "broken"}
           /\ s.min \in Bounds /\ s.max \in Bounds /\ s.item \in FieldTypes \cup {"none"}
           /\ s.required \in Seq(Texts) /\ s.order \in Seq(DOMAIN s.props) /\ Once(s.order)
           /\ Len(s.order) \in Nat /\ DOMAIN s.order = 1..Len(s.order)
           /\ \A k \in DOMAIN s.order : s.order[k] \in DOMAIN s.props
           /\ \A n \in DOMAIN s.props : \E k \in DOMAIN s.order : s.order[k] = n
<1>1. PICK N \in SUBSET Texts : IsFiniteSet(N) /\ s \in SchemaOver(N)
  BY DEF IsSchema
<1>2. s.props \in [N -> Property] /\ DOMAIN s.props = N
  BY <1>1 DEF SchemaOver
<1>3. s \in SchemaOver(DOMAIN s.props)
  BY <1>1, <1>2
<1>4. /\ s.type \in FieldTypes \cup {"null", "empty", "any", "unparsable"}
      /\ s.enum \in Seq(Words) /\ s.pattern \in {"", "regex", "broken"}
      /\ s.min \in Bounds /\ s.max \in Bounds /\ s.item \in FieldTypes \cup {"none"}
      /\ s.required \in Seq(Texts) /\ s.order \in Seq(DOMAIN s.props)
  BY <1>3 DEF SchemaOver
<1>5. /\ Len(s.order) \in Nat /\ DOMAIN s.order = 1..Len(s.order)
      /\ \A k \in DOMAIN s.order : s.order[k] \in DOMAIN s.props
  BY <1>4, SeqParts
<1>6. Once(s.order) /\ \A n \in DOMAIN s.props : \E k \in DOMAIN s.order : s.order[k] = n
  BY DEF IsSchema
<1> QED BY <1>1, <1>2, <1>3, <1>4, <1>5, <1>6

\* The schemas without properties.
LEMMA OnlyFacts ==
    ASSUME NEW t \in FieldTypes \cup {"null", "empty", "any", "unparsable"}
    PROVE  /\ IsSchema(Only(t)) /\ Only(t).type = t /\ Only(t).props = NoProps
           /\ DOMAIN Only(t).props = {} /\ Only(t).required = <<>> /\ Only(t).order = <<>>
<1>1. NoProps \in [{} -> Property] /\ DOMAIN NoProps = {}
  BY DEF NoProps
<1>2. {} \in Bounds
  BY DEF Bounds
<1>3. Only(t) \in SchemaOver({})
  BY <1>1, <1>2 DEF Only, SchemaOver
<1>4. IsFiniteSet({}) /\ {} \in SUBSET Texts
  BY FS_EmptySet
<1>5. /\ Only(t).type = t /\ Only(t).props = NoProps
      /\ Only(t).required = <<>> /\ Only(t).order = <<>>
  BY DEF Only
<1>6. Once(<<>>) /\ \A n \in {} : \E k \in DOMAIN <<>> : <<>>[k] = n
  BY DEF Once
<1> QED BY <1>1, <1>3, <1>4, <1>5, <1>6 DEF IsSchema

LEMMA EmptyObjectFacts ==
    /\ IsSchema(EmptyObject) /\ EmptyObject.type = "object" /\ DOMAIN EmptyObject.props = {}
    /\ HasSchema(EmptyObject) /\ \A a \in BOOLEAN : Drawable(EmptyObject, a)
<1>1. /\ IsSchema(EmptyObject) /\ EmptyObject.type = "object" /\ DOMAIN EmptyObject.props = {}
      /\ EmptyObject.required = <<>> /\ EmptyObject.order = <<>> /\ EmptyObject.props = NoProps
  BY OnlyFacts DEF EmptyObject, FieldTypes
<1>2. HasSchema(EmptyObject)
  BY <1>1 DEF HasSchema
<1>3. [EmptyObject EXCEPT !.props = NoProps, !.order = <<>>, !.required = <<>>, !.lost = FALSE] = EmptyObject
  <2>1. EmptyObject \in SchemaOver({}) /\ EmptyObject.lost = FALSE
    BY <1>1, SchemaParts DEF EmptyObject, Only
  <2>2. \A s \in SchemaOver({}) :
           [s EXCEPT !.props = s.props, !.order = s.order, !.required = s.required, !.lost = s.lost] = s
    BY DEF SchemaOver
  <2> QED BY <1>1, <2>1, <2>2
<1> QED BY <1>1, <1>2, <1>3 DEF Drawable

\* The number in a bound.
LEMMA TheOne ==
    ASSUME NEW b \in Bounds, b # {}
    PROVE  The(b) \in Entered /\ b = {The(b)} /\ The(b) \in b
<1>1. PICK n \in Entered : b = {n}
  BY DEF Bounds
<1>2. The(b) \in b
  BY <1>1 DEF The
<1> QED BY <1>1, <1>2

\* A drawable schema that is one is an object with properties, names that are
\* required, and nothing else that is not lost; one that is none has no properties.
LEMMA DrawableParts ==
    ASSUME NEW s, IsSchema(s), NEW a \in BOOLEAN, Drawable(s, a)
    PROVE  /\ HasSchema(s) => /\ s.type = "object"
                              /\ [s EXCEPT !.props = NoProps, !.order = <<>>, !.required = <<>>, !.lost = FALSE] = EmptyObject
           /\ \A n \in DOMAIN s.props : DrawableProperty(s.props[n], a)
<1>1. CASE HasSchema(s)
  <2>1. [s EXCEPT !.props = NoProps, !.order = <<>>, !.required = <<>>, !.lost = FALSE] = EmptyObject
    BY <1>1 DEF Drawable
  <2>2. PICK N : s \in SchemaOver(N)
    BY SchemaParts
  <2>3. [s EXCEPT !.props = NoProps, !.order = <<>>, !.required = <<>>, !.lost = FALSE].type = s.type
    BY <2>2 DEF SchemaOver
  <2>4. s.type = "object"
    BY <2>1, <2>3, EmptyObjectFacts
  <2> QED BY <1>1, <2>1, <2>4 DEF Drawable
<1>2. CASE ~HasSchema(s)
  <2>1. s = Only(s.type) /\ s.type \in FieldTypes \cup {"null", "empty", "any", "unparsable"}
    BY <1>2, SchemaParts DEF HasSchema, IsSchema
  <2>2. DOMAIN s.props = {}
    BY <2>1, OnlyFacts
  <2> QED BY <1>2, <2>2
<1> QED BY <1>1, <1>2

\* What a drawable property is drawn as.
LEMMA FieldOfTyped ==
    ASSUME NEW s, IsSchema(s), NEW a \in BOOLEAN, Drawable(s, a), NEW n \in DOMAIN s.props
    PROVE  /\ FieldOf(n, s, a) \in SchemaField
           /\ FieldOf(n, s, a).name = n
           /\ FieldOf(n, s, a).required <=> Requires(s, n)
           /\ FieldOf(n, s, a).type = "image" <=> IsImage(s.props[n], a)
           /\ FieldOf(n, s, a).type = "image" => a
<1> DEFINE p == s.props[n]
           f == FieldOf(n, s, a)
<1>1. p \in Property /\ n \in Texts
  BY SchemaParts
<1>2. p.type \in FieldTypes
  <2>1. DrawableProperty(p, a)
    BY DrawableParts
  <2> QED BY <2>1 DEF DrawableProperty
<1>3. /\ p.item \in FieldTypes \cup {"none"} /\ p.cap \in Bounds /\ p.enum \in Seq(Words)
      /\ p.description \in Texts
  BY <1>1 DEF Property
<1>4. p.cap # {} => The(p.cap) \in Entered
  BY <1>3, TheOne
<1>5. 0 \in Entered /\ 1 \in Entered /\ "string" \in FieldTypes
  BY DEF Entered, FieldTypes, ScalarTypes
<1>6. p.type # "image"
  BY <1>2 DEF FieldTypes, ScalarTypes
<1> HIDE DEF p
<1>7. f = [name |-> n, required |-> Requires(s, n), description |-> p.description, enum |-> p.enum,
           type |-> IF IsImage(p, a) THEN "image" ELSE p.type,
           item |-> IF p.item = "none" THEN "string" ELSE p.item,
           cap  |-> IF ~IsImage(p, a) THEN 1 ELSE IF p.cap = {} THEN 0 ELSE The(p.cap)]
  BY DEF FieldOf, p
<1>8. f \in SchemaField
  <2>1. Requires(s, n) \in BOOLEAN
    BY DEF Requires
  <2> QED BY <1>1, <1>2, <1>3, <1>4, <1>5, <1>7, <2>1 DEF SchemaField
<1>9. f.type = "image" <=> IsImage(p, a)
  BY <1>6, <1>7
<1>10. f.name = n
  BY <1>7
<1>11. f.required <=> Requires(s, n)
  <2> HIDE DEF f
  <2>1. f.required = Requires(s, n)
    BY <1>7
  <2> QED BY <2>1
<1>12. f.type = "image" => a
  BY <1>9 DEF IsImage
<1> HIDE DEF f
<1> QED BY <1>8, <1>9, <1>10, <1>11, <1>12 DEF f, p

-----------------------------------------------------------------------------
\* A schema drawn as fields.

\* The fields are those of the properties, each drawn once, in the order of the text.
LEMMA DrawnFields ==
    ASSUME NEW s, IsSchema(s), NEW a \in BOOLEAN, Drawable(s, a)
    PROVE  LET fields == SchemaToFields(s, a)
               N == DOMAIN s.props IN
           /\ fields \in Seq(SchemaField) /\ DOMAIN fields = 1..Len(s.order)
           /\ \A i \in DOMAIN fields : /\ fields[i].name \in N
                                       /\ fields[i] = FieldOf(fields[i].name, s, a)
                                       /\ fields[i].name = s.order[i]
           /\ \A n \in N : \E i \in DOMAIN fields : fields[i].name = n
           /\ \A i, j \in DOMAIN fields : fields[i].name = fields[j].name => i = j
<1> DEFINE N == DOMAIN s.props
           k == Len(s.order)
           fields == SchemaToFields(s, a)
<1>1. /\ k \in Nat /\ DOMAIN s.order = 1..k /\ Once(s.order)
      /\ \A i \in DOMAIN s.order : s.order[i] \in N
      /\ \A n \in N : \E i \in DOMAIN s.order : s.order[i] = n
  BY SchemaParts
<1>2. fields = [i \in 1..k |-> FieldOf(s.order[i], s, a)]
  BY <1>1 DEF SchemaToFields
<1> HIDE DEF fields, k
<1>3. ASSUME NEW i \in 1..k
      PROVE  /\ fields[i] = FieldOf(s.order[i], s, a) /\ fields[i] \in SchemaField
             /\ fields[i].name = s.order[i] /\ s.order[i] \in N
  <2>1. s.order[i] \in N /\ fields[i] = FieldOf(s.order[i], s, a)
    BY <1>1, <1>2
  <2> QED BY <2>1, FieldOfTyped
<1>4. DOMAIN fields = 1..k /\ fields \in [1..k -> SchemaField]
  BY <1>2, <1>3
<1>5. fields \in Seq(SchemaField)
  BY <1>1, <1>4
<1>6. \A n \in N : \E i \in DOMAIN fields : fields[i].name = n
  BY <1>1, <1>3, <1>4
<1>7. \A i, j \in DOMAIN fields : fields[i].name = fields[j].name => i = j
  BY <1>1, <1>3, <1>4 DEF Once
<1>8. \A i \in DOMAIN fields : /\ fields[i].name \in N /\ fields[i].name = s.order[i]
                               /\ fields[i] = FieldOf(fields[i].name, s, a)
  BY <1>3, <1>4
<1> QED BY <1>4, <1>5, <1>6, <1>7, <1>8 DEF fields, k

-----------------------------------------------------------------------------
\* Fields written as a schema.

Less == {p \in Nat \X Nat : p[1] < p[2]}

\* The last of some places in a list.
LEMMA LastOfPlaces ==
    ASSUME NEW k \in Nat, NEW S \in SUBSET (1..k), S # {}
    PROVE  LET m == CHOOSE i \in S : \A j \in S : j <= i IN
           m \in S /\ \A j \in S : j <= m
<1> DEFINE T == {k - x : x \in S}
<1>1. IsWellFoundedOn(Less, Nat)
  BY NatLessThanWellFounded DEF OpToRel, Less
<1>2. T \subseteq Nat /\ T # {}
  <2>1. \A x \in S : k - x \in Nat
    OBVIOUS
  <2> QED BY <2>1
<1>3. PICK t \in T : \A y \in T : ~(<<y, t>> \in Less)
  BY <1>1, <1>2, WFMin
<1>4. PICK m \in S : t = k - m
  OBVIOUS
<1>5. ASSUME NEW j \in S PROVE j <= m
  <2>1. k - j \in T /\ k - j \in Nat /\ t \in Nat
    BY <1>2
  <2>2. ~(k - j < t)
    <3> HIDE DEF T
    <3> QED BY <1>3, <2>1 DEF Less
  <2>3. j \in 1..k /\ m \in 1..k
    OBVIOUS
  <2> QED BY <1>4, <2>2, <2>3
<1> QED BY <1>5

\* An enumeration that goes up, and the places in a set of them from first to last.
Increasing(q) == \A j, k \in DOMAIN q : j < k => q[j] < q[k]

LEMMA InOrderExists ==
    ASSUME NEW L \in Nat, NEW S \in SUBSET (1..L)
    PROVE  /\ IsFiniteSet(S) /\ Cardinality(S) \in Nat
           /\ \E q \in [1..Cardinality(S) -> S] : Increasing(q)
<1> DEFINE Lists(n, T) == \E q \in [1..n -> T] : Increasing(q)
           Bad == {n \in Nat : \E T \in SUBSET (1..L) : Cardinality(T) = n /\ ~Lists(n, T)}
<1>1. \A T \in SUBSET (1..L) : IsFiniteSet(T) /\ Cardinality(T) \in Nat
  <2>1. IsFiniteSet(1..L)
    BY FS_Interval
  <2> QED BY <2>1, FS_Subset, FS_CardinalityType
<1>2. ASSUME NEW n \in Bad, \A m \in Bad : ~(<<m, n>> \in Less)
      PROVE  FALSE
  <2>1. PICK T \in SUBSET (1..L) : Cardinality(T) = n /\ ~Lists(n, T)
    OBVIOUS
  <2>2. n \in Nat
    OBVIOUS
  <2>3. CASE n = 0
    <3>1. [i \in 1..0 |-> i] \in [1..0 -> T] /\ Increasing([i \in 1..0 |-> i])
      BY DEF Increasing
    <3>2. Lists(0, T)
      BY <3>1
    <3> HIDE DEF Lists
    <3> QED BY <2>1, <2>3, <3>2
  <2>4. CASE n # 0
    <3>1. T # {}
      BY <2>1, <2>4, FS_EmptySet
    <3>2. PICK m \in T : \A j \in T : j <= m
      BY <3>1, LastOfPlaces
    <3> DEFINE U == T \ {m}
    <3>3. IsFiniteSet(T)
      BY <1>1
    <3>4. Cardinality(U) = n - 1
      BY <2>1, <3>3, FS_RemoveElement
    <3>5. U \in SUBSET (1..L) /\ n - 1 \in Nat
      BY <2>2, <2>4
    <3>6. Lists(n - 1, U)
      <4> HIDE DEF Lists
      <4>1. n - 1 \notin Bad
        <5>1. <<n - 1, n>> \in Less
          BY <2>2, <3>5 DEF Less
        <5> HIDE DEF Bad
        <5> QED BY <1>2, <5>1
      <4> HIDE DEF U
      <4> QED BY <3>4, <3>5, <4>1
    <3>7. PICK q \in [1..(n - 1) -> U] : Increasing(q)
      BY <3>6
    <3> DEFINE r == [i \in 1..n |-> IF i = n THEN m ELSE q[i]]
    <3>8. \A i \in 1..n : i # n => i \in 1..(n - 1)
      BY <2>2
    <3>9. \A i \in 1..n : r[i] \in T /\ (i = n => r[i] = m) /\ (i # n => r[i] = q[i] /\ q[i] \in U)
      BY <3>8
    <3>10. r \in [1..n -> T]
      BY <3>9
    <3>11. ASSUME NEW j \in 1..n, NEW k \in 1..n, j < k
           PROVE  r[j] < r[k]
      <4>1. j # n /\ r[j] = q[j] /\ q[j] \in U /\ j \in 1..(n - 1)
        <5>1. j # n
          BY <2>2, <3>11
        <5> QED BY <3>8, <3>9, <5>1
      <4>2. CASE k = n
        <5>1. q[j] <= m /\ q[j] # m /\ q[j] \in 1..L /\ m \in 1..L
          BY <3>2, <4>1
        <5>2. r[k] = m
          BY <3>9, <4>2
        <5> HIDE DEF r
        <5> QED BY <4>1, <5>1, <5>2
      <4>3. CASE k # n
        <5>1. r[k] = q[k] /\ k \in 1..(n - 1)
          BY <3>8, <3>9, <4>3
        <5>2. q[j] < q[k]
          BY <3>7, <3>11, <4>1, <5>1 DEF Increasing
        <5> HIDE DEF r
        <5> QED BY <4>1, <5>1, <5>2
      <4> QED BY <4>2, <4>3
    <3>12. Increasing(r)
      <4>1. DOMAIN r = 1..n
        OBVIOUS
      <4> HIDE DEF r
      <4> QED BY <3>11, <4>1 DEF Increasing
    <3>13. Lists(n, T)
      <4> HIDE DEF r
      <4> QED BY <3>10, <3>12
    <3> HIDE DEF Lists
    <3> QED BY <2>1, <3>13
  <2> QED BY <2>3, <2>4
<1>3. Bad = {}
  <2>1. SUFFICES ASSUME Bad # {} PROVE FALSE
    OBVIOUS
  <2>2. IsWellFoundedOn(Less, Nat)
    BY NatLessThanWellFounded DEF OpToRel, Less
  <2>3. Bad \subseteq Nat
    OBVIOUS
  <2> HIDE DEF Bad
  <2>4. PICK n \in Bad : \A m \in Bad : ~(<<m, n>> \in Less)
    BY <2>1, <2>2, <2>3, WFMin
  <2> QED BY <1>2, <2>4
<1>4. Lists(Cardinality(S), S)
  <2> HIDE DEF Lists
  <2> QED BY <1>1, <1>3
<1> QED BY <1>1, <1>4

\* Every place of the set is listed, each once.
LEMMA InOrderFacts ==
    ASSUME NEW L \in Nat, NEW S \in SUBSET (1..L)
    PROVE  LET n == Cardinality(S)
               q == InOrder(S) IN
           /\ n \in Nat /\ q \in [1..n -> S] /\ Increasing(q)
           /\ \A j, k \in 1..n : q[j] = q[k] => j = k
           /\ \A i \in S : \E k \in 1..n : q[k] = i
<1> DEFINE n == Cardinality(S)
           q == InOrder(S)
           Up(p) == \A j, k \in DOMAIN p : j < k => p[j] < p[k]
<1>1. IsFiniteSet(S) /\ n \in Nat
  BY InOrderExists
<1>2. \E p \in [1..n -> S] : Up(p)
  BY InOrderExists DEF Increasing
<1>3. q \in [1..n -> S] /\ Up(q)
  <2>1. q = CHOOSE p \in [1..n -> S] : Up(p)
    BY DEF InOrder
  <2> HIDE DEF q, n, Up
  <2> QED BY <1>2, <2>1
<1>4. DOMAIN q = 1..n /\ Increasing(q)
  <2> HIDE DEF n, q
  <2> QED BY <1>3 DEF Increasing
<1>10. \A i \in S : i \in Nat
  OBVIOUS
<1> HIDE DEF n, q, Up
<1>5. ASSUME NEW j \in 1..n, NEW k \in 1..n, q[j] = q[k]
      PROVE  j = k
  <2>1. q[j] \in S /\ q[k] \in S /\ j \in Nat /\ k \in Nat
    BY <1>1, <1>3
  <2>2. q[j] \in Nat /\ q[k] \in Nat
    BY <1>10, <2>1
  <2>3. ~(j < k) /\ ~(k < j)
    BY <1>4, <1>5, <2>2 DEF Increasing
  <2> QED BY <2>1, <2>3
<1>6. q \in Injection(1..n, S)
  BY <1>3, <1>5 DEF Injection, IsInjective
<1>7. Cardinality(1..n) = n
  BY <1>1, FS_Interval
<1>8. q \in Surjection(1..n, S)
  <2>1. Cardinality(1..n) = Cardinality(S)
    BY <1>7 DEF n
  <2> QED BY <1>1, <1>6, <2>1, FS_Injection
<1>9. \A i \in S : \E k \in 1..n : q[k] = i
  BY <1>8 DEF Surjection
<1> QED BY <1>1, <1>3, <1>4, <1>5, <1>9 DEF n, q

\* There is one such list.
Enumerates(p, l, S) == p \in [1..l -> S] /\ Increasing(p) /\ \A i \in S : \E k \in 1..l : p[k] = i

LEMMA OneInOrder ==
    ASSUME NEW L \in Nat, NEW S \in SUBSET (1..L), NEW l \in Nat, NEW p, Enumerates(p, l, S)
    PROVE  Cardinality(S) = l /\ InOrder(S) = p
<1>9. p \in [1..l -> S] /\ Increasing(p) /\ \A i \in S : \E k \in 1..l : p[k] = i
  BY DEF Enumerates
<1> DEFINE n == Cardinality(S)
           q == InOrder(S)
<1>1. /\ n \in Nat /\ q \in [1..n -> S] /\ Increasing(q)
      /\ \A i \in S : \E k \in 1..n : q[k] = i
  BY InOrderFacts
<1>2. \A i \in S : i \in Nat
  OBVIOUS
<1>3. Cardinality(S) = l
  <2>1. \A j, k \in 1..l : p[j] = p[k] => j = k
    <3> SUFFICES ASSUME NEW j \in 1..l, NEW k \in 1..l, p[j] = p[k] PROVE j = k
      OBVIOUS
    <3>1. p[j] \in Nat /\ p[k] \in Nat /\ DOMAIN p = 1..l
      BY <1>2, <1>9
    <3>2. ~(j < k) /\ ~(k < j)
      BY <1>9, <3>1 DEF Increasing
    <3> QED BY <3>2
  <2>2. p \in Surjection(1..l, S)
    BY <1>9 DEF Surjection
  <2>3. p \in Injection(1..l, S)
    BY <1>9, <2>1 DEF Injection, IsInjective
  <2>4. IsFiniteSet(1..l) /\ Cardinality(1..l) = l
    BY FS_Interval
  <2> QED BY <2>2, <2>3, <2>4, FS_Surjection
<1>4. n = l
  BY <1>3
<1> HIDE DEF n, q
<1>5. DOMAIN p = 1..l /\ DOMAIN q = 1..l /\ q \in [1..l -> S]
  BY <1>1, <1>4, <1>9
<1> DEFINE Off == {k \in 1..l : q[k] # p[k]}
<1>6. ASSUME NEW k \in Off, \A j \in Off : ~(<<j, k>> \in Less)
      PROVE  FALSE
  <2>1. k \in 1..l /\ q[k] # p[k] /\ p[k] \in S /\ q[k] \in S /\ p[k] \in Nat /\ q[k] \in Nat
    BY <1>2, <1>5, <1>9
  <2>2. ASSUME NEW j \in 1..l, j < k PROVE q[j] = p[j]
    <3>1. <<j, k>> \in Less
      BY <2>1, <2>2 DEF Less
    <3> QED BY <1>6, <2>2, <3>1
  <2> HIDE DEF Off
  <2>3. CASE p[k] < q[k]
    <3>1. PICK j \in 1..l : q[j] = p[k]
      BY <1>1, <1>4, <2>1
    <3>2. CASE j < k
      <4>1. p[j] = p[k] /\ p[j] < p[k]
        BY <1>5, <1>9, <2>1, <2>2, <3>1, <3>2 DEF Increasing
      <4> QED BY <2>1, <4>1
    <3>3. CASE j = k
      BY <2>1, <3>1, <3>3
    <3>4. CASE k < j
      <4>1. q[k] < q[j]
        BY <1>1, <1>5, <2>1, <3>4 DEF Increasing
      <4> QED BY <2>1, <2>3, <3>1, <4>1
    <3> QED BY <2>1, <3>2, <3>3, <3>4
  <2>4. CASE q[k] < p[k]
    <3>1. PICK j \in 1..l : p[j] = q[k]
      BY <1>9, <2>1
    <3>2. CASE j < k
      <4>1. q[j] = q[k] /\ q[j] < q[k]
        BY <1>1, <1>5, <2>1, <2>2, <3>1, <3>2 DEF Increasing
      <4> QED BY <2>1, <4>1
    <3>3. CASE j = k
      BY <2>1, <3>1, <3>3
    <3>4. CASE k < j
      <4>1. p[k] < p[j]
        BY <1>5, <1>9, <2>1, <3>4 DEF Increasing
      <4> QED BY <2>1, <2>4, <3>1, <4>1
    <3> QED BY <2>1, <3>2, <3>3, <3>4
  <2> QED BY <2>1, <2>3, <2>4
<1>7. Off = {}
  <2>1. SUFFICES ASSUME Off # {} PROVE FALSE
    OBVIOUS
  <2>2. IsWellFoundedOn(Less, Nat)
    BY NatLessThanWellFounded DEF OpToRel, Less
  <2>3. Off \subseteq Nat
    OBVIOUS
  <2> HIDE DEF Off
  <2>4. PICK k \in Off : \A j \in Off : ~(<<j, k>> \in Less)
    BY <2>1, <2>2, <2>3, WFMin
  <2> QED BY <1>6, <2>4
<1>8. \A k \in 1..l : q[k] = p[k]
  BY <1>7
<1> QED BY <1>3, <1>5, <1>8, <1>9 DEF q

\* The named places of a list.
LEMMA NamedPlaces ==
    ASSUME NEW fields \in Seq(SchemaField)
    PROVE  /\ Len(fields) \in Nat /\ DOMAIN fields = 1..Len(fields)
           /\ \A i \in DOMAIN fields : fields[i] \in SchemaField /\ fields[i].name \in Texts
           /\ Named(fields) \in SUBSET (1..Len(fields)) /\ IsFiniteSet(Named(fields))
           /\ \A i \in Named(fields) : fields[i] \in SchemaField /\ fields[i].name \in Texts
<1>1. Len(fields) \in Nat /\ DOMAIN fields = 1..Len(fields)
  OBVIOUS
<1>2. \A i \in DOMAIN fields : fields[i] \in SchemaField
  OBVIOUS
<1>3. \A f \in SchemaField : f.name \in Texts
  BY DEF SchemaField
<1>4. Named(fields) \in SUBSET (1..Len(fields))
  BY <1>1 DEF Named
<1>5. IsFiniteSet(1..Len(fields))
  BY <1>1, FS_Interval
<1>6. IsFiniteSet(Named(fields))
  BY <1>4, <1>5, FS_Subset
<1> QED BY <1>1, <1>2, <1>3, <1>4, <1>6

NamesOf(fields) == {Trimmed[fields[i].name] : i \in Named(fields)}

\* Every name has a first place, and no two first places have one name.
LEMMA FirstPlaces ==
    ASSUME NEW fields \in Seq(SchemaField)
    PROVE  /\ Firsts(fields) \in SUBSET Named(fields)
           /\ \A n \in NamesOf(fields) : \E i \in Firsts(fields) : Trimmed[fields[i].name] = n
           /\ \A i, j \in Firsts(fields) :
                  Trimmed[fields[i].name] = Trimmed[fields[j].name] => i = j
<1>1. Named(fields) \subseteq Nat
  <2>1. Named(fields) \in SUBSET (1..Len(fields)) /\ Len(fields) \in Nat
    BY NamedPlaces
  <2> QED BY <2>1
<1>2. Firsts(fields) \in SUBSET Named(fields)
  BY DEF Firsts
<1>3. ASSUME NEW n \in NamesOf(fields)
      PROVE  \E i \in Firsts(fields) : Trimmed[fields[i].name] = n
  <2> DEFINE at == {i \in Named(fields) : Trimmed[fields[i].name] = n}
  <2>1. at # {} /\ at \subseteq Nat
    BY <1>1 DEF NamesOf
  <2>2. IsWellFoundedOn(Less, Nat)
    BY NatLessThanWellFounded DEF OpToRel, Less
  <2>3. PICK i \in at : \A j \in at : ~(<<j, i>> \in Less)
    <3> HIDE DEF at
    <3> QED BY <2>1, <2>2, WFMin
  <2>4. ASSUME NEW j \in Named(fields), Trimmed[fields[j].name] = Trimmed[fields[i].name]
        PROVE  i <= j
    <3>1. j \in at /\ j \in Nat /\ i \in Nat
      BY <1>1, <2>4
    <3>2. ~(j < i)
      <4> HIDE DEF at
      <4> QED BY <2>3, <3>1 DEF Less
    <3> QED BY <3>1, <3>2
  <2>5. i \in Firsts(fields)
    BY <2>4 DEF Firsts
  <2> QED BY <2>5
<1>4. ASSUME NEW i \in Firsts(fields), NEW j \in Firsts(fields),
             Trimmed[fields[i].name] = Trimmed[fields[j].name]
      PROVE  i = j
  <2>1. i <= j /\ j <= i
    BY <1>4 DEF Firsts
  <2>2. i \in Nat /\ j \in Nat
    BY <1>1, <1>2
  <2> QED BY <2>1, <2>2
<1> QED BY <1>2, <1>3, <1>4

\* The names at some places, in order.
LEMMA NamesListed ==
    ASSUME NEW fields \in Seq(SchemaField), NEW S \in SUBSET Named(fields)
    PROVE  LET l == NamesAt(fields, S)
               q == InOrder(S)
               n == Cardinality(S) IN
           /\ l \in Seq(NamesOf(fields)) /\ n \in Nat /\ DOMAIN l = 1..n /\ Len(l) = n
           /\ \A k \in 1..n : q[k] \in S /\ l[k] = Trimmed[fields[q[k]].name]
           /\ \A j, k \in 1..n : q[j] = q[k] => j = k
           /\ \A i \in S : \E k \in 1..n : q[k] = i
<1> DEFINE l == NamesAt(fields, S)
           q == InOrder(S)
           n == Cardinality(S)
<1>1. Named(fields) \in SUBSET (1..Len(fields)) /\ Len(fields) \in Nat
  BY NamedPlaces
<1>2. S \in SUBSET (1..Len(fields))
  BY <1>1
<1>3. /\ n \in Nat /\ q \in [1..n -> S]
      /\ \A j, k \in 1..n : q[j] = q[k] => j = k
      /\ \A i \in S : \E k \in 1..n : q[k] = i
  BY <1>1, <1>2, InOrderFacts
<1>4. l = [k \in 1..n |-> Trimmed[fields[q[k]].name]]
  BY DEF NamesAt
<1> HIDE DEF l, q, n
<1>5. \A k \in 1..n : q[k] \in S /\ l[k] = Trimmed[fields[q[k]].name] /\ l[k] \in NamesOf(fields)
  BY <1>3, <1>4 DEF NamesOf
<1>6. l \in [1..n -> NamesOf(fields)]
  BY <1>4, <1>5
<1>7. l \in Seq(NamesOf(fields)) /\ DOMAIN l = 1..n /\ Len(l) = n
  BY <1>3, <1>6
<1> QED BY <1>3, <1>5, <1>7 DEF l, q, n

\* The order that is written lists every name once.
LEMMA OrderWritten ==
    ASSUME NEW fields \in Seq(SchemaField)
    PROVE  LET l == NamesAt(fields, Firsts(fields)) IN
           /\ l \in Seq(NamesOf(fields)) /\ Once(l)
           /\ \A n \in NamesOf(fields) : \E k \in DOMAIN l : l[k] = n
<1> DEFINE S == Firsts(fields)
           l == NamesAt(fields, S)
           q == InOrder(S)
           c == Cardinality(S)
<1>1. /\ S \in SUBSET Named(fields)
      /\ \A n \in NamesOf(fields) : \E i \in S : Trimmed[fields[i].name] = n
      /\ \A i, j \in S : Trimmed[fields[i].name] = Trimmed[fields[j].name] => i = j
  BY FirstPlaces
<1> HIDE DEF S
<1>2. /\ l \in Seq(NamesOf(fields)) /\ DOMAIN l = 1..c
      /\ \A k \in 1..c : q[k] \in S /\ l[k] = Trimmed[fields[q[k]].name]
      /\ \A j, k \in 1..c : q[j] = q[k] => j = k
      /\ \A i \in S : \E k \in 1..c : q[k] = i
  BY <1>1, NamesListed
<1> HIDE DEF l, q, c
<1>3. Once(l)
  <2> SUFFICES ASSUME NEW j \in 1..c, NEW k \in 1..c, l[j] = l[k] PROVE j = k
    BY <1>2 DEF Once
  <2>1. q[j] = q[k]
    BY <1>1, <1>2
  <2> QED BY <1>2, <2>1
<1>4. ASSUME NEW n \in NamesOf(fields) PROVE \E k \in DOMAIN l : l[k] = n
  <2>1. PICK i \in S : Trimmed[fields[i].name] = n
    BY <1>1
  <2>2. PICK k \in 1..c : q[k] = i
    BY <1>2
  <2> QED BY <1>2, <2>1, <2>2
<1> QED BY <1>2, <1>3, <1>4 DEF l, S

\* What FieldsToSchema writes of each name: the property of a field of that name.
LEMMA FieldsWritten ==
    ASSUME NEW fields \in Seq(SchemaField)
    PROVE  LET s == FieldsToSchema(fields) IN
           /\ DOMAIN s.props = NamesOf(fields)
           /\ \A n \in NamesOf(fields) : \E i \in Named(fields) :
                 Trimmed[fields[i].name] = n /\ s.props[n] = PropertyOf(fields[i])
           /\ s.order = NamesAt(fields, Firsts(fields))
           /\ s.required = NamesAt(fields, {i \in Named(fields) : fields[i].required})
           /\ s.required \in Seq(NamesOf(fields))
           /\ s = [EmptyObject EXCEPT !.props = s.props, !.order = s.order, !.required = s.required]
<1> DEFINE at(n)   == {i \in Named(fields) : Trimmed[fields[i].name] = n}
           last(n) == CHOOSE i \in at(n) : \A j \in at(n) : j <= i
           N       == NamesOf(fields)
           props   == [n \in N |-> PropertyOf(fields[last(n)])]
           askers  == {i \in Named(fields) : fields[i].required}
           order    == NamesAt(fields, Firsts(fields))
           required == NamesAt(fields, askers)
           s       == FieldsToSchema(fields)
<1>1. s = [EmptyObject EXCEPT !.props = props, !.order = order, !.required = required]
  BY DEF FieldsToSchema, NamesOf
<1>2. ASSUME NEW n \in N PROVE last(n) \in at(n)
  <2>1. Named(fields) \in SUBSET (1..Len(fields)) /\ Len(fields) \in Nat
    BY NamedPlaces
  <2>2. at(n) \in SUBSET (1..Len(fields)) /\ at(n) # {}
    BY <2>1 DEF NamesOf
  <2> HIDE DEF at
  <2> QED BY <2>1, <2>2, LastOfPlaces
<1>6. required \in Seq(N)
  <2>1. askers \in SUBSET Named(fields)
    OBVIOUS
  <2> HIDE DEF askers
  <2> QED BY <2>1, NamesListed
<1> HIDE DEF props, order, required, s, last
<1>3. s.props = props /\ s.order = order /\ s.required = required
  <2>1. EmptyObject \in SchemaOver({})
    BY EmptyObjectFacts, SchemaParts
  <2> QED BY <1>1, <2>1 DEF SchemaOver
<1>4. DOMAIN props = N /\ \A n \in N : props[n] = PropertyOf(fields[last(n)])
  BY DEF props
<1>5. ASSUME NEW n \in N
      PROVE  \E i \in Named(fields) : Trimmed[fields[i].name] = n /\ s.props[n] = PropertyOf(fields[i])
  BY <1>2, <1>3, <1>4
<1> QED BY <1>1, <1>3, <1>4, <1>5, <1>6 DEF s, order, required

\* The property of a field is a property.
LEMMA PropertyOfTyped ==
    ASSUME NEW f \in SchemaField
    PROVE  /\ PropertyOf(f) \in Property
           /\ PropertyOf(f).itemFormat = "image" <=> f.type = "image"
           /\ PropertyOf(f).type = "array" <=> f.type \in {"array", "image"}
           /\ PropertyOf(f).type \in FieldTypes
<1> DEFINE image == f.type = "image"
<1>1. {} \in Bounds /\ (f.cap > 0 => {f.cap} \in Bounds)
  BY DEF Bounds, SchemaField
<1>2. PropertyOf(f).cap \in Bounds
  BY <1>1 DEF PropertyOf
<1>3. /\ f.type \in FieldTypes \cup {"image"} /\ f.enum \in Seq(Words) /\ f.item \in FieldTypes
      /\ Trimmed[f.description] \in Texts
  BY TextAssumption DEF SchemaField
<1>4. /\ "array" \in FieldTypes /\ "string" \in FieldTypes /\ "image" \in Formats /\ "none" \in Formats
      /\ "image" \notin FieldTypes
  BY DEF FieldTypes, ScalarTypes, Formats
<1>5. PropertyOf(f).type \in FieldTypes
  BY <1>3, <1>4 DEF PropertyOf
<1>6. PropertyOf(f) \in Property
  <2>1. <<>> \in Seq(Words)
    OBVIOUS
  <2> QED BY <1>2, <1>3, <1>4, <1>5, <2>1 DEF PropertyOf, Property
<1>7. /\ PropertyOf(f).itemFormat = "image" <=> f.type = "image"
      /\ PropertyOf(f).type = "array" <=> f.type \in {"array", "image"}
  BY DEF PropertyOf
<1> QED BY <1>5, <1>6, <1>7

\* A schema with other properties, order and required names.
Put(e, q, o, l) == [e EXCEPT !.props = q, !.order = o, !.required = l]

LEMMA Rewritten ==
    ASSUME NEW N, NEW e \in SchemaOver({}), NEW q \in [N -> Property], NEW o \in Seq(N), NEW l \in Seq(Texts)
    PROVE  Put(e, q, o, l) \in SchemaOver(N) /\ Put(e, q, o, l).type = e.type
BY DEF SchemaOver, Put

\* What is written is a schema, with bare names.
LEMMA WrittenTyped ==
    ASSUME NEW fields \in Seq(SchemaField)
    PROVE  LET s == FieldsToSchema(fields) IN
           /\ IsSchema(s) /\ s.type = "object"
           /\ \A n \in DOMAIN s.props : Trimmed[n] = n /\ s.props[n].type \in FieldTypes
<1> DEFINE s == FieldsToSchema(fields)
           N == NamesOf(fields)
<1>1. /\ DOMAIN s.props = N
      /\ \A n \in N : \E i \in Named(fields) :
             Trimmed[fields[i].name] = n /\ s.props[n] = PropertyOf(fields[i])
      /\ s = [EmptyObject EXCEPT !.props = s.props, !.order = s.order, !.required = s.required]
      /\ s.order = NamesAt(fields, Firsts(fields)) /\ s.required \in Seq(N)
  BY FieldsWritten
<1>10. s.order \in Seq(N) /\ Once(s.order) /\ \A n \in N : \E k \in DOMAIN s.order : s.order[k] = n
  <2> HIDE DEF s
  <2> QED BY <1>1, OrderWritten
<1>2. \A i \in Named(fields) : fields[i] \in SchemaField /\ fields[i].name \in Texts
  BY NamedPlaces
<1>3. N \in SUBSET Texts /\ \A n \in N : Trimmed[n] = n
  BY <1>2, TextAssumption DEF NamesOf
<1>4. IsFiniteSet(N)
  <2> DEFINE g == [i \in Named(fields) |-> Trimmed[fields[i].name]]
  <2>2. IsFiniteSet(Named(fields))
    BY NamedPlaces
  <2>3. g \in Surjection(Named(fields), N)
    BY DEF Surjection, NamesOf
  <2> HIDE DEF g, N
  <2> QED BY <2>2, <2>3, FS_Surjection
<1>5. \A n \in N : s.props[n] \in Property /\ s.props[n].type \in FieldTypes
  BY <1>1, <1>2, PropertyOfTyped
<1>6. s.props \in [N -> Property]
  <2>1. FieldsToSchema(fields).props = [n \in N |-> s.props[n]]
    <3> DEFINE props == [n \in N |-> PropertyOf(fields[CHOOSE i \in {j \in Named(fields) : Trimmed[fields[j].name] = n} :
                             \A j \in {l \in Named(fields) : Trimmed[fields[l].name] = n} : j <= i])]
    <3>1. EmptyObject \in SchemaOver({})
      BY EmptyObjectFacts, SchemaParts
    <3>2. s.props = props
      BY <3>1 DEF FieldsToSchema, NamesOf, SchemaOver
    <3> QED BY <3>2
  <2> HIDE DEF s, N
  <2> QED BY <1>5, <2>1 DEF s
<1> HIDE DEF s, N
<1>7. EmptyObject \in SchemaOver({}) /\ EmptyObject.type = "object"
  BY EmptyObjectFacts, SchemaParts
<1>8. s \in SchemaOver(N) /\ s.type = "object"
  <2>1. s.order \in Seq(N)
    BY <1>10
  <2>2. s.required \in Seq(Texts)
    BY <1>1, <1>3
  <2>3. s = Put(EmptyObject, s.props, s.order, s.required)
    BY <1>1 DEF Put
  <2>4. /\ Put(EmptyObject, s.props, s.order, s.required) \in SchemaOver(N)
        /\ Put(EmptyObject, s.props, s.order, s.required).type = EmptyObject.type
    <3>1. \A q \in [N -> Property], o \in Seq(N), l \in Seq(Texts) :
             Put(EmptyObject, q, o, l) \in SchemaOver(N) /\ Put(EmptyObject, q, o, l).type = EmptyObject.type
      BY <1>7, Rewritten
    <3> DEFINE q == s.props
               o == s.order
               l == s.required
    <3>2. q \in [N -> Property] /\ o \in Seq(N) /\ l \in Seq(Texts)
      BY <1>6, <2>1, <2>2
    <3> HIDE DEF q, o, l
    <3>3. Put(EmptyObject, q, o, l) \in SchemaOver(N) /\ Put(EmptyObject, q, o, l).type = EmptyObject.type
      BY <3>1, <3>2
    <3> QED BY <3>3 DEF q, o, l
  <2> QED BY <1>7, <2>3, <2>4
<1>9. IsSchema(s)
  <2>1. s.type \notin {"null", "empty", "unparsable"}
    BY <1>8
  <2> QED BY <1>1, <1>3, <1>4, <1>8, <1>10, <2>1 DEF IsSchema
<1> QED BY <1>1, <1>3, <1>5, <1>8, <1>9 DEF s
-----------------------------------------------------------------------------
\* A schema that has nothing beyond the field list is written back as it
\* was.

\* A property the field list draws in full.
FullyDrawn(n, s) ==
    LET p == s.props[n] IN
    /\ n = Trimmed[n] /\ n # "" /\ p.description = Trimmed[p.description]
    /\ ~p.lost /\ p.format = "none"
    /\ p.type = "array" => p.item # "none"
    /\ \A cap \in p.cap : cap > 0

LEMMA PropertyWrittenBack ==
    ASSUME NEW s, IsSchema(s), NEW a \in BOOLEAN, Drawable(s, a),
           NEW n \in DOMAIN s.props, FullyDrawn(n, s)
    PROVE  PropertyOf(FieldOf(n, s, a)) = s.props[n]
<1> DEFINE p == s.props[n]
           f == FieldOf(n, s, a)
           q == PropertyOf(f)
<1>1. p \in Property /\ p.cap \in Bounds
  <2>1. s.props \in [DOMAIN s.props -> Property]
    BY SchemaParts
  <2>2. p \in Property
    BY <2>1
  <2> HIDE DEF p
  <2> QED BY <2>2 DEF Property
<1>2. /\ p.type \in FieldTypes /\ ~p.rich
      /\ p.enum # <<>> => p.type = "string"
      /\ p.type # "array" => p.item = "none" /\ p.cap = {}
      /\ p.itemFormat # "none" \/ p.cap # {} => IsImage(p, a)
  <2>1. DrawableProperty(p, a)
    BY DrawableParts
  <2> HIDE DEF p
  <2> QED BY <2>1 DEF DrawableProperty
<1>3. /\ ~p.lost /\ p.format = "none" /\ (p.type = "array" => p.item # "none")
      /\ p.description = Trimmed[p.description] /\ \A cap \in p.cap : cap > 0
  BY DEF FullyDrawn
<1>4. IsImage(p, a) <=> a /\ p.type = "array" /\ p.item = "string" /\ p.itemFormat = "image"
  BY DEF IsImage
<1>5. p.type # "image"
  BY <1>2 DEF FieldTypes, ScalarTypes
<1>6. f \in SchemaField
  BY FieldOfTyped
<1>7. q \in Property
  BY <1>6, PropertyOfTyped
<1>8. p.cap # {} => p.cap = {The(p.cap)} /\ The(p.cap) > 0
  BY <1>1, <1>3, TheOne
<1>9. /\ f.enum = p.enum /\ f.description = p.description
      /\ f.type = (IF IsImage(p, a) THEN "image" ELSE p.type)
      /\ f.item = (IF p.item = "none" THEN "string" ELSE p.item)
      /\ f.cap = (IF ~IsImage(p, a) THEN 1 ELSE IF p.cap = {} THEN 0 ELSE The(p.cap))
  BY DEF FieldOf
<1>10. p.lost = FALSE /\ p.rich = FALSE /\ q.lost = FALSE /\ q.rich = FALSE
  BY <1>1, <1>2, <1>3 DEF Property, PropertyOf
<1>13. q.description = p.description
  <2>1. q.description = Trimmed[f.description]
    BY DEF PropertyOf
  <2> HIDE DEF q, f, p
  <2> QED BY <1>3, <1>9, <2>1
<1> HIDE DEF p, f
<1>11. CASE IsImage(p, a)
  <2>1. f.type = "image"
    BY <1>9, <1>11
  <2>2. f.cap = (IF p.cap = {} THEN 0 ELSE The(p.cap))
    BY <1>9, <1>11
  <2>3. q.cap = p.cap
    <3>1. CASE p.cap = {}
      BY <2>1, <2>2, <3>1 DEF PropertyOf
    <3>2. CASE p.cap # {}
      BY <1>8, <2>1, <2>2, <3>2 DEF PropertyOf
    <3> QED BY <3>1, <3>2
  <2>4. q.type = p.type /\ q.item = p.item /\ q.itemFormat = p.itemFormat /\ q.format = p.format
    BY <1>3, <1>4, <1>11, <2>1 DEF PropertyOf
  <2>5. q.enum = p.enum
    BY <1>2, <1>4, <1>11, <2>1 DEF PropertyOf
  <2>6. \A x, y \in Property :
           /\ x.type = y.type /\ x.description = y.description /\ x.enum = y.enum /\ x.format = y.format /\ x.item = y.item
           /\ x.itemFormat = y.itemFormat /\ x.cap = y.cap /\ x.lost = y.lost /\ x.rich = y.rich
           => x = y
    BY DEF Property
  <2> HIDE DEF q
  <2> QED BY <1>1, <1>7, <1>10, <1>13, <2>3, <2>4, <2>5, <2>6 DEF p, f, q
<1>12. CASE ~IsImage(p, a)
  <2>1. f.type = p.type /\ f.type # "image"
    BY <1>5, <1>9, <1>12
  <2>2. p.cap = {} /\ p.itemFormat = "none"
    BY <1>2, <1>12
  <2>3. q.cap = p.cap /\ q.type = p.type /\ q.itemFormat = p.itemFormat /\ q.format = p.format
    BY <1>3, <2>1, <2>2 DEF PropertyOf
  <2>4. q.enum = p.enum
    BY <1>2, <1>9, <2>1 DEF PropertyOf
  <2>5. q.item = p.item
    BY <1>2, <1>3, <1>9, <2>1 DEF PropertyOf
  <2>6. \A x, y \in Property :
           /\ x.type = y.type /\ x.description = y.description /\ x.enum = y.enum /\ x.format = y.format /\ x.item = y.item
           /\ x.itemFormat = y.itemFormat /\ x.cap = y.cap /\ x.lost = y.lost /\ x.rich = y.rich
           => x = y
    BY DEF Property
  <2> HIDE DEF q
  <2> QED BY <1>1, <1>7, <1>10, <1>13, <2>3, <2>4, <2>5, <2>6 DEF p, f, q
<1> QED BY <1>11, <1>12

\* The fields have the names of a list, each once.
Stand(fields, L, order) ==
    /\ L \in Nat /\ Named(fields) = 1..L
    /\ \A i, j \in 1..L : order[i] = order[j] => i = j
    /\ \A i \in 1..L : Trimmed[fields[i].name] = order[i]

\* Required are those of another list, which has its names in the same order.
InStep(fields, L, order, l, required) ==
    /\ l \in Nat
    /\ \A k \in 1..l : \E i \in 1..L : order[i] = required[k]
    /\ \A j, k \in 1..l : j < k => \E m, n \in 1..L : m < n /\ order[m] = required[j] /\ order[n] = required[k]
    /\ \A i \in 1..L : fields[i].required <=> (\E k \in 1..l : required[k] = order[i])

\* The order is written as it was.
LEMMA OrderReadBack ==
    ASSUME NEW fields, NEW L, NEW order, Stand(fields, L, order)
    PROVE  NamesAt(fields, Firsts(fields)) = [k \in 1..L |-> order[k]]
<1>1. /\ L \in Nat /\ Named(fields) = 1..L
      /\ \A i, j \in 1..L : order[i] = order[j] => i = j
      /\ \A i \in 1..L : Trimmed[fields[i].name] = order[i]
  BY DEF Stand
<1> DEFINE p == [k \in 1..L |-> k]
<1>2. \A i, j \in 1..L : Trimmed[fields[j].name] = Trimmed[fields[i].name] => i = j
  BY <1>1
<1>3. \A i \in 1..L : i <= i
  BY <1>1
<1>4. Firsts(fields) = 1..L
  <2>2. Firsts(fields) = {i \in 1..L : \A j \in 1..L : Trimmed[fields[j].name] = Trimmed[fields[i].name] => i <= j}
    BY <1>1 DEF Firsts
  <2>3. ASSUME NEW i \in 1..L, NEW j \in 1..L, Trimmed[fields[j].name] = Trimmed[fields[i].name]
        PROVE  i <= j
    BY <1>2, <1>3, <2>3
  <2> QED BY <2>2, <2>3
<1>5. p \in [1..L -> 1..L] /\ (\A i \in 1..L : \E k \in 1..L : p[k] = i) /\ Increasing(p)
  BY <1>1 DEF Increasing
<1> HIDE DEF p
<1>6. Cardinality(1..L) = L /\ InOrder(1..L) = p
  <2>1. 1..L \in SUBSET (1..L)
    OBVIOUS
  <2>2. Enumerates(p, L, 1..L)
    BY <1>5 DEF Enumerates
  <2> QED BY <1>1, <2>1, <2>2, OneInOrder
<1>7. NamesAt(fields, 1..L) = [k \in 1..L |-> Trimmed[fields[p[k]].name]]
  BY <1>6 DEF NamesAt
<1>8. \A k \in 1..L : Trimmed[fields[p[k]].name] = order[k]
  BY <1>1 DEF p
<1>9. NamesAt(fields, 1..L) = [k \in 1..L |-> order[k]]
  BY <1>7, <1>8
<1> QED BY <1>4, <1>9

\* Required names that are declared and in order are written as they were.
LEMMA RequiredReadBack ==
    ASSUME NEW fields, NEW L, NEW order, NEW l, NEW required,
           Stand(fields, L, order), InStep(fields, L, order, l, required)
    PROVE  NamesAt(fields, {i \in Named(fields) : fields[i].required}) = [k \in 1..l |-> required[k]]
<1>1. /\ L \in Nat /\ l \in Nat /\ Named(fields) = 1..L
      /\ \A i, j \in 1..L : order[i] = order[j] => i = j
      /\ \A i \in 1..L : Trimmed[fields[i].name] = order[i]
      /\ \A k \in 1..l : \E i \in 1..L : order[i] = required[k]
      /\ \A i \in 1..L : fields[i].required <=> (\E k \in 1..l : required[k] = order[i])
  BY DEF Stand, InStep
<1>3. \A j, k \in 1..l : j < k => \E m, n \in 1..L : m < n /\ order[m] = required[j] /\ order[n] = required[k]
  BY DEF InStep
<1> DEFINE S == {i \in Named(fields) : fields[i].required}
           p == [k \in 1..l |-> CHOOSE i \in 1..L : order[i] = required[k]]
<1>2. S = {i \in 1..L : \E k \in 1..l : required[k] = order[i]}
  <2>1. S = {i \in 1..L : fields[i].required}
    BY <1>1
  <2> HIDE DEF S
  <2> QED BY <1>1, <2>1
<1> HIDE DEF S
<1>4. ASSUME NEW k \in 1..l
      PROVE  p[k] \in 1..L /\ order[p[k]] = required[k] /\ p[k] \in S
  <2>1. \E i \in 1..L : order[i] = required[k]
    BY <1>1, <1>4
  <2>2. p[k] = CHOOSE i \in 1..L : order[i] = required[k]
    OBVIOUS
  <2> HIDE DEF p
  <2>3. p[k] \in 1..L /\ order[p[k]] = required[k]
    BY <2>1, <2>2
  <2> QED BY <1>2, <2>3
<1>5. DOMAIN p = 1..l
  OBVIOUS
<1>6. p \in [1..l -> S]
  BY <1>4
<1> HIDE DEF p
<1>7. ASSUME NEW j \in 1..l, NEW k \in 1..l, j < k
      PROVE  p[j] < p[k]
  <2>1. PICK m \in 1..L, n \in 1..L : m < n /\ order[m] = required[j] /\ order[n] = required[k]
    BY <1>3, <1>7
  <2>2. /\ p[j] \in 1..L /\ order[p[j]] = required[j]
        /\ p[k] \in 1..L /\ order[p[k]] = required[k]
    BY <1>4
  <2>3. p[j] = m
    BY <1>1, <2>1, <2>2
  <2>4. p[k] = n
    BY <1>1, <2>1, <2>2
  <2> QED BY <2>1, <2>3, <2>4
<1>8. Increasing(p)
  BY <1>5, <1>7 DEF Increasing
<1>9. ASSUME NEW i \in S PROVE \E k \in 1..l : p[k] = i
  <2>1. PICK k \in 1..l : required[k] = order[i]
    BY <1>2
  <2>2. i \in 1..L
    BY <1>2
  <2>3. p[k] = i
    BY <1>1, <1>4, <2>1, <2>2
  <2> QED BY <2>3
<1>10. S \in SUBSET (1..L)
  BY <1>2
<1>11. Cardinality(S) = l /\ InOrder(S) = p
  <2>1. Enumerates(p, l, S)
    BY <1>6, <1>8, <1>9 DEF Enumerates
  <2> QED BY <1>1, <1>10, <2>1, OneInOrder
<1>12. NamesAt(fields, S) = [k \in 1..l |-> Trimmed[fields[p[k]].name]]
  BY <1>11 DEF NamesAt
<1>13. \A k \in 1..l : Trimmed[fields[p[k]].name] = required[k]
  BY <1>1, <1>4
<1>14. NamesAt(fields, S) = [k \in 1..l |-> required[k]]
  BY <1>12, <1>13
<1> QED BY <1>14 DEF S

\* The whole schema.
LEMMA SchemaWrittenBack ==
    ASSUME NEW s, IsSchema(s), NEW a \in BOOLEAN, Drawable(s, a), HasSchema(s), ~s.lost,
           \A k \in DOMAIN s.required : s.required[k] \in DOMAIN s.props, InKeyOrder(s),
           \A n \in DOMAIN s.props : FullyDrawn(n, s)
    PROVE  FieldsToSchema(SchemaToFields(s, a)) = s
<1> DEFINE fields == SchemaToFields(s, a)
           N == DOMAIN s.props
           w == FieldsToSchema(fields)
           askers == {i \in Named(fields) : fields[i].required}
<1>1. /\ fields \in Seq(SchemaField) /\ DOMAIN fields = 1..Len(s.order)
      /\ \A i \in DOMAIN fields : /\ fields[i].name \in N /\ fields[i] = FieldOf(fields[i].name, s, a)
                                /\ fields[i].name = s.order[i]
      /\ \A n \in N : \E i \in DOMAIN fields : fields[i].name = n
  BY DrawnFields
<1>2. /\ DOMAIN w.props = NamesOf(fields)
      /\ \A n \in NamesOf(fields) : \E i \in Named(fields) :
             Trimmed[fields[i].name] = n /\ w.props[n] = PropertyOf(fields[i])
      /\ w.order = NamesAt(fields, Firsts(fields)) /\ w.required = NamesAt(fields, askers)
      /\ w = [EmptyObject EXCEPT !.props = w.props, !.order = w.order, !.required = w.required]
  <2> HIDE DEF fields
  <2> QED BY <1>1, FieldsWritten
<1>3. IsSchema(w)
  <2> HIDE DEF fields
  <2> QED BY <1>1, WrittenTyped
<1>4. w.props \in [DOMAIN w.props -> Property] /\ s.props \in [N -> Property]
  BY <1>3, SchemaParts
<1>5. \A n \in N : n = Trimmed[n] /\ n # ""
  BY DEF FullyDrawn
<1> HIDE DEF fields, w
<1>6. \A i \in DOMAIN fields : i \in Named(fields) /\ Trimmed[fields[i].name] = fields[i].name
  BY <1>1, <1>5 DEF Named
<1>7. NamesOf(fields) = N
  <2>1. Named(fields) \subseteq DOMAIN fields
    BY DEF Named
  <2> QED BY <1>1, <1>6, <2>1 DEF NamesOf
<1>8. ASSUME NEW n \in N PROVE w.props[n] = s.props[n]
  <2>1. PICK i \in Named(fields) : Trimmed[fields[i].name] = n /\ w.props[n] = PropertyOf(fields[i])
    BY <1>2, <1>7
  <2>2. i \in DOMAIN fields
    BY DEF Named
  <2>3. fields[i].name = n /\ fields[i] = FieldOf(n, s, a)
    BY <1>1, <1>6, <2>1, <2>2
  <2> QED BY <2>1, <2>3, PropertyWrittenBack
<1>9. w.props = s.props
  BY <1>2, <1>4, <1>7, <1>8
<1>10. /\ Len(s.order) \in Nat /\ DOMAIN s.order = 1..Len(s.order) /\ s.order \in Seq(N) /\ Once(s.order)
       /\ s.required \in Seq(Texts) /\ \A n \in N : \E k \in DOMAIN s.order : s.order[k] = n
  BY SchemaParts
<1>13. ASSUME NEW i \in DOMAIN fields
       PROVE  /\ Trimmed[fields[i].name] = s.order[i] /\ s.order[i] \in N
              /\ fields[i].required <=> Requires(s, s.order[i])
  <2>1. fields[i].name = s.order[i] /\ s.order[i] \in N /\ fields[i] = FieldOf(s.order[i], s, a)
    BY <1>1
  <2>2. FieldOf(s.order[i], s, a).required <=> Requires(s, s.order[i])
    BY <2>1, FieldOfTyped
  <2> QED BY <1>6, <2>1, <2>2
<1>14. Named(fields) = 1..Len(s.order)
  BY <1>1, <1>6 DEF Named
<1>16. \A i, j \in 1..Len(s.order) : s.order[i] = s.order[j] => i = j
  BY <1>10 DEF Once
<1>17. s.order = [k \in 1..Len(s.order) |-> s.order[k]]
  BY <1>10, SeqIsFunction
<1>18. Len(s.required) \in Nat /\ DOMAIN s.required = 1..Len(s.required)
  BY <1>10, SeqParts
<1>19. s.required = [k \in 1..Len(s.required) |-> s.required[k]]
  BY <1>10, SeqIsFunction
<1>20. \A k \in 1..Len(s.required) : \E i \in 1..Len(s.order) : s.order[i] = s.required[k]
  BY <1>10, <1>18
<1>21. \A j, k \in 1..Len(s.required) : j < k =>
          \E m, n \in 1..Len(s.order) : m < n /\ s.order[m] = s.required[j] /\ s.order[n] = s.required[k]
  <2>1. DOMAIN s.order = 1..Len(s.order) /\ DOMAIN s.required = 1..Len(s.required)
    BY <1>10, <1>18
  <2>2. \A j, k \in DOMAIN s.required : j < k =>
           \E m, n \in DOMAIN s.order : m < n /\ s.order[m] = s.required[j] /\ s.order[n] = s.required[k]
    BY DEF InKeyOrder
  <2> QED BY <2>1, <2>2
<1>22. \A i \in 1..Len(s.order) :
          fields[i].required <=> (\E k \in 1..Len(s.required) : s.required[k] = s.order[i])
  BY <1>1, <1>13, <1>18 DEF Requires
<1>23. \A i \in 1..Len(s.order) : Trimmed[fields[i].name] = s.order[i]
  BY <1>1, <1>13
<1>24. Len(s.order) \in Nat /\ Len(s.required) \in Nat
  BY <1>10, <1>18
<1>25. Stand(fields, Len(s.order), s.order)
  BY <1>14, <1>16, <1>23, <1>24 DEF Stand
<1>26. InStep(fields, Len(s.order), s.order, Len(s.required), s.required)
  BY <1>20, <1>21, <1>22, <1>24 DEF InStep
<1>15. w.order = s.order
  <2>1. NamesAt(fields, Firsts(fields)) = [k \in 1..Len(s.order) |-> s.order[k]]
    BY <1>25, OrderReadBack
  <2> QED BY <1>2, <1>17, <2>1
<1>11. w.required = s.required
  <2>1. NamesAt(fields, askers) = [k \in 1..Len(s.required) |-> s.required[k]]
    BY <1>25, <1>26, RequiredReadBack
  <2> QED BY <1>2, <1>19, <2>1
<1>12. s = [EmptyObject EXCEPT !.props = s.props, !.order = s.order, !.required = s.required]
  <2>1. s \in SchemaOver(N)
    BY SchemaParts
  <2>4. s.lost \in BOOLEAN
    BY <2>1 DEF SchemaOver
  <2>2. [s EXCEPT !.props = NoProps, !.order = <<>>, !.required = <<>>, !.lost = FALSE] = EmptyObject
    BY DrawableParts
  <2>3. \A x \in SchemaOver(N) : x.lost = FALSE =>
           [[x EXCEPT !.props = NoProps, !.order = <<>>, !.required = <<>>, !.lost = FALSE]
                EXCEPT !.props = x.props, !.order = x.order, !.required = x.required] = x
    BY DEF SchemaOver
  <2> QED BY <2>1, <2>2, <2>3, <2>4
<1> QED BY <1>2, <1>9, <1>11, <1>12, <1>15 DEF fields, w

\* Names without spaces around them are drawn once each.
LEMMA BareNamesOnce ==
    ASSUME NEW s, IsSchema(s), NEW a \in BOOLEAN, Drawable(s, a),
           \A n \in DOMAIN s.props : Trimmed[n] = n
    PROVE  ~HasDuplicates(SchemaToFields(s, a))
<1> DEFINE fields == SchemaToFields(s, a)
<1>1. /\ \A i \in DOMAIN fields : fields[i].name \in DOMAIN s.props
      /\ \A i, j \in DOMAIN fields : fields[i].name = fields[j].name => i = j
  BY DrawnFields
<1> HIDE DEF fields
<1>2. Named(fields) \subseteq DOMAIN fields
  BY DEF Named
<1>3. ~HasDuplicates(fields)
  BY <1>1, <1>2 DEF HasDuplicates
<1> QED BY <1>3 DEF fields

-----------------------------------------------------------------------------
\* Answers that are no object.

LEMMA ConstraintsTyped ==
    ASSUME NEW s, IsSchema(s)
    PROVE  InitConstraints(s) \in Constraints
<1>1. /\ s.enum \in Seq(Words) /\ s.pattern \in {"", "regex", "broken"}
      /\ s.min \in Bounds /\ s.max \in Bounds
  BY SchemaParts
<1>2. {} \in Bounds /\ "string" \in ScalarTypes
  BY DEF Bounds, ScalarTypes
<1> QED BY <1>1, <1>2 DEF InitConstraints, Constraints

LEMMA ScalarTyped ==
    ASSUME NEW t \in ScalarTypes \cup {"array"}, NEW c \in Constraints
    PROVE  /\ IsSchema(BuildScalar(t, c)) /\ BuildScalar(t, c).type = t
           /\ DOMAIN BuildScalar(t, c).props = {}
<1> DEFINE b == BuildScalar(t, c)
<1>1. /\ c.enum \in Seq(Words) /\ c.pattern \in {"", "regex", "broken"}
      /\ c.min \in Bounds /\ c.max \in Bounds /\ c.item \in ScalarTypes
  BY DEF Constraints
<1>2. t \in FieldTypes /\ t \notin {"null", "empty", "unparsable"}
  BY DEF FieldTypes, ScalarTypes
<1>3. IsSchema(Only(t)) /\ Only(t).type = t /\ DOMAIN Only(t).props = {}
  BY <1>2, OnlyFacts
<1>4. Only(t) \in SchemaOver({})
  BY <1>3, SchemaParts
<1>5. EnumFor(t, c) \in Seq(Words)
  <2>1. Len(c.enum) \in Nat /\ DOMAIN c.enum = 1..Len(c.enum) /\ \A k \in DOMAIN c.enum : c.enum[k] \in Words
    BY <1>1, SeqParts
  <2>2. Truncated(c.enum) \in [1..Len(c.enum) -> Words]
    BY <2>1 DEF Truncated, Words
  <2>3. Truncated(c.enum) \in Seq(Words) /\ <<>> \in Seq(Words)
    BY <2>1, <2>2
  <2> HIDE DEF Truncated
  <2> QED BY <1>1, <2>3 DEF EnumFor
<1>7. b \in SchemaOver({}) /\ b.type = t
  <2>1. CASE t = "boolean"
    BY <1>3, <1>4, <2>1 DEF BuildScalar
  <2>2. CASE t # "boolean"
    <3> DEFINE p == IF t = "string" THEN c.pattern ELSE ""
               i == IF t = "array" THEN c.item ELSE "none"
    <3>1. p \in {"", "regex", "broken"} /\ i \in FieldTypes \cup {"none"}
      BY <1>1 DEF FieldTypes
    <3>2. b = [type |-> t, props |-> NoProps, order |-> <<>>, required |-> <<>>, enum |-> EnumFor(t, c),
               pattern |-> p, min |-> c.min, max |-> c.max, item |-> i,
               lost |-> FALSE, rich |-> FALSE]
      BY <2>2 DEF BuildScalar, Only
    <3>3. NoProps \in [{} -> Property] /\ <<>> \in Seq({}) /\ <<>> \in Seq(Texts)
      BY DEF NoProps
    <3> HIDE DEF p, i, b
    <3>4. [type |-> t, props |-> NoProps, order |-> <<>>, required |-> <<>>, enum |-> EnumFor(t, c),
           pattern |-> p, min |-> c.min, max |-> c.max, item |-> i,
           lost |-> FALSE, rich |-> FALSE] \in SchemaOver({})
      BY <1>1, <1>2, <1>5, <3>1, <3>3 DEF SchemaOver
    <3> QED BY <3>2, <3>4
  <2> QED BY <2>1, <2>2
<1> HIDE DEF b
<1>8. DOMAIN b.props = {}
  BY <1>7 DEF SchemaOver
<1>9. IsSchema(b)
  <2>1. IsFiniteSet({}) /\ {} \in SUBSET Texts
    BY FS_EmptySet
  <2>2. b.order \in Seq({})
    BY <1>7 DEF SchemaOver
  <2>3. Once(b.order)
    <3>1. DOMAIN b.order = {}
      BY <2>2
    <3> QED BY <3>1 DEF Once
  <2> QED BY <1>2, <1>7, <1>8, <2>1, <2>3 DEF IsSchema
<1> QED BY <1>7, <1>8, <1>9 DEF b
-----------------------------------------------------------------------------
\* The editor on a schema.

Panes == {"input", "output"}

\* What an editor that mounts on a schema starts from.
StartOf(p, s) == IF p = "input" \/ DetectType(s) = "object" THEN s ELSE EmptyObject

LEMMA EditorOpened ==
    ASSUME NEW p \in Panes, NEW s, IsSchema(s)
    PROVE  LET e == EditorOn(p, s)
               start == StartOf(p, s)
               a == p = "input" IN
           /\ e.type \in ScalarTypes \cup {"array", "object"} /\ e.c \in Constraints
           /\ e.mode \in {"fields", "json"} /\ e.fields \in Seq(SchemaField)
           /\ e.raw = start /\ IsSchema(start)
           /\ p = "input" => e.type = "object"
           /\ e.type = "object" <=> p = "input" \/ DetectType(s) = "object"
           /\ e.type # "object" => e.type = s.type /\ e.type = DetectType(s) /\ e.c = InitConstraints(s)
           /\ e.mode = "fields" <=> Drawable(start, a)
           /\ e.mode = "fields" => e.fields = SchemaToFields(start, a)
<1> DEFINE e == EditorOn(p, s)
           start == StartOf(p, s)
           a == p = "input"
           t == IF p = "input" THEN "object" ELSE DetectType(s)
<1>1. DetectType(s) \in ScalarTypes \cup {"array", "object"} /\ (DetectType(s) # "object" => DetectType(s) = s.type)
  BY DEF DetectType
<1>2. t \in ScalarTypes \cup {"array", "object"} /\ (t = "object" <=> p = "input" \/ DetectType(s) = "object")
  BY <1>1
<1>3. IsSchema(start)
  BY EmptyObjectFacts DEF StartOf
<1>4. start = IF t = "object" THEN s ELSE EmptyObject
  BY <1>2 DEF StartOf
<1> HIDE DEF start, t
<1>5. /\ e.type = t /\ e.c = InitConstraints(s) /\ e.raw = start
      /\ e.mode = (IF Drawable(start, a) THEN "fields" ELSE "json")
      /\ e.fields = (IF Drawable(start, a) THEN SchemaToFields(start, a) ELSE <<>>)
  BY <1>4 DEF EditorOn, t
<1>6. e.fields \in Seq(SchemaField)
  <2>1. Drawable(start, a) => SchemaToFields(start, a) \in Seq(SchemaField)
    BY <1>3, DrawnFields
  <2>2. <<>> \in Seq(SchemaField)
    OBVIOUS
  <2> HIDE DEF a, e
  <2> QED BY <1>5, <2>1, <2>2
<1>7. InitConstraints(s) \in Constraints
  BY ConstraintsTyped
<1> HIDE DEF e, a
<1>8. p = "input" => t = "object"
  BY DEF t
<1>9. t # "object" => t = s.type /\ t = DetectType(s)
  BY <1>1, <1>2 DEF t
<1> QED BY <1>2, <1>3, <1>5, <1>6, <1>7, <1>8, <1>9 DEF e, start, a

\* A schema with nothing beyond its editor is shown as it is.
LEMMA PlainIsRedrawn ==
    ASSUME pane \in Panes, NEW s, IsSchema(s), HasSchema(s), Plain(s)
    PROVE  Redrawn(s) = s
<1> DEFINE e == EditorOn(pane, s)
<1>1. /\ e.raw = StartOf(pane, s)
      /\ e.type = "object" <=> pane = "input" \/ DetectType(s) = "object"
      /\ e.type # "object" => e.type = s.type /\ e.type = DetectType(s) /\ e.c = InitConstraints(s)
      /\ e.mode \in {"fields", "json"}
      /\ e.mode = "fields" <=> Drawable(StartOf(pane, s), pane = "input")
      /\ e.mode = "fields" => e.fields = SchemaToFields(StartOf(pane, s), pane = "input")
  BY EditorOpened
<1>2. Redrawn(s) = Writes(e)
  BY DEF Redrawn
<1> HIDE DEF e
<1>3. CASE e.type # "object"
  <2>1. BuildScalar(s.type, InitConstraints(s)) = s
    BY <1>1, <1>3 DEF Plain
  <2> QED BY <1>1, <1>2, <1>3, <2>1 DEF Writes
<1>4. CASE e.type = "object"
  <2>1. StartOf(pane, s) = s
    BY <1>1, <1>4 DEF StartOf
  <2>2. CASE e.mode = "json"
    BY <1>1, <1>2, <1>4, <2>1, <2>2 DEF Writes
  <2>3. CASE e.mode = "fields"
    <3>1. Drawable(s, AllowImages) /\ AllowImages \in BOOLEAN
      BY <1>1, <2>1, <2>3 DEF AllowImages
    <3>2. DetectType(s) = "object"
      <4>1. s.type = "object"
        BY <3>1, DrawableParts
      <4> QED BY <4>1 DEF DetectType, ScalarTypes
    <3>3. /\ ~s.lost /\ (\A k \in DOMAIN s.required : s.required[k] \in DOMAIN s.props) /\ InKeyOrder(s)
          /\ \A n \in DOMAIN s.props : FullyDrawn(n, s)
      BY <3>1, <3>2 DEF Plain, FullyDrawn
    <3>4. FieldsToSchema(SchemaToFields(s, AllowImages)) = s
      BY <3>1, <3>3, SchemaWrittenBack
    <3>5. e.fields = SchemaToFields(s, AllowImages)
      BY <1>1, <2>1, <2>3 DEF AllowImages
    <3> QED BY <1>2, <1>4, <2>3, <3>4, <3>5 DEF Writes
  <2> QED BY <1>1, <2>2, <2>3
<1> QED BY <1>3, <1>4

-----------------------------------------------------------------------------
\* The invariant.

\* What may be saved is on the screen, or is shown as the editor draws it.
Agrees == held.valid => held.schema = OnScreen \/ OnScreen = Redrawn(held.schema)

\* A schema came with the task or was typed, or was written by the editor, with
\* bare names.
BareNames(s) == \A n \in DOMAIN s.props : Trimmed[n] = n
Sourced(s)   == s \in Stored \cup Typed \/ BareNames(s)

Sources == /\ Sourced(held.schema)
           /\ editor.type = "object" /\ editor.mode = "json" => Sourced(editor.raw)

\* A name stands twice only in a list drawn from a schema that was not written.
DrawnAsIs(fields) == \E s \in Stored \cup Typed : fields = SchemaToFields(s, AllowImages)
Twice == held.valid /\ editor.type = "object" /\ editor.mode = "fields" /\ HasDuplicates(editor.fields) =>
             DrawnAsIs(editor.fields)

InputIsObject == pane = "input" => editor.type = "object"

\* Until the first edit the section holds the task's schema, and the screen shows it.
Clean == ~edited /\ HasSchema(stored) =>
             /\ held.valid
             /\ Plain(stored) => held.schema = stored /\ OnScreen = stored

\* The editor is a record of the parts that EditorOn makes.
EditorOf(t, c, m, f, r) == [type |-> t, c |-> c, mode |-> m, fields |-> f, raw |-> r]
Shaped == editor = EditorOf(editor.type, editor.c, editor.mode, editor.fields, editor.raw)

FormsInv == FormsTypeOK /\ Shaped /\ Agrees /\ Sources /\ Twice /\ InputIsObject /\ Clean

\* What is plain depends on the pane alone.
LEMMA PlainSteady ==
    ASSUME pane' = pane, NEW s, NEW t, s = t
    PROVE  Plain(s) <=> Plain(t)'
BY DEF Plain, AllowImages

\* The editor that mounts on a schema shows it redrawn, and is of the types.
LEMMA Mounted ==
    ASSUME FormsInv, pane' = pane, held' = held,
           editor' = EditorOn(pane, held.schema)
    PROVE  /\ Shaped' /\ Agrees' /\ Sources' /\ Twice' /\ InputIsObject'
           /\ editor'.type \in ScalarTypes \cup {"array", "object"} /\ editor'.c \in Constraints
           /\ editor'.mode \in {"fields", "json"} /\ editor'.fields \in Seq(SchemaField)
           /\ IsSchema(editor'.raw) /\ OnScreen' = Redrawn(held.schema)
<1> DEFINE e == EditorOn(pane, held.schema)
           start == StartOf(pane, held.schema)
<1>1. pane \in Panes /\ IsSchema(held.schema) /\ Sourced(held.schema)
  BY DEF FormsInv, FormsTypeOK, Panes, Sources
<1>2. /\ e.type \in ScalarTypes \cup {"array", "object"} /\ e.c \in Constraints
      /\ e.mode \in {"fields", "json"} /\ e.fields \in Seq(SchemaField)
      /\ e.raw = start /\ IsSchema(start)
      /\ pane = "input" => e.type = "object"
      /\ e.mode = "fields" <=> Drawable(start, AllowImages)
      /\ e.mode = "fields" => e.fields = SchemaToFields(start, AllowImages)
  BY <1>1, EditorOpened DEF AllowImages
<1>3. Sourced(start)
  <2>1. BareNames(EmptyObject)
    BY EmptyObjectFacts DEF BareNames
  <2> QED BY <1>1, <2>1 DEF StartOf, Sourced
<1>4. editor' = e /\ OnScreen' = Writes(e) /\ Redrawn(held.schema)' = Writes(e) /\ Redrawn(held.schema) = Writes(e)
  BY DEF OnScreen, Redrawn
<1>9. Shaped'
  BY <1>4 DEF Shaped, EditorOf, EditorOn
<1> HIDE DEF e, start
<1>5. Agrees'
  BY <1>4 DEF Agrees
<1>6. Sources'
  BY <1>1, <1>2, <1>3, <1>4 DEF Sources
<1>7. Twice'
  <2>1. SUFFICES ASSUME e.mode = "fields", HasDuplicates(e.fields)
                 PROVE  \E s \in Stored \cup Typed : e.fields = SchemaToFields(s, AllowImages)
    <3>1. AllowImages' = AllowImages
      BY DEF AllowImages
    <3> QED BY <1>4, <3>1 DEF Twice, DrawnAsIs
  <2>2. Drawable(start, AllowImages) /\ e.fields = SchemaToFields(start, AllowImages) /\ AllowImages \in BOOLEAN
    BY <1>2, <2>1 DEF AllowImages
  <2>3. ~BareNames(start)
    BY <1>2, <2>1, <2>2, BareNamesOnce DEF BareNames
  <2> QED BY <1>3, <2>2, <2>3 DEF Sourced
<1>8. InputIsObject'
  BY <1>2, <1>4 DEF InputIsObject
<1> QED BY <1>2, <1>4, <1>5, <1>6, <1>7, <1>8, <1>9
-----------------------------------------------------------------------------
\* The field list.

\* A patched field is a field.
LEMMA PatchedTyped ==
    ASSUME NEW f \in SchemaField, NEW p \in Patches
    PROVE  Patched(f, p) \in SchemaField
<1> DEFINE K == {"name", "type", "required", "description", "enum", "item", "cap"}
           base == [k \in DOMAIN EmptyField |-> IF k \in DOMAIN p THEN p[k] ELSE EmptyField[k]]
<1>1. base \in SchemaField
  BY FormsAssumption
<1>2. DOMAIN EmptyField = K /\ DOMAIN f = K
  BY DEF EmptyField, SchemaField
<1>3. \A k \in K : k \in DOMAIN p => base[k] = p[k]
  BY <1>2
<1> HIDE DEF base
<1>4. Patched(f, p) = [k \in K |-> IF k \in DOMAIN p THEN p[k] ELSE f[k]]
  BY <1>2 DEF Patched
<1>5. Patched(f, p) = [k \in K |-> IF k \in DOMAIN p THEN base[k] ELSE f[k]]
  BY <1>3, <1>4
<1>6. \A x, y \in SchemaField : [k \in K |-> IF k \in DOMAIN p THEN x[k] ELSE y[k]] \in SchemaField
  <2> SUFFICES ASSUME NEW x \in SchemaField, NEW y \in SchemaField
               PROVE  [k \in K |-> IF k \in DOMAIN p THEN x[k] ELSE y[k]] \in SchemaField
    OBVIOUS
  <2>1. [k \in K |-> IF k \in DOMAIN p THEN x[k] ELSE y[k]] =
        [name |-> IF "name" \in DOMAIN p THEN x.name ELSE y.name,
         type |-> IF "type" \in DOMAIN p THEN x.type ELSE y.type,
         required |-> IF "required" \in DOMAIN p THEN x.required ELSE y.required,
         description |-> IF "description" \in DOMAIN p THEN x.description ELSE y.description,
         enum |-> IF "enum" \in DOMAIN p THEN x.enum ELSE y.enum,
         item |-> IF "item" \in DOMAIN p THEN x.item ELSE y.item,
         cap |-> IF "cap" \in DOMAIN p THEN x.cap ELSE y.cap]
    OBVIOUS
  <2> QED BY <2>1 DEF SchemaField
<1> QED BY <1>1, <1>5, <1>6

LEMMA EmptyFieldTyped == EmptyField \in SchemaField
<1>1. "" \in Texts
  BY TextAssumption
<1>2. 1 \in Entered /\ "string" \in FieldTypes
  BY DEF Entered, FieldTypes, ScalarTypes
<1>4. <<>> \in Seq(Words)
  OBVIOUS
<1>3. [name |-> "", type |-> "string", required |-> FALSE, description |-> "", enum |-> <<>>,
       item |-> "string", cap |-> 1] \in SchemaField
  BY <1>1, <1>2, <1>4 DEF SchemaField
<1> QED BY <1>3 DEF EmptyField

\* The editor as a record.
LEMMA EditorChanged ==
    ASSUME NEW e, e = EditorOf(e.type, e.c, e.mode, e.fields, e.raw), NEW x
    PROVE  /\ [e EXCEPT !.fields = x] = EditorOf(e.type, e.c, e.mode, x, e.raw)
           /\ [e EXCEPT !.raw = x] = EditorOf(e.type, e.c, e.mode, e.fields, x)
           /\ [e EXCEPT !.c = x] = EditorOf(e.type, x, e.mode, e.fields, e.raw)
<1>1. PICK t, c, m, f, r : e = EditorOf(t, c, m, f, r)
  OBVIOUS
<1>2. e.type = t /\ e.c = c /\ e.mode = m /\ e.fields = f /\ e.raw = r
  BY <1>1 DEF EditorOf
<1>3. [EditorOf(t, c, m, f, r) EXCEPT !.fields = x] = EditorOf(t, c, m, x, r)
  BY DEF EditorOf
<1>4. [EditorOf(t, c, m, f, r) EXCEPT !.raw = x] = EditorOf(t, c, m, f, x)
  BY DEF EditorOf
<1>5. [EditorOf(t, c, m, f, r) EXCEPT !.c = x] = EditorOf(t, x, m, f, r)
  BY DEF EditorOf
<1> QED BY <1>1, <1>2, <1>3, <1>4, <1>5

LEMMA TabTurnedToJson ==
    ASSUME NEW e, e = EditorOf(e.type, e.c, e.mode, e.fields, e.raw), NEW y
    PROVE  [e EXCEPT !.mode = "json", !.raw = y] = EditorOf(e.type, e.c, "json", e.fields, y)
<1>1. PICK t, c, m, f, r : e = EditorOf(t, c, m, f, r)
  OBVIOUS
<1>2. e.type = t /\ e.c = c /\ e.mode = m /\ e.fields = f /\ e.raw = r
  BY <1>1 DEF EditorOf
<1>3. [EditorOf(t, c, m, f, r) EXCEPT !.mode = "json"] = EditorOf(t, c, "json", f, r)
  BY DEF EditorOf
<1>4. [EditorOf(t, c, "json", f, r) EXCEPT !.raw = y] = EditorOf(t, c, "json", f, y)
  BY DEF EditorOf
<1>5. [e EXCEPT !.mode = "json", !.raw = y] = [[e EXCEPT !.mode = "json"] EXCEPT !.raw = y]
  OBVIOUS
<1>6. [e EXCEPT !.mode = "json", !.raw = y] = EditorOf(t, c, "json", f, y)
  BY <1>1, <1>3, <1>4, <1>5
<1> QED BY <1>2, <1>6

LEMMA TabTurnedToFields ==
    ASSUME NEW e, e = EditorOf(e.type, e.c, e.mode, e.fields, e.raw), NEW x, NEW y
    PROVE  [e EXCEPT !.mode = x, !.fields = y] = EditorOf(e.type, e.c, x, y, e.raw)
<1>1. PICK t, c, m, f, r : e = EditorOf(t, c, m, f, r)
  OBVIOUS
<1>2. e.type = t /\ e.c = c /\ e.mode = m /\ e.fields = f /\ e.raw = r
  BY <1>1 DEF EditorOf
<1>3. [EditorOf(t, c, m, f, r) EXCEPT !.mode = x] = EditorOf(t, c, x, f, r)
  BY DEF EditorOf
<1>4. [EditorOf(t, c, x, f, r) EXCEPT !.fields = y] = EditorOf(t, c, x, y, r)
  BY DEF EditorOf
<1>5. [e EXCEPT !.mode = x, !.fields = y] = [[e EXCEPT !.mode = x] EXCEPT !.fields = y]
  OBVIOUS
<1>6. [e EXCEPT !.mode = x, !.fields = y] = EditorOf(t, c, x, y, r)
  BY <1>1, <1>3, <1>4, <1>5
<1> QED BY <1>2, <1>6

LEMMA TypeTurned ==
    ASSUME NEW e, e = EditorOf(e.type, e.c, e.mode, e.fields, e.raw), NEW x, NEW y
    PROVE  [e EXCEPT !.type = x, !.c = y] = EditorOf(x, y, e.mode, e.fields, e.raw)
<1>1. PICK t, c, m, f, r : e = EditorOf(t, c, m, f, r)
  OBVIOUS
<1>2. e.type = t /\ e.c = c /\ e.mode = m /\ e.fields = f /\ e.raw = r
  BY <1>1 DEF EditorOf
<1>3. [EditorOf(t, c, m, f, r) EXCEPT !.type = x] = EditorOf(x, c, m, f, r)
  BY DEF EditorOf
<1>4. [EditorOf(x, c, m, f, r) EXCEPT !.c = y] = EditorOf(x, y, m, f, r)
  BY DEF EditorOf
<1>5. [e EXCEPT !.type = x, !.c = y] = [[e EXCEPT !.type = x] EXCEPT !.c = y]
  OBVIOUS
<1>6. [e EXCEPT !.type = x, !.c = y] = EditorOf(x, y, m, f, r)
  BY <1>1, <1>3, <1>4, <1>5
<1> QED BY <1>2, <1>6

LEMMA Committed ==
    ASSUME FormsInv, NEW next \in Seq(SchemaField), CommitFields(next)
    PROVE  FormsInv'
<1>1. /\ enabled /\ edited' = TRUE /\ pane' = pane /\ stored' = stored /\ enabled' = enabled
      /\ used < MaxEdits /\ used' = used + 1
      /\ editor.type = "object" /\ editor.mode = "fields"
      /\ editor' = [editor EXCEPT !.fields = next]
      /\ held' = [schema |-> FieldsToSchema(next), valid |-> ~HasDuplicates(next)]
  BY DEF CommitFields, Edited, Report
<1>2. FormsTypeOK /\ Shaped
  BY DEF FormsInv
<1>3. editor' = EditorOf(editor.type, editor.c, editor.mode, next, editor.raw)
  BY <1>1, <1>2, EditorChanged DEF Shaped
<1>4. /\ editor'.type = "object" /\ editor'.c = editor.c /\ editor'.mode = "fields"
      /\ editor'.fields = next /\ editor'.raw = editor.raw
  BY <1>1, <1>3 DEF EditorOf
<1>5. IsSchema(FieldsToSchema(next)) /\ BareNames(FieldsToSchema(next))
  BY WrittenTyped DEF BareNames
<1>6. held'.schema = FieldsToSchema(next)
  BY <1>1
<1>7. held'.valid \in BOOLEAN /\ (held'.valid <=> ~HasDuplicates(next))
  <2>1. held'.valid = ~HasDuplicates(next)
    BY <1>1
  <2>2. CASE HasDuplicates(next)
    <3>1. held'.valid = FALSE
      BY <2>1, <2>2
    <3> QED BY <2>2, <3>1
  <2>3. CASE ~HasDuplicates(next)
    <3>1. held'.valid = TRUE
      BY <2>1, <2>3
    <3> QED BY <2>3, <3>1
  <2> QED BY <2>2, <2>3
<1>8. OnScreen' = held'.schema
  BY <1>4, <1>6 DEF OnScreen, Writes
<1>9. Shaped'
  BY <1>3 DEF Shaped, EditorOf
<1>10. FormsTypeOK'
  <2>1. used' \in 0..MaxEdits
    BY <1>1, <1>2, FormsAssumption DEF FormsTypeOK
  <2> QED BY <1>1, <1>2, <1>4, <1>5, <1>6, <1>7, <2>1 DEF FormsTypeOK
<1>11. Agrees'
  BY <1>8 DEF Agrees
<1>12. Sources'
  BY <1>4, <1>5, <1>6 DEF Sources, Sourced
<1>13. Twice'
  BY <1>4, <1>7 DEF Twice
<1>14. InputIsObject'
  BY <1>4 DEF InputIsObject
<1>15. Clean'
  BY <1>1 DEF Clean
<1> QED BY <1>9, <1>10, <1>11, <1>12, <1>13, <1>14, <1>15 DEF FormsInv

LEMMA FieldListKept ==
    ASSUME FormsInv,
           \/ \E i \in DOMAIN editor.fields, p \in Patches : UpdateField(i, p)
           \/ AddField
           \/ \E i \in DOMAIN editor.fields : RemoveField(i)
    PROVE  FormsInv'
<1>1. editor.fields \in Seq(SchemaField) /\ Len(editor.fields) \in Nat
      /\ DOMAIN editor.fields = 1..Len(editor.fields)
  BY DEF FormsInv, FormsTypeOK
<1>2. ASSUME NEW i \in DOMAIN editor.fields, NEW p \in Patches, UpdateField(i, p) PROVE FormsInv'
  <2>1. editor.fields[i] \in SchemaField
    BY <1>1
  <2>2. Patched(editor.fields[i], p) \in SchemaField
    BY <2>1, PatchedTyped
  <2>3. [editor.fields EXCEPT ![i] = Patched(@, p)] = [editor.fields EXCEPT ![i] = Patched(editor.fields[i], p)]
    OBVIOUS
  <2>4. [editor.fields EXCEPT ![i] = Patched(editor.fields[i], p)] \in Seq(SchemaField)
    BY <1>1, <2>2
  <2>5. CommitFields([editor.fields EXCEPT ![i] = Patched(@, p)])
    BY <1>2 DEF UpdateField
  <2> QED BY <2>3, <2>4, <2>5, Committed
<1>3. ASSUME AddField PROVE FormsInv'
  <2>1. Append(editor.fields, EmptyField) \in Seq(SchemaField)
    BY <1>1, EmptyFieldTyped
  <2>2. CommitFields(Append(editor.fields, EmptyField))
    BY <1>3 DEF AddField
  <2> QED BY <2>1, <2>2, Committed
<1>4. ASSUME NEW i \in DOMAIN editor.fields, RemoveField(i) PROVE FormsInv'
  <2> DEFINE next == [j \in 1..Len(editor.fields) - 1 |-> editor.fields[IF j < i THEN j ELSE j + 1]]
  <2>1. PICK n \in Nat : Len(editor.fields) = n + 1
    <3>1. i \in 1..Len(editor.fields)
      BY <1>1, <1>4
    <3>2. \A l \in Nat : i \in 1..l => \E n \in Nat : l = n + 1
      <4> SUFFICES ASSUME NEW l \in Nat, i \in 1..l PROVE l - 1 \in Nat /\ l = (l - 1) + 1
        OBVIOUS
      <4> QED OBVIOUS
    <3> QED BY <1>1, <3>1, <3>2
  <2>2. \A j \in 1..n : editor.fields[IF j < i THEN j ELSE j + 1] \in SchemaField
    BY <1>1, <1>4, <2>1
  <2>3. Len(editor.fields) - 1 = n
    BY <2>1
  <2>4. next \in [1..n -> SchemaField]
    BY <2>2, <2>3
  <2>5. next \in Seq(SchemaField)
    <3> HIDE DEF next
    <3> QED BY <2>4
  <2>6. CommitFields(next)
    BY <1>4 DEF RemoveField
  <2> HIDE DEF next
  <2> QED BY <2>5, <2>6, Committed
<1> QED BY <1>2, <1>3, <1>4

-----------------------------------------------------------------------------
\* The text, and the tabs.

LEMMA RawChangeKept ==
    ASSUME FormsInv, NEW s \in Typed, OnRawChange(s)
    PROVE  FormsInv'
<1>1. /\ enabled /\ edited' = TRUE /\ pane' = pane /\ stored' = stored /\ enabled' = enabled
      /\ used < MaxEdits /\ used' = used + 1
      /\ editor.type = "object" /\ editor.mode = "json"
      /\ editor' = [editor EXCEPT !.raw = s]
      /\ \/ held' = [schema |-> Only("empty"), valid |-> FALSE]
         \/ held' = [schema |-> s, valid |-> TRUE]
  BY DEF OnRawChange, Edited, Report
<1>2. FormsTypeOK /\ Shaped
  BY DEF FormsInv
<1>3. editor' = EditorOf(editor.type, editor.c, editor.mode, editor.fields, s)
  BY <1>1, <1>2, EditorChanged DEF Shaped
<1>4. /\ editor'.type = "object" /\ editor'.c = editor.c /\ editor'.mode = "json"
      /\ editor'.fields = editor.fields /\ editor'.raw = s
  BY <1>1, <1>3 DEF EditorOf
<1>5. IsSchema(s) /\ s \in Stored \cup Typed
  BY FormsAssumption
<1>6. IsSchema(Only("empty")) /\ BareNames(Only("empty"))
  BY OnlyFacts DEF BareNames
<1>7. /\ IsSchema(held'.schema) /\ held'.valid \in BOOLEAN /\ Sourced(held'.schema)
      /\ held'.valid => held'.schema = s
  <2>1. CASE held' = [schema |-> Only("empty"), valid |-> FALSE]
    <3>1. held'.schema = Only("empty") /\ held'.valid = FALSE
      BY <2>1
    <3> QED BY <1>6, <3>1 DEF Sourced
  <2>2. CASE held' = [schema |-> s, valid |-> TRUE]
    <3>1. held'.schema = s /\ held'.valid = TRUE
      BY <2>2
    <3> QED BY <1>5, <3>1 DEF Sourced
  <2> QED BY <1>1, <2>1, <2>2
<1>8. OnScreen' = s
  BY <1>4 DEF OnScreen, Writes
<1>9. Shaped'
  BY <1>3 DEF Shaped, EditorOf
<1>10. FormsTypeOK'
  <2>1. used' \in 0..MaxEdits
    BY <1>1, <1>2, FormsAssumption DEF FormsTypeOK
  <2> QED BY <1>1, <1>2, <1>4, <1>5, <1>7, <2>1 DEF FormsTypeOK
<1>11. Agrees'
  BY <1>7, <1>8 DEF Agrees
<1>12. Sources'
  BY <1>4, <1>5, <1>7 DEF Sources, Sourced
<1>13. Twice' /\ InputIsObject' /\ Clean'
  BY <1>1, <1>4 DEF Twice, InputIsObject, Clean
<1> QED BY <1>9, <1>10, <1>11, <1>12, <1>13 DEF FormsInv

LEMMA SwitchToJsonKept ==
    ASSUME FormsInv, SwitchToJson
    PROVE  FormsInv'
<1> DEFINE w == FieldsToSchema(editor.fields)
<1>1. /\ editor.type = "object" /\ editor.mode = "fields"
      /\ editor' = [editor EXCEPT !.mode = "json", !.raw = w]
      /\ pane' = pane /\ stored' = stored /\ enabled' = enabled /\ held' = held
      /\ edited' = edited /\ used' = used
  BY DEF SwitchToJson
<1>2. FormsTypeOK /\ Shaped /\ Agrees /\ Sources /\ Clean
  BY DEF FormsInv
<1>3. IsSchema(w) /\ BareNames(w)
  <2>1. editor.fields \in Seq(SchemaField)
    BY <1>2 DEF FormsTypeOK
  <2> QED BY <2>1, WrittenTyped DEF BareNames
<1>4. OnScreen = w
  BY <1>1 DEF OnScreen, Writes
<1> HIDE DEF w
<1>5. editor' = EditorOf(editor.type, editor.c, "json", editor.fields, w)
  <2>1. editor = EditorOf(editor.type, editor.c, editor.mode, editor.fields, editor.raw)
    BY <1>2 DEF Shaped
  <2>2. [editor EXCEPT !.mode = "json", !.raw = w] = EditorOf(editor.type, editor.c, "json", editor.fields, w)
    BY <2>1, TabTurnedToJson
  <2> QED BY <1>1, <2>2
<1>6. /\ editor'.type = "object" /\ editor'.c = editor.c /\ editor'.mode = "json"
      /\ editor'.fields = editor.fields /\ editor'.raw = w
  BY <1>1, <1>5 DEF EditorOf
<1>7. OnScreen' = OnScreen
  <2>1. OnScreen' = w
    BY <1>6 DEF OnScreen, Writes
  <2> QED BY <1>4, <2>1
<1>8. Shaped'
  BY <1>5 DEF Shaped, EditorOf
<1>9. FormsTypeOK'
  BY <1>1, <1>2, <1>3, <1>6 DEF FormsTypeOK
<1>10. Agrees'
  <2>1. Redrawn(held.schema)' = Redrawn(held.schema)
    BY <1>1 DEF Redrawn
  <2>2. held.valid => held.schema = OnScreen' \/ OnScreen' = Redrawn(held.schema)
    BY <1>2, <1>7 DEF Agrees
  <2> QED BY <1>1, <2>1, <2>2 DEF Agrees
<1>11. Sources'
  BY <1>1, <1>2, <1>3, <1>6 DEF Sources, Sourced
<1>12. Twice' /\ InputIsObject'
  BY <1>6 DEF Twice, InputIsObject
<1>13. Clean'
  BY <1>1, <1>2, <1>7, PlainSteady DEF Clean
<1> QED BY <1>8, <1>9, <1>10, <1>11, <1>12, <1>13 DEF FormsInv

LEMMA SwitchToFieldsKept ==
    ASSUME FormsInv, SwitchToFields
    PROVE  FormsInv'
<1> DEFINE fields == SchemaToFields(editor.raw, AllowImages)
           w == FieldsToSchema(fields)
<1>1. /\ editor.type = "object" /\ editor.mode = "json" /\ Drawable(editor.raw, AllowImages)
      /\ editor' = [editor EXCEPT !.mode = "fields", !.fields = fields]
      /\ held' = [schema |-> w, valid |-> TRUE]
      /\ pane' = pane /\ stored' = stored /\ enabled' = enabled
      /\ edited' = edited /\ used' = used
  BY DEF SwitchToFields, Report
<1>2. FormsTypeOK /\ Shaped /\ Sources /\ Clean
  BY DEF FormsInv
<1>3. IsSchema(editor.raw) /\ AllowImages \in BOOLEAN
  BY <1>2 DEF FormsTypeOK, AllowImages
<1>4. fields \in Seq(SchemaField)
  BY <1>1, <1>3, DrawnFields
<1>5. IsSchema(w) /\ BareNames(w)
  <2> HIDE DEF fields
  <2> QED BY <1>4, WrittenTyped DEF BareNames
<1>6. HasDuplicates(fields) => DrawnAsIs(fields)
  <2>1. SUFFICES ASSUME HasDuplicates(fields) PROVE editor.raw \in Stored \cup Typed
    BY DEF DrawnAsIs
  <2>2. ~BareNames(editor.raw)
    BY <1>1, <1>3, <2>1, BareNamesOnce DEF BareNames
  <2>3. Sourced(editor.raw)
    BY <1>1, <1>2 DEF Sources
  <2> QED BY <2>2, <2>3 DEF Sourced
<1>7. ASSUME ~edited, HasSchema(stored), Plain(stored) PROVE w = stored
  <2>1. editor.raw = stored
    <3>1. OnScreen = stored
      BY <1>2, <1>7 DEF Clean
    <3> QED BY <1>1, <3>1 DEF OnScreen, Writes
  <2>2. DetectType(stored) = "object"
    <3>1. stored.type = "object"
      BY <1>1, <1>3, <1>7, <2>1, DrawableParts
    <3> QED BY <3>1 DEF DetectType, ScalarTypes
  <2>3. Drawable(stored, AllowImages)
    BY <1>1, <2>1
  <2>4. /\ ~stored.lost /\ (\A k \in DOMAIN stored.required : stored.required[k] \in DOMAIN stored.props)
        /\ InKeyOrder(stored) /\ \A n \in DOMAIN stored.props : FullyDrawn(n, stored)
    BY <1>7, <2>2, <2>3 DEF Plain, FullyDrawn
  <2> QED BY <1>1, <1>3, <1>7, <2>1, <2>4, SchemaWrittenBack
<1> HIDE DEF fields
<1>8. editor' = EditorOf(editor.type, editor.c, "fields", fields, editor.raw)
  <2>1. [editor EXCEPT !.mode = "fields", !.fields = fields] =
            EditorOf(editor.type, editor.c, "fields", fields, editor.raw)
    BY <1>2, TabTurnedToFields DEF Shaped
  <2> QED BY <1>1, <2>1
<1>9. /\ editor'.type = "object" /\ editor'.c = editor.c /\ editor'.mode = "fields"
      /\ editor'.fields = fields /\ editor'.raw = editor.raw
  BY <1>1, <1>8 DEF EditorOf
<1>10. OnScreen' = w
  BY <1>9 DEF OnScreen, Writes
<1> HIDE DEF w
<1>11. held'.schema = w /\ held'.valid = TRUE
  BY <1>1
<1>12. Shaped'
  BY <1>8 DEF Shaped, EditorOf
<1>13. FormsTypeOK'
  BY <1>1, <1>2, <1>4, <1>5, <1>9, <1>11 DEF FormsTypeOK
<1>14. Agrees'
  BY <1>10, <1>11 DEF Agrees
<1>15. Sources'
  BY <1>5, <1>9, <1>11 DEF Sources, Sourced
<1>16. Twice'
  <2>1. DrawnAsIs(fields) => DrawnAsIs(editor.fields)'
    BY <1>1, <1>9 DEF DrawnAsIs, AllowImages
  <2> QED BY <1>6, <1>9, <2>1 DEF Twice
<1>17. InputIsObject'
  BY <1>9 DEF InputIsObject
<1>18. Clean'
  BY <1>1, <1>7, <1>10, <1>11, PlainSteady DEF Clean
<1> QED BY <1>12, <1>13, <1>14, <1>15, <1>16, <1>17, <1>18 DEF FormsInv
-----------------------------------------------------------------------------
\* An answer's type and constraints.

\* The editor that a change of type leaves.
LEMMA TypeChangeKept ==
    ASSUME FormsInv, NEW t \in ScalarTypes \cup {"array", "object"}, OnTypeChange(t)
    PROVE  FormsInv'
<1> DEFINE e == EditorOn(pane, EmptyObject)
<1>1. /\ pane = "output" /\ enabled /\ edited' = TRUE /\ pane' = pane /\ stored' = stored
      /\ enabled' = enabled /\ used < MaxEdits /\ used' = used + 1
      /\ editor' = [e EXCEPT !.type = t, !.c = editor.c]
      /\ IF t = "object" THEN held' = [schema |-> EmptyObject, valid |-> TRUE]
         ELSE held' = [schema |-> BuildScalar(t, editor.c), valid |-> ScalarValid(t, editor.c)]
  BY DEF OnTypeChange, Edited, Report
<1>2. FormsTypeOK /\ Shaped /\ pane \in Panes
  BY <1>1 DEF FormsInv, Panes
<1>3. StartOf(pane, EmptyObject) = EmptyObject /\ IsSchema(EmptyObject) /\ Drawable(EmptyObject, AllowImages)
  BY EmptyObjectFacts DEF StartOf, AllowImages
<1>4. /\ e.mode = "fields" /\ e.fields \in Seq(SchemaField) /\ e.raw = EmptyObject
      /\ e.fields = SchemaToFields(EmptyObject, AllowImages) /\ e.type = "object"
  <2>1. DetectType(EmptyObject) = "object"
    BY EmptyObjectFacts DEF DetectType, ScalarTypes
  <2> QED BY <1>2, <1>3, <2>1, EditorOpened DEF AllowImages
<1>5. e = EditorOf(e.type, e.c, e.mode, e.fields, e.raw)
  BY DEF EditorOn, EditorOf
<1> HIDE DEF e
<1>6. [e EXCEPT !.type = t, !.c = editor.c] = EditorOf(t, editor.c, e.mode, e.fields, e.raw)
  BY <1>5, TypeTurned
<1>7. editor' = EditorOf(t, editor.c, e.mode, e.fields, e.raw)
  BY <1>1, <1>6
<1>8. /\ editor'.type = t /\ editor'.c = editor.c /\ editor'.mode = "fields"
      /\ editor'.fields = e.fields /\ editor'.raw = EmptyObject
  BY <1>4, <1>7 DEF EditorOf
<1>9. BareNames(EmptyObject)
  BY EmptyObjectFacts DEF BareNames
<1>10. ~HasDuplicates(e.fields)
  <2>1. AllowImages \in BOOLEAN
    BY DEF AllowImages
  <2> QED BY <1>3, <1>4, <1>9, <2>1, BareNamesOnce DEF BareNames
<1>11. editor.c \in Constraints
  BY <1>2 DEF FormsTypeOK
<1>12. /\ IsSchema(held'.schema) /\ BareNames(held'.schema) /\ held'.valid \in BOOLEAN
       /\ held'.valid => held'.schema = OnScreen'  \/ OnScreen' = Redrawn(held'.schema)
  <2>1. CASE t = "object"
    <3>1. held'.schema = EmptyObject /\ held'.valid = TRUE
      BY <1>1, <2>1
    <3>2. OnScreen' = Writes(e)
      BY <1>4, <1>8, <2>1 DEF OnScreen, Writes
    <3> QED BY <1>3, <1>9, <3>1, <3>2 DEF Redrawn, e
  <2>2. CASE t # "object"
    <3>1. held' = [schema |-> BuildScalar(t, editor.c), valid |-> ScalarValid(t, editor.c)]
      BY <1>1, <2>2
    <3>2. held'.schema = BuildScalar(t, editor.c)
      BY <3>1
    <3>3. held'.valid \in BOOLEAN
      <4>1. CASE ScalarValid(t, editor.c)
        <5>1. held'.valid = TRUE
          BY <3>1, <4>1
        <5> QED BY <5>1
      <4>2. CASE ~ScalarValid(t, editor.c)
        <5>1. held'.valid = FALSE
          BY <3>1, <4>2
        <5> QED BY <5>1
      <4> QED BY <4>1, <4>2
    <3>4. OnScreen' = BuildScalar(t, editor.c)
      BY <1>8, <2>2 DEF OnScreen, Writes
    <3>5. t \in ScalarTypes \cup {"array"}
      BY <2>2
    <3>6. IsSchema(BuildScalar(t, editor.c)) /\ DOMAIN BuildScalar(t, editor.c).props = {}
      BY <1>11, <3>5, ScalarTyped
    <3> QED BY <3>2, <3>3, <3>4, <3>6 DEF BareNames
  <2> QED BY <2>1, <2>2
<1>13. Shaped'
  BY <1>7 DEF Shaped, EditorOf
<1>14. FormsTypeOK'
  <2>1. used' \in 0..MaxEdits
    BY <1>1, <1>2, FormsAssumption DEF FormsTypeOK
  <2> QED BY <1>1, <1>2, <1>3, <1>4, <1>8, <1>12, <2>1 DEF FormsTypeOK
<1>15. Agrees'
  <2>1. Redrawn(held'.schema) = Redrawn(held.schema)'
    BY <1>1 DEF Redrawn
  <2> QED BY <1>12, <2>1 DEF Agrees
<1>16. Sources'
  BY <1>8, <1>12 DEF Sources, Sourced
<1>17. Twice'
  BY <1>8, <1>10 DEF Twice
<1>18. InputIsObject' /\ Clean'
  BY <1>1 DEF InputIsObject, Clean
<1> QED BY <1>13, <1>14, <1>15, <1>16, <1>17, <1>18 DEF FormsInv

LEMMA UpdateKept ==
    ASSUME FormsInv, NEW c \in Answers, Update(c)
    PROVE  FormsInv'
<1>1. /\ pane = "output" /\ enabled /\ edited' = TRUE /\ pane' = pane /\ stored' = stored
      /\ enabled' = enabled /\ used < MaxEdits /\ used' = used + 1
      /\ editor.type \notin {"object", "boolean"}
      /\ editor' = [editor EXCEPT !.c = c]
      /\ held' = [schema |-> BuildScalar(editor.type, c), valid |-> ScalarValid(editor.type, c)]
  BY DEF Update, Edited, Report
<1>2. FormsTypeOK /\ Shaped
  BY DEF FormsInv
<1>3. c \in Constraints /\ editor.type \in ScalarTypes \cup {"array"}
  BY <1>1, <1>2, FormsAssumption DEF FormsTypeOK
<1>4. editor' = EditorOf(editor.type, c, editor.mode, editor.fields, editor.raw)
  BY <1>1, <1>2, EditorChanged DEF Shaped
<1>5. /\ editor'.type = editor.type /\ editor'.c = c /\ editor'.mode = editor.mode
      /\ editor'.fields = editor.fields /\ editor'.raw = editor.raw
  BY <1>4 DEF EditorOf
<1>6. held'.schema = BuildScalar(editor.type, c)
  BY <1>1
<1>7. held'.valid \in BOOLEAN
  <2>1. CASE ScalarValid(editor.type, c)
    <3>1. held'.valid = TRUE
      BY <1>1, <2>1
    <3> QED BY <3>1
  <2>2. CASE ~ScalarValid(editor.type, c)
    <3>1. held'.valid = FALSE
      BY <1>1, <2>2
    <3> QED BY <3>1
  <2> QED BY <2>1, <2>2
<1>8. IsSchema(held'.schema) /\ BareNames(held'.schema)
  <2>1. IsSchema(BuildScalar(editor.type, c)) /\ DOMAIN BuildScalar(editor.type, c).props = {}
    BY <1>3, ScalarTyped
  <2> QED BY <1>6, <2>1 DEF BareNames
<1>9. OnScreen' = held'.schema
  BY <1>1, <1>5, <1>6 DEF OnScreen, Writes
<1>10. Shaped'
  BY <1>4 DEF Shaped, EditorOf
<1>11. FormsTypeOK'
  <2>1. used' \in 0..MaxEdits
    BY <1>1, <1>2, FormsAssumption DEF FormsTypeOK
  <2> QED BY <1>1, <1>2, <1>3, <1>5, <1>7, <1>8, <2>1 DEF FormsTypeOK
<1>12. Agrees'
  BY <1>9 DEF Agrees
<1>13. Sources'
  BY <1>1, <1>5, <1>8 DEF Sources, Sourced
<1>14. Twice' /\ InputIsObject' /\ Clean'
  BY <1>1, <1>5 DEF Twice, InputIsObject, Clean
<1> QED BY <1>10, <1>11, <1>12, <1>13, <1>14 DEF FormsInv

-----------------------------------------------------------------------------
\* The section's switch, and saving.

LEMMA ToggleKept ==
    ASSUME FormsInv, OnToggle
    PROVE  FormsInv'
<1>1. /\ enabled' = ~enabled /\ editor' = EditorOn(pane, held.schema)
      /\ pane' = pane /\ stored' = stored /\ held' = held /\ edited' = edited /\ used' = used
  BY DEF OnToggle
<1>2. FormsTypeOK /\ Clean
  BY DEF FormsInv
<1>3. /\ Shaped' /\ Agrees' /\ Sources' /\ Twice' /\ InputIsObject'
      /\ editor'.type \in ScalarTypes \cup {"array", "object"} /\ editor'.c \in Constraints
      /\ editor'.mode \in {"fields", "json"} /\ editor'.fields \in Seq(SchemaField)
      /\ IsSchema(editor'.raw) /\ OnScreen' = Redrawn(held.schema)
  BY <1>1, Mounted
<1>4. FormsTypeOK'
  <2>1. enabled' \in BOOLEAN
    BY <1>1
  <2> QED BY <1>1, <1>2, <1>3, <2>1 DEF FormsTypeOK
<1>5. Clean'
  <2>1. SUFFICES ASSUME ~edited, HasSchema(stored)
                 PROVE  held.valid /\ (Plain(stored) => held.schema = stored /\ OnScreen' = stored)
    <3>1. Plain(stored) <=> Plain(stored)'
      BY <1>1, PlainSteady
    <3> QED BY <1>1, <3>1 DEF Clean
  <2>2. held.valid /\ (Plain(stored) => held.schema = stored)
    BY <1>2, <2>1 DEF Clean
  <2>3. ASSUME Plain(stored) PROVE OnScreen' = stored
    <3>1. pane \in Panes /\ IsSchema(stored)
      BY <1>2 DEF FormsTypeOK, Panes
    <3>2. Redrawn(stored) = stored
      BY <2>1, <2>3, <3>1, PlainIsRedrawn
    <3> QED BY <1>3, <2>2, <2>3, <3>2
  <2> QED BY <2>2, <2>3
<1> QED BY <1>3, <1>4, <1>5 DEF FormsInv

LEMMA SaveKept ==
    ASSUME FormsInv, Save
    PROVE  FormsInv'
<1>1. /\ ~Invalid /\ stored' = Current /\ edited' = FALSE
      /\ pane' = pane /\ enabled' = enabled /\ held' = held /\ editor' = editor /\ used' = used
  BY DEF Save
<1>2. FormsTypeOK /\ Shaped /\ Agrees /\ Sources /\ Twice /\ InputIsObject
  BY DEF FormsInv
<1>3. IsSchema(stored') /\ (HasSchema(stored') => enabled /\ held.valid /\ stored' = held.schema)
  <2>1. IsSchema(Only("null")) /\ ~HasSchema(Only("null"))
    BY OnlyFacts DEF HasSchema
  <2> QED BY <1>1, <1>2, <2>1 DEF Current, Invalid, FormsTypeOK
<1>4. OnScreen' = OnScreen /\ Redrawn(held.schema)' = Redrawn(held.schema)
  BY <1>1 DEF OnScreen, Redrawn
<1>5. FormsTypeOK'
  BY <1>1, <1>2, <1>3 DEF FormsTypeOK
<1>6. Shaped' /\ Agrees' /\ Sources' /\ InputIsObject'
  BY <1>1, <1>2, <1>4 DEF Shaped, Agrees, Sources, InputIsObject
<1>7. Twice'
  BY <1>1, <1>2 DEF Twice, DrawnAsIs, AllowImages
<1>8. Clean'
  <2>1. SUFFICES ASSUME HasSchema(stored'), Plain(stored')
                 PROVE  OnScreen = held.schema
    <3>1. Plain(stored') <=> Plain(stored)'
      BY <1>1, PlainSteady
    <3> QED BY <1>1, <1>3, <1>4, <3>1 DEF Clean
  <2>2. pane \in Panes
    BY <1>2 DEF FormsTypeOK, Panes
  <2>3. Redrawn(held.schema) = held.schema
    BY <1>3, <2>1, <2>2, PlainIsRedrawn
  <2> QED BY <1>2, <1>3, <2>1, <2>3 DEF Agrees
<1> QED BY <1>5, <1>6, <1>7, <1>8 DEF FormsInv

-----------------------------------------------------------------------------
\* The theorems.

LEMMA FormsInitially == Init => FormsInv
<1> SUFFICES ASSUME Init PROVE FormsInv
  OBVIOUS
<1> DEFINE start == StartOf(pane, held.schema)
<1>1. /\ pane \in Panes /\ stored \in Stored /\ enabled = HasSchema(stored)
      /\ held = [schema |-> IF stored.type = "null" THEN EmptyObject ELSE stored, valid |-> TRUE]
      /\ editor = EditorOn(pane, held.schema) /\ edited = FALSE /\ used = 0
  BY DEF Init, Panes
<1>2. IsSchema(stored)
  BY <1>1, FormsAssumption
<1>3. held.schema = (IF stored.type = "null" THEN EmptyObject ELSE stored) /\ held.valid = TRUE
  BY <1>1
<1>4. BareNames(EmptyObject) /\ IsSchema(EmptyObject)
  BY EmptyObjectFacts DEF BareNames
<1>5. IsSchema(held.schema) /\ Sourced(held.schema) /\ (HasSchema(stored) => held.schema = stored)
  BY <1>1, <1>2, <1>3, <1>4 DEF Sourced, HasSchema
<1>6. /\ editor.type \in ScalarTypes \cup {"array", "object"} /\ editor.c \in Constraints
      /\ editor.mode \in {"fields", "json"} /\ editor.fields \in Seq(SchemaField)
      /\ editor.raw = start /\ IsSchema(start)
      /\ pane = "input" => editor.type = "object"
      /\ editor.mode = "fields" <=> Drawable(start, AllowImages)
      /\ editor.mode = "fields" => editor.fields = SchemaToFields(start, AllowImages)
  BY <1>1, <1>5, EditorOpened DEF AllowImages
<1>7. Sourced(start)
  BY <1>4, <1>5 DEF StartOf, Sourced
<1>8. OnScreen = Redrawn(held.schema)
  BY <1>1 DEF OnScreen, Redrawn
<1>9. Shaped
  BY <1>1 DEF Shaped, EditorOf, EditorOn
<1> HIDE DEF start
<1>10. FormsTypeOK
  <2>1. enabled \in BOOLEAN
    BY <1>1 DEF HasSchema
  <2>2. used \in 0..MaxEdits
    BY <1>1, FormsAssumption
  <2>3. edited \in BOOLEAN /\ held.valid \in BOOLEAN /\ pane \in {"input", "output"}
    BY <1>1, <1>3 DEF Panes
  <2> QED BY <1>2, <1>5, <1>6, <2>1, <2>2, <2>3 DEF FormsTypeOK
<1>11. Agrees
  BY <1>8 DEF Agrees
<1>12. Sources
  BY <1>5, <1>6, <1>7 DEF Sources
<1>13. Twice
  <2>1. SUFFICES ASSUME editor.mode = "fields", HasDuplicates(editor.fields)
                 PROVE  DrawnAsIs(editor.fields)
    BY DEF Twice
  <2>2. Drawable(start, AllowImages) /\ editor.fields = SchemaToFields(start, AllowImages) /\ AllowImages \in BOOLEAN
    BY <1>6, <2>1 DEF AllowImages
  <2>3. ~BareNames(start)
    BY <1>6, <2>1, <2>2, BareNamesOnce DEF BareNames
  <2> QED BY <1>7, <2>2, <2>3 DEF Sourced, DrawnAsIs
<1>14. InputIsObject
  BY <1>6 DEF InputIsObject
<1>15. Clean
  <2>1. SUFFICES ASSUME HasSchema(stored), Plain(stored)
                 PROVE  OnScreen = stored
    BY <1>3, <1>5 DEF Clean
  <2> QED BY <1>1, <1>2, <1>5, <1>8, <2>1, PlainIsRedrawn
<1> QED BY <1>9, <1>10, <1>11, <1>12, <1>13, <1>14, <1>15 DEF FormsInv

LEMMA FormsStep == FormsInv /\ [Next]_vars => FormsInv'
<1> SUFFICES ASSUME FormsInv, [Next]_vars PROVE FormsInv'
  OBVIOUS
<1>1. CASE \/ \E i \in DOMAIN editor.fields, p \in Patches : UpdateField(i, p)
           \/ Len(editor.fields) < MaxFields /\ AddField
           \/ \E i \in DOMAIN editor.fields : RemoveField(i)
  BY <1>1, FieldListKept
<1>2. CASE \E s \in Typed : OnRawChange(s)
  BY <1>2, RawChangeKept
<1>3. CASE SwitchToJson
  BY <1>3, SwitchToJsonKept
<1>4. CASE SwitchToFields
  BY <1>4, SwitchToFieldsKept
<1>5. CASE \E t \in ScalarTypes \cup {"array", "object"} : OnTypeChange(t)
  BY <1>5, TypeChangeKept
<1>6. CASE \E c \in Answers : Update(c)
  BY <1>6, UpdateKept
<1>7. CASE OnToggle
  BY <1>7, ToggleKept
<1>8. CASE Save
  BY <1>8, SaveKept
<1>9. CASE UNCHANGED vars
  <2>1. /\ pane' = pane /\ stored' = stored /\ enabled' = enabled /\ held' = held
        /\ editor' = editor /\ edited' = edited /\ used' = used
    BY <1>9 DEF vars
  <2>2. OnScreen' = OnScreen /\ Redrawn(held.schema)' = Redrawn(held.schema) /\ (Plain(stored)' <=> Plain(stored))
    BY <2>1 DEF OnScreen, Redrawn, Plain, AllowImages
  <2>3. FormsTypeOK'
    BY <2>1 DEF FormsInv, FormsTypeOK
  <2>4. Shaped' /\ Agrees' /\ Sources' /\ InputIsObject'
    BY <2>1, <2>2 DEF FormsInv, Shaped, Agrees, Sources, InputIsObject
  <2>5. Twice'
    BY <2>1 DEF FormsInv, Twice, DrawnAsIs, AllowImages
  <2>6. Clean'
    BY <2>1, <2>2 DEF FormsInv, Clean
  <2> QED BY <2>3, <2>4, <2>5, <2>6 DEF FormsInv
<1> QED BY <1>1, <1>2, <1>3, <1>4, <1>5, <1>6, <1>7, <1>8, <1>9 DEF Next

\* The editors keep to their types: whatever is typed, switched or saved, the task and
\* the section hold schemas, and the fields are fields.
THEOREM FormsTyped == Spec => []FormsTypeOK
<1>1. FormsInv => FormsTypeOK
  BY DEF FormsInv
<1> QED BY <1>1, FormsInitially, FormsStep, PTL DEF Spec

\* What the save button may send is on the screen, or is shown as the editor draws it;
\* a name stands twice only in a list that was drawn from such a schema.
THEOREM SavedIsAlwaysShown == Spec => []SavableIsShown
<1>1. FormsInv => SavableIsShown
  BY DEF FormsInv, Agrees, Twice, DrawnAsIs, SavableIsShown
<1> QED BY <1>1, FormsInitially, FormsStep, PTL DEF Spec

\* Tabs and switches alone never make a schema count as changed that has nothing
\* beyond its editor.
THEOREM LookingIsAlwaysClean == Spec => []LookingIsClean
<1>1. FormsInv => LookingIsClean
  BY DEF FormsInv, Clean, LookingIsClean, Dirty, Current, Original
<1> QED BY <1>1, FormsInitially, FormsStep, PTL DEF Spec

\* An image field of a list without a name twice is written as an image; a field drawn
\* as an image is one to the server.
LEMMA ImagesWritten ==
    ASSUME NEW fields \in Seq(SchemaField), ~HasDuplicates(fields),
           NEW i \in Named(fields), fields[i].type = "image"
    PROVE  LET s == FieldsToSchema(fields)
               n == Trimmed[fields[i].name] IN
           /\ n \in DOMAIN s.props /\ s.props[n].type = "array" /\ s.props[n].itemFormat = "image"
           /\ Decodes(s)
<1> DEFINE s == FieldsToSchema(fields)
           n == Trimmed[fields[i].name]
<1>1. n \in NamesOf(fields)
  BY DEF NamesOf
<1>2. /\ DOMAIN s.props = NamesOf(fields)
      /\ \E j \in Named(fields) : Trimmed[fields[j].name] = n /\ s.props[n] = PropertyOf(fields[j])
  <2> HIDE DEF s, n
  <2> QED BY <1>1, FieldsWritten DEF s
<1>3. PICK j \in Named(fields) : Trimmed[fields[j].name] = n /\ s.props[n] = PropertyOf(fields[j])
  BY <1>2
<1>4. i = j
  BY <1>3 DEF HasDuplicates
<1>5. fields[i] \in SchemaField
  BY NamedPlaces
<1>6. PropertyOf(fields[i]).itemFormat = "image" /\ PropertyOf(fields[i]).type = "array"
  BY <1>5, PropertyOfTyped
<1>7. Decodes(s)
  <2>1. \A m \in DOMAIN s.props : s.props[m].type \in FieldTypes
    BY WrittenTyped
  <2> HIDE DEF s
  <2> QED BY <2>1 DEF Decodes, FieldTypes, ScalarTypes
<1> QED BY <1>1, <1>2, <1>3, <1>4, <1>6, <1>7

LEMMA DrawnImages ==
    ASSUME NEW s, IsSchema(s), NEW a \in BOOLEAN, Drawable(s, a),
           NEW n \in DOMAIN FieldsToSchema(SchemaToFields(s, a)).props,
           FieldsToSchema(SchemaToFields(s, a)).props[n].itemFormat = "image"
    PROVE  \E m \in ImageInputFields(s) : Trimmed[m] = n
<1> DEFINE fields == SchemaToFields(s, a)
           w == FieldsToSchema(fields)
<1>1. /\ fields \in Seq(SchemaField)
      /\ \A i \in DOMAIN fields : fields[i].name \in DOMAIN s.props /\ fields[i] = FieldOf(fields[i].name, s, a)
  BY DrawnFields
<1> HIDE DEF fields
<1>2. /\ DOMAIN w.props = NamesOf(fields)
      /\ \A l \in NamesOf(fields) : \E i \in Named(fields) :
             Trimmed[fields[i].name] = l /\ w.props[l] = PropertyOf(fields[i])
  BY <1>1, FieldsWritten
<1>3. n \in DOMAIN w.props /\ w.props[n].itemFormat = "image"
  BY DEF fields
<1>4. PICK i \in Named(fields) : Trimmed[fields[i].name] = n /\ w.props[n] = PropertyOf(fields[i])
  BY <1>2, <1>3
<1>5. fields[i] \in SchemaField /\ i \in DOMAIN fields
  BY <1>1, NamedPlaces DEF Named
<1>6. fields[i].type = "image"
  BY <1>3, <1>4, <1>5, PropertyOfTyped
<1>7. fields[i].name \in DOMAIN s.props /\ fields[i] = FieldOf(fields[i].name, s, a)
  BY <1>1, <1>5
<1>8. IsImage(s.props[fields[i].name], a)
  BY <1>6, <1>7, FieldOfTyped
<1>10. Decodes(s)
  <2>1. ASSUME NEW m \in DOMAIN s.props PROVE DrawableProperty(s.props[m], a)
    <3>1. CASE HasSchema(s)
      BY <2>1, <3>1 DEF Drawable
    <3>2. CASE ~HasSchema(s)
      BY <2>1, <3>2, DrawableParts
    <3> QED BY <3>1, <3>2
  <2>2. \A m \in DOMAIN s.props : s.props[m].type \in FieldTypes
    BY <2>1 DEF DrawableProperty
  <2> QED BY <2>2 DEF Decodes, FieldTypes, ScalarTypes
<1>9. fields[i].name \in ImageInputFields(s)
  BY <1>7, <1>8, <1>10 DEF IsImage, ImageInputFields
<1> QED BY <1>4, <1>9

\* A field made an image is one to the server, and the prompt inlines none.
THEOREM ImagesAreAlwaysImages == Spec => []ImagesAreImages
<1>1. FormsInv => ImagesAreImages
  <2> SUFFICES ASSUME FormsInv, pane = "input", enabled, held.valid
               PROVE  /\ editor.mode = "fields" /\ ~HasDuplicates(editor.fields) =>
                           \A i \in Named(editor.fields) : editor.fields[i].type = "image" =>
                               \E n \in ImageInputFields(held.schema) : Trimmed[n] = Trimmed[editor.fields[i].name]
                      /\ \A l \in BuildDefaultPrompts(held.schema) :
                             l.name \in ImageInputFields(held.schema) => ~l.inlined /\ l.guarded
    BY DEF ImagesAreImages
  <2>1. /\ IsSchema(held.schema) /\ editor.fields \in Seq(SchemaField) /\ editor.type = "object"
        /\ held.schema = OnScreen \/ OnScreen = Redrawn(held.schema)
    BY DEF FormsInv, FormsTypeOK, InputIsObject, Agrees
  <2>2. ASSUME editor.mode = "fields", ~HasDuplicates(editor.fields),
               NEW i \in Named(editor.fields), editor.fields[i].type = "image"
        PROVE  \E n \in ImageInputFields(held.schema) : Trimmed[n] = Trimmed[editor.fields[i].name]
    <3> DEFINE w == FieldsToSchema(editor.fields)
               n == Trimmed[editor.fields[i].name]
    <3>1. OnScreen = w
      BY <2>1, <2>2 DEF OnScreen, Writes
    <3>2. n \in DOMAIN w.props /\ w.props[n].type = "array" /\ w.props[n].itemFormat = "image" /\ Decodes(w)
      BY <2>1, <2>2, ImagesWritten
    <3>3. Trimmed[n] = n
      <4>1. \A m \in DOMAIN w.props : Trimmed[m] = m
        BY <2>1, WrittenTyped
      <4> HIDE DEF w, n
      <4> QED BY <3>2, <4>1
    <3> HIDE DEF w, n
    <3>4. held.schema = w => n \in ImageInputFields(held.schema)
      BY <3>2 DEF ImageInputFields
    <3>5. ASSUME OnScreen = Redrawn(held.schema), held.schema # w
          PROVE  \E m \in ImageInputFields(held.schema) : Trimmed[m] = n
      <4> DEFINE e == EditorOn(pane, held.schema)
      <4>1. /\ e.type = "object" /\ e.raw = held.schema
            /\ e.mode \in {"fields", "json"}
            /\ e.mode = "fields" <=> Drawable(held.schema, AllowImages)
            /\ e.mode = "fields" => e.fields = SchemaToFields(held.schema, AllowImages)
        <5>1. pane \in Panes /\ StartOf(pane, held.schema) = held.schema
          BY DEF Panes, StartOf
        <5> QED BY <2>1, <5>1, EditorOpened DEF AllowImages
      <4>2. w = Writes(e)
        BY <3>1, <3>5 DEF Redrawn
      <4> HIDE DEF e
      <4>3. e.mode = "fields"
        <5>1. e.mode = "json" => w = held.schema
          BY <4>1, <4>2 DEF Writes
        <5> QED BY <3>5, <4>1, <5>1
      <4>4. Drawable(held.schema, AllowImages) /\ AllowImages \in BOOLEAN
        BY <4>1, <4>3 DEF AllowImages
      <4>5. w = FieldsToSchema(SchemaToFields(held.schema, AllowImages))
        BY <4>1, <4>2, <4>3 DEF Writes
      <4> QED BY <2>1, <3>2, <4>4, <4>5, DrawnImages
    <3>6. held.schema = w \/ (OnScreen = Redrawn(held.schema) /\ held.schema # w)
      BY <2>1, <3>1
    <3>7. \E m \in ImageInputFields(held.schema) : Trimmed[m] = n
      BY <3>3, <3>4, <3>5, <3>6
    <3> QED BY <3>7 DEF n
  <2>3. ASSUME NEW l \in BuildDefaultPrompts(held.schema), l.name \in ImageInputFields(held.schema)
        PROVE  ~l.inlined /\ l.guarded
    <3>1. PICK f \in FieldsOf(held.schema) : l = InputLine(f)
      BY DEF BuildDefaultPrompts
    <3>2. PICK n \in DOMAIN held.schema.props :
             f = [name |-> n, schema |-> held.schema.props[n], required |-> Requires(held.schema, n)]
      BY DEF FieldsOf
    <3>3. f.name = n /\ f.schema = held.schema.props[n]
      BY <3>2
    <3>4. l.name = f.name
      BY <3>1 DEF InputLine
    <3>8. n \in Texts
      BY <2>1, SchemaParts
    <3>5. IsImageField(f)
      BY <2>3, <3>3, <3>4, <3>8, LowerAssumption DEF ImageInputFields, IsImageField
    <3>6. l = [name |-> f.name, inlined |-> ~IsImageField(f), guarded |-> IsImageField(f) \/ ~f.required]
      BY <3>1 DEF InputLine
    <3>7. l.inlined = ~IsImageField(f) /\ l.guarded = (IsImageField(f) \/ ~f.required)
      BY <3>6
    <3> QED BY <3>5, <3>7
  <2> QED BY <2>2, <2>3
<1> QED BY <1>1, FormsInitially, FormsStep, PTL DEF Spec

-----------------------------------------------------------------------------
USE HistoryAssumption

-----------------------------------------------------------------------------
\* The run history.
LEMMA PassingFinite ==
    ASSUME runs \in Seq(Kinds), NEW kind, NEW a, NEW gone
    PROVE  /\ IsFiniteSet(Passing(kind, a, gone)) /\ Cardinality(Passing(kind, a, gone)) \in Nat
           /\ Passing(kind, a, gone) \subseteq Nat
<1>1. Len(runs) \in Nat /\ DOMAIN runs = 1..Len(runs)
  OBVIOUS
<1>2. IsFiniteSet(1..Len(runs))
  BY <1>1, FS_Interval
<1>3. Passing(kind, a, gone) \subseteq 1..Len(runs)
  BY <1>1 DEF Passing
<1>4. QED
  BY <1>1, <1>2, <1>3, FS_Subset, FS_CardinalityType

LEMMA DivisionInNat ==
    ASSUME NEW x \in Nat, NEW y \in Nat \ {0}
    PROVE  x \div y \in Nat
OBVIOUS

LEMMA PagesType ==
    ASSUME runs \in Seq(Kinds), NEW kind, NEW a
    PROVE  Pages(kind, a) \in Nat
<1>1. Cardinality(Passing(kind, a, deleted)) \in Nat
  BY PassingFinite
<1>2. Cardinality(Passing(kind, a, deleted)) + PageSize - 1 \in Nat
  BY <1>1
<1>3. QED
  BY <1>2, DivisionInNat DEF Pages

LEMMA AnswerType ==
    ASSUME NEW r \in Load, r.at \in Nat, r.pages # Uncounted, runs \in Seq(Kinds), deleted \subseteq DOMAIN runs
    PROVE  Answer(r) \in Result
<1>1. r.at \in Nat /\ r.pages \in Nat /\ r.kind \in Kinds \cup {Any} /\ r.page \in Nat \ {0} /\ r.era \in Nat
  BY DEF Load
<1>2. Slice(r.kind, r.at, r.page, deleted) \in SUBSET Nat
  BY PassingFinite DEF Slice
<1>3. deleted \in SUBSET Nat
  OBVIOUS
<1>4. QED
  BY <1>1, <1>2, <1>3 DEF Answer, Result

\* A run that is recorded is beyond every anchor there is.
LEMMA SliceKept ==
    ASSUME runs \in Seq(Kinds), NEW k \in Kinds, runs' = Append(runs, k),
           NEW kind, NEW page, NEW gone, NEW a \in Nat, a > 0, a <= Len(runs)
    PROVE  Slice(kind, a, page, gone)' = Slice(kind, a, page, gone)
<1>1. Passing(kind, a, gone)' = Passing(kind, a, gone)
  <2>1. \A i \in 1..a : /\ i \in DOMAIN runs /\ i \in DOMAIN runs' /\ runs'[i] = runs[i]
    OBVIOUS
  <2>2. \A i \in (DOMAIN runs) \cup (DOMAIN runs') : i <= a => i \in 1..a
    OBVIOUS
  <2>3. QED
    BY <2>1, <2>2 DEF Passing
<1>2. QED
  BY <1>1 DEF Slice

LEMMA SliceSame ==
    ASSUME runs' = runs, NEW kind, NEW page, NEW gone, NEW a
    PROVE  Slice(kind, a, page, gone)' = Slice(kind, a, page, gone)
BY DEF Slice, Passing

-----------------------------------------------------------------------------
\* A statement of ListAllRuns fills in the anchor, the count or the answer of its load.
ReadStep(r) == (\E a \in 0..Len(runs) : Pin(r, a)) \/ Count(r) \/ Read(r)

FillsIn(r, q) ==
    \/ \E a \in 0..Len(runs) : r.at = Unpinned /\ q = [r EXCEPT !.at = a]
    \/ r.at # Unpinned /\ q = [r EXCEPT !.pages = Pages(r.kind, r.at)]
    \/ r.pages # Uncounted /\ q = [r EXCEPT !.answer = Answer(r)]

LEMMA ReadFillsIn ==
    ASSUME NEW r, ReadStep(r)
    PROVE  \E q : FillsIn(r, q) /\ ReadBy(r, q)
<1>1. CASE \E a \in 0..Len(runs) : Pin(r, a)
  BY <1>1 DEF Pin, FillsIn
<1>2. CASE Count(r)
  BY <1>2 DEF Count, FillsIn
<1>3. CASE Read(r)
  BY <1>3 DEF Read, FillsIn
<1>4. QED
  BY <1>1, <1>2, <1>3 DEF ReadStep

LEMMA FilledTyped ==
    ASSUME NEW r \in Load, r.pages # Uncounted => r.at # Unpinned,
           runs \in Seq(Kinds), deleted \subseteq DOMAIN runs, NEW q, FillsIn(r, q)
    PROVE  /\ q \in Load /\ (q.pages # Uncounted => q.at # Unpinned)
           /\ q.n = r.n /\ q.kind = r.kind /\ q.page = r.page /\ q.anchor = r.anchor
           /\ q.at = r.at \/ (r.at = Unpinned /\ q.at \in 0..Len(runs))
           /\ q.answer = r.answer \/ (q.at = r.at /\ r.at \in Nat /\ q.answer = Answer(r))
<1>1. CASE \E a \in 0..Len(runs) : r.at = Unpinned /\ q = [r EXCEPT !.at = a]
  <2>1. PICK a \in 0..Len(runs) : r.at = Unpinned /\ q = [r EXCEPT !.at = a]
    BY <1>1
  <2>2. a \in Nat /\ a # Unpinned
    BY DEF Unpinned
  <2>3. /\ q \in Load /\ q.at = a /\ q.pages = r.pages /\ q.answer = r.answer
        /\ q.n = r.n /\ q.kind = r.kind /\ q.page = r.page /\ q.anchor = r.anchor
    BY <2>1, <2>2 DEF Load
  <2>4. QED
    BY <2>1, <2>2, <2>3
<1>2. CASE r.at # Unpinned /\ q = [r EXCEPT !.pages = Pages(r.kind, r.at)]
  <2>1. Pages(r.kind, r.at) \in Nat
    BY PagesType
  <2>2. /\ q \in Load /\ q.at = r.at /\ q.answer = r.answer
        /\ q.n = r.n /\ q.kind = r.kind /\ q.page = r.page /\ q.anchor = r.anchor
    BY <1>2, <2>1 DEF Load
  <2>3. QED
    BY <1>2, <2>2
<1>3. CASE r.pages # Uncounted /\ q = [r EXCEPT !.answer = Answer(r)]
  <2>1. r.at \in Nat
    BY <1>3 DEF Load
  <2>2. Answer(r) \in Result
    BY <1>3, <2>1, AnswerType
  <2>3. /\ q \in Load /\ q.at = r.at /\ q.answer = Answer(r) /\ q.pages = r.pages
        /\ q.n = r.n /\ q.kind = r.kind /\ q.page = r.page /\ q.anchor = r.anchor
    BY <1>3, <2>2 DEF Load
  <2>4. QED
    BY <1>3, <2>1, <2>3
<1>4. QED
  BY <1>1, <1>2, <1>3 DEF FillsIn

LEMMA InitType == HistoryInit => HistoryTypeOK
<1> SUFFICES ASSUME HistoryInit PROVE HistoryTypeOK
  OBVIOUS
<1>1. runs \in Seq(Kinds)
  <2>1. PICK n \in 0..MaxRuns : runs \in [1..n -> Kinds]
    BY DEF HistoryInit
  <2>2. QED
    BY <2>1
<1>2. deleted \subseteq DOMAIN runs /\ filters \in Filter
  BY DEF HistoryInit, Filter
<1>3. /\ anchor \in Nat \cup {Unpinned} /\ data \in Result \cup {NoData}
      /\ loads \subseteq Load /\ \A r \in loads : r.pages # Uncounted => r.at # Unpinned
      /\ sent \in Nat /\ refreshes \in Nat /\ answered \in Nat
  BY DEF HistoryInit
<1>4. {due, failed, forbidden, loading, mixed, overtaken} \subseteq BOOLEAN
  BY DEF HistoryInit
<1>5. QED
  BY <1>1, <1>2, <1>3, <1>4 DEF HistoryTypeOK

LEMMA SendType ==
    ASSUME HistoryTypeOK, NEW a \in Nat \cup {Unpinned}, Send(a),
           refreshes' \in Nat, due' \in BOOLEAN
    PROVE  HistoryTypeOK'
<1>1. [n |-> sent + 1, kind |-> filters.kind, page |-> filters.page,
       anchor |-> a, era |-> refreshes', at |-> IF a > 0 THEN a ELSE Unpinned,
       pages |-> Uncounted, answer |-> NoData] \in Load
  <2>1. (IF a > 0 THEN a ELSE Unpinned) \in Nat \cup {Unpinned}
    OBVIOUS
  <2>2. QED
    BY <2>1 DEF HistoryTypeOK, Filter, Load
<1>2. loads' \subseteq Load /\ \A r \in loads' : r.pages # Uncounted => r.at # Unpinned
  BY <1>1 DEF HistoryTypeOK, Send
<1>3. mixed' \in BOOLEAN
  BY DEF HistoryTypeOK, Send
<1>4. QED
  BY <1>2, <1>3 DEF HistoryTypeOK, Send

LEMMA StepType == HistoryTypeOK /\ [HistoryNext]_historyVars => HistoryTypeOK'
<1> SUFFICES ASSUME HistoryTypeOK, [HistoryNext]_historyVars PROVE HistoryTypeOK'
  OBVIOUS
<1>1. ASSUME NEW k \in Kinds, Recorded(k) PROVE HistoryTypeOK'
  <2>1. runs \in Seq(Kinds) /\ runs' = Append(runs, k) /\ deleted' = deleted /\ deleted \subseteq DOMAIN runs
    BY <1>1 DEF Recorded, HistoryTypeOK
  <2>2. runs' \in Seq(Kinds) /\ DOMAIN runs \subseteq DOMAIN runs'
    BY <2>1
  <2>3. QED
    BY <1>1, <2>1, <2>2 DEF Recorded, HistoryTypeOK, status, notes
<1>1a. ASSUME NEW D \in SUBSET DOMAIN runs, SessionDeleted(D) PROVE HistoryTypeOK'
  BY <1>1a DEF SessionDeleted, HistoryTypeOK, status, notes
<1>2. ASSUME NEW f \in Filter, Ask(f) PROVE HistoryTypeOK'
  BY <1>2 DEF Ask, HistoryTypeOK, status, notes
<1>3. ASSUME NEW k \in Kinds \cup {Any}, Patch(k) PROVE HistoryTypeOK'
  BY <1>2, <1>3 DEF Patch, Filter
<1>4. CASE Prev
  <2>1. [filters EXCEPT !.page = @ - 1] \in Filter
    BY <1>4 DEF Prev, HistoryTypeOK, Filter
  <2>2. QED
    BY <1>2, <1>4, <2>1 DEF Prev
<1>5. CASE NextPage
  <2>1. [filters EXCEPT !.page = @ + 1] \in Filter
    BY DEF HistoryTypeOK, Filter
  <2>2. QED
    BY <1>2, <1>5, <2>1 DEF NextPage
<1>6. ASSUME NEW p \in 1..MaxRuns, GoToPage(p) PROVE HistoryTypeOK'
  <2>1. [filters EXCEPT !.page = p] \in Filter
    BY DEF HistoryTypeOK, Filter
  <2>2. QED
    BY <1>2, <1>6, <2>1 DEF GoToPage
<1>7. CASE Settle
  BY <1>7, SendType DEF Settle, HistoryTypeOK
<1>8. CASE Refresh
  <2>1. refreshes' \in Nat /\ due' \in BOOLEAN /\ Send(Unpinned)
    BY <1>8 DEF Refresh, HistoryTypeOK
  <2>2. QED
    BY <2>1, SendType
<1>9. CASE Retry
  BY <1>9, SendType DEF Retry, HistoryTypeOK
<1>10. ASSUME NEW r \in loads, ReadStep(r) PROVE HistoryTypeOK'
  <2>1. /\ r \in Load /\ (r.pages # Uncounted => r.at # Unpinned)
        /\ runs \in Seq(Kinds) /\ deleted \subseteq DOMAIN runs
    BY DEF HistoryTypeOK
  <2>2. PICK q : FillsIn(r, q) /\ ReadBy(r, q)
    BY <1>10, ReadFillsIn
  <2>3. q \in Load /\ (q.pages # Uncounted => q.at # Unpinned)
    BY <2>1, <2>2, FilledTyped
  <2>4. QED
    BY <2>2, <2>3 DEF ReadBy, HistoryTypeOK, status, notes
<1>11. ASSUME NEW r \in loads, Show(r) PROVE HistoryTypeOK'
  <2>1. r \in Load /\ r.answer \in Result
    BY <1>11 DEF Show, HistoryTypeOK, Load
  <2>2. r.answer.anchor \in Nat /\ r.n \in Nat
    BY <2>1 DEF Result, Load
  <2>3. /\ anchor' \in Nat \cup {Unpinned} /\ data' \in Result \cup {NoData}
        /\ loads' \subseteq Load /\ answered' \in Nat
        /\ \A q \in loads' : q.pages # Uncounted => q.at # Unpinned
    BY <1>11, <2>1, <2>2 DEF Show, Newest, HistoryTypeOK
  <2>4. {due', failed', forbidden', loading', mixed', overtaken'} \subseteq BOOLEAN
    <3>1. due \in BOOLEAN /\ mixed \in BOOLEAN
      BY DEF HistoryTypeOK
    <3>2. failed' = FALSE /\ forbidden' = FALSE /\ loading' = FALSE /\ due' = due /\ mixed' = mixed
      BY <1>11 DEF Show
    <3>3. overtaken' \in BOOLEAN
      BY <1>11 DEF Show
    <3>4. QED
      BY <3>1, <3>2, <3>3
  <2>5. QED
    BY <1>11, <2>3, <2>4 DEF Show, HistoryTypeOK
<1>12. ASSUME NEW r \in loads, Lose(r) PROVE HistoryTypeOK'
  <2>1. r.n \in Nat
    BY DEF HistoryTypeOK, Load
  <2>2. QED
    BY <1>12, <2>1 DEF Lose, Newest, HistoryTypeOK
<1>13. CASE UNCHANGED historyVars
  BY <1>13 DEF historyVars, status, notes, HistoryTypeOK
<1>14. QED
  BY <1>1, <1>1a, <1>3, <1>4, <1>5, <1>6, <1>7, <1>8, <1>9, <1>10, <1>11, <1>12, <1>13
     DEF HistoryNext, ReadStep

\* The variables of the run history always have their types (AdminRunsPage's state,
\* the loads it has in flight and the answers of AdminListRuns).
THEOREM HistoryTypeCorrect == HistorySpec => []HistoryTypeOK
BY InitType, StepType, PTL DEF HistorySpec

-----------------------------------------------------------------------------
\* What SnapshotHolds rests on.  An anchor is an id that was given out, so that no
\* run recorded later changes a slice at it; an answer is the slice its load asked
\* for, of the rows there were; and as long as no load overlapped one that was to pin
\* the anchor, the loads in flight carry the anchor of now, and there is one at most
\* until it is set.
AnchorsGiven ==
    /\ anchor <= Len(runs)
    /\ \A r \in loads : r.at <= Len(runs) /\ (r.anchor > 0 => r.at = r.anchor)

AnswerSliced(d) ==
    /\ d.anchor <= Len(runs)
    /\ d.anchor > 0 => d.rows = Slice(d.kind, d.anchor, d.page, d.gone)

AnswersSliced ==
    \A r \in loads : r.answer # NoData => AnswerSliced(r.answer) /\ r.answer.anchor = r.at

LoadsAnchored ==
    ~mixed => /\ \A r \in loads : r.anchor = anchor
              /\ anchor <= 0 => \A r, q \in loads : r = q

SnapshotInv == HistoryTypeOK /\ AnchorsGiven /\ AnswersSliced /\ LoadsAnchored /\ SnapshotHolds

\* What was a slice of the rows read is one of the rows there are later.
LEMMA SlicedLater ==
    ASSUME NEW d \in Result, runs \in Seq(Kinds), AnswerSliced(d),
           runs' = runs \/ \E k \in Kinds : runs' = Append(runs, k)
    PROVE  AnswerSliced(d)'
<1>1. CASE runs' = runs
  BY <1>1, SliceSame DEF AnswerSliced
<1>2. ASSUME NEW k \in Kinds, runs' = Append(runs, k) PROVE AnswerSliced(d)'
  <2>1. Len(runs') = Len(runs) + 1 /\ Len(runs) \in Nat /\ d.anchor \in Nat
    BY <1>2 DEF Result
  <2>2. d.anchor <= Len(runs) /\ d.anchor <= Len(runs')
    BY <2>1 DEF AnswerSliced
  <2>3. ASSUME d.anchor > 0
        PROVE  d.rows = Slice(d.kind, d.anchor, d.page, d.gone)'
    <3>1. Slice(d.kind, d.anchor, d.page, d.gone)' = Slice(d.kind, d.anchor, d.page, d.gone)
      BY <1>2, <2>1, <2>2, <2>3, SliceKept
    <3>2. QED
      BY <2>3, <3>1 DEF AnswerSliced
  <2>4. QED
    BY <2>2, <2>3 DEF AnswerSliced
<1>3. QED
  BY <1>1, <1>2

\* The parts are kept by a step that leaves the loads and what is on show, be a run
\* recorded or deleted.
LEMMA SnapshotUntouched ==
    ASSUME SnapshotInv, HistoryTypeOK', UNCHANGED <<anchor, data, loads, mixed>>,
           runs' = runs \/ \E k \in Kinds : runs' = Append(runs, k)
    PROVE  SnapshotInv'
<1> USE DEF SnapshotInv
<1>1. runs \in Seq(Kinds) /\ Len(runs) \in Nat /\ Len(runs') \in Nat /\ Len(runs) <= Len(runs')
  <2>1. runs \in Seq(Kinds)
    BY DEF HistoryTypeOK
  <2>2. QED
    BY <2>1
<1>2. AnchorsGiven'
  <2>1. /\ AnchorsGiven /\ anchor \in Int
        /\ \A r \in loads : r.at \in Int
    BY DEF HistoryTypeOK, Load, Unpinned
  <2> HIDE DEF SnapshotInv
  <2>2. QED
    BY <1>1, <2>1 DEF AnchorsGiven
<1>3. AnswersSliced'
  <2> SUFFICES ASSUME NEW r \in loads, r.answer # NoData
               PROVE  AnswerSliced(r.answer)' /\ r.answer.anchor = r.at
    BY DEF AnswersSliced
  <2>1. r.answer \in Result
    BY DEF HistoryTypeOK, Load
  <2>2. AnswerSliced(r.answer) /\ r.answer.anchor = r.at
    BY DEF AnswersSliced
  <2>3. AnswerSliced(r.answer)'
    BY <1>1, <2>1, <2>2, SlicedLater
  <2>4. QED
    BY <2>2, <2>3
<1>4. LoadsAnchored'
  BY DEF LoadsAnchored
<1>5. SnapshotHolds'
  <2> SUFFICES ASSUME data # NoData, anchor > 0, ~mixed
               PROVE  data.anchor = anchor /\ data.rows = Slice(data.kind, anchor, data.page, data.gone)'
    BY DEF SnapshotHolds
  <2>1. data \in Result /\ data.anchor = anchor /\ anchor <= Len(runs)
    BY DEF HistoryTypeOK, SnapshotHolds, AnchorsGiven
  <2>2. AnswerSliced(data)
    BY <2>1 DEF AnswerSliced, SnapshotHolds
  <2>3. AnswerSliced(data)'
    BY <1>1, <2>1, <2>2, SlicedLater
  <2>4. QED
    BY <2>1, <2>3 DEF AnswerSliced
<1>6. QED
  BY <1>2, <1>3, <1>4, <1>5

LEMMA SnapshotSend ==
    ASSUME SnapshotInv, HistoryTypeOK', NEW a \in {anchor, Unpinned}, Send(a)
    PROVE  SnapshotInv'
<1> USE DEF SnapshotInv
<1> DEFINE r0 == [n |-> sent + 1, kind |-> filters.kind, page |-> filters.page,
                  anchor |-> a, era |-> refreshes', at |-> IF a > 0 THEN a ELSE Unpinned,
                  pages |-> Uncounted, answer |-> NoData]
<1>1. /\ loads' = loads \cup {r0} /\ anchor' = a /\ UNCHANGED <<runs, data>>
      /\ mixed' = IF a > 0 THEN mixed ELSE loads # {}
      /\ r0.anchor = a /\ r0.at = (IF a > 0 THEN a ELSE Unpinned) /\ r0.answer = NoData
  BY DEF Send
<1> HIDE DEF r0
<1>2. /\ runs \in Seq(Kinds) /\ Len(runs) \in Nat /\ anchor <= Len(runs) /\ Unpinned <= Len(runs)
      /\ a \in Int
  BY DEF HistoryTypeOK, AnchorsGiven, Unpinned
<1>3. AnchorsGiven'
  BY <1>1, <1>2 DEF AnchorsGiven
<1>4. AnswersSliced'
  BY <1>1, SliceSame DEF AnswersSliced, AnswerSliced
<1>5. LoadsAnchored'
  <2>1. CASE a > 0
    <3>1. a = anchor
      BY <2>1 DEF Unpinned
    <3>2. ~(a <= 0)
      BY <1>2, <2>1
    <3>3. QED
      BY <1>1, <2>1, <3>1, <3>2 DEF LoadsAnchored
  <2>2. CASE ~(a > 0)
    BY <1>1, <2>2 DEF LoadsAnchored
  <2>3. QED
    BY <2>1, <2>2
<1>6. SnapshotHolds'
  <2>1. CASE a > 0
    <3>1. a = anchor
      BY <2>1 DEF Unpinned
    <3>2. QED
      BY <1>1, <2>1, <3>1, SliceSame DEF SnapshotHolds
  <2>2. CASE ~(a > 0)
    BY <1>1, <2>2 DEF SnapshotHolds
  <2>3. QED
    BY <2>1, <2>2
<1>7. QED
  BY <1>3, <1>4, <1>5, <1>6

LEMMA SnapshotRead ==
    ASSUME SnapshotInv, HistoryTypeOK', NEW r \in loads, ReadStep(r)
    PROVE  SnapshotInv'
<1> USE DEF SnapshotInv
<1>1. PICK q : FillsIn(r, q) /\ ReadBy(r, q)
  BY ReadFillsIn
<1>2. /\ loads' = (loads \ {r}) \cup {q} /\ UNCHANGED <<runs, anchor, data, mixed>>
  BY <1>1 DEF ReadBy, notes
<1>3. /\ r \in Load /\ (r.pages # Uncounted => r.at # Unpinned)
      /\ runs \in Seq(Kinds) /\ Len(runs) \in Nat /\ deleted \subseteq DOMAIN runs
      /\ r.at <= Len(runs) /\ (r.anchor > 0 => r.at = r.anchor)
  BY DEF HistoryTypeOK, AnchorsGiven
<1>4. /\ q \in Load /\ q.anchor = r.anchor
      /\ q.at = r.at \/ (r.at = Unpinned /\ q.at \in 0..Len(runs))
      /\ q.answer = r.answer \/ (q.at = r.at /\ r.at \in Nat /\ q.answer = Answer(r))
  BY <1>1, <1>3, FilledTyped
<1>5. q.at <= Len(runs) /\ (q.anchor > 0 => q.at = q.anchor)
  BY <1>3, <1>4 DEF Unpinned
<1>6. AnchorsGiven'
  BY <1>2, <1>5 DEF SnapshotInv, AnchorsGiven
<1>7. q.answer # NoData => AnswerSliced(q.answer) /\ q.answer.anchor = q.at
  <2>1. CASE q.answer = r.answer
    <3>1. r.answer # NoData => AnswerSliced(r.answer) /\ r.answer.anchor = r.at
      BY DEF AnswersSliced
    <3>2. r.answer # NoData => r.at # Unpinned
      BY <1>3, <3>1 DEF Load, Result, Unpinned
    <3>3. QED
      BY <1>4, <2>1, <3>1, <3>2
  <2>2. CASE q.at = r.at /\ r.at \in Nat /\ q.answer = Answer(r)
    <3>1. /\ Answer(r).anchor = r.at
          /\ Answer(r).rows = Slice(Answer(r).kind, Answer(r).anchor, Answer(r).page, Answer(r).gone)
      BY DEF Answer
    <3>2. QED
      BY <1>3, <2>2, <3>1 DEF AnswerSliced
  <2>3. QED
    BY <1>4, <2>1, <2>2
<1>8. AnswersSliced'
  <2> SUFFICES ASSUME NEW l \in loads', l.answer # NoData
               PROVE  AnswerSliced(l.answer) /\ l.answer.anchor = l.at
    BY <1>2, SliceSame DEF AnswersSliced, AnswerSliced
  <2>1. CASE l \in loads
    BY <2>1 DEF AnswersSliced
  <2>2. CASE l = q
    BY <1>7, <2>2
  <2>3. QED
    BY <1>2, <2>1, <2>2
<1>9. LoadsAnchored'
  BY <1>2, <1>4 DEF LoadsAnchored
<1>10. SnapshotHolds'
  BY <1>2, SliceSame DEF SnapshotHolds
<1>11. QED
  BY <1>6, <1>8, <1>9, <1>10

LEMMA SnapshotShow ==
    ASSUME SnapshotInv, HistoryTypeOK', NEW r \in loads, Show(r)
    PROVE  SnapshotInv'
<1> USE DEF SnapshotInv
<1>1. /\ loads' = loads \ {r} /\ data' = r.answer /\ UNCHANGED <<runs, mixed>>
      /\ anchor' = IF anchor = Unpinned THEN r.answer.anchor ELSE anchor
      /\ r.answer # NoData
  BY DEF Show
<1>2. AnswerSliced(r.answer) /\ r.answer.anchor = r.at /\ (r.anchor > 0 => r.at = r.anchor)
  BY <1>1 DEF AnswersSliced, AnchorsGiven
<1>3. AnchorsGiven'
  BY <1>1, <1>2 DEF AnchorsGiven, AnswerSliced
<1>4. AnswersSliced'
  BY <1>1, SliceSame DEF AnswersSliced, AnswerSliced
<1>5. LoadsAnchored'
  <2>1. CASE anchor = Unpinned
    <3>1. ~mixed => loads' = {}
      BY <1>1, <2>1 DEF LoadsAnchored, Unpinned
    <3>2. QED
      BY <1>1, <3>1 DEF LoadsAnchored
  <2>2. CASE anchor # Unpinned
    BY <1>1, <2>2 DEF LoadsAnchored
  <2>3. QED
    BY <2>1, <2>2
<1>6. SnapshotHolds'
  <2> SUFFICES ASSUME anchor' > 0, ~mixed
               PROVE  /\ r.answer.anchor = anchor'
                      /\ r.answer.rows = Slice(r.answer.kind, r.answer.anchor, r.answer.page, r.answer.gone)
    BY <1>1, SliceSame DEF SnapshotHolds
  <2>1. r.answer.anchor = anchor'
    BY <1>1, <1>2 DEF LoadsAnchored
  <2>2. QED
    BY <1>2, <2>1 DEF AnswerSliced
<1>7. QED
  BY <1>3, <1>4, <1>5, <1>6

LEMMA SnapshotLose ==
    ASSUME SnapshotInv, HistoryTypeOK', NEW r \in loads, Lose(r)
    PROVE  SnapshotInv'
<1> USE DEF SnapshotInv
<1>1. loads' = loads \ {r} /\ UNCHANGED <<runs, anchor, data, mixed>>
  BY DEF Lose
<1>2. QED
  BY <1>1, SliceSame DEF AnchorsGiven, AnswersSliced, AnswerSliced, LoadsAnchored, SnapshotHolds

LEMMA InitSnapshot == HistoryInit => SnapshotInv
<1> SUFFICES ASSUME HistoryInit PROVE SnapshotInv
  OBVIOUS
<1>1. HistoryTypeOK
  BY InitType
<1>2. AnchorsGiven
  BY <1>1 DEF HistoryInit, HistoryTypeOK, AnchorsGiven, Unpinned
<1>3. AnswersSliced /\ LoadsAnchored /\ SnapshotHolds
  BY DEF HistoryInit, AnswersSliced, LoadsAnchored, SnapshotHolds
<1>4. QED
  BY <1>1, <1>2, <1>3 DEF SnapshotInv

LEMMA StepSnapshot == SnapshotInv /\ [HistoryNext]_historyVars => SnapshotInv'
<1> SUFFICES ASSUME SnapshotInv, [HistoryNext]_historyVars PROVE SnapshotInv'
  OBVIOUS
<1>1. HistoryTypeOK'
  BY StepType DEF SnapshotInv
<1>2. ASSUME NEW k \in Kinds, Recorded(k) PROVE SnapshotInv'
  BY <1>1, <1>2, SnapshotUntouched DEF Recorded, notes
<1>2a. ASSUME NEW D, SessionDeleted(D) PROVE SnapshotInv'
  BY <1>1, <1>2a, SnapshotUntouched DEF SessionDeleted, notes
<1>3. ASSUME NEW f, Ask(f) PROVE SnapshotInv'
  BY <1>1, <1>3, SnapshotUntouched DEF Ask, status, notes
<1>4. CASE \/ \E k \in Kinds \cup {Any} : Patch(k)
           \/ Prev \/ NextPage \/ \E p \in 1..MaxRuns : GoToPage(p)
  BY <1>3, <1>4 DEF Patch, Prev, NextPage, GoToPage
<1>5. CASE Settle \/ Refresh \/ Retry
  BY <1>1, <1>5, SnapshotSend DEF Settle, Refresh, Retry
<1>6. ASSUME NEW r \in loads, ReadStep(r) \/ Show(r) \/ Lose(r) PROVE SnapshotInv'
  BY <1>1, <1>6, SnapshotRead, SnapshotShow, SnapshotLose
<1>7. CASE UNCHANGED historyVars
  BY <1>1, <1>7, SnapshotUntouched DEF historyVars, notes
<1>8. QED
  BY <1>2, <1>2a, <1>4, <1>5, <1>6, <1>7 DEF HistoryNext, ReadStep

\* The rows on show stay those of the page in the pinned snapshot, less the runs that
\* were deleted before they were read, whatever is recorded meanwhile, between the
\* server's statements too, and in whatever order loads are answered
\* (AdminRunsPage.load, ListAllRuns).
THEOREM SnapshotAlwaysHolds == HistorySpec => []SnapshotHolds
<1>1. SnapshotInv => SnapshotHolds
  BY DEF SnapshotInv
<1>2. QED
  BY <1>1, InitSnapshot, StepSnapshot, PTL DEF HistorySpec

-----------------------------------------------------------------------------
\* What ShownIsAsked rests on.  Loads are numbered and each is answered once; an
\* answer is of its load; and once the 300 ms have run out, the newest load is of
\* the filters of now, and either it is in flight, or nothing newer was answered
\* and what it left on show is what ShownIsAsked says.
LoadsNumbered ==
    /\ answered <= sent
    /\ \A r \in loads : r.n <= sent /\ r.n # answered
    /\ \A r, q \in loads : r.n = q.n => r = q

AnswersMatch ==
    \A r \in loads : r.answer # NoData => r.answer.kind = r.kind /\ r.answer.page = r.page

Matches(r) == r.kind = filters.kind /\ r.page = filters.page

LeftOnShow == \/ overtaken \/ failed \/ forbidden \/ data = NoData
              \/ data.kind = filters.kind /\ data.page = filters.page

NewestIsAsked ==
    ~due => \/ \E r \in loads : r.n = sent /\ Matches(r)
            \/ answered = sent /\ LeftOnShow

AskedInv == HistoryTypeOK /\ LoadsNumbered /\ AnswersMatch /\ NewestIsAsked

LEMMA AskedUntouched ==
    ASSUME AskedInv, HistoryTypeOK', UNCHANGED <<loads, sent, answered>>,
           \/ due'
           \/ UNCHANGED <<filters, due, overtaken, failed, forbidden, data>>
    PROVE  AskedInv'
<1>1. LoadsNumbered' /\ AnswersMatch'
  BY DEF AskedInv, LoadsNumbered, AnswersMatch
<1>2. NewestIsAsked'
  BY DEF AskedInv, NewestIsAsked, Matches, LeftOnShow
<1>3. QED
  BY <1>1, <1>2 DEF AskedInv

LEMMA AskedSend ==
    ASSUME AskedInv, HistoryTypeOK', NEW a, Send(a)
    PROVE  AskedInv'
<1> USE DEF AskedInv
<1> DEFINE r0 == [n |-> sent + 1, kind |-> filters.kind, page |-> filters.page,
                  anchor |-> a, era |-> refreshes', at |-> IF a > 0 THEN a ELSE Unpinned,
                  pages |-> Uncounted, answer |-> NoData]
<1>1. /\ loads' = loads \cup {r0} /\ sent' = sent + 1 /\ UNCHANGED <<filters, answered>>
      /\ r0.n = sent + 1 /\ r0.kind = filters.kind /\ r0.page = filters.page /\ r0.answer = NoData
  BY DEF Send
<1> HIDE DEF r0
<1>2. sent \in Nat /\ answered \in Nat /\ \A r \in loads : r.n \in Nat
  BY DEF HistoryTypeOK, Load
<1>3. LoadsNumbered'
  BY <1>1, <1>2 DEF LoadsNumbered
<1>4. AnswersMatch'
  BY <1>1 DEF AnswersMatch
<1>5. NewestIsAsked'
  BY <1>1 DEF NewestIsAsked, Matches
<1>6. QED
  BY <1>3, <1>4, <1>5

LEMMA AskedRead ==
    ASSUME AskedInv, HistoryTypeOK', NEW r \in loads, ReadStep(r)
    PROVE  AskedInv'
<1> USE DEF AskedInv
<1>1. PICK l : FillsIn(r, l) /\ ReadBy(r, l)
  BY ReadFillsIn
<1>2. /\ loads' = (loads \ {r}) \cup {l}
      /\ UNCHANGED <<filters, due, data, failed, forbidden, sent, answered, overtaken>>
  BY <1>1 DEF ReadBy, notes, status
<1>3. /\ r \in Load /\ (r.pages # Uncounted => r.at # Unpinned)
      /\ runs \in Seq(Kinds) /\ deleted \subseteq DOMAIN runs
  BY DEF HistoryTypeOK
<1>4. /\ l.n = r.n /\ l.kind = r.kind /\ l.page = r.page
      /\ l.answer = r.answer \/ l.answer = Answer(r)
  BY <1>1, <1>3, FilledTyped
<1>5. Answer(r).kind = r.kind /\ Answer(r).page = r.page
  BY DEF Answer
<1>6. LoadsNumbered'
  BY <1>2, <1>4 DEF LoadsNumbered
<1>7. AnswersMatch'
  <2>1. l.answer # NoData => l.answer.kind = l.kind /\ l.answer.page = l.page
    BY <1>4, <1>5 DEF AnswersMatch
  <2>2. QED
    BY <1>2, <2>1 DEF AnswersMatch
<1>8. NewestIsAsked'
  BY <1>2, <1>4 DEF NewestIsAsked, Matches, LeftOnShow
<1>9. QED
  BY <1>6, <1>7, <1>8

\* A load that ends: what is on show afterwards is its answer, or it failed.
LEMMA AskedEnd ==
    ASSUME AskedInv, HistoryTypeOK', NEW r \in loads,
           loads' = loads \ {r}, Newest(r), UNCHANGED <<filters, due, sent>>,
           r.n = sent /\ Matches(r) => LeftOnShow',
           r.n < answered => LeftOnShow'
    PROVE  AskedInv'
<1> USE DEF AskedInv
<1>1. /\ sent \in Nat /\ answered \in Nat /\ \A q \in loads : q.n \in Nat
      /\ answered' = IF r.n > answered THEN r.n ELSE answered
  BY DEF HistoryTypeOK, Load, Newest
<1>2. LoadsNumbered'
  BY <1>1 DEF LoadsNumbered
<1>3. AnswersMatch'
  BY DEF AnswersMatch
<1>4. NewestIsAsked'
  <2> SUFFICES ASSUME ~due
               PROVE  \/ \E q \in loads' : q.n = sent /\ Matches(q)
                      \/ answered' = sent /\ LeftOnShow'
    BY DEF NewestIsAsked, Matches
  <2>1. CASE \E q \in loads : q.n = sent /\ Matches(q)
    <3>1. PICK q \in loads : q.n = sent /\ Matches(q)
      BY <2>1
    <3>2. CASE q = r
      BY <1>1, <3>1, <3>2 DEF LoadsNumbered
    <3>3. CASE q # r
      BY <3>1, <3>3
    <3>4. QED
      BY <3>2, <3>3
  <2>2. CASE answered = sent /\ LeftOnShow
    BY <1>1, <2>2 DEF LoadsNumbered
  <2>3. QED
    BY <2>1, <2>2 DEF NewestIsAsked
<1>5. QED
  BY <1>2, <1>3, <1>4

LEMMA AskedShow ==
    ASSUME AskedInv, HistoryTypeOK', NEW r \in loads, Show(r)
    PROVE  AskedInv'
<1>1. /\ loads' = loads \ {r} /\ Newest(r) /\ UNCHANGED <<filters, due, sent>>
      /\ data' = r.answer /\ r.answer # NoData /\ overtaken' = (r.n < answered)
  BY DEF Show
<1>2. Matches(r) => LeftOnShow'
  BY <1>1 DEF AskedInv, AnswersMatch, Matches, LeftOnShow
<1>3. r.n < answered => LeftOnShow'
  BY <1>1 DEF LeftOnShow
<1>4. QED
  BY <1>1, <1>2, <1>3, AskedEnd

LEMMA AskedLose ==
    ASSUME AskedInv, HistoryTypeOK', NEW r \in loads, Lose(r)
    PROVE  AskedInv'
<1>1. /\ loads' = loads \ {r} /\ Newest(r) /\ UNCHANGED <<filters, due, sent>>
      /\ failed' \/ forbidden'
  BY DEF Lose
<1>2. LeftOnShow'
  BY <1>1 DEF LeftOnShow
<1>3. QED
  BY <1>1, <1>2, AskedEnd

LEMMA InitAsked == HistoryInit => AskedInv
<1> SUFFICES ASSUME HistoryInit PROVE AskedInv
  OBVIOUS
<1>1. HistoryTypeOK
  BY InitType
<1>2. LoadsNumbered /\ AnswersMatch /\ NewestIsAsked
  BY DEF HistoryInit, LoadsNumbered, AnswersMatch, NewestIsAsked
<1>3. QED
  BY <1>1, <1>2 DEF AskedInv

LEMMA StepAsked == AskedInv /\ [HistoryNext]_historyVars => AskedInv'
<1> SUFFICES ASSUME AskedInv, [HistoryNext]_historyVars PROVE AskedInv'
  OBVIOUS
<1>1. HistoryTypeOK'
  BY StepType DEF AskedInv
<1>2. ASSUME NEW k \in Kinds, Recorded(k) PROVE AskedInv'
  BY <1>1, <1>2, AskedUntouched DEF Recorded, status, notes
<1>2a. ASSUME NEW D, SessionDeleted(D) PROVE AskedInv'
  BY <1>1, <1>2a, AskedUntouched DEF SessionDeleted, status, notes
<1>3. ASSUME NEW f, Ask(f) PROVE AskedInv'
  BY <1>1, <1>3, AskedUntouched DEF Ask, status, notes
<1>4. CASE \/ \E k \in Kinds \cup {Any} : Patch(k)
           \/ Prev \/ NextPage \/ \E p \in 1..MaxRuns : GoToPage(p)
  BY <1>3, <1>4 DEF Patch, Prev, NextPage, GoToPage
<1>5. CASE Settle \/ Refresh \/ Retry
  BY <1>1, <1>5, AskedSend DEF Settle, Refresh, Retry
<1>6. ASSUME NEW r \in loads, ReadStep(r) \/ Show(r) \/ Lose(r) PROVE AskedInv'
  BY <1>1, <1>6, AskedRead, AskedShow, AskedLose
<1>7. CASE UNCHANGED historyVars
  BY <1>1, <1>7, AskedUntouched DEF historyVars, status, notes
<1>8. QED
  BY <1>2, <1>2a, <1>4, <1>5, <1>6, <1>7 DEF HistoryNext, ReadStep

\* When every load has been answered, the page shows what its filters ask for, or
\* says that it could not; but for an answer that came after a newer one
\* (AdminRunsPage.load).
THEOREM ShownIsAlwaysAsked == HistorySpec => []ShownIsAsked
<1>1. AskedInv => ShownIsAsked
  BY DEF AskedInv, NewestIsAsked, LeftOnShow, ShownIsAsked
<1>2. QED
  BY <1>1, InitAsked, StepAsked, PTL DEF HistorySpec

USE ConsoleAssumption, PortalAssumption, PickerAssumption

-----------------------------------------------------------------------------
\* The health page.  Loads of events are numbered as they are sent, and the newest
\* is of the focus of now, in flight or arrived, unless a reset asked for another.
EventsNumbered ==
    /\ asked \in Nat /\ events.n \in Nat /\ events.n <= asked
    /\ \A r \in eventLoads : r.n \in Nat /\ r.n <= asked

NewestOfFocus ==
    ~outdated => /\ \A r \in eventLoads : r.n = asked => r.of = focus
                 /\ events.n = asked => events.of = focus

EventsInv == EventsNumbered /\ NewestOfFocus

\* While resets did not overlap there is one at most.
OneReset == ~crossed => \A r, q \in Live : r = q

ResetsTyped == \A r \in resets : /\ r = [n |-> r.n, of |-> r.of, stage |-> r.stage, focus |-> r.focus]
                                 /\ r.of \in Circuits
                                 /\ r.stage \in {"sent", "done", "abandoned"}

ResetsInv == ResetsTyped /\ OneReset /\ LockMeansReset

LEMMA InitEvents == ConsoleInit => EventsInv
BY DEF ConsoleInit, EventsInv, EventsNumbered, NewestOfFocus

LEMMA AskKeepsEvents ==
    ASSUME EventsInv, NEW f, AskEvents(f), UNCHANGED events,
           ~outdated' => f = focus'
    PROVE  EventsInv'
<1> DEFINE r0 == [n |-> asked + 1, of |-> f]
<1>1. /\ asked' = asked + 1 /\ eventLoads' = eventLoads \cup {r0}
      /\ r0.n = asked + 1 /\ r0.of = f
  BY DEF AskEvents
<1> HIDE DEF r0
<1>2. EventsNumbered'
  BY <1>1 DEF EventsInv, EventsNumbered
<1>3. NewestOfFocus'
  BY <1>1 DEF EventsInv, EventsNumbered, NewestOfFocus
<1>4. QED
  BY <1>2, <1>3 DEF EventsInv

LEMMA StepEvents == EventsInv /\ [ConsoleNext]_consoleVars => EventsInv'
<1> SUFFICES ASSUME EventsInv, [ConsoleNext]_consoleVars PROVE EventsInv'
  OBVIOUS
<1>1. ASSUME UNCHANGED log PROVE EventsInv'
  BY <1>1 DEF log, EventsInv, EventsNumbered, NewestOfFocus
<1>2. ASSUME NEW c \in Circuits, MarkHealthy(c) PROVE EventsInv'
  BY <1>1, <1>2 DEF MarkHealthy
<1>3. ASSUME NEW c \in Circuits, NEW s \in States, Traffic(c, s) PROVE EventsInv'
  BY <1>1, <1>3 DEF Traffic
<1>4. CASE Tick
  BY <1>1, <1>4 DEF Tick
<1>5. ASSUME NEW i \in Slots, ReadStatus(i) \/ ShowStatus(i) \/ LoseStatus(i) PROVE EventsInv'
  BY <1>1, <1>5 DEF ReadStatus, ShowStatus, LoseStatus
<1>6. ASSUME NEW f, Focus(f) PROVE EventsInv'
  BY <1>6, AskKeepsEvents DEF Focus
<1>7. ASSUME NEW r \in eventLoads, ShowEvents(r) PROVE EventsInv'
  <2>1. /\ eventLoads' = eventLoads \ {r} /\ events'.of = r.of /\ events'.n = r.n
        /\ UNCHANGED <<focus, asked, outdated>>
    BY <1>7 DEF ShowEvents
  <2>2. QED
    BY <2>1 DEF EventsInv, EventsNumbered, NewestOfFocus
<1>8. ASSUME NEW r \in eventLoads, LoseEvents(r) PROVE EventsInv'
  BY <1>8 DEF LoseEvents, EventsInv, EventsNumbered, NewestOfFocus
<1>9. ASSUME NEW r \in resets, ResetCircuit(r) \/ ResetFailed(r) PROVE EventsInv'
  BY <1>1, <1>9 DEF ResetCircuit, ResetFailed
<1>10. ASSUME NEW r \in resets, ResetSucceeded(r) PROVE EventsInv'
  BY <1>10, AskKeepsEvents DEF ResetSucceeded
<1>11. CASE UNCHANGED consoleVars
  BY <1>1, <1>11 DEF consoleVars
<1>12. QED
  BY <1>2, <1>3, <1>4, <1>5, <1>6, <1>7, <1>8, <1>9, <1>10, <1>11 DEF ConsoleNext

-----------------------------------------------------------------------------
LEMMA InitResets == ConsoleInit => ResetsInv
BY DEF ConsoleInit, ResetsInv, ResetsTyped, OneReset, LockMeansReset, Live

\* A live reset ends: the button is released, and no other was live unless resets
\* overlapped.
LEMMA EndKeepsResets ==
    ASSUME ResetsInv, NEW r \in Live, Live' = Live \ {r}, ResetsTyped',
           busy' = All, UNCHANGED crossed
    PROVE  ResetsInv'
BY DEF ResetsInv, OneReset, LockMeansReset

LEMMA StepResets == ResetsInv /\ [ConsoleNext]_consoleVars => ResetsInv'
<1> SUFFICES ASSUME ResetsInv, [ConsoleNext]_consoleVars PROVE ResetsInv'
  OBVIOUS
<1>1. ASSUME UNCHANGED <<busy, resets, crossed>> PROVE ResetsInv'
  BY <1>1 DEF ResetsInv, ResetsTyped, OneReset, LockMeansReset, Live
<1>2. ASSUME NEW c \in Circuits, MarkHealthy(c) PROVE ResetsInv'
  <2> DEFINE r0 == [n |-> clicks', of |-> c, stage |-> "sent", focus |-> focus]
  <2>1. busy' = c /\ resets' = resets \cup {r0} /\ crossed' = (Live # {})
    BY <1>2 DEF MarkHealthy
  <2>2. r0.of = c /\ r0.stage = "sent"
        /\ r0 = [n |-> r0.n, of |-> r0.of, stage |-> r0.stage, focus |-> r0.focus]
    OBVIOUS
  <2> HIDE DEF r0
  <2>3. Live' = Live \cup {r0}
    BY <2>1, <2>2 DEF Live
  <2>4. ResetsTyped'
    BY <2>1, <2>2 DEF ResetsInv, ResetsTyped
  <2>5. OneReset' /\ LockMeansReset'
    BY <2>1, <2>2, <2>3 DEF OneReset, LockMeansReset
  <2>6. QED
    BY <2>4, <2>5 DEF ResetsInv
<1>3. ASSUME NEW c \in Circuits, NEW s \in States, Traffic(c, s) PROVE ResetsInv'
  BY <1>1, <1>3 DEF Traffic, marks
<1>4. CASE Tick
  BY <1>1, <1>4 DEF Tick, marks
<1>5. ASSUME NEW i \in Slots, ReadStatus(i) \/ ShowStatus(i) \/ LoseStatus(i) PROVE ResetsInv'
  BY <1>1, <1>5 DEF ReadStatus, ShowStatus, LoseStatus, marks
<1>6. ASSUME NEW f, Focus(f) PROVE ResetsInv'
  BY <1>1, <1>6 DEF Focus
<1>7. ASSUME NEW r \in eventLoads, ShowEvents(r) \/ LoseEvents(r) PROVE ResetsInv'
  BY <1>1, <1>7 DEF ShowEvents, LoseEvents, marks
<1>8. ASSUME NEW r \in resets, ResetCircuit(r) PROVE ResetsInv'
  <2> DEFINE r1 == [r EXCEPT !.stage = "done"]
  <2>1. UNCHANGED <<busy, crossed>>
    BY <1>8 DEF ResetCircuit
  <2>2. /\ r1.of = r.of /\ r1.stage = "done" /\ r.of \in Circuits
        /\ r1 = [n |-> r1.n, of |-> r1.of, stage |-> r1.stage, focus |-> r1.focus]
    BY DEF ResetsInv, ResetsTyped
  <2>3. CASE r.stage = "sent"
    <3>1. resets' = (resets \ {r}) \cup {r1}
      BY <1>8, <2>3 DEF ResetCircuit
    <3> HIDE DEF r1
    <3>2. r \in Live /\ Live' = (Live \ {r}) \cup {r1}
      BY <2>2, <2>3, <3>1 DEF Live
    <3>3. ResetsTyped'
      BY <2>2, <3>1 DEF ResetsInv, ResetsTyped
    <3>4. OneReset' /\ LockMeansReset'
      BY <2>1, <2>2, <3>2 DEF ResetsInv, OneReset, LockMeansReset
    <3>5. QED
      BY <3>3, <3>4 DEF ResetsInv
  <2>4. CASE r.stage # "sent"
    <3>1. resets' = resets \ {r} /\ r.stage = "abandoned"
      BY <1>8, <2>4 DEF ResetCircuit, ResetsInv, ResetsTyped
    <3>2. Live' = Live
      BY <3>1 DEF Live
    <3>3. QED
      BY <2>1, <3>1, <3>2 DEF ResetsInv, ResetsTyped, OneReset, LockMeansReset
  <2>5. QED
    BY <2>3, <2>4
<1>9. ASSUME NEW r \in resets, ResetSucceeded(r) PROVE ResetsInv'
  <2>1. r.stage = "done" /\ resets' = resets \ {r} /\ busy' = All /\ UNCHANGED crossed
    BY <1>9 DEF ResetSucceeded
  <2>2. r \in Live /\ Live' = Live \ {r}
    BY <2>1 DEF Live
  <2>3. ResetsTyped'
    BY <2>1 DEF ResetsInv, ResetsTyped
  <2>4. QED
    BY <2>1, <2>2, <2>3, EndKeepsResets
<1>10. ASSUME NEW r \in resets, ResetFailed(r) PROVE ResetsInv'
  <2> DEFINE r1 == [r EXCEPT !.stage = "abandoned"]
  <2>1. /\ r \in Live /\ busy' = All /\ UNCHANGED crossed
        /\ resets' = (resets \ {r}) \cup (IF r.stage = "sent" THEN {r1} ELSE {})
    BY <1>10 DEF ResetFailed
  <2>2. /\ r1.of = r.of /\ r1.stage = "abandoned" /\ r.of \in Circuits
        /\ r1 = [n |-> r1.n, of |-> r1.of, stage |-> r1.stage, focus |-> r1.focus]
    BY DEF ResetsInv, ResetsTyped
  <2> HIDE DEF r1
  <2>3. Live' = Live \ {r}
    BY <2>1, <2>2 DEF Live
  <2>4. ResetsTyped'
    BY <2>1, <2>2 DEF ResetsInv, ResetsTyped
  <2>5. QED
    BY <2>1, <2>3, <2>4, EndKeepsResets
<1>11. CASE UNCHANGED consoleVars
  BY <1>1, <1>11 DEF consoleVars, marks
<1>12. QED
  BY <1>2, <1>3, <1>4, <1>5, <1>6, <1>7, <1>8, <1>9, <1>10, <1>11 DEF ConsoleNext

-----------------------------------------------------------------------------
\* The portal.  The prediction in flight is the last one.
RunKept == calls \subseteq {presses} /\ LastRunIsShown

\* Unless a prediction was started while a trace was sought, traces sought and shown
\* are of the outcome on show, and there is none while a prediction is in flight.
TraceKept ==
    ~early => /\ calls # {} => traces = {} /\ trace = 0
              /\ \A n \in traces : n = outcome
              /\ trace # 0 => trace = outcome

PicksTyped == \A p \in picks : p.files \in Seq(Images) /\ p.files # <<>>
PicksInv   == PicksTyped /\ ImagesKept

PanelInv  == RunKept /\ TraceKept
PortalInv == PanelInv /\ PicksInv

LEMMA InitPortal == PortalInit => PortalInv
BY DEF PortalInit, PickerInit, PortalInv, PanelInv, RunKept, LastRunIsShown, TraceKept,
       PicksInv, PicksTyped, ImagesKept

LEMMA PortalUntouched ==
    ASSUME PortalInv, UNCHANGED <<panel, past, field>>
    PROVE  PortalInv'
BY DEF PortalInv, PanelInv, RunKept, LastRunIsShown, TraceKept, PicksInv, PicksTyped, ImagesKept,
       panel, past, field, pickerVars

LEMMA PanelOnly ==
    ASSUME PortalInv, UNCHANGED field, PanelInv'
    PROVE  PortalInv'
BY DEF PortalInv, PicksInv, PicksTyped, ImagesKept, field, pickerVars

\* Leaving a panel, and opening one.
LEMMA RemountKeeps ==
    ASSUME PortalInv, Remount
    PROVE  PortalInv'
<1>1. CASE View = "detail" /\ View' = "detail" /\ chosen' = chosen
  BY <1>1, PortalUntouched DEF Remount
<1>2. CASE ~(View = "detail" /\ View' = "detail" /\ chosen' = chosen)
  <2>1. /\ calls' = {} /\ outcome' = 0 /\ problem' = 0 /\ trace' = 0 /\ traces' = {}
        /\ lost' = lost \cup calls \cup {outcome, problem}
        /\ wanted' = images' /\ picks' = {} /\ UNCHANGED <<presses, early>>
    BY <1>2 DEF Remount
  <2>2. PanelInv'
    BY <2>1 DEF PortalInv, PanelInv, RunKept, LastRunIsShown, TraceKept
  <2>3. PicksInv'
    BY <2>1 DEF PicksInv, PicksTyped, ImagesKept
  <2>4. QED
    BY <2>2, <2>3 DEF PortalInv
<1>3. QED
  BY <1>1, <1>2

LEMMA PredictKeeps ==
    ASSUME PortalInv, Predict
    PROVE  PortalInv'
<1>1. /\ presses' = presses + 1 /\ calls' = {presses'} /\ outcome' = 0 /\ trace' = 0
      /\ early' = (traces # {}) /\ UNCHANGED traces /\ UNCHANGED field
  BY DEF Predict
<1>2. RunKept'
  BY <1>1 DEF RunKept, LastRunIsShown
<1>3. TraceKept'
  BY <1>1 DEF TraceKept
<1>4. QED
  BY <1>1, <1>2, <1>3, PanelOnly DEF PanelInv

LEMMA OutcomeKeeps ==
    ASSUME PortalInv, NEW n \in calls, Outcome(n)
    PROVE  PortalInv'
<1>1. /\ calls' = {} /\ outcome' = n /\ traces' \in {traces, traces \cup {n}}
      /\ UNCHANGED <<problem, trace>> /\ UNCHANGED past /\ UNCHANGED field
  BY DEF Outcome
<1>2. n = presses
  BY DEF PortalInv, PanelInv, RunKept
<1>3. RunKept'
  BY <1>1, <1>2 DEF RunKept, LastRunIsShown, past
<1>4. TraceKept'
  BY <1>1 DEF PortalInv, PanelInv, TraceKept, past
<1>5. QED
  BY <1>1, <1>3, <1>4, PanelOnly DEF PanelInv

LEMMA ProblemKeeps ==
    ASSUME PortalInv, NEW n \in calls, Problem(n)
    PROVE  PortalInv'
<1>1. /\ calls' = {} /\ problem' = n
      /\ UNCHANGED <<outcome, trace, traces>> /\ UNCHANGED past /\ UNCHANGED field
  BY DEF Problem
<1>2. n = presses
  BY DEF PortalInv, PanelInv, RunKept
<1>3. RunKept'
  BY <1>1, <1>2 DEF RunKept, LastRunIsShown, past
<1>4. TraceKept'
  BY <1>1 DEF PortalInv, PanelInv, TraceKept, past
<1>5. QED
  BY <1>1, <1>3, <1>4, PanelOnly DEF PanelInv

LEMMA TraceKeeps ==
    ASSUME PortalInv, NEW n \in traces, TraceFound(n) \/ TraceGivenUp(n)
    PROVE  PortalInv'
<1>1. /\ traces' = traces \ {n} /\ trace' \in {0, n}
      /\ UNCHANGED <<calls, outcome, problem>> /\ UNCHANGED past /\ UNCHANGED field
  BY DEF TraceFound, TraceGivenUp
<1>2. RunKept' /\ TraceKept'
  BY <1>1 DEF PortalInv, PanelInv, RunKept, LastRunIsShown, TraceKept, past
<1>3. QED
  BY <1>1, <1>2, PanelOnly DEF PanelInv

-----------------------------------------------------------------------------
\* The first of the files of a pick is what a field for one image holds.
LEMMA FirstOnly ==
    ASSUME NEW f \in Seq(Images), f # <<>>
    PROVE  Capped(SubSeq(f, 1, 1)) = <<f[1]>>
<1>1. Len(f) \in Nat /\ Len(f) >= 1
  OBVIOUS
<1>2. SubSeq(f, 1, 1) = <<f[1]>>
  <2>1. SubSeq(f, 1, 1) = [i \in 1..1 |-> f[i]]
    BY <1>1, SMTT(30)
  <2>2. <<f[1]>> = [i \in 1..1 |-> f[i]]
    OBVIOUS
  <2>3. QED
    BY <2>1, <2>2
<1>3. Len(<<f[1]>>) = 1
  OBVIOUS
<1>4. QED
  BY <1>2, <1>3 DEF Capped

LEMMA FieldKeeps ==
    ASSUME PortalInv, Field
    PROVE  PortalInv'
<1>1. UNCHANGED <<panel, past>>
  BY DEF Field
<1>2. PanelInv'
  BY <1>1 DEF PortalInv, PanelInv, RunKept, LastRunIsShown, TraceKept, panel, past
<1> SUFFICES PicksInv'
  BY <1>2 DEF PortalInv
<1> USE DEF PortalInv, PicksInv
<1>3. ASSUME NEW f \in Seq(Images), Pick(f) PROVE PicksInv'
  <2>1. f # <<>> /\ picks' = picks \cup {[base |-> images, files |-> f]}
        /\ UNCHANGED <<images, wanted, raced>>
    BY <1>3 DEF Pick
  <2>2. QED
    BY <2>1 DEF PicksTyped, ImagesKept
<1>4. ASSUME NEW p \in picks, Commit(p) PROVE PicksInv'
  <2>1. /\ picks' = picks \ {p} /\ images' = WithPicked(p.base, p.files)
        /\ wanted' = (IF Multi THEN Capped(wanted \o p.files) ELSE <<p.files[1]>>)
        /\ ~raced' => ~raced /\ p.base = images
    BY <1>4 DEF Commit
  <2>2. ASSUME ~raced' PROVE images' = wanted'
    <3>1. p.base = wanted
      BY <2>1, <2>2 DEF ImagesKept
    <3>2. CASE Multi
      BY <2>1, <3>1, <3>2 DEF WithPicked
    <3>3. CASE ~Multi
      BY <2>1, <3>3, FirstOnly DEF WithPicked, PicksTyped
    <3>4. QED
      BY <3>2, <3>3
  <2>3. PicksTyped'
    BY <2>1 DEF PicksTyped
  <2>4. QED
    BY <2>2, <2>3 DEF ImagesKept
<1>5. ASSUME NEW i, RemoveAt(i) PROVE PicksInv'
  BY <1>5 DEF RemoveAt, PicksTyped, ImagesKept
<1>6. CASE Clear
  BY <1>6 DEF Clear, PicksTyped, ImagesKept
<1>7. ASSUME NEW i \in Images, NEW j \in Images, Pick(<<i>>) \/ Pick(<<i, j>>) PROVE PicksInv'
  <2>1. <<i>> \in Seq(Images) /\ <<i, j>> \in Seq(Images)
    OBVIOUS
  <2>2. QED
    BY <1>3, <1>7, <2>1
<1>8. QED
  BY <1>4, <1>5, <1>6, <1>7 DEF Field

LEMMA StepPortal == PortalInv /\ [PortalNext]_portalVars => PortalInv'
<1> SUFFICES ASSUME PortalInv, [PortalNext]_portalVars PROVE PortalInv'
  OBVIOUS
<1>1. ASSUME NEW t \in Offers, Select(t) PROVE PortalInv'
  BY <1>1, RemountKeeps DEF Select
<1>2. ASSUME NEW t \in Offers, NEW s, Changed(t, s) PROVE PortalInv'
  BY <1>2, PortalUntouched DEF Changed
<1>3. CASE Refetch
  BY <1>3, PortalUntouched DEF Refetch
<1>4. ASSUME NEW i, ReadCatalog(i) PROVE PortalInv'
  BY <1>4, PortalUntouched DEF ReadCatalog
<1>5. ASSUME NEW i, ShowCatalog(i) \/ LoseCatalog(i) PROVE PortalInv'
  BY <1>5, RemountKeeps DEF ShowCatalog, LoseCatalog
<1>6. CASE Back
  BY <1>6, RemountKeeps DEF Back
<1>7. ASSUME NEW n \in calls, Outcome(n) \/ Problem(n) \/ NoValidAnswer(n) PROVE PortalInv'
  BY <1>7, OutcomeKeeps, ProblemKeeps DEF NoValidAnswer
<1>8. ASSUME NEW n \in traces, TraceFound(n) \/ TraceGivenUp(n) PROVE PortalInv'
  BY <1>8, TraceKeeps
<1>9. CASE UNCHANGED portalVars
  BY <1>9, PortalUntouched DEF portalVars
<1>10. QED
  BY <1>1, <1>2, <1>3, <1>4, <1>5, <1>6, <1>7, <1>8, <1>9, PredictKeeps, FieldKeeps DEF PortalNext

-----------------------------------------------------------------------------
\* The tabs.
TabsInv == EventsInv /\ ResetsInv /\ PortalInv

LEMMA InitTabs == TabsInit => TabsInv
BY InitEvents, InitResets, InitPortal DEF TabsInit, TabsInv

LEMMA StepTabs == TabsInv /\ [TabsNext]_tabsVars => TabsInv'
<1> SUFFICES ASSUME TabsInv, [TabsNext]_tabsVars PROVE TabsInv'
  OBVIOUS
<1>1. [ConsoleNext]_consoleVars /\ [PortalNext]_portalVars
  BY DEF TabsNext, tabsVars, GoTo
<1>2. QED
  BY <1>1, StepEvents, StepResets, StepPortal DEF TabsInv

LEMMA TabsCorrect == TabsSpec => []TabsInv
BY InitTabs, StepTabs, PTL DEF TabsSpec

\* The newest events on show are of the circuit the health page names
\* (ModelHealthPage.refreshEvents), whichever order they are answered in, unless a
\* reset was answered after the focus had moved.
THEOREM EventsAreOfTheirCircuit == TabsSpec => []EventsAreAsked
<1>1. TabsInv => EventsAreAsked
  BY DEF TabsInv, EventsInv, NewestOfFocus, EventsAreAsked
<1>2. QED
  BY <1>1, TabsCorrect, PTL

\* A "Mark healthy" button is locked only while its reset is out
\* (ModelHealthPage.markHealthy), and every reset locks its button if none overlapped.
THEOREM LocksAreOfResets == TabsSpec => []LockMeansReset
<1>1. TabsInv => LockMeansReset
  BY DEF TabsInv, ResetsInv
<1>2. QED
  BY <1>1, TabsCorrect, PTL

\* An image field holds what was picked and not removed (ImagePicker.onPick), unless
\* it changed while files were being read.
THEOREM PicksAreKept == TabsSpec => []ImagesKept
<1>1. TabsInv => ImagesKept
  BY DEF TabsInv, PortalInv, PicksInv
<1>2. QED
  BY <1>1, TabsCorrect, PTL

\* The trace on show is of the outcome on show (TryItPanel.run, fetchTrace), unless a
\* prediction was started while a trace was sought.
THEOREM TracesAreOfOutcomes == TabsSpec => []TraceOfOutcome
<1>1. TabsInv => TraceOfOutcome
  BY DEF TabsInv, PortalInv, PanelInv, TraceKept, TraceOfOutcome
<1>2. QED
  BY <1>1, TabsCorrect, PTL

\* A prediction's answer or error is shown (TryItPanel.run) unless its panel was left.
THEOREM RunsAreShown == TabsSpec => []LastRunIsShown
<1>1. TabsInv => LastRunIsShown
  BY DEF TabsInv, PortalInv, PanelInv, RunKept
<1>2. QED
  BY <1>1, TabsCorrect, PTL
=============================================================================
