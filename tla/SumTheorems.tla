---------------------------- MODULE SumTheorems -----------------------------
(***************************************************************************)
(* Sums over finite sets.  The sums of RateLimiter and SpendLedger are     *)
(* folds of FiniteSetsExt, which take an operator and choose an element at *)
(* each step; here the same running total is given for functions, with the *)
(* facts the proofs need: the choice does not matter, a sum of numbers is  *)
(* a number, and how sums compare.                                         *)
(***************************************************************************)
EXTENDS Naturals, FiniteSets, FiniteSetTheorems, WellFoundedInduction, TLAPS

\* Induction over the subsets of a finite set, for the set H of those of which a
\* fact holds.
LEMMA SubsetInduction ==
    ASSUME NEW S, IsFiniteSet(S), NEW H,
           \A s \in SUBSET S : (\A u \in SUBSET s : u # s => u \in H) => s \in H
    PROVE  SUBSET S \subseteq H
<1> DEFINE B == (SUBSET S) \ H
<1> SUFFICES ASSUME B # {} PROVE FALSE
  OBVIOUS
<1>1. IsWellFoundedOn(StrictSubsetOrdering(S), SUBSET S)
  <2>1. FiniteSubsetsOf(S) = SUBSET S
    BY FS_FiniteSubsetsOfFinite
  <2>2. IsWellFoundedOn(StrictSubsetOrdering(S), FiniteSubsetsOf(S))
    BY FS_StrictSubsetOrderingWellFounded
  <2>3. QED
    BY <2>1, <2>2, Zenon
<1>2. B \subseteq SUBSET S
  OBVIOUS
<1> HIDE DEF B
<1>3. \E m \in B : \A u \in B : ~(<<u, m>> \in StrictSubsetOrdering(S))
  BY <1>1, <1>2, WFMin
<1>4. PICK m \in B : \A u \in B : ~(<<u, m>> \in StrictSubsetOrdering(S))
  BY <1>3
<1>5. ASSUME NEW u \in SUBSET m, u # m PROVE u \in H
  <2>1. <<u, m>> \in StrictSubsetOrdering(S)
    BY <1>2, <1>5 DEF StrictSubsetOrdering
  <2>2. u \in SUBSET S
    BY <1>2
  <2>3. QED
    BY <1>4, <2>1, <2>2 DEF B
<1>6. QED
  BY <1>5 DEF B

\* The sum of w over S, as the fold computes it: f is the running total over the
\* subsets of S, each of which gives up the element chosen from it.
First(s) == CHOOSE x \in s : TRUE
SumAt(w, f, s) == IF s = {} THEN 0 ELSE w[First(s)] + f[s \ {First(s)}]
Sums(w, S, f) == f = [s \in SUBSET S |-> SumAt(w, f, s)]
Total(w, S) == (CHOOSE f : Sums(w, S, f))[S]

LEMMA FirstIn == ASSUME NEW s, s # {} PROVE First(s) \in s /\ s \ {First(s)} # s
BY DEF First

LEMMA SumsAt ==
    ASSUME NEW w, NEW S, NEW f, Sums(w, S, f)
    PROVE  \A s \in SUBSET S : f[s] = SumAt(w, f, s)
BY DEF Sums

\* Running totals of functions that agree are equal wherever both are defined.
LEMMA SumsAgree ==
    ASSUME NEW w, NEW v, NEW S, NEW T, NEW f, NEW g, IsFiniteSet(S), S \subseteq T,
           Sums(w, S, f), Sums(v, T, g), \A x \in S : w[x] = v[x]
    PROVE  \A s \in SUBSET S : f[s] = g[s]
<1>1. \A s \in SUBSET S : f[s] = SumAt(w, f, s)
  BY SumsAt
<1>2. \A s \in SUBSET T : g[s] = SumAt(v, g, s)
  BY SumsAt
<1> DEFINE H == {s \in SUBSET S : f[s] = g[s]}
<1>3. ASSUME NEW s \in SUBSET S, \A u \in SUBSET s : u # s => u \in H
      PROVE  s \in H
  <2>1. /\ f[s] = SumAt(w, f, s)
        /\ g[s] = SumAt(v, g, s)
    BY <1>1, <1>2
  <2>2. CASE s = {}
    BY <2>1, <2>2 DEF SumAt
  <2>3. CASE s # {}
    <3>1. First(s) \in S /\ s \ {First(s)} \in SUBSET s /\ s \ {First(s)} # s
      BY <2>3, FirstIn
    <3>2. f[s \ {First(s)}] = g[s \ {First(s)}]
      BY <1>3, <3>1
    <3>3. QED
      BY <2>1, <2>3, <3>1, <3>2 DEF SumAt
  <2>4. QED
    BY <2>2, <2>3
<1> HIDE DEF H
<1>4. SUBSET S \subseteq H
  BY <1>3, SubsetInduction
<1>5. QED
  BY <1>4 DEF H

\* There are running totals over every finite set.
LEMMA SumsExist ==
    ASSUME NEW w, NEW S, IsFiniteSet(S)
    PROVE  \E f : Sums(w, S, f)
<1> DEFINE H == {s \in SUBSET S : \E f : Sums(w, s, f)}
<1>1. ASSUME NEW m \in SUBSET S, \A u \in SUBSET m : u # m => u \in H
      PROVE  m \in H
  <2> DEFINE G(u) == CHOOSE f : Sums(w, u, f)
             at0(u) == IF u = {} THEN 0
                       ELSE w[First(u)] + G(u \ {First(u)})[u \ {First(u)}]
             F == [u \in SUBSET m |-> at0(u)]
  <2>1. \A u \in SUBSET m : u # m => Sums(w, u, G(u))
    BY <1>1
  <2>2. ASSUME NEW u \in SUBSET m, u # m PROVE at0(u) = G(u)[u]
    <3>1. G(u)[u] = SumAt(w, G(u), u)
      <4> HIDE DEF G
      <4>1. QED
        BY <2>1, <2>2, SumsAt
    <3>2. CASE u = {}
      BY <3>1, <3>2 DEF SumAt
    <3>3. CASE u # {}
      <4> DEFINE r == u \ {First(u)}
      <4>1. r \in SUBSET m /\ r # m /\ r \subseteq u
        BY <3>3, FirstIn
      <4>2. IsFiniteSet(r)
        BY <4>1, FS_Subset
      <4> HIDE DEF r, G
      <4>3. Sums(w, r, G(r)) /\ Sums(w, u, G(u))
        BY <2>1, <2>2, <4>1
      <4>4. G(r)[r] = G(u)[r]
        BY <4>1, <4>2, <4>3, SumsAgree
      <4>5. QED
        BY <3>1, <3>3, <4>4 DEF r, SumAt
    <3>4. QED
      BY <3>2, <3>3
  <2>3. \A u \in SUBSET m : u # m => F[u] = G(u)[u]
    BY <2>2
  <2>4. ASSUME NEW u \in SUBSET m PROVE at0(u) = SumAt(w, F, u)
    <3>1. CASE u = {}
      BY <3>1 DEF SumAt
    <3>2. CASE u # {}
      <4>1. u \ {First(u)} \in SUBSET m /\ u \ {First(u)} # m
        BY <3>2, FirstIn
      <4>2. at0(u) = w[First(u)] + G(u \ {First(u)})[u \ {First(u)}]
        BY <3>2
      <4> HIDE DEF F, G, at0
      <4>3. QED
        BY <2>3, <3>2, <4>1, <4>2 DEF SumAt
    <3>3. QED
      BY <3>1, <3>2
  <2>5. F = [u \in SUBSET m |-> SumAt(w, F, u)]
    <3> HIDE DEF at0
    <3>1. F = [u \in SUBSET m |-> at0(u)]
      OBVIOUS
    <3> HIDE DEF F
    <3>2. QED
      BY <2>4, <3>1
  <2> HIDE DEF F
  <2>6. Sums(w, m, F)
    BY <2>5 DEF Sums
  <2>7. QED
    BY <2>6
<1> HIDE DEF H
<1>2. SUBSET S \subseteq H
  BY <1>1, SubsetInduction
<1>3. QED
  BY <1>2 DEF H

\* Whatever running totals one takes, they give the total of every subset.
LEMMA TotalIs ==
    ASSUME NEW w, NEW v, NEW S, NEW s, NEW f, IsFiniteSet(s), s \subseteq S, Sums(w, S, f),
           \A x \in s : v[x] = w[x]
    PROVE  Total(v, s) = f[s]
<1> DEFINE g == CHOOSE h : Sums(v, s, h)
<1>1. Sums(v, s, g)
  BY SumsExist
<1>2. Total(v, s) = g[s]
  BY DEF Total
<1> HIDE DEF g
<1>3. g[s] = f[s]
  BY <1>1, SumsAgree
<1>4. QED
  BY <1>2, <1>3

LEMMA TotalAgrees ==
    ASSUME NEW w, NEW v, NEW S, IsFiniteSet(S), \A x \in S : w[x] = v[x]
    PROVE  Total(w, S) = Total(v, S)
<1>1. PICK f : Sums(w, S, f)
  BY SumsExist
<1>2. Total(v, S) = f[S] /\ Total(w, S) = f[S]
  BY <1>1, TotalIs
<1>3. QED
  BY <1>2

LEMMA TotalStep ==
    ASSUME NEW w, NEW S, IsFiniteSet(S)
    PROVE  Total(w, S) = IF S = {} THEN 0 ELSE w[First(S)] + Total(w, S \ {First(S)})
<1>1. PICK f : Sums(w, S, f)
  BY SumsExist
<1>2. f[S] = SumAt(w, f, S)
  BY <1>1, SumsAt
<1>3. S \ {First(S)} \subseteq S /\ IsFiniteSet(S \ {First(S)})
  BY FS_Subset
<1>4. Total(w, S) = f[S]
  BY <1>1, TotalIs
<1>5. Total(w, S \ {First(S)}) = f[S \ {First(S)}]
  BY <1>1, <1>3, TotalIs
<1>6. QED
  BY <1>2, <1>4, <1>5 DEF SumAt

\* A total of numbers is a number.
LEMMA TotalNat ==
    ASSUME NEW w, NEW S, IsFiniteSet(S), \A x \in S : w[x] \in Nat
    PROVE  Total(w, S) \in Nat
<1> DEFINE H == {s \in SUBSET S : Total(w, s) \in Nat}
<1>1. ASSUME NEW s \in SUBSET S, \A u \in SUBSET s : u # s => u \in H
      PROVE  s \in H
  <2>1. Total(w, s) = IF s = {} THEN 0 ELSE w[First(s)] + Total(w, s \ {First(s)})
    BY FS_Subset, TotalStep
  <2>2. CASE s = {}
    BY <2>1, <2>2
  <2>3. CASE s # {}
    <3>1. First(s) \in S /\ s \ {First(s)} \in SUBSET s /\ s \ {First(s)} # s
      BY <2>3, FirstIn
    <3>2. Total(w, s \ {First(s)}) \in Nat /\ w[First(s)] \in Nat
      BY <1>1, <3>1
    <3>3. QED
      BY <2>1, <2>3, <3>2
  <2>4. QED
    BY <2>2, <2>3
<1> HIDE DEF H
<1>2. SUBSET S \subseteq H
  BY <1>1, SubsetInduction
<1>3. QED
  BY <1>2 DEF H

\* The order of a sum does not matter: any of its elements may be taken out first.
LEMMA TotalWithout ==
    ASSUME NEW w, NEW S, IsFiniteSet(S), \A y \in S : w[y] \in Nat, NEW x \in S
    PROVE  Total(w, S) = w[x] + Total(w, S \ {x})
<1> DEFINE H == {s \in SUBSET S : \A y \in s : Total(w, s) = w[y] + Total(w, s \ {y})}
<1>1. ASSUME NEW s \in SUBSET S, \A u \in SUBSET s : u # s => u \in H
      PROVE  s \in H
  <2> SUFFICES ASSUME NEW y \in s PROVE Total(w, s) = w[y] + Total(w, s \ {y})
    OBVIOUS
  <2> DEFINE p == First(s)
  <2>1. p \in s
    BY FirstIn
  <2>2. IsFiniteSet(s) /\ IsFiniteSet(s \ {y, p})
    BY FS_Subset
  <2>3. Total(w, s) = w[p] + Total(w, s \ {p})
    BY <2>1, <2>2, TotalStep
  <2> HIDE DEF p
  <2>4. CASE y = p
    BY <2>3, <2>4
  <2>5. CASE y # p
    <3>1. /\ y \in s \ {p} /\ p \in s \ {y}
          /\ (s \ {p}) \ {y} = s \ {y, p} /\ (s \ {y}) \ {p} = s \ {y, p}
      BY <2>1, <2>5
    <3>2. s \ {p} \in H /\ s \ {y} \in H
      BY <1>1, <2>1
    <3>3. Total(w, s \ {p}) = w[y] + Total(w, s \ {y, p})
      BY <3>1, <3>2
    <3>4. Total(w, s \ {y}) = w[p] + Total(w, s \ {y, p})
      BY <3>1, <3>2
    <3>5. w[y] \in Nat /\ w[p] \in Nat /\ Total(w, s \ {y, p}) \in Nat
      BY <2>1, <2>2, TotalNat
    <3>6. QED
      BY <2>3, <3>3, <3>4, <3>5
  <2>6. QED
    BY <2>4, <2>5
<1> HIDE DEF H
<1>2. S \in H
  BY <1>1, SubsetInduction
<1>3. QED
  BY <1>2 DEF H

LEMMA TotalEmpty == ASSUME NEW w PROVE Total(w, {}) = 0
<1>1. IsFiniteSet({})
  BY FS_EmptySet
<1>2. QED
  BY <1>1, TotalStep

\* A sum grows with its terms and with its set; terms outside may be zero.
LEMMA TotalDominated ==
    ASSUME NEW v, NEW w, NEW S, NEW T, IsFiniteSet(S), IsFiniteSet(T),
           \A x \in S : v[x] \in Nat, \A x \in T : w[x] \in Nat,
           \A x \in S : IF x \in T THEN v[x] <= w[x] ELSE v[x] = 0
    PROVE  Total(v, S) <= Total(w, T)
<1> DEFINE U == S \cup T
           H == {s \in SUBSET U : Total(v, S \cap s) <= Total(w, T \cap s)}
<1>1. ASSUME NEW s \in SUBSET U, \A u \in SUBSET s : u # s => u \in H
      PROVE  s \in H
  <2>1. CASE s = {}
    <3>1. S \cap s = {} /\ T \cap s = {}
      BY <2>1
    <3>2. Total(v, S \cap s) = 0 /\ Total(w, T \cap s) = 0
      BY <3>1, TotalEmpty
    <3>3. QED
      BY <3>2
  <2>2. CASE s # {}
    <3> DEFINE p == First(s)
               rest == s \ {p}
    <3>1. p \in s /\ rest \in SUBSET s /\ rest # s
      BY <2>2, FirstIn
    <3>2. IsFiniteSet(S \cap s) /\ IsFiniteSet(T \cap s)
      BY FS_Subset
    <3>3. IsFiniteSet(S \cap rest) /\ IsFiniteSet(T \cap rest)
      BY FS_Subset
    <3>4. (S \cap s) \ {p} = S \cap rest /\ (T \cap s) \ {p} = T \cap rest
      OBVIOUS
    <3> HIDE DEF p
    <3>5. Total(v, S \cap rest) <= Total(w, T \cap rest)
      BY <1>1, <3>1
    <3>6. Total(v, S \cap rest) \in Nat /\ Total(w, T \cap rest) \in Nat
      BY <3>3, TotalNat
    <3> HIDE DEF rest
    <3>7. Total(v, S \cap s) = IF p \in S THEN v[p] + Total(v, S \cap rest)
                               ELSE Total(v, S \cap rest)
      <4>1. CASE p \in S
        BY <3>1, <3>2, <3>4, <4>1, TotalWithout
      <4>2. CASE p \notin S
        BY <3>4, <4>2
      <4>3. QED
        BY <4>1, <4>2
    <3>8. Total(w, T \cap s) = IF p \in T THEN w[p] + Total(w, T \cap rest)
                               ELSE Total(w, T \cap rest)
      <4>1. CASE p \in T
        BY <3>1, <3>2, <3>4, <4>1, TotalWithout
      <4>2. CASE p \notin T
        BY <3>4, <4>2
      <4>3. QED
        BY <4>1, <4>2
    <3>9. /\ p \in S => v[p] \in Nat /\ (p \in T => v[p] <= w[p]) /\ (p \notin T => v[p] = 0)
          /\ p \in T => w[p] \in Nat
      OBVIOUS
    <3>10. Total(v, S \cap s) <= Total(w, T \cap s)
      BY <3>5, <3>6, <3>7, <3>8, <3>9
    <3>11. QED
      BY <3>10
  <2>3. QED
    BY <2>1, <2>2
<1> HIDE DEF H
<1>2. IsFiniteSet(U)
  BY FS_Union
<1> HIDE DEF U
<1>3. U \in H
  BY <1>1, <1>2, SubsetInduction
<1>4. S \cap U = S /\ T \cap U = T
  BY DEF U
<1>5. QED
  BY <1>3, <1>4 DEF H

\* A sum over a union is at most the two sums.
LEMMA TotalCovered ==
    ASSUME NEW w, NEW A, NEW B, IsFiniteSet(A), IsFiniteSet(B),
           \A x \in A \cup B : w[x] \in Nat
    PROVE  Total(w, A \cup B) <= Total(w, A) + Total(w, B)
<1> DEFINE H == {b \in SUBSET B : Total(w, A \cup b) <= Total(w, A) + Total(w, b)}
<1>1. ASSUME NEW b \in SUBSET B, \A u \in SUBSET b : u # b => u \in H
      PROVE  b \in H
  <2>1. Total(w, A) \in Nat
    BY TotalNat
  <2>2. CASE b = {}
    <3>1. A \cup b = A /\ Total(w, b) = 0
      BY <2>2, TotalEmpty
    <3>2. QED
      BY <2>1, <3>1
  <2>3. CASE b # {}
    <3> DEFINE p == First(b)
               rest == b \ {p}
    <3>1. p \in b /\ rest \in SUBSET b /\ rest # b
      BY <2>3, FirstIn
    <3>2. IsFiniteSet(b) /\ IsFiniteSet(rest)
      BY FS_Subset
    <3>3. IsFiniteSet(A \cup b) /\ IsFiniteSet(A \cup rest)
      BY <3>2, FS_Union
    <3> HIDE DEF p
    <3>4. Total(w, A \cup rest) <= Total(w, A) + Total(w, rest)
      BY <1>1, <3>1
    <3>5. w[p] \in Nat /\ Total(w, rest) \in Nat /\ Total(w, A \cup rest) \in Nat
      <4>1. w[p] \in Nat
        BY <3>1
      <4>2. QED
        BY <3>2, <3>3, <4>1, TotalNat
    <3>6. Total(w, b) = w[p] + Total(w, rest)
      BY <3>1, <3>2, TotalWithout
    <3>7. CASE p \in A
      <4>1. A \cup b = A \cup rest
        BY <3>1, <3>7
      <4>2. Total(w, A \cup b) = Total(w, A \cup rest)
        BY <4>1
      <4> HIDE DEF rest
      <4>3. QED
        BY <2>1, <3>4, <3>5, <3>6, <4>2
    <3>8. CASE p \notin A
      <4>1. (A \cup b) \ {p} = A \cup rest /\ p \in A \cup b
        BY <3>1, <3>8
      <4>2. Total(w, A \cup b) = w[p] + Total(w, (A \cup b) \ {p})
        BY <3>3, <4>1, TotalWithout
      <4>3. QED
        BY <2>1, <3>4, <3>5, <3>6, <4>1, <4>2
    <3>9. QED
      BY <3>7, <3>8
  <2>4. QED
    BY <2>2, <2>3
<1> HIDE DEF H
<1>2. B \in H
  BY <1>1, SubsetInduction
<1>3. QED
  BY <1>2 DEF H

\* A sum of terms of at most c.
LEMMA TotalAtMost ==
    ASSUME NEW w, NEW S, NEW c \in Nat, IsFiniteSet(S),
           \A x \in S : w[x] \in Nat /\ w[x] <= c
    PROVE  Total(w, S) <= Cardinality(S) * c
<1> DEFINE H == {s \in SUBSET S : Total(w, s) <= Cardinality(s) * c}
<1>1. ASSUME NEW s \in SUBSET S, \A u \in SUBSET s : u # s => u \in H
      PROVE  s \in H
  <2>1. CASE s = {}
    <3>1. Total(w, s) = 0 /\ Cardinality(s) = 0
      BY <2>1, TotalEmpty, FS_EmptySet
    <3>2. QED
      BY <3>1
  <2>2. CASE s # {}
    <3> DEFINE p == First(s)
               rest == s \ {p}
    <3>1. p \in s /\ rest \in SUBSET s /\ rest # s
      BY <2>2, FirstIn
    <3>2. IsFiniteSet(s) /\ IsFiniteSet(rest)
      BY FS_Subset
    <3> HIDE DEF p
    <3>3. Total(w, rest) <= Cardinality(rest) * c
      BY <1>1, <3>1
    <3>4. w[p] \in Nat /\ w[p] <= c
      BY <3>1
    <3>5. Total(w, rest) \in Nat
      BY <3>2, TotalNat
    <3>6. Total(w, s) = w[p] + Total(w, rest)
      BY <3>1, <3>2, TotalWithout
    <3>7. Cardinality(rest) = Cardinality(s) - 1 /\ Cardinality(rest) \in Nat
          /\ Cardinality(s) \in Nat
      BY <3>1, <3>2, FS_RemoveElement, FS_CardinalityType
    <3>8. Cardinality(s) * c = Cardinality(rest) * c + c
      <4>1. \A n \in Nat : (n + 1) * c = n * c + c
        OBVIOUS
      <4>2. Cardinality(s) = Cardinality(rest) + 1
        BY <3>7
      <4>3. QED
        BY <3>7, <4>1, <4>2
    <3>9. Cardinality(rest) * c \in Nat
      BY <3>7
    <3>10. Total(w, s) <= Cardinality(s) * c
      BY <3>3, <3>4, <3>5, <3>6, <3>8, <3>9
    <3>11. QED
      BY <3>10
  <2>3. QED
    BY <2>1, <2>2
<1> HIDE DEF H
<1>2. S \in H
  BY <1>1, SubsetInduction
<1>3. QED
  BY <1>2 DEF H
=============================================================================
