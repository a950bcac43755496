------------------------ MODULE TaskRegistryProofs ------------------------
(***************************************************************************)
(* Proofs about TaskRegistry, for any clients, prompts, fields and bound   *)
(* on the version numbers.                                                 *)
(***************************************************************************)
EXTENDS TaskRegistry, TLAPS, FiniteSetTheorems, WellFoundedInduction

-----------------------------------------------------------------------------
(* The largest of a bounded set of naturals.                               *)

Less == {p \in Nat \X Nat : p[1] < p[2]}

LEMMA LessWellFounded == IsWellFoundedOn(Less, Nat)
  BY NatLessThanWellFounded DEF OpToRel, Less

\* Max is defined on a bounded set that is not empty, and is what its name says.
LEMMA MaxIsLargest ==
  ASSUME NEW b \in Nat, NEW S \in SUBSET (0..b), S # {}
  PROVE  Max(S) \in S /\ \A k \in S : k <= Max(S)
<1> DEFINE T == {b - x : x \in S}
<1>1. T \subseteq Nat /\ T # {}
  <2>1. ASSUME NEW x \in S PROVE b - x \in Nat
    BY x \in 0..b
  <2>2. T \subseteq Nat
    BY <2>1
  <2>3. QED
    BY <2>2
<1>2. PICK t \in T : \A y \in T : ~(<<y, t>> \in Less)
  BY <1>1, LessWellFounded, WFMin
<1>3. ASSUME NEW y \in T PROVE t <= y
  <2>1. t \in Nat /\ y \in Nat
    BY <1>1
  <2>2. ~(<<y, t>> \in Less)
    BY <1>2
  <2> HIDE DEF T
  <2>3. QED
    BY <2>1, <2>2 DEF Less
<1>4. PICK m \in S : t = b - m
  OBVIOUS
<1>5. ASSUME NEW k \in S PROVE m >= k
  <2>1. t <= b - k
    BY <1>3
  <2>2. m \in 0..b /\ k \in 0..b
    OBVIOUS
  <2>3. QED
    BY <1>4, <2>1, <2>2
<1>6. \E x \in S : \A y \in S : x >= y
  BY <1>5
<1>7. Max(S) \in S /\ \A y \in S : Max(S) >= y
  BY <1>6 DEF Max
<1>8. QED
  <2>1. ASSUME NEW k \in S PROVE k <= Max(S)
    BY <1>7, k \in 0..b, Max(S) \in 0..b
  <2>2. QED
    BY <1>7, <2>1

-----------------------------------------------------------------------------
Holds(c) == pc[c] \in {"recording", "deleting"}

\* editMu has one holder.
OneHolder == \A c, d \in Clients : Holds(c) /\ Holds(d) => c = d

ResolvedHasRead == \A c \in Clients : pc[c] = "resolved" => seen[c] # NoTask

\* A task that does not exist has no versions.
NoOrphans == task = NoTask => versions = Empty

\* The task whose version is to be recorded is the row, and has no version yet.
RecordingLive == \A c \in Clients : pc[c] = "recording" =>
                     /\ task # NoTask /\ seen[c] = task
                     /\ ~unrecorded => versions[task.version] = NoPrompt

DeletingEmptied == \A c \in Clients : pc[c] = "deleting" =>
                       task # NoTask /\ versions = Empty /\ retired = Numbers

\* A number in use has stood for one prompt and is recorded, or live.
GivenOnce == ~unrecorded => \A n \in Numbers \ retired :
                 \/ given[n] = {}
                 \/ /\ \E p \in Prompts : given[n] = {p}
                    /\ versions[n] # NoPrompt \/ (task # NoTask /\ n = task.version)

IInv == /\ TypeOK
        /\ CacheCoherent
        /\ OneHolder
        /\ ResolvedHasRead
        /\ NoOrphans
        /\ RecordingLive
        /\ DeletingEmptied
        /\ LiveVersionRecorded
        /\ GivenOnce

USE RegistryAssumption DEF Numbers

LEMMA RawIsRow == ASSUME IInv PROVE Raw = task
  BY DEF IInv, CacheCoherent, Raw

LEMMA TaskHasFields ==
  ASSUME TypeOK, task # NoTask
  PROVE  /\ task \in Task
         /\ task.version \in Numbers /\ task.prompt \in Prompts /\ task.rest \in Rests
  BY DEF TypeOK, Task

LEMMA MaxVersionIsLargest ==
  ASSUME TypeOK
  PROVE  MaxVersion \in 0..Limit /\ \A k \in Recorded : k <= MaxVersion
<1>1. Recorded \cup {0} \in SUBSET (0..Limit) /\ Recorded \cup {0} # {}
  BY DEF Recorded
<1>2. QED
  BY <1>1, MaxIsLargest DEF MaxVersion

LEMMA NextVersionIsNew ==
  ASSUME TypeOK, NEW e \in Task
  PROVE  /\ NextVersion(e) \in Nat
         /\ e.version < NextVersion(e)
         /\ \A k \in Recorded : k < NextVersion(e)
<1>1. MaxVersion \in 0..Limit /\ \A k \in Recorded : k <= MaxVersion
  BY MaxVersionIsLargest
<1>2. e.version \in 1..Limit
  BY DEF Task
<1>3. {MaxVersion, e.version} \in SUBSET (0..Limit)
  BY <1>1, <1>2
<1> DEFINE m == Max({MaxVersion, e.version})
<1>4. m \in {MaxVersion, e.version} /\ \A k \in {MaxVersion, e.version} : k <= m
  BY <1>3, MaxIsLargest
<1>5. m \in 0..Limit /\ MaxVersion <= m /\ e.version <= m
  BY <1>3, <1>4
<1>6. NextVersion(e) = m + 1
  BY DEF NextVersion
<1> HIDE DEF m
<1>7. ASSUME NEW k \in Recorded PROVE k < NextVersion(e)
  <2>1. k \in Nat /\ k <= MaxVersion
    BY <1>1 DEF Recorded
  <2>2. QED
    BY <1>1, <1>5, <1>6, <2>1
<1>8. QED
  BY <1>2, <1>5, <1>6, <1>7

\* What an Update writes.
LEMMA UpdatedIsTask ==
  ASSUME NEW base \in Task, NEW body \in Body, NEW e \in Task,
         Updated(base, body, e).version \in Numbers
  PROVE  /\ Updated(base, body, e) \in Task
         /\ Updated(base, body, e).prompt = e.prompt => Updated(base, body, e).version = e.version
         /\ Updated(base, body, e).prompt # e.prompt => Updated(base, body, e).version = NextVersion(e)
<1> DEFINE t == Merge(base, body)
<1>1. t \in Task /\ t.prompt \in Prompts /\ t.rest \in Rests
  BY DEF Merge, Task, Body
<1>2. Updated(base, body, e) =
        [t EXCEPT !.version = IF t.prompt = e.prompt THEN e.version ELSE NextVersion(e)]
  BY DEF Updated
<1> HIDE DEF t
<1>3. QED
  BY <1>1, <1>2 DEF Task

-----------------------------------------------------------------------------
LEMMA InitIInv == ASSUME Init PROVE IInv
  BY DEF Init, IInv, TypeOK, CacheCoherent, OneHolder, Holds, ResolvedHasRead,
         NoOrphans, RecordingLive, DeletingEmptied, LiveVersionRecorded, GivenOnce, Empty

\* A step that neither writes the database nor changes who holds the lock.
LEMMA ReadOnlyStep ==
  ASSUME IInv, UNCHANGED <<db, history>>, cached' \in {task, NoTask},
         pc' \in [Clients -> {"idle", "resolved", "recording", "deleting"}],
         seen' \in [Clients -> Task \cup {NoTask}],
         \A c \in Clients :
             /\ Holds(c)' <=> Holds(c)
             /\ Holds(c) => pc'[c] = pc[c] /\ seen'[c] = seen[c]
             /\ pc'[c] = "resolved" => seen'[c] # NoTask
  PROVE  IInv'
<1> USE DEF db, history
<1>1. TypeOK'
  BY DEF IInv, TypeOK
<1>2. CacheCoherent' /\ ResolvedHasRead' /\ NoOrphans'
  BY DEF IInv, CacheCoherent, ResolvedHasRead, NoOrphans, Empty
<1>3. OneHolder'
  BY DEF IInv, OneHolder
<1>4. RecordingLive' /\ DeletingEmptied'
  BY DEF IInv, RecordingLive, DeletingEmptied, Holds, Empty
<1>5. Unlocked' <=> Unlocked
  BY DEF Unlocked, Holds
<1>6. LiveVersionRecorded' /\ GivenOnce'
  BY <1>5 DEF IInv, LiveVersionRecorded, GivenOnce
<1>7. QED
  BY <1>1, <1>2, <1>3, <1>4, <1>6 DEF IInv

LEMMA ResolveStep == ASSUME IInv, NEW c \in Clients, Resolve(c) PROVE IInv'
<1>1. Raw = task
  BY RawIsRow
<1>2. ASSUME NEW d \in Clients
      PROVE  /\ Holds(d)' <=> Holds(d)
             /\ Holds(d) => pc'[d] = pc[d] /\ seen'[d] = seen[d]
             /\ pc'[d] = "resolved" => seen'[d] # NoTask
  BY DEF IInv, TypeOK, ResolvedHasRead, Resolve, Holds
<1>3. /\ pc' \in [Clients -> {"idle", "resolved", "recording", "deleting"}]
      /\ seen' \in [Clients -> Task \cup {NoTask}]
      /\ cached' \in {task, NoTask}
      /\ UNCHANGED <<db, history>>
  BY <1>1 DEF IInv, TypeOK, Resolve
<1>4. QED
  BY <1>2, <1>3, ReadOnlyStep

LEMMA FinishStep == ASSUME IInv, NEW c \in Clients, Finish(c) PROVE IInv'
<1>1. ASSUME NEW d \in Clients
      PROVE  /\ Holds(d)' <=> Holds(d)
             /\ Holds(d) => pc'[d] = pc[d] /\ seen'[d] = seen[d]
             /\ pc'[d] = "resolved" => seen'[d] # NoTask
  BY DEF IInv, TypeOK, ResolvedHasRead, Finish, Done, Holds
<1>2. /\ pc' \in [Clients -> {"idle", "resolved", "recording", "deleting"}]
      /\ seen' \in [Clients -> Task \cup {NoTask}]
      /\ cached' \in {task, NoTask}
      /\ UNCHANGED <<db, history>>
  BY DEF IInv, TypeOK, CacheCoherent, Finish, Done
<1>3. QED
  BY <1>1, <1>2, ReadOnlyStep

LEMMA ExpireStep == ASSUME IInv, Expire PROVE IInv'
<1>1. ASSUME NEW d \in Clients
      PROVE  /\ Holds(d)' <=> Holds(d)
             /\ Holds(d) => pc'[d] = pc[d] /\ seen'[d] = seen[d]
             /\ pc'[d] = "resolved" => seen'[d] # NoTask
  BY DEF IInv, ResolvedHasRead, Expire, Holds
<1>2. /\ pc' \in [Clients -> {"idle", "resolved", "recording", "deleting"}]
      /\ seen' \in [Clients -> Task \cup {NoTask}]
      /\ cached' \in {task, NoTask}
      /\ UNCHANGED <<db, history>>
  BY DEF IInv, TypeOK, Expire
<1>3. QED
  BY <1>1, <1>2, ReadOnlyStep

LEMMA CreateStep == ASSUME IInv, NEW c \in Clients, NEW t \in Task, Create(c, t) PROVE IInv'
<1> USE DEF Create, ToRecord, Stamp, IInv
<1>0. t.version \in Numbers /\ t.prompt \in Prompts /\ t # NoTask
  BY DEF Task
<1>1. TypeOK'
  BY <1>0 DEF TypeOK
<1>2. CacheCoherent' /\ NoOrphans'
  BY <1>0 DEF CacheCoherent, NoOrphans
<1>3. OneHolder'
  BY DEF OneHolder, Holds, Unlocked, TypeOK
<1>4. ResolvedHasRead'
  BY DEF ResolvedHasRead, TypeOK
<1>5. RecordingLive'
  BY <1>0 DEF RecordingLive, Unlocked, TypeOK, NoOrphans, Empty
<1>6. DeletingEmptied'
  BY DEF DeletingEmptied, Unlocked, TypeOK
<1>7. LiveVersionRecorded'
  BY DEF LiveVersionRecorded, Unlocked, TypeOK
<1>8. GivenOnce'
  <2> SUFFICES ASSUME ~unrecorded, NEW n \in Numbers \ retired
               PROVE  \/ given'[n] = {}
                      \/ /\ \E p \in Prompts : given'[n] = {p}
                         /\ versions[n] # NoPrompt \/ n = t.version
    BY <1>0 DEF GivenOnce
  <2>1. given[n] = {}
    BY DEF GivenOnce, NoOrphans, Empty
  <2>2. given'[n] = IF n = t.version THEN {t.prompt} ELSE {}
    BY <1>0, <2>1 DEF TypeOK
  <2>3. QED
    BY <1>0, <2>2
<1>9. QED
  BY <1>1, <1>2, <1>3, <1>4, <1>5, <1>6, <1>7, <1>8

\* The number an Update gives a changed prompt is unused.
LEMMA UpdateStep ==
  ASSUME IInv, NEW c \in Clients, NEW body \in Body, Update(c, body)
  PROVE  IInv'
<1> DEFINE t == Updated(seen[c], body, task)
<1>0. Raw = task
  BY RawIsRow
<1>1. task # NoTask /\ task \in Task /\ seen[c] \in Task
  BY <1>0, TaskHasFields DEF IInv, TypeOK, ResolvedHasRead, Update
<1>2. /\ t \in Task
      /\ t.prompt = task.prompt => t.version = task.version
      /\ t.prompt # task.prompt => t.version = NextVersion(task)
  BY <1>0, <1>1, UpdatedIsTask DEF Update
<1>3. t.version \in Numbers /\ t.prompt \in Prompts /\ t # NoTask
  BY <1>2 DEF Task
<1>4. /\ pc[c] = "resolved" /\ Unlocked
      /\ task' = t /\ cached' = NoTask
      /\ UNCHANGED <<versions, retired, unrecorded>>
      /\ IF t.prompt # task.prompt THEN ToRecord(c, t) /\ Stamp(t.version, t.prompt)
                                   ELSE Done(c) /\ UNCHANGED given
  BY <1>0 DEF Update
<1>5. t.prompt # task.prompt =>
          versions[t.version] = NoPrompt /\ t.version # task.version
  <2>1. /\ task.version < NextVersion(task)
        /\ \A k \in Recorded : k < NextVersion(task)
        /\ NextVersion(task) \in Nat
    BY <1>1, NextVersionIsNew DEF IInv
  <2>2. NextVersion(task) \notin Recorded /\ task.version # NextVersion(task)
    BY <1>1, <2>1 DEF Recorded, Task
  <2>3. QED
    BY <1>2, <1>3, <2>2 DEF Recorded
<1> HIDE DEF t
<1>6. CASE t.prompt # task.prompt
  <2> USE <1>3, <1>4, <1>6 DEF IInv, ToRecord, Stamp
  <2>1. TypeOK'
    BY <1>2 DEF TypeOK
  <2>2. CacheCoherent' /\ NoOrphans'
    BY DEF CacheCoherent, NoOrphans
  <2>3. OneHolder'
    BY DEF OneHolder, Holds, Unlocked, TypeOK
  <2>4. ResolvedHasRead'
    BY DEF ResolvedHasRead, TypeOK
  <2>5. RecordingLive'
    BY <1>5 DEF RecordingLive, Unlocked, TypeOK
  <2>6. DeletingEmptied'
    BY DEF DeletingEmptied, Unlocked, TypeOK
  <2>7. LiveVersionRecorded'
    BY DEF LiveVersionRecorded, Unlocked, TypeOK
  <2>8. GivenOnce'
    <3> SUFFICES ASSUME ~unrecorded, NEW n \in Numbers \ retired
                 PROVE  \/ given'[n] = {}
                        \/ /\ \E p \in Prompts : given'[n] = {p}
                           /\ versions[n] # NoPrompt \/ n = t.version
      BY DEF GivenOnce
    <3>1. versions[task.version] = task.prompt /\ task.prompt \in Prompts
      BY <1>1, TaskHasFields DEF LiveVersionRecorded
    <3>2. CASE n = t.version
      <4>1. given[n] = {}
        BY <1>5, <3>2 DEF GivenOnce
      <4>2. given'[n] = {t.prompt}
        BY <3>2, <4>1 DEF TypeOK
      <4>3. QED
        BY <3>2, <4>2
    <3>3. CASE n # t.version
      <4>1. given'[n] = given[n]
        BY <3>3 DEF TypeOK
      <4>2. QED
        BY <3>1, <4>1 DEF GivenOnce
    <3>4. QED
      BY <3>2, <3>3
  <2>9. QED
    BY <2>1, <2>2, <2>3, <2>4, <2>5, <2>6, <2>7, <2>8
<1>7. CASE t.prompt = task.prompt
  <2> USE <1>3, <1>4, <1>7 DEF IInv, Done
  <2>0. t.version = task.version
    BY <1>2
  <2>1. TypeOK'
    BY <1>2 DEF TypeOK
  <2>2. CacheCoherent' /\ NoOrphans'
    BY DEF CacheCoherent, NoOrphans
  <2>3. OneHolder'
    BY DEF OneHolder, Holds, Unlocked, TypeOK
  <2>4. ResolvedHasRead'
    BY DEF ResolvedHasRead, TypeOK
  <2>5. RecordingLive' /\ DeletingEmptied'
    BY DEF RecordingLive, DeletingEmptied, Unlocked, TypeOK
  <2>6. LiveVersionRecorded'
    BY <1>1, <2>0 DEF LiveVersionRecorded
  <2>7. GivenOnce'
    BY <1>1, <2>0 DEF GivenOnce
  <2>8. QED
    BY <2>1, <2>2, <2>3, <2>4, <2>5, <2>6, <2>7
<1>8. QED
  BY <1>6, <1>7

LEMMA RecordStep == ASSUME IInv, NEW c \in Clients, Record(c) PROVE IInv'
<1> USE DEF Record, Done, IInv, history
<1>0. /\ task # NoTask /\ seen[c] = task /\ task \in Task
      /\ task.version \in Numbers /\ task.prompt \in Prompts
  BY TaskHasFields DEF RecordingLive
<1>1. TypeOK'
  BY <1>0 DEF TypeOK
<1>2. CacheCoherent' /\ NoOrphans'
  BY <1>0 DEF CacheCoherent, NoOrphans
<1>3. OneHolder'
  BY DEF OneHolder, Holds, TypeOK
<1>4. ResolvedHasRead'
  BY DEF ResolvedHasRead, TypeOK
<1>5. \A d \in Clients : pc'[d] \notin {"recording", "deleting"}
  BY DEF OneHolder, Holds, TypeOK
<1>6. RecordingLive' /\ DeletingEmptied'
  BY <1>5 DEF RecordingLive, DeletingEmptied
<1>7. LiveVersionRecorded'
  BY <1>0 DEF LiveVersionRecorded, TypeOK
<1>8. GivenOnce'
  <2>1. \A n \in Numbers : versions[n] # NoPrompt => versions'[n] # NoPrompt
    BY <1>0 DEF TypeOK
  <2>2. QED
    BY <1>0, <2>1 DEF GivenOnce
<1>9. QED
  BY <1>1, <1>2, <1>3, <1>4, <1>6, <1>7, <1>8

\* The steps that give up the lock and leave the database alone.
LEMMA RecordFailsStep == ASSUME IInv, NEW c \in Clients, RecordFails(c) PROVE IInv'
<1> USE DEF RecordFails, Done, IInv, db
<1>1. TypeOK'
  BY DEF TypeOK
<1>2. CacheCoherent' /\ NoOrphans' /\ OneHolder' /\ ResolvedHasRead'
  BY DEF CacheCoherent, NoOrphans, Empty, OneHolder, Holds, ResolvedHasRead, TypeOK
<1>3. \A d \in Clients : pc'[d] \notin {"recording", "deleting"}
  BY DEF OneHolder, Holds, TypeOK
<1>4. RecordingLive' /\ DeletingEmptied'
  BY <1>3 DEF RecordingLive, DeletingEmptied
<1>5. LiveVersionRecorded' /\ GivenOnce'
  BY DEF LiveVersionRecorded, GivenOnce
<1>6. QED
  BY <1>1, <1>2, <1>4, <1>5

LEMMA DeleteRowFailsStep == ASSUME IInv, NEW c \in Clients, DeleteRowFails(c) PROVE IInv'
<1> USE DEF DeleteRowFails, Done, IInv, db
<1>1. TypeOK'
  BY DEF TypeOK
<1>2. CacheCoherent' /\ NoOrphans' /\ OneHolder' /\ ResolvedHasRead'
  BY DEF CacheCoherent, NoOrphans, Empty, OneHolder, Holds, ResolvedHasRead, TypeOK
<1>3. \A d \in Clients : pc'[d] \notin {"recording", "deleting"}
  BY DEF OneHolder, Holds, TypeOK
<1>4. RecordingLive' /\ DeletingEmptied'
  BY <1>3 DEF RecordingLive, DeletingEmptied
<1>5. LiveVersionRecorded' /\ GivenOnce'
  BY DEF LiveVersionRecorded, GivenOnce
<1>6. QED
  BY <1>1, <1>2, <1>4, <1>5

LEMMA SaveDraftStep ==
  ASSUME IInv, NEW c \in Clients, NEW p \in Prompts, SaveDraft(c, p)
  PROVE  IInv'
<1> DEFINE n == MaxVersion + 1
<1>0. Raw = task
  BY RawIsRow
<1>1. /\ pc[c] = "resolved" /\ Unlocked /\ task # NoTask /\ n \in Numbers
      /\ versions' = [versions EXCEPT ![n] = p]
      /\ cached' = task /\ Stamp(n, p) /\ Done(c)
      /\ UNCHANGED <<task, retired, unrecorded>>
  BY <1>0 DEF SaveDraft
<1>2. task \in Task /\ task.version \in Numbers /\ task.prompt \in Prompts
  BY <1>1, TaskHasFields DEF IInv
<1>3. versions[n] = NoPrompt
  <2>1. MaxVersion \in 0..Limit /\ \A k \in Recorded : k <= MaxVersion
    BY MaxVersionIsLargest DEF IInv
  <2>2. n \notin Recorded
    BY <2>1
  <2>3. QED
    BY <1>1, <2>2 DEF Recorded
<1> HIDE DEF n
<1> USE <1>1, <1>2 DEF IInv, Stamp, Done
<1>4. TypeOK'
  BY DEF TypeOK
<1>5. CacheCoherent' /\ NoOrphans'
  BY DEF CacheCoherent, NoOrphans
<1>6. \A d \in Clients : pc'[d] \notin {"recording", "deleting"}
  BY DEF Unlocked, TypeOK
<1>7. OneHolder' /\ RecordingLive' /\ DeletingEmptied'
  BY <1>6 DEF OneHolder, Holds, RecordingLive, DeletingEmptied
<1>8. ResolvedHasRead'
  BY DEF ResolvedHasRead, TypeOK
<1>9. ~unrecorded => task.version # n
  BY <1>3 DEF LiveVersionRecorded
<1>10. LiveVersionRecorded'
  BY <1>9 DEF LiveVersionRecorded, TypeOK
<1>11. GivenOnce'
  <2> SUFFICES ASSUME ~unrecorded, NEW k \in Numbers \ retired
               PROVE  \/ given'[k] = {}
                      \/ /\ \E q \in Prompts : given'[k] = {q}
                         /\ versions'[k] # NoPrompt \/ k = task.version
    BY DEF GivenOnce
  <2>1. CASE k = n
    <3>1. given[k] = {}
      BY <1>3, <1>9, <2>1 DEF GivenOnce
    <3>2. given'[k] = {p} /\ versions'[k] = p
      BY <2>1, <3>1 DEF TypeOK
    <3>3. QED
      BY <3>2
  <2>2. CASE k # n
    <3>1. given'[k] = given[k] /\ versions'[k] = versions[k]
      BY <2>2 DEF TypeOK
    <3>2. QED
      BY <3>1 DEF GivenOnce
  <2>3. QED
    BY <2>1, <2>2
<1>12. QED
  BY <1>4, <1>5, <1>7, <1>8, <1>10, <1>11

LEMMA DeployStep ==
  ASSUME IInv, NEW c \in Clients, NEW n \in Numbers, Deploy(c, n)
  PROVE  IInv'
<1> USE DEF Deploy, Done, IInv, history
<1>0. /\ task \in Task /\ versions[n] \in Prompts
      /\ task.version \in Numbers /\ task.prompt \in Prompts
  BY TaskHasFields DEF TypeOK, Recorded
<1>1. /\ task' \in Task /\ task' # NoTask
      /\ task'.version = n /\ task'.prompt = versions[n]
  BY <1>0 DEF Task
<1>2. TypeOK'
  BY <1>1 DEF TypeOK
<1>3. CacheCoherent' /\ NoOrphans'
  BY <1>1 DEF CacheCoherent, NoOrphans
<1>4. \A d \in Clients : pc'[d] \notin {"recording", "deleting"}
  BY DEF Unlocked, TypeOK
<1>5. OneHolder' /\ RecordingLive' /\ DeletingEmptied'
  BY <1>4 DEF OneHolder, Holds, RecordingLive, DeletingEmptied
<1>6. ResolvedHasRead'
  BY DEF ResolvedHasRead, TypeOK
<1>7. LiveVersionRecorded'
  BY <1>1 DEF LiveVersionRecorded
<1>8. GivenOnce'
  <2>1. ~unrecorded => versions[task.version] # NoPrompt
    BY <1>0 DEF LiveVersionRecorded
  <2>2. QED
    BY <2>1 DEF GivenOnce
<1>9. QED
  BY <1>2, <1>3, <1>5, <1>6, <1>7, <1>8

LEMMA DeleteVersionStep ==
  ASSUME IInv, NEW c \in Clients, NEW n \in Numbers, DeleteVersion(c, n)
  PROVE  IInv'
<1> USE DEF DeleteVersion, Done, IInv
<1>0. Raw = task /\ task \in Task /\ task.version \in Numbers
  BY RawIsRow, TaskHasFields
<1>1. TypeOK'
  BY <1>0 DEF TypeOK
<1>2. CacheCoherent' /\ NoOrphans'
  BY <1>0 DEF CacheCoherent, NoOrphans
<1>3. \A d \in Clients : pc'[d] \notin {"recording", "deleting"}
  BY DEF Unlocked, TypeOK
<1>4. OneHolder' /\ RecordingLive' /\ DeletingEmptied'
  BY <1>3 DEF OneHolder, Holds, RecordingLive, DeletingEmptied
<1>5. ResolvedHasRead'
  BY DEF ResolvedHasRead, TypeOK
<1>6. LiveVersionRecorded'
  BY <1>0 DEF LiveVersionRecorded, TypeOK
<1>7. GivenOnce'
  <2>1. \A k \in Numbers \ {n} : versions'[k] = versions[k]
    BY DEF TypeOK
  <2>2. QED
    BY <2>1 DEF GivenOnce
<1>8. QED
  BY <1>1, <1>2, <1>4, <1>5, <1>6, <1>7

LEMMA DeleteStep == ASSUME IInv, NEW c \in Clients, Delete(c) PROVE IInv'
<1> USE DEF Delete, IInv
<1>0. Raw = task
  BY RawIsRow
<1>1. TypeOK'
  BY <1>0 DEF TypeOK, Empty
<1>2. CacheCoherent' /\ NoOrphans'
  BY <1>0 DEF CacheCoherent, NoOrphans, Empty
<1>3. OneHolder' /\ RecordingLive' /\ DeletingEmptied'
  BY <1>0 DEF OneHolder, Holds, RecordingLive, DeletingEmptied, Unlocked, TypeOK, Empty
<1>4. ResolvedHasRead'
  BY DEF ResolvedHasRead, TypeOK
<1>5. LiveVersionRecorded' /\ GivenOnce'
  BY DEF LiveVersionRecorded, GivenOnce, Unlocked, TypeOK
<1>6. QED
  BY <1>1, <1>2, <1>3, <1>4, <1>5

LEMMA DeleteRowStep == ASSUME IInv, NEW c \in Clients, DeleteRow(c) PROVE IInv'
<1> USE DEF DeleteRow, Done, IInv, history
<1>1. TypeOK'
  BY DEF TypeOK
<1>2. CacheCoherent' /\ NoOrphans'
  BY DEF CacheCoherent, NoOrphans, DeletingEmptied, Empty
<1>3. \A d \in Clients : pc'[d] \notin {"recording", "deleting"}
  BY DEF OneHolder, Holds, TypeOK
<1>4. OneHolder' /\ RecordingLive' /\ DeletingEmptied'
  BY <1>3 DEF OneHolder, Holds, RecordingLive, DeletingEmptied
<1>5. ResolvedHasRead'
  BY DEF ResolvedHasRead, TypeOK
<1>6. LiveVersionRecorded' /\ GivenOnce'
  BY DEF LiveVersionRecorded, GivenOnce, DeletingEmptied
<1>7. QED
  BY <1>1, <1>2, <1>4, <1>5, <1>6

\* Wherever the process ends, the backfill records the live version.
LEMMA RebootStep == ASSUME IInv, Reboot PROVE IInv'
<1> USE DEF Reboot, IInv, history
<1>0. task # NoTask => task \in Task /\ task.version \in Numbers /\ task.prompt \in Prompts
  BY TaskHasFields
<1>1. TypeOK'
  BY <1>0 DEF TypeOK
<1>2. CacheCoherent' /\ ResolvedHasRead' /\ OneHolder' /\ RecordingLive' /\ DeletingEmptied'
  BY DEF CacheCoherent, ResolvedHasRead, OneHolder, Holds, RecordingLive, DeletingEmptied
<1>3. NoOrphans'
  BY DEF NoOrphans, Empty
<1>4. ~unrecorded /\ task # NoTask =>
          versions[task.version] \in {NoPrompt, task.prompt}
  BY <1>0 DEF LiveVersionRecorded, Unlocked, RecordingLive, DeletingEmptied, Empty
<1>5. LiveVersionRecorded'
  BY <1>0, <1>4 DEF LiveVersionRecorded
<1>6. GivenOnce'
  <2>1. \A n \in Numbers : versions[n] # NoPrompt => versions'[n] # NoPrompt
    OBVIOUS
  <2>2. QED
    BY <2>1 DEF GivenOnce
<1>7. QED
  BY <1>1, <1>2, <1>3, <1>5, <1>6

LEMMA StepKeepsIInv == ASSUME IInv, [Next]_vars PROVE IInv'
<1>1. ASSUME NEW c \in Clients, Edit(c) PROVE IInv'
  BY <1>1, CreateStep, UpdateStep, RecordStep, RecordFailsStep, SaveDraftStep, DeployStep,
     DeleteVersionStep, DeleteStep, DeleteRowStep, DeleteRowFailsStep DEF Edit
<1>2. ASSUME NEW c \in Clients, Resolve(c) \/ Finish(c) PROVE IInv'
  BY <1>2, ResolveStep, FinishStep
<1>3. CASE Expire \/ Reboot
  BY <1>3, ExpireStep, RebootStep
<1>4. CASE UNCHANGED vars
  BY <1>4 DEF vars, IInv, TypeOK, CacheCoherent, OneHolder, Holds, ResolvedHasRead, NoOrphans,
              RecordingLive, DeletingEmptied, LiveVersionRecorded, GivenOnce, Unlocked, Empty
<1>5. QED
  BY <1>1, <1>2, <1>3, <1>4 DEF Next

\* The inductive invariant holds throughout.
THEOREM RegistryCorrect == Spec => []IInv
<1>1. Init => IInv
  BY InitIInv
<1>2. IInv /\ [Next]_vars => IInv'
  BY StepKeepsIInv
<1>3. QED
  BY <1>1, <1>2, PTL DEF Spec

\* The registry's variables keep their types.
THEOREM RegistryTypeCorrect == Spec => []TypeOK
<1>1. IInv => TypeOK
  BY DEF IInv
<1>2. QED
  BY <1>1, RegistryCorrect, PTL

\* Get never answers from memory with anything but the row.
THEOREM CacheIsCoherent == Spec => []CacheCoherent
<1>1. IInv => CacheCoherent
  BY DEF IInv
<1>2. QED
  BY <1>1, RegistryCorrect, PTL

\* Between edits and across crashes the live version is recorded.
THEOREM LiveVersionStaysRecorded == Spec => []LiveVersionRecorded
<1>1. IInv => LiveVersionRecorded
  BY DEF IInv
<1>2. QED
  BY <1>1, RegistryCorrect, PTL

\* No version number in use stands for two prompts.
THEOREM NumbersAreNotShared == Spec => []NumberMeansOnePrompt
<1>1. ASSUME IInv PROVE NumberMeansOnePrompt
  <2> SUFFICES ASSUME ~unrecorded, NEW n \in Numbers \ retired
               PROVE  Cardinality(given[n]) <= 1
    BY DEF NumberMeansOnePrompt
  <2>1. CASE given[n] = {}
    BY <2>1, FS_EmptySet
  <2>2. ASSUME NEW p \in Prompts, given[n] = {p} PROVE Cardinality(given[n]) <= 1
    <3>1. Cardinality({p}) = 1
      BY FS_Singleton
    <3>2. QED
      BY <2>2, <3>1
  <2>3. QED
    BY <1>1, <2>1, <2>2 DEF IInv, GivenOnce
<1>2. QED
  BY <1>1, RegistryCorrect, PTL

-----------------------------------------------------------------------------
(* The registry implements the ledger, under the mapping LiveBar, LedgerBar *)

LEMMA InitMaps == ASSUME Init PROVE Ledger!Init
  BY DEF Init, Ledger!Init, LiveBar, LedgerBar, Ledger!Empty, Empty

\* A task's live version and prompt tell it from NoTask.
LEMMA LiveBarIsPair ==
  ASSUME IInv, task # NoTask
  PROVE  LiveBar # NoTask /\ LiveBar.version = task.version /\ LiveBar.prompt = task.prompt
<1>1. LiveBar = [version |-> task.version, prompt |-> task.prompt]
  BY DEF LiveBar
<1>2. LiveBar \in [version : Numbers, prompt : Prompts]
  BY <1>1, TaskHasFields DEF IInv
<1>3. QED
  BY <1>1, <1>2, RegistryAssumption

LEMMA CreateRegisters ==
  ASSUME IInv, NEW c \in Clients, NEW t \in Task, Create(c, t)
  PROVE  Ledger!Register(t.version, t.prompt)
<1>1. t # NoTask /\ t.version \in Numbers /\ t.prompt \in Prompts
  BY DEF Task
<1>2. QED
  BY <1>1 DEF Create, Ledger!Register, LiveBar, LedgerBar

LEMMA UpdatePublishes ==
  ASSUME IInv, ~unrecorded, NEW c \in Clients, NEW body \in Body, Update(c, body)
  PROVE  \/ UNCHANGED <<LiveBar, LedgerBar>>
         \/ \E n \in Numbers, p \in Prompts : Ledger!Publish(n, p)
<1> DEFINE t == Updated(seen[c], body, task)
<1>0. Raw = task
  BY RawIsRow
<1>1. task # NoTask /\ task \in Task /\ seen[c] \in Task
  BY <1>0, TaskHasFields DEF IInv, TypeOK, ResolvedHasRead, Update
<1>2. /\ t \in Task
      /\ t.prompt = task.prompt => t.version = task.version
      /\ t.prompt # task.prompt => t.version = NextVersion(task)
  BY <1>0, <1>1, UpdatedIsTask DEF Update
<1>3. /\ t.version \in Numbers /\ t.prompt \in Prompts /\ t # NoTask
      /\ task.version \in Numbers /\ task.prompt \in Prompts
  BY <1>1, <1>2 DEF Task
<1>4. task' = t /\ versions' = versions /\ Unlocked
  BY <1>0 DEF Update
<1>5. versions[task.version] = task.prompt
  BY <1>1, <1>4 DEF IInv, LiveVersionRecorded
<1>6. /\ task.version < NextVersion(task)
      /\ \A k \in Recorded : k < NextVersion(task)
  BY <1>1, NextVersionIsNew DEF IInv
<1> HIDE DEF t
<1>7. LedgerBar = versions
  BY <1>1, <1>3, <1>5 DEF LedgerBar, IInv, TypeOK
<1>8. LedgerBar' = [versions EXCEPT ![t.version] = t.prompt]
  BY <1>3, <1>4 DEF LedgerBar, IInv, TypeOK
<1>9. CASE t.prompt = task.prompt
  BY <1>1, <1>2, <1>3, <1>4, <1>5, <1>7, <1>8, <1>9 DEF LiveBar, IInv, TypeOK
<1>10. CASE t.prompt # task.prompt
  <2>1. Ledger!New(t.version)
    BY <1>2, <1>3, <1>6, <1>7, <1>10 DEF Ledger!New, Ledger!Recorded, Recorded
  <2>2. Ledger!Publish(t.version, t.prompt)
    BY <1>1, <1>3, <1>4, <1>7, <1>8, <2>1 DEF Ledger!Publish, LiveBar
  <2>3. QED
    BY <1>3, <2>2
<1>11. QED
  BY <1>9, <1>10

LEMMA SaveDraftDrafts ==
  ASSUME IInv, ~unrecorded, NEW c \in Clients, NEW p \in Prompts, SaveDraft(c, p)
  PROVE  \E n \in Numbers : Ledger!Draft(n, p)
<1> DEFINE n == MaxVersion + 1
<1>0. Raw = task
  BY RawIsRow
<1>1. /\ Unlocked /\ task # NoTask /\ n \in Numbers /\ task' = task
      /\ versions' = [versions EXCEPT ![n] = p]
  BY <1>0 DEF SaveDraft
<1>2. task.version \in Numbers /\ task.prompt \in Prompts
  BY <1>1, TaskHasFields DEF IInv
<1>3. versions[task.version] = task.prompt
  BY <1>1 DEF IInv, LiveVersionRecorded
<1>4. MaxVersion \in 0..Limit /\ \A k \in Recorded : k <= MaxVersion
  BY MaxVersionIsLargest DEF IInv
<1>5. \A k \in Recorded : k < n
  BY <1>4 DEF Recorded
<1>6. task.version \in Recorded
  BY <1>2, <1>3 DEF Recorded
<1> HIDE DEF n
<1>7. LedgerBar = versions
  BY <1>2, <1>3 DEF LedgerBar, IInv, TypeOK
<1>8. task.version # n
  BY <1>1, <1>2, <1>5, <1>6
<1>9. LedgerBar' = [versions EXCEPT ![n] = p]
  BY <1>1, <1>2, <1>3, <1>8 DEF LedgerBar, IInv, TypeOK
<1>10. LiveBar # NoTask /\ LiveBar' = LiveBar
  BY <1>1, LiveBarIsPair DEF LiveBar
<1>11. Ledger!New(n)
  BY <1>1, <1>5, <1>7 DEF Ledger!New, Ledger!Recorded, Recorded
<1>12. Ledger!Draft(n, p)
  BY <1>7, <1>9, <1>10, <1>11 DEF Ledger!Draft
<1>13. QED
  BY <1>1, <1>12

LEMMA DeployActivates ==
  ASSUME IInv, ~unrecorded, NEW c \in Clients, NEW n \in Numbers, Deploy(c, n)
  PROVE  Ledger!Activate(n)
<1>1. /\ Unlocked /\ task # NoTask /\ versions' = versions
      /\ task' = [task EXCEPT !.version = n, !.prompt = versions[n]]
      /\ task \in Task /\ versions[n] \in Prompts /\ versions[n] # NoPrompt
  BY TaskHasFields DEF Deploy, IInv, TypeOK, Recorded
<1>2. task.version \in Numbers /\ versions[task.version] = task.prompt
  BY <1>1, TaskHasFields DEF IInv, LiveVersionRecorded
<1>3. task' # NoTask /\ task'.version = n /\ task'.prompt = versions[n]
  BY <1>1 DEF Task
<1>4. LedgerBar = versions /\ LedgerBar' = versions
  BY <1>1, <1>2, <1>3 DEF LedgerBar, IInv, TypeOK
<1>5. LiveBar # NoTask
  BY <1>1, LiveBarIsPair
<1>6. LiveBar' = [version |-> n, prompt |-> versions[n]]
  BY <1>3 DEF LiveBar
<1>7. QED
  BY <1>1, <1>4, <1>5, <1>6 DEF Ledger!Activate, Ledger!Recorded

LEMMA DeleteVersionPrunes ==
  ASSUME IInv, NEW c \in Clients, NEW n \in Numbers, DeleteVersion(c, n)
  PROVE  Ledger!Prune(n)
<1>1. /\ task # NoTask /\ task' = task /\ n # task.version /\ versions[n] # NoPrompt
      /\ versions' = [versions EXCEPT ![n] = NoPrompt]
  BY RawIsRow DEF DeleteVersion, Recorded
<1>2. task.version \in Numbers
  BY <1>1, TaskHasFields DEF IInv
<1>3. LedgerBar' = [LedgerBar EXCEPT ![n] = NoPrompt]
  BY <1>1, <1>2 DEF LedgerBar, IInv, TypeOK
<1>4. /\ LiveBar # NoTask /\ LiveBar' = LiveBar /\ n # LiveBar.version
  BY <1>1, LiveBarIsPair DEF LiveBar
<1>5. LedgerBar[n] # NoPrompt
  BY <1>1 DEF LedgerBar
<1>6. QED
  BY <1>3, <1>4, <1>5 DEF Ledger!Prune, Ledger!Recorded

LEMMA DeleteForgets == ASSUME IInv, NEW c \in Clients, Delete(c) PROVE Ledger!Forget
<1>1. task # NoTask /\ task' = task /\ versions' = Empty
  BY RawIsRow DEF Delete
<1>2. task.version \in Numbers
  BY <1>1, TaskHasFields DEF IInv
<1>3. /\ LiveBar # NoTask /\ LiveBar' = LiveBar
      /\ LiveBar.version = task.version /\ LiveBar.prompt = task.prompt
  BY <1>1, LiveBarIsPair DEF LiveBar
<1>4. LedgerBar' = [Empty EXCEPT ![task.version] = task.prompt]
  BY <1>1, <1>2 DEF LedgerBar, Empty
<1>5. QED
  BY <1>3, <1>4 DEF Ledger!Forget, Ledger!Empty, Empty

LEMMA DeleteRowDrops == ASSUME IInv, NEW c \in Clients, DeleteRow(c) PROVE Ledger!Drop
<1>1. task # NoTask /\ versions = Empty /\ task' = NoTask /\ versions' = versions
  BY DEF IInv, DeletingEmptied, DeleteRow
<1>2. LiveBar # NoTask /\ LiveBar' = NoTask
  BY <1>1, LiveBarIsPair DEF LiveBar
<1>3. LedgerBar' = Empty
  BY <1>1 DEF LedgerBar, Empty
<1>4. QED
  BY <1>2, <1>3 DEF Ledger!Drop, Ledger!Empty, Empty

\* The steps the ledger does not see.
LEMMA SilentSteps ==
  ASSUME IInv,
         \/ \E c \in Clients : Resolve(c) \/ Finish(c) \/ Record(c)
         \/ Expire \/ Reboot \/ UNCHANGED vars
  PROVE  UNCHANGED <<LiveBar, LedgerBar>>
<1>1. CASE task' = task /\ versions' = versions
  BY <1>1 DEF LiveBar, LedgerBar
<1>2. ASSUME NEW c \in Clients, Record(c) PROVE UNCHANGED <<LiveBar, LedgerBar>>
  <2>1. task # NoTask /\ seen[c] = task /\ task' = task
    BY <1>2 DEF Record, IInv, RecordingLive
  <2>2. task.version \in Numbers
    BY <2>1, TaskHasFields DEF IInv
  <2>3. versions' = [versions EXCEPT ![task.version] = task.prompt]
    BY <1>2, <2>1 DEF Record
  <2>4. QED
    BY <2>1, <2>2, <2>3 DEF LiveBar, LedgerBar, IInv, TypeOK
<1>3. CASE Reboot
  BY <1>3 DEF Reboot, LiveBar, LedgerBar
<1>4. QED
  BY <1>1, <1>2, <1>3 DEF Resolve, Finish, Expire, vars, db

LEMMA StepMaps ==
  ASSUME IInv, [Next]_vars
  PROVE  [unrecorded' \/ Ledger!Next]_<<LiveBar, LedgerBar>>
<1>1. ASSUME NEW c \in Clients, NEW t \in Task, Create(c, t) PROVE Ledger!Next
  <2>1. t.version \in Numbers /\ t.prompt \in Prompts
    BY DEF Task
  <2>2. QED
    BY <1>1, <2>1, CreateRegisters DEF Ledger!Next
<1>2. ASSUME NEW c \in Clients, NEW body \in Body, Update(c, body)
      PROVE  unrecorded' \/ Ledger!Next \/ UNCHANGED <<LiveBar, LedgerBar>>
  <2>1. unrecorded' = unrecorded
    BY <1>2 DEF Update
  <2>2. QED
    BY <1>2, <2>1, UpdatePublishes DEF Ledger!Next
<1>3. ASSUME NEW c \in Clients, NEW p \in Prompts, SaveDraft(c, p)
      PROVE  unrecorded' \/ Ledger!Next
  <2>1. unrecorded' = unrecorded
    BY <1>3 DEF SaveDraft
  <2>2. QED
    BY <1>3, <2>1, SaveDraftDrafts DEF Ledger!Next
<1>4. ASSUME NEW c \in Clients, NEW n \in Numbers, Deploy(c, n) \/ DeleteVersion(c, n)
      PROVE  unrecorded' \/ Ledger!Next
  <2>1. unrecorded' = unrecorded
    BY <1>4 DEF Deploy, DeleteVersion, history
  <2>2. QED
    BY <1>4, <2>1, DeployActivates, DeleteVersionPrunes DEF Ledger!Next
<1>5. ASSUME NEW c \in Clients, Delete(c) \/ DeleteRow(c) PROVE Ledger!Next
  BY <1>5, DeleteForgets, DeleteRowDrops DEF Ledger!Next
<1>6. ASSUME NEW c \in Clients, RecordFails(c) \/ DeleteRowFails(c) PROVE unrecorded'
  BY <1>6 DEF RecordFails, DeleteRowFails
<1>7. QED
  BY <1>1, <1>2, <1>3, <1>4, <1>5, <1>6, SilentSteps DEF Next, Edit

\* Every step of the registry is a step of the ledger or leaves it alone, until
\* the second write of an edit fails.
THEOREM RegistryKeepsLedger == Spec => KeepsLedger
<1>1. Init => Ledger!Init
  BY InitMaps
<1>2. IInv /\ [Next]_vars => [unrecorded' \/ Ledger!Next]_<<LiveBar, LedgerBar>>
  BY StepMaps
<1>3. QED
  BY <1>1, <1>2, RegistryCorrect, PTL DEF Spec, KeepsLedger
=============================================================================
