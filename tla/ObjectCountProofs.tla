------------------------- MODULE ObjectCountProofs --------------------------
(***************************************************************************)
(* Reference and handle counts are exact, an object is destroyed when its   *)
(* last reference goes and only then, and the two routines of an object     *)
(* run once: for every number of objects, threads, tables and entries.      *)
(***************************************************************************)
EXTENDS ObjectTypeProofs, FiniteSetTheorems

-----------------------------------------------------------------------------
(* How a step changes the number of entries, holders and removers.          *)

E(o) == Cardinality(EntriesOf(o))
H(o) == Cardinality(HoldersOf(o))
R(o) == Cardinality(RemoversOf(o))
One(b) == IF b THEN 1 ELSE 0

\* Adding a new element to a finite set adds one to its size.
LEMMA Grow ==
    ASSUME NEW A, NEW B, IsFiniteSet(A), NEW x, x \notin A, B = A \cup {x}
    PROVE  Cardinality(B) = Cardinality(A) + 1
BY FS_AddElement

\* Taking an element out of a finite set takes one from its size.
LEMMA Shrink ==
    ASSUME NEW A, NEW B, IsFiniteSet(A), NEW x, x \in A, B = A \ {x}
    PROVE  Cardinality(B) = Cardinality(A) - 1
BY FS_RemoveElement

\* The counts are natural numbers and every remover is a holder.
LEMMA Finite ==
    ASSUME NEW o
    PROVE  /\ IsFiniteSet(EntriesOf(o)) /\ IsFiniteSet(HoldersOf(o)) /\ IsFiniteSet(RemoversOf(o))
           /\ E(o) \in Nat /\ H(o) \in Nat /\ R(o) \in Nat
<1>1. IsFiniteSet(Entries)
  <2>1. 1 \in Int /\ Capacity \in Int
    BY ObjectAssumption
  <2>2. IsFiniteSet(1 .. Capacity)
    BY <2>1, FS_Interval
  <2> QED BY <2>2, ObjectAssumption, FS_Product, Zenon DEF Entries
<1>2. IsFiniteSet(EntriesOf(o))
  BY <1>1, FS_Subset DEF EntriesOf
<1>3. IsFiniteSet(HoldersOf(o)) /\ IsFiniteSet(RemoversOf(o))
  BY ObjectAssumption, FS_Subset DEF HoldersOf, RemoversOf
<1> QED BY <1>2, <1>3, FS_CardinalityType DEF E, H, R

\* A thread that holds o and is not about to remove a handle is not counted
\* among the removers.
LEMMA HolderNotRemover ==
    ASSUME NEW t \in Threads, NEW o, held[t] = o, pc[t] # "remove"
    PROVE  R(o) <= H(o) - 1
<1>1. RemoversOf(o) \in SUBSET (HoldersOf(o) \ {t})
  BY DEF RemoversOf, HoldersOf
<1>2. IsFiniteSet(HoldersOf(o) \ {t}) /\ Cardinality(HoldersOf(o) \ {t}) = H(o) - 1
  <2>1. t \in HoldersOf(o) /\ IsFiniteSet(HoldersOf(o))
    BY Finite DEF HoldersOf
  <2> QED BY <2>1, FS_RemoveElement DEF H
<1> QED BY <1>1, <1>2, FS_Subset DEF R

\* Filling an empty entry with o counts one more entry, for o only.
LEMMA EntryFilled ==
    ASSUME TypeOK, NEW e \in Entries, entry[e] = NoObject, NEW v \in Objects,
           entry' = [entry EXCEPT ![e] = v], NEW o \in Objects
    PROVE  E(o)' = E(o) + One(o = v)
<1>1. CASE o = v
  <2>1. e \notin EntriesOf(o) /\ EntriesOf(o)' = EntriesOf(o) \cup {e}
    BY <1>1, ObjectAssumption DEF TypeOK, EntriesOf
  <2> QED BY <1>1, <2>1, Grow, Finite DEF E, One
<1>2. CASE o # v
  <2>1. EntriesOf(o)' = EntriesOf(o)
    BY <1>2, ObjectAssumption DEF TypeOK, EntriesOf
  <2> QED BY <1>2, <2>1, Finite DEF E, One
<1> QED BY <1>1, <1>2

\* Clearing an entry of o counts one entry less, for o only.
LEMMA EntryCleared ==
    ASSUME TypeOK, NEW e \in Entries, entry[e] # NoObject,
           entry' = [entry EXCEPT ![e] = NoObject], NEW o \in Objects
    PROVE  E(o)' = E(o) - One(o = entry[e])
<1>1. CASE o = entry[e]
  <2>1. e \in EntriesOf(o) /\ EntriesOf(o)' = EntriesOf(o) \ {e}
    BY <1>1, ObjectAssumption DEF TypeOK, EntriesOf
  <2> QED BY <1>1, <2>1, Shrink, Finite DEF E, One
<1>2. CASE o # entry[e]
  <2>1. EntriesOf(o)' = EntriesOf(o)
    BY <1>2, ObjectAssumption DEF TypeOK, EntriesOf
  <2> QED BY <1>2, <2>1, Finite DEF E, One
<1> QED BY <1>1, <1>2

\* Thread t, which holds nothing, takes a pointer to v.
Takes(t, v) == held[t] = NoObject /\ held' = [held EXCEPT ![t] = v]

\* A thread that takes a pointer to o is one more holder, of o only.
LEMMA HeldTaken ==
    ASSUME TypeOK, NEW t \in Threads, NEW v \in Objects, Takes(t, v), NEW o \in Objects
    PROVE  H(o)' = H(o) + One(o = v)
<1>1. CASE o = v
  <2>1. t \notin HoldersOf(o) /\ HoldersOf(o)' = HoldersOf(o) \cup {t}
    BY <1>1, ObjectAssumption DEF TypeOK, HoldersOf, Takes
  <2> QED BY <1>1, <2>1, Grow, Finite DEF H, One
<1>2. CASE o # v
  <2>1. HoldersOf(o)' = HoldersOf(o)
    BY <1>2, ObjectAssumption DEF TypeOK, HoldersOf, Takes
  <2> QED BY <1>2, <2>1, Finite DEF H, One
<1> QED BY <1>1, <1>2

\* A thread that gives its pointer to o up is one holder less, of o only.
LEMMA HeldDropped ==
    ASSUME TypeOK, NEW t \in Threads, held[t] # NoObject,
           held' = [held EXCEPT ![t] = NoObject], NEW o \in Objects
    PROVE  H(o)' = H(o) - One(o = held[t])
<1>1. CASE o = held[t]
  <2>1. t \in HoldersOf(o) /\ HoldersOf(o)' = HoldersOf(o) \ {t}
    BY <1>1, ObjectAssumption DEF TypeOK, HoldersOf
  <2> QED BY <1>1, <2>1, Shrink, Finite DEF H, One
<1>2. CASE o # held[t]
  <2>1. HoldersOf(o)' = HoldersOf(o)
    BY <1>2, ObjectAssumption DEF TypeOK, HoldersOf
  <2> QED BY <1>2, <2>1, Finite DEF H, One
<1> QED BY <1>1, <1>2

\* A thread that clears an entry of o becomes a remover of o only.
LEMMA RemoverEnters ==
    ASSUME TypeOK, NEW t \in Threads, pc[t] # "remove", NEW e \in Entries, ClearEntry(t, e),
           NEW o \in Objects
    PROVE  R(o)' = R(o) + One(o = entry[e])
<1>1. CASE o = entry[e]
  <2>1. t \notin RemoversOf(o) /\ RemoversOf(o)' = RemoversOf(o) \cup {t}
    BY <1>1 DEF TypeOK, RemoversOf, ClearEntry, Goto
  <2> QED BY <1>1, <2>1, Grow, Finite DEF R, One
<1>2. CASE o # entry[e]
  <2>1. RemoversOf(o)' = RemoversOf(o)
    BY <1>2 DEF TypeOK, RemoversOf, ClearEntry, Goto
  <2> QED BY <1>2, <2>1, Finite DEF R, One
<1> QED BY <1>1, <1>2

\* A thread that leaves zi_object_remove_handle is no remover any more.
LEMMA RemoverLeaves ==
    ASSUME TypeOK, NEW t \in Threads, pc[t] = "remove", NEW label, label # "remove",
           held' = held, pc' = [pc EXCEPT ![t] = label], NEW o \in Objects
    PROVE  R(o)' = R(o) - One(o = held[t])
<1>1. CASE o = held[t]
  <2>1. t \in RemoversOf(o) /\ RemoversOf(o)' = RemoversOf(o) \ {t}
    BY <1>1 DEF TypeOK, RemoversOf
  <2> QED BY <1>1, <2>1, Shrink, Finite DEF R, One
<1>2. CASE o # held[t]
  <2>1. RemoversOf(o)' = RemoversOf(o)
    BY <1>2 DEF TypeOK, RemoversOf
  <2> QED BY <1>2, <2>1, Finite DEF R, One
<1> QED BY <1>1, <1>2

\* A thread that neither is nor becomes a remover.
LEMMA RemoversSame ==
    ASSUME TypeOK, NEW t \in Threads, pc[t] # "remove", NEW label, label # "remove",
           NEW v, held' = held \/ held' = [held EXCEPT ![t] = v],
           pc' = [pc EXCEPT ![t] = label], NEW o \in Objects
    PROVE  R(o)' = R(o)
<1>1. RemoversOf(o)' = RemoversOf(o)
  BY DEF TypeOK, RemoversOf
<1> QED BY <1>1 DEF R

-----------------------------------------------------------------------------
(* Counts are exact, and an object is destroyed with its last reference.    *)

Counting == RefsExact /\ HandlesExact /\ DestroyedIffUnreferenced

\* The exact counts, with the abbreviations above.
Refs(o) == refs[o] = E(o) + H(o) + One(o \in owned) + One(o \in named)
Opens(o) == handles[o] = E(o) + R(o)

\* Counting, one object at a time.
LEMMA CountingUnfolded ==
    /\ RefsExact <=> \A o \in Objects : Refs(o)
    /\ HandlesExact <=> \A o \in Objects : Opens(o)
BY DEF RefsExact, HandlesExact, Refs, Opens, E, H, R, One

\* The counts are exact when every object has its creator's reference.
LEMMA CountingInit == Init => Counting
<1> SUFFICES ASSUME Init PROVE Counting
  OBVIOUS
<1>1. ASSUME NEW o \in Objects PROVE E(o) = 0 /\ H(o) = 0 /\ R(o) = 0
  <2>1. EntriesOf(o) = {} /\ HoldersOf(o) = {} /\ RemoversOf(o) = {}
    BY <1>1, ObjectAssumption DEF Init, EntriesOf, HoldersOf, RemoversOf
  <2> QED BY <2>1, FS_EmptySet DEF E, H, R
<1>2. RefsExact /\ HandlesExact
  BY <1>1, CountingUnfolded DEF Init, Refs, Opens, One
<1>3. DestroyedIffUnreferenced
  BY DEF Init, DestroyedIffUnreferenced
<1> QED BY <1>2, <1>3 DEF Counting

\* object_release_locked never meets its error path: the last reference is not
\* released while a handle is open.
LEMMA ReleaseExact ==
    ASSUME TypeOK, Counting, NEW t \in Threads, NEW v \in Objects, held[t] = v, pc[t] # "remove",
           refs[v] # 0, Release(v)
    PROVE  /\ refs' = [refs EXCEPT ![v] = @ - 1] /\ handles' = handles
           /\ refs[v] = 1 => LastRelease(v)
<1>1. refs[v] >= E(v) + H(v) /\ handles[v] = E(v) + R(v)
  <2>1. Refs(v) /\ Opens(v)
    BY CountingUnfolded DEF Counting
  <2>2. One(v \in owned) \in Nat /\ One(v \in named) \in Nat /\ E(v) \in Nat /\ H(v) \in Nat
    BY Finite DEF One
  <2> QED BY <2>1, <2>2 DEF Refs, Opens
<1>2. R(v) <= H(v) - 1
  BY HolderNotRemover
<1>3. refs[v] = 1 => handles[v] = 0
  BY <1>1, <1>2, Finite
<1> QED BY <1>3 DEF Release, LastRelease

\* Counting after a step, from how the step changed the counts of one object.
LEMMA CountingKept ==
    ASSUME \A o \in Objects : Refs(o)' /\ Opens(o)',
           \A o \in Objects : (o \in destroyed') <=> (refs'[o] = 0)
    PROVE  Counting'
BY DEF Counting, DestroyedIffUnreferenced, RefsExact, HandlesExact, Refs, Opens, E, H, R, One

\* A truth value counts nothing or one.
LEMMA OneInt ==
    ASSUME NEW b
    PROVE  One(b) \in Nat /\ (b => One(b) = 1) /\ (~b => One(b) = 0)
BY DEF One

\* Incrementing the counter of v, seen from any object.
LEMMA CountedUp ==
    ASSUME NEW f \in [Objects -> 0 .. MaxCount], NEW v \in Objects, NEW o \in Objects
    PROVE  [f EXCEPT ![v] = @ + 1][o] = f[o] + One(o = v)
<1>1. f[o] \in Nat
  BY ObjectAssumption
<1>2. CASE o = v
  BY <1>1, <1>2 DEF One
<1>3. CASE o # v
  BY <1>1, <1>3 DEF One
<1> QED BY <1>2, <1>3

\* Decrementing the counter of v, seen from any object.
LEMMA CountedDown ==
    ASSUME NEW f \in [Objects -> 0 .. MaxCount], NEW v \in Objects, NEW o \in Objects
    PROVE  [f EXCEPT ![v] = @ - 1][o] = f[o] - One(o = v)
<1>1. f[o] \in Nat
  BY ObjectAssumption
<1>2. CASE o = v
  BY <1>1, <1>2 DEF One
<1>3. CASE o # v
  BY <1>1, <1>3 DEF One
<1> QED BY <1>2, <1>3

\* Another reference to an object that is not destroyed destroys none.
LEMMA ReferenceKeeps ==
    ASSUME NEW v, v \notin destroyed, destroyed' = destroyed, NEW o \in Objects, refs[o] \in Nat,
           (o \in destroyed) <=> (refs[o] = 0), refs'[o] = refs[o] + One(o = v)
    PROVE  (o \in destroyed') <=> (refs'[o] = 0)
<1>1. CASE o = v
  <2>1. One(o = v) = 1
    BY <1>1 DEF One
  <2> QED BY <1>1, <2>1
<1>2. CASE o # v
  <2>1. One(o = v) = 0
    BY <1>2 DEF One
  <2>2. refs'[o] = refs[o]
    BY <2>1
  <2> QED BY <2>2
<1> QED BY <1>1, <1>2

\* Every operation keeps both counts exact.
LEMMA CountingNext == Typing /\ Counting /\ [Next]_vars => Counting'
<1> SUFFICES ASSUME Typing, Counting, [Next]_vars PROVE Counting'
  OBVIOUS
<1>0. TypeOK
  BY DEF Typing
<1>a. /\ refs \in [Objects -> 0 .. MaxCount] /\ handles \in [Objects -> 0 .. MaxCount]
      /\ MaxCount \in Nat
  BY <1>0, ObjectAssumption DEF TypeOK
<1>b. ASSUME NEW o \in Objects
      PROVE  /\ Refs(o) /\ Opens(o) /\ ((o \in destroyed) <=> (refs[o] = 0))
             /\ E(o) \in Nat /\ H(o) \in Nat /\ R(o) \in Nat
             /\ refs[o] \in Nat /\ handles[o] \in Nat
  <2>1. Refs(o) /\ Opens(o) /\ ((o \in destroyed) <=> (refs[o] = 0))
    BY CountingUnfolded DEF Counting, DestroyedIffUnreferenced
  <2>2. refs[o] \in 0 .. MaxCount /\ handles[o] \in 0 .. MaxCount /\ MaxCount \in Nat
    BY <1>a
  <2>3. refs[o] \in Nat /\ handles[o] \in Nat
    BY <2>2
  <2> QED BY <2>1, <2>3, Finite
<1> USE DEF Goto, counts, tables, local
<1>1. ASSUME NEW t \in Threads, pc[t] \in {"using", "release", "unref"},
             NEW label, label # "remove", pc' = [pc EXCEPT ![t] = label],
             held[t] \notin destroyed /\ refs[held[t]] # 0, Release(held[t]),
             held' = [held EXCEPT ![t] = NoObject],
             UNCHANGED <<entry, owned, named>>
      PROVE  Counting'
  <2>1. held[t] \in Objects /\ held[t] # NoObject
    BY <1>1, ObjectAssumption DEF Typing, Local, Holding, TypeOK, Pointer
  <2>2. /\ refs' = [refs EXCEPT ![held[t]] = @ - 1] /\ handles' = handles
        /\ refs[held[t]] = 1 => LastRelease(held[t])
    BY <1>0, <1>1, <2>1, ReleaseExact
  <2>3. ASSUME NEW o \in Objects
        PROVE  E(o)' = E(o) /\ H(o)' = H(o) - One(o = held[t]) /\ R(o)' = R(o)
    <3>1. E(o)' = E(o)
      BY <1>1 DEF E, EntriesOf
    <3>2. H(o)' = H(o) - One(o = held[t])
      BY <1>0, <1>1, <2>1, HeldDropped, Zenon
    <3>3. R(o)' = R(o)
      BY <1>0, <1>1, RemoversSame, Zenon
    <3> QED BY <3>1, <3>2, <3>3
  <2>4. ASSUME NEW o \in Objects PROVE refs'[o] = refs[o] - One(o = held[t])
    BY <1>a, <2>1, <2>2, CountedDown
  <2>5. ASSUME NEW o \in Objects PROVE Refs(o)' /\ Opens(o)'
    BY <1>b, <1>1, <2>2, <2>3, <2>4, OneInt DEF Refs, Opens
  <2>6. ASSUME NEW o \in Objects PROVE (o \in destroyed') <=> (refs'[o] = 0)
    <3>1. destroyed' = IF LastRelease(held[t]) THEN destroyed \cup {held[t]} ELSE destroyed
      BY <1>1 DEF Release
    <3>2. CASE o # held[t]
      <4>1. refs'[o] = refs[o]
        <5>1. One(o = held[t]) = 0
          BY <3>2 DEF One
        <5>2. refs'[o] = refs[o] - One(o = held[t]) /\ refs[o] \in Nat
          BY <1>b, <2>4
        <5> QED BY <5>1, <5>2
      <4> QED BY <1>b, <3>1, <3>2, <4>1
    <3>3. CASE o = held[t]
      <4>1. refs'[o] = refs[o] - 1 /\ refs[o] \in Nat
        <5>1. One(o = held[t]) = 1
          BY <3>3 DEF One
        <5> QED BY <1>b, <2>4, <5>1
      <4>2. (refs'[o] = 0) <=> LastRelease(held[t])
        BY <2>2, <3>3, <4>1 DEF LastRelease
      <4> QED BY <1>1, <3>1, <3>3, <4>2
    <3> QED BY <3>2, <3>3
  <2> QED BY <2>5, <2>6, CountingKept
<1>2. ASSUME NEW t \in Threads, NEW v \in Objects, pc[t] = "idle",
             NEW label, label # "remove", pc' = [pc EXCEPT ![t] = label],
             held' = [held EXCEPT ![t] = v], UNCHANGED <<counts, entry>>,
             \/ v \in owned /\ owned' = owned \ {v} /\ named' = named
             \/ v \in named /\ named' = named \ {v} /\ owned' = owned
      PROVE  Counting'
  <2>1. held[t] = NoObject
    BY <1>2 DEF Typing, Local, Holding
  <2>2. ASSUME NEW o \in Objects
        PROVE  E(o)' = E(o) /\ H(o)' = H(o) + One(o = v) /\ R(o)' = R(o)
    <3>1. E(o)' = E(o)
      BY <1>2 DEF E, EntriesOf
    <3>2. H(o)' = H(o) + One(o = v)
      <4>1. Takes(t, v)
        BY <1>2, <2>1 DEF Takes
      <4> QED BY <1>0, <4>1, HeldTaken
    <3>3. R(o)' = R(o)
      BY <1>0, <1>2, RemoversSame, Zenon
    <3> QED BY <3>1, <3>2, <3>3
  <2>3. ASSUME NEW o \in Objects
        PROVE  One(o \in owned') + One(o \in named') + One(o = v) = One(o \in owned) + One(o \in named)
    <3>1. CASE o = v
      BY <1>2, <3>1 DEF One
    <3>2. CASE o # v
      <4>1. (o \in owned' <=> o \in owned) /\ (o \in named' <=> o \in named)
        BY <1>2, <3>2
      <4> QED BY <3>2, <4>1 DEF One
    <3> QED BY <3>1, <3>2
  <2>4. ASSUME NEW o \in Objects PROVE Refs(o)' /\ Opens(o)'
    <3>1. refs' = refs /\ handles' = handles
      BY <1>2
    <3> QED BY <1>b, <2>2, <2>3, <3>1, OneInt DEF Refs, Opens
  <2>5. ASSUME NEW o \in Objects PROVE (o \in destroyed') <=> (refs'[o] = 0)
    BY <1>b, <1>2
  <2> QED BY <2>4, <2>5, CountingKept
<1>3. ASSUME NEW t \in Threads, NEW v \in Objects, pc[t] = "idle", CanReference(v),
             NEW label, label # "remove", pc' = [pc EXCEPT ![t] = label],
             held' = [held EXCEPT ![t] = v], refs' = [refs EXCEPT ![v] = @ + 1],
             UNCHANGED <<handles, destroyed, entry, owned, named>>
      PROVE  Counting'
  <2>1. held[t] = NoObject
    BY <1>3 DEF Typing, Local, Holding
  <2>2. ASSUME NEW o \in Objects
        PROVE  E(o)' = E(o) /\ H(o)' = H(o) + One(o = v) /\ R(o)' = R(o)
    <3>1. E(o)' = E(o)
      BY <1>3 DEF E, EntriesOf
    <3>2. H(o)' = H(o) + One(o = v)
      <4>1. Takes(t, v)
        BY <1>3, <2>1 DEF Takes
      <4> QED BY <1>0, <4>1, HeldTaken
    <3>3. R(o)' = R(o)
      BY <1>0, <1>3, RemoversSame, Zenon
    <3> QED BY <3>1, <3>2, <3>3
  <2>3. ASSUME NEW o \in Objects PROVE refs'[o] = refs[o] + One(o = v)
    BY <1>a, <1>3, CountedUp
  <2>4. ASSUME NEW o \in Objects PROVE Refs(o)' /\ Opens(o)'
    BY <1>b, <1>3, <2>2, <2>3, OneInt DEF Refs, Opens
  <2>5. ASSUME NEW o \in Objects PROVE (o \in destroyed') <=> (refs'[o] = 0)
    <3>1. v \notin destroyed /\ destroyed' = destroyed
      BY <1>3 DEF CanReference
    <3> QED BY <1>b, <2>3, <3>1, ReferenceKeeps
  <2> QED BY <2>4, <2>5, CountingKept
<1>4. ASSUME NEW v \in Objects, DirectoryInsert(v) PROVE Counting'
  <2>1. \A o \in Objects : E(o)' = E(o) /\ H(o)' = H(o) /\ R(o)' = R(o)
    BY <1>4 DEF DirectoryInsert, E, H, R, EntriesOf, HoldersOf, RemoversOf
  <2>2. /\ refs' = [refs EXCEPT ![v] = @ + 1] /\ handles' = handles /\ destroyed' = destroyed
        /\ owned' = owned /\ v \notin named /\ named' = named \cup {v} /\ v \notin destroyed
    BY <1>4 DEF DirectoryInsert, CanReference
  <2>3. ASSUME NEW o \in Objects PROVE refs'[o] = refs[o] + One(o = v)
    BY <1>a, <2>2, CountedUp
  <2>4. ASSUME NEW o \in Objects PROVE One(o \in named') = One(o \in named) + One(o = v)
    <3>1. CASE o = v
      BY <2>2, <3>1 DEF One
    <3>2. CASE o # v
      BY <2>2, <3>2 DEF One
    <3> QED BY <3>1, <3>2
  <2>5. ASSUME NEW o \in Objects PROVE Refs(o)' /\ Opens(o)'
    BY <1>b, <2>1, <2>2, <2>3, <2>4, OneInt DEF Refs, Opens
  <2>6. ASSUME NEW o \in Objects PROVE (o \in destroyed') <=> (refs'[o] = 0)
    BY <1>b, <2>2, <2>3, ReferenceKeeps
  <2> QED BY <2>5, <2>6, CountingKept
<1>5. ASSUME NEW tab \in Tables, NEW v \in Objects, OpenEntry(tab, v),
             UNCHANGED <<held, owned, named>>, \A o \in Objects : R(o)' = R(o)
      PROVE  Counting'
  <2>1. PICK i \in 1 .. Capacity :
           IsFree(<<tab, i>>) /\ entry' = [entry EXCEPT ![<<tab, i>>] = v]
    BY <1>5, Zenon DEF OpenEntry
  <2> DEFINE x == <<tab, i>>
  <2>2. x \in Entries /\ entry[x] = NoObject /\ entry' = [entry EXCEPT ![x] = v]
    BY <2>1 DEF Entries, IsFree
  <2> HIDE DEF x
  <2>3. ASSUME NEW o \in Objects PROVE E(o)' = E(o) + One(o = v) /\ H(o)' = H(o)
    <3>1. E(o)' = E(o) + One(o = v)
      BY <1>0, <2>2, EntryFilled, Zenon
    <3>2. H(o)' = H(o)
      BY <1>5 DEF H, HoldersOf
    <3> QED BY <3>1, <3>2
  <2>4. /\ refs' = [refs EXCEPT ![v] = @ + 1] /\ handles' = [handles EXCEPT ![v] = @ + 1]
        /\ destroyed' = destroyed /\ v \notin destroyed
    BY <1>5 DEF OpenEntry, CanAddHandle
  <2>5. ASSUME NEW o \in Objects
        PROVE  refs'[o] = refs[o] + One(o = v) /\ handles'[o] = handles[o] + One(o = v)
    BY <1>a, <2>4, CountedUp
  <2>6. ASSUME NEW o \in Objects PROVE Refs(o)' /\ Opens(o)'
    <3>1. R(o)' = R(o) /\ owned' = owned /\ named' = named
      BY <1>5
    <3> QED BY <1>b, <2>3, <2>5, <3>1, OneInt DEF Refs, Opens
  <2>7. ASSUME NEW o \in Objects PROVE (o \in destroyed') <=> (refs'[o] = 0)
    BY <1>b, <2>4, <2>5, ReferenceKeeps
  <2> QED BY <2>6, <2>7, CountingKept
<1>6. ASSUME NEW t \in Threads, NEW e \in Entries, pc[t] \in {"idle", "closeall"},
             ClearEntry(t, e), UNCHANGED <<counts, owned, named>>
      PROVE  Counting'
  <2>1. held[t] = NoObject /\ entry[e] \in Objects
    BY <1>6 DEF Typing, TypeOK, Pointer, Local, Holding, ClearEntry
  <2>2. /\ entry' = [entry EXCEPT ![e] = NoObject] /\ entry[e] # NoObject
        /\ held' = [held EXCEPT ![t] = entry[e]]
    BY <1>6 DEF ClearEntry
  <2>3. ASSUME NEW o \in Objects
        PROVE  /\ E(o)' = E(o) - One(o = entry[e])
               /\ H(o)' = H(o) + One(o = entry[e]) /\ R(o)' = R(o) + One(o = entry[e])
    <3>1. E(o)' = E(o) - One(o = entry[e])
      BY <1>0, <2>2, EntryCleared, Zenon
    <3>2. H(o)' = H(o) + One(o = entry[e])
      <4>1. Takes(t, entry[e]) /\ entry[e] \in Objects
        BY <2>1, <2>2 DEF Takes
      <4> QED BY <1>0, <4>1, HeldTaken
    <3>3. R(o)' = R(o) + One(o = entry[e])
      BY <1>0, <1>6, RemoverEnters
    <3> QED BY <2>1, <3>1, <3>2, <3>3
  <2>4. refs' = refs /\ handles' = handles /\ destroyed' = destroyed /\ owned' = owned /\ named' = named
    BY <1>6
  <2>5. ASSUME NEW o \in Objects PROVE Refs(o)' /\ Opens(o)'
    <3>1. Refs(o)'
      BY <1>b, <2>3, <2>4, OneInt DEF Refs
    <3>2. Opens(o)'
      BY <1>b, <2>3, <2>4, OneInt DEF Opens
    <3> QED BY <3>1, <3>2
  <2>6. ASSUME NEW o \in Objects PROVE (o \in destroyed') <=> (refs'[o] = 0)
    BY <1>b, <2>4
  <2> QED BY <2>5, <2>6, CountingKept
<1>7. ASSUME NEW t \in Threads, RemoveHandle(t) PROVE Counting'
  <2>1. held[t] \in Objects
    BY <1>7 DEF RemoveHandle, Typing, Local, Holding, TypeOK, Pointer
  <2>2. PICK label \in {"callback", "unref"} : pc' = [pc EXCEPT ![t] = label]
    BY <1>7, Zenon DEF RemoveHandle, Goto
  <2>3. handles' = [handles EXCEPT ![held[t]] = @ - 1] /\ UNCHANGED <<refs, destroyed, owned, named>>
    BY <1>7 DEF RemoveHandle
  <2>4. ASSUME NEW o \in Objects
        PROVE  E(o)' = E(o) /\ H(o)' = H(o) /\ R(o)' = R(o) - One(o = held[t])
    <3>1. R(o)' = R(o) - One(o = held[t])
      <4>1. pc[t] = "remove" /\ held' = held /\ label # "remove"
        BY <1>7, <2>2 DEF RemoveHandle
      <4> QED BY <1>0, <2>2, <4>1, RemoverLeaves, Zenon
    <3>2. E(o)' = E(o) /\ H(o)' = H(o)
      BY <1>7 DEF RemoveHandle, E, H, EntriesOf, HoldersOf
    <3> QED BY <3>1, <3>2
  <2>5. ASSUME NEW o \in Objects PROVE handles'[o] = handles[o] - One(o = held[t])
    BY <1>a, <2>1, <2>3, CountedDown
  <2>6. ASSUME NEW o \in Objects PROVE Refs(o)' /\ Opens(o)'
    <3>1. UNCHANGED <<refs, owned, named>>
      BY <2>3
    <3>2. Refs(o)'
      BY <1>b, <2>4, <3>1 DEF Refs
    <3>3. Opens(o)'
      BY <1>b, <2>4, <2>5, OneInt DEF Opens
    <3> QED BY <3>2, <3>3
  <2>7. ASSUME NEW o \in Objects PROVE (o \in destroyed') <=> (refs'[o] = 0)
    BY <1>b, <2>3
  <2> QED BY <2>6, <2>7, CountingKept
<1>8. ASSUME NEW t \in Threads, pc[t] # "remove", NEW label, label # "remove",
             pc' = [pc EXCEPT ![t] = label], UNCHANGED <<counts, entry, owned, named, held>>
      PROVE  Counting'
  <2>1. ASSUME NEW o \in Objects PROVE E(o)' = E(o) /\ H(o)' = H(o) /\ R(o)' = R(o)
    <3>1. R(o)' = R(o)
      BY <1>0, <1>8, RemoversSame, Zenon
    <3>2. E(o)' = E(o) /\ H(o)' = H(o)
      BY <1>8 DEF E, H, EntriesOf, HoldersOf
    <3> QED BY <3>1, <3>2
  <2>2. ASSUME NEW o \in Objects PROVE Refs(o)' /\ Opens(o)'
    BY <1>b, <1>8, <2>1 DEF Refs, Opens
  <2>3. ASSUME NEW o \in Objects PROVE (o \in destroyed') <=> (refs'[o] = 0)
    BY <1>b, <1>8
  <2> QED BY <2>2, <2>3, CountingKept
<1>9. ASSUME NEW t \in Threads, Step(t) PROVE Counting'
  <2>1. CASE Dereference(t)
    BY <1>1, <2>1, Zenon DEF Dereference
  <2>2. CASE ReleaseHandle(t)
    BY <1>1, <2>2, Zenon DEF ReleaseHandle
  <2>3. CASE Destroy(t)
    BY <1>8, <2>3, Zenon DEF Destroy
  <2>4. CASE LastHandleClosed(t)
    BY <1>8, <2>4, Zenon DEF LastHandleClosed
  <2>5. CASE CloseAllReturns(t)
    BY <1>8, <2>5, Zenon DEF CloseAllReturns
  <2>6. CASE CloseNext(t)
    <3>1. PICK i \in index[t] .. Capacity : ClearEntry(t, <<into[t], i>>)
      BY <2>6 DEF CloseNext
    <3>2. index[t] # 0 /\ index[t] \in Nat /\ into[t] \in Tables
      BY <2>6, CloseNextPlace DEF CloseNext
    <3>3. <<into[t], i>> \in Entries
      BY <3>1, <3>2, ObjectAssumption DEF Entries
    <3>4. pc[t] \in {"idle", "closeall"} /\ UNCHANGED <<counts, owned, named>>
      BY <2>6 DEF CloseNext
    <3> QED BY <1>6, <3>1, <3>3, <3>4
  <2>7. CASE DuplicateOpen(t)
    <3>1. held[t] \in Objects /\ into[t] \in Tables
      BY <2>7 DEF DuplicateOpen, Typing, Local, Holding, TypeOK, Pointer
    <3>2. \A o \in Objects : R(o)' = R(o)
      BY <1>0, <2>7, RemoversSame, Zenon DEF DuplicateOpen
    <3> QED BY <1>5, <1>8, <2>7, <3>1, <3>2, Zenon DEF DuplicateOpen
  <2> QED BY <1>7, <1>9, <2>1, <2>2, <2>3, <2>4, <2>5, <2>6, <2>7 DEF Step
<1>10. ASSUME NEW v \in Objects, NEW tab \in Tables, OpenOwned(tab, v) PROVE Counting'
  <2>1. \A o \in Objects : R(o)' = R(o)
    BY <1>10 DEF OpenOwned, R, RemoversOf
  <2> QED BY <1>5, <1>10, <2>1 DEF OpenOwned
<1>11. ASSUME NEW t \in Threads, NEW v \in Objects,
              ReleaseOwner(t, v) \/ DirectoryRemove(t, v)
       PROVE  Counting'
  BY <1>2, <1>11 DEF ReleaseOwner, DirectoryRemove
<1>12. ASSUME NEW t \in Threads, NEW v \in Objects, DirectoryLookup(t, v) PROVE Counting'
  BY <1>3, <1>12, Zenon DEF DirectoryLookup
<1>13. ASSUME NEW t \in Threads, NEW e \in Entries, NEW label \in {"using", "release", "duplicate"},
              ReferenceEntry(t, e, label)
       PROVE  Counting'
  <2>1. entry[e] \in Objects
    BY <1>13 DEF ReferenceEntry, Typing, TypeOK, Pointer
  <2> QED BY <1>3, <1>13, <2>1, Zenon DEF ReferenceEntry
<1>14. ASSUME NEW t \in Threads, NEW e \in Entries, Close(t, e) PROVE Counting'
  BY <1>6, <1>14 DEF Close
<1>15. ASSUME NEW t \in Threads, NEW tab \in Tables, CloseAll(t, tab) PROVE Counting'
  BY <1>8, <1>15, Zenon DEF CloseAll
<1>16. CASE UNCHANGED vars
  BY <1>16 DEF vars, Counting, RefsExact, HandlesExact, DestroyedIffUnreferenced,
               EntriesOf, HoldersOf, RemoversOf
<1>17. ASSUME NEW t \in Threads, NEW e \in Entries, Lookup(t, e) PROVE Counting'
  BY <1>13, <1>17 DEF Lookup
<1>18. ASSUME NEW t \in Threads, NEW e \in Entries, NEW tab \in Tables, Duplicate(t, e, tab)
       PROVE  Counting'
  BY <1>13, <1>18 DEF Duplicate
<1> QED
  BY <1>4, <1>9, <1>10, <1>11, <1>12, <1>14, <1>15, <1>16, <1>17, <1>18 DEF Next

\* Reference and handle counts are exact, and an object is destroyed exactly
\* when its reference count is zero, whatever the interleaving.
THEOREM CountsExact == Spec => [](CountsMatchHolders /\ DestroyedIffUnreferenced)
<1>1. Typing /\ Counting /\ [Next]_vars => (Typing /\ Counting)'
  BY TypingNext, CountingNext
<1>2. Init => Typing /\ Counting
  BY TypingInit, CountingInit
<1>3. Spec => [](Typing /\ Counting)
  BY <1>1, <1>2, PTL DEF Spec
<1>4. Typing /\ Counting => CountsMatchHolders /\ DestroyedIffUnreferenced
  BY DEF Counting, CountsMatchHolders
<1> QED BY <1>3, <1>4, PTL

-----------------------------------------------------------------------------
(* The destroy routine and the last-handle routine run once.                *)

\* What makes DestroyOnce and LastHandleIsLast inductive: a routine that has
\* run, or is about to, belongs to an object marked under the lock.
Routines ==
    /\ DestroyOnce /\ ended \subseteq destroyed
    /\ called \subseteq disabled
    /\ \A o \in disabled : handles[o] = 0
    /\ \A t \in Threads : pc[t] = "callback" =>
          /\ held[t] \in disabled \ called
          /\ \A u \in Threads \ {t} : pc[u] = "callback" => held[u] # held[t]

\* No routine has run at first.
LEMMA RoutinesInit == Init => Routines
BY DEF Init, Routines, DestroyOnce

\* A disabled object has no handle left in any table.
LEMMA RoutinesImply == Typing /\ Counting /\ Routines => DestroyOnce /\ LastHandleIsLast
<1> SUFFICES ASSUME Typing, Counting, Routines PROVE DestroyOnce /\ LastHandleIsLast
  OBVIOUS
<1>1. ASSUME NEW o \in disabled PROVE EntriesOf(o) = {} /\ handles[o] = 0
  <2>1. o \in Objects
    BY <1>1 DEF Typing, TypeOK
  <2>2. handles[o] = 0 /\ handles[o] = E(o) + R(o)
    BY <1>1, <2>1, CountingUnfolded DEF Routines, Counting, Opens
  <2>3. E(o) = 0
    BY <2>2, Finite
  <2> QED BY <2>2, <2>3, Finite, FS_EmptySet DEF E
<1> QED BY <1>1 DEF Routines, LastHandleIsLast

\* Every step keeps the marks of the two routines.
LEMMA RoutinesNext == Typing /\ Counting /\ Routines /\ [Next]_vars => Routines'
<1> SUFFICES ASSUME Typing, Counting, Routines, [Next]_vars PROVE Routines'
  OBVIOUS
<1> USE ObjectAssumption DEF Goto, counts, tables, local
<1>0. TypeOK /\ \A o \in Objects : (o \in destroyed) <=> (refs[o] = 0)
  BY DEF Typing, Counting, DestroyedIffUnreferenced
<1>1. ASSUME NEW t \in Threads, pc[t] \in {"using", "release", "unref"},
             held[t] \notin destroyed /\ refs[held[t]] # 0, Release(held[t]),
             held' = [held EXCEPT ![t] = NoObject],
             dying' = [dying EXCEPT ![t] = IF LastRelease(held[t]) THEN held[t] ELSE NoObject],
             NEW label \in {"idle", "closeall"},
             pc' = [pc EXCEPT ![t] = IF LastRelease(held[t]) THEN "destroy" ELSE label],
             UNCHANGED <<called, ended>>
      PROVE  Routines'
  <2>1. held[t] \in Objects
    BY <1>1 DEF Typing, Local, Holding, TypeOK, Pointer
  <2>2. handles' = handles /\ disabled' = disabled
    BY <1>1, Zenon DEF Release
  <2>3. CASE LastRelease(held[t])
    <3>1. destroyed' = destroyed \cup {held[t]}
      BY <1>1, <2>3 DEF Release
    <3>2. DestroyOnce'
      <4>1. pc' = [pc EXCEPT ![t] = "destroy"] /\ dying' = [dying EXCEPT ![t] = held[t]]
        BY <1>1, <2>3
      <4>2. \A u \in Threads : pc[u] = "destroy" => dying[u] \in destroyed \ ended /\ dying[u] # held[t]
        BY <1>1 DEF Routines, DestroyOnce
      <4>3. held[t] \notin ended /\ ended' = ended
        BY <1>1 DEF Routines
      <4> QED BY <1>0, <3>1, <4>1, <4>2, <4>3 DEF Routines, DestroyOnce, TypeOK
    <3> QED BY <1>0, <1>1, <2>1, <2>2, <2>3, <3>1, <3>2 DEF Routines, TypeOK
  <2>4. CASE ~LastRelease(held[t])
    <3>1. destroyed' = destroyed
      BY <1>1, <2>4 DEF Release
    <3>2. DestroyOnce'
      BY <1>0, <1>1, <2>4, <3>1 DEF Routines, DestroyOnce, TypeOK
    <3> QED BY <1>0, <1>1, <2>2, <2>4, <3>1, <3>2 DEF Routines, TypeOK
  <2> QED BY <2>3, <2>4, Zenon
<1>2. ASSUME NEW t \in Threads, Destroy(t) PROVE Routines'
  <2>1. DestroyOnce'
    BY <1>0, <1>2 DEF Destroy, Routines, DestroyOnce, TypeOK
  <2>2. ended' \subseteq destroyed'
    BY <1>2 DEF Destroy, Routines, DestroyOnce
  <2>3. \A u \in Threads : pc'[u] = "callback" => pc[u] = "callback"
    BY <1>0, <1>2 DEF Destroy, Goto, TypeOK
  <2>4. UNCHANGED <<handles, disabled, held, called>>
    BY <1>2 DEF Destroy
  <2> QED BY <2>1, <2>2, <2>3, <2>4 DEF Routines
<1>3. ASSUME NEW t \in Threads, RemoveHandle(t) PROVE Routines'
  <2>1. held[t] \in Objects
    BY <1>3 DEF RemoveHandle, Typing, Local, Holding, TypeOK, Pointer
  <2>2. handles[held[t]] # 0 /\ handles' = [handles EXCEPT ![held[t]] = @ - 1]
    BY <1>3 DEF RemoveHandle
  <2>3. held[t] \notin disabled
    BY <2>2 DEF Routines
  <2>4. DestroyOnce'
    BY <1>0, <1>3 DEF RemoveHandle, Routines, DestroyOnce, TypeOK
  <2>5. \A o \in disabled' : handles'[o] = 0
    <3> SUFFICES ASSUME NEW o \in disabled' PROVE handles'[o] = 0
      OBVIOUS
    <3>1. CASE o \in disabled
      <4>1. o # held[t] /\ handles[o] = 0 /\ o \in Objects
        BY <1>0, <2>3, <3>1 DEF Routines, TypeOK
      <4> QED BY <1>0, <2>2, <4>1 DEF TypeOK
    <3>2. CASE o \notin disabled
      <4>1. o = held[t] /\ handles[held[t]] = 1
        BY <1>3, <3>2 DEF RemoveHandle
      <4> QED BY <1>0, <2>1, <2>2, <4>1 DEF TypeOK
    <3> QED BY <3>1, <3>2
  <2>6. /\ disabled \subseteq disabled' /\ UNCHANGED <<held, called, ended, destroyed>>
        /\ \A u \in Threads : u # t => pc'[u] = pc[u]
        /\ pc'[t] = "callback" => held[t] \in disabled'
    BY <1>0, <1>3 DEF RemoveHandle, Goto, TypeOK
  <2>7. \A u \in Threads : pc[u] = "callback" => held[u] # held[t]
    BY <2>3 DEF Routines
  <2>8. held[t] \notin called
    BY <2>3 DEF Routines
  <2>9. \A u \in Threads : pc'[u] = "callback" =>
           /\ held'[u] \in disabled' \ called'
           /\ \A w \in Threads \ {u} : pc'[w] = "callback" => held'[w] # held'[u]
    BY <2>6, <2>7, <2>8 DEF Routines
  <2> QED BY <2>4, <2>5, <2>6, <2>9 DEF Routines
<1>4. ASSUME NEW t \in Threads, LastHandleClosed(t) PROVE Routines'
  <2>1. DestroyOnce'
    BY <1>0, <1>4 DEF LastHandleClosed, Routines, DestroyOnce, TypeOK
  <2> QED BY <1>0, <1>4, <2>1 DEF LastHandleClosed, Routines, TypeOK
<1>5. ASSUME NEW t \in Threads, pc[t] \notin {"callback", "destroy"},
             NEW label, label \notin {"callback", "destroy"}, pc' = [pc EXCEPT ![t] = label],
             NEW v, held' = held \/ held' = [held EXCEPT ![t] = v],
             \A o \in disabled : handles'[o] = 0,
             UNCHANGED <<disabled, destroyed, dying, called, ended>>
      PROVE  Routines'
  <2>1. DestroyOnce'
    BY <1>0, <1>5, Zenon DEF Routines, DestroyOnce, TypeOK
  <2> QED BY <1>0, <1>5, <2>1, Zenon DEF Routines, TypeOK
<1>6. ASSUME UNCHANGED <<pc, held, disabled, destroyed, dying, called, ended>>,
             \A o \in disabled : handles'[o] = 0
      PROVE  Routines'
  BY <1>6 DEF Routines, DestroyOnce
<1>7. ASSUME NEW tab \in Tables, NEW v \in Objects, OpenEntry(tab, v)
      PROVE  disabled' = disabled /\ destroyed' = destroyed /\ \A o \in disabled : handles'[o] = 0
  <2>1. v \notin disabled /\ handles' = [handles EXCEPT ![v] = @ + 1]
    BY <1>7 DEF OpenEntry, CanAddHandle
  <2> QED BY <1>0, <1>7, <2>1 DEF OpenEntry, Routines, TypeOK
<1>8. \A o \in disabled : handles[o] = 0
  BY DEF Routines
<1>9. ASSUME NEW t \in Threads, Step(t) PROVE Routines'
  <2>1. CASE Dereference(t)
    BY <1>1, <2>1, Zenon DEF Dereference
  <2>2. CASE ReleaseHandle(t)
    BY <1>1, <2>2, Zenon DEF ReleaseHandle
  <2>3. CASE CloseAllReturns(t)
    BY <1>5, <1>8, <2>3, Zenon DEF CloseAllReturns
  <2>4. CASE CloseNext(t)
    BY <1>5, <1>8, <2>4, Zenon DEF CloseNext, ClearEntry
  <2>5. CASE DuplicateOpen(t)
    <3>1. held[t] \in Objects /\ into[t] \in Tables
      BY <2>5 DEF DuplicateOpen, Typing, Local, Holding, TypeOK, Pointer
    <3> QED BY <1>5, <1>7, <1>8, <2>5, <3>1, Zenon DEF DuplicateOpen
  <2> QED BY <1>2, <1>3, <1>4, <1>9, <2>1, <2>2, <2>3, <2>4, <2>5 DEF Step
<1>10. ASSUME NEW v \in Objects, NEW tab \in Tables, DirectoryInsert(v) \/ OpenOwned(tab, v)
       PROVE  Routines'
  BY <1>6, <1>7, <1>8, <1>10, Zenon DEF DirectoryInsert, OpenOwned
<1>11. ASSUME NEW t \in Threads, NEW v \in Objects,
              ReleaseOwner(t, v) \/ DirectoryLookup(t, v) \/ DirectoryRemove(t, v)
       PROVE  Routines'
  BY <1>5, <1>8, <1>11, Zenon DEF ReleaseOwner, DirectoryLookup, DirectoryRemove
<1>12. ASSUME NEW t \in Threads, NEW e \in Entries, NEW tab \in Tables,
              Lookup(t, e) \/ Close(t, e) \/ Duplicate(t, e, tab) \/ CloseAll(t, tab)
       PROVE  Routines'
  BY <1>5, <1>8, <1>12, Zenon DEF Lookup, Duplicate, ReferenceEntry, Close, ClearEntry, CloseAll
<1>13. CASE UNCHANGED vars
  BY <1>6, <1>8, <1>13 DEF vars
<1>14. Tables # {}
  OBVIOUS
<1>15. ASSUME NEW t \in Threads, NEW tab \in Tables, CloseAll(t, tab) PROVE Routines'
  BY <1>5, <1>8, <1>15, Zenon DEF CloseAll
<1> QED
  BY <1>9, <1>10, <1>11, <1>12, <1>13, <1>14, <1>15 DEF Next

\* destroy runs once for an object; last_handle_closed runs once, after the last
\* handle is gone, and no handle is opened afterwards.
THEOREM RoutinesOnce == Spec => []RoutinesRunOnce
<1>1. Typing /\ Counting /\ Routines /\ [Next]_vars => (Typing /\ Counting /\ Routines)'
  BY TypingNext, CountingNext, RoutinesNext
<1>2. Init => Typing /\ Counting /\ Routines
  BY TypingInit, CountingInit, RoutinesInit
<1>3. Spec => [](Typing /\ Counting /\ Routines)
  BY <1>1, <1>2, PTL DEF Spec
<1>4. Typing /\ Counting /\ Routines => RoutinesRunOnce
  BY RoutinesImply DEF RoutinesRunOnce
<1> QED BY <1>3, <1>4, PTL

\* The lifetime of every object is exact (object.c): LifetimesExact gathers the
\* type of the state, both counts, the destruction and the two callbacks.
THEOREM Lifetimes == Spec => []LifetimesExact
<1>1. TypeOK /\ (CountsMatchHolders /\ DestroyedIffUnreferenced) /\ RoutinesRunOnce => LifetimesExact
  BY DEF LifetimesExact
<1> QED
  BY <1>1, TypeCorrect, CountsExact, RoutinesOnce, PTL

=============================================================================
