---------------------------- MODULE HandleProofs ----------------------------
(***************************************************************************)
(* A handle resolves to what it was issued for, a stale one stays stale,    *)
(* and a drained table stays empty: for every number of objects, threads,   *)
(* tables and entries.                                                      *)
(***************************************************************************)
EXTENDS ObjectTypeProofs

-----------------------------------------------------------------------------
(* Handles: what a handle resolves to, and that a stale one stays stale.    *)

\* The handle an entry will issue next, and all later ones, are still unused.
Fresh ==
    \A e \in Entries :
        /\ gen[e] # 0 /\ entry[e] = NoObject => issued[e][gen[e]] = NoObject
        /\ gen[e] # 0 => \A g \in Generations : g > gen[e] => issued[e][g] = NoObject

Issuing == ResolvesToIssued /\ Fresh

\* No handle has been issued at first.
LEMMA IssuingInit == Init => Issuing
BY ObjectAssumption DEF Init, Issuing, ResolvesToIssued, Fresh, Generations

\* The handle tables change only by opening an entry or by clearing one.
LEMMA EntrySteps ==
    ASSUME Typing, [Next]_vars
    PROVE  \/ UNCHANGED <<entry, gen, issued>>
           \/ \E tab \in Tables, o \in Objects : OpenEntry(tab, o)
           \/ \E t \in Threads, e \in Entries : ClearEntry(t, e) /\ issued' = issued
<1> DEFINE Goal == \/ UNCHANGED <<entry, gen, issued>>
                   \/ \E tab \in Tables, o \in Objects : OpenEntry(tab, o)
                   \/ \E t \in Threads, e \in Entries : ClearEntry(t, e) /\ issued' = issued
<1> USE DEF counts, tables, local
<1>1. ASSUME NEW t \in Threads, Step(t) PROVE Goal
  <2>1. CASE CloseNext(t)
    <3>1. PICK i \in index[t] .. Capacity : ClearEntry(t, <<into[t], i>>)
      BY <2>1 DEF CloseNext
    <3>2. index[t] # 0 /\ index[t] \in Nat /\ into[t] \in Tables
      BY <2>1, CloseNextPlace DEF CloseNext
    <3>3. <<into[t], i>> \in Entries
      BY <3>1, <3>2, ObjectAssumption DEF Entries
    <3> QED BY <2>1, <3>1, <3>3, Zenon DEF CloseNext
  <2>2. CASE DuplicateOpen(t)
    <3>1. held[t] \in Objects /\ into[t] \in Tables
      BY <2>2 DEF DuplicateOpen, Typing, Local, Holding, TypeOK, Pointer
    <3> QED BY <2>2, <3>1 DEF DuplicateOpen
  <2>3. CASE Dereference(t) \/ Destroy(t) \/ RemoveHandle(t) \/ LastHandleClosed(t)
             \/ ReleaseHandle(t) \/ CloseAllReturns(t)
    BY <2>3, Zenon DEF Dereference, Destroy, RemoveHandle, LastHandleClosed, ReleaseHandle, CloseAllReturns
  <2> QED BY <1>1, <2>1, <2>2, <2>3 DEF Step
<1>2. ASSUME NEW o \in Objects, NEW tab \in Tables, OpenOwned(tab, o) PROVE Goal
  BY <1>2 DEF OpenOwned
<1>3. ASSUME NEW t \in Threads, NEW e \in Entries, Close(t, e) PROVE Goal
  BY <1>3 DEF Close
<1>4. ASSUME NEW o \in Objects, DirectoryInsert(o) PROVE Goal
  BY <1>4 DEF DirectoryInsert
<1>5. ASSUME NEW t \in Threads, NEW o \in Objects,
             ReleaseOwner(t, o) \/ DirectoryLookup(t, o) \/ DirectoryRemove(t, o)
      PROVE  Goal
  BY <1>5 DEF ReleaseOwner, DirectoryLookup, DirectoryRemove
<1>6. ASSUME NEW t \in Threads, NEW e \in Entries, Lookup(t, e) PROVE Goal
  BY <1>6 DEF Lookup, ReferenceEntry
<1>7. ASSUME NEW t \in Threads, NEW e \in Entries, NEW tab \in Tables, Duplicate(t, e, tab)
      PROVE  Goal
  BY <1>7 DEF Duplicate, ReferenceEntry
<1>8. ASSUME NEW t \in Threads, NEW tab \in Tables, CloseAll(t, tab) PROVE Goal
  BY <1>8 DEF CloseAll
<1>9. CASE UNCHANGED vars
  BY <1>9 DEF vars
<1>10. CASE Next
  BY <1>1, <1>2, <1>3, <1>4, <1>5, <1>6, <1>7, <1>8, <1>10, Zenon DEF Next
<1> QED BY <1>9, <1>10

\* Every step keeps the issued handles apart, and revives none that is stale.
LEMMA IssuingNext ==
    ASSUME Typing, Issuing, [Next]_vars
    PROVE  /\ Issuing'
           /\ \A e \in Entries : \A g \in Generations :
                 issued[e][g] # NoObject /\ ~Live(e, g) => ~Live(e, g)'
<1> DEFINE Stale == \A e \in Entries : \A g \in Generations :
                       issued[e][g] # NoObject /\ ~Live(e, g) => ~Live(e, g)'
<1> USE DEF Typing
<1>1. CASE UNCHANGED <<entry, gen, issued>>
  BY <1>1 DEF Issuing, ResolvesToIssued, Fresh, Live
<1>2. ASSUME NEW tab \in Tables, NEW o \in Objects, OpenEntry(tab, o) PROVE Issuing' /\ Stale
  <2>1. PICK i \in 1 .. Capacity :
           /\ IsFree(<<tab, i>>)
           /\ entry' = [entry EXCEPT ![<<tab, i>>] = o]
           /\ issued' = [issued EXCEPT ![<<tab, i>>][gen[<<tab, i>>]] = o]
    BY <1>2, Zenon DEF OpenEntry
  <2> DEFINE x == <<tab, i>>
  <2>2. x \in Entries /\ gen' = gen /\ gen[x] \in Generations /\ gen[x] # 0
    <3>1. x \in Entries
      BY DEF Entries
    <3>2. gen[x] # 0 /\ gen' = gen
      BY <1>2, <2>1 DEF IsFree, OpenEntry
    <3>3. gen[x] \in 0 .. MaxGeneration /\ MaxGeneration \in Nat
      BY <3>1, ObjectAssumption DEF TypeOK
    <3> HIDE DEF x
    <3>4. gen[x] \in 1 .. MaxGeneration
      BY <3>2, <3>3
    <3> QED BY <3>1, <3>2, <3>4 DEF Generations
  <2>3. /\ entry[x] = NoObject /\ entry' = [entry EXCEPT ![x] = o]
        /\ issued' = [issued EXCEPT ![x][gen[x]] = o]
    BY <2>1 DEF IsFree
  <2> HIDE DEF x
  <2>4. issued[x][gen[x]] = NoObject
    BY <2>2, <2>3 DEF Issuing, Fresh
  <2>5. ResolvesToIssued'
    BY <2>2, <2>3 DEF Issuing, ResolvesToIssued, TypeOK
  <2>6. Fresh'
    <3> SUFFICES ASSUME NEW e \in Entries
                 PROVE  /\ gen[e] # 0 /\ entry'[e] = NoObject => issued'[e][gen[e]] = NoObject
                        /\ gen[e] # 0 => \A g \in Generations : g > gen[e] => issued'[e][g] = NoObject
      BY <2>2 DEF Fresh
    <3>1. CASE e = x
      <4>1. entry'[e] # NoObject
        BY <2>2, <2>3, <3>1, ObjectAssumption DEF TypeOK
      <4>2. ASSUME NEW g \in Generations, g > gen[e] PROVE issued'[e][g] = issued[e][g]
        <5>1. g # gen[x]
          BY <2>2, <3>1, <4>2 DEF Generations
        <5> QED BY <2>2, <2>3, <3>1, <5>1 DEF TypeOK
      <4> QED BY <4>1, <4>2 DEF Issuing, Fresh
    <3>2. CASE e # x
      BY <2>2, <2>3, <3>2 DEF Issuing, Fresh, TypeOK
    <3> QED BY <3>1, <3>2
  <2>7. Stale
    BY <2>2, <2>3, <2>4 DEF Live, TypeOK
  <2> QED BY <2>5, <2>6, <2>7 DEF Issuing
<1>3. ASSUME NEW t \in Threads, NEW x \in Entries, ClearEntry(t, x), issued' = issued
      PROVE  Issuing' /\ Stale
  <2>1. /\ entry' = [entry EXCEPT ![x] = NoObject] /\ entry[x] # NoObject
        /\ gen' = [gen EXCEPT ![x] = NextGeneration(gen[x])]
    BY <1>3 DEF ClearEntry
  <2>2. gen[x] # 0 /\ gen[x] \in Nat
    <3>1. gen[x] \in 0 .. MaxGeneration /\ gen[x] # 0
      BY <2>1 DEF Issuing, ResolvesToIssued, TypeOK
    <3> QED BY <3>1, ObjectAssumption
  <2>3. /\ NextGeneration(gen[x]) \in 0 .. MaxGeneration
        /\ NextGeneration(gen[x]) # 0 => NextGeneration(gen[x]) > gen[x]
    <3>1. gen[x] \in 0 .. MaxGeneration /\ MaxGeneration \in Nat
      BY ObjectAssumption DEF TypeOK
    <3> QED BY <3>1 DEF NextGeneration
  <2>4. ResolvesToIssued'
    BY <1>3, <2>1 DEF Issuing, ResolvesToIssued, TypeOK
  <2>5. Fresh'
    <3> SUFFICES ASSUME NEW e \in Entries
                 PROVE  /\ gen'[e] # 0 /\ entry'[e] = NoObject => issued[e][gen'[e]] = NoObject
                        /\ gen'[e] # 0 => \A g \in Generations : g > gen'[e] => issued[e][g] = NoObject
      BY <1>3 DEF Fresh
    <3>1. CASE e = x
      <4>1. gen'[x] = NextGeneration(gen[x])
        BY <2>1 DEF TypeOK
      <4>2. \A g \in Generations : g > gen[x] => issued[x][g] = NoObject
        BY <2>2 DEF Issuing, Fresh
      <4>3. gen'[x] # 0 => gen'[x] \in Generations /\ gen'[x] > gen[x]
        <5>1. /\ gen'[x] \in 0 .. MaxGeneration /\ MaxGeneration \in Nat
              /\ gen'[x] # 0 => gen'[x] > gen[x]
          BY <2>3, <4>1, ObjectAssumption
        <5> QED BY <5>1 DEF Generations
      <4>4. \A g \in Generations : gen'[x] # 0 /\ g > gen'[x] => g > gen[x]
        BY <2>2, <4>3, ObjectAssumption DEF Generations
      <4> QED BY <3>1, <4>2, <4>3, <4>4
    <3>2. CASE e # x
      BY <2>1, <3>2 DEF Issuing, Fresh, TypeOK
    <3> QED BY <3>1, <3>2
  <2>6. Stale
    BY <2>1 DEF Live, TypeOK
  <2> QED BY <2>4, <2>5, <2>6 DEF Issuing
<1> QED BY <1>1, <1>2, <1>3, EntrySteps

\* A handle resolves to the object it was returned for.
THEOREM HandlesResolve == Spec => []ResolvesToIssued
<1>1. Typing /\ Issuing /\ [Next]_vars => (Typing /\ Issuing)'
  BY TypingNext, IssuingNext
<1>2. Init => Typing /\ Issuing
  BY TypingInit, IssuingInit
<1>3. Typing /\ Issuing => ResolvesToIssued
  BY DEF Issuing
<1> QED BY <1>1, <1>2, <1>3, PTL DEF Spec

\* A handle that has stopped resolving never resolves again.
THEOREM StaleHandles == Spec => StaleStaysStale
<1>1. Typing /\ Issuing /\ [Next]_vars => (Typing /\ Issuing)'
  BY TypingNext, IssuingNext
<1>2. Init => Typing /\ Issuing
  BY TypingInit, IssuingInit
<1>3. Typing /\ Issuing /\ [Next]_vars
        => [\A e \in Entries : \A g \in Generations :
               issued[e][g] # NoObject /\ ~Live(e, g) => ~Live(e, g)']_vars
  BY IssuingNext
<1> QED BY <1>1, <1>2, <1>3, PTL DEF Spec, StaleStaysStale

-----------------------------------------------------------------------------
(* zi_handle_table_close_all: what the sweep has passed stays empty.        *)

\* A thread that sweeps a table has marked it, and the entries before its
\* index are empty.
Swept(t) ==
    index[t] # 0 =>
        /\ into[t] \in closing
        /\ \A j \in 1 .. Capacity : j < index[t] => entry[<<into[t], j>>] = NoObject

Draining == DrainedIsEmpty /\ drained \subseteq closing /\ \A t \in Threads : Swept(t)

\* No table is marked, drained or swept at first.
LEMMA DrainingInit == Init => Draining
BY DEF Init, Draining, DrainedIsEmpty, Swept

\* An empty entry of a closing table is never filled again.
LEMMA StaysEmpty ==
    ASSUME Typing, [Next]_vars, NEW x \in Entries, x[1] \in closing, entry[x] = NoObject
    PROVE  entry'[x] = NoObject
<1>1. CASE UNCHANGED <<entry, gen, issued>>
  BY <1>1
<1>2. ASSUME NEW tab \in Tables, NEW o \in Objects, OpenEntry(tab, o) PROVE entry'[x] = NoObject
  <2>1. PICK i \in 1 .. Capacity : entry' = [entry EXCEPT ![<<tab, i>>] = o]
    BY <1>2, Zenon DEF OpenEntry
  <2>2. x # <<tab, i>>
    BY <1>2 DEF OpenEntry
  <2> QED BY <2>1, <2>2 DEF Typing, TypeOK
<1>3. ASSUME NEW t \in Threads, NEW e \in Entries, ClearEntry(t, e) PROVE entry'[x] = NoObject
  BY <1>3 DEF ClearEntry, Typing, TypeOK
<1> QED BY <1>1, <1>2, <1>3, EntrySteps

\* A step keeps what a thread has swept unless it moves that thread's sweep.
LEMMA SweptKept ==
    ASSUME Typing, Draining, [Next]_vars, closing \subseteq closing', NEW u \in Threads,
           index'[u] = 0 \/ (index'[u] = index[u] /\ into'[u] = into[u])
    PROVE  Swept(u)'
<1> SUFFICES ASSUME index'[u] # 0
             PROVE  /\ into'[u] \in closing'
                    /\ \A j \in 1 .. Capacity : j < index'[u] => entry'[<<into'[u], j>>] = NoObject
  BY DEF Swept
<1>1. index'[u] = index[u] /\ into'[u] = into[u] /\ into[u] \in closing /\ into[u] \in Tables
  BY Zenon DEF Draining, Swept, Typing, TypeOK
<1>2. ASSUME NEW j \in 1 .. Capacity, j < index[u] PROVE entry'[<<into[u], j>>] = NoObject
  <2>1. entry[<<into[u], j>>] = NoObject
    BY <1>1, <1>2 DEF Draining, Swept
  <2>2. <<into[u], j>> \in Entries /\ <<into[u], j>>[1] \in closing
    BY <1>1, <1>2 DEF Entries
  <2> QED BY <2>1, <2>2, StaysEmpty
<1> QED BY <1>1, <1>2, Zenon

\* A table that was drained before the step is empty after it.
LEMMA DrainedKept ==
    ASSUME Typing, Draining, [Next]_vars, NEW x \in Entries, x[1] \in drained
    PROVE  entry'[x] = NoObject
BY StaysEmpty DEF Draining, DrainedIsEmpty

\* Every step keeps what has been swept empty.
LEMMA DrainingNext == Typing /\ Draining /\ [Next]_vars => Draining'
<1> SUFFICES ASSUME Typing, Draining, [Next]_vars PROVE Draining'
  OBVIOUS
<1> USE DEF counts, tables, local
<1>0. \A t \in Threads : index[t] \in 0 .. Capacity + 1 /\ into[t] \in Tables
  BY DEF Typing, TypeOK
<1>1. ASSUME closing \subseteq closing', drained' = drained,
             \A u \in Threads : index'[u] = 0 \/ (index'[u] = index[u] /\ into'[u] = into[u])
      PROVE  Draining'
  <2>1. \A u \in Threads : Swept(u)'
    BY <1>1, SweptKept
  <2>2. DrainedIsEmpty'
    BY <1>1, DrainedKept DEF DrainedIsEmpty
  <2> QED BY <1>1, <2>1, <2>2 DEF Draining
<1>2. ASSUME closing' = closing, drained' = drained, UNCHANGED <<index, into>> PROVE Draining'
  BY <1>1, <1>2
<1>3. ASSUME NEW t \in Threads, NEW tab \in Tables, CloseAll(t, tab) PROVE Draining'
  <2>1. Swept(t)'
    <3>1. index'[t] = 1 /\ into'[t] = tab /\ closing' = closing \cup {tab}
      BY <1>3 DEF CloseAll, Typing, TypeOK
    <3>2. \A j \in 1 .. Capacity : ~(j < 1)
      OBVIOUS
    <3> QED BY <3>1, <3>2 DEF Swept
  <2>2. closing \subseteq closing' /\ drained' = drained
    BY <1>3 DEF CloseAll
  <2>3. \A u \in Threads : u # t => index'[u] = index[u] /\ into'[u] = into[u]
    BY <1>3 DEF CloseAll, Typing, TypeOK
  <2>4. \A u \in Threads : Swept(u)'
    BY <2>1, <2>2, <2>3, SweptKept
  <2>5. DrainedIsEmpty'
    BY <2>2, DrainedKept DEF DrainedIsEmpty
  <2> QED BY <2>2, <2>4, <2>5 DEF Draining
<1>4. ASSUME NEW t \in Threads, CloseNext(t) PROVE Draining'
  <2>1. PICK i \in index[t] .. Capacity :
           /\ \A j \in index[t] .. i - 1 : entry[<<into[t], j>>] = NoObject
           /\ ClearEntry(t, <<into[t], i>>)
           /\ index' = [index EXCEPT ![t] = i + 1]
    BY <1>4, Zenon DEF CloseNext
  <2>2. closing' = closing /\ drained' = drained /\ into' = into /\ index[t] # 0 /\ into[t] \in Tables
    BY <1>4 DEF CloseNext, Typing, TypeOK, Local
  <2>3. index'[t] = i + 1 /\ \A u \in Threads : u # t => index'[u] = index[u]
    BY <2>1 DEF Typing, TypeOK
  <2>4. ASSUME NEW j \in 1 .. Capacity, j < i + 1 PROVE entry'[<<into[t], j>>] = NoObject
    <3>1. j < index[t] \/ j \in index[t] .. i - 1 \/ j = i
      <4>1. index[t] \in Nat /\ i \in Nat /\ j \in Nat
        BY <1>0, <2>1, <2>4, ObjectAssumption
      <4> QED BY <2>4, <4>1
    <3>2. <<into[t], j>> \in Entries /\ <<into[t], j>>[1] \in closing
      BY <2>2 DEF Entries, Draining, Swept
    <3>3. CASE j = i
      BY <2>1, <3>2, <3>3 DEF ClearEntry, Typing, TypeOK
    <3>4. CASE j # i
      <4>1. entry[<<into[t], j>>] = NoObject
        BY <2>1, <2>2, <3>1, <3>4, Zenon DEF Draining, Swept
      <4> QED BY <3>2, <4>1, StaysEmpty
    <3> QED BY <3>3, <3>4, Zenon
  <2>5. Swept(t)'
    <3>1. into[t] \in closing
      BY <2>2 DEF Draining, Swept
    <3> QED BY <2>2, <2>3, <2>4, <3>1 DEF Swept
  <2>6. \A u \in Threads : Swept(u)'
    BY <2>2, <2>3, <2>5, SweptKept
  <2>7. DrainedIsEmpty'
    BY <2>2, DrainedKept DEF DrainedIsEmpty
  <2> QED BY <2>2, <2>6, <2>7 DEF Draining
<1>5. ASSUME NEW t \in Threads, CloseAllReturns(t) PROVE Draining'
  <2>1. /\ entry' = entry /\ closing' = closing /\ into' = into /\ drained' = drained \cup {into[t]}
        /\ \A u \in Threads : u # t => index'[u] = index[u]
        /\ index'[t] = 0 /\ index[t] # 0
    BY <1>5 DEF CloseAllReturns, Typing, TypeOK, Local
  <2>2. ASSUME NEW j \in 1 .. Capacity PROVE entry[<<into[t], j>>] = NoObject
    <3>1. j < index[t] \/ j \in index[t] .. Capacity
      BY <1>0, ObjectAssumption
    <3> QED BY <1>5, <2>1, <3>1, Zenon DEF CloseAllReturns, Draining, Swept
  <2>3. \A e \in Entries : e[1] = into[t] => entry[e] = NoObject
    BY <2>2 DEF Entries
  <2>4. DrainedIsEmpty'
    BY <2>1, <2>3 DEF DrainedIsEmpty, Draining
  <2>5. drained' \subseteq closing'
    BY <2>1 DEF Draining, Swept
  <2>6. \A u \in Threads : Swept(u)'
    BY <2>1, SweptKept
  <2> QED BY <2>4, <2>5, <2>6 DEF Draining
<1>6. ASSUME NEW t \in Threads, Step(t) PROVE Draining'
  <2>1. CASE Dereference(t) \/ Destroy(t) \/ RemoveHandle(t) \/ LastHandleClosed(t)
             \/ ReleaseHandle(t) \/ DuplicateOpen(t)
    BY <1>2, <2>1, Zenon DEF Dereference, Destroy, RemoveHandle, LastHandleClosed, ReleaseHandle,
                      DuplicateOpen, OpenEntry
  <2> QED BY <1>4, <1>5, <1>6, <2>1 DEF Step
<1>7. ASSUME NEW o \in Objects, NEW tab \in Tables, DirectoryInsert(o) \/ OpenOwned(tab, o)
      PROVE  Draining'
  BY <1>2, <1>7 DEF DirectoryInsert, OpenOwned, OpenEntry
<1>8. ASSUME NEW t \in Threads, NEW o \in Objects,
             ReleaseOwner(t, o) \/ DirectoryLookup(t, o) \/ DirectoryRemove(t, o)
      PROVE  Draining'
  BY <1>2, <1>8 DEF ReleaseOwner, DirectoryLookup, DirectoryRemove
<1>9. ASSUME NEW t \in Threads, NEW e \in Entries, Lookup(t, e) \/ Close(t, e) PROVE Draining'
  BY <1>2, <1>9, Zenon DEF Lookup, ReferenceEntry, Close
<1>10. ASSUME NEW t \in Threads, NEW e \in Entries, NEW tab \in Tables, Duplicate(t, e, tab)
       PROVE  Draining'
  <2>1. /\ closing' = closing /\ drained' = drained /\ index' = index /\ index[t] = 0
        /\ \A u \in Threads : u # t => into'[u] = into[u]
    BY <1>10 DEF Duplicate, ReferenceEntry, Typing, TypeOK, Local
  <2> QED BY <1>1, <2>1
<1>11. CASE UNCHANGED vars
  BY <1>2, <1>11 DEF vars
<1>12. \E tab \in Tables : TRUE
  BY ObjectAssumption
<1>13. ASSUME NEW o \in Objects, DirectoryInsert(o) PROVE Draining'
  BY <1>7, <1>12, <1>13
<1> QED BY <1>3, <1>6, <1>7, <1>8, <1>9, <1>10, <1>11, <1>13 DEF Next

\* A table whose close_all has returned is empty and stays so, whatever
\* opens, duplicates and closes ran during the sweep.
THEOREM DrainedTables == Spec => []DrainedIsEmpty
<1>1. Typing /\ Draining /\ [Next]_vars => (Typing /\ Draining)'
  BY TypingNext, DrainingNext
<1>2. Init => Typing /\ Draining
  BY TypingInit, DrainingInit
<1>3. Typing /\ Draining => DrainedIsEmpty
  BY DEF Draining
<1> QED BY <1>1, <1>2, <1>3, PTL DEF Spec
\* A resolving handle names its object and a swept table is empty (handle.c), for
\* tables and threads of any number and size.
THEOREM TablesCorrect == Spec => []TablesExact
<1>1. ResolvesToIssued /\ DrainedIsEmpty => TablesExact
  BY DEF TablesExact
<1> QED
  BY <1>1, HandlesResolve, DrainedTables, PTL

=============================================================================
