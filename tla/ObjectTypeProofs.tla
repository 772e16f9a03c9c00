-------------------------- MODULE ObjectTypeProofs --------------------------
(***************************************************************************)
(* Types are kept, for every number of objects, threads, tables and entries, *)
(* and what the place of a thread says about its local variables.           *)
(***************************************************************************)
EXTENDS ObjectManager, TLAPS

-----------------------------------------------------------------------------
(* Types and the local state of a thread.                                   *)

Holding == {"using", "release", "remove", "callback", "unref", "duplicate"}

\* What a thread's position says about its local variables.
Local ==
    \A t \in Threads :
        /\ pc[t] \in Holding <=> held[t] # NoObject
        /\ pc[t] = "destroy" => dying[t] \in Objects
        /\ pc[t] \in {"idle", "using", "release", "duplicate"} => index[t] = 0
        /\ pc[t] = "closeall" => index[t] # 0

Typing == TypeOK /\ Local

\* The zeroed state a boot starts from is well typed.
LEMMA TypingInit == Init => Typing
<1> SUFFICES ASSUME Init PROVE Typing
  OBVIOUS
<1>1. (CHOOSE tab \in Tables : TRUE) \in Tables
  BY ObjectAssumption
<1>2. TypeOK
  BY <1>1, ObjectAssumption DEF Init, TypeOK, Labels, Pointer, Generations
<1>3. Local
  BY ObjectAssumption DEF Init, Local, Holding
<1> QED BY <1>2, <1>3 DEF Typing

\* A thread in zi_handle_table_close_all has an entry to go on from.
LEMMA CloseNextPlace ==
    ASSUME Typing, NEW t \in Threads, pc[t] = "closeall"
    PROVE  index[t] # 0 /\ index[t] \in Nat /\ into[t] \in Tables
<1>1. index[t] \in 0 .. Capacity + 1 /\ into[t] \in Tables /\ index[t] # 0
  BY DEF Typing, TypeOK, Local
<1> QED BY <1>1, ObjectAssumption

\* A counter below its limit may be incremented.
LEMMA CountUp ==
    ASSUME NEW f \in [Objects -> 0 .. MaxCount], NEW o \in Objects, f[o] # MaxCount
    PROVE  [f EXCEPT ![o] = @ + 1] \in [Objects -> 0 .. MaxCount]
<1>1. f[o] \in 0 .. MaxCount /\ MaxCount \in Nat
  BY ObjectAssumption
<1>2. f[o] + 1 \in 0 .. MaxCount
  BY <1>1
<1> QED BY <1>2

\* A counter above zero may be decremented.
LEMMA CountDown ==
    ASSUME NEW f \in [Objects -> 0 .. MaxCount], NEW o \in Objects, f[o] # 0
    PROVE  [f EXCEPT ![o] = @ - 1] \in [Objects -> 0 .. MaxCount]
<1>1. f[o] \in 0 .. MaxCount /\ MaxCount \in Nat
  BY ObjectAssumption
<1>2. f[o] - 1 \in 0 .. MaxCount
  BY <1>1
<1> QED BY <1>2

\* Release keeps the counters in range and touches nothing else.
LEMMA ReleaseTypes ==
    ASSUME TypeOK, NEW o \in Objects, refs[o] # 0, Release(o)
    PROVE  /\ refs' \in [Objects -> 0 .. MaxCount] /\ destroyed' \subseteq Objects
           /\ handles' = handles /\ disabled' = disabled
BY ObjectAssumption DEF TypeOK, Release

\* So does opening an entry.
LEMMA OpenEntryTypes ==
    ASSUME TypeOK, NEW tab \in Tables, NEW o \in Objects, OpenEntry(tab, o)
    PROVE  /\ refs' \in [Objects -> 0 .. MaxCount] /\ handles' \in [Objects -> 0 .. MaxCount]
           /\ entry' \in [Entries -> Pointer] /\ issued' \in [Entries -> [Generations -> Pointer]]
<1>1. refs' \in [Objects -> 0 .. MaxCount] /\ handles' \in [Objects -> 0 .. MaxCount]
  BY CountUp DEF TypeOK, OpenEntry, CanAddHandle
<1>2. PICK i \in 1 .. Capacity :
         /\ IsFree(<<tab, i>>)
         /\ entry' = [entry EXCEPT ![<<tab, i>>] = o]
         /\ issued' = [issued EXCEPT ![<<tab, i>>][gen[<<tab, i>>]] = o]
  BY Zenon DEF OpenEntry
<1>3. <<tab, i>> \in Entries /\ gen[<<tab, i>>] \in Generations
  BY <1>2, ObjectAssumption DEF Entries, TypeOK, IsFree, Generations
<1>4. entry' \in [Entries -> Pointer]
  BY <1>2, <1>3 DEF TypeOK, Pointer
<1>5. issued' \in [Entries -> [Generations -> Pointer]]
  BY <1>2, <1>3, Zenon DEF TypeOK, Pointer
<1> QED BY <1>1, <1>4, <1>5

\* And so does taking an object out of an entry.
LEMMA ClearEntryTypes ==
    ASSUME TypeOK, NEW t \in Threads, NEW e \in Entries, ClearEntry(t, e)
    PROVE  /\ entry' \in [Entries -> Pointer] /\ gen' \in [Entries -> 0 .. MaxGeneration]
           /\ held' \in [Threads -> Pointer] /\ held'[t] \in Objects
<1>1. NextGeneration(gen[e]) \in 0 .. MaxGeneration
  <2>1. gen[e] \in 0 .. MaxGeneration /\ MaxGeneration \in Nat
    BY ObjectAssumption DEF TypeOK
  <2> QED BY <2>1 DEF NextGeneration
<1> QED BY <1>1, ObjectAssumption DEF TypeOK, ClearEntry, Pointer

\* Every operation keeps the types and what a thread's position says of it.
LEMMA TypingNext == Typing /\ [Next]_vars => Typing'
<1> SUFFICES ASSUME Typing, [Next]_vars PROVE Typing'
  OBVIOUS
<1> USE ObjectAssumption DEF Goto, Typing, counts, tables, local
<1>1. ASSUME NEW t \in Threads, Dereference(t) PROVE Typing'
  <2>1. held[t] \in Objects
    BY <1>1 DEF Dereference, Local, Holding, TypeOK, Pointer
  <2>2. TypeOK'
    BY <1>1, <2>1, ReleaseTypes DEF Dereference, TypeOK, Labels, Pointer
  <2>3. Local'
    BY <1>1, <2>1 DEF Dereference, TypeOK, Local, Holding
  <2> QED BY <2>2, <2>3
<1>2. ASSUME NEW t \in Threads, Destroy(t) PROVE Typing'
  <2>1. TypeOK'
    BY <1>2 DEF Destroy, TypeOK, Local, Labels, Pointer
  <2>2. Local'
    BY <1>2 DEF Destroy, TypeOK, Local, Holding
  <2> QED BY <2>1, <2>2
<1>3. ASSUME NEW t \in Threads, RemoveHandle(t) PROVE Typing'
  <2>1. held[t] \in Objects
    BY <1>3 DEF RemoveHandle, Local, Holding, TypeOK, Pointer
  <2>2. TypeOK'
    <3>1. handles' \in [Objects -> 0 .. MaxCount]
      BY <1>3, <2>1, CountDown DEF RemoveHandle, TypeOK
    <3> QED BY <1>3, <2>1, <3>1 DEF RemoveHandle, TypeOK, Labels
  <2>3. Local'
    BY <1>3, <2>1 DEF RemoveHandle, TypeOK, Local, Holding
  <2> QED BY <2>2, <2>3
<1>4. ASSUME NEW t \in Threads, LastHandleClosed(t) PROVE Typing'
  <2>1. held[t] \in Objects
    BY <1>4 DEF LastHandleClosed, Local, Holding, TypeOK, Pointer
  <2>2. TypeOK'
    BY <1>4, <2>1 DEF LastHandleClosed, TypeOK, Labels
  <2>3. Local'
    BY <1>4, <2>1 DEF LastHandleClosed, TypeOK, Local, Holding
  <2> QED BY <2>2, <2>3
<1>5. ASSUME NEW t \in Threads, ReleaseHandle(t) PROVE Typing'
  <2>1. held[t] \in Objects
    BY <1>5 DEF ReleaseHandle, Local, Holding, TypeOK, Pointer
  <2>2. TypeOK'
    BY <1>5, <2>1, ReleaseTypes DEF ReleaseHandle, TypeOK, Labels, Pointer
  <2>3. Local'
    BY <1>5, <2>1 DEF ReleaseHandle, TypeOK, Local, Holding
  <2> QED BY <2>2, <2>3
<1>6. ASSUME NEW t \in Threads, DuplicateOpen(t) PROVE Typing'
  <2>1. held[t] \in Objects /\ into[t] \in Tables
    BY <1>6 DEF DuplicateOpen, Local, Holding, TypeOK, Pointer
  <2>2. TypeOK'
    <3>1. CASE OpenEntry(into[t], held[t])
      BY <1>6, <2>1, <3>1, OpenEntryTypes, Zenon DEF DuplicateOpen, TypeOK, Labels, OpenEntry
    <3>2. CASE UNCHANGED <<counts, tables>>
      BY <1>6, <2>1, <3>2 DEF DuplicateOpen, TypeOK, Labels
    <3> QED BY <1>6, <3>1, <3>2 DEF DuplicateOpen
  <2>3. Local'
    BY <1>6, <2>1 DEF DuplicateOpen, TypeOK, Local, Holding
  <2> QED BY <2>2, <2>3
<1>7. ASSUME NEW t \in Threads, CloseNext(t) PROVE Typing'
  <2>1. PICK i \in index[t] .. Capacity :
           ClearEntry(t, <<into[t], i>>) /\ index' = [index EXCEPT ![t] = i + 1]
    BY <1>7, Zenon DEF CloseNext
  <2>2. index[t] # 0 /\ index[t] \in Nat /\ into[t] \in Tables
    BY <1>7 DEF CloseNext, Local, TypeOK
  <2>3. i \in 1 .. Capacity /\ <<into[t], i>> \in Entries
    BY <2>1, <2>2 DEF Entries
  <2>4. TypeOK'
    <3>1. i + 1 \in 0 .. Capacity + 1
      BY <2>3
    <3>2. index' \in [Threads -> 0 .. Capacity + 1]
      BY <2>1, <3>1 DEF TypeOK
    <3>3. pc' \in [Threads -> Labels]
      BY <2>1 DEF ClearEntry, TypeOK, Labels
    <3> QED BY <1>7, <2>1, <2>3, <3>2, <3>3, ClearEntryTypes DEF CloseNext, TypeOK
  <2>5. Local'
    <3>1. /\ pc' = [pc EXCEPT ![t] = "remove"] /\ held' = [held EXCEPT ![t] = entry[<<into[t], i>>]]
          /\ entry[<<into[t], i>>] # NoObject /\ dying' = dying
      BY <1>7, <2>1, Zenon DEF CloseNext, ClearEntry, Goto
    <3>2. index' = [index EXCEPT ![t] = i + 1] /\ i + 1 # 0
      BY <2>1, <2>3
    <3> QED BY <3>1, <3>2 DEF TypeOK, Local, Holding
  <2> QED BY <2>4, <2>5
<1>8. ASSUME NEW t \in Threads, CloseAllReturns(t) PROVE Typing'
  <2>1. TypeOK'
    BY <1>8 DEF CloseAllReturns, TypeOK, Labels
  <2>2. Local'
    BY <1>8 DEF CloseAllReturns, TypeOK, Local, Holding
  <2> QED BY <2>1, <2>2
<1>9. ASSUME NEW o \in Objects, DirectoryInsert(o) PROVE Typing'
  <2>1. refs' \in [Objects -> 0 .. MaxCount]
    BY <1>9, CountUp DEF DirectoryInsert, CanReference, TypeOK
  <2> QED BY <1>9, <2>1 DEF DirectoryInsert, TypeOK, Local
<1>10. ASSUME NEW o \in Objects, NEW tab \in Tables, OpenOwned(tab, o) PROVE Typing'
  BY <1>10, OpenEntryTypes, Zenon DEF OpenOwned, OpenEntry, TypeOK, Local
<1>11. ASSUME NEW t \in Threads, NEW o \in Objects, ReleaseOwner(t, o) PROVE Typing'
  BY <1>11 DEF ReleaseOwner, TypeOK, Labels, Pointer, Local, Holding
<1>12. ASSUME NEW t \in Threads, NEW o \in Objects, DirectoryLookup(t, o) PROVE Typing'
  <2>1. refs' \in [Objects -> 0 .. MaxCount]
    BY <1>12, CountUp DEF DirectoryLookup, CanReference, TypeOK
  <2> QED BY <1>12, <2>1 DEF DirectoryLookup, TypeOK, Labels, Pointer, Local, Holding
<1>13. ASSUME NEW t \in Threads, NEW o \in Objects, DirectoryRemove(t, o) PROVE Typing'
  BY <1>13 DEF DirectoryRemove, TypeOK, Labels, Pointer, Local, Holding
<1>14. ASSUME NEW t \in Threads, NEW e \in Entries, NEW label \in {"using", "release", "duplicate"},
              NEW tab \in Tables, ReferenceEntry(t, e, label),
              into' = into \/ into' = [into EXCEPT ![t] = tab]
       PROVE  Typing'
  <2>1. entry[e] \in Objects
    BY <1>14 DEF ReferenceEntry, TypeOK, Pointer
  <2>2. TypeOK'
    <3>1. refs' \in [Objects -> 0 .. MaxCount]
      <4>1. refs' = [refs EXCEPT ![entry[e]] = @ + 1] /\ refs[entry[e]] # MaxCount
        BY <1>14 DEF ReferenceEntry, CanReference
      <4>2. refs \in [Objects -> 0 .. MaxCount]
        BY DEF TypeOK
      <4> QED BY <2>1, <4>1, <4>2, CountUp
    <3> QED BY <1>14, <2>1, <3>1 DEF ReferenceEntry, TypeOK, Labels, Pointer
  <2>3. Local'
    BY <1>14, <2>1 DEF ReferenceEntry, TypeOK, Local, Holding
  <2> QED BY <2>2, <2>3
<1>15. ASSUME NEW t \in Threads, NEW e \in Entries, Close(t, e) PROVE Typing'
  <2>1. TypeOK'
    BY <1>15, ClearEntryTypes, Zenon DEF Close, ClearEntry, TypeOK, Labels
  <2>2. Local'
    BY <1>15, ClearEntryTypes DEF Close, ClearEntry, TypeOK, Local, Holding
  <2> QED BY <2>1, <2>2
<1>16. ASSUME NEW t \in Threads, NEW tab \in Tables, CloseAll(t, tab) PROVE Typing'
  BY <1>16 DEF CloseAll, TypeOK, Labels, Local, Holding
<1>17. CASE UNCHANGED vars
  BY <1>17 DEF vars, TypeOK, Local
<1>18. ASSUME NEW t \in Threads, NEW e \in Entries, Lookup(t, e) PROVE Typing'
  <2>1. PICK tab \in Tables : TRUE
    OBVIOUS
  <2> QED BY <1>14, <1>18, <2>1 DEF Lookup
<1>19. ASSUME NEW t \in Threads, NEW e \in Entries, NEW tab \in Tables, Duplicate(t, e, tab)
       PROVE  Typing'
  BY <1>14, <1>19, Zenon DEF Duplicate
<1> QED
  BY <1>1, <1>2, <1>3, <1>4, <1>5, <1>6, <1>7, <1>8, <1>9, <1>10, <1>11, <1>12, <1>13, <1>15,
     <1>16, <1>17, <1>18, <1>19 DEF Next, Step

\* Counters keep their width and pointers are NULL or objects.
THEOREM TypeCorrect == Spec => []TypeOK
<1>1. Spec => []Typing
  BY TypingInit, TypingNext, PTL DEF Spec
<1>2. Typing => TypeOK
  BY DEF Typing
<1> QED BY <1>1, <1>2, PTL
=============================================================================
