---------------------------- MODULE ObjectManager ----------------------------
(***************************************************************************)
(* Lifetime of executive objects: reference and handle counts, handle       *)
(* tables, and the named entries of an object directory, used by threads    *)
(* that interleave between the lock sections of                             *)
(* kernel/executive/{object/object.c,handle/handle.c}.                      *)
(***************************************************************************)
EXTENDS Naturals, FiniteSets

CONSTANTS
    Objects, Threads, Tables,
    Capacity,       \* entries of a handle table
    DirCapacity,    \* entries of the object directory
    HasCallback,    \* objects whose type has a last_handle_closed routine
    MaxCount,       \* UINT32_MAX of reference_count and handle_count
    MaxGeneration,  \* UINT32_MAX of an entry's generation
    NoObject        \* NULL

ASSUME ObjectAssumption ==
    /\ IsFiniteSet(Threads) /\ IsFiniteSet(Tables) /\ Tables # {} /\ HasCallback \subseteq Objects
    /\ Capacity \in Nat \ {0} /\ DirCapacity \in Nat
    /\ MaxCount \in Nat \ {0} /\ MaxGeneration \in Nat \ {0}
    /\ NoObject \notin Objects

Entries     == Tables \X (1 .. Capacity)
Generations == 1 .. MaxGeneration
Pointer     == Objects \cup {NoObject}

VARIABLES
    refs, handles,   \* reference_count and handle_count of an object
    disabled,        \* objects with NEW_HANDLES_DISABLED
    destroyed,       \* objects with is_destroyed set
    entry,           \* the object of a handle table entry; NoObject if free
    gen,             \* the entry's generation; 0 when retired
    closing,         \* tables with is_closing set
    owned,           \* objects whose creator still holds its reference
    named,           \* objects entered in the directory
    pc,              \* where a thread is
    held,            \* the object a thread holds a counted reference to
    dying,           \* the object whose destroy routine a thread must call
    into,            \* the table a thread closes, or duplicates a handle into
    index,           \* the entry zi_handle_table_close_all has reached
    issued,          \* history: the object a handle was returned for
    called, ended,   \* history: objects whose last_handle_closed, destroy ran
    drained          \* history: tables whose close_all has returned

counts == <<refs, handles, disabled, destroyed>>
tables == <<entry, gen, closing, issued, drained>>
local  == <<pc, held, dying, into, index>>
vars   == <<refs, handles, disabled, destroyed, entry, gen, closing, owned, named,
            pc, held, dying, into, index, issued, called, ended, drained>>

Init ==
    /\ refs = [o \in Objects |-> 1] /\ handles = [o \in Objects |-> 0]
    /\ disabled = {} /\ destroyed = {}
    /\ entry = [e \in Entries |-> NoObject] /\ gen = [e \in Entries |-> 1]
    /\ closing = {} /\ owned = Objects /\ named = {}
    /\ pc = [t \in Threads |-> "idle"] /\ held = [t \in Threads |-> NoObject]
    /\ dying = [t \in Threads |-> NoObject]
    /\ into = [t \in Threads |-> CHOOSE tab \in Tables : TRUE] /\ index = [t \in Threads |-> 0]
    /\ issued = [e \in Entries |-> [g \in Generations |-> NoObject]]
    /\ called = {} /\ ended = {} /\ drained = {}

Goto(t, label) == pc' = [pc EXCEPT ![t] = label]

-----------------------------------------------------------------------------
(* object.c                                                                 *)

CanReference(o) == o \notin destroyed /\ refs[o] # MaxCount

\* object_release_locked: the last reference destroys, unless a handle is open.
LastRelease(o) == refs[o] = 1 /\ handles[o] = 0

Release(o) ==
    /\ refs' = IF refs[o] = 1 /\ handles[o] # 0 THEN refs ELSE [refs EXCEPT ![o] = @ - 1]
    /\ destroyed' = IF LastRelease(o) THEN destroyed \cup {o} ELSE destroyed
    /\ UNCHANGED <<handles, disabled>>

\* zi_object_dereference by thread t of the reference it holds; a thread that
\* destroyed the object goes on to call its destroy routine.
Dereference(t) ==
    /\ pc[t] \in {"using", "release"}
    /\ held[t] \notin destroyed /\ refs[held[t]] # 0
    /\ Release(held[t])
    /\ held' = [held EXCEPT ![t] = NoObject]
    /\ dying' = [dying EXCEPT ![t] = IF LastRelease(held[t]) THEN held[t] ELSE NoObject]
    /\ Goto(t, IF LastRelease(held[t]) THEN "destroy" ELSE "idle")
    /\ UNCHANGED <<tables, owned, named, into, index, called, ended>>

\* The creator gives up the reference of zi_object_initialise: it becomes the
\* reference of the thread that will dereference it.
ReleaseOwner(t, o) ==
    /\ pc[t] = "idle" /\ o \in owned
    /\ owned' = owned \ {o}
    /\ held' = [held EXCEPT ![t] = o] /\ Goto(t, "release")
    /\ UNCHANGED <<counts, tables, named, dying, into, index, called, ended>>

\* The destroy routine, outside the lock.
Destroy(t) ==
    /\ pc[t] = "destroy"
    /\ ended' = ended \cup {dying[t]}
    /\ dying' = [dying EXCEPT ![t] = NoObject]
    /\ Goto(t, IF index[t] = 0 THEN "idle" ELSE "closeall")
    /\ UNCHANGED <<counts, tables, owned, named, held, into, index, called>>

CanAddHandle(o) ==
    /\ o \notin destroyed /\ handles[o] # MaxCount /\ refs[o] # MaxCount
    /\ o \notin disabled

\* First section of zi_object_remove_handle.
RemoveHandle(t) ==
    /\ pc[t] = "remove"
    /\ held[t] \notin destroyed /\ handles[held[t]] # 0 /\ refs[held[t]] # 0
    /\ LET o    == held[t]
           last == handles[o] = 1 /\ o \in HasCallback
       IN  /\ handles' = [handles EXCEPT ![o] = @ - 1]
           /\ disabled' = IF last THEN disabled \cup {o} ELSE disabled
           /\ Goto(t, IF last THEN "callback" ELSE "unref")
    /\ UNCHANGED <<refs, destroyed, tables, owned, named, held, dying, into, index, called, ended>>

\* The last_handle_closed routine, outside the lock.
LastHandleClosed(t) ==
    /\ pc[t] = "callback"
    /\ called' = called \cup {held[t]}
    /\ Goto(t, "unref")
    /\ UNCHANGED <<counts, tables, owned, named, held, dying, into, index, ended>>

\* Second section: the handle's reference goes.
ReleaseHandle(t) ==
    /\ pc[t] = "unref"
    /\ held[t] \notin destroyed /\ refs[held[t]] # 0
    /\ Release(held[t])
    /\ held' = [held EXCEPT ![t] = NoObject]
    /\ dying' = [dying EXCEPT ![t] = IF LastRelease(held[t]) THEN held[t] ELSE NoObject]
    /\ Goto(t, IF LastRelease(held[t]) THEN "destroy"
               ELSE IF index[t] = 0 THEN "idle" ELSE "closeall")
    /\ UNCHANGED <<tables, owned, named, into, index, called, ended>>

\* zi_object_directory_insert of an object the caller owns.
DirectoryInsert(o) ==
    /\ o \in owned /\ o \notin named
    /\ Cardinality(named) < DirCapacity /\ CanReference(o)
    /\ refs' = [refs EXCEPT ![o] = @ + 1]
    /\ named' = named \cup {o}
    /\ UNCHANGED <<handles, disabled, destroyed, tables, owned, local, called, ended>>

\* zi_object_directory_lookup.
DirectoryLookup(t, o) ==
    /\ pc[t] = "idle" /\ o \in named /\ CanReference(o)
    /\ refs' = [refs EXCEPT ![o] = @ + 1]
    /\ held' = [held EXCEPT ![t] = o] /\ Goto(t, "using")
    /\ UNCHANGED <<handles, disabled, destroyed, tables, owned, named, dying, into, index,
                   called, ended>>

\* zi_object_directory_remove: the entry's reference goes to the caller, who
\* keeps it (out_object given) or dereferences it at once.
DirectoryRemove(t, o) ==
    /\ pc[t] = "idle" /\ o \in named
    /\ named' = named \ {o}
    /\ held' = [held EXCEPT ![t] = o]
    /\ \E label \in {"using", "release"} : Goto(t, label)
    /\ UNCHANGED <<counts, tables, owned, dying, into, index, called, ended>>

-----------------------------------------------------------------------------
(* handle.c                                                                 *)

\* Variant: generations wrap to 1.
NextGenerationWraps(g) == IF g = MaxGeneration THEN 1 ELSE g + 1

NextGeneration(g) == IF g = MaxGeneration THEN 0 ELSE g + 1

IsFree(e) == entry[e] = NoObject /\ gen[e] # 0

\* A handle is an entry and a generation; Live when it would be resolved.
Live(e, g) == entry[e] # NoObject /\ gen[e] = g

\* The part of zi_handle_open under the table lock: the first free entry.
OpenEntry(tab, o) ==
    /\ tab \notin closing /\ CanAddHandle(o)
    /\ \E i \in 1 .. Capacity :
          /\ IsFree(<<tab, i>>) /\ \A j \in 1 .. i - 1 : ~IsFree(<<tab, j>>)
          /\ entry' = [entry EXCEPT ![<<tab, i>>] = o]
          /\ issued' = [issued EXCEPT ![<<tab, i>>][gen[<<tab, i>>]] = o]
    /\ refs' = [refs EXCEPT ![o] = @ + 1]
    /\ handles' = [handles EXCEPT ![o] = @ + 1]
    /\ UNCHANGED <<disabled, destroyed, gen, closing, drained>>

\* zi_handle_open on behalf of the object's creator.
OpenOwned(tab, o) ==
    /\ o \in owned
    /\ OpenEntry(tab, o)
    /\ UNCHANGED <<owned, named, local, called, ended>>

\* reference_handle_entry, under the table lock.
ReferenceEntry(t, e, label) ==
    /\ pc[t] = "idle"
    /\ e[1] \notin closing /\ entry[e] # NoObject /\ CanReference(entry[e])
    /\ refs' = [refs EXCEPT ![entry[e]] = @ + 1]
    /\ held' = [held EXCEPT ![t] = entry[e]] /\ Goto(t, label)
    /\ UNCHANGED <<handles, disabled, destroyed, tables, owned, named, dying, index, called, ended>>

\* zi_handle_lookup: the caller gets the reference, or access is denied or
\* the type is wrong and the reference is dropped.
Lookup(t, e) ==
    \E label \in {"using", "release"} : ReferenceEntry(t, e, label) /\ UNCHANGED into

\* zi_handle_duplicate: reference the source entry, open in the target table
\* (or fail), drop the reference.
Duplicate(t, e, tab) ==
    ReferenceEntry(t, e, "duplicate") /\ into' = [into EXCEPT ![t] = tab]

\* Variant: a failed open keeps the reference to the source object.
DuplicateOpenLeaks(t) ==
    /\ pc[t] = "duplicate"
    /\ \/ OpenEntry(into[t], held[t]) /\ Goto(t, "release") /\ UNCHANGED held
       \/ /\ UNCHANGED <<counts, tables>>
          /\ Goto(t, "idle") /\ held' = [held EXCEPT ![t] = NoObject]
    /\ UNCHANGED <<owned, named, dying, into, index, called, ended>>

\* Variant: the open is retried until it succeeds.
DuplicateOpenRetries(t) ==
    /\ pc[t] = "duplicate"
    /\ OpenEntry(into[t], held[t]) /\ Goto(t, "release")
    /\ UNCHANGED <<owned, named, held, dying, into, index, called, ended>>

DuplicateOpen(t) ==
    /\ pc[t] = "duplicate"
    /\ \/ OpenEntry(into[t], held[t])
       \/ UNCHANGED <<counts, tables>>
    /\ Goto(t, "release")
    /\ UNCHANGED <<owned, named, held, dying, into, index, called, ended>>

\* Take the object out of an entry and bump the generation.  The entry's
\* reference is now the thread's, which goes on to zi_object_remove_handle.
ClearEntry(t, e) ==
    /\ entry[e] # NoObject
    /\ held' = [held EXCEPT ![t] = entry[e]]
    /\ entry' = [entry EXCEPT ![e] = NoObject]
    /\ gen' = [gen EXCEPT ![e] = NextGeneration(gen[e])]
    /\ Goto(t, "remove")

\* zi_handle_close of the handle that names entry e now.
Close(t, e) ==
    /\ pc[t] = "idle"
    /\ ClearEntry(t, e)
    /\ UNCHANGED <<counts, closing, issued, drained, owned, named, dying, into, index, called, ended>>

\* Variant: the table goes on accepting handles.
CloseAllStaysOpen(t, tab) ==
    /\ pc[t] = "idle"
    /\ into' = [into EXCEPT ![t] = tab] /\ index' = [index EXCEPT ![t] = 1]
    /\ Goto(t, "closeall")
    /\ UNCHANGED <<counts, tables, owned, named, held, dying, called, ended>>

\* zi_handle_table_close_all: refuse new handles, then empty entry by entry,
\* giving the lock up while an object's handle is removed.
CloseAll(t, tab) ==
    /\ pc[t] = "idle"
    /\ closing' = closing \cup {tab}
    /\ into' = [into EXCEPT ![t] = tab] /\ index' = [index EXCEPT ![t] = 1]
    /\ Goto(t, "closeall")
    /\ UNCHANGED <<counts, entry, gen, issued, drained, owned, named, held, dying, called, ended>>

CloseNext(t) ==
    /\ pc[t] = "closeall"
    /\ \E i \in index[t] .. Capacity :
          /\ \A j \in index[t] .. i - 1 : entry[<<into[t], j>>] = NoObject
          /\ ClearEntry(t, <<into[t], i>>)
          /\ index' = [index EXCEPT ![t] = i + 1]
    /\ UNCHANGED <<counts, closing, issued, drained, owned, named, dying, into, called, ended>>

CloseAllReturns(t) ==
    /\ pc[t] = "closeall"
    /\ \A j \in index[t] .. Capacity : entry[<<into[t], j>>] = NoObject
    /\ index' = [index EXCEPT ![t] = 0]
    /\ drained' = drained \cup {into[t]}
    /\ Goto(t, "idle")
    /\ UNCHANGED <<counts, entry, gen, closing, issued, owned, named, held, dying, into, called, ended>>

Step(t) ==
    \/ Dereference(t) \/ Destroy(t) \/ RemoveHandle(t) \/ LastHandleClosed(t) \/ ReleaseHandle(t)
    \/ DuplicateOpen(t) \/ CloseNext(t) \/ CloseAllReturns(t)

Next ==
    \/ \E t \in Threads : Step(t)
    \/ \E o \in Objects : DirectoryInsert(o) \/ \E tab \in Tables : OpenOwned(tab, o)
    \/ \E t \in Threads, o \in Objects :
          ReleaseOwner(t, o) \/ DirectoryLookup(t, o) \/ DirectoryRemove(t, o)
    \/ \E t \in Threads, e \in Entries : Lookup(t, e) \/ Close(t, e)
    \/ \E t \in Threads, e \in Entries, tab \in Tables : Duplicate(t, e, tab)
    \/ \E t \in Threads, tab \in Tables : CloseAll(t, tab)

Spec == Init /\ [][Next]_vars

\* A thread inside an operation is scheduled again until it leaves it.
FairSpec == Spec /\ \A t \in Threads : WF_vars(Step(t))

-----------------------------------------------------------------------------
(* Properties.                                                              *)

Labels == {"idle", "using", "release", "destroy", "remove", "callback", "unref", "duplicate", "closeall"}

\* Counters stay in their width and every pointer is NULL or an object.
TypeOK ==
    /\ refs \in [Objects -> 0 .. MaxCount] /\ handles \in [Objects -> 0 .. MaxCount]
    /\ disabled \subseteq Objects /\ destroyed \subseteq Objects
    /\ entry \in [Entries -> Pointer] /\ gen \in [Entries -> 0 .. MaxGeneration]
    /\ closing \subseteq Tables /\ drained \subseteq Tables
    /\ owned \subseteq Objects /\ named \subseteq Objects
    /\ pc \in [Threads -> Labels] /\ held \in [Threads -> Pointer] /\ dying \in [Threads -> Pointer]
    /\ into \in [Threads -> Tables] /\ index \in [Threads -> 0 .. Capacity + 1]
    /\ issued \in [Entries -> [Generations -> Pointer]]
    /\ called \subseteq Objects /\ ended \subseteq Objects

EntriesOf(o)  == {e \in Entries : entry[e] = o}
HoldersOf(o)  == {t \in Threads : held[t] = o}
RemoversOf(o) == {t \in Threads : held[t] = o /\ pc[t] = "remove"}

\* reference_count is exactly the number of pointers that own a reference:
\* nothing leaks one and nothing is released twice, on any failure path.
RefsExact ==
    \A o \in Objects :
        refs[o] = Cardinality(EntriesOf(o)) + Cardinality(HoldersOf(o))
                  + (IF o \in owned THEN 1 ELSE 0) + (IF o \in named THEN 1 ELSE 0)

\* handle_count is the number of open handles, counting those between
\* zi_handle_close and zi_object_remove_handle.
HandlesExact ==
    \A o \in Objects : handles[o] = Cardinality(EntriesOf(o)) + Cardinality(RemoversOf(o))

\* Both counts are exact after every lock section of any thread, the failure
\* paths of zi_handle_open and zi_handle_duplicate included.
CountsMatchHolders == RefsExact /\ HandlesExact

\* An object is destroyed exactly when nobody refers to it any more, so no
\* handle, directory entry or thread is left with a destroyed object.
DestroyedIffUnreferenced == \A o \in Objects : (o \in destroyed) <=> (refs[o] = 0)

\* The destroy routine runs once, in one thread.
DestroyOnce ==
    \A t \in Threads : pc[t] = "destroy" =>
        /\ dying[t] \in destroyed \ ended
        /\ \A u \in Threads \ {t} : pc[u] = "destroy" => dying[u] # dying[t]

\* When last_handle_closed runs there is no handle to the object, there will
\* be none, it runs in one thread only, and never again.
LastHandleIsLast ==
    /\ \A t \in Threads : pc[t] = "callback" =>
          /\ held[t] \in disabled \ called
          /\ \A u \in Threads \ {t} : pc[u] = "callback" => held[u] # held[t]
    /\ \A o \in disabled : EntriesOf(o) = {} /\ handles[o] = 0

\* The two callbacks of an object type run at most once for an object, outside
\* the lock, whichever threads drop the last handle and the last reference.
RoutinesRunOnce == DestroyOnce /\ LastHandleIsLast

\* The lifetime of every object is exact: its counts are those of its holders, it
\* is destroyed with the last of them, and its callbacks run once.
LifetimesExact == TypeOK /\ CountsMatchHolders /\ DestroyedIffUnreferenced /\ RoutinesRunOnce

\* A handle that stopped resolving never resolves again, to anything
\* (next_generation retires an entry instead of wrapping).
StaleStaysStale ==
    [][\A e \in Entries : \A g \in Generations :
          issued[e][g] # NoObject /\ ~Live(e, g) => ~Live(e, g)']_vars

\* A handle resolves to the object it was returned for.
ResolvesToIssued ==
    \A e \in Entries : entry[e] # NoObject => gen[e] # 0 /\ issued[e][gen[e]] = entry[e]

\* Once zi_handle_table_close_all has returned the table is empty, whatever
\* opens, duplicates and closes ran meanwhile.
DrainedIsEmpty == \A e \in Entries : e[1] \in drained => entry[e] = NoObject

\* A handle value that resolves names the object it was issued for, and a table
\* that was closed has none, whatever ran while the sweep gave its lock up.
TablesExact == ResolvesToIssued /\ DrainedIsEmpty

\* Every operation returns, close_all included: a thread that stops using its
\* reference is idle again.
OperationsReturn == \A t \in Threads : (pc[t] # "idle") ~> (pc[t] = "idle")

=============================================================================
