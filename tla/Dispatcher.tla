------------------------------ MODULE Dispatcher ------------------------------
(***************************************************************************)
(* Waits on events, mutexes, semaphores and timers of one dispatcher domain *)
(* (kernel/executive/wait/dispatcher.c) over the ready queues of Scheduler. *)
(* Every routine runs under the domain lock, so each is one action.  A step *)
(* of several calls is a composition of operators on x = [s, d, op].        *)
(***************************************************************************)
EXTENDS Scheduler

CONSTANTS
    Objects,
    Kinds,       \* what the objects may be initialised as
    Limit,       \* semaphore limit
    MaxDepth,    \* bound on mutex recursion
    WaitLists,   \* the object sequences threads wait on
    NoThread

ASSUME DispatcherAssumption ==
    /\ Limit \in Nat \ {0} /\ MaxDepth \in Nat \ {0} /\ NoThread \notin Threads
    /\ Kinds \subseteq [Objects -> {"notification", "event", "mutex", "semaphore", "timer"}]
    /\ \A l \in WaitLists : l # <<>> /\ IsInjective(l) /\ \A i \in 1 .. Len(l) : l[i] \in Objects

VARIABLES
    d,        \* [kind, sig, waiters, owner, depth, timer] of every object
    op        \* op[t]: the wait operation of thread t

vars == <<s, d, op>>

-----------------------------------------------------------------------------

NoOp == [pending |-> FALSE, objs |-> <<>>, all |-> FALSE, deadline |-> FALSE]

Of(o, k) == d.kind[o] = k

OnObjects(w) == {w.objs[i] : i \in 1 .. Len(w.objs)}

ObjectIsReady(x, o, t) ==
    IF Of(o, "mutex") THEN x.d.owner[o] \in {NoThread, t} ELSE x.d.sig[o] # 0

\* Variant: a wait-all completes as soon as one object is ready.
OperationCanCompleteEarly(x, t, w) == \E o \in OnObjects(w) : ObjectIsReady(x, o, t)

OperationCanComplete(x, t, w) ==
    IF w.all THEN \A o \in OnObjects(w) : ObjectIsReady(x, o, t)
             ELSE \E o \in OnObjects(w) : ObjectIsReady(x, o, t)

ConsumeObject(x, o, t) ==
    CASE Of(o, "mutex") -> [x EXCEPT !.d.owner[o] = t, !.d.depth[o] = @ + 1, !.d.sig[o] = 0]
      [] Of(o, "semaphore") -> [x EXCEPT !.d.sig[o] = @ - 1]
      [] Of(o, "event") \/ Of(o, "timer") -> [x EXCEPT !.d.sig[o] = 0]
      [] OTHER -> x

\* Wait-any takes the first ready object, wait-all takes every one.
Consumed(x, t, w) ==
    IF w.all THEN OnObjects(w)
    ELSE {w.objs[CHOOSE i \in 1 .. Len(w.objs) :
             /\ ObjectIsReady(x, w.objs[i], t)
             /\ \A j \in 1 .. i - 1 : ~ObjectIsReady(x, w.objs[j], t)]}

ConsumeOperation(x, t, w) ==
    FoldLeft(LAMBDA y, o : IF o \in Consumed(x, t, w) THEN ConsumeObject(y, o, t) ELSE y, x, w.objs)

HighestWaiter(x, m) ==
    Highest({Base[x.d.owner[m]]} \cup {x.s.prio[x.d.waiters[m][i]] : i \in 1 .. Len(x.d.waiters[m])})

RefreshMutexInheritance(x, m) ==
    LET t == x.d.owner[m]
    IN  IF t = NoThread THEN x
        ELSE IF HighestWaiter(x, m) > Base[t]
             THEN [x EXCEPT !.s = InheritPriority(x.s, t, HighestWaiter(x, m))]
             ELSE [x EXCEPT !.s = RestoreBasePriority(x.s, t)]

RefreshMutexes(x, objs) ==
    FoldLeft(LAMBDA y, o : IF Of(o, "mutex") THEN RefreshMutexInheritance(y, o) ELSE y, x, objs)

\* New wait blocks go to the head of each list.
Link(x, t, w) ==
    [x EXCEPT !.d.waiters = [o \in Objects |-> IF o \in OnObjects(w) THEN <<t>> \o @[o] ELSE @[o]]]

\* Variant: only the first wait block is unlinked.
UnlinkFirst(x, t) ==
    [x EXCEPT !.d.waiters[x.op[t].objs[1]] = SelectSeq(@, LAMBDA u : u # t)]

Unlink(x, t) ==
    [x EXCEPT !.d.waiters = [o \in Objects |-> SelectSeq(@[o], LAMBDA u : u # t)]]

\* Unlink, refresh the mutexes waited on, then put the thread in the ready queue.
CompleteOperation(x, t) ==
    LET unlinked  == [Unlink(x, t) EXCEPT !.op[t] = NoOp, !.s.state[t] = "TRANSITION"]
        refreshed == RefreshMutexes(unlinked, x.op[t].objs)
    IN  [refreshed EXCEPT !.s = Enqueue(refreshed.s, t)]

\* Variant: only the newest waiter is looked at.
WakeNewestWaiter(x, o) ==
    LET t == x.d.waiters[o][1]
    IN  IF x.d.waiters[o] # <<>> /\ OperationCanComplete(x, t, x.op[t])
        THEN CompleteOperation(ConsumeOperation(x, t, x.op[t]), t) ELSE x

\* One pass, newest waiter first, over the list as it was when the pass began.
WakeSatisfiedWaiters(x, o) ==
    FoldLeft(LAMBDA y, t :
                IF y.op[t].pending /\ OperationCanComplete(y, t, y.op[t])
                THEN CompleteOperation(ConsumeOperation(y, t, y.op[t]), t) ELSE y,
             x, x.d.waiters[o])

X == [s |-> s, d |-> d, op |-> op]

Becomes(x) == s' = x.s /\ d' = x.d /\ op' = x.op

-----------------------------------------------------------------------------

Init ==
    /\ SchedulerInit
    /\ \E kind \in Kinds :
          d = [kind    |-> kind,
               sig     |-> [o \in Objects |-> IF kind[o] = "mutex" THEN 1 ELSE 0],
               waiters |-> [o \in Objects |-> <<>>],
               owner   |-> [o \in Objects |-> NoThread],
               depth   |-> [o \in Objects |-> 0],
               timer   |-> [o \in Objects |-> "inactive"]]
    /\ op = [t \in Threads |-> NoOp]

Running(t) == s.current = t /\ s.state[t] = "RUNNING"

StartThread(t) ==
    /\ s.state[t] = "INITIALISED"
    /\ s' = Enqueue(s, t)
    /\ UNCHANGED <<d, op>>

TimerInterrupt == Tick /\ UNCHANGED <<d, op>>

Waiting(objs, all, deadline) ==
    [pending |-> TRUE, objs |-> objs, all |-> all, deadline |-> deadline]

WithinDepth(objs) == \A i \in 1 .. Len(objs) : d.depth[objs[i]] < MaxDepth

\* zi_dispatcher_wait, satisfied at once.
WaitSatisfied(t, objs, all) ==
    LET w == Waiting(objs, all, FALSE)
    IN  /\ Running(t) /\ WithinDepth(objs)
        /\ OperationCanComplete(X, t, w)
        /\ Becomes(ConsumeOperation(X, t, w))

\* zi_dispatcher_wait, left pending (a zero timeout returns without a change).
WaitPending(t, objs, all, deadline) ==
    LET w      == Waiting(objs, all, deadline)
        linked == [Link(X, t, w) EXCEPT !.op[t] = w, !.s.state[t] = "WAITING"]
    IN  /\ Running(t) /\ WithinDepth(objs)
        /\ ~OperationCanComplete(X, t, w)
        /\ Becomes(RefreshMutexes(linked, objs))

CancelWait(t) == op[t].pending /\ Becomes(CompleteOperation(X, t))

\* zi_dispatcher_expire_wait once the deadline has passed.
ExpireWait(t) == op[t].pending /\ op[t].deadline /\ Becomes(CompleteOperation(X, t))

EventSet(o) ==
    /\ Of(o, "event") \/ Of(o, "notification")
    /\ Becomes(WakeSatisfiedWaiters([X EXCEPT !.d.sig[o] = 1], o))

EventReset(o) ==
    /\ Of(o, "event") \/ Of(o, "notification")
    /\ Becomes([X EXCEPT !.d.sig[o] = 0])

Released(x, m) ==
    LET t == x.d.owner[m]
    IN  [x EXCEPT !.d.depth[m] = 0, !.d.owner[m] = NoThread, !.d.sig[m] = 1,
                  !.s = RestoreBasePriority(x.s, t)]

\* Only the last release gives the mutex up; the wake may hand it on.
MutexRelease(m) ==
    /\ Of(m, "mutex") /\ d.owner[m] # NoThread /\ Running(d.owner[m])
    /\ IF d.depth[m] > 1 THEN Becomes([X EXCEPT !.d.depth[m] = @ - 1])
       ELSE Becomes(WakeSatisfiedWaiters(Released(X, m), m))

SemaphoreRelease(o, n) ==
    /\ Of(o, "semaphore") /\ n <= Limit - d.sig[o]
    /\ Becomes(WakeSatisfiedWaiters([X EXCEPT !.d.sig[o] = @ + n], o))

TimerSet(o, mode) ==
    /\ Of(o, "timer")
    /\ Becomes([X EXCEPT !.d.timer[o] = mode, !.d.sig[o] = 0])

TimerCancel(o) ==
    /\ Of(o, "timer")
    /\ Becomes([X EXCEPT !.d.timer[o] = "inactive", !.d.sig[o] = 0])

\* zi_timer_tick at or after the due time; a one-shot timer becomes inactive.
TimerTick(o) ==
    /\ Of(o, "timer") /\ d.timer[o] # "inactive"
    /\ Becomes(WakeSatisfiedWaiters(
           [X EXCEPT !.d.sig[o] = 1, !.d.timer[o] = IF @ = "once" THEN "inactive" ELSE @], o))

Next ==
    \/ TimerInterrupt
    \/ \E t \in Threads : StartThread(t) \/ CancelWait(t) \/ ExpireWait(t)
    \/ \E t \in Threads, l \in WaitLists, all \in BOOLEAN :
          \/ WaitSatisfied(t, l, all)
          \/ \E deadline \in BOOLEAN : WaitPending(t, l, all, deadline)
    \/ \E o \in Objects : \/ EventSet(o) \/ EventReset(o) \/ MutexRelease(o)
                          \/ TimerCancel(o) \/ TimerTick(o)
                          \/ \E n \in 1 .. Limit : SemaphoreRelease(o, n)
                          \/ \E mode \in {"once", "periodic"} : TimerSet(o, mode)

Spec == Init /\ [][Next]_vars

-----------------------------------------------------------------------------

SignalMax(o) == IF Of(o, "semaphore") THEN Limit ELSE 1

\* Types; a semaphore stays within its limit and never wraps below zero.
DispatcherTypeOK ==
    /\ SchedulerTypeOK /\ d.kind \in Kinds
    /\ \A o \in Objects : /\ d.sig[o] \in 0 .. SignalMax(o)
                          /\ d.owner[o] \in Threads \cup {NoThread}
                          /\ d.depth[o] \in 0 .. MaxDepth
                          /\ d.timer[o] \in {"inactive", "once", "periodic"}

\* No lost wakeup: between calls no pending wait could have completed.  One
\* pass over the waiters of the object that changed is therefore enough, also
\* for wait-all and for waiters that compete for the same signal.
NoLostWakeup ==
    \A t \in Threads : op[t].pending => ~OperationCanComplete(X, t, op[t])

\* The wait lists, the operations and the thread states agree: a thread is on
\* the list of exactly the objects it waits on, once, and only while WAITING.
\* A wait that ended by signal, cancel or expiry leaves no block behind.
WaitersExact ==
    \A t \in Threads :
        /\ op[t].pending <=> s.state[t] = "WAITING"
        /\ \A o \in Objects :
              Cardinality({i \in 1 .. Len(d.waiters[o]) : d.waiters[o][i] = t})
                  = IF op[t].pending /\ o \in OnObjects(op[t]) THEN 1 ELSE 0

\* A mutex is owned, held to some depth and unsignalled, or none of the three.
MutexesExact ==
    \A m \in Objects : Of(m, "mutex") =>
        /\ d.owner[m] # NoThread <=> d.depth[m] > 0
        /\ d.owner[m] # NoThread <=> d.sig[m] = 0

\* Inheritance ends: a thread that owns no mutex runs at its base priority.
NoMutexNoBoost ==
    \A t \in Threads : (\A m \in Objects : d.owner[m] # t) => s.prio[t] = Base[t]

\* Threads, queues, wait lists and mutexes agree after every call: a thread waits
\* where it is listed, is queued where it is ready, owns what it has taken, and
\* keeps a raised priority only as long as it owns a mutex.
WaitsConsistent ==
    DispatcherTypeOK /\ ReadyQueuesExact /\ BandsKept /\ WaitersExact /\ MutexesExact /\ NoMutexNoBoost

\* Ownership is lost only by the running owner's last release; no waiter takes
\* a mutex from its owner.
OwnerKeepsMutex ==
    [][\A m \in Objects : d.owner[m] # NoThread /\ d'.owner[m] # d.owner[m] =>
          Running(d.owner[m]) /\ d.depth[m] = 1]_vars

=============================================================================
