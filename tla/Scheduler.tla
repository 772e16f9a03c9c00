------------------------------ MODULE Scheduler ------------------------------
(***************************************************************************)
(* The ready queues of one processor (kernel/executive/scheduler/           *)
(* scheduler.c).  Each routine is an operator on the scheduler state s, so  *)
(* that the dispatcher can call several of them in one lock section.        *)
(***************************************************************************)
EXTENDS Naturals, FiniteSets, Sequences, SequencesExt

CONSTANTS
    Threads,
    Idle,         \* the idle thread, which is never queued
    Base,         \* base_priority of every thread
    Eligible,     \* threads whose affinity mask includes this processor
    DynamicMax,   \* ZI_SCHEDULER_DYNAMIC_PRIORITY_MAX; realtime starts above it
    TopPriority,  \* ZI_SCHEDULER_PRIORITY_COUNT - 1
    Quantum       \* ZI_SCHEDULER_DEFAULT_QUANTUM

ASSUME SchedulerAssumption ==
    /\ IsFiniteSet(Threads) /\ Idle \notin Threads /\ Eligible \subseteq Threads
    /\ DynamicMax \in Nat /\ TopPriority \in Nat /\ DynamicMax < TopPriority
    /\ Base \in [Threads -> 0 .. TopPriority]
    /\ Quantum \in Nat \ {0}

Priorities == 0 .. TopPriority

VARIABLE s   \* [queue, bitmap, prio, queued, state, left, current]

-----------------------------------------------------------------------------

\* Variant: the thread joins the head of its queue.
EnqueueAtHead(x, t) ==
    [x EXCEPT !.queue[x.prio[t]] = <<t>> \o @,
              !.queued = @ \cup {t},
              !.state[t] = "READY",
              !.bitmap = @ \cup {x.prio[t]}]

Enqueue(x, t) ==
    [x EXCEPT !.queue[x.prio[t]] = Append(@, t),
              !.queued = @ \cup {t},
              !.state[t] = "READY",
              !.bitmap = @ \cup {x.prio[t]}]

\* The bitmap bit is cleared with the last thread of the level.
RemoveThread(x, t) ==
    LET rest == SelectSeq(x.queue[x.prio[t]], LAMBDA u : u # t)
    IN  [x EXCEPT !.queue[x.prio[t]] = rest,
                  !.queued = @ \ {t},
                  !.bitmap = IF rest = <<>> THEN @ \ {x.prio[t]} ELSE @]

\* highest_ready_priority of a non-empty bitmap.
Highest(bitmap) == CHOOSE p \in bitmap : \A q \in bitmap : q <= p

CanRun(x, p) == {i \in 1 .. Len(x.queue[p]) : x.queue[p][i] \in Eligible}

\* The first thread, of the highest level that has one, that may run here.
SelectNext(x) ==
    LET levels == {p \in x.bitmap : CanRun(x, p) # {}}
        p      == Highest(levels)
        first  == CHOOSE i \in CanRun(x, p) : \A j \in CanRun(x, p) : i <= j
        t      == x.queue[p][first]
    IN  IF levels = {} THEN [x EXCEPT !.current = Idle]
        ELSE [RemoveThread(x, t) EXCEPT !.state[t] = "RUNNING", !.current = t]

Refill(x) ==
    IF x.current # Idle /\ x.left[x.current] = 0 THEN [x EXCEPT !.left[x.current] = Quantum] ELSE x

\* Variant: a thread keeps the processor until its quantum is used up.
OnTickNoPreempt(x) ==
    LET c    == x.current
        left == (IF x.left[c] = 0 THEN Quantum ELSE x.left[c]) - 1
    IN  IF c = Idle THEN IF x.bitmap = {} THEN x ELSE Refill(SelectNext(x))
        ELSE IF x.state[c] # "RUNNING" THEN Refill(SelectNext(x))
        ELSE IF left # 0 THEN [x EXCEPT !.left[c] = left]
        ELSE Refill(SelectNext(Enqueue([x EXCEPT !.left[c] = Quantum], c)))

\* zi_scheduler_on_tick.
OnTick(x) ==
    LET c       == x.current
        running == c # Idle /\ x.state[c] = "RUNNING"
        left    == (IF x.left[c] = 0 THEN Quantum ELSE x.left[c]) - 1
        preempt == x.bitmap # {} /\ Highest(x.bitmap) > x.prio[c]
    IN  IF c = Idle THEN IF x.bitmap = {} THEN x ELSE Refill(SelectNext(x))
        ELSE IF ~running THEN Refill(SelectNext(x))
        ELSE IF left # 0 /\ ~preempt THEN [x EXCEPT !.left[c] = left]
        ELSE Refill(SelectNext(Enqueue([x EXCEPT !.left[c] = Quantum], c)))

\* Variant: a queued thread stays where it is.
SetPriorityInPlace(x, t, p) == [x EXCEPT !.prio[t] = p]

\* A queued thread moves to the queue of its new priority.
SetPriority(x, t, p) ==
    IF t \in x.queued
    THEN Enqueue([RemoveThread(x, t) EXCEPT !.prio[t] = p], t)
    ELSE [x EXCEPT !.prio[t] = p]

Clamp(p) == IF p <= DynamicMax THEN p ELSE DynamicMax

InheritPriority(x, t, p) ==
    IF x.prio[t] > DynamicMax \/ Clamp(p) <= x.prio[t] THEN x ELSE SetPriority(x, t, Clamp(p))

RestoreBasePriority(x, t) ==
    IF x.prio[t] = Base[t] \/ x.prio[t] > DynamicMax THEN x ELSE SetPriority(x, t, Base[t])

BoostPriority(x, t, n) ==
    IF x.prio[t] > DynamicMax THEN x ELSE [x EXCEPT !.prio[t] = Clamp(@ + n)]

DecayPriority(x, t) ==
    IF x.prio[t] > DynamicMax \/ x.prio[t] <= Base[t] THEN x ELSE [x EXCEPT !.prio[t] = @ - 1]

-----------------------------------------------------------------------------
(* The scheduler on its own: threads become ready, block, are boosted while *)
(* they run, and the timer ticks.                                           *)

SchedulerInit ==
    s = [queue   |-> [p \in Priorities |-> <<>>],
         bitmap  |-> {},
         prio    |-> Base,
         queued  |-> {},
         state   |-> [t \in Threads |-> "INITIALISED"],
         left    |-> [t \in Threads |-> Quantum],
         current |-> Idle]

Ready(t) ==
    /\ s.state[t] \in {"INITIALISED", "WAITING"} /\ t \notin s.queued
    /\ s' = Enqueue(s, t)

\* The running thread starts to wait; it stays current until the next tick.
Block(t) ==
    /\ s.current = t /\ s.state[t] = "RUNNING"
    /\ s' = [s EXCEPT !.state[t] = "WAITING"]

Boost(t) == s.current = t /\ s.state[t] = "RUNNING" /\ s' = BoostPriority(s, t, 1)

Decay(t) == s.current = t /\ s.state[t] = "RUNNING" /\ s' = DecayPriority(s, t)

Inherit(t, p) == s' = InheritPriority(s, t, p)

Restore(t) == s' = RestoreBasePriority(s, t)

\* zi_x64_preemption_handle_tick calls zi_scheduler_on_tick.
Tick == s' = OnTick(s)

SchedulerNext ==
    \/ Tick
    \/ \E t \in Threads : Ready(t) \/ Block(t) \/ Boost(t) \/ Decay(t) \/ Restore(t)
    \/ \E t \in Threads, p \in Priorities : Inherit(t, p)

\* The timer keeps ticking.
SchedulerSpec == SchedulerInit /\ [][SchedulerNext]_s /\ WF_s(Tick)

-----------------------------------------------------------------------------

States == {"INITIALISED", "TRANSITION", "READY", "RUNNING", "WAITING"}

\* Fields range over what the C types and enumerations allow.
SchedulerTypeOK ==
    /\ \A p \in Priorities : \A i \in 1 .. Len(s.queue[p]) : s.queue[p][i] \in Threads
    /\ s.bitmap \subseteq Priorities /\ s.queued \subseteq Threads
    /\ s.prio \in [Threads -> Priorities] /\ s.left \in [Threads -> 0 .. Quantum]
    /\ s.state \in [Threads -> States] /\ s.current \in Threads \cup {Idle}

\* A queued thread is in exactly one queue, once, at its current priority, the
\* bitmap has a bit for each non-empty queue, READY means queued, and only the
\* current thread is RUNNING: no thread is lost to selection when inheritance
\* changes the priority of a queued thread or a waiter is made ready.
ReadyQueuesExact ==
    /\ \A t \in Threads :
          /\ (t \in s.queued) <=> (\E p \in Priorities : \E i \in 1 .. Len(s.queue[p]) : s.queue[p][i] = t)
          /\ (s.state[t] = "READY") <=> (t \in s.queued)
          /\ s.state[t] = "RUNNING" => s.current = t
    /\ \A p \in Priorities :
          /\ IsInjective(s.queue[p])
          /\ \A i \in 1 .. Len(s.queue[p]) : s.prio[s.queue[p][i]] = p
          /\ (p \in s.bitmap) <=> (s.queue[p] # <<>>)

\* A dynamic thread never leaves the dynamic band, whatever it inherits, and a
\* realtime thread keeps its base priority.
BandsKept ==
    \A t \in Threads : IF Base[t] <= DynamicMax THEN s.prio[t] \in Base[t] .. DynamicMax
                       ELSE s.prio[t] = Base[t]

\* The scheduler's state is consistent whatever sequence of ready, block, boost,
\* decay, inherit and restore calls came between two ticks.
SchedulerConsistent == SchedulerTypeOK /\ ReadyQueuesExact /\ BandsKept

\* After a tick nobody who could run here outranks the current thread.
TickPicksHighest ==
    [][Tick => \A t \in s'.queued \cap Eligible :
          IF s'.current = Idle THEN FALSE ELSE s'.prio[t] <= s'.prio[s'.current]]_s

\* Round robin: an eligible thread that stays ready at its base priority, with
\* nobody above it, gets the processor, whatever its equals do.  (A thread whose
\* priority is raised and restored again rejoins the tail of its queue.)
TopLevelRuns ==
    \A t \in Eligible :
        []<>(s.current = t \/ t \notin s.queued \/ s.prio[t] # Base[t]
             \/ \E u \in Threads \ {t} : /\ u \in s.queued \/ s.current = u
                                         /\ s.prio[u] > s.prio[t])

=============================================================================
