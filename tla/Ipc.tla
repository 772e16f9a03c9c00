--------------------------------- MODULE Ipc ---------------------------------
(***************************************************************************)
(* Ports and channel pairs (kernel/executive/ipc/ipc.c).  A call is a chain *)
(* of lock sections and object releases; between two of them other threads  *)
(* run.  todo[t] is what thread t still has to do before its call returns:  *)
(* the steps of the call and of the destroy routines it runs.               *)
(* Every "deref" item is a counted reference that the thread holds.         *)
(***************************************************************************)
EXTENDS Naturals, FiniteSets, Sequences, SequencesExt

CONSTANTS
    Pairs,        \* channel pairs that may be connected
    Threads,
    QueueLimit,   \* queue_limit of a channel
    PortLimit,    \* queue_limit of the port
    MaxTransfers, \* bound on transferred handles
    MaxCalls      \* bound on connects and sends together

ASSUME IpcAssumption ==
    /\ IsFiniteSet(Pairs) /\ IsFiniteSet(Threads)
    /\ QueueLimit \in Nat \ {0} /\ PortLimit \in Nat \ {0}
    /\ MaxTransfers \in Nat /\ MaxCalls \in Nat

Channels == Pairs \X {"client", "server"}
Client(p) == <<p, "client">>
Server(p) == <<p, "server">>
NULL == <<>>

NoHandle == 0
Handles  == 1 .. MaxTransfers

VARIABLES
    refs, destroyed,      \* object header of a channel
    open, peer, shut,     \* state = OPEN, peer, peer_is_closed
    queue, signal,        \* messages (the handle each carries) and signal_state
    port,                 \* [queue, closed, signal]
    users,                \* references held by users of a channel
    todo,                 \* see above
    opened,               \* transferred handles open in a receiver's table
    delivered,            \* handles a receiver has been given
    calls                 \* connects and sends, for the bound

chans == <<open, peer, shut, queue, signal>>
vars  == <<refs, destroyed, open, peer, shut, queue, signal, port, users, todo,
           opened, delivered, calls>>

Init ==
    /\ refs = [c \in Channels |-> 0] /\ destroyed = {}
    /\ open = {} /\ peer = [c \in Channels |-> NULL] /\ shut = {}
    /\ queue = [c \in Channels |-> <<>>] /\ signal = [c \in Channels |-> 0]
    /\ port = [queue |-> <<>>, closed |-> FALSE, signal |-> 0]
    /\ users = [c \in Channels |-> 0] /\ todo = [t \in Threads |-> <<>>]
    /\ opened = {} /\ delivered = {} /\ calls = 0

Item(op, c) == [do |-> op, on |-> c, handle |-> NoHandle]
HandleItem(h) == [do |-> "handle", on |-> NULL, handle |-> h]

Idle(t) == todo[t] = <<>>
Todo(t, items) == todo' = [todo EXCEPT ![t] = items]

\* The next item of thread t, and what follows it.
Now(t, op) == ~Idle(t) /\ todo[t][1].do = op
Rest(t) == Tail(todo[t])

\* A caller holds a reference while it uses a channel.
Uses(c) == users[c] > 0 /\ c \notin destroyed
Taken(c) == [refs EXCEPT ![c] = @ + 1]

-----------------------------------------------------------------------------
(* Objects and handles, as ipc.c uses them.                                 *)

\* zi_object_dereference; the last one runs channel_destroy, which closes.
Deref(t) ==
    /\ Now(t, "deref")
    /\ LET c == todo[t][1].on IN
          /\ c \notin destroyed /\ refs[c] # 0
          /\ refs' = [refs EXCEPT ![c] = @ - 1]
          /\ destroyed' = IF refs[c] = 1 THEN destroyed \cup {c} ELSE destroyed
          /\ Todo(t, IF refs[c] = 1 THEN <<Item("close", c)>> \o Rest(t) ELSE Rest(t))
    /\ UNCHANGED <<chans, port, users, opened, delivered, calls>>

CloseTransferredHandle(t) ==
    /\ Now(t, "handle")
    /\ opened' = opened \ {todo[t][1].handle}
    /\ Todo(t, Rest(t))
    /\ UNCHANGED <<refs, destroyed, chans, port, users, delivered, calls>>

\* The user of a channel gives up a reference.  The last one closes the channel
\* first, as channel_last_handle_closed does.
ReleaseUser(t, c) ==
    /\ Idle(t) /\ users[c] > 0
    /\ users' = [users EXCEPT ![c] = @ - 1]
    /\ Todo(t, IF users[c] = 1 THEN <<Item("close", c), Item("deref", c)>> ELSE <<Item("deref", c)>>)
    /\ UNCHANGED <<refs, destroyed, chans, port, opened, delivered, calls>>

-----------------------------------------------------------------------------
(* zi_ipc_channel_close                                                     *)

CloseChannel(t, c) ==
    /\ Idle(t) /\ Uses(c)
    /\ refs' = Taken(c)
    /\ Todo(t, <<Item("close", c), Item("deref", c)>>)
    /\ UNCHANGED <<destroyed, chans, port, users, opened, delivered, calls>>

QueuedHandles(c) == SelectSeq(queue[c], LAMBDA h : h # NoHandle)

\* Variant: the peer keeps its pointer to the closed channel.
CloseSectionOneSided(t) ==
    /\ Now(t, "close")
    /\ LET c     == todo[t][1].on
           p     == peer[c]
           holds == p # NULL /\ peer[p] = c
           items == [i \in 1 .. Len(QueuedHandles(c)) |-> HandleItem(QueuedHandles(c)[i])]
                    \o (IF p # NULL THEN <<Item("deref", p)>> ELSE <<>>)
                    \o (IF holds THEN <<Item("deref", c)>> ELSE <<>>)
       IN  IF c \notin open THEN Todo(t, Rest(t)) /\ UNCHANGED chans
           ELSE /\ open' = open \ {c}
                /\ queue' = [queue EXCEPT ![c] = <<>>]
                /\ peer' = [peer EXCEPT ![c] = NULL]
                /\ shut' = shut \cup ({p} \ {NULL})
                /\ signal' = [x \in Channels |-> IF x \in {c, p} THEN 1 ELSE signal[x]]
                /\ Todo(t, items \o Rest(t))
    /\ UNCHANGED <<refs, destroyed, port, users, opened, delivered, calls>>

\* Variant: the peer's queue is emptied too.
CloseSectionDrainsBoth(t) ==
    /\ Now(t, "close")
    /\ LET c     == todo[t][1].on
           p     == peer[c]
           holds == p # NULL /\ peer[p] = c
           items == [i \in 1 .. Len(QueuedHandles(c)) |-> HandleItem(QueuedHandles(c)[i])]
                    \o (IF p # NULL THEN <<Item("deref", p)>> ELSE <<>>)
                    \o (IF holds THEN <<Item("deref", c)>> ELSE <<>>)
       IN  IF c \notin open THEN Todo(t, Rest(t)) /\ UNCHANGED chans
           ELSE /\ open' = open \ {c}
                /\ queue' = [x \in Channels |-> IF x \in {c, p} THEN <<>> ELSE queue[x]]
                /\ peer' = [x \in Channels |-> IF x = c \/ (holds /\ x = p) THEN NULL ELSE peer[x]]
                /\ shut' = shut \cup ({p} \ {NULL})
                /\ signal' = [x \in Channels |-> IF x \in {c, p} THEN 1 ELSE signal[x]]
                /\ Todo(t, items \o Rest(t))
    /\ UNCHANGED <<refs, destroyed, port, users, opened, delivered, calls>>

\* The lock section, from a caller, a destroy routine or a failed connect.  It
\* leaves the handles to close and the two peer references to drop.
CloseSection(t) ==
    /\ Now(t, "close")
    /\ LET c     == todo[t][1].on
           p     == peer[c]
           holds == p # NULL /\ peer[p] = c
           items == [i \in 1 .. Len(QueuedHandles(c)) |-> HandleItem(QueuedHandles(c)[i])]
                    \o (IF p # NULL THEN <<Item("deref", p)>> ELSE <<>>)
                    \o (IF holds THEN <<Item("deref", c)>> ELSE <<>>)
       IN  IF c \notin open THEN Todo(t, Rest(t)) /\ UNCHANGED chans
           ELSE /\ open' = open \ {c}
                /\ queue' = [queue EXCEPT ![c] = <<>>]
                /\ peer' = [x \in Channels |-> IF x = c \/ (holds /\ x = p) THEN NULL ELSE peer[x]]
                /\ shut' = shut \cup ({p} \ {NULL})
                /\ signal' = [x \in Channels |-> IF x \in {c, p} THEN 1 ELSE signal[x]]
                /\ Todo(t, items \o Rest(t))
    /\ UNCHANGED <<refs, destroyed, port, users, opened, delivered, calls>>

-----------------------------------------------------------------------------
(* The port.                                                                *)

\* zi_ipc_channel_pair_initialise and the extra reference for the port queue:
\* each channel is referenced by its creator and by its peer.
PairInitialise(p) ==
    /\ refs[Client(p)] = 0 /\ refs[Server(p)] = 0
    /\ Client(p) \notin destroyed /\ Server(p) \notin destroyed
    /\ calls < MaxCalls /\ calls' = calls + 1
    /\ refs' = [refs EXCEPT ![Client(p)] = 2, ![Server(p)] = 3]
    /\ open' = open \cup {Client(p), Server(p)}
    /\ peer' = [peer EXCEPT ![Client(p)] = Server(p), ![Server(p)] = Client(p)]
    /\ UNCHANGED <<destroyed, shut, queue, signal, opened, delivered>>

PortRefuses == port.closed \/ Len(port.queue) = PortLimit

Connect(t, p) ==
    /\ Idle(t) /\ ~PortRefuses
    /\ PairInitialise(p)
    /\ port' = [port EXCEPT !.queue = Append(@, Server(p)), !.signal = Len(port.queue) + 1]
    /\ users' = [users EXCEPT ![Client(p)] = 1, ![Server(p)] = 1]
    /\ UNCHANGED todo

\* Closed or full: the new pair is taken apart again.
ConnectRefused(t, p) ==
    /\ Idle(t) /\ PortRefuses
    /\ PairInitialise(p)
    /\ Todo(t, <<Item("close", Client(p)), Item("deref", Server(p)), Item("deref", Client(p)),
                 Item("deref", Server(p))>>)
    /\ UNCHANGED <<port, users>>

\* The queue's reference goes to the caller.
Accept(t) ==
    /\ Idle(t) /\ port.queue # <<>>
    /\ port' = [port EXCEPT !.queue = Tail(@), !.signal = Len(port.queue) - 1]
    /\ users' = [users EXCEPT ![Head(port.queue)] = @ + 1]
    /\ UNCHANGED <<refs, destroyed, chans, todo, opened, delivered, calls>>

\* The pending channels are closed and dereferenced outside the lock.
PortClose(t) ==
    /\ Idle(t) /\ ~port.closed
    /\ port' = [queue |-> <<>>, closed |-> TRUE, signal |-> 1]
    /\ Todo(t, FlattenSeq([i \in 1 .. Len(port.queue) |->
                  <<Item("close", port.queue[i]), Item("deref", port.queue[i])>>]))
    /\ UNCHANGED <<refs, destroyed, chans, users, opened, delivered, calls>>

-----------------------------------------------------------------------------
(* Messages.                                                                *)

\* First section of zi_ipc_send: take a reference to the peer.  With carries,
\* the message transfers a handle.
Send(t, c, carries) ==
    /\ Idle(t) /\ Uses(c) /\ calls < MaxCalls
    /\ c \in open /\ c \notin shut /\ peer[c] # NULL /\ peer[c] \in open
    /\ calls' = calls + 1
    /\ refs' = [refs EXCEPT ![c] = @ + 1, ![peer[c]] = @ + 1]
    /\ Todo(t, <<[do |-> IF carries THEN "transfer" ELSE "enqueue", on |-> c, handle |-> NoHandle],
                 Item("deref", peer[c]), Item("deref", c)>>)
    /\ UNCHANGED <<destroyed, chans, port, users, opened, delivered>>

\* zi_handle_duplicate into the peer's table: a new handle or a failure.  The
\* name of a handle that was closed, which nobody refers to, may be used again.
Transfer(t) ==
    /\ Now(t, "transfer")
    /\ \/ \E h \in Handles :
             /\ \A g \in Handles : g \in opened \/ g \in delivered => g < h
             /\ opened' = opened \cup {h}
             /\ Todo(t, <<[todo[t][1] EXCEPT !.do = "enqueue", !.handle = h]>> \o Rest(t))
       \/ Todo(t, Rest(t)) /\ UNCHANGED opened
    /\ UNCHANGED <<refs, destroyed, chans, port, users, delivered, calls>>

\* Variant: a handle that could not be delivered stays open.
EnqueueLeaksHandle(t) ==
    /\ Now(t, "enqueue")
    /\ LET c      == todo[t][1].on
           h      == todo[t][1].handle
           p      == Rest(t)[1].on      \* the peer found by the first section
           closed == c \notin open \/ c \in shut \/ peer[c] # p \/ p \notin open
       IN  IF closed \/ Len(queue[p]) = QueueLimit
           THEN /\ Todo(t, Rest(t))
                /\ UNCHANGED chans
           ELSE /\ queue' = [queue EXCEPT ![p] = Append(@, h)]
                /\ signal' = [signal EXCEPT ![p] = Len(queue[p]) + 1]
                /\ Todo(t, Rest(t))
                /\ UNCHANGED <<open, peer, shut>>
    /\ UNCHANGED <<refs, destroyed, port, users, opened, delivered, calls>>

\* Second section: the state is read again, since the lock was given up.
Enqueue(t) ==
    /\ Now(t, "enqueue")
    /\ LET c      == todo[t][1].on
           h      == todo[t][1].handle
           p      == Rest(t)[1].on      \* the peer found by the first section
           closed == c \notin open \/ c \in shut \/ peer[c] # p \/ p \notin open
       IN  IF closed \/ Len(queue[p]) = QueueLimit
           THEN /\ Todo(t, (IF h # NoHandle THEN <<HandleItem(h)>> ELSE <<>>) \o Rest(t))
                /\ UNCHANGED chans
           ELSE /\ queue' = [queue EXCEPT ![p] = Append(@, h)]
                /\ signal' = [signal EXCEPT ![p] = Len(queue[p]) + 1]
                /\ Todo(t, Rest(t))
                /\ UNCHANGED <<open, peer, shut>>
    /\ UNCHANGED <<refs, destroyed, port, users, opened, delivered, calls>>

Receive(t, c) ==
    /\ Idle(t) /\ Uses(c) /\ queue[c] # <<>>
    /\ queue' = [queue EXCEPT ![c] = Tail(@)]
    /\ signal' = [signal EXCEPT ![c] = IF Len(queue[c]) > 1 \/ c \in shut THEN Len(queue[c]) ELSE 0]
    /\ delivered' = delivered \cup ({Head(queue[c])} \ {NoHandle})
    /\ UNCHANGED <<refs, destroyed, open, peer, shut, port, users, todo, opened, calls>>

Step(t) == Deref(t) \/ CloseTransferredHandle(t) \/ CloseSection(t) \/ Transfer(t) \/ Enqueue(t)

Next ==
    \E t \in Threads :
        \/ Step(t)
        \/ \E p \in Pairs : Connect(t, p) \/ ConnectRefused(t, p)
        \/ Accept(t) \/ PortClose(t)
        \/ \E c \in Channels :
              \/ CloseChannel(t, c) \/ ReleaseUser(t, c) \/ Receive(t, c)
              \/ \E carries \in BOOLEAN : Send(t, c, carries)

Spec == Init /\ [][Next]_vars

-----------------------------------------------------------------------------
(* Properties.                                                              *)

\* Types and queue limits.
TypeOK ==
    /\ refs \in [Channels -> Nat] /\ users \in [Channels -> 0 .. 2] /\ destroyed \subseteq Channels
    /\ open \subseteq Channels /\ shut \subseteq Channels
    /\ peer \in [Channels -> Channels \cup {NULL}]
    /\ \A c \in Channels : /\ Len(queue[c]) <= QueueLimit /\ signal[c] \in 0 .. QueueLimit + 1
                           /\ \A i \in 1 .. Len(queue[c]) : queue[c][i] \in Handles \cup {NoHandle}
    /\ Len(port.queue) <= PortLimit /\ port.signal \in 0 .. PortLimit
    /\ opened \subseteq Handles /\ delivered \subseteq Handles

Occurrences(seq, Test(_)) == Cardinality({i \in 1 .. Len(seq) : Test(seq[i])})

Items == UNION {{<<t, i>> : i \in 1 .. Len(todo[t])} : t \in Threads}
DerefsOf(c) == {x \in Items : todo[x[1]][x[2]] = Item("deref", c)}

\* Reference counts are exact: the users, the peer pointers, the port queue and
\* the threads that still have to release one.  In particular the two peer
\* references of a pair are dropped once, however the closes of its ends race.
RefsExact ==
    \A c \in Channels :
        refs[c] = users[c] + Cardinality({x \in Channels : peer[x] = c})
                  + Occurrences(port.queue, LAMBDA x : x = c) + Cardinality(DerefsOf(c))

\* Nothing can reach a destroyed channel.
NoDanglingPeer ==
    \A c \in Channels : peer[c] # NULL => /\ peer[c] \notin destroyed
                                          /\ peer[peer[c]] = c /\ {c, peer[c]} \subseteq open

\* A transferred handle is open in the receiver's table as long as someone is
\* responsible for it: its sender, a queue, a closer, or the receiver.
HandlesAccounted ==
    LET inHand == {todo[x[1]][x[2]].handle : x \in Items}
        queued == UNION {{queue[c][i] : i \in 1 .. Len(queue[c])} : c \in Channels}
    IN  /\ opened = (inHand \cup queued \cup delivered) \ {NoHandle}
        /\ inHand \cap queued \subseteq {NoHandle}
        /\ delivered \cap (inHand \cup queued) = {}

Created(c) == refs[c] > 0 \/ c \in destroyed

\* The signal state a waiter sees: non-zero exactly when a receive or accept
\* would not have to wait.
SignalMatches ==
    /\ \A c \in Channels :
          (signal[c] # 0) <=> (queue[c] # <<>> \/ c \in shut \/ (Created(c) /\ c \notin open))
    /\ (port.signal # 0) <=> (port.queue # <<>> \/ port.closed)

\* The two ends of every pair agree after each lock section: counts are exact,
\* peers are alive and mutual, and the signal says what a receive would find.
PairsConsistent == TypeOK /\ RefsExact /\ NoDanglingPeer /\ SignalMatches

\* A peer's close leaves the messages already queued: only a receive or the
\* channel's own close removes one.
QueueOutlivesPeer ==
    [][\A c \in Channels : queue'[c] # queue[c] =>
          \/ Len(queue'[c]) > Len(queue[c]) \/ (queue'[c] = Tail(queue[c]) /\ open' = open)
          \/ c \in open /\ c \notin open']_vars

Quiet == \A t \in Threads : Idle(t)

\* Once every user has let go and every call has returned, no channel is left
\* alive by its peer and no handle is left open that nobody was given.
NothingLeftBehind ==
    Quiet /\ port.queue = <<>> /\ (\A c \in Channels : users[c] = 0) =>
        /\ \A c \in Channels : refs[c] = 0
        /\ opened = delivered

\* No transferred handle is lost, delivered twice or left open, and a pair that
\* everybody has let go of is gone.
NothingLeaks == HandlesAccounted /\ NothingLeftBehind

=============================================================================
