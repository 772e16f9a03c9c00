---------------------------- MODULE NvmeStorage ----------------------------
(***************************************************************************)
(* The storage stack below the file system: bring-up of the NVMe           *)
(* controller by the storage bootstrap, block reads, writes and flushes    *)
(* that travel as I/O requests through the I/O manager to the driver, the  *)
(* submission and completion queues the driver shares with the controller, *)
(* and the shutdown that gives the DMA pages back.                         *)
(*                                                                         *)
(* A call is cut where it gives up a lock or polls a register: between two *)
(* steps the other thread and the controller may move.  Queue 0 is the     *)
(* admin queue, queue 1 the I/O queue.  A poll loop ends when the answer   *)
(* is there, when the controller reports a fatal state, or, at any moment, *)
(* because poll_limit is used up.                                          *)
(***************************************************************************)
EXTENDS Naturals, FiniteSets

CONSTANTS Threads, Boot,      \* Boot is the thread that runs the bootstrap
          Nobody,             \* no thread holds the lock
          NBlocks,            \* namespace_block_count
          Depth,              \* ZI_NVME_QUEUE_DEPTH
          ActiveLimits,       \* values of ZI_IO_MAXIMUM_ACTIVE_REQUESTS to consider
          CommandIds,         \* the largest 16-bit command id
          MaxCalls,           \* bound: block operations
          MaxErrors           \* bound: commands the controller fails

ASSUME StorageAssumption ==
    /\ Boot \in Threads /\ Nobody \notin Threads
    /\ ActiveLimits \cup {NBlocks, CommandIds, MaxCalls} \subseteq Nat \ {0}
    /\ Depth \in Nat \ {0, 1} /\ MaxErrors \in Nat

VARIABLES
    ctl,      \* the controller object: flags and ownership of the DMA pages;
              \* with the size of the request table and whether the bootstrap has ended
    drv,      \* the driver's ends of the queues and the last command id
    sub, cpl, \* the queue pages: submissions and completions
    buf,      \* the transfer page
    lock,     \* controller->lock
    active,   \* s_active_requests: the threads whose request is in the table
    th,       \* where each thread is
    reg,      \* CC.EN, CSTS.RDY, CSTS.CFS
    dev,      \* the controller's ends of the queues, commands it works on
    media,    \* the namespace
    late,     \* history: a command was given up before its completion
    ran,      \* history: the ids of commands executed without error
    calls     \* bound: block operations so far

vars == <<ctl, drv, sub, cpl, buf, lock, active, th, reg, dev, media, late, ran, calls>>
queues == <<drv, sub, cpl, buf>>
device == <<reg, dev, media, ran>>

Queues == {0, 1}
Blocks == 0 .. NBlocks - 1
AdminCommands == 5     \* three identify commands, two queue creations

\* What a block or the transfer page holds: the block it is meant for and
\* the operation that wrote it.
Data(b, n) == [for |-> b, by |-> n]
Zeroes == [for |-> NBlocks, by |-> 0]
NoCompletion == [cid |-> 0, phase |-> 0, error |-> FALSE]
NoCommand == [cid |-> 0, op |-> "none", at |-> 0]

\* A thread about to do op number n: where it is, the next block, how many
\* are left, the command it waits for, what it has read and whether it has
\* succeeded; range is the whole of what was asked for.
Frame(pc, op, b, count, n) ==
    [pc |-> pc, op |-> op, at |-> b, left |-> count, n |-> n, cid |-> 0, ok |-> FALSE,
     range |-> IF op \in {"read", "write"} THEN b .. b + count - 1 ELSE {},
     got |-> [c \in Blocks |-> Zeroes]]

At(t, pc) == th[t].pc = pc
Goto(t, pc) == th' = [th EXCEPT ![t].pc = pc]

Init ==
    /\ \E n \in ActiveLimits :
          ctl = [enabled |-> FALSE, initialised |-> FALSE, ready |-> FALSE, pages |-> "free",
                 attached |-> FALSE, published |-> FALSE, usable |-> FALSE, slots |-> n]
    /\ drv = [tail |-> [q \in Queues |-> 0], head |-> [q \in Queues |-> 0],
              phase |-> [q \in Queues |-> 1], cid |-> 0]
    /\ sub = [q \in Queues |-> [i \in 0 .. Depth - 1 |-> NoCommand]]
    /\ cpl = [q \in Queues |-> [i \in 0 .. Depth - 1 |-> NoCompletion]]
    /\ buf = Zeroes /\ lock = Nobody /\ active = {}
    /\ th = [t \in Threads |-> Frame(IF t = Boot THEN "validate" ELSE "idle", "none", 0, 0, 0)]
    /\ \E on \in BOOLEAN : reg = [enable |-> on, ready |-> on, fatal |-> FALSE]
    /\ dev = [bell |-> [q \in Queues |-> 0], next |-> [q \in Queues |-> 0],
              put |-> [q \in Queues |-> 0], phase |-> [q \in Queues |-> 1], busy |-> {}, errors |-> 0]
    /\ media = [b \in Blocks |-> Data(b, 0)]
    /\ late = FALSE /\ ran = {} /\ calls = 0

-----------------------------------------------------------------------------
(* submit_command: one entry, one doorbell, one completion.               *)

NextCommandId == (drv.cid % CommandIds) + 1

\* The entry is written at the tail, then the doorbell makes it visible.
Submit(t, q, op, b) ==
    LET command == [cid |-> NextCommandId, op |-> op, at |-> b]
        tail == (drv.tail[q] + 1) % Depth
    IN  /\ sub' = [sub EXCEPT ![q][drv.tail[q]] = command]
        /\ drv' = [drv EXCEPT !.tail[q] = tail, !.cid = NextCommandId]
        /\ dev' = [dev EXCEPT !.bell[q] = tail]
        /\ th' = [th EXCEPT ![t].cid = NextCommandId,
                            ![t].pc = IF q = 0 THEN "admin poll" ELSE "poll"]
        /\ UNCHANGED <<reg, media, ran, cpl>>

Entry(q) == cpl[q][drv.head[q]]
Visible(q) == Entry(q).phase = drv.phase[q]

\* Variant: the command id of the completion is not compared.
AcceptsAnyId(t, q) == Visible(q) /\ ~Entry(q).error

Accepts(t, q) == Visible(q) /\ Entry(q).cid = th[t].cid /\ ~Entry(q).error

\* The head passes the last entry: the phase the driver expects is inverted.
AdvanceHead(q) ==
    drv' = IF drv.head[q] + 1 = Depth
           THEN [drv EXCEPT !.head[q] = 0, !.phase[q] = 1 - @]
           ELSE [drv EXCEPT !.head[q] = @ + 1]

\* A completion that is not the expected one, a fatal controller, or the end
\* of the poll limit: the head stays where it is.
PollFails(q) ==
    /\ \/ Visible(q) /\ late' = late
       \/ ~Visible(q) /\ reg.fatal /\ late' = late
       \/ ~Visible(q) /\ late' = TRUE
    /\ UNCHANGED queues

\* wait_ready: CSTS.RDY has the expected value and no fatal state is shown.
ReadyIs(expected) == ~reg.fatal /\ reg.ready = expected

-----------------------------------------------------------------------------
(* zi_nvme_initialise, by the boot thread.                                 *)

Settled == UNCHANGED <<queues, lock, active, device, late, calls>>

\* Bus mastering, the register mapping and the capabilities; the forced
\* timeout of the tests ends here too.
Validate(t) ==
    /\ At(t, "validate")
    /\ \E pc \in {"allocate", "down"} : Goto(t, pc)
    /\ Settled /\ UNCHANGED ctl

\* Six pages of one owner; a failed allocation gives back those it had.
AllocateDmaBuffers(t) ==
    /\ At(t, "allocate")
    /\ \/ Goto(t, "configure") /\ ctl' = [ctl EXCEPT !.pages = "held"]
       \/ Goto(t, "down") /\ UNCHANGED ctl
    /\ Settled

\* A controller that the firmware left enabled is stopped first.
ConfigureAdminQueues(t) ==
    /\ \/ /\ At(t, "configure") /\ reg.enable
          /\ reg' = [reg EXCEPT !.enable = FALSE] /\ Goto(t, "wait off")
       \/ /\ (At(t, "configure") /\ ~reg.enable) \/ (At(t, "wait off") /\ ReadyIs(FALSE))
          /\ reg' = [reg EXCEPT !.enable = TRUE] /\ Goto(t, "wait on")
       \/ At(t, "wait off") /\ Goto(t, "abandon") /\ UNCHANGED reg
    /\ UNCHANGED <<ctl, queues, lock, active, dev, media, late, ran, calls>>

\* controller_enabled records that the controller became ready.
ControllerReady(t) ==
    /\ At(t, "wait on")
    /\ \/ /\ ReadyIs(TRUE)
          /\ ctl' = [ctl EXCEPT !.enabled = TRUE, !.ready = TRUE]
          /\ th' = [th EXCEPT ![t].pc = "admin", ![t].left = AdminCommands]
       \/ Goto(t, "abandon") /\ UNCHANGED ctl
    /\ Settled

\* identify_namespace and create_io_queues: commands on the admin queue, one
\* after the other, any of whose answers may be refused.
AdminCommand(t) ==
    /\ At(t, "admin") /\ Submit(t, 0, "admin", 0)
    /\ UNCHANGED <<ctl, buf, lock, active, late, calls>>

AdminAnswer(t) ==
    /\ At(t, "admin poll")
    /\ \/ /\ Accepts(t, 0) /\ AdvanceHead(0) /\ late' = late
          /\ \/ th' = [th EXCEPT ![t].left = @ - 1, ![t].pc = IF th[t].left > 1 THEN "admin" ELSE "attach"]
             \/ Goto(t, "abandon")
          /\ UNCHANGED <<sub, cpl, buf>>
       \/ ~Accepts(t, 0) /\ PollFails(0) /\ Goto(t, "abandon")
    /\ UNCHANGED <<ctl, lock, active, device, calls>>

\* The device is attached to the PCI device and published; when one of the
\* two is refused it is detached again.
InitialiseDriverObjects(t) ==
    /\ At(t, "attach")
    /\ \/ /\ ctl' = [ctl EXCEPT !.attached = TRUE, !.published = TRUE, !.initialised = TRUE]
          /\ Goto(t, "idle")
       \/ Goto(t, "abandon") /\ UNCHANGED ctl
    /\ Settled

\* Variant: the pages are given back without waiting for the controller.
ReleaseWhenOffAtOnce(t) ==
    /\ At(t, "wait stop")
    /\ ctl' = [ctl EXCEPT !.pages = "free", !.enabled = FALSE, !.initialised = FALSE]
    /\ Goto(t, "down") /\ Settled

\* The end of every stop: the pages go back when the controller has answered
\* that it is off, and stay with it for ever otherwise.
ReleaseWhenOff(t) ==
    /\ At(t, "wait stop")
    /\ \/ ReadyIs(FALSE) /\ ctl' = [ctl EXCEPT !.pages = "free", !.enabled = FALSE, !.initialised = FALSE]
       \/ UNCHANGED ctl
    /\ Goto(t, "down") /\ Settled

\* The failure path of zi_nvme_initialise.
Abandon(t) ==
    /\ At(t, "abandon")
    /\ IF ctl.enabled
       THEN reg' = [reg EXCEPT !.enable = FALSE] /\ Goto(t, "wait stop") /\ UNCHANGED ctl
       ELSE ctl' = [ctl EXCEPT !.pages = "free"] /\ Goto(t, "down") /\ UNCHANGED reg
    /\ UNCHANGED <<queues, lock, active, dev, media, late, ran, calls>>

-----------------------------------------------------------------------------
(* Block operations.  A request lives on the stack of the thread that      *)
(* waits for it, so the thread stands for it in the table.                 *)

\* block_read, block_write, block_flush and the start of zi_io_submit, whose
\* active_request_add sends the caller away when the table is full.  The boot
\* thread reads the partition table and the stress blocks before the
\* partition is handed to anybody else.
Call(t) ==
    /\ At(t, "idle") /\ ctl.initialised /\ calls < MaxCalls
    /\ ctl.usable \/ t = Boot
    /\ \E op \in {"read", "write", "flush"}, b \in Blocks, count \in 1 .. 2 :
          /\ ctl.usable \/ op = "read"
          /\ op = "flush" => b = 0 /\ count = 1
          /\ IF Cardinality(active) < ctl.slots
             THEN /\ active' = active \cup {t}
                  /\ th' = [th EXCEPT ![t] = Frame("dispatch", op, b, count, calls + 1)]
             ELSE UNCHANGED <<active, th>>
    /\ calls' = calls + 1
    /\ UNCHANGED <<ctl, queues, lock, device, late>>

\* The request reaches the driver at the top of the stack, which takes the
\* controller lock and refuses a range that leaves the namespace.
Dispatch(t) ==
    /\ At(t, "dispatch") /\ lock = Nobody
    /\ lock' = t
    /\ Goto(t, IF th[t].op = "flush" \/ th[t].at + th[t].left <= NBlocks THEN "chunk" ELSE "unlock")
    /\ UNCHANGED <<ctl, queues, active, device, late, calls>>

\* One page of the transfer: the page is cleared, filled for a write, and
\* the command submitted.
Chunk(t) ==
    /\ At(t, "chunk")
    /\ buf' = CASE th[t].op = "read" -> Zeroes
                [] th[t].op = "write" -> Data(th[t].at, th[t].n)
                [] OTHER -> buf
    /\ Submit(t, 1, th[t].op, th[t].at)
    /\ UNCHANGED <<ctl, lock, active, late, calls>>

\* After a page has been transferred: what was read is copied out, and the
\* next page follows or the operation has succeeded.
NextChunk(x) ==
    [x EXCEPT !.got = IF x.op = "read" THEN [@ EXCEPT ![x.at] = buf] ELSE @, !.at = @ + 1,
              !.left = @ - 1, !.ok = x.left = 1, !.pc = IF x.left > 1 THEN "chunk" ELSE "unlock"]

Answer(t) ==
    /\ At(t, "poll")
    /\ \/ /\ Accepts(t, 1) /\ AdvanceHead(1) /\ late' = late
          /\ th' = [th EXCEPT ![t] = NextChunk(@)]
          /\ UNCHANGED <<sub, cpl, buf>>
       \/ ~Accepts(t, 1) /\ PollFails(1) /\ Goto(t, "unlock")
    /\ UNCHANGED <<ctl, lock, active, device, calls>>

\* Variant: the lock is given up only by an operation that succeeded.
UnlockOnSuccess(t) ==
    /\ At(t, "unlock")
    /\ lock' = IF th[t].ok THEN Nobody ELSE lock
    /\ Goto(t, "complete")
    /\ UNCHANGED <<ctl, queues, active, device, late, calls>>

Unlock(t) ==
    /\ At(t, "unlock")
    /\ lock' = Nobody /\ Goto(t, "complete")
    /\ UNCHANGED <<ctl, queues, active, device, late, calls>>

\* zi_io_complete by zi_io_submit itself: the driver never returns PENDING
\* and nobody else has the request.
Complete(t) ==
    /\ At(t, "complete")
    /\ active' = active \ {t}
    /\ th' = [th EXCEPT ![t] = [Frame(IF ctl.usable THEN "idle" ELSE "probed", "none", 0, 0, 0)
                                  EXCEPT !.ok = ~ctl.usable /\ th[t].ok]]
    /\ UNCHANGED <<ctl, queues, lock, device, late, calls>>

\* The bootstrap after one of its reads: it reads on, hands the partition
\* out, or gives up; a read that failed makes it give up.
Probed(t) ==
    /\ At(t, "probed")
    /\ \/ /\ th[t].ok /\ th' = [th EXCEPT ![t] = Frame("idle", "none", 0, 0, 0)]
          /\ \E u \in BOOLEAN : ctl' = [ctl EXCEPT !.usable = u]
       \/ Goto(t, "shutdown") /\ UNCHANGED ctl
    /\ Settled

\* zi_nvme_shutdown, called by the bootstrap when the partition is refused.
Shutdown(t) ==
    /\ At(t, "shutdown")
    /\ ctl' = [ctl EXCEPT !.published = FALSE, !.attached = FALSE]
    /\ reg' = [reg EXCEPT !.enable = FALSE]
    /\ Goto(t, "wait stop")
    /\ UNCHANGED <<queues, lock, active, dev, media, late, ran, calls>>

-----------------------------------------------------------------------------
(* The controller.                                                         *)

host == <<ctl, drv, sub, buf, lock, active, th, late, calls>>

\* CSTS.RDY follows CC.EN in its own time; a stopped controller forgets its
\* queues and the commands it was working on.
FollowEnable ==
    /\ ~reg.fatal /\ reg.ready # reg.enable
    /\ reg' = [reg EXCEPT !.ready = reg.enable]
    /\ dev' = IF reg.enable THEN dev ELSE [dev EXCEPT !.busy = {}]
    /\ UNCHANGED <<host, cpl, media, ran>>

Fatal ==
    /\ ~reg.fatal
    /\ reg' = [reg EXCEPT !.fatal = TRUE]
    /\ UNCHANGED <<host, cpl, dev, media, ran>>

Running == reg.ready /\ ~reg.fatal

Fetch(q) ==
    /\ Running /\ dev.next[q] # dev.bell[q]
    /\ dev' = [dev EXCEPT !.busy = @ \cup {[q |-> q, c |-> sub[q][dev.next[q]]]},
                          !.next[q] = (@ + 1) % Depth]
    /\ UNCHANGED <<host, cpl, reg, media, ran>>

\* Commands are carried out in any order.  The transfer page is read or
\* written when the command is, not when it was submitted.
Execute(w, error) ==
    LET q == w.q
        put == dev.put[q]
    IN  /\ Running /\ w \in dev.busy /\ (put + 1) % Depth # drv.head[q]
        /\ error => dev.errors < MaxErrors
        /\ cpl' = [cpl EXCEPT ![q][put] = [cid |-> w.c.cid, phase |-> dev.phase[q], error |-> error]]
        /\ dev' = [dev EXCEPT !.busy = @ \ {w}, !.put[q] = (put + 1) % Depth,
                              !.phase[q] = IF put + 1 = Depth THEN 1 - @ ELSE @,
                              !.errors = IF error THEN @ + 1 ELSE @]
        /\ media' = IF w.c.op = "write" /\ ~error THEN [media EXCEPT ![w.c.at] = buf] ELSE media
        /\ buf' = IF w.c.op = "read" /\ ~error THEN media[w.c.at] ELSE buf
        /\ ran' = IF error THEN ran ELSE ran \cup {w.c.cid}
        /\ UNCHANGED <<ctl, drv, sub, lock, active, th, late, calls, reg>>

Controller ==
    \/ FollowEnable \/ Fatal
    \/ \E q \in Queues : Fetch(q)
    \/ \E w \in dev.busy, error \in BOOLEAN : Execute(w, error)

Step(t) ==
    \/ Validate(t) \/ AllocateDmaBuffers(t) \/ ConfigureAdminQueues(t) \/ ControllerReady(t)
    \/ AdminCommand(t) \/ AdminAnswer(t) \/ InitialiseDriverObjects(t)
    \/ Abandon(t) \/ ReleaseWhenOff(t)
    \/ Dispatch(t) \/ Chunk(t) \/ Answer(t) \/ Unlock(t) \/ Complete(t)
    \/ Probed(t) \/ Shutdown(t)

Next == Controller \/ \E t \in Threads : Call(t) \/ Step(t)

Spec == Init /\ [][Next]_vars

\* A thread inside a call keeps running; the controller owes nothing.
FairSpec == Spec /\ \A t \in Threads : WF_vars(Step(t))

-----------------------------------------------------------------------------
Places == {"validate", "allocate", "configure", "wait off", "wait on", "admin", "admin poll", "attach",
           "abandon", "wait stop", "down", "idle", "dispatch", "chunk", "poll", "unlock",
           "complete", "probed", "shutdown"}
Content == [for : 0 .. NBlocks, by : 0 .. MaxCalls]

\* Queue positions stay inside the queue page, also where they wrap
\* (submit_command), and every variable has its type.
TypeOK ==
    /\ ctl \in [enabled : BOOLEAN, initialised : BOOLEAN, ready : BOOLEAN, pages : {"free", "held"},
                attached : BOOLEAN, published : BOOLEAN, usable : BOOLEAN, slots : ActiveLimits]
    /\ drv \in [tail : [Queues -> 0 .. Depth - 1], head : [Queues -> 0 .. Depth - 1],
                phase : [Queues -> {0, 1}], cid : 0 .. CommandIds]
    /\ buf \in Content /\ media \in [Blocks -> Content]
    /\ lock \in Threads \cup {Nobody} /\ active \subseteq Threads /\ Cardinality(active) <= ctl.slots
    /\ \A t \in Threads : th[t].pc \in Places
    /\ reg \in [enable : BOOLEAN, ready : BOOLEAN, fatal : BOOLEAN]
    /\ late \in BOOLEAN /\ calls \in 0 .. MaxCalls

\* The command of a page that submit_command reports as transferred has been
\* carried out by the controller, also when completions of commands that
\* were given up arrive later and the completion queue wraps.
SuccessMeansExecuted ==
    \A t \in Threads : At(t, "unlock") /\ th[t].ok => th[t].cid \in ran

\* A block holds what some write put there for this very block.
BlocksIntact == \A b \in Blocks : media[b].for = b

\* What a successful operation transferred is what is on the medium when it
\* ends: every block of a read was copied from its place, every block of a
\* write is in its place.
Transferred(t) ==
    LET x == th[t] IN
    At(t, "unlock") /\ x.ok =>
        \A b \in x.range : media[b] = IF x.op = "read" THEN x.got[b] ELSE Data(b, x.n)

\* As long as no command was given up, block_read and block_write move whole
\* ranges to and from the right blocks, and no block holds data of another.
TransfersExact == ~late => BlocksIntact /\ \A t \in Threads : Transferred(t)

\* An operation that reports success has transferred its range: its command was
\* carried out, to and from the right blocks, over queues that stay in their page.
TransfersHappened == TypeOK /\ SuccessMeansExecuted /\ TransfersExact

\* A controller that has been ready gets its DMA pages taken away only when
\* it is off (zi_nvme_initialise, zi_nvme_shutdown: "A controller that may
\* still perform DMA must retain its backing pages").
Quarantine == ctl.ready /\ ctl.pages = "free" => ~reg.enable /\ ~reg.ready

\* Every block operation, and the bring-up, comes to an end: polls are
\* bounded and the controller lock is released on every path.
CallsReturn == \A t \in Threads : th[t].pc \notin {"idle", "down"} ~> th[t].pc \in {"idle", "down"}
=============================================================================
