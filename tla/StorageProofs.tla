---------------------------- MODULE StorageProofs ----------------------------
(***************************************************************************)
(* The controller keeps its DMA pages while it may use them, for every      *)
(* number of threads, blocks, queue entries and requests, and whatever the  *)
(* controller does.                                                         *)
(***************************************************************************)
EXTENDS NvmeStorage, TLAPS

-----------------------------------------------------------------------------
(* Places of threads.                                                       *)

Shape(f) == DOMAIN f = Threads /\ \A u \in Threads : "pc" \in DOMAIN f[u]

\* Thread t goes to place p, the others stay.
Moves(t, p) == /\ Shape(th') /\ th'[t].pc = p
               /\ \A u \in Threads \ {t} : th'[u].pc = th[u].pc

\* Assignments to the frame of a thread that end with one to its place.
LEMMA Goes ==
    ASSUME Shape(th), NEW t \in Threads, NEW p, NEW q,
           \/ th' = [th EXCEPT ![t].pc = p]
           \/ th' = [th EXCEPT ![t].pc = p, ![t].left = q]
           \/ th' = [th EXCEPT ![t].left = q, ![t].pc = p]
           \/ th' = [th EXCEPT ![t].cid = q, ![t].pc = p]
    PROVE  Moves(t, p)
<1>1. CASE th' = [th EXCEPT ![t].pc = p]
  BY <1>1, Zenon DEF Shape, Moves
<1>2. CASE th' = [th EXCEPT ![t].pc = p, ![t].left = q]
  BY <1>2, Zenon DEF Shape, Moves
<1>3. CASE th' = [th EXCEPT ![t].left = q, ![t].pc = p]
  BY <1>3, Zenon DEF Shape, Moves
<1>4. CASE th' = [th EXCEPT ![t].cid = q, ![t].pc = p]
  BY <1>4, Zenon DEF Shape, Moves
<1> QED BY <1>1, <1>2, <1>3, <1>4

\* A frame is replaced as a whole.
LEMMA Reframed ==
    ASSUME Shape(th), NEW t \in Threads, NEW r, "pc" \in DOMAIN r, th' = [th EXCEPT ![t] = r]
    PROVE  Moves(t, r.pc)
BY Zenon DEF Shape, Moves

-----------------------------------------------------------------------------
(* The inductive invariant.                                                 *)

Serving  == {"idle", "dispatch", "chunk", "poll", "unlock", "complete"}
Enabling == {"configure", "wait off", "wait on"}
Starting == {"validate", "allocate"} \cup Enabling

Controllers == [enabled : BOOLEAN, initialised : BOOLEAN, ready : BOOLEAN, pages : {"free", "held"},
                attached : BOOLEAN, published : BOOLEAN, usable : BOOLEAN, slots : ActiveLimits]
Registers   == [enable : BOOLEAN, ready : BOOLEAN, fatal : BOOLEAN]

\* Only the boot thread leaves the block operations, and not once the partition is in use.
Roles ==
    /\ \A t \in Threads \ {Boot} : th[t].pc \in Serving /\ (th[t].pc # "idle" => ctl.usable)
    /\ ctl.usable => th[Boot].pc \in Serving

\* What the place of the boot thread says of the controller.
Stages ==
    /\ th[Boot].pc \in Starting => ~ctl.ready
    /\ th[Boot].pc \in Enabling => ctl.pages = "held"
    /\ th[Boot].pc = "wait stop" => ~reg.enable
    /\ ctl.ready /\ ~ctl.enabled => th[Boot].pc = "down"
    /\ ctl.ready /\ ctl.pages = "free" => th[Boot].pc = "down" /\ ~reg.enable /\ ~reg.ready

Guarding == Shape(th) /\ ctl \in Controllers /\ reg \in Registers /\ Roles /\ Stages

\* The bootstrap begins without pages, whether or not the firmware left the controller on.
LEMMA GuardingInit == Init => Guarding
<1> SUFFICES ASSUME Init PROVE Guarding
  OBVIOUS
<1>1. Shape(th) /\ th[Boot].pc = "validate" /\ \A t \in Threads \ {Boot} : th[t].pc = "idle"
  BY StorageAssumption DEF Init, Shape, Frame
<1>2. ctl \in Controllers /\ ~ctl.ready /\ ~ctl.usable
  BY DEF Init, Controllers
<1>3. reg \in Registers
  BY DEF Init, Registers
<1> QED BY <1>1, <1>2, <1>3 DEF Guarding, Roles, Stages, Serving, Starting, Enabling

\* Steps inside block operations: controller object and registers stay.
LEMMA ServingStep ==
    ASSUME Guarding, NEW t \in Threads, NEW p \in Serving, Moves(t, p),
           th[t].pc \in Serving, t # Boot /\ p # "idle" => ctl.usable,
           ctl' = ctl, reg' = reg
    PROVE  Guarding'
<1>1. CASE t = Boot
  BY <1>1 DEF Guarding, Roles, Stages, Moves, Serving, Starting, Enabling
<1>2. CASE t # Boot
  <2>1. th'[Boot].pc = th[Boot].pc
    BY <1>2, StorageAssumption DEF Moves
  <2> QED BY <1>2, <2>1 DEF Guarding, Roles, Stages, Moves
<1> QED BY <1>1, <1>2

\* Steps outside them are the boot thread's, while the others wait for the partition.
LEMMA BootStep ==
    ASSUME Guarding, NEW t \in Threads, th[t].pc \notin Serving
    PROVE  t = Boot /\ ~ctl.usable /\ \A u \in Threads \ {Boot} : th[u].pc = "idle"
BY DEF Guarding, Roles

\* A step of the boot thread outside the block operations, in the terms that
\* the invariant speaks of.
LEMMA BootMoves ==
    ASSUME Guarding, NEW t \in Threads, th[t].pc \notin Serving, NEW p, Moves(t, p),
           ctl' \in Controllers, reg' \in Registers, ctl'.usable => p \in Serving,
           p \in Starting => ~ctl'.ready,
           p \in Enabling => ctl'.pages = "held",
           p = "wait stop" => ~reg'.enable,
           ctl'.ready /\ ~ctl'.enabled => p = "down",
           ctl'.ready /\ ctl'.pages = "free" => p = "down" /\ ~reg'.enable /\ ~reg'.ready
    PROVE  Guarding'
<1>1. t = Boot /\ \A u \in Threads \ {Boot} : th'[u].pc = "idle"
  BY BootStep DEF Moves
<1>2. Shape(th') /\ th'[Boot].pc = p
  BY <1>1 DEF Moves
<1> QED BY <1>1, <1>2 DEF Guarding, Roles, Stages, Serving

-----------------------------------------------------------------------------
(* Every step keeps it.                                                     *)

\* Moves of the controller: ready follows enable, the rest is its own business.
LEMMA ControllerKeeps == ASSUME Guarding, Controller PROVE Guarding'
<1>1. CASE FollowEnable
  <2>1. th' = th /\ ctl' = ctl /\ reg' = [reg EXCEPT !.ready = reg.enable] /\ reg.ready # reg.enable
    BY <1>1 DEF FollowEnable, host
  <2>2. reg' \in Registers /\ reg'.enable = reg.enable /\ reg'.ready = reg.enable
    BY <2>1 DEF Guarding, Registers
  <2> QED BY <2>1, <2>2 DEF Guarding, Roles, Stages
<1>2. CASE Fatal
  <2>1. th' = th /\ ctl' = ctl /\ reg' = [reg EXCEPT !.fatal = TRUE]
    BY <1>2 DEF Fatal, host
  <2>2. reg' \in Registers /\ reg'.enable = reg.enable /\ reg'.ready = reg.ready
    BY <2>1 DEF Guarding, Registers
  <2> QED BY <2>1, <2>2 DEF Guarding, Roles, Stages
<1>3. ASSUME NEW q \in Queues, Fetch(q) PROVE Guarding'
  BY <1>3 DEF Fetch, host, Guarding, Roles, Stages
<1>4. ASSUME NEW w \in dev.busy, NEW error \in BOOLEAN, Execute(w, error) PROVE Guarding'
  BY <1>4 DEF Execute, Guarding, Roles, Stages
<1> QED BY <1>1, <1>2, <1>3, <1>4 DEF Controller

\* zi_nvme_initialise up to the first command.
LEMMA BringUpKeeps ==
    ASSUME Guarding, NEW t \in Threads,
           Validate(t) \/ AllocateDmaBuffers(t) \/ ConfigureAdminQueues(t) \/ ControllerReady(t)
    PROVE  Guarding'
<1> USE DEF At, Goto, Settled, device
<1>1. /\ th[t].pc \in Starting /\ th[t].pc \notin Serving /\ Shape(th)
      /\ ctl \in Controllers /\ reg \in Registers
  BY DEF Validate, AllocateDmaBuffers, ConfigureAdminQueues, ControllerReady, Starting, Enabling, Serving, Guarding
<1>2. ~ctl.ready /\ ~ctl.usable /\ (th[t].pc \in Enabling => ctl.pages = "held")
  BY <1>1, BootStep DEF Guarding, Stages
<1>3. CASE Validate(t)
  <2>1. PICK p \in {"allocate", "down"} : Moves(t, p)
    BY <1>1, <1>3, Goes DEF Validate
  <2>2. ctl' = ctl /\ reg' = reg
    BY <1>3 DEF Validate
  <2> QED BY <1>1, <1>2, <2>1, <2>2, BootMoves DEF Enabling
<1>4. CASE AllocateDmaBuffers(t)
  <2>1. \/ Moves(t, "configure") /\ ctl' = [ctl EXCEPT !.pages = "held"]
        \/ Moves(t, "down") /\ ctl' = ctl
    BY <1>1, <1>4, Goes DEF AllocateDmaBuffers
  <2>2. ctl' \in Controllers /\ ~ctl'.ready /\ ~ctl'.usable /\ reg' = reg
    BY <1>1, <1>2, <1>4, <2>1 DEF AllocateDmaBuffers, Controllers
  <2>3. th'[t].pc = "configure" => ctl'.pages = "held"
    BY <1>1, <2>1 DEF Moves, Controllers
  <2> QED BY <1>1, <2>1, <2>2, <2>3, BootMoves DEF Enabling, Moves
<1>5. CASE ConfigureAdminQueues(t)
  <2>1. PICK p \in {"wait off", "wait on", "abandon"} : Moves(t, p)
    BY <1>1, <1>5, Goes DEF ConfigureAdminQueues
  <2>2. ctl' = ctl /\ reg' \in Registers
    BY <1>1, <1>5 DEF ConfigureAdminQueues, Registers
  <2>3. ctl.pages = "held"
    BY <1>1, <1>2, <1>5 DEF ConfigureAdminQueues, Enabling
  <2> QED BY <1>1, <1>2, <2>1, <2>2, <2>3, BootMoves
<1>6. CASE ControllerReady(t)
  <2>1. \/ Moves(t, "admin") /\ ctl' = [ctl EXCEPT !.enabled = TRUE, !.ready = TRUE]
        \/ Moves(t, "abandon") /\ ctl' = ctl
    <3>1. CASE /\ ctl' = [ctl EXCEPT !.enabled = TRUE, !.ready = TRUE]
               /\ th' = [th EXCEPT ![t].pc = "admin", ![t].left = AdminCommands]
      BY <1>1, <3>1, Goes
    <3>2. CASE ctl' = ctl /\ th' = [th EXCEPT ![t].pc = "abandon"]
      BY <1>1, <3>2, Goes
    <3> QED BY <1>6, <3>1, <3>2, Zenon DEF ControllerReady
  <2>2. ctl.pages = "held" /\ reg' = reg
    BY <1>2, <1>6 DEF ControllerReady, Enabling
  <2>3. ctl' \in Controllers /\ ctl'.pages = "held" /\ ~ctl'.usable /\ (ctl'.ready => ctl'.enabled)
    BY <1>1, <1>2, <2>1, <2>2 DEF Controllers
  <2> QED BY <1>1, <2>1, <2>2, <2>3, BootMoves DEF Starting, Enabling
<1> QED BY <1>3, <1>4, <1>5, <1>6

\* The admin commands, the driver objects, and the paths that stop the controller.
LEMMA StopKeeps ==
    ASSUME Guarding, NEW t \in Threads,
           \/ AdminCommand(t) \/ AdminAnswer(t) \/ InitialiseDriverObjects(t)
           \/ Abandon(t) \/ ReleaseWhenOff(t) \/ Probed(t) \/ Shutdown(t)
    PROVE  Guarding'
<1> USE DEF At, Goto, Settled, device
<1>1. /\ th[t].pc \notin Serving /\ th[t].pc # "down" /\ Shape(th)
      /\ ctl \in Controllers /\ reg \in Registers
  BY DEF AdminCommand, AdminAnswer, InitialiseDriverObjects, Abandon, ReleaseWhenOff, Probed, Shutdown,
         Serving, Guarding
<1>2. /\ ~ctl.usable /\ (ctl.ready => ctl.enabled /\ ctl.pages = "held")
      /\ (th[t].pc = "wait stop" => ~reg.enable)
  BY <1>1, BootStep DEF Guarding, Stages, Controllers
<1>3. CASE AdminCommand(t)
  <2>1. Moves(t, "admin poll")
    BY <1>1, <1>3, Goes DEF AdminCommand, Submit
  <2>2. ctl' = ctl /\ reg' = reg
    BY <1>3 DEF AdminCommand, Submit
  <2> QED BY <1>1, <1>2, <2>1, <2>2, BootMoves DEF Starting, Enabling
<1>4. CASE AdminAnswer(t)
  <2>1. PICK p \in {"admin", "attach", "abandon"} : Moves(t, p)
    <3> DEFINE p == IF th[t].left > 1 THEN "admin" ELSE "attach"
    <3>1. CASE th' = [th EXCEPT ![t].left = @ - 1, ![t].pc = p]
      BY <1>1, <3>1, Goes
    <3>2. CASE th' = [th EXCEPT ![t].pc = "abandon"]
      BY <1>1, <3>2, Goes
    <3> QED BY <1>4, <3>1, <3>2 DEF AdminAnswer
  <2>2. ctl' = ctl /\ reg' = reg
    BY <1>4 DEF AdminAnswer
  <2> QED BY <1>1, <1>2, <2>1, <2>2, BootMoves DEF Starting, Enabling
<1>5. CASE InitialiseDriverObjects(t)
  <2>1. PICK p \in {"idle", "abandon"} : Moves(t, p)
    BY <1>1, <1>5, Goes DEF InitialiseDriverObjects
  <2>2. /\ ctl' \in Controllers /\ ctl'.usable = ctl.usable /\ ctl'.ready = ctl.ready
        /\ ctl'.enabled = ctl.enabled /\ ctl'.pages = ctl.pages /\ reg' = reg
    BY <1>1, <1>5 DEF InitialiseDriverObjects, Controllers
  <2> QED BY <1>1, <1>2, <2>1, <2>2, BootMoves DEF Starting, Enabling
<1>6. CASE Abandon(t)
  <2>1. CASE ctl.enabled
    <3>1. Moves(t, "wait stop") /\ ctl' = ctl /\ reg' = [reg EXCEPT !.enable = FALSE]
      BY <1>1, <1>6, <2>1, Goes DEF Abandon
    <3>2. reg' \in Registers /\ ~reg'.enable
      BY <1>1, <3>1 DEF Registers
    <3> QED BY <1>1, <1>2, <3>1, <3>2, BootMoves DEF Starting, Enabling
  <2>2. CASE ~ctl.enabled
    <3>1. Moves(t, "down") /\ ctl' = [ctl EXCEPT !.pages = "free"] /\ reg' = reg
      BY <1>1, <1>6, <2>2, Goes DEF Abandon
    <3>2. ctl' \in Controllers /\ ~ctl'.ready /\ ~ctl'.usable
      BY <1>1, <1>2, <2>2, <3>1 DEF Controllers
    <3> QED BY <1>1, <3>1, <3>2, BootMoves DEF Starting, Enabling
  <2> QED BY <2>1, <2>2
<1>7. CASE ReleaseWhenOff(t)
  <2>1. Moves(t, "down") /\ reg' = reg /\ ~reg.enable
    BY <1>1, <1>2, <1>7, Goes DEF ReleaseWhenOff
  <2>2. CASE ctl' = ctl
    BY <1>1, <1>2, <2>1, <2>2, BootMoves DEF Starting, Enabling
  <2>3. CASE ReadyIs(FALSE) /\ ctl' = [ctl EXCEPT !.pages = "free", !.enabled = FALSE, !.initialised = FALSE]
    <3>1. ctl' \in Controllers /\ ~ctl'.usable /\ ~reg.ready
      BY <1>1, <1>2, <2>3 DEF Controllers, ReadyIs
    <3> QED BY <1>1, <2>1, <3>1, BootMoves DEF Starting, Enabling
  <2> QED BY <1>7, <2>2, <2>3 DEF ReleaseWhenOff
<1>8. CASE Probed(t)
  <2>1. CASE th' = [th EXCEPT ![t] = Frame("idle", "none", 0, 0, 0)]
             /\ \E u \in BOOLEAN : ctl' = [ctl EXCEPT !.usable = u]
    <3> DEFINE r == Frame("idle", "none", 0, 0, 0)
    <3>1. r.pc = "idle" /\ "pc" \in DOMAIN r
      BY DEF Frame
    <3> HIDE DEF r
    <3>2. th' = [th EXCEPT ![t] = r]
      BY <2>1 DEF r
    <3>3. Moves(t, r.pc)
      BY <1>1, <3>1, <3>2, Reframed
    <3>4. /\ ctl' \in Controllers /\ ctl'.ready = ctl.ready
          /\ ctl'.enabled = ctl.enabled /\ ctl'.pages = ctl.pages
      BY <1>1, <2>1 DEF Controllers
    <3>5. reg' = reg
      BY <1>8 DEF Probed
    <3> QED BY <1>1, <1>2, <3>1, <3>3, <3>4, <3>5, BootMoves DEF Starting, Enabling, Serving
  <2>2. CASE Goto(t, "shutdown") /\ UNCHANGED ctl
    <3>1. Moves(t, "shutdown") /\ ctl' = ctl
      BY <1>1, <2>2, Goes
    <3>2. reg' = reg
      BY <1>8 DEF Probed
    <3> QED BY <1>1, <1>2, <3>1, <3>2, BootMoves DEF Starting, Enabling
  <2> QED BY <1>8, <2>1, <2>2 DEF Probed
<1>9. CASE Shutdown(t)
  <2>1. Moves(t, "wait stop")
    BY <1>1, <1>9, Goes DEF Shutdown
  <2>2. /\ ctl' \in Controllers /\ ctl'.usable = ctl.usable /\ ctl'.ready = ctl.ready
        /\ ctl'.enabled = ctl.enabled /\ ctl'.pages = ctl.pages
    BY <1>1, <1>9 DEF Shutdown, Controllers
  <2>3. reg' \in Registers /\ ~reg'.enable
    BY <1>1, <1>9 DEF Shutdown, Registers
  <2> QED BY <1>1, <1>2, <2>1, <2>2, <2>3, BootMoves DEF Starting, Enabling
<1> QED BY <1>3, <1>4, <1>5, <1>6, <1>7, <1>8, <1>9

\* Block operations.
LEMMA OperationKeeps ==
    ASSUME Guarding, NEW t \in Threads,
           Call(t) \/ Dispatch(t) \/ Chunk(t) \/ Answer(t) \/ Unlock(t) \/ Complete(t)
    PROVE  Guarding'
<1> USE DEF At, Goto, device
<1>1. th[t].pc \in Serving /\ Shape(th) /\ (t # Boot /\ th[t].pc # "idle" => ctl.usable)
  BY DEF Call, Dispatch, Chunk, Answer, Unlock, Complete, Serving, Guarding, Roles
<1>2. ctl' = ctl /\ reg' = reg
  BY DEF Call, Dispatch, Chunk, Submit, Answer, Unlock, Complete
<1>3. CASE Call(t)
  <2>1. t # Boot => ctl.usable
    BY <1>3 DEF Call
  <2>2. CASE th' = th
    BY <1>2, <2>2 DEF Guarding, Roles, Stages
  <2>3. ASSUME NEW op, NEW b, NEW count,
               th' = [th EXCEPT ![t] = Frame("dispatch", op, b, count, calls + 1)]
        PROVE  Guarding'
    <3> DEFINE r == Frame("dispatch", op, b, count, calls + 1)
    <3>1. r.pc = "dispatch" /\ "pc" \in DOMAIN r
      BY DEF Frame
    <3>2. th' = [th EXCEPT ![t] = r]
      BY <2>3
    <3> HIDE DEF r
    <3>3. Moves(t, r.pc)
      BY <1>1, <3>1, <3>2, Reframed
    <3> QED BY <1>1, <1>2, <2>1, <3>1, <3>3, ServingStep DEF Serving
  <2>4. \E op, b, count : th' = th \/ th' = [th EXCEPT ![t] = Frame("dispatch", op, b, count, calls + 1)]
    BY <1>3, Zenon DEF Call
  <2> QED BY <2>2, <2>3, <2>4
<1>4. CASE Dispatch(t)
  <2>1. PICK p \in {"chunk", "unlock"} : Moves(t, p)
    BY <1>1, <1>4, Goes DEF Dispatch
  <2>2. t # Boot => ctl.usable
    BY <1>1, <1>4 DEF Dispatch
  <2> QED BY <1>1, <1>2, <2>1, <2>2, ServingStep DEF Serving
<1>5. CASE Chunk(t)
  <2>1. Moves(t, "poll")
    <3> DEFINE p == IF 1 = 0 THEN "admin poll" ELSE "poll"
    <3>1. th' = [th EXCEPT ![t].cid = NextCommandId, ![t].pc = p]
      BY <1>5, Zenon DEF Chunk, Submit
    <3>2. p = "poll"
      OBVIOUS
    <3> HIDE DEF p
    <3> QED BY <1>1, <3>1, <3>2, Goes
  <2>2. t # Boot => ctl.usable
    BY <1>1, <1>5 DEF Chunk
  <2> QED BY <1>1, <1>2, <2>1, <2>2, ServingStep DEF Serving
<1>6. CASE Answer(t)
  <2>1. t # Boot => ctl.usable
    BY <1>1, <1>6 DEF Answer
  <2>2. CASE th' = [th EXCEPT ![t] = NextChunk(th[t])]
    <3> DEFINE r == NextChunk(th[t])
    <3>1. "pc" \in DOMAIN r /\ r.pc \in {"chunk", "unlock"}
      BY <1>1, Zenon DEF NextChunk, Shape
    <3>2. th' = [th EXCEPT ![t] = r]
      BY <2>2
    <3> HIDE DEF r
    <3>3. Moves(t, r.pc)
      BY <1>1, <3>1, <3>2, Reframed
    <3> QED BY <1>1, <1>2, <2>1, <3>1, <3>3, ServingStep DEF Serving
  <2>3. CASE th' = [th EXCEPT ![t].pc = "unlock"]
    <3>1. Moves(t, "unlock")
      BY <1>1, <2>3, Goes
    <3> QED BY <1>1, <1>2, <2>1, <3>1, ServingStep DEF Serving
  <2> QED BY <1>6, <2>2, <2>3, Zenon DEF Answer
<1>7. CASE Unlock(t)
  <2>1. Moves(t, "complete")
    BY <1>1, <1>7, Goes DEF Unlock
  <2>2. t # Boot => ctl.usable
    BY <1>1, <1>7 DEF Unlock
  <2> QED BY <1>1, <1>2, <2>1, <2>2, ServingStep DEF Serving
<1>8. CASE Complete(t)
  <2> DEFINE p == IF ctl.usable THEN "idle" ELSE "probed"
             f == Frame(p, "none", 0, 0, 0)
             r == [f EXCEPT !.ok = ~ctl.usable /\ th[t].ok]
  <2>1. "pc" \in DOMAIN f /\ f.pc = p
    BY DEF Frame
  <2>2. th' = [th EXCEPT ![t] = r]
    BY <1>8, Zenon DEF Complete
  <2> HIDE DEF f, p
  <2>3. "pc" \in DOMAIN r /\ r.pc = p
    BY <2>1, Zenon
  <2> HIDE DEF r
  <2>4. Moves(t, p)
    BY <1>1, <2>2, <2>3, Reframed
  <2>5. CASE ctl.usable
    BY <1>1, <1>2, <2>4, <2>5, ServingStep DEF Serving, p
  <2>6. CASE ~ctl.usable
    <3>1. t = Boot /\ th'[Boot].pc = "probed" /\ Shape(th')
      BY <1>1, <1>8, <2>4, <2>6 DEF Moves, p, Complete
    <3>2. \A u \in Threads \ {Boot} : th'[u].pc = "idle"
      BY <2>4, <2>6, <3>1 DEF Moves, Guarding, Roles
    <3>3. th[Boot].pc = "complete"
      BY <1>8, <3>1 DEF Complete
    <3> QED BY <1>2, <2>6, <3>1, <3>2, <3>3 DEF Guarding, Roles, Stages, Serving, Starting, Enabling
  <2> QED BY <2>5, <2>6
<1> QED BY <1>3, <1>4, <1>5, <1>6, <1>7, <1>8

\* Every step of the specification.
LEMMA StepKeeps == ASSUME Guarding, [Next]_vars PROVE Guarding'
<1>1. CASE UNCHANGED vars
  BY <1>1 DEF vars, Guarding, Roles, Stages
<1>2. CASE Controller
  BY <1>2, ControllerKeeps
<1>3. ASSUME NEW t \in Threads, Call(t) \/ Step(t) PROVE Guarding'
  BY <1>3, BringUpKeeps, StopKeeps, OperationKeeps DEF Step
<1> QED BY <1>1, <1>2, <1>3 DEF Next

-----------------------------------------------------------------------------
(* The theorem.                                                             *)

\* A controller that has been ready keeps its DMA pages until it is seen off,
\* on every path of zi_nvme_initialise and zi_nvme_shutdown.
THEOREM PagesQuarantined == Spec => []Quarantine
<1>1. Guarding => Quarantine
  BY DEF Guarding, Stages, Quarantine
<1>2. Guarding /\ [Next]_vars => Guarding'
  BY StepKeeps
<1> QED BY GuardingInit, <1>1, <1>2, PTL DEF Spec

=============================================================================
