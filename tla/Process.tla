------------------------------ MODULE Process -------------------------------
(***************************************************************************)
(* The user process manager: kernel/executive/process/process.c and        *)
(* process_record.c, over address spaces, image loading, kernel stacks and *)
(* physical memory.  The manager is called by the kernel, which creates,   *)
(* runs and releases processes of its own, and by the running process,     *)
(* through system calls.  Execution is synchronous: waiting for a child    *)
(* runs it nested on its parent.  Beside the manager, drivers hold and     *)
(* drop DMA pages and device windows, so that memory runs out anywhere.    *)
(*                                                                         *)
(* A slot's record has the fields state and parent; as, the address space; *)
(* images, the image set; stack, the slot of its kernel stack, 0 before it *)
(* has one; object, "none", "live" or "destroyed", with its counts refs    *)
(* and handles; table, the children its handle table has a handle to;      *)
(* event, the termination event; reply, where its parent's wait wants the  *)
(* exit code.                                                              *)
(***************************************************************************)
EXTENDS UserImage

CONSTANTS
    Slots,              \* 1 .. ZI_USER_PROCESS_MANAGER_CAPACITY
    HandleCapacity,     \* ZI_USER_PROCESS_HANDLE_CAPACITY
    Launches,           \* the launch requests, records [name, force, sources, parameters]
    DataBase, DataEnd,  \* where the parameters go
    UserStackPage,      \* the user stack, one page below ZI_USER_STACK_TOP
    UserAddresses,      \* addresses a process passes to a system call
    DmaSizes,           \* pages a driver holds at a time
    MaxCreates, MaxDriver \* bounds on the calls of a behaviour

VARIABLES
    mem,        \* physical memory, page tables and kernel windows
    procs,      \* slot |-> process
    active,     \* manager->active_process, 0 for NULL
    count,      \* manager->process_count
    dma,        \* the pages that a driver holds, <<base, count>> or << >>
    window,     \* the device window a driver has, or 0
    creates,    \* processes that were asked for
    driver,     \* calls the drivers made
    call        \* the last call of the manager and its status

vars == <<mem, procs, active, count, dma, window, creates, driver, call>>

Empty == [state |-> "EMPTY", parent |-> 0, as |-> NoSpace, images |-> << >>, stack |-> 0,
          object |-> "none", refs |-> 0, handles |-> 0, table |-> {}, event |-> FALSE,
          reply |-> 0]

(***************************************************************************)
(* Preparing a process.  A state of the preparation is [st, m, p].         *)
(***************************************************************************)
Go(P, Step(_)) == IF P.st = "SUCCESS" THEN Step(P) ELSE P

\* parameters is "bad" when they do not measure, "unstaged" when the kernel
\* pool has no room for the staging copy, and "good" otherwise.
Took(P, st, r) == [P EXCEPT !.st = st, !.m = r.m, !.p.as = r.as]

ProtectParameters(P, v, as, copied) ==
    LET answer(r) == Took(P, r.st, r)
    IN  IF copied.st # "SUCCESS" THEN Took(P, copied.st, With(copied, as))
        ELSE answer(zi_address_space_protect_owned(copied.m, as, v, 1, UserRead))

CopyParameters(P, parameters, v, mapped) ==
    IF mapped.st # "SUCCESS"        THEN Took(P, mapped.st, mapped)
    ELSE IF parameters = "unstaged" THEN Took(P, "NO_MEMORY", mapped)
    ELSE ProtectParameters(P, v, mapped.as, zi_copy_to_user(mapped.m, mapped.as, v))

MapParameters(P, parameters, free) ==
    IF free = {} THEN [P EXCEPT !.st = "NOT_FOUND"]
    ELSE CopyParameters(P, parameters, Min(free),
                        zi_address_space_map_owned(P.m, P.p.as, Min(free), 1, UserData, "PROCESS_DATA"))

prepare_process_parameters(P, parameters) ==
    IF parameters = "bad" THEN [P EXCEPT !.st = "INVALID_ARGUMENT"]
    ELSE MapParameters(P, parameters,
                       zi_address_space_find_free_range(P.p.as, DataBase, DataEnd, 1))

PrepareKernelStack(P, as, copied) ==
    LET answer(stack) == [st |-> stack.st, m |-> stack.m,
                          p  |-> [P.p EXCEPT !.as = as, !.stack = stack.slot]]
    IN  IF copied.st # "SUCCESS" THEN Took(P, copied.st, With(copied, as))
        ELSE answer(zi_kernel_stack_allocate(copied.m, 1))

PrepareStacks(P, mapped) ==
    IF mapped.st # "SUCCESS" THEN Took(P, mapped.st, mapped)
    ELSE PrepareKernelStack(P, mapped.as, zi_copy_to_user(mapped.m, mapped.as, UserStackPage))

prepare_process_stacks(P) ==
    PrepareStacks(P, zi_address_space_map_owned(P.m, P.p.as, UserStackPage, 1, UserData, "USER_STACK"))

initialise_process_object(P) == [P EXCEPT !.p.object = "live", !.p.refs = 1]

Begun(space) ==
    [st |-> space.st, m |-> space.m, p |-> [Empty EXCEPT !.state = "INITIALISED", !.as = space.as]]

Loaded(P, image) ==
    [Took(P, image.st, image) EXCEPT !.p.images = IF image.st = "SUCCESS" THEN image.set ELSE << >>]

LoadProcessImage(P, launch) ==
    Loaded(P, zi_pe_load_user_image(P.m, P.p.as, launch.name, launch.force, launch.sources))

prepare_process(m, launch) ==
    Go(Go(Go(Go(Begun(zi_address_space_initialise(m)),
                LAMBDA P : LoadProcessImage(P, launch)),
             LAMBDA P : prepare_process_parameters(P, launch.parameters)),
          prepare_process_stacks),
       initialise_process_object)

(***************************************************************************)
(* Releasing a process: every part is tried, whatever failed before it.    *)
(* ps is the slots, s the slot of the process.                             *)
(***************************************************************************)
\* zi_handle_table_close_all: each child loses the handle and its reference.
CloseAll(ps, s) ==
    [k \in Slots |-> IF k = s THEN [ps[k] EXCEPT !.table = {}]
                     ELSE IF k \in ps[s].table THEN [ps[k] EXCEPT !.refs = @ - 1, !.handles = @ - 1]
                     ELSE ps[k]]

First(sts) == IF \A i \in DOMAIN sts : sts[i] = "SUCCESS" THEN "SUCCESS"
              ELSE sts[Min({ i \in DOMAIN sts : sts[i] # "SUCCESS" })]

StackReleased(m, stack) ==
    IF stack = 0 THEN [st |-> "SUCCESS", m |-> m] ELSE zi_kernel_stack_release(m, stack)

\* What is left of process p.
Released(p, space, stack) ==
    [p EXCEPT !.as = space.as,
              !.stack = IF stack.st = "SUCCESS" THEN 0 ELSE @,
              !.refs = IF p.object = "live" THEN @ - 1 ELSE @,
              !.object = IF p.object = "live" /\ p.refs = 1 THEN "destroyed" ELSE @]

ReleaseStack(closed, s, space) ==
    LET answer(stack) ==
            [st |-> First(<<space.st, stack.st>>), m |-> stack.m,
             ps |-> [closed EXCEPT ![s] = Released(closed[s], space, stack)]]
    IN  answer(StackReleased(space.m, closed[s].stack))

ReleaseSpace(m, closed, s) ==
    ReleaseStack(closed, s,
                 IF closed[s].as = NoSpace THEN [st |-> "SUCCESS", m |-> m, as |-> NoSpace]
                 ELSE zi_address_space_destroy(m, closed[s].as))

release_process_resources(m, ps, s) == ReleaseSpace(m, CloseAll(ps, s), s)

find_empty_process(ps) == { s \in Slots : ps[s].state = "EMPTY" }

\* A process that could not be prepared is released and its slot is empty.
PrepareFailed(s, st, released) ==
    [st |-> IF released.st = "SUCCESS" THEN st ELSE "MEMORY_CORRUPTION",
     m  |-> released.m, ps |-> [released.ps EXCEPT ![s] = Empty], slot |-> 0]

FillSlot(ps, parent, s, P) ==
    IF P.st = "SUCCESS"
    THEN [st |-> "SUCCESS", m |-> P.m, slot |-> s,
          ps |-> [ps EXCEPT ![s] = [P.p EXCEPT !.parent = parent]]]
    ELSE PrepareFailed(s, P.st, release_process_resources(P.m, [ps EXCEPT ![s] = P.p], s))

\* The result of create_process: status, memory, slots, slot.
create_process(m, ps, parent, launch) ==
    IF find_empty_process(ps) = {}
    THEN [st |-> "BUFFER_TOO_SMALL", m |-> m, ps |-> ps, slot |-> 0]
    ELSE FillSlot(ps, parent, Min(find_empty_process(ps)), prepare_process(m, launch))

Releasable(ps, s) ==
    /\ ps[s].state \in {"INITIALISED", "TERMINATED"}
    /\ ps[s].handles = 0 /\ ps[s].refs = 1

zi_user_process_release(m, ps, n, s) ==
    LET answer(r) ==
            IF r.st # "SUCCESS" THEN [st |-> r.st, m |-> r.m, ps |-> r.ps, n |-> n]
            ELSE [st |-> "SUCCESS", m |-> r.m, n |-> n - 1, ps |-> [r.ps EXCEPT ![s] = Empty]]
    IN  IF s = active \/ ~ Releasable(ps, s)
        THEN [st |-> "INVALID_STATE", m |-> m, ps |-> ps, n |-> n]
        ELSE answer(release_process_resources(m, ps, s))

(***************************************************************************)
(* Calls of the kernel.                                                    *)
(***************************************************************************)
Called(name, st) == call' = [name |-> name, st |-> st]

zi_user_process_create(launch) ==
    /\ creates < MaxCreates
    /\ active = 0
    /\ \E c \in {create_process(mem, procs, 0, launch)} :
          /\ mem' = c.m /\ procs' = c.ps
          /\ count' = IF c.st = "SUCCESS" THEN count + 1 ELSE count
          /\ Called("create", c.st)
    /\ creates' = creates + 1
    /\ UNCHANGED <<active, dma, window, driver>>

\* The processes that the kernel created: it keeps the pointer it was given.
Own(s) == procs[s].state # "EMPTY" /\ procs[s].parent = 0

\* The state of a process that starts to run; its record is marked running.
Running(p, reply) == [p EXCEPT !.state = "RUNNING", !.reply = reply]

zi_user_process_run(s) ==
    /\ active = 0 /\ Own(s) /\ procs[s].state = "INITIALISED"
    /\ procs' = [procs EXCEPT ![s] = Running(@, 0)]
    /\ active' = s
    /\ Called("run", "SUCCESS")
    /\ UNCHANGED <<mem, count, dma, window, creates, driver>>

KernelRelease(s) ==
    /\ active = 0 /\ Own(s)
    /\ \E r \in {zi_user_process_release(mem, procs, count, s)} :
          mem' = r.m /\ procs' = r.ps /\ count' = r.n /\ Called("release", r.st)
    /\ UNCHANGED <<active, dma, window, creates, driver>>

(***************************************************************************)
(* System calls and traps of the active process.                           *)
(***************************************************************************)
\* Opening and closing a handle of parent to child s.
OpenHandle(ps, parent, s) ==
    [ps EXCEPT ![parent].table = @ \cup {s}, ![s].refs = @ + 1, ![s].handles = @ + 1]

CloseHandle(ps, parent, s) ==
    [ps EXCEPT ![parent].table = @ \ {s}, ![s].refs = @ - 1, ![s].handles = @ - 1]

\* The handle of a new child is opened and copied out.
HandOut(c, out) ==
    IF Cardinality(procs[active].table) >= HandleCapacity
    THEN [st |-> "NO_MEMORY", m |-> c.m]
    ELSE zi_copy_to_user(c.m, procs[active].as, out)

FinishCreate(c, w) ==
    \/ /\ w.st = "SUCCESS"
       /\ mem' = w.m /\ procs' = OpenHandle(c.ps, active, c.slot) /\ count' = count + 1
       /\ Called("create", "SUCCESS")
    \/ /\ w.st # "SUCCESS"
       /\ \E r \in {zi_user_process_release(c.m, c.ps, count + 1, c.slot)} :
             /\ mem' = r.m /\ procs' = r.ps /\ count' = r.n
             /\ Called("create", IF r.st = "SUCCESS" THEN w.st ELSE "MEMORY_CORRUPTION")

\* ZI_SYSCALL_CREATE_PROCESS: path and out are user addresses.  The launch
\* provider creates the child; a handle to it is opened in the caller's table
\* and copied out; when one of these fails the child is released again.
dispatch_create_process(launch, path, out) ==
    /\ creates < MaxCreates
    /\ active # 0
    /\ zi_copy_from_user(mem, procs[active].as, path) = "SUCCESS"
    /\ \E c \in {create_process(mem, procs, active, launch)} :
          \/ /\ c.st # "SUCCESS"
             /\ mem' = c.m /\ procs' = c.ps
             /\ Called("create", c.st)
             /\ UNCHANGED count
          \/ /\ c.st = "SUCCESS"
             /\ \E w \in {HandOut(c, out)} : FinishCreate(c, w)
    /\ creates' = creates + 1
    /\ UNCHANGED <<active, dma, window, driver>>

\* The same call with a path that cannot be read.
dispatch_create_process_unread(path) ==
    /\ active # 0
    /\ zi_copy_from_user(mem, procs[active].as, path) # "SUCCESS"
    /\ Called("create", "INVALID_USER_BUFFER")
    /\ UNCHANGED <<mem, procs, active, count, dma, window, creates, driver>>

\* ZI_SYSCALL_CLOSE_HANDLE of a handle to child s.
dispatch_close_handle(s) ==
    /\ active # 0 /\ s \in procs[active].table
    /\ \E r \in {IF procs[s].parent # active \/ procs[s].state = "RUNNING"
                 THEN [st |-> "INVALID_HANDLE", m |-> mem, ps |-> procs, n |-> count]
                 ELSE zi_user_process_release(mem, CloseHandle(procs, active, s), count, s)} :
          mem' = r.m /\ procs' = r.ps /\ count' = r.n /\ Called("close", r.st)
    /\ UNCHANGED <<active, dma, window, creates, driver>>

zi_process_record_terminate(p) == [p EXCEPT !.state = "TERMINATED", !.event = TRUE]

\* A wait that would block is not implemented.
zi_process_record_wait(p, timeout) ==
    IF p.state = "TERMINATED" /\ p.event THEN "SUCCESS"
    ELSE IF timeout THEN "NOT_IMPLEMENTED" ELSE "TIMEOUT"

\* The end of a wait: the exit code of a terminated child is copied out and
\* the reference that the lookup took goes.
WaitResult(m, ps, parent, s, timeout, out) ==
    IF zi_process_record_wait(ps[s], timeout) # "SUCCESS"
    THEN [st |-> zi_process_record_wait(ps[s], timeout), m |-> m]
    ELSE zi_copy_to_user(m, ps[parent].as, out)

\* ZI_SYSCALL_WAIT_FOR_OBJECT of child s: with a timeout other than zero a
\* child that has not run is run now, nested on its parent.
dispatch_wait_for_object(s, timeout, out) ==
    /\ active # 0 /\ s \in procs[active].table
    /\ \/ /\ procs[s].parent = active
          /\ procs[s].state = "INITIALISED" /\ timeout
          /\ procs' = [procs EXCEPT ![s] = [Running(@, out) EXCEPT !.refs = @ + 1]]
          /\ active' = s
          /\ Called("run", "SUCCESS")
          /\ UNCHANGED mem
       \/ /\ procs[s].parent # active \/ procs[s].state # "INITIALISED" \/ ~ timeout
          /\ \E w \in {IF procs[s].parent # active THEN [st |-> "INVALID_HANDLE", m |-> mem]
                       ELSE WaitResult(mem, procs, active, s, timeout, out)} :
                mem' = w.m /\ Called("wait", w.st)
          /\ UNCHANGED <<procs, active>>
    /\ UNCHANGED <<count, dma, window, creates, driver>>

\* Variant: the caller of a nested process is not made active again.
ContinuationLost(s) == 0

\* Who is active when process s has ended.
Continuation(s) == procs[s].parent

\* The writable pages of process p and the page of its kernel stack.
WritablePages(p) ==
    { zi_x64_paging_query(mem, p.as.root, r.base).page :
        r \in { x \in ToSet(p.as.regions) : "WRITE" \in x.prot } } \cup {mem.stacks[p.stack].page}

\* The active process leaves Ring 3: by ZI_SYSCALL_EXIT_PROCESS, by an
\* exception, or because its return frame is not safe; the manager does the
\* same for each.  The rest of run_process follows, and in a nested run the
\* rest of its parent's wait.  While it ran it wrote to the pages it may write
\* to, and the kernel used its stacks.
Terminates ==
    /\ active # 0
    /\ \E s \in {active}, m \in {[mem EXCEPT !.dirty = @ \cup WritablePages(procs[active])]} :
          /\ procs' = [procs EXCEPT ![s] =
                         [zi_process_record_terminate(@) EXCEPT
                            !.refs = IF procs[s].parent = 0 THEN @ ELSE @ - 1, !.reply = 0]]
          /\ active' = Continuation(s)
          /\ \E w \in {IF procs[s].parent = 0 THEN [st |-> "SUCCESS", m |-> m]
                       ELSE WaitResult(m, procs', procs[s].parent, s, TRUE, procs[s].reply)} :
                mem' = w.m /\ Called("exit", w.st)
    /\ UNCHANGED <<count, dma, window, creates, driver>>

(***************************************************************************)
(* Drivers.                                                                *)
(***************************************************************************)
DriverVars == <<procs, active, count, creates, call>>

\* external: the DMA allocator takes pages of its own owner.
HoldPages(n) ==
    /\ driver < MaxDriver
    /\ dma = << >>
    /\ \E r \in {zi_pmm_allocate(mem, n, "DMA")} :
          r.st = "SUCCESS" /\ mem' = r.m /\ dma' = <<r.base, n>>
    /\ driver' = driver + 1
    /\ UNCHANGED <<window, DriverVars>>

DropPages ==
    /\ dma # << >>
    /\ mem' = zi_pmm_free(mem, dma[1], dma[2], "DMA").m
    /\ dma' = << >>
    /\ UNCHANGED <<window, driver, DriverVars>>

\* A driver maps its registers, or tries to, and reads a table elsewhere.
MapDevice ==
    /\ driver < MaxDriver
    /\ window = 0
    /\ \E r \in {Then(zi_kernel_read_physical(mem, ApicPhysical),
                     LAMBDA m : zi_kernel_mmio_map(m, ApicPhysical, 1))} :
          mem' = r.m /\ window' = IF r.st = "SUCCESS" THEN r.slot ELSE 0
    /\ driver' = driver + 1
    /\ UNCHANGED <<dma, DriverVars>>

UnmapDevice ==
    /\ window # 0
    /\ mem' = zi_kernel_mmio_unmap(mem, window, 1).m
    /\ window' = 0
    /\ UNCHANGED <<dma, driver, DriverVars>>

(***************************************************************************)
(* The kernel boots: memory, its root, the pool, one resident kernel stack *)
(* and the device window of the boot disk.                                 *)
(***************************************************************************)
Booted ==
    LET vm(pmm)  == Then(pmm, zi_kernel_virtual_memory_initialise)
        stack(r) == Then(Then(r, zi_kernel_pool_initialise), LAMBDA m : zi_kernel_stack_allocate(m, 1))
    IN  Then(stack(vm(zi_kernel_memory_initialise(BootRanges))),
             LAMBDA m : zi_kernel_mmio_map(m, ApicPhysical, 1))

Init ==
    /\ \E r \in {Booted} : r.st = "SUCCESS" /\ mem = r.m
    /\ procs = [s \in Slots |-> Empty]
    /\ active = 0 /\ count = 0
    /\ dma = << >> /\ window = 0
    /\ creates = 0 /\ driver = 0
    /\ call = [name |-> "boot", st |-> "SUCCESS"]

Next ==
    \/ \E l \in Launches : zi_user_process_create(l)
    \/ \E s \in Slots : zi_user_process_run(s)
    \/ \E s \in Slots : KernelRelease(s)
    \/ \E l \in Launches, a \in UserAddresses : dispatch_create_process(l, UserStackPage, a)
    \/ \E a \in UserAddresses : dispatch_create_process_unread(a)
    \/ \E s \in Slots : dispatch_close_handle(s)
    \/ \E s \in Slots, t \in BOOLEAN, a \in UserAddresses : dispatch_wait_for_object(s, t, a)
    \/ Terminates
    \/ \E n \in DmaSizes : HoldPages(n)
    \/ DropPages
    \/ MapDevice
    \/ UnmapDevice

Spec == Init /\ [][Next]_vars

-----------------------------------------------------------------------------
(***************************************************************************)
(* Properties.                                                             *)
(***************************************************************************)
Live == { s \in Slots : procs[s].state # "EMPTY" }

\* The tables below a root, the root included, reached through the root
\* entries in indices.
TablesBelow(root, indices) ==
    LET below(t, is) == { mem.pt[t][i].page : i \in { j \in is : "PRESENT" \in mem.pt[t][j].bits } }
        at[l \in 1 .. Levels] ==
            IF l = 1 THEN {root}
            ELSE UNION { below(t, IF l = 2 THEN indices ELSE 0 .. (Fan - 1)) : t \in at[l - 1] }
    IN  UNION { at[l] : l \in 1 .. Levels }

UserTables(s) == TablesBelow(procs[s].as.root, UserIndices)

\* Every region of every process, as a pair of its slot and its place.
AllRegions == { <<s, i>> \in Live \X (1 .. RegionCapacity) : i \in DOMAIN procs[s].as.regions }

Region(x) == procs[x[1]].as.regions[x[2]]

RegionPages(owner) ==
    UNION { PagesOf(Region(x).page, Region(x).count) : x \in { y \in AllRegions : Region(y).owner = owner } }

PagesWith(owner) == { p \in DOMAIN mem.own : mem.own[p] = <<"ALLOCATED", owner>> }

StackPages == UNION { PagesOf(mem.stacks[k].page, mem.stacks[k].count) : k \in 1 .. StackSlots }

\* Whatever was created, failed half way, ran or was released before, every
\* allocated page has exactly one holder: a table page is reached from the
\* kernel's root or from one process's user half, the other pages are those
\* of the regions, of the stacks of the kernel and of the processes, and of
\* the drivers; no two tables or regions share a page, and the count of free
\* pages is exact.  (process.c, address_space.c, x64_paging.c, stack.c)
PagesAccounted ==
    LET kernel == TablesBelow(mem.kroot, KernelIndices)
        stacks == { k \in 1 .. StackSlots : mem.stacks[k] # NoStack }
    IN  /\ PagesWith("PAGE_TABLE") = kernel \cup UNION { UserTables(s) : s \in Live }
        /\ \A s \in Live : UserTables(s) \cap kernel = {}
        /\ \A s, t \in Live : s # t => UserTables(s) \cap UserTables(t) = {}
        /\ \A o \in {"PROCESS_IMAGE", "PROCESS_DATA", "USER_STACK"} : PagesWith(o) = RegionPages(o)
        /\ \A x, y \in AllRegions : x # y =>
              PagesOf(Region(x).page, Region(x).count) \cap PagesOf(Region(y).page, Region(y).count) = {}
        /\ PagesWith("KERNEL_STACK") = StackPages
        /\ stacks = {1} \cup { procs[s].stack : s \in Live }
        /\ PagesWith("DMA") = IF dma = << >> THEN {} ELSE PagesOf(dma[1], dma[2])
        /\ mem.free = Cardinality({ p \in DOMAIN mem.own : mem.own[p] = FREE })

\* A process reaches the pages of its own regions and nothing else: a user
\* page is mapped, for the user on every level, exactly when a region holds
\* it, to that region's page; nothing is writable and executable; the kernel
\* half has no page for the user, and the pages around a kernel stack are not
\* mapped.  (map_owned, protect_image_contents, promote_user_path, stack.c)
MappingsConfined ==
    /\ \A s \in Live, v \in UserPages :
          LET q    == zi_x64_paging_query(mem, procs[s].as.root, v)
              over == { i \in DOMAIN procs[s].as.regions : regions_overlap(v, 1, procs[s].as.regions[i]) }
          IN  /\ q.st = "SUCCESS" <=> over # {}
              /\ q.st = "SUCCESS" =>
                    /\ \A i \in over : q.page = procs[s].as.regions[i].page + (v - procs[s].as.regions[i].base)
                    /\ "USER" \in q.prot
                    /\ ~ {"WRITE", "EXECUTE"} \subseteq q.prot
    /\ \A s \in Live : \A i \in UserIndices :
          IsPresent(mem, <<procs[s].as.root, i>>) => "USER" \in mem.pt[procs[s].as.root][i].bits
    /\ \A t \in TablesBelow(mem.kroot, KernelIndices), i \in 0 .. (Fan - 1) : "USER" \notin mem.pt[t][i].bits
    /\ \A k \in 1 .. StackSlots : mem.stacks[k] # NoStack =>
          \A v \in {slot_guard_base(k), slot_guard_base(k) + mem.stacks[k].count + 1} :
             /\ zi_kernel_stack_guard_contains(mem, v)
             /\ zi_x64_paging_query(mem, mem.kroot, v).st = "PAGE_NOT_MAPPED"

\* A release never fails half way: when the kernel releases a process, or a
\* process closes a handle to a child, the release succeeds, and no call ever
\* reports that memory is corrupt.  The space of a process is only given back
\* while its user half is empty and its kernel half is the kernel's own, so
\* the kernel must not change its root while processes exist.
\* (release_process_resources, zi_address_space_destroy, release_region)
ReleasesNeverFail ==
    /\ call.name \in {"release", "close"} => call.st = "SUCCESS"
    /\ call.st # "MEMORY_CORRUPTION"
    /\ ~ mem.corrupt

\* A page that is free holds nothing of a process or of a kernel stack any
\* more.  (zero_physical_pages in address_space.c, zi_kernel_stack_release)
FreePagesAreClean == \A p \in mem.dirty : mem.own[p] # FREE

\* Every page has one holder, and a free one holds nothing of its last.
MemoryAccounted == PagesAccounted /\ FreePagesAreClean

\* The processes that run are the active one and its ancestors; each of them
\* but the last waits for the next through a handle of its own.  The counts
\* of every process object are exact: the manager's reference, one for each
\* handle and one for a wait that is under way.  (run_process,
\* dispatch_wait_for_object, zi_handle_table_close_all)
ChainExact ==
    LET running == { s \in Slots : procs[s].state = "RUNNING" }
        holders(s) == { k \in Live : s \in procs[k].table }
    IN  /\ active # 0 <=> running # {}
        /\ active # 0 => active \in running
        /\ \A s \in running \ {active} : \E t \in running : procs[t].parent = s
        /\ \A s \in running : procs[s].parent = 0 \/ s \in procs[procs[s].parent].table
        /\ \A s, t \in running : procs[s].parent = procs[t].parent => s = t
        /\ \A s \in Live : /\ procs[s].handles = Cardinality(holders(s))
                          /\ procs[s].refs = 1 + procs[s].handles +
                                (IF s \in running /\ procs[s].parent # 0 THEN 1 ELSE 0)
                          /\ procs[s].event <=> procs[s].state = "TERMINATED"
        /\ count = Cardinality(Live)

\* A process that could not be created leaves nothing behind, at whatever
\* step it failed: no page, no table, no stack slot, no slot, no handle.
\* (create_process, zi_pe_load_user_image, zi_x64_paging_map_range,
\* dispatch_create_process)
FailureLeavesNoTrace ==
    [][creates' > creates /\ call'.st # "SUCCESS" =>
          /\ UNCHANGED <<procs, active, count>>
          /\ mem'.own = mem.own /\ mem'.free = mem.free
          /\ mem'.stacks = mem.stacks
          /\ \A t \in PagesWith("PAGE_TABLE") : mem'.pt[t] = mem.pt[t]]_vars
=============================================================================
