---------------------------- MODULE KernelMemory ----------------------------
(***************************************************************************)
(* The kernel's own virtual memory: kernel/mm/vmm/manager.c (the kernel    *)
(* root and its resident mappings, the temporary mapping), mm/stack/stack.c*)
(* (guarded kernel stacks), mm/vmm/mmio.c (device windows) and the backing *)
(* of the kernel pool (mm/pool/kernel_pool.c).  Each window has root       *)
(* entries of its own, as the bases in kernel_memory.h have.  A memory m   *)
(* has the further fields                                                  *)
(*   kroot      the kernel's root table,                                   *)
(*   pool       the first page behind the kernel pool,                     *)
(*   stacks     stack slot |-> [page, count], count = 0 in a free slot,    *)
(*   mmio       the device window slots that are reserved,                 *)
(*   temporary  g_temporary_mapping_active,                                *)
(*   dirty      the pages of stacks and processes that are not all zero.   *)
(***************************************************************************)
EXTENDS Paging

CONSTANTS
    BootRanges,       \* the memory map of the boot context
    KernelImage,      \* [base, page, header, sections]; a section is
                      \* [at, count, write, execute]
    PoolWindow, PoolPages,
    StackWindow, StackSlots, StackSlotPages,
    ApicPage, ApicPhysical, TemporaryPage,
    MmioWindow, MmioSlots, MmioSlotPages

KernelData == {"READ", "WRITE", "GLOBAL"}

\* A kernel call that fails after a table page could not be given back says so.
Reported(r) == IF r.m.corrupt THEN [r EXCEPT !.st = "MEMORY_CORRUPTION"] ELSE r

zi_kernel_map_pages(m, v, page, count, prot) ==
    Reported(zi_x64_paging_map_range(m, m.kroot, v, page, count, prot))

zi_kernel_unmap_pages(m, v, count) ==
    Reported(zi_x64_paging_unmap_range(m, m.kroot, v, count))

(***************************************************************************)
(* Kernel stacks.  A slot is a guard page, the stack, and a guard page.    *)
(***************************************************************************)
NoStack == [page |-> 0, count |-> 0]

slot_guard_base(slot) == StackWindow + (slot - 1) * StackSlotPages

MappedBase(slot) == slot_guard_base(slot) + 1

\* The pages of a stack that could not be mapped go back.
StackMapped(slot, page, count, mapped) ==
    LET lost(freed) == [st |-> IF freed.st = "SUCCESS" THEN mapped.st ELSE "MEMORY_CORRUPTION",
                        m  |-> freed.m, slot |-> 0]
    IN  IF mapped.st = "SUCCESS"
        THEN [st |-> "SUCCESS", slot |-> slot,
              m  |-> [mapped.m EXCEPT !.stacks[slot] = [page |-> page, count |-> count],
                                      !.dirty = @ \ PagesOf(page, count)]]
        ELSE lost(zi_pmm_free(mapped.m, page, count, "KERNEL_STACK"))

zi_kernel_stack_allocate(m, count) ==
    LET unused == { s \in 1 .. StackSlots : m.stacks[s] = NoStack }
        map(slot, pages) ==
            IF pages.st # "SUCCESS" THEN [st |-> pages.st, m |-> m, slot |-> 0]
            ELSE StackMapped(slot, pages.base, count,
                             zi_kernel_map_pages(pages.m, MappedBase(slot), pages.base, count, KernelData))
    IN  IF unused = {}
        THEN [st |-> "NO_MEMORY", m |-> m, slot |-> 0]
        ELSE map(Min(unused), zi_pmm_allocate(m, count, "KERNEL_STACK"))

\* The pages of a stack that cannot be given back are mapped again.
StackFreed(slot, s, unmapped, freed) ==
    LET kept(restored) ==
            [st |-> IF restored.st = "SUCCESS" THEN freed.st ELSE "MEMORY_CORRUPTION", m |-> restored.m]
    IN  IF freed.st = "SUCCESS"
        THEN [st |-> "SUCCESS", m |-> [freed.m EXCEPT !.stacks[slot] = NoStack]]
        ELSE kept(zi_kernel_map_pages(unmapped.m, MappedBase(slot), s.page, s.count, KernelData))

zi_kernel_stack_release(m, slot) ==
    LET s      == m.stacks[slot]
        zeroed == [m EXCEPT !.dirty = @ \ PagesOf(s.page, s.count)]
        free(unmapped) ==
            IF unmapped.st # "SUCCESS" THEN unmapped
            ELSE StackFreed(slot, s, unmapped, zi_pmm_free(unmapped.m, s.page, s.count, "KERNEL_STACK"))
    IN  IF s = NoStack
        THEN [st |-> "INVALID_STATE", m |-> m]
        ELSE free(zi_kernel_unmap_pages(zeroed, MappedBase(slot), s.count))

zi_kernel_stack_guard_contains(m, v) ==
    \E s \in 1 .. StackSlots :
        /\ m.stacks[s] # NoStack
        /\ v \in {slot_guard_base(s), MappedBase(s) + m.stacks[s].count}

(***************************************************************************)
(* The temporary mapping and the device windows.                           *)
(***************************************************************************)
zi_kernel_temporary_map(m, page) ==
    IF m.temporary THEN [st |-> "RESOURCE_IN_USE", m |-> m]
    ELSE Then(zi_kernel_map_pages(m, TemporaryPage, page, 1, KernelData),
              LAMBDA n : [st |-> "SUCCESS", m |-> [n EXCEPT !.temporary = TRUE]])

zi_kernel_temporary_unmap(m) ==
    IF ~ m.temporary THEN [st |-> "INVALID_STATE", m |-> m]
    ELSE Then(zi_kernel_unmap_pages(m, TemporaryPage, 1),
              LAMBDA n : [st |-> "SUCCESS", m |-> [n EXCEPT !.temporary = FALSE]])

\* The first run of free slots, if there is one.
reserve_slots(m, count) ==
    LET runs == { s \in 1 .. MmioSlots : /\ s + count - 1 <= MmioSlots
                                         /\ s .. (s + count - 1) \cap m.mmio = {} }
    IN  IF runs = {} THEN {} ELSE { Min(runs) }

SlotsFor(count) == (count + MmioSlotPages - 1) \div MmioSlotPages

MmioBase(slot) == MmioWindow + (slot - 1) * MmioSlotPages

SlotRun(slot, count) == slot .. (slot + SlotsFor(count) - 1)

zi_kernel_mmio_map(m, page, count) ==
    LET answer(slot, mapped) ==
            IF mapped.st # "SUCCESS"
            THEN [st |-> mapped.st, m |-> [mapped.m EXCEPT !.mmio = @ \ SlotRun(slot, count)], slot |-> 0]
            ELSE [st |-> "SUCCESS", m |-> mapped.m, slot |-> slot]
        map(slot) == answer(slot, zi_kernel_map_pages([m EXCEPT !.mmio = @ \cup SlotRun(slot, count)],
                                                      MmioBase(slot), page, count,
                                                      KernelData \cup {"DEVICE"}))
    IN  IF SlotsFor(count) > MmioSlots
        THEN [st |-> "BUFFER_TOO_SMALL", m |-> m, slot |-> 0]
        ELSE IF reserve_slots(m, SlotsFor(count)) = {}
        THEN [st |-> "NO_MEMORY", m |-> m, slot |-> 0]
        ELSE map(Min(reserve_slots(m, SlotsFor(count))))

zi_kernel_mmio_unmap(m, slot, count) ==
    Then(zi_kernel_unmap_pages(m, MmioBase(slot), count),
         LAMBDA n : [st |-> "SUCCESS", m |-> [n EXCEPT !.mmio = @ \ SlotRun(slot, count)]])

\* Reads through the temporary mapping and takes it away again.
zi_kernel_read_physical(m, page) ==
    Then(zi_kernel_temporary_map(m, page), zi_kernel_temporary_unmap)

(***************************************************************************)
(* Boot.                                                                   *)
(***************************************************************************)
section_protection(s) ==
    IF s.write /\ s.execute THEN {}
    ELSE {"READ", "GLOBAL"} \cup (IF s.write THEN {"WRITE"} ELSE {})
                            \cup (IF s.execute THEN {"EXECUTE"} ELSE {})

map_kernel_image(m) ==
    LET header == zi_x64_paging_map_range(m, m.kroot, KernelImage.base, KernelImage.page,
                                          KernelImage.header, {"READ", "GLOBAL"})
        mapped[k \in 0 .. Len(KernelImage.sections)] ==
            IF k = 0 THEN header
            ELSE LET s == KernelImage.sections[k]
                 IN  Then(mapped[k - 1], LAMBDA n :
                         IF section_protection(s) = {}
                         THEN [st |-> "BAD_IMAGE_FORMAT", m |-> n]
                         ELSE zi_x64_paging_map_range(n, n.kroot, KernelImage.base + s.at,
                                                      KernelImage.page + s.at, s.count,
                                                      section_protection(s)))
    IN  mapped[Len(KernelImage.sections)]

map_apic(m) ==
    zi_x64_paging_map_page(m, m.kroot, ApicPage, ApicPhysical, KernelData \cup {"DEVICE"})

EmptyWindows(pmm) ==
    [corrupt |-> FALSE, pt |-> [p \in 0 .. Max(DOMAIN pmm.own) |-> ZeroTable],
     kroot |-> 0, pool |-> 0, temporary |-> FALSE,
     stacks |-> [s \in 1 .. StackSlots |-> NoStack], mmio |-> {}, dirty |-> {}] @@ pmm

zi_kernel_virtual_memory_initialise(pmm) ==
    LET image(root) == Then(root, LAMBDA m : map_kernel_image([m EXCEPT !.kroot = root.base]))
    IN  Then(image(zi_x64_paging_create(EmptyWindows(pmm))), map_apic)

zi_kernel_pool_initialise(m) ==
    LET answer(base, mapped) ==
            IF mapped.st # "SUCCESS"
            THEN [st |-> mapped.st, m |-> zi_pmm_free(mapped.m, base, PoolPages, "KERNEL_POOL").m]
            ELSE [mapped EXCEPT !.m.pool = base]
        map(pages) ==
            IF pages.st # "SUCCESS" THEN pages
            ELSE answer(pages.base, zi_kernel_map_pages(pages.m, PoolWindow, pages.base, PoolPages, KernelData))
    IN  map(zi_pmm_allocate(m, PoolPages, "KERNEL_POOL"))
=============================================================================
