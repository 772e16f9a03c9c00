--------------------------- MODULE PhysicalMemory ---------------------------
(***************************************************************************)
(* The physical memory manager: kernel/mm/pmm/pmm.c and the boot sequence  *)
(* of kernel/mm/manager.c that builds it.  A page is its number; a memory  *)
(* range of the boot map is a record [base, count, type].  The operators   *)
(* take a memory m, a record with the fields                               *)
(*   inv    the inventory, a sequence of ranges sorted by base,            *)
(*   own    page |-> <<state, owner>> for every managed page,              *)
(*   free   statistics.free_pages,                                         *)
(* and return a record whose field st is the status of the call.           *)
(***************************************************************************)
EXTENDS Integers, Sequences, FiniteSets, FiniteSetsExt, SequencesExt

CONSTANTS
    PagesOfMetadata,  \* pages that the metadata of the boot map's pages needs
    ModulePages       \* the boot modules, a sequence of records [base, count]

FREE == <<"FREE", "NONE">>

\* A page owner that zi_pmm_allocate and zi_pmm_free accept.
allocation_owner_is_valid(owner) ==
    owner \in {"ALLOCATOR_METADATA", "PAGE_TABLE", "KERNEL_POOL", "KERNEL_STACK",
               "TEMPORARY_MAPPING", "TEST", "PROCESS_IMAGE", "PROCESS_DATA",
               "USER_STACK", "DMA"}

\* A call made on the result of another unless that one failed.
Then(r, Call(_)) == IF r.st = "SUCCESS" THEN Call(r.m) ELSE r

PagesOf(base, count) == base .. (base + count - 1)

(***************************************************************************)
(* The inventory: sort the boot map, refuse an overlap, join neighbours of *)
(* the same type.                                                          *)
(***************************************************************************)
owner_for_boot_type(type) ==
    CASE type = "USABLE"             -> "NONE"
      [] type = "BOOT_RECLAIMABLE"   -> "BOOTLOADER"
      [] type = "KERNEL_AND_MODULES" -> "KERNEL"
      [] type = "FRAMEBUFFER"        -> "FRAMEBUFFER"
      [] OTHER                       -> "FIRMWARE"

sort_ranges(ranges) == SortSeq(ranges, LAMBDA r, s : r.base < s.base)

append_inventory_range(inv, r) ==
    LET previous == inv[Len(inv)]
        end      == previous.base + previous.count
    IN  CASE inv = << >>     -> [st |-> "SUCCESS", inv |-> <<r>>]
          [] r.base < end    -> [st |-> "ADDRESS_CONFLICT", inv |-> inv]
          [] r.base = end /\ r.type = previous.type
                             -> [st |-> "SUCCESS",
                                 inv |-> [inv EXCEPT ![Len(inv)].count = @ + r.count]]
          [] OTHER           -> [st |-> "SUCCESS", inv |-> Append(inv, r)]

zi_memory_inventory_build(ranges) ==
    LET sorted == sort_ranges(ranges)
        merged[k \in 0 .. Len(sorted)] ==
            IF k = 0 THEN [st |-> "SUCCESS", inv |-> << >>]
            ELSE LET r == merged[k - 1]
                 IN  IF r.st = "SUCCESS" THEN append_inventory_range(r.inv, sorted[k]) ELSE r
    IN  IF \A r \in ToSet(ranges) : r.count > 0
        THEN merged[Len(sorted)]
        ELSE [st |-> "INVALID_ARGUMENT", inv |-> << >>]

ManagedPages(inv) == UNION { PagesOf(r.base, r.count) : r \in ToSet(inv) }

\* The first usable range that holds count pages, or none.
zi_memory_inventory_find_usable(inv, count) ==
    LET fit == { r \in ToSet(inv) : r.type = "USABLE" /\ count <= r.count }
    IN  IF fit = {} THEN {} ELSE { Min({ r.base : r \in fit }) }

(***************************************************************************)
(* Allocation, release and reservation.                                    *)
(***************************************************************************)
\* Sets the state of the pages and counts the free ones again by how many
\* pages the call moves, as the code does.
SetPages(m, base, count, page, gained) ==
    [m EXCEPT !.own  = [p \in PagesOf(base, count) |-> page] @@ @,
              !.free = @ + gained]

run_is_free(m, base, count) == \A p \in PagesOf(base, count) : m.own[p] = FREE

\* The interval lies inside one range of the inventory.
locate_page_interval(m, base, count) ==
    \E r \in ToSet(m.inv) : r.base <= base /\ base + count <= r.base + r.count

\* The bases at which allocate_from_range would accept count pages in range r.
allocate_from_range(m, r, count, alignment, limit) ==
    { b \in PagesOf(r.base, r.count) : /\ b % alignment = 0
                                       /\ b + count <= r.base + r.count
                                       /\ b + count - 1 <= limit
                                       /\ run_is_free(m, b, count) }

\* Ranges are sorted and each is searched upwards, so the lowest base wins.
TakeLowest(m, count, owner, bases) ==
    IF count > m.free \/ bases = {}
    THEN [st |-> "NO_MEMORY", m |-> m, base |-> 0]
    ELSE [st   |-> "SUCCESS",
          m    |-> SetPages(m, Min(bases), count, <<"ALLOCATED", owner>>, 0 - count),
          base |-> Min(bases)]

zi_pmm_allocate_below(m, count, alignment, limit, owner) ==
    TakeLowest(m, count, owner,
               UNION { allocate_from_range(m, r, count, alignment, limit) :
                         r \in { x \in ToSet(m.inv) : x.type = "USABLE" } })

\* UINT64_MAX: above every page.
NoLimit == 2 ^ 30

zi_pmm_allocate(m, count, owner) == zi_pmm_allocate_below(m, count, 1, NoLimit, owner)

zi_pmm_free(m, base, count, owner) ==
    IF ~ allocation_owner_is_valid(owner)
    THEN [st |-> "INVALID_ARGUMENT", m |-> m]
    ELSE IF ~ locate_page_interval(m, base, count)
    THEN [st |-> "OUT_OF_BOUNDS", m |-> m]
    ELSE IF \E p \in PagesOf(base, count) : m.own[p] # <<"ALLOCATED", owner>>
    THEN [st |-> "INVALID_STATE", m |-> m]
    ELSE [st |-> "SUCCESS", m |-> SetPages(m, base, count, FREE, count)]

zi_pmm_reserve(m, base, count, owner) ==
    IF ~ locate_page_interval(m, base, count)
    THEN [st |-> "OUT_OF_BOUNDS", m |-> m]
    ELSE IF ~ run_is_free(m, base, count)
    THEN [st |-> "RESOURCE_IN_USE", m |-> m]
    ELSE [st |-> "SUCCESS",
          m  |-> SetPages(m, base, count, <<"RESERVED", owner>>, 0 - count)]

zi_pmm_reassign_reserved(m, base, count, expected, owner) ==
    IF ~ locate_page_interval(m, base, count)
    THEN [st |-> "OUT_OF_BOUNDS", m |-> m]
    ELSE IF \E p \in PagesOf(base, count) : m.own[p] # <<"RESERVED", expected>>
    THEN [st |-> "INVALID_STATE", m |-> m]
    ELSE [st |-> "SUCCESS", m |-> SetPages(m, base, count, <<"RESERVED", owner>>, 0)]

(***************************************************************************)
(* The boot sequence.                                                      *)
(***************************************************************************)
zi_pmm_initialise(inv) ==
    LET type(p) == (CHOOSE r \in ToSet(inv) : p \in PagesOf(r.base, r.count)).type
        own     == [p \in ManagedPages(inv) |->
                       IF type(p) = "USABLE" THEN FREE
                       ELSE <<"RESERVED", owner_for_boot_type(type(p))>>]
    IN  [inv  |-> inv, own |-> own,
         free |-> Cardinality({ p \in DOMAIN own : own[p] = FREE })]

reserve_zero_guard_page(m) ==
    IF 0 \notin DOMAIN m.own \/ m.own[0][1] = "RESERVED"
    THEN [st |-> "SUCCESS", m |-> m]
    ELSE zi_pmm_reserve(m, 0, 1, "ZERO_GUARD")

reassign_module_pages(m) ==
    LET moved[k \in 0 .. Len(ModulePages)] ==
            IF k = 0 THEN [st |-> "SUCCESS", m |-> m]
            ELSE Then(moved[k - 1], LAMBDA n :
                     zi_pmm_reassign_reserved(n, ModulePages[k].base, ModulePages[k].count,
                                              "KERNEL", "MODULE"))
    IN  moved[Len(ModulePages)]

zi_kernel_memory_initialise(ranges) ==
    LET inventory == zi_memory_inventory_build(ranges)
        places    == zi_memory_inventory_find_usable(inventory.inv, PagesOfMetadata)
        metadata  == zi_pmm_reserve(zi_pmm_initialise(inventory.inv),
                                    CHOOSE b \in places : TRUE,
                                    PagesOfMetadata, "ALLOCATOR_METADATA")
        guard     == reserve_zero_guard_page(metadata.m)
        failed(s) == [st |-> s, m |-> [inv |-> << >>, own |-> << >>, free |-> 0]]
    IN  IF inventory.st # "SUCCESS" THEN failed(inventory.st)
        ELSE IF places = {}         THEN failed("NO_MEMORY")
        ELSE IF guard.st # "SUCCESS" THEN failed(guard.st)
        ELSE reassign_module_pages(guard.m)
=============================================================================
