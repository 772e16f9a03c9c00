---------------------------- MODULE AddressSpace ----------------------------
(***************************************************************************)
(* User address spaces: kernel/executive/process/address_space.c.  An      *)
(* address space is a record [root, regions]; a region is a record         *)
(* [base, page, count, prot, owner], prot = {} once a part of the region   *)
(* has been given a protection of its own.  A space with root 0 is not     *)
(* active.  Calls take the memory and the space and return both.           *)
(***************************************************************************)
EXTENDS KernelMemory

CONSTANTS
    UserMin,            \* ZI_USER_ADDRESS_MIN, as a page
    RegionCapacity      \* ZI_ADDRESS_SPACE_REGION_CAPACITY

NoSpace == [root |-> 0, regions |-> << >>]

UserData == {"READ", "WRITE", "USER"}
UserRead == {"READ", "USER"}

zi_user_range_is_valid(v, count) ==
    count > 0 /\ v >= UserMin /\ v \in UserPages /\ v + count - 1 \in UserPages

validate_owned_mapping(v, count, prot) ==
    IF ~ zi_user_range_is_valid(v, count) THEN "INVALID_USER_BUFFER"
    ELSE IF \/ ~ {"READ", "USER"} \subseteq prot
            \/ ~ prot \subseteq {"READ", "WRITE", "EXECUTE", "USER"}
            \/ {"WRITE", "EXECUTE"} \subseteq prot
    THEN "ACCESS_DENIED"
    ELSE "SUCCESS"

regions_overlap(v, count, r) == v < r.base + r.count /\ r.base < v + count

Conflicts(as, v, count) == { i \in DOMAIN as.regions : regions_overlap(v, count, as.regions[i]) }

\* The first region that is, or that holds, the pages.
find_exact_region(as, v, count) ==
    { i \in DOMAIN as.regions : as.regions[i].base = v /\ as.regions[i].count = count }

find_containing_region(as, v, count) ==
    { i \in DOMAIN as.regions : /\ as.regions[i].base <= v
                                /\ v + count <= as.regions[i].base + as.regions[i].count }

Space(root) == [root |-> root, regions |-> << >>]

zi_address_space_initialise(m) ==
    LET answer(clone) ==
            [st |-> clone.st, m |-> clone.m,
             as |-> IF clone.st = "SUCCESS" THEN Space(clone.base) ELSE NoSpace]
    IN  answer(zi_x64_paging_clone_kernel_half(m, m.kroot))

\* Variant: the pages stay allocated when they cannot be mapped.
MapFailedKeeping(mapped, page, count, owner) == [st |-> mapped.st, m |-> mapped.m]

\* The pages are given back when they cannot be mapped.
MapFailed(mapped, page, count, owner) ==
    LET answer(freed) == [st |-> IF freed.st = "SUCCESS" THEN mapped.st ELSE "MEMORY_CORRUPTION",
                          m  |-> freed.m]
    IN  answer(zi_pmm_free(mapped.m, page, count, owner))

With(r, as) == [st |-> r.st, m |-> r.m, as |-> as]

\* A new region that maps the pages, if the pages could be had.
MapPages(as, v, count, prot, owner, pages) ==
    LET region == [base |-> v, page |-> pages.base, count |-> count, prot |-> prot, owner |-> owner]
        zeroed == [pages.m EXCEPT !.dirty = @ \ PagesOf(pages.base, count)]
        enter(mapped) ==
            IF mapped.st = "SUCCESS" THEN With(mapped, [as EXCEPT !.regions = Append(@, region)])
            ELSE With(MapFailed(mapped, pages.base, count, owner), as)
    IN  IF pages.st # "SUCCESS" THEN With(pages, as)
        ELSE enter(zi_x64_paging_map_range(zeroed, as.root, v, pages.base, count, prot))

zi_address_space_map_owned(m, as, v, count, prot, owner) ==
    LET failed(st) == [st |-> st, m |-> m, as |-> as]
    IN  IF validate_owned_mapping(v, count, prot) # "SUCCESS"
        THEN failed(validate_owned_mapping(v, count, prot))
        ELSE IF Len(as.regions) >= RegionCapacity THEN failed("BUFFER_TOO_SMALL")
        ELSE IF Conflicts(as, v, count) # {}      THEN failed("ADDRESS_CONFLICT")
        ELSE MapPages(as, v, count, prot, owner, zi_pmm_allocate(m, count, owner))

\* The search moves past the furthest end of the regions in the way, so it
\* answers the lowest free range at or after base that ends before end; the
\* result is a set with that range's page, or empty.
zi_address_space_find_free_range(as, base, end, count) ==
    LET past(v, blocking) ==
            IF blocking = {} THEN v
            ELSE Max({ as.regions[i].base + as.regions[i].count : i \in blocking })
        next(v) == past(v, Conflicts(as, v, count))
        candidate[k \in 0 .. Len(as.regions)] == IF k = 0 THEN base ELSE next(candidate[k - 1])
    IN  { v \in {candidate[Len(as.regions)]} : base < end /\ v + count <= end }

zi_address_space_protect_owned(m, as, v, count, prot) ==
    LET change(i, changed) ==
            IF changed.st # "SUCCESS" THEN With(changed, as)
            ELSE With(changed, [as EXCEPT !.regions[i].prot =
                                   IF as.regions[i].base = v /\ as.regions[i].count = count
                                   THEN prot ELSE {}])
        failed(st) == [st |-> st, m |-> m, as |-> as]
    IN  IF validate_owned_mapping(v, count, prot) # "SUCCESS"
        THEN failed(validate_owned_mapping(v, count, prot))
        ELSE IF find_containing_region(as, v, count) = {} THEN failed("NOT_FOUND")
        ELSE change(Min(find_containing_region(as, v, count)),
                    zi_x64_paging_protect_range(m, as.root, v, count, prot))

Zeroed(m, r) == [m EXCEPT !.dirty = @ \ PagesOf(r.page, r.count)]

\* The pages of a region are unmapped: they are given back, or mapped again
\* when they cannot be and the region still has one protection.
RegionFreed(as, i, r, unmapped, freed) ==
    LET kept(restored) == [st |-> IF restored.st = "SUCCESS" THEN freed.st ELSE "MEMORY_CORRUPTION",
                           m  |-> restored.m, as |-> as]
    IN  IF freed.st = "SUCCESS" THEN With(freed, [as EXCEPT !.regions = RemoveAt(@, i)])
        ELSE IF r.prot = {}     THEN [st |-> "MEMORY_CORRUPTION", m |-> unmapped.m, as |-> as]
        ELSE kept(zi_x64_paging_map_range(unmapped.m, as.root, r.base, r.page, r.count, r.prot))

release_region(m, as, i) ==
    LET r == as.regions[i]
        free(unmapped) ==
            IF unmapped.st # "SUCCESS" THEN With(unmapped, as)
            ELSE RegionFreed(as, i, r, unmapped, zi_pmm_free(unmapped.m, r.page, r.count, r.owner))
    IN  free(zi_x64_paging_unmap_range(Zeroed(m, r), as.root, r.base, r.count))

zi_address_space_unmap_owned(m, as, v, count) ==
    IF find_exact_region(as, v, count) = {} THEN [st |-> "NOT_FOUND", m |-> m, as |-> as]
    ELSE release_region(m, as, Min(find_exact_region(as, v, count)))

ReleaseLast(r) == IF r.st # "SUCCESS" THEN r ELSE release_region(r.m, r.as, Len(r.as.regions))

zi_address_space_destroy(m, as) ==
    LET drained[k \in 0 .. Len(as.regions)] ==
            IF k = 0 THEN [st |-> "SUCCESS", m |-> m, as |-> as] ELSE ReleaseLast(drained[k - 1])
        gone(empty, freed) == With(freed, IF freed.st = "SUCCESS" THEN NoSpace ELSE empty.as)
        free(empty) ==
            IF empty.st # "SUCCESS" THEN empty
            ELSE gone(empty, zi_x64_paging_release_empty_address_space(empty.m, as.root, m.kroot))
    IN  IF as = NoSpace THEN [st |-> "INVALID_ARGUMENT", m |-> m, as |-> as]
        ELSE free(drained[Len(as.regions)])

\* access is a subset of {"READ", "WRITE", "EXECUTE"}.
zi_address_space_query(m, as, v, access) ==
    LET grants(q) == q.st = "SUCCESS" /\ {"USER"} \cup access \subseteq q.prot
    IN  /\ as # NoSpace
        /\ zi_user_range_is_valid(v, 1)
        /\ grants(zi_x64_paging_query(m, as.root, v))

zi_copy_from_user(m, as, v) ==
    IF zi_address_space_query(m, as, v, {"READ"}) THEN "SUCCESS" ELSE "INVALID_USER_BUFFER"

zi_copy_to_user(m, as, v) ==
    IF zi_address_space_query(m, as, v, {"WRITE"})
    THEN [st |-> "SUCCESS",
          m  |-> [m EXCEPT !.dirty = @ \cup {zi_x64_paging_query(m, as.root, v).page}]]
    ELSE [st |-> "INVALID_USER_BUFFER", m |-> m]
=============================================================================
