------------------------------- MODULE Paging -------------------------------
(***************************************************************************)
(* The four-level page tables: kernel/mm/vmm/x64_paging.c, over the        *)
(* physical memory manager that supplies and takes back table pages (the   *)
(* callbacks paging_allocate and paging_release of kernel/mm/vmm/manager.c).*)
(* A virtual page is a number below Fan^Levels; the hardware has Fan = 512 *)
(* and Levels = 4.  The root entries from KernelRoot on are the kernel     *)
(* half.  A memory m has, beside the fields of PhysicalMemory,             *)
(*   pt        page |-> index |-> [page, bits], what the page holds when it *)
(*             is read as a table: bits are the flag bits that are set,    *)
(*   corrupt   g_paging_release_failed.                                    *)
(***************************************************************************)
EXTENDS PhysicalMemory

CONSTANTS Fan, Levels, KernelRoot

ASSUME PagingAssumption ==
    /\ Fan \in Nat /\ Levels \in Nat /\ KernelRoot \in 1 .. (Fan - 1)
    /\ Levels > 1

VirtualPages == 0 .. (Fan ^ Levels - 1)
UserPages    == { v \in VirtualPages : v \div Fan ^ (Levels - 1) < KernelRoot }

\* The index of virtual page v in its table of level l; level 1 is the root.
Index(v, l) == (v \div Fan ^ (Levels - l)) % Fan

(***************************************************************************)
(* Protections and the flag bits that encode them.                         *)
(***************************************************************************)
validate_protection(prot) ==
    /\ "READ" \in prot
    /\ prot \subseteq {"READ", "WRITE", "EXECUTE", "USER", "GLOBAL", "DEVICE"}
    /\ ~ {"WRITE", "EXECUTE"} \subseteq prot
    /\ ~ {"DEVICE", "EXECUTE"} \subseteq prot

leaf_flags(prot) ==
    {"PRESENT"} \cup (prot \cap {"WRITE", "USER", "GLOBAL"})
        \cup (IF "DEVICE" \in prot THEN {"WRITE_THROUGH", "CACHE_DISABLE"} ELSE {})
        \cup (IF "EXECUTE" \in prot THEN {} ELSE {"NO_EXECUTE"})

protection_from_leaf(bits) ==
    {"READ"} \cup (bits \cap {"WRITE", "USER", "GLOBAL"})
        \cup (IF "NO_EXECUTE" \in bits THEN {} ELSE {"EXECUTE"})
        \cup (IF {"WRITE_THROUGH", "CACHE_DISABLE"} \cap bits # {} THEN {"DEVICE"} ELSE {})

(***************************************************************************)
(* Table pages.                                                            *)
(***************************************************************************)
Zero      == [page |-> 0, bits |-> {}]
ZeroTable == [i \in 0 .. (Fan - 1) |-> Zero]

\* e is a pair of a table and an index.
Entry(m, e)      == m.pt[e[1]][e[2]]
IsPresent(m, e)  == "PRESENT" \in Entry(m, e).bits
ClearEntry(m, e) == [m EXCEPT !.pt[e[1]][e[2]] = Zero]

SetEntry(m, e, page, bits) == [m EXCEPT !.pt[e[1]][e[2]] = [page |-> page, bits |-> bits]]

table_is_empty(m, table) == \A i \in 0 .. (Fan - 1) : ~ IsPresent(m, <<table, i>>)

ReleasedOrCorrupt(m, freed) == IF freed.st = "SUCCESS" THEN freed.m ELSE [m EXCEPT !.corrupt = TRUE]

paging_release(m, page) == ReleasedOrCorrupt(m, zi_pmm_free(m, page, 1, "PAGE_TABLE"))

Cleared(page) == IF page.st = "SUCCESS" THEN [page EXCEPT !.m.pt[page.base] = ZeroTable] ELSE page

\* Variant: the new table keeps what the page held.
allocate_table_as_is(m) == zi_pmm_allocate(m, 1, "PAGE_TABLE")

\* The new table is cleared before it is linked.
allocate_table(m) == Cleared(zi_pmm_allocate(m, 1, "PAGE_TABLE"))

\* Takes the tables that a walk created away again, the last one first.
rollback_tables(w) ==
    LET undone[k \in 0 .. Len(w.created)] ==
            IF k = 0 THEN w.m
            ELSE LET c == w.created[Len(w.created) + 1 - k]
                 IN  paging_release(ClearEntry(undone[k - 1], c.entry), c.page)
    IN  undone[Len(w.created)]

\* One level of a walk: e is the entry that leads down, t what allocate_table
\* answers if it has to be asked.
Descend(w, e, create, prot, t) ==
    IF w.st # "SUCCESS"       THEN w
    ELSE IF IsPresent(w.m, e) THEN [w EXCEPT !.path = Append(@, Entry(w.m, e).page)]
    ELSE IF create /\ t.st = "SUCCESS"
    THEN [w EXCEPT !.m = SetEntry(t.m, e, t.base, {"PRESENT", "WRITE"} \cup (prot \cap {"USER"})),
                   !.path = Append(@, t.base),
                   !.created = Append(@, [entry |-> e, page |-> t.base])]
    ELSE [w EXCEPT !.st = IF create THEN t.st ELSE "PAGE_NOT_MAPPED", !.m = rollback_tables(w)]

WalkDown(w, v, l, create, prot) ==
    Descend(w, <<w.path[Len(w.path)], Index(v, l)>>, create, prot, allocate_table(w.m))

\* Walks to the table that holds v's leaf entry.  path[l] is the table of
\* level l; missing tables are created on request, and taken away again when
\* one of them cannot be had.
walk_to_leaf(m, root, v, create, prot) ==
    LET walk[l \in 1 .. Levels] ==
            IF l = 1
            THEN [st |-> "SUCCESS", m |-> m, path |-> <<root>>, created |-> << >>]
            ELSE WalkDown(walk[l - 1], v, l - 1, create, prot)
    IN  walk[Levels]

LeafEntry(w, v) == <<w.path[Levels], Index(v, Levels)>>

\* The walk arrived and the leaf entry is present.
Leads(w, v) == w.st = "SUCCESS" /\ IsPresent(w.m, LeafEntry(w, v))

promote_user_path(w, v, prot) ==
    LET raised[l \in 0 .. (Levels - 1)] ==
            IF l = 0 THEN w.m
            ELSE [raised[l - 1] EXCEPT !.pt[w.path[l]][Index(v, l)].bits = @ \cup {"USER"}]
    IN  IF "USER" \in prot THEN raised[Levels - 1] ELSE w.m

zi_x64_paging_query(m, root, v) ==
    LET answer(w) ==
            IF Leads(w, v)
            THEN [st |-> "SUCCESS", page |-> Entry(m, LeafEntry(w, v)).page,
                  prot |-> protection_from_leaf(Entry(m, LeafEntry(w, v)).bits)]
            ELSE [st |-> "PAGE_NOT_MAPPED", page |-> 0, prot |-> {}]
    IN  answer(walk_to_leaf(m, root, v, FALSE, {"READ"}))

(***************************************************************************)
(* Mapping, unmapping and changing the protection of pages.                *)
(***************************************************************************)
zi_x64_paging_map_page(m, root, v, page, prot) ==
    LET enter(w) ==
            IF w.st # "SUCCESS"  THEN [st |-> w.st, m |-> w.m]
            ELSE IF Leads(w, v)  THEN [st |-> "ALREADY_EXISTS", m |-> w.m]
            ELSE [st |-> "SUCCESS",
                  m  |-> SetEntry(promote_user_path(w, v, prot), LeafEntry(w, v), page, leaf_flags(prot))]
    IN  IF validate_protection(prot)
        THEN enter(walk_to_leaf(m, root, v, TRUE, prot))
        ELSE [st |-> "INVALID_ARGUMENT", m |-> m]

\* Variant: the tables that become empty stay linked.
PrunedNever(w, v) == ClearEntry(w.m, LeafEntry(w, v))

\* Gives back the table below level l of the walk if it has become empty.
PruneBelow(m, w, v, l) ==
    IF table_is_empty(m, w.path[l + 1])
    THEN paging_release(ClearEntry(m, <<w.path[l], Index(v, l)>>), w.path[l + 1])
    ELSE m

\* The leaf entry is cleared, then the tables that became empty are given
\* back, from the leaf's table upwards to the first that is not empty; never
\* the root.
Pruned(w, v) ==
    LET up[l \in 1 .. Levels] ==
            IF l = Levels THEN ClearEntry(w.m, LeafEntry(w, v)) ELSE PruneBelow(up[l + 1], w, v, l)
    IN  up[1]

zi_x64_paging_unmap_page(m, root, v) ==
    LET clear(w) == IF Leads(w, v) THEN [st |-> "SUCCESS", m |-> Pruned(w, v)]
                    ELSE [st |-> "PAGE_NOT_MAPPED", m |-> m]
    IN  clear(walk_to_leaf(m, root, v, FALSE, {"READ"}))

zi_x64_paging_protect_page(m, root, v, prot) ==
    LET change(w, e) ==
            IF Leads(w, v)
            THEN [st |-> "SUCCESS",
                  m  |-> SetEntry(promote_user_path(w, v, prot), e, Entry(m, e).page, leaf_flags(prot))]
            ELSE [st |-> "PAGE_NOT_MAPPED", m |-> m]
        at(w) == change(w, LeafEntry(w, v))
    IN  IF validate_protection(prot)
        THEN at(walk_to_leaf(m, root, v, FALSE, prot))
        ELSE [st |-> "INVALID_ARGUMENT", m |-> m]

\* The two halves lie on either side of the addresses that are not canonical.
validate_virtual_range(v, count) ==
    /\ count > 0
    /\ v + count - 1 \in VirtualPages
    /\ v \in UserPages <=> v + count - 1 \in UserPages

\* The result of mapping page by page until one fails; done counts the pages
\* that were mapped.
Mapped(r, p) == [st |-> p.st, m |-> p.m, done |-> IF p.st = "SUCCESS" THEN r.done + 1 ELSE r.done]

MapNext(r, root, v, page, prot) ==
    IF r.st # "SUCCESS" THEN r
    ELSE Mapped(r, zi_x64_paging_map_page(r.m, root, v + r.done, page + r.done, prot))

MapEach(m, root, v, page, count, prot) ==
    LET mapped[k \in 0 .. count] ==
            IF k = 0 THEN [st |-> "SUCCESS", m |-> m, done |-> 0]
            ELSE MapNext(mapped[k - 1], root, v, page, prot)
    IN  mapped[count]

\* Variant: a page that cannot be mapped leaves the pages before it mapped.
Rollback_none(r, root, v) == [st |-> r.st, m |-> r.m]

\* A page that cannot be mapped takes the pages mapped before it away, the
\* last one first.
Rollback(r, root, v) ==
    LET undone[k \in 0 .. r.done] ==
            IF k = 0 THEN r.m
            ELSE zi_x64_paging_unmap_page(undone[k - 1], root, v + r.done - k).m
    IN  [st |-> r.st, m |-> IF r.st = "SUCCESS" THEN r.m ELSE undone[r.done]]

zi_x64_paging_map_range(m, root, v, page, count, prot) ==
    IF validate_virtual_range(v, count)
    THEN Rollback(MapEach(m, root, v, page, count, prot), root, v)
    ELSE [st |-> "INVALID_ARGUMENT", m |-> m]

AllMapped(m, root, v, count) ==
    \A i \in 0 .. (count - 1) : zi_x64_paging_query(m, root, v + i).st = "SUCCESS"

zi_x64_paging_unmap_range(m, root, v, count) ==
    LET cleared[k \in 0 .. count] ==
            IF k = 0 THEN m ELSE zi_x64_paging_unmap_page(cleared[k - 1], root, v + k - 1).m
    IN  IF ~ validate_virtual_range(v, count)  THEN [st |-> "INVALID_ARGUMENT", m |-> m]
        ELSE IF ~ AllMapped(m, root, v, count) THEN [st |-> "PAGE_NOT_MAPPED", m |-> m]
        ELSE [st |-> "SUCCESS", m |-> cleared[count]]

zi_x64_paging_protect_range(m, root, v, count, prot) ==
    LET changed[k \in 0 .. count] ==
            IF k = 0 THEN m ELSE zi_x64_paging_protect_page(changed[k - 1], root, v + k - 1, prot).m
    IN  IF ~ validate_virtual_range(v, count) \/ ~ validate_protection(prot)
        THEN [st |-> "INVALID_ARGUMENT", m |-> m]
        ELSE IF ~ AllMapped(m, root, v, count) THEN [st |-> "PAGE_NOT_MAPPED", m |-> m]
        ELSE [st |-> "SUCCESS", m |-> changed[count]]

(***************************************************************************)
(* Roots.                                                                  *)
(***************************************************************************)
zi_x64_paging_create(m) == allocate_table([m EXCEPT !.corrupt = FALSE])

UserIndices   == 0 .. (KernelRoot - 1)
KernelIndices == KernelRoot .. (Fan - 1)

SameKernelHalf(m, root, kernel) == \A i \in KernelIndices : m.pt[root][i] = m.pt[kernel][i]

KernelHalfIsUser(m, root) == \E i \in KernelIndices : "USER" \in m.pt[root][i].bits

zi_x64_paging_clone_kernel_half(m, kernel) ==
    LET copy(root) ==
            IF root.st # "SUCCESS" THEN root
            ELSE IF KernelHalfIsUser(m, kernel)
            THEN [st |-> "INVALID_STATE", m |-> paging_release(root.m, root.base), base |-> 0]
            ELSE [root EXCEPT !.m.pt[root.base] =
                     [i \in KernelIndices |-> m.pt[kernel][i]] @@ @]
    IN  copy(allocate_table(m))

zi_x64_paging_release_empty_address_space(m, root, kernel) ==
    IF \E i \in UserIndices : IsPresent(m, <<root, i>>)
    THEN [st |-> "RESOURCE_IN_USE", m |-> m]
    ELSE IF ~ SameKernelHalf(m, root, kernel) \/ KernelHalfIsUser(m, root)
    THEN [st |-> "INVALID_STATE", m |-> m]
    ELSE [st |-> "SUCCESS", m |-> paging_release(m, root)]
=============================================================================
