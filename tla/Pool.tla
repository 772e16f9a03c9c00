-------------------------------- MODULE Pool --------------------------------
(***************************************************************************)
(* The kernel pool and its object cache (kernel/mm/pool/pool.c), on a pool   *)
(* record [mem, size, active, bytes].  mem is the arena, by byte offset: it  *)
(* has an entry where a block header, a slot header, a tail canary or a      *)
(* non-zero byte of a caller stands, and none where the bytes are zero.      *)
(* Sizes are the code's.  Generations and the peak are left out: they are    *)
(* only written, and compared with what they were when a canary was made.    *)
(***************************************************************************)
EXTENDS Naturals, FiniteSets, TLC

ALIGNMENT == 16
HEADER    == 64   \* sizeof(ZiPoolBlockHeader)
SLOT      == 32   \* sizeof(ZiObjectSlotHeader)
TAIL      == 8

Aligned(n) == ((n + ALIGNMENT - 1) \div ALIGNMENT) * ALIGNMENT
allocation_span(size) == Aligned(HEADER + size + TAIL)
cache_slot_stride(size) == Aligned(SLOT + size + TAIL)
MinimumSpan == allocation_span(ALIGNMENT)

-----------------------------------------------------------------------------
(* The arena                                                                *)

In(mem, a, n) == {x \in DOMAIN mem : a <= x /\ x < a + n}
bytes_are_zero(mem, a, n) == In(mem, a, n) = {}
ZeroBytes(mem, a, n) == [x \in DOMAIN mem \ In(mem, a, n) |-> mem[x]]

Canary(at, size) == [kind |-> "tail", at |-> at, size |-> size]
HasCanary(mem, a, at, size) == a \in DOMAIN mem /\ mem[a] = Canary(at, size)

\* What a caller writes: its first and its last byte.
Written(mem, a, n, by) == [x \in {a, a + n - 1} |-> [kind |-> "data", by |-> by]] @@ mem

calculate_block_checksum(b, o) == <<o, b.span, b.previous_span, b.requested_size, b.state>>

\* Writes a block header and refreshes its checksum.
WithBlock(mem, o, span, previous, requested, state) ==
    (o :> [kind |-> "block", span |-> span, previous_span |-> previous,
           requested_size |-> requested, state |-> state,
           checksum |-> <<o, span, previous, requested, state>>]) @@ mem

\* next_block(o)->previous_span is brought up to date.
Relinked(mem, size, o) ==
    LET n == o + mem[o].span
    IN  IF n = size THEN mem
        ELSE WithBlock(mem, n, mem[n].span, mem[o].span, mem[n].requested_size, mem[n].state)

-----------------------------------------------------------------------------
(* Validation                                                               *)

AllocatedIsValid(mem, b, o) ==
    /\ b.requested_size # 0 /\ allocation_span(b.requested_size) <= b.span
    /\ HasCanary(mem, o + HEADER + b.requested_size, o, b.requested_size)
    /\ LET used == HEADER + b.requested_size + TAIL
       IN  bytes_are_zero(mem, o + used, b.span - used)

FreeIsValid(mem, b, o) ==
    /\ b.span >= MinimumSpan /\ b.requested_size = 0
    /\ bytes_are_zero(mem, o + HEADER, b.span - HEADER)

BlockIsValid(p, b, o, previous) ==
    /\ b.kind = "block" /\ b.previous_span = previous
    /\ b.span >= HEADER + TAIL + 1 /\ b.span % ALIGNMENT = 0 /\ b.span <= p.size - o
    /\ b.checksum = calculate_block_checksum(b, o)
    /\ IF b.state = "ALLOCATED" THEN AllocatedIsValid(p.mem, b, o) ELSE FreeIsValid(p.mem, b, o)

RECURSIVE ScanFrom(_, _, _, _, _)
ScanFrom(p, o, previous, count, bytes) ==
    IF o >= p.size THEN o = p.size /\ count = p.active /\ bytes = p.bytes
    ELSE /\ p.size - o >= HEADER /\ o \in DOMAIN p.mem
         /\ BlockIsValid(p, p.mem[o], o, previous)
         /\ ScanFrom(p, o + p.mem[o].span, p.mem[o].span,
                     count + (IF p.mem[o].state = "ALLOCATED" THEN 1 ELSE 0),
                     bytes + p.mem[o].requested_size)

pool_scan(p) == ScanFrom(p, 0, 0, 0, 0)

RECURSIVE BlocksFrom(_, _)
BlocksFrom(p, o) == IF o >= p.size THEN {} ELSE {o} \cup BlocksFrom(p, o + p.mem[o].span)
Blocks(p) == BlocksFrom(p, 0)

-----------------------------------------------------------------------------
(* Allocation and release.  A result is [st, p, at].                        *)

Answer(st, p, at) == [st |-> st, p |-> p, at |-> at]
Refused(st, p) == Answer(st, p, 0)

zi_pool_initialise(size) ==
    [mem |-> WithBlock(<<>>, 0, size, 0, 0, "FREE"), size |-> size, active |-> 0, bytes |-> 0]

\* Variant: the block behind a split keeps the span of the whole as previous_span.
SplitBlockUnlinked(mem, size, o, span, need) ==
    IF span - need < MinimumSpan THEN mem
    ELSE WithBlock(mem, o + need, span - need, need, 0, "FREE")

\* The rest of a block, when it is large enough to stand alone.
SplitBlock(mem, size, o, span, need) ==
    IF span - need < MinimumSpan THEN mem
    ELSE Relinked(WithBlock(mem, o + need, span - need, need, 0, "FREE"), size, o + need)

TakeBlock(p, o, b, need, size) ==
    LET split == SplitBlock(ZeroBytes(p.mem, o + HEADER, b.span - HEADER), p.size, o, b.span, need)
        span  == IF b.span - need < MinimumSpan THEN b.span ELSE need
        at    == o + HEADER
    IN  Answer("SUCCESS",
               [p EXCEPT !.mem = (at + size :> Canary(o, size)) @@
                                 WithBlock(split, o, span, b.previous_span, size, "ALLOCATED"),
                         !.active = @ + 1, !.bytes = @ + size],
               at)

FirstFit(p, fits, size) ==
    IF fits = {} THEN Refused("NO_MEMORY", p)
    ELSE LET o == CHOOSE x \in fits : \A y \in fits : x <= y
         IN  TakeBlock(p, o, p.mem[o], allocation_span(size), size)

zi_pool_allocate(p, size) ==
    IF size = 0 THEN Refused("INVALID_ARGUMENT", p)
    ELSE IF ~pool_scan(p) THEN Refused("MEMORY_CORRUPTION", p)
    ELSE FirstFit(p, {o \in Blocks(p) : p.mem[o].state = "FREE"
                                        /\ p.mem[o].span >= allocation_span(size)}, size)

MergeNext(mem, size, o) ==
    LET n == o + mem[o].span
    IN  IF n < size /\ mem[n].state = "FREE"
        THEN Relinked(WithBlock(mem, o, mem[o].span + mem[n].span, mem[o].previous_span, 0, "FREE"),
                      size, o)
        ELSE mem

\* The free block that results is zeroed behind its header.
Scrubbed(mem, o) == ZeroBytes(mem, o + HEADER, mem[o].span - HEADER)

MergePrevious(mem, size, o) ==
    LET b == o - mem[o].previous_span
    IN  IF b < o /\ mem[b].state = "FREE"
        THEN Scrubbed(Relinked(WithBlock(mem, b, mem[b].span + mem[o].span,
                                         mem[b].previous_span, 0, "FREE"), size, b), b)
        ELSE Scrubbed(mem, o)

FreeBlock(p, o) ==
    IF p.mem[o].state = "FREE" THEN Refused("INVALID_STATE", p)
    ELSE Answer("SUCCESS",
                [p EXCEPT !.mem = MergePrevious(
                              MergeNext(WithBlock(@, o, @[o].span, @[o].previous_span, 0, "FREE"),
                                        p.size, o), p.size, o),
                          !.active = @ - 1, !.bytes = @ - p.mem[o].requested_size],
                0)

zi_pool_free(p, at) ==
    IF ~pool_scan(p) THEN Refused("MEMORY_CORRUPTION", p)
    ELSE IF at < HEADER \/ at - HEADER \notin Blocks(p) THEN Refused("INVALID_ARGUMENT", p)
    ELSE FreeBlock(p, at - HEADER)

-----------------------------------------------------------------------------
(* The object cache: slots of one size in one pool allocation.              *)

SlotHeader(i, state) == [kind |-> "slot", index |-> i, state |-> state]
slot_at(c, i) == c.storage + i * c.stride
SlotsOf(c) == 0 .. c.capacity - 1
SlotState(p, c, i) == p.mem[slot_at(c, i)].state

zi_object_cache_initialise(p, object_size, capacity) ==
    LET stride == cache_slot_stride(object_size)
        r      == zi_pool_allocate(p, capacity * stride)
        c      == [storage |-> r.at, object_size |-> object_size, stride |-> stride,
                   capacity |-> capacity, active |-> 0]
        heads  == [x \in {slot_at(c, i) : i \in SlotsOf(c)} |->
                     SlotHeader((x - c.storage) \div stride, "FREE")]
    IN  [st |-> r.st, c |-> c,
         p |-> IF r.st = "SUCCESS" THEN [r.p EXCEPT !.mem = heads @@ @] ELSE r.p]

SlotIsValid(p, c, i) ==
    LET s == slot_at(c, i)
        o == s + SLOT
    IN  /\ s \in DOMAIN p.mem /\ p.mem[s] \in {SlotHeader(i, "FREE"), SlotHeader(i, "ALLOCATED")}
        /\ IF p.mem[s].state = "ALLOCATED"
           THEN /\ HasCanary(p.mem, o + c.object_size, s, c.object_size)
                /\ bytes_are_zero(p.mem, o + c.object_size + TAIL,
                                  c.stride - SLOT - c.object_size - TAIL)
           ELSE bytes_are_zero(p.mem, o, c.stride - SLOT)

zi_object_cache_validate(p, c) ==
    /\ pool_scan(p)
    /\ \A i \in SlotsOf(c) : SlotIsValid(p, c, i)
    /\ Cardinality({i \in SlotsOf(c) : SlotState(p, c, i) = "ALLOCATED"}) = c.active

CacheAnswer(st, p, c, at) == [st |-> st, p |-> p, c |-> c, at |-> at]

\* Slot i, zeroed, in the given state.
ResetSlot(mem, c, i, state) ==
    (slot_at(c, i) :> SlotHeader(i, state)) @@ ZeroBytes(mem, slot_at(c, i), c.stride)

TakeSlot(p, c, i) ==
    LET o == slot_at(c, i) + SLOT
    IN  CacheAnswer("SUCCESS",
                    [p EXCEPT !.mem = (o + c.object_size :> Canary(slot_at(c, i), c.object_size)) @@
                                      ResetSlot(@, c, i, "ALLOCATED")],
                    [c EXCEPT !.active = @ + 1], o)

zi_object_cache_allocate(p, c) ==
    IF ~zi_object_cache_validate(p, c) THEN CacheAnswer("MEMORY_CORRUPTION", p, c, 0)
    ELSE IF c.active = c.capacity THEN CacheAnswer("NO_MEMORY", p, c, 0)
    ELSE TakeSlot(p, c, CHOOSE i \in SlotsOf(c) : SlotState(p, c, i) = "FREE" /\
                          \A j \in SlotsOf(c) : SlotState(p, c, j) = "FREE" => i <= j)

FreeSlot(p, c, slots) ==
    IF slots = {} THEN CacheAnswer("INVALID_ARGUMENT", p, c, 0)
    ELSE LET i == CHOOSE x \in slots : TRUE
         IN  IF SlotState(p, c, i) = "FREE" THEN CacheAnswer("INVALID_STATE", p, c, 0)
             ELSE CacheAnswer("SUCCESS", [p EXCEPT !.mem = ResetSlot(@, c, i, "FREE")],
                              [c EXCEPT !.active = @ - 1], 0)

zi_object_cache_free(p, c, at) ==
    IF ~zi_object_cache_validate(p, c) THEN CacheAnswer("MEMORY_CORRUPTION", p, c, 0)
    ELSE FreeSlot(p, c, {i \in SlotsOf(c) : slot_at(c, i) + SLOT = at})

=============================================================================
