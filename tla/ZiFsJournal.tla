----------------------------- MODULE ZiFsJournal -----------------------------
(***************************************************************************)
(* The ZiFS redo journal: mount, commit, flush and unmount of a volume and *)
(* the recovery of an interrupted one, over a block device with a volatile *)
(* write cache (kernel/fs/zifs/{journal,transaction,recovery,zifs}.c).      *)
(*                                                                         *)
(* An operation reads the device, decides, and then performs a fixed list   *)
(* of write batches with a barrier after each.  The deciding part is one    *)
(* action; it leaves the list in plan, and Issue and Barrier carry it out,  *)
(* so that power can fail, or a write can fail, between any two writes.     *)
(***************************************************************************)
EXTENDS Naturals, FiniteSets, Sequences, SequencesExt

CONSTANTS
    Blocks,          \* home blocks that transactions rewrite, a set of numbers > 0
    RootBlock,       \* the one that holds the root file record
    RecordCapacity,  \* slots of the journal ring
    MaxImages,       \* images a transaction workspace can stage
    Settings,        \* volumes and machines, see IsSetting
    MaxStamps        \* the largest bound on transactions among them

\* clean: the volume has ZI_FS_FEATURE_INCOMPAT_CLEAN_UNMOUNT_V1; workspaces:
\* caller-owned transaction workspaces; warm: a restart may keep the device's
\* write cache; stamps, faults, damage: bounds on the transactions prepared, on
\* power losses, I/O errors, warm restarts and damaged copies together, and on
\* the copies damaged while unmounted.
IsSetting(x) ==
    /\ {x.clean, x.warm} \subseteq BOOLEAN /\ IsFiniteSet(x.workspaces)
    /\ x.workspaces \subseteq Nat \ {0} /\ {x.faults, x.damage} \subseteq Nat
    /\ x.stamps \in 0 .. MaxStamps

ASSUME JournalAssumption ==
    /\ Blocks \subseteq Nat \ {0} /\ IsFiniteSet(Blocks) /\ RootBlock \in Blocks
    /\ RecordCapacity \in Nat /\ RecordCapacity >= 5
    /\ MaxImages \in 1..28
    /\ MaxStamps \in Nat /\ \A x \in Settings : IsSetting(x)

VARIABLES
    setting,   \* the one of this behaviour
    media,     \* what every block holds durably
    pend,      \* per block, the writes since the last barrier
    op,        \* the operation in progress
    plan,      \* the write batches it has still to make durable
    issued,    \* the first batch has been written and awaits its barrier
    vol,       \* the mounted ZiFsVolume
    tx,        \* per workspace, the prepared transaction or NoTx
    job,       \* what the operation in progress publishes when it completes
    tried,     \* history: how many commits have begun with each transaction id
    stamps, faults, damages

device == <<media, pend>>
bounds == <<setting, stamps, faults, damages>>
vars   == <<setting, media, pend, op, plan, issued, vol, tx, job, tried, stamps, faults, damages>>

Slots  == 0 .. RecordCapacity - 1
Copies == 0 .. 1                     \* 0 is the primary superblock, 1 the backup
Addr   == ({"super", "header"} \X Copies) \cup ({"record"} \X Slots) \cup ({"home"} \X Blocks)

Torn == MaxStamps + 1                \* a home block half old and half new

Reserved == 1                        \* ZI_FS_JOURNAL_RESERVED_RECORDS

-----------------------------------------------------------------------------
(* The block device: what a read sees, one write, a barrier, a power loss.  *)

View == [a \in Addr |-> IF pend[a] = <<>> THEN media[a] ELSE Last(pend[a])]

Pending == {a \in Addr : pend[a] # <<>>}

At(a, v) == [x \in {a} |-> v]

\* A home block and an image record can be torn: only their contents span
\* more than the first sector, and an image record spans two blocks.
Tear(a, old, new) ==
    CASE a[1] = "home"   -> {Torn}
      [] a[1] = "record" -> {[r EXCEPT !.ok = FALSE] : r \in {x \in {old, new} : x.type = "IMAGE"}}
      [] OTHER           -> {}

\* What a power loss may leave in block a.
Outcomes(a) ==
    LET versions == {media[a]} \cup ToSet(pend[a])
    IN  versions \cup UNION {Tear(a, old, new) : old, new \in versions}

PowerLossMedia ==
    {f \in [Pending -> UNION {Outcomes(a) : a \in Pending}] : \A a \in Pending : f[a] \in Outcomes(a)}

-----------------------------------------------------------------------------
(* Journal ring and headers (journal.c).                                    *)

AdvanceRecord(index, count) ==
    LET remaining == count % RecordCapacity
    IN  IF remaining >= RecordCapacity - index
        THEN remaining - (RecordCapacity - index)
        ELSE index + remaining

Occupied(h) ==
    IF h.head >= h.tail THEN h.head - h.tail ELSE RecordCapacity - (h.tail - h.head)

Available(h) == RecordCapacity - Occupied(h) - Reserved

HeaderIsValid(h) ==
    /\ h.seq # 0 /\ h.gen # 0 /\ h.nextSeq # 0
    /\ h.nextId = h.committed + 1
    /\ \/ h.checkpoint = h.committed /\ Occupied(h) = 0
       \/ h.committed = h.checkpoint + 1 /\ Occupied(h) >= 3

ValidHeaders(d) == {c \in Copies : HeaderIsValid(d[<<"header", c>>])}

\* ZiFsLoadJournalHeader: the valid copy with the highest header sequence.
LoadedCopy(d) ==
    CHOOSE c \in ValidHeaders(d) : \A e \in ValidHeaders(d) :
        \/ d[<<"header", c>>].seq > d[<<"header", e>>].seq
        \/ d[<<"header", c>>].seq = d[<<"header", e>>].seq /\ c <= e

LoadedHeader(d) == d[<<"header", LoadedCopy(d)>>]

\* The header describes an empty journal that matches superblock sb.
Checkpointed(d, sb) ==
    /\ ValidHeaders(d) # {}
    /\ LET h == LoadedHeader(d)
       IN  /\ h.gen = sb.gen
           /\ h.committed = sb.txid /\ h.checkpoint = h.committed
           /\ h.head = h.tail /\ h.nextId = h.committed + 1

-----------------------------------------------------------------------------
(* Superblock selection (zifs.c).                                           *)

Super(d, c) == d[<<"super", c>>]

SuperIsValid(sb) == sb.gen # 0

SelectedCopy(d) ==
    LET primary == Super(d, 0)
        backup  == Super(d, 1)
    IN  IF \/ ~SuperIsValid(primary)
           \/ /\ SuperIsValid(backup)
              /\ \/ backup.gen > primary.gen
                 \/ backup.gen = primary.gen /\ backup.state = {} /\ primary.state # {}
        THEN 1 ELSE 0

Selected(d) == Super(d, SelectedCopy(d))

RedundancyMismatch(d) == Super(d, 0) # Super(d, 1)

\* What makes ZiFsMountVolume answer RECOVERY_REQUIRED on a writable device.
NeedsRecovery(d) ==
    \/ RedundancyMismatch(d)
    \/ Selected(d).state # {}
    \/ ValidHeaders(d) = {}
    \/ LoadedHeader(d).gen # Selected(d).gen
    \/ LoadedHeader(d).checkpoint # Selected(d).txid

RootReadable(d) == d[<<"home", RootBlock>>] # Torn

-----------------------------------------------------------------------------
(* Journal records and the recovery scan (recovery.c).                      *)

Record(type, id, seq, src, count, sum) ==
    [type |-> type, id |-> id, seq |-> seq, src |-> src, count |-> count,
     sum |-> sum, target |-> 0, val |-> 0, ok |-> TRUE]

EmptyRecord == Record("NONE", 0, 0, 0, 0, {})

ImageRecord(id, seq, src, target, val) ==
    [Record("IMAGE", id, seq, src, 0, {}) EXCEPT !.target = target, !.val = val]

\* ZiFsJournalExtendTransactionChecksum folds id, sequence, target and payload
\* of every image; the model keeps the folded data instead of its CRC.
ChecksumOf(records) == {<<r.id, r.seq, r.target, r.val>> : r \in records}

Hits(d, id) == {s \in Slots : LET r == d[<<"record", s>>] IN r.type # "NONE" /\ r.id = id}

HitsOf(d, id, type) == {d[<<"record", s>>] : s \in {x \in Hits(d, id) : d[<<"record", x>>].type = type}}

CountOf(d, id, type) == Cardinality({s \in Hits(d, id) : d[<<"record", s>>].type = type})

\* scan_transaction and validate_recovery_scan both succeed.
ScanIsValid(d, id, src) ==
    LET images == HitsOf(d, id, "IMAGE")
        n      == CountOf(d, id, "IMAGE")
    IN  /\ \A s \in Hits(d, id) : d[<<"record", s>>].ok /\ d[<<"record", s>>].src = src
        /\ CountOf(d, id, "BEGIN") = 1 /\ CountOf(d, id, "COMMIT") <= 1
        /\ CountOf(d, id, "CHECKPOINT") <= 1
        /\ \A begin \in HitsOf(d, id, "BEGIN") :
              /\ begin.count = n /\ n # 0 /\ n <= RecordCapacity - Reserved - 3
              /\ Cardinality({r.target : r \in images}) = n
              /\ {r.seq : r \in images} = begin.seq + 1 .. begin.seq + n
              /\ \A commit \in HitsOf(d, id, "COMMIT") :
                    /\ commit.seq = begin.seq + n + 1
                    /\ commit.sum = ChecksumOf(images) /\ commit.count = n
              /\ \A check \in HitsOf(d, id, "CHECKPOINT") :
                    /\ CountOf(d, id, "COMMIT") = 1
                    /\ check.seq = begin.seq + n + 2
                    /\ check.sum = ChecksumOf(images) /\ check.count = n

\* The slot holding the highest sequence number of the transaction.
LastHit(d, id) ==
    CHOOSE s \in Hits(d, id) : \A r \in Hits(d, id) :
        \/ d[<<"record", s>>].seq > d[<<"record", r>>].seq
        \/ d[<<"record", s>>].seq = d[<<"record", r>>].seq /\ s <= r

\* Variant: replay leaves out the image with the highest target.
ReplayBatchShort(d, id) ==
    LET all == HitsOf(d, id, "IMAGE")
        few == {r \in all : Cardinality(all) = 1 \/ \E x \in all : x.target > r.target}
    IN  [a \in {<<"home", r.target>> : r \in few} |-> (CHOOSE r \in few : r.target = a[2]).val]

\* replay_images: every scanned image to its home block.
ReplayBatch(d, id) ==
    [a \in {<<"home", r.target>> : r \in HitsOf(d, id, "IMAGE")} |->
        (CHOOSE r \in HitsOf(d, id, "IMAGE") : r.target = a[2]).val]

-----------------------------------------------------------------------------
(* The write schedule of every operation: batches, each made durable by a   *)
(* barrier before the next is written.                                      *)

\* write_volume_state and write_transaction_superblocks: backup, then primary.
SuperPlan(sb) == << At(<<"super", 1>>, sb), At(<<"super", 0>>, sb) >>

StableState(sb) == IF sb.cleanUnmount THEN {"MOUNTED"} ELSE {}

\* The records of transaction t from head h.head on: BEGIN and the images.
BeginBatch(t, h) ==
    LET targets == SetToSortSeq(DOMAIN t.images, <)
        n       == Len(targets)
    IN  [a \in {<<"record", AdvanceRecord(h.head, k)>> : k \in 0 .. n} |->
            LET k == CHOOSE k \in 0 .. n : a[2] = AdvanceRecord(h.head, k)
            IN  IF k = 0
                THEN Record("BEGIN", t.id, h.nextSeq, t.src, n, {})
                ELSE ImageRecord(t.id, h.nextSeq + k, t.src, targets[k], t.images[targets[k]])]

\* Variant: the sequence number is not advanced before CHECKPOINT.
MarkerBatchSameSequence(t, h, step, type) ==
    LET n      == Cardinality(DOMAIN t.images)
        begin  == BeginBatch(t, h)
        images == {r \in {begin[a] : a \in DOMAIN begin} : r.type = "IMAGE"}
    IN  At(<<"record", AdvanceRecord(h.head, n + step)>>,
           Record(type, t.id, h.nextSeq + n + 1, t.src, n, ChecksumOf(images)))

\* COMMIT (step 1) and CHECKPOINT (step 2) behind the images.
MarkerBatch(t, h, step, type) ==
    LET n      == Cardinality(DOMAIN t.images)
        begin  == BeginBatch(t, h)
        images == {r \in {begin[a] : a \in DOMAIN begin} : r.type = "IMAGE"}
    IN  At(<<"record", AdvanceRecord(h.head, n + step)>>,
           Record(type, t.id, h.nextSeq + n + step, t.src, n, ChecksumOf(images)))

\* The header that publishes the commit, and the one that reclaims the ring.
CommittedHeader(t, h) ==
    LET n == Cardinality(DOMAIN t.images)
    IN  [h EXCEPT !.seq = @ + 1, !.gen = t.src + 1, !.head = AdvanceRecord(h.head, n + 2),
                  !.nextSeq = @ + n + 2, !.nextId = t.id + 1, !.committed = t.id]

CheckpointedHeader(t, h) ==
    LET head == AdvanceRecord(CommittedHeader(t, h).head, 1)
    IN  [CommittedHeader(t, h) EXCEPT !.seq = @ + 1, !.head = head, !.tail = head,
                                      !.nextSeq = @ + 1, !.checkpoint = t.id]

CommitSuper(t, state) == [vol.sb EXCEPT !.gen = t.src + 1, !.txid = t.id, !.state = state]

\* Variant: home blocks are written before the COMMIT record.
CommitPlanHomesFirst(t, h, c) ==
    << BeginBatch(t, h) >>
    \o SuperPlan(CommitSuper(t, StableState(vol.sb) \cup {"DIRTY"}))
    \o << [a \in {"home"} \X DOMAIN t.images |-> t.images[a[2]]],
          MarkerBatch(t, h, 1, "COMMIT"),
          At(<<"header", 1 - c>>, CommittedHeader(t, h)) >>
    \o SuperPlan(CommitSuper(t, StableState(vol.sb)))
    \o << MarkerBatch(t, h, 2, "CHECKPOINT"),
          At(<<"header", c>>, CheckpointedHeader(t, h)) >>

\* ZiFsTransactionCommit, from the loaded header h in copy c.
CommitPlan(t, h, c) ==
    << BeginBatch(t, h) >>
    \o SuperPlan(CommitSuper(t, StableState(vol.sb) \cup {"DIRTY"}))
    \o << MarkerBatch(t, h, 1, "COMMIT"),
          At(<<"header", 1 - c>>, CommittedHeader(t, h)),
          [a \in {"home"} \X DOMAIN t.images |-> t.images[a[2]]] >>
    \o SuperPlan(CommitSuper(t, StableState(vol.sb)))
    \o << MarkerBatch(t, h, 2, "CHECKPOINT"),
          At(<<"header", c>>, CheckpointedHeader(t, h)) >>

\* write_clean_superblocks: the copy that was not selected first.
CleanPlan(sb, selected) == << At(<<"super", 1 - selected>>, sb), At(<<"super", selected>>, sb) >>

\* Variant: the rewritten headers start counting again.
ResetPlanFromOne(d, sb, minimum, reclaimed) ==
    LET head == IF reclaimed \in Slots THEN reclaimed ELSE LoadedHeader(d).head
        Header(n) ==
            [seq |-> n, gen |-> sb.gen, head |-> head, tail |-> head, nextSeq |-> minimum,
             nextId |-> sb.txid + 1, committed |-> sb.txid, checkpoint |-> sb.txid]
    IN  << At(<<"header", 0>>, Header(1)), At(<<"header", 1>>, Header(2)) >>

\* reset_journal_headers: both copies, the loaded one last.
ResetPlan(d, sb, minimum, reclaimed) ==
    LET valid    == ValidHeaders(d) # {}
        previous == LoadedHeader(d)
        seq      == IF valid THEN previous.seq ELSE 0
        head     == IF reclaimed \in Slots THEN reclaimed ELSE IF valid THEN previous.head ELSE 0
        first    == IF valid THEN 1 - LoadedCopy(d) ELSE 0
        Header(n) ==
            [seq |-> seq + n, gen |-> sb.gen, head |-> head, tail |-> head,
             nextSeq |-> IF valid /\ previous.nextSeq > minimum THEN previous.nextSeq ELSE minimum,
             nextId |-> sb.txid + 1, committed |-> sb.txid, checkpoint |-> sb.txid]
    IN  << At(<<"header", first>>, Header(1)), At(<<"header", 1 - first>>, Header(2)) >>

-----------------------------------------------------------------------------
(* Operations.                                                              *)

NoTx  == [id |-> 0, src |-> 0, images |-> <<>>, base |-> <<>>]
NoVol == [sb |-> [gen |-> 0, txid |-> 0, state |-> {}, cleanUnmount |-> FALSE], fromBackup |-> FALSE,
          mounted |-> FALSE, needsRecovery |-> FALSE]
NoJob == [sb |-> NoVol.sb, ws |-> 0]

Init ==
    /\ setting \in Settings
    /\ media = [a \in Addr |->
          CASE a[1] = "super"  -> [gen |-> 1, txid |-> 0, state |-> {}, cleanUnmount |-> setting.clean]
            [] a[1] = "header" -> [seq |-> a[2] + 1, gen |-> 1, head |-> 0, tail |-> 0, nextSeq |-> 1,
                                   nextId |-> 1, committed |-> 0, checkpoint |-> 0]
            [] a[1] = "record" -> EmptyRecord
            [] a[1] = "home"   -> 0]
    /\ pend = [a \in Addr |-> <<>>]
    /\ op = "off" /\ plan = <<>> /\ issued = FALSE
    /\ vol = NoVol /\ tx = [w \in setting.workspaces |-> NoTx] /\ job = NoJob
    /\ tried = [i \in 1 .. MaxStamps |-> 0]
    /\ stamps = 0 /\ faults = 0 /\ damages = 0

Start(name, batches, sb, w) ==
    /\ op' = name /\ plan' = batches /\ issued' = FALSE
    /\ job' = [sb |-> sb, ws |-> w]

Stop(name) == op' = name /\ plan' = <<>> /\ issued' = FALSE /\ job' = NoJob

\* The next batch of the operation in progress goes to the device's cache.
Issue ==
    /\ plan # <<>> /\ ~issued
    /\ pend' = [a \in Addr |-> IF a \in DOMAIN Head(plan) THEN Append(pend[a], Head(plan)[a])
                               ELSE pend[a]]
    /\ issued' = TRUE
    /\ UNCHANGED <<media, op, plan, vol, tx, job, tried, bounds>>

\* zi_block_barrier: everything written so far is durable.
Barrier ==
    /\ issued
    /\ media' = View /\ pend' = [a \in Addr |-> <<>>]
    /\ plan' = Tail(plan) /\ issued' = FALSE
    /\ UNCHANGED <<op, vol, tx, job, tried, bounds>>

\* ZiFsMountVolume of a volume that needs no recovery.
Mount ==
    /\ op = "off"
    /\ \E c \in Copies : SuperIsValid(Super(View, c))
    /\ ~NeedsRecovery(View) /\ RootReadable(View)
    /\ LET sb == Selected(View)
           up == [sb EXCEPT !.state = StableState(sb)]
       IN  /\ vol' = [sb |-> sb, fromBackup |-> SelectedCopy(View) = 1,
                      mounted |-> FALSE, needsRecovery |-> FALSE]
           /\ Start("mount", IF sb.cleanUnmount THEN SuperPlan(up) ELSE <<>>, up, 0)
    /\ UNCHANGED <<device, tx, tried, bounds>>

\* ZiFsMountVolume answers RECOVERY_REQUIRED; mount_root_block_device then
\* calls ZiFsRecoverVolume on the volume it left behind.
MountNeedsRecovery ==
    /\ op = "off"
    /\ \E c \in Copies : SuperIsValid(Super(View, c))
    /\ NeedsRecovery(View)
    /\ vol' = [sb |-> Selected(View), fromBackup |-> SelectedCopy(View) = 1,
               mounted |-> FALSE, needsRecovery |-> TRUE]
    /\ Stop("required")
    /\ UNCHANGED <<device, tx, tried, bounds>>

CompleteMount ==
    /\ op = "mount" /\ plan = <<>>
    /\ vol' = [vol EXCEPT !.sb = job.sb, !.mounted = TRUE]
    /\ Stop("idle")
    /\ UNCHANGED <<device, tx, tried, bounds>>

\* ZiFsTransactionInitialise and one of the Prepare calls: the images of some
\* blocks, computed from what the volume holds now.
Prepare(w) ==
    /\ op = "idle" /\ vol.mounted /\ tx[w] = NoTx
    /\ ~vol.needsRecovery /\ vol.sb.state = StableState(vol.sb)
    /\ stamps < setting.stamps
    /\ \E targets \in SUBSET Blocks :
          /\ Cardinality(targets) \in 1 .. MaxImages
          /\ tx' = [tx EXCEPT ![w] = [id |-> vol.sb.txid + 1, src |-> vol.sb.gen,
                                      images |-> [b \in targets |-> stamps + 1],
                                      base |-> [b \in Blocks |-> View[<<"home", b>>]]]]
    /\ stamps' = stamps + 1
    /\ UNCHANGED <<device, op, plan, issued, vol, job, tried, setting, faults, damages>>

\* ZiFsTransactionReset of a prepared transaction.
Reset(w) ==
    /\ op = "idle" /\ tx[w] # NoTx
    /\ tx' = [tx EXCEPT ![w] = NoTx]
    /\ UNCHANGED <<device, op, plan, issued, vol, job, tried, bounds>>

\* Variant: the source generation and the transaction id are not compared.
CommitAdmitsStale(t, h) ==
    /\ h.committed = vol.sb.txid /\ h.checkpoint = h.committed
    /\ h.head = h.tail
    /\ Occupied(h) = 0 /\ Cardinality(DOMAIN t.images) + 3 <= Available(h)

\* What ZiFsTransactionCommit requires of the loaded header; otherwise it
\* returns RECOVERY_REQUIRED or JOURNAL_FULL and changes nothing.
CommitAdmits(t, h) ==
    /\ h.gen = t.src /\ h.nextId = t.id
    /\ h.committed = vol.sb.txid /\ h.checkpoint = h.committed
    /\ h.head = h.tail
    /\ Occupied(h) = 0 /\ Cardinality(DOMAIN t.images) + 3 <= Available(h)

Commit(w) ==
    /\ op = "idle" /\ vol.mounted /\ ~vol.needsRecovery /\ tx[w] # NoTx
    /\ ValidHeaders(View) # {}
    /\ CommitAdmits(tx[w], LoadedHeader(View))
    /\ Start("commit", CommitPlan(tx[w], LoadedHeader(View), LoadedCopy(View)),
             CommitSuper(tx[w], StableState(vol.sb)), w)
    /\ tried' = [tried EXCEPT ![tx[w].id] = @ + 1]
    /\ UNCHANGED <<device, vol, tx, bounds>>

CompleteCommit ==
    /\ op = "commit" /\ plan = <<>>
    /\ vol' = [vol EXCEPT !.sb = job.sb]
    /\ tx' = [tx EXCEPT ![job.ws] = NoTx]
    /\ Stop("idle")
    /\ UNCHANGED <<device, tried, bounds>>

\* ZiFsRecoverVolume.  It has four outcomes; all but the refusal end with the
\* volume unmounted and published clean, and are followed by another mount.
UncleanMount == vol.sb.cleanUnmount /\ vol.sb.state = {"MOUNTED"}

CleanSuper(sb) == [sb EXCEPT !.state = {}]

Side == IF vol.fromBackup THEN 1 ELSE 0

\* Variant: the superblocks are written back as they were.
RecoverUncleanMountKeepsState ==
    /\ op = "required"
    /\ UncleanMount /\ Checkpointed(View, vol.sb)
    /\ Start("recover", CleanPlan(vol.sb, Side), vol.sb, 0)
    /\ UNCHANGED <<device, vol, tx, tried, bounds>>

\* A mounted volume that was idle: only the superblocks are rewritten.
RecoverUncleanMount ==
    /\ op = "required"
    /\ UncleanMount /\ Checkpointed(View, vol.sb)
    /\ Start("recover", CleanPlan(CleanSuper(vol.sb), Side), CleanSuper(vol.sb), 0)
    /\ UNCHANGED <<device, vol, tx, tried, bounds>>

\* No transaction was in flight: copies are rewritten from the selected one.
RecoverRedundancy ==
    /\ op = "required"
    /\ vol.sb.state = {}
    /\ Start("recover", CleanPlan(vol.sb, Side) \o ResetPlan(View, vol.sb, 1, RecordCapacity),
             vol.sb, 0)
    /\ UNCHANGED <<device, vol, tx, tried, bounds>>

MustScan ==
    /\ vol.sb.state # {}
    /\ ~UncleanMount \/ (ValidHeaders(View) # {} /\ ~Checkpointed(View, vol.sb))

ScanSucceeds ==
    /\ vol.sb.gen >= 2 /\ vol.sb.txid # 0
    /\ ScanIsValid(View, vol.sb.txid, vol.sb.gen - 1)

ReclaimPlan(sb) ==
    LET last == LastHit(View, vol.sb.txid)
    IN  CleanPlan(sb, Side)
        \o ResetPlan(View, sb, View[<<"record", last>>].seq + 1, AdvanceRecord(last, 1))

\* A transaction was in flight and its COMMIT record is there: redo it.
RecoverReplay ==
    /\ op = "required" /\ MustScan /\ ScanSucceeds
    /\ CountOf(View, vol.sb.txid, "COMMIT") = 1
    /\ Start("recover", << ReplayBatch(View, vol.sb.txid) >> \o ReclaimPlan(CleanSuper(vol.sb)),
             CleanSuper(vol.sb), 0)
    /\ UNCHANGED <<device, vol, tx, tried, bounds>>

\* There is no COMMIT record: back to the source generation.
RecoverRollBack ==
    /\ op = "required" /\ MustScan /\ ScanSucceeds
    /\ CountOf(View, vol.sb.txid, "COMMIT") = 0
    /\ LET old == [vol.sb EXCEPT !.gen = @ - 1, !.txid = @ - 1, !.state = {}]
       IN  Start("recover", ReclaimPlan(old), old, 0)
    /\ UNCHANGED <<device, vol, tx, tried, bounds>>

\* The volume stays closed: nothing has been written to it.
RecoverRefuse ==
    /\ op = "required"
    /\ \/ UncleanMount /\ ValidHeaders(View) = {}
       \/ MustScan /\ ~ScanSucceeds
    /\ Stop("refused")
    /\ UNCHANGED <<device, vol, tx, tried, bounds>>

CompleteRecover ==
    /\ op = "recover" /\ plan = <<>>
    /\ RootReadable(View)
    /\ vol' = NoVol
    /\ Stop("off")
    /\ UNCHANGED <<device, tx, tried, bounds>>

\* ZiFsUnmountVolume, which begins with ZiFsFlushVolume: a barrier over a
\* checkpointed journal.  Transactions of the volume die with it.
Unmount ==
    /\ op = "idle" /\ vol.mounted
    /\ ~vol.needsRecovery
    /\ vol.sb.state = StableState(vol.sb) /\ Checkpointed(View, vol.sb)
    /\ Start("unmount", << <<>> >> \o (IF vol.sb.cleanUnmount THEN SuperPlan(CleanSuper(vol.sb)) ELSE <<>>),
             CleanSuper(vol.sb), 0)
    /\ tx' = [w \in setting.workspaces |-> NoTx]
    /\ UNCHANGED <<device, vol, tried, bounds>>

\* A frozen volume only loses its mounted flag.
UnmountFrozen ==
    /\ op = "idle" /\ vol.mounted /\ vol.needsRecovery
    /\ vol' = [vol EXCEPT !.mounted = FALSE]
    /\ tx' = [w \in setting.workspaces |-> NoTx]
    /\ Stop("halted")
    /\ UNCHANGED <<device, tried, bounds>>

CompleteUnmount ==
    /\ op = "unmount" /\ plan = <<>>
    /\ vol' = NoVol
    /\ Stop("off")
    /\ UNCHANGED <<device, tx, tried, bounds>>

-----------------------------------------------------------------------------
(* Faults.                                                                  *)

\* A write or a barrier fails: some of the batch may have reached the cache.
\* A commit freezes the volume; any other operation gives the volume up.
IoError ==
    /\ plan # <<>> /\ faults + damages < setting.faults
    /\ \/ issued /\ UNCHANGED pend
       \/ /\ ~issued
          /\ \E part \in SUBSET DOMAIN Head(plan) :
                pend' = [a \in Addr |-> IF a \in part THEN Append(pend[a], Head(plan)[a]) ELSE pend[a]]
    /\ vol' = [vol EXCEPT !.needsRecovery = TRUE, !.mounted = (op = "commit")]
    /\ tx' = IF op = "commit" THEN [tx EXCEPT ![job.ws] = NoTx] ELSE tx
    /\ Stop(IF op = "commit" THEN "idle" ELSE "halted")
    /\ faults' = faults + 1
    /\ UNCHANGED <<media, tried, setting, stamps, damages>>

Reboot ==
    /\ op # "off" /\ faults + damages < setting.faults
    /\ Stop("off")
    /\ vol' = NoVol /\ tx' = [w \in setting.workspaces |-> NoTx]
    /\ faults' = faults + 1
    /\ UNCHANGED <<tried, setting, stamps, damages>>

\* Every unflushed write may be lost, kept or torn, independently.
PowerLoss ==
    /\ Reboot
    /\ \E kept \in PowerLossMedia :
          media' = [a \in Addr |-> IF a \in Pending THEN kept[a] ELSE media[a]]
    /\ pend' = [a \in Addr |-> <<>>]

\* The machine restarts and the device keeps its write cache.
Restart == setting.warm /\ Reboot /\ UNCHANGED device

\* One redundant copy of a cleanly unmounted volume becomes unreadable.
DamageCopy ==
    /\ op = "off" /\ damages < setting.damage /\ faults + damages < setting.faults
    /\ Pending = {} /\ ~NeedsRecovery(media)
    /\ \E c \in Copies :
          \/ media' = [media EXCEPT ![<<"super", c>>].gen = 0]
          \/ media' = [media EXCEPT ![<<"header", c>>].seq = 0]
    /\ damages' = damages + 1
    /\ UNCHANGED <<pend, op, plan, issued, vol, tx, job, tried, setting, stamps, faults>>

Next ==
    \/ Issue \/ Barrier
    \/ Mount \/ MountNeedsRecovery \/ CompleteMount
    \/ \E w \in setting.workspaces : Prepare(w) \/ Reset(w) \/ Commit(w)
    \/ CompleteCommit
    \/ RecoverUncleanMount \/ RecoverRedundancy \/ RecoverReplay \/ RecoverRollBack
    \/ RecoverRefuse \/ CompleteRecover
    \/ Unmount \/ UnmountFrozen \/ CompleteUnmount
    \/ IoError \/ PowerLoss \/ Restart \/ DamageCopy

Spec == Init /\ [][Next]_vars

\* The kernel runs an operation it has begun to its end, and boots: mounting
\* and recovering are not optional.  Faults and transactions are.
Progress ==
    \/ Issue \/ Barrier \/ Mount \/ MountNeedsRecovery
    \/ CompleteMount \/ CompleteCommit \/ CompleteRecover \/ CompleteUnmount
    \/ RecoverUncleanMount \/ RecoverRedundancy \/ RecoverReplay \/ RecoverRollBack \/ RecoverRefuse

FairSpec == Spec /\ WF_vars(Progress)

-----------------------------------------------------------------------------
(* Properties.                                                              *)

Supers  == [gen : Nat, txid : Nat, state : SUBSET {"MOUNTED", "DIRTY"}, cleanUnmount : BOOLEAN]
Headers == [seq : Nat, gen : Nat, head : Slots, tail : Slots, nextSeq : Nat,
            nextId : Nat, committed : Nat, checkpoint : Nat]
IsRecord(r) ==
    /\ r.type \in {"NONE", "BEGIN", "IMAGE", "COMMIT", "CHECKPOINT"}
    /\ {r.id, r.seq, r.src, r.count} \subseteq Nat
    /\ r.target \in Blocks \cup {0} /\ r.val \in 0 .. MaxStamps /\ r.ok \in BOOLEAN

Fits(a, v) ==
    CASE a[1] = "super"  -> v \in Supers
      [] a[1] = "header" -> v \in Headers
      [] a[1] = "record" -> IsRecord(v)
      [] a[1] = "home"   -> v \in 0 .. Torn

\* Every block holds content of its own kind, on the media and in the cache.
TypeOK ==
    /\ \A a \in Addr : Fits(a, media[a]) /\ \A i \in 1 .. Len(pend[a]) : Fits(a, pend[a][i])
    /\ op \in {"off", "required", "refused", "halted", "idle", "mount", "commit", "recover", "unmount"}
    /\ issued \in BOOLEAN /\ (plan # <<>> => op \in {"mount", "commit", "recover", "unmount"})
    /\ vol.sb \in Supers
    /\ job.ws \in setting.workspaces \cup {0} /\ job.sb \in Supers

\* The content a volume has, read off its durable blocks: the home blocks, and
\* over them the images of the newest transaction if its COMMIT is durable.
Logical(d) ==
    LET redo == UNION {c.sum : c \in HitsOf(d, Selected(d).txid, "COMMIT")}
    IN  [b \in Blocks |-> IF \E e \in redo : e[3] = b THEN (CHOOSE e \in redo : e[3] = b)[4]
                          ELSE d[<<"home", b>>]]

PendingCommits ==
    {r \in UNION {ToSet(pend[<<"record", s>>]) : s \in Slots} : r.type = "COMMIT"}

\* The transaction whose fate is still open.
StagedImages ==
    IF PendingCommits # {}
    THEN LET c == CHOOSE r \in PendingCommits : TRUE
         IN  [b \in {e[3] : e \in c.sum} |-> (CHOOSE e \in c.sum : e[3] = b)[4]]
    ELSE IF op = "commit" /\ \A s \in Slots : LET r == media[<<"record", s>>] IN
                                r.type = "COMMIT" => r.id # tx[job.ws].id
    THEN tx[job.ws].images
    ELSE <<>>

Shown == IF op = "idle" /\ ~vol.needsRecovery THEN [b \in Blocks |-> View[<<"home", b>>]] ELSE <<>>

Atomic == INSTANCE ZiFsAtomicVolume WITH
    Values <- 0 .. MaxStamps, content <- Logical(media), view <- Shown, staged <- StagedImages

\* Refinement: whatever is interrupted, and however often, the volume is one
\* whose content changes by whole transactions only (commit, mount, recovery).
AtomicVolume == Atomic!ASpec

\* Write-ahead: a home block is written only when a COMMIT record that covers
\* this very image is durable (ZiFsTransactionCommit and replay_images).  Where
\* a restart may keep the cache the record need only be in it: recovery does not
\* flush between its scan and replay_images.
WriteAhead ==
    \A b \in Blocks : \A i \in 1 .. Len(pend[<<"home", b>>]) :
        \E s \in Slots : LET r == (IF setting.warm THEN View ELSE media)[<<"record", s>>] IN
            r.type = "COMMIT" /\ \E e \in r.sum : e[3] = b /\ e[4] = pend[<<"home", b>>][i]

\* A transaction is committed only over the state it was prepared from: one
\* prepared before another commit is turned away (CommitAdmits).
CommitsOverItsBase ==
    op = "commit" /\ job.sb.gen # Selected(media).gen =>
        tx[job.ws].base = [b \in Blocks |-> media[<<"home", b>>]]

\* A usable mounted volume has an empty, matching journal, so that neither a
\* fresh transaction nor an unmount is turned away with RECOVERY_REQUIRED.
IdleIsCheckpointed ==
    op = "idle" /\ ~vol.needsRecovery =>
        /\ Pending = {} /\ Checkpointed(media, vol.sb)
        /\ \A c \in Copies : Super(media, c) = vol.sb

\* Between operations the volume is whole: contents of the right kind everywhere,
\* an idle volume checkpointed, a commit over the state it was prepared from.
VolumeWhole == TypeOK /\ IdleIsCheckpointed /\ CommitsOverItsBase

\* Recovery refuses a volume only where two commits have used one transaction
\* id: otherwise every restart finds the old or the new state.
RefusesOnlyReusedIds == op = "refused" => tried[vol.sb.txid] >= 2

\* The loaded journal header never goes back to an older one, except when the
\* newer copy is damaged (header_sequence orders the two copies).
HeaderAdvances ==
    [][damages' = damages /\ ValidHeaders(media) # {} =>
          ValidHeaders(media') # {} /\ LoadedHeader(media').seq >= LoadedHeader(media).seq]_vars

\* A restart comes to an end: the volume is usable or refused, or another
\* fault has stopped the boot (mount_root_block_device).
RestartEnds == (op = "off") ~> (op \in {"idle", "refused", "halted"})

\* docs/zifs.md: "Every restart must expose exactly the old or new state."
EveryRestartOpens == op # "refused"

=============================================================================
