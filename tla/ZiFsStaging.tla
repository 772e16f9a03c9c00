----------------------------- MODULE ZiFsStaging -----------------------------
(***************************************************************************)
(* The file operations of ZiFS as staged transactions: create, move,        *)
(* truncate, write and delete read the committed volume, collect the block  *)
(* images of their result in a caller-owned workspace, and a commit puts    *)
(* all images in place (kernel/fs/zifs/{transaction,zifs}.c).               *)
(*                                                                         *)
(* A failing preparation leaves the workspace READY and empty and is a      *)
(* stuttering step.  That a commit is all or nothing, also across a power   *)
(* loss, is what ZiFsJournal establishes; here a commit is one step.        *)
(***************************************************************************)
EXTENDS Naturals, FiniteSets, Sequences, SequencesExt, FiniteSetsExt, TLC

CONSTANTS
    RecordBlocks,      \* blocks of the file record table
    RecordsPerBlock,
    DirectoryBlocks,   \* blocks of the directory table
    DataBlocks,        \* blocks after the metadata
    BlockSize,         \* bytes of a block
    EntriesPerBlock,   \* entries of a directory block; names are of one size
    MaxExtents,        \* ZI_FS_INLINE_EXTENT_COUNT
    MaxDirectoryBlocks,\* ZI_FS_MAX_DIRECTORY_BLOCKS
    MaxFileId,         \* stands for UINT64_MAX
    Workspaces,
    ImageCapacity,     \* images a workspace holds
    Names,
    NoName,
    Chunks,            \* data a caller passes to create and write
    MaxFileSize,       \* bound: bytes of a file
    MaxPrepared,       \* bound: preparations
    SecurityIds,       \* descriptors of the volume's security table
    Directories,       \* initial directories: a sequence of <<parent, name>>
    Existing,          \* initial files: a sequence of [parent, name, bytes, extents]
    Stale              \* what freed blocks still hold

VARIABLES
    disk,   \* block -> contents, as committed
    tx,     \* workspace -> [state, images, deferred, current]
    prepared

vars == <<disk, tx, prepared>>

-----------------------------------------------------------------------------
(* The layout of the volume and what its blocks hold.                       *)

RecordTable    == 1 .. RecordBlocks
DirectoryTable == RecordBlocks + 1 .. RecordBlocks + DirectoryBlocks
Bitmap         == RecordBlocks + DirectoryBlocks + 1
TotalBlocks    == Bitmap + DataBlocks + 2
Backup         == TotalBlocks - 1

block_is_metadata(b) == b = 0 \/ b = Backup \/ b \in RecordTable \cup DirectoryTable \cup {Bitmap}

Slots == 0 .. RecordBlocks * RecordsPerBlock - 1
RootRecord == 0
RootId == 1

FreeRecord == [fid |-> 0]

NoExtents == <<>>

FileRecord(fid, parent, sec) ==
    [fid |-> fid, parent |-> parent, type |-> "regular", size |-> 0, alloc |-> 0,
     extents |-> NoExtents, dirblock |-> 0, sec |-> sec]

RecordBlock(i) == 1 + i \div RecordsPerBlock

RecordAt(i) == disk[RecordBlock(i)][i % RecordsPerBlock]

UsedSlots == {i \in Slots : RecordAt(i) # FreeRecord}

BlocksOf(e) == e.phys .. e.phys + e.count - 1

block_ranges_overlap(e, f) == BlocksOf(e) \cap BlocksOf(f) # {}

-----------------------------------------------------------------------------
(* Reading the committed volume (zifs.c).                                   *)

\* The extents cover alloc blocks from logical block first on, without holes.
ExtentsTile(r, first) ==
    /\ \A k \in 1 .. Len(r.extents) :
        /\ r.extents[k].count > 0
        /\ r.extents[k].log = IF k = 1 THEN first ELSE r.extents[k-1].log + r.extents[k-1].count
    /\ r.alloc = IF r.extents = NoExtents THEN 0 ELSE Last(r.extents).log + Last(r.extents).count - first

validate_file_record_shape(r) ==
    /\ r.fid # 0 /\ r.sec # 0 /\ Len(r.extents) <= MaxExtents
    /\ IF r.type = "directory"
       THEN /\ r.size = 0 /\ r.dirblock # 0
            /\ ExtentsTile(r, 1) /\ r.alloc < MaxDirectoryBlocks
       ELSE /\ r.dirblock = 0
            /\ IF r.size = 0
               THEN r.alloc = 0 /\ r.extents = NoExtents
               ELSE r.extents # NoExtents /\ r.alloc * BlockSize >= r.size /\ ExtentsTile(r, 0)

validate_file_record_extents(r) ==
    \A k \in 1 .. Len(r.extents) :
        /\ \A b \in BlocksOf(r.extents[k]) : b < TotalBlocks /\ ~block_is_metadata(b)
        /\ \A m \in k + 1 .. Len(r.extents) : ~block_ranges_overlap(r.extents[k], r.extents[m])

ZiFsValidateFileRecord(r) ==
    /\ validate_file_record_shape(r)
    /\ r.type = "directory" => r.dirblock \in DirectoryTable
    /\ validate_file_record_extents(r)

\* ZiFsReadFileRecord succeeds.
Readable(i) == i \in Slots /\ RecordAt(i) # FreeRecord /\ ZiFsValidateFileRecord(RecordAt(i))

\* The physical block of logical block l: the empty set when no extent has it.
record_physical_block(r, l) ==
    {e.phys + (l - e.log) : e \in {x \in ToSet(r.extents) : l >= x.log /\ l - x.log < x.count}}

\* ZiFsDirectoryBlockAt over all logical blocks, in order.
BlocksOfDirectory(r) ==
    [l \in 1 .. r.alloc + 1 |->
        IF l = 1 THEN r.dirblock ELSE CHOOSE b \in record_physical_block(r, l - 1) : TRUE]

ZiFsValidateDirectoryBlock(c, fid) == c.owner = fid

ZiFsFindDirectoryEntry(c, name) == {e \in c.entries : e.name = name}

ZiFsInitialiseDirectoryBlock(fid) == [owner |-> fid, entries |-> {}]
ZiFsCanAddDirectoryEntry(c) == Cardinality(c.entries) < EntriesPerBlock
ZiFsAddDirectoryEntry(c, entry) == [c EXCEPT !.entries = @ \cup {entry}]
ZiFsRemoveDirectoryEntry(c, name) == [c EXCEPT !.entries = @ \ ZiFsFindDirectoryEntry(c, name)]

DirectoryIsValid(r) ==
    /\ r.type = "directory"
    /\ \A b \in ToSet(BlocksOfDirectory(r)) : ZiFsValidateDirectoryBlock(disk[b], r.fid)

\* The entries of directory r called name, with the block of each.  More than
\* one is ZI_STATUS_CORRUPT_FILESYSTEM, none is ZI_STATUS_NOT_FOUND.
ZiFsFindDirectoryEntryInRecord(r, name) ==
    {<<b, e>> \in UNION {{b} \X disk[b].entries : b \in ToSet(BlocksOfDirectory(r))} : e.name = name}

\* The entry describes record r, a child of the directory with id parent.
EntryMatches(e, r, parent) == r.fid = e.fid /\ r.type = e.type /\ r.parent = parent

NotFound == RecordBlocks * RecordsPerBlock
Corrupt  == NotFound + 1

\* One component of a path (the loop of lookup_path_record); Corrupt stands for every failure that
\* is not ZI_STATUS_NOT_FOUND.
lookup_component(at, name) ==
    LET dir   == RecordAt(at)
        found == ZiFsFindDirectoryEntryInRecord(dir, name)
    IN  IF dir.type # "directory" THEN NotFound
        ELSE IF ~DirectoryIsValid(dir) \/ Cardinality(found) > 1 THEN Corrupt
        ELSE IF found = {} THEN NotFound
        ELSE LET e == (CHOOSE x \in found : TRUE)[2]
             IN  IF Readable(e.slot) /\ EntryMatches(e, RecordAt(e.slot), dir.fid) THEN e.slot ELSE Corrupt

\* The bytes ZiFsReadFile returns for the whole file.
ZiFsReadFile(r) ==
    [k \in 1 .. r.size |->
        LET b == CHOOSE x \in record_physical_block(r, (k - 1) \div BlockSize) : TRUE
        IN  disk[b][((k - 1) % BlockSize) + 1]]

-----------------------------------------------------------------------------
(* Staging: an image map im takes every block to its new contents.          *)

NoImages == <<>>

\* transaction_read_block_view: staged contents before committed ones.
View(im, b) == IF b \in DOMAIN im THEN im[b] ELSE disk[b]

Stage(im, b, contents) == (b :> contents) @@ im

stage_changed_file_record(im, i, r) ==
    Stage(im, RecordBlock(i), [View(im, RecordBlock(i)) EXCEPT ![i % RecordsPerBlock] = r])

range_is_free(im, b, n) ==
    /\ b + n <= TotalBlocks
    /\ \A x \in b .. b + n - 1 : ~block_is_metadata(x) /\ x \notin View(im, Bitmap)

\* The first run of n free blocks, or nothing (ZI_STATUS_VOLUME_FULL).
find_free_extent(im, n) ==
    LET starts == {b \in 0 .. TotalBlocks - 1 : range_is_free(im, b, n)}
    IN  {b \in starts : \A c \in starts : b <= c}

\* Variant: any block that follows the last extent will do.
find_append_extent_unchecked(im, r, n) ==
    LET preferred == Last(r.extents).phys + Last(r.extents).count
    IN  IF r.extents # NoExtents /\ preferred + n < TotalBlocks
        THEN {preferred} ELSE find_free_extent(im, n)

\* Right behind the last extent when that is free.
find_append_extent(im, r, n) ==
    LET preferred == Last(r.extents).phys + Last(r.extents).count
    IN  IF r.extents # NoExtents /\ range_is_free(im, preferred, n)
        THEN {preferred} ELSE find_free_extent(im, n)

\* The record grown by an extent: none when a fifth one would be needed.
append_record_extent(r, l, p, n) ==
    LET last == Last(r.extents)
    IN  IF r.extents # NoExtents /\ last.log + last.count = l /\ last.phys + last.count = p
        THEN {[r EXCEPT !.extents[Len(r.extents)].count = @ + n, !.alloc = @ + n]}
        ELSE IF Len(r.extents) < MaxExtents
        THEN {[r EXCEPT !.extents = Append(@, [log |-> l, phys |-> p, count |-> n]), !.alloc = @ + n]}
        ELSE {}

stage_extent_allocation(im, p, n) == Stage(im, Bitmap, View(im, Bitmap) \cup p .. p + n - 1)

\* All extents of the sequence; CanRelease is its success.
stage_extent_release(im, extents) ==
    IF extents = <<>> THEN im
    ELSE Stage(im, Bitmap, View(im, Bitmap) \ UNION {BlocksOf(e) : e \in ToSet(extents)})

CanRelease(im, extents) ==
    /\ Len(extents) <= MaxExtents
    /\ \A k \in 1 .. Len(extents) :
        /\ \A b \in BlocksOf(extents[k]) : ~block_is_metadata(b) /\ b \in View(im, Bitmap)
        /\ \A m \in 1 .. k - 1 : ~block_ranges_overlap(extents[k], extents[m])

\* The blocks of the directory with room for one more entry, first one first.
find_directory_insertion_block(im, dir) ==
    SelectSeq(BlocksOfDirectory(dir), LAMBDA b : ZiFsCanAddDirectoryEntry(View(im, b)))

\* A continuation block that holds the entry: the results [im, dir].
stage_new_directory_block(im, dir, entry) ==
    IF dir.alloc + 1 >= MaxDirectoryBlocks THEN {}
    ELSE UNION {
        {[im  |-> Stage(stage_extent_allocation(im, p, 1), p,
                        ZiFsAddDirectoryEntry(ZiFsInitialiseDirectoryBlock(dir.fid), entry)),
          dir |-> grown] : grown \in append_record_extent(dir, dir.alloc + 1, p, 1)} :
        p \in find_append_extent(im, dir, 1)}

\* The results [im, dir] of adding an entry to directory dir: none or one.
stage_directory_entry(im, dir, entry) ==
    LET room == find_directory_insertion_block(im, dir)
    IN  IF room # <<>>
        THEN {[im |-> Stage(im, Head(room), ZiFsAddDirectoryEntry(View(im, Head(room)), entry)),
               dir |-> dir]}
        ELSE stage_new_directory_block(im, dir, entry)

stage_directory_removal(im, b, name) == Stage(im, b, ZiFsRemoveDirectoryEntry(View(im, b), name))

-----------------------------------------------------------------------------
(* Preparing a transaction.                                                 *)

Ready(w) == tx[w].state = "READY" /\ prepared < MaxPrepared

\* The workspace holds the images, unless they are more than it has room for.
Prepared(w, im, deferred) ==
    /\ Cardinality(DOMAIN im) <= ImageCapacity
    /\ prepared' = prepared + 1
    /\ tx' = [tx EXCEPT ![w].state = "PREPARED", ![w].images = im, ![w].deferred = deferred]
    /\ UNCHANGED disk

\* Blocks that n bytes take.
BlockCount(n) == (n + BlockSize - 1) \div BlockSize

\* Block contents: the bytes of data at file offset at, over the bytes of base.
Filled(base, l, data, at) ==
    [k \in 1 .. BlockSize |->
        LET o == l * BlockSize + k
        IN  IF o > at /\ o <= at + Len(data) THEN data[o - at] ELSE base[k]]

Zeroed == [k \in 1 .. BlockSize |-> 0]

\* Every used record decodes, as the scans of the record table demand.
RecordTableIsValid == \A i \in UsedSlots : Readable(i)

\* find_free_record: the first free slot, and one more than the largest file id.
FreeSlots   == {i \in Slots : RecordAt(i) = FreeRecord}
FreshFileId == Max({RecordAt(i).fid : i \in UsedSlots}) + 1

ZiFsTransactionPrepareCreateFile(w, p, name, data, sec) ==
    LET parent == RecordAt(p)
        i      == Min(FreeSlots)
        fid    == FreshFileId
        n      == BlockCount(Len(data))
        entry  == [name |-> name, fid |-> fid, slot |-> i, type |-> "regular"]
    IN  /\ Ready(w) /\ sec \in SecurityIds
        /\ Readable(p) /\ DirectoryIsValid(parent)
        /\ ZiFsFindDirectoryEntryInRecord(parent, name) = {}
        /\ RecordTableIsValid /\ FreeSlots # {} /\ fid <= MaxFileId
        /\ \E first \in IF n = 0 THEN {0} ELSE find_free_extent(NoImages, n) :
            LET bare    == FileRecord(fid, parent.fid, sec)
                record  == IF n = 0 THEN bare
                           ELSE [bare EXCEPT !.size = Len(data), !.alloc = n,
                                    !.extents = <<[log |-> 0, phys |-> first, count |-> n]>>]
                bits    == IF n = 0 THEN NoImages ELSE stage_extent_allocation(NoImages, first, n)
                records == stage_changed_file_record(bits, i, record)
            IN  \E added \in stage_directory_entry(records, parent, entry) :
                    LET im   == stage_changed_file_record(added.im, p, added.dir)
                        home == [b \in first .. first + n - 1 |-> Filled(Zeroed, b - first, data, 0)]
                    IN  Prepared(w, home @@ im, <<>>)

\* find_record_by_file_id over the committed table.
RecordsWithId(fid) == {i \in UsedSlots : RecordAt(i).fid = fid}

\* Variant: a directory may go anywhere.
validate_move_destination_none(moved, target) == moved.type \in {"directory", "regular"}

\* A directory does not go below itself: hop by hop from the target to the root.
validate_move_destination(moved, target) ==
    LET up[n \in 0 .. Cardinality(Slots)] ==
            IF n = 0 THEN target
            ELSE LET r == up[n-1]
                 IN  IF r.fid = r.parent THEN r
                     ELSE RecordAt(CHOOSE i \in RecordsWithId(r.parent) : TRUE)
    IN  moved.type = "directory" =>
            /\ RecordTableIsValid
            /\ \A n \in 0 .. Cardinality(Slots) : up[n].type = "directory" /\ up[n].fid # moved.fid
            /\ \E n \in 0 .. Cardinality(Slots) - 1 : up[n].fid = up[n].parent

ZiFsTransactionPrepareMove(w, sp, sname, tp, tname) ==
    LET source == RecordAt(sp)
        target == RecordAt(tp)
        found  == ZiFsFindDirectoryEntryInRecord(source, sname)
        block  == (CHOOSE x \in found : TRUE)[1]
        old    == (CHOOSE x \in found : TRUE)[2]
        moved  == RecordAt(old.slot)
    IN  /\ Ready(w)
        /\ Readable(sp) /\ DirectoryIsValid(source) /\ Cardinality(found) = 1
        /\ sp = tp => sname # tname
        /\ sp # tp => /\ Readable(tp) /\ DirectoryIsValid(target)
                      /\ source.fid # target.fid /\ source.dirblock # target.dirblock
        /\ ZiFsFindDirectoryEntryInRecord(target, tname) = {}
        /\ Readable(old.slot) /\ old.slot # RootRecord /\ EntryMatches(old, moved, source.fid)
        /\ sp # tp => validate_move_destination(moved, target)
        /\ \E added \in stage_directory_entry(stage_directory_removal(NoImages, block, sname), target,
                                              [old EXCEPT !.name = tname]) :
            LET im1 == stage_changed_file_record(added.im, sp, IF sp = tp THEN added.dir ELSE source)
                im2 == IF sp = tp THEN im1 ELSE stage_changed_file_record(im1, tp, added.dir)
            IN  Prepared(w, stage_changed_file_record(im2, old.slot, [moved EXCEPT !.parent = target.fid]),
                         <<>>)

validate_allocated_extents(r) == \A e \in ToSet(r.extents) : BlocksOf(e) \subseteq disk[Bitmap]

\* The extents of record i are its own and allocated.
validate_extent_ownership(i) ==
    LET owner == RecordAt(i)
    IN  /\ RecordTableIsValid
        /\ \A j \in UsedSlots \ {i} :
            /\ RecordAt(j).fid # owner.fid
            /\ \A e \in ToSet(owner.extents), f \in ToSet(RecordAt(j).extents) : ~block_ranges_overlap(e, f)
        /\ validate_allocated_extents(owner)

\* The first n blocks of the extents, and the rest.
Retained(extents, n) ==
    SelectSeq([k \in 1 .. Len(extents) |->
                  [extents[k] EXCEPT !.count = Min({@, Max({n, extents[k].log}) - extents[k].log})]],
              LAMBDA e : e.count > 0)

Released(extents, n) ==
    SelectSeq([k \in 1 .. Len(extents) |->
                  LET keep == Min({extents[k].count, Max({n, extents[k].log}) - extents[k].log})
                  IN  [extents[k] EXCEPT !.phys = @ + keep, !.count = @ - keep]],
              LAMBDA e : e.count > 0)

\* Variant: the end of the last block keeps its old bytes.
StageTailKept(im, r, size) == im

\* The bytes of the last retained block behind the new end become zero.
StageTail(im, r, size) ==
    LET last == Last(r.extents)
        b    == last.phys + last.count - 1
        keep == size % BlockSize
    IN  IF size = 0 \/ keep = 0 THEN im
        ELSE Stage(im, b, [k \in 1 .. BlockSize |-> IF k <= keep THEN View(im, b)[k] ELSE 0])

\* A regular file, not the root, that the caller names by record index.
IsRegular(i) == i # RootRecord /\ Readable(i) /\ RecordAt(i).type = "regular"

ZiFsTransactionPrepareTruncate(w, i, size) ==
    LET record  == RecordAt(i)
        keep    == BlockCount(size)
        changed == [record EXCEPT !.extents = Retained(@, keep), !.size = size, !.alloc = keep]
        release == Released(record.extents, keep)
        im      == StageTail(stage_changed_file_record(NoImages, i, changed), changed, size)
    IN  /\ Ready(w) /\ tx[w].deferred = <<>>
        /\ IsRegular(i) /\ size <= record.size
        /\ validate_extent_ownership(i)
        /\ CanRelease(im, release)
        /\ Prepared(w, stage_extent_release(im, release), release)

ZiFsTransactionPrepareWrite(w, i, offset, data) ==
    LET record == RecordAt(i)
        end    == offset + Len(data)
        size   == Max({end, record.size})
        extra  == BlockCount(size) - record.alloc
    IN  /\ Ready(w) /\ tx[w].deferred = <<>>
        /\ IsRegular(i) /\ data # <<>> /\ offset <= record.size /\ end <= MaxFileSize
        /\ validate_extent_ownership(i)
        /\ BlockCount(size) >= record.alloc
        /\ \E first \in IF extra = 0 THEN {0} ELSE find_append_extent(NoImages, record, extra) :
           \E grown \in IF extra = 0 THEN {record} ELSE append_record_extent(record, record.alloc, first, extra) :
            LET bits    == IF extra = 0 THEN NoImages ELSE stage_extent_allocation(NoImages, first, extra)
                touched == offset \div BlockSize .. (end - 1) \div BlockSize
                At(l)   == CHOOSE b \in record_physical_block(grown, l) : TRUE
                homes   == [b \in {At(l) : l \in touched} |->
                              LET l == CHOOSE x \in touched : At(x) = b
                              IN  Filled(IF l < record.alloc THEN disk[b] ELSE Zeroed, l, data, offset)]
            IN  Prepared(w, stage_changed_file_record(homes @@ bits, i, [grown EXCEPT !.size = size]), <<>>)

ZiFsTransactionPrepareDelete(w, p, name) ==
    LET parent == RecordAt(p)
        found  == ZiFsFindDirectoryEntryInRecord(parent, name)
        block  == (CHOOSE x \in found : TRUE)[1]
        entry  == (CHOOSE x \in found : TRUE)[2]
        record == RecordAt(entry.slot)
        im     == stage_changed_file_record(
                      stage_changed_file_record(stage_directory_removal(NoImages, block, name), p, parent),
                      entry.slot, FreeRecord)
    IN  /\ Ready(w) /\ tx[w].deferred = <<>>
        /\ Readable(p) /\ DirectoryIsValid(parent) /\ Cardinality(found) = 1
        /\ entry.slot \notin {RootRecord, p}
        /\ Readable(entry.slot) /\ EntryMatches(entry, record, parent.fid)
        /\ record.type = "regular"
        /\ validate_extent_ownership(entry.slot)
        /\ CanRelease(im, record.extents)
        /\ Prepared(w, stage_extent_release(im, record.extents), record.extents)

-----------------------------------------------------------------------------
(* Committing.                                                              *)

Fresh == [state |-> "READY", images |-> NoImages, deferred |-> <<>>, current |-> TRUE]

\* Variant: a workspace prepared against an older generation is accepted.
CommitAcceptsStale(w) == tx[w].state = "PREPARED"

\* The journal header still names the generation the workspace was prepared
\* for; otherwise the commit is ZI_STATUS_RECOVERY_REQUIRED.
CommitAccepts(w) == tx[w].state = "PREPARED" /\ tx[w].current

ZiFsTransactionCommit(w) ==
    /\ CommitAccepts(w)
    /\ disk' = tx[w].images @@ disk
    /\ tx' = [v \in Workspaces |-> IF v = w THEN Fresh ELSE [tx[v] EXCEPT !.current = FALSE]]
    /\ UNCHANGED prepared

\* The device fails or power is lost during the commit.  Recovery settles it
\* one way or the other, and the callers start over with new workspaces.
CommitInterrupted(w) ==
    /\ CommitAccepts(w)
    /\ disk' \in {disk, tx[w].images @@ disk}
    /\ tx' = [v \in Workspaces |-> Fresh]
    /\ UNCHANGED prepared

ZiFsTransactionReset(w) ==
    tx[w] # Fresh /\ tx' = [tx EXCEPT ![w] = Fresh] /\ UNCHANGED <<disk, prepared>>

-----------------------------------------------------------------------------
(* The volume at the start: formatted directories, and files that earlier    *)
(* operations have left there.                                              *)

DirectoryCount == Len(Directories) + 1

InitialRecord(k) ==
    LET sec == Min(SecurityIds)
    IN  CASE k = 1 -> [FileRecord(1, RootId, sec) EXCEPT !.type = "directory", !.dirblock = RecordBlocks + 1]
          [] k \in 2 .. DirectoryCount ->
                [FileRecord(k, Directories[k-1][1], sec) EXCEPT !.type = "directory", !.dirblock = RecordBlocks + k]
          [] k \in DirectoryCount + 1 .. DirectoryCount + Len(Existing) ->
                LET f == Existing[k - DirectoryCount]
                IN  [FileRecord(k, f.parent, sec) EXCEPT
                        !.size = Len(f.bytes), !.alloc = BlockCount(Len(f.bytes)), !.extents = f.extents]
          [] OTHER -> FreeRecord

InitialEntries(d) ==
    {[name |-> Directories[k][2], fid |-> k + 1, slot |-> k, type |-> "directory"] :
        k \in {x \in 1 .. Len(Directories) : Directories[x][1] = d}} \cup
    {[name |-> Existing[k].name, fid |-> DirectoryCount + k, slot |-> DirectoryCount + k - 1, type |-> "regular"] :
        k \in {x \in 1 .. Len(Existing) : Existing[x].parent = d}}

\* What data block b holds: part of a file, or stale bytes.
InitialData(b) ==
    LET holds == {x \in (1 .. Len(Existing)) \X (0 .. DataBlocks) :
                    b \in record_physical_block(Existing[x[1]], x[2])}
    IN  IF holds = {} THEN Stale
        ELSE LET x == CHOOSE y \in holds : TRUE IN Filled(Zeroed, x[2], Existing[x[1]].bytes, 0)

Metadata == {b \in 0 .. TotalBlocks - 1 : block_is_metadata(b)}

InitialDisk ==
    [b \in 0 .. TotalBlocks - 1 |->
        CASE b \in RecordTable ->
                [s \in 0 .. RecordsPerBlock - 1 |-> InitialRecord((b - 1) * RecordsPerBlock + s + 1)]
          [] b \in DirectoryTable -> [owner |-> b - RecordBlocks, entries |-> InitialEntries(b - RecordBlocks)]
          [] b = Bitmap -> Metadata \cup UNION {BlocksOf(e) : e \in UNION {ToSet(f.extents) : f \in ToSet(Existing)}}
          [] OTHER -> InitialData(b)]

Init == disk = InitialDisk /\ tx = [w \in Workspaces |-> Fresh] /\ prepared = 0

Create(w)   == \E p \in UsedSlots, name \in Names, data \in Chunks \cup {<<>>}, sec \in SecurityIds :
                   ZiFsTransactionPrepareCreateFile(w, p, name, data, sec)
Move(w)     == \E sp, tp \in UsedSlots, sname, tname \in Names :
                   ZiFsTransactionPrepareMove(w, sp, sname, tp, tname)
Truncate(w) == \E i \in UsedSlots, size \in 0 .. MaxFileSize : ZiFsTransactionPrepareTruncate(w, i, size)
Write(w)    == \E i \in UsedSlots, offset \in 0 .. MaxFileSize, data \in Chunks :
                   ZiFsTransactionPrepareWrite(w, i, offset, data)
Delete(w)   == \E p \in UsedSlots, name \in Names : ZiFsTransactionPrepareDelete(w, p, name)

Next ==
    \E w \in Workspaces :
        \/ Create(w) \/ Move(w) \/ Truncate(w) \/ Write(w) \/ Delete(w)
        \/ ZiFsTransactionCommit(w) \/ CommitInterrupted(w) \/ ZiFsTransactionReset(w)

Spec == Init /\ [][Next]_vars

-----------------------------------------------------------------------------
(* Properties.                                                              *)

\* The allocation bitmap holds the metadata and the blocks of every extent,
\* and no block is in two extents: what release and reuse of blocks by many
\* operations must keep true (transaction.c:1783-2191).
BitmapExact ==
    LET extents == UNION {{<<i, k>> : k \in 1 .. Len(RecordAt(i).extents)} : i \in UsedSlots}
        Of(x)   == BlocksOf(RecordAt(x[1]).extents[x[2]])
    IN  /\ disk[Bitmap] = Metadata \cup UNION {Of(x) : x \in extents}
        /\ \A x, y \in extents : x # y => Of(x) \cap Of(y) = {}

\* What a file does not use of its last block is zero, so that a later write
\* past the end exposes no bytes of an earlier or a deleted file
\* (transaction.c:837-850, 940-975).
SlackIsZero ==
    \A i \in UsedSlots :
        LET r == RecordAt(i)
            b == CHOOSE x \in record_physical_block(r, r.alloc - 1) : TRUE
        IN  r.type = "regular" /\ r.alloc > 0 =>
                \A k \in 1 .. BlockSize : (r.alloc - 1) * BlockSize + k > r.size => disk[b][k] = 0

\* The links of the namespace as lookups see them: <<directory, name, result>>.
Links == {<<d, name, lookup_component(d, name)>> : d \in UsedSlots, name \in Names}

RECURSIVE ReachedIn(_, _)
ReachedIn(links, n) ==
    IF n = 0 THEN {RootRecord}
    ELSE LET near == ReachedIn(links, n - 1)
         IN  near \cup {l[3] : l \in {x \in links : x[1] \in near /\ x[3] # NotFound}}

\* No lookup meets damage, and every record is found by exactly one path: the
\* directories form a tree below the root (zifs.c:1233-1312).
EveryFileHasOnePath ==
    LET links == Links
    IN  /\ \A l \in links : l[3] # Corrupt
        /\ \A i \in UsedSlots : Cardinality({l \in links : l[3] = i}) = IF i = RootRecord THEN 0 ELSE 1
        /\ ReachedIn(links, DirectoryCount) = UsedSlots

DirectoryBlocksInUse ==
    UNION {ToSet(BlocksOfDirectory(RecordAt(d))) : d \in {x \in UsedSlots : RecordAt(x).type = "directory"}}

Files ==
    LET entries == UNION {disk[b].entries : b \in DirectoryBlocksInUse}
        slot    == [f \in {RecordAt(i).fid : i \in UsedSlots} |-> CHOOSE i \in UsedSlots : RecordAt(i).fid = f]
    IN  [f \in DOMAIN slot |->
            LET r == RecordAt(slot[f])
            IN  [parent |-> r.parent, type |-> r.type, sec |-> r.sec,
                 name   |-> IF f = RootId THEN NoName ELSE (CHOOSE e \in entries : e.slot = slot[f]).name,
                 bytes  |-> IF r.type = "regular" THEN ZiFsReadFile(r) ELSE <<>>]]

Namespace == INSTANCE ZiFsNamespace WITH Root <- RootId, files <- Files

\* Every commit is exactly one file operation: it changes the one file named
\* by the request, by what the request says, and a stale workspace changes
\* nothing (transaction.c:208-1118 against docs/zifs.md).
CommitsAreFileOperations == [][disk' # disk => \A old \in {Files}, new \in {Files'} : Namespace!Operation(old, new)]_vars
=============================================================================
