---------------------------- MODULE IdentityStore ----------------------------
(***************************************************************************)
(* The identity database: a file of the system volume that only SYSTEM may  *)
(* use, replaced as a whole by one ZiFS transaction per issued or removed   *)
(* identity (kernel/executive/security/{identity,identity_database,         *)
(* identity_store}.c over kernel/fs/zifs/security.c).                       *)
(*                                                                         *)
(* The volume is formatted, mounted, used and restarted.  A trusted owner   *)
(* serialises the calls (zi/identity_store.h), so a call is one step; its   *)
(* commit may fail with the old or the new database on the medium, which    *)
(* the store learns only after recovery.                                    *)
(***************************************************************************)
EXTENDS ZiFsSecurity

CONSTANTS
    Authorities,     \* dynamic authorities: group, user, service
    GroupAuthority,  \* ZI_SECURITY_AUTHORITY_GROUP, a member of Authorities
    Issuers,         \* issuer UUIDs
    Issuer,          \* the one of this installation
    Names,
    MaxValue,        \* stands for UINT32_MAX, counted from the first dynamic value
    MaxGeneration,   \* stands for UINT64_MAX
    MaxRecords,      \* ZI_IDENTITY_DATABASE_CAPACITY
    MaxMemberships,  \* ZI_IDENTITY_DATABASE_GROUPS
    Tokens,          \* tokens of the callers
    Descriptors,     \* descriptors the formatter may write
    SecurityIds,     \* ids it may give them
    Execute          \* ZI_ACCESS_EXECUTE

ASSUME IdentityAssumption ==
    /\ Issuer \in Issuers /\ \E i \in Issuers : i # Issuer
    /\ GroupAuthority \in Authorities
    /\ {MaxValue, MaxGeneration, MaxRecords, MaxMemberships} \subseteq Nat

VARIABLES
    table,      \* the security table on the volume
    volume,     \* [mounted, count, needs_recovery]: ZiFsVolume
    file,       \* security ids of the root directory and of the database file
    db,         \* the database file on the medium
    store,      \* [floor, needs_recovery]: ZiIdentityStore
    published   \* identities returned to callers

vars == <<table, volume, file, db, store, published>>

-----------------------------------------------------------------------------
(* identity.c and identity_database.c                                       *)

FirstDynamicValue == 1

Identities == [issuer : Issuers, authority : Authorities, value : FirstDynamicValue .. MaxValue]

EmptyDatabase == [issuer |-> Issuer, generation |-> 1, records |-> <<>>,
                  high |-> [a \in Authorities |-> FirstDynamicValue - 1]]

Live(r) == r.state = "disabled"

has_group(d, value) ==
    \E i \in 1 .. Len(d.records) :
        LET r == d.records[i]
        IN  Live(r) /\ r.identity.authority = GroupAuthority /\ r.identity.value = value

\* A record by itself: only live accounts that are no groups have memberships.
decode_record(r) ==
    /\ Cardinality(r.groups) <= MaxMemberships
    /\ ~Live(r) \/ r.identity.authority = GroupAuthority => r.groups = {}
    /\ \A g \in r.groups : g >= FirstDynamicValue

validate_record_binding(d, r) ==
    /\ r.identity.issuer = d.issuer
    /\ r.identity.value \in FirstDynamicValue .. d.high[r.identity.authority]
    /\ r.generation \in 1 .. d.generation

validate_records(d) ==
    \A i \in 1 .. Len(d.records) :
        LET r == d.records[i]
        IN  /\ decode_record(r) /\ validate_record_binding(d, r)
            /\ \A j \in 1 .. i - 1 :
                LET p == d.records[j]
                IN  /\ r.identity # p.identity
                    /\ Live(r) /\ Live(p) /\ r.identity.authority = p.identity.authority => r.name # p.name
            /\ \A g \in r.groups : has_group(d, g)

zi_identity_database_validate(d, floor) ==
    /\ d.issuer = Issuer
    /\ Len(d.records) <= MaxRecords /\ d.generation # 0
    /\ d.generation >= floor
    /\ validate_records(d)

validate_request(d, authority, name, groups) ==
    /\ Cardinality(groups) <= MaxMemberships
    /\ authority = GroupAuthority => groups = {}
    /\ \A g \in groups : has_group(d, g)
    /\ ~\E i \in 1 .. Len(d.records) :
        LET r == d.records[i]
        IN  Live(r) /\ r.identity.authority = authority /\ r.name = name

\* Variant: the value after the largest one still in use.
ReservedValueReusing(d, authority) ==
    1 + Max({0} \cup {d.records[i].identity.value : i \in
        {k \in 1 .. Len(d.records) : Live(d.records[k]) /\ d.records[k].identity.authority = authority}})

\* zi_identity_reserve: one more than the high-water value.
ReservedValue(d, authority) == d.high[authority] + 1

AppendSucceeds(d, authority, name, groups) ==
    /\ zi_identity_database_validate(d, 1)
    /\ authority \in Authorities
    /\ validate_request(d, authority, name, groups)
    /\ Len(d.records) < MaxRecords /\ d.generation < MaxGeneration
    /\ d.high[authority] < MaxValue

zi_identity_database_append(d, authority, name, groups) ==
    LET identity == [issuer |-> d.issuer, authority |-> authority, value |-> ReservedValue(d, authority)]
        record   == [identity |-> identity, generation |-> d.generation + 1, state |-> "disabled",
                     name |-> name, groups |-> groups]
    IN  [d EXCEPT !.generation = @ + 1, !.records = Append(@, record),
                  !.high[authority] = ReservedValue(d, authority)]

Targets(d, identity) == {i \in 1 .. Len(d.records) : Live(d.records[i]) /\ d.records[i].identity = identity}

\* Variant: a group may be removed while accounts are members of it.
RemoveSucceedsInUse(d, identity) ==
    zi_identity_database_validate(d, 1) /\ d.generation < MaxGeneration /\ Targets(d, identity) # {}

\* A group that a live account names is in use.
RemoveSucceeds(d, identity) ==
    /\ zi_identity_database_validate(d, 1) /\ d.generation < MaxGeneration
    /\ ~\E i \in 1 .. Len(d.records) :
        /\ identity.authority = GroupAuthority /\ identity.issuer = Issuer
        /\ Live(d.records[i]) /\ identity.value \in d.records[i].groups
    /\ Targets(d, identity) # {}

\* The record becomes a tombstone that keeps its identity and its name.
zi_identity_database_remove(d, identity) ==
    LET target == Max(Targets(d, identity))
    IN  [d EXCEPT !.generation = @ + 1,
                  !.records[target] = [@ EXCEPT !.state = "tombstone", !.groups = {},
                                                !.generation = d.generation + 1]]

-----------------------------------------------------------------------------
(* Formatting and mounting the volume.                                      *)

Unmounted == [mounted |-> FALSE, count |-> 0, needs_recovery |-> FALSE]

Init ==
    /\ table = EmptyTable /\ volume = Unmounted
    /\ file \in [root : SecurityIds, database : SecurityIds]
    /\ db \in {EmptyDatabase, [EmptyDatabase EXCEPT !.issuer = CHOOSE i \in Issuers : i # Issuer]}
    /\ store = [floor |-> 1, needs_recovery |-> FALSE]
    /\ published = {}

\* The formatter adds a descriptor; it writes the file system at generation 1.
AppendDescriptor(id, d) ==
    /\ ~volume.mounted /\ db.generation = 1 /\ store.floor = 1
    /\ AppendAccepts(table, id, d.dacl # NoDacl, d)
    /\ table' = ZiFsAppendSecurityDescriptor(table, id, d)
    /\ UNCHANGED <<volume, file, db, store, published>>

\* ZiFsMountVolume, after the recovery of the journal where it was due.
MountVolume ==
    /\ ~volume.mounted
    /\ ZiFsValidateSecurityState(table, {file.root, file.database})
    /\ volume' = [mounted |-> TRUE, count |-> table.count, needs_recovery |-> FALSE]
    /\ UNCHANGED <<table, file, db, store, published>>

\* The machine restarts.  The store is bound again by its trusted owner, which
\* may or may not remember the generation it has seen.
Restart ==
    /\ volume.mounted
    /\ volume' = Unmounted
    /\ \E floor \in {1, store.floor} : store' = [floor |-> floor, needs_recovery |-> FALSE]
    /\ UNCHANGED <<table, file, db, published>>

\* A record of the table becomes unreadable on the medium.
GarbleDescriptor(k) ==
    /\ volume.mounted /\ k <= table.count /\ table.slots[k] # Garbled
    /\ table' = [table EXCEPT !.slots[k] = Garbled]
    /\ UNCHANGED <<volume, file, db, store, published>>

-----------------------------------------------------------------------------
(* identity_store.c                                                         *)

validate_store == ~store.needs_recovery /\ ~volume.needs_recovery /\ volume.mounted

\* Variant: the access check alone decides.
PolicyIsPrivateIfGranted(d, token) == zi_security_access_check(d, token, Rights).status = "SUCCESS"

\* The descriptor has one entry, which allows SYSTEM everything, and the caller passes it.
PolicyIsPrivate(d, token) ==
    /\ d.owner = System
    /\ d.dacl # NoDacl /\ d.dacl = <<[type |-> "allow", inherit_only |-> FALSE, mask |-> Rights, trustee |-> System]>>
    /\ zi_security_access_check(d, token, Rights).status = "SUCCESS"

read_bound_record(token) ==
    LET loaded == ZiFsLoadSecurityDescriptor(table, volume.count, file.database)
    IN  /\ zi_security_token_validate(token)
        /\ loaded.status = "SUCCESS" /\ PolicyIsPrivate(loaded.descriptor, token)

LoadSucceeds(token) ==
    validate_store /\ read_bound_record(token) /\ zi_identity_database_validate(db, store.floor)

\* A successful load raises the floor, also when the call that made it fails later.
zi_identity_store_load(token) ==
    /\ LoadSucceeds(token)
    /\ store' = [store EXCEPT !.floor = db.generation]
    /\ UNCHANGED <<table, volume, file, db, published>>

\* commit_snapshot succeeds.
Committed(candidate) ==
    /\ db' = candidate
    /\ store' = [store EXCEPT !.floor = candidate.generation]
    /\ UNCHANGED volume

\* The commit fails: volume and store wait for recovery, which will find the
\* old or the new database.
CommitUncertain(candidate) ==
    /\ db' \in {db, candidate}
    /\ store' = [floor |-> db.generation, needs_recovery |-> TRUE]
    /\ volume' = [volume EXCEPT !.needs_recovery = TRUE]

Issue(authority, name, groups) ==
    LET candidate == zi_identity_database_append(db, authority, name, groups)
        identity  == candidate.records[Len(candidate.records)].identity
    IN  \/ Committed(candidate) /\ published' = published \cup {identity}
        \/ CommitUncertain(candidate) /\ UNCHANGED published

zi_identity_store_issue(token) ==
    /\ LoadSucceeds(token)
    /\ \E authority \in Authorities, name \in Names, groups \in SUBSET (1 .. MaxValue) :
         AppendSucceeds(db, authority, name, groups) /\ Issue(authority, name, groups)
    /\ UNCHANGED <<table, file>>

zi_identity_store_remove(token) ==
    /\ LoadSucceeds(token)
    /\ \E identity \in Identities :
         /\ RemoveSucceeds(db, identity)
         /\ \/ Committed(zi_identity_database_remove(db, identity))
            \/ CommitUncertain(zi_identity_database_remove(db, identity))
    /\ UNCHANGED <<table, file, published>>

Next ==
    \/ \E id \in SecurityIds, d \in Descriptors : AppendDescriptor(id, d)
    \/ MountVolume \/ Restart \/ \E k \in 1 .. Capacity : GarbleDescriptor(k)
    \/ \E token \in Tokens :
        \/ zi_identity_store_load(token)
        \/ zi_identity_store_issue(token)
        \/ zi_identity_store_remove(token)

Spec == Init /\ [][Next]_vars

-----------------------------------------------------------------------------
(* Properties.                                                              *)

TableDescriptors == {table.slots[k].descriptor : k \in {j \in 1 .. table.count : table.slots[j] # Garbled}}

\* What the ordered walk over a DACL decides: a request is granted exactly when
\* for every requested right the first entry that applies and names it allows
\* it (access_check.c:74-127).
AccessIsFirstMatch ==
    \A d \in {x \in TableDescriptors : x.dacl # NoDacl}, token \in Tokens, requested \in SUBSET Rights \ {{}} :
        LET Naming(r)  == {k \in 1 .. Len(d.dacl) : Applies(d.dacl[k], token) /\ r \in d.dacl[k].mask}
            Allowed(r) == Naming(r) # {} /\ d.dacl[Min(Naming(r))].type = "allow"
        IN  zi_security_access_check(d, token, requested).status = "SUCCESS" <=>
                zi_security_token_validate(token) /\ \A r \in requested : Allowed(r)

\* The binary search of the mount and the linear scan of the lookups find the
\* same descriptors in every table the formatter can build, so that no file of
\* a mounted volume is without one (security.c:343-374, 675-692).
SearchesAgree ==
    (\A k \in 1 .. table.count : table.slots[k] # Garbled) /\ table.count > 0 =>
        \A id \in SecurityIds :
            security_id_is_present(IdsOf(table), id) <=>
                ZiFsLoadSecurityDescriptor(table, table.count, id).status = "SUCCESS"

\* While the store can be used by somebody, nobody without SYSTEM:1 reaches
\* the file by path with any right (identity_store.c:146-190 against the
\* ordinary authorised lookup).
StoreIsPrivate ==
    (\E token \in Tokens : validate_store /\ read_bound_record(token)) =>
        \A token \in Tokens, r \in Rights :
            PathIsAuthorised(table, volume.count, <<file.root, file.database>>, token, Execute, {r}) =>
                token_contains_id(token, System)

\* The database on the medium is one its own validation accepts, at the floor
\* of the store, after every sequence of issues, removals, failed commits and
\* restarts (identity_database.c:64-111 against 133-234).
DatabaseStaysValid == db.issuer = Issuer => zi_identity_database_validate(db, store.floor)

\* An identity that was returned to a caller denotes one record for ever: a
\* record never changes its identity or its name, never comes back from being
\* a tombstone, and its identity is not issued again (identity.c:99-123).
IdentitiesArePermanent ==
    [][/\ \A i \in 1 .. Len(db.records) :
            /\ i <= Len(db'.records)
            /\ db'.records[i].identity = db.records[i].identity /\ db'.records[i].name = db.records[i].name
            /\ Live(db'.records[i]) => Live(db.records[i])
       /\ \A i \in Len(db.records) + 1 .. Len(db'.records) :
            /\ db'.records[i].identity \notin published
            /\ \A j \in 1 .. Len(db.records) : db'.records[i].identity # db.records[j].identity]_vars
=============================================================================
