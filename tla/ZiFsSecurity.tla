---------------------------- MODULE ZiFsSecurity ----------------------------
(***************************************************************************)
(* Access evaluation and the security table of a ZiFS volume                *)
(* (kernel/executive/security/access_check.c, kernel/fs/zifs/security.c).   *)
(*                                                                         *)
(* An access mask is a set of rights, a security id a member of Principals  *)
(* when it is valid.  A record of the table is a descriptor with its id,    *)
(* Unused (all zero) or Garbled (magic, checksum or reserved bytes wrong).  *)
(***************************************************************************)
EXTENDS Naturals, Sequences, FiniteSets, FiniteSetsExt

CONSTANTS
    Rights,          \* the bits of ZI_ACCESS_FULL_CONTROL
    Principals,      \* valid security ids
    Groups,          \* those of group authority
    System,          \* SYSTEM:1
    MaxTokenGroups,  \* ZI_SECURITY_MAXIMUM_TOKEN_GROUPS
    MaxAces,         \* ZI_FS_SECURITY_MAXIMUM_ACES
    Capacity,        \* descriptor records of the table
    NoDacl           \* the dacl of a descriptor without one

-----------------------------------------------------------------------------
(* access_check.c                                                           *)

zi_security_token_validate(token) ==
    /\ token.user \in Principals \ Groups
    /\ Len(token.groups) <= MaxTokenGroups
    /\ \A i \in 1 .. Len(token.groups) :
        token.groups[i] \in Groups /\ \A j \in 1 .. i - 1 : token.groups[j] # token.groups[i]

validate_security_ace(ace) ==
    ace.mask # {} /\ ace.mask \subseteq Rights /\ ace.trustee \in Principals

zi_security_descriptor_validate(d) ==
    /\ {d.owner, d.group} \subseteq Principals
    /\ d.dacl # NoDacl => /\ Len(d.dacl) <= MaxAces
                          /\ \A i \in 1 .. Len(d.dacl) : validate_security_ace(d.dacl[i])

token_contains_id(token, id) ==
    token.user = id \/ \E i \in 1 .. Len(token.groups) : token.groups[i] = id

Applies(ace, token) == ~ace.inherit_only /\ token_contains_id(token, ace.trustee)

\* Variant: a denial counts also for rights that an earlier entry has granted.
ScanDeniesGranted(dacl, token, requested) ==
    LET after[k \in 0 .. Len(dacl)] ==
            IF k = 0 THEN [left |-> requested, denied |-> FALSE]
            ELSE LET was == after[k-1]
                     ace == dacl[k]
                 IN  IF ~Applies(ace, token) THEN was
                     ELSE IF ace.type = "deny" THEN [was EXCEPT !.denied = @ \/ ace.mask \cap requested # {}]
                     ELSE [was EXCEPT !.left = @ \ ace.mask]
    IN  after[Len(dacl)]

\* The loop of zi_security_access_check: the rights still missing after the
\* entries, and whether one of them denied a right that was missing then.
Scan(dacl, token, requested) ==
    LET after[k \in 0 .. Len(dacl)] ==
            IF k = 0 THEN [left |-> requested, denied |-> FALSE]
            ELSE LET was      == after[k-1]
                     ace      == dacl[k]
                     relevant == ace.mask \cap was.left
                 IN  IF was.denied \/ ~Applies(ace, token) \/ relevant = {} THEN was
                     ELSE IF ace.type = "deny" THEN [was EXCEPT !.denied = TRUE]
                     ELSE [was EXCEPT !.left = @ \ relevant]
    IN  after[Len(dacl)]

\* The status, and the rights *out_granted_access receives: those of a partial
\* grant are reported, those before a denial are not.
zi_security_access_check(d, token, requested) ==
    IF ~(requested \subseteq Rights /\ zi_security_descriptor_validate(d) /\ zi_security_token_validate(token))
    THEN [status |-> "INVALID_ARGUMENT", granted |-> {}]
    ELSE IF requested = {} THEN [status |-> "SUCCESS", granted |-> {}]
    ELSE IF d.dacl = NoDacl \/ d.dacl = <<>> THEN [status |-> "ACCESS_DENIED", granted |-> {}]
    ELSE LET end == Scan(d.dacl, token, requested)
         IN  IF end.denied THEN [status |-> "ACCESS_DENIED", granted |-> {}]
             ELSE [status |-> IF end.left = {} THEN "SUCCESS" ELSE "ACCESS_DENIED",
                   granted |-> requested \ end.left]

-----------------------------------------------------------------------------
(* security.c                                                               *)

Unused  == [kind |-> "unused"]
Garbled == [kind |-> "garbled"]

EmptyTable == [count |-> 0, slots |-> [k \in 1 .. Capacity |-> Unused]]

\* ZiFsDecodeSecurityDescriptor succeeds.
Decodes(r) == r.kind = "descriptor" /\ r.id # 0 /\ zi_security_descriptor_validate(r.descriptor)

\* Validation of a table in memory: records in strict order of their ids, the rest zero.
ZiFsValidateSecurityTable(t) ==
    /\ t.count <= Capacity
    /\ \A k \in 1 .. t.count : Decodes(t.slots[k]) /\ (k > 1 => t.slots[k-1].id < t.slots[k].id)
    /\ \A k \in t.count + 1 .. Capacity : t.slots[k] = Unused

\* encode_security_descriptor_record succeeds.
Encodes(id, has_dacl, d) ==
    id # 0 /\ zi_security_descriptor_validate(d) /\ (d.dacl # NoDacl <=> has_dacl)

\* Variant: an id below the last one is taken as well.
AppendAcceptsUnordered(t, id, has_dacl, d) ==
    /\ ZiFsValidateSecurityTable(t) /\ t.count < Capacity
    /\ \A k \in 1 .. t.count : t.slots[k].id # id
    /\ Encodes(id, has_dacl, d)

\* Ids are appended in increasing order, while there is room.
AppendAccepts(t, id, has_dacl, d) ==
    /\ ZiFsValidateSecurityTable(t) /\ t.count < Capacity
    /\ t.count > 0 => id > t.slots[t.count].id
    /\ Encodes(id, has_dacl, d)

ZiFsAppendSecurityDescriptor(t, id, d) ==
    [count |-> t.count + 1,
     slots |-> [t.slots EXCEPT ![t.count + 1] = [kind |-> "descriptor", id |-> id, descriptor |-> d]]]

\* Binary search over the ids read at mount.
security_id_is_present(ids, id) ==
    LET n == Len(ids)
        found[first \in 0 .. n, end \in 0 .. n] ==
            IF first >= end THEN FALSE
            ELSE LET middle == first + (end - first) \div 2
                 IN  IF ids[middle + 1] = id THEN TRUE
                     ELSE IF ids[middle + 1] < id THEN found[middle + 1, end]
                     ELSE found[first, middle]
    IN  found[0, n]

IdsOf(t) == [k \in 1 .. t.count |-> t.slots[k].id]

\* refs are the security ids of the file records.
validate_file_security_references(t, refs) == \A id \in refs : security_id_is_present(IdsOf(t), id)

\* Mount refuses a volume whose table is empty or damaged, or with a file that
\* names no descriptor of it.
ZiFsValidateSecurityState(t, refs) ==
    /\ t.count # 0 /\ ZiFsValidateSecurityTable(t)
    /\ validate_file_security_references(t, refs)

\* Scans the first count records for the id, until a larger one; an unreadable
\* record ends the search with an error.
ZiFsLoadSecurityDescriptor(t, count, id) ==
    LET stops == {k \in 1 .. count : ~Decodes(t.slots[k]) \/ t.slots[k].id >= id}
    IN  IF id = 0 \/ count \notin 1 .. Capacity THEN [status |-> "INVALID_ARGUMENT"]
        ELSE IF stops = {} THEN [status |-> "NOT_FOUND"]
        ELSE LET r == t.slots[Min(stops)]
             IN  IF ~Decodes(r) THEN [status |-> "CORRUPT"]
                 ELSE IF r.id # id THEN [status |-> "NOT_FOUND"]
                 ELSE [status |-> "SUCCESS", descriptor |-> r.descriptor]

ZiFsCheckSecurityAccess(t, count, id, token, requested) ==
    LET loaded == ZiFsLoadSecurityDescriptor(t, count, id)
    IN  IF loaded.status # "SUCCESS" THEN [status |-> loaded.status, granted |-> {}]
        ELSE zi_security_access_check(loaded.descriptor, token, requested)

\* ZiFsLookupPathAuthorised over the security ids on a path, the last one
\* being that of the result: EXECUTE on every directory, then the request.
PathIsAuthorised(t, count, path, token, execute, requested) ==
    /\ zi_security_token_validate(token) /\ requested # {} /\ requested \subseteq Rights
    /\ \A k \in 1 .. Len(path) - 1 :
        ZiFsCheckSecurityAccess(t, count, path[k], token, {execute}).status = "SUCCESS"
    /\ ZiFsCheckSecurityAccess(t, count, path[Len(path)], token, requested).status = "SUCCESS"
=============================================================================
