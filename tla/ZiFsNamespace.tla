---------------------------- MODULE ZiFsNamespace ----------------------------
(***************************************************************************)
(* What the file operations of ZiFS promise their callers: a tree of named  *)
(* files and directories in which one operation takes effect at a time, and *)
(* changes only the file it names.  An operation relates the tree before it *)
(* to the tree after it; a tree takes file ids to                           *)
(* [parent, name, type, bytes, sec].                                        *)
(***************************************************************************)
EXTENDS Naturals, Sequences

CONSTANTS
    Root,     \* identity of the root directory
    Chunks    \* the byte sequences a caller can write

VARIABLE files

DirectoriesOf(old) == {f \in DOMAIN old : old[f].type = "directory"}

Taken(old, parent, name) ==
    \E f \in DOMAIN old \ {Root} : old[f].parent = parent /\ old[f].name = name

\* Directory p is neither f nor below it: some set of directories leads from
\* p upwards without meeting f.
Outside(old, f, p) ==
    \E up \in SUBSET (DirectoriesOf(old) \ {f}) :
        p \in up /\ \A d \in up \ {Root} : old[d].parent \in up

Same(old, new, ids) == \A f \in ids : f \in DOMAIN new /\ new[f] = old[f]

Created(old, new) ==
    \E f \in DOMAIN new \ DOMAIN old :
        /\ DOMAIN new = DOMAIN old \cup {f}
        /\ Same(old, new, DOMAIN old)
        /\ new[f].parent \in DirectoriesOf(old) /\ new[f].type = "regular"
        /\ new[f].bytes \in Chunks \cup {<<>>}
        /\ ~Taken(old, new[f].parent, new[f].name)

Deleted(old, new) ==
    \E f \in DOMAIN old \ DOMAIN new :
        old[f].type = "regular" /\ DOMAIN new = DOMAIN old \ {f} /\ Same(old, new, DOMAIN new)

\* The only change is that the bytes of f become b.
Put(old, new, f, b) == old[f].type = "regular" /\ new = [old EXCEPT ![f].bytes = b]

Truncated(old, new) ==
    \E f \in DOMAIN old : \E size \in 0 .. Len(old[f].bytes) :
        Put(old, new, f, SubSeq(old[f].bytes, 1, size))

Overwrite(b, offset, chunk) ==
    [i \in 1 .. IF offset + Len(chunk) > Len(b) THEN offset + Len(chunk) ELSE Len(b) |->
        IF i \in offset + 1 .. offset + Len(chunk) THEN chunk[i - offset] ELSE b[i]]

Written(old, new) ==
    \E f \in DOMAIN old : \E offset \in 0 .. Len(old[f].bytes), chunk \in Chunks :
        Put(old, new, f, Overwrite(old[f].bytes, offset, chunk))

Moved(old, new) ==
    \E f \in DOMAIN old \ {Root} :
        /\ DOMAIN new = DOMAIN old
        /\ Same(old, new, DOMAIN old \ {f})
        /\ new[f] = [old[f] EXCEPT !.parent = new[f].parent, !.name = new[f].name]
        /\ Outside(old, f, new[f].parent)
        /\ ~Taken(old, new[f].parent, new[f].name)

Operation(old, new) ==
    \/ Created(old, new) \/ Deleted(old, new) \/ Truncated(old, new)
    \/ Written(old, new) \/ Moved(old, new)

FileOperations == [][Operation(files, files')]_files
=============================================================================
