---------------------------- MODULE MCZiFsStaging ----------------------------
(* A volume with a root, two nested directories and a file in two extents,    *)
(* the block between them freed; directory blocks of one entry, so that       *)
(* directories grow at once.                                                 *)
EXTENDS ZiFsStaging

CONSTANTS NameA, NameB, W1, W2

MCNames       == {NameA, NameB}
MCWorkspaces  == {W1, W2}
MCDirectories == << <<1, NameA>>, <<2, NameA>> >>
MCExisting    ==
    << [parent |-> 2, name |-> NameB, bytes |-> <<2, 3, 4>>,
        extents |-> << [log |-> 0, phys |-> 7, count |-> 1], [log |-> 1, phys |-> 9, count |-> 1] >>] >>
MCChunks      == {<<6, 7, 8>>}
MCStale       == <<9, 9>>
MCSymmetry    == Permutations(MCWorkspaces)
=============================================================================
