--------------------------- MODULE MCIdentityStore ---------------------------
(* A small instance of IdentityStore for TLC.                               *)
EXTENDS IdentityStore, TLC

CONSTANTS System1, Admins, Alice, Read, Exec, Group, User, Us, Them, n1, n2

MCPrincipals  == {System1, Admins, Alice}
MCRights      == {Read, Exec}
MCTokens      == {[user |-> System1, groups |-> <<>>], [user |-> Alice, groups |-> <<Admins>>],
                  [user |-> Alice, groups |-> <<>>], [user |-> Admins, groups |-> <<>>]}

Ace(type, mask, trustee)  == [type |-> type, inherit_only |-> FALSE, mask |-> mask, trustee |-> trustee]
Descriptor(dacl)          == [owner |-> System1, group |-> Admins, dacl |-> dacl]

\* The private policy, one that also lets Alice in, one with denials among the
\* grants, an inherit-only one and one without a list.
MCDescriptors ==
    {Descriptor(<<Ace("allow", MCRights, System1)>>),
     Descriptor(<<Ace("allow", MCRights, System1), Ace("allow", {Exec}, Alice)>>),
     Descriptor(<<Ace("allow", {Exec}, Admins), Ace("deny", {Exec}, Alice), Ace("allow", MCRights, Alice)>>),
     Descriptor(<<[Ace("allow", MCRights, System1) EXCEPT !.inherit_only = TRUE]>>),
     Descriptor(NoDacl)}

MCAuthorities == {Group, User}
MCIssuers     == {Us, Them}
MCNames       == {n1, n2}
MCSymmetry    == Permutations(MCNames)
=============================================================================
