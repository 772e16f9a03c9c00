SPECIFICATION Spec
CONSTANTS
    System1 = System1
    Admins = Admins
    Alice = Alice
    Read = Read
    Exec = Exec
    Group = Group
    User = User
    Us = Us
    Them = Them
    n1 = n1
    n2 = n2
    NoDacl = NoDacl
    Rights <- MCRights
    Principals <- MCPrincipals
    Groups = {Admins}
    System = System1
    MaxTokenGroups = 1
    MaxAces = 3
    Capacity = 2
    Authorities <- MCAuthorities
    GroupAuthority = Group
    Issuers <- MCIssuers
    Issuer = Us
    Names <- MCNames
    MaxValue = 2
    MaxGeneration = 4
    MaxRecords = 3
    MaxMemberships = 1
    Tokens <- MCTokens
    Descriptors <- MCDescriptors
    SecurityIds = {1, 2}
    Execute = Exec
INVARIANTS AccessIsFirstMatch SearchesAgree StoreIsPrivate DatabaseStaysValid
PROPERTY IdentitiesArePermanent
SYMMETRY MCSymmetry
CHECK_DEADLOCK FALSE
