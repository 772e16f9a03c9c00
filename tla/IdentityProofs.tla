--------------------------- MODULE IdentityProofs ---------------------------
(***************************************************************************)
(* The identity database stays valid and its identities are permanent, for  *)
(* every capacity, width of values and generations, set of authorities and   *)
(* names, and whatever the outcome of uncertain commits.                     *)
(***************************************************************************)
EXTENDS IdentityStore, FiniteSetTheorems, TLAPS

-----------------------------------------------------------------------------
(* Types.                                                                   *)

IssuedIds == [issuer : Issuers, authority : Authorities, value : Nat]

Records == [identity : IssuedIds, generation : Nat, state : {"disabled", "tombstone"},
            name : Names, groups : SUBSET Nat]

Databases == [issuer : Issuers, generation : Nat, records : Seq(Records), high : [Authorities -> Nat]]

\* Identities handed out are this installation's, at most at the high-water value.
PublishedBelowHigh ==
    \A id \in published : id \in IssuedIds /\ id.issuer = Issuer /\ id.value <= db.high[id.authority]

Storing ==
    /\ db \in Databases
    /\ store.floor \in Nat /\ DOMAIN store = {"floor", "needs_recovery"} /\ db.generation >= 1
    /\ DatabaseStaysValid
    /\ PublishedBelowHigh

\* c is d with at most one record more and at most some records turned into tombstones.
Extends(d, c) ==
    /\ \A i \in 1 .. Len(d.records) :
         /\ i <= Len(c.records)
         /\ c.records[i].identity = d.records[i].identity /\ c.records[i].name = d.records[i].name
         /\ Live(c.records[i]) => Live(d.records[i])
    /\ \A i \in Len(d.records) + 1 .. Len(c.records) :
         /\ c.records[i].identity \in IssuedIds
         /\ c.records[i].identity.value > d.high[c.records[i].identity.authority]
         /\ \A j \in 1 .. Len(d.records) : c.records[i].identity # d.records[j].identity
    /\ \A a \in Authorities : d.high[a] <= c.high[a]
    /\ c.issuer = d.issuer

\* What both operations on the database make of it.
Succeeds(d, c) ==
    /\ c \in Databases /\ c.generation = d.generation + 1
    /\ zi_identity_database_validate(c, c.generation)
    /\ Extends(d, c)

-----------------------------------------------------------------------------
(* The operations on the database.                                          *)

\* zi_identity_database_append writes one record behind the others.
LEMMA AppendedRecords ==
    ASSUME NEW d \in Databases, NEW authority \in Authorities, NEW name \in Names,
           NEW groups \in SUBSET (1 .. MaxValue),
           NEW c, c = zi_identity_database_append(d, authority, name, groups)
    PROVE  /\ c \in Databases /\ c.generation = d.generation + 1 /\ c.issuer = d.issuer
           /\ c.high = [d.high EXCEPT ![authority] = d.high[authority] + 1]
           /\ Len(c.records) = Len(d.records) + 1
           /\ \A i \in 1 .. Len(d.records) : c.records[i] = d.records[i]
           /\ c.records[Len(d.records) + 1] =
                [identity |-> [issuer |-> d.issuer, authority |-> authority, value |-> d.high[authority] + 1],
                 generation |-> d.generation + 1, state |-> "disabled", name |-> name, groups |-> groups]
<1> DEFINE identity == [issuer |-> d.issuer, authority |-> authority, value |-> d.high[authority] + 1]
           record   == [identity |-> identity, generation |-> d.generation + 1, state |-> "disabled",
                        name |-> name, groups |-> groups]
           high     == [d.high EXCEPT ![authority] = d.high[authority] + 1]
<1>1. identity \in IssuedIds /\ groups \in SUBSET Nat
  BY IdentityAssumption DEF Databases, IssuedIds
<1>2. record \in Records
  BY <1>1 DEF Records, Databases
<1>3. c = [issuer |-> d.issuer, generation |-> d.generation + 1,
           records |-> Append(d.records, record), high |-> high]
  BY DEF zi_identity_database_append, ReservedValue, Databases
<1>4. high \in [Authorities -> Nat] /\ d.records \in Seq(Records)
  BY DEF Databases
<1> HIDE DEF identity, record, high
<1>5. Append(d.records, record) \in Seq(Records)
  BY <1>2, <1>4
<1>6. c \in Databases
  BY <1>3, <1>4, <1>5 DEF Databases
<1>7. /\ Len(c.records) = Len(d.records) + 1
      /\ \A i \in 1 .. Len(d.records) : c.records[i] = d.records[i]
      /\ c.records[Len(d.records) + 1] = record
  BY <1>2, <1>3, <1>4
<1> QED BY <1>3, <1>6, <1>7 DEF identity, record, high

\* A record that was valid stays so when the database grows behind it.
LEMMA AppendSucceedsWell ==
    ASSUME NEW d \in Databases, NEW authority \in Authorities, NEW name \in Names,
           NEW groups \in SUBSET (1 .. MaxValue),
           AppendSucceeds(d, authority, name, groups),
           NEW c, c = zi_identity_database_append(d, authority, name, groups)
    PROVE  Succeeds(d, c)
<1> DEFINE n == Len(d.records)
<1>1. n \in Nat /\ d.generation \in Nat /\ d.high \in [Authorities -> Nat]
      /\ \A i \in 1 .. n : d.records[i] \in Records
  BY DEF Databases
<1>2. /\ c \in Databases /\ c.generation = d.generation + 1 /\ c.issuer = d.issuer
      /\ c.high = [d.high EXCEPT ![authority] = d.high[authority] + 1]
      /\ Len(c.records) = n + 1
      /\ \A i \in 1 .. n : c.records[i] = d.records[i]
      /\ c.records[n + 1] =
           [identity |-> [issuer |-> d.issuer, authority |-> authority, value |-> d.high[authority] + 1],
            generation |-> d.generation + 1, state |-> "disabled", name |-> name, groups |-> groups]
  BY AppendedRecords
<1>3. /\ validate_records(d) /\ d.issuer = Issuer /\ n < MaxRecords
      /\ validate_request(d, authority, name, groups)
  BY DEF AppendSucceeds, zi_identity_database_validate
<1>4. \A a \in Authorities : c.high[a] \in Nat /\ d.high[a] \in Nat /\ d.high[a] <= c.high[a]
  BY <1>1, <1>2
<1>5. c.high[authority] = d.high[authority] + 1
  BY <1>1, <1>2
<1> HIDE DEF n
<1>6. \A g : has_group(d, g) => has_group(c, g)
  BY <1>1, <1>2 DEF has_group, n
<1>7. \A i \in 1 .. n : /\ decode_record(d.records[i]) /\ validate_record_binding(d, d.records[i])
                        /\ \A g \in d.records[i].groups : has_group(d, g)
  BY <1>3 DEF validate_records, n
<1>8. \A i \in 1 .. n : \A j \in 1 .. i - 1 :
        /\ d.records[i].identity # d.records[j].identity
        /\ Live(d.records[i]) /\ Live(d.records[j])
             /\ d.records[i].identity.authority = d.records[j].identity.authority
           => d.records[i].name # d.records[j].name
  BY <1>3 DEF validate_records, n
<1>9. \A i \in 1 .. n : validate_record_binding(c, c.records[i])
  <2> TAKE i \in 1 .. n
  <2>1. d.records[i].identity.authority \in Authorities /\ d.records[i].identity.value \in Nat
        /\ d.records[i].generation \in Nat
    BY <1>1 DEF Records, IssuedIds
  <2>2. /\ d.records[i].identity.issuer = d.issuer
        /\ d.records[i].identity.value \in FirstDynamicValue .. d.high[d.records[i].identity.authority]
        /\ d.records[i].generation \in 1 .. d.generation
    BY <1>7 DEF validate_record_binding
  <2>3. c.records[i] = d.records[i] /\ c.issuer = d.issuer
    BY <1>2
  <2>4. d.records[i].generation \in 1 .. c.generation
    BY <1>1, <1>2, <2>1, <2>2
  <2>5. d.records[i].identity.value \in FirstDynamicValue .. c.high[d.records[i].identity.authority]
    BY <1>4, <2>1, <2>2 DEF FirstDynamicValue
  <2> QED BY <2>2, <2>3, <2>4, <2>5 DEF validate_record_binding
<1>10. validate_record_binding(c, c.records[n + 1])
  BY <1>1, <1>2, <1>5 DEF validate_record_binding, FirstDynamicValue
<1>11. decode_record(c.records[n + 1]) /\ \A g \in c.records[n + 1].groups : has_group(c, g)
  <2>1. /\ c.records[n + 1].groups = groups /\ c.records[n + 1].state = "disabled"
        /\ c.records[n + 1].identity.authority = authority
    BY <1>2
  <2>2. /\ Cardinality(groups) <= MaxMemberships /\ (authority = GroupAuthority => groups = {})
        /\ \A g \in groups : has_group(d, g)
    BY <1>3 DEF validate_request
  <2>3. \A g \in groups : g >= FirstDynamicValue
    BY IdentityAssumption DEF FirstDynamicValue
  <2>4. decode_record(c.records[n + 1])
    BY <2>1, <2>2, <2>3 DEF decode_record, Live
  <2> QED BY <1>6, <2>1, <2>2, <2>4
<1>12. \A j \in 1 .. n :
         /\ c.records[n + 1].identity # d.records[j].identity
         /\ Live(d.records[j]) /\ d.records[j].identity.authority = authority => name # d.records[j].name
  <2> TAKE j \in 1 .. n
  <2>1. d.records[j].identity.value \in FirstDynamicValue .. d.high[d.records[j].identity.authority]
    BY <1>7 DEF validate_record_binding
  <2>2. c.records[n + 1].identity # d.records[j].identity
    <3> SUFFICES ASSUME c.records[n + 1].identity = d.records[j].identity PROVE FALSE
      OBVIOUS
    <3>1. d.records[j].identity.authority = authority /\ d.records[j].identity.value = d.high[authority] + 1
      BY <1>2
    <3> QED BY <1>1, <2>1, <3>1 DEF FirstDynamicValue
  <2>3. Live(d.records[j]) /\ d.records[j].identity.authority = authority => name # d.records[j].name
    BY <1>3 DEF validate_request, n
  <2> QED BY <2>2, <2>3
<1>13. validate_records(c)
  <2> SUFFICES ASSUME NEW i \in 1 .. n + 1
               PROVE  /\ decode_record(c.records[i]) /\ validate_record_binding(c, c.records[i])
                      /\ \A j \in 1 .. i - 1 :
                           /\ c.records[i].identity # c.records[j].identity
                           /\ Live(c.records[i]) /\ Live(c.records[j])
                                /\ c.records[i].identity.authority = c.records[j].identity.authority
                              => c.records[i].name # c.records[j].name
                      /\ \A g \in c.records[i].groups : has_group(c, g)
    BY <1>2 DEF validate_records
  <2>1. CASE i \in 1 .. n
    <3>1. \A j \in 1 .. i - 1 : j \in 1 .. n
      BY <1>1, <2>1 DEF n
    <3> QED BY <1>2, <1>6, <1>7, <1>8, <1>9, <2>1, <3>1
  <2>2. CASE i = n + 1
    <3>1. \A j \in 1 .. i - 1 : j \in 1 .. n
      BY <1>1, <2>2 DEF n
    <3> QED BY <1>2, <1>10, <1>11, <1>12, <2>2, <3>1
  <2> QED BY <1>1, <2>1, <2>2
<1>14. zi_identity_database_validate(c, c.generation)
  BY <1>1, <1>2, <1>3, <1>13, IdentityAssumption DEF zi_identity_database_validate
<1>15. Extends(d, c)
  <2>1. \A i \in n + 1 .. n + 1 : i = n + 1
    BY <1>1
  <2>2. c.records[n + 1].identity \in IssuedIds
        /\ c.records[n + 1].identity.value > d.high[c.records[n + 1].identity.authority]
    BY <1>1, <1>2 DEF IssuedIds, Databases
  <2>3. \A i \in 1 .. n : i <= n + 1
    BY <1>1
  <2> QED BY <1>2, <1>4, <1>12, <2>1, <2>2, <2>3 DEF Extends, n
<1> QED BY <1>2, <1>14, <1>15 DEF Succeeds

\* Identities of a valid database are distinct, so that the record to remove is
\* unique, whichever the loop of the code ends with.
LEMMA TargetIsUnique ==
    ASSUME NEW d \in Databases, validate_records(d), NEW identity,
           NEW k \in Targets(d, identity)
    PROVE  Max(Targets(d, identity)) = k
<1>1. Len(d.records) \in Nat
  BY DEF Databases
<1>2. \A i, j \in 1 .. Len(d.records) : j \in 1 .. i - 1 => d.records[i].identity # d.records[j].identity
  BY DEF validate_records
<1>3. \A i \in Targets(d, identity) : i \in 1 .. Len(d.records) /\ d.records[i].identity = identity
  BY DEF Targets
<1>4. ASSUME NEW i \in Targets(d, identity) PROVE i = k
  <2>1. i \in Nat /\ k \in Nat /\ 1 <= i /\ 1 <= k
    BY <1>1, <1>3
  <2>2. i \notin 1 .. k - 1 /\ k \notin 1 .. i - 1
    BY <1>2, <1>3
  <2> QED BY <2>1, <2>2
<1>5. Targets(d, identity) = {k}
  BY <1>4
<1>6. k >= k
  BY <1>1, <1>3
<1> QED BY <1>5, <1>6 DEF Max

\* What the assignments to the fields of a removed record make of it.
LEMMA Tombstone ==
    ASSUME NEW r \in Records, NEW g \in Nat
    PROVE  [r EXCEPT !.state = "tombstone", !.groups = {}, !.generation = g] =
             [identity |-> r.identity, generation |-> g, state |-> "tombstone",
              name |-> r.name, groups |-> {}]
<1> DEFINE a == [r EXCEPT !.state = "tombstone"]
           b == [a EXCEPT !.groups = {}]
           c == [b EXCEPT !.generation = g]
<1>1. /\ a \in Records /\ a.identity = r.identity /\ a.generation = r.generation
      /\ a.state = "tombstone" /\ a.name = r.name
  BY DEF Records
<1> HIDE DEF a
<1>2. /\ b \in Records /\ b.identity = a.identity /\ b.state = a.state /\ b.name = a.name
      /\ b.groups = {}
  BY <1>1 DEF Records
<1> HIDE DEF b
<1>3. c = [identity |-> b.identity, generation |-> g, state |-> b.state,
           name |-> b.name, groups |-> b.groups]
  BY <1>2 DEF Records
<1> QED BY <1>1, <1>2, <1>3 DEF a, b

\* zi_identity_database_remove leaves all records but one as they are.
LEMMA RemovedRecords ==
    ASSUME NEW d \in Databases, validate_records(d), NEW identity,
           NEW k \in Targets(d, identity),
           NEW c, c = zi_identity_database_remove(d, identity)
    PROVE  /\ k \in 1 .. Len(d.records)
           /\ c \in Databases /\ c.generation = d.generation + 1 /\ c.issuer = d.issuer /\ c.high = d.high
           /\ Len(c.records) = Len(d.records)
           /\ \A i \in 1 .. Len(d.records) : i # k => c.records[i] = d.records[i]
           /\ c.records[k] = [identity |-> d.records[k].identity, generation |-> d.generation + 1,
                              state |-> "tombstone", name |-> d.records[k].name, groups |-> {}]
<1> DEFINE record == [identity |-> d.records[k].identity, generation |-> d.generation + 1,
                      state |-> "tombstone", name |-> d.records[k].name, groups |-> {}]
<1>1. /\ k \in 1 .. Len(d.records) /\ Len(d.records) \in Nat /\ d.records \in Seq(Records)
      /\ d.records[k] \in Records /\ d.generation \in Nat
  BY DEF Targets, Databases
<1>2. record \in Records
  BY <1>1 DEF Records
<1>3. record = [d.records[k] EXCEPT !.state = "tombstone", !.groups = {}, !.generation = d.generation + 1]
  <2>1. d.generation + 1 \in Nat
    BY <1>1
  <2> QED BY <1>1, <2>1, Tombstone, Zenon
<1>4. Max(Targets(d, identity)) = k
  BY TargetIsUnique
<1>5. c = [d EXCEPT !.generation = d.generation + 1,
                    !.records = [d.records EXCEPT ![k] =
                        [d.records[k] EXCEPT !.state = "tombstone", !.groups = {},
                                             !.generation = d.generation + 1]]]
  BY <1>1, <1>4 DEF zi_identity_database_remove, Databases
<1> HIDE DEF record
<1>6. c = [issuer |-> d.issuer, generation |-> d.generation + 1,
           records |-> [d.records EXCEPT ![k] = record], high |-> d.high]
  BY <1>3, <1>5 DEF Databases
<1>7. [d.records EXCEPT ![k] = record] \in Seq(Records)
      /\ Len([d.records EXCEPT ![k] = record]) = Len(d.records)
  BY <1>1, <1>2
<1>8. c \in Databases
  BY <1>6, <1>7 DEF Databases
<1>9. c.records[k] = record /\ \A i \in 1 .. Len(d.records) : i # k => c.records[i] = d.records[i]
  BY <1>1, <1>6
<1> QED BY <1>1, <1>6, <1>7, <1>8, <1>9 DEF record

\* A tombstone keeps its identity and is in nobody's way; a group is only
\* removed when no live account names it.
LEMMA RemoveSucceedsWell ==
    ASSUME NEW d \in Databases, NEW identity \in Identities, RemoveSucceeds(d, identity),
           NEW c, c = zi_identity_database_remove(d, identity)
    PROVE  Succeeds(d, c)
<1> DEFINE n == Len(d.records)
<1>1. /\ validate_records(d) /\ d.issuer = Issuer /\ n <= MaxRecords /\ Targets(d, identity) # {}
  BY DEF RemoveSucceeds, zi_identity_database_validate
<1>2. PICK k \in Targets(d, identity) : TRUE
  BY <1>1
<1>3. /\ k \in 1 .. n
      /\ c \in Databases /\ c.generation = d.generation + 1 /\ c.issuer = d.issuer /\ c.high = d.high
      /\ Len(c.records) = n
      /\ \A i \in 1 .. n : i # k => c.records[i] = d.records[i]
      /\ c.records[k] = [identity |-> d.records[k].identity, generation |-> d.generation + 1,
                         state |-> "tombstone", name |-> d.records[k].name, groups |-> {}]
  BY <1>1, RemovedRecords
<1>4. n \in Nat /\ d.generation \in Nat /\ \A i \in 1 .. n : d.records[i] \in Records
  BY DEF Databases
<1>5. \A i \in 1 .. n : c.records[i].identity = d.records[i].identity /\ c.records[i].name = d.records[i].name
                        /\ (Live(c.records[i]) => Live(d.records[i]) /\ i # k)
  BY <1>3 DEF Live
<1>6. d.records[k].identity = identity
  BY <1>2 DEF Targets
<1> HIDE DEF n
<1>7. \A i \in 1 .. n : /\ decode_record(d.records[i]) /\ validate_record_binding(d, d.records[i])
                        /\ \A g \in d.records[i].groups : has_group(d, g)
  BY <1>1 DEF validate_records, n
<1>8. \A i \in 1 .. n : \A j \in 1 .. i - 1 :
        /\ d.records[i].identity # d.records[j].identity
        /\ Live(d.records[i]) /\ Live(d.records[j])
             /\ d.records[i].identity.authority = d.records[j].identity.authority
           => d.records[i].name # d.records[j].name
  BY <1>1 DEF validate_records, n
<1>9. ASSUME NEW i \in 1 .. n, i # k, NEW g \in d.records[i].groups
      PROVE  has_group(c, g)
  <2>1. PICK w \in 1 .. n : /\ Live(d.records[w]) /\ d.records[w].identity.authority = GroupAuthority
                            /\ d.records[w].identity.value = g
    BY <1>7, <1>9 DEF has_group, n
  <2>2. Live(d.records[i])
    BY <1>7, <1>9 DEF decode_record
  <2>3. w # k
    <3> SUFFICES ASSUME w = k PROVE FALSE
      OBVIOUS
    <3>1. identity.authority = GroupAuthority /\ identity.value = g
      BY <1>6, <2>1
    <3>2. identity.issuer = Issuer
      BY <1>1, <1>3, <1>6, <1>7 DEF validate_record_binding
    <3> QED BY <1>9, <2>2, <3>1, <3>2 DEF RemoveSucceeds, n
  <2>4. c.records[w] = d.records[w]
    BY <1>3, <2>3
  <2> QED BY <1>3, <2>1, <2>4 DEF has_group
<1>10. ASSUME NEW i \in 1 .. n PROVE validate_record_binding(c, c.records[i])
  <2>1. d.records[i].generation \in 1 .. d.generation /\ d.records[i].generation \in Nat
        /\ d.records[i].identity.issuer = d.issuer
        /\ d.records[i].identity.value \in FirstDynamicValue .. d.high[d.records[i].identity.authority]
    BY <1>4, <1>7 DEF validate_record_binding, Records
  <2>2. c.records[i].generation \in 1 .. c.generation
    <3>1. CASE i = k
      BY <1>3, <1>4, <3>1
    <3>2. CASE i # k
      BY <1>3, <1>4, <2>1, <3>2
    <3> QED BY <3>1, <3>2
  <2> QED BY <1>3, <1>5, <2>1, <2>2 DEF validate_record_binding
<1>11. ASSUME NEW i \in 1 .. n
       PROVE  decode_record(c.records[i]) /\ \A g \in c.records[i].groups : has_group(c, g)
  <2>1. CASE i = k
    <3>1. c.records[k].groups = {} /\ Cardinality({}) <= MaxMemberships
      BY <1>3, FS_EmptySet, IdentityAssumption
    <3> QED BY <2>1, <3>1 DEF decode_record
  <2>2. CASE i # k
    BY <1>3, <1>7, <1>9, <2>2
  <2> QED BY <2>1, <2>2
<1>12. validate_records(c)
  <2> SUFFICES ASSUME NEW i \in 1 .. n
               PROVE  /\ decode_record(c.records[i]) /\ validate_record_binding(c, c.records[i])
                      /\ \A j \in 1 .. i - 1 :
                           /\ c.records[i].identity # c.records[j].identity
                           /\ Live(c.records[i]) /\ Live(c.records[j])
                                /\ c.records[i].identity.authority = c.records[j].identity.authority
                              => c.records[i].name # c.records[j].name
                      /\ \A g \in c.records[i].groups : has_group(c, g)
    BY <1>3 DEF validate_records
  <2>1. \A j \in 1 .. i - 1 : j \in 1 .. n
    BY <1>4
  <2> QED BY <1>5, <1>8, <1>10, <1>11, <2>1
<1>13. zi_identity_database_validate(c, c.generation)
  BY <1>1, <1>3, <1>4, <1>12 DEF zi_identity_database_validate
<1>14. Extends(d, c)
  <2>1. \A i \in n + 1 .. n : FALSE
    BY <1>4
  <2>2. \A a \in Authorities : d.high[a] <= c.high[a]
    BY <1>3 DEF Databases
  <2>3. \A i \in 1 .. n : i <= n
    BY <1>4
  <2> QED BY <1>3, <1>5, <2>1, <2>2, <2>3 DEF Extends, n
<1> QED BY <1>3, <1>13, <1>14 DEF Succeeds

-----------------------------------------------------------------------------
(* The store.                                                               *)

\* A database that a load accepts is this installation's.
LEMMA LoadAccepts ==
    ASSUME NEW token, LoadSucceeds(token)
    PROVE  db.issuer = Issuer /\ zi_identity_database_validate(db, store.floor)
BY DEF LoadSucceeds, zi_identity_database_validate

\* A commit, certain or not, of a valid successor keeps what is known of the store.
LEMMA CommitKeeps ==
    ASSUME Storing, db.issuer = Issuer, zi_identity_database_validate(db, store.floor),
           NEW c, Succeeds(db, c), Committed(c) \/ CommitUncertain(c)
    PROVE  /\ db' \in Databases
           /\ store'.floor \in Nat /\ DOMAIN store' = {"floor", "needs_recovery"} /\ db'.generation >= 1
           /\ DatabaseStaysValid'
           /\ \A a \in Authorities : db.high[a] <= db'.high[a]
           /\ db' = db \/ Extends(db, db')
<1>1. /\ db \in Databases /\ db.generation \in Nat /\ db.generation >= 1
      /\ c \in Databases /\ c.generation = db.generation + 1 /\ c.generation \in Nat
      /\ \A a \in Authorities : db.high[a] \in Nat /\ db.high[a] <= c.high[a]
  BY DEF Storing, Succeeds, Extends, Databases
<1>2. zi_identity_database_validate(c, c.generation) /\ Extends(db, c)
  BY DEF Succeeds
<1>3. CASE Committed(c)
  <2>1. db' = c /\ store' = [store EXCEPT !.floor = c.generation]
    BY <1>3 DEF Committed
  <2>2. store'.floor = c.generation /\ DOMAIN store' = {"floor", "needs_recovery"}
    BY <2>1 DEF Storing
  <2>3. DatabaseStaysValid'
    BY <1>2, <2>1, <2>2 DEF DatabaseStaysValid
  <2> QED BY <1>1, <1>2, <2>1, <2>2, <2>3
<1>4. CASE CommitUncertain(c)
  <2>1. (db' = db \/ db' = c) /\ store'.floor = db.generation /\ DOMAIN store' = {"floor", "needs_recovery"}
    BY <1>4 DEF CommitUncertain
  <2>2. zi_identity_database_validate(db, db.generation) /\ zi_identity_database_validate(c, db.generation)
    BY <1>1, <1>2 DEF zi_identity_database_validate
  <2>3. DatabaseStaysValid'
    BY <2>1, <2>2 DEF DatabaseStaysValid
  <2> QED BY <1>1, <1>2, <2>1, <2>3
<1> QED BY <1>3, <1>4

\* The formatter's database is valid, and no identity has been handed out.
LEMMA StoringInit == Init => Storing
<1> SUFFICES ASSUME Init PROVE Storing
  OBVIOUS
<1>1. (CHOOSE i \in Issuers : i # Issuer) \in Issuers
  BY IdentityAssumption
<1>2. db.generation = 1 /\ db.records = <<>> /\ db \in Databases
  <2>1. EmptyDatabase.generation = 1 /\ EmptyDatabase.records = <<>>
    BY DEF EmptyDatabase
  <2>2. <<>> \in Seq(Records) /\ [a \in Authorities |-> FirstDynamicValue - 1] \in [Authorities -> Nat]
    BY DEF FirstDynamicValue
  <2>3. EmptyDatabase \in Databases
    BY <2>2, IdentityAssumption DEF EmptyDatabase, Databases
  <2>4. ASSUME NEW i \in Issuers
        PROVE  LET e == [EmptyDatabase EXCEPT !.issuer = i]
               IN  e \in Databases /\ e.generation = 1 /\ e.records = <<>>
    BY <2>1, <2>3 DEF Databases
  <2> QED BY <1>1, <2>1, <2>3, <2>4 DEF Init
<1>3. store.floor = 1 /\ DOMAIN store = {"floor", "needs_recovery"} /\ published = {}
  BY DEF Init
<1>4. validate_records(db)
  BY <1>2 DEF validate_records
<1>5. DatabaseStaysValid
  BY <1>2, <1>3, <1>4, IdentityAssumption DEF DatabaseStaysValid, zi_identity_database_validate
<1> QED BY <1>2, <1>3, <1>5 DEF Storing, PublishedBelowHigh

\* What a step does to the database: nothing, or one operation of identity_database.c.
LEMMA StepsOfTheDatabase ==
    ASSUME Storing, [Next]_vars
    PROVE  Storing' /\ (db' = db \/ Extends(db, db'))
<1>1. CASE \E id \in SecurityIds, x \in Descriptors : AppendDescriptor(id, x)
  BY <1>1 DEF AppendDescriptor, Storing, DatabaseStaysValid, PublishedBelowHigh
<1>2. CASE MountVolume
  BY <1>2 DEF MountVolume, Storing, DatabaseStaysValid, PublishedBelowHigh
<1>3. CASE Restart
  <2>1. db' = db /\ published' = published /\ store'.floor \in {1, store.floor}
        /\ DOMAIN store' = {"floor", "needs_recovery"}
    BY <1>3 DEF Restart
  <2>2. DatabaseStaysValid'
    <3> SUFFICES ASSUME db.issuer = Issuer PROVE zi_identity_database_validate(db, store'.floor)
      BY <2>1 DEF DatabaseStaysValid
    <3> QED BY <2>1 DEF Storing, DatabaseStaysValid, zi_identity_database_validate
  <2> QED BY <2>1, <2>2 DEF Storing, PublishedBelowHigh
<1>4. CASE \E k \in 1 .. Capacity : GarbleDescriptor(k)
  BY <1>4 DEF GarbleDescriptor, Storing, DatabaseStaysValid, PublishedBelowHigh
<1>5. ASSUME NEW token \in Tokens, zi_identity_store_load(token)
      PROVE  Storing' /\ db' = db
  <2>1. db' = db /\ published' = published /\ store'.floor = db.generation
        /\ DOMAIN store' = {"floor", "needs_recovery"}
    BY <1>5 DEF zi_identity_store_load, Storing
  <2>2. zi_identity_database_validate(db, db.generation) /\ db.generation \in Nat
    BY <1>5, LoadAccepts DEF zi_identity_store_load, zi_identity_database_validate, Storing, Databases
  <2> QED BY <2>1, <2>2 DEF Storing, DatabaseStaysValid, PublishedBelowHigh
<1>6. ASSUME NEW token \in Tokens, zi_identity_store_issue(token)
      PROVE  Storing' /\ (db' = db \/ Extends(db, db'))
  <2>1. PICK authority \in Authorities, name \in Names, groups \in SUBSET (1 .. MaxValue) :
            AppendSucceeds(db, authority, name, groups) /\ Issue(authority, name, groups)
    BY <1>6 DEF zi_identity_store_issue
  <2> DEFINE c == zi_identity_database_append(db, authority, name, groups)
  <2>2. db \in Databases /\ db.issuer = Issuer /\ zi_identity_database_validate(db, store.floor)
    BY <1>6, LoadAccepts DEF zi_identity_store_issue, Storing
  <2>3. Succeeds(db, c)
    BY <2>1, <2>2, AppendSucceedsWell
  <2>4. /\ Len(c.records) = Len(db.records) + 1 /\ c.issuer = db.issuer
        /\ c.records[Len(c.records)].identity =
             [issuer |-> db.issuer, authority |-> authority, value |-> db.high[authority] + 1]
        /\ c.high[authority] = db.high[authority] + 1
    <3>1. /\ c.high = [db.high EXCEPT ![authority] = db.high[authority] + 1]
          /\ Len(c.records) = Len(db.records) + 1 /\ c.issuer = db.issuer
          /\ c.records[Len(db.records) + 1] =
               [identity |-> [issuer |-> db.issuer, authority |-> authority, value |-> db.high[authority] + 1],
                generation |-> db.generation + 1, state |-> "disabled", name |-> name, groups |-> groups]
      BY <2>1, <2>2, AppendedRecords
    <3> QED BY <2>2, <3>1 DEF Databases
  <2>5. \/ Committed(c) /\ published' = published \cup {c.records[Len(c.records)].identity}
        \/ CommitUncertain(c) /\ published' = published
    BY <2>1 DEF Issue
  <2> HIDE DEF c
  <2>6. /\ db' \in Databases
        /\ store'.floor \in Nat /\ DOMAIN store' = {"floor", "needs_recovery"} /\ db'.generation >= 1
        /\ DatabaseStaysValid'
        /\ \A a \in Authorities : db.high[a] <= db'.high[a]
        /\ db' = db \/ Extends(db, db')
    BY <2>2, <2>3, <2>5, CommitKeeps
  <2>7. \A id \in published : id \in IssuedIds /\ id.issuer = Issuer /\ id.value <= db'.high[id.authority]
    <3> TAKE id \in published
    <3>1. id \in IssuedIds /\ id.issuer = Issuer /\ id.value <= db.high[id.authority]
      BY DEF Storing, PublishedBelowHigh
    <3>2. id.value \in Nat /\ id.authority \in Authorities
      BY <3>1 DEF IssuedIds
    <3>3. db.high[id.authority] \in Nat /\ db'.high[id.authority] \in Nat
          /\ db.high[id.authority] <= db'.high[id.authority]
      BY <2>2, <2>6, <3>2 DEF Databases
    <3> QED BY <3>1, <3>2, <3>3
  <2>8. PublishedBelowHigh'
    <3>1. CASE Committed(c) /\ published' = published \cup {c.records[Len(c.records)].identity}
      <4>1. db' = c
        BY <3>1 DEF Committed
      <4>2. db.high[authority] + 1 \in Nat
        BY <2>2 DEF Databases
      <4>3. LET id == c.records[Len(c.records)].identity
            IN  id \in IssuedIds /\ id.issuer = Issuer /\ id.value <= db'.high[id.authority]
        BY <2>2, <2>4, <4>1, <4>2, IdentityAssumption DEF IssuedIds
      <4> QED BY <2>7, <3>1, <4>3 DEF PublishedBelowHigh
    <3>2. CASE published' = published
      BY <2>7, <3>2 DEF PublishedBelowHigh
    <3> QED BY <2>5, <3>1, <3>2
  <2> QED BY <2>6, <2>8 DEF Storing
<1>7. ASSUME NEW token \in Tokens, zi_identity_store_remove(token)
      PROVE  Storing' /\ (db' = db \/ Extends(db, db'))
  <2>1. PICK identity \in Identities :
            /\ RemoveSucceeds(db, identity)
            /\ \/ Committed(zi_identity_database_remove(db, identity))
               \/ CommitUncertain(zi_identity_database_remove(db, identity))
    BY <1>7 DEF zi_identity_store_remove
  <2>2. db \in Databases /\ db.issuer = Issuer /\ zi_identity_database_validate(db, store.floor)
        /\ published' = published
    BY <1>7, LoadAccepts DEF zi_identity_store_remove, Storing
  <2> DEFINE c == zi_identity_database_remove(db, identity)
  <2>3. Succeeds(db, c)
    BY <2>1, <2>2, RemoveSucceedsWell
  <2>4. Committed(c) \/ CommitUncertain(c)
    BY <2>1
  <2> HIDE DEF c
  <2>5. /\ db' \in Databases
        /\ store'.floor \in Nat /\ DOMAIN store' = {"floor", "needs_recovery"} /\ db'.generation >= 1
        /\ DatabaseStaysValid'
        /\ \A a \in Authorities : db.high[a] <= db'.high[a]
        /\ db' = db \/ Extends(db, db')
    BY <2>2, <2>3, <2>4, CommitKeeps
  <2>6. ASSUME NEW id \in published
        PROVE  id \in IssuedIds /\ id.issuer = Issuer /\ id.value <= db'.high[id.authority]
    <3>1. id \in IssuedIds /\ id.issuer = Issuer /\ id.value <= db.high[id.authority]
      BY DEF Storing, PublishedBelowHigh
    <3>2. id.value \in Nat /\ id.authority \in Authorities
      BY <3>1 DEF IssuedIds
    <3>3. db.high[id.authority] \in Nat /\ db'.high[id.authority] \in Nat
          /\ db.high[id.authority] <= db'.high[id.authority]
      BY <2>2, <2>5, <3>2 DEF Databases
    <3> QED BY <3>1, <3>2, <3>3
  <2> QED BY <2>2, <2>5, <2>6 DEF Storing, PublishedBelowHigh
<1>8. CASE UNCHANGED vars
  BY <1>8 DEF vars, Storing, DatabaseStaysValid, PublishedBelowHigh
<1> QED BY <1>1, <1>2, <1>3, <1>4, <1>5, <1>6, <1>7, <1>8 DEF Next

-----------------------------------------------------------------------------
(* The private policy.                                                      *)

\* The entry of the private policy leaves the rights of a caller without
\* SYSTEM:1 as they were requested: the loop runs once and skips it.
LEMMA ScanSkips ==
    ASSUME NEW ace, NEW token, NEW requested, ~Applies(ace, token)
    PROVE  Scan(<<ace>>, token, requested) = [left |-> requested, denied |-> FALSE]
<1> DEFINE start == [left |-> requested, denied |-> FALSE]
           Step(g) == [k \in 0 .. Len(<<ace>>) |->
                         IF k = 0 THEN [left |-> requested, denied |-> FALSE]
                         ELSE LET was      == g[k-1]
                                  e        == <<ace>>[k]
                                  relevant == e.mask \cap was.left
                              IN  IF was.denied \/ ~Applies(e, token) \/ relevant = {} THEN was
                                  ELSE IF e.type = "deny" THEN [was EXCEPT !.denied = TRUE]
                                  ELSE [was EXCEPT !.left = @ \ relevant]]
           after == CHOOSE g : g = Step(g)
           both  == [k \in 0 .. 1 |-> start]
<1>1. Len(<<ace>>) = 1 /\ <<ace>>[1] = ace /\ 0 .. Len(<<ace>>) = {0, 1} /\ 0 .. 1 = {0, 1}
  OBVIOUS
<1>2. \A g : g = Step(g) => g[0] = start /\ g[1] = start
  <2> TAKE g
  <2> HAVE g = Step(g)
  <2>1. g[0] = Step(g)[0] /\ g[1] = Step(g)[1]
    OBVIOUS
  <2>2. Step(g)[0] = start
    BY <1>1
  <2>3. Step(g)[1] = g[0]
    BY <1>1
  <2> QED BY <2>1, <2>2, <2>3
<1>3. both = Step(both)
  BY <1>1
<1>4. after = Step(after)
  BY <1>3
<1>5. Scan(<<ace>>, token, requested) = after[Len(<<ace>>)]
  BY DEF Scan
<1> HIDE DEF after, Step
<1>6. after[1] = start
  BY <1>2, <1>4
<1> QED BY <1>1, <1>5, <1>6

\* Under the private policy only a token with SYSTEM:1 is granted a right.
LEMMA PrivateGrantsSystem ==
    ASSUME NEW d, NEW token, NEW r, d.dacl # NoDacl,
           d.dacl = <<[type |-> "allow", inherit_only |-> FALSE, mask |-> Rights, trustee |-> System]>>,
           zi_security_access_check(d, token, {r}).status = "SUCCESS"
    PROVE  token_contains_id(token, System)
<1> DEFINE ace == [type |-> "allow", inherit_only |-> FALSE, mask |-> Rights, trustee |-> System]
           end == Scan(d.dacl, token, {r})
<1> SUFFICES ASSUME ~token_contains_id(token, System) PROVE FALSE
  OBVIOUS
<1>1. ~Applies(ace, token)
  BY DEF Applies
<1>2. d.dacl = <<ace>>
  OBVIOUS
<1> HIDE DEF ace
<1>3. end = [left |-> {r}, denied |-> FALSE]
  BY <1>1, <1>2, ScanSkips
<1>4. end.left # {} /\ ~end.denied
  BY <1>3
<1>5. d.dacl # <<>> /\ {r} # {}
  BY <1>2
<1> HIDE DEF end
<1>6. zi_security_access_check(d, token, {r}).status \in {"INVALID_ARGUMENT", "ACCESS_DENIED"}
  BY <1>4, <1>5 DEF zi_security_access_check, end
<1> QED BY <1>6

-----------------------------------------------------------------------------
(* The theorems.                                                            *)

\* The invariant behind both theorems.
LEMMA StoringAlways == Spec => []Storing
<1>1. Storing /\ [Next]_vars => Storing'
  BY StepsOfTheDatabase
<1> QED BY StoringInit, <1>1, PTL DEF Spec

\* The database on the medium always passes its own validation at the floor of
\* the store, whatever was issued and removed and whichever way uncertain
\* commits came out (zi_identity_database_validate).
THEOREM DatabaseValid == Spec => []DatabaseStaysValid
<1>1. Storing => DatabaseStaysValid
  BY DEF Storing
<1> QED BY StoringAlways, <1>1, PTL

\* The store opens only under a policy by which nobody without SYSTEM:1 reaches
\* the database by path (read_bound_record against ZiFsLookupPathAuthorised).
THEOREM PrivateStore == Spec => []StoreIsPrivate
<1>1. StoreIsPrivate
  <2> SUFFICES ASSUME NEW opener \in Tokens, read_bound_record(opener),
                      NEW token \in Tokens, NEW r \in Rights,
                      PathIsAuthorised(table, volume.count, <<file.root, file.database>>, token, Execute, {r})
               PROVE  token_contains_id(token, System)
    BY DEF StoreIsPrivate
  <2> DEFINE loaded == ZiFsLoadSecurityDescriptor(table, volume.count, file.database)
  <2>1. /\ loaded.status = "SUCCESS" /\ loaded.descriptor.dacl # NoDacl
        /\ loaded.descriptor.dacl =
             <<[type |-> "allow", inherit_only |-> FALSE, mask |-> Rights, trustee |-> System]>>
    BY DEF read_bound_record, PolicyIsPrivate
  <2>2. ZiFsCheckSecurityAccess(table, volume.count, file.database, token, {r}).status = "SUCCESS"
    BY DEF PathIsAuthorised
  <2>3. zi_security_access_check(loaded.descriptor, token, {r}).status = "SUCCESS"
    BY <2>1, <2>2 DEF ZiFsCheckSecurityAccess
  <2> HIDE DEF loaded
  <2> QED BY <2>1, <2>3, PrivateGrantsSystem
<1> QED BY <1>1, PTL

\* An identity denotes one record for ever and is never issued again
\* (zi_identity_reserve, zi_identity_database_append and remove).
THEOREM PermanentIdentities == Spec => IdentitiesArePermanent
<1> DEFINE Permanent ==
        /\ \A i \in 1 .. Len(db.records) :
             /\ i <= Len(db'.records)
             /\ db'.records[i].identity = db.records[i].identity /\ db'.records[i].name = db.records[i].name
             /\ Live(db'.records[i]) => Live(db.records[i])
        /\ \A i \in Len(db.records) + 1 .. Len(db'.records) :
             /\ db'.records[i].identity \notin published
             /\ \A j \in 1 .. Len(db.records) : db'.records[i].identity # db.records[j].identity
<1>1. ASSUME Storing, [Next]_vars PROVE [Permanent]_vars
  <2>1. CASE db' = db
    <3>1. Len(db.records) \in Nat
      BY <1>1 DEF Storing, Databases
    <3> QED BY <2>1, <3>1
  <2>2. CASE Extends(db, db')
    <3>1. ASSUME NEW i \in Len(db.records) + 1 .. Len(db'.records)
          PROVE  db'.records[i].identity \notin published
      <4> SUFFICES ASSUME db'.records[i].identity \in published PROVE FALSE
        OBVIOUS
      <4>1. db'.records[i].identity.value > db.high[db'.records[i].identity.authority]
        BY <2>2 DEF Extends
      <4>2. /\ db'.records[i].identity \in IssuedIds
            /\ db'.records[i].identity.value <= db.high[db'.records[i].identity.authority]
        BY <1>1 DEF Storing, PublishedBelowHigh
      <4>3. db'.records[i].identity.value \in Nat /\ db.high[db'.records[i].identity.authority] \in Nat
        BY <1>1, <4>2 DEF IssuedIds, Storing, Databases
      <4> QED BY <4>1, <4>2, <4>3
    <3> QED BY <2>2, <3>1 DEF Extends
  <2> QED BY <1>1, <2>1, <2>2, StepsOfTheDatabase
<1> HIDE DEF Permanent
<1>2. Storing /\ [Next]_vars => [Permanent]_vars
  BY <1>1
<1>3. Spec => [][Permanent]_vars
  BY StoringAlways, <1>2, PTL DEF Spec
<1> QED BY <1>3 DEF Permanent, IdentitiesArePermanent

=============================================================================
