---------------------------- MODULE Stores_proofs ----------------------------
(***************************************************************************)
(* Proofs about the stores.  For every set of identities, components and   *)
(* values (IdentityProviders): the D1 adapter implements the contract, the *)
(* memory adapter finds every holder, and outside the writes that take an  *)
(* identification out of a record the two cannot be told apart.  For every *)
(* number of clients, calls, secrets and moments (Registration): a client  *)
(* is what the server made of its request, and a dead secret stays dead.   *)
(* For any people, keys and dances (Passkeys): a sign-in is of the person  *)
(* whose key signed.  For any clients, scopes, keys and durations          *)
(* (AccessTokens): a token gives what its session and its owner gave.  For *)
(* any inboxes and owners (AddressMigration): a rewrite undoes nothing.    *)
(*                                                                         *)
(* Each adapter answers from a copy: the view, or the index.  The          *)
(* invariant says what each copy knows about the records.  The calls of    *)
(* the client storage hold a copy too: the invariant says which of its     *)
(* secrets may still be the hash of a record.                              *)
(***************************************************************************)
EXTENDS IdentityProviders, MCRegistration, MCPasskeys, MCAccessTokens, MCAddressMigration, Naturals, Sequences, FiniteSets,
        FunctionTheorems, FiniteSetTheorems, SequenceTheorems, TLAPS

Held(records, i, c) == records[i] # Absent /\ c \in records[i]

\* No identification has two holders in the D1 tables.
OneHolder == \A i, j \in Ids, c \in Claims : Held(rows, i, c) /\ Held(rows, j, c) => i = j

\* While no record lost an identification, the index names the holders alone.
IndexFollowsTheRecords ==
    plain => \A c \in Claims, i \in Ids : index[c] = i <=> Held(storage, i, c)

IndexNamesTheHolder == \A i \in Ids, c \in Claims : Held(storage, i, c) => index[c] = i

IInv ==
    /\ TypeOK
    /\ ViewFollowsTheRecords
    /\ OneHolder
    /\ IndexNamesTheHolder
    /\ IndexFollowsTheRecords
    /\ AdaptersAgree
-----------------------------------------------------------------------------
\* A record is a set of identifications, so Absent is none.
LEMMA AbsentIsNoRecord == \A cs \in SUBSET Claims : cs # Absent
BY AbsentAssumption

\* What the D1 adapter refuses is what the contract refuses: the view holds the
\* identifications of the other records, whichever trigger runs.
LEMMA RefusesWhatIsTaken ==
    ASSUME IInv, NEW i \in Ids, NEW cs \in SUBSET Claims
    PROVE D1Refuses(i, cs) <=> Contract!Taken(i, cs)
<1>1. \A r \in Claims \X Ids : r \in view <=> Held(rows, r[2], r[1])
  BY DEF IInv, ViewFollowsTheRecords, Held
<1>2. view \subseteq Claims \X Ids
  BY DEF IInv, TypeOK
<1>3. ViewKept(i) = {r \in view : r[2] # i}
  BY <1>1, <1>2 DEF ViewKept, Held
<1>4. ASSUME NEW j \in Ids \ {i}, NEW c \in cs, Held(rows, j, c)
      PROVE D1Refuses(i, cs)
  <2>1. <<c, j>> \in ViewKept(i) /\ <<c, j>>[1] = c
    BY <1>1, <1>3, <1>4
  <2> QED BY <2>1 DEF D1Refuses
<1>5. ASSUME NEW r \in ViewKept(i), r[1] \in cs
      PROVE \E j \in Ids \ {i}, c \in cs : Held(rows, j, c)
  <2>1. r \in Claims \X Ids /\ r[2] # i /\ Held(rows, r[2], r[1])
    BY <1>1, <1>2, <1>3
  <2> QED BY <1>5, <2>1
<1> QED BY <1>4, <1>5 DEF D1Refuses, Contract!Taken, Contract!Holds, Held

\* The join of the two tables finds the holder.
LEMMA JoinFindsTheHolder ==
    ASSUME IInv, NEW i \in Ids, NEW c \in Claims
    PROVE D1Finds(c, i) <=> Held(rows, i, c)
BY DEF IInv, TypeOK, ViewFollowsTheRecords, D1Finds, Held

\* Nothing is stored, indexed or in the view.
LEMMA InitInv == Init => IInv
<1> SUFFICES ASSUME Init PROVE IInv
  OBVIOUS
<1>1. TypeOK
  BY DEF Init, TypeOK, Records
<1>2. ViewFollowsTheRecords /\ OneHolder
  BY DEF Init, ViewFollowsTheRecords, OneHolder, Held
<1>3. IndexNamesTheHolder /\ IndexFollowsTheRecords /\ AdaptersAgree
  BY NobodyAssumption DEF Init, IndexNamesTheHolder, IndexFollowsTheRecords, Held, AdaptersAgree
<1> QED BY <1>1, <1>2, <1>3 DEF IInv

\* A write of the memory adapter indexes the record it stores, and takes the entry of
\* nobody else.
LEMMA MemorySetIndexes ==
    ASSUME IInv, NEW i \in Ids, NEW cs \in SUBSET Claims, MemorySet(i, cs)
    PROVE IndexNamesTheHolder'
<1> SUFFICES ASSUME NEW j \in Ids, NEW c \in Claims, Held(storage', j, c)
             PROVE index'[c] = j
  BY DEF IndexNamesTheHolder
<1>1. CASE MemoryRefuses(i, cs)
  BY <1>1 DEF MemorySet, memory, IInv, IndexNamesTheHolder
<1>2. CASE ~MemoryRefuses(i, cs)
  <2>1. storage' = [storage EXCEPT ![i] = cs] /\ index' = Indexed(i, cs)
    BY <1>2 DEF MemorySet
  <2>2. CASE j = i
    BY <2>1, <2>2 DEF Held, Indexed, IInv, TypeOK
  <2>3. CASE j # i
    <3>1. Held(storage, j, c) /\ index[c] = j
      BY <2>1, <2>3 DEF Held, IInv, TypeOK, IndexNamesTheHolder
    <3>2. c \notin cs
      BY <1>2, <2>3, <3>1, NobodyAssumption DEF MemoryRefuses, IndexedFor
    <3> QED BY <2>1, <3>1, <3>2 DEF Indexed
  <2> QED BY <2>2, <2>3
<1> QED BY <1>1, <1>2

\* While the adapters agree they refuse the same writes.
LEMMA RefuseAlike ==
    ASSUME IInv, plain, NEW i \in Ids, NEW cs \in SUBSET Claims, ~EnrolledTwice(cs)
    PROVE MemoryRefuses(i, cs) <=> D1Refuses(i, cs)
<1>1. storage = rows
  BY DEF IInv, AdaptersAgree
<1>2. D1Refuses(i, cs) <=> \E j \in Ids \ {i}, c \in cs : Held(rows, j, c)
  BY RefusesWhatIsTaken DEF Contract!Taken, Contract!Holds, Held
<1>3. ASSUME NEW c \in cs
      PROVE IndexedFor(c, i) <=> \E j \in Ids \ {i} : Held(storage, j, c)
  <2>1. index[c] \in Ids \cup {Nobody}
    BY DEF IInv, TypeOK
  <2>2. \A j \in Ids : index[c] = j <=> Held(storage, j, c)
    BY DEF IInv, IndexFollowsTheRecords
  <2> QED BY <2>1, <2>2, NobodyAssumption DEF IndexedFor
<1> QED BY <1>1, <1>2, <1>3 DEF MemoryRefuses

\* A write of both adapters keeps the invariant.
LEMMA SetInv ==
    ASSUME IInv, NEW i \in Ids, NEW cs \in SUBSET Claims, Set(i, cs)
    PROVE IInv'
<1>0. cs # Absent /\ cs \in Records
  BY AbsentIsNoRecord DEF Records
<1>1. MemorySet(i, cs) /\ D1Set(i, cs)
  BY DEF Set
<1>2. TypeOK'
  <2>1. storage' \in [Ids -> Records] /\ index' \in [Claims -> Ids \cup {Nobody}]
    BY <1>0, <1>1 DEF IInv, TypeOK, MemorySet, memory, Indexed
  <2>2. rows' \in [Ids -> Records] /\ view' \subseteq Claims \X Ids
    BY <1>0, <1>1 DEF IInv, TypeOK, D1Set, d1, ViewKept
  <2>3. answer' \in [memory : Ids \cup {Nobody, "done", "refused"},
                     d1 : Ids \cup {Nobody, "done", "refused"}] /\ plain' \in BOOLEAN
    BY DEF Set, Answered, IInv, TypeOK
  <2> QED BY <2>1, <2>2, <2>3 DEF TypeOK
<1>3. ViewFollowsTheRecords' /\ OneHolder'
  <2>1. CASE D1Refuses(i, cs)
    BY <1>1, <2>1 DEF D1Set, d1, IInv, ViewFollowsTheRecords, OneHolder, Held
  <2>2. CASE ~D1Refuses(i, cs)
    <3>1. rows' = [rows EXCEPT ![i] = cs] /\ view' = ViewKept(i) \cup {<<c, i>> : c \in cs}
      BY <1>1, <2>2 DEF D1Set
    <3>2. ViewKept(i) = {r \in view : r[2] # i}
      BY DEF IInv, ViewFollowsTheRecords, ViewKept
    <3>3. \A r \in Claims \X Ids : r \in view' <=> (rows'[r[2]] # Absent /\ r[1] \in rows'[r[2]])
      BY <1>0, <3>1, <3>2 DEF IInv, ViewFollowsTheRecords, TypeOK
    <3>4. \A j \in Ids, c \in Claims : Held(rows', j, c) /\ j # i => Held(rows, j, c) /\ c \notin cs
      BY <2>2, <3>1, RefusesWhatIsTaken DEF IInv, TypeOK, Contract!Taken, Contract!Holds, Held
    <3>5. OneHolder'
      BY <3>1, <3>4 DEF IInv, OneHolder, TypeOK, Held
    <3> QED BY <1>2, <3>3, <3>5 DEF ViewFollowsTheRecords, TypeOK
  <2> QED BY <2>1, <2>2
<1>4. IndexNamesTheHolder'
  BY <1>1, MemorySetIndexes
<1>5. IndexFollowsTheRecords' /\ AdaptersAgree'
  <2> SUFFICES ASSUME plain'
               PROVE /\ \A c \in Claims, j \in Ids : index'[c] = j <=> Held(storage', j, c)
                     /\ storage' = rows' /\ answer'.memory = answer'.d1
    BY DEF IndexFollowsTheRecords, AdaptersAgree
  <2>1. plain /\ ~Loses(i, cs) /\ ~EnrolledTwice(cs)
    BY DEF Set
  <2>2. MemoryRefuses(i, cs) <=> D1Refuses(i, cs)
    BY <2>1, RefuseAlike
  <2>3. storage = rows /\ \A c \in Claims, j \in Ids : index[c] = j <=> Held(storage, j, c)
    BY <2>1 DEF IInv, AdaptersAgree, IndexFollowsTheRecords
  <2>4. storage' = rows'
    BY <1>1, <2>2, <2>3 DEF MemorySet, D1Set, memory, d1
  <2>5. answer'.memory = answer'.d1
    BY <2>2 DEF Set, Answered
  <2>6. ASSUME NEW c \in Claims, NEW j \in Ids
        PROVE index'[c] = j <=> Held(storage', j, c)
    <3>1. CASE MemoryRefuses(i, cs)
      BY <1>1, <2>3, <3>1 DEF MemorySet, memory
    <3>2. CASE ~MemoryRefuses(i, cs)
      <4>1. storage' = [storage EXCEPT ![i] = cs] /\ index' = Indexed(i, cs)
        BY <1>1, <3>2 DEF MemorySet
      <4>2. Held(storage', j, c) => index'[c] = j
        BY <1>4 DEF IndexNamesTheHolder
      <4>3. CASE c \in cs
        <5>1. index'[c] = i
          BY <4>1, <4>3 DEF Indexed
        <5>2. Held(storage', i, c)
          BY <1>0, <4>1, <4>3 DEF Held, IInv, TypeOK
        <5> QED BY <4>2, <5>1, <5>2
      <4>4. CASE c \notin cs
        <5>1. index'[c] = index[c]
          BY <4>1, <4>4 DEF Indexed
        <5>2. Held(storage, j, c) => j # i
          BY <2>1, <4>4 DEF Held, Loses
        <5>3. j # i => storage'[j] = storage[j]
          BY <4>1 DEF IInv, TypeOK
        <5> QED BY <2>3, <4>2, <5>1, <5>2, <5>3 DEF Held
      <4> QED BY <4>3, <4>4
    <3> QED BY <3>1, <3>2
  <2> QED BY <2>4, <2>5, <2>6
<1> QED BY <1>2, <1>3, <1>4, <1>5 DEF IInv

\* A delete takes the record and what points to it.
LEMMA DeleteInv ==
    ASSUME IInv, NEW i \in Ids, Delete(i)
    PROVE IInv'
<1>1. storage' = [storage EXCEPT ![i] = Absent] /\ index' = Unindexed(i)
  BY DEF Delete, MemoryDelete
<1>2. rows' = [rows EXCEPT ![i] = Absent] /\ view' = Cascaded(i)
  BY DEF Delete, D1Delete
<1>3. answer' = [memory |-> "done", d1 |-> "done"] /\ plain' = plain
  BY DEF Delete
<1>4. TypeOK'
  BY <1>1, <1>2, <1>3 DEF IInv, TypeOK, Records, Unindexed, Cascaded
<1>5. ViewFollowsTheRecords' /\ OneHolder'
  <2>1. \A r \in Claims \X Ids : r \in view' <=> (rows'[r[2]] # Absent /\ r[1] \in rows'[r[2]])
    BY <1>2 DEF IInv, ViewFollowsTheRecords, TypeOK, Cascaded
  <2>2. OneHolder'
    BY <1>2 DEF IInv, OneHolder, TypeOK, Held
  <2> QED BY <1>4, <2>1, <2>2 DEF ViewFollowsTheRecords, TypeOK
<1>6. ASSUME NEW c \in Claims, NEW j \in Ids, Held(storage', j, c)
      PROVE index'[c] = j
  <2>1. j # i /\ Held(storage, j, c)
    BY <1>1, <1>6 DEF IInv, TypeOK, Held
  <2>2. index[c] = j /\ ~Held(storage, i, c)
    BY <2>1 DEF IInv, IndexNamesTheHolder
  <2> QED BY <1>1, <2>2 DEF Unindexed, Held
<1>7. ASSUME plain', NEW c \in Claims, NEW j \in Ids, index'[c] = j
      PROVE Held(storage', j, c)
  <2>1. index[c] = j /\ ~Held(storage, i, c)
    BY <1>1, <1>7, NobodyAssumption DEF Unindexed, Held
  <2>2. Held(storage, j, c) /\ j # i
    BY <1>3, <1>7, <2>1 DEF IInv, IndexFollowsTheRecords
  <2> QED BY <1>1, <2>2 DEF IInv, TypeOK, Held
<1>8. IndexNamesTheHolder' /\ IndexFollowsTheRecords'
  BY <1>6, <1>7 DEF IndexNamesTheHolder, IndexFollowsTheRecords
<1>9. AdaptersAgree'
  BY <1>1, <1>2, <1>3 DEF IInv, AdaptersAgree
<1> QED BY <1>4, <1>5, <1>8, <1>9 DEF IInv

\* A lookup writes nothing, and both adapters answer the holder.
LEMMA FindInv ==
    ASSUME IInv, NEW c \in Claims, Find(c)
    PROVE IInv'
<1>1. UNCHANGED <<storage, index, rows, view, plain>>
  BY DEF Find
<1>2. MemoryFinds(c) \in Ids \cup {Nobody}
  BY DEF IInv, TypeOK, MemoryFinds
<1>3. TypeOK'
  BY <1>1, <1>2 DEF Find, IInv, TypeOK
<1>4. ViewFollowsTheRecords' /\ OneHolder' /\ IndexNamesTheHolder' /\ IndexFollowsTheRecords'
  BY <1>1 DEF IInv, ViewFollowsTheRecords, OneHolder, IndexNamesTheHolder,
              IndexFollowsTheRecords, Held
<1>5. ASSUME plain PROVE answer'.memory = answer'.d1
  <2>1. storage = rows /\ \A j \in Ids : index[c] = j <=> Held(storage, j, c)
    BY <1>5 DEF IInv, AdaptersAgree, IndexFollowsTheRecords
  <2>2. \A j \in Ids : D1Finds(c, j) <=> index[c] = j
    BY <2>1, JoinFindsTheHolder
  <2>3. index[c] \in Ids \cup {Nobody}
    BY DEF IInv, TypeOK
  <2>4. CASE \E j \in Ids : D1Finds(c, j) /\ answer' = [memory |-> MemoryFinds(c), d1 |-> j]
    BY <2>1, <2>2, <2>4, NobodyAssumption DEF MemoryFinds, Held
  <2>5. CASE (\A j \in Ids : ~D1Finds(c, j)) /\ answer' = [memory |-> MemoryFinds(c), d1 |-> Nobody]
    BY <2>2, <2>3, <2>5 DEF MemoryFinds
  <2> QED BY <2>4, <2>5 DEF Find
<1>6. AdaptersAgree'
  BY <1>1, <1>5 DEF IInv, AdaptersAgree
<1> QED BY <1>3, <1>4, <1>6 DEF IInv

\* The copies follow the records through every history of calls.
THEOREM Invariance == Spec => []IInv
<1>1. Init => IInv
  BY InitInv
<1>2. IInv /\ [Next]_vars => IInv'
  <2> SUFFICES ASSUME IInv, [Next]_vars PROVE IInv'
    OBVIOUS
  <2>1. CASE UNCHANGED vars
    BY <2>1 DEF vars, IInv, TypeOK, ViewFollowsTheRecords, OneHolder, IndexNamesTheHolder,
                IndexFollowsTheRecords, AdaptersAgree, Held
  <2>2. CASE \E i \in Ids, cs \in SUBSET Claims : Set(i, cs)
    BY <2>2, SetInv
  <2>3. CASE \E i \in Ids : Delete(i)
    BY <2>3, DeleteInv
  <2>4. CASE \E c \in Claims : Find(c)
    BY <2>4, FindInv
  <2> QED BY <2>1, <2>2, <2>3, <2>4 DEF Next
<1> QED BY <1>1, <1>2, PTL DEF Spec

\* Every map, table and answer keeps its type.
THEOREM TypeCorrect == Spec => []TypeOK
<1>1. IInv => TypeOK
  BY DEF IInv
<1> QED BY <1>1, Invariance, PTL

\* The memory adapter finds an identity by each identification its record holds.
THEOREM MemoryFindsThem == Spec => []MemoryFindsEveryHolder
<1>1. IInv => MemoryFindsEveryHolder
  BY NobodyAssumption
  DEF IInv, TypeOK, IndexNamesTheHolder, Held, MemoryFindsEveryHolder, MemoryFinds, Records
<1> QED BY <1>1, Invariance, PTL

\* Two triggers and a cascade keep the view equal to the records.
THEOREM ViewIsKept == Spec => []ViewFollowsTheRecords
<1>1. IInv => ViewFollowsTheRecords
  BY DEF IInv
<1> QED BY <1>1, Invariance, PTL

\* No caller can tell the adapters apart before a record loses an identification.
THEOREM Interchangeable == Spec => []AdaptersAgree
<1>1. IInv => AdaptersAgree
  BY DEF IInv
<1> QED BY <1>1, Invariance, PTL

\* The lookups of either adapter (providers/memory.ts, providers/sqlite.sql) name the identity
\* whose record holds the identification, through every history of writes and deletes.
THEOREM HoldersAreFound == Spec => []EveryHolderIsFound
BY TypeCorrect, MemoryFindsThem, Interchangeable, ViewIsKept, PTL DEF EveryHolderIsFound

\* Each step of the D1 adapter is a step of the contract.
LEMMA StepsAreOfTheContract ==
    ASSUME IInv, [Next]_vars
    PROVE [Contract!Next]_(Contract!vars)
<1>1. CASE UNCHANGED vars
  BY <1>1 DEF vars, Contract!vars
<1>2. ASSUME NEW i \in Ids, NEW cs \in SUBSET Claims, Set(i, cs)
      PROVE Contract!Set(i, cs)
  <2>1. D1Set(i, cs) /\ answer'.d1 = Answered(D1Refuses(i, cs))
    BY <1>2 DEF Set
  <2>2. D1Refuses(i, cs) <=> Contract!Taken(i, cs)
    BY RefusesWhatIsTaken
  <2> QED BY <2>1, <2>2 DEF D1Set, d1, Answered, Contract!Set
<1>3. ASSUME NEW i \in Ids, Delete(i)
      PROVE Contract!Delete(i)
  BY <1>3 DEF Delete, D1Delete, Contract!Delete
<1>4. ASSUME NEW c \in Claims, Find(c)
      PROVE Contract!Find(c)
  <2>1. \A i \in Ids : D1Finds(c, i) <=> Contract!Holds(i, c)
    BY JoinFindsTheHolder DEF Held, Contract!Holds
  <2>2. rows' = rows
    BY <1>4 DEF Find
  <2>3. \/ \E i \in Ids : D1Finds(c, i) /\ answer'.d1 = i
        \/ (\A i \in Ids : ~D1Finds(c, i)) /\ answer'.d1 = Nobody
    BY <1>4 DEF Find
  <2> QED BY <2>1, <2>2, <2>3 DEF Contract!Find
<1> QED BY <1>1, <1>2, <1>3, <1>4 DEF Next, Contract!Next

\* The D1 adapter implements the contract of an identity provider.
THEOREM D1ImplementsTheContract == Spec => ImplementsContract
<1>1. Init => Contract!Init
  BY DEF Init, Contract!Init
<1>2. IInv /\ [Next]_vars => [Contract!Next]_(Contract!vars)
  BY StepsAreOfTheContract
<1> QED BY <1>1, <1>2, Invariance, PTL DEF Spec, ImplementsContract, Contract!Spec

-----------------------------------------------------------------------------
(* The registered clients.  A secret is drawn once, so it belongs to one   *)
(* client; who holds a copy of a record holds one of its secrets; and a    *)
(* record nobody overwrote unread holds none that was replaced.            *)

ClientsTyped ==
  /\ R!TypeOK
  /\ clients \in [Clients -> R!Record \cup {Unregistered}]
  /\ calls \in [Calls -> R!Call \cup {Idle}]

\* The hashes a record of a client may hold.
HashesOf(c) == given[c] \cup {R!NoSecret}

\* A secret that was given belongs to one client, and so does the hash of its record.
SecretsAreOwn ==
  /\ \A c \in Clients : given[c] \subseteq 1..drawn
  /\ \A c, d \in Clients : c # d => given[c] \cap given[d] = {}
  /\ \A c \in Clients : R!Stored(c) => clients[c].hash \in HashesOf(c)
  /\ \A s \in replaced : \E c \in Clients : s \in given[c]

\* The secret a rotation drew is nobody else's.
RotationFits(k) ==
  calls[k].op = "rotate" =>
    /\ calls[k].seen.hash # R!NoSecret
    /\ calls[k].secret \in 1..drawn
    /\ \A c \in Clients : calls[k].secret \notin given[c]
    /\ \A j \in Calls \ {k} : calls[j] # Idle /\ calls[j].op = "rotate" => calls[j].secret # calls[k].secret

\* A check of a secret that should fail will, as long as nobody overwrote the record unread.
CheckFits(k) ==
  calls[k].op = "authenticate" =>
    /\ calls[k].method = "none" => calls[k].secret = R!NoSecret
    /\ (calls[k].client \notin lost /\ calls[k].secret \in calls[k].known
          /\ calls[k].seen.hash = calls[k].secret) => R!HasExpired(calls[k].seen, clock)

\* The record a call read was stored, with a hash of its client.
ReadFits(k) == calls[k].seen # Unregistered /\ calls[k].seen.hash \in HashesOf(calls[k].client)

CallsFit == \A k \in Calls : calls[k] # Idle => ReadFits(k) /\ RotationFits(k) /\ CheckFits(k)

HashStands == \A c \in Clients \ lost : R!Stored(c) => clients[c].hash \notin replaced

\* What the server made of a request.
Regular(record) ==
  /\ R!Checked(record.metadata) /\ R!FitsSchema(record)
  /\ record.by = "dynamic" => record.metadata.fields = {}

Expires(record, secrets) ==
  record.by = "dynamic" /\ Lifetime > 0 => record.expires # R!Never \/ Cardinality(secrets) # 1

RecordsAreRegular ==
  /\ \A c \in Clients \ edited : R!Stored(c) => Regular(clients[c]) /\ Expires(clients[c], given[c])
  /\ \A k \in Calls : calls[k] # Idle /\ calls[k].client \notin edited => Regular(calls[k].seen)

ClientsInv ==
  /\ ClientsTyped /\ SecretsAreOwn /\ CallsFit /\ HashStands /\ RecordsAreRegular
  /\ passed = {}

\* The metadata a registration comes to is metadata, keeps the rules, and sets a field of the
\* server for an administrator only.
LEMMA AcceptedMetadata ==
  ASSUME NEW body \in Bodies, NEW by \in {"admin", "dynamic"}, NEW metadata \in R!Accepted(body, by)
  PROVE  /\ metadata \in R!Metadata /\ R!Checked(metadata)
         /\ by = "dynamic" => metadata.fields = {}
<1> DEFINE ceiling == IF by = "dynamic" THEN Offered ELSE Scopes
           parsed == R!Parsed(body, ceiling, by)
<1>1. \A m \in Bodies : m \in R!Metadata
  BY ClientsAssumption DEF R!RegistrationAssumption
<1>2. parsed \in R!Metadata /\ (by = "dynamic" => parsed.fields = {})
  <2>1. body \in R!Metadata /\ ceiling \in SUBSET Scopes
    BY <1>1, ClientsAssumption DEF R!RegistrationAssumption
  <2> HIDE DEF ceiling
  <2>2. parsed = [ body EXCEPT !.scope = @ \cap ceiling, !.fields = IF by = "admin" THEN @ ELSE {} ]
    BY DEF R!Parsed
  <2> QED BY <2>1, <2>2 DEF R!Metadata
<1>3. \A m \in Bodies : R!Rewritten(m) \in R!Metadata /\ R!Rewritten(m).fields = {}
  BY <1>1 DEF R!Rewritten, R!Metadata
<1>4. R!Checked(metadata) /\
      (metadata = parsed \/ (by = "dynamic" /\ \E m \in Bodies : metadata = R!Rewritten(m)))
  BY DEF R!Accepted
<1> QED BY <1>2, <1>3, <1>4

\* The instance counts as this module does.
LEMMA CardinalityOfR == \A S : R!Cardinality(S) = Cardinality(S)
BY Zenon DEF Cardinality, R!Cardinality

\* A set of secrets that grows holds more than one.
LEMMA OneMore ==
  ASSUME NEW n \in Nat, NEW S \in SUBSET (1..n), S # {}, NEW x, x \notin S
  PROVE  Cardinality(S \cup {x}) # 1
<1> SUFFICES ASSUME Cardinality(S \cup {x}) = 1 PROVE FALSE
  OBVIOUS
<1>1. IsFiniteSet(S \cup {x})
  <2>1. IsFiniteSet(1..n)
    BY FS_Interval
  <2>2. IsFiniteSet(S)
    BY <2>1, FS_Subset
  <2> QED BY <2>2, FS_AddElement
<1>2. PICK y : S \cup {x} = {y}
  BY <1>1, FS_Singleton
<1> QED BY <1>2

\* One call changes: the others keep what they know.
LEMMA CallChanges ==
  ASSUME ClientsInv, NEW k \in Calls, NEW call, calls' = [calls EXCEPT ![k] = call]
  PROVE  \A j \in Calls : calls'[j] = IF j = k THEN call ELSE calls[j]
BY DEF ClientsInv, ClientsTyped

\* No client is registered at first.
LEMMA InitClients == R!Init => ClientsInv
<1> SUFFICES ASSUME R!Init PROVE ClientsInv
  OBVIOUS
<1>1. ClientsTyped
  BY ClientsAssumption DEF R!Init, ClientsTyped, R!TypeOK, R!Stored, R!RegistrationAssumption
<1> QED BY <1>1 DEF R!Init, ClientsInv, SecretsAreOwn, CallsFit, HashStands, RecordsAreRegular, R!Stored

\* A step that begins a call: what it holds, it read now.
LEMMA BeginsClients ==
  ASSUME ClientsInv, NEW k \in Calls, NEW c \in Clients,
         \/ R!StartRotation(k, c)
         \/ R!StartUpdate(k, c)
         \/ R!StartCheck(k, c)
  PROVE  ClientsInv'
<1>1. PICK op \in {"rotate", "update", "authenticate"}, secret \in {R!NoSecret} \cup R!Secrets,
          method \in R!Methods :
        /\ R!Begin(k, op, c, secret, method)
        /\ drawn' \in 0..MaxSecrets /\ drawn <= drawn'
        /\ op = "rotate" => secret = drawn' /\ drawn' = drawn + 1 /\ clients[c].hash # R!NoSecret
        /\ op = "authenticate" => (method = "none" => secret = R!NoSecret)
  <2>1. drawn \in 0..MaxSecrets /\ MaxSecrets \in Nat
    BY ClientsAssumption DEF ClientsInv, ClientsTyped, R!TypeOK, R!RegistrationAssumption
  <2>2. R!Stored(c) => clients[c].metadata.method \in R!Methods
    BY DEF ClientsInv, ClientsTyped, R!TypeOK, R!Record, R!Metadata
  <2>3. CASE R!StartRotation(k, c)
    <3>1. R!Begin(k, "rotate", c, drawn + 1, clients[c].metadata.method)
      BY <2>3 DEF R!StartRotation
    <3>2. drawn + 1 \in R!Secrets /\ drawn' = drawn + 1 /\ clients[c].hash # R!NoSecret /\ R!Stored(c)
      BY <2>1, <2>3 DEF R!StartRotation, R!Secrets, R!Draw
    <3> QED BY <2>1, <2>2, <3>1, <3>2 DEF R!Secrets
  <2>4. CASE R!StartUpdate(k, c)
    <3>1. R!Begin(k, "update", c, R!NoSecret, clients[c].metadata.method) /\ R!Stored(c) /\ drawn' = drawn
      BY <2>4 DEF R!StartUpdate
    <3> QED BY <2>1, <2>2, <3>1
  <2>5. CASE R!StartCheck(k, c)
    <3>1. PICK secret \in {R!NoSecret} \cup 1..drawn, method \in R!Methods :
            (method = "none") = (secret = R!NoSecret) /\ R!Begin(k, "authenticate", c, secret, method)
      BY <2>5 DEF R!StartCheck
    <3>2. drawn' = drawn /\ secret \in {R!NoSecret} \cup R!Secrets
      BY <2>1, <2>5 DEF R!StartCheck, R!Secrets
    <3> QED BY <2>1, <3>1, <3>2
  <2> QED BY <2>3, <2>4, <2>5
<1> DEFINE call == [ op |-> op, client |-> c, seen |-> clients[c], secret |-> secret, method |-> method,
                     known |-> R!Dead \ {R!NoSecret} ]
<1>2. /\ R!Stored(c) /\ calls[k] = Idle /\ calls' = [calls EXCEPT ![k] = call]
      /\ UNCHANGED <<clients, clock, given, replaced, deleted, lost, edited, passed>>
  BY <1>1 DEF R!Begin
<1>3. \A j \in Calls : calls'[j] = IF j = k THEN call ELSE calls[j]
  BY <1>2, CallChanges
<1>4. R!Dead \ {R!NoSecret} \subseteq R!Secrets
  <2>1. replaced \subseteq R!Secrets
    BY DEF ClientsInv, ClientsTyped, R!TypeOK
  <2>2. \A d \in Clients : R!Stored(d) => clients[d].hash \in {R!NoSecret} \cup R!Secrets
    BY DEF ClientsInv, ClientsTyped, R!TypeOK, R!Record
  <2> QED BY <2>1, <2>2 DEF R!Dead
<1>5. call \in R!Call /\ clients[c] \in R!Record
  BY <1>1, <1>2, <1>4 DEF R!Call, ClientsInv, ClientsTyped, R!TypeOK
<1>6. CheckFits(k)'
  <2>1. SUFFICES ASSUME op = "authenticate", c \notin lost, secret \in R!Dead, secret # R!NoSecret,
                        clients[c].hash = secret
                 PROVE  R!HasExpired(clients[c], clock)
    BY <1>1, <1>2, <1>3 DEF CheckFits, R!HasExpired
  <2>2. secret \notin replaced
    BY <1>2, <2>1 DEF ClientsInv, HashStands
  <2>3. PICK d \in Clients : R!Stored(d) /\ R!HasExpired(clients[d], clock) /\ clients[d].hash = secret
    BY <2>1, <2>2 DEF R!Dead
  <2>4. secret \in given[c] \cap given[d]
    BY <1>2, <2>1, <2>3 DEF ClientsInv, SecretsAreOwn, HashesOf
  <2> QED BY <2>3, <2>4 DEF ClientsInv, SecretsAreOwn
<1>7. RotationFits(k)'
  <2>1. SUFFICES ASSUME op = "rotate"
                 PROVE  /\ secret \in 1..drawn' /\ \A d \in Clients : secret \notin given[d]
                        /\ \A j \in Calls \ {k} : calls[j] # Idle /\ calls[j].op = "rotate" => calls[j].secret # secret
    BY <1>1, <1>2, <1>3 DEF RotationFits
  <2>2. drawn \in Nat /\ secret = drawn + 1 /\ drawn' = drawn + 1
    BY <1>1, <2>1 DEF ClientsInv, ClientsTyped, R!TypeOK
  <2>3. \A d \in Clients : given[d] \subseteq 1..drawn
    BY DEF ClientsInv, SecretsAreOwn
  <2>4. \A j \in Calls : calls[j] # Idle /\ calls[j].op = "rotate" => calls[j].secret \in 1..drawn
    BY DEF ClientsInv, CallsFit, RotationFits
  <2> QED BY <2>2, <2>3, <2>4
<1>8. ASSUME NEW j \in Calls \ {k}, calls[j] # Idle PROVE RotationFits(j)'
  <2>1. SUFFICES ASSUME calls[j].op = "rotate"
                 PROVE  RotationFits(j)'
    BY <1>3 DEF RotationFits
  <2>2. calls[j].secret \in 1..drawn /\ drawn \in Nat /\ drawn' \in Nat /\ drawn <= drawn'
    BY <1>1, <1>8, <2>1 DEF ClientsInv, ClientsTyped, R!TypeOK, CallsFit, RotationFits
  <2>3. \A i \in Calls \ {j} : calls'[i] # Idle /\ calls'[i].op = "rotate" => calls'[i].secret # calls[j].secret
    BY <1>1, <1>3, <1>8, <2>1, <2>2 DEF ClientsInv, CallsFit, RotationFits
  <2> QED BY <1>2, <1>3, <1>8, <2>1, <2>2, <2>3 DEF ClientsInv, CallsFit, RotationFits
<1>9. ClientsTyped'
  BY <1>1, <1>2, <1>3, <1>5 DEF ClientsInv, ClientsTyped, R!TypeOK, R!Stored
<1>10. SecretsAreOwn'
  <2>1. drawn \in Nat /\ drawn' \in Nat /\ drawn <= drawn'
    BY <1>1 DEF ClientsInv, ClientsTyped, R!TypeOK
  <2> QED BY <1>2, <2>1 DEF ClientsInv, SecretsAreOwn, HashesOf, R!Stored
<1>11. CallsFit'
  <2> SUFFICES ASSUME NEW j \in Calls, calls'[j] # Idle
               PROVE  ReadFits(j)' /\ RotationFits(j)' /\ CheckFits(j)'
    BY DEF CallsFit
  <2>1. CASE j = k
    BY <1>2, <1>3, <1>6, <1>7, <2>1 DEF ClientsInv, SecretsAreOwn, ReadFits, HashesOf, R!Stored
  <2>2. CASE j # k
    BY <1>2, <1>3, <1>8, <2>2 DEF ClientsInv, CallsFit, CheckFits, ReadFits, HashesOf, R!HasExpired
  <2> QED BY <2>1, <2>2
<1>12. RecordsAreRegular'
  BY <1>2, <1>3 DEF ClientsInv, RecordsAreRegular, R!Stored
<1>13. HashStands' /\ passed' = {}
  BY <1>2 DEF ClientsInv, HashStands, R!Stored
<1> QED BY <1>9, <1>10, <1>11, <1>12, <1>13 DEF ClientsInv

\* A call that ends gives away no secret but its own, and the others keep what they know.
LEMMA EndsClients ==
  ASSUME ClientsInv, NEW k \in Calls, calls[k] # Idle, R!Ended(k),
         UNCHANGED <<drawn, clock>>, lost \subseteq lost',
         \A c \in Clients :
           \/ given'[c] = given[c]
           \/ calls[k].op = "rotate" /\ given'[c] = given[c] \cup {calls[k].secret}
  PROVE  CallsFit' /\ calls' \in [Calls -> R!Call \cup {Idle}]
<1>1. \A j \in Calls : calls'[j] = IF j = k THEN Idle ELSE calls[j]
  BY CallChanges DEF R!Ended
<1>2. calls' \in [Calls -> R!Call \cup {Idle}]
  BY DEF R!Ended, ClientsInv, ClientsTyped
<1>3. ASSUME NEW j \in Calls, calls'[j] # Idle PROVE ReadFits(j)' /\ RotationFits(j)' /\ CheckFits(j)'
  <2>1. j # k /\ calls'[j] = calls[j] /\ calls[j] # Idle
    BY <1>1, <1>3
  <2>2. ReadFits(j) /\ RotationFits(j) /\ CheckFits(j) /\ RotationFits(k)
    BY <2>1 DEF ClientsInv, CallsFit
  <2>3. calls[j].client \in Clients
    BY <2>1 DEF ClientsInv, ClientsTyped, R!Call
  <2>4. ReadFits(j)'
    BY <2>1, <2>2, <2>3 DEF ReadFits, HashesOf
  <2>5. RotationFits(j)'
    <3>1. SUFFICES ASSUME calls[j].op = "rotate" PROVE RotationFits(j)'
      BY <2>1 DEF RotationFits
    <3>2. \A c \in Clients : calls[j].secret \notin given'[c]
      BY <2>1, <2>2, <3>1 DEF RotationFits
    <3> QED BY <1>1, <2>1, <2>2, <3>1, <3>2 DEF RotationFits
  <2>6. CheckFits(j)'
    BY <2>1, <2>2 DEF CheckFits, R!HasExpired
  <2> QED BY <2>4, <2>5, <2>6
<1> QED BY <1>2, <1>3 DEF CallsFit

\* A registration: the rules hold of what it writes, and its secret is new.
LEMMA RegisterClients ==
  ASSUME ClientsInv, NEW c \in Clients, R!Register(c)
  PROVE  ClientsInv'
<1>1. PICK body \in Bodies, by \in {"admin", "dynamic"} : \E metadata \in R!Accepted(body, by) :
        LET public == metadata.method = "none"
            record == [ metadata |-> metadata, by |-> by, expires |-> R!Expiry(by),
                        hash |-> IF public THEN R!NoSecret ELSE drawn + 1 ] IN
          /\ R!FitsSchema(record)
          /\ clients' = [clients EXCEPT ![c] = record]
          /\ IF public
             THEN UNCHANGED <<drawn, given>>
             ELSE R!Draw /\ drawn < MaxSecrets /\ given' = [given EXCEPT ![c] = {drawn + 1}]
  BY DEF R!Register
<1>2. PICK metadata \in R!Accepted(body, by) :
        LET public == metadata.method = "none"
            record == [ metadata |-> metadata, by |-> by, expires |-> R!Expiry(by),
                        hash |-> IF public THEN R!NoSecret ELSE drawn + 1 ] IN
          /\ R!FitsSchema(record)
          /\ clients' = [clients EXCEPT ![c] = record]
          /\ IF public
             THEN UNCHANGED <<drawn, given>>
             ELSE R!Draw /\ drawn < MaxSecrets /\ given' = [given EXCEPT ![c] = {drawn + 1}]
  BY <1>1
<1> DEFINE hash == IF metadata.method = "none" THEN R!NoSecret ELSE drawn + 1
           record == [ metadata |-> metadata, by |-> by, expires |-> R!Expiry(by), hash |-> hash ]
           added == IF metadata.method = "none" THEN {} ELSE {drawn + 1}
<1>3. /\ R!FitsSchema(record) /\ clients' = [clients EXCEPT ![c] = record]
      /\ given[c] = {} /\ ~R!Stored(c)
      /\ UNCHANGED <<calls, clock, replaced, deleted, lost, edited, passed>>
  BY <1>2 DEF R!Register, R!Settled
<1>4. /\ drawn \in Nat /\ drawn' \in 0..MaxSecrets /\ drawn' \in Nat /\ drawn <= drawn'
      /\ added \subseteq 1..drawn' /\ added \in SUBSET R!Secrets
      /\ \A s \in added : s > drawn
      /\ hash \in added \cup {R!NoSecret} /\ hash \in {R!NoSecret} \cup R!Secrets
      /\ given' = [given EXCEPT ![c] = added]
  <2>1. drawn \in 0..MaxSecrets /\ MaxSecrets \in Nat /\ given \in [Clients -> SUBSET R!Secrets]
    BY ClientsAssumption DEF ClientsInv, ClientsTyped, R!TypeOK, R!RegistrationAssumption
  <2>2. CASE metadata.method = "none"
    <3>1. drawn' = drawn /\ given' = given
      BY <1>2, <2>2
    <3>2. given = [given EXCEPT ![c] = {}]
      BY <1>3, <2>1
    <3> QED BY <2>1, <2>2, <3>1, <3>2
  <2>3. CASE metadata.method # "none"
    <3>1. drawn' = drawn + 1 /\ drawn < MaxSecrets /\ given' = [given EXCEPT ![c] = {drawn + 1}]
      BY <1>2, <2>3 DEF R!Draw
    <3> QED BY <2>1, <2>3, <3>1 DEF R!Secrets
  <2> QED BY <2>2, <2>3
<1>5. /\ record.hash = hash /\ record.by = by /\ record.metadata = metadata /\ record.expires = R!Expiry(by)
      /\ Regular(record)
  BY <1>3, AcceptedMetadata DEF Regular
<1>6. record \in R!Record
  <2>1. R!Expiry(by) \in 0..(MaxTime + Lifetime + 1)
    BY ClientsAssumption DEF ClientsInv, ClientsTyped, R!TypeOK, R!Expiry, R!Never, R!RegistrationAssumption
  <2> HIDE DEF hash
  <2> QED BY <1>4, <2>1, AcceptedMetadata DEF R!Record
<1>7. Expires(record, added)
  <2>1. SUFFICES ASSUME by = "dynamic", Lifetime > 0 PROVE R!Expiry(by) # R!Never
    BY <1>5 DEF Expires
  <2> QED BY <2>1, ClientsAssumption DEF ClientsInv, ClientsTyped, R!TypeOK, R!Expiry, R!Never,
                                         R!RegistrationAssumption
<1> HIDE DEF record, added, hash
<1>8. /\ \A d \in Clients : clients'[d] = IF d = c THEN record ELSE clients[d]
      /\ \A d \in Clients : given'[d] = IF d = c THEN added ELSE given[d]
      /\ given' \in [Clients -> SUBSET R!Secrets]
  BY <1>3, <1>4 DEF ClientsInv, ClientsTyped, R!TypeOK
<1>9. ClientsTyped'
  BY <1>3, <1>4, <1>6, <1>8 DEF ClientsInv, ClientsTyped, R!TypeOK, R!Stored
<1>10. SecretsAreOwn'
  <2>1. \A d \in Clients : given[d] \subseteq 1..drawn
    BY DEF ClientsInv, SecretsAreOwn
  <2>2. \A d \in Clients : given'[d] \subseteq 1..drawn'
    <3>1. added \subseteq 1..drawn' /\ 1..drawn \subseteq 1..drawn'
      BY <1>4
    <3> QED BY <1>8, <2>1, <3>1
  <2>3. \A d, e \in Clients : d # e => given'[d] \cap given'[e] = {}
    BY <1>4, <1>8, <2>1 DEF ClientsInv, SecretsAreOwn
  <2>4. \A d \in Clients : R!Stored(d)' => clients'[d].hash \in HashesOf(d)'
    BY <1>4, <1>5, <1>8 DEF ClientsInv, SecretsAreOwn, HashesOf, R!Stored
  <2>5. \A s \in replaced' : \E d \in Clients : s \in given'[d]
    BY <1>3, <1>8 DEF ClientsInv, SecretsAreOwn
  <2> QED BY <2>2, <2>3, <2>4, <2>5 DEF SecretsAreOwn
<1>11. CallsFit'
  <2> SUFFICES ASSUME NEW j \in Calls, calls[j] # Idle
               PROVE  ReadFits(j)' /\ RotationFits(j)' /\ CheckFits(j)'
    BY <1>3 DEF CallsFit
  <2>1. ReadFits(j)'
    BY <1>3, <1>8 DEF ClientsInv, ClientsTyped, CallsFit, ReadFits, HashesOf, R!Call
  <2>2. RotationFits(j)'
    BY <1>3, <1>4, <1>8 DEF ClientsInv, CallsFit, RotationFits
  <2>3. CheckFits(j)'
    BY <1>3 DEF ClientsInv, CallsFit, CheckFits, R!HasExpired
  <2> QED BY <2>1, <2>2, <2>3
<1>12. HashStands'
  <2>1. hash \notin replaced
    <3>1. \A s \in replaced : s \in 1..drawn
      BY DEF ClientsInv, SecretsAreOwn
    <3> QED BY <1>4, <3>1 DEF R!NoSecret
  <2> QED BY <1>3, <1>5, <1>8, <2>1 DEF ClientsInv, HashStands, R!Stored
<1>13. RecordsAreRegular' /\ passed' = {}
  BY <1>3, <1>5, <1>7, <1>8 DEF ClientsInv, RecordsAreRegular, R!Stored
<1> QED BY <1>9, <1>10, <1>11, <1>12, <1>13 DEF ClientsInv

\* A deletion takes a record, and the clock moves on: what expired stays so.
LEMMA DeleteOrTickClients ==
  ASSUME ClientsInv, R!Tick \/ \E c \in Clients : R!DeleteClient(c)
  PROVE  ClientsInv'
<1>1. /\ UNCHANGED <<calls, drawn, given, replaced, lost, edited, passed>>
      /\ clock' \in 1..MaxTime /\ clock <= clock'
      /\ \A c \in Clients : clients'[c] = clients[c] \/ clients'[c] = Unregistered
      /\ clients' \in [Clients -> R!Record \cup {Unregistered}]
      /\ deleted' \subseteq Clients
  <2>1. clock \in 1..MaxTime /\ MaxTime \in Nat
    BY ClientsAssumption DEF ClientsInv, ClientsTyped, R!TypeOK, R!RegistrationAssumption
  <2>2. CASE R!Tick
    BY <2>1, <2>2 DEF R!Tick, ClientsInv, ClientsTyped, R!TypeOK
  <2>3. CASE \E c \in Clients : R!DeleteClient(c)
    BY <2>1, <2>3 DEF R!DeleteClient, ClientsInv, ClientsTyped, R!TypeOK
  <2> QED BY <2>2, <2>3
<1>2. \A c \in Clients : R!Stored(c)' => R!Stored(c) /\ clients'[c] = clients[c]
  BY <1>1 DEF R!Stored
<1>3. ClientsTyped'
  BY <1>1, <1>2 DEF ClientsInv, ClientsTyped, R!TypeOK
<1>4. SecretsAreOwn' /\ HashStands' /\ RecordsAreRegular' /\ passed' = {}
  BY <1>1, <1>2 DEF ClientsInv, SecretsAreOwn, HashesOf, HashStands, RecordsAreRegular
<1>5. \A record \in R!Record : R!HasExpired(record, clock) => R!HasExpired(record, clock')
  BY <1>1, ClientsAssumption DEF R!HasExpired, R!Record, ClientsInv, ClientsTyped, R!TypeOK,
                                 R!RegistrationAssumption
<1>6. CallsFit'
  <2> SUFFICES ASSUME NEW j \in Calls, calls[j] # Idle
               PROVE  ReadFits(j)' /\ RotationFits(j)' /\ CheckFits(j)'
    BY <1>1 DEF CallsFit
  <2>1. ReadFits(j)' /\ RotationFits(j)'
    BY <1>1 DEF ClientsInv, CallsFit, ReadFits, RotationFits, HashesOf
  <2>2. calls[j].seen \in R!Record
    BY DEF ClientsInv, ClientsTyped, R!Call
  <2>3. CheckFits(j)'
    BY <1>1, <1>5, <2>2 DEF ClientsInv, CallsFit, CheckFits
  <2> QED BY <2>1, <2>3
<1> QED BY <1>3, <1>4, <1>6 DEF ClientsInv

\* A rotation ends: the secrets it replaces are the ones its owner was given, and the new one
\* is none of them.
LEMMA FinishRotationClients ==
  ASSUME ClientsInv, NEW k \in Calls, R!FinishRotation(k)
  PROVE  ClientsInv'
<1> DEFINE c == calls[k].client
           secret == calls[k].secret
           read == calls[k].seen
<1>1. /\ calls[k] # Idle /\ calls[k].op = "rotate" /\ R!Ended(k)
      /\ UNCHANGED <<drawn, clock, deleted, edited, passed>>
      /\ given' = [given EXCEPT ![c] = @ \cup {secret}]
      /\ replaced' = replaced \cup given[c]
      /\ lost' = lost \cup R!Lost(k)
  BY DEF R!FinishRotation
<1>2. PICK expires \in {R!Never, clock + 1} : clients' = [clients EXCEPT ![c] = R!Rotated(k, expires)]
  BY DEF R!FinishRotation
<1> DEFINE record == R!Rotated(k, expires)
<1>3. /\ calls[k] \in R!Call /\ c \in Clients /\ read \in R!Record
      /\ read # Unregistered /\ read.hash # R!NoSecret /\ read.hash \in given[c]
      /\ secret \in 1..drawn /\ \A d \in Clients : secret \notin given[d]
  BY <1>1 DEF ClientsInv, ClientsTyped, CallsFit, ReadFits, RotationFits, HashesOf, R!Call
<1>4. /\ clock \in Nat /\ drawn \in 0..MaxSecrets /\ drawn \in Nat /\ MaxSecrets \in Nat
      /\ secret \in R!Secrets /\ secret # R!NoSecret
      /\ clock + 1 \in 0..(MaxTime + Lifetime + 1) /\ R!Never \in 0..(MaxTime + Lifetime + 1)
  BY <1>3, ClientsAssumption DEF ClientsInv, ClientsTyped, R!TypeOK, R!RegistrationAssumption, R!Secrets,
                                  R!NoSecret, R!Never
<1>5. /\ record \in R!Record /\ record.hash = secret /\ record.metadata = read.metadata /\ record.by = read.by
  <2>1. record = [ read EXCEPT !.hash = secret, !.expires = expires ]
    BY DEF R!Rotated
  <2>2. expires \in 0..(MaxTime + Lifetime + 1)
    BY <1>2, <1>4
  <2> HIDE DEF record, secret, read
  <2> QED BY <1>3, <1>4, <2>1, <2>2 DEF R!Record
<1> HIDE DEF record
<1>6. /\ \A d \in Clients : clients'[d] = IF d = c THEN record ELSE clients[d]
      /\ \A d \in Clients : given'[d] = IF d = c THEN given[c] \cup {secret} ELSE given[d]
      /\ given' \in [Clients -> SUBSET R!Secrets]
      /\ clients' \in [Clients -> R!Record \cup {Unregistered}]
  BY <1>1, <1>2, <1>3, <1>4, <1>5 DEF ClientsInv, ClientsTyped, R!TypeOK, record
<1>7. lost \subseteq lost' /\ lost' \subseteq Clients
  BY <1>1, <1>3 DEF R!Lost, ClientsInv, ClientsTyped, R!TypeOK
<1>8. CallsFit' /\ calls' \in [Calls -> R!Call \cup {Idle}]
  <2>1. \A d \in Clients :
          \/ given'[d] = given[d]
          \/ calls[k].op = "rotate" /\ given'[d] = given[d] \cup {calls[k].secret}
    BY <1>1, <1>6
  <2> QED BY <1>1, <1>7, <2>1, EndsClients
<1>9. ClientsTyped'
  <2>1. \A d \in Clients : R!Stored(d)' => clients'[d] \in R!Record
    BY <1>5, <1>6 DEF ClientsInv, ClientsTyped, R!Stored, R!TypeOK
  <2>2. \A j \in Calls : calls'[j] # Idle => calls'[j] \in R!Call
    BY <1>8
  <2>3. replaced' \subseteq R!Secrets
    BY <1>1, <1>3 DEF ClientsInv, ClientsTyped, R!TypeOK
  <2> QED BY <1>1, <1>6, <1>7, <1>8, <2>1, <2>2, <2>3 DEF ClientsInv, ClientsTyped, R!TypeOK
<1>10. SecretsAreOwn'
  <2>1. \A d \in Clients : given'[d] \subseteq 1..drawn'
    BY <1>1, <1>3, <1>6 DEF ClientsInv, SecretsAreOwn
  <2>2. \A d, e \in Clients : d # e => given'[d] \cap given'[e] = {}
    BY <1>3, <1>6 DEF ClientsInv, SecretsAreOwn
  <2>3. \A d \in Clients : R!Stored(d)' => clients'[d].hash \in HashesOf(d)'
    BY <1>5, <1>6 DEF ClientsInv, SecretsAreOwn, HashesOf, R!Stored
  <2>4. \A s \in replaced' : \E d \in Clients : s \in given'[d]
    BY <1>1, <1>3, <1>6 DEF ClientsInv, SecretsAreOwn
  <2> QED BY <2>1, <2>2, <2>3, <2>4 DEF SecretsAreOwn
<1>11. HashStands'
  <2> SUFFICES ASSUME NEW d \in Clients \ lost', R!Stored(d)'
               PROVE  clients'[d].hash \notin replaced'
    BY DEF HashStands
  <2>1. secret \notin replaced'
    BY <1>1, <1>3 DEF ClientsInv, SecretsAreOwn
  <2>2. ASSUME d # c PROVE clients[d].hash \notin replaced'
    <3>1. R!Stored(d) /\ d \notin lost
      BY <1>6, <1>7, <2>2 DEF R!Stored
    <3>2. clients[d].hash \notin replaced /\ clients[d].hash \in HashesOf(d)
      BY <3>1 DEF ClientsInv, HashStands, SecretsAreOwn
    <3>3. R!NoSecret \notin given[c] /\ given[c] \cap given[d] = {}
      BY <1>3, <1>4, <2>2 DEF ClientsInv, SecretsAreOwn, R!NoSecret
    <3> QED BY <1>1, <3>2, <3>3 DEF HashesOf
  <2> QED BY <1>5, <1>6, <2>1, <2>2
<1>12. RecordsAreRegular'
  <2>1. c \notin edited => Regular(record)
    BY <1>1, <1>3, <1>4, <1>5 DEF ClientsInv, RecordsAreRegular, Regular, R!FitsSchema
  <2>2. Cardinality(given'[c]) # 1
    <3>1. given[c] \in SUBSET (1..drawn) /\ given[c] # {}
      BY <1>3 DEF ClientsInv, SecretsAreOwn
    <3>2. Cardinality(given[c] \cup {secret}) # 1
      BY <1>3, <1>4, <3>1, OneMore
    <3> QED BY <1>3, <1>6, <3>2
  <2>3. \A d \in Clients \ edited' : R!Stored(d)' => Regular(clients'[d]) /\ Expires(clients'[d], given'[d])
    BY <1>1, <1>3, <1>6, <2>1, <2>2 DEF ClientsInv, RecordsAreRegular, Expires, R!Stored
  <2>4. \A j \in Calls : calls'[j] # Idle => calls[j] # Idle /\ calls'[j] = calls[j]
    BY <1>1, CallChanges DEF R!Ended
  <2> QED BY <1>1, <2>3, <2>4 DEF ClientsInv, RecordsAreRegular
<1> QED BY <1>1, <1>8, <1>9, <1>10, <1>11, <1>12 DEF ClientsInv

\* An administrator's update ends: it writes the hash it read, over no change it never read
\* or the client is known to be overwritten.
LEMMA FinishUpdateClients ==
  ASSUME ClientsInv, NEW k \in Calls, R!FinishUpdate(k)
  PROVE  ClientsInv'
<1> DEFINE c == calls[k].client
           read == calls[k].seen
<1>1. /\ calls[k] # Idle /\ R!Ended(k)
      /\ UNCHANGED <<drawn, clock, given, replaced, deleted, passed>>
      /\ lost' = lost \cup R!Lost(k)
      /\ edited' = edited \cup {c}
  BY DEF R!FinishUpdate
<1>2. PICK metadata \in Bodies : clients' = [clients EXCEPT ![c] = [ read EXCEPT !.metadata = metadata ]]
  BY DEF R!FinishUpdate
<1> DEFINE record == [ read EXCEPT !.metadata = metadata ]
<1>3. /\ calls[k] \in R!Call /\ c \in Clients /\ read \in R!Record
      /\ read # Unregistered /\ read.hash \in HashesOf(c)
  BY <1>1 DEF ClientsInv, ClientsTyped, CallsFit, ReadFits, R!Call
<1>4. record \in R!Record /\ record.hash = read.hash
  <2>1. metadata \in R!Metadata
    BY ClientsAssumption DEF R!RegistrationAssumption
  <2> HIDE DEF read
  <2> QED BY <1>3, <2>1 DEF R!Record
<1>5. clients' = [clients EXCEPT ![c] = record]
  BY <1>2
<1> HIDE DEF record
<1>6. /\ \A d \in Clients : clients'[d] = IF d = c THEN record ELSE clients[d]
      /\ clients' \in [Clients -> R!Record \cup {Unregistered}]
  BY <1>3, <1>4, <1>5 DEF ClientsInv, ClientsTyped
<1>7. lost \subseteq lost' /\ lost' \subseteq Clients
  BY <1>1, <1>3 DEF R!Lost, ClientsInv, ClientsTyped, R!TypeOK
<1>8. CallsFit' /\ calls' \in [Calls -> R!Call \cup {Idle}]
  BY <1>1, <1>7, EndsClients
<1>9. ClientsTyped'
  <2>1. \A d \in Clients : R!Stored(d)' => clients'[d] \in R!Record
    BY <1>4, <1>6 DEF ClientsInv, ClientsTyped, R!Stored, R!TypeOK
  <2>2. \A j \in Calls : calls'[j] # Idle => calls'[j] \in R!Call
    BY <1>8
  <2> QED BY <1>1, <1>3, <1>6, <1>7, <1>8, <2>1, <2>2 DEF ClientsInv, ClientsTyped, R!TypeOK
<1>10. SecretsAreOwn'
  BY <1>1, <1>3, <1>4, <1>6 DEF ClientsInv, SecretsAreOwn, HashesOf, R!Stored
<1>11. HashStands'
  <2> SUFFICES ASSUME NEW d \in Clients \ lost', R!Stored(d)'
               PROVE  clients'[d].hash \notin replaced
    BY <1>1 DEF HashStands
  <2>1. CASE d = c
    <3>1. clients[c] = read /\ c \notin lost
      BY <1>1, <1>7, <2>1 DEF R!Lost
    <3> QED BY <1>3, <1>4, <1>6, <2>1, <3>1 DEF ClientsInv, HashStands, R!Stored
  <2>2. CASE d # c
    BY <1>6, <1>7, <2>2 DEF ClientsInv, HashStands, R!Stored
  <2> QED BY <2>1, <2>2
<1>12. RecordsAreRegular'
  <2>1. \A j \in Calls : calls'[j] # Idle => calls[j] # Idle /\ calls'[j] = calls[j]
    BY <1>1, CallChanges DEF R!Ended
  <2> QED BY <1>1, <1>6, <2>1 DEF ClientsInv, RecordsAreRegular, R!Stored
<1> QED BY <1>1, <1>8, <1>9, <1>10, <1>11, <1>12 DEF ClientsInv

\* A check ends: a secret that was dead when it began is not the hash of a record that stands.
LEMMA FinishCheckClients ==
  ASSUME ClientsInv, NEW k \in Calls, R!FinishCheck(k)
  PROVE  ClientsInv'
<1>1. /\ calls[k] # Idle /\ calls[k].op = "authenticate" /\ R!Ended(k)
      /\ passed' = IF R!Authenticates(calls[k].seen, calls[k]) /\ calls[k].client \notin lost
                   THEN passed \cup ({calls[k].secret} \cap calls[k].known)
                   ELSE passed
      /\ UNCHANGED <<clients, drawn, clock, given, replaced, deleted, lost, edited>>
  BY DEF R!FinishCheck
<1>2. CallsFit' /\ calls' \in [Calls -> R!Call \cup {Idle}]
  BY <1>1, EndsClients
<1>3. passed' = {}
  <2> SUFFICES ASSUME R!Authenticates(calls[k].seen, calls[k]), calls[k].client \notin lost,
                      calls[k].secret \in calls[k].known
               PROVE  FALSE
    BY <1>1 DEF ClientsInv
  <2>1. CheckFits(k)
    BY <1>1 DEF ClientsInv, CallsFit
  <2>2. calls[k].secret # R!NoSecret
    BY <1>1 DEF ClientsInv, ClientsTyped, R!Call, R!Secrets, R!NoSecret
  <2>3. R!Verifies(calls[k].seen, calls[k].secret, clock)
    BY <1>1, <2>1, <2>2 DEF CheckFits, R!Authenticates
  <2> QED BY <1>1, <2>1, <2>3 DEF CheckFits, R!Verifies
<1>4. \A j \in Calls : calls'[j] # Idle => calls[j] # Idle /\ calls'[j] = calls[j]
  BY <1>1, CallChanges DEF R!Ended
<1>5. ClientsTyped'
  BY <1>1, <1>2, <1>3, <1>4 DEF ClientsInv, ClientsTyped, R!TypeOK, R!Stored
<1>6. SecretsAreOwn' /\ HashStands' /\ RecordsAreRegular'
  BY <1>1, <1>4 DEF ClientsInv, SecretsAreOwn, HashesOf, HashStands, RecordsAreRegular, R!Stored
<1> QED BY <1>2, <1>3, <1>5, <1>6 DEF ClientsInv

\* Every step keeps the invariant.
LEMMA ClientsInvariance == ClientsInv /\ [R!Next]_(R!vars) => ClientsInv'
<1> SUFFICES ASSUME ClientsInv, [R!Next]_(R!vars) PROVE ClientsInv'
  OBVIOUS
<1>1. CASE \E c \in Clients : R!Register(c) \/ R!DeleteClient(c)
  BY <1>1, RegisterClients, DeleteOrTickClients
<1>2. CASE \E k \in Calls : \E c \in Clients :
             R!StartRotation(k, c) \/ R!StartUpdate(k, c) \/ R!StartCheck(k, c)
  BY <1>2, BeginsClients
<1>3. CASE \E k \in Calls : R!FinishRotation(k) \/ R!FinishUpdate(k) \/ R!FinishCheck(k)
  BY <1>3, FinishRotationClients, FinishUpdateClients, FinishCheckClients
<1>4. CASE R!Tick
  BY <1>4, DeleteOrTickClients
<1>5. CASE UNCHANGED R!vars
  BY <1>5 DEF R!vars, ClientsInv, ClientsTyped, R!TypeOK, R!Stored, SecretsAreOwn, HashesOf, CallsFit,
              ReadFits, RotationFits, CheckFits, R!HasExpired, HashStands, RecordsAreRegular
<1> QED BY <1>1, <1>2, <1>3, <1>4, <1>5 DEF R!Next

\* A client of the registration endpoint that no administrator changed is what the server made
\* of its request, and a secret that a rotation replaced, or that expired, passes no later
\* check of a record that nobody overwrote unread: for any number of clients, calls, secrets
\* and moments (registerClient, rotateSecret and authenticateClient).
THEOREM RegisteredAsAsked == R!Spec => []ClientsAreAsRegistered
<1>1. ClientsInv => ClientsAreAsRegistered
  <2> SUFFICES ASSUME ClientsInv PROVE ClientsAreAsRegistered
    OBVIOUS
  <2>1. R!DynamicClientsHoldNoPrivilege
    BY CardinalityOfR DEF ClientsInv, RecordsAreRegular, Regular, Expires, R!DynamicClientsHoldNoPrivilege
  <2>2. R!TypeOK /\ R!DeadSecretsFail
    BY DEF ClientsInv, ClientsTyped, R!DeadSecretsFail
  <2> QED BY <2>1, <2>2 DEF ClientsAreAsRegistered, R!ClientsAreAsRegistered
<1>2. R!Spec => []ClientsInv
  BY InitClients, ClientsInvariance, PTL DEF R!Spec
<1> QED BY <1>1, <1>2, PTL
-----------------------------------------------------------------------------
(* The passkeys.  Who drives a flow as far as a registration is the owner  *)
(* of its identity, who registers a key of its own; and the credential     *)
(* that waits for its confirmation is the one a signature answers for.     *)

\* What a state collected, its driver registered, for an identity of its own.
StateFits(state) ==
  /\ state \in [ dance : Dances, checked : BOOLEAN, records : Seq(P!Record) ]
  /\ Len(state.records) <= 1
  /\ FlowOf[state.dance] = "sign-in" => state.records = <<>>
  /\ FlowOf[state.dance] = "rotate" /\ state.records # <<>> => state.checked
  /\ state.checked \/ state.records # <<>> => DriverOf[state.dance] = OwnerOf[state.dance]
  /\ state.records # <<>> =>
       ~state.records[1].confirmed /\ HolderOf[state.records[1].key] = DriverOf[state.dance]

PasskeysInv ==
  /\ \A state \in held : StateFits(state)
  /\ P!Enrolled(homes)
  /\ kv \in [Dances -> {"webauthn.get", "webauthn.create", NoCeremony}]
  /\ P!ConfirmedByItself /\ P!SignInsAreTheOwners /\ P!CeremonyIsAskedFor

\* The records of two lists.
LEMMA RecordsInBoth ==
  ASSUME NEW s \in Seq(P!Record), NEW t \in Seq(P!Record)
  PROVE  P!RecordsIn(s \o t) = P!RecordsIn(s) \cup P!RecordsIn(t)
<1>1. /\ s \o t \in Seq(P!Record) /\ Len(s \o t) = Len(s) + Len(t)
      /\ \A n \in 1..Len(s) + Len(t) : (s \o t)[n] = IF n <= Len(s) THEN s[n] ELSE t[n - Len(s)]
  BY ConcatProperties
<1>2. Len(s) \in Nat /\ Len(t) \in Nat /\ DOMAIN s = 1..Len(s) /\ DOMAIN t = 1..Len(t)
      /\ DOMAIN (s \o t) = 1..(Len(s) + Len(t))
  BY <1>1, LenProperties
<1> SUFFICES ASSUME NEW r
             PROVE  r \in P!RecordsIn(s \o t) <=> r \in P!RecordsIn(s) \cup P!RecordsIn(t)
  OBVIOUS
<1>3. ASSUME r \in P!RecordsIn(s \o t) PROVE r \in P!RecordsIn(s) \cup P!RecordsIn(t)
  <2>1. PICK n \in 1..(Len(s) + Len(t)) : r = (s \o t)[n]
    BY <1>2, <1>3 DEF P!RecordsIn
  <2>2. CASE n <= Len(s)
    BY <1>1, <1>2, <2>1, <2>2 DEF P!RecordsIn
  <2>3. CASE ~(n <= Len(s))
    <3>1. n - Len(s) \in DOMAIN t /\ r = t[n - Len(s)]
      BY <1>1, <1>2, <2>1, <2>3
    <3> QED BY <3>1 DEF P!RecordsIn
  <2> QED BY <2>2, <2>3
<1>4. ASSUME r \in P!RecordsIn(s) PROVE r \in P!RecordsIn(s \o t)
  <2>1. PICK n \in 1..Len(s) : r = s[n]
    BY <1>2, <1>4 DEF P!RecordsIn
  <2>2. n \in DOMAIN (s \o t) /\ r = (s \o t)[n]
    BY <1>1, <1>2, <2>1
  <2> QED BY <2>2 DEF P!RecordsIn
<1>5. ASSUME r \in P!RecordsIn(t) PROVE r \in P!RecordsIn(s \o t)
  <2>1. PICK n \in 1..Len(t) : r = t[n]
    BY <1>2, <1>5 DEF P!RecordsIn
  <2>2. Len(s) + n \in DOMAIN (s \o t) /\ r = (s \o t)[Len(s) + n]
    BY <1>1, <1>2, <2>1
  <2> QED BY <2>2 DEF P!RecordsIn
<1> QED BY <1>3, <1>4, <1>5

\* A verification takes a credential of the context, which the driver signs with.
LEMMA TakenIsOfTheContext ==
  ASSUME PasskeysInv, NEW state \in held, NEW record, P!Takes(state, record),
         P!WaitsFor(state) # "sign-in"
  PROVE  record \in P!RecordsIn(state.records) \cup P!RecordsIn(homes[OwnerOf[state.dance]])
<1>1. record \in P!RecordsIn(P!Context(state))
  BY DEF P!Takes, P!Allowed
<1>2. OwnerOf[state.dance] \in People
  BY PasskeysAssumption DEF PasskeysInv, StateFits, P!PasskeysAssumption
<1>3. state.records \in Seq(P!Record) /\ homes[OwnerOf[state.dance]] \in Seq(P!Record)
  BY <1>2 DEF PasskeysInv, StateFits, P!Enrolled
<1> QED BY <1>1, <1>3, RecordsInBoth DEF P!Context

\* A state that was handed out holds what its dance may ask for.
LEMMA HandsOut ==
  ASSUME PasskeysInv, NEW state, StateFits(state), P!Hand(state), UNCHANGED <<homes, signedIn, proven>>
  PROVE  PasskeysInv'
<1>1. /\ held' = held \cup {state} /\ state.dance \in Dances
      /\ kv' = [kv EXCEPT ![state.dance] = P!Ceremony(P!WaitsFor(state))]
  BY DEF P!Hand, StateFits
<1>2. kv' \in [Dances -> {"webauthn.get", "webauthn.create", NoCeremony}]
  BY <1>1 DEF PasskeysInv, P!Ceremony
<1>3. P!CeremonyIsAskedFor'
  <2> SUFFICES ASSUME NEW d \in Dances, kv'[d] # NoCeremony
               PROVE  \E s \in held' : s.dance = d /\ kv'[d] = IF P!WaitsFor(s) = "registration"
                                                               THEN "webauthn.create" ELSE "webauthn.get"
    BY DEF P!CeremonyIsAskedFor, P!WaitsFor
  <2>1. CASE d = state.dance
    BY <1>1, <2>1 DEF PasskeysInv, P!Ceremony, P!Signs
  <2>2. CASE d # state.dance
    BY <1>1, <2>2 DEF PasskeysInv, P!CeremonyIsAskedFor
  <2> QED BY <2>1, <2>2
<1>4. P!Enrolled(homes)' /\ P!ConfirmedByItself' /\ P!SignInsAreTheOwners'
  BY DEF PasskeysInv, P!ConfirmedByItself, P!SignInsAreTheOwners
<1>5. \A s \in held' : StateFits(s)'
  BY <1>1 DEF PasskeysInv, StateFits
<1> QED BY <1>2, <1>3, <1>4, <1>5 DEF PasskeysInv

\* The ceremony that waits is taken, or lapses, and no prompt is drawn.
LEMMA Drops ==
  ASSUME PasskeysInv, NEW d \in Dances, kv' = [kv EXCEPT ![d] = NoCeremony], UNCHANGED held
  PROVE  /\ \A s \in held' : StateFits(s)'
         /\ kv' \in [Dances -> {"webauthn.get", "webauthn.create", NoCeremony}]
         /\ P!CeremonyIsAskedFor'
BY DEF PasskeysInv, StateFits, P!CeremonyIsAskedFor, P!WaitsFor

\* No dance was started.
LEMMA InitPasskeys == P!Init => PasskeysInv
BY PasskeysAssumption DEF P!Init, P!PasskeysAssumption, PasskeysInv, P!ConfirmedByItself,
     P!SignInsAreTheOwners, P!CeremonyIsAskedFor

\* A dance starts with nothing collected.
LEMMA StartPasskeys ==
  ASSUME PasskeysInv, NEW d \in Dances, P!Start(d)
  PROVE  PasskeysInv'
<1> DEFINE state == [ dance |-> d, checked |-> FALSE, records |-> <<>> ]
<1>1. P!Hand(state) /\ UNCHANGED <<homes, signedIn, proven>>
  BY DEF P!Start
<1>2. StateFits(state)
  BY DEF StateFits
<1> QED BY <1>1, <1>2, HandsOut

\* The registration of a key: the driver of a dance that registers is the owner.
LEMMA RegisterPasskeys ==
  ASSUME PasskeysInv, NEW state \in held, NEW id \in CredentialIds, NEW key \in Keys,
         NEW verified \in BOOLEAN, P!Register(state, id, key, verified)
  PROVE  PasskeysInv'
<1> DEFINE record == P!Collected(id, key, verified)
           next == [state EXCEPT !.records = <<record>>]
<1>1. /\ P!WaitsFor(state) = "registration" /\ HolderOf[key] = DriverOf[state.dance]
      /\ P!Hand(next) /\ UNCHANGED <<homes, signedIn, proven>>
  BY DEF P!Register
<1>2. StateFits(state)
  BY DEF PasskeysInv
<1>3. FlowOf[state.dance] # "sign-in" /\ (FlowOf[state.dance] = "rotate" => state.checked)
  BY <1>1, <1>2 DEF P!WaitsFor, StateFits
<1>4. DriverOf[state.dance] = OwnerOf[state.dance]
  BY <1>2, <1>3, PasskeysAssumption DEF StateFits, P!PasskeysAssumption
<1>5. record \in P!Record /\ ~record.confirmed /\ record.key = key
  BY DEF P!Collected, P!Record
<1>6. /\ next \in [ dance : Dances, checked : BOOLEAN, records : Seq(P!Record) ]
      /\ next.dance = state.dance /\ next.checked = state.checked /\ next.records = <<record>>
  <2>1. state \in [ dance : Dances, checked : BOOLEAN, records : Seq(P!Record) ]
    BY <1>2 DEF StateFits
  <2>2. <<record>> \in Seq(P!Record)
    BY <1>5
  <2> HIDE DEF record
  <2> QED BY <2>1, <2>2
<1> HIDE DEF record, next
<1>7. StateFits(next)
  BY <1>1, <1>3, <1>4, <1>5, <1>6 DEF StateFits
<1> QED BY <1>1, <1>7, HandsOut

\* A sign-in is of the owner of the record that answered, who holds its key.
LEMMA SignInPasskeys ==
  ASSUME PasskeysInv, NEW state \in held, NEW person \in People, NEW record, P!SignIn(state, person, record)
  PROVE  PasskeysInv'
<1>1. /\ record \in P!RecordsIn(homes[person])
      /\ signedIn' = signedIn \cup {<<person, record.key>>}
      /\ kv' = [kv EXCEPT ![state.dance] = NoCeremony]
      /\ UNCHANGED <<held, homes, proven>>
  BY DEF P!SignIn
<1>2. HolderOf[record.key] = person
  BY <1>1 DEF PasskeysInv, P!Enrolled
<1>3. P!SignInsAreTheOwners'
  BY <1>1, <1>2 DEF PasskeysInv, P!SignInsAreTheOwners
<1>4. P!Enrolled(homes)' /\ P!ConfirmedByItself'
  BY <1>1 DEF PasskeysInv, P!ConfirmedByItself
<1>5. state.dance \in Dances
  BY DEF PasskeysInv, StateFits
<1> QED BY <1>1, <1>3, <1>4, <1>5, Drops DEF PasskeysInv

\* Control of the stored credential: who shows it is its owner.
LEMMA ControlPasskeys ==
  ASSUME PasskeysInv, NEW state \in held, NEW id, NEW key \in Keys, NEW verified, NEW record,
         P!Takes(state, record), P!Verifies(state, record, key, verified), P!WaitsFor(state) = "control",
         P!Hand([state EXCEPT !.checked = TRUE]), UNCHANGED <<homes, signedIn, proven>>
  PROVE  PasskeysInv'
<1> DEFINE next == [state EXCEPT !.checked = TRUE]
<1>1. StateFits(state)
  BY DEF PasskeysInv
<1>2. FlowOf[state.dance] = "rotate" /\ state.records = <<>>
  BY <1>1 DEF P!WaitsFor, StateFits
<1>3. record \in P!RecordsIn(homes[OwnerOf[state.dance]])
  <2>1. P!RecordsIn(<<>>) = {}
    BY DEF P!RecordsIn
  <2> QED BY <1>2, <2>1, TakenIsOfTheContext
<1>4. OwnerOf[state.dance] \in People
  BY <1>1, PasskeysAssumption DEF StateFits, P!PasskeysAssumption
<1>5. HolderOf[record.key] = OwnerOf[state.dance]
  BY <1>3, <1>4 DEF PasskeysInv, P!Enrolled
<1>6. DriverOf[state.dance] = OwnerOf[state.dance]
  BY <1>5 DEF P!Verifies
<1>7. StateFits(next)
  BY <1>1, <1>2, <1>6 DEF StateFits
<1> QED BY <1>7, HandsOut

\* A confirmation: the credential that waits answers alone, and is its owner's.
LEMMA ConfirmPasskeys ==
  ASSUME PasskeysInv, NEW state \in held, NEW key \in Keys, NEW verified, NEW record,
         P!Takes(state, record), P!Verifies(state, record, key, verified),
         P!WaitsFor(state) = "confirmation", P!Confirm(state, record)
  PROVE  PasskeysInv'
<1> DEFINE d == state.dance
           owner == OwnerOf[d]
           collected == state.records[1]
           written == [collected EXCEPT !.confirmed = TRUE]
<1>1. /\ StateFits(state) /\ FlowOf[d] # "sign-in" /\ state.records # <<>>
  BY DEF PasskeysInv, P!WaitsFor, StateFits
<1>2. /\ d \in Dances /\ owner \in People /\ DriverOf[d] = owner
      /\ state.records \in Seq(P!Record) /\ Len(state.records) = 1
      /\ collected \in P!Record /\ ~collected.confirmed /\ HolderOf[collected.key] = owner
  <2>1. d \in Dances /\ owner \in People /\ DriverOf[d] = owner
    BY <1>1, PasskeysAssumption DEF StateFits, P!PasskeysAssumption
  <2>2. state.records \in Seq(P!Record) /\ Len(state.records) = 1
    <3>1. state.records \in Seq(P!Record) /\ Len(state.records) <= 1 /\ state.records # <<>>
      BY <1>1 DEF StateFits
    <3>2. Len(state.records) \in Nat /\ Len(state.records) # 0
      BY <3>1, EmptySeq
    <3>3. \A n \in Nat : n <= 1 /\ n # 0 => n = 1
      OBVIOUS
    <3> QED BY <3>1, <3>2, <3>3, Zenon
  <2>3. collected \in P!Record
    <3>1. 1 \in DOMAIN state.records
      BY <2>2
    <3> QED BY <2>2, <3>1
  <2> QED BY <1>1, <2>1, <2>2, <2>3 DEF StateFits
<1>3. P!RecordsIn(state.records) = {collected}
  BY <1>2 DEF P!RecordsIn
<1>4. record = collected
  <2>1. P!RecordsIn(P!Context(state)) = {collected} \cup P!RecordsIn(homes[owner])
    <3>1. homes[owner] \in Seq(P!Record)
      BY <1>2 DEF PasskeysInv, P!Enrolled
    <3> QED BY <1>2, <1>3, <3>1, RecordsInBoth DEF P!Context
  <2>2. \A r \in P!RecordsIn(homes[owner]) : r.confirmed
    BY <1>2 DEF PasskeysInv, P!Enrolled
  <2>3. { r \in P!RecordsIn(P!Context(state)) : ~r.confirmed } = {collected}
    BY <1>2, <2>1, <2>2
  <2> QED BY <2>3 DEF P!Takes, P!Allowed
<1>5. /\ proven' = proven \cup {<<d, collected.id, collected.key>>}
      /\ P!Write(owner, <<written>>, FlowOf[d] = "enroll")
      /\ kv' = [kv EXCEPT ![d] = NoCeremony]
      /\ UNCHANGED <<held, prompts, signedIn>>
  BY <1>4 DEF P!Confirm
<1>6. /\ written \in P!Record /\ written.confirmed /\ HolderOf[written.key] = owner
      /\ written.id = collected.id /\ written.key = collected.key
  <2> HIDE DEF collected
  <2> QED BY <1>2 DEF P!Record
<1> HIDE DEF written, collected
<1>7. /\ P!RecordsIn(<<written>>) = {written} /\ P!KnownIds(<<written>>) = {written.id}
      /\ <<written>> \in Seq(P!Record) /\ Len(<<written>>) = 1
  BY <1>6 DEF P!RecordsIn, P!KnownIds
<1>8. \/ homes' = homes
      \/ /\ homes' = [homes EXCEPT ![owner] = <<written>>]
         /\ \A other \in People \ {owner} : P!KnownIds(<<written>>) \cap P!KnownIds(homes[other]) = {}
  BY <1>5 DEF P!Write, P!Refuses
<1>9. P!Enrolled(homes)'
  <2>1. CASE homes' = homes
    BY <2>1 DEF PasskeysInv
  <2>2. CASE homes' # homes
    <3>1. \A p \in People : homes'[p] = IF p = owner THEN <<written>> ELSE homes[p]
      BY <1>2, <1>8, <2>2 DEF PasskeysInv, P!Enrolled
    <3>2. homes' \in [People -> Seq(P!Record)]
      BY <1>2, <1>7, <1>8, <2>2 DEF PasskeysInv, P!Enrolled
    <3>3. \A p \in People : Len(homes'[p]) <= 1 /\ \A r \in P!RecordsIn(homes'[p]) : r.confirmed /\ HolderOf[r.key] = p
      <4> SUFFICES ASSUME NEW p \in People
                   PROVE  Len(homes'[p]) <= 1 /\ \A r \in P!RecordsIn(homes'[p]) : r.confirmed /\ HolderOf[r.key] = p
        OBVIOUS
      <4>1. CASE p = owner
        <5>1. homes'[p] = <<written>>
          BY <3>1, <4>1
        <5> QED BY <1>6, <1>7, <4>1, <5>1
      <4>2. CASE p # owner
        BY <3>1, <4>2 DEF PasskeysInv, P!Enrolled
      <4> QED BY <4>1, <4>2
    <3>4. \A p, q \in People : p # q => P!KnownIds(homes'[p]) \cap P!KnownIds(homes'[q]) = {}
      <4>1. \A p, q \in People : p # q => P!KnownIds(homes[p]) \cap P!KnownIds(homes[q]) = {}
        BY DEF PasskeysInv, P!Enrolled
      <4>2. /\ homes'[owner] = <<written>>
            /\ \A other \in People \ {owner} :
                 /\ homes'[other] = homes[other]
                 /\ P!KnownIds(<<written>>) \cap P!KnownIds(homes[other]) = {}
        BY <1>2, <1>8, <2>2, <3>1
      <4> SUFFICES ASSUME NEW p \in People, NEW q \in People, p # q
                   PROVE  P!KnownIds(homes'[p]) \cap P!KnownIds(homes'[q]) = {}
        OBVIOUS
      <4>3. CASE p = owner
        BY <4>2, <4>3
      <4>4. CASE q = owner
        BY <4>2, <4>4
      <4>5. CASE p # owner /\ q # owner
        BY <4>1, <4>2, <4>5
      <4> QED BY <4>3, <4>4, <4>5
    <3> QED BY <3>2, <3>3, <3>4 DEF P!Enrolled
  <2> QED BY <2>1, <2>2
<1>10. P!ConfirmedByItself'
  <2> SUFFICES ASSUME NEW p \in People, NEW r \in P!RecordsIn(homes'[p])
               PROVE  \/ \E home \in Homes : r \in P!RecordsIn(home[p])
                      \/ \E e \in Dances : <<e, r.id, r.key>> \in proven'
    BY DEF P!ConfirmedByItself
  <2>1. CASE r \in P!RecordsIn(homes[p])
    BY <1>5, <2>1 DEF PasskeysInv, P!ConfirmedByItself
  <2>2. CASE r \notin P!RecordsIn(homes[p])
    <3>1. r = written
      BY <1>2, <1>7, <1>8, <2>2 DEF PasskeysInv, P!Enrolled
    <3> QED BY <1>2, <1>5, <1>6, <3>1
  <2> QED BY <2>1, <2>2
<1>11. P!SignInsAreTheOwners'
  BY <1>5 DEF PasskeysInv, P!SignInsAreTheOwners
<1> QED BY <1>2, <1>5, <1>9, <1>10, <1>11, Drops DEF PasskeysInv

\* Every step keeps the invariant.
LEMMA PasskeysInvariance == PasskeysInv /\ [P!Next]_(P!vars) => PasskeysInv'
<1> SUFFICES ASSUME PasskeysInv, [P!Next]_(P!vars) PROVE PasskeysInv'
  OBVIOUS
<1>1. CASE \E d \in Dances : P!Start(d)
  BY <1>1, StartPasskeys
<1>2. CASE \E d \in Dances : P!Lapse(d)
  <2>1. PICK d \in Dances : P!Lapse(d)
    BY <1>2
  <2>2. kv' = [kv EXCEPT ![d] = NoCeremony] /\ UNCHANGED <<held, prompts, homes, signedIn, proven>>
    BY <2>1 DEF P!Lapse
  <2>3. P!Enrolled(homes)' /\ P!ConfirmedByItself' /\ P!SignInsAreTheOwners'
    BY <2>2 DEF PasskeysInv, P!ConfirmedByItself, P!SignInsAreTheOwners
  <2> QED BY <2>2, <2>3, Drops DEF PasskeysInv
<1>3. ASSUME NEW state \in held, NEW id \in CredentialIds, NEW key \in Keys, NEW verified \in BOOLEAN,
             P!Register(state, id, key, verified)
      PROVE  PasskeysInv'
  BY <1>3, RegisterPasskeys
<1>4. ASSUME NEW state \in held, NEW id \in CredentialIds, NEW key \in Keys, NEW verified \in BOOLEAN,
             P!Sign(state, id, key, verified)
      PROVE  PasskeysInv'
  <2>1. PICK record :
          /\ P!Takes(state, record) /\ P!Verifies(state, record, key, verified)
          /\ \/ P!WaitsFor(state) = "sign-in" /\ \E person \in People : P!SignIn(state, person, record)
             \/ /\ P!WaitsFor(state) = "control" /\ P!Hand([state EXCEPT !.checked = TRUE])
                /\ UNCHANGED <<homes, signedIn, proven>>
             \/ P!WaitsFor(state) = "confirmation" /\ P!Confirm(state, record)
    BY <1>4 DEF P!Sign
  <2> QED BY <2>1, SignInPasskeys, ControlPasskeys, ConfirmPasskeys
<1>5. CASE UNCHANGED P!vars
  <2>1. UNCHANGED <<held, kv, prompts, homes, signedIn, proven>>
    BY <1>5 DEF P!vars
  <2>2. P!Enrolled(homes)' /\ P!ConfirmedByItself' /\ P!SignInsAreTheOwners' /\ P!CeremonyIsAskedFor'
    BY <2>1 DEF PasskeysInv, P!ConfirmedByItself, P!SignInsAreTheOwners, P!CeremonyIsAskedFor, P!WaitsFor
  <2> QED BY <2>1, <2>2 DEF PasskeysInv, StateFits
<1> QED BY <1>1, <1>2, <1>3, <1>4, <1>5 DEF P!Next

\* Whatever is registered under whatever id, and whoever holds the session of somebody with
\* a passkey, a sign-in is of the person whose key signed, a stored passkey signed for itself,
\* its id is one owner's, and the ceremony that waits is one a state asks for: for any number
\* of people, keys and dances (getIdentityComponent, verifyPrompt and #allowed).
THEOREM SignaturesAreTheOwners == P!Spec => []PasskeysAreTheOwners
<1>1. PasskeysInv => PasskeysAreTheOwners
  <2> SUFFICES ASSUME PasskeysInv PROVE PasskeysAreTheOwners
    OBVIOUS
  <2>1. P!IdsHaveOneOwner
    BY DEF PasskeysInv, P!Enrolled, P!IdsHaveOneOwner
  <2>2. P!TypeOK
    <3>1. ASSUME NEW state \in held
          PROVE  Len(state.records) <= 1 /\
                 \A n \in DOMAIN state.records : state.records[n] \in P!Record /\ ~state.records[n].confirmed
      <4>1. StateFits(state)
        BY DEF PasskeysInv
      <4>2. state.records \in Seq(P!Record) /\ Len(state.records) <= 1
        BY <4>1 DEF StateFits
      <4>3. \A n \in DOMAIN state.records : n = 1 /\ state.records # <<>>
        BY <4>2
      <4> QED BY <4>1, <4>2, <4>3 DEF StateFits
    <3>2. \A p \in People : Len(homes[p]) <= 1 /\
            \A r \in P!RecordsIn(homes[p]) : r \in P!Record /\ r.confirmed
      <4> SUFFICES ASSUME NEW p \in People
                   PROVE  Len(homes[p]) <= 1 /\ \A r \in P!RecordsIn(homes[p]) : r \in P!Record /\ r.confirmed
        OBVIOUS
      <4>1. homes[p] \in Seq(P!Record)
        BY DEF PasskeysInv, P!Enrolled
      <4>2. \A r \in P!RecordsIn(homes[p]) : r \in P!Record
        BY <4>1 DEF P!RecordsIn
      <4> QED BY <4>2 DEF PasskeysInv, P!Enrolled
    <3> QED BY <3>1, <3>2 DEF PasskeysInv, P!TypeOK
  <2> QED BY <2>1, <2>2 DEF PasskeysInv, PasskeysAreTheOwners, P!PasskeysAreTheOwners
<1>2. P!Spec => []PasskeysInv
  BY InitPasskeys, PasskeysInvariance, PTL DEF P!Spec
<1> QED BY <1>1, <1>2, PTL
-----------------------------------------------------------------------------
(* The tokens.  What createSession wrote of a session does not change, so  *)
(* a token keeps to its session for good, however old it is; and a refresh *)
(* writes the session only with the token that has its new count.          *)

SessionsFit ==
  /\ sessions \in [SessionIds -> T!Session \cup {NoSession}]
  /\ \A s \in SessionIds : sessions[s] # NoSession =>
       /\ sessions[s].expireAt > 0 /\ sessions[s].authTime \in 0..moment
       /\ <<sessions[s].identity, sessions[s].authTime>> \in signIns

\* The issuer itself, or a client registered with the grant of refresh tokens.
MayHoldRefresh(client) == client \in Apps => Profile[client].refreshes

\* The token is of the session it names.
OfItsSession(token) ==
  LET session == sessions[token.sid] IN
  /\ session # NoSession
  /\ token.sub = session.identity /\ token.client = session.client /\ token.authTime = session.authTime
  /\ token.scope \subseteq session.scopes
  /\ token.typ = "rt+jwt" =>
       /\ token.scope = session.scopes /\ token.exp = session.expireAt /\ token.aud = Issuer
       /\ MayHoldRefresh(token.client)

OfItsClient(token) ==
  /\ token.typ = "at+jwt" /\ token.sub = token.client /\ token.client \in Apps
  /\ token.scope \subseteq Profile[token.client].scopes

ClaimsFit(token) ==
  /\ token.typ = "rt+jwt" => token.claims = {}
  /\ \A c \in token.claims :
       /\ c.name \notin Reserved
       /\ \E groups \in T!Answers, scope \in token.scope : c \in groups[scope]
       /\ \A d \in token.claims : c.name = d.name => c = d

TokenFits(token) ==
  /\ token \in T!Token
  /\ token.sid = NoSession <=> token.authTime = NoSession
  /\ token.typ = "at+jwt" => token.exp = token.iat + Access
  /\ IF token.sid = NoSession THEN OfItsClient(token) ELSE OfItsSession(token)
  /\ ClaimsFit(token)

\* The last refresh token of a session that gave any has its count.
LastFits(s) ==
  (\E token \in tokens : token.sid = s /\ token.typ = "rt+jwt") =>
    \E token \in tokens : token.sid = s /\ token.typ = "rt+jwt" /\ token.count = sessions[s].count

KeysFit == keys \in KeyLists /\ T!ValidKeys(keys)

AccessInv ==
  /\ KeysFit /\ SessionsFit
  /\ owners \subseteq Owners /\ members \subseteq Apps /\ moment \in 0..MaxMoment
  /\ ended \cup unexchanged \subseteq { s \in SessionIds : sessions[s] # NoSession }
  /\ \A token \in tokens : TokenFits(token)
  /\ \A s \in SessionIds : LastFits(s)

\* A key for every place of the list.
LEMMA KeysAreDistinct ==
  ASSUME KeysFit
  PROVE  Cardinality(T!Verifiers) = Len(keys)
<1>1. keys \in Seq([ kid : Nat, private : BOOLEAN ])
  BY TokensAssumption DEF KeysFit, T!AccessTokensAssumption
<1>2. Len(keys) \in Nat /\ DOMAIN keys = 1..Len(keys)
  BY <1>1, LenProperties
<1> DEFINE f == [n \in 1..Len(keys) |-> keys[n].kid]
<1>3. \A kid : kid \in T!Verifiers <=> \E n \in 1..Len(keys) : f[n] = kid
  BY <1>2 DEF T!Verifiers, T!KeysIn
<1>4. \A m, n \in 1..Len(keys) : f[m] = f[n] => m = n
  BY <1>2 DEF KeysFit, T!ValidKeys
<1>5. f \in Bijection(1..Len(keys), T!Verifiers)
  <2>1. f \in [1..Len(keys) -> T!Verifiers]
    BY <1>3
  <2> QED BY <1>3, <1>4, <2>1, Fun_IsBij
<1>6. ExistsBijection(1..Len(keys), T!Verifiers)
  BY <1>5, Fun_ExistsBij
<1> QED BY <1>2, <1>6, FS_CountingElements

\* The instance counts as this module does.
LEMMA CardinalityOfT == \A S : T!Cardinality(S) = Cardinality(S)
BY Zenon DEF Cardinality, T!Cardinality

\* What the mint gives: the access token, and a refresh token that has the count of the
\* session as it is written.
LEMMA MintGives ==
  ASSUME AccessInv, NEW options, NEW groups \in T!Answers, NEW token \in T!Mint(options, groups)
  PROVE  LET claims == T!Merged(groups, options.scopes) IN
         /\ ~T!Refused(claims)
         /\ \/ token = [ typ |-> "at+jwt", kid |-> keys[1].kid, sub |-> options.subject, client |-> options.client,
                         sid |-> options.sid, scope |-> options.scopes, aud |-> options.audience,
                         authTime |-> options.authTime, iat |-> moment, exp |-> moment + Access, count |-> 0,
                         claims |-> claims ]
            \/ /\ options.refreshes
               /\ token = [ typ |-> "rt+jwt", kid |-> keys[1].kid, sub |-> options.subject, client |-> options.client,
                            sid |-> options.sid, scope |-> options.granted, aud |-> Issuer,
                            authTime |-> options.authTime, iat |-> moment, exp |-> sessions'[options.sid].expireAt,
                            count |-> sessions'[options.sid].count, claims |-> {} ]
BY DEF T!Mint

\* A mint of a refresh token that does not fail gives one of the written count.
LEMMA MintGivesRefresh ==
  ASSUME NEW options, NEW groups \in T!Answers, T!Mint(options, groups) # {}, options.refreshes
  PROVE  \E token \in T!Mint(options, groups) :
           token.typ = "rt+jwt" /\ token.sid = options.sid /\ token.count = sessions'[options.sid].count
<1> DEFINE token == [ typ |-> "rt+jwt", kid |-> keys[1].kid, sub |-> options.subject, client |-> options.client,
                      sid |-> options.sid, scope |-> options.granted, aud |-> Issuer,
                      authTime |-> options.authTime, iat |-> moment, exp |-> sessions'[options.sid].expireAt,
                      count |-> sessions'[options.sid].count, claims |-> {} ]
<1>1. ~T!Refused(T!Merged(groups, options.scopes))
  BY DEF T!Mint
<1>2. token \in T!Mint(options, groups)
  BY <1>1 DEF T!Mint
<1> QED BY <1>2

\* What a session was created with stays.
Lasting ==
  \A s \in SessionIds : sessions[s] # NoSession =>
    /\ sessions'[s] # NoSession
    /\ sessions'[s].identity = sessions[s].identity /\ sessions'[s].client = sessions[s].client
    /\ sessions'[s].scopes = sessions[s].scopes /\ sessions'[s].expireAt = sessions[s].expireAt
    /\ sessions'[s].authTime = sessions[s].authTime

\* So a token stays what it was.
LEMMA TokensKeep ==
  ASSUME AccessInv, Lasting, NEW token \in tokens
  PROVE  TokenFits(token)'
<1>1. TokenFits(token)
  BY DEF AccessInv
<1>2. token.sid # NoSession => token.sid \in SessionIds
  BY <1>1 DEF TokenFits, T!Token
<1>3. CASE token.sid = NoSession
  BY <1>1, <1>3 DEF TokenFits, OfItsClient
<1>4. CASE token.sid # NoSession
  BY <1>1, <1>2, <1>4 DEF TokenFits, OfItsSession, Lasting
<1> QED BY <1>3, <1>4

\* What is to be said of a token that a mint gave.
LEMMA MintedFits ==
  ASSUME AccessInv, NEW options, NEW groups \in T!Answers, NEW token \in T!Mint(options, groups),
         options.subject \in Owners \cup Apps, options.client \in Apps \cup {Issuer},
         options.sid \in SessionIds \cup {NoSession}, options.audience \in STRING,
         options.scopes \in SUBSET TokenScopes, options.granted \in SUBSET TokenScopes,
         options.authTime \in (0..MaxMoment) \cup {NoSession},
         options.sid = NoSession <=> options.authTime = NoSession,
         options.refreshes => options.sid # NoSession /\ MayHoldRefresh(options.client),
         options.sid # NoSession => sessions'[options.sid] \in T!Session /\ sessions'[options.sid] # NoSession
                                    /\ options.granted = sessions'[options.sid].scopes
                                    /\ options.scopes \subseteq options.granted
                                    /\ options.subject = sessions'[options.sid].identity
                                    /\ options.client = sessions'[options.sid].client
                                    /\ options.authTime = sessions'[options.sid].authTime,
         options.sid = NoSession => options.subject = options.client /\ options.client \in Apps
                                    /\ options.scopes \subseteq Profile[options.client].scopes
  PROVE  TokenFits(token)'
<1> DEFINE claims == T!Merged(groups, options.scopes)
<1>1. ~T!Refused(claims)
  BY MintGives
<1>2. /\ \A c \in claims : \E scope \in options.scopes : c \in groups[scope]
      /\ \A c \in claims : c.name \notin Reserved /\ \A d \in claims : c.name = d.name => c = d
  BY <1>1 DEF T!Merged, T!Refused
<1>3. claims \subseteq UNION { g[scope] : g \in T!Answers, scope \in TokenScopes }
  BY <1>2
<1>4. keys[1].kid \in { key.kid : key \in UNION { T!KeysIn(list) : list \in KeyLists } }
  <2>1. keys \in KeyLists /\ keys \in Seq([ kid : Nat, private : BOOLEAN ]) /\ keys # <<>>
    BY TokensAssumption DEF AccessInv, KeysFit, T!ValidKeys, T!AccessTokensAssumption
  <2>2. 1 \in DOMAIN keys
    BY <2>1, EmptySeq, LenProperties
  <2>3. keys[1] \in T!KeysIn(keys)
    BY <2>2 DEF T!KeysIn
  <2> QED BY <2>1, <2>3
<1>5. /\ moment \in 0..MaxMoment /\ Access \in Nat /\ moment + Access \in Nat /\ Issuer \in STRING
      /\ MaxMoment \in Nat
  BY TokensAssumption DEF AccessInv, T!AccessTokensAssumption
<1> HIDE DEF claims
<1>6. CASE token = [ typ |-> "at+jwt", kid |-> keys[1].kid, sub |-> options.subject, client |-> options.client,
                     sid |-> options.sid, scope |-> options.scopes, aud |-> options.audience,
                     authTime |-> options.authTime, iat |-> moment, exp |-> moment + Access, count |-> 0,
                     claims |-> claims ]
  <2>1. token \in T!Token
    BY <1>3, <1>4, <1>5, <1>6 DEF T!Token, T!Types
  <2>2. ClaimsFit(token)
    BY <1>2, <1>6 DEF ClaimsFit
  <2>3. IF token.sid = NoSession THEN OfItsClient(token)' ELSE OfItsSession(token)'
    BY <1>6 DEF OfItsClient, OfItsSession
  <2>4. ClaimsFit(token)'
    BY <2>2 DEF ClaimsFit
  <2> QED BY <1>6, <2>1, <2>3, <2>4 DEF TokenFits
<1>7. CASE /\ options.refreshes
           /\ token = [ typ |-> "rt+jwt", kid |-> keys[1].kid, sub |-> options.subject, client |-> options.client,
                        sid |-> options.sid, scope |-> options.granted, aud |-> Issuer,
                        authTime |-> options.authTime, iat |-> moment, exp |-> sessions'[options.sid].expireAt,
                        count |-> sessions'[options.sid].count, claims |-> {} ]
  <2>1. sessions'[options.sid].expireAt \in Nat /\ sessions'[options.sid].count \in Nat
    BY <1>7 DEF T!Session
  <2>2. token \in T!Token
    BY <1>4, <1>5, <1>7, <2>1 DEF T!Token, T!Types
  <2>3. OfItsSession(token)' /\ token.sid # NoSession
    BY <1>7 DEF OfItsSession
  <2>4. ClaimsFit(token)'
    BY <1>7 DEF ClaimsFit
  <2> QED BY <1>7, <2>2, <2>3, <2>4 DEF TokenFits
<1> QED BY <1>6, <1>7, MintGives DEF claims

\* A step that neither mints nor writes a session.
LEMMA RestKeeps ==
  ASSUME AccessInv, UNCHANGED <<sessions, tokens, signIns>>, KeysFit',
         owners' \subseteq Owners, members' \subseteq Apps, moment' \in 0..MaxMoment, moment <= moment',
         ended' \cup unexchanged' \subseteq { s \in SessionIds : sessions[s] # NoSession }
  PROVE  AccessInv'
<1>1. SessionsFit'
  <2>1. sessions \in [SessionIds -> T!Session \cup {NoSession}]
    BY DEF AccessInv, SessionsFit
  <2>2. ASSUME NEW s \in SessionIds, sessions[s] # NoSession
        PROVE  /\ sessions[s].expireAt > 0 /\ sessions[s].authTime \in 0..moment'
               /\ <<sessions[s].identity, sessions[s].authTime>> \in signIns
    <3>1. sessions[s].authTime \in 0..moment /\ moment \in Int /\ moment' \in Int
      <4>1. MaxMoment \in Nat
        BY TokensAssumption DEF T!AccessTokensAssumption
      <4>2. moment \in Int /\ moment' \in Int
        BY <4>1 DEF AccessInv
      <4> QED BY <2>2, <4>2 DEF AccessInv, SessionsFit
    <3>2. sessions[s].authTime \in 0..moment'
      BY <3>1
    <3> QED BY <2>2, <3>2 DEF AccessInv, SessionsFit
  <2> QED BY <2>1, <2>2 DEF SessionsFit
<1>2. Lasting
  BY DEF Lasting
<1>3. \A token \in tokens' : TokenFits(token)'
  BY <1>2, TokensKeep
<1>4. \A s \in SessionIds : LastFits(s)'
  BY DEF AccessInv, LastFits
<1> QED BY <1>1, <1>3, <1>4 DEF AccessInv

\* A step that ends sessions which were created.
LEMMA EndsKeep ==
  ASSUME AccessInv, NEW gone, T!Ends(gone), gone \subseteq { s \in SessionIds : sessions[s] # NoSession }
  PROVE  AccessInv'
<1>1. /\ ended' = ended \cup gone
      /\ UNCHANGED <<keys, owners, members, sessions, unexchanged, tokens, moment, signIns>>
  BY DEF T!Ends
<1>2. KeysFit'
  BY <1>1 DEF AccessInv, KeysFit
<1>3. moment' \in 0..MaxMoment /\ moment <= moment'
  BY <1>1 DEF AccessInv
<1> QED BY <1>1, <1>2, <1>3, RestKeeps DEF AccessInv

\* A token that names a session names one that was created.
LEMMA SessionThereIsCreated ==
  ASSUME AccessInv, NEW token \in tokens, T!SessionThere(token)
  PROVE  token.sid \in SessionIds /\ sessions[token.sid] # NoSession
BY DEF AccessInv, TokenFits, T!Token, T!SessionThere, T!Stored

\* The ends of sessions: a reuse, a sign-out and a revocation.
LEMMA EndingsKeep ==
  ASSUME AccessInv, NEW token \in tokens,
         \/ \E caller \in Apps \cup {Issuer} : T!Reuse(caller, token)
         \/ \E others \in BOOLEAN : T!SignOut(token, others)
         \/ \E caller \in Apps : T!Revoke(caller, token)
         \/ \E s \in SessionIds : T!RevokeOwnGrant(token, s)
  PROVE  AccessInv'
<1>1. CASE \E caller \in Apps \cup {Issuer} : T!Reuse(caller, token)
  <2>1. T!SessionThere(token) /\ T!Ends({token.sid})
    BY <1>1 DEF T!Reuse, T!MayRefresh
  <2> QED BY <2>1, SessionThereIsCreated, EndsKeep
<1>2. CASE \E others \in BOOLEAN : T!SignOut(token, others)
  <2>1. PICK others \in BOOLEAN : T!SignOut(token, others)
    BY <1>2
  <2> DEFINE gone == {token.sid} \cup { s \in SessionIds : others /\ T!Stored(s) /\ sessions[s].client = Issuer
                                                         /\ sessions[s].identity = token.sub }
  <2>2. T!SessionThere(token) /\ T!Ends(gone)
    BY <2>1 DEF T!SignOut, T!Unrolled
  <2>3. gone \subseteq { s \in SessionIds : sessions[s] # NoSession }
    BY <2>2, SessionThereIsCreated DEF T!Stored
  <2> QED BY <2>2, <2>3, EndsKeep
<1>3. CASE \E caller \in Apps : T!Revoke(caller, token)
  <2>1. T!SessionThere(token) /\ T!Ends({token.sid})
    BY <1>3 DEF T!Revoke, T!Revokes
  <2> QED BY <2>1, SessionThereIsCreated, EndsKeep
<1>4. CASE \E s \in SessionIds : T!RevokeOwnGrant(token, s)
  <2>1. PICK s \in SessionIds : sessions[s] # NoSession /\ T!Ends({s})
    BY <1>4 DEF T!RevokeOwnGrant, T!Stored
  <2> QED BY <2>1, EndsKeep
<1> QED BY <1>1, <1>2, <1>3, <1>4

\* A deletion ends sessions that were created; a deployment and the clock touch none.
LEMMA DeletionsKeep ==
  ASSUME AccessInv,
         \/ T!Tick
         \/ \E list \in KeyLists : T!Deploy(list)
         \/ \E i \in Owners, listed \in SUBSET SessionIds : T!Delete(i, listed)
         \/ \E c \in Apps, listed \in SUBSET SessionIds : T!DeleteClient(c, listed)
  PROVE  AccessInv'
<1>1. moment \in 0..MaxMoment /\ MaxMoment \in Nat
  BY TokensAssumption DEF AccessInv, T!AccessTokensAssumption
<1>2. CASE T!Tick
  <2>1. UNCHANGED <<keys, owners, members, sessions, ended, unexchanged, tokens, signIns>>
        /\ moment' \in 0..MaxMoment /\ moment <= moment'
    BY <1>1, <1>2 DEF T!Tick
  <2>2. KeysFit'
    BY <2>1 DEF AccessInv, KeysFit
  <2> QED BY <2>1, <2>2, RestKeeps DEF AccessInv
<1>3. CASE \E list \in KeyLists : T!Deploy(list)
  <2>1. KeysFit'
    BY <1>3 DEF T!Deploy, KeysFit
  <2>2. UNCHANGED <<owners, members, sessions, ended, unexchanged, tokens, moment, signIns>>
    BY <1>3 DEF T!Deploy
  <2> QED BY <1>1, <2>1, <2>2, RestKeeps DEF AccessInv
<1>4. CASE \/ \E i \in Owners, listed \in SUBSET SessionIds : T!Delete(i, listed)
           \/ \E c \in Apps, listed \in SUBSET SessionIds : T!DeleteClient(c, listed)
  <2>1. /\ owners' \subseteq owners /\ members' \subseteq members
        /\ ended' \subseteq ended \cup { s \in SessionIds : sessions[s] # NoSession }
        /\ UNCHANGED <<keys, sessions, unexchanged, tokens, moment, signIns>>
    BY <1>4 DEF T!Delete, T!DeleteClient, T!Stored
  <2>2. KeysFit'
    BY <2>1 DEF AccessInv, KeysFit
  <2> QED BY <1>1, <2>1, <2>2, RestKeeps DEF AccessInv
<1> QED BY <1>2, <1>3, <1>4

\* The counts after a step that wrote one session, and minted for it or for none.
LEMMA CountsKeep ==
  ASSUME AccessInv, NEW s \in SessionIds, NEW new, tokens' = tokens \cup new,
         \A token \in new : token.sid \in {s, NoSession}, NoSession \notin SessionIds,
         \A r \in SessionIds \ {s} : sessions'[r] = sessions[r],
         LastFits(s)'
  PROVE  \A r \in SessionIds : LastFits(r)'
BY DEF AccessInv, LastFits

\* A session is created: nothing was said of its id before.
LEMMA CreatedFits ==
  ASSUME AccessInv, NEW s \in SessionIds, NEW i \in Owners, NEW c \in Apps \cup {Issuer},
         NEW scopes \in SUBSET TokenScopes, NEW t \in 0..moment, T!Created(s, i, c, scopes, t),
         moment' = moment, signIns \subseteq signIns', <<i, t>> \in signIns'
  PROVE  /\ sessions'[s] \in T!Session /\ sessions'[s] # NoSession
         /\ sessions'[s].identity = i /\ sessions'[s].client = c /\ sessions'[s].scopes = scopes
         /\ sessions'[s].authTime = t
         /\ \A r \in SessionIds \ {s} : sessions'[r] = sessions[r]
         /\ SessionsFit' /\ Lasting
         /\ \A token \in tokens : token.sid # s
<1> DEFINE record == [ identity |-> i, client |-> c, scopes |-> scopes, count |-> 0,
                       expireAt |-> moment + Life, authTime |-> t ]
<1>1. sessions[s] = NoSession /\ sessions' = [sessions EXCEPT ![s] = record]
  BY DEF T!Created
<1>2. /\ moment \in Nat /\ MaxMoment \in Nat /\ t \in 0..MaxMoment /\ moment + Life \in Nat /\ moment + Life > 0
  BY TokensAssumption DEF AccessInv, T!AccessTokensAssumption
<1>3. record \in T!Session
  BY <1>2 DEF T!Session
<1>4. record # NoSession
  BY <1>3, TokensAssumption DEF T!AccessTokensAssumption
<1>5. /\ record.identity = i /\ record.client = c /\ record.scopes = scopes
      /\ record.authTime = t /\ record.expireAt = moment + Life
  OBVIOUS
<1> HIDE DEF record
<1>6. \A r \in SessionIds : sessions'[r] = IF r = s THEN record ELSE sessions[r]
  BY <1>1 DEF AccessInv, SessionsFit
<1>7. sessions' \in [SessionIds -> T!Session \cup {NoSession}]
  BY <1>1, <1>3 DEF AccessInv, SessionsFit
<1>8. SessionsFit'
  BY <1>2, <1>5, <1>6, <1>7 DEF AccessInv, SessionsFit
<1>9. Lasting
  BY <1>1, <1>6 DEF Lasting
<1>10. \A token \in tokens : token.sid # s
  <2> SUFFICES ASSUME NEW token \in tokens, token.sid = s PROVE FALSE
    OBVIOUS
  <2>1. s # NoSession
    BY TokensAssumption DEF T!AccessTokensAssumption
  <2> QED BY <1>1, <2>1 DEF AccessInv, TokenFits, OfItsSession
<1> QED BY <1>3, <1>4, <1>5, <1>6, <1>8, <1>9, <1>10

\* The last step of a dance mints for the session it creates.
LEMMA SignInTokens ==
  ASSUME AccessInv, NEW i \in Owners, NEW s \in SessionIds, T!SignIn(i, s)
  PROVE  AccessInv'
<1> DEFINE options == [ subject |-> i, client |-> Issuer, sid |-> s, scopes |-> TokenScopes, granted |-> TokenScopes,
                        authTime |-> moment, audience |-> Issuer, refreshes |-> TRUE ]
<1>1. PICK groups \in T!Answers : T!Minted(T!Mint(options, groups))
  BY DEF T!SignIn
<1>2. /\ T!Created(s, i, Issuer, TokenScopes, moment)
      /\ signIns' = signIns \cup {<<i, moment>>}
      /\ UNCHANGED <<keys, owners, members, ended, unexchanged, moment>>
      /\ tokens' = tokens \cup T!Mint(options, groups)
  BY <1>1 DEF T!SignIn, T!Minted
<1>3. /\ moment \in 0..MaxMoment /\ moment \in 0..moment /\ TokenScopes \in SUBSET TokenScopes
      /\ Issuer \in STRING /\ NoSession \notin SessionIds \cup (0..MaxMoment) /\ MayHoldRefresh(Issuer)
  BY TokensAssumption DEF AccessInv, MayHoldRefresh, T!AccessTokensAssumption
<1>4. /\ sessions'[s] \in T!Session /\ sessions'[s] # NoSession
      /\ sessions'[s].identity = i /\ sessions'[s].client = Issuer /\ sessions'[s].scopes = TokenScopes
      /\ sessions'[s].authTime = moment
      /\ \A r \in SessionIds \ {s} : sessions'[r] = sessions[r]
      /\ SessionsFit' /\ Lasting
      /\ \A token \in tokens : token.sid # s
  <2>1. Issuer \in Apps \cup {Issuer} /\ signIns \subseteq signIns' /\ <<i, moment>> \in signIns' /\ moment' = moment
    BY <1>2
  <2> QED BY <1>2, <1>3, <2>1, CreatedFits
<1>5. /\ options.subject = i /\ options.client = Issuer /\ options.sid = s /\ options.scopes = TokenScopes
      /\ options.granted = TokenScopes /\ options.authTime = moment /\ options.audience = Issuer
  OBVIOUS
<1> HIDE DEF options
<1>6. \A token \in T!Mint(options, groups) : TokenFits(token)' /\ token.sid = s
  <2> SUFFICES ASSUME NEW token \in T!Mint(options, groups)
               PROVE  TokenFits(token)' /\ token.sid = s
    OBVIOUS
  <2>1. token.sid = s
    BY <1>5, MintGives
  <2>2. /\ options.subject \in Owners \cup Apps /\ options.client \in Apps \cup {Issuer}
        /\ options.sid \in SessionIds \cup {NoSession} /\ options.audience \in STRING
        /\ options.scopes \in SUBSET TokenScopes /\ options.granted \in SUBSET TokenScopes
        /\ options.authTime \in (0..MaxMoment) \cup {NoSession}
        /\ options.sid # NoSession /\ options.authTime # NoSession /\ MayHoldRefresh(options.client)
    BY <1>3, <1>5
  <2>3. /\ sessions'[options.sid] \in T!Session /\ sessions'[options.sid] # NoSession
        /\ options.granted = sessions'[options.sid].scopes /\ options.scopes \subseteq options.granted
        /\ options.subject = sessions'[options.sid].identity /\ options.client = sessions'[options.sid].client
        /\ options.authTime = sessions'[options.sid].authTime
    BY <1>4, <1>5
  <2> QED BY <2>1, <2>2, <2>3, MintedFits
<1>7. \A token \in tokens' : TokenFits(token)'
  BY <1>2, <1>4, <1>6, TokensKeep
<1>8. LastFits(s)'
  <2> SUFFICES ASSUME NEW token \in tokens', token.sid = s, token.typ = "rt+jwt"
               PROVE  token.count = sessions'[s].count
    BY DEF LastFits
  <2>1. token \in T!Mint(options, groups)
    BY <1>2, <1>4
  <2> QED BY <1>5, <2>1, MintGives
<1>9. \A r \in SessionIds : LastFits(r)'
  BY <1>2, <1>3, <1>4, <1>6, <1>8, CountsKeep
<1>10. KeysFit'
  BY <1>2 DEF AccessInv, KeysFit
<1>11. ended' \cup unexchanged' \subseteq { r \in SessionIds : sessions'[r] # NoSession }
  BY <1>2, <1>4 DEF AccessInv, Lasting
<1> QED BY <1>2, <1>4, <1>7, <1>9, <1>10, <1>11 DEF AccessInv

\* A consent creates a session that holds a part of the profile's scopes, and mints nothing yet.
LEMMA ConsentTokens ==
  ASSUME AccessInv, NEW i \in Owners, NEW c \in Apps, NEW scopes \in SUBSET TokenScopes, NEW s \in SessionIds,
         T!Consent(i, c, scopes, s)
  PROVE  AccessInv'
<1>1. PICK t \in 0..moment : <<i, t>> \in signIns /\ T!Created(s, i, c, scopes, t)
  BY DEF T!Consent
<1>2. /\ unexchanged' = unexchanged \cup {s}
      /\ UNCHANGED <<keys, owners, members, ended, tokens, moment, signIns>>
  BY DEF T!Consent
<1>3. /\ sessions'[s] # NoSession
      /\ \A r \in SessionIds \ {s} : sessions'[r] = sessions[r]
      /\ SessionsFit' /\ Lasting
      /\ \A token \in tokens : token.sid # s
  <2>1. c \in Apps \cup {Issuer} /\ scopes \in SUBSET TokenScopes /\ moment' = moment
        /\ signIns \subseteq signIns' /\ <<i, t>> \in signIns'
    BY <1>1, <1>2
  <2> QED BY <1>1, <2>1, CreatedFits
<1>4. \A token \in tokens' : TokenFits(token)'
  BY <1>2, <1>3, TokensKeep
<1>5. \A r \in SessionIds : LastFits(r)'
  BY <1>2, <1>3 DEF AccessInv, LastFits
<1>6. KeysFit'
  BY <1>2 DEF AccessInv, KeysFit
<1>7. ended' \cup unexchanged' \subseteq { r \in SessionIds : sessions'[r] # NoSession }
  BY <1>2, <1>3 DEF AccessInv, Lasting
<1> QED BY <1>2, <1>3, <1>4, <1>5, <1>6, <1>7 DEF AccessInv

\* The exchange of a code mints for the session its consent made.
LEMMA ExchangeTokens ==
  ASSUME AccessInv, NEW s \in SessionIds, T!Exchange(s)
  PROVE  AccessInv'
<1>1. /\ s \in unexchanged /\ sessions[s].client \in members /\ unexchanged' = unexchanged \ {s}
      /\ UNCHANGED <<keys, owners, members, sessions, moment, signIns>>
  BY DEF T!Exchange
<1>2. s \in SessionIds /\ sessions[s] # NoSession
  BY <1>1 DEF AccessInv
<1>3. KeysFit'
  BY <1>1 DEF AccessInv, KeysFit
<1>4. moment' \in 0..MaxMoment /\ moment <= moment'
  BY <1>1, TokensAssumption DEF AccessInv, T!AccessTokensAssumption
<1>5. CASE UNCHANGED tokens /\ (UNCHANGED ended \/ ended' = ended \cup {s})
  BY <1>1, <1>2, <1>3, <1>4, <1>5, RestKeeps DEF AccessInv
<1> DEFINE client == Profile[sessions[s].client]
           options == T!ForSession(s, sessions[s].scopes, sessions[s].scopes, sessions[s].authTime,
                                   client.audience, client.refreshes)
<1>6. ASSUME NEW groups \in T!Answers, T!Minted(T!Mint(options, groups)), UNCHANGED ended
      PROVE  AccessInv'
  <2>1. /\ sessions[s] \in T!Session /\ sessions[s].authTime \in 0..MaxMoment
        /\ sessions[s].identity \in Owners /\ sessions[s].client \in Apps
        /\ sessions[s].scopes \in SUBSET TokenScopes
    <3>1. sessions[s] \in T!Session
      BY <1>2 DEF AccessInv, SessionsFit
    <3> QED BY <1>1, <3>1 DEF AccessInv, T!Session
  <2>2. /\ client \in T!ClientProfile /\ client.audience \in STRING /\ NoSession \notin SessionIds \cup (0..MaxMoment)
        /\ client.refreshes => MayHoldRefresh(sessions[s].client)
    BY <2>1, TokensAssumption DEF T!AccessTokensAssumption, T!ClientProfile, MayHoldRefresh
  <2>3. /\ options.subject = sessions[s].identity /\ options.client = sessions[s].client /\ options.sid = s
        /\ options.scopes = sessions[s].scopes /\ options.granted = sessions[s].scopes
        /\ options.authTime = sessions[s].authTime /\ options.audience = client.audience
        /\ options.refreshes = client.refreshes
    BY DEF T!ForSession
  <2>4. tokens' = tokens \cup T!Mint(options, groups)
    BY <1>6 DEF T!Minted
  <2> HIDE DEF options, client
  <2>5. \A token \in T!Mint(options, groups) : TokenFits(token)' /\ token.sid = s
    <3> SUFFICES ASSUME NEW token \in T!Mint(options, groups)
                 PROVE  TokenFits(token)' /\ token.sid = s
      OBVIOUS
    <3>1. token.sid = s
      BY <1>6, <2>3, MintGives
    <3>2. /\ options.subject \in Owners \cup Apps /\ options.client \in Apps \cup {Issuer}
          /\ options.sid \in SessionIds \cup {NoSession} /\ options.audience \in STRING
          /\ options.scopes \in SUBSET TokenScopes /\ options.granted \in SUBSET TokenScopes
          /\ options.authTime \in (0..MaxMoment) \cup {NoSession}
          /\ options.sid # NoSession /\ options.authTime # NoSession
          /\ options.refreshes => MayHoldRefresh(options.client)
      BY <1>2, <2>1, <2>2, <2>3
    <3>3. /\ sessions'[options.sid] \in T!Session /\ sessions'[options.sid] # NoSession
          /\ options.granted = sessions'[options.sid].scopes /\ options.scopes \subseteq options.granted
          /\ options.subject = sessions'[options.sid].identity /\ options.client = sessions'[options.sid].client
          /\ options.authTime = sessions'[options.sid].authTime
      BY <1>1, <1>2, <2>1, <2>3
    <3> QED BY <1>6, <3>1, <3>2, <3>3, MintedFits
  <2>6. Lasting /\ SessionsFit'
    BY <1>1 DEF Lasting, AccessInv, SessionsFit
  <2>7. \A token \in tokens' : TokenFits(token)'
    BY <2>4, <2>5, <2>6, TokensKeep
  <2>8. LastFits(s)'
    <3>1. CASE \E token \in T!Mint(options, groups) : token.typ = "rt+jwt"
      <4>1. PICK token \in T!Mint(options, groups) : token.typ = "rt+jwt"
        BY <3>1
      <4>2. token.sid = s /\ token.count = sessions'[s].count
        BY <1>6, <2>3, <4>1, MintGives
      <4> QED BY <2>4, <4>1, <4>2 DEF LastFits
    <3>2. CASE ~\E token \in T!Mint(options, groups) : token.typ = "rt+jwt"
      BY <1>1, <2>4, <3>2 DEF AccessInv, LastFits
    <3> QED BY <3>1, <3>2
  <2>9. \A r \in SessionIds : LastFits(r)'
    BY <1>1, <1>2, <2>2, <2>4, <2>5, <2>8, CountsKeep
  <2>10. ended' \cup unexchanged' \subseteq { r \in SessionIds : sessions'[r] # NoSession }
    BY <1>1, <1>6 DEF AccessInv
  <2> QED BY <1>1, <1>3, <1>4, <2>6, <2>7, <2>9, <2>10 DEF AccessInv
<1> QED BY <1>5, <1>6 DEF T!Exchange

\* A client that acts alone gets an access token of its own.
LEMMA ActAloneTokens ==
  ASSUME AccessInv, NEW c \in Apps, NEW scopes \in SUBSET TokenScopes, T!ActAlone(c, scopes)
  PROVE  AccessInv'
<1> DEFINE options == [ subject |-> c, client |-> c, sid |-> NoSession, scopes |-> scopes, granted |-> scopes,
                        authTime |-> NoSession, audience |-> Profile[c].audience, refreshes |-> FALSE ]
<1>1. PICK groups \in T!Answers : T!Minted(T!Mint(options, groups))
  BY DEF T!ActAlone
<1>2. /\ scopes # {} /\ scopes \subseteq Profile[c].scopes
      /\ UNCHANGED <<keys, owners, members, sessions, ended, unexchanged, moment, signIns>>
      /\ tokens' = tokens \cup T!Mint(options, groups)
  BY <1>1 DEF T!ActAlone, T!Minted
<1>3. Profile[c].audience \in STRING /\ NoSession \notin SessionIds
  BY TokensAssumption DEF T!AccessTokensAssumption, T!ClientProfile
<1>4. /\ options.subject = c /\ options.client = c /\ options.sid = NoSession /\ options.scopes = scopes
      /\ options.granted = scopes /\ options.authTime = NoSession /\ options.audience = Profile[c].audience
      /\ options.refreshes = FALSE
  OBVIOUS
<1> HIDE DEF options
<1>5. \A token \in T!Mint(options, groups) : TokenFits(token)' /\ token.sid = NoSession
  <2> SUFFICES ASSUME NEW token \in T!Mint(options, groups)
               PROVE  TokenFits(token)' /\ token.sid = NoSession
    OBVIOUS
  <2>1. token.sid = NoSession
    BY <1>4, MintGives
  <2>2. /\ options.subject \in Owners \cup Apps /\ options.client \in Apps \cup {Issuer}
        /\ options.sid \in SessionIds \cup {NoSession} /\ options.audience \in STRING
        /\ options.scopes \in SUBSET TokenScopes /\ options.granted \in SUBSET TokenScopes
        /\ options.authTime \in (0..MaxMoment) \cup {NoSession}
        /\ options.sid = NoSession /\ options.authTime = NoSession /\ ~options.refreshes
        /\ options.subject = options.client /\ options.client \in Apps
        /\ options.scopes \subseteq Profile[options.client].scopes
    BY <1>2, <1>3, <1>4
  <2> QED BY <2>1, <2>2, MintedFits
<1>6. Lasting /\ SessionsFit' /\ KeysFit'
  BY <1>2 DEF Lasting, AccessInv, SessionsFit, KeysFit
<1>7. \A token \in tokens' : TokenFits(token)'
  BY <1>2, <1>5, <1>6, TokensKeep
<1>8. \A r \in SessionIds : LastFits(r)'
  BY <1>2, <1>3, <1>5 DEF AccessInv, LastFits
<1> QED BY <1>2, <1>6, <1>7, <1>8 DEF AccessInv

\* A refresh writes the count of its session with the token that has it.
LEMMA RefreshTokens ==
  ASSUME AccessInv, NEW caller \in Apps \cup {Issuer}, NEW token \in tokens, NEW scopes \in SUBSET TokenScopes,
         T!Refresh(caller, token, scopes)
  PROVE  AccessInv'
<1> DEFINE s == token.sid
           options == T!ForSession(s, scopes, T!Granted(token, scopes), T!AuthTimeKept(token),
                                   T!AudienceFor(caller), TRUE)
<1>1. PICK groups \in T!Answers : T!Writes(T!Mint(options, groups)) /\ T!Minted(T!Mint(options, groups))
  BY DEF T!Refresh
<1>2. /\ T!SessionThere(token) /\ token.typ = "rt+jwt" /\ scopes # {} /\ scopes \subseteq token.scope
      /\ sessions' = [sessions EXCEPT ![s].count = @ + 1]
      /\ UNCHANGED <<keys, owners, members, ended, unexchanged, moment, signIns>>
      /\ T!Mint(options, groups) # {} /\ tokens' = tokens \cup T!Mint(options, groups)
  BY <1>1 DEF T!Refresh, T!MayRefresh, T!Verified, T!Passes, T!Writes, T!Minted
<1>3. s \in SessionIds /\ sessions[s] # NoSession /\ sessions[s] \in T!Session
  BY <1>2, SessionThereIsCreated DEF AccessInv, SessionsFit
<1>4. /\ token.sub = sessions[s].identity /\ token.client = sessions[s].client
      /\ token.authTime = sessions[s].authTime /\ token.scope = sessions[s].scopes
      /\ MayHoldRefresh(token.client)
  BY <1>2, <1>3, TokensAssumption DEF AccessInv, TokenFits, OfItsSession, T!AccessTokensAssumption
<1> DEFINE record == [sessions[s] EXCEPT !.count = @ + 1]
<1>5. /\ record \in T!Session /\ record.identity = sessions[s].identity /\ record.client = sessions[s].client
      /\ record.scopes = sessions[s].scopes /\ record.expireAt = sessions[s].expireAt
      /\ record.authTime = sessions[s].authTime
  <2> HIDE DEF s
  <2> QED BY <1>3 DEF T!Session
<1>6. record # NoSession /\ NoSession \notin SessionIds \cup (0..MaxMoment)
  BY <1>5, TokensAssumption DEF T!AccessTokensAssumption
<1> HIDE DEF record
<1>7. /\ \A r \in SessionIds : sessions'[r] = IF r = s THEN record ELSE sessions[r]
      /\ sessions' \in [SessionIds -> T!Session \cup {NoSession}]
  <2>1. sessions' = [sessions EXCEPT ![s] = record]
    BY <1>2, <1>3 DEF record, AccessInv, SessionsFit
  <2> QED BY <1>3, <1>5, <2>1 DEF AccessInv, SessionsFit
<1>8. Lasting /\ SessionsFit'
  BY <1>2, <1>3, <1>5, <1>6, <1>7 DEF Lasting, AccessInv, SessionsFit
<1>9. /\ sessions[s].identity \in Owners /\ sessions[s].client \in Apps \cup {Issuer}
      /\ sessions[s].scopes \in SUBSET TokenScopes /\ sessions[s].authTime \in 0..MaxMoment
  BY <1>3 DEF T!Session
<1>10. T!AudienceFor(caller) \in STRING
  BY TokensAssumption DEF T!AudienceFor, T!AccessTokensAssumption, T!ClientProfile
<1>11. /\ options.subject = sessions[s].identity /\ options.client = sessions[s].client /\ options.sid = s
       /\ options.scopes = scopes /\ options.granted = sessions[s].scopes /\ options.refreshes = TRUE
       /\ options.authTime = sessions[s].authTime /\ options.audience = T!AudienceFor(caller)
  BY <1>4 DEF T!ForSession, T!Granted, T!AuthTimeKept
<1> HIDE DEF options
<1>12. \A new \in T!Mint(options, groups) : TokenFits(new)' /\ new.sid = s
  <2> SUFFICES ASSUME NEW new \in T!Mint(options, groups)
               PROVE  TokenFits(new)' /\ new.sid = s
    OBVIOUS
  <2>1. new.sid = s
    BY <1>11, MintGives
  <2>2. /\ options.subject \in Owners \cup Apps /\ options.client \in Apps \cup {Issuer}
        /\ options.sid \in SessionIds \cup {NoSession} /\ options.audience \in STRING
        /\ options.scopes \in SUBSET TokenScopes /\ options.granted \in SUBSET TokenScopes
        /\ options.authTime \in (0..MaxMoment) \cup {NoSession}
        /\ options.sid # NoSession /\ options.authTime # NoSession /\ MayHoldRefresh(options.client)
    BY <1>2, <1>3, <1>4, <1>6, <1>9, <1>10, <1>11
  <2>3. /\ sessions'[options.sid] \in T!Session /\ sessions'[options.sid] # NoSession
        /\ options.granted = sessions'[options.sid].scopes /\ options.scopes \subseteq options.granted
        /\ options.subject = sessions'[options.sid].identity /\ options.client = sessions'[options.sid].client
        /\ options.authTime = sessions'[options.sid].authTime
    BY <1>2, <1>3, <1>4, <1>5, <1>6, <1>7, <1>11
  <2> QED BY <2>1, <2>2, <2>3, MintedFits
<1>13. \A each \in tokens' : TokenFits(each)'
  BY <1>2, <1>8, <1>12, TokensKeep
<1>14. LastFits(s)'
  <2>1. PICK new \in T!Mint(options, groups) :
          new.typ = "rt+jwt" /\ new.sid = s /\ new.count = sessions'[s].count
    BY <1>2, <1>11, MintGivesRefresh
  <2> QED BY <1>2, <2>1 DEF LastFits
<1>15. \A r \in SessionIds : LastFits(r)'
  <2>1. \A each \in T!Mint(options, groups) : each.sid \in {s, NoSession}
    BY <1>12
  <2>2. NoSession \notin SessionIds /\ s \in SessionIds
    BY <1>3, <1>6
  <2>3. tokens' = tokens \cup T!Mint(options, groups)
    BY <1>2
  <2>4. \A r \in SessionIds \ {s} : sessions'[r] = sessions[r]
    BY <1>7
  <2> HIDE DEF s
  <2> QED BY <1>14, <2>1, <2>2, <2>3, <2>4, CountsKeep
<1>16. KeysFit'
  BY <1>2 DEF AccessInv, KeysFit
<1>17. ended' \cup unexchanged' \subseteq { r \in SessionIds : sessions'[r] # NoSession }
  BY <1>2, <1>8 DEF AccessInv, Lasting
<1> QED BY <1>2, <1>8, <1>13, <1>15, <1>16, <1>17 DEF AccessInv

\* No session and no token at the start.
LEMMA InitTokens == T!Init => AccessInv
<1> SUFFICES ASSUME T!Init PROVE AccessInv
  OBVIOUS
<1>1. KeysFit
  BY DEF T!Init, KeysFit
<1>2. SessionsFit
  BY DEF T!Init, SessionsFit
<1>3. moment \in 0..MaxMoment
  BY TokensAssumption DEF T!Init, T!AccessTokensAssumption
<1> QED BY <1>1, <1>2, <1>3 DEF T!Init, AccessInv, LastFits

\* Every step keeps the tokens to their sessions.
LEMMA TokensInvariance == AccessInv /\ [T!Next]_(T!vars) => AccessInv'
<1> SUFFICES ASSUME AccessInv, [T!Next]_(T!vars) PROVE AccessInv'
  OBVIOUS
<1>1. CASE \/ T!Tick
           \/ \E list \in KeyLists : T!Deploy(list)
           \/ \E i \in Owners, listed \in SUBSET SessionIds : T!Delete(i, listed)
           \/ \E c \in Apps, listed \in SUBSET SessionIds : T!DeleteClient(c, listed)
  BY <1>1, DeletionsKeep
<1>2. CASE \E i \in Owners, s \in SessionIds : T!SignIn(i, s)
  BY <1>2, SignInTokens
<1>3. CASE \E i \in Owners, c \in Apps, scopes \in SUBSET TokenScopes, s \in SessionIds : T!Consent(i, c, scopes, s)
  BY <1>3, ConsentTokens
<1>4. CASE \E s \in SessionIds : T!Exchange(s)
  BY <1>4, ExchangeTokens
<1>5. CASE \E c \in Apps, scopes \in SUBSET TokenScopes : T!ActAlone(c, scopes)
  BY <1>5, ActAloneTokens
<1>6. ASSUME NEW token \in tokens, NEW caller \in Apps \cup {Issuer}, NEW scopes \in SUBSET TokenScopes,
             T!Refresh(caller, token, scopes)
      PROVE  AccessInv'
  BY <1>6, RefreshTokens
<1>7. ASSUME NEW token \in tokens,
             \/ \E caller \in Apps \cup {Issuer} : T!Reuse(caller, token)
             \/ \E others \in BOOLEAN : T!SignOut(token, others)
             \/ \E caller \in Apps : T!Revoke(caller, token)
             \/ \E s \in SessionIds : T!RevokeOwnGrant(token, s)
      PROVE  AccessInv'
  BY <1>7, EndingsKeep
<1>8. CASE UNCHANGED T!vars
  <2>1. UNCHANGED <<keys, owners, members, sessions, ended, unexchanged, tokens, moment, signIns>>
    BY <1>8 DEF T!vars
  <2>2. KeysFit' /\ moment <= moment'
    <3>1. moment \in Nat
      BY TokensAssumption DEF AccessInv, T!AccessTokensAssumption
    <3> QED BY <2>1, <3>1 DEF AccessInv, KeysFit
  <2> QED BY <2>1, <2>2, RestKeeps DEF AccessInv
<1> QED BY <1>1, <1>2, <1>3, <1>4, <1>5, <1>6, <1>7, <1>8 DEF T!Next

\* What the tokens say follows from what they keep to.
LEMMA FittingTokensTellTheTruth == AccessInv => TokensTellTheTruth
<1> SUFFICES ASSUME AccessInv PROVE TokensTellTheTruth
  OBVIOUS
<1>1. /\ moment \in 0..MaxMoment /\ moment \in Nat /\ Access \in Nat \ {0}
      /\ NoSession \notin SessionIds
  BY TokensAssumption DEF AccessInv, T!AccessTokensAssumption
<1>2. ASSUME NEW token \in tokens
      PROVE  /\ TokenFits(token) /\ token \in T!Token
             /\ token.sid \in SessionIds \cup {NoSession} /\ token.typ \in T!Types
             /\ token.exp \in Nat /\ token.iat \in Nat
  <2>1. TokenFits(token)
    BY DEF AccessInv
  <2>2. token \in T!Token
    BY <2>1 DEF TokenFits
  <2>3. token.iat \in 0..MaxMoment
    BY <2>2 DEF T!Token
  <2> QED BY <2>1, <2>2, <2>3 DEF T!Token
<1>3. ASSUME NEW token \in tokens, token.sid # NoSession
      PROVE  OfItsSession(token) /\ token.sid \in SessionIds
  BY <1>2, <1>3 DEF TokenFits
<1>4. T!TypeOK
  <2>1. T!Cardinality(T!Verifiers) = Len(keys)
    BY KeysAreDistinct, CardinalityOfT DEF AccessInv
  <2>2. \A token \in tokens : token \in T!Token /\ (token.sid = NoSession <=> token.authTime = NoSession)
    BY <1>2 DEF TokenFits
  <2> QED BY <2>1, <2>2 DEF T!TypeOK, AccessInv, KeysFit, T!ValidKeys
<1>5. T!ManagedAfterASignIn
  <2> SUFFICES ASSUME NEW token \in tokens, T!MayManage(token)
               PROVE  \E t \in 0..moment : <<token.sub, t>> \in signIns /\ moment - t <= Elevated
    BY DEF T!ManagedAfterASignIn
  <2>1. token.sid # NoSession /\ moment - token.authTime <= Elevated
    BY DEF T!MayManage, T!Unrolled, T!SessionThere
  <2>2. OfItsSession(token) /\ token.sid \in SessionIds
    BY <1>3, <2>1
  <2>3. token.authTime \in 0..moment /\ <<token.sub, token.authTime>> \in signIns
    BY <2>2 DEF OfItsSession, AccessInv, SessionsFit
  <2> QED BY <2>1, <2>3
<1>6. T!RefreshTokensGiveNoAccess
  <2> SUFFICES ASSUME NEW token \in tokens, token.typ = "at+jwt", moment < token.exp
               PROVE  moment - token.iat < Access
    BY DEF T!RefreshTokensGiveNoAccess, T!VerifyAccess, T!Verified, T!Passes
  <2>1. token.exp = token.iat + Access /\ token.iat \in Nat
    BY <1>2 DEF TokenFits
  <2> QED BY <1>1, <2>1
<1>7. T!ScopesStayAsGranted
  BY <1>2 DEF T!ScopesStayAsGranted, TokenFits, OfItsSession, OfItsClient
<1>8. T!LastTokenPasses
  <2> SUFFICES ASSUME NEW s \in SessionIds, T!Stored(s), sessions[s].scopes # {},
                      sessions[s].identity \in owners, sessions[s].client \in members \cup {Issuer},
                      \E token \in tokens : token.sid = s /\ token.typ = "rt+jwt"
               PROVE  \E token \in tokens :
                        /\ token.sid = s /\ token.typ = "rt+jwt" /\ token.count = sessions[s].count
                        /\ token.kid \in T!Verifiers => T!MayRefresh(sessions[s].client, token, token.scope)
    BY Zenon DEF T!LastTokenPasses
  <2>1. PICK token \in tokens : token.sid = s /\ token.typ = "rt+jwt" /\ token.count = sessions[s].count
    BY DEF AccessInv, LastFits
  <2>2. /\ token.exp = sessions[s].expireAt /\ token.aud = Issuer /\ token.scope = sessions[s].scopes
        /\ token.sub = sessions[s].identity /\ token.client = sessions[s].client /\ MayHoldRefresh(token.client)
    BY <1>1, <1>3, <2>1 DEF OfItsSession
  <2>3. moment < token.exp
    BY <2>2 DEF T!Stored
  <2>4. sessions[s].client \in members => Profile[sessions[s].client].refreshes
    BY <2>2 DEF MayHoldRefresh, AccessInv
  <2>5. T!SessionThere(token) /\ token.sub \in owners
    BY <1>1, <2>1, <2>2 DEF T!SessionThere
  <2>6. token.kid \in T!Verifiers => T!Verified(token, "rt+jwt", Issuer)
    BY <2>1, <2>2, <2>3 DEF T!Verified, T!Passes
  <2>7. token.scope # {} /\ token.scope \subseteq token.scope
    BY <2>2
  <2>8. token.kid \in T!Verifiers => T!MayRefresh(sessions[s].client, token, token.scope)
    BY <2>2, <2>4, <2>5, <2>6, <2>7 DEF T!MayRefresh
  <2> QED BY <2>1, <2>8
<1>9. T!IntrospectionIsTrue
  <2> SUFFICES ASSUME NEW token \in tokens, NEW caller \in members
               PROVE  LET accepted == T!VerifyWithSession(token, token.aud) IN
                      /\ T!Active(caller, token) => token.sub \in owners \cup members
                      /\ token.typ = "at+jwt" /\ token.sid # NoSession /\ T!Active(caller, token) => accepted
                      /\ accepted /\ token.sub \in owners /\ ~Profile[caller].public
                           /\ T!MayIntrospect(caller, token.client)
                           => T!Active(caller, token)
    BY Zenon DEF T!IntrospectionIsTrue
  <2>1. T!Active(caller, token) => token.sub \in owners \cup members
    <3>1. CASE token.sid = NoSession
      BY <1>2, <3>1 DEF T!Active, T!IsBehind, TokenFits, OfItsClient
    <3>2. CASE token.sid # NoSession
      BY <3>2 DEF T!Active, T!IsBehind, T!SessionThere
    <3> QED BY <3>1, <3>2
  <2>2. ASSUME token.typ = "at+jwt", token.sid # NoSession, T!Active(caller, token)
        PROVE  T!VerifyWithSession(token, token.aud)
    BY <2>2 DEF T!Active, T!IsBehind, T!Passes, T!Verified, T!VerifyAccess, T!VerifyWithSession
  <2>3. ASSUME T!VerifyWithSession(token, token.aud), token.sub \in owners, ~Profile[caller].public,
               T!MayIntrospect(caller, token.client)
        PROVE  T!Active(caller, token)
    BY <2>3 DEF T!Active, T!IsBehind, T!SessionThere, T!Types, T!Verified, T!VerifyAccess, T!VerifyWithSession
  <2> QED BY <2>1, <2>2, <2>3
<1>10. T!AnyTokenEndsItsSession
  <2> SUFFICES ASSUME NEW token \in tokens, token.client \in members, token.sid # NoSession,
                      T!Stored(token.sid), token.kid \in T!Verifiers
               PROVE  T!Revokes(token.client, token)
    BY Zenon DEF T!AnyTokenEndsItsSession
  <2>1. OfItsSession(token) /\ token.sid \in SessionIds
    BY <1>3
  <2>2. T!SessionThere(token)
    BY <2>1 DEF T!SessionThere, OfItsSession
  <2>3. 0 < token.exp
    <3>1. CASE token.typ = "at+jwt"
      <4>1. token.exp = token.iat + Access /\ token.iat \in Nat
        BY <1>2, <3>1 DEF TokenFits
      <4> QED BY <1>1, <4>1
    <3>2. CASE token.typ = "rt+jwt"
      BY <2>1, <3>2 DEF OfItsSession, AccessInv, SessionsFit
    <3> QED BY <1>2, <3>1, <3>2 DEF T!Types
  <2>4. T!ReadToRevoke(token)
    BY <1>2, <2>3 DEF T!ReadToRevoke, T!Passes
  <2> QED BY <2>2, <2>4 DEF T!Revokes
<1>11. T!ClaimsAreOfTheScopes
  BY <1>2 DEF T!ClaimsAreOfTheScopes, TokenFits, ClaimsFit
<1> QED BY <1>4, <1>5, <1>6, <1>7, <1>8, <1>9, <1>10, <1>11 DEF TokensTellTheTruth, T!TokensTellTheTruth

\* A token gives what its session and its owner gave, to every reader alike: a management
\* action follows a sign-in, a scope its grant, a claim its scope, introspection agrees with the
\* core, and the last refresh token of a session that was granted a scope refreshes it, as long as
\* its identity, its client and its key are there (mintTokens, refreshToken, introspect, revoke).
THEOREM TokensSayWhatIsSo == T!Spec => []TokensTellTheTruth
<1>1. AccessInv => TokensTellTheTruth
  BY FittingTokensTellTheTruth
<1> QED BY <1>1, InitTokens, TokensInvariance, PTL DEF T!Spec
-----------------------------------------------------------------------------
(***************************************************************************)
(* The rewrite of the addresses (AddressMigration), for any identities,    *)
(* inboxes, pages and calls of owners.  The argument is of the listing:    *)
(* who is held was copied, lies behind the cursor, or signed up while the  *)
(* run went; and the record of who was copied is the copy or the rewrite   *)
(* of it, unless its owner changed it since.                               *)
(***************************************************************************)

\* The map of the memory adapter has one order.
OrderFits ==
  /\ \A i \in M!IdentityIds : <<i, i>> \notin order
  /\ \A i, j, k \in M!IdentityIds : <<i, j>> \in order /\ <<j, k>> \in order => <<i, k>> \in order

\* The index of the memory adapter names who holds an address, or who left it.
IndexFits ==
  /\ addressIndex \in [M!Addresses -> M!IdentityIds \cup {M!NoOne}]
  /\ left \subseteq M!IdentityIds \X M!Addresses
  /\ adapter = "memory" =>
       /\ \A i \in M!Held : addressIndex[mailboxes[i].address] = i
       /\ \A a \in M!Addresses : LET i == addressIndex[a] IN
            i # M!NoOne => M!Holds(i, a) \/ <<i, a>> \in left

MigrationTyped ==
  /\ M!TypeOK /\ OrderFits /\ IndexFits /\ adapter \in {"memory", "d1"}
  /\ result = [updated |-> result.updated, collisions |-> result.collisions]
  /\ inboxOf = [i \in M!IdentityIds |-> inboxOf[i]]

\* The copies link as the records do, and who signed up has a normal address.
CopiesFit ==
  /\ \A i \in M!Copies : seen[i].channel = seen[i].address /\ seen[i].challenge = seen[i].address
  /\ \A i \in joined :
       /\ i \in M!Held => mailboxes[i].address.form = "normal"
       /\ i \in M!Copies => seen[i].address.form = "normal"

\* The record of a copy nobody changed since.
RecordsFit ==
  M!Running => \A i \in M!Copies \ crossed :
    /\ seen[i].address.inbox = inboxOf[i]
    /\ mailboxes[i] = IF pc = "writing" /\ i \in M!Rewrites \ todo THEN M!Rewritten(seen[i]) ELSE seen[i]

\* What was listed is up to the cursor, and what was not is behind it.
ListingFits ==
  pc = "listing" =>
    /\ IF cursor = 0 THEN M!Copies = {} ELSE cursor \in M!Copies
    /\ adapter = "d1" =>
         /\ \A i \in M!Copies : i <= cursor
         /\ \A i \in M!Held : i <= cursor => i \in M!Copies \cup joined
    /\ adapter = "memory" /\ cursor \in M!Held =>
         \A i \in M!Held :
           /\ i \in M!Copies => i = cursor \/ <<i, cursor>> \in order
           /\ i \notin M!Copies => i \in joined \/ <<cursor, i>> \in order

WritingFits ==
  pc = "writing" =>
    /\ todo \subseteq M!Rewrites /\ result.collisions = M!Collisions
    /\ ~cut => M!Held \subseteq M!Copies \cup joined

MigrationInv ==
  /\ MigrationTyped /\ M!LinksFollow /\ CopiesFit /\ M!OwnersWritesStand
  /\ RecordsFit /\ ListingFits /\ WritingFits /\ M!DoneMeansNormal
-----------------------------------------------------------------------------
LEMMA SameCardinality == \A S : M!Cardinality(S) = Cardinality(S)
BY DEF M!Cardinality, Cardinality

LEMMA PagesAreNumbers == MaxId \in Nat /\ PageSize \in Nat /\ PageSize >= 2 /\ Vacant \notin M!Record
BY MigrationAssumption DEF M!AddressMigrationAssumption

\* A full page holds another one than any of its own.
LEMMA FullPageHoldsTwo ==
  ASSUME NEW page, page \subseteq M!IdentityIds, M!Cardinality(page) = PageSize, NEW c
  PROVE  \E i \in page : i # c
<1>1. IsFiniteSet(page)
  <2>1. IsFiniteSet(M!IdentityIds)
    BY PagesAreNumbers, FS_Interval DEF M!IdentityIds
  <2> QED BY <2>1, FS_Subset
<1>2. Cardinality(page) >= 2
  BY SameCardinality, PagesAreNumbers
<1>3. SUFFICES ASSUME page \subseteq {c} PROVE FALSE
  OBVIOUS
<1>4. Cardinality(page) <= Cardinality({c}) /\ Cardinality({c}) = 1 /\ Cardinality(page) \in Nat
  BY <1>1, <1>3, FS_Subset, FS_Singleton, FS_CardinalityType
<1> QED BY <1>2, <1>4
-----------------------------------------------------------------------------
(* The store.                                                              *)

StoreFits ==
  /\ mailboxes \in [M!IdentityIds -> M!Record \cup {Vacant}]
  /\ \A i, j \in M!Held : mailboxes[i].address = mailboxes[j].address => i = j
  /\ order \subseteq M!Held \X M!Held
  /\ \A i, j \in M!Held : i # j => (<<i, j>> \in order) # (<<j, i>> \in order)
  /\ OrderFits /\ IndexFits

RunFits ==
  /\ pc \in {"idle", "listing", "writing", "done", "failed"} /\ cursor \in 0..MaxId
  /\ M!Copies \subseteq M!IdentityIds /\ seen \in [M!Copies -> M!Record]
  /\ todo \subseteq M!Copies /\ result.updated \subseteq M!Copies
  /\ result = [updated |-> result.updated, collisions |-> result.collisions]
  /\ \A group \in result.collisions : \E i, j \in group : i # j

LEMMA TypedParts ==
  MigrationTyped <=> StoreFits /\ RunFits /\ adapter \in {"memory", "d1"} /\ inboxOf = [i \in M!IdentityIds |-> inboxOf[i]]
BY DEF MigrationTyped, M!TypeOK, StoreFits, RunFits, IndexFits

\* Who holds an address is the one the adapter finds under it.
LEMMA HeldIsTaken ==
  ASSUME StoreFits, adapter \in {"memory", "d1"}, NEW i \in M!IdentityIds, NEW j \in M!Held, j # i
  PROVE  M!Taken(i, mailboxes[j].address)
<1>1. j \in M!IdentityIds /\ M!Holds(j, mailboxes[j].address)
  BY DEF M!Held, M!Holds
<1>2. CASE adapter = "d1"
  BY <1>1, <1>2 DEF M!Taken
<1>3. CASE adapter = "memory"
  <2>1. addressIndex[mailboxes[j].address] = j
    BY <1>3 DEF StoreFits, IndexFits
  <2>2. j # M!NoOne
    BY <1>1, PagesAreNumbers DEF M!IdentityIds, M!NoOne
  <2>3. addressIndex[mailboxes[j].address] \notin {M!NoOne, i}
    BY <2>1, <2>2
  <2> QED BY <1>3, <2>3 DEF M!Taken
<1>4. adapter = "d1" \/ adapter = "memory"
  OBVIOUS
<1> QED BY <1>2, <1>3, <1>4

\* A record that is written is held under its address, and comes last when it is new.
LEMMA PutKeepsStore ==
  ASSUME StoreFits, adapter \in {"memory", "d1"}, UNCHANGED adapter,
         NEW i \in M!IdentityIds, NEW r \in M!Record, M!Put(i, r)
  PROVE  /\ StoreFits' /\ M!Held' = M!Held \cup {i}
         /\ mailboxes' = [mailboxes EXCEPT ![i] = r] /\ mailboxes'[i] = r
         /\ \A j \in M!IdentityIds \ {i} : mailboxes'[j] = mailboxes[j]
         /\ order' = IF i \in M!Held THEN order ELSE order \cup (M!Held \X {i})
<1>1. /\ mailboxes' = [mailboxes EXCEPT ![i] = r] /\ ~M!Taken(i, r.address)
      /\ order' = IF i \in M!Held THEN order ELSE order \cup (M!Held \X {i})
      /\ addressIndex' = IF adapter = "memory" THEN [addressIndex EXCEPT ![r.address] = i] ELSE addressIndex
      /\ left' = { p \in left \cup (IF mailboxes[i] = Vacant THEN {} ELSE {<<i, mailboxes[i].address>>}) :
                     p # <<i, r.address>> }
  BY DEF M!Put, M!Held, M!Reindex
<1>2. /\ mailboxes'[i] = r /\ \A j \in M!IdentityIds \ {i} : mailboxes'[j] = mailboxes[j]
      /\ mailboxes' \in [M!IdentityIds -> M!Record \cup {Vacant}]
  BY <1>1 DEF StoreFits
<1>3. M!Held' = M!Held \cup {i} /\ M!Held \subseteq M!IdentityIds
  BY <1>2, PagesAreNumbers DEF M!Held
<1>4. \A j, k \in M!Held' : mailboxes'[j].address = mailboxes'[k].address => j = k
  <2>1. \A j \in M!Held \ {i} : mailboxes'[j] = mailboxes[j] /\ mailboxes[j].address # r.address
    BY <1>1, <1>2, <1>3, HeldIsTaken
  <2> QED BY <1>2, <1>3, <2>1 DEF StoreFits
<1>5. /\ order' \subseteq M!Held' \X M!Held' /\ OrderFits'
      /\ \A j, k \in M!Held' : j # k => (<<j, k>> \in order') # (<<k, j>> \in order')
  <2>1. CASE i \in M!Held
    <3>1. M!Held' = M!Held /\ order' = order
      BY <1>1, <1>3, <2>1
    <3> QED BY <3>1 DEF StoreFits, OrderFits, M!IdentityIds
  <2>2. CASE i \notin M!Held
    <3>1. order' = order \cup (M!Held \X {i}) /\ M!Held' = M!Held \cup {i}
      BY <1>1, <1>3, <2>2
    <3>2. \A j, k : <<j, k>> \in order' <=> <<j, k>> \in order \/ (j \in M!Held /\ k = i)
      BY <3>1
    <3>3. \A j, k : <<j, k>> \in order => j \in M!Held /\ k \in M!Held
      BY DEF StoreFits
    <3>4. \A j \in M!IdentityIds : <<j, j>> \notin order'
      BY <2>2, <3>2 DEF StoreFits, OrderFits
    <3>5. \A j, k, l \in M!IdentityIds : <<j, k>> \in order' /\ <<k, l>> \in order' => <<j, l>> \in order'
      BY <2>2, <3>2, <3>3 DEF StoreFits, OrderFits
    <3>6. \A j, k \in M!Held' : j # k => (<<j, k>> \in order') # (<<k, j>> \in order')
      BY <2>2, <3>1, <3>2, <3>3 DEF StoreFits
    <3>7. order' \subseteq M!Held' \X M!Held'
      BY <3>1 DEF StoreFits
    <3> QED BY <3>4, <3>5, <3>6, <3>7 DEF OrderFits, M!IdentityIds
  <2> QED BY <2>1, <2>2
<1>6. IndexFits'
  <2>1. r.address \in M!Addresses /\ \A j \in M!Held : mailboxes[j].address \in M!Addresses
    BY DEF M!Record, StoreFits, M!Held
  <2>2. /\ addressIndex' \in [M!Addresses -> M!IdentityIds \cup {M!NoOne}]
        /\ left' \subseteq M!IdentityIds \X M!Addresses
    <3>1. mailboxes[i] # Vacant => <<i, mailboxes[i].address>> \in M!IdentityIds \X M!Addresses
      BY <2>1 DEF M!Held
    <3>2. addressIndex' \in [M!Addresses -> M!IdentityIds \cup {M!NoOne}]
      BY <1>1 DEF StoreFits, IndexFits
    <3>3. left \subseteq M!IdentityIds \X M!Addresses
      BY DEF StoreFits, IndexFits
    <3> QED BY <1>1, <3>1, <3>2, <3>3
  <2>3. ASSUME adapter = "memory", NEW j \in M!Held' PROVE addressIndex'[mailboxes'[j].address] = j
    <3>1. addressIndex'[r.address] = i /\ \A a \in M!Addresses \ {r.address} : addressIndex'[a] = addressIndex[a]
      BY <1>1, <2>1, <2>3 DEF StoreFits, IndexFits
    <3>2. CASE j = i
      BY <1>2, <3>1, <3>2
    <3>3. CASE j # i
      <4>1. j \in M!Held /\ mailboxes'[j] = mailboxes[j] /\ mailboxes[j].address \in M!Addresses
        BY <1>2, <1>3, <2>1, <3>3
      <4>2. mailboxes[j].address # r.address
        BY <1>1, <3>3, <4>1, HeldIsTaken
      <4>3. addressIndex[mailboxes[j].address] = j
        BY <2>3, <4>1 DEF StoreFits, IndexFits
      <4> QED BY <3>1, <4>1, <4>2, <4>3
    <3> QED BY <3>2, <3>3
  <2>4. ASSUME adapter = "memory", NEW a \in M!Addresses, addressIndex'[a] # M!NoOne
        PROVE  M!Holds(addressIndex[a], a)' \/ <<addressIndex'[a], a>> \in left'
    <3>1. CASE a = r.address
      <4>1. addressIndex'[a] = i /\ mailboxes'[i].address = a /\ mailboxes'[i] # Vacant
        BY <1>1, <1>2, <2>1, <2>4, <3>1, PagesAreNumbers DEF StoreFits, IndexFits
      <4> QED BY <4>1 DEF M!Holds
    <3>2. CASE a # r.address
      <4> DEFINE j == addressIndex[a]
      <4>1. addressIndex'[a] = j /\ (M!Holds(j, a) \/ <<j, a>> \in left) /\ j \in M!IdentityIds
        BY <1>1, <2>4, <3>2 DEF StoreFits, IndexFits
      <4> HIDE DEF j
      <4>2. CASE <<j, a>> \in left
        <5>1. <<j, a>> # <<i, r.address>>
          BY <3>2
        <5> QED BY <1>1, <4>1, <4>2, <5>1
      <4>3. CASE M!Holds(j, a) /\ j = i
        <5>1. <<j, a>> # <<i, r.address>>
          BY <3>2
        <5> QED BY <1>1, <4>1, <4>3, <5>1 DEF M!Holds
      <4>4. CASE M!Holds(j, a) /\ j # i
        BY <1>2, <4>1, <4>4 DEF M!Holds
      <4> QED BY <4>1, <4>2, <4>3, <4>4
    <3> QED BY <3>1, <3>2
  <2>5. UNCHANGED <<M!Addresses, M!IdentityIds, M!NoOne>>
    BY DEF M!Addresses, M!Forms, M!IdentityIds, M!NoOne
  <2> QED BY <2>2, <2>3, <2>4, <2>5 DEF IndexFits
<1>7. StoreFits'
  BY <1>2, <1>4, <1>5, <1>6 DEF StoreFits, M!IdentityIds, M!Record, M!Addresses, M!Forms
<1> QED BY <1>1, <1>2, <1>3, <1>7

\* A record that is taken out takes the entry of its address with it.
LEMMA DeleteKeepsStore ==
  ASSUME StoreFits, UNCHANGED adapter, NEW i \in M!Held, M!Remove(i)
  PROVE  /\ StoreFits' /\ M!Held' = M!Held \ {i}
         /\ mailboxes'[i] = Vacant /\ \A j \in M!IdentityIds \ {i} : mailboxes'[j] = mailboxes[j]
         /\ \A j, k : <<j, k>> \in order' <=> <<j, k>> \in order /\ j # i /\ k # i
<1>1. /\ i \in M!IdentityIds /\ mailboxes' = [mailboxes EXCEPT ![i] = Vacant]
      /\ mailboxes'[i] = Vacant /\ \A j \in M!IdentityIds \ {i} : mailboxes'[j] = mailboxes[j]
      /\ mailboxes' \in [M!IdentityIds -> M!Record \cup {Vacant}]
  <2>1. i \in M!IdentityIds /\ mailboxes' = [mailboxes EXCEPT ![i] = Vacant]
    BY DEF M!Remove, M!Held
  <2> QED BY <2>1 DEF StoreFits
<1>2. M!Held' = M!Held \ {i}
  BY <1>1 DEF M!Held
<1>3. \A j, k : <<j, k>> \in order' <=> <<j, k>> \in order /\ j # i /\ k # i
  BY DEF M!Remove
<1>4. \A j, k \in M!Held' : mailboxes'[j].address = mailboxes'[k].address => j = k
  <2>1. \A j \in M!Held' : j \in M!Held /\ mailboxes'[j] = mailboxes[j]
    BY <1>1, <1>2 DEF M!Held
  <2> QED BY <2>1 DEF StoreFits
<1>5. order' \subseteq M!Held' \X M!Held'
  BY <1>2 DEF StoreFits, M!Remove
<1>6. \A j, k \in M!Held' : j # k => (<<j, k>> \in order') # (<<k, j>> \in order')
  BY <1>2, <1>3 DEF StoreFits
<1>7. OrderFits'
  <2>1. \A j \in M!IdentityIds : <<j, j>> \notin order'
    BY <1>3 DEF StoreFits, OrderFits
  <2>2. \A j, k, l \in M!IdentityIds : <<j, k>> \in order' /\ <<k, l>> \in order' => <<j, l>> \in order'
    BY <1>3 DEF StoreFits, OrderFits
  <2> QED BY <2>1, <2>2 DEF OrderFits, M!IdentityIds
<1>8. IndexFits'
  <2> DEFINE gone == mailboxes[i].address
  <2>1. \A j \in M!Held : mailboxes[j].address \in M!Addresses
    BY DEF M!Record, StoreFits, M!Held
  <2>2. /\ left' = left /\ addressIndex' = IF adapter = "memory" THEN [addressIndex EXCEPT ![gone] = M!NoOne] ELSE addressIndex
        /\ addressIndex' \in [M!Addresses -> M!IdentityIds \cup {M!NoOne}]
    BY DEF M!Remove, M!Reindex, StoreFits, IndexFits
  <2>3. ASSUME adapter = "memory", NEW j \in M!Held' PROVE addressIndex'[mailboxes'[j].address] = j
    <3>1. j \in M!Held /\ j # i /\ mailboxes'[j] = mailboxes[j]
      BY <1>1, <1>2 DEF M!Held
    <3>2. mailboxes[j].address # gone /\ addressIndex[mailboxes[j].address] = j
      BY <2>3, <3>1 DEF StoreFits, IndexFits
    <3> QED BY <2>1, <2>2, <2>3, <3>1, <3>2 DEF StoreFits, IndexFits
  <2>4. ASSUME adapter = "memory", NEW a \in M!Addresses, addressIndex'[a] # M!NoOne
        PROVE  M!Holds(addressIndex[a], a)' \/ <<addressIndex'[a], a>> \in left'
    <3> DEFINE j == addressIndex[a]
    <3>1. a # gone /\ addressIndex'[a] = j
      BY <2>2, <2>4 DEF StoreFits, IndexFits
    <3>2. (M!Holds(j, a) \/ <<j, a>> \in left) /\ j \in M!IdentityIds
      BY <2>4, <3>1 DEF StoreFits, IndexFits
    <3> HIDE DEF j
    <3>3. CASE M!Holds(j, a)
      <4>1. j # i
        BY <3>1, <3>3 DEF M!Holds
      <4> QED BY <1>1, <3>1, <3>2, <3>3, <4>1 DEF M!Holds
    <3>4. CASE <<j, a>> \in left
      BY <2>2, <3>1, <3>4
    <3> QED BY <3>2, <3>3, <3>4
  <2>5. UNCHANGED <<M!Addresses, M!IdentityIds, M!NoOne>>
    BY DEF M!Addresses, M!Forms, M!IdentityIds, M!NoOne
  <2>6. left' \subseteq M!IdentityIds \X M!Addresses
    BY <2>2 DEF StoreFits, IndexFits
  <2> QED BY <2>2, <2>3, <2>4, <2>5, <2>6 DEF IndexFits
<1>9. StoreFits'
  BY <1>1, <1>4, <1>5, <1>6, <1>7, <1>8 DEF StoreFits, M!IdentityIds, M!Record, M!Addresses, M!Forms
<1> QED BY <1>1, <1>2, <1>3, <1>9

\* A step that writes no record.
LEMMA StoreStays ==
  ASSUME UNCHANGED <<adapter, mailboxes, addressIndex, left, order>>
  PROVE  M!Held' = M!Held /\ (StoreFits => StoreFits') /\ (M!LinksFollow => M!LinksFollow')
BY DEF M!Held, StoreFits, OrderFits, IndexFits, M!Holds, M!NoOne, M!IdentityIds, M!Record, M!Addresses, M!Forms, M!LinksFollow

\* A step that leaves the copies alone.
LEMMA CopiesStay ==
  ASSUME UNCHANGED seen
  PROVE  M!Copies' = M!Copies /\ M!Rewrites' = M!Rewrites /\ M!Collisions' = M!Collisions
<1>1. M!Copies' = M!Copies
  BY DEF M!Copies
<1>2. \A i : M!Group(i)' = M!Group(i)
  BY <1>1 DEF M!Group
<1>3. \A i : M!Collides(i)' <=> M!Collides(i)
  BY <1>2 DEF M!Collides
<1>4. M!Rewrites' = M!Rewrites
  BY <1>1, <1>3 DEF M!Rewrites
<1>5. M!Collisions' = M!Collisions
  BY <1>1, <1>2, <1>3 DEF M!Collisions
<1> QED BY <1>1, <1>4, <1>5
-----------------------------------------------------------------------------
(* The calls of owners.                                                    *)

LEMMA WholeFits == \A a : LET r == M!Whole(a) IN r.address = a /\ r.channel = a /\ r.challenge = a
BY DEF M!Whole

LEMMA MigrationBegins == M!Init => MigrationInv
<1> SUFFICES ASSUME M!Init PROVE MigrationInv
  OBVIOUS
<1>1. /\ adapter \in {"memory", "d1"} /\ pc = "idle" /\ cursor = 0
      /\ seen = M!Nothing /\ todo = {} /\ result = [updated |-> {}, collisions |-> {}]
      /\ mailboxes \in [M!IdentityIds -> {M!Whole(a) : a \in M!Addresses} \cup {Vacant}]
      /\ \A i, j \in M!IdentityIds : i # j /\ mailboxes[i] # Vacant => mailboxes[i] # mailboxes[j]
      /\ order = {p \in M!Held \X M!Held : p[1] < p[2]}
      /\ inboxOf = [i \in M!IdentityIds |-> M!InboxOf(mailboxes[i])]
      /\ joined = {} /\ left = {}
      /\ addressIndex = [a \in M!Addresses |->
           IF adapter = "memory" /\ \E i \in M!IdentityIds : M!Holds(i, a)
           THEN CHOOSE i \in M!IdentityIds : M!Holds(i, a) ELSE M!NoOne]
  BY DEF M!Init, M!Unstarted
<1>2. M!Copies = {} /\ seen \in [{} -> M!Record]
  BY <1>1 DEF M!Copies, M!Nothing
<1>3. \A i \in M!Held : \E a \in M!Addresses : mailboxes[i] = M!Whole(a)
  BY <1>1 DEF M!Held
<1>4. StoreFits
  <2>1. \A a \in M!Addresses : M!Whole(a) \in M!Record
    BY DEF M!Whole, M!Record
  <2>2. mailboxes \in [M!IdentityIds -> M!Record \cup {Vacant}]
    BY <1>1, <2>1
  <2>3. ASSUME NEW i \in M!Held, NEW j \in M!Held, mailboxes[i].address = mailboxes[j].address PROVE i = j
    <3>1. PICK a \in M!Addresses : mailboxes[i] = M!Whole(a)
      BY <1>3
    <3>2. PICK b \in M!Addresses : mailboxes[j] = M!Whole(b)
      BY <1>3
    <3>3. mailboxes[i].address = a /\ mailboxes[j].address = b
      BY <3>1, <3>2, WholeFits
    <3> QED BY <1>1, <2>3, <3>1, <3>2, <3>3 DEF M!Held
  <2>4. M!Held \subseteq M!IdentityIds /\ M!IdentityIds \subseteq Nat
    BY PagesAreNumbers DEF M!Held, M!IdentityIds
  <2>5. \A i, j : <<i, j>> \in order <=> i \in M!Held /\ j \in M!Held /\ i < j
    BY <1>1
  <2>6. order \subseteq M!Held \X M!Held
    BY <1>1
  <2>7. \A i, j \in M!Held : i # j => (<<i, j>> \in order) # (<<j, i>> \in order)
    <3>1. ASSUME NEW i \in M!Held, NEW j \in M!Held, i # j PROVE (i < j) # (j < i)
      BY <2>4, <3>1
    <3> QED BY <2>5, <3>1
  <2>8. OrderFits
    <3>1. \A i \in M!IdentityIds : <<i, i>> \notin order
      BY <2>4, <2>5
    <3>2. ASSUME NEW i \in M!IdentityIds, NEW j \in M!IdentityIds, NEW k \in M!IdentityIds,
                 <<i, j>> \in order, <<j, k>> \in order
          PROVE  <<i, k>> \in order
      <4>1. i \in M!Held /\ k \in M!Held /\ i < j /\ j < k
        BY <2>5, <3>2
      <4> QED BY <2>4, <2>5, <4>1
    <3> QED BY <3>1, <3>2 DEF OrderFits
  <2>9. IndexFits
    <3>1. \A a \in M!Addresses : \/ addressIndex[a] = M!NoOne
                                 \/ addressIndex[a] \in M!IdentityIds /\ M!Holds(addressIndex[a], a)
      BY <1>1
    <3>2. addressIndex \in [M!Addresses -> M!IdentityIds \cup {M!NoOne}]
      BY <1>1, <3>1
    <3>3. ASSUME adapter = "memory", NEW i \in M!Held PROVE addressIndex[mailboxes[i].address] = i
      <4> DEFINE a == mailboxes[i].address
      <4>1. a \in M!Addresses /\ i \in M!IdentityIds /\ M!Holds(i, a)
        BY <2>2 DEF M!Held, M!Holds, M!Record
      <4> HIDE DEF a
      <4>2. addressIndex[a] \in M!IdentityIds /\ M!Holds(addressIndex[a], a)
        BY <1>1, <3>3, <4>1
      <4> QED BY <2>3, <4>1, <4>2 DEF M!Holds, M!Held, a
    <3> QED BY <1>1, <3>1, <3>2, <3>3 DEF IndexFits
  <2> QED BY <2>2, <2>3, <2>6, <2>7, <2>8, <2>9 DEF StoreFits
<1>5. RunFits
  BY <1>1, <1>2, PagesAreNumbers DEF RunFits, M!Copies
<1>6. MigrationTyped
  BY <1>1, <1>4, <1>5, TypedParts
<1>7. M!LinksFollow
  <2>1. ASSUME NEW i \in M!Held
        PROVE  mailboxes[i].channel = mailboxes[i].address /\ mailboxes[i].challenge = mailboxes[i].address
    <3>1. PICK a \in M!Addresses : mailboxes[i] = M!Whole(a)
      BY <1>3
    <3> QED BY <3>1, WholeFits
  <2> QED BY <2>1 DEF M!LinksFollow, M!Held
<1>8. M!OwnersWritesStand
  BY <1>1 DEF M!OwnersWritesStand
<1> QED BY <1>1, <1>2, <1>6, <1>7, <1>8 DEF MigrationInv, CopiesFit, RecordsFit, ListingFits, WritingFits,
        M!DoneMeansNormal, M!Running

\* An owner signs up, rotates or deletes.
LEMMA OwnersKeepMigration ==
  ASSUME MigrationInv, NEW i \in M!IdentityIds, M!Live(i), StoreFits',
         \A j \in M!IdentityIds \ {i} : mailboxes'[j] = mailboxes[j],
         mailboxes'[i] = Vacant \/ \E a \in M!Addresses : a.form = "normal" /\ mailboxes'[i] = M!Whole(a),
         joined' = joined \/ (i \notin M!Copies /\ joined' = joined \cup {i}),
         i \notin M!Held /\ mailboxes'[i] # Vacant => i \notin M!Copies /\ (M!Running => i \in joined'),
         i \in M!Held /\ mailboxes'[i] # Vacant => order' = order,
         \A j, k \in M!IdentityIds \ {i} : <<j, k>> \in order' <=> <<j, k>> \in order
  PROVE  MigrationInv'
<1>1. /\ UNCHANGED <<adapter, pc, cursor, seen, todo, result, cut>>
      /\ inboxOf' = [inboxOf EXCEPT ![i] = M!InboxOf(mailboxes'[i])]
      /\ crossed' = IF M!Running /\ i \in M!Copies THEN crossed \cup {i} ELSE crossed \ {i}
  BY DEF M!Live, M!listing
<1>2. M!Copies' = M!Copies /\ M!Rewrites' = M!Rewrites /\ M!Collisions' = M!Collisions
  BY <1>1, CopiesStay
<1>3. /\ M!Running' <=> M!Running
      /\ \A j \in M!IdentityIds \ {i} : /\ j \in M!Held' <=> j \in M!Held
                                        /\ j \in crossed' <=> j \in crossed
                                        /\ j \in joined' <=> j \in joined
      /\ i \in M!Held' <=> mailboxes'[i] # Vacant
      /\ M!Held \subseteq M!IdentityIds /\ M!Held' \subseteq M!IdentityIds
  BY <1>1 DEF M!Running, M!Held, M!IdentityIds
<1>4. MigrationTyped'
  <2>1. RunFits'
    BY <1>1, <1>2 DEF MigrationInv, MigrationTyped, M!TypeOK, RunFits, M!IdentityIds, M!Record, M!Addresses, M!Forms
  <2>2. inboxOf' = [j \in M!IdentityIds |-> inboxOf'[j]]
    BY <1>1 DEF MigrationInv, MigrationTyped
  <2>3. adapter' \in {"memory", "d1"}
    BY <1>1 DEF MigrationInv, MigrationTyped
  <2> QED BY <2>1, <2>2, <2>3, TypedParts DEF MigrationTyped, M!TypeOK, StoreFits, RunFits, IndexFits, M!IdentityIds
<1>5. M!LinksFollow'
  <2>1. ASSUME NEW j \in M!IdentityIds, mailboxes'[j] # Vacant
        PROVE  mailboxes'[j].channel = mailboxes'[j].address /\ mailboxes'[j].challenge = mailboxes'[j].address
    <3>1. CASE j = i
      BY <2>1, <3>1, WholeFits
    <3>2. CASE j # i
      BY <2>1, <3>2 DEF MigrationInv, M!LinksFollow
    <3> QED BY <3>1, <3>2
  <2> QED BY <2>1 DEF M!LinksFollow, M!IdentityIds
<1>6. CopiesFit'
  <2>1. \A j \in M!Copies : seen'[j].channel = seen'[j].address /\ seen'[j].challenge = seen'[j].address
    BY <1>1 DEF MigrationInv, CopiesFit
  <2>2. ASSUME NEW j \in joined', j \in M!Held' PROVE mailboxes'[j].address.form = "normal"
    <3>1. CASE j = i
      BY <1>3, <2>2, <3>1, WholeFits
    <3>2. CASE j # i
      <4>1. j \in M!Held /\ j \in joined /\ mailboxes'[j] = mailboxes[j]
        BY <1>3, <2>2, <3>2
      <4> QED BY <4>1 DEF MigrationInv, CopiesFit
    <3> QED BY <3>1, <3>2
  <2>3. ASSUME NEW j \in joined', j \in M!Copies PROVE seen'[j].address.form = "normal"
    <3>1. j \in joined
      BY <2>3
    <3> QED BY <1>1, <2>3, <3>1 DEF MigrationInv, CopiesFit
  <2> QED BY <1>2, <2>1, <2>2, <2>3 DEF CopiesFit
<1>7. M!OwnersWritesStand'
  <2>1. ASSUME NEW j \in M!IdentityIds, j \notin crossed' PROVE M!InboxOf(mailboxes[j])' = inboxOf'[j]
    <3>1. CASE j = i
      BY <1>1, <3>1 DEF MigrationInv, MigrationTyped, M!InboxOf
    <3>2. CASE j # i
      <4>1. j \notin crossed /\ mailboxes'[j] = mailboxes[j] /\ inboxOf'[j] = inboxOf[j]
        BY <1>1, <1>3, <2>1, <3>2 DEF MigrationInv, MigrationTyped
      <4> QED BY <4>1 DEF MigrationInv, M!OwnersWritesStand, M!InboxOf
    <3> QED BY <3>1, <3>2
  <2> QED BY <2>1 DEF M!OwnersWritesStand, M!IdentityIds
<1>8. RecordsFit'
  <2> SUFFICES ASSUME M!Running, NEW j \in M!Copies, j \notin crossed'
               PROVE  /\ seen[j].address.inbox = inboxOf'[j]
                      /\ mailboxes'[j] = IF pc = "writing" /\ j \in M!Rewrites \ todo THEN M!Rewritten(seen[j]) ELSE seen[j]
    BY <1>1, <1>2, <1>3 DEF RecordsFit, M!Rewritten, M!Normal
  <2>1. j # i /\ j \in M!IdentityIds
    BY <1>1 DEF MigrationInv, MigrationTyped, M!TypeOK
  <2>2. j \notin crossed /\ mailboxes'[j] = mailboxes[j] /\ inboxOf'[j] = inboxOf[j]
    BY <1>1, <1>3, <2>1 DEF MigrationInv, MigrationTyped
  <2> QED BY <2>2 DEF MigrationInv, RecordsFit
<1>9. ListingFits'
  <2> SUFFICES ASSUME pc = "listing"
               PROVE  /\ IF cursor = 0 THEN M!Copies = {} ELSE cursor \in M!Copies
                      /\ adapter = "d1" =>
                           /\ \A j \in M!Copies : j <= cursor
                           /\ \A j \in M!Held' : j <= cursor => j \in M!Copies \cup joined'
                      /\ adapter = "memory" /\ cursor \in M!Held' =>
                           \A j \in M!Held' :
                             /\ j \in M!Copies => j = cursor \/ <<j, cursor>> \in order'
                             /\ j \notin M!Copies => j \in joined' \/ <<cursor, j>> \in order'
    BY <1>1, <1>2 DEF ListingFits
  <2>1. M!Running
    BY DEF M!Running
  <2>2. ASSUME adapter = "d1", NEW j \in M!Held', j <= cursor PROVE j \in M!Copies \cup joined'
    <3>1. CASE j \in M!Held
      BY <2>2, <3>1 DEF MigrationInv, ListingFits
    <3>2. CASE j \notin M!Held
      BY <1>3, <2>1, <3>2
    <3> QED BY <3>1, <3>2
  <2>3. ASSUME adapter = "memory", cursor \in M!Held', NEW j \in M!Held'
        PROVE  /\ j \in M!Copies => j = cursor \/ <<j, cursor>> \in order'
               /\ j \notin M!Copies => j \in joined' \/ <<cursor, j>> \in order'
    <3>1. cursor \in M!IdentityIds /\ cursor # 0 /\ cursor \in M!Copies
      BY <1>3, <2>3, PagesAreNumbers DEF MigrationInv, ListingFits, M!IdentityIds
    <3>2. cursor \in M!Held
      BY <1>3, <2>3, <3>1
    <3>3. CASE j \notin M!Held
      BY <1>3, <2>1, <3>3
    <3>4. CASE j \in M!Held
      <4>1. <<j, cursor>> \in order' <=> <<j, cursor>> \in order
        BY <1>3, <2>3, <3>1, <3>2, <3>4
      <4>2. <<cursor, j>> \in order' <=> <<cursor, j>> \in order
        BY <1>3, <2>3, <3>1, <3>2, <3>4
      <4> QED BY <2>3, <3>2, <3>4, <4>1, <4>2 DEF MigrationInv, ListingFits
    <3> QED BY <3>3, <3>4
  <2> QED BY <2>2, <2>3 DEF MigrationInv, ListingFits
<1>10. WritingFits'
  <2> SUFFICES ASSUME pc = "writing" PROVE ~cut => M!Held' \subseteq M!Copies \cup joined'
    BY <1>1, <1>2 DEF WritingFits, MigrationInv
  <2> SUFFICES ASSUME ~cut, NEW j \in M!Held' PROVE j \in M!Copies \cup joined'
    OBVIOUS
  <2>1. CASE j \in M!Held
    BY <2>1 DEF MigrationInv, WritingFits
  <2>2. CASE j \notin M!Held
    BY <1>3, <2>2 DEF M!Running
  <2> QED BY <2>1, <2>2
<1>11. M!DoneMeansNormal'
  <2> SUFFICES ASSUME pc = "done", ~cut, NEW j \in M!IdentityIds, mailboxes'[j] # Vacant, mailboxes'[j].address.form = "typed"
               PROVE  (\E group \in result.collisions : j \in group) \/ j \in crossed'
    BY <1>1 DEF M!DoneMeansNormal, M!IdentityIds
  <2>1. j # i
    BY WholeFits
  <2>2. mailboxes'[j] = mailboxes[j] /\ (j \in crossed' <=> j \in crossed)
    BY <1>3, <2>1
  <2> QED BY <2>2 DEF MigrationInv, M!DoneMeansNormal
<1> QED BY <1>4, <1>5, <1>6, <1>7, <1>8, <1>9, <1>10, <1>11 DEF MigrationInv

LEMMA CallsKeepMigration ==
  ASSUME MigrationInv, NEW i \in M!IdentityIds,
         M!Delete(i) \/ \E inbox \in Inboxes : M!SignUp(i, inbox) \/ M!Rotate(i, inbox)
  PROVE  MigrationInv'
<1>1. StoreFits /\ M!Held \subseteq M!IdentityIds
  BY TypedParts DEF MigrationInv, M!Held
<1>2. CASE M!Delete(i)
  <2>1. i \in M!Held /\ M!Remove(i) /\ M!Live(i) /\ joined' = joined /\ UNCHANGED adapter
    BY <1>2 DEF M!Delete, M!Held, M!Live
  <2> QED BY <1>1, <2>1, DeleteKeepsStore, OwnersKeepMigration
<1>3. ASSUME NEW inbox \in Inboxes, M!SignUp(i, inbox) \/ M!Rotate(i, inbox) PROVE MigrationInv'
  <2> DEFINE a == [inbox |-> inbox, form |-> "normal"]
  <2>1. /\ M!Put(i, M!Whole(a)) /\ M!Live(i)
        /\ \/ i \in M!Held /\ joined' = joined
           \/ /\ i \notin M!Held /\ i \notin M!Copies
              /\ joined' = IF M!Running THEN joined \cup {i} ELSE joined
        /\ UNCHANGED adapter /\ adapter \in {"memory", "d1"}
    BY <1>3 DEF M!SignUp, M!Rotate, M!Keep, M!Held, M!Live, MigrationInv, MigrationTyped
  <2>2. a \in M!Addresses /\ a.form = "normal" /\ M!Whole(a) \in M!Record
    BY DEF M!Addresses, M!Forms, M!Whole, M!Record
  <2> HIDE DEF a
  <2>3. /\ StoreFits' /\ mailboxes'[i] = M!Whole(a)
        /\ \A j \in M!IdentityIds \ {i} : mailboxes'[j] = mailboxes[j]
        /\ order' = IF i \in M!Held THEN order ELSE order \cup (M!Held \X {i})
    BY <1>1, <2>1, <2>2, PutKeepsStore
  <2>4. \A j, k \in M!IdentityIds \ {i} : <<j, k>> \in order' <=> <<j, k>> \in order
    BY <2>3
  <2> QED BY <2>1, <2>2, <2>3, <2>4, OwnersKeepMigration
<1> QED BY <1>2, <1>3
-----------------------------------------------------------------------------
(* A run.                                                                  *)

LEMMA StartKeepsMigration ==
  ASSUME MigrationInv, M!Start
  PROVE  MigrationInv'
<1>1. /\ pc' = "listing" /\ cursor' = 0 /\ seen' = M!Nothing /\ todo' = {}
      /\ result' = [updated |-> {}, collisions |-> {}] /\ joined' = {} /\ cut' = FALSE
      /\ crossed' = {i \in crossed : M!InboxOf(mailboxes[i]) # inboxOf[i]}
      /\ UNCHANGED <<adapter, mailboxes, addressIndex, order, left, live, inboxOf>>
  BY DEF M!Start, M!StartEmpty, M!store
<1>2. M!Copies' = {} /\ seen' \in [{} -> M!Record]
  BY <1>1 DEF M!Copies, M!Nothing
<1>3. M!Held' = M!Held /\ StoreFits' /\ M!LinksFollow'
  BY <1>1, StoreStays, TypedParts DEF MigrationInv
<1>4. MigrationTyped'
  <2>1. M!Copies' \subseteq M!IdentityIds /\ (seen \in [M!Copies -> M!Record])'
    BY <1>2 DEF M!Record, M!Addresses, M!Forms
  <2>2. RunFits'
    BY <1>1, <2>1, PagesAreNumbers DEF RunFits, M!IdentityIds
  <2>3. adapter' \in {"memory", "d1"} /\ inboxOf' = [j \in M!IdentityIds |-> inboxOf'[j]]
    BY <1>1 DEF MigrationInv, MigrationTyped
  <2> QED BY <1>3, <2>2, <2>3, TypedParts DEF MigrationTyped, M!TypeOK, StoreFits, RunFits, IndexFits, M!IdentityIds
<1>5. CopiesFit'
  BY <1>1, <1>2 DEF CopiesFit
<1>6. M!OwnersWritesStand'
  <2>1. ASSUME NEW j \in M!IdentityIds, j \notin crossed' PROVE M!InboxOf(mailboxes[j]) = inboxOf[j]
    BY <1>1, <2>1 DEF MigrationInv, M!OwnersWritesStand
  <2> QED BY <1>1, <2>1 DEF M!OwnersWritesStand, M!IdentityIds, M!InboxOf
<1>7. RecordsFit'
  BY <1>2 DEF RecordsFit
<1>8. ListingFits'
  <2>1. M!Held \subseteq M!IdentityIds /\ M!IdentityIds \subseteq Nat \ {0}
    BY PagesAreNumbers DEF M!Held, M!IdentityIds
  <2>2. ASSUME NEW j \in M!Held, j <= 0 PROVE FALSE
    BY <2>1, <2>2
  <2>3. 0 \notin M!Held
    BY <2>1
  <2> QED BY <1>1, <1>2, <1>3, <2>2, <2>3 DEF ListingFits
<1> QED BY <1>1, <1>3, <1>4, <1>5, <1>6, <1>7, <1>8 DEF MigrationInv, WritingFits, M!DoneMeansNormal

\* The end of a run, and what stops it.
LEMMA EndsKeepMigration ==
  ASSUME MigrationInv, M!Finish \/ M!Stop \/ \E i \in M!IdentityIds : M!Refuse(i)
  PROVE  MigrationInv'
<1>1. /\ UNCHANGED <<adapter, mailboxes, addressIndex, order, left, cursor, seen, todo, result, live, inboxOf, crossed, joined, cut>>
      /\ pc' \in {"done", "idle", "failed"} /\ (pc' = "done" => pc = "writing" /\ todo = {})
  BY DEF M!Finish, M!Stop, M!Refuse, M!listing, M!store
<1>2. M!Copies' = M!Copies /\ M!Rewrites' = M!Rewrites /\ M!Collisions' = M!Collisions
  BY <1>1, CopiesStay
<1>3. M!Held' = M!Held /\ StoreFits' /\ M!LinksFollow'
  BY <1>1, StoreStays, TypedParts DEF MigrationInv
<1>4. MigrationTyped'
  <2>1. RunFits'
    BY <1>1, <1>2 DEF MigrationInv, MigrationTyped, M!TypeOK, RunFits, M!IdentityIds, M!Record, M!Addresses, M!Forms
  <2>2. adapter' \in {"memory", "d1"} /\ inboxOf' = [j \in M!IdentityIds |-> inboxOf'[j]]
    BY <1>1 DEF MigrationInv, MigrationTyped
  <2> QED BY <1>3, <2>1, <2>2, TypedParts DEF MigrationTyped, M!TypeOK, StoreFits, RunFits, IndexFits, M!IdentityIds
<1>5. CopiesFit' /\ M!OwnersWritesStand'
  BY <1>1, <1>2, <1>3 DEF MigrationInv, CopiesFit, M!OwnersWritesStand, M!InboxOf, M!IdentityIds
<1>6. ~M!Running' /\ ListingFits' /\ WritingFits'
  BY <1>1 DEF M!Running, ListingFits, WritingFits
<1>7. M!DoneMeansNormal'
  <2> SUFFICES ASSUME pc' = "done", ~cut, NEW j \in M!IdentityIds, mailboxes[j] # Vacant,
                      mailboxes[j].address.form = "typed", j \notin crossed
               PROVE  \E group \in result.collisions : j \in group
    BY <1>1 DEF M!DoneMeansNormal, M!IdentityIds
  <2>1. pc = "writing" /\ todo = {} /\ M!Running
    BY <1>1 DEF M!Running
  <2>2. j \in M!Held
    BY DEF M!Held
  <2>3. j \in M!Copies
    <3>1. j \notin joined
      BY <2>2 DEF MigrationInv, CopiesFit
    <3> QED BY <2>1, <2>2, <3>1 DEF MigrationInv, WritingFits
  <2>4. mailboxes[j] = IF j \in M!Rewrites THEN M!Rewritten(seen[j]) ELSE seen[j]
    BY <2>1, <2>3 DEF MigrationInv, RecordsFit
  <2>5. seen[j].address \in M!Addresses
    BY <2>3 DEF MigrationInv, MigrationTyped, M!TypeOK, M!Record
  <2>6. j \notin M!Rewrites
    <3>1. M!Rewritten(seen[j]).address.form = "normal"
      BY <2>5 DEF M!Rewritten, M!Normal, M!Addresses
    <3> QED BY <2>4, <3>1
  <2>7. M!Collides(j) /\ seen[j].address.form = "typed"
    BY <2>3, <2>4, <2>6 DEF M!Rewrites
  <2>8. j \in M!Group(j) /\ M!Group(j) \in M!Collisions
    BY <2>3, <2>7 DEF M!Group, M!Collisions, M!SameInbox
  <2> QED BY <2>1, <2>8 DEF MigrationInv, WritingFits
<1> QED BY <1>3, <1>4, <1>5, <1>6, <1>7 DEF MigrationInv, RecordsFit

\* A copy is written over what its owner did since.
LEMMA WriteKeepsMigration ==
  ASSUME MigrationInv, NEW i \in M!IdentityIds, M!Write(i)
  PROVE  MigrationInv'
<1> DEFINE r == M!Rewritten(seen[i])
<1>1. /\ pc = "writing" /\ i \in todo /\ M!Put(i, r)
      /\ result' = [result EXCEPT !.updated = @ \cup {i}] /\ todo' = todo \ {i}
      /\ UNCHANGED <<adapter, pc, cursor, seen, live, inboxOf, crossed, joined, cut>>
  BY DEF M!Write
<1>2. /\ StoreFits /\ RunFits /\ i \in M!Copies /\ seen[i] \in M!Record /\ i \in M!Rewrites
      /\ seen[i].channel = seen[i].address /\ seen[i].challenge = seen[i].address
      /\ adapter \in {"memory", "d1"}
  BY <1>1, TypedParts DEF MigrationInv, RunFits, CopiesFit, WritingFits
<1>3. /\ r \in M!Record /\ r.channel = r.address /\ r.challenge = r.address
      /\ r.address.form = "normal" /\ r.address.inbox = seen[i].address.inbox
  <2>1. seen[i].address \in M!Addresses
    BY <1>2 DEF M!Record
  <2>2. /\ M!Normal(seen[i].address) \in M!Addresses /\ M!Normal(seen[i].address).form = "normal"
        /\ M!Normal(seen[i].address).inbox = seen[i].address.inbox
    BY <2>1 DEF M!Normal, M!Addresses, M!Forms
  <2>3. r = [address |-> M!Normal(seen[i].address), channel |-> M!Normal(seen[i].address),
             challenge |-> M!Normal(seen[i].address)]
    BY <1>2 DEF M!Rewritten
  <2> QED BY <2>2, <2>3 DEF M!Record
<1> HIDE DEF r
<1>4. /\ StoreFits' /\ M!Held' = M!Held \cup {i} /\ mailboxes'[i] = r
      /\ \A j \in M!IdentityIds \ {i} : mailboxes'[j] = mailboxes[j]
  BY <1>1, <1>2, <1>3, PutKeepsStore
<1>5. M!Copies' = M!Copies /\ M!Rewrites' = M!Rewrites /\ M!Collisions' = M!Collisions
  BY <1>1, CopiesStay
<1>6. MigrationTyped'
  <2>1. RunFits'
    <3>1. result' = [updated |-> result.updated \cup {i}, collisions |-> result.collisions]
      BY <1>1, <1>2 DEF RunFits
    <3>2. /\ result' = [updated |-> result'.updated, collisions |-> result'.collisions]
          /\ result'.updated = result.updated \cup {i} /\ result'.collisions = result.collisions
      BY <3>1
    <3>3. result'.updated \subseteq M!Copies /\ \A group \in result'.collisions : \E j, k \in group : j # k
      BY <1>2, <3>2 DEF RunFits
    <3>4. M!Copies' \subseteq M!IdentityIds /\ (seen \in [M!Copies -> M!Record])' /\ todo' \subseteq M!Copies
      BY <1>1, <1>2, <1>5 DEF RunFits, M!Record, M!Addresses, M!Forms
    <3> QED BY <1>1, <1>2, <1>5, <3>2, <3>3, <3>4 DEF RunFits, M!IdentityIds
  <2>2. adapter' \in {"memory", "d1"} /\ inboxOf' = [j \in M!IdentityIds |-> inboxOf'[j]]
    BY <1>1 DEF MigrationInv, MigrationTyped
  <2> QED BY <1>4, <2>1, <2>2, TypedParts DEF MigrationTyped, M!TypeOK, StoreFits, RunFits, IndexFits, M!IdentityIds
<1>7. M!LinksFollow'
  <2>1. ASSUME NEW j \in M!IdentityIds, mailboxes'[j] # Vacant
        PROVE  mailboxes'[j].channel = mailboxes'[j].address /\ mailboxes'[j].challenge = mailboxes'[j].address
    <3>1. CASE j = i
      BY <1>3, <1>4, <3>1
    <3>2. CASE j # i
      BY <1>4, <2>1, <3>2 DEF MigrationInv, M!LinksFollow
    <3> QED BY <3>1, <3>2
  <2> QED BY <2>1 DEF M!LinksFollow, M!IdentityIds
<1>8. CopiesFit'
  <2>1. ASSUME NEW j \in joined, j \in M!Held' PROVE mailboxes'[j].address.form = "normal"
    <3>1. CASE j = i
      BY <1>3, <1>4, <3>1
    <3>2. CASE j # i
      <4>1. j \in M!Held /\ j \in M!IdentityIds
        BY <1>4, <2>1, <3>2 DEF M!Held
      <4> QED BY <1>4, <3>2, <4>1 DEF MigrationInv, CopiesFit
    <3> QED BY <3>1, <3>2
  <2> QED BY <1>1, <1>5, <2>1 DEF MigrationInv, CopiesFit
<1>9. RecordsFit'
  <2>1. M!Running
    BY <1>1 DEF M!Running
  <2> SUFFICES ASSUME NEW j \in M!Copies, j \notin crossed
               PROVE  /\ seen[j].address.inbox = inboxOf[j]
                      /\ mailboxes'[j] = IF j \in M!Rewrites \ todo' THEN M!Rewritten(seen[j]) ELSE seen[j]
    BY <1>1, <1>5 DEF RecordsFit, M!Rewritten, M!Normal
  <2>2. /\ seen[j].address.inbox = inboxOf[j]
        /\ mailboxes[j] = IF j \in M!Rewrites \ todo THEN M!Rewritten(seen[j]) ELSE seen[j]
    BY <1>1, <2>1 DEF MigrationInv, RecordsFit
  <2>3. CASE j = i
    BY <1>1, <1>2, <1>4, <2>2, <2>3 DEF r
  <2>4. CASE j # i
    <3>1. j \in M!IdentityIds
      BY <1>2 DEF RunFits
    <3> QED BY <1>1, <1>4, <2>2, <2>4, <3>1
  <2> QED BY <2>3, <2>4
<1>10. M!OwnersWritesStand'
  <2>1. ASSUME NEW j \in M!IdentityIds, j \notin crossed PROVE M!InboxOf(mailboxes[j])' = inboxOf[j]
    <3>1. CASE j = i
      <4>1. seen[i].address.inbox = inboxOf[i]
        BY <1>1, <1>2, <2>1, <3>1 DEF MigrationInv, RecordsFit, M!Running
      <4>2. r # Vacant
        BY <1>3, PagesAreNumbers
      <4> QED BY <1>3, <1>4, <3>1, <4>1, <4>2 DEF M!InboxOf
    <3>2. CASE j # i
      BY <1>4, <2>1, <3>2 DEF MigrationInv, M!OwnersWritesStand, M!InboxOf
    <3> QED BY <3>1, <3>2
  <2> QED BY <1>1, <2>1 DEF M!OwnersWritesStand, M!IdentityIds
<1>11. ListingFits' /\ M!DoneMeansNormal'
  BY <1>1 DEF ListingFits, M!DoneMeansNormal
<1>12. WritingFits'
  <2>1. result'.collisions = result.collisions
    <3>1. result' = [result EXCEPT !.updated = @ \cup {i}]
      BY <1>1
    <3> QED BY <3>1
  <2>2. todo \subseteq M!Rewrites /\ result.collisions = M!Collisions /\ (~cut => M!Held \subseteq M!Copies \cup joined)
    BY <1>1 DEF MigrationInv, WritingFits
  <2> QED BY <1>1, <1>2, <1>4, <1>5, <2>1, <2>2 DEF WritingFits
<1> QED BY <1>6, <1>7, <1>8, <1>9, <1>10, <1>11, <1>12 DEF MigrationInv
-----------------------------------------------------------------------------
(* A page of the listing.                                                  *)

\* What is not on a page comes after all of it.
LEMMA PageFits ==
  ASSUME MigrationInv, NEW listed, M!IsPage(listed, cursor)
  PROVE  /\ listed \subseteq M!From(cursor) /\ M!From(cursor) \subseteq M!Held /\ M!Held \subseteq M!IdentityIds
         /\ \A i \in listed, j \in M!From(cursor) \ listed : M!Precedes(i, j)
         /\ listed = M!From(cursor) \/ \A c : \E i \in listed : i # c
<1>1. listed \subseteq M!From(cursor) /\ \A i \in listed, j \in M!From(cursor) \ listed : M!Precedes(i, j)
  BY DEF M!IsPage
<1>2. M!From(cursor) \subseteq M!Held /\ M!Held \subseteq M!IdentityIds
  <2>1. M!Held \subseteq M!IdentityIds
    BY DEF M!Held
  <2>2. CASE adapter = "d1"
    BY <2>1, <2>2 DEF M!From
  <2>3. CASE adapter # "d1" /\ cursor = 0
    BY <2>1, <2>3 DEF M!From
  <2>4. CASE adapter # "d1" /\ cursor # 0
    BY <2>1, <2>4 DEF M!From
  <2> QED BY <2>2, <2>3, <2>4, <2>1
<1>3. CASE M!Cardinality(listed) = PageSize
  <2>1. \A c : \E i \in listed : i # c
    BY <1>1, <1>2, <1>3, FullPageHoldsTwo
  <2> QED BY <1>1, <1>2, <2>1
<1>4. CASE listed = M!From(cursor)
  BY <1>1, <1>2, <1>4
<1> QED BY <1>3, <1>4 DEF M!IsPage

\* A page that shows nobody new is the last one.
LEMMA LastPageFits ==
  ASSUME MigrationInv, pc = "listing", NEW listed, M!IsPage(listed, cursor), listed \subseteq M!Copies,
         ~(adapter = "memory" /\ cursor \notin M!Held \cup {0})
  PROVE  M!Held \subseteq M!Copies \cup joined
<1> SUFFICES ASSUME NEW j \in M!Held, j \notin M!Copies, j \notin joined PROVE FALSE
  OBVIOUS
<1>1. /\ listed \subseteq M!From(cursor) /\ M!From(cursor) \subseteq M!Held /\ M!Held \subseteq M!IdentityIds
      /\ listed = M!From(cursor) \/ \A c : \E i \in listed : i # c
  BY PageFits
<1>2. /\ IF cursor = 0 THEN M!Copies = {} ELSE cursor \in M!Copies
      /\ adapter = "d1" =>
           /\ \A i \in M!Copies : i <= cursor
           /\ \A i \in M!Held : i <= cursor => i \in M!Copies \cup joined
      /\ adapter = "memory" /\ cursor \in M!Held =>
           \A i \in M!Held :
             /\ i \in M!Copies => i = cursor \/ <<i, cursor>> \in order
             /\ i \notin M!Copies => i \in joined \/ <<cursor, i>> \in order
      /\ StoreFits /\ adapter \in {"memory", "d1"}
  BY TypedParts DEF MigrationInv, ListingFits
<1>3. cursor \in Nat /\ M!IdentityIds \subseteq Nat
  BY PagesAreNumbers, TypedParts DEF MigrationInv, RunFits, M!IdentityIds
<1>4. CASE adapter = "d1"
  <2>1. M!From(cursor) = {i \in M!Held : i > cursor}
    BY <1>4 DEF M!From
  <2>2. j > cursor
    BY <1>1, <1>2, <1>3, <1>4
  <2>3. PICK i \in listed : TRUE
    BY <1>1, <2>1, <2>2
  <2>4. i \in Nat /\ i > cursor /\ i <= cursor
    BY <1>1, <1>2, <1>3, <1>4, <2>1, <2>3
  <2> QED BY <1>3, <2>4
<1>5. CASE adapter = "memory" /\ cursor = 0
  <2>1. M!From(cursor) = M!Held /\ listed = {}
    BY <1>2, <1>5 DEF M!From
  <2> QED BY <1>1, <2>1
<1>6. CASE adapter = "memory" /\ cursor \in M!Held
  <2>1. cursor # 0
    BY <1>1, <1>6, PagesAreNumbers DEF M!IdentityIds
  <2>2. M!From(cursor) = {i \in M!Held : i = cursor \/ <<cursor, i>> \in order}
    BY <1>6, <2>1 DEF M!From
  <2>3. <<cursor, j>> \in order
    BY <1>2, <1>6
  <2>4. PICK i \in listed : i # cursor
    BY <1>1, <2>2, <2>3
  <2>5. i \in M!Held /\ i \in M!Copies /\ <<cursor, i>> \in order
    BY <1>1, <2>2, <2>4
  <2>6. <<i, cursor>> \in order
    BY <1>2, <1>6, <2>4, <2>5
  <2> QED BY <1>2, <1>6, <2>4, <2>5, <2>6 DEF StoreFits
<1> QED BY <1>2, <1>4, <1>5, <1>6

\* What is behind the last one of a page was not read yet.
LEMMA NextPageFits ==
  ASSUME MigrationInv, pc = "listing", NEW listed, M!IsPage(listed, cursor),
         NEW last \in listed \ M!Copies, \A i \in (listed \ M!Copies) \ {last} : M!Precedes(i, last),
         NEW copies, copies = M!Copies \cup listed
  PROVE  /\ last # 0
         /\ adapter = "d1" =>
              /\ \A i \in copies : i <= last
              /\ \A i \in M!Held : i <= last => i \in copies \cup joined
         /\ adapter = "memory" =>
              \A i \in M!Held :
                /\ i \in copies => i = last \/ <<i, last>> \in order
                /\ i \notin copies => i \in joined \/ <<last, i>> \in order
<1>1. /\ listed \subseteq M!From(cursor) /\ M!From(cursor) \subseteq M!Held /\ M!Held \subseteq M!IdentityIds
      /\ \A i \in listed, j \in M!From(cursor) \ listed : M!Precedes(i, j)
  BY PageFits
<1>2. /\ IF cursor = 0 THEN M!Copies = {} ELSE cursor \in M!Copies
      /\ adapter = "d1" =>
           /\ \A i \in M!Copies : i <= cursor
           /\ \A i \in M!Held : i <= cursor => i \in M!Copies \cup joined
      /\ adapter = "memory" /\ cursor \in M!Held =>
           \A i \in M!Held :
             /\ i \in M!Copies => i = cursor \/ <<i, cursor>> \in order
             /\ i \notin M!Copies => i \in joined \/ <<cursor, i>> \in order
      /\ StoreFits /\ M!Copies \subseteq M!IdentityIds
  BY TypedParts DEF MigrationInv, ListingFits, RunFits
<1>3. cursor \in Nat /\ M!IdentityIds \subseteq Nat \ {0} /\ last \in M!Held /\ last \in M!From(cursor)
  BY <1>1, PagesAreNumbers, TypedParts DEF MigrationInv, RunFits, M!IdentityIds
<1>4. ASSUME adapter = "d1"
      PROVE  /\ \A i \in copies : i <= last
             /\ \A i \in M!Held : i <= last => i \in copies \cup joined
  <2>1. M!From(cursor) = {i \in M!Held : i > cursor} /\ \A i, j : M!Precedes(i, j) <=> i < j
    BY <1>4 DEF M!From, M!Precedes
  <2>2. last > cursor /\ last \in Nat
    BY <1>1, <1>3, <2>1
  <2>3. ASSUME NEW i \in copies PROVE i <= last
    <3>1. i \in Nat
      BY <1>1, <1>2, <1>3
    <3>2. CASE i \in M!Copies
      BY <1>2, <1>3, <1>4, <2>2, <3>1, <3>2
    <3>3. CASE i \notin M!Copies
      BY <1>3, <2>1, <2>2, <3>1, <3>3
    <3> QED BY <3>2, <3>3
  <2>4. ASSUME NEW i \in M!Held, i <= last PROVE i \in copies \cup joined
    <3>1. i \in Nat
      BY <1>1, <1>3
    <3>2. CASE i <= cursor
      BY <1>2, <1>4, <3>2
    <3>3. CASE i > cursor
      <4>1. i \in M!From(cursor)
        BY <2>1, <3>3
      <4>2. i \in listed
        BY <1>1, <1>3, <2>1, <2>4, <3>1, <4>1
      <4> QED BY <4>2
    <3> QED BY <1>3, <3>1, <3>2, <3>3
  <2> QED BY <2>3, <2>4
<1>5. ASSUME adapter = "memory", NEW i \in M!Held
      PROVE  /\ i \in copies => i = last \/ <<i, last>> \in order
             /\ i \notin copies => i \in joined \/ <<last, i>> \in order
  <2>1. /\ M!From(cursor) = IF cursor = 0 THEN M!Held
                            ELSE {j \in M!Held : cursor \in M!Held /\ (j = cursor \/ <<cursor, j>> \in order)}
        /\ \A j, k : M!Precedes(j, k) <=> <<j, k>> \in order
    BY <1>5 DEF M!From, M!Precedes
  <2>2. ASSUME i \in listed, i \notin M!Copies PROVE i = last \/ <<i, last>> \in order
    BY <2>1, <2>2
  <2>3. ASSUME i \in M!From(cursor), i \notin listed PROVE <<last, i>> \in order
    BY <1>1, <2>1, <2>3
  <2>4. CASE cursor = 0
    BY <1>2, <2>1, <2>2, <2>3, <2>4
  <2>5. CASE cursor # 0
    <3>1. cursor \in M!Held /\ cursor \in M!Copies /\ last # cursor /\ <<cursor, last>> \in order
      BY <1>2, <1>3, <2>1, <2>5
    <3>2. ASSUME i \in M!Copies PROVE <<i, last>> \in order
      <4>1. i = cursor \/ <<i, cursor>> \in order
        BY <1>2, <1>5, <3>1, <3>2
      <4> QED BY <1>1, <1>2, <1>3, <3>1, <4>1 DEF StoreFits, OrderFits
    <3>3. ASSUME i \notin copies PROVE i \in joined \/ <<last, i>> \in order
      <4>1. i \in joined \/ i \in M!From(cursor)
        BY <1>2, <1>5, <2>1, <2>5, <3>1, <3>3
      <4> QED BY <2>3, <3>3, <4>1
    <3> QED BY <2>2, <3>2, <3>3
  <2> QED BY <2>4, <2>5
<1> QED BY <1>3, <1>4, <1>5, <1>1
-----------------------------------------------------------------------------
LEMMA PageKeepsMigration ==
  ASSUME MigrationInv, M!ReadPage
  PROVE  MigrationInv'
<1>1. PICK listed \in SUBSET M!IdentityIds :
        /\ M!IsPage(listed, cursor)
        /\ LET page == M!Unseen(listed) IN
           IF M!IsLast(page)
           THEN /\ pc' = "writing" /\ todo' = M!Rewrites
                /\ result' = [result EXCEPT !.collisions = M!Collisions]
                /\ cut' = (adapter = "memory" /\ cursor \notin M!Held \cup {0})
                /\ UNCHANGED <<cursor, seen>>
           ELSE /\ seen' = [i \in M!Copies \cup page |-> IF i \in page THEN mailboxes[i] ELSE seen[i]]
                /\ cursor' \in page /\ \A i \in page \ {cursor'} : M!Precedes(i, cursor')
                /\ UNCHANGED <<pc, todo, result, cut>>
  BY DEF M!ReadPage
<1> DEFINE page == listed \ M!Copies
<1>2. /\ pc = "listing" /\ M!Running
      /\ UNCHANGED <<adapter, mailboxes, addressIndex, order, left, live, inboxOf, crossed, joined>>
  BY DEF M!ReadPage, M!Running, M!store
<1>3. /\ M!Held' = M!Held /\ StoreFits' /\ M!LinksFollow' /\ StoreFits /\ RunFits
      /\ adapter' \in {"memory", "d1"} /\ inboxOf' = [j \in M!IdentityIds |-> inboxOf'[j]]
  <2>1. adapter' \in {"memory", "d1"} /\ inboxOf' = [j \in M!IdentityIds |-> inboxOf'[j]]
    BY <1>2 DEF MigrationInv, MigrationTyped
  <2> QED BY <1>2, <2>1, StoreStays, TypedParts DEF MigrationInv
<1>4. M!OwnersWritesStand'
  BY <1>2 DEF MigrationInv, M!OwnersWritesStand, M!InboxOf, M!IdentityIds
<1>5. CASE page = {}
  <2>1. /\ pc' = "writing" /\ todo' = M!Rewrites
        /\ result' = [result EXCEPT !.collisions = M!Collisions]
        /\ cut' = (adapter = "memory" /\ cursor \notin M!Held \cup {0})
        /\ UNCHANGED <<cursor, seen>>
    BY <1>1, <1>5 DEF M!Unseen, M!IsLast
  <2>2. M!Copies' = M!Copies /\ M!Rewrites' = M!Rewrites /\ M!Collisions' = M!Collisions
    BY <2>1, CopiesStay
  <2>3. result' = [updated |-> result.updated, collisions |-> M!Collisions]
    BY <1>3, <2>1 DEF RunFits
  <2>4. \A group \in M!Collisions : \E i, j \in group : i # j
    <3> SUFFICES ASSUME NEW i \in M!Copies, M!Collides(i) PROVE \E j, k \in M!Group(i) : j # k
      BY DEF M!Collisions
    <3>1. PICK j \in M!Group(i) : j # i
      BY DEF M!Collides
    <3>2. i \in M!Group(i)
      BY <3>1 DEF M!Group, M!SameInbox
    <3> QED BY <3>1, <3>2
  <2>5. RunFits'
    <3>1. /\ result' = [updated |-> result'.updated, collisions |-> result'.collisions]
          /\ result'.updated = result.updated /\ result'.collisions = M!Collisions
      BY <2>3
    <3>2. /\ M!Copies' \subseteq M!IdentityIds /\ (seen \in [M!Copies -> M!Record])'
          /\ M!Rewrites \subseteq M!Copies /\ result.updated \subseteq M!Copies /\ cursor \in 0..MaxId
      BY <1>3, <2>1, <2>2 DEF RunFits, M!Record, M!Addresses, M!Forms, M!Rewrites
    <3> QED BY <2>1, <2>2, <2>4, <3>1, <3>2 DEF RunFits, M!IdentityIds
  <2>6. MigrationTyped'
    BY <1>3, <2>5, TypedParts DEF MigrationTyped, M!TypeOK, StoreFits, RunFits, IndexFits, M!IdentityIds
  <2>7. CopiesFit'
    BY <1>2, <1>3, <2>1, <2>2 DEF MigrationInv, CopiesFit
  <2>8. RecordsFit'
    <3>1. \A j \in M!Copies \ crossed : seen[j].address.inbox = inboxOf[j] /\ mailboxes[j] = seen[j]
      BY <1>2 DEF MigrationInv, RecordsFit
    <3>2. \A j : j \notin M!Rewrites' \ todo'
      BY <2>1, <2>2
    <3> QED BY <1>2, <2>1, <2>2, <3>1, <3>2 DEF RecordsFit
  <2>9. WritingFits'
    <3>1. cut' \/ M!Held \subseteq M!Copies \cup joined
      BY <1>1, <1>2, <1>5, <2>1, LastPageFits
    <3> QED BY <1>2, <1>3, <2>1, <2>2, <2>3, <3>1 DEF WritingFits
  <2> QED BY <1>3, <1>4, <2>1, <2>6, <2>7, <2>8, <2>9 DEF MigrationInv, ListingFits, M!DoneMeansNormal
<1>6. CASE page # {}
  <2>1. /\ seen' = [i \in M!Copies \cup page |-> IF i \in page THEN mailboxes[i] ELSE seen[i]]
        /\ cursor' \in page /\ \A i \in page \ {cursor'} : M!Precedes(i, cursor')
        /\ UNCHANGED <<pc, todo, result, cut>>
    BY <1>1, <1>6 DEF M!Unseen, M!IsLast
  <2>2. listed \subseteq M!Held /\ M!Held \subseteq M!IdentityIds
    BY <1>1, PageFits
  <2>3. /\ M!Copies' = M!Copies \cup page /\ \A i \in page : seen'[i] = mailboxes[i] /\ i \in M!Held /\ mailboxes[i] \in M!Record
        /\ \A i \in M!Copies : seen'[i] = seen[i] /\ seen[i] \in M!Record
    <3>1. \A i \in page : i \in M!Held /\ mailboxes[i] \in M!Record
      BY <1>3, <2>2 DEF StoreFits, M!Held
    <3> QED BY <1>3, <2>1, <3>1 DEF M!Copies, RunFits
  <2> HIDE DEF page
  <2>4. RunFits'
    <3>1. \A i \in M!Copies \cup page : (IF i \in page THEN mailboxes[i] ELSE seen[i]) \in M!Record
      BY <2>3
    <3>2. /\ M!Copies' \subseteq M!IdentityIds /\ (seen \in [M!Copies -> M!Record])'
      BY <1>3, <2>1, <2>2, <2>3, <3>1 DEF RunFits, M!Record, M!Addresses, M!Forms, page
    <3>3. cursor' \in 0..MaxId
      <4>1. page \subseteq M!IdentityIds
        BY <2>2 DEF page
      <4>2. cursor' \in M!IdentityIds
        BY <2>1, <4>1
      <4> QED BY <4>2, PagesAreNumbers DEF M!IdentityIds
    <3> QED BY <1>3, <2>1, <2>3, <3>2, <3>3 DEF RunFits, M!IdentityIds
  <2>5. MigrationTyped'
    BY <1>3, <2>4, TypedParts DEF MigrationTyped, M!TypeOK, StoreFits, RunFits, IndexFits, M!IdentityIds
  <2>6. CopiesFit'
    <3>1. ASSUME NEW i \in M!Copies' PROVE seen'[i].channel = seen'[i].address /\ seen'[i].challenge = seen'[i].address
      <4>1. CASE i \in page
        BY <2>2, <2>3, <4>1 DEF MigrationInv, M!LinksFollow, M!Held
      <4>2. CASE i \in M!Copies
        BY <2>3, <4>2 DEF MigrationInv, CopiesFit
      <4> QED BY <2>3, <3>1, <4>1, <4>2
    <3>2. ASSUME NEW i \in joined, i \in M!Copies' PROVE seen'[i].address.form = "normal"
      <4>1. CASE i \in page
        BY <2>3, <4>1 DEF MigrationInv, CopiesFit
      <4>2. CASE i \in M!Copies
        BY <2>3, <4>2 DEF MigrationInv, CopiesFit
      <4> QED BY <2>3, <3>2, <4>1, <4>2
    <3>3. \A i \in joined : i \in M!Held => mailboxes[i].address.form = "normal"
      BY DEF MigrationInv, CopiesFit
    <3> QED BY <1>2, <1>3, <3>1, <3>2, <3>3 DEF CopiesFit
  <2>7. RecordsFit'
    <3> SUFFICES ASSUME NEW j \in M!Copies', j \notin crossed
                 PROVE  seen'[j].address.inbox = inboxOf[j] /\ mailboxes[j] = seen'[j]
      BY <1>2, <2>1 DEF RecordsFit
    <3>1. CASE j \in page
      <4>1. j \in M!IdentityIds /\ mailboxes[j] # Vacant
        BY <2>2, <2>3, <3>1 DEF M!Held
      <4>2. M!InboxOf(mailboxes[j]) = inboxOf[j]
        BY <4>1 DEF MigrationInv, M!OwnersWritesStand
      <4> QED BY <2>3, <3>1, <4>1, <4>2 DEF M!InboxOf
    <3>2. CASE j \in M!Copies
      BY <1>2, <2>3, <3>2 DEF MigrationInv, RecordsFit
    <3> QED BY <2>3, <3>1, <3>2
  <2>8. ListingFits'
    <3> DEFINE copies == M!Copies \cup listed
    <3>1. M!Copies' = copies
      BY <2>3 DEF page
    <3>2. /\ cursor' # 0
          /\ adapter = "d1" =>
               /\ \A i \in copies : i <= cursor'
               /\ \A i \in M!Held : i <= cursor' => i \in copies \cup joined
          /\ adapter = "memory" =>
               \A i \in M!Held :
                 /\ i \in copies => i = cursor' \/ <<i, cursor'>> \in order
                 /\ i \notin copies => i \in joined \/ <<cursor', i>> \in order
      <4>1. cursor' \in listed \ M!Copies /\ \A i \in (listed \ M!Copies) \ {cursor'} : M!Precedes(i, cursor')
        BY <2>1 DEF page
      <4> QED BY <1>1, <1>2, <4>1, NextPageFits
    <3>3. cursor' \in copies
      BY <2>1 DEF page
    <3> HIDE DEF copies
    <3> QED BY <1>2, <1>3, <3>1, <3>2, <3>3 DEF ListingFits
  <2> QED BY <1>2, <1>3, <1>4, <2>1, <2>5, <2>6, <2>7, <2>8 DEF MigrationInv, WritingFits, M!DoneMeansNormal
<1> QED BY <1>5, <1>6

LEMMA MigrationKept == MigrationInv /\ [M!Next]_(M!vars) => MigrationInv'
<1> SUFFICES ASSUME MigrationInv, [M!Next]_(M!vars) PROVE MigrationInv'
  OBVIOUS
<1>1. CASE M!Start
  BY <1>1, StartKeepsMigration
<1>2. CASE M!ReadPage
  BY <1>2, PageKeepsMigration
<1>3. CASE M!Finish \/ M!Stop
  BY <1>3, EndsKeepMigration
<1>4. ASSUME NEW i \in M!IdentityIds,
             M!Write(i) \/ M!Refuse(i) \/ M!Delete(i) \/ \E inbox \in Inboxes : M!SignUp(i, inbox) \/ M!Rotate(i, inbox)
      PROVE  MigrationInv'
  <2>1. CASE M!Write(i)
    BY <2>1, WriteKeepsMigration
  <2>2. CASE M!Refuse(i)
    BY <2>2, EndsKeepMigration
  <2>3. CASE M!Delete(i) \/ \E inbox \in Inboxes : M!SignUp(i, inbox) \/ M!Rotate(i, inbox)
    BY <2>3, CallsKeepMigration
  <2> QED BY <1>4, <2>1, <2>2, <2>3
<1>5. CASE UNCHANGED M!vars
  <2>1. UNCHANGED <<adapter, mailboxes, addressIndex, order, left, pc, cursor, seen, todo, result, live, inboxOf, crossed, joined, cut>>
    BY <1>5 DEF M!vars, M!listing, M!store
  <2>2. M!Copies' = M!Copies /\ M!Rewrites' = M!Rewrites /\ M!Collisions' = M!Collisions
    BY <2>1, CopiesStay
  <2>3. M!Held' = M!Held /\ StoreFits' /\ M!LinksFollow'
    BY <2>1, StoreStays, TypedParts DEF MigrationInv
  <2>4. MigrationTyped'
    <3>1. RunFits'
      BY <2>1, <2>2 DEF MigrationInv, MigrationTyped, M!TypeOK, RunFits, M!IdentityIds, M!Record, M!Addresses, M!Forms
    <3>2. adapter' \in {"memory", "d1"} /\ inboxOf' = [j \in M!IdentityIds |-> inboxOf'[j]]
      BY <2>1 DEF MigrationInv, MigrationTyped
    <3> QED BY <2>3, <3>1, <3>2, TypedParts DEF MigrationTyped, M!TypeOK, StoreFits, RunFits, IndexFits, M!IdentityIds
  <2>5. CopiesFit' /\ M!OwnersWritesStand' /\ M!DoneMeansNormal'
    BY <2>1, <2>2, <2>3 DEF MigrationInv, CopiesFit, M!OwnersWritesStand, M!DoneMeansNormal, M!InboxOf, M!IdentityIds
  <2>6. RecordsFit'
    BY <2>1, <2>2 DEF MigrationInv, RecordsFit, M!Running, M!Rewritten, M!Normal
  <2>7. ListingFits' /\ WritingFits'
    BY <2>1, <2>2, <2>3 DEF MigrationInv, ListingFits, WritingFits
  <2> QED BY <2>3, <2>4, <2>5, <2>6, <2>7 DEF MigrationInv
<1> QED BY <1>1, <1>2, <1>3, <1>4, <1>5 DEF M!Next

\* Of an inbox that the store shows two times, the run writes neither.
LEMMA TakenMeanwhile ==
  ASSUME MigrationInv, pc = "writing", ~cut, NEW i \in todo, NEW j \in M!Held \ {i},
         mailboxes[j].address = M!Normal(seen[i].address)
  PROVE  j \in crossed \cup joined
<1> SUFFICES ASSUME j \notin crossed, j \notin joined PROVE FALSE
  OBVIOUS
<1>1. /\ i \in M!Rewrites /\ i \in M!Copies /\ j \in M!Copies
      /\ seen[i].address \in M!Addresses /\ seen[j].address \in M!Addresses
  BY DEF MigrationInv, WritingFits, MigrationTyped, M!TypeOK, M!Record
<1>2. seen[i].address.form = "typed" /\ ~M!Collides(i)
  BY <1>1 DEF M!Rewrites
<1>3. mailboxes[j] = IF j \in M!Rewrites \ todo THEN M!Rewritten(seen[j]) ELSE seen[j]
  BY <1>1 DEF MigrationInv, RecordsFit, M!Running
<1>4. M!Normal(seen[j].address) = M!Normal(seen[i].address) /\ seen[j].address.form # "not one address"
  <2>1. CASE j \in M!Rewrites \ todo
    <3>1. mailboxes[j].address = M!Normal(seen[j].address)
      BY <1>3, <2>1 DEF M!Rewritten
    <3> QED BY <2>1, <3>1 DEF M!Rewrites
  <2>2. CASE j \notin M!Rewrites \ todo
    <3>1. seen[j].address = M!Normal(seen[i].address)
      BY <1>3, <2>2
    <3> QED BY <1>1, <3>1 DEF M!Normal, M!Addresses
  <2> QED BY <2>1, <2>2
<1>5. j \in M!Group(i)
  BY <1>1, <1>2, <1>4 DEF M!Group, M!SameInbox
<1> QED BY <1>2, <1>5 DEF M!Collides

\* What refuses a write holds the address, or the index names the one that left it.
LEMMA RunsGoOn == MigrationInv => M!RunsToItsEnd
<1> SUFFICES ASSUME MigrationInv, pc = "writing", ~cut, NEW i \in todo, M!Taken(i, M!Normal(seen[i].address))
             PROVE  \E j \in M!IdentityIds \ {i} :
                      \/ M!Holds(j, M!Normal(seen[i].address)) /\ j \in crossed \cup joined
                      \/ adapter = "memory" /\ <<j, M!Normal(seen[i].address)>> \in left
  BY DEF M!RunsToItsEnd
<1> DEFINE address == M!Normal(seen[i].address)
<1>1. address \in M!Addresses /\ StoreFits /\ adapter \in {"memory", "d1"}
  <2>1. seen[i].address \in M!Addresses
    BY DEF MigrationInv, MigrationTyped, M!TypeOK, M!Record
  <2>2. M!Normal(seen[i].address) \in M!Addresses
    BY <2>1 DEF M!Normal, M!Addresses, M!Forms
  <2> QED BY <2>2, TypedParts DEF MigrationInv
<1> HIDE DEF address
<1>2. ASSUME NEW j \in M!IdentityIds \ {i}, M!Holds(j, address) PROVE j \in crossed \cup joined
  BY <1>2, TakenMeanwhile DEF M!Holds, M!Held, address
<1>3. CASE adapter = "d1"
  BY <1>2, <1>3 DEF M!Taken, address
<1>4. CASE adapter = "memory"
  <2>1. PICK j \in M!IdentityIds \ {i} : j = addressIndex[address] /\ j # M!NoOne
    BY <1>1, <1>4 DEF M!Taken, StoreFits, IndexFits, address
  <2>2. M!Holds(j, address) \/ <<j, address>> \in left
    BY <1>1, <1>4, <2>1 DEF StoreFits, IndexFits
  <2> QED BY <1>2, <1>4, <2>1, <2>2 DEF address
<1> QED BY <1>1, <1>3, <1>4

\* The rewrite of the addresses leaves each inbox with the identity its owner left it with, or
\* none, brings the channel and the code along, and leaves no address as it was typed but in the
\* groups it reports, whatever owners do between its calls and wherever it stops.  What refuses
\* a write is an address an owner took after the listing or, with the memory adapter, one that
\* another identity left; that adapter may also lose the rest of a listing
\* (normalizeEmailIdentifications).
THEOREM RewriteUndoesNothing == M!Spec => []RewritesAreSafe
<1>1. MigrationInv => RewritesAreSafe
  BY RunsGoOn DEF RewritesAreSafe, M!RewritesAreSafe, MigrationInv, MigrationTyped
<1>2. MigrationInv /\ [M!Next]_(M!vars) => MigrationInv'
  BY MigrationKept
<1> QED BY MigrationBegins, <1>1, <1>2, PTL DEF M!Spec
==============================================
