------------------------- MODULE IdentityProviders --------------------------
(***************************************************************************)
(* The two adapters that hold the identities: MemoryIdentityProvider       *)
(* (src/providers/memory.ts), a map of records beside an index of the      *)
(* identifications, and CloudflareD1IdentityProvider                       *)
(* (src/providers/cloudflare.ts) on the tables and the triggers of         *)
(* src/providers/sqlite.sql.  Both get the same calls, in lockstep, so     *)
(* that their answers can be compared; neither reads the other.            *)
(*                                                                         *)
(* A record is the set of its identifications: challenges, channels and    *)
(* the data bag touch neither the index nor the view.                      *)
(***************************************************************************)
CONSTANTS Ids, Names, Values, Absent, Nobody

Claims == Names \X Values

ASSUME AbsentAssumption == \A cs \in SUBSET Claims : cs # Absent
ASSUME NobodyAssumption == Nobody \notin Ids

VARIABLES
    storage,   \* memory: the record of each identity, or Absent
    index,     \* memory: the identity of each identification, or Nobody
    rows,      \* D1, table identity: the record of each identity, or Absent
    view,      \* D1, table mv_identity_identification: <<identification, identity>>
    answer,    \* what each adapter answered to the last call
    plain      \* history: no record lost an identification or held one component twice

memory == <<storage, index>>
d1     == <<rows, view>>
vars   == <<storage, index, rows, view, answer, plain>>

Records == (SUBSET Claims) \cup {Absent}

Init ==
    /\ storage = [i \in Ids |-> Absent]
    /\ index = [c \in Claims |-> Nobody]
    /\ rows = [i \in Ids |-> Absent]
    /\ view = {}
    /\ answer = [memory |-> Nobody, d1 |-> Nobody]
    /\ plain = TRUE

----------------------------------------------------------------------------
(* MemoryIdentityProvider.                                                 *)

\* A record with two identifications of one component is refused.
EnrolledTwice(cs) == \E c, d \in cs : c # d /\ c[1] = d[1]

\* A variant with a bug, for MemoryFindsEveryHolder: a write overwrites the index entry of another identity.
IndexedForNone(c, i) == FALSE

IndexedFor(c, i) == index[c] \notin {Nobody, i}

MemoryRefuses(i, cs) == EnrolledTwice(cs) \/ \E c \in cs : IndexedFor(c, i)

\* The entries of the identifications the record lost stay.
Indexed(i, cs) == [c \in Claims |-> IF c \in cs THEN i ELSE index[c]]

MemorySet(i, cs) ==
    IF MemoryRefuses(i, cs)
    THEN UNCHANGED memory
    ELSE /\ storage' = [storage EXCEPT ![i] = cs]
         /\ index' = Indexed(i, cs)

\* Only the identifications the record holds now leave the index.
Unindexed(i) ==
    [c \in Claims |-> IF storage[i] # Absent /\ c \in storage[i] THEN Nobody ELSE index[c]]

MemoryDelete(i) ==
    /\ index' = Unindexed(i)
    /\ storage' = [storage EXCEPT ![i] = Absent]

MemoryFinds(c) ==
    IF index[c] # Nobody /\ storage[index[c]] # Absent THEN index[c] ELSE Nobody

----------------------------------------------------------------------------
(* CloudflareD1IdentityProvider: each method is one statement, and the     *)
(* triggers run inside it.                                                 *)

\* The rows the update trigger leaves before it inserts; an insert deletes none.
ViewKept(i) == IF rows[i] = Absent THEN view ELSE {r \in view : r[2] # i}

\* The primary key of the view is the component and the identification.
D1Refuses(i, cs) == \E r \in ViewKept(i) : r[1] \in cs

\* A refused statement leaves both tables as they were.
D1Set(i, cs) ==
    IF D1Refuses(i, cs)
    THEN UNCHANGED d1
    ELSE /\ rows' = [rows EXCEPT ![i] = cs]
         /\ view' = ViewKept(i) \cup {<<c, i>> : c \in cs}

\* A variant with a bug, for ImplementsContract: the foreign key does not cascade.
CascadedNone(i) == view

\* ON DELETE CASCADE takes the rows of the view along.
Cascaded(i) == {r \in view : r[2] # i}

D1Delete(i) ==
    /\ rows' = [rows EXCEPT ![i] = Absent]
    /\ view' = Cascaded(i)

\* The inner join of the two tables.
D1Finds(c, i) == <<c, i>> \in view /\ rows[i] # Absent

----------------------------------------------------------------------------
(* The calls of the library, to both adapters.                             *)

Answered(refused) == IF refused THEN "refused" ELSE "done"

Loses(i, cs) == storage[i] # Absent /\ ~(storage[i] \subseteq cs)

Set(i, cs) ==
    /\ MemorySet(i, cs)
    /\ D1Set(i, cs)
    /\ answer' = [memory |-> Answered(MemoryRefuses(i, cs)), d1 |-> Answered(D1Refuses(i, cs))]
    /\ plain' = (plain /\ ~Loses(i, cs) /\ ~EnrolledTwice(cs))

Delete(i) ==
    /\ MemoryDelete(i)
    /\ D1Delete(i)
    /\ answer' = [memory |-> "done", d1 |-> "done"]
    /\ UNCHANGED plain

Find(c) ==
    /\ \/ \E i \in Ids : D1Finds(c, i) /\ answer' = [memory |-> MemoryFinds(c), d1 |-> i]
       \/ /\ \A i \in Ids : ~D1Finds(c, i)
          /\ answer' = [memory |-> MemoryFinds(c), d1 |-> Nobody]
    /\ UNCHANGED <<storage, index, rows, view, plain>>

Next ==
    \/ \E i \in Ids, cs \in SUBSET Claims : Set(i, cs)
    \/ \E i \in Ids : Delete(i)
    \/ \E c \in Claims : Find(c)

Spec == Init /\ [][Next]_vars

----------------------------------------------------------------------------
(* Properties.                                                             *)

\* Each table and each map holds records, and the answers are those of the interface.
TypeOK ==
    /\ storage \in [Ids -> Records] /\ rows \in [Ids -> Records]
    /\ index \in [Claims -> Ids \cup {Nobody}]
    /\ view \subseteq Claims \X Ids
    /\ answer \in [memory : Ids \cup {Nobody, "done", "refused"},
                   d1 : Ids \cup {Nobody, "done", "refused"}]
    /\ plain \in BOOLEAN

\* The promise of AuthDanceIdentityProvider.set, for the memory adapter: after any
\* history of writes and deletes, an identity is found by each identification its
\* record holds, so no identification has two holders.
MemoryFindsEveryHolder ==
    \A i \in Ids : storage[i] # Absent => \A c \in storage[i] : MemoryFinds(c) = i

\* As long as no write took an identification out of a record, or put a component
\* into one twice, the two adapters are interchangeable: same records, same answers.
AdaptersAgree == plain => storage = rows /\ answer.memory = answer.d1

\* The view of D1, kept by two triggers and a cascade, is the identifications of the
\* records and nothing else.
ViewFollowsTheRecords ==
    view = {r \in Claims \X Ids : rows[r[2]] # Absent /\ r[1] \in rows[r[2]]}

\* The D1 adapter implements the contract, refusals and lookups included.
Contract == INSTANCE IdentityContract WITH identities <- rows, answer <- answer.d1

ImplementsContract == Contract!Spec

\* src/error.ts:212 of IdentificationTakenError: "An identification is already in use
\* by another identity."  The memory adapter raises it for an identification that a
\* record lost, which nobody uses.
TakenMeansInUse ==
    [][\A i \in Ids, cs \in SUBSET Claims :
         Set(i, cs) /\ answer'.memory = "refused" /\ ~EnrolledTwice(cs)
            => \E j \in Ids \ {i} : storage[j] # Absent /\ storage[j] \cap cs # {}]_vars

\* Either adapter finds who holds an identification, and nobody else.
EveryHolderIsFound == TypeOK /\ MemoryFindsEveryHolder /\ AdaptersAgree /\ ViewFollowsTheRecords
=============================================================================
