--------------------------- MODULE AddressMigration ---------------------------
(***************************************************************************)
(* normalizeEmailIdentifications (src/components/email.ts): the rewrite of *)
(* the addresses that versions before rc.5 stored as typed.  It lists the  *)
(* identities in pages, groups them by inbox, and writes whole records it  *)
(* copied from the listing, while owners sign up, rotate and delete, and   *)
(* may stop at any call of the store and be run again.                     *)
(*                                                                         *)
(* An address is an inbox and a form: the one normalizeEmailAddress        *)
(* (src/email-address.ts) gives, another one typed for the same inbox, or  *)
(* a text that is not one address.  A record is the address with the       *)
(* channel and the code challenge that link to it.                         *)
(*                                                                         *)
(* The order of a listing is a relation, and a page a set that nothing     *)
(* left out precedes.  The records are written in any order, the one of    *)
(* the listing among them: they are of different inboxes.                  *)
(***************************************************************************)
EXTENDS Naturals, FiniteSets

CONSTANTS
  MaxId,      \* the identities are 1..MaxId, in the order of their ids
  Inboxes,
  PageSize,   \* the 100 of the code
  MaxLive,    \* bound: the calls of owners
  Absent

NoOne == 0
IdentityIds == 1..MaxId
Forms == {"normal", "typed", "not one address"}
Addresses == [inbox : Inboxes, form : Forms]
Record == [address : Addresses, channel : Addresses, challenge : Addresses]

\* A page of one would end a listing of the memory adapter, which starts at the cursor.
AddressMigrationAssumption ==
  MaxId \in Nat /\ MaxLive \in Nat /\ PageSize \in Nat \ {0, 1} /\ Absent \notin Record

VARIABLES
  adapter,    \* which adapter holds the identities
  record,     \* the record of each identity, or Absent
  index,      \* memory: the identity of each address it was told of, or NoOne
  order,      \* the pairs of identities a map of the memory adapter yields one before the other
  pc,
  cursor,     \* the last identity of the page before, 0 for none
  seen,       \* `identities`: the copies of the listing
  todo,       \* the ids of `rewrites`, less the colliding ones and the ones written
  result,     \* the `updated` and `collisions` a run gives back
  live,       \* the calls of owners so far
  inboxOf,    \* history: the inbox the last call of each owner left it
  crossed,    \* history: the identities an owner changed between the copy and the end of the run
  joined,     \* history: the identities that signed up while the run went
  left,       \* history: the addresses a write took from the record of an identity, with that identity
  cut         \* history: the memory adapter lost the cursor, and gave an empty page

listing == <<cursor, seen, todo, result>>
store == <<record, index, order, left>>
vars == <<adapter, store, pc, listing, live, inboxOf, crossed, joined, cut>>

\* normalizeEmailAddress, of an address and not of `null`.
Normal(address) == [address EXCEPT !.form = "normal"]
Whole(address) == [address |-> address, channel |-> address, challenge |-> address]
InboxOf(r) == IF r = Absent THEN Absent ELSE r.address.inbox

Held == { i \in IdentityIds : record[i] # Absent }

Holds(i, address) == record[i] # Absent /\ record[i].address = address

Nothing == [i \in {} |-> Absent]
Unstarted == cursor = 0 /\ seen = Nothing /\ todo = {} /\ result = [updated |-> {}, collisions |-> {}]

\* What the version before left: every address under one identity, as it was typed.  What
\* the index kept of addresses that were left before comes with the calls of owners.
Init ==
  /\ adapter \in {"memory", "d1"}
  /\ record \in [IdentityIds -> { Whole(a) : a \in Addresses } \cup {Absent}]
  /\ \A i, j \in IdentityIds : i # j /\ record[i] # Absent => record[i] # record[j]
  /\ index = [a \in Addresses |->
       IF adapter = "memory" /\ \E i \in IdentityIds : Holds(i, a)
       THEN CHOOSE i \in IdentityIds : Holds(i, a) ELSE NoOne]
  /\ left = {}
  /\ order = { p \in Held \X Held : p[1] < p[2] }
  /\ pc = "idle" /\ Unstarted /\ live = 0
  /\ inboxOf = [i \in IdentityIds |-> InboxOf(record[i])]
  /\ crossed = {} /\ joined = {} /\ cut = FALSE
-----------------------------------------------------------------------------
(* The store.                                                              *)

\* The D1 adapter refuses an address another identity holds, and the memory adapter one
\* whose entry in the index names another identity, whether or not that one holds it still.
Taken(i, address) ==
  IF adapter = "memory" THEN index[address] \notin {NoOne, i}
  ELSE \E j \in IdentityIds \ {i} : Holds(j, address)

Reindex(address, i) == index' = IF adapter = "memory" THEN [index EXCEPT ![address] = i] ELSE index

\* A write of a whole record.  The entry of the address it replaces stays in the index, and
\* the map of the memory adapter puts a new key last.
Put(i, r) ==
  /\ ~Taken(i, r.address)
  /\ record' = [record EXCEPT ![i] = r]
  /\ Reindex(r.address, i)
  /\ order' = IF record[i] = Absent THEN order \cup (Held \X {i}) ELSE order
  /\ left' = { p \in left \cup (IF record[i] = Absent THEN {} ELSE {<<i, record[i].address>>}) :
                 p # <<i, r.address>> }

\* delete of the memory adapter takes out the entry of the address the record holds.
Remove(i) ==
  /\ record' = [record EXCEPT ![i] = Absent]
  /\ Reindex(record[i].address, NoOne)
  /\ order' = { p \in order : p[1] # i /\ p[2] # i }
  /\ UNCHANGED left

\* list of the memory adapter starts at the cursor, and gives nothing for one it does not
\* hold; list of the D1 adapter starts after the cursor, in the order of the ids.
From(c) ==
  CASE adapter = "d1" -> { i \in Held : i > c }
    [] adapter # "d1" /\ c = 0 -> Held
    [] OTHER -> { i \in Held : c \in Held /\ (i = c \/ <<c, i>> \in order) }

Precedes(i, j) == IF adapter = "d1" THEN i < j ELSE <<i, j>> \in order

\* The first ones from the cursor, as many as a page takes.
IsPage(page, c) ==
  /\ page \subseteq From(c)
  /\ Cardinality(page) = PageSize \/ (page = From(c) /\ Cardinality(page) < PageSize)
  /\ \A i \in page, j \in From(c) \ page : Precedes(i, j)
-----------------------------------------------------------------------------
(* The calls of owners: sign-up, rotate and delete at the current version. *)

Running == pc \in {"listing", "writing"}
Copies == DOMAIN seen

Live(i) ==
  /\ live < MaxLive
  /\ live' = live + 1
  /\ inboxOf' = [inboxOf EXCEPT ![i] = InboxOf(record'[i])]
  /\ crossed' = IF Running /\ i \in Copies THEN crossed \cup {i} ELSE crossed \ {i}
  /\ UNCHANGED <<adapter, pc, listing, cut>>

\* The new value is looked up, and stored, in its normal form.
Keep(i, inbox) == Put(i, Whole([inbox |-> inbox, form |-> "normal"])) /\ Live(i)

\* Ids are drawn once, so a new one is none that the run listed or the index may still name.
SignUp(i, inbox) ==
  /\ record[i] = Absent /\ i \notin Copies /\ \A p \in left : p[1] # i
  /\ Keep(i, inbox)
  /\ joined' = IF Running THEN joined \cup {i} ELSE joined

Rotate(i, inbox) == record[i] # Absent /\ Keep(i, inbox) /\ UNCHANGED joined

Delete(i) ==
  /\ record[i] # Absent /\ Remove(i)
  /\ Live(i) /\ UNCHANGED joined
-----------------------------------------------------------------------------
(* A run of the rewrite.                                                   *)

StartEmpty == cursor' = 0 /\ seen' = Nothing

Start ==
  /\ pc \in {"idle", "done", "failed"}
  /\ pc' = "listing" /\ StartEmpty
  /\ todo' = {} /\ result' = [updated |-> {}, collisions |-> {}]
  /\ joined' = {} /\ cut' = FALSE
  /\ crossed' = { i \in crossed : InboxOf(record[i]) # inboxOf[i] }
  /\ UNCHANGED <<adapter, store, live, inboxOf>>

\* A variant with a bug, for RunsToItsEnd: the groups are of equal addresses.
SameAddress(a, b) == a = b

\* Two addresses of one group.
SameInbox(a, b) == a.form # "not one address" /\ b.form # "not one address" /\ Normal(a) = Normal(b)

Group(i) == { j \in Copies : SameInbox(seen[j].address, seen[i].address) }

Collides(i) == \E j \in Group(i) : j # i

\* The ids of each group of two or more.
Collisions == { Group(i) : i \in { j \in Copies : Collides(j) } }

Rewrites == { i \in Copies : seen[i].address.form = "typed" /\ ~Collides(i) }

\* The page holds no identity that was not seen.
IsLast(page) == page = {}

\* Less the ids already seen.
Unseen(page) == page \ Copies

\* listIdentities of one page; after the last one, the groups.
ReadPage ==
  /\ pc = "listing"
  /\ \E listed \in SUBSET IdentityIds :
       /\ IsPage(listed, cursor)
       /\ LET page == Unseen(listed) IN
          IF IsLast(page)
          THEN /\ pc' = "writing" /\ todo' = Rewrites
               /\ result' = [result EXCEPT !.collisions = Collisions]
               /\ cut' = (adapter = "memory" /\ cursor \notin Held \cup {0})
               /\ UNCHANGED <<cursor, seen>>
          ELSE /\ seen' = [i \in Copies \cup page |-> IF i \in page THEN record[i] ELSE seen[i]]
               /\ cursor' \in page /\ \A i \in page \ {cursor'} : Precedes(i, cursor')
               /\ UNCHANGED <<pc, todo, result, cut>>
  /\ UNCHANGED <<adapter, store, live, inboxOf, crossed, joined>>

\* The address, and the linked copies of it.
Rewritten(r) ==
  LET to(a) == IF a = r.address THEN Normal(a) ELSE a IN
  [address |-> Normal(r.address), channel |-> to(r.channel), challenge |-> to(r.challenge)]

\* setIdentity of the whole copy, whatever its owner did since.
Write(i) ==
  /\ pc = "writing" /\ i \in todo
  /\ Put(i, Rewritten(seen[i]))
  /\ result' = [result EXCEPT !.updated = @ \cup {i}]
  /\ todo' = todo \ {i}
  /\ UNCHANGED <<adapter, pc, cursor, seen, live, inboxOf, crossed, joined, cut>>

\* The error of a refused write leaves the function, and the result with it.
Refuse(i) ==
  /\ pc = "writing" /\ i \in todo /\ Taken(i, Normal(seen[i].address))
  /\ pc' = "failed"
  /\ UNCHANGED <<adapter, store, listing, live, inboxOf, crossed, joined, cut>>

Finish ==
  /\ pc = "writing" /\ todo = {}
  /\ pc' = "done"
  /\ UNCHANGED <<adapter, store, listing, live, inboxOf, crossed, joined, cut>>

\* The process stops, and leaves what it wrote.
Stop ==
  /\ Running
  /\ pc' = "idle"
  /\ UNCHANGED <<adapter, store, listing, live, inboxOf, crossed, joined, cut>>

Next ==
  \/ Start \/ ReadPage \/ Finish \/ Stop
  \/ \E i \in IdentityIds :
       Write(i) \/ Refuse(i) \/ Delete(i) \/ \E inbox \in Inboxes : SignUp(i, inbox) \/ Rotate(i, inbox)

Spec == Init /\ [][Next]_vars
-----------------------------------------------------------------------------
\* The store holds records, each under one address, in one order; a run copies identities.
TypeOK ==
  /\ record \in [IdentityIds -> Record \cup {Absent}]
  /\ \A i, j \in Held : record[i].address = record[j].address => i = j
  /\ index \in [Addresses -> IdentityIds \cup {NoOne}]
  /\ left \subseteq IdentityIds \X Addresses
  /\ order \subseteq Held \X Held
  /\ \A i, j \in Held : i # j => (<<i, j>> \in order) # (<<j, i>> \in order)
  /\ pc \in {"idle", "listing", "writing", "done", "failed"} /\ cursor \in 0..MaxId
  /\ Copies \subseteq IdentityIds /\ seen \in [Copies -> Record]
  /\ todo \subseteq Copies /\ result.updated \subseteq Copies
  /\ \A group \in result.collisions : \E i, j \in group : i # j

\* The channel and the code of an identity go to the address it signs in with, after any
\* number of runs, stopped or not (email.ts:202-212).
LinksFollow ==
  \A i \in IdentityIds : record[i] # Absent =>
    record[i].channel = record[i].address /\ record[i].challenge = record[i].address

\* A run gives back the inbox the owner left, or no identity where there is none, unless
\* the owner changed it between the copy of the listing and the write of that copy.
OwnersWritesStand ==
  \A i \in IdentityIds : i \notin crossed => InboxOf(record[i]) = inboxOf[i]

\* After a run, each identity it had listed and nobody changed has the normal address, or
\* is in a group it reports, however the adapter reads the cursor.  The memory adapter
\* forgets the rest of the listing when the identity at the cursor is deleted.
DoneMeansNormal ==
  pc = "done" /\ ~cut =>
    \A i \in IdentityIds : record[i] # Absent /\ record[i].address.form = "typed" =>
      (\E group \in result.collisions : i \in group) \/ i \in crossed

\* What refuses a write of a run is an owner who took the address after the listing, unless
\* the listing was cut: of an inbox that the store holds two times, the run writes neither
\* identity.  The memory adapter also refuses, in every run, an address that another identity
\* once left; one whose last holder was deleted is free.
RunsToItsEnd ==
  pc = "writing" /\ ~cut =>
    \A i \in todo : LET address == Normal(seen[i].address) IN
      Taken(i, address) =>
        \E j \in IdentityIds \ {i} :
          \/ Holds(j, address) /\ j \in crossed \cup joined
          \/ adapter = "memory" /\ <<j, address>> \in left

\* A run rewrites what it listed, and nothing an owner changed.
RewritesAreSafe == TypeOK /\ LinksFollow /\ OwnersWritesStand /\ DoneMeansNormal /\ RunsToItsEnd
=============================================================================
