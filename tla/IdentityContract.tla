-------------------------- MODULE IdentityContract --------------------------
(***************************************************************************)
(* What an identity provider promises the library, src/provider.ts: one    *)
(* record per identity, written whole, and a lookup that follows the       *)
(* records.  An identification belongs to one identity at a time, and a    *)
(* write that would give it a second owner is refused and changes nothing. *)
(* The adapters of IdentityProviders are measured against this.            *)
(***************************************************************************)
CONSTANTS
    Ids,      \* the identities a caller may write
    Claims,   \* the identifications, each a component and a value
    Absent,   \* what the store holds for an identity it does not know
    Nobody    \* the answer of a lookup that finds nobody

VARIABLES
    identities,   \* for each identity the identifications of its record, or Absent
    answer        \* what the last call answered

vars == <<identities, answer>>

Records == (SUBSET Claims) \cup {Absent}

Holds(i, c) == identities[i] # Absent /\ c \in identities[i]

Taken(i, cs) == \E j \in Ids \ {i} : \E c \in cs : Holds(j, c)

Init == identities = [i \in Ids |-> Absent] /\ answer = Nobody

Set(i, cs) ==
    \/ /\ ~Taken(i, cs)
       /\ identities' = [identities EXCEPT ![i] = cs]
       /\ answer' = "done"
    \/ /\ Taken(i, cs)
       /\ UNCHANGED identities
       /\ answer' = "refused"

Delete(i) ==
    /\ identities' = [identities EXCEPT ![i] = Absent]
    /\ answer' = "done"

Find(c) ==
    /\ \/ \E i \in Ids : Holds(i, c) /\ answer' = i
       \/ (\A i \in Ids : ~Holds(i, c)) /\ answer' = Nobody
    /\ UNCHANGED identities

Next ==
    \/ \E i \in Ids, cs \in SUBSET Claims : Set(i, cs)
    \/ \E i \in Ids : Delete(i)
    \/ \E c \in Claims : Find(c)

Spec == Init /\ [][Next]_vars

=============================================================================
