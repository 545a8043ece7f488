------------------------------ MODULE MCCodeGrant ------------------------------
(***************************************************************************)
(* Instances of CodeGrant for TLC.                                         *)
(***************************************************************************)
EXTENDS CodeGrant, TLC

CONSTANTS app, trusted, read, write

AllClients == {app, trusted}
TrustedClients == {trusted}
AllScopes == {read, write}
AskedScopes == [client \in AllClients |-> IF client = app THEN {{read}, AllScopes} ELSE {{read}}]

Created == { s \in SessionIds : grants[s] # None }
Busy == { c \in Calls : calls[c] # Idle }

\* The first grant stands with its tokens, for less than its client may ask, its code is
\* gone, and no race was won on it.
FirstStands ==
  /\ Live(1) /\ grants[1].client = app /\ grants[1].scopes = {read}
  /\ 1 \in index /\ (\E t \in tokens : t.session = 1) /\ twice = {}
  /\ codes[1] = None /\ raced = {} /\ mixed = {} /\ ended = {}
  /\ Cardinality(logins) <= 2 /\ Cardinality(consents) <= 2

\* A call other than the completion of a page runs while no page is open, two calls overlap
\* only while there is one grant, of all its client asks for, pages are opened for a second
\* grant only while the first stands and every client and owner is there, and beside two
\* grants they stay.  A consent grants something, and two requests draw two proofs.
Narrow ==
  /\ (\E n \in ChallengeIds : challenges[n] # None) =>
        /\ \A c \in Busy : calls[c].phase = "unset"
        /\ Cardinality(Created) < MaxSessions
        /\ Created # {} => FirstStands /\ registered = Clients /\ departed = {}
  /\ Cardinality(Busy) <= 1 \/ (Cardinality(Created) = 1 /\ grants[1].scopes = UNION MayAsk[grants[1].client])
  /\ Created = {} => Cardinality(logins) <= 1 /\ Cardinality(consents) <= 1
  /\ Cardinality(Created) = 2 => departed = {} /\ registered = Clients
  /\ \A a \in consents : a.scopes # {}
  /\ \A l, m \in logins : l # m => l.request.proof # m.request.proof

Symmetries == Permutations(Calls) \cup Permutations(Proofs)
=============================================================================
