------------------------------ MODULE MCStores ------------------------------
(***************************************************************************)
(* What writes a record whole, for TLC: three identities, one component    *)
(* and two values in the adapters of IdentityProviders, so that a value    *)
(* may move while a third identity asks for it; a registered client with   *)
(* two calls in Registration; and in AddressMigration every store of three *)
(* identities and two inboxes, on either adapter, with two calls of owners *)
(* beside the runs of the rewrite.  And the records of Passkeys: a person  *)
(* with a passkey and one who may have a security key rotate, enroll and   *)
(* sign in, and the second one also drives a rotate in a stolen session.   *)
(* And AccessTokens: a client and a resource server, two sessions of one   *)
(* person, a claims mapper, and the key lists of a rotation and of the     *)
(* mistakes of one.                                                        *)
(*                                                                         *)
(* The five share nothing.  Each is explored with the others at rest, so   *)
(* the run holds their states side by side, and not their product.         *)
(***************************************************************************)
EXTENDS IdentityProviders, MCRegistration, MCPasskeys, MCAccessTokens, MCAddressMigration, TLC, Naturals, FiniteSets

WebApp == [ method |-> "client_secret_basic", grants |-> {"authorization_code", "refresh_token"},
            code |-> TRUE, uris |-> {"https"}, scope |-> {"profile"}, fields |-> {} ]

\* A confidential and a public client, a machine, one that asks for a field of the server
\* and a scope it may not have, one the rules between the fields refuse, and a bad URI.
AllBodies == {
  WebApp,
  [ WebApp EXCEPT !.method = "none" ],
  [ WebApp EXCEPT !.grants = {"client_credentials"}, !.code = FALSE, !.uris = {} ],
  [ WebApp EXCEPT !.scope = {"profile", "account"}, !.fields = {"introspect"} ],
  [ WebApp EXCEPT !.grants = {"client_credentials"}, !.method = "none", !.code = FALSE ],
  [ WebApp EXCEPT !.uris = {"http"} ] }

\* The rewrite waits over an empty store.
NothingToMigrate == adapter = "d1" /\ M!Held = {} /\ pc = "idle" /\ live = 0

Passkey(id, by, verified) == [id |-> id, key |-> by, verified |-> verified, confirmed |-> TRUE]

AllHomes ==
  { [alice |-> <<Passkey("c1", "k1", TRUE)>>, mallory |-> <<>>],
    [alice |-> <<Passkey("c1", "k1", FALSE)>>, mallory |-> <<Passkey("c2", "m1", FALSE)>>] }

Holders == [k1 |-> "alice", k2 |-> "alice", m1 |-> "mallory"]
Flow    == [d1 |-> "rotate", d2 |-> "enroll", d3 |-> "sign-in", d4 |-> "rotate", d5 |-> "sign-in"]
Driver  == [d1 |-> "alice", d2 |-> "mallory", d3 |-> "alice", d4 |-> "mallory", d5 |-> "mallory"]
Owner   == [Driver EXCEPT !.d4 = "alice"]
AllDances == DOMAIN Flow

\* Nobody started a dance.
NoPasskeyUsed == held = {} /\ homes = [alice |-> <<Passkey("c1", "k1", TRUE)>>, mallory |-> <<>>]

AllScopes == {"account", "profile"}
AllProfiles ==
  [ app |-> [ public |-> FALSE, introspect |-> FALSE, audience |-> "api", scopes |-> AllScopes,
              refreshes |-> TRUE, alone |-> TRUE ],
    rs  |-> [ public |-> FALSE, introspect |-> TRUE, audience |-> "issuer", scopes |-> {},
              refreshes |-> FALSE, alone |-> FALSE ] ]

Claim(name, value) == [name |-> name, value |-> value]

ByDefault == [ scope \in AllScopes |-> IF scope = "profile" THEN {Claim("name", "Ada")} ELSE {} ]

\* A mapper that answers a claim the library sets, and another name.
ByMapper == { [ account |-> {Claim("sub", "x")}, profile |-> {Claim("name", "Bob")} ] }

Private(kid) == [kid |-> kid, private |-> TRUE]
Public(kid)  == [kid |-> kid, private |-> FALSE]

\* A rotation, a new key at once, and the lists the constructor refuses.
KeyListsDeployed ==
  { <<Private(1)>>, <<Private(2), Public(1)>>, <<Private(2)>>, <<Public(1)>>, <<Private(1), Public(1)>> }

\* One thing happens besides the sign-ins and the tokens: the identity or a client is
\* deleted, a session ends, a client acts alone, or other keys are deployed.
Narrow ==
  Cardinality(Owners \ owners) + Cardinality(Apps \ members) + Cardinality(ended)
    + Cardinality({ t \in tokens : t.sid = NoSession }) + (IF keys = <<Private(1)>> THEN 0 ELSE 1) <= 1

NoTokenMinted == tokens = {} /\ keys = <<Private(1)>> /\ T!Init

StoresInit == Init /\ R!Init /\ M!Init /\ P!Init /\ T!Init

StoresNext ==
  \/ /\ R!Init /\ NothingToMigrate /\ NoPasskeyUsed /\ NoTokenMinted
     /\ Next /\ UNCHANGED <<registration, migration, passkeys, access>>
  \/ /\ Init /\ NothingToMigrate /\ NoPasskeyUsed /\ NoTokenMinted
     /\ R!Next /\ UNCHANGED <<vars, migration, passkeys, access>>
  \/ /\ Init /\ R!Init /\ NoPasskeyUsed /\ NoTokenMinted
     /\ M!Next /\ UNCHANGED <<vars, registration, passkeys, access>>
  \/ /\ Init /\ R!Init /\ NothingToMigrate /\ NoTokenMinted
     /\ P!Next /\ UNCHANGED <<vars, registration, migration, access>>
  \/ /\ Init /\ R!Init /\ NothingToMigrate /\ NoPasskeyUsed
     /\ T!Next /\ UNCHANGED <<vars, registration, migration, passkeys>>

StoresSpec == StoresInit /\ [][StoresNext]_<<vars, registration, migration, passkeys, access>>

Symmetries == Permutations(Calls) \cup Permutations(Inboxes) \cup Permutations(SessionIds)
=============================================================================
