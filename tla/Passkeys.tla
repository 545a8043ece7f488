------------------------------- MODULE Passkeys -------------------------------
(***************************************************************************)
(* Passkeys (src/components/webauthn.ts): which signature of which         *)
(* credential a dance takes for what.  One component asks for the          *)
(* registration and for the signatures, one key of the store per dance     *)
(* holds the ceremony of either, and the credentials that may answer are   *)
(* read off the records the dance collected and those of the identity.     *)
(*                                                                         *)
(* An authenticator signs what its holder asks for, and nothing else.  The *)
(* id of a credential is what a client says it is: another person may      *)
(* register a key of its own under it.  The session of a dance may be in   *)
(* the wrong hands.  A call is one step; that an answer passes one time,   *)
(* and the signature counter, are the subject of OneTimeProofs.tla.        *)
(***************************************************************************)
EXTENDS Naturals, Sequences, FiniteSets

CONSTANTS
  People,            \* each with one identity
  Keys, HolderOf,    \* the key pairs, and who signs with each
  Ids,               \* credential ids
  Dances, FlowOf, DriverOf, OwnerOf,  \* who answers, and the identity of the session
  Verification,      \* the option userVerification
  Homes,             \* the records the identities may start with
  MaxPrompts,        \* bound: the prompts of a dance
  None

\* The record of a credential; `verified` is uvInitialized.
Record == [ id : Ids, key : Keys, verified : BOOLEAN, confirmed : BOOLEAN ]

RecordsIn(list) == { list[n] : n \in DOMAIN list }
KnownIds(records) == { records[n].id : n \in DOMAIN records }

\* What enrolls left: one passkey at most, of its owner, under an id of nobody else.
Enrolled(home) ==
  /\ home \in [People -> Seq(Record)]
  /\ \A p \in People : Len(home[p]) <= 1 /\ \A r \in RecordsIn(home[p]) : r.confirmed /\ HolderOf[r.key] = p
  /\ \A p, q \in People : p # q => KnownIds(home[p]) \cap KnownIds(home[q]) = {}

\* The session of an enroll is in the hands of its owner: who gives away a session and has
\* no passkey has nothing to ask for.
PasskeysAssumption ==
  /\ HolderOf \in [Keys -> People]
  /\ FlowOf \in [Dances -> {"sign-in", "enroll", "rotate"}]
  /\ DriverOf \in [Dances -> People] /\ OwnerOf \in [Dances -> People]
  /\ \A d \in Dances : FlowOf[d] = "enroll" => DriverOf[d] = OwnerOf[d]
  /\ \A home \in Homes : Enrolled(home)
  /\ Verification \in {"required", "preferred", "discouraged"} /\ MaxPrompts \in Nat

VARIABLES
  held,        \* the states the client got: the dance, `verified` of a rotate, the records
  kv,          \* webauthn/<state>/<name>: the type of the ceremony, or None
  drawn,       \* the prompts of each dance
  identities,
  signedIn,    \* history: the identity and the key of each sign-in
  proven       \* history: the dance, the id and the key of each signature that confirmed

vars == <<held, kv, drawn, identities, signedIn, proven>>
-----------------------------------------------------------------------------
\* What a state waits for: a signature of a sign-in, control of the credential that is
\* stored, a registration, or the signature that confirms it.
WaitsFor(state) ==
  CASE FlowOf[state.dance] = "sign-in" -> "sign-in"
    [] FlowOf[state.dance] = "rotate" /\ ~state.checked -> "control"
    [] OTHER -> IF state.records = <<>> THEN "registration" ELSE "confirmation"

\* #signs: the component that verifies asks for a signature, like a sign-in does.
Signs(task) == task # "registration"

Ceremony(task) == IF Signs(task) THEN "webauthn.get" ELSE "webauthn.create"

\* getPrompt: every prompt starts a ceremony over the one that waits.
Hand(state) ==
  /\ drawn[state.dance] < MaxPrompts
  /\ held' = held \cup {state}
  /\ drawn' = [drawn EXCEPT ![state.dance] = @ + 1]
  /\ kv' = [kv EXCEPT ![state.dance] = Ceremony(WaitsFor(state))]

Init ==
  /\ held = {} /\ signedIn = {} /\ proven = {}
  /\ kv = [d \in Dances |-> None] /\ drawn = [d \in Dances |-> 0]
  /\ identities \in Homes

Holds(person) == identities[person] # <<>>

Start(d) ==
  /\ drawn[d] = 0
  /\ FlowOf[d] = "enroll" => ~Holds(OwnerOf[d])
  /\ FlowOf[d] = "rotate" => Holds(OwnerOf[d])
  /\ Hand([ dance |-> d, checked |-> FALSE, records |-> <<>> ])
  /\ UNCHANGED <<identities, signedIn, proven>>

\* The time to live of a ceremony passes.
Lapse(d) ==
  /\ kv[d] # None /\ kv' = [kv EXCEPT ![d] = None]
  /\ UNCHANGED <<held, drawn, identities, signedIn, proven>>

\* The records of the context: a sign-in carries no identity, and what a flow collected
\* comes before what is stored.
Context(state) ==
  IF WaitsFor(state) = "sign-in" THEN <<>> ELSE state.records \o identities[OwnerOf[state.dance]]

\* #verifyAuthenticatorData, as far as the option goes.
VerifiesOwner(verified) == Verification = "required" => verified

Collected(id, key, verified) == [ id |-> id, key |-> key, verified |-> verified, confirmed |-> FALSE ]

\* getIdentityComponent: the key comes with the answer, and the id must be nobody's.
Register(state, id, key, verified) ==
  /\ WaitsFor(state) = "registration" /\ kv[state.dance] = "webauthn.create"
  /\ HolderOf[key] = DriverOf[state.dance] /\ VerifiesOwner(verified)
  /\ id \notin KnownIds(Context(state)) \cup UNION { KnownIds(identities[p]) : p \in People }
  /\ Hand([state EXCEPT !.records = << Collected(id, key, verified) >>])
  /\ UNCHANGED <<identities, signedIn, proven>>

\* A variant with a bug, for ConfirmedByItself: every credential of the owner answers.
AllowedAny(records) == RecordsIn(records)

\* #allowed: a credential that waits for its confirmation answers alone.
Allowed(records) ==
  LET waiting == { r \in RecordsIn(records) : ~r.confirmed } IN
  IF waiting = {} THEN RecordsIn(records) ELSE waiting

\* The record an answer names: of the context, or else of the identity the store finds.
Found(state, id) ==
  LET known == { r \in RecordsIn(Context(state)) : r.id = id } IN
  IF known # {} THEN known
  ELSE UNION { { r \in RecordsIn(identities[p]) : r.id = id } : p \in People }

\* A verification takes what is allowed of the context, a sign-in any confirmed credential.
Takes(state, record) ==
  IF WaitsFor(state) = "sign-in" THEN record.confirmed ELSE record \in Allowed(Context(state))

\* verifyPrompt: the signature is of the stored key, and a credential that verified its
\* owner at the registration keeps doing so.
Verifies(state, record, key, verified) ==
  /\ kv[state.dance] = "webauthn.get"
  /\ HolderOf[key] = DriverOf[state.dance] /\ record.key = key
  /\ VerifiesOwner(verified)
  /\ Verification = "preferred" /\ record.verified => verified

SignIn(state, person, record) ==
  /\ record \in RecordsIn(identities[person])
  /\ signedIn' = signedIn \cup {<<person, record.key>>}
  /\ kv' = [kv EXCEPT ![state.dance] = None]
  /\ UNCHANGED <<held, drawn, identities, proven>>

\* The adapter refuses an id that another identity holds, and a second record of a name.
Refuses(person, records, adds) ==
  \/ \E other \in People \ {person} : KnownIds(records) \cap KnownIds(identities[other]) # {}
  \/ adds /\ Holds(person)

\* setIdentity at the end of an enroll, which adds, and of a rotate, which replaces.
Write(person, records, adds) ==
  identities' = IF Refuses(person, records, adds) THEN identities ELSE [identities EXCEPT ![person] = records]

Confirm(state, record) ==
  LET collected == state.records[1] IN
  /\ proven' = proven \cup {<<state.dance, record.id, record.key>>}
  /\ Write(OwnerOf[state.dance], << [collected EXCEPT !.confirmed = TRUE] >>, FlowOf[state.dance] = "enroll")
  /\ kv' = [kv EXCEPT ![state.dance] = None]
  /\ UNCHANGED <<held, drawn, signedIn>>

Sign(state, id, key, verified) ==
  \E record \in Found(state, id) :
    /\ Takes(state, record) /\ Verifies(state, record, key, verified)
    /\ \/ WaitsFor(state) = "sign-in" /\ \E person \in People : SignIn(state, person, record)
       \/ /\ WaitsFor(state) = "control" /\ Hand([state EXCEPT !.checked = TRUE])
          /\ UNCHANGED <<identities, signedIn, proven>>
       \/ WaitsFor(state) = "confirmation" /\ Confirm(state, record)

Next ==
  \/ \E d \in Dances : Start(d) \/ Lapse(d)
  \/ \E state \in held, id \in Ids, key \in Keys, verified \in BOOLEAN :
       Register(state, id, key, verified) \/ Sign(state, id, key, verified)

Spec == Init /\ [][Next]_vars
-----------------------------------------------------------------------------
\* A record of an identity is confirmed and the only one, and that of a state is not.
TypeOK ==
  /\ \A state \in held : Len(state.records) <= 1 /\
       \A n \in DOMAIN state.records : state.records[n] \in Record /\ ~state.records[n].confirmed
  /\ kv \in [Dances -> {"webauthn.get", "webauthn.create", None}]
  /\ \A p \in People : Len(identities[p]) <= 1 /\ \A r \in RecordsIn(identities[p]) : r \in Record /\ r.confirmed

\* "A credential id belongs to one owner", also when two dances registered it before either
\* one wrote: a sign-in finds one identity for it.
IdsHaveOneOwner == \A p, q \in People : p # q => KnownIds(identities[p]) \cap KnownIds(identities[q]) = {}

\* "A verification accepts the credential the flow just collected, and nothing else": no
\* fork of a dance stores a credential that never signed for itself.
ConfirmedByItself ==
  \A p \in People : \A r \in RecordsIn(identities[p]) :
    \/ \E home \in Homes : r \in RecordsIn(home[p])
    \/ \E d \in Dances : <<d, r.id, r.key>> \in proven

\* Who holds a session of a person without its passkey puts no passkey in its place: a
\* sign-in is of the person whose key signed, whatever ids were registered and rotated.
SignInsAreTheOwners == \A entry \in signedIn : HolderOf[entry[2]] = entry[1]

\* The two kinds of a ceremony share a key: the one that waits is of a kind that a state of its
\* dance asks for, so a signature answers no registration and a registration no sign-in.  That
\* the challenge is the one of the last prompt is left out: who holds the key signs anew.
CeremonyIsAskedFor ==
  \A d \in Dances : kv[d] # None =>
    \E state \in held : state.dance = d /\ kv[d] = IF WaitsFor(state) = "registration" THEN "webauthn.create" ELSE "webauthn.get"

\* A passkey is stored, and signs in, for the person who holds it.
PasskeysAreTheOwners ==
  TypeOK /\ IdsHaveOneOwner /\ ConfirmedByItself /\ SignInsAreTheOwners /\ CeremonyIsAskedFor
=============================================================================
