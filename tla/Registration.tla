---------------------------- MODULE Registration ----------------------------
(***************************************************************************)
(* The registered clients of the authorization server: what a registration *)
(* request may become (src/oauth2/client.ts, registerClient of             *)
(* src/oauth2/api.ts), the records and the secrets of the client storage   *)
(* (src/oauth2/storage.ts), and the authentication of a client             *)
(* (src/oauth2/client-auth.ts).                                            *)
(*                                                                         *)
(* A record is written whole.  A rotation reads it, hashes a new secret    *)
(* and writes it back; an administrator reads it and, in their own time,   *)
(* hands updateClient a changed copy.  Nothing compares before it writes.  *)
(* A secret is a number, and the hash of it the same number.               *)
(***************************************************************************)
EXTENDS Naturals, FiniteSets

CONSTANTS
  Clients,
  Calls,        \* bound: the rotations, updates and authentications under way
  MaxSecrets,   \* bound: the secrets the storage draws
  MaxTime,      \* bound: the moments of the clock
  Lifetime,     \* registration.secret_lifetime, in moments; 0 for a secret that never expires
  Offered,      \* the scopes a dynamic client may have
  Scopes,       \* the scopes the server knows
  Bodies,       \* the metadata that requests, policies and administrators come up with
  Absent, Idle

GrantTypes == {"authorization_code", "refresh_token", "client_credentials", "device_code"}
Methods == {"client_secret_basic", "client_secret_post", "none"}
ServerFields == {"skip_consent", "introspect", "audience"}
Uris == {"https", "http"}   \* one validateRedirectUri takes, and one it does not
NoSecret == 0
Never == 0
Secrets == 1..MaxSecrets

\* What a request names, or a policy makes of it.  A member that is absent has its default.
Metadata == [ method : Methods, grants : (SUBSET GrantTypes) \ {{}}, code : BOOLEAN,
              uris : SUBSET Uris, scope : SUBSET Scopes, fields : SUBSET ServerFields ]

\* What a module that gives these constants values assumes of them.
RegistrationAssumption ==
  /\ Offered \subseteq Scopes
  /\ Bodies \subseteq Metadata
  /\ MaxSecrets \in Nat /\ MaxTime \in Nat \ {0} /\ Lifetime \in Nat

Record == [ metadata : Metadata, by : {"admin", "dynamic"},
            hash : {NoSecret} \cup Secrets, expires : 0..(MaxTime + Lifetime + 1) ]

\* `secret` is what a caller presents, or what a rotation drew; `known` is history: the
\* secrets that were replaced, or had expired, when the call began.
Call == [ op : {"rotate", "update", "authenticate"}, client : Clients, seen : Record,
          secret : {NoSecret} \cup Secrets, method : Methods, known : SUBSET Secrets ]

VARIABLES
  clients,   \* the record of each client id, or Absent
  calls,     \* the calls between their read and the rest
  drawn,     \* the secrets drawn so far, one number after the other
  clock,
  given,     \* history: for each client the secrets an answer gave its owner
  replaced,  \* history: the secrets a rotation that answered replaced
  deleted,   \* history: the clients a deletion that answered deleted
  lost,      \* history: the clients whose record was written over one the writer never read
  edited,    \* history: the clients an administrator updated
  passed     \* history: the secrets that passed a check begun after they were replaced or expired

vars == <<clients, calls, drawn, clock, given, replaced, deleted, lost, edited, passed>>

Init ==
  /\ clients = [ c \in Clients |-> Absent ]
  /\ calls = [ k \in Calls |-> Idle ]
  /\ drawn = 0 /\ clock = 1
  /\ given = [ c \in Clients |-> {} ]
  /\ replaced = {} /\ deleted = {} /\ lost = {} /\ edited = {} /\ passed = {}

Stored(c) == clients[c] # Absent
-----------------------------------------------------------------------------
(* What may be registered.                                                 *)

\* validateRedirectUri takes https:, a loopback or a private-use scheme.
ValidUris(metadata) == metadata.uris \subseteq {"https"}

\* checkClientMetadata: the rules between the fields.
Checked(metadata) ==
  /\ "authorization_code" \in metadata.grants <=> metadata.code
  /\ "refresh_token" \in metadata.grants
       => metadata.grants \cap {"authorization_code", "device_code"} # {}
  /\ "client_credentials" \in metadata.grants => metadata.method # "none"
  /\ "authorization_code" \in metadata.grants => metadata.uris # {}
  /\ ValidUris(metadata)

\* parseClientMetadata: the scope narrows without an error, and only an administrator
\* sets the fields of the server.
Parsed(body, ceiling, by) ==
  [ body EXCEPT !.scope = @ \cap ceiling, !.fields = IF by = "admin" THEN @ ELSE {} ]

\* The policy may answer anything; the fields of the server are dropped from its answer.
Rewritten(metadata) == [ metadata EXCEPT !.fields = {} ]

\* The metadata registerClient may come to for a body; none when it refuses.
Accepted(body, by) ==
  LET parsed == Parsed(body, IF by = "dynamic" THEN Offered ELSE Scopes, by)
      answers == IF by = "dynamic" THEN { Rewritten(m) : m \in Bodies } ELSE {}
  IN IF Checked(parsed) THEN { m \in {parsed} \cup answers : Checked(m) } ELSE {}

Draw == drawn' = drawn + 1

Expiry(by) == IF by = "dynamic" /\ Lifetime > 0 THEN clock + Lifetime ELSE Never

Settled == <<calls, clock, replaced, deleted, lost, edited, passed>>

\* The schema of #write: a confidential client holds a hash, a public client holds none.
FitsSchema(record) == record.metadata.method = "none" <=> record.hash = NoSecret

\* registerClient and createClient: one write, of a client nobody else knows.
Register(c) ==
  /\ ~Stored(c) /\ c \notin deleted /\ given[c] = {}
  /\ \E body \in Bodies, by \in {"admin", "dynamic"} : \E metadata \in Accepted(body, by) :
       LET public == metadata.method = "none"
           record == [ metadata |-> metadata, by |-> by, expires |-> Expiry(by),
                       hash |-> IF public THEN NoSecret ELSE drawn + 1 ] IN
         /\ FitsSchema(record)
         /\ clients' = [clients EXCEPT ![c] = record]
         /\ IF public
            THEN UNCHANGED <<drawn, given>>
            ELSE Draw /\ drawn < MaxSecrets /\ given' = [given EXCEPT ![c] = {drawn + 1}]
  /\ UNCHANGED Settled
-----------------------------------------------------------------------------
(* The calls that read a record first.                                     *)

Ended(k) == calls' = [calls EXCEPT ![k] = Idle]

HasExpired(record, time) == record.expires # Never /\ record.expires <= time

\* The secrets that should no longer pass a check that begins now.
Dead == replaced \cup { clients[c].hash : c \in { d \in Clients : Stored(d) /\ HasExpired(clients[d], clock) } }

Begin(k, op, c, secret, method) ==
  /\ calls[k] = Idle /\ Stored(c)
  /\ calls' = [calls EXCEPT ![k] =
       [ op |-> op, client |-> c, seen |-> clients[c], secret |-> secret, method |-> method,
         known |-> Dead \ {NoSecret} ]]
  /\ UNCHANGED <<clients, clock, given, replaced, deleted, lost, edited, passed>>

\* rotateSecret refuses a client without a secret.
StartRotation(k, c) ==
  /\ Stored(c) /\ clients[c].hash # NoSecret
  /\ drawn < MaxSecrets /\ Draw
  /\ Begin(k, "rotate", c, drawn + 1, clients[c].metadata.method)

StartUpdate(k, c) ==
  /\ Stored(c) /\ Begin(k, "update", c, NoSecret, clients[c].metadata.method)
  /\ UNCHANGED drawn

\* The caller presents a secret it was given, a secret of another client, or none.
StartCheck(k, c) ==
  /\ \E secret \in {NoSecret} \cup 1..drawn, method \in Methods :
       /\ (method = "none") = (secret = NoSecret)
       /\ Begin(k, "authenticate", c, secret, method)
  /\ UNCHANGED drawn

Lost(k) == IF clients[calls[k].client] = calls[k].seen THEN {} ELSE {calls[k].client}

\* A variant with a bug: the record keeps the hash it had.
KeepsHash(k, expires) == [ calls[k].seen EXCEPT !.expires = expires ]

\* rotateSecret writes the record it read, with the hash and the expiry of the new secret.
Rotated(k, expires) == [ calls[k].seen EXCEPT !.hash = calls[k].secret, !.expires = expires ]

FinishRotation(k) ==
  /\ calls[k] # Idle /\ calls[k].op = "rotate" /\ Ended(k)
  /\ LET c == calls[k].client IN
       /\ \E expires \in {Never, clock + 1} : clients' = [clients EXCEPT ![c] = Rotated(k, expires)]
       /\ given' = [given EXCEPT ![c] = @ \cup {calls[k].secret}]
       /\ replaced' = replaced \cup given[c]
       /\ lost' = lost \cup Lost(k)
  /\ UNCHANGED <<drawn, clock, deleted, edited, passed>>

\* updateClient: any change of the metadata that passes the schema and the URIs; the
\* rules between the fields are not run again.
FinishUpdate(k) ==
  /\ calls[k] # Idle /\ calls[k].op = "update" /\ Ended(k)
  /\ LET c == calls[k].client IN
       /\ \E metadata \in Bodies : LET record == [ calls[k].seen EXCEPT !.metadata = metadata ] IN
              /\ FitsSchema(record) /\ ValidUris(record.metadata)
              /\ clients' = [clients EXCEPT ![c] = record]
       /\ lost' = lost \cup Lost(k)
       /\ edited' = edited \cup {c}
  /\ UNCHANGED <<drawn, clock, given, replaced, deleted, passed>>

\* verifySecret.
Verifies(record, secret, time) ==
  record.hash # NoSecret /\ ~HasExpired(record, time) /\ secret = record.hash

\* authenticateClient: the method is the registered one, and the secret is its own.
Authenticates(record, call) ==
  /\ record.metadata.method = call.method
  /\ call.method # "none" => Verifies(record, call.secret, clock)

FinishCheck(k) ==
  /\ calls[k] # Idle /\ calls[k].op = "authenticate" /\ Ended(k)
  /\ passed' = IF Authenticates(calls[k].seen, calls[k]) /\ calls[k].client \notin lost
               THEN passed \cup ({calls[k].secret} \cap calls[k].known)
               ELSE passed
  /\ UNCHANGED <<clients, drawn, clock, given, replaced, deleted, lost, edited>>

\* The record goes last, after the grants of the client.
DeleteClient(c) ==
  /\ Stored(c)
  /\ clients' = [clients EXCEPT ![c] = Absent]
  /\ deleted' = deleted \cup {c}
  /\ UNCHANGED <<calls, drawn, clock, given, replaced, lost, edited, passed>>

Tick ==
  /\ clock < MaxTime /\ clock' = clock + 1
  /\ UNCHANGED <<clients, calls, drawn, given, replaced, deleted, lost, edited, passed>>

Next ==
  \/ \E c \in Clients : Register(c) \/ DeleteClient(c)
  \/ \E k \in Calls :
       \/ \E c \in Clients : StartRotation(k, c) \/ StartUpdate(k, c) \/ StartCheck(k, c)
       \/ FinishRotation(k) \/ FinishUpdate(k) \/ FinishCheck(k)
  \/ Tick

Spec == Init /\ [][Next]_vars
-----------------------------------------------------------------------------
(* Properties.                                                             *)

\* Every record and every call is well formed.
TypeOK ==
  /\ \A c \in Clients : Stored(c) => clients[c] \in Record
  /\ \A k \in Calls : calls[k] # Idle => calls[k] \in Call
  /\ drawn \in 0..MaxSecrets /\ clock \in 1..MaxTime
  /\ given \in [Clients -> SUBSET Secrets]
  /\ replaced \cup passed \subseteq Secrets /\ deleted \cup lost \cup edited \subseteq Clients

\* Whatever the body names and the policy of the deployment answers, a client of the
\* registration endpoint that no administrator changed has none of the fields of the
\* server, keeps the rules between its fields, and holds a secret exactly when it is
\* confidential, that expires as the server says or was rotated since.
DynamicClientsHoldNoPrivilege ==
  \A c \in Clients \ edited : Stored(c) =>
    /\ Checked(clients[c].metadata) /\ FitsSchema(clients[c])
    /\ clients[c].by = "dynamic" =>
         /\ clients[c].metadata.fields = {}
         /\ Lifetime > 0 => clients[c].expires # Never \/ Cardinality(given[c]) # 1

\* A secret that a rotation replaced, or that expired, passes no check that begins later,
\* unless a writer put back a record over a change it never read.
DeadSecretsFail == passed = {}

\* src/oauth2/storage.ts:109 of rotateSecret: "The old secret stops working at once."  An
\* updateClient with a copy read before the rotation puts the old hash back.
OldSecretStops ==
  \A c \in Clients : Stored(c) => clients[c].hash \notin replaced

\* A registered client is what the server made of its request, with the one secret it has now.
ClientsAreAsRegistered == TypeOK /\ DynamicClientsHoldNoPrivilege /\ DeadSecretsFail
=============================================================================
