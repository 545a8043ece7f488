---------------------------- MODULE AccessTokens ----------------------------
(***************************************************************************)
(* The tokens of the library and what each part of it takes them for: the  *)
(* mint and the claims mapper (mintTokens of src/api.ts, src/claims.ts),   *)
(* the keys and their rotation (src/keys.ts), the refresh, the checks of   *)
(* verifyAccessToken and of a management action, and the introspection and *)
(* the revocation of the authorization server (src/oauth2/api.ts), which   *)
(* reads the same tokens with code of its own.                             *)
(*                                                                         *)
(* A token is what it says: its typ, the key that signed it, its claims.   *)
(* A call is one step; what two refreshes at a time do to a session is the *)
(* subject of Sessions.tla.  A check changes nothing and is an operator,   *)
(* so the properties ask for its answer in every state, on every token     *)
(* that was ever minted.                                                   *)
(***************************************************************************)
EXTENDS Naturals, Sequences, FiniteSets

CONSTANTS
  Identities, SessionIds,
  Clients,     \* the ids a client may be registered under
  Profile,     \* what each client is registered with
  Issuer,      \* the client_id of the tokens of a dance, and their audience
  Scopes, Account,
  Named,       \* the claims each scope names, by the default mapping
  Mapped,      \* what a claims mapper may answer instead
  Reserved,    \* the names of the claims that the library sets
  KeyLists,    \* the lists of keys a deployment comes up with
  Access, Elevated, Life,   \* durations: an access token, the elevated window, a session
  MaxTime, MaxTokens,       \* bounds: the clock and the tokens minted
  None

\* A client: public or confidential, with its scopes and its grants; a resource server may
\* introspect every token; the audience is of its access tokens.
ClientProfile == [ public : BOOLEAN, introspect : BOOLEAN, audience : STRING,
                   scopes : SUBSET Scopes, refreshes : BOOLEAN, alone : BOOLEAN ]

\* A session as createSession makes it; the count is of its refreshes.
Session == [ identity : Identities, client : Clients \cup {Issuer}, scopes : SUBSET Scopes,
             count : Nat, expireAt : Nat, authTime : 0..MaxTime ]

AccessTokensAssumption ==
  /\ Profile \in [Clients -> ClientProfile]
  /\ Account \in Scopes /\ Issuer \in STRING \ Clients
  /\ KeyLists \subseteq Seq([ kid : Nat, private : BOOLEAN ])
  /\ {Elevated, MaxTime, MaxTokens} \subseteq Nat /\ {Access, Life} \subseteq Nat \ {0}
  /\ None \notin SessionIds \cup (0..MaxTime) \cup Session

VARIABLES
  keys,         \* options.tokens.keys, the first one signs
  identities, clients,   \* those the storage holds
  sessions,     \* the record createSession made under each id, or None
  ended,        \* the sessions deleted
  unexchanged,  \* the grants whose code nobody exchanged yet
  tokens,       \* every token minted
  clock,
  signIns       \* history: who signed in, and when

vars == <<keys, identities, clients, sessions, ended, unexchanged, tokens, clock, signIns>>

KeysIn(list) == { list[n] : n \in DOMAIN list }

\* The constructor of AuthDanceKeys: a key to sign with, and no kid twice.
ValidKeys(list) ==
  /\ list # <<>> /\ list[1].private
  /\ \A m, n \in DOMAIN list : list[m].kid = list[n].kid => m = n

\* The Map of the verifiers, and the keys of jwks().
Verifiers == { key.kid : key \in KeysIn(keys) }

Stored(s) == sessions[s] # None /\ s \notin ended /\ clock < sessions[s].expireAt
-----------------------------------------------------------------------------
(* The mint.                                                               *)

Answers == {[scope \in Scopes |-> Named[scope]]} \cup Mapped

\* resolveClaims keeps the groups of the scopes of the token.
Merged(groups, scopes) == UNION { groups[scope] : scope \in scopes }

\* It refuses a reserved name, and one name with two values.
Refused(claims) ==
  \/ \E c \in claims : c.name \in Reserved
  \/ \E c, d \in claims : c.name = d.name /\ c # d

\* What mintTokens makes of its options; nothing when the mapper fails.
Mint(options, groups) ==
  LET claims == Merged(groups, options.scopes)
      token(typ, scope, aud, exp, count, said) ==
        [ typ |-> typ, kid |-> keys[1].kid, sub |-> options.subject, client |-> options.client,
          sid |-> options.sid, scope |-> scope, aud |-> aud, authTime |-> options.authTime,
          iat |-> clock, exp |-> exp, count |-> count, claims |-> said ]
      access == token("at+jwt", options.scopes, options.audience, clock + Access, 0, claims)
      refresh == token("rt+jwt", options.granted, Issuer, sessions'[options.sid].expireAt,
                       sessions'[options.sid].count, {})
  IN IF Refused(claims) THEN {}
     ELSE {access} \cup IF options.refreshes THEN {refresh} ELSE {}

Minted(new) == tokens' = tokens \cup new /\ Cardinality(tokens') <= MaxTokens

Created(s, identity, client, scopes, authTime) ==
  /\ sessions[s] = None
  /\ sessions' = [sessions EXCEPT ![s] =
       [ identity |-> identity, client |-> client, scopes |-> scopes, count |-> 0,
         expireAt |-> clock + Life, authTime |-> authTime ]]

\* The options of the mint for a session; what it may hold is what it was granted.
ForSession(s, scopes, granted, authTime, audience, refreshes) ==
  [ subject |-> sessions[s].identity, client |-> sessions[s].client, sid |-> s, scopes |-> scopes,
    granted |-> granted, authTime |-> authTime, audience |-> audience, refreshes |-> refreshes ]

Init ==
  /\ keys \in { list \in KeyLists : ValidKeys(list) }
  /\ identities = Identities /\ clients = Clients
  /\ sessions = [s \in SessionIds |-> None]
  /\ ended = {} /\ unexchanged = {} /\ tokens = {} /\ clock = 0 /\ signIns = {}

\* #issueTokens: the last step of a dance.  The session stays when the mint fails.
SignIn(i, s) ==
  /\ i \in identities
  /\ Created(s, i, Issuer, Scopes, clock)
  /\ \E groups \in Answers :
       Minted(Mint([ subject |-> i, client |-> Issuer, sid |-> s, scopes |-> Scopes, granted |-> Scopes,
                     authTime |-> clock, audience |-> Issuer, refreshes |-> TRUE ], groups))
  /\ signIns' = signIns \cup {<<i, clock>>}
  /\ UNCHANGED <<keys, identities, clients, ended, unexchanged, clock>>

\* A grant the owner consented to, with the auth_time of the sign-in behind the consent.  The
\* owner may grant no scope at all.
Consent(i, c, scopes, s) ==
  /\ i \in identities /\ c \in clients
  /\ scopes \subseteq Profile[c].scopes
  /\ \E t \in 0..clock : <<i, t>> \in signIns /\ Created(s, i, c, scopes, t)
  /\ unexchanged' = unexchanged \cup {s}
  /\ UNCHANGED <<keys, identities, clients, ended, tokens, clock, signIns>>

\* #mintFirst; a session without its identity ends here.
Exchange(s) ==
  /\ s \in unexchanged /\ sessions[s].client \in clients
  /\ unexchanged' = unexchanged \ {s}
  /\ UNCHANGED <<keys, identities, clients, sessions, clock, signIns>>
  /\ LET session == sessions[s]  client == Profile[session.client] IN
     IF ~Stored(s) THEN UNCHANGED <<ended, tokens>>
     ELSE IF session.identity \notin identities THEN ended' = ended \cup {s} /\ UNCHANGED tokens
     ELSE /\ \E groups \in Answers :
               Minted(Mint(ForSession(s, session.scopes, session.scopes, session.authTime,
                                      client.audience, client.refreshes), groups))
          /\ UNCHANGED ended

\* #clientCredentials.
ActAlone(c, scopes) ==
  /\ c \in clients /\ Profile[c].alone /\ ~Profile[c].public
  /\ scopes # {} /\ scopes \subseteq Profile[c].scopes
  /\ \E groups \in Answers :
       Minted(Mint([ subject |-> c, client |-> c, sid |-> None, scopes |-> scopes, granted |-> scopes,
                     authTime |-> None, audience |-> Profile[c].audience, refreshes |-> FALSE ], groups))
  /\ UNCHANGED <<keys, identities, clients, sessions, ended, unexchanged, clock, signIns>>
-----------------------------------------------------------------------------
(* The checks.                                                             *)

\* The verify of keys.ts for one typ at one moment.
Passes(token, typ, time) == token.kid \in Verifiers /\ token.typ = typ /\ time < token.exp

\* #verifyToken.
Verified(token, typ, audience) == Passes(token, typ, clock) /\ token.aud = audience

\* The session a token names is there, and is the one the token was minted for.
SessionThere(token) ==
  /\ token.sid # None /\ Stored(token.sid)
  /\ sessions[token.sid].identity = token.sub /\ sessions[token.sid].client = token.client

\* verifyAccessToken, without and with `session: true`.
VerifyAccess(token, audience) == Verified(token, "at+jwt", audience)
VerifyWithSession(token, audience) == VerifyAccess(token, audience) /\ SessionThere(token)

\* #unrollAccessToken.
Unrolled(token) ==
  /\ VerifyAccess(token, Issuer) /\ Account \in token.scope
  /\ SessionThere(token) /\ token.sub \in identities

\* What enroll, rotate and the others ask: #requireFreshSignIn too.
MayManage(token) == Unrolled(token) /\ clock - token.authTime <= Elevated

\* A variant with a bug, for IntrospectionIsTrue: the identity is not looked for.
IsBehindUnowned(token) ==
  IF token.sid = None THEN token.client \in clients ELSE SessionThere(token)

\* #tokenIdentity: something stands behind the token.
IsBehind(token) ==
  IF token.sid = None THEN token.client \in clients
  ELSE SessionThere(token) /\ sessions[token.sid].identity \in identities

MayIntrospect(caller, client) == caller = client \/ Profile[caller].introspect

Types == {"at+jwt", "rt+jwt"}

\* introspect says `active`.  The hint sets which typ comes first, and a token has one.
Active(caller, token) ==
  /\ caller \in clients /\ ~Profile[caller].public
  /\ \E typ \in Types : Passes(token, typ, clock)
  /\ MayIntrospect(caller, token.client)
  /\ IsBehind(token)

\* #readToken of a revocation: `exp` is checked at the start of the epoch.
ReadToRevoke(token) == \E typ \in Types : Passes(token, typ, 0)

Revokes(caller, token) ==
  /\ caller \in clients /\ ReadToRevoke(token)
  /\ token.client = caller /\ SessionThere(token)
-----------------------------------------------------------------------------
(* What the holders of tokens do.                                          *)

\* refreshToken up to the count, from a dance (client_id the issuer) or a client.
MayRefresh(caller, token, scopes) ==
  /\ caller \in clients => Profile[caller].refreshes
  /\ Verified(token, "rt+jwt", Issuer) /\ token.client = caller
  /\ scopes # {} /\ scopes \subseteq token.scope
  /\ SessionThere(token) /\ token.sub \in identities

\* Variants with a bug: for ManagedAfterASignIn, ScopesStayAsGranted and LastTokenPasses.
AuthTimeNow(token) == clock
Narrowed(token, scopes) == scopes
WritesAnyway(new) == TRUE

AuthTimeKept(token) == token.authTime
Granted(token, scopes) == token.scope

\* The write comes after the mint, so a failed one leaves the session as it is.
Writes(new) == new # {}

AudienceFor(caller) == IF caller = Issuer THEN Issuer ELSE Profile[caller].audience

Refresh(caller, token, scopes) ==
  /\ caller \in clients \cup {Issuer} /\ MayRefresh(caller, token, scopes)
  /\ token.count = sessions[token.sid].count
  /\ sessions' = [sessions EXCEPT ![token.sid].count = @ + 1]
  /\ \E groups \in Answers :
       LET new == Mint(ForSession(token.sid, scopes, Granted(token, scopes), AuthTimeKept(token),
                                  AudienceFor(caller), TRUE), groups)
       IN Writes(new) /\ Minted(new)
  /\ UNCHANGED <<keys, identities, clients, ended, unexchanged, clock, signIns>>

Ends(gone) ==
  /\ ended' = ended \cup gone
  /\ UNCHANGED <<keys, identities, clients, sessions, unexchanged, tokens, clock, signIns>>

\* A token that is not the last one ends its session.
Reuse(caller, token) ==
  /\ caller \in clients \cup {Issuer} /\ MayRefresh(caller, token, token.scope)
  /\ token.count # sessions[token.sid].count
  /\ Ends({token.sid})

SignOut(token, others) ==
  /\ Unrolled(token)
  /\ Ends({token.sid} \cup { s \in SessionIds : others /\ Stored(s) /\ sessions[s].client = Issuer
                                                /\ sessions[s].identity = token.sub })

Revoke(caller, token) == Revokes(caller, token) /\ Ends({token.sid})

\* revokeOwnGrant; #accountOwner asks for `account` and the session, not for a fresh sign-in.
RevokeOwnGrant(token, s) ==
  /\ VerifyWithSession(token, Issuer) /\ Account \in token.scope
  /\ Stored(s) /\ sessions[s].identity = token.sub /\ sessions[s].client # Issuer
  /\ Ends({s})

\* The delete of an identity or of a client ends the sessions that its list shows; one that
\* was created beside it is not among them (Management.tla, CodeGrant.tla).
Delete(i, listed) ==
  /\ i \in identities /\ identities' = identities \ {i}
  /\ listed \subseteq { s \in SessionIds : Stored(s) /\ sessions[s].identity = i }
  /\ ended' = ended \cup listed
  /\ UNCHANGED <<keys, clients, sessions, unexchanged, tokens, clock, signIns>>

DeleteClient(c, listed) ==
  /\ c \in clients /\ clients' = clients \ {c}
  /\ listed \subseteq { s \in SessionIds : Stored(s) /\ sessions[s].client = c }
  /\ ended' = ended \cup listed
  /\ UNCHANGED <<keys, identities, sessions, unexchanged, tokens, clock, signIns>>

\* A deployment with another list of keys.
Deploy(list) ==
  /\ ValidKeys(list) /\ keys # list /\ keys' = list
  /\ UNCHANGED <<identities, clients, sessions, ended, unexchanged, tokens, clock, signIns>>

Tick ==
  /\ clock < MaxTime /\ clock' = clock + 1
  /\ UNCHANGED <<keys, identities, clients, sessions, ended, unexchanged, tokens, signIns>>

Next ==
  \/ Tick
  \/ \E list \in KeyLists : Deploy(list)
  \/ \E i \in Identities, s \in SessionIds : SignIn(i, s)
  \/ \E i \in Identities, c \in Clients, scopes \in SUBSET Scopes, s \in SessionIds : Consent(i, c, scopes, s)
  \/ \E s \in SessionIds : Exchange(s)
  \/ \E c \in Clients, scopes \in SUBSET Scopes : ActAlone(c, scopes)
  \/ \E token \in tokens :
       \/ \E caller \in Clients \cup {Issuer} :
            Reuse(caller, token) \/ \E scopes \in SUBSET Scopes : Refresh(caller, token, scopes)
       \/ \E others \in BOOLEAN : SignOut(token, others)
       \/ \E caller \in Clients : Revoke(caller, token)
       \/ \E s \in SessionIds : RevokeOwnGrant(token, s)
  \/ \E i \in Identities, listed \in SUBSET SessionIds : Delete(i, listed)
  \/ \E c \in Clients, listed \in SUBSET SessionIds : DeleteClient(c, listed)

Spec == Init /\ [][Next]_vars
-----------------------------------------------------------------------------
Token == [ typ : Types, kid : { key.kid : key \in UNION { KeysIn(list) : list \in KeyLists } },
           sub : Identities \cup Clients, client : Clients \cup {Issuer}, sid : SessionIds \cup {None},
           scope : SUBSET Scopes, aud : STRING, authTime : (0..MaxTime) \cup {None},
           iat : 0..MaxTime, exp : Nat, count : Nat, claims : SUBSET UNION { g[scope] : g \in Answers, scope \in Scopes } ]

\* Every token, session and key list has the type its code gives it; the Map of the
\* verifiers holds every key of the list.
TypeOK ==
  /\ keys # <<>> /\ keys[1].private /\ Cardinality(Verifiers) = Len(keys)
  /\ identities \subseteq Identities /\ clients \subseteq Clients
  /\ ended \cup unexchanged \subseteq { s \in SessionIds : sessions[s] # None }
  /\ \A token \in tokens : token \in Token /\ (token.sid = None <=> token.authTime = None)
  /\ clock \in 0..MaxTime

\* #requireFreshSignIn: whatever token starts a management action, of a dance or of a client,
\* refreshed any number of times, its owner signed in within the elevated window.
ManagedAfterASignIn ==
  \A token \in tokens : MayManage(token) =>
    \E t \in 0..clock : <<token.sub, t>> \in signIns /\ clock - t <= Elevated

\* src/api.ts:364: "A refresh token never passes as an access token": no check of an access
\* token takes one, so an access lasts durations.access from a mint and not longer.
RefreshTokensGiveNoAccess ==
  \A token \in tokens : \A audience \in {Issuer, token.aud} :
    VerifyAccess(token, audience) => token.typ = "at+jwt" /\ clock - token.iat < Access

\* mintTokens: a refresh may narrow the access token, never widen it past the consent, and it
\* keeps the refresh token whole, so a narrow refresh does not narrow the ones after it.
ScopesStayAsGranted ==
  \A token \in tokens :
    IF token.sid = None THEN token.scope \subseteq Profile[token.client].scopes
    ELSE /\ token.scope \subseteq sessions[token.sid].scopes
         /\ token.typ = "rt+jwt" => token.scope = sessions[token.sid].scopes

\* refreshToken: the last refresh token of a session refreshes it, whole, also after a refresh
\* whose mint failed: as long as the session, its owner and its client are there, and the key
\* is in the list.  The one of a grant of no scope never does (api.ts:981).
LastTokenPasses ==
  \A s \in SessionIds :
    /\ Stored(s) /\ sessions[s].scopes # {}
    /\ sessions[s].identity \in identities /\ sessions[s].client \in clients \cup {Issuer}
    /\ \E token \in tokens : token.sid = s /\ token.typ = "rt+jwt"
    => \E token \in tokens :
         /\ token.sid = s /\ token.typ = "rt+jwt" /\ token.count = sessions[s].count
         /\ token.kid \in Verifiers => MayRefresh(sessions[s].client, token, token.scope)

\* introspect and verifyAccessToken are two readers of one token: what introspection calls
\* active has its owner or its client behind it, and the core accepts it, if it is an access
\* token of a session; what the core accepts, of an identity that is there, is active.
IntrospectionIsTrue ==
  \A token \in tokens, caller \in clients :
    LET accepted == VerifyWithSession(token, token.aud) IN
    /\ Active(caller, token) => token.sub \in identities \cup clients
    /\ token.typ = "at+jwt" /\ token.sid # None /\ Active(caller, token) => accepted
    /\ accepted /\ token.sub \in identities /\ ~Profile[caller].public /\ MayIntrospect(caller, token.client)
         => Active(caller, token)

\* revoke: a client ends a session of its own with any token of it, however old (RFC 7009
\* asks for it, and "An access token revokes even after exp"), while the key is in the list.
AnyTokenEndsItsSession ==
  \A token \in tokens :
    token.client \in clients /\ token.sid # None /\ Stored(token.sid) /\ token.kid \in Verifiers
      => Revokes(token.client, token)

\* resolveClaims: a token has the claims of its own scopes alone, each with one value, and
\* none under a name the library sets; a refresh token has none.
ClaimsAreOfTheScopes ==
  \A token \in tokens :
    /\ token.typ = "rt+jwt" => token.claims = {}
    /\ \A c \in token.claims :
         /\ c.name \notin Reserved
         /\ \E groups \in Answers, scope \in token.scope : c \in groups[scope]
         /\ \A d \in token.claims : c.name = d.name => c = d

\* A token gives what its session and its owner gave, to every reader alike.
TokensTellTheTruth ==
  /\ TypeOK
  /\ ManagedAfterASignIn /\ RefreshTokensGiveNoAccess /\ ScopesStayAsGranted /\ LastTokenPasses
  /\ IntrospectionIsTrue /\ AnyTokenEndsItsSession /\ ClaimsAreOfTheScopes
=============================================================================
