------------------------------- MODULE CodeGrant -------------------------------
(***************************************************************************)
(* The authorization code grant of the OAuth2 server (src/oauth2/api.ts,   *)
(* RFC 6749 and 7636): a client starts a request, the owner signs in and   *)
(* consents on two pages, the client exchanges a code, and owners, clients *)
(* and administrators end grants, forget consents and delete clients.      *)
(*                                                                         *)
(* Every handler reads and writes one key of the store at a time, and      *)
(* nothing compares before it writes, so each such step is an action, with *)
(* what the handler holds in memory in `calls`.  A page that only fills in *)
(* its own challenge is one step.  A session is one record here: Sessions  *)
(* splits its two keys and counts its refreshes.                           *)
(*                                                                         *)
(* A proof stands for what only the party that started a request can show: *)
(* the code verifier, and the redirect URI the code was sent to.           *)
(***************************************************************************)
EXTENDS Naturals, FiniteSets

CONSTANTS
  Clients, Owners, Scopes, Proofs, Calls,
  MayAsk,        \* the sets of scopes each client asks for, out of #clientScopes
  SkipConsent,   \* the clients with skip_consent
  ChallengeIds,  \* bound: the pages open at once
  MaxSessions,   \* bound: the grants created
  None, Idle

ASSUME CodeGrantAssumption ==
  /\ MayAsk \in [Clients -> SUBSET (SUBSET Scopes \ {{}})] /\ SkipConsent \subseteq Clients
  /\ MaxSessions \in Nat
  /\ None \notin Owners \cup ChallengeIds \cup Nat

SessionIds == 1..MaxSessions

\* AuthorizationRequest.
Request == [ client : Clients, scopes : SUBSET Scopes, proof : Proofs ]

\* LoginRecord and ConsentRecord.
Challenge == [ page : {"login", "consent"}, request : Request, owner : Owners \cup {None},
               answer : {"accepted", "rejected", None}, granted : SUBSET Scopes, remember : BOOLEAN ]

\* CodeRecord, under the session the code is for.
Code == [ client : Clients, proof : Proofs, used : BOOLEAN ]

Grant == [ client : Clients, owner : Owners, scopes : SUBSET Scopes, live : BOOLEAN ]

Pairs == Owners \X Clients

\* A call under way: `kept` is what it read of the remembered consent, `todo` the rest of
\* the sessions it `listed` to revoke, and `goal` what it does after the last one.
Call == [ phase : {"unset", "login", "create", "index", "recall", "remember", "issue",
                   "use", "mint", "refresh", "revoke", "unindex", "unlist", "forget", "delete"},
          id : ChallengeIds \cup {None}, challenge : Challenge \cup {None},
          client : Clients \cup {None}, owner : Owners \cup {None}, proof : Proofs \cup {None},
          scopes : SUBSET Scopes, remember : BOOLEAN, kept : SUBSET Scopes,
          session : SessionIds \cup {None}, copy : Code \cup {None},
          todo : SUBSET SessionIds, listed : SUBSET SessionIds, goal : {"answer", "forget", "delete"} ]

\* A record and an answer are no model values.
ASSUME NoneAssumption ==
  /\ None \notin Challenge /\ None \notin Code /\ None \notin Grant /\ None \notin {"accepted", "rejected"}
  /\ Idle \notin Call

VARIABLES
  registered,   \* the clients of the store
  challenges,   \* oauth2/login/<id> and oauth2/consent/<id>
  codes,        \* oauth2/code/<hash>
  grants,       \* the sessions of the grants, in the order they were created
  index,        \* oauth2/client-sessions/<client>/<session>
  remembered,   \* oauth2/consents/<owner>/<client>
  departed,     \* the owners whose identity is gone
  calls,        \* the calls under way
  consents,     \* history: what the owners accepted, on a consent page
  logins,       \* history: the requests an owner signed in for
  tokens,       \* history: the first tokens of the codes
  twice,        \* history: the codes that gave tokens two times
  standing,     \* history: what the completed requests asked to remember, since the last forget
  ended,        \* history: the grants a completed revocation should have ended
  raced,        \* history: the grants whose writes met another call's
  mixed         \* history: the remembered consents whose writes met another call's

store == <<registered, challenges, codes, grants, index, remembered, departed>>
history == <<consents, logins, tokens, twice, standing, ended, raced, mixed>>
vars == <<store, calls, history>>
-----------------------------------------------------------------------------
Init ==
  /\ registered = Clients /\ departed = {}
  /\ challenges = [n \in ChallengeIds |-> None]
  /\ codes = [s \in SessionIds |-> None]
  /\ grants = [s \in SessionIds |-> None]
  /\ index = {} /\ remembered = [p \in Pairs |-> {}]
  /\ calls = [c \in Calls |-> Idle]
  /\ consents = {} /\ logins = {} /\ tokens = {} /\ twice = {} /\ standing = [p \in Pairs |-> {}]
  /\ ended = {} /\ raced = {} /\ mixed = {}

Live(s) == grants[s] # None /\ grants[s].live

\* A new challenge, under a random id: one that no page and no call knows.
Draw(challenge) ==
  \E n \in ChallengeIds :
    /\ challenges[n] = None /\ \A c \in Calls : calls[c] # Idle => calls[c].id # n
    /\ challenges' = [challenges EXCEPT ![n] = challenge]

Page(page, request, owner) ==
  [ page |-> page, request |-> request, owner |-> owner, answer |-> None, granted |-> {}, remember |-> FALSE ]

\* #startAuthorization: a client the store holds asks for scopes it may ask for.
StartAuthorization(request) ==
  /\ request.client \in registered
  /\ request.scopes \in MayAsk[request.client]
  /\ Draw(Page("login", request, None))
  /\ UNCHANGED <<registered, codes, grants, index, remembered, departed, calls, history>>

AtPage(n, page) == challenges[n] # None /\ challenges[n].page = page /\ challenges[n].answer = None

\* acceptLoginRequest, with an access token of the owner whose session exists.
AcceptLogin(n, owner) ==
  /\ AtPage(n, "login") /\ owner \notin departed
  /\ challenges' = [challenges EXCEPT ![n] = [challenges[n] EXCEPT !.answer = "accepted", !.owner = owner]]
  /\ logins' = logins \cup {[owner |-> owner, request |-> challenges[n].request]}
  /\ UNCHANGED <<registered, codes, grants, index, remembered, departed, calls, consents, tokens,
                 twice, standing, ended, raced, mixed>>

\* acceptConsentRequest: some or all of the scopes, to be remembered or not.
AcceptConsent(n, granted, remember) ==
  /\ AtPage(n, "consent") /\ granted \subseteq challenges[n].request.scopes
  /\ challenges' = [challenges EXCEPT ![n] = [challenges[n] EXCEPT !.answer = "accepted", !.granted = granted,
                                                                   !.remember = remember]]
  /\ consents' = consents \cup {[owner |-> challenges[n].owner, client |-> challenges[n].request.client,
                                 scopes |-> granted]}
  /\ UNCHANGED <<registered, codes, grants, index, remembered, departed, calls, logins, tokens,
                 twice, standing, ended, raced, mixed>>

\* rejectLoginRequest and rejectConsentRequest.
Reject(n) ==
  /\ AtPage(n, "login") \/ AtPage(n, "consent")
  /\ challenges' = [challenges EXCEPT ![n] = [challenges[n] EXCEPT !.answer = "rejected"]]
  /\ UNCHANGED <<registered, codes, grants, index, remembered, departed, calls, history>>

\* durations.challenge passes.
ExpireChallenge(n) ==
  /\ challenges[n] # None
  /\ challenges' = [challenges EXCEPT ![n] = None]
  /\ UNCHANGED <<registered, codes, grants, index, remembered, departed, calls, history>>
-----------------------------------------------------------------------------
Blank == [ phase |-> "unset", id |-> None, challenge |-> None, client |-> None, owner |-> None,
           proof |-> None, scopes |-> {}, remember |-> FALSE, kept |-> {}, session |-> None,
           copy |-> None, todo |-> {}, listed |-> {}, goal |-> "answer" ]

Begin(c, call) == calls[c] = Idle /\ calls' = [calls EXCEPT ![c] = call]
Goes(c, call) == calls' = [calls EXCEPT ![c] = call]
Ends(c) == calls' = [calls EXCEPT ![c] = Idle]
At(c, phase) == calls[c] # Idle /\ calls[c].phase = phase

\* authorize with a verifier: #redeem reads the record of an answered challenge.
Redeem(c, n) ==
  /\ challenges[n] # None /\ challenges[n].answer # None
  /\ Begin(c, [Blank EXCEPT !.id = n, !.challenge = challenges[n]])
  /\ UNCHANGED <<store, history>>

\* A completed page, as the call goes on with it.
Completion(call, phase, granted, remember) ==
  [Blank EXCEPT !.phase = phase, !.client = call.challenge.request.client, !.owner = call.challenge.owner,
                !.proof = call.challenge.request.proof, !.scopes = granted, !.remember = remember]

\* #redeem unsets the record, so the verifier works one time.  A rejection goes to the
\* client and changes nothing else (#fail); a consent goes straight to #createSession.
Unset(c) ==
  /\ At(c, "unset")
  /\ challenges' = [challenges EXCEPT ![calls[c].id] = None]
  /\ LET page == calls[c].challenge
     IN  CASE page.answer = "rejected" -> Ends(c)
           [] page.answer = "accepted" /\ page.page = "login" ->
                Goes(c, [calls[c] EXCEPT !.phase = "login", !.id = None])
           [] OTHER -> Goes(c, Completion(calls[c], "create", page.granted, page.remember))
  /\ UNCHANGED <<registered, codes, grants, index, remembered, departed, history>>

\* No consent page for a client of the administrator, or for scopes granted before.
IsSkipped(request, owner) ==
  request.client \in SkipConsent \/ request.scopes \subseteq remembered[<<owner, request.client>>]

\* #continueLogin, without a client that is gone.
ContinueLogin(c) ==
  /\ At(c, "login")
  /\ LET page == calls[c].challenge IN
       IF page.request.client \notin registered
       THEN Ends(c) /\ UNCHANGED challenges
       ELSE IF IsSkipped(page.request, page.owner)
       THEN Goes(c, Completion(calls[c], "create", page.request.scopes, FALSE)) /\ UNCHANGED challenges
       ELSE Draw(Page("consent", page.request, page.owner)) /\ Ends(c)
  /\ UNCHANGED <<registered, codes, grants, index, remembered, departed, history>>
-----------------------------------------------------------------------------
\* #createSession creates the session of the grant.
CreateSession(c) ==
  /\ At(c, "create")
  /\ \E s \in SessionIds :
       /\ \A t \in SessionIds : grants[t] = None <=> t >= s
       /\ grants' = [grants EXCEPT ![s] = [client |-> calls[c].client, owner |-> calls[c].owner,
                                           scopes |-> calls[c].scopes, live |-> TRUE]]
       /\ Goes(c, [calls[c] EXCEPT !.phase = "index", !.session = s])
  /\ standing' = [standing EXCEPT ![<<calls[c].owner, calls[c].client>>] = IF calls[c].remember THEN @ \cup calls[c].scopes ELSE @]
  /\ UNCHANGED <<registered, challenges, codes, index, remembered, departed, consents, logins,
                 tokens, twice, ended, raced, mixed>>

\* It then notes the grant under its client.
Index(c) ==
  /\ At(c, "index")
  /\ index' = index \cup {calls[c].session}
  /\ Goes(c, [calls[c] EXCEPT !.phase = IF calls[c].remember THEN "recall" ELSE "issue"])
  /\ UNCHANGED <<registered, challenges, codes, grants, remembered, departed, history>>

\* It reads what was remembered, and writes the union back.
Recall(c) ==
  /\ At(c, "recall")
  /\ Goes(c, [calls[c] EXCEPT !.phase = "remember",
                              !.kept = remembered[<<calls[c].owner, calls[c].client>>] \cup calls[c].scopes])
  /\ UNCHANGED <<store, history>>

Remember(c) ==
  /\ At(c, "remember")
  /\ remembered' = [remembered EXCEPT ![<<calls[c].owner, calls[c].client>>] = calls[c].kept]
  /\ Goes(c, [calls[c] EXCEPT !.phase = "issue"])
  /\ UNCHANGED <<registered, challenges, codes, grants, index, departed, history>>

\* #issueCode sends the browser to the client with a code.
IssueCode(c) ==
  /\ At(c, "issue")
  /\ codes' = [codes EXCEPT ![calls[c].session] =
                 [client |-> calls[c].client, proof |-> calls[c].proof, used |-> FALSE]]
  /\ Ends(c)
  /\ UNCHANGED <<registered, challenges, grants, index, remembered, departed, history>>

\* durations.code passes.
ExpireCode(s) ==
  /\ codes[s] # None
  /\ codes' = [codes EXCEPT ![s] = None]
  /\ UNCHANGED <<registered, challenges, grants, index, remembered, departed, calls, history>>
-----------------------------------------------------------------------------
\* #exchangeCode reads the record of the code.  A code that was used leaked, so the session
\* ends, if it is there.
Exchange(c, client, s, proof) ==
  /\ client \in registered /\ codes[s] # None
  /\ \/ /\ codes[s].used /\ Live(s)
        /\ Begin(c, [Blank EXCEPT !.phase = "revoke", !.session = s])
     \/ /\ ~codes[s].used
        /\ Begin(c, [Blank EXCEPT !.phase = "use", !.session = s, !.copy = codes[s],
                                  !.client = client, !.proof = proof])
  /\ UNCHANGED <<store, history>>

\* A variant with a bug, for CodeGivesTokensOnce: the mark is forgotten.
Unmarked(copy) == copy

Marked(copy) == [copy EXCEPT !.used = TRUE]

\* A variant with a bug, for TokensFollowTheRequest: the client with any verifier.
MatchesClient(call) == call.copy.client = call.client

Matches(call) == call.copy.client = call.client /\ call.copy.proof = call.proof

\* It marks the code, whoever asks, and then checks the client, the redirect URI and the
\* verifier.
Use(c) ==
  /\ At(c, "use")
  /\ codes' = [codes EXCEPT ![calls[c].session] = Marked(calls[c].copy)]
  /\ raced' = raced \cup { s \in {calls[c].session} :
                             \E other \in Calls \ {c} : At(other, "use") /\ calls[other].session = s }
  /\ IF Matches(calls[c]) THEN Goes(c, [calls[c] EXCEPT !.phase = "mint"]) ELSE Ends(c)
  /\ UNCHANGED <<registered, challenges, grants, index, remembered, departed, consents, logins, tokens,
                 twice, standing, ended, mixed>>

\* #mintFirst: the tokens of the session, while it and its owner stand.
Mint(c) ==
  /\ At(c, "mint")
  /\ LET s == calls[c].session IN
       IF ~Live(s) \/ grants[s].client # calls[c].client
       THEN Ends(c) /\ UNCHANGED <<tokens, twice>>
       ELSE IF grants[s].owner \in departed
       THEN Goes(c, [calls[c] EXCEPT !.phase = "revoke"]) /\ UNCHANGED <<tokens, twice>>
       ELSE /\ twice' = IF \E t \in tokens : t.session = s THEN twice \cup {s} ELSE twice
            /\ tokens' = tokens \cup {[session |-> s, client |-> calls[c].client, proof |-> calls[c].proof,
                                       scopes |-> grants[s].scopes]}
            /\ Ends(c)
  /\ UNCHANGED <<store, consents, logins, standing, ended, raced, mixed>>

\* #refresh: refreshToken reads the session, mints, and writes the session back.
Refresh(c, s) ==
  /\ Live(s) /\ grants[s].client \in registered /\ grants[s].owner \notin departed
  /\ \E t \in tokens : t.session = s
  /\ Begin(c, [Blank EXCEPT !.phase = "refresh", !.session = s])
  /\ UNCHANGED <<store, history>>

WriteRefreshed(c) ==
  /\ At(c, "refresh")
  /\ grants' = [grants EXCEPT ![calls[c].session] = [grants[calls[c].session] EXCEPT !.live = TRUE]]
  /\ raced' = IF Live(calls[c].session) THEN raced ELSE raced \cup {calls[c].session}
  /\ Ends(c)
  /\ UNCHANGED <<registered, challenges, codes, index, remembered, departed, consents, logins, tokens,
                 twice, standing, ended, mixed>>
-----------------------------------------------------------------------------
\* A variant with a bug, for EndedGrantsAreGone: only the index forgets the session.
StillThere(s) == grants

Deleted(s) == [grants EXCEPT ![s] = [grants[s] EXCEPT !.live = FALSE]]

\* #revokeSession deletes the session in hand, and then its entry in the index.
RevokeSession(c) ==
  /\ At(c, "revoke")
  /\ grants' = Deleted(calls[c].session)
  /\ Goes(c, [calls[c] EXCEPT !.phase = "unindex"])
  /\ UNCHANGED <<registered, challenges, codes, index, remembered, departed, history>>

\* What a call does once it is done with a session: the next of its list, or its goal.
Continuations(call) ==
  LET phase == CASE call.goal = "delete" -> "unlist" [] OTHER -> "revoke"
  IN  CASE call.todo # {} -> { [call EXCEPT !.phase = phase, !.session = s, !.todo = @ \ {s}] : s \in call.todo }
        [] call.todo = {} /\ call.goal \in {"forget", "delete"} -> { [call EXCEPT !.phase = call.goal] }
        [] OTHER -> {Idle}

Proceeds(c) == \E call \in Continuations(calls[c]) : Goes(c, call)

\* A call that revokes each session of a list.
BeginAll(c, goal, owner, client, sessions) ==
  \E call \in Continuations([Blank EXCEPT !.goal = goal, !.owner = owner, !.client = client,
                                           !.todo = sessions, !.listed = sessions]) :
    Begin(c, call)

Unindex(c) ==
  /\ At(c, "unindex")
  /\ index' = index \ {calls[c].session}
  /\ Proceeds(c)
  /\ ended' = ended \cup {calls[c].session}
  /\ UNCHANGED <<registered, challenges, codes, grants, remembered, departed, consents, logins, tokens,
                 twice, standing, raced, mixed>>

\* revoke, with a token of a client: its session, while it stands.
RevokeToken(c, s) ==
  /\ \E t \in tokens : t.session = s
  /\ grants[s].client \in registered /\ Live(s)
  /\ Begin(c, [Blank EXCEPT !.phase = "revoke", !.session = s])
  /\ UNCHANGED <<store, history>>

\* revokeOwnGrant: one grant of the owner, and the consent kept for its client.
RevokeOwnGrant(c, s) ==
  /\ Live(s) /\ grants[s].owner \notin departed
  /\ Begin(c, [Blank EXCEPT !.phase = "revoke", !.session = s, !.goal = "forget",
                            !.owner = grants[s].owner, !.client = grants[s].client, !.listed = {s}])
  /\ UNCHANGED <<store, history>>

GrantSessions(owner, client) ==
  { s \in SessionIds : Live(s) /\ grants[s].owner = owner /\ grants[s].client = client }

\* revokeClientGrants lists the sessions of the owner, revokes those of the client, and
\* forgets the consent.
RevokeClientGrants(c, owner, client) ==
  /\ BeginAll(c, "forget", owner, client, GrantSessions(owner, client))
  /\ UNCHANGED <<store, history>>

\* A completion that will still write what it read of the remembered consent.
WillRemember(c, pair) ==
  calls[c] # Idle /\ calls[c].phase \in {"index", "recall", "remember"} /\ calls[c].remember
  /\ <<calls[c].owner, calls[c].client>> = pair

Forgotten(pair) == [remembered EXCEPT ![pair] = {}]

Forget(c) ==
  /\ At(c, "forget")
  /\ LET pair == <<calls[c].owner, calls[c].client>> IN
       /\ remembered' = Forgotten(pair)
       /\ standing' = [standing EXCEPT ![pair] = {}]
       /\ mixed' = mixed \cup { p \in {pair} : \E other \in Calls : WillRemember(other, p) }
  /\ ended' = ended \cup calls[c].listed
  /\ Ends(c)
  /\ UNCHANGED <<registered, challenges, codes, grants, index, departed, consents, logins, tokens, twice,
                 raced>>
-----------------------------------------------------------------------------
\* deleteClient lists the index of the client, and does not ask whether the client is there.
DeleteClient(c, client) ==
  /\ BeginAll(c, "delete", None, client, { s \in index : grants[s].client = client })
  /\ UNCHANGED <<store, history>>

\* For each session it takes the entry out of the index, and then revokes the session.
Unlist(c) ==
  /\ At(c, "unlist")
  /\ index' = index \ {calls[c].session}
  /\ IF Live(calls[c].session)
     THEN Goes(c, [calls[c] EXCEPT !.phase = "revoke"])
     ELSE Proceeds(c)
  /\ UNCHANGED <<registered, challenges, codes, grants, remembered, departed, history>>

\* The client itself goes last.
DropClient(c) ==
  /\ At(c, "delete")
  /\ registered' = registered \ {calls[c].client}
  /\ ended' = ended \cup calls[c].listed
  /\ Ends(c)
  /\ UNCHANGED <<challenges, codes, grants, index, remembered, departed, consents, logins, tokens, twice,
                 standing, raced, mixed>>

\* The core deletes an identity and its sessions; Management has the steps.
DeleteIdentity(owner) ==
  /\ owner \notin departed
  /\ departed' = departed \cup {owner}
  /\ grants' = [s \in SessionIds |-> IF Live(s) /\ grants[s].owner = owner
                                     THEN [grants[s] EXCEPT !.live = FALSE] ELSE grants[s]]
  /\ UNCHANGED <<registered, challenges, codes, index, remembered, calls, history>>

\* The call throws, or the server stops.
Fail(c) ==
  /\ calls[c] # Idle
  /\ Ends(c)
  /\ UNCHANGED <<store, history>>

Next ==
  \/ \E request \in Request : StartAuthorization(request)
  \/ \E n \in ChallengeIds, owner \in Owners : AcceptLogin(n, owner)
  \/ \E n \in ChallengeIds, granted \in SUBSET Scopes, remember \in BOOLEAN : AcceptConsent(n, granted, remember)
  \/ \E n \in ChallengeIds : Reject(n) \/ ExpireChallenge(n)
  \/ \E s \in SessionIds : ExpireCode(s)
  \/ \E owner \in Owners : DeleteIdentity(owner)
  \/ \E c \in Calls, n \in ChallengeIds : Redeem(c, n)
  \/ \E c \in Calls, client \in Clients, s \in SessionIds, proof \in Proofs : Exchange(c, client, s, proof)
  \/ \E c \in Calls, s \in SessionIds : Refresh(c, s) \/ RevokeToken(c, s) \/ RevokeOwnGrant(c, s)
  \/ \E c \in Calls, client \in Clients : DeleteClient(c, client)
  \/ \E c \in Calls, owner \in Owners, client \in Clients : RevokeClientGrants(c, owner, client)
  \/ \E c \in Calls : \/ Unset(c) \/ ContinueLogin(c) \/ CreateSession(c) \/ Index(c) \/ Recall(c) \/ Remember(c)
                      \/ IssueCode(c) \/ Use(c) \/ Mint(c) \/ WriteRefreshed(c) \/ RevokeSession(c) \/ Unindex(c)
                      \/ Forget(c) \/ Unlist(c) \/ DropClient(c) \/ Fail(c)

Spec == Init /\ [][Next]_vars
-----------------------------------------------------------------------------
TypeOK ==
  /\ registered \subseteq Clients /\ departed \subseteq Owners /\ index \subseteq SessionIds
  /\ challenges \in [ChallengeIds -> Challenge \cup {None}]
  /\ codes \in [SessionIds -> Code \cup {None}]
  /\ grants \in [SessionIds -> Grant \cup {None}]
  /\ remembered \in [Pairs -> SUBSET Scopes] /\ standing \in [Pairs -> SUBSET Scopes]
  /\ calls \in [Calls -> Call \cup {Idle}]
  /\ consents \subseteq [ owner : Owners, client : Clients, scopes : SUBSET Scopes ]
  /\ logins \subseteq [ owner : Owners, request : Request ]
  /\ tokens \subseteq [ session : SessionIds, client : Clients, proof : Proofs, scopes : SUBSET Scopes ]
  /\ twice \cup ended \cup raced \subseteq SessionIds
  /\ mixed \subseteq Pairs

Consented(owner, client) == UNION { a.scopes : a \in { b \in consents : b.owner = owner /\ b.client = client } }

\* The tokens of a code go to the client that started the request, for it alone can show
\* the verifier, and are of the owner who signed in for it, for no more than was asked: no
\* mix-up of pages, codes and verifiers gets another's (#continueLogin, #exchangeCode).
TokensFollowTheRequest ==
  \A t \in tokens : \E l \in logins :
    /\ l.owner = grants[t.session].owner
    /\ l.request.client = t.client /\ l.request.proof = t.proof /\ t.scopes \subseteq l.request.scopes

\* The scopes of a token were granted by this owner to this client on a consent page, now
\* or when the consent was remembered, but for a client the administrator trusts
\* (#continueLogin, #continueConsent).
TokensAreConsented ==
  \A t \in tokens : t.client \in SkipConsent \/ t.scopes \subseteq Consented(grants[t.session].owner, t.client)

\* A code gives tokens one time, unless two exchanges both read it before it was marked,
\* which the code names as a limit of the store (#exchangeCode).
CodeGivesTokensOnce == twice \subseteq raced

\* Once a call that ends grants has answered - a second exchange of a code, a revocation, the
\* revocation of all a client has, the deletion of a client - each grant it took or listed is
\* gone for good, whatever the calls beside it did, unless a refresh under way wrote it back
\* (#revokeSessionById, revokeClientGrants, deleteClient).
EndedGrantsAreGone == \A s \in ended \ raced : ~Live(s)

\* Once a consent was forgotten, only what the owner asks to remember after it spares the
\* consent page, unless a completion under way wrote it back (revokeClientGrants).
ForgottenIsAskedAgain == \A p \in Pairs \ mixed : remembered[p] \subseteq standing[p]

\* As the comment of deleteClient states it: it "Revokes every grant of a client, then
\* deletes the client".
DeletedClientHasNoGrant == \A s \in SessionIds : Live(s) => grants[s].client \in registered

\* What a client gets is what one owner granted to it in one request.
TokensAreOfTheConsent == TypeOK /\ TokensFollowTheRequest /\ TokensAreConsented

\* What was revoked stays revoked: the grants, and the consent that spares the page.
RevokedStaysRevoked == EndedGrantsAreGone /\ ForgottenIsAskedAgain
=============================================================================
