--------------------------- MODULE CodeGrant_proofs ---------------------------
(***************************************************************************)
(* Proofs about CodeGrant for any clients, owners, scopes, pages, sessions *)
(* and calls: tokens are of one request that one owner consented to, a     *)
(* code gives them one time, and what was revoked stays revoked.           *)
(*                                                                         *)
(* A consent travels from the page to the call that redeems its verifier,  *)
(* to the session, the code and the copy an exchange read of it, and, when *)
(* it is to be remembered, to the store and to the completions that read   *)
(* it there.  Copies are old as soon as another call writes, so the        *)
(* invariant says what a copy is worth, and not that it is the last one.   *)
(***************************************************************************)
EXTENDS CodeGrant, TLAPS

\* What is known of the grants and of what owners did, before or after a step.
Now == [ logins |-> logins, consents |-> consents, grants |-> grants ]

\* The owner signed in for a request of this client with this proof, for these scopes at least.
Asked(known, owner, client, proof, scopes) ==
  \E l \in known.logins : /\ l.owner = owner /\ l.request.client = client /\ l.request.proof = proof
                          /\ scopes \subseteq l.request.scopes

\* The owner granted each of these scopes to the client on some page.
Agreed(known, owner, client, scopes) ==
  \A x \in scopes : \E a \in known.consents : a.owner = owner /\ a.client = client /\ x \in a.scopes

Earned(known, owner, client, proof, scopes) ==
  /\ Asked(known, owner, client, proof, scopes)
  /\ client \in SkipConsent \/ Agreed(known, owner, client, scopes)

Begun(known, s) == s \in SessionIds /\ known.grants[s] # None

\* Whoever shows this proof for this client may have the tokens of the grant.
GrantEarned(known, s, client, proof) ==
  Begun(known, s) /\ Earned(known, known.grants[s].owner, client, proof, known.grants[s].scopes)

PageFits(known, page) ==
  /\ page.page = "consent" \/ page.answer = "accepted" =>
       page.owner \in Owners /\ [owner |-> page.owner, request |-> page.request] \in known.logins
  /\ page.page = "consent" /\ page.answer = "accepted" =>
       /\ page.granted \subseteq page.request.scopes
       /\ [owner |-> page.owner, client |-> page.request.client, scopes |-> page.granted] \in known.consents

\* A page that was completed, before and after its session was created.
Completed == {"create", "index", "recall", "remember", "issue"}
Coming == Completed \ {"create"}

Revoking == {"revoke", "unindex", "unlist"}

CallFits(known, call) ==
  /\ call.phase \in {"unset", "login"} =>
       call.challenge \in Challenge /\ call.challenge.answer # None /\ PageFits(known, call.challenge)
  /\ call.phase = "unset" => call.id \in ChallengeIds
  /\ call.phase = "login" => call.challenge.page = "login" /\ call.challenge.answer = "accepted"
  /\ call.phase \in Completed =>
       /\ call.client \in Clients /\ call.owner \in Owners /\ call.proof \in Proofs
       /\ Earned(known, call.owner, call.client, call.proof, call.scopes)
       /\ call.remember => Agreed(known, call.owner, call.client, call.scopes)
  /\ call.phase \in Coming =>
       /\ Begun(known, call.session)
       /\ known.grants[call.session].owner = call.owner /\ known.grants[call.session].scopes = call.scopes
  /\ call.phase \in {"recall", "remember"} => call.remember
  /\ call.phase = "remember" => Agreed(known, call.owner, call.client, call.kept)
  /\ call.phase = "use" =>
       call.copy \in Code /\ GrantEarned(known, call.session, call.copy.client, call.copy.proof)
  /\ call.phase = "mint" => GrantEarned(known, call.session, call.client, call.proof)
  /\ call.phase \in {"use", "mint"} => call.client \in Clients /\ call.proof \in Proofs
  /\ call.phase \in Revoking \cup {"refresh"} => Begun(known, call.session)
  /\ \A s \in call.listed \cup call.todo : Begun(known, s)
  /\ call.goal # "answer" => call.client \in Clients
  /\ call.goal = "forget" => call.owner \in Owners
  /\ call.phase \in {"forget", "delete"} => call.goal = call.phase /\ call.todo = {}

PagesFit == \A n \in ChallengeIds : challenges[n] # None => PageFits(Now, challenges[n])
CallsFit == \A c \in Calls : calls[c] # Idle => CallFits(Now, calls[c])
CodesFit == \A s \in SessionIds : codes[s] # None => GrantEarned(Now, s, codes[s].client, codes[s].proof)
TokensFit == \A t \in tokens : /\ Begun(Now, t.session) /\ t.scopes = grants[t.session].scopes
                               /\ GrantEarned(Now, t.session, t.client, t.proof)
RememberedFit == \A p \in Pairs : Agreed(Now, p[1], p[2], remembered[p])
ListedFit == \A s \in index \cup ended : Begun(Now, s)

Typed == TypeOK /\ PagesFit /\ CallsFit /\ CodesFit /\ TokensFit /\ RememberedFit /\ ListedFit
-----------------------------------------------------------------------------
\* A call that is in one of these phases with this session.
Has(c, phases, s) == calls[c] # Idle /\ calls[c].phase \in phases /\ calls[c].session = s

\* Nobody got the tokens of the grant, or is going to.
Unminted(s) == (\A t \in tokens : t.session # s) /\ \A c \in Calls : ~Has(c, {"mint"}, s)

\* One call brings the grant its code, before anybody reads it.
ComingFits(s) ==
  \A c \in Calls : Has(c, Coming, s) =>
    /\ codes[s] = None /\ Unminted(s)
    /\ \A d \in Calls : ~Has(d, {"use"}, s) /\ (Has(d, Coming, s) => d = c)

\* Before a code is marked, in the store or in the hands of a call, nobody got its tokens;
\* after, one call at most is going to.
CodeFits(s) ==
  /\ codes[s] # None /\ ~codes[s].used => Unminted(s)
  /\ \A c \in Calls : Has(c, {"use"}, s) => Unminted(s)
  /\ \A c \in Calls : Has(c, {"mint"}, s) =>
       /\ \A t \in tokens : t.session # s
       /\ \A d \in Calls : Has(d, {"mint"}, s) => d = c

Once == \A s \in SessionIds : ComingFits(s) /\ (s \notin raced => CodeFits(s) /\ s \notin twice)
-----------------------------------------------------------------------------
\* The grant ended, unless a write of it met another call's.
Over(s) == ~Live(s) \/ s \in raced

\* The sessions a call still has to revoke.
Ahead(call) == call.todo \cup { s \in {call.session} : call.phase \in {"revoke", "unlist"} }

Revokes(call) ==
  /\ call.phase = "unindex" => Over(call.session)
  /\ \A s \in call.listed \ Ahead(call) : Over(s)

Ended ==
  /\ \A c \in Calls : calls[c] # Idle => Revokes(calls[c])
  /\ \A s \in ended : Over(s)

\* What is remembered, and what a completion is going to write, is what was asked for since
\* the consent was forgotten.
Standing ==
  \A p \in Pairs : p \notin mixed =>
    /\ remembered[p] \subseteq standing[p]
    /\ \A c \in Calls : WillRemember(c, p) =>
         /\ calls[c].scopes \subseteq standing[p]
         /\ calls[c].phase = "remember" => calls[c].kept \subseteq standing[p]

IInv == Typed /\ Once /\ Ended /\ Standing
-----------------------------------------------------------------------------
\* No grant changes but for its end, and nothing an owner did is taken back.
Keeps(known, later) ==
  /\ known.logins \subseteq later.logins /\ known.consents \subseteq later.consents
  /\ \A s \in SessionIds : known.grants[s] # None =>
       /\ later.grants[s] # None /\ later.grants[s].client = known.grants[s].client
       /\ later.grants[s].owner = known.grants[s].owner /\ later.grants[s].scopes = known.grants[s].scopes

LEMMA EarnedStays ==
  ASSUME NEW known, NEW later, Keeps(known, later), NEW owner, NEW client
  PROVE  /\ \A scopes : Agreed(known, owner, client, scopes) => Agreed(later, owner, client, scopes)
         /\ \A proof, scopes : Earned(known, owner, client, proof, scopes) => Earned(later, owner, client, proof, scopes)
<1>1. \A scopes : Agreed(known, owner, client, scopes) => Agreed(later, owner, client, scopes)
  BY DEF Keeps, Agreed
<1>2. \A proof, scopes : Asked(known, owner, client, proof, scopes) => Asked(later, owner, client, proof, scopes)
  BY DEF Keeps, Asked
<1> QED BY <1>1, <1>2 DEF Earned

LEMMA GrantStays ==
  ASSUME NEW known, NEW later, Keeps(known, later), NEW s, Begun(known, s)
  PROVE  /\ Begun(later, s)
         /\ later.grants[s].owner = known.grants[s].owner /\ later.grants[s].scopes = known.grants[s].scopes
         /\ \A client, proof : GrantEarned(known, s, client, proof) => GrantEarned(later, s, client, proof)
<1>1. /\ Begun(later, s)
      /\ later.grants[s].owner = known.grants[s].owner /\ later.grants[s].scopes = known.grants[s].scopes
  BY DEF Keeps, Begun
<1>2. ASSUME NEW client, NEW proof, GrantEarned(known, s, client, proof) PROVE GrantEarned(later, s, client, proof)
  BY <1>1, <1>2, EarnedStays DEF GrantEarned
<1> QED BY <1>1, <1>2

LEMMA PageStays ==
  ASSUME NEW known, NEW later, Keeps(known, later), NEW page, PageFits(known, page)
  PROVE  PageFits(later, page)
BY DEF Keeps, PageFits

LEMMA CallStays ==
  ASSUME NEW known, NEW later, Keeps(known, later), NEW call, CallFits(known, call)
  PROVE  CallFits(later, call)
<1>1. call.phase \in {"unset", "login"} => PageFits(later, call.challenge)
  BY PageStays DEF CallFits
<1>2. call.phase \in Completed =>
        /\ Earned(later, call.owner, call.client, call.proof, call.scopes)
        /\ call.remember => Agreed(later, call.owner, call.client, call.scopes)
  BY EarnedStays DEF CallFits
<1>3. call.phase = "remember" => Agreed(later, call.owner, call.client, call.kept)
  BY EarnedStays DEF CallFits
<1>4. /\ call.phase = "use" => GrantEarned(later, call.session, call.copy.client, call.copy.proof)
      /\ call.phase = "mint" => GrantEarned(later, call.session, call.client, call.proof)
  BY GrantStays DEF CallFits, GrantEarned
<1>5. /\ call.phase \in Revoking \cup {"refresh"} => Begun(later, call.session)
      /\ \A s \in call.listed \cup call.todo : Begun(later, s)
  BY GrantStays DEF CallFits
<1>6. call.phase \in Coming =>
        /\ Begun(later, call.session)
        /\ later.grants[call.session].owner = call.owner /\ later.grants[call.session].scopes = call.scopes
  BY GrantStays DEF CallFits
<1> QED BY <1>1, <1>2, <1>3, <1>4, <1>5, <1>6 DEF CallFits

\* Everything a step does not touch still fits.
LEMMA Untouched ==
  ASSUME Typed, Keeps(Now, Now')
  PROVE  /\ challenges' = challenges => PagesFit'
         /\ calls' = calls => CallsFit'
         /\ codes' = codes => CodesFit'
         /\ tokens' = tokens => TokensFit'
         /\ remembered' = remembered => RememberedFit'
         /\ \A s \in index \cup ended : Begun(Now, s)'
<1>1. challenges' = challenges => PagesFit'
  BY PageStays DEF Typed, PagesFit
<1>2. calls' = calls => CallsFit'
  BY CallStays DEF Typed, CallsFit
<1>3. codes' = codes => CodesFit'
  BY GrantStays DEF Typed, CodesFit, GrantEarned
<1>4. tokens' = tokens => TokensFit'
  <2>1. ASSUME NEW t \in tokens
        PROVE  Begun(Now', t.session) /\ t.scopes = grants'[t.session].scopes /\ GrantEarned(Now', t.session, t.client, t.proof)
    <3>1. Begun(Now, t.session) /\ t.scopes = grants[t.session].scopes /\ GrantEarned(Now, t.session, t.client, t.proof)
      BY DEF Typed, TokensFit
    <3>2. Now'.grants[t.session].scopes = Now.grants[t.session].scopes
      BY <3>1, GrantStays
    <3> QED BY <3>1, <3>2, GrantStays DEF Now
  <2> QED BY <2>1 DEF TokensFit
<1>5. remembered' = remembered => RememberedFit'
  BY EarnedStays DEF Typed, RememberedFit
<1>6. \A s \in index \cup ended : Begun(Now', s)
  BY GrantStays DEF Typed, ListedFit
<1> QED BY <1>1, <1>2, <1>3, <1>4, <1>5, <1>6

LEMMA SameKnowledge ==
  ASSUME UNCHANGED <<grants, logins, consents>>
  PROVE  Keeps(Now, Now') /\ Now' = Now
BY DEF Keeps, Now

LEMMA PageStep ==
  ASSUME Typed, Keeps(Now, Now'), NEW n \in ChallengeIds, NEW page,
         challenges' = [challenges EXCEPT ![n] = page],
         page = None \/ (page \in Challenge /\ PageFits(Now', page))
  PROVE  challenges' \in [ChallengeIds -> Challenge \cup {None}] /\ PagesFit'
<1>1. challenges' \in [ChallengeIds -> Challenge \cup {None}]
  BY DEF Typed, TypeOK
<1>2. \A m \in ChallengeIds : challenges'[m] = IF m = n THEN page ELSE challenges[m]
  BY DEF Typed, TypeOK
<1> QED BY <1>1, <1>2, PageStays DEF Typed, PagesFit

LEMMA CodeStep ==
  ASSUME Typed, Keeps(Now, Now'), NEW s \in SessionIds, NEW code,
         codes' = [codes EXCEPT ![s] = code],
         code = None \/ (code \in Code /\ GrantEarned(Now', s, code.client, code.proof))
  PROVE  codes' \in [SessionIds -> Code \cup {None}] /\ CodesFit'
<1>1. codes' \in [SessionIds -> Code \cup {None}]
  BY DEF Typed, TypeOK
<1>2. \A t \in SessionIds : codes'[t] = IF t = s THEN code ELSE codes[t]
  BY DEF Typed, TypeOK
<1> QED BY <1>1, <1>2, GrantStays DEF Typed, CodesFit, GrantEarned

LEMMA CallStep ==
  ASSUME Typed, Keeps(Now, Now'), NEW c \in Calls, NEW call,
         calls' = [calls EXCEPT ![c] = call],
         call = Idle \/ (call \in Call /\ CallFits(Now', call))
  PROVE  calls' \in [Calls -> Call \cup {Idle}] /\ CallsFit'
<1>1. calls' \in [Calls -> Call \cup {Idle}]
  BY DEF Typed, TypeOK
<1>2. \A d \in Calls : calls'[d] = IF d = c THEN call ELSE calls[d]
  BY DEF Typed, TypeOK
<1> QED BY <1>1, <1>2, CallStays DEF Typed, CallsFit
-----------------------------------------------------------------------------
LEMMA TypedInit == Init => Typed
<1> SUFFICES ASSUME Init PROVE Typed
  OBVIOUS
<1>1. TypeOK
  BY DEF Init, TypeOK
<1>2. PagesFit /\ CallsFit /\ CodesFit /\ TokensFit /\ ListedFit
  BY DEF Init, PagesFit, CallsFit, CodesFit, TokensFit, ListedFit
<1>3. RememberedFit
  BY DEF Init, RememberedFit, Agreed
<1> QED BY <1>1, <1>2, <1>3 DEF Typed

\* A step of a call that touches each part of the store in the way it may.
LEMMA Frame ==
  ASSUME Typed, Keeps(Now, Now'), NEW c \in Calls, NEW call, calls' = [calls EXCEPT ![c] = call],
         call = Idle \/ (call \in Call /\ CallFits(Now', call)),
         UNCHANGED <<departed, logins, consents>>, registered' \subseteq registered,
         challenges' = challenges \/ (challenges' \in [ChallengeIds -> Challenge \cup {None}] /\ PagesFit'),
         codes' = codes \/ (codes' \in [SessionIds -> Code \cup {None}] /\ CodesFit'),
         grants' = grants \/ grants' \in [SessionIds -> Grant \cup {None}],
         remembered' = remembered \/ (remembered' \in [Pairs -> SUBSET Scopes] /\ RememberedFit'),
         standing' = standing \/ standing' \in [Pairs -> SUBSET Scopes],
         \/ tokens' = tokens
         \/ /\ tokens' \subseteq [session : SessionIds, client : Clients, proof : Proofs, scopes : SUBSET Scopes]
            /\ TokensFit',
         \A s \in index' \cup ended' : s \in index \cup ended \/ Begun(Now', s),
         twice' \cup raced' \subseteq SessionIds, mixed' \subseteq Pairs
  PROVE  Typed'
<1>1. calls' \in [Calls -> Call \cup {Idle}] /\ CallsFit'
  BY CallStep
<1>2. ListedFit'
  BY Untouched DEF ListedFit
<1>3. PagesFit' /\ CodesFit' /\ TokensFit' /\ RememberedFit'
  BY Untouched
<1>4. index' \subseteq SessionIds /\ ended' \subseteq SessionIds
  BY <1>2 DEF ListedFit, Begun
<1>5. TypeOK'
  BY <1>1, <1>4 DEF Typed, TypeOK
<1> QED BY <1>1, <1>2, <1>3, <1>5 DEF Typed

\* A step that changes one call alone.
LEMMA CallOnly ==
  ASSUME Typed, NEW c \in Calls, NEW call, calls' = [calls EXCEPT ![c] = call],
         call = Idle \/ (call \in Call /\ CallFits(Now, call)), UNCHANGED <<store, history>>
  PROVE  Typed'
<1>1. Keeps(Now, Now') /\ Now' = Now
  BY SameKnowledge DEF store, history
<1>2. twice' \cup raced' \subseteq SessionIds /\ mixed' \subseteq Pairs
  BY DEF Typed, TypeOK, history
<1> QED BY <1>1, <1>2, Frame DEF store, history

LEMMA CallAt ==
  ASSUME Typed, NEW c \in Calls, NEW phase, At(c, phase)
  PROVE  calls[c] \in Call /\ CallFits(Now, calls[c]) /\ calls[c].phase = phase /\ calls[c] # Idle
BY DEF Typed, TypeOK, CallsFit, At

LEMMA PageOf ==
  ASSUME Typed, NEW n \in ChallengeIds, challenges[n] # None
  PROVE  challenges[n] \in Challenge /\ PageFits(Now, challenges[n])
BY DEF Typed, TypeOK, PagesFit

LEMMA GrantOf ==
  ASSUME Typed, NEW s \in SessionIds, grants[s] # None
  PROVE  grants[s] \in Grant /\ Begun(Now, s)
BY DEF Typed, TypeOK, Begun, Now

LEMMA BlankCall ==
  /\ Blank \in Call /\ Blank.phase = "unset" /\ Blank.goal = "answer" /\ Blank.listed = {} /\ Blank.todo = {}
  /\ Blank.remember = FALSE
BY DEF Blank, Call
-----------------------------------------------------------------------------
\* The steps of the pages.
LEMMA StartTyped ==
  ASSUME Typed, NEW request \in Request, StartAuthorization(request)
  PROVE  Typed'
<1> DEFINE page == Page("login", request, None)
<1>1. Keeps(Now, Now') /\ Now' = Now
  BY SameKnowledge DEF StartAuthorization, history
<1>2. page \in Challenge /\ PageFits(Now, page)
  BY NoneAssumption DEF Page, Challenge, PageFits
<1> HIDE DEF page
<1>3. PICK n \in ChallengeIds : challenges' = [challenges EXCEPT ![n] = page]
  BY DEF StartAuthorization, Draw, page
<1>4. challenges' \in [ChallengeIds -> Challenge \cup {None}] /\ PagesFit'
  BY <1>1, <1>2, <1>3, PageStep
<1>5. CallsFit' /\ CodesFit' /\ TokensFit' /\ RememberedFit' /\ ListedFit'
  BY <1>1, Untouched DEF StartAuthorization, history, ListedFit
<1>6. TypeOK'
  BY <1>4 DEF StartAuthorization, history, Typed, TypeOK
<1> QED BY <1>4, <1>5, <1>6 DEF Typed

LEMMA AcceptLoginTyped ==
  ASSUME Typed, NEW n \in ChallengeIds, NEW owner \in Owners, AcceptLogin(n, owner)
  PROVE  Typed'
<1> DEFINE page == [challenges[n] EXCEPT !.answer = "accepted", !.owner = owner]
           login == [owner |-> owner, request |-> challenges[n].request]
<1>1. challenges[n] \in Challenge /\ challenges[n].page = "login"
  BY PageOf DEF AcceptLogin, AtPage
<1>2. /\ challenges' = [challenges EXCEPT ![n] = page] /\ logins' = logins \cup {login}
      /\ UNCHANGED <<registered, codes, grants, index, remembered, departed, calls, consents, tokens,
                     twice, standing, ended, raced, mixed>>
  BY DEF AcceptLogin
<1>3. Keeps(Now, Now')
  BY <1>2 DEF Keeps, Now
<1>4. page \in Challenge /\ page.page = "login" /\ page.owner = owner /\ page.request = challenges[n].request
  BY <1>1 DEF Challenge
<1>5. PageFits(Now', page)
  BY <1>2, <1>4 DEF PageFits, Now
<1>6. login \in [owner : Owners, request : Request]
  BY <1>1 DEF Challenge
<1> HIDE DEF page, login
<1>7. challenges' \in [ChallengeIds -> Challenge \cup {None}] /\ PagesFit'
  BY <1>2, <1>3, <1>4, <1>5, PageStep
<1>8. CallsFit' /\ CodesFit' /\ TokensFit' /\ RememberedFit' /\ ListedFit'
  BY <1>2, <1>3, Untouched DEF ListedFit
<1>9. TypeOK'
  BY <1>2, <1>6, <1>7 DEF Typed, TypeOK
<1> QED BY <1>7, <1>8, <1>9 DEF Typed

LEMMA AcceptConsentTyped ==
  ASSUME Typed, NEW n \in ChallengeIds, NEW granted \in SUBSET Scopes, NEW remember \in BOOLEAN,
         AcceptConsent(n, granted, remember)
  PROVE  Typed'
<1> DEFINE page == [challenges[n] EXCEPT !.answer = "accepted", !.granted = granted, !.remember = remember]
           consent == [owner |-> challenges[n].owner, client |-> challenges[n].request.client, scopes |-> granted]
<1>1. /\ challenges[n] \in Challenge /\ challenges[n].page = "consent" /\ PageFits(Now, challenges[n])
      /\ granted \subseteq challenges[n].request.scopes
  BY PageOf DEF AcceptConsent, AtPage
<1>2. /\ challenges' = [challenges EXCEPT ![n] = page] /\ consents' = consents \cup {consent}
      /\ UNCHANGED <<registered, codes, grants, index, remembered, departed, calls, logins, tokens,
                     twice, standing, ended, raced, mixed>>
  BY DEF AcceptConsent
<1>3. Keeps(Now, Now')
  BY <1>2 DEF Keeps, Now
<1>4. /\ page \in Challenge /\ page.page = "consent" /\ page.owner = challenges[n].owner
      /\ page.request = challenges[n].request /\ page.granted = granted
  BY <1>1 DEF Challenge
<1>5. challenges[n].owner \in Owners /\ [owner |-> challenges[n].owner, request |-> challenges[n].request] \in logins
  BY <1>1 DEF PageFits, Now
<1>6. PageFits(Now', page)
  BY <1>1, <1>2, <1>4, <1>5 DEF PageFits, Now
<1>7. consent \in [owner : Owners, client : Clients, scopes : SUBSET Scopes]
  BY <1>1, <1>5 DEF Challenge, Request
<1> HIDE DEF page, consent
<1>8. challenges' \in [ChallengeIds -> Challenge \cup {None}] /\ PagesFit'
  BY <1>2, <1>3, <1>4, <1>6, PageStep
<1>9. CallsFit' /\ CodesFit' /\ TokensFit' /\ RememberedFit' /\ ListedFit'
  BY <1>2, <1>3, Untouched DEF ListedFit
<1>10. TypeOK'
  BY <1>2, <1>7, <1>8 DEF Typed, TypeOK
<1> QED BY <1>8, <1>9, <1>10 DEF Typed

\* A rejection, or the end of a challenge.
LEMMA PageTyped ==
  ASSUME Typed, NEW n \in ChallengeIds, Reject(n) \/ ExpireChallenge(n)
  PROVE  Typed'
<1>1. Keeps(Now, Now') /\ Now' = Now
  BY SameKnowledge DEF Reject, ExpireChallenge, history
<1>2. challenges[n] \in Challenge /\ PageFits(Now, challenges[n])
  BY PageOf DEF Reject, ExpireChallenge, AtPage
<1>3. /\ [challenges[n] EXCEPT !.answer = "rejected"] \in Challenge
      /\ PageFits(Now, [challenges[n] EXCEPT !.answer = "rejected"])
  BY <1>2 DEF Challenge, PageFits
<1>4. challenges' \in [ChallengeIds -> Challenge \cup {None}] /\ PagesFit'
  BY <1>1, <1>3, PageStep DEF Reject, ExpireChallenge
<1>5. CallsFit' /\ CodesFit' /\ TokensFit' /\ RememberedFit' /\ ListedFit'
  BY <1>1, Untouched DEF Reject, ExpireChallenge, history, ListedFit
<1>6. TypeOK'
  BY <1>4 DEF Reject, ExpireChallenge, history, Typed, TypeOK
<1> QED BY <1>4, <1>5, <1>6 DEF Typed

LEMMA ExpireCodeTyped ==
  ASSUME Typed, NEW s \in SessionIds, ExpireCode(s)
  PROVE  Typed'
<1>1. Keeps(Now, Now') /\ Now' = Now
  BY SameKnowledge DEF ExpireCode, history
<1>2. codes' \in [SessionIds -> Code \cup {None}] /\ CodesFit'
  BY <1>1, CodeStep DEF ExpireCode
<1>3. PagesFit' /\ CallsFit' /\ TokensFit' /\ RememberedFit' /\ ListedFit'
  BY <1>1, Untouched DEF ExpireCode, history, ListedFit
<1>4. TypeOK'
  BY <1>2 DEF ExpireCode, history, Typed, TypeOK
<1> QED BY <1>2, <1>3, <1>4 DEF Typed

LEMMA DeleteIdentityTyped ==
  ASSUME Typed, NEW owner \in Owners, DeleteIdentity(owner)
  PROVE  Typed'
<1>1. /\ departed' = departed \cup {owner}
      /\ grants' = [s \in SessionIds |-> IF Live(s) /\ grants[s].owner = owner
                                         THEN [grants[s] EXCEPT !.live = FALSE] ELSE grants[s]]
      /\ UNCHANGED <<registered, challenges, codes, index, remembered, calls, history>>
  BY DEF DeleteIdentity
<1>2. ASSUME NEW s \in SessionIds, grants[s] # None
      PROVE  /\ [grants[s] EXCEPT !.live = FALSE] \in Grant /\ [grants[s] EXCEPT !.live = FALSE] # None
             /\ [grants[s] EXCEPT !.live = FALSE].client = grants[s].client
             /\ [grants[s] EXCEPT !.live = FALSE].owner = grants[s].owner
             /\ [grants[s] EXCEPT !.live = FALSE].scopes = grants[s].scopes
  <2>1. grants[s] \in Grant
    BY <1>2, GrantOf
  <2>2. [grants[s] EXCEPT !.live = FALSE] \in Grant
    BY <2>1 DEF Grant
  <2> QED BY <2>1, <2>2, NoneAssumption DEF Grant
<1>3. ASSUME NEW s \in SessionIds
      PROVE  grants'[s] = grants[s] \/ (grants[s] # None /\ grants'[s] = [grants[s] EXCEPT !.live = FALSE])
  BY <1>1 DEF Live
<1>4. grants' \in [SessionIds -> Grant \cup {None}]
  <2>1. ASSUME NEW s \in SessionIds PROVE grants'[s] \in Grant \cup {None}
    BY <1>2, <1>3 DEF Typed, TypeOK
  <2> QED BY <1>1, <2>1
<1>5. Keeps(Now, Now')
  BY <1>1, <1>2, <1>3 DEF Keeps, Now, history
<1>6. PagesFit' /\ CallsFit' /\ CodesFit' /\ TokensFit' /\ RememberedFit' /\ ListedFit'
  BY <1>1, <1>5, Untouched DEF history, ListedFit
<1>7. TypeOK'
  BY <1>1, <1>4 DEF history, Typed, TypeOK
<1> QED BY <1>6, <1>7 DEF Typed
-----------------------------------------------------------------------------
\* A call that takes the verifier of a page, and goes on with what the page says.
LEMMA RedeemTyped ==
  ASSUME Typed, NEW c \in Calls, NEW n \in ChallengeIds, Redeem(c, n)
  PROVE  Typed'
<1> DEFINE call == [Blank EXCEPT !.id = n, !.challenge = challenges[n]]
<1>1. challenges[n] \in Challenge /\ PageFits(Now, challenges[n]) /\ challenges[n].answer # None
  BY PageOf DEF Redeem
<1>2. /\ call \in Call /\ call.phase = "unset" /\ call.challenge = challenges[n] /\ call.id = n
      /\ call.goal = "answer" /\ call.listed = {} /\ call.todo = {}
  BY <1>1 DEF Blank, Call
<1>3. CallFits(Now, call)
  BY <1>1, <1>2 DEF CallFits, Completed, Coming, Revoking
<1>4. calls' = [calls EXCEPT ![c] = call] /\ UNCHANGED <<store, history>>
  BY DEF Redeem, Begin
<1> HIDE DEF call
<1> QED BY <1>2, <1>3, <1>4, CallOnly

\* A completed page gives the call what its owner granted.
LEMMA CompletionFits ==
  ASSUME Typed, NEW call \in Call, CallFits(Now, call), call.phase \in {"unset", "login"},
         call.challenge.answer = "accepted", NEW granted \in SUBSET Scopes, NEW remember \in BOOLEAN,
         granted \subseteq call.challenge.request.scopes,
         \/ call.challenge.request.client \in SkipConsent
         \/ Agreed(Now, call.challenge.owner, call.challenge.request.client, granted),
         remember => Agreed(Now, call.challenge.owner, call.challenge.request.client, granted)
  PROVE  /\ Completion(call, "create", granted, remember) \in Call
         /\ CallFits(Now, Completion(call, "create", granted, remember))
<1> DEFINE page == call.challenge
           next == Completion(call, "create", granted, remember)
<1>1. /\ page \in Challenge /\ PageFits(Now, page) /\ page.owner \in Owners
      /\ [owner |-> page.owner, request |-> page.request] \in Now.logins
  BY DEF CallFits, PageFits
<1>2. page.request.client \in Clients /\ page.request.proof \in Proofs
  BY <1>1 DEF Challenge, Request
<1>3. /\ next \in Call /\ next.phase = "create" /\ next.client = page.request.client /\ next.owner = page.owner
      /\ next.proof = page.request.proof /\ next.scopes = granted /\ next.remember = remember
      /\ next.goal = "answer" /\ next.listed = {} /\ next.todo = {}
  BY <1>1, <1>2 DEF Completion, Blank, Call
<1>4. Asked(Now, page.owner, page.request.client, page.request.proof, granted)
  BY <1>1 DEF Asked
<1>5. Earned(Now, next.owner, next.client, next.proof, next.scopes)
  BY <1>3, <1>4 DEF Earned
<1> HIDE DEF page, next
<1>6. CallFits(Now, next)
  BY <1>1, <1>2, <1>3, <1>5 DEF CallFits, Completed, Coming, Revoking, page
<1> QED BY <1>3, <1>6 DEF next

LEMMA UnsetTyped ==
  ASSUME Typed, NEW c \in Calls, Unset(c)
  PROVE  Typed'
<1> DEFINE page == calls[c].challenge
<1>1. /\ calls[c] \in Call /\ CallFits(Now, calls[c]) /\ calls[c].phase = "unset" /\ calls[c].id \in ChallengeIds
      /\ page \in Challenge /\ page.answer # None /\ PageFits(Now, page)
  BY CallAt DEF Unset, CallFits
<1>2. Keeps(Now, Now') /\ Now' = Now
  BY SameKnowledge DEF Unset, history
<1>3. PICK call : /\ calls' = [calls EXCEPT ![c] = call]
                  /\ call = Idle \/ (call \in Call /\ CallFits(Now, call))
  <2>1. CASE page.answer = "rejected"
    BY <2>1 DEF Unset, Ends
  <2>2. CASE page.answer = "accepted" /\ page.page = "login"
    <3> DEFINE next == [calls[c] EXCEPT !.phase = "login", !.id = None]
    <3>1. page.answer # "rejected"
      BY <2>2
    <3>2. calls' = [calls EXCEPT ![c] = next]
      BY <2>2, <3>1 DEF Unset, Goes
    <3>3. /\ next \in Call /\ next.phase = "login" /\ next.challenge = page /\ next.goal = calls[c].goal
          /\ next.listed = calls[c].listed /\ next.todo = calls[c].todo /\ next.client = calls[c].client
          /\ next.owner = calls[c].owner
      BY <1>1 DEF Call
    <3> HIDE DEF next
    <3>4. CallFits(Now, next)
      BY <1>1, <2>2, <3>3 DEF CallFits, Completed, Coming, Revoking
    <3> QED BY <3>2, <3>3, <3>4
  <2>3. CASE page.answer = "accepted" /\ page.page = "consent"
    <3> DEFINE next == Completion(calls[c], "create", page.granted, page.remember)
    <3>1. page.page # "login" /\ page.answer # "rejected"
      BY <2>3
    <3>2. calls' = [calls EXCEPT ![c] = next]
      BY <2>3, <3>1 DEF Unset, Goes
    <3>3. page.granted \in SUBSET Scopes /\ page.remember \in BOOLEAN
      BY <1>1 DEF Challenge
    <3>4. /\ page.granted \subseteq page.request.scopes
          /\ Agreed(Now, page.owner, page.request.client, page.granted)
      BY <1>1, <2>3 DEF PageFits, Agreed
    <3>5. next \in Call /\ CallFits(Now, next)
      BY <1>1, <2>3, <3>3, <3>4, CompletionFits
    <3> HIDE DEF next
    <3> QED BY <3>2, <3>5
  <2> QED BY <1>1, <2>1, <2>2, <2>3 DEF Challenge
<1>4. challenges' = [challenges EXCEPT ![calls[c].id] = None]
  BY DEF Unset
<1>5. challenges' \in [ChallengeIds -> Challenge \cup {None}] /\ PagesFit'
  BY <1>1, <1>2, <1>4, PageStep
<1>6. twice' \cup raced' \subseteq SessionIds /\ mixed' \subseteq Pairs
  BY DEF Typed, TypeOK, Unset, history
<1> QED BY <1>2, <1>3, <1>5, <1>6, Frame DEF Unset, history

LEMMA ContinueLoginTyped ==
  ASSUME Typed, NEW c \in Calls, ContinueLogin(c)
  PROVE  Typed'
<1> DEFINE page == calls[c].challenge
           consent == Page("consent", page.request, page.owner)
<1>1. /\ calls[c] \in Call /\ CallFits(Now, calls[c]) /\ calls[c].phase = "login"
      /\ page \in Challenge /\ page.page = "login" /\ page.answer = "accepted" /\ PageFits(Now, page)
  BY CallAt DEF ContinueLogin, CallFits
<1>2. Keeps(Now, Now') /\ Now' = Now
  BY SameKnowledge DEF ContinueLogin, history
<1>3. /\ page.owner \in Owners /\ page.request \in Request /\ page.request.client \in Clients
      /\ page.request.scopes \in SUBSET Scopes /\ [owner |-> page.owner, request |-> page.request] \in Now.logins
  BY <1>1 DEF PageFits, Challenge, Request
<1>4. UNCHANGED <<registered, codes, grants, index, remembered, departed, history>>
  BY DEF ContinueLogin
<1>5. twice' \cup raced' \subseteq SessionIds /\ mixed' \subseteq Pairs
  BY <1>4 DEF Typed, TypeOK, history
<1>6. CASE page.request.client \notin registered
  BY <1>2, <1>4, <1>5, <1>6, Frame DEF ContinueLogin, Ends, history
<1>7. CASE page.request.client \in registered /\ IsSkipped(page.request, page.owner)
  <2> DEFINE next == Completion(calls[c], "create", page.request.scopes, FALSE)
  <2>1. calls' = [calls EXCEPT ![c] = next] /\ UNCHANGED challenges
    BY <1>7 DEF ContinueLogin, Goes
  <2>2. \/ page.request.client \in SkipConsent
        \/ Agreed(Now, page.owner, page.request.client, page.request.scopes)
    <3>1. <<page.owner, page.request.client>> \in Pairs
      BY <1>3 DEF Pairs
    <3>2. Agreed(Now, page.owner, page.request.client, remembered[<<page.owner, page.request.client>>])
      BY <3>1 DEF Typed, RememberedFit
    <3> QED BY <1>7, <3>2 DEF IsSkipped, Agreed
  <2>3. next \in Call /\ CallFits(Now, next)
    BY <1>1, <1>3, <2>2, CompletionFits
  <2> HIDE DEF next
  <2> QED BY <1>2, <1>4, <1>5, <2>1, <2>3, Frame DEF history
<1>8. CASE page.request.client \in registered /\ ~IsSkipped(page.request, page.owner)
  <2>1. Draw(consent) /\ Ends(c)
    BY <1>8 DEF ContinueLogin
  <2>2. consent \in Challenge
    BY <1>3 DEF Page, Challenge
  <2>3. PageFits(Now, consent)
    BY <1>3, NoneAssumption DEF Page, PageFits
  <2> HIDE DEF consent
  <2>4. PICK n \in ChallengeIds : challenges' = [challenges EXCEPT ![n] = consent]
    BY <2>1 DEF Draw
  <2>5. challenges' \in [ChallengeIds -> Challenge \cup {None}] /\ PagesFit'
    BY <1>2, <2>2, <2>3, <2>4, PageStep
  <2> QED BY <1>2, <1>4, <1>5, <2>1, <2>5, Frame DEF Ends, history
<1> QED BY <1>6, <1>7, <1>8
-----------------------------------------------------------------------------
\* A completed page becomes a session, an entry of the index, a consent, and a code.
LEMMA CreateSessionTyped ==
  ASSUME Typed, NEW c \in Calls, CreateSession(c)
  PROVE  Typed'
<1> DEFINE grant == [client |-> calls[c].client, owner |-> calls[c].owner, scopes |-> calls[c].scopes, live |-> TRUE]
<1>1. /\ calls[c] \in Call /\ CallFits(Now, calls[c]) /\ calls[c].phase = "create"
      /\ calls[c].client \in Clients /\ calls[c].owner \in Owners /\ calls[c].scopes \in SUBSET Scopes
  BY CallAt DEF CreateSession, CallFits, Completed, Call
<1>2. PICK s \in SessionIds :
        /\ \A t \in SessionIds : grants[t] = None <=> t >= s
        /\ grants' = [grants EXCEPT ![s] = grant]
        /\ calls' = [calls EXCEPT ![c] = [calls[c] EXCEPT !.phase = "index", !.session = s]]
  BY DEF CreateSession, Goes
<1>3. UNCHANGED <<registered, challenges, codes, index, remembered, departed, consents, logins,
                  tokens, twice, ended, raced, mixed>>
  BY DEF CreateSession
<1>4. grants[s] = None
  BY <1>2 DEF SessionIds
<1>5. grant \in Grant /\ grant # None /\ grant.owner = calls[c].owner /\ grant.scopes = calls[c].scopes
  <2>1. grant \in Grant
    BY <1>1 DEF Grant
  <2> QED BY <2>1, NoneAssumption
<1> DEFINE next == [calls[c] EXCEPT !.phase = "index", !.session = s]
<1>6. /\ next \in Call /\ next.phase = "index" /\ next.session = s /\ next.owner = calls[c].owner
      /\ next.client = calls[c].client /\ next.proof = calls[c].proof /\ next.scopes = calls[c].scopes
      /\ next.remember = calls[c].remember /\ next.listed = calls[c].listed /\ next.todo = calls[c].todo
      /\ next.goal = calls[c].goal
  BY <1>1 DEF Call
<1> HIDE DEF grant, next
<1>7. grants' \in [SessionIds -> Grant \cup {None}] /\ grants'[s] = grant
      /\ \A t \in SessionIds \ {s} : grants'[t] = grants[t]
  BY <1>2, <1>5 DEF Typed, TypeOK
<1>8. Keeps(Now, Now')
  BY <1>3, <1>4, <1>7 DEF Keeps, Now
<1>9. CallFits(Now', calls[c])
  BY <1>1, <1>8, CallStays
<1>10. Begun(Now', s) /\ Now'.grants[s].owner = next.owner /\ Now'.grants[s].scopes = next.scopes
  BY <1>5, <1>6, <1>7 DEF Begun, Now
<1>11. CallFits(Now', next)
  BY <1>1, <1>6, <1>9, <1>10 DEF CallFits, Completed, Coming, Revoking
<1>12. standing' \in [Pairs -> SUBSET Scopes]
  <2> DEFINE p == <<calls[c].owner, calls[c].client>>
  <2>1. p \in Pairs /\ standing \in [Pairs -> SUBSET Scopes]
    BY <1>1 DEF Pairs, Typed, TypeOK
  <2>2. standing' = [standing EXCEPT ![p] = IF calls[c].remember THEN @ \cup calls[c].scopes ELSE @]
    BY DEF CreateSession
  <2> HIDE DEF p
  <2>3. CASE calls[c].remember
    BY <1>1, <2>1, <2>2, <2>3
  <2>4. CASE ~calls[c].remember
    BY <1>1, <2>1, <2>2, <2>4
  <2> QED BY <2>3, <2>4
<1>13. twice' \cup raced' \subseteq SessionIds /\ mixed' \subseteq Pairs
  BY <1>3 DEF Typed, TypeOK
<1>14. calls' = [calls EXCEPT ![c] = next]
  BY <1>2 DEF next
<1> QED BY <1>3, <1>6, <1>7, <1>8, <1>11, <1>12, <1>13, <1>14, Frame

LEMMA IndexTyped ==
  ASSUME Typed, NEW c \in Calls, Index(c)
  PROVE  Typed'
<1> DEFINE phase == IF calls[c].remember THEN "recall" ELSE "issue"
           next == [calls[c] EXCEPT !.phase = phase]
<1>1. /\ calls[c] \in Call /\ CallFits(Now, calls[c]) /\ calls[c].phase = "index" /\ Begun(Now, calls[c].session)
  BY CallAt DEF Index, CallFits, Coming, Completed
<1>2. Keeps(Now, Now') /\ Now' = Now
  BY SameKnowledge DEF Index, history
<1>3. phase \in {"recall", "issue"} /\ (phase = "recall" => calls[c].remember)
  OBVIOUS
<1> HIDE DEF phase
<1>4. /\ next \in Call /\ next.phase = phase /\ next.session = calls[c].session /\ next.owner = calls[c].owner
      /\ next.client = calls[c].client /\ next.proof = calls[c].proof /\ next.scopes = calls[c].scopes
      /\ next.remember = calls[c].remember /\ next.listed = calls[c].listed /\ next.todo = calls[c].todo
      /\ next.goal = calls[c].goal
  BY <1>1, <1>3 DEF Call
<1>5. calls' = [calls EXCEPT ![c] = next]
  BY DEF Index, Goes, phase
<1> HIDE DEF next
<1>6. CallFits(Now, next)
  BY <1>1, <1>3, <1>4 DEF CallFits, Completed, Coming, Revoking
<1>7. \A s \in index' \cup ended' : s \in index \cup ended \/ Begun(Now', s)
  BY <1>1, <1>2 DEF Index, history
<1>8. twice' \cup raced' \subseteq SessionIds /\ mixed' \subseteq Pairs
  BY DEF Typed, TypeOK, Index, history
<1> QED BY <1>2, <1>4, <1>5, <1>6, <1>7, <1>8, Frame DEF Index, history

\* What is read of the remembered consent was agreed to, and so are the scopes of the request.
LEMMA RecallTyped ==
  ASSUME Typed, NEW c \in Calls, Recall(c)
  PROVE  Typed'
<1> DEFINE kept == remembered[<<calls[c].owner, calls[c].client>>] \cup calls[c].scopes
           next == [calls[c] EXCEPT !.phase = "remember", !.kept = kept]
<1>1. /\ calls[c] \in Call /\ CallFits(Now, calls[c]) /\ calls[c].phase = "recall" /\ calls[c].remember
      /\ <<calls[c].owner, calls[c].client>> \in Pairs
  BY CallAt DEF Recall, CallFits, Completed, Pairs
<1>2. kept \in SUBSET Scopes
  BY <1>1 DEF Typed, TypeOK, Call
<1>3. Agreed(Now, calls[c].owner, calls[c].client, kept)
  <2>1. Agreed(Now, calls[c].owner, calls[c].client, remembered[<<calls[c].owner, calls[c].client>>])
    BY <1>1 DEF Typed, RememberedFit
  <2>2. Agreed(Now, calls[c].owner, calls[c].client, calls[c].scopes)
    BY <1>1 DEF CallFits, Completed
  <2> QED BY <2>1, <2>2 DEF Agreed
<1>4. calls' = [calls EXCEPT ![c] = next] /\ UNCHANGED <<store, history>>
  BY DEF Recall, Goes
<1> HIDE DEF kept
<1>5. /\ next \in Call /\ next.phase = "remember" /\ next.session = calls[c].session /\ next.owner = calls[c].owner
      /\ next.client = calls[c].client /\ next.proof = calls[c].proof /\ next.scopes = calls[c].scopes
      /\ next.remember = calls[c].remember /\ next.listed = calls[c].listed /\ next.todo = calls[c].todo
      /\ next.goal = calls[c].goal /\ next.kept = kept
  BY <1>1, <1>2 DEF Call
<1> HIDE DEF next
<1>6. CallFits(Now, next)
  BY <1>1, <1>3, <1>5 DEF CallFits, Completed, Coming, Revoking
<1> QED BY <1>4, <1>5, <1>6, CallOnly

LEMMA RememberTyped ==
  ASSUME Typed, NEW c \in Calls, Remember(c)
  PROVE  Typed'
<1> DEFINE p == <<calls[c].owner, calls[c].client>>
           next == [calls[c] EXCEPT !.phase = "issue"]
<1>1. /\ calls[c] \in Call /\ CallFits(Now, calls[c]) /\ calls[c].phase = "remember" /\ p \in Pairs
      /\ Agreed(Now, calls[c].owner, calls[c].client, calls[c].kept) /\ calls[c].kept \in SUBSET Scopes
  BY CallAt DEF Remember, CallFits, Completed, Pairs, Call
<1>2. Keeps(Now, Now') /\ Now' = Now
  BY SameKnowledge DEF Remember, history
<1>3. calls' = [calls EXCEPT ![c] = next] /\ remembered' = [remembered EXCEPT ![p] = calls[c].kept]
  BY DEF Remember, Goes
<1>4. /\ next \in Call /\ next.phase = "issue" /\ next.session = calls[c].session /\ next.owner = calls[c].owner
      /\ next.client = calls[c].client /\ next.proof = calls[c].proof /\ next.scopes = calls[c].scopes
      /\ next.remember = calls[c].remember /\ next.listed = calls[c].listed /\ next.todo = calls[c].todo
      /\ next.goal = calls[c].goal
  BY <1>1 DEF Call
<1> HIDE DEF next
<1>5. CallFits(Now, next)
  BY <1>1, <1>4 DEF CallFits, Completed, Coming, Revoking
<1>6. remembered' \in [Pairs -> SUBSET Scopes]
  BY <1>1, <1>3 DEF Typed, TypeOK
<1>7. RememberedFit'
  <2>1. ASSUME NEW q \in Pairs PROVE Agreed(Now, q[1], q[2], remembered'[q])
    <3>1. CASE q = p
      <4>1. remembered'[q] = calls[c].kept /\ q[1] = calls[c].owner /\ q[2] = calls[c].client
        BY <1>1, <1>3, <3>1 DEF Typed, TypeOK
      <4> QED BY <1>1, <4>1
    <3>2. CASE q # p
      BY <1>3, <3>2 DEF Typed, TypeOK, RememberedFit
    <3> QED BY <3>1, <3>2
  <2> QED BY <1>2, <2>1 DEF RememberedFit
<1>8. twice' \cup raced' \subseteq SessionIds /\ mixed' \subseteq Pairs
  BY DEF Typed, TypeOK, Remember, history
<1> QED BY <1>2, <1>3, <1>4, <1>5, <1>6, <1>7, <1>8, Frame DEF Remember, history

LEMMA IssueCodeTyped ==
  ASSUME Typed, NEW c \in Calls, IssueCode(c)
  PROVE  Typed'
<1> DEFINE code == [client |-> calls[c].client, proof |-> calls[c].proof, used |-> FALSE]
<1>1. /\ CallFits(Now, calls[c]) /\ calls[c].phase = "issue" /\ Begun(Now, calls[c].session)
      /\ calls[c].client \in Clients /\ calls[c].proof \in Proofs
      /\ Earned(Now, calls[c].owner, calls[c].client, calls[c].proof, calls[c].scopes)
      /\ Now.grants[calls[c].session].owner = calls[c].owner /\ Now.grants[calls[c].session].scopes = calls[c].scopes
  BY CallAt DEF IssueCode, CallFits, Coming, Completed
<1>2. Keeps(Now, Now') /\ Now' = Now
  BY SameKnowledge DEF IssueCode, history
<1>3. code \in Code /\ code.client = calls[c].client /\ code.proof = calls[c].proof
  BY <1>1 DEF Code
<1>4. codes' = [codes EXCEPT ![calls[c].session] = code] /\ calls' = [calls EXCEPT ![c] = Idle]
  BY DEF IssueCode, Ends
<1> HIDE DEF code
<1>5. GrantEarned(Now, calls[c].session, code.client, code.proof) /\ calls[c].session \in SessionIds
  BY <1>1, <1>3 DEF GrantEarned, Begun
<1>6. codes' \in [SessionIds -> Code \cup {None}] /\ CodesFit'
  BY <1>2, <1>3, <1>4, <1>5, CodeStep
<1>7. twice' \cup raced' \subseteq SessionIds /\ mixed' \subseteq Pairs
  BY DEF Typed, TypeOK, IssueCode, history
<1> QED BY <1>2, <1>4, <1>6, <1>7, Frame DEF IssueCode, history
-----------------------------------------------------------------------------
\* An exchange carries a copy of the code, and what its client shows.
LEMMA ExchangeTyped ==
  ASSUME Typed, NEW c \in Calls, NEW client \in Clients, NEW s \in SessionIds, NEW proof \in Proofs,
         Exchange(c, client, s, proof)
  PROVE  Typed'
<1> DEFINE ending == [Blank EXCEPT !.phase = "revoke", !.session = s]
           using == [Blank EXCEPT !.phase = "use", !.session = s, !.copy = codes[s],
                                  !.client = client, !.proof = proof]
<1>1. codes[s] \in Code /\ GrantEarned(Now, s, codes[s].client, codes[s].proof)
  BY DEF Exchange, Typed, TypeOK, CodesFit
<1>2. Begun(Now, s)
  BY <1>1 DEF GrantEarned
<1>3. UNCHANGED <<store, history>> /\ \/ calls' = [calls EXCEPT ![c] = ending]
                                      \/ calls' = [calls EXCEPT ![c] = using]
  BY DEF Exchange, Begin
<1>4. /\ ending \in Call /\ ending.phase = "revoke" /\ ending.session = s /\ ending.goal = "answer"
      /\ ending.listed = {} /\ ending.todo = {}
  BY DEF Blank, Call
<1>5. CallFits(Now, ending)
  BY <1>2, <1>4 DEF CallFits, Completed, Coming, Revoking
<1>6. /\ using \in Call /\ using.phase = "use" /\ using.session = s /\ using.copy = codes[s]
      /\ using.client = client /\ using.proof = proof /\ using.goal = "answer"
      /\ using.listed = {} /\ using.todo = {}
  BY <1>1 DEF Blank, Call
<1>7. CallFits(Now, using)
  BY <1>1, <1>6 DEF CallFits, Completed, Coming, Revoking
<1> HIDE DEF ending, using
<1> QED BY <1>3, <1>4, <1>5, <1>6, <1>7, CallOnly

LEMMA UseTyped ==
  ASSUME Typed, NEW c \in Calls, Use(c)
  PROVE  Typed'
<1> DEFINE s == calls[c].session
           code == Marked(calls[c].copy)
           next == [calls[c] EXCEPT !.phase = "mint"]
<1>1. /\ calls[c] \in Call /\ CallFits(Now, calls[c]) /\ calls[c].phase = "use"
      /\ calls[c].copy \in Code /\ GrantEarned(Now, s, calls[c].copy.client, calls[c].copy.proof)
      /\ calls[c].client \in Clients /\ calls[c].proof \in Proofs
  BY CallAt DEF Use, CallFits
<1>2. s \in SessionIds /\ Begun(Now, s)
  BY <1>1 DEF GrantEarned, Begun
<1>3. Keeps(Now, Now') /\ Now' = Now
  BY SameKnowledge DEF Use
<1>4. code \in Code /\ code.client = calls[c].copy.client /\ code.proof = calls[c].copy.proof
  BY <1>1 DEF Marked, Code
<1>5. codes' = [codes EXCEPT ![s] = code]
  BY DEF Use
<1> HIDE DEF code
<1>6. codes' \in [SessionIds -> Code \cup {None}] /\ CodesFit'
  BY <1>1, <1>2, <1>3, <1>4, <1>5, CodeStep
<1>7. twice' \cup raced' \subseteq SessionIds /\ mixed' \subseteq Pairs
  BY <1>2 DEF Typed, TypeOK, Use
<1>8. PICK call : calls' = [calls EXCEPT ![c] = call] /\ (call = Idle \/ (call \in Call /\ CallFits(Now, call)))
  <2>1. CASE Matches(calls[c])
    <3>1. calls' = [calls EXCEPT ![c] = next]
      BY <2>1 DEF Use, Goes
    <3>2. GrantEarned(Now, s, calls[c].client, calls[c].proof)
      BY <1>1, <2>1 DEF Matches
    <3>3. /\ next \in Call /\ next.phase = "mint" /\ next.session = s /\ next.client = calls[c].client
          /\ next.proof = calls[c].proof /\ next.goal = calls[c].goal /\ next.owner = calls[c].owner
          /\ next.listed = calls[c].listed /\ next.todo = calls[c].todo
      BY <1>1 DEF Call
    <3>4. CallFits(Now, next)
      BY <1>1, <3>2, <3>3 DEF CallFits, Completed, Coming, Revoking
    <3> QED BY <3>1, <3>3, <3>4
  <2>2. CASE ~Matches(calls[c])
    BY <2>2 DEF Use, Ends
  <2> QED BY <2>1, <2>2
<1> QED BY <1>3, <1>6, <1>7, <1>8, Frame DEF Use

\* Tokens are of the grant as it is, for the proof of its request.
LEMMA MintTyped ==
  ASSUME Typed, NEW c \in Calls, Mint(c)
  PROVE  Typed'
<1> DEFINE s == calls[c].session
           token == [session |-> s, client |-> calls[c].client, proof |-> calls[c].proof, scopes |-> grants[s].scopes]
           next == [calls[c] EXCEPT !.phase = "revoke"]
<1>1. /\ calls[c] \in Call /\ CallFits(Now, calls[c]) /\ calls[c].phase = "mint"
      /\ GrantEarned(Now, s, calls[c].client, calls[c].proof)
      /\ calls[c].client \in Clients /\ calls[c].proof \in Proofs
  BY CallAt DEF Mint, CallFits
<1>2. s \in SessionIds /\ Begun(Now, s)
  BY <1>1 DEF GrantEarned, Begun
<1>3. Keeps(Now, Now') /\ Now' = Now
  BY SameKnowledge DEF Mint, store
<1>4. CASE ~Live(s) \/ grants[s].client # calls[c].client
  BY <1>4, CallOnly DEF Mint, Ends, history
<1>5. CASE Live(s) /\ grants[s].client = calls[c].client /\ grants[s].owner \in departed
  <2>1. calls' = [calls EXCEPT ![c] = next] /\ UNCHANGED <<store, history>>
    BY <1>5 DEF Mint, Goes, history
  <2>2. /\ next \in Call /\ next.phase = "revoke" /\ next.session = s /\ next.client = calls[c].client
        /\ next.goal = calls[c].goal /\ next.owner = calls[c].owner
        /\ next.listed = calls[c].listed /\ next.todo = calls[c].todo
    BY <1>1 DEF Call
  <2>3. CallFits(Now, next)
    BY <1>1, <1>2, <2>2 DEF CallFits, Completed, Coming, Revoking
  <2> HIDE DEF next
  <2> QED BY <2>1, <2>2, <2>3, CallOnly
<1>6. CASE Live(s) /\ grants[s].client = calls[c].client /\ grants[s].owner \notin departed
  <2>1. /\ calls' = [calls EXCEPT ![c] = Idle] /\ tokens' = tokens \cup {token}
        /\ UNCHANGED <<store, consents, logins, standing, ended, raced, mixed>>
    BY <1>6 DEF Mint, Ends
  <2>2. twice' \subseteq twice \cup {s}
    BY <1>6 DEF Mint
  <2>3. twice' \cup raced' \subseteq SessionIds /\ mixed' \subseteq Pairs
    BY <1>2, <2>1, <2>2 DEF Typed, TypeOK
  <2>4. grants[s].scopes \in SUBSET Scopes
    BY <1>2, GrantOf DEF Begun, Now, Grant
  <2>5. token \in [session : SessionIds, client : Clients, proof : Proofs, scopes : SUBSET Scopes]
    BY <1>1, <1>2, <2>4
  <2>6. tokens' \subseteq [session : SessionIds, client : Clients, proof : Proofs, scopes : SUBSET Scopes]
    BY <2>1, <2>5 DEF Typed, TypeOK
  <2>7. token.session = s /\ token.client = calls[c].client /\ token.proof = calls[c].proof /\ token.scopes = grants[s].scopes
    OBVIOUS
  <2> HIDE DEF token
  <2>8. ASSUME NEW t \in tokens'
        PROVE  Begun(Now, t.session) /\ t.scopes = grants[t.session].scopes /\ GrantEarned(Now, t.session, t.client, t.proof)
    BY <1>1, <1>2, <2>1, <2>7 DEF Typed, TokensFit
  <2>9. TokensFit'
    BY <1>3, <2>1, <2>8 DEF TokensFit, store
  <2> QED BY <1>3, <2>1, <2>3, <2>6, <2>9, Frame DEF store
<1> QED BY <1>4, <1>5, <1>6

LEMMA RefreshTyped ==
  ASSUME Typed, NEW c \in Calls, NEW s \in SessionIds, Refresh(c, s) \/ RevokeToken(c, s)
  PROVE  Typed'
<1> DEFINE refreshing == [Blank EXCEPT !.phase = "refresh", !.session = s]
           revoking == [Blank EXCEPT !.phase = "revoke", !.session = s]
<1>1. Begun(Now, s) /\ UNCHANGED <<store, history>>
  BY DEF Refresh, RevokeToken, Live, Begun, Now
<1>2. calls' = [calls EXCEPT ![c] = refreshing] \/ calls' = [calls EXCEPT ![c] = revoking]
  BY DEF Refresh, RevokeToken, Begin
<1>3. ASSUME NEW call \in {refreshing, revoking}
      PROVE  call \in Call /\ CallFits(Now, call)
  <2>1. /\ call \in Call /\ call.phase \in {"refresh", "revoke"} /\ call.session = s /\ call.goal = "answer"
        /\ call.listed = {} /\ call.todo = {}
    BY DEF Blank, Call
  <2> HIDE DEF refreshing, revoking
  <2> QED BY <1>1, <2>1 DEF CallFits, Completed, Coming, Revoking
<1> HIDE DEF refreshing, revoking
<1> QED BY <1>1, <1>2, <1>3, CallOnly

\* A write of the session in hand leaves the grant what it is, but for its end.
LEMMA GrantWrite ==
  ASSUME Typed, NEW s \in SessionIds, Begun(Now, s), NEW live \in BOOLEAN,
         grants' = [grants EXCEPT ![s] = [grants[s] EXCEPT !.live = live]],
         UNCHANGED <<logins, consents>>
  PROVE  /\ Keeps(Now, Now') /\ grants' \in [SessionIds -> Grant \cup {None}] /\ grants'[s].live = live
         /\ \A t \in SessionIds \ {s} : grants'[t] = grants[t]
<1> DEFINE grant == [grants[s] EXCEPT !.live = live]
<1>1. grants[s] \in Grant /\ grants[s] # None
  BY GrantOf DEF Begun, Now
<1>2. /\ grant \in Grant /\ grant.client = grants[s].client /\ grant.owner = grants[s].owner
      /\ grant.scopes = grants[s].scopes /\ grant.live = live
  BY <1>1 DEF Grant
<1>3. grant # None
  BY <1>2, NoneAssumption
<1> HIDE DEF grant
<1>4. /\ grants' \in [SessionIds -> Grant \cup {None}] /\ grants'[s] = grant
      /\ \A t \in SessionIds \ {s} : grants'[t] = grants[t]
  BY <1>2 DEF Typed, TypeOK, grant
<1> QED BY <1>2, <1>3, <1>4 DEF Keeps, Now

LEMMA WriteRefreshedTyped ==
  ASSUME Typed, NEW c \in Calls, WriteRefreshed(c)
  PROVE  Typed'
<1> DEFINE s == calls[c].session
<1>1. Begun(Now, s) /\ s \in SessionIds
  BY CallAt DEF WriteRefreshed, CallFits, Revoking, Begun
<1>2. Keeps(Now, Now') /\ grants' \in [SessionIds -> Grant \cup {None}]
  BY <1>1, GrantWrite DEF WriteRefreshed
<1>3. twice' \cup raced' \subseteq SessionIds /\ mixed' \subseteq Pairs
  BY <1>1 DEF Typed, TypeOK, WriteRefreshed
<1> QED BY <1>2, <1>3, Frame DEF WriteRefreshed, Ends

LEMMA RevokeSessionTyped ==
  ASSUME Typed, NEW c \in Calls, RevokeSession(c)
  PROVE  Typed'
<1> DEFINE s == calls[c].session
           next == [calls[c] EXCEPT !.phase = "unindex"]
<1>1. calls[c] \in Call /\ CallFits(Now, calls[c]) /\ calls[c].phase = "revoke" /\ Begun(Now, s) /\ s \in SessionIds
  BY CallAt DEF RevokeSession, CallFits, Revoking, Begun
<1>2. Keeps(Now, Now') /\ grants' \in [SessionIds -> Grant \cup {None}]
  BY <1>1, GrantWrite DEF RevokeSession, Deleted, history
<1>3. twice' \cup raced' \subseteq SessionIds /\ mixed' \subseteq Pairs
  BY <1>1 DEF Typed, TypeOK, RevokeSession, history
<1>4. /\ next \in Call /\ next.phase = "unindex" /\ next.session = s /\ next.client = calls[c].client
      /\ next.goal = calls[c].goal /\ next.owner = calls[c].owner
      /\ next.listed = calls[c].listed /\ next.todo = calls[c].todo
  BY <1>1 DEF Call
<1>5. CallFits(Now', calls[c])
  BY <1>1, <1>2, CallStays
<1>6. Begun(Now', s)
  BY <1>1, <1>2, GrantStays
<1>7. CallFits(Now', next)
  BY <1>1, <1>4, <1>5, <1>6 DEF CallFits, Completed, Coming, Revoking
<1>8. calls' = [calls EXCEPT ![c] = next]
  BY DEF RevokeSession, Goes
<1> HIDE DEF next
<1> QED BY <1>2, <1>3, <1>4, <1>7, <1>8, Frame DEF RevokeSession, history
-----------------------------------------------------------------------------
\* What a call that revokes a list is told, whichever session it is at.
ListFits(known, call) ==
  /\ \A s \in call.listed \cup call.todo : Begun(known, s)
  /\ call.goal # "answer" => call.client \in Clients
  /\ call.goal = "forget" => call.owner \in Owners

\* Going on with the list takes one session of it in hand, and forgets none.
LEMMA Continues ==
  ASSUME NEW known, NEW call \in Call, ListFits(known, call), NEW next \in Continuations(call)
  PROVE  \/ next = Idle /\ call.todo = {} /\ call.goal = "answer"
         \/ /\ next \in Call /\ CallFits(known, next) /\ next.phase \in {"revoke", "unlist", "forget", "delete"}
            /\ next.listed = call.listed /\ next.goal = call.goal /\ Ahead(next) = call.todo
<1>1. CASE call.todo # {}
  <2> DEFINE phase == CASE call.goal = "delete" -> "unlist" [] OTHER -> "revoke"
  <2>1. phase \in {"revoke", "unlist"}
    OBVIOUS
  <2>2. PICK s \in call.todo : next = [call EXCEPT !.phase = phase, !.session = s, !.todo = @ \ {s}]
    BY <1>1 DEF Continuations
  <2> HIDE DEF phase
  <2>3. s \in SessionIds /\ Begun(known, s)
    BY <2>2 DEF ListFits, Begun
  <2>4. /\ next \in Call /\ next.phase = phase /\ next.session = s /\ next.todo = call.todo \ {s}
        /\ next.listed = call.listed /\ next.goal = call.goal /\ next.client = call.client /\ next.owner = call.owner
    BY <2>1, <2>2, <2>3 DEF Call
  <2>5. CallFits(known, next)
    BY <2>1, <2>3, <2>4 DEF ListFits, CallFits, Completed, Coming, Revoking
  <2>6. Ahead(next) = call.todo
    BY <2>1, <2>2, <2>4 DEF Ahead
  <2> QED BY <2>1, <2>4, <2>5, <2>6
<1>2. CASE call.todo = {} /\ call.goal \in {"forget", "delete"}
  <2>1. next = [call EXCEPT !.phase = call.goal]
    BY <1>2 DEF Continuations
  <2>2. /\ next \in Call /\ next.phase = call.goal /\ next.todo = {} /\ next.listed = call.listed
        /\ next.goal = call.goal /\ next.client = call.client /\ next.owner = call.owner
    BY <1>2, <2>1 DEF Call
  <2>3. CallFits(known, next)
    BY <1>2, <2>2 DEF ListFits, CallFits, Completed, Coming, Revoking
  <2>4. Ahead(next) = call.todo
    BY <1>2, <2>2 DEF Ahead
  <2> QED BY <1>2, <2>2, <2>3, <2>4
<1>3. CASE call.todo = {} /\ call.goal = "answer"
  BY <1>3 DEF Continuations
<1> QED BY <1>1, <1>2, <1>3 DEF Call

LEMMA ListOf ==
  ASSUME NEW known, NEW call, CallFits(known, call)
  PROVE  ListFits(known, call)
BY DEF CallFits, ListFits

\* The list a call starts with.
LEMMA BeginAllGoes ==
  ASSUME Typed, NEW c \in Calls, NEW goal \in {"forget", "delete"}, NEW owner \in Owners \cup {None}, NEW client \in Clients,
         goal = "forget" => owner \in Owners, NEW sessions, \A s \in sessions : Begun(Now, s),
         BeginAll(c, goal, owner, client, sessions)
  PROVE  /\ calls[c] = Idle
         /\ \E next \in Call : /\ calls' = [calls EXCEPT ![c] = next] /\ CallFits(Now, next)
                               /\ next.phase \in {"revoke", "unlist", "forget", "delete"}
                               /\ next.listed = sessions /\ Ahead(next) = sessions
<1> DEFINE call == [Blank EXCEPT !.goal = goal, !.owner = owner, !.client = client,
                                 !.todo = sessions, !.listed = sessions]
<1>1. sessions \in SUBSET SessionIds
  BY DEF Begun
<1>2. /\ call \in Call /\ call.goal = goal /\ call.owner = owner /\ call.client = client
      /\ call.todo = sessions /\ call.listed = sessions
  BY <1>1 DEF Blank, Call
<1>3. calls[c] = Idle /\ \E next \in Continuations(call) : calls' = [calls EXCEPT ![c] = next]
  BY DEF BeginAll, Begin
<1> HIDE DEF call
<1>4. ListFits(Now, call)
  BY <1>2 DEF ListFits
<1>5. PICK next \in Continuations(call) : calls' = [calls EXCEPT ![c] = next]
  BY <1>3
<1> QED BY <1>2, <1>3, <1>4, <1>5, Continues

LEMMA UnindexTyped ==
  ASSUME Typed, NEW c \in Calls, Unindex(c)
  PROVE  Typed'
<1>1. /\ calls[c] \in Call /\ CallFits(Now, calls[c]) /\ Begun(Now, calls[c].session)
  BY CallAt DEF Unindex, CallFits, Revoking
<1>2. Keeps(Now, Now') /\ Now' = Now
  BY SameKnowledge DEF Unindex
<1>3. PICK next \in Continuations(calls[c]) : calls' = [calls EXCEPT ![c] = next]
  BY DEF Unindex, Proceeds, Goes
<1>4. next = Idle \/ (next \in Call /\ CallFits(Now, next))
  BY <1>1, <1>3, ListOf, Continues
<1>5. \A s \in index' \cup ended' : s \in index \cup ended \/ Begun(Now', s)
  BY <1>1, <1>2 DEF Unindex
<1>6. twice' \cup raced' \subseteq SessionIds /\ mixed' \subseteq Pairs
  BY DEF Typed, TypeOK, Unindex
<1> QED BY <1>2, <1>3, <1>4, <1>5, <1>6, Frame DEF Unindex

LEMMA RevokeOwnGrantTyped ==
  ASSUME Typed, NEW c \in Calls, NEW s \in SessionIds, RevokeOwnGrant(c, s)
  PROVE  Typed'
<1> DEFINE call == [Blank EXCEPT !.phase = "revoke", !.session = s, !.goal = "forget",
                                 !.owner = grants[s].owner, !.client = grants[s].client, !.listed = {s}]
<1>1. /\ grants[s] \in Grant /\ Begun(Now, s) /\ UNCHANGED <<store, history>>
      /\ calls' = [calls EXCEPT ![c] = call]
  BY GrantOf DEF RevokeOwnGrant, Live, Begin
<1>2. /\ call \in Call /\ call.phase = "revoke" /\ call.session = s /\ call.goal = "forget"
      /\ call.owner = grants[s].owner /\ call.client = grants[s].client /\ call.listed = {s} /\ call.todo = {}
  BY <1>1 DEF Blank, Call, Grant
<1> HIDE DEF call
<1>3. CallFits(Now, call)
  BY <1>1, <1>2 DEF CallFits, Completed, Coming, Revoking, Grant
<1> QED BY <1>1, <1>2, <1>3, CallOnly

LEMMA RevokeClientGrantsTyped ==
  ASSUME Typed, NEW c \in Calls, NEW owner \in Owners, NEW client \in Clients, RevokeClientGrants(c, owner, client)
  PROVE  Typed'
<1>1. \A s \in GrantSessions(owner, client) : Begun(Now, s)
  BY DEF GrantSessions, Live, Begun, Now
<1>2. PICK next \in Call : calls' = [calls EXCEPT ![c] = next] /\ CallFits(Now, next)
  BY <1>1, BeginAllGoes DEF RevokeClientGrants
<1> QED BY <1>2, CallOnly DEF RevokeClientGrants

LEMMA DeleteClientTyped ==
  ASSUME Typed, NEW c \in Calls, NEW client \in Clients, DeleteClient(c, client)
  PROVE  Typed'
<1> DEFINE sessions == { s \in index : grants[s].client = client }
<1>1. \A s \in sessions : Begun(Now, s)
  BY DEF Typed, ListedFit
<1>2. BeginAll(c, "delete", None, client, sessions)
  BY DEF DeleteClient
<1> HIDE DEF sessions
<1>3. PICK next \in Call : calls' = [calls EXCEPT ![c] = next] /\ CallFits(Now, next)
  BY <1>1, <1>2, BeginAllGoes
<1> QED BY <1>3, CallOnly DEF DeleteClient

\* The call takes the session of its list to the end.
LEMMA ListStep ==
  ASSUME NEW known, NEW call \in Call, CallFits(known, call), Begun(known, call.session)
  PROVE  LET next == [call EXCEPT !.phase = "revoke"]
         IN  /\ next \in Call /\ CallFits(known, next) /\ next.phase = "revoke" /\ next.session = call.session
             /\ next.listed = call.listed /\ next.todo = call.todo
<1> DEFINE next == [call EXCEPT !.phase = "revoke"]
<1>1. /\ next \in Call /\ next.phase = "revoke" /\ next.session = call.session /\ next.goal = call.goal
      /\ next.client = call.client /\ next.owner = call.owner /\ next.listed = call.listed /\ next.todo = call.todo
  BY DEF Call
<1> HIDE DEF next
<1>2. CallFits(known, next)
  BY <1>1 DEF CallFits, Completed, Coming, Revoking
<1> QED BY <1>1, <1>2 DEF next

LEMMA UnlistTyped ==
  ASSUME Typed, NEW c \in Calls, Unlist(c)
  PROVE  Typed'
<1>1. calls[c] \in Call /\ CallFits(Now, calls[c]) /\ Begun(Now, calls[c].session)
  BY CallAt DEF Unlist, CallFits, Revoking
<1>2. Keeps(Now, Now') /\ Now' = Now
  BY SameKnowledge DEF Unlist, history
<1>3. PICK next : calls' = [calls EXCEPT ![c] = next] /\ (next = Idle \/ (next \in Call /\ CallFits(Now, next)))
  <2>1. CASE Live(calls[c].session)
    BY <1>1, <2>1, ListStep DEF Unlist, Goes
  <2>2. CASE ~Live(calls[c].session)
    <3>1. PICK next \in Continuations(calls[c]) : calls' = [calls EXCEPT ![c] = next]
      BY <2>2 DEF Unlist, Proceeds, Goes
    <3> QED BY <1>1, <3>1, ListOf, Continues
  <2> QED BY <2>1, <2>2
<1>4. twice' \cup raced' \subseteq SessionIds /\ mixed' \subseteq Pairs
  BY DEF Typed, TypeOK, Unlist, history
<1> QED BY <1>2, <1>3, <1>4, Frame DEF Unlist, history

\* The last step of a call with a goal.
LEMMA DropClientTyped ==
  ASSUME Typed, NEW c \in Calls, DropClient(c)
  PROVE  Typed'
<1>1. CallFits(Now, calls[c])
  BY CallAt DEF DropClient
<1>2. Keeps(Now, Now') /\ Now' = Now
  BY SameKnowledge DEF DropClient
<1>3. \A s \in index' \cup ended' : s \in index \cup ended \/ Begun(Now', s)
  BY <1>1, <1>2 DEF DropClient, CallFits
<1>4. twice' \cup raced' \subseteq SessionIds /\ mixed' \subseteq Pairs
  BY DEF Typed, TypeOK, DropClient
<1> QED BY <1>2, <1>3, <1>4, Frame DEF DropClient, Ends

LEMMA ForgetTyped ==
  ASSUME Typed, NEW c \in Calls, Forget(c)
  PROVE  Typed'
<1> DEFINE p == <<calls[c].owner, calls[c].client>>
<1>1. CallFits(Now, calls[c]) /\ p \in Pairs
  BY CallAt DEF Forget, CallFits, Pairs
<1>2. Keeps(Now, Now') /\ Now' = Now
  BY SameKnowledge DEF Forget
<1>3. \A s \in index' \cup ended' : s \in index \cup ended \/ Begun(Now', s)
  BY <1>1, <1>2 DEF Forget, CallFits
<1>4. remembered' = [remembered EXCEPT ![p] = {}] /\ standing' = [standing EXCEPT ![p] = {}]
  BY DEF Forget, Forgotten
<1>5. mixed' \subseteq mixed \cup {p}
  BY DEF Forget
<1> HIDE DEF p
<1>6. remembered' \in [Pairs -> SUBSET Scopes] /\ standing' \in [Pairs -> SUBSET Scopes]
  BY <1>4 DEF Typed, TypeOK
<1>7. RememberedFit'
  <2>1. \A q \in Pairs : remembered'[q] \subseteq remembered[q]
    BY <1>4 DEF Typed, TypeOK
  <2> QED BY <1>2, <2>1 DEF Typed, RememberedFit, Agreed
<1>8. twice' \cup raced' \subseteq SessionIds /\ mixed' \subseteq Pairs
  BY <1>1, <1>5 DEF Typed, TypeOK, Forget
<1> QED BY <1>2, <1>3, <1>6, <1>7, <1>8, Frame DEF Forget, Ends

LEMMA FailTyped ==
  ASSUME Typed, NEW c \in Calls, Fail(c)
  PROVE  Typed'
BY CallOnly DEF Fail, Ends

LEMMA TypedInvariance == Typed /\ [Next]_vars => Typed'
<1> SUFFICES ASSUME Typed, [Next]_vars PROVE Typed'
  OBVIOUS
<1>1. ASSUME NEW request \in Request, StartAuthorization(request) PROVE Typed'
  BY <1>1, StartTyped
<1>2. ASSUME NEW n \in ChallengeIds, NEW owner \in Owners, AcceptLogin(n, owner) PROVE Typed'
  BY <1>2, AcceptLoginTyped
<1>3. ASSUME NEW n \in ChallengeIds, NEW granted \in SUBSET Scopes, NEW remember \in BOOLEAN,
             AcceptConsent(n, granted, remember)
      PROVE  Typed'
  BY <1>3, AcceptConsentTyped
<1>4. ASSUME NEW n \in ChallengeIds, Reject(n) \/ ExpireChallenge(n) PROVE Typed'
  BY <1>4, PageTyped
<1>5. ASSUME NEW s \in SessionIds, ExpireCode(s) PROVE Typed'
  BY <1>5, ExpireCodeTyped
<1>6. ASSUME NEW owner \in Owners, DeleteIdentity(owner) PROVE Typed'
  BY <1>6, DeleteIdentityTyped
<1>7. ASSUME NEW c \in Calls, NEW n \in ChallengeIds, Redeem(c, n) PROVE Typed'
  BY <1>7, RedeemTyped
<1>8. ASSUME NEW c \in Calls, NEW client \in Clients, NEW s \in SessionIds, NEW proof \in Proofs,
             Exchange(c, client, s, proof)
      PROVE  Typed'
  BY <1>8, ExchangeTyped
<1>9. ASSUME NEW c \in Calls, NEW s \in SessionIds, Refresh(c, s) \/ RevokeToken(c, s) \/ RevokeOwnGrant(c, s)
      PROVE  Typed'
  BY <1>9, RefreshTyped, RevokeOwnGrantTyped
<1>10. ASSUME NEW c \in Calls, NEW client \in Clients, DeleteClient(c, client) PROVE Typed'
  BY <1>10, DeleteClientTyped
<1>11. ASSUME NEW c \in Calls, NEW owner \in Owners, NEW client \in Clients, RevokeClientGrants(c, owner, client)
       PROVE  Typed'
  BY <1>11, RevokeClientGrantsTyped
<1>12. ASSUME NEW c \in Calls,
              \/ Unset(c) \/ ContinueLogin(c) \/ CreateSession(c) \/ Index(c) \/ Recall(c) \/ Remember(c)
              \/ IssueCode(c) \/ Use(c) \/ Mint(c) \/ WriteRefreshed(c) \/ RevokeSession(c) \/ Unindex(c)
              \/ Forget(c) \/ Unlist(c) \/ DropClient(c) \/ Fail(c)
       PROVE  Typed'
  BY <1>12, UnsetTyped, ContinueLoginTyped, CreateSessionTyped, IndexTyped, RecallTyped, RememberTyped,
     IssueCodeTyped, UseTyped, MintTyped, WriteRefreshedTyped, RevokeSessionTyped, UnindexTyped,
     ForgetTyped, UnlistTyped, DropClientTyped, FailTyped
<1>13. CASE UNCHANGED vars
  <2>1. Keeps(Now, Now')
    BY <1>13, SameKnowledge DEF vars, history, store
  <2>2. TypeOK'
    BY <1>13 DEF vars, history, store, Typed, TypeOK
  <2>3. PagesFit' /\ CallsFit' /\ CodesFit' /\ TokensFit' /\ RememberedFit' /\ ListedFit'
    BY <1>13, <2>1, Untouched DEF vars, history, store, ListedFit
  <2> QED BY <2>2, <2>3 DEF Typed
<1> QED BY <1>1, <1>2, <1>3, <1>4, <1>5, <1>6, <1>7, <1>8, <1>9, <1>10, <1>11, <1>12, <1>13 DEF Next
-----------------------------------------------------------------------------
LEMMA NotComing == "use" \notin Coming /\ "mint" \notin Coming
BY DEF Coming, Completed

\* The rest of a call is as it was, and another call is not touched.
LEMMA HasStep ==
  ASSUME Typed, NEW c \in Calls, NEW next, calls' = [calls EXCEPT ![c] = next], NEW d \in Calls, NEW phases, NEW s
  PROVE  /\ d # c => (Has(d, phases, s)' <=> Has(d, phases, s))
         /\ Has(c, phases, s)' <=> next # Idle /\ next.phase \in phases /\ next.session = s
BY DEF Typed, TypeOK, Has

LEMMA HoldsStep ==
  ASSUME Typed, NEW c \in Calls, NEW next, calls' = [calls EXCEPT ![c] = next], NEW d \in Calls, NEW s
  PROVE  /\ Has(d, Coming, s)' <=> IF d = c THEN next # Idle /\ next.phase \in Coming /\ next.session = s
                                  ELSE Has(d, Coming, s)
         /\ Has(d, {"use"}, s)' <=> IF d = c THEN next # Idle /\ next.phase = "use" /\ next.session = s
                                   ELSE Has(d, {"use"}, s)
         /\ Has(d, {"mint"}, s)' <=> IF d = c THEN next # Idle /\ next.phase = "mint" /\ next.session = s
                                    ELSE Has(d, {"mint"}, s)
BY DEF Typed, TypeOK, Has

\* Where nobody comes nearer to the tokens of a code, they are still given one time.
LEMMA OnceStays ==
  ASSUME Typed, Once, tokens' = tokens, twice' = twice, raced \subseteq raced',
         \A s \in SessionIds : codes'[s] = codes[s] \/ codes'[s] = None,
         \A d \in Calls, s \in SessionIds : /\ Has(d, Coming, s)' => Has(d, Coming, s)
                                            /\ Has(d, {"use"}, s)' => Has(d, {"use"}, s)
                                            /\ Has(d, {"mint"}, s)' => Has(d, {"mint"}, s)
  PROVE  Once'
<1> SUFFICES ASSUME NEW s \in SessionIds
             PROVE  ComingFits(s)' /\ (s \notin raced' => CodeFits(s)' /\ s \notin twice')
  BY DEF Once
<1>1. ComingFits(s) /\ (s \notin raced => CodeFits(s) /\ s \notin twice)
  BY DEF Once
<1>2. Unminted(s) => Unminted(s)'
  BY DEF Unminted
<1>3. ComingFits(s)'
  BY <1>1, <1>2 DEF ComingFits
<1>4. CodeFits(s) => CodeFits(s)'
  BY <1>2 DEF CodeFits
<1> QED BY <1>1, <1>3, <1>4

LEMMA OnceCall ==
  ASSUME Typed, Once, NEW c \in Calls, NEW next, calls' = [calls EXCEPT ![c] = next],
         \/ next = Idle
         \/ next.phase \notin Coming \cup {"use", "mint"}
         \/ /\ calls[c] # Idle /\ calls[c].phase \in Coming
            /\ next.phase \in Coming /\ next.session = calls[c].session,
         UNCHANGED <<codes, tokens, twice>>, raced \subseteq raced'
  PROVE  Once'
<1>1. ASSUME NEW d \in Calls, NEW s \in SessionIds
      PROVE  /\ Has(d, Coming, s)' => Has(d, Coming, s)
             /\ Has(d, {"use"}, s)' => Has(d, {"use"}, s)
             /\ Has(d, {"mint"}, s)' => Has(d, {"mint"}, s)
  <2>1. Has(d, Coming, s)' => Has(d, Coming, s)
    BY HoldsStep DEF Has
  <2>2. next = Idle \/ (next.phase # "use" /\ next.phase # "mint")
    BY DEF Coming, Completed
  <2> QED BY <2>1, <2>2, HoldsStep
<1> QED BY <1>1, OnceStays

\* Nothing knows of a session that was not created.
LEMMA Unborn ==
  ASSUME Typed, NEW s \in SessionIds, grants[s] = None
  PROVE  /\ codes[s] = None /\ \A t \in tokens : t.session # s
         /\ \A d \in Calls : ~Has(d, Coming, s) /\ ~Has(d, {"use"}, s) /\ ~Has(d, {"mint"}, s)
<1>1. ~Begun(Now, s)
  BY DEF Begun, Now
<1>2. codes[s] = None
  BY <1>1 DEF Typed, CodesFit, GrantEarned
<1>3. \A t \in tokens : t.session # s
  BY <1>1 DEF Typed, TokensFit
<1>4. \A d \in Calls : ~Has(d, Coming, s) /\ ~Has(d, {"use"}, s) /\ ~Has(d, {"mint"}, s)
  BY <1>1 DEF Typed, CallsFit, CallFits, GrantEarned, Has
<1> QED BY <1>2, <1>3, <1>4

LEMMA CreateSessionOnce ==
  ASSUME Typed, Once, NEW c \in Calls, CreateSession(c)
  PROVE  Once'
<1>1. PICK n \in SessionIds :
        /\ \A t \in SessionIds : grants[t] = None <=> t >= n
        /\ calls' = [calls EXCEPT ![c] = [calls[c] EXCEPT !.phase = "index", !.session = n]]
  BY DEF CreateSession, Goes
<1> DEFINE next == [calls[c] EXCEPT !.phase = "index", !.session = n]
<1>2. grants[n] = None
  BY <1>1 DEF SessionIds
<1>3. calls[c] \in Call /\ calls[c].phase = "create"
  BY CallAt DEF CreateSession
<1>4. next.phase = "index" /\ next.session = n
  BY <1>3 DEF Call
<1>5. UNCHANGED <<codes, tokens, twice, raced>>
  BY DEF CreateSession
<1> HIDE DEF next
<1>6. SUFFICES ASSUME NEW s \in SessionIds
               PROVE  ComingFits(s)' /\ (s \notin raced' => CodeFits(s)' /\ s \notin twice')
  BY DEF Once
<1>7. ComingFits(s) /\ (s \notin raced => CodeFits(s) /\ s \notin twice)
  BY DEF Once
<1>8. \A d \in Calls : /\ Has(d, {"use"}, s)' => Has(d, {"use"}, s)
                       /\ Has(d, {"mint"}, s)' => Has(d, {"mint"}, s)
  BY <1>1, <1>4, HoldsStep DEF next
<1>9. Unminted(s) => Unminted(s)'
  BY <1>5, <1>8 DEF Unminted
<1>10. CodeFits(s) => CodeFits(s)'
  BY <1>5, <1>8, <1>9 DEF CodeFits
<1>11. CASE s = n
  <2>1. /\ codes[s] = None /\ Unminted(s)
        /\ \A d \in Calls : ~Has(d, Coming, s) /\ ~Has(d, {"use"}, s)
    BY <1>2, <1>11, Unborn DEF Unminted
  <2>2. \A d \in Calls : Has(d, Coming, s)' => d = c
    BY <1>1, <2>1, HoldsStep DEF next
  <2>3. ComingFits(s)'
    BY <1>5, <1>8, <1>9, <2>1, <2>2 DEF ComingFits
  <2> QED BY <1>5, <1>7, <1>10, <2>3
<1>12. CASE s # n
  <2>1. \A d \in Calls : Has(d, Coming, s)' => Has(d, Coming, s)
    BY <1>1, <1>4, <1>12, HoldsStep DEF next
  <2>2. ComingFits(s)'
    BY <1>5, <1>7, <1>8, <1>9, <2>1 DEF ComingFits
  <2> QED BY <1>5, <1>7, <1>10, <2>2
<1> QED BY <1>11, <1>12

\* The code is written before anybody could have its tokens.
LEMMA IssueCodeOnce ==
  ASSUME Typed, Once, NEW c \in Calls, IssueCode(c)
  PROVE  Once'
<1> DEFINE n == calls[c].session
           code == [client |-> calls[c].client, proof |-> calls[c].proof, used |-> FALSE]
<1>1. Has(c, Coming, n) /\ n \in SessionIds
  BY CallAt DEF IssueCode, At, Has, Coming, Completed, CallFits, Begun
<1>2. codes' = [codes EXCEPT ![n] = code] /\ calls' = [calls EXCEPT ![c] = Idle] /\ UNCHANGED <<tokens, twice, raced>>
  BY DEF IssueCode, Ends, history
<1>3. \A d \in Calls : \A phases, s : Has(d, phases, s)' => Has(d, phases, s) /\ d # c
  BY <1>2, HasStep
<1> SUFFICES ASSUME NEW s \in SessionIds
             PROVE  ComingFits(s)' /\ (s \notin raced' => CodeFits(s)' /\ s \notin twice')
  BY DEF Once
<1>4. ComingFits(s) /\ (s \notin raced => CodeFits(s) /\ s \notin twice)
  BY DEF Once
<1>5. Unminted(s) => Unminted(s)'
  BY <1>2, <1>3 DEF Unminted
<1>6. CASE s = n
  <2>1. Unminted(s) /\ \A d \in Calls : ~Has(d, {"use"}, s) /\ (Has(d, Coming, s) => d = c)
    BY <1>1, <1>4, <1>6 DEF ComingFits
  <2>2. ComingFits(s)'
    BY <1>3, <2>1 DEF ComingFits
  <2>3. CodeFits(s)'
    BY <1>3, <1>5, <2>1 DEF CodeFits, Unminted
  <2> QED BY <1>2, <1>4, <2>2, <2>3
<1>7. CASE s # n
  <2>1. codes'[s] = codes[s]
    BY <1>2, <1>7 DEF Typed, TypeOK
  <2>2. ComingFits(s)' /\ (CodeFits(s) => CodeFits(s)')
    BY <1>2, <1>3, <1>4, <1>5, <2>1 DEF ComingFits, CodeFits
  <2> QED BY <1>2, <1>4, <2>2
<1> QED BY <1>6, <1>7

\* A copy is taken of a code that nobody marked.
LEMMA ExchangeOnce ==
  ASSUME Typed, Once, NEW c \in Calls, NEW client \in Clients, NEW n \in SessionIds, NEW proof \in Proofs,
         Exchange(c, client, n, proof)
  PROVE  Once'
<1> DEFINE ending == [Blank EXCEPT !.phase = "revoke", !.session = n]
           using == [Blank EXCEPT !.phase = "use", !.session = n, !.copy = codes[n],
                                  !.client = client, !.proof = proof]
<1>1. UNCHANGED <<store, history>> /\ codes[n] # None
  BY DEF Exchange
<1>2. CASE calls' = [calls EXCEPT ![c] = ending]
  <2>1. ending.phase \notin Coming \cup {"use", "mint"}
    BY DEF Blank, Coming, Completed
  <2> HIDE DEF ending
  <2> QED BY <1>1, <1>2, <2>1, OnceCall DEF store, history
<1>3. CASE ~codes[n].used /\ calls' = [calls EXCEPT ![c] = using]
  <2>1. using.phase = "use" /\ using.session = n
    BY DEF Blank
  <2> HIDE DEF using
  <2> SUFFICES ASSUME NEW s \in SessionIds
               PROVE  ComingFits(s)' /\ (s \notin raced' => CodeFits(s)' /\ s \notin twice')
    BY DEF Once
  <2>2. ComingFits(s) /\ (s \notin raced => CodeFits(s) /\ s \notin twice)
    BY DEF Once
  <2>3. UNCHANGED <<codes, tokens, twice, raced>>
    BY <1>1 DEF store, history
  <2>4. \A d \in Calls : /\ Has(d, Coming, s)' => Has(d, Coming, s)
                         /\ Has(d, {"mint"}, s)' => Has(d, {"mint"}, s)
                         /\ Has(d, {"use"}, s)' => Has(d, {"use"}, s) \/ s = n
    BY <1>3, <2>1, NotComing, HoldsStep
  <2>5. Unminted(s) => Unminted(s)'
    BY <2>3, <2>4 DEF Unminted
  <2>6. ComingFits(s)'
    BY <1>1, <2>2, <2>3, <2>4, <2>5 DEF ComingFits
  <2>7. CodeFits(s) => CodeFits(s)'
    BY <1>1, <1>3, <2>3, <2>4, <2>5 DEF CodeFits
  <2> QED BY <2>2, <2>3, <2>6, <2>7
<1> QED BY <1>2, <1>3 DEF Exchange, Begin

\* Whoever marks the code alone is the one that is to mint.
LEMMA UseOnce ==
  ASSUME Typed, Once, NEW c \in Calls, Use(c)
  PROVE  Once'
<1> DEFINE n == calls[c].session
<1>1. calls[c] \in Call /\ Has(c, {"use"}, n) /\ n \in SessionIds /\ calls[c].copy \in Code
  BY CallAt DEF Use, At, Has, CallFits, GrantEarned, Begun
<1>2. /\ codes' = [codes EXCEPT ![n] = Marked(calls[c].copy)] /\ UNCHANGED <<tokens, twice>> /\ raced \subseteq raced'
      /\ (\E d \in Calls \ {c} : At(d, "use") /\ calls[d].session = n) => n \in raced'
  BY DEF Use
<1>3. Marked(calls[c].copy).used
  BY <1>1 DEF Marked, Code
<1>4. PICK next : /\ calls' = [calls EXCEPT ![c] = next]
                  /\ next = Idle \/ (next.phase = "mint" /\ next.session = n)
  <2>1. [calls[c] EXCEPT !.phase = "mint"].phase = "mint" /\ [calls[c] EXCEPT !.phase = "mint"].session = n
    BY <1>1 DEF Call
  <2> QED BY <2>1 DEF Use, Goes, Ends
<1>5. \A d \in Calls : \A s :
        /\ Has(d, Coming, s)' => Has(d, Coming, s)
        /\ Has(d, {"use"}, s)' => Has(d, {"use"}, s) /\ d # c
        /\ Has(d, {"mint"}, s)' => Has(d, {"mint"}, s) \/ (d = c /\ s = n)
  BY <1>4, NotComing, HoldsStep
<1> SUFFICES ASSUME NEW s \in SessionIds
             PROVE  ComingFits(s)' /\ (s \notin raced' => CodeFits(s)' /\ s \notin twice')
  BY DEF Once
<1>6. ComingFits(s) /\ (s \notin raced => CodeFits(s) /\ s \notin twice)
  BY DEF Once
<1>7. CASE s = n
  <2>1. ComingFits(s)'
    BY <1>1, <1>5, <1>6, <1>7 DEF ComingFits
  <2>2. ASSUME s \notin raced' PROVE CodeFits(s)'
    <3>1. Unminted(s)
      BY <1>1, <1>2, <1>6, <1>7, <2>2 DEF CodeFits
    <3>2. \A d \in Calls : ~Has(d, {"use"}, s)'
      BY <1>2, <1>5, <1>7, <2>2 DEF Has, At
    <3>3. codes'[s].used
      BY <1>2, <1>3, <1>7 DEF Typed, TypeOK
    <3> QED BY <1>2, <1>5, <3>1, <3>2, <3>3 DEF CodeFits, Unminted
  <2> QED BY <1>2, <1>6, <2>1, <2>2
<1>8. CASE s # n
  <2>1. codes'[s] = codes[s]
    BY <1>2, <1>8 DEF Typed, TypeOK
  <2>2. Unminted(s) => Unminted(s)'
    BY <1>2, <1>5, <1>8 DEF Unminted
  <2>3. ComingFits(s)'
    BY <1>5, <1>6, <2>1, <2>2 DEF ComingFits
  <2>4. CodeFits(s) => CodeFits(s)'
    BY <1>2, <1>5, <1>8, <2>1, <2>2 DEF CodeFits
  <2> QED BY <1>2, <1>6, <2>3, <2>4
<1> QED BY <1>7, <1>8

LEMMA MintOnce ==
  ASSUME Typed, Once, NEW c \in Calls, Mint(c)
  PROVE  Once'
<1> DEFINE n == calls[c].session
           token == [session |-> n, client |-> calls[c].client, proof |-> calls[c].proof, scopes |-> grants[n].scopes]
<1>1. calls[c] \in Call /\ Has(c, {"mint"}, n) /\ n \in SessionIds
  BY CallAt DEF Mint, At, Has, CallFits, GrantEarned, Begun
<1>2. UNCHANGED <<codes, raced>>
  BY DEF Mint, store
<1>3. CASE ~(Live(n) /\ grants[n].client = calls[c].client /\ grants[n].owner \notin departed)
  <2>1. UNCHANGED <<tokens, twice>>
    BY <1>3 DEF Mint
  <2>2. PICK next : calls' = [calls EXCEPT ![c] = next] /\ (next = Idle \/ next.phase = "revoke")
    <3>1. [calls[c] EXCEPT !.phase = "revoke"].phase = "revoke"
      BY <1>1 DEF Call
    <3> QED BY <1>3, <3>1 DEF Mint, Goes, Ends
  <2> QED BY <1>2, <2>1, <2>2, OnceCall DEF Coming, Completed
<1>4. CASE Live(n) /\ grants[n].client = calls[c].client /\ grants[n].owner \notin departed
  <2>1. /\ calls' = [calls EXCEPT ![c] = Idle] /\ tokens' = tokens \cup {token}
        /\ twice' = IF \E t \in tokens : t.session = n THEN twice \cup {n} ELSE twice
    BY <1>4 DEF Mint, Ends
  <2>2. token.session = n
    OBVIOUS
  <2> HIDE DEF token
  <2>3. \A d \in Calls : \A phases, s : Has(d, phases, s)' => Has(d, phases, s) /\ d # c
    BY <2>1, HasStep
  <2> SUFFICES ASSUME NEW s \in SessionIds
               PROVE  ComingFits(s)' /\ (s \notin raced' => CodeFits(s)' /\ s \notin twice')
    BY DEF Once
  <2>4. ComingFits(s) /\ (s \notin raced => CodeFits(s) /\ s \notin twice)
    BY DEF Once
  <2>5. CASE s = n
    <3>1. ~Unminted(s)
      BY <1>1, <2>5 DEF Unminted
    <3>2. ComingFits(s)'
      BY <2>3, <2>4, <3>1 DEF ComingFits
    <3>3. ASSUME s \notin raced
          PROVE  /\ \A t \in tokens : t.session # s
                 /\ \A d \in Calls : ~Has(d, {"use"}, s) /\ (Has(d, {"mint"}, s) => d = c)
                 /\ codes[s] # None => codes[s].used
      BY <1>1, <2>4, <2>5, <3>1, <3>3 DEF CodeFits
    <3>4. s \notin raced' => CodeFits(s)' /\ s \notin twice'
      BY <1>2, <2>1, <2>3, <2>4, <2>5, <3>3 DEF CodeFits
    <3> QED BY <3>2, <3>4
  <2>6. CASE s # n
    <3>1. \A t \in tokens' : t.session = s => t \in tokens
      BY <2>1, <2>2, <2>6
    <3>2. Unminted(s) => Unminted(s)'
      BY <2>3, <3>1 DEF Unminted
    <3>3. ComingFits(s)' /\ (CodeFits(s) => CodeFits(s)')
      BY <1>2, <2>3, <2>4, <3>1, <3>2 DEF ComingFits, CodeFits
    <3> QED BY <1>2, <2>1, <2>4, <2>6, <3>3
  <2> QED BY <2>5, <2>6
<1> QED BY <1>3, <1>4
-----------------------------------------------------------------------------
\* The steps that leave the calls alone.
Quiet ==
  \/ \E request \in Request : StartAuthorization(request)
  \/ \E n \in ChallengeIds, owner \in Owners : AcceptLogin(n, owner)
  \/ \E n \in ChallengeIds, granted \in SUBSET Scopes, remember \in BOOLEAN : AcceptConsent(n, granted, remember)
  \/ \E n \in ChallengeIds : Reject(n) \/ ExpireChallenge(n)
  \/ \E s \in SessionIds : ExpireCode(s)
  \/ \E owner \in Owners : DeleteIdentity(owner)
  \/ UNCHANGED vars

LEMMA QuietStep ==
  ASSUME Typed, Quiet
  PROVE  /\ UNCHANGED <<calls, tokens, twice, raced, ended, mixed, remembered, standing>>
         /\ \A s \in SessionIds : codes'[s] = codes[s] \/ codes'[s] = None
         /\ \A s \in SessionIds : Live(s)' => Live(s)
<1>1. CASE \/ \E request \in Request : StartAuthorization(request)
           \/ \E n \in ChallengeIds, owner \in Owners : AcceptLogin(n, owner)
           \/ \E n \in ChallengeIds, granted \in SUBSET Scopes, remember \in BOOLEAN : AcceptConsent(n, granted, remember)
           \/ \E n \in ChallengeIds : Reject(n) \/ ExpireChallenge(n)
           \/ UNCHANGED vars
  <2>1. UNCHANGED <<calls, codes, grants, tokens, twice, raced, ended, mixed, remembered, standing>>
    BY <1>1 DEF StartAuthorization, AcceptLogin, AcceptConsent, Reject, ExpireChallenge, vars, store, history
  <2> QED BY <2>1 DEF Live
<1>2. ASSUME NEW s \in SessionIds, ExpireCode(s)
      PROVE  /\ UNCHANGED <<calls, grants, tokens, twice, raced, ended, mixed, remembered, standing>>
             /\ \A t \in SessionIds : codes'[t] = codes[t] \/ codes'[t] = None
  BY <1>2 DEF ExpireCode, history, Typed, TypeOK
<1>3. ASSUME NEW owner \in Owners, DeleteIdentity(owner)
      PROVE  /\ UNCHANGED <<calls, codes, tokens, twice, raced, ended, mixed, remembered, standing>>
             /\ \A s \in SessionIds : Live(s)' => Live(s)
  <2>1. UNCHANGED <<calls, codes, tokens, twice, raced, ended, mixed, remembered, standing>>
    BY <1>3 DEF DeleteIdentity, history
  <2>2. ASSUME NEW s \in SessionIds PROVE Live(s)' => Live(s)
    <3>1. grants'[s] = IF Live(s) /\ grants[s].owner = owner THEN [grants[s] EXCEPT !.live = FALSE] ELSE grants[s]
      BY <1>3 DEF DeleteIdentity
    <3> QED BY <3>1 DEF Live
  <2> QED BY <2>1, <2>2
<1> QED BY <1>1, <1>2, <1>3 DEF Quiet, Live

LEMMA OnceInvariance == Typed /\ Once /\ [Next]_vars => Once'
<1> SUFFICES ASSUME Typed, Once, [Next]_vars PROVE Once'
  OBVIOUS
<1> DEFINE Calm(call) == call = Idle \/ call.phase \notin Coming \cup {"use", "mint"}
<1>1. CASE Quiet
  <2>1. UNCHANGED <<calls, tokens, twice, raced>> /\ \A s \in SessionIds : codes'[s] = codes[s] \/ codes'[s] = None
    BY <1>1, QuietStep
  <2>2. \A d \in Calls, s \in SessionIds : /\ Has(d, Coming, s)' => Has(d, Coming, s)
                                           /\ Has(d, {"use"}, s)' => Has(d, {"use"}, s)
                                           /\ Has(d, {"mint"}, s)' => Has(d, {"mint"}, s)
    BY <2>1 DEF Has
  <2> QED BY <2>1, <2>2, OnceStays
<1>2. ASSUME NEW c \in Calls, NEW n \in ChallengeIds, Redeem(c, n) PROVE Once'
  <2>1. [Blank EXCEPT !.id = n, !.challenge = challenges[n]].phase = "unset"
    BY DEF Blank
  <2> QED BY <1>2, <2>1, OnceCall DEF Redeem, Begin, store, history, Coming, Completed
<1>3. ASSUME NEW c \in Calls, NEW client \in Clients, NEW s \in SessionIds, NEW proof \in Proofs,
             Exchange(c, client, s, proof)
      PROVE  Once'
  BY <1>3, ExchangeOnce
<1>4. ASSUME NEW c \in Calls, NEW s \in SessionIds, Refresh(c, s) \/ RevokeToken(c, s) \/ RevokeOwnGrant(c, s)
      PROVE  Once'
  <2>1. PICK next : /\ calls' = [calls EXCEPT ![c] = next] /\ next.phase \in {"refresh", "revoke"}
                    /\ UNCHANGED <<store, history>>
    BY <1>4 DEF Refresh, RevokeToken, RevokeOwnGrant, Begin, Blank
  <2> QED BY <2>1, OnceCall DEF store, history, Coming, Completed
<1>5. ASSUME NEW c \in Calls, NEW client \in Clients, DeleteClient(c, client) PROVE Once'
  <2> DEFINE sessions == { s \in index : grants[s].client = client }
  <2>1. \A s \in sessions : Begun(Now, s)
    BY DEF Typed, ListedFit
  <2>2. BeginAll(c, "delete", None, client, sessions) /\ UNCHANGED <<store, history>>
    BY <1>5 DEF DeleteClient
  <2> HIDE DEF sessions
  <2>3. PICK next \in Call : calls' = [calls EXCEPT ![c] = next] /\ next.phase \in {"revoke", "unlist", "forget", "delete"}
    BY <2>1, <2>2, BeginAllGoes
  <2> QED BY <2>2, <2>3, OnceCall DEF store, history, Coming, Completed
<1>6. ASSUME NEW c \in Calls, NEW owner \in Owners, NEW client \in Clients, RevokeClientGrants(c, owner, client)
      PROVE  Once'
  <2>1. \A s \in GrantSessions(owner, client) : Begun(Now, s)
    BY DEF GrantSessions, Live, Begun, Now
  <2>2. BeginAll(c, "forget", owner, client, GrantSessions(owner, client)) /\ UNCHANGED <<store, history>>
    BY <1>6 DEF RevokeClientGrants
  <2>3. PICK next \in Call : calls' = [calls EXCEPT ![c] = next] /\ next.phase \in {"revoke", "unlist", "forget", "delete"}
    BY <2>1, <2>2, BeginAllGoes
  <2> QED BY <2>2, <2>3, OnceCall DEF store, history, Coming, Completed
<1>7. ASSUME NEW c \in Calls, Unset(c) \/ ContinueLogin(c) PROVE Once'
  <2>1. calls[c] \in Call
    BY <1>7, CallAt DEF Unset, ContinueLogin
  <2>2. [calls[c] EXCEPT !.phase = "login", !.id = None].phase = "login"
    BY <2>1 DEF Call
  <2>3. \A granted, remember : Completion(calls[c], "create", granted, remember).phase = "create"
    BY DEF Completion, Blank
  <2>4. UNCHANGED <<codes, tokens, twice, raced>>
    BY <1>7 DEF Unset, ContinueLogin, history
  <2>5. PICK next : calls' = [calls EXCEPT ![c] = next] /\ (next = Idle \/ next.phase \in {"login", "create"})
    <3> DEFINE page == calls[c].challenge
    <3>1. CASE Unset(c)
      <4>1. \/ calls' = [calls EXCEPT ![c] = Idle]
            \/ calls' = [calls EXCEPT ![c] = [calls[c] EXCEPT !.phase = "login", !.id = None]]
            \/ calls' = [calls EXCEPT ![c] = Completion(calls[c], "create", page.granted, page.remember)]
        BY <3>1 DEF Unset, Goes, Ends
      <4> DEFINE asked == [calls[c] EXCEPT !.phase = "login", !.id = None]
                 completed == Completion(calls[c], "create", page.granted, page.remember)
      <4>2. asked.phase = "login" /\ completed.phase = "create"
        BY <2>2, <2>3
      <4> HIDE DEF asked, completed
      <4> QED BY <4>1, <4>2 DEF asked, completed
    <3>2. CASE ContinueLogin(c)
      <4>1. \/ calls' = [calls EXCEPT ![c] = Idle]
            \/ calls' = [calls EXCEPT ![c] = Completion(calls[c], "create", page.request.scopes, FALSE)]
        BY <3>2 DEF ContinueLogin, Goes, Ends
      <4> QED BY <2>3, <4>1
    <3> QED BY <1>7, <3>1, <3>2
  <2> QED BY <2>4, <2>5, OnceCall DEF Coming, Completed
<1>8. ASSUME NEW c \in Calls, Index(c) \/ Recall(c) \/ Remember(c) PROVE Once'
  <2>1. calls[c] \in Call /\ calls[c] # Idle /\ calls[c].phase \in Coming
    BY <1>8, CallAt DEF Index, Recall, Remember, Coming, Completed
  <2>2. UNCHANGED <<codes, tokens, twice, raced>>
    BY <1>8 DEF Index, Recall, Remember, store, history
  <2>3. ASSUME NEW phase
        PROVE  /\ [calls[c] EXCEPT !.phase = phase].phase = phase
               /\ [calls[c] EXCEPT !.phase = phase].session = calls[c].session
    BY <2>1 DEF Call
  <2>4. PICK next : /\ calls' = [calls EXCEPT ![c] = next] /\ next.session = calls[c].session
                    /\ next.phase \in {"recall", "remember", "issue"}
    <3>1. CASE Index(c)
      BY <2>3, <3>1 DEF Index, Goes
    <3>2. CASE Recall(c)
      <4> DEFINE next == [calls[c] EXCEPT !.phase = "remember",
                                          !.kept = remembered[<<calls[c].owner, calls[c].client>>] \cup calls[c].scopes]
      <4>1. calls' = [calls EXCEPT ![c] = next]
        BY <3>2 DEF Recall, Goes
      <4>2. next.phase = "remember" /\ next.session = calls[c].session
        BY <2>1 DEF Call
      <4> HIDE DEF next
      <4> QED BY <4>1, <4>2
    <3>3. CASE Remember(c)
      BY <2>3, <3>3 DEF Remember, Goes
    <3> QED BY <1>8, <3>1, <3>2, <3>3
  <2>5. next.phase \in Coming
    BY <2>4 DEF Coming, Completed
  <2> QED BY <2>1, <2>2, <2>4, <2>5, OnceCall
<1>9. ASSUME NEW c \in Calls, CreateSession(c) \/ IssueCode(c) \/ Use(c) \/ Mint(c) PROVE Once'
  BY <1>9, CreateSessionOnce, IssueCodeOnce, UseOnce, MintOnce
<1>10. ASSUME NEW c \in Calls, WriteRefreshed(c) \/ Forget(c) \/ DropClient(c) \/ Fail(c) PROVE Once'
  <2>1. calls' = [calls EXCEPT ![c] = Idle] /\ UNCHANGED <<codes, tokens, twice>> /\ raced \subseteq raced'
    BY <1>10 DEF WriteRefreshed, Forget, DropClient, Fail, Ends, store, history
  <2> QED BY <2>1, OnceCall
<1>11. ASSUME NEW c \in Calls, RevokeSession(c) \/ Unindex(c) \/ Unlist(c) PROVE Once'
  <2>1. calls[c] \in Call /\ CallFits(Now, calls[c])
    BY <1>11, CallAt DEF RevokeSession, Unindex, Unlist
  <2>2. UNCHANGED <<codes, tokens, twice, raced>>
    BY <1>11 DEF RevokeSession, Unindex, Unlist, history
  <2>3. \A next \in Continuations(calls[c]) : next = Idle \/ next.phase \in {"revoke", "unlist", "forget", "delete"}
    BY <2>1, ListOf, Continues
  <2>4. /\ [calls[c] EXCEPT !.phase = "unindex"].phase = "unindex"
        /\ [calls[c] EXCEPT !.phase = "revoke"].phase = "revoke"
    BY <2>1 DEF Call
  <2>5. PICK next : /\ calls' = [calls EXCEPT ![c] = next]
                    /\ next = Idle \/ next.phase \in {"unindex", "revoke", "unlist", "forget", "delete"}
    BY <1>11, <2>3, <2>4 DEF RevokeSession, Unindex, Unlist, Proceeds, Goes
  <2> QED BY <2>2, <2>5, OnceCall DEF Coming, Completed
<1> QED BY <1>1, <1>2, <1>3, <1>4, <1>5, <1>6, <1>7, <1>8, <1>9, <1>10, <1>11 DEF Next, Quiet
-----------------------------------------------------------------------------
\* A grant that ended stays so, but for a refresh that writes it back and marks it.
LEMMA OverStays ==
  ASSUME Typed, [Next]_vars, NEW s \in SessionIds, Begun(Now, s), Over(s)
  PROVE  Over(s)'
<1>1. CASE UNCHANGED <<grants, raced>>
  BY <1>1 DEF Over, Live
<1>2. CASE Quiet
  BY <1>2, QuietStep DEF Over
<1>3. ASSUME NEW c \in Calls, CreateSession(c) PROVE Over(s)'
  <2> DEFINE grant == [client |-> calls[c].client, owner |-> calls[c].owner, scopes |-> calls[c].scopes, live |-> TRUE]
  <2>1. PICK n \in SessionIds : /\ \A t \in SessionIds : grants[t] = None <=> t >= n
                                /\ grants' = [grants EXCEPT ![n] = grant]
    BY <1>3 DEF CreateSession
  <2> HIDE DEF grant
  <2>2. n # s
    BY <2>1 DEF Begun, Now, SessionIds
  <2>3. grants'[s] = grants[s] /\ raced' = raced
    BY <1>3, <2>1, <2>2 DEF Typed, TypeOK, CreateSession
  <2> QED BY <2>3 DEF Over, Live
<1>4. ASSUME NEW c \in Calls, Use(c) PROVE Over(s)'
  BY <1>4 DEF Use, Over, Live
<1>5. ASSUME NEW c \in Calls, WriteRefreshed(c) PROVE Over(s)'
  <2> DEFINE n == calls[c].session
  <2>1. Begun(Now, n) /\ n \in SessionIds
    BY <1>5, CallAt DEF WriteRefreshed, CallFits, Revoking, Begun
  <2>2. \A t \in SessionIds \ {n} : grants'[t] = grants[t]
    BY <1>5, <2>1, GrantWrite DEF WriteRefreshed
  <2>3. raced' = IF Live(n) THEN raced ELSE raced \cup {n}
    BY <1>5 DEF WriteRefreshed
  <2> QED BY <2>2, <2>3 DEF Over, Live
<1>6. ASSUME NEW c \in Calls, RevokeSession(c) PROVE Over(s)'
  <2> DEFINE n == calls[c].session
  <2>1. Begun(Now, n) /\ n \in SessionIds
    BY <1>6, CallAt DEF RevokeSession, CallFits, Revoking, Begun
  <2>2. /\ \A t \in SessionIds \ {n} : grants'[t] = grants[t]
        /\ ~grants'[n].live
    BY <1>6, <2>1, GrantWrite DEF RevokeSession, Deleted, history
  <2>3. raced' = raced
    BY <1>6 DEF RevokeSession, history
  <2> QED BY <2>2, <2>3 DEF Over, Live
<1>7. ASSUME NEW c \in Calls,
             \/ Unset(c) \/ ContinueLogin(c) \/ Index(c) \/ Recall(c) \/ Remember(c) \/ IssueCode(c) \/ Mint(c)
             \/ Unindex(c) \/ Forget(c) \/ Unlist(c) \/ DropClient(c) \/ Fail(c)
      PROVE  UNCHANGED <<grants, raced>>
  BY <1>7 DEF Unset, ContinueLogin, Index, Recall, Remember, IssueCode, Mint, Unindex, Forget, Unlist,
     DropClient, Fail, store, history
<1>8. ASSUME \/ \E c \in Calls, n \in ChallengeIds : Redeem(c, n)
             \/ \E c \in Calls, client \in Clients, n \in SessionIds, proof \in Proofs : Exchange(c, client, n, proof)
             \/ \E c \in Calls, n \in SessionIds : Refresh(c, n) \/ RevokeToken(c, n) \/ RevokeOwnGrant(c, n)
             \/ \E c \in Calls, client \in Clients : DeleteClient(c, client)
             \/ \E c \in Calls, owner \in Owners, client \in Clients : RevokeClientGrants(c, owner, client)
      PROVE  UNCHANGED <<grants, raced>>
  BY <1>8 DEF Redeem, Exchange, Refresh, RevokeToken, RevokeOwnGrant, DeleteClient, RevokeClientGrants, store, history
<1> QED BY <1>1, <1>2, <1>3, <1>4, <1>5, <1>6, <1>7, <1>8 DEF Next, Quiet

\* What a call knows of the ends of grants does not grow old.
LEMMA RevokesStays ==
  ASSUME Typed, Ended, [Next]_vars, NEW c \in Calls, NEW call, call = calls[c], call # Idle
  PROVE  /\ call.phase = "unindex" => Over(call.session)'
         /\ \A s \in call.listed \ Ahead(call) : Over(s)'
         /\ \A s \in call.listed : Over(s) => Over(s)'
<1>1. /\ call.phase = "unindex" => Over(call.session) /\ Begun(Now, call.session)
      /\ \A s \in call.listed \ Ahead(call) : Over(s)
      /\ \A s \in call.listed : Begun(Now, s)
  BY DEF Ended, Revokes, Typed, CallsFit, CallFits, Revoking
<1> QED BY <1>1, OverStays DEF Begun

LEMMA EndedStep ==
  ASSUME Typed, Ended, [Next]_vars, NEW c \in Calls, NEW next, calls' = [calls EXCEPT ![c] = next],
         next # Idle => Revokes(next)', \A s \in ended' : s \in ended \/ Over(s)'
  PROVE  Ended'
<1>1. \A s \in ended : Over(s)'
  <2>1. \A s \in ended : Begun(Now, s) /\ Over(s)
    BY DEF Ended, Typed, ListedFit
  <2> QED BY <2>1, OverStays DEF Begun
<1>2. ASSUME NEW d \in Calls, NEW call, call = calls'[d], call # Idle PROVE Revokes(call)'
  <2>1. CASE d = c
    BY <1>2, <2>1 DEF Typed, TypeOK
  <2>2. CASE d # c
    <3>1. call = calls[d]
      BY <1>2, <2>2 DEF Typed, TypeOK
    <3>2. /\ call.phase = "unindex" => Over(call.session)'
          /\ \A s \in call.listed \ Ahead(call) : Over(s)'
      BY <1>2, <3>1, RevokesStays
    <3> QED BY <3>2 DEF Revokes, Ahead
  <2> QED BY <2>1, <2>2
<1>3. ASSUME NEW d \in Calls, calls'[d] # Idle PROVE Revokes(calls[d])'
  <2>1. PICK call : call = calls'[d]
    OBVIOUS
  <2>2. Revokes(call)'
    BY <1>2, <1>3, <2>1
  <2> QED BY <2>1, <2>2 DEF Revokes, Ahead
<1> QED BY <1>1, <1>3 DEF Ended

\* A call that lists nothing, and one that goes on with the list it had.
LEMMA EndedKept ==
  ASSUME Typed, Ended, [Next]_vars, NEW c \in Calls, NEW next, calls' = [calls EXCEPT ![c] = next],
         \/ next = Idle
         \/ next.phase # "unindex" /\ next.listed \subseteq Ahead(next)
         \/ /\ calls[c] # Idle /\ next.phase # "unindex" /\ next.listed = calls[c].listed
            /\ Ahead(calls[c]) \subseteq Ahead(next),
         ended' = ended
  PROVE  Ended'
<1>1. PICK call : call = calls[c]
  OBVIOUS
<1>2. call # Idle => \A s \in call.listed \ Ahead(call) : Over(s)'
  BY <1>1, RevokesStays
<1>3. next # Idle => Revokes(next)'
  <2>1. next # Idle => next.phase # "unindex" /\ \A s \in next.listed \ Ahead(next) : Over(s)'
    BY <1>1, <1>2
  <2> QED BY <2>1 DEF Revokes, Ahead
<1> QED BY <1>3, EndedStep
LEMMA EndedInvariance == Typed /\ Ended /\ [Next]_vars => Ended'
<1> SUFFICES ASSUME Typed, Ended, [Next]_vars PROVE Ended'
  OBVIOUS
<1>1. CASE Quiet
  <2>1. calls' = calls /\ ended' = ended
    BY <1>1, QuietStep
  <2>2. \A s \in ended : Over(s)'
    <3>1. \A s \in ended : Begun(Now, s) /\ Over(s)
      BY DEF Ended, Typed, ListedFit
    <3> QED BY <3>1, OverStays DEF Begun
  <2>3. ASSUME NEW d \in Calls, calls'[d] # Idle PROVE Revokes(calls[d])'
    <3>1. PICK call : call = calls[d]
      OBVIOUS
    <3>2. /\ call.phase = "unindex" => Over(call.session)'
          /\ \A s \in call.listed \ Ahead(call) : Over(s)'
      BY <2>1, <2>3, <3>1, RevokesStays
    <3> QED BY <2>1, <3>1, <3>2 DEF Revokes, Ahead
  <2> QED BY <2>1, <2>2, <2>3 DEF Ended
<1>2. ASSUME NEW c \in Calls, NEW n \in ChallengeIds, Redeem(c, n) PROVE Ended'
  <2> DEFINE next == [Blank EXCEPT !.id = n, !.challenge = challenges[n]]
  <2>1. next.phase = "unset" /\ next.listed = {}
    BY DEF Blank
  <2>2. calls' = [calls EXCEPT ![c] = next] /\ ended' = ended
    BY <1>2 DEF Redeem, Begin, history
  <2> HIDE DEF next
  <2> QED BY <2>1, <2>2, EndedKept
<1>3. ASSUME NEW c \in Calls, NEW client \in Clients, NEW s \in SessionIds, NEW proof \in Proofs,
             Exchange(c, client, s, proof)
      PROVE  Ended'
  <2> DEFINE ending == [Blank EXCEPT !.phase = "revoke", !.session = s]
             using == [Blank EXCEPT !.phase = "use", !.session = s, !.copy = codes[s],
                                    !.client = client, !.proof = proof]
  <2>1. ending.phase = "revoke" /\ using.phase = "use" /\ ending.listed = {} /\ using.listed = {}
    BY DEF Blank
  <2>2. calls' = [calls EXCEPT ![c] = ending] \/ calls' = [calls EXCEPT ![c] = using]
    BY <1>3 DEF Exchange, Begin
  <2>3. ended' = ended
    BY <1>3 DEF Exchange, history
  <2> HIDE DEF ending, using
  <2> QED BY <2>1, <2>2, <2>3, EndedKept
<1>4. ASSUME NEW c \in Calls, NEW s \in SessionIds, Refresh(c, s) \/ RevokeToken(c, s) \/ RevokeOwnGrant(c, s)
      PROVE  Ended'
  <2> DEFINE refreshing == [Blank EXCEPT !.phase = "refresh", !.session = s]
             revoking == [Blank EXCEPT !.phase = "revoke", !.session = s]
             own == [Blank EXCEPT !.phase = "revoke", !.session = s, !.goal = "forget",
                                  !.owner = grants[s].owner, !.client = grants[s].client, !.listed = {s}]
  <2>1. /\ refreshing.phase = "refresh" /\ refreshing.listed = {} /\ revoking.phase = "revoke" /\ revoking.listed = {}
        /\ own.phase = "revoke" /\ own.session = s /\ own.listed = {s}
    BY DEF Blank
  <2>2. /\ ended' = ended
        /\ \/ calls' = [calls EXCEPT ![c] = refreshing]
           \/ calls' = [calls EXCEPT ![c] = revoking]
           \/ calls' = [calls EXCEPT ![c] = own]
    BY <1>4 DEF Refresh, RevokeToken, RevokeOwnGrant, Begin, history
  <2> HIDE DEF refreshing, revoking, own
  <2>3. own.listed \subseteq Ahead(own)
    BY <2>1 DEF Ahead
  <2> QED BY <2>1, <2>2, <2>3, EndedKept
<1>5. ASSUME NEW c \in Calls, NEW client \in Clients, DeleteClient(c, client) PROVE Ended'
  <2> DEFINE sessions == { s \in index : grants[s].client = client }
  <2>1. \A s \in sessions : Begun(Now, s)
    BY DEF Typed, ListedFit
  <2>2. BeginAll(c, "delete", None, client, sessions) /\ ended' = ended
    BY <1>5 DEF DeleteClient, history
  <2> HIDE DEF sessions
  <2>3. PICK next \in Call : /\ calls' = [calls EXCEPT ![c] = next] /\ next.phase \in {"revoke", "unlist", "forget", "delete"}
                             /\ next.listed = sessions /\ Ahead(next) = sessions
    BY <2>1, <2>2, BeginAllGoes
  <2> QED BY <2>2, <2>3, EndedKept
<1>6. ASSUME NEW c \in Calls, NEW owner \in Owners, NEW client \in Clients, RevokeClientGrants(c, owner, client)
      PROVE  Ended'
  <2> DEFINE sessions == GrantSessions(owner, client)
  <2>1. \A s \in sessions : Begun(Now, s)
    BY DEF GrantSessions, Live, Begun, Now
  <2>2. BeginAll(c, "forget", owner, client, sessions) /\ ended' = ended
    BY <1>6 DEF RevokeClientGrants, history
  <2> HIDE DEF sessions
  <2>3. PICK next \in Call : /\ calls' = [calls EXCEPT ![c] = next] /\ next.phase \in {"revoke", "unlist", "forget", "delete"}
                             /\ next.listed = sessions /\ Ahead(next) = sessions
    BY <2>1, <2>2, BeginAllGoes
  <2> QED BY <2>2, <2>3, EndedKept
\* A page that is completed has no list, and the call goes on with what it has.
<1>7. ASSUME NEW c \in Calls, Unset(c) \/ ContinueLogin(c) PROVE Ended'
  <2> DEFINE page == calls[c].challenge
             asked == [calls[c] EXCEPT !.phase = "login", !.id = None]
             granted == Completion(calls[c], "create", page.granted, page.remember)
             skipped == Completion(calls[c], "create", page.request.scopes, FALSE)
  <2>1. calls[c] \in Call /\ calls[c] # Idle /\ calls[c].phase \in {"unset", "login"}
    BY <1>7, CallAt DEF Unset, ContinueLogin
  <2>2. asked.phase = "login" /\ asked.listed = calls[c].listed /\ asked.todo = calls[c].todo
    BY <2>1 DEF Call
  <2>3. granted.phase = "create" /\ granted.listed = {} /\ skipped.phase = "create" /\ skipped.listed = {}
    BY DEF Completion, Blank
  <2>4. \/ calls' = [calls EXCEPT ![c] = Idle]
        \/ calls' = [calls EXCEPT ![c] = asked]
        \/ calls' = [calls EXCEPT ![c] = granted]
        \/ calls' = [calls EXCEPT ![c] = skipped]
    BY <1>7 DEF Unset, ContinueLogin, Goes, Ends
  <2>5. ended' = ended
    BY <1>7 DEF Unset, ContinueLogin, history
  <2> HIDE DEF asked, granted, skipped
  <2>6. Ahead(calls[c]) \subseteq Ahead(asked)
    BY <2>1, <2>2 DEF Ahead
  <2> QED BY <2>1, <2>2, <2>3, <2>4, <2>5, <2>6, EndedKept
<1>8. ASSUME NEW c \in Calls, CreateSession(c) \/ Index(c) \/ Recall(c) \/ Remember(c) \/ Use(c) \/ Mint(c)
      PROVE  Ended'
  <2>1. calls[c] \in Call /\ calls[c] # Idle /\ calls[c].phase \notin {"revoke", "unlist"}
    <3>1. PICK phase \in {"create", "index", "recall", "remember", "use", "mint"} : At(c, phase)
      BY <1>8 DEF CreateSession, Index, Recall, Remember, Use, Mint
    <3> QED BY <3>1, CallAt
  <2>2. ended' = ended
    BY <1>8 DEF CreateSession, Index, Recall, Remember, Use, Mint, history
  <2>3. PICK next : /\ calls' = [calls EXCEPT ![c] = next]
                    /\ \/ next = Idle
                       \/ next.phase # "unindex" /\ next.listed = calls[c].listed /\ next.todo = calls[c].todo
    <3>1. ASSUME NEW phase \in {"recall", "issue", "mint", "revoke"}
          PROVE  LET next == [calls[c] EXCEPT !.phase = phase]
                 IN  next.phase = phase /\ next.listed = calls[c].listed /\ next.todo = calls[c].todo
      BY <2>1 DEF Call
    <3>2. CASE CreateSession(c)
      <4>1. PICK n \in SessionIds : calls' = [calls EXCEPT ![c] = [calls[c] EXCEPT !.phase = "index", !.session = n]]
        BY <3>2 DEF CreateSession, Goes
      <4> DEFINE next == [calls[c] EXCEPT !.phase = "index", !.session = n]
      <4>2. next.phase = "index" /\ next.listed = calls[c].listed /\ next.todo = calls[c].todo
        BY <2>1 DEF Call
      <4> QED BY <4>1, <4>2
    <3>3. CASE Recall(c)
      <4> DEFINE next == [calls[c] EXCEPT !.phase = "remember",
                                          !.kept = remembered[<<calls[c].owner, calls[c].client>>] \cup calls[c].scopes]
      <4>1. calls' = [calls EXCEPT ![c] = next]
        BY <3>3 DEF Recall, Goes
      <4>2. next.phase = "remember" /\ next.listed = calls[c].listed /\ next.todo = calls[c].todo
        BY <2>1 DEF Call
      <4> HIDE DEF next
      <4> QED BY <4>1, <4>2
    <3>4. CASE Index(c) \/ Remember(c) \/ Use(c) \/ Mint(c)
      <4>1. \/ calls' = [calls EXCEPT ![c] = Idle]
            \/ \E phase \in {"recall", "issue", "mint", "revoke"} : calls' = [calls EXCEPT ![c] = [calls[c] EXCEPT !.phase = phase]]
        BY <3>4 DEF Index, Remember, Use, Mint, Goes, Ends
      <4> QED BY <3>1, <4>1
    <3> QED BY <1>8, <3>2, <3>3, <3>4
  <2>4. next = Idle \/ Ahead(calls[c]) \subseteq Ahead(next)
    BY <2>1, <2>3 DEF Ahead
  <2> QED BY <2>1, <2>2, <2>3, <2>4, EndedKept
<1>9. ASSUME NEW c \in Calls, IssueCode(c) \/ WriteRefreshed(c) \/ Fail(c) PROVE Ended'
  BY <1>9, EndedKept DEF IssueCode, WriteRefreshed, Fail, Ends, history
\* The session in hand is deleted.
<1>10. ASSUME NEW c \in Calls, RevokeSession(c) PROVE Ended'
  <2> DEFINE n == calls[c].session
             next == [calls[c] EXCEPT !.phase = "unindex"]
  <2>1. /\ calls[c] \in Call /\ calls[c] # Idle /\ calls[c].phase = "revoke" /\ Begun(Now, n) /\ n \in SessionIds
    BY <1>10, CallAt DEF RevokeSession, CallFits, Revoking, Begun
  <2>2. next.phase = "unindex" /\ next.session = n /\ next.listed = calls[c].listed /\ next.todo = calls[c].todo
    BY <2>1 DEF Call
  <2>3. calls' = [calls EXCEPT ![c] = next] /\ ended' = ended
    BY <1>10 DEF RevokeSession, Goes, history
  <2> HIDE DEF next
  <2>4. ~grants'[n].live
    BY <1>10, <2>1, GrantWrite DEF RevokeSession, Deleted, history
  <2>5. PICK call, s : call = calls[c] /\ s = n
    OBVIOUS
  <2>6. Over(s)'
    BY <2>4, <2>5 DEF Over, Live
  <2>7. \A t \in call.listed \ Ahead(call) : Over(t)'
    BY <2>1, <2>5, RevokesStays
  <2>8. Ahead(call) = call.todo \cup {s}
    BY <2>1, <2>5 DEF Ahead
  <2>9. PICK later : later = next
    OBVIOUS
  <2>10. later.session = s /\ later.phase = "unindex" /\ \A t \in later.listed \ later.todo : Over(t)'
    BY <2>2, <2>5, <2>6, <2>7, <2>8, <2>9
  <2>11. Revokes(later)'
    BY <2>6, <2>10 DEF Revokes, Ahead
  <2> QED BY <2>3, <2>9, <2>11, EndedStep
\* And then taken out of the index, and the call goes on with its list.
<1>11. ASSUME NEW c \in Calls, Unindex(c) PROVE Ended'
  <2>1. calls[c] \in Call /\ calls[c] # Idle /\ calls[c].phase = "unindex" /\ CallFits(Now, calls[c])
    BY <1>11, CallAt DEF Unindex
  <2>2. PICK next \in Continuations(calls[c]) : calls' = [calls EXCEPT ![c] = next]
    BY <1>11 DEF Unindex, Proceeds, Goes
  <2>3. \/ next = Idle
        \/ /\ next.phase # "unindex" /\ next.listed = calls[c].listed /\ Ahead(next) = calls[c].todo
    BY <2>1, <2>2, ListOf, Continues
  <2>4. PICK call : call = calls[c]
    OBVIOUS
  <2>5. Over(call.session)' /\ \A s \in call.listed \ call.todo : Over(s)'
    BY <2>1, <2>4, RevokesStays DEF Ahead
  <2>6. next # Idle => Revokes(next)'
    <3>1. next # Idle => next.phase # "unindex" /\ \A s \in next.listed \ Ahead(next) : Over(s)'
      BY <2>3, <2>4, <2>5
    <3> QED BY <3>1 DEF Revokes, Ahead
  <2>7. ended' = ended \cup {call.session}
    BY <1>11, <2>4 DEF Unindex
  <2> QED BY <2>2, <2>5, <2>6, <2>7, EndedStep
<1>12. ASSUME NEW c \in Calls, Unlist(c) PROVE Ended'
  <2>1. calls[c] \in Call /\ calls[c] # Idle /\ calls[c].phase = "unlist" /\ CallFits(Now, calls[c])
    BY <1>12, CallAt DEF Unlist
  <2>2. ended' = ended
    BY <1>12 DEF Unlist, history
  <2>3. CASE Live(calls[c].session)
    <3> DEFINE next == [calls[c] EXCEPT !.phase = "revoke"]
    <3>1. next.phase = "revoke" /\ next.session = calls[c].session /\ next.listed = calls[c].listed /\ next.todo = calls[c].todo
      BY <2>1 DEF Call
    <3>2. calls' = [calls EXCEPT ![c] = next]
      BY <1>12, <2>3 DEF Unlist, Goes
    <3> HIDE DEF next
    <3>3. Ahead(calls[c]) \subseteq Ahead(next)
      BY <2>1, <3>1 DEF Ahead
    <3> QED BY <2>1, <2>2, <3>1, <3>2, <3>3, EndedKept
  <2>4. CASE ~Live(calls[c].session)
    <3>1. PICK next \in Continuations(calls[c]) : calls' = [calls EXCEPT ![c] = next]
      BY <1>12, <2>4 DEF Unlist, Proceeds, Goes
    <3>2. \/ next = Idle
          \/ /\ next.phase # "unindex" /\ next.listed = calls[c].listed /\ Ahead(next) = calls[c].todo
      BY <2>1, <3>1, ListOf, Continues
    <3>3. PICK call : call = calls[c]
      OBVIOUS
    <3>4. \A s \in call.listed \ Ahead(call) : Over(s)'
      BY <2>1, <3>3, RevokesStays
    <3>5. call.session \in call.listed => Over(call.session)'
      BY <2>1, <2>4, <3>3, RevokesStays DEF Over
    <3>6. \A s \in call.listed \ call.todo : Over(s)'
      BY <3>4, <3>5 DEF Ahead
    <3>7. next # Idle => Revokes(next)'
      <4>1. next # Idle => next.phase # "unindex" /\ \A s \in next.listed \ Ahead(next) : Over(s)'
        BY <3>2, <3>3, <3>6
      <4> QED BY <4>1 DEF Revokes, Ahead
    <3> QED BY <2>2, <3>1, <3>7, EndedStep
  <2> QED BY <2>3, <2>4
\* Nothing of the list is left when a call answers.
<1>13. ASSUME NEW c \in Calls, Forget(c) \/ DropClient(c) PROVE Ended'
  <2>1. PICK call : call = calls[c]
    OBVIOUS
  <2>2. call # Idle /\ call.phase \in {"forget", "delete"} /\ call.todo = {}
    BY <1>13, <2>1, CallAt DEF Forget, DropClient, CallFits
  <2>3. \A s \in call.listed : Over(s)'
    BY <2>1, <2>2, RevokesStays DEF Ahead
  <2>4. calls' = [calls EXCEPT ![c] = Idle] /\ ended' = ended \cup call.listed
    BY <1>13, <2>1 DEF Forget, DropClient, Ends
  <2> QED BY <2>3, <2>4, EndedStep
<1> QED BY <1>1, <1>2, <1>3, <1>4, <1>5, <1>6, <1>7, <1>8, <1>9, <1>10, <1>11, <1>12, <1>13 DEF Next, Quiet
-----------------------------------------------------------------------------
Remembering == {"index", "recall", "remember"}

LEMMA WillStep ==
  ASSUME Typed, NEW c \in Calls, NEW next, calls' = [calls EXCEPT ![c] = next], NEW p, NEW d \in Calls
  PROVE  /\ d # c => (WillRemember(d, p)' <=> WillRemember(d, p)) /\ calls'[d] = calls[d]
         /\ calls'[c] = next
         /\ WillRemember(c, p)' <=> /\ next # Idle /\ next.phase \in Remembering /\ next.remember
                                    /\ <<next.owner, next.client>> = p
BY DEF Typed, TypeOK, WillRemember, Remembering

\* A step that is not about what is remembered.
LEMMA StandingCall ==
  ASSUME Typed, Standing, NEW c \in Calls, NEW next, calls' = [calls EXCEPT ![c] = next],
         \/ next = Idle
         \/ next.phase \notin Remembering
         \/ /\ calls[c] # Idle /\ calls[c].phase = "index" /\ next.phase = "recall"
            /\ next.remember = calls[c].remember /\ next.owner = calls[c].owner
            /\ next.client = calls[c].client /\ next.scopes = calls[c].scopes,
         UNCHANGED <<remembered, standing, mixed>>
  PROVE  Standing'
<1> SUFFICES ASSUME NEW p \in Pairs, p \notin mixed
             PROVE  /\ remembered[p] \subseteq standing[p]
                    /\ \A d \in Calls : WillRemember(d, p)' =>
                         /\ calls'[d].scopes \subseteq standing[p]
                         /\ calls'[d].phase = "remember" => calls'[d].kept \subseteq standing[p]
  BY DEF Standing
<1>1. /\ remembered[p] \subseteq standing[p]
      /\ \A d \in Calls : WillRemember(d, p) =>
           /\ calls[d].scopes \subseteq standing[p]
           /\ calls[d].phase = "remember" => calls[d].kept \subseteq standing[p]
  BY DEF Standing
<1>2. ASSUME NEW d \in Calls, WillRemember(d, p)'
      PROVE  /\ calls'[d].scopes \subseteq standing[p]
             /\ calls'[d].phase = "remember" => calls'[d].kept \subseteq standing[p]
  <2>1. CASE d # c
    <3>1. WillRemember(d, p) /\ calls'[d] = calls[d]
      BY <1>2, <2>1, WillStep
    <3> QED BY <1>1, <3>1
  <2>2. CASE d = c
    <3>1. /\ next # Idle /\ next.phase \in Remembering /\ next.remember /\ <<next.owner, next.client>> = p
          /\ calls'[c] = next
      BY <1>2, <2>2, WillStep
    <3>2. WillRemember(c, p) /\ next.phase = "recall" /\ next.scopes = calls[c].scopes
      BY <3>1 DEF WillRemember
    <3> QED BY <1>1, <2>2, <3>1, <3>2
  <2> QED BY <2>1, <2>2
<1> QED BY <1>1, <1>2

\* A completed request asks for more to be remembered.
LEMMA CreateSessionStanding ==
  ASSUME Typed, Standing, NEW c \in Calls, CreateSession(c)
  PROVE  Standing'
<1> DEFINE pair == <<calls[c].owner, calls[c].client>>
<1>1. /\ calls[c] \in Call /\ calls[c].phase = "create" /\ pair \in Pairs
  BY CallAt DEF CreateSession, CallFits, Completed, Pairs
<1>2. PICK n \in SessionIds : calls' = [calls EXCEPT ![c] = [calls[c] EXCEPT !.phase = "index", !.session = n]]
  BY DEF CreateSession, Goes
<1> DEFINE next == [calls[c] EXCEPT !.phase = "index", !.session = n]
<1>3. /\ next.phase = "index" /\ next.remember = calls[c].remember /\ next.owner = calls[c].owner
      /\ next.client = calls[c].client /\ next.scopes = calls[c].scopes
  BY <1>1 DEF Call
<1>4. calls' = [calls EXCEPT ![c] = next] /\ UNCHANGED <<remembered, mixed>>
  BY <1>2 DEF CreateSession
<1> HIDE DEF next
<1>5. /\ \A q \in Pairs : standing[q] \subseteq standing'[q]
      /\ calls[c].remember => calls[c].scopes \subseteq standing'[pair]
  <2>1. standing' = [standing EXCEPT ![pair] = IF calls[c].remember THEN @ \cup calls[c].scopes ELSE @]
    BY DEF CreateSession
  <2> HIDE DEF pair
  <2> QED BY <1>1, <2>1 DEF Typed, TypeOK
<1> SUFFICES ASSUME NEW p \in Pairs, p \notin mixed
             PROVE  /\ remembered[p] \subseteq standing'[p]
                    /\ \A d \in Calls : WillRemember(d, p)' =>
                         /\ calls'[d].scopes \subseteq standing'[p]
                         /\ calls'[d].phase = "remember" => calls'[d].kept \subseteq standing'[p]
  BY <1>4 DEF Standing
<1>6. /\ remembered[p] \subseteq standing[p]
      /\ \A d \in Calls : WillRemember(d, p) =>
           /\ calls[d].scopes \subseteq standing[p]
           /\ calls[d].phase = "remember" => calls[d].kept \subseteq standing[p]
  BY DEF Standing
<1>7. ASSUME NEW d \in Calls, WillRemember(d, p)'
      PROVE  /\ calls'[d].scopes \subseteq standing'[p]
             /\ calls'[d].phase = "remember" => calls'[d].kept \subseteq standing'[p]
  <2>1. CASE d # c
    <3>1. WillRemember(d, p) /\ calls'[d] = calls[d]
      BY <1>4, <1>7, <2>1, WillStep
    <3> QED BY <1>5, <1>6, <3>1
  <2>2. CASE d = c
    <3>1. next.remember /\ <<next.owner, next.client>> = p /\ calls'[c] = next
      BY <1>4, <1>7, <2>2, WillStep
    <3> QED BY <1>3, <1>5, <2>2, <3>1
  <2> QED BY <2>1, <2>2
<1> QED BY <1>5, <1>6, <1>7

LEMMA RecallStanding ==
  ASSUME Typed, Standing, NEW c \in Calls, Recall(c)
  PROVE  Standing'
<1> DEFINE pair == <<calls[c].owner, calls[c].client>>
           next == [calls[c] EXCEPT !.phase = "remember", !.kept = remembered[pair] \cup calls[c].scopes]
<1>1. calls[c] \in Call /\ calls[c] # Idle /\ calls[c].phase = "recall" /\ calls[c].remember
  BY CallAt DEF Recall, CallFits
<1>2. /\ next.phase = "remember" /\ next.scopes = calls[c].scopes /\ next.kept = remembered[pair] \cup calls[c].scopes
      /\ next.owner = calls[c].owner /\ next.client = calls[c].client
  BY <1>1 DEF Call
<1>3. calls' = [calls EXCEPT ![c] = next] /\ UNCHANGED <<remembered, standing, mixed>>
  BY DEF Recall, Goes, store, history
<1> HIDE DEF next
<1> SUFFICES ASSUME NEW p \in Pairs, p \notin mixed
             PROVE  /\ remembered[p] \subseteq standing[p]
                    /\ \A d \in Calls : WillRemember(d, p)' =>
                         /\ calls'[d].scopes \subseteq standing[p]
                         /\ calls'[d].phase = "remember" => calls'[d].kept \subseteq standing[p]
  BY <1>3 DEF Standing
<1>4. /\ remembered[p] \subseteq standing[p]
      /\ \A d \in Calls : WillRemember(d, p) =>
           /\ calls[d].scopes \subseteq standing[p]
           /\ calls[d].phase = "remember" => calls[d].kept \subseteq standing[p]
  BY DEF Standing
<1>5. ASSUME NEW d \in Calls, WillRemember(d, p)'
      PROVE  /\ calls'[d].scopes \subseteq standing[p]
             /\ calls'[d].phase = "remember" => calls'[d].kept \subseteq standing[p]
  <2>1. CASE d # c
    <3>1. WillRemember(d, p) /\ calls'[d] = calls[d]
      BY <1>3, <1>5, <2>1, WillStep
    <3> QED BY <1>4, <3>1
  <2>2. CASE d = c
    <3>1. <<next.owner, next.client>> = p /\ calls'[c] = next
      BY <1>3, <1>5, <2>2, WillStep
    <3>2. WillRemember(c, p)
      BY <1>1, <1>2, <3>1 DEF WillRemember
    <3> QED BY <1>2, <1>4, <2>2, <3>1, <3>2
  <2> QED BY <2>1, <2>2
<1> QED BY <1>4, <1>5

LEMMA RememberStanding ==
  ASSUME Typed, Standing, NEW c \in Calls, Remember(c)
  PROVE  Standing'
<1> DEFINE pair == <<calls[c].owner, calls[c].client>>
           next == [calls[c] EXCEPT !.phase = "issue"]
<1>1. /\ calls[c] \in Call /\ calls[c] # Idle /\ calls[c].phase = "remember" /\ calls[c].remember /\ pair \in Pairs
  BY CallAt DEF Remember, CallFits, Completed, Pairs
<1>2. next.phase = "issue"
  BY <1>1 DEF Call
<1>3. /\ calls' = [calls EXCEPT ![c] = next] /\ remembered' = [remembered EXCEPT ![pair] = calls[c].kept]
      /\ UNCHANGED <<standing, mixed>>
  BY DEF Remember, Goes, history
<1> HIDE DEF next
<1> SUFFICES ASSUME NEW p \in Pairs, p \notin mixed
             PROVE  /\ remembered'[p] \subseteq standing[p]
                    /\ \A d \in Calls : WillRemember(d, p)' =>
                         /\ calls'[d].scopes \subseteq standing[p]
                         /\ calls'[d].phase = "remember" => calls'[d].kept \subseteq standing[p]
  BY <1>3 DEF Standing
<1>4. /\ remembered[p] \subseteq standing[p]
      /\ \A d \in Calls : WillRemember(d, p) =>
           /\ calls[d].scopes \subseteq standing[p]
           /\ calls[d].phase = "remember" => calls[d].kept \subseteq standing[p]
  BY DEF Standing
<1>5. remembered'[p] \subseteq standing[p]
  <2>1. CASE p = pair
    <3>1. WillRemember(c, p)
      BY <1>1, <2>1 DEF WillRemember
    <3>2. remembered'[p] = calls[c].kept
      BY <1>3, <2>1 DEF Typed, TypeOK
    <3> QED BY <1>1, <1>4, <3>1, <3>2
  <2>2. CASE p # pair
    BY <1>3, <1>4, <2>2 DEF Typed, TypeOK
  <2> QED BY <2>1, <2>2
<1>6. ASSUME NEW d \in Calls, WillRemember(d, p)'
      PROVE  /\ calls'[d].scopes \subseteq standing[p]
             /\ calls'[d].phase = "remember" => calls'[d].kept \subseteq standing[p]
  <2>1. next.phase \notin Remembering
    BY <1>2 DEF Remembering
  <2>2. d # c
    BY <1>3, <1>6, <2>1, WillStep
  <2>3. WillRemember(d, p) /\ calls'[d] = calls[d]
    BY <1>3, <1>6, <2>2, WillStep
  <2> QED BY <1>4, <2>3
<1> QED BY <1>5, <1>6

\* What is forgotten is forgotten whole, unless a completion is going to write it back.
LEMMA ForgetStanding ==
  ASSUME Typed, Standing, NEW c \in Calls, Forget(c)
  PROVE  Standing'
<1> DEFINE pair == <<calls[c].owner, calls[c].client>>
<1>1. calls' = [calls EXCEPT ![c] = Idle]
  BY DEF Forget, Ends
<1>2. /\ remembered' = [remembered EXCEPT ![pair] = {}] /\ standing' = [standing EXCEPT ![pair] = {}]
      /\ mixed' = mixed \cup { p \in {pair} : \E other \in Calls : WillRemember(other, p) }
  BY DEF Forget, Forgotten
<1> HIDE DEF pair
<1> SUFFICES ASSUME NEW p \in Pairs, p \notin mixed'
             PROVE  /\ remembered'[p] \subseteq standing'[p]
                    /\ \A d \in Calls : WillRemember(d, p)' =>
                         /\ calls'[d].scopes \subseteq standing'[p]
                         /\ calls'[d].phase = "remember" => calls'[d].kept \subseteq standing'[p]
  BY DEF Standing
<1>3. \A d \in Calls : WillRemember(d, p)' => WillRemember(d, p) /\ calls'[d] = calls[d]
  BY <1>1, WillStep
<1>4. CASE p = pair
  <2>1. remembered'[p] = {} /\ \A d \in Calls : ~WillRemember(d, p)
    BY <1>2, <1>4 DEF Typed, TypeOK
  <2> QED BY <1>3, <2>1
<1>5. CASE p # pair
  <2>1. remembered'[p] = remembered[p] /\ standing'[p] = standing[p] /\ p \notin mixed
    BY <1>2, <1>5 DEF Typed, TypeOK
  <2> QED BY <1>3, <2>1 DEF Standing
<1> QED BY <1>4, <1>5

LEMMA StandingInvariance == Typed /\ Standing /\ [Next]_vars => Standing'
<1> SUFFICES ASSUME Typed, Standing, [Next]_vars PROVE Standing'
  OBVIOUS
<1>1. CASE Quiet
  <2>1. UNCHANGED <<calls, remembered, standing, mixed>>
    BY <1>1, QuietStep
  <2> QED BY <2>1 DEF Standing, WillRemember
<1>2. ASSUME NEW c \in Calls, NEW n \in ChallengeIds, Redeem(c, n) PROVE Standing'
  <2>1. [Blank EXCEPT !.id = n, !.challenge = challenges[n]].phase = "unset"
    BY DEF Blank
  <2> QED BY <1>2, <2>1, StandingCall DEF Redeem, Begin, store, history, Remembering
<1>3. ASSUME NEW c \in Calls, NEW client \in Clients, NEW s \in SessionIds, NEW proof \in Proofs,
             Exchange(c, client, s, proof)
      PROVE  Standing'
  <2>1. PICK next : /\ calls' = [calls EXCEPT ![c] = next] /\ next.phase \in {"revoke", "use"}
                    /\ UNCHANGED <<store, history>>
    BY <1>3 DEF Exchange, Begin, Blank
  <2> QED BY <2>1, StandingCall DEF store, history, Remembering
<1>4. ASSUME NEW c \in Calls, NEW s \in SessionIds, Refresh(c, s) \/ RevokeToken(c, s) \/ RevokeOwnGrant(c, s)
      PROVE  Standing'
  <2>1. PICK next : /\ calls' = [calls EXCEPT ![c] = next] /\ next.phase \in {"refresh", "revoke"}
                    /\ UNCHANGED <<store, history>>
    BY <1>4 DEF Refresh, RevokeToken, RevokeOwnGrant, Begin, Blank
  <2> QED BY <2>1, StandingCall DEF store, history, Remembering
<1>5. ASSUME NEW c \in Calls, NEW client \in Clients, DeleteClient(c, client) PROVE Standing'
  <2> DEFINE sessions == { s \in index : grants[s].client = client }
  <2>1. \A s \in sessions : Begun(Now, s)
    BY DEF Typed, ListedFit
  <2>2. BeginAll(c, "delete", None, client, sessions) /\ UNCHANGED <<store, history>>
    BY <1>5 DEF DeleteClient
  <2> HIDE DEF sessions
  <2>3. PICK next \in Call : calls' = [calls EXCEPT ![c] = next] /\ next.phase \in {"revoke", "unlist", "forget", "delete"}
    BY <2>1, <2>2, BeginAllGoes
  <2> QED BY <2>2, <2>3, StandingCall DEF store, history, Remembering
<1>6. ASSUME NEW c \in Calls, NEW owner \in Owners, NEW client \in Clients, RevokeClientGrants(c, owner, client)
      PROVE  Standing'
  <2>1. \A s \in GrantSessions(owner, client) : Begun(Now, s)
    BY DEF GrantSessions, Live, Begun, Now
  <2>2. BeginAll(c, "forget", owner, client, GrantSessions(owner, client)) /\ UNCHANGED <<store, history>>
    BY <1>6 DEF RevokeClientGrants
  <2>3. PICK next \in Call : calls' = [calls EXCEPT ![c] = next] /\ next.phase \in {"revoke", "unlist", "forget", "delete"}
    BY <2>1, <2>2, BeginAllGoes
  <2> QED BY <2>2, <2>3, StandingCall DEF store, history, Remembering
<1>7. ASSUME NEW c \in Calls, Unset(c) \/ ContinueLogin(c) PROVE Standing'
  <2> DEFINE page == calls[c].challenge
             asked == [calls[c] EXCEPT !.phase = "login", !.id = None]
             granted == Completion(calls[c], "create", page.granted, page.remember)
             skipped == Completion(calls[c], "create", page.request.scopes, FALSE)
  <2>1. calls[c] \in Call
    BY <1>7, CallAt DEF Unset, ContinueLogin
  <2>2. asked.phase = "login" /\ granted.phase = "create" /\ skipped.phase = "create"
    BY <2>1 DEF Call, Completion, Blank
  <2>3. \/ calls' = [calls EXCEPT ![c] = Idle]
        \/ calls' = [calls EXCEPT ![c] = asked]
        \/ calls' = [calls EXCEPT ![c] = granted]
        \/ calls' = [calls EXCEPT ![c] = skipped]
    BY <1>7 DEF Unset, ContinueLogin, Goes, Ends
  <2>4. UNCHANGED <<remembered, standing, mixed>>
    BY <1>7 DEF Unset, ContinueLogin, history
  <2>5. "login" \notin Remembering /\ "create" \notin Remembering
    BY DEF Remembering
  <2> HIDE DEF asked, granted, skipped
  <2> QED BY <2>2, <2>3, <2>4, <2>5, StandingCall
<1>8. ASSUME NEW c \in Calls, Index(c) PROVE Standing'
  <2> DEFINE phase == IF calls[c].remember THEN "recall" ELSE "issue"
             next == [calls[c] EXCEPT !.phase = phase]
  <2>1. calls[c] \in Call /\ calls[c] # Idle /\ calls[c].phase = "index"
    BY <1>8, CallAt DEF Index
  <2>2. phase \in {"recall", "issue"} /\ "issue" \notin Remembering
    BY DEF Remembering
  <2>3. calls' = [calls EXCEPT ![c] = next] /\ UNCHANGED <<remembered, standing, mixed>>
    BY <1>8 DEF Index, Goes, history
  <2> HIDE DEF phase
  <2>4. /\ next.phase = phase /\ next.remember = calls[c].remember /\ next.owner = calls[c].owner
        /\ next.client = calls[c].client /\ next.scopes = calls[c].scopes
    BY <2>1 DEF Call
  <2> HIDE DEF next
  <2> QED BY <2>1, <2>2, <2>3, <2>4, StandingCall
<1>9. ASSUME NEW c \in Calls, CreateSession(c) \/ Recall(c) \/ Remember(c) \/ Forget(c) PROVE Standing'
  BY <1>9, CreateSessionStanding, RecallStanding, RememberStanding, ForgetStanding
<1>10. ASSUME NEW c \in Calls, IssueCode(c) \/ WriteRefreshed(c) \/ DropClient(c) \/ Fail(c) PROVE Standing'
  <2>1. calls' = [calls EXCEPT ![c] = Idle] /\ UNCHANGED <<remembered, standing, mixed>>
    BY <1>10 DEF IssueCode, WriteRefreshed, DropClient, Fail, Ends, store, history
  <2> QED BY <2>1, StandingCall
<1>11. ASSUME NEW c \in Calls, Use(c) \/ Mint(c) \/ RevokeSession(c) PROVE Standing'
  <2>1. calls[c] \in Call
    BY <1>11, CallAt DEF Use, Mint, RevokeSession
  <2>2. ASSUME NEW phase \in {"mint", "revoke", "unindex"} PROVE [calls[c] EXCEPT !.phase = phase].phase = phase
    BY <2>1 DEF Call
  <2>3. \/ calls' = [calls EXCEPT ![c] = Idle]
        \/ \E phase \in {"mint", "revoke", "unindex"} : calls' = [calls EXCEPT ![c] = [calls[c] EXCEPT !.phase = phase]]
    BY <1>11 DEF Use, Mint, RevokeSession, Goes, Ends
  <2>4. UNCHANGED <<remembered, standing, mixed>>
    BY <1>11 DEF Use, Mint, RevokeSession, store, history
  <2>5. PICK next : calls' = [calls EXCEPT ![c] = next] /\ (next = Idle \/ next.phase \in {"mint", "revoke", "unindex"})
    BY <2>2, <2>3
  <2> QED BY <2>4, <2>5, StandingCall DEF Remembering
<1>12. ASSUME NEW c \in Calls, Unindex(c) \/ Unlist(c) PROVE Standing'
  <2>1. calls[c] \in Call /\ CallFits(Now, calls[c])
    BY <1>12, CallAt DEF Unindex, Unlist
  <2>2. UNCHANGED <<remembered, standing, mixed>>
    BY <1>12 DEF Unindex, Unlist, history
  <2>3. \A next \in Continuations(calls[c]) : next = Idle \/ next.phase \in {"revoke", "unlist", "forget", "delete"}
    BY <2>1, ListOf, Continues
  <2>4. [calls[c] EXCEPT !.phase = "revoke"].phase = "revoke"
    BY <2>1 DEF Call
  <2>5. PICK next : /\ calls' = [calls EXCEPT ![c] = next]
                    /\ next = Idle \/ next.phase \in {"revoke", "unlist", "forget", "delete"}
    BY <1>12, <2>3, <2>4 DEF Unindex, Unlist, Proceeds, Goes
  <2> QED BY <2>2, <2>5, StandingCall DEF Remembering
<1> QED BY <1>1, <1>2, <1>3, <1>4, <1>5, <1>6, <1>7, <1>8, <1>9, <1>10, <1>11, <1>12 DEF Next, Quiet
-----------------------------------------------------------------------------
LEMMA InvariantInit == Init => IInv
<1> SUFFICES ASSUME Init PROVE IInv
  OBVIOUS
<1>1. Once
  BY DEF Init, Once, ComingFits, CodeFits, Has, Unminted
<1>2. Ended
  BY DEF Init, Ended
<1>3. Standing
  BY DEF Init, Standing, WillRemember
<1> QED BY <1>1, <1>2, <1>3, TypedInit DEF IInv

THEOREM Invariance == Spec => []IInv
<1>1. IInv /\ [Next]_vars => IInv'
  BY TypedInvariance, OnceInvariance, EndedInvariance, StandingInvariance DEF IInv
<1> QED BY <1>1, InvariantInit, PTL DEF Spec

\* What the tokens of a grant are worth, with the sets that the run evaluates.
LEMMA TokensOfTheConsent == Typed => TokensAreOfTheConsent
<1> SUFFICES ASSUME Typed PROVE TokensAreOfTheConsent
  OBVIOUS
<1>1. ASSUME NEW t \in tokens
      PROVE  /\ Asked(Now, grants[t.session].owner, t.client, t.proof, t.scopes)
             /\ t.client \in SkipConsent \/ Agreed(Now, grants[t.session].owner, t.client, t.scopes)
  <2>1. t.scopes = grants[t.session].scopes /\ GrantEarned(Now, t.session, t.client, t.proof)
    BY DEF Typed, TokensFit
  <2>2. Now.grants = grants
    BY DEF Now
  <2> QED BY <2>1, <2>2 DEF GrantEarned, Earned
<1>2. TokensFollowTheRequest
  <2>1. Now.logins = logins
    BY DEF Now
  <2> QED BY <1>1, <2>1 DEF TokensFollowTheRequest, Asked
<1>3. TokensAreConsented
  <2>1. ASSUME NEW owner, NEW client, NEW scopes, Agreed(Now, owner, client, scopes)
        PROVE  scopes \subseteq Consented(owner, client)
    <3>1. ASSUME NEW x \in scopes PROVE x \in Consented(owner, client)
      <4>1. PICK a \in consents : a.owner = owner /\ a.client = client /\ x \in a.scopes
        BY <2>1 DEF Agreed, Now
      <4> QED BY <4>1 DEF Consented
    <3> QED BY <3>1
  <2> QED BY <1>1, <2>1 DEF TokensAreConsented
<1> QED BY <1>2, <1>3 DEF TokensAreOfTheConsent, Typed

\* The tokens of a code go to the client that showed the proof of the request, are of the owner
\* who signed in for it, and carry only scopes this owner granted to this client on a consent
\* page, now or when the consent was remembered (#continueLogin, #continueConsent,
\* #exchangeCode, #mintFirst).
THEOREM TokensAreConsentedTo == Spec => []TokensAreOfTheConsent
<1>1. IInv => TokensAreOfTheConsent
  BY TokensOfTheConsent DEF IInv
<1> QED BY <1>1, Invariance, PTL

\* A code gives tokens one time, unless two exchanges read it before either marked it
\* (#exchangeCode, #issueCode).
THEOREM CodesOfAGrantGiveTokensOnce == Spec => []CodeGivesTokensOnce
<1>1. IInv => CodeGivesTokensOnce
  BY DEF IInv, Typed, TypeOK, Once, CodeGivesTokensOnce
<1> QED BY <1>1, Invariance, PTL

\* A grant that a completed call revoked or listed is gone for good, and a consent that was
\* forgotten spares no page, but where a write of another call was under way
\* (#revokeSession, revokeClientGrants, revokeOwnGrant, deleteClient, #createSession).
THEOREM RevocationsStand == Spec => []RevokedStaysRevoked
<1>1. IInv => RevokedStaysRevoked
  BY DEF IInv, Ended, Over, Standing, RevokedStaysRevoked, EndedGrantsAreGone, ForgottenIsAskedAgain
<1> QED BY <1>1, Invariance, PTL
=============================================================================
