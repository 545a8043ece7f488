-------------------------- MODULE DeviceGrant_proofs --------------------------
(***************************************************************************)
(* Proofs about DeviceGrant for any number of devices, owners, pages and   *)
(* calls: a device gets tokens only for an owner who consented to it.      *)
(*                                                                         *)
(* The evidence of a consent travels from the page to the call that        *)
(* redeems its verifier, to the copy of the record of the device in that   *)
(* call, to the store, to the copies the polls read, and to the tokens.    *)
(* Copies are old as soon as another call writes, so the invariant says it *)
(* of every place a copy can be.                                           *)
(***************************************************************************)
EXTENDS DeviceGrant, TLAPS

\* What is known of the grants and the consents, before or after a step.
Known == [ grants : [SessionIds -> Grant \cup {None}], consents : SUBSET [ device : Devices, owner : Owners ] ]
Now == [ grants |-> grants, consents |-> consents ]

Consented(known, device, owner) == [device |-> device, owner |-> owner] \in known.consents

GrantConsented(known, device, session) ==
  /\ session \in SessionIds
  /\ known.grants[session] # None
  /\ Consented(known, device, known.grants[session].owner)

\* The grant a copy of the record of a device names is one its owner consented to.
Backed(known, device, record) ==
  /\ record.used => record.status = "approved"
  /\ record.status = "approved" => GrantConsented(known, device, record.session)

PageFits(known, challenge) ==
  /\ challenge.page # "device" => challenge.device # None
  /\ challenge.page = "consent" => challenge.owner # None
  /\ challenge.page = "login" /\ challenge.answer = "accepted" => challenge.owner # None
  /\ challenge.page = "consent" /\ challenge.answer = "accepted" =>
       Consented(known, challenge.device, challenge.owner)

HoldsCopy == {"create", "answer", "free", "polled", "use", "mint", "revoke"}

\* What a call is going to do next, once a verifier is redeemed.
LeadsTo(call, phase) == call.phase = phase \/ (call.phase = "unset" /\ call.next = phase)

CallFits(known, call) ==
  /\ call.phase = "unset" => call.id \in ChallengeIds /\ call.next # None
  /\ LeadsTo(call, "consent") => call.owner # None
  /\ LeadsTo(call, "approve") \/ call.phase = "create" =>
       call.owner # None /\ Consented(known, call.code, call.owner)
  /\ call.phase \in HoldsCopy => call.device \in DeviceRecord /\ Backed(known, call.code, call.device)
  /\ call.phase = "create" => ~call.device.used
  /\ call.phase \in {"answer", "free"} => call.device.status # "pending"
  /\ call.phase \in {"use", "mint", "revoke"} => call.device.status = "approved"

PagesFit == \A n \in ChallengeIds : challenges[n] # None => PageFits(Now, challenges[n])
CallsFit == \A c \in Calls : calls[c] # Idle => CallFits(Now, calls[c])
RecordsFit == \A d \in Devices : devices[d] # None => Backed(Now, d, devices[d])
TokensFit == \A t \in tokens : GrantConsented(Now, t.device, t.session)

IInv == TypeOK /\ PagesFit /\ CallsFit /\ RecordsFit /\ TokensFit
-----------------------------------------------------------------------------
\* No grant changes hands and no consent is taken back.
Keeps(known, later) ==
  /\ known.consents \subseteq later.consents
  /\ \A s \in SessionIds : known.grants[s] # None =>
       later.grants[s] # None /\ later.grants[s].owner = known.grants[s].owner

LEMMA GrantStays ==
  ASSUME NEW known, NEW later, Keeps(known, later), NEW device, NEW session,
         GrantConsented(known, device, session)
  PROVE  GrantConsented(later, device, session)
BY DEF Keeps, GrantConsented, Consented

LEMMA PageStays ==
  ASSUME NEW known, NEW later, Keeps(known, later), NEW challenge, PageFits(known, challenge)
  PROVE  PageFits(later, challenge)
BY DEF Keeps, PageFits, Consented

LEMMA CallStays ==
  ASSUME NEW known, NEW later, Keeps(known, later), NEW call, CallFits(known, call)
  PROVE  CallFits(later, call)
<1>1. Backed(known, call.code, call.device) => Backed(later, call.code, call.device)
  BY GrantStays DEF Backed
<1>2. Consented(known, call.code, call.owner) => Consented(later, call.code, call.owner)
  BY DEF Keeps, Consented
<1> QED
  BY <1>1, <1>2 DEF CallFits

\* Everything a step does not touch still fits.
LEMMA Untouched ==
  ASSUME IInv, Keeps(Now, Now')
  PROVE  /\ challenges' = challenges => PagesFit'
         /\ calls' = calls => CallsFit'
         /\ devices' = devices => RecordsFit'
         /\ tokens' = tokens => TokensFit'
<1>1. challenges' = challenges => PagesFit'
  BY PageStays DEF IInv, PagesFit
<1>2. calls' = calls => CallsFit'
  BY CallStays DEF IInv, CallsFit
<1>3. devices' = devices => RecordsFit'
  BY GrantStays DEF IInv, RecordsFit, Backed
<1>4. tokens' = tokens => TokensFit'
  BY GrantStays DEF IInv, TokensFit
<1> QED
  BY <1>1, <1>2, <1>3, <1>4

LEMMA SameKnowledge ==
  ASSUME UNCHANGED <<grants, consents>>
  PROVE  Keeps(Now, Now') /\ Now' = Now
BY DEF Keeps, Now

LEMMA PageStep ==
  ASSUME IInv, Keeps(Now, Now'), NEW n \in ChallengeIds, NEW page,
         challenges' = [challenges EXCEPT ![n] = page],
         page = None \/ (page \in Challenge /\ PageFits(Now', page))
  PROVE  challenges' \in [ChallengeIds -> Challenge \cup {None}] /\ PagesFit'
<1>1. challenges' \in [ChallengeIds -> Challenge \cup {None}]
  BY DEF IInv, TypeOK
<1>2. \A m \in ChallengeIds : challenges'[m] = IF m = n THEN page ELSE challenges[m]
  BY DEF IInv, TypeOK
<1> QED
  BY <1>1, <1>2, PageStays DEF IInv, PagesFit

LEMMA CallStep ==
  ASSUME IInv, Keeps(Now, Now'), NEW c \in Calls, NEW call,
         calls' = [calls EXCEPT ![c] = call],
         call = Idle \/ (call \in Call /\ CallFits(Now', call))
  PROVE  calls' \in [Calls -> Call \cup {Idle}] /\ CallsFit'
<1>1. calls' \in [Calls -> Call \cup {Idle}]
  BY DEF IInv, TypeOK
<1>2. \A d \in Calls : calls'[d] = IF d = c THEN call ELSE calls[d]
  BY DEF IInv, TypeOK
<1> QED
  BY <1>1, <1>2, CallStays DEF IInv, CallsFit

LEMMA RecordStep ==
  ASSUME IInv, Keeps(Now, Now'), NEW d \in Devices, NEW record,
         devices' = [devices EXCEPT ![d] = record],
         record = None \/ (record \in DeviceRecord /\ Backed(Now', d, record))
  PROVE  devices' \in [Devices -> DeviceRecord \cup {None}] /\ RecordsFit'
<1>1. devices' \in [Devices -> DeviceRecord \cup {None}]
  BY DEF IInv, TypeOK
<1>2. \A e \in Devices : devices'[e] = IF e = d THEN record ELSE devices[e]
  BY DEF IInv, TypeOK
<1>3. \A e \in Devices : devices[e] # None => Backed(Now', e, devices[e])
  BY GrantStays DEF IInv, RecordsFit, Backed
<1> QED
  BY <1>1, <1>2, <1>3 DEF RecordsFit
-----------------------------------------------------------------------------
LEMMA InitInv == Init => IInv
<1> SUFFICES ASSUME Init PROVE IInv
  OBVIOUS
<1>1. TypeOK
  BY DeviceGrantAssumption DEF Init, TypeOK
<1> QED
  BY <1>1 DEF Init, IInv, PagesFit, CallsFit, RecordsFit, TokensFit
-----------------------------------------------------------------------------
\* The device asks, and its request and record run out.
LEMMA DeviceAuthorizationStep ==
  ASSUME IInv, NEW d \in Devices, NEW u \in UserCodes, DeviceAuthorization(d, u)
  PROVE  IInv'
<1> DEFINE record == [status |-> "pending", userCode |-> u, session |-> None, used |-> FALSE]
<1>1. Keeps(Now, Now')
  BY SameKnowledge DEF DeviceAuthorization, history
<1>2. record \in DeviceRecord /\ Backed(Now', d, record)
  BY DEF DeviceRecord, Backed
<1>3. devices' = [devices EXCEPT ![d] = record]
  BY DEF DeviceAuthorization
<1> HIDE DEF record
<1>4. devices' \in [Devices -> DeviceRecord \cup {None}] /\ RecordsFit'
  BY <1>1, <1>2, <1>3, RecordStep
<1>5. PagesFit' /\ CallsFit' /\ TokensFit'
  BY <1>1, Untouched DEF DeviceAuthorization, history
<1>6. TypeOK'
  BY <1>4 DEF IInv, TypeOK, DeviceAuthorization, history
<1> QED
  BY <1>4, <1>5, <1>6 DEF IInv

LEMMA ExpireStep ==
  ASSUME IInv, NEW d \in Devices, Expire(d)
  PROVE  IInv'
<1>1. Keeps(Now, Now')
  BY SameKnowledge DEF Expire, history
<1>2. PagesFit' /\ CallsFit' /\ RecordsFit' /\ TokensFit'
  BY <1>1, Untouched DEF Expire, history
<1>3. TypeOK'
  BY DEF IInv, TypeOK, Expire, history
<1> QED
  BY <1>2, <1>3 DEF IInv

LEMMA ForgetStep ==
  ASSUME IInv, NEW d \in Devices, Forget(d)
  PROVE  IInv'
<1>1. Keeps(Now, Now')
  BY SameKnowledge DEF Forget, history
<1>2. devices' \in [Devices -> DeviceRecord \cup {None}] /\ RecordsFit'
  BY <1>1, RecordStep DEF Forget
<1>3. PagesFit' /\ CallsFit' /\ TokensFit'
  BY <1>1, Untouched DEF Forget, history
<1>4. TypeOK'
  BY <1>2 DEF IInv, TypeOK, Forget, history
<1> QED
  BY <1>2, <1>3, <1>4 DEF IInv
-----------------------------------------------------------------------------
\* A page changes, and nothing else.
LEMMA PageOnly ==
  ASSUME IInv, NEW n \in ChallengeIds, NEW page,
         challenges' = [challenges EXCEPT ![n] = page],
         page = None \/ (page \in Challenge /\ PageFits(Now, page)),
         UNCHANGED <<devices, userCodes, expired, grants, calls, history>>
  PROVE  IInv'
<1>1. Keeps(Now, Now') /\ Now' = Now
  BY SameKnowledge DEF history
<1>2. challenges' \in [ChallengeIds -> Challenge \cup {None}] /\ PagesFit'
  BY <1>1, PageStep
<1>3. CallsFit' /\ RecordsFit' /\ TokensFit'
  BY <1>1, Untouched DEF history
<1>4. TypeOK'
  BY <1>2 DEF IInv, TypeOK, history
<1> QED
  BY <1>2, <1>3, <1>4 DEF IInv

LEMMA NewPage ==
  ASSUME NEW page \in {"device", "login", "consent"}, NEW device \in Devices \cup {None},
         NEW owner \in Owners \cup {None},
         page # "device" => device # None, page = "consent" => owner # None
  PROVE  Page(page, device, owner) \in Challenge /\ PageFits(Now, Page(page, device, owner))
BY DeviceGrantAssumption DEF Page, Challenge, PageFits

LEMMA StartStep ==
  ASSUME IInv, StartDeviceVerification
  PROVE  IInv'
<1>1. PICK n \in ChallengeIds : challenges' = [challenges EXCEPT ![n] = Page("device", None, None)]
  BY DEF StartDeviceVerification, Draw
<1>2. Page("device", None, None) \in Challenge /\ PageFits(Now, Page("device", None, None))
  BY NewPage
<1> QED
  BY <1>1, <1>2, PageOnly DEF StartDeviceVerification

LEMMA PageOf ==
  ASSUME IInv, NEW n \in ChallengeIds, challenges[n] # None
  PROVE  challenges[n] \in Challenge /\ PageFits(Now, challenges[n])
BY DEF IInv, TypeOK, PagesFit

LEMMA TypeStep ==
  ASSUME IInv, NEW n \in ChallengeIds, NEW u \in UserCodes, TypeUserCode(n, u)
  PROVE  IInv'
<1> DEFINE page == [challenges[n] EXCEPT !.device = userCodes[u]]
<1>1. challenges[n] \in Challenge /\ challenges[n].page = "device" /\ userCodes[u] \in Devices
  BY PageOf DEF TypeUserCode, AtPage, Names
<1>2. page \in Challenge /\ PageFits(Now, page)
  BY <1>1 DEF Challenge, PageFits
<1>3. challenges' = [challenges EXCEPT ![n] = page]
  BY DEF TypeUserCode
<1> QED
  BY <1>2, <1>3, PageOnly DEF TypeUserCode

LEMMA MistypeStep ==
  ASSUME IInv, NEW n \in ChallengeIds, NEW u \in UserCodes, MistypeUserCode(n, u)
  PROVE  IInv'
<1> DEFINE page == TryAgain(challenges[n])
<1>1. challenges[n] \in Challenge /\ PageFits(Now, challenges[n])
  BY PageOf DEF MistypeUserCode, AtPage
<1>2. page = None \/ (page \in Challenge /\ PageFits(Now, page))
  BY <1>1, DeviceGrantAssumption DEF TryAgain, Challenge, PageFits
<1>3. challenges' = [challenges EXCEPT ![n] = page]
  BY DEF MistypeUserCode
<1> QED
  BY <1>2, <1>3, PageOnly DEF MistypeUserCode

LEMMA AbandonStep ==
  ASSUME IInv, NEW n \in ChallengeIds, Abandon(n)
  PROVE  IInv'
BY PageOnly DEF Abandon

LEMMA AcceptLoginStep ==
  ASSUME IInv, NEW n \in ChallengeIds, NEW owner \in Owners, AcceptLogin(n, owner)
  PROVE  IInv'
<1> DEFINE page == [challenges[n] EXCEPT !.answer = "accepted", !.owner = owner]
<1>1. challenges[n] \in Challenge /\ PageFits(Now, challenges[n]) /\ challenges[n].page = "login"
  BY PageOf DEF AcceptLogin, AtPage
<1>2. page \in Challenge /\ PageFits(Now, page)
  BY <1>1, DeviceGrantAssumption DEF Challenge, PageFits
<1>3. challenges' = [challenges EXCEPT ![n] = page]
  BY DEF AcceptLogin
<1> QED
  BY <1>2, <1>3, PageOnly DEF AcceptLogin

LEMMA RejectStep ==
  ASSUME IInv, NEW n \in ChallengeIds, Reject(n)
  PROVE  IInv'
<1> DEFINE page == [challenges[n] EXCEPT !.answer = "rejected"]
<1>1. challenges[n] \in Challenge /\ PageFits(Now, challenges[n])
  BY PageOf DEF Reject, AtPage
<1>2. page \in Challenge /\ PageFits(Now, page)
  BY <1>1 DEF Challenge, PageFits
<1>3. challenges' = [challenges EXCEPT ![n] = page]
  BY DEF Reject
<1> QED
  BY <1>2, <1>3, PageOnly DEF Reject

\* The one step that adds evidence: the owner says yes on the consent page.
LEMMA AcceptConsentStep ==
  ASSUME IInv, NEW n \in ChallengeIds, AcceptConsent(n)
  PROVE  IInv'
<1> DEFINE page == [challenges[n] EXCEPT !.answer = "accepted"]
           consent == [device |-> challenges[n].device, owner |-> challenges[n].owner]
<1>1. challenges[n] \in Challenge /\ PageFits(Now, challenges[n]) /\ challenges[n].page = "consent"
  BY PageOf DEF AcceptConsent, AtPage
<1>2. consent \in [ device : Devices, owner : Owners ] /\ consents' = consents \cup {consent}
  BY <1>1 DEF AcceptConsent, Challenge, PageFits
<1>3. Keeps(Now, Now')
  BY <1>2 DEF Keeps, Now, AcceptConsent
<1>4. page \in Challenge /\ PageFits(Now', page)
  BY <1>1, <1>2 DEF Challenge, PageFits, Consented, Now
<1>5. challenges' = [challenges EXCEPT ![n] = page]
  BY DEF AcceptConsent
<1>6. challenges' \in [ChallengeIds -> Challenge \cup {None}] /\ PagesFit'
  BY <1>3, <1>4, <1>5, PageStep
<1>7. CallsFit' /\ RecordsFit' /\ TokensFit'
  BY <1>3, Untouched DEF AcceptConsent
<1>8. TypeOK'
  BY <1>2, <1>6 DEF IInv, TypeOK, AcceptConsent
<1> QED
  BY <1>6, <1>7, <1>8 DEF IInv
-----------------------------------------------------------------------------
\* A call goes on, and nothing else changes.
LEMMA CallOnly ==
  ASSUME IInv, NEW c \in Calls, NEW call,
         calls' = [calls EXCEPT ![c] = call],
         call = Idle \/ (call \in Call /\ CallFits(Now, call)),
         UNCHANGED <<kv, expired, grants, history>>
  PROVE  IInv'
<1>1. Keeps(Now, Now') /\ Now' = Now
  BY SameKnowledge DEF history
<1>2. calls' \in [Calls -> Call \cup {Idle}] /\ CallsFit'
  BY <1>1, CallStep
<1>3. PagesFit' /\ RecordsFit' /\ TokensFit'
  BY <1>1, Untouched DEF kv, history
<1>4. TypeOK'
  BY <1>2 DEF IInv, TypeOK, kv, history
<1> QED
  BY <1>2, <1>3, <1>4 DEF IInv

LEMMA CallAt ==
  ASSUME IInv, NEW c \in Calls, NEW phase, At(c, phase)
  PROVE  calls[c] \in Call /\ CallFits(Now, calls[c]) /\ calls[c].phase = phase
BY DEF IInv, TypeOK, CallsFit, At

LEMMA RecordOf ==
  ASSUME IInv, NEW d \in Devices, devices[d] # None
  PROVE  devices[d] \in DeviceRecord /\ Backed(Now, d, devices[d])
BY DEF IInv, TypeOK, RecordsFit

LEMMA FailStep ==
  ASSUME IInv, NEW c \in Calls, Fail(c)
  PROVE  IInv'
BY CallOnly DEF Fail, Begin

\* The verifier of an accepted consent page takes its evidence along.
LEMMA RedeemStep ==
  ASSUME IInv, NEW c \in Calls, NEW n \in ChallengeIds, Redeem(c, n)
  PROVE  IInv'
<1> DEFINE page == challenges[n]
           call == [phase |-> "unset", id |-> n, next |-> Continuation(page), owner |-> page.owner,
                    code |-> page.device, device |-> None]
<1>1. page \in Challenge /\ PageFits(Now, page)
  BY PageOf DEF Redeem
<1>2. IF page.page = "device" THEN page.device # None ELSE page.answer \in {"accepted", "rejected"}
  BY <1>1 DEF Redeem, Unanswered, Challenge
<1>3. page.device \in Devices
  BY <1>1, <1>2 DEF PageFits, Challenge
<1>4. Continuation(page) \in {"login", "consent", "approve", "deny"}
  BY <1>1, <1>2 DEF Continuation, Challenge
<1>5. /\ Continuation(page) = "consent" => page.page = "login" /\ page.answer = "accepted"
      /\ Continuation(page) = "approve" => page.page = "consent" /\ page.answer = "accepted"
  BY <1>1, <1>2 DEF Continuation, Challenge
<1>6. Continuation(page) # None
  BY <1>4, DeviceGrantAssumption
<1>7. calls' = [calls EXCEPT ![c] = call]
  BY DEF Redeem, Begin
<1> HIDE DEF page
<1>8. call \in Call
  BY <1>1, <1>3, <1>4 DEF Call, Challenge
<1>9. CallFits(Now, call)
  BY <1>1, <1>5, <1>6 DEF CallFits, LeadsTo, PageFits, HoldsCopy
<1> QED
  BY <1>7, <1>8, <1>9, CallOnly DEF Redeem

LEMMA UnsetStep ==
  ASSUME IInv, NEW c \in Calls, Unset(c)
  PROVE  IInv'
<1> DEFINE call == [calls[c] EXCEPT !.phase = calls[c].next, !.next = None, !.id = None]
<1>1. calls[c] \in Call /\ CallFits(Now, calls[c]) /\ calls[c].phase = "unset"
  BY CallAt DEF Unset
<1>2. calls[c].next \in {"login", "consent", "approve", "deny"} /\ calls[c].id \in ChallengeIds
  BY <1>1 DEF CallFits, Call
<1>3. call \in Call
  BY <1>1, <1>2 DEF Call
<1>4. CallFits(Now, call)
  BY <1>1, <1>2 DEF CallFits, LeadsTo, HoldsCopy, Call
<1>5. calls' = [calls EXCEPT ![c] = call]
  BY DEF Unset
<1>6. Keeps(Now, Now') /\ Now' = Now
  BY SameKnowledge DEF Unset, history
<1> HIDE DEF call
<1>7. calls' \in [Calls -> Call \cup {Idle}] /\ CallsFit'
  BY <1>3, <1>4, <1>5, <1>6, CallStep
<1>8. challenges' \in [ChallengeIds -> Challenge \cup {None}] /\ PagesFit'
  BY <1>2, <1>6, PageStep DEF Unset
<1>9. RecordsFit' /\ TokensFit'
  BY <1>6, Untouched DEF Unset, history
<1>10. TypeOK'
  BY <1>7, <1>8 DEF IInv, TypeOK, Unset, history
<1> QED
  BY <1>7, <1>8, <1>9, <1>10 DEF IInv

\* A visit that ends on a new page.
LEMMA SendOn ==
  ASSUME IInv, NEW c \in Calls, NEW page, page \in Challenge, PageFits(Now, page),
         Draw(page), Begin(c, Idle),
         UNCHANGED <<devices, userCodes, expired, grants, history>>
  PROVE  IInv'
<1>1. PICK n \in ChallengeIds : challenges' = [challenges EXCEPT ![n] = page]
  BY DEF Draw
<1>2. Keeps(Now, Now') /\ Now' = Now
  BY SameKnowledge DEF history
<1>3. challenges' \in [ChallengeIds -> Challenge \cup {None}] /\ PagesFit'
  BY <1>1, <1>2, PageStep
<1>4. calls' \in [Calls -> Call \cup {Idle}] /\ CallsFit'
  BY <1>2, CallStep DEF Begin
<1>5. RecordsFit' /\ TokensFit'
  BY <1>2, Untouched DEF history
<1>6. TypeOK'
  BY <1>3, <1>4 DEF IInv, TypeOK, history
<1> QED
  BY <1>3, <1>4, <1>5, <1>6 DEF IInv

LEMMA SendToLoginStep ==
  ASSUME IInv, NEW c \in Calls, SendToLogin(c)
  PROVE  IInv'
<1> DEFINE page == Page("login", calls[c].code, None)
<1>1. calls[c].code \in Devices
  BY CallAt DEF SendToLogin, Call
<1>2. page \in Challenge /\ PageFits(Now, page)
  BY <1>1, NewPage, DeviceGrantAssumption
<1> HIDE DEF page
<1>3. Draw(page) /\ Begin(c, Idle) /\ UNCHANGED <<devices, userCodes, expired, grants, history>>
  BY DEF SendToLogin, page
<1> QED
  BY <1>2, <1>3, SendOn

LEMMA SendToConsentStep ==
  ASSUME IInv, NEW c \in Calls, SendToConsent(c)
  PROVE  IInv'
<1> DEFINE page == Page("consent", calls[c].code, calls[c].owner)
<1>1. calls[c].code \in Devices /\ calls[c].owner \in Owners /\ calls[c].owner # None
  BY CallAt, DeviceGrantAssumption DEF SendToConsent, Call, CallFits, LeadsTo
<1>2. page \in Challenge /\ PageFits(Now, page)
  BY <1>1, NewPage, DeviceGrantAssumption
<1> HIDE DEF page
<1>3. Draw(page) /\ Begin(c, Idle) /\ UNCHANGED <<devices, userCodes, expired, grants, history>>
  BY DEF SendToConsent, page
<1> QED
  BY <1>2, <1>3, SendOn
-----------------------------------------------------------------------------
LEMMA ApproveStep ==
  ASSUME IInv, NEW c \in Calls, Approve(c)
  PROVE  IInv'
<1> DEFINE d == calls[c].code
           call == [calls[c] EXCEPT !.phase = IF MayApprove(d) THEN "create" ELSE "deny",
                                    !.device = IF MayApprove(d) THEN devices[d] ELSE None]
<1>1. calls[c] \in Call /\ CallFits(Now, calls[c]) /\ calls[c].phase = "approve" /\ d \in Devices
  BY CallAt DEF Approve, Call
<1>2. MayApprove(d) => devices[d] \in DeviceRecord /\ Backed(Now, d, devices[d]) /\ ~devices[d].used
  BY <1>1, RecordOf DEF MayApprove, IsOpen, IsPending, Backed
<1>3. calls' = [calls EXCEPT ![c] = call]
  BY DEF Approve
<1>4. call \in Call
  BY <1>1, <1>2 DEF Call
<1>5. CallFits(Now, call)
  <2>1. CASE MayApprove(d)
    BY <1>1, <1>2, <2>1 DEF CallFits, LeadsTo, HoldsCopy, Call
  <2>2. CASE ~MayApprove(d)
    BY <1>1, <2>2 DEF CallFits, LeadsTo, HoldsCopy, Call
  <2> QED
    BY <2>1, <2>2
<1> HIDE DEF call
<1> QED
  BY <1>3, <1>4, <1>5, CallOnly DEF Approve

LEMMA DenyStep ==
  ASSUME IInv, NEW c \in Calls, Deny(c)
  PROVE  IInv'
<1> DEFINE d == calls[c].code
           call == [calls[c] EXCEPT !.phase = "answer", !.device = [devices[d] EXCEPT !.status = "denied"]]
<1>1. calls[c] \in Call /\ d \in Devices
  BY CallAt DEF Deny, Call
<1>2. CASE IsPending(d)
  <2>1. devices[d] \in DeviceRecord /\ ~devices[d].used
    BY <1>1, <1>2, RecordOf DEF IsPending, Backed
  <2>2. [devices[d] EXCEPT !.status = "denied"] \in DeviceRecord
    BY <2>1 DEF DeviceRecord
  <2>3. call \in Call
    BY <1>1, <2>2 DEF Call
  <2>4. CallFits(Now, call)
    BY <1>1, <2>1, <2>2 DEF CallFits, LeadsTo, HoldsCopy, Call, Backed, DeviceRecord
  <2>5. calls' = [calls EXCEPT ![c] = call]
    BY <1>2 DEF Deny
  <2> HIDE DEF call
  <2> QED
    BY <2>3, <2>4, <2>5, CallOnly DEF Deny
<1>3. CASE ~IsPending(d)
  BY <1>3, CallOnly DEF Deny, Begin
<1> QED
  BY <1>2, <1>3

\* None is not the session of a grant.
LEMMA GrantIsNotNone == \A grant \in Grant : grant # None
BY DeviceGrantAssumption

\* The grant is a new one, for the owner whose consent the call carries.
LEMMA CreateSessionStep ==
  ASSUME IInv, NEW c \in Calls, CreateSession(c)
  PROVE  IInv'
<1>1. PICK s \in SessionIds :
        /\ grants[s] = None
        /\ grants' = [grants EXCEPT ![s] = [device |-> calls[c].code, owner |-> calls[c].owner, live |-> TRUE]]
        /\ calls' = [calls EXCEPT ![c] = [calls[c] EXCEPT !.phase = "answer", !.owner = None,
                      !.device = [calls[c].device EXCEPT !.status = "approved", !.session = s]]]
  <2>1. \A n \in SessionIds : n >= n
    BY DeviceGrantAssumption DEF SessionIds
  <2> QED
    BY <2>1 DEF CreateSession
<1> DEFINE grant == [device |-> calls[c].code, owner |-> calls[c].owner, live |-> TRUE]
           copy == [calls[c].device EXCEPT !.status = "approved", !.session = s]
           call == [calls[c] EXCEPT !.phase = "answer", !.owner = None, !.device = copy]
<1>2. /\ calls[c] \in Call /\ CallFits(Now, calls[c]) /\ calls[c].phase = "create"
      /\ calls[c].code \in Devices /\ calls[c].device \in DeviceRecord
      /\ calls[c].owner \in Owners /\ Consented(Now, calls[c].code, calls[c].owner)
  BY CallAt DEF CreateSession, Call, CallFits, HoldsCopy, LeadsTo
<1>3. grant \in Grant /\ grant # None
  <2>1. grant \in Grant
    BY <1>2 DEF Grant
  <2> QED
    BY <2>1, GrantIsNotNone
<1>4. /\ grants' \in [SessionIds -> Grant \cup {None}]
      /\ grants'[s] = grant
      /\ \A t \in SessionIds \ {s} : grants'[t] = grants[t]
  BY <1>1, <1>3 DEF IInv, TypeOK
<1>5. UNCHANGED <<kv, expired, history>>
  BY DEF CreateSession
<1>6. Keeps(Now, Now')
  BY <1>1, <1>4, <1>5 DEF Keeps, Now, history
<1>7. copy \in DeviceRecord /\ copy.status = "approved" /\ copy.session = s
  BY <1>2 DEF DeviceRecord
<1>8. Backed(Now', calls[c].code, copy)
  BY <1>2, <1>3, <1>4, <1>5, <1>7 DEF Backed, GrantConsented, Consented, Now, history
<1>9. call \in Call
  BY <1>2, <1>7 DEF Call
<1>10. CallFits(Now', call)
  BY <1>2, <1>7, <1>8 DEF CallFits, LeadsTo, HoldsCopy, Call
<1>11. calls' = [calls EXCEPT ![c] = call]
  BY <1>1, <1>2 DEF Call, DeviceRecord
<1> HIDE DEF call
<1>12. calls' \in [Calls -> Call \cup {Idle}] /\ CallsFit'
  BY <1>6, <1>9, <1>10, <1>11, CallStep
<1>13. PagesFit' /\ RecordsFit' /\ TokensFit'
  BY <1>5, <1>6, Untouched DEF kv, history
<1>14. TypeOK'
  BY <1>4, <1>5, <1>12 DEF IInv, TypeOK, kv, history
<1> QED
  BY <1>12, <1>13, <1>14 DEF IInv
-----------------------------------------------------------------------------
\* A copy that is backed reaches the store, and its call goes on.
LEMMA WriteStep ==
  ASSUME IInv, NEW c \in Calls, NEW copy, NEW call,
         calls[c] \in Call, copy \in DeviceRecord, Backed(Now, calls[c].code, copy),
         call = Idle \/ (call \in Call /\ CallFits(Now, call)),
         WriteDevice(c, copy), calls' = [calls EXCEPT ![c] = call],
         UNCHANGED <<userCodes, challenges, expired, grants, consents, tokens, repeated, answered>>
  PROVE  IInv'
<1>1. Keeps(Now, Now') /\ Now' = Now
  BY SameKnowledge
<1>2. calls[c].code \in Devices
  BY DEF Call
<1>3. devices' \in [Devices -> DeviceRecord \cup {None}] /\ RecordsFit'
  BY <1>1, <1>2, RecordStep DEF WriteDevice
<1>4. calls' \in [Calls -> Call \cup {Idle}] /\ CallsFit'
  BY <1>1, CallStep
<1>5. PagesFit' /\ TokensFit'
  BY <1>1, Untouched
<1>6. raced' \subseteq Devices
  BY <1>2 DEF WriteDevice, IInv, TypeOK
<1>7. TypeOK'
  BY <1>3, <1>4, <1>6 DEF IInv, TypeOK
<1> QED
  BY <1>3, <1>4, <1>5, <1>7 DEF IInv

LEMMA WriteAnswerStep ==
  ASSUME IInv, NEW c \in Calls, WriteAnswer(c)
  PROVE  IInv'
<1> DEFINE call == [calls[c] EXCEPT !.phase = "free"]
<1>1. calls[c] \in Call /\ CallFits(Now, calls[c]) /\ calls[c].phase = "answer"
  BY CallAt DEF WriteAnswer
<1>2. calls[c].device \in DeviceRecord /\ Backed(Now, calls[c].code, calls[c].device)
  BY <1>1 DEF CallFits, HoldsCopy
<1>3. call \in Call /\ CallFits(Now, call)
  BY <1>1 DEF Call, CallFits, LeadsTo, HoldsCopy
<1>4. calls' = [calls EXCEPT ![c] = call]
  BY DEF WriteAnswer, Goes
<1> HIDE DEF call
<1> QED
  BY <1>1, <1>2, <1>3, <1>4, WriteStep DEF WriteAnswer

LEMMA WritePollStep ==
  ASSUME IInv, NEW c \in Calls, WritePoll(c)
  PROVE  IInv'
<1>1. calls[c] \in Call /\ CallFits(Now, calls[c]) /\ calls[c].phase = "polled"
  BY CallAt DEF WritePoll
<1>2. calls[c].device \in DeviceRecord /\ Backed(Now, calls[c].code, calls[c].device)
  BY <1>1 DEF CallFits, HoldsCopy
<1> QED
  BY <1>1, <1>2, WriteStep DEF WritePoll, Begin

LEMMA WriteUseStep ==
  ASSUME IInv, NEW c \in Calls, WriteUse(c)
  PROVE  IInv'
<1> DEFINE call == [calls[c] EXCEPT !.phase = "mint"]
           copy == Marked(calls[c].device)
<1>1. calls[c] \in Call /\ CallFits(Now, calls[c]) /\ calls[c].phase = "use"
  BY CallAt DEF WriteUse
<1>2. copy \in DeviceRecord /\ Backed(Now, calls[c].code, copy)
  BY <1>1 DEF CallFits, HoldsCopy, Marked, DeviceRecord, Backed
<1>3. call \in Call /\ CallFits(Now, call)
  BY <1>1 DEF Call, CallFits, LeadsTo, HoldsCopy
<1>4. calls' = [calls EXCEPT ![c] = call] /\ WriteDevice(c, copy)
  BY DEF WriteUse, Goes
<1> HIDE DEF call, copy
<1> QED
  BY <1>1, <1>2, <1>3, <1>4, WriteStep DEF WriteUse

LEMMA FreeUserCodeStep ==
  ASSUME IInv, NEW c \in Calls, FreeUserCode(c)
  PROVE  IInv'
<1>1. Keeps(Now, Now') /\ Now' = Now
  BY SameKnowledge DEF FreeUserCode
<1>2. calls[c] \in Call /\ CallFits(Now, calls[c]) /\ calls[c].phase = "free"
  BY CallAt DEF FreeUserCode
<1>3. calls[c].device.status \in {"approved", "denied"}
  BY <1>2 DEF CallFits, HoldsCopy, DeviceRecord
<1>4. calls' \in [Calls -> Call \cup {Idle}] /\ CallsFit'
  BY <1>1, CallStep DEF FreeUserCode, Begin
<1>5. PagesFit' /\ RecordsFit' /\ TokensFit'
  BY <1>1, Untouched DEF FreeUserCode
<1>6. TypeOK'
  BY <1>3, <1>4 DEF IInv, TypeOK, FreeUserCode
<1> QED
  BY <1>4, <1>5, <1>6 DEF IInv
-----------------------------------------------------------------------------
LEMMA PollStep ==
  ASSUME IInv, NEW c \in Calls, NEW d \in Devices, Poll(c, d)
  PROVE  IInv'
<1> DEFINE call == [phase |-> PollPhase(d), id |-> None, next |-> None, owner |-> None,
                    code |-> d, device |-> devices[d]]
<1>1. devices[d] \in DeviceRecord /\ Backed(Now, d, devices[d])
  BY RecordOf DEF Poll
<1>2. PollPhase(d) \in {"revoke", "polled", "use"}
  BY <1>1 DEF PollPhase
<1>3. PollPhase(d) \in {"revoke", "use"} => devices[d].status = "approved"
  BY <1>1 DEF PollPhase, Poll, DeviceRecord, Backed
<1>4. call \in Call
  BY <1>1, <1>2 DEF Call
<1>5. CallFits(Now, call)
  BY <1>1, <1>2, <1>3 DEF CallFits, LeadsTo, HoldsCopy
<1>6. calls' = [calls EXCEPT ![c] = call]
  BY DEF Poll, Begin
<1> HIDE DEF call
<1> QED
  BY <1>4, <1>5, <1>6, CallOnly DEF Poll

LEMMA MintStep ==
  ASSUME IInv, NEW c \in Calls, Mint(c)
  PROVE  IInv'
<1> DEFINE s == calls[c].device.session
           token == [device |-> calls[c].code, session |-> s]
<1>1. Keeps(Now, Now') /\ Now' = Now
  BY SameKnowledge DEF Mint
<1>2. calls[c] \in Call /\ CallFits(Now, calls[c]) /\ calls[c].phase = "mint" /\ calls[c].code \in Devices
  BY CallAt DEF Mint, Call
<1>3. GrantConsented(Now, calls[c].code, s) /\ s \in SessionIds
  BY <1>2 DEF CallFits, HoldsCopy, Backed, GrantConsented
<1>4. tokens' \subseteq tokens \cup {token} /\ repeated' \subseteq repeated \cup {calls[c].code}
  BY DEF Mint
<1>5. TokensFit'
  BY <1>1, <1>3, <1>4 DEF IInv, TokensFit
<1>6. calls' \in [Calls -> Call \cup {Idle}] /\ CallsFit'
  BY <1>1, CallStep DEF Mint, Begin
<1>7. PagesFit' /\ RecordsFit'
  BY <1>1, Untouched DEF Mint, kv
<1>8. TypeOK'
  BY <1>2, <1>3, <1>4, <1>6 DEF IInv, TypeOK, Mint, kv
<1> QED
  BY <1>5, <1>6, <1>7, <1>8 DEF IInv

LEMMA RevokeStep ==
  ASSUME IInv, NEW c \in Calls, Revoke(c)
  PROVE  IInv'
<1> DEFINE s == calls[c].device.session
           grant == [grants[s] EXCEPT !.live = FALSE]
<1>1. calls[c] \in Call /\ CallFits(Now, calls[c]) /\ calls[c].phase = "revoke"
  BY CallAt DEF Revoke
<1>2. s \in SessionIds /\ grants[s] # None
  BY <1>1 DEF CallFits, HoldsCopy, Backed, GrantConsented, Now
<1>3. grants[s] \in Grant
  BY <1>2 DEF IInv, TypeOK
<1>4. grant \in Grant /\ grant.owner = grants[s].owner /\ grant # None
  <2>1. grant \in Grant /\ grant.owner = grants[s].owner
    BY <1>3 DEF Grant
  <2> QED
    BY <2>1, GrantIsNotNone
<1>5. grants' = [grants EXCEPT ![s] = grant]
  BY DEF Revoke
<1> HIDE DEF grant
<1>6. /\ grants' \in [SessionIds -> Grant \cup {None}]
      /\ \A t \in SessionIds : grants'[t] = IF t = s THEN grant ELSE grants[t]
  BY <1>2, <1>4, <1>5 DEF IInv, TypeOK
<1>7. Keeps(Now, Now')
  BY <1>4, <1>6 DEF Keeps, Now, Revoke, history
<1>8. calls' \in [Calls -> Call \cup {Idle}] /\ CallsFit'
  BY <1>7, CallStep DEF Revoke, Begin
<1>9. PagesFit' /\ RecordsFit' /\ TokensFit'
  BY <1>7, Untouched DEF Revoke, kv, history
<1>10. TypeOK'
  BY <1>6, <1>8 DEF IInv, TypeOK, Revoke, kv, history
<1> QED
  BY <1>8, <1>9, <1>10 DEF IInv
-----------------------------------------------------------------------------
LEMMA NextInv == IInv /\ [Next]_vars => IInv'
<1> SUFFICES ASSUME IInv, [Next]_vars PROVE IInv'
  OBVIOUS
<1>1. ASSUME UNCHANGED vars PROVE IInv'
  <2>1. Keeps(Now, Now')
    BY <1>1, SameKnowledge DEF vars, history
  <2>2. PagesFit' /\ CallsFit' /\ RecordsFit' /\ TokensFit'
    BY <1>1, <2>1, Untouched DEF vars, kv, history
  <2>3. TypeOK'
    BY <1>1 DEF vars, kv, history, IInv, TypeOK
  <2> QED
    BY <2>2, <2>3 DEF IInv
<1>2. ASSUME NEW d \in Devices, NEW u \in UserCodes, DeviceAuthorization(d, u) PROVE IInv'
  BY <1>2, DeviceAuthorizationStep
<1>3. ASSUME NEW d \in Devices, Expire(d) \/ Forget(d) \/ PollInVain(d) PROVE IInv'
  BY <1>1, <1>3, ExpireStep, ForgetStep DEF PollInVain
<1>4. ASSUME StartDeviceVerification PROVE IInv'
  BY <1>4, StartStep
<1>5. ASSUME NEW n \in ChallengeIds, NEW u \in UserCodes, TypeUserCode(n, u) \/ MistypeUserCode(n, u) PROVE IInv'
  BY <1>5, TypeStep, MistypeStep
<1>6. ASSUME NEW n \in ChallengeIds, NEW owner \in Owners, AcceptLogin(n, owner) PROVE IInv'
  BY <1>6, AcceptLoginStep
<1>7. ASSUME NEW n \in ChallengeIds, AcceptConsent(n) \/ Reject(n) \/ Abandon(n) PROVE IInv'
  BY <1>7, AcceptConsentStep, RejectStep, AbandonStep
<1>8. ASSUME NEW c \in Calls, NEW n \in ChallengeIds, Redeem(c, n) PROVE IInv'
  BY <1>8, RedeemStep
<1>9. ASSUME NEW c \in Calls, NEW d \in Devices, Poll(c, d) PROVE IInv'
  BY <1>9, PollStep
<1>10. ASSUME NEW c \in Calls,
              \/ Unset(c) \/ SendToLogin(c) \/ SendToConsent(c)
              \/ Approve(c) \/ CreateSession(c) \/ Deny(c)
       PROVE  IInv'
  BY <1>10, UnsetStep, SendToLoginStep, SendToConsentStep, ApproveStep, CreateSessionStep, DenyStep
<1>11. ASSUME NEW c \in Calls,
              \/ WriteAnswer(c) \/ FreeUserCode(c)
              \/ WritePoll(c) \/ WriteUse(c) \/ Mint(c) \/ Revoke(c) \/ Fail(c)
       PROVE  IInv'
  BY <1>11, WriteAnswerStep, FreeUserCodeStep, WritePollStep, WriteUseStep, MintStep, RevokeStep, FailStep
<1> QED
  BY <1>1, <1>2, <1>3, <1>4, <1>5, <1>6, <1>7, <1>8, <1>9, <1>10, <1>11 DEF Next

LEMMA Invariance == Spec => []IInv
BY InitInv, NextInv, PTL DEF Spec

\* Every state of the device grant has its type.
THEOREM DeviceGrantTyped == Spec => []TypeOK
<1>1. IInv => TypeOK
  BY DEF IInv
<1> QED
  BY <1>1, Invariance, PTL

\* However visits, answers and polls interleave, stop and repeat, the tokens a
\* device gets are of an owner who accepted this device on the consent page
\* (#continueConsent, #approveDevice, #exchangeDeviceCode).
THEOREM GrantsAreConsented == Spec => []GrantIsConsented
<1>1. IInv => GrantIsConsented
  BY DEF IInv, TokensFit, GrantConsented, Consented, Now, GrantIsConsented
<1> QED
  BY <1>1, Invariance, PTL
-----------------------------------------------------------------------------
(* One code, one answer.  A device that no write raced has at most one     *)
(* call that is to mint, and then no tokens; a call that holds a copy of   *)
(* its record is before both.  An answer that is written stays: whoever    *)
(* holds a copy of the record then, holds the answer.                      *)

Handles(c, d, phases) == calls[c] # Idle /\ calls[c].code = d /\ calls[c].phase \in phases

\* The copy a call is going to write was read before the tokens.
CopyFits(call) ==
  /\ call.phase \in {"create", "answer", "polled", "use"} => ~call.device.used
  /\ call.phase \in {"create", "polled"} => call.device.status = "pending"

CopiesFit == \A c \in Calls : calls[c] # Idle => CopyFits(calls[c])

\* Nothing happened to a device whose code was never given out.
Begun(d) == devices[d] # None \/ d \in expired

Untaken(d) == \A t \in tokens : t.device # d

BegunFits(d) ==
  ~Begun(d) => /\ \A c \in Calls : ~Handles(c, d, {"create", "answer", "free", "polled", "use", "mint"})
               /\ Untaken(d) /\ answered[d] = None

UseFits(d) ==
  /\ d \notin repeated
  /\ (devices[d] # None /\ ~devices[d].used) \/ (\E c \in Calls : Holds(c, d)) =>
       Untaken(d) /\ \A c \in Calls : ~Handles(c, d, {"mint"})
  /\ \A c \in Calls : Handles(c, d, {"mint"}) =>
       Untaken(d) /\ \A other \in Calls : Handles(other, d, {"mint"}) => other = c

Stands(d, answer) ==
  /\ devices[d] # None => devices[d].status = answer
  /\ \A c \in Calls : Holds(c, d) => calls[c].phase = "use" /\ calls[c].device.status = answer
  /\ \A c \in Calls : Handles(c, d, {"free"}) => calls[c].device.status = answer

\* The same of the next state, for an answer of this one.
StandsNext(d, answer) ==
  /\ devices'[d] # None => devices'[d].status = answer
  /\ \A c \in Calls : calls'[c] # Idle /\ calls'[c].code = d =>
       /\ calls'[c].phase \in {"create", "answer", "polled", "use"} =>
            calls'[c].phase = "use" /\ calls'[c].device.status = answer
       /\ calls'[c].phase = "free" => calls'[c].device.status = answer

AnswerFits(d) ==
  /\ answered[d] # None => answered[d] # "pending" /\ Stands(d, answered[d])
  /\ \A c \in Calls : Handles(c, d, {"free"}) => Stands(d, calls[c].device.status)

DeviceFits(d) == BegunFits(d) /\ (d \notin raced => UseFits(d) /\ AnswerFits(d))

JInv == CopiesFit /\ \A d \in Devices : DeviceFits(d)
-----------------------------------------------------------------------------
LEMMA InitOnce == Init => JInv
BY DEF Init, JInv, CopiesFit, DeviceFits, BegunFits, UseFits, AnswerFits, Begun, Untaken, Handles, Holds

\* A step of the pages leaves all of it alone.
LEMMA PagesOnce ==
  ASSUME JInv, UNCHANGED <<devices, expired, calls, tokens, repeated, answered, raced>>
  PROVE  JInv'
BY DEF JInv, CopiesFit, DeviceFits, BegunFits, UseFits, AnswerFits, Stands, Begun, Untaken, Handles, Holds

\* One call changes, and the copies it holds still fit.
LEMMA OneCall ==
  ASSUME IInv, JInv, NEW c \in Calls, NEW call, calls' = [calls EXCEPT ![c] = call],
         call = Idle \/ CopyFits(call)
  PROVE  /\ calls'[c] = call /\ \A d \in Calls \ {c} : calls'[d] = calls[d]
         /\ CopiesFit'
<1>1. calls'[c] = call /\ \A d \in Calls \ {c} : calls'[d] = calls[d]
  BY DEF IInv, TypeOK
<1> QED BY <1>1 DEF JInv, CopiesFit, CopyFits

Quiet == {"unset", "login", "consent", "approve", "deny", "revoke"}

\* A call that ends, or that reads and writes no record of a device, takes nothing from it.
LEMMA QuietOnce ==
  ASSUME IInv, JInv, NEW c \in Calls, NEW call, calls' = [calls EXCEPT ![c] = call],
         call = Idle \/ call.phase \in Quiet,
         UNCHANGED <<devices, expired, tokens, repeated, answered, raced>>
  PROVE  JInv'
<1>1. /\ calls'[c] = call /\ \A d \in Calls \ {c} : calls'[d] = calls[d]
      /\ CopiesFit'
  BY OneCall DEF CopyFits, Quiet
<1>2. ASSUME NEW d \in Devices PROVE DeviceFits(d)'
  <2>1. DeviceFits(d)
    BY DEF JInv
  <2>2. \A o \in Calls : calls'[o] # Idle /\ calls'[o].phase \notin Quiet => calls'[o] = calls[o]
    BY <1>1
  <2>3. BegunFits(d)'
    BY <2>1, <2>2 DEF DeviceFits, BegunFits, Begun, Untaken, Handles, Quiet
  <2>4. d \notin raced => UseFits(d)'
    BY <2>1, <2>2 DEF DeviceFits, UseFits, Untaken, Handles, Holds, Quiet
  <2>5. d \notin raced => AnswerFits(d)'
    BY <2>1, <2>2 DEF DeviceFits, AnswerFits, Stands, Handles, Holds, Quiet
  <2> QED BY <2>3, <2>4, <2>5 DEF DeviceFits
<1> QED BY <1>1, <1>2 DEF JInv

\* A call takes a copy of a record that is not used: it waits, or the copy holds the answer.
LEMMA ReadOnce ==
  ASSUME IInv, JInv, NEW c \in Calls, NEW call, calls' = [calls EXCEPT ![c] = call],
         CopyFits(call), call.phase \in {"create", "answer", "polled", "use"},
         devices[call.code] # None, ~devices[call.code].used,
         \/ devices[call.code].status = "pending"
         \/ call.phase = "use" /\ call.device = devices[call.code],
         call.code \in Devices,
         UNCHANGED <<devices, expired, tokens, repeated, answered, raced>>
  PROVE  JInv'
<1>1. /\ calls'[c] = call /\ \A d \in Calls \ {c} : calls'[d] = calls[d]
      /\ CopiesFit'
  BY OneCall
<1>2. ASSUME NEW d \in Devices PROVE DeviceFits(d)'
  <2>1. DeviceFits(d)
    BY DEF JInv
  <2>2. \A o \in Calls : calls'[o] = calls[o] \/ (o = c /\ calls'[o] = call)
    BY <1>1
  <2>3. BegunFits(d)'
    BY <2>1, <2>2 DEF DeviceFits, BegunFits, Begun, Untaken, Handles
  <2>4. d \notin raced => UseFits(d)'
    BY <2>1, <2>2 DEF DeviceFits, UseFits, Untaken, Handles, Holds
  <2>5. ASSUME NEW answer, answer # "pending", Stands(d, answer)
        PROVE  Stands(d, answer)'
    BY <2>2, <2>5 DEF Stands, Handles, Holds
  <2>6. \A o \in Calls : Handles(o, d, {"free"}) => calls[o].device.status # "pending"
    BY DEF IInv, CallsFit, CallFits, Handles
  <2>7. ASSUME d \notin raced PROVE AnswerFits(d)'
    <3>1. answered[d] # None => answered[d] # "pending" /\ Stands(d, answered[d])'
      BY <2>1, <2>5, <2>7 DEF DeviceFits, AnswerFits
    <3>2. ASSUME NEW o \in Calls, calls'[o] = calls[o], Handles(o, d, {"free"})
          PROVE  Stands(d, calls[o].device.status)'
      BY <2>1, <2>5, <2>6, <2>7, <3>2 DEF DeviceFits, AnswerFits
    <3> QED BY <2>2, <3>1, <3>2 DEF AnswerFits, Handles, Stands
  <2> QED BY <2>3, <2>4, <2>7 DEF DeviceFits
<1> QED BY <1>1, <1>2 DEF JInv
-----------------------------------------------------------------------------
\* A code is given out: the record waits, and nobody knew the device before.
LEMMA AuthorizationOnce ==
  ASSUME IInv, JInv, NEW d \in Devices, NEW u \in UserCodes, DeviceAuthorization(d, u)
  PROVE  JInv'
<1>1. /\ devices'[d] # None /\ devices'[d].status = "pending" /\ ~devices'[d].used
      /\ \A e \in Devices \ {d} : devices'[e] = devices[e]
      /\ UNCHANGED <<expired, calls, tokens, repeated, answered, raced>>
  <2>1. /\ devices' = [devices EXCEPT ![d] = [status |-> "pending", userCode |-> u, session |-> None, used |-> FALSE]]
        /\ UNCHANGED <<expired, calls, tokens, repeated, answered, raced>>
    BY DEF DeviceAuthorization, history
  <2>2. devices'[d] = [status |-> "pending", userCode |-> u, session |-> None, used |-> FALSE]
    BY <2>1 DEF IInv, TypeOK
  <2>3. devices'[d] # None
    <3>1. devices'[d] \in DeviceRecord
      BY <2>2 DEF DeviceRecord
    <3> QED BY <3>1, NoneAssumption
  <2> QED BY <2>1, <2>2, <2>3 DEF IInv, TypeOK
<1>2. CopiesFit'
  BY <1>1 DEF JInv, CopiesFit, CopyFits
<1>3. DeviceFits(d)'
  <2>1. BegunFits(d) /\ ~Begun(d) /\ (d \notin raced => d \notin repeated)
    BY DEF JInv, DeviceFits, UseFits, DeviceAuthorization, Begun
  <2>2. /\ \A c \in Calls : ~Handles(c, d, {"create", "answer", "free", "polled", "use", "mint"})
        /\ Untaken(d) /\ answered[d] = None
    BY <2>1 DEF BegunFits
  <2>3. BegunFits(d)'
    BY <1>1 DEF BegunFits, Begun
  <2>4. d \notin raced => UseFits(d)'
    BY <1>1, <2>1, <2>2 DEF UseFits, Untaken, Handles, Holds
  <2>5. AnswerFits(d)'
    BY <1>1, <2>2 DEF AnswerFits, Handles
  <2> QED BY <1>1, <2>3, <2>4, <2>5 DEF DeviceFits
<1>4. ASSUME NEW e \in Devices \ {d} PROVE DeviceFits(e)'
  BY <1>1, <1>4 DEF JInv, DeviceFits, BegunFits, UseFits, AnswerFits, Stands, Begun, Untaken, Handles, Holds
<1> QED BY <1>2, <1>3, <1>4 DEF JInv

LEMMA ExpireOnce ==
  ASSUME JInv, NEW d \in Devices, Expire(d)
  PROVE  JInv'
BY DEF Expire, history, JInv, CopiesFit, CopyFits, DeviceFits, BegunFits, UseFits, AnswerFits, Stands, Begun,
       Untaken, Handles, Holds

LEMMA ForgetOnce ==
  ASSUME IInv, JInv, NEW d \in Devices, Forget(d)
  PROVE  JInv'
<1>1. /\ devices'[d] = None /\ d \in expired
      /\ \A e \in Devices \ {d} : devices'[e] = devices[e]
      /\ UNCHANGED <<expired, calls, tokens, repeated, answered, raced>>
  BY DEF Forget, history, IInv, TypeOK
<1>2. CopiesFit'
  BY <1>1 DEF JInv, CopiesFit, CopyFits
<1>3. ASSUME NEW e \in Devices PROVE DeviceFits(e)'
  <2>1. DeviceFits(e)
    BY DEF JInv
  <2>2. devices'[e] = None \/ devices'[e] = devices[e]
    BY <1>1
  <2>3. BegunFits(e)'
    BY <1>1, <2>1 DEF DeviceFits, BegunFits, Begun, Untaken, Handles
  <2>4. e \notin raced => UseFits(e)'
    BY <1>1, <2>1, <2>2 DEF DeviceFits, UseFits, Untaken, Handles, Holds
  <2>5. e \notin raced => AnswerFits(e)'
    BY <1>1, <2>1, <2>2 DEF DeviceFits, AnswerFits, Stands, Handles, Holds
  <2> QED BY <1>1, <2>3, <2>4, <2>5 DEF DeviceFits
<1> QED BY <1>2, <1>3 DEF JInv
-----------------------------------------------------------------------------
LEMMA UnsetOnce ==
  ASSUME IInv, JInv, NEW c \in Calls, Unset(c)
  PROVE  JInv'
<1> DEFINE call == [calls[c] EXCEPT !.phase = calls[c].next, !.next = None, !.id = None]
<1>1. calls[c] \in Call /\ CallFits(Now, calls[c]) /\ calls[c].phase = "unset"
  BY CallAt DEF Unset
<1>2. call.phase \in Quiet
  BY <1>1 DEF CallFits, Call, Quiet
<1>3. calls' = [calls EXCEPT ![c] = call] /\ UNCHANGED <<devices, expired, tokens, repeated, answered, raced>>
  BY DEF Unset, history
<1> HIDE DEF call
<1> QED BY <1>2, <1>3, QuietOnce

LEMMA RedeemOnce ==
  ASSUME IInv, JInv, NEW c \in Calls, NEW n \in ChallengeIds, Redeem(c, n)
  PROVE  JInv'
<1> DEFINE call == [phase |-> "unset", id |-> n, next |-> Continuation(challenges[n]),
                    owner |-> challenges[n].owner, code |-> challenges[n].device, device |-> None]
<1>1. call.phase \in Quiet
  BY DEF Quiet
<1>2. calls' = [calls EXCEPT ![c] = call] /\ UNCHANGED <<devices, expired, tokens, repeated, answered, raced>>
  BY DEF Redeem, Begin, kv, history
<1> HIDE DEF call
<1> QED BY <1>1, <1>2, QuietOnce

\* A call that ends.
LEMMA EndOnce ==
  ASSUME IInv, JInv, NEW c \in Calls, SendToLogin(c) \/ SendToConsent(c) \/ Revoke(c) \/ Fail(c)
  PROVE  JInv'
<1>1. calls' = [calls EXCEPT ![c] = Idle] /\ UNCHANGED <<devices, expired, tokens, repeated, answered, raced>>
  BY DEF SendToLogin, SendToConsent, Revoke, Fail, Begin, kv, history
<1> QED BY <1>1, QuietOnce

LEMMA ApproveOnce ==
  ASSUME IInv, JInv, NEW c \in Calls, Approve(c)
  PROVE  JInv'
<1> DEFINE d == calls[c].code
           call == [calls[c] EXCEPT !.phase = IF MayApprove(d) THEN "create" ELSE "deny",
                                    !.device = IF MayApprove(d) THEN devices[d] ELSE None]
<1>1. calls[c] \in Call /\ d \in Devices
  BY CallAt DEF Approve, Call
<1>2. calls' = [calls EXCEPT ![c] = call] /\ UNCHANGED <<devices, expired, tokens, repeated, answered, raced>>
  BY DEF Approve, kv, history
<1>3. CASE MayApprove(d)
  <2>1. devices[d] # None /\ devices[d].status = "pending"
    BY <1>3 DEF MayApprove, IsOpen, IsPending
  <2>2. ~devices[d].used
    BY <1>1, <2>1, RecordOf DEF Backed, DeviceRecord
  <2>3. call.phase = "create" /\ call.device = devices[d] /\ call.code = d
    BY <1>1, <1>3 DEF Call
  <2> HIDE DEF call
  <2>4. CopyFits(call)
    BY <2>1, <2>2, <2>3 DEF CopyFits
  <2> QED BY <1>1, <1>2, <2>1, <2>2, <2>3, <2>4, ReadOnce
<1>4. CASE ~MayApprove(d)
  <2>1. call.phase \in Quiet
    BY <1>1, <1>4 DEF Call, Quiet
  <2> HIDE DEF call
  <2> QED BY <1>2, <2>1, QuietOnce
<1> QED BY <1>3, <1>4

LEMMA DenyOnce ==
  ASSUME IInv, JInv, NEW c \in Calls, Deny(c)
  PROVE  JInv'
<1> DEFINE d == calls[c].code
           call == [calls[c] EXCEPT !.phase = "answer", !.device = [devices[d] EXCEPT !.status = "denied"]]
<1>1. calls[c] \in Call /\ d \in Devices
  BY CallAt DEF Deny, Call
<1>2. UNCHANGED <<devices, expired, tokens, repeated, answered, raced>>
  BY DEF Deny, kv, history
<1>3. CASE IsPending(d)
  <2>1. devices[d] # None /\ devices[d].status = "pending" /\ devices[d] \in DeviceRecord
    BY <1>1, <1>3, RecordOf DEF IsPending
  <2>2. ~devices[d].used
    BY <1>1, <2>1, RecordOf DEF Backed, DeviceRecord
  <2>3. call.phase = "answer" /\ ~call.device.used /\ call.code = d
    BY <1>1, <2>1, <2>2 DEF Call, DeviceRecord
  <2>4. calls' = [calls EXCEPT ![c] = call]
    BY <1>3 DEF Deny
  <2> HIDE DEF call
  <2>5. CopyFits(call)
    BY <2>3 DEF CopyFits
  <2> QED BY <1>1, <1>2, <2>1, <2>2, <2>3, <2>4, <2>5, ReadOnce
<1>4. CASE ~IsPending(d)
  BY <1>2, <1>4, QuietOnce DEF Deny, Begin
<1> QED BY <1>3, <1>4

LEMMA PollOnce ==
  ASSUME IInv, JInv, NEW c \in Calls, NEW d \in Devices, Poll(c, d)
  PROVE  JInv'
<1> DEFINE call == [phase |-> PollPhase(d), id |-> None, next |-> None, owner |-> None,
                    code |-> d, device |-> devices[d]]
<1>1. calls' = [calls EXCEPT ![c] = call] /\ UNCHANGED <<devices, expired, tokens, repeated, answered, raced>>
  BY DEF Poll, Begin, kv, history
<1>2. devices[d] # None /\ devices[d] \in DeviceRecord
  BY RecordOf DEF Poll
<1>3. call.phase = PollPhase(d) /\ call.code = d /\ call.device = devices[d]
  OBVIOUS
<1> HIDE DEF call
<1>4. CASE devices[d].used
  BY <1>1, <1>3, <1>4, QuietOnce DEF PollPhase, Quiet
<1>5. CASE ~devices[d].used
  <2>1. PollPhase(d) = IF devices[d].status = "pending" THEN "polled" ELSE "use"
    BY <1>2, <1>5 DEF PollPhase, DeviceRecord
  <2>2. CopyFits(call)
    BY <1>3, <1>5, <2>1 DEF CopyFits
  <2> QED BY <1>1, <1>2, <1>3, <1>5, <2>1, <2>2, ReadOnce
<1> QED BY <1>2, <1>4, <1>5 DEF DeviceRecord
-----------------------------------------------------------------------------
\* The copy of a call that was approved is still one that is not used.
LEMMA CreateOnce ==
  ASSUME IInv, JInv, NEW c \in Calls, CreateSession(c)
  PROVE  JInv'
<1>0. PICK s \in SessionIds :
        calls' = [calls EXCEPT ![c] = [calls[c] EXCEPT !.phase = "answer", !.owner = None,
                    !.device = [calls[c].device EXCEPT !.status = "approved", !.session = s]]]
  BY DEF CreateSession
<1> DEFINE call == [calls[c] EXCEPT !.phase = "answer", !.owner = None,
                      !.device = [calls[c].device EXCEPT !.status = "approved", !.session = s]]
<1>1. calls[c] \in Call /\ CallFits(Now, calls[c]) /\ calls[c].phase = "create" /\ calls[c] # Idle
  BY CallAt DEF CreateSession, At
<1>2. calls[c].device \in DeviceRecord /\ ~calls[c].device.used
  BY <1>1 DEF CallFits, HoldsCopy
<1>3. calls' = [calls EXCEPT ![c] = call] /\ UNCHANGED <<devices, expired, tokens, repeated, answered, raced>>
  BY <1>0, <1>1 DEF CreateSession, kv, history
<1>4. call.phase = "answer" /\ call.code = calls[c].code /\ ~call.device.used
  BY <1>1, <1>2 DEF Call, DeviceRecord
<1> HIDE DEF call
<1>5. CopyFits(call)
  BY <1>4 DEF CopyFits
<1>6. /\ calls'[c] = call /\ \A d \in Calls \ {c} : calls'[d] = calls[d]
      /\ CopiesFit'
  BY <1>3, <1>5, OneCall
<1>7. ASSUME NEW d \in Devices PROVE DeviceFits(d)'
  <2>1. DeviceFits(d)
    BY DEF JInv
  <2>2. \A o \in Calls : calls'[o] = calls[o] \/ (o = c /\ calls'[o] = call)
    BY <1>6
  <2>3. calls[c].code = d => Holds(c, d)
    BY <1>1 DEF Holds
  <2>4. BegunFits(d)'
    BY <1>1, <1>3, <1>4, <2>1, <2>2 DEF DeviceFits, BegunFits, Begun, Untaken, Handles
  <2>5. d \notin raced => UseFits(d)'
    BY <1>1, <1>3, <1>4, <2>1, <2>2 DEF DeviceFits, UseFits, Untaken, Handles, Holds
  <2>6. d \notin raced => AnswerFits(d)'
    BY <1>1, <1>3, <1>4, <2>1, <2>2, <2>3 DEF DeviceFits, AnswerFits, Stands, Handles, Holds
  <2> QED BY <1>3, <2>4, <2>5, <2>6 DEF DeviceFits
<1> QED BY <1>6, <1>7 DEF JInv
-----------------------------------------------------------------------------
\* The one write of a record: of a poll that waits, of an answer, or of a code that is used.
\* Unless it raced, nobody else holds a copy, so what it writes is what was last read.
LEMMA WriteOnce ==
  ASSUME IInv, JInv, NEW c \in Calls, NEW d \in Devices, NEW copy \in DeviceRecord, NEW call,
         Holds(c, d), WriteDevice(c, copy), calls' = [calls EXCEPT ![c] = call],
         UNCHANGED <<expired, tokens, repeated, answered>>,
         \/ call = Idle /\ calls[c].phase = "polled" /\ ~copy.used
         \/ /\ call.phase = "free" /\ calls[c].phase = "answer" /\ call.code = d
            /\ call.device = copy /\ ~copy.used
         \/ /\ call.phase = "mint" /\ calls[c].phase = "use" /\ call.code = d
            /\ copy.used /\ copy.status = calls[c].device.status
  PROVE  JInv'
<1>1. /\ calls'[c] = call /\ \A e \in Calls \ {c} : calls'[e] = calls[e]
      /\ CopiesFit'
  BY OneCall DEF CopyFits
<1>2. calls[c] # Idle /\ calls[c].code = d /\ copy # None
  BY NoneAssumption DEF Holds
<1>3. /\ devices'[d] = copy /\ \A e \in Devices \ {d} : devices'[e] = devices[e]
      /\ raced \subseteq raced' /\ raced' \subseteq raced \cup {d}
      /\ d \notin raced' => \A o \in Calls \ {c} : ~Holds(o, d)
  BY <1>2 DEF WriteDevice, IInv, TypeOK
<1>4. \A o \in Calls : calls'[o] = calls[o] \/ (o = c /\ calls'[o] = call)
  BY <1>1
<1>5. ASSUME NEW e \in Devices \ {d} PROVE DeviceFits(e)'
  <2>1. DeviceFits(e)
    BY DEF JInv
  <2>2. devices'[e] = devices[e] /\ (e \notin raced' => e \notin raced) /\ e # d
    BY <1>3
  <2>3. BegunFits(e)'
    BY <1>2, <1>4, <2>1, <2>2 DEF DeviceFits, BegunFits, Begun, Untaken, Handles
  <2>4. e \notin raced' => UseFits(e)'
    BY <1>2, <1>4, <2>1, <2>2 DEF DeviceFits, UseFits, Untaken, Handles, Holds
  <2>5. e \notin raced' => AnswerFits(e)'
    BY <1>2, <1>4, <2>1, <2>2 DEF DeviceFits, AnswerFits, Stands, Handles, Holds
  <2> QED BY <2>3, <2>4, <2>5 DEF DeviceFits
<1>6. DeviceFits(d)'
  <2>1. BegunFits(d)'
    BY <1>2, <1>3 DEF BegunFits, Begun
  <2> SUFFICES ASSUME d \notin raced' PROVE UseFits(d)' /\ AnswerFits(d)'
    BY <2>1 DEF DeviceFits
  <2>2. UseFits(d) /\ AnswerFits(d)
    BY <1>3 DEF JInv, DeviceFits
  <2>3. d \notin repeated /\ Untaken(d) /\ \A o \in Calls : ~Handles(o, d, {"mint"})
    BY <2>2 DEF UseFits
  <2>4. ASSUME NEW o \in Calls, calls'[o] # Idle, calls'[o].code = d
        PROVE  calls'[o].phase \notin {"create", "answer", "polled", "use"}
    <3>1. CASE o = c
      BY <1>1, <2>4, <3>1
    <3>2. CASE o # c
      BY <1>1, <1>3, <2>4, <3>2 DEF Holds
    <3> QED BY <3>1, <3>2
  <2>5. UseFits(d)'
    BY <1>3, <1>4, <2>3, <2>4 DEF UseFits, Untaken, Handles, Holds
  <2>6. ASSUME NEW answer, Stands(d, answer)
        PROVE  calls[c].phase = "use" /\ StandsNext(d, answer)
    <3>1. calls[c].phase = "use" /\ calls[c].device.status = answer
      BY <2>6 DEF Stands
    <3>2. copy.status = answer /\ call.phase = "mint"
      BY <1>2, <3>1
    <3> QED BY <1>3, <1>4, <2>4, <2>6, <3>1, <3>2 DEF StandsNext, Stands, Handles, Holds
  <2>7. ASSUME NEW o \in Calls, Handles(o, d, {"free"})'
        PROVE  StandsNext(d, calls'[o].device.status)
    <3>1. CASE calls'[o] = calls[o]
      BY <2>2, <2>6, <2>7, <3>1 DEF AnswerFits, Handles
    <3>2. CASE o = c /\ calls'[o] = call
      <4>1. call.phase = "free" /\ call.device = copy /\ calls[c].phase = "answer"
        BY <1>2, <2>7, <3>2 DEF Handles
      <4>2. \A p \in Calls : ~Handles(p, d, {"free"})
        BY <2>2, <2>6, <4>1 DEF AnswerFits
      <4> QED BY <1>3, <1>4, <2>4, <3>2, <4>1, <4>2 DEF StandsNext, Handles, Holds
    <3> QED BY <1>4, <3>1, <3>2
  <2>8. answered[d] # None => answered[d] # "pending" /\ StandsNext(d, answered[d])
    BY <2>2, <2>6 DEF AnswerFits
  <2>9. AnswerFits(d)'
    BY <2>7, <2>8 DEF AnswerFits, StandsNext, Handles, Holds, Stands
  <2> QED BY <2>5, <2>9
<1> QED BY <1>1, <1>5, <1>6 DEF JInv

LEMMA WriteAnswerOnce ==
  ASSUME IInv, JInv, NEW c \in Calls, WriteAnswer(c)
  PROVE  JInv'
<1> DEFINE call == [calls[c] EXCEPT !.phase = "free"]
<1>1. calls[c] \in Call /\ CallFits(Now, calls[c]) /\ calls[c].phase = "answer" /\ calls[c] # Idle
  BY CallAt DEF WriteAnswer, At
<1>2. calls[c].device \in DeviceRecord /\ ~calls[c].device.used /\ calls[c].code \in Devices
  BY <1>1 DEF CallFits, HoldsCopy, JInv, CopiesFit, CopyFits, Call
<1>3. call.phase = "free" /\ call.code = calls[c].code /\ call.device = calls[c].device
  BY <1>1 DEF Call
<1>4. /\ calls' = [calls EXCEPT ![c] = call] /\ WriteDevice(c, calls[c].device)
      /\ UNCHANGED <<expired, tokens, repeated, answered>>
  BY DEF WriteAnswer, Goes
<1>5. Holds(c, calls[c].code)
  BY <1>1 DEF Holds
<1> HIDE DEF call
<1> QED BY <1>1, <1>2, <1>3, <1>4, <1>5, WriteOnce

LEMMA WritePollOnce ==
  ASSUME IInv, JInv, NEW c \in Calls, WritePoll(c)
  PROVE  JInv'
<1>1. calls[c] \in Call /\ CallFits(Now, calls[c]) /\ calls[c].phase = "polled" /\ calls[c] # Idle
  BY CallAt DEF WritePoll, At
<1>2. calls[c].device \in DeviceRecord /\ ~calls[c].device.used /\ calls[c].code \in Devices
  BY <1>1 DEF CallFits, HoldsCopy, JInv, CopiesFit, CopyFits, Call
<1>3. /\ calls' = [calls EXCEPT ![c] = Idle] /\ WriteDevice(c, calls[c].device)
      /\ UNCHANGED <<expired, tokens, repeated, answered>>
  BY DEF WritePoll, Begin
<1>4. Holds(c, calls[c].code)
  BY <1>1 DEF Holds
<1> QED BY <1>1, <1>2, <1>3, <1>4, WriteOnce

LEMMA WriteUseOnce ==
  ASSUME IInv, JInv, NEW c \in Calls, WriteUse(c)
  PROVE  JInv'
<1> DEFINE call == [calls[c] EXCEPT !.phase = "mint"]
           copy == Marked(calls[c].device)
<1>1. calls[c] \in Call /\ CallFits(Now, calls[c]) /\ calls[c].phase = "use" /\ calls[c] # Idle
  BY CallAt DEF WriteUse, At
<1>2. calls[c].device \in DeviceRecord /\ calls[c].code \in Devices
  BY <1>1 DEF CallFits, HoldsCopy, Call
<1>3. copy \in DeviceRecord /\ copy.used /\ copy.status = calls[c].device.status
  BY <1>2 DEF Marked, DeviceRecord
<1>4. call.phase = "mint" /\ call.code = calls[c].code
  BY <1>1 DEF Call
<1>5. /\ calls' = [calls EXCEPT ![c] = call] /\ WriteDevice(c, copy)
      /\ UNCHANGED <<expired, tokens, repeated, answered>>
  BY DEF WriteUse, Goes
<1>6. Holds(c, calls[c].code)
  BY <1>1 DEF Holds
<1> HIDE DEF call, copy
<1> QED BY <1>1, <1>2, <1>3, <1>4, <1>5, <1>6, WriteOnce
-----------------------------------------------------------------------------
\* The visit records the answer it wrote.
LEMMA FreeOnce ==
  ASSUME IInv, JInv, NEW c \in Calls, FreeUserCode(c)
  PROVE  JInv'
<1> DEFINE f == calls[c].code
<1>1. calls[c] \in Call /\ CallFits(Now, calls[c]) /\ calls[c].phase = "free" /\ calls[c] # Idle
  BY CallAt DEF FreeUserCode, At
<1>2. f \in Devices /\ calls[c].device.status # "pending" /\ Handles(c, f, {"free"})
  BY <1>1 DEF CallFits, Call, Handles
<1>3. /\ calls' = [calls EXCEPT ![c] = Idle]
      /\ answered' = [answered EXCEPT ![f] = calls[c].device.status]
      /\ UNCHANGED <<devices, expired, tokens, repeated, raced>>
  BY DEF FreeUserCode, Begin
<1>4. /\ calls'[c] = Idle /\ \A o \in Calls \ {c} : calls'[o] = calls[o]
      /\ CopiesFit'
  BY <1>3, OneCall
<1>5. answered'[f] = calls[c].device.status /\ \A e \in Devices \ {f} : answered'[e] = answered[e]
  BY <1>2, <1>3 DEF IInv, TypeOK
<1> HIDE DEF f
<1>6. ASSUME NEW d \in Devices PROVE DeviceFits(d)'
  <2>1. DeviceFits(d)
    BY DEF JInv
  <2>2. \A o \in Calls : calls'[o] = calls[o] \/ calls'[o] = Idle
    BY <1>4
  <2>3. d = f => Begun(d)
    BY <1>2, <2>1 DEF DeviceFits, BegunFits, Handles
  <2>4. BegunFits(d)'
    BY <1>3, <1>5, <2>1, <2>2, <2>3 DEF DeviceFits, BegunFits, Begun, Untaken, Handles
  <2>5. d \notin raced => UseFits(d)'
    BY <1>3, <2>1, <2>2 DEF DeviceFits, UseFits, Untaken, Handles, Holds
  <2>6. ASSUME d \notin raced PROVE AnswerFits(d)'
    <3>1. AnswerFits(d)
      BY <2>1, <2>6 DEF DeviceFits
    <3>2. ASSUME NEW answer, Stands(d, answer) PROVE StandsNext(d, answer)
      BY <1>3, <2>2, <3>2 DEF Stands, StandsNext, Handles, Holds
    <3>3. answered'[d] # None => answered'[d] # "pending" /\ Stands(d, answered'[d])
      BY <1>2, <1>5, <3>1 DEF AnswerFits
    <3>4. answered'[d] # None => answered'[d] # "pending" /\ StandsNext(d, answered'[d])
      BY <3>2, <3>3
    <3>5. ASSUME NEW o \in Calls, Handles(o, d, {"free"})'
          PROVE  StandsNext(d, calls'[o].device.status)
      <4>1. calls'[o] = calls[o] /\ Handles(o, d, {"free"})
        BY <2>2, <3>5 DEF Handles
      <4> QED BY <3>1, <3>2, <4>1 DEF AnswerFits
    <3> QED BY <3>4, <3>5 DEF AnswerFits, StandsNext, Handles, Holds, Stands
  <2> QED BY <1>3, <2>4, <2>5, <2>6 DEF DeviceFits
<1> QED BY <1>4, <1>6 DEF JInv

\* The first tokens of a device are the last ones.
LEMMA MintOnce ==
  ASSUME IInv, JInv, NEW c \in Calls, Mint(c)
  PROVE  JInv'
<1> DEFINE m == calls[c].code
<1>1. calls[c] \in Call /\ CallFits(Now, calls[c]) /\ calls[c].phase = "mint" /\ calls[c] # Idle
  BY CallAt DEF Mint, At
<1>2. m \in Devices /\ Handles(c, m, {"mint"})
  BY <1>1 DEF Call, Handles
<1>3. /\ calls' = [calls EXCEPT ![c] = Idle]
      /\ UNCHANGED <<devices, expired, answered, raced>>
      /\ \A t \in tokens' \ tokens : t.device = m
      /\ repeated' \subseteq repeated \cup {m}
      /\ Untaken(m) => repeated' = repeated
  BY DEF Mint, Begin, kv, Untaken
<1>4. /\ calls'[c] = Idle /\ \A o \in Calls \ {c} : calls'[o] = calls[o]
      /\ CopiesFit'
  BY <1>3, OneCall
<1> HIDE DEF m
<1>5. ASSUME NEW d \in Devices PROVE DeviceFits(d)'
  <2>1. DeviceFits(d)
    BY DEF JInv
  <2>2. \A o \in Calls : calls'[o] = calls[o] \/ calls'[o] = Idle
    BY <1>4
  <2>3. d = m => Begun(d)
    BY <1>2, <2>1 DEF DeviceFits, BegunFits, Handles
  <2>4. d # m => (Untaken(d) => Untaken(d)')
    BY <1>3 DEF Untaken
  <2>5. BegunFits(d)'
    BY <1>3, <2>1, <2>2, <2>3, <2>4 DEF DeviceFits, BegunFits, Begun, Handles
  <2>6. ASSUME d \notin raced PROVE UseFits(d)'
    <3>1. UseFits(d)
      BY <2>1, <2>6 DEF DeviceFits
    <3>2. CASE d # m
      BY <1>3, <2>2, <2>4, <3>1, <3>2 DEF UseFits, Handles, Holds
    <3>3. CASE d = m
      <4>1. /\ ~((devices[d] # None /\ ~devices[d].used) \/ \E o \in Calls : Holds(o, d))
            /\ Untaken(d) /\ \A o \in Calls : Handles(o, d, {"mint"}) => o = c
        BY <1>2, <3>1, <3>3 DEF UseFits
      <4>2. d \notin repeated'
        BY <1>3, <3>1, <3>3, <4>1 DEF UseFits
      <4>3. \A o \in Calls : ~Handles(o, d, {"mint"})'
        BY <1>4, <4>1 DEF Handles
      <4>4. ~((devices'[d] # None /\ ~devices'[d].used) \/ \E o \in Calls : Holds(o, d)')
        BY <1>3, <2>2, <4>1 DEF Holds
      <4> QED BY <4>2, <4>3, <4>4 DEF UseFits, Holds, Handles
    <3> QED BY <3>2, <3>3
  <2>7. d \notin raced => AnswerFits(d)'
    BY <1>3, <2>1, <2>2 DEF DeviceFits, AnswerFits, Stands, Handles, Holds
  <2> QED BY <1>3, <2>5, <2>6, <2>7 DEF DeviceFits
<1> QED BY <1>4, <1>5 DEF JInv
-----------------------------------------------------------------------------
LEMMA NextOnce == IInv /\ JInv /\ [Next]_vars => JInv'
<1> SUFFICES ASSUME IInv, JInv, [Next]_vars PROVE JInv'
  OBVIOUS
<1>1. ASSUME UNCHANGED vars PROVE JInv'
  BY <1>1, PagesOnce DEF vars, kv, history
<1>2. ASSUME NEW d \in Devices, NEW u \in UserCodes, DeviceAuthorization(d, u) PROVE JInv'
  BY <1>2, AuthorizationOnce
<1>3. ASSUME NEW d \in Devices, Expire(d) \/ Forget(d) \/ PollInVain(d) PROVE JInv'
  BY <1>1, <1>3, ExpireOnce, ForgetOnce DEF PollInVain
<1>4. ASSUME StartDeviceVerification PROVE JInv'
  BY <1>4, PagesOnce DEF StartDeviceVerification, history
<1>5. ASSUME NEW n \in ChallengeIds, NEW u \in UserCodes, TypeUserCode(n, u) \/ MistypeUserCode(n, u) PROVE JInv'
  BY <1>5, PagesOnce DEF TypeUserCode, MistypeUserCode, history
<1>6. ASSUME NEW n \in ChallengeIds, NEW owner \in Owners, AcceptLogin(n, owner) PROVE JInv'
  BY <1>6, PagesOnce DEF AcceptLogin, history
<1>7. ASSUME NEW n \in ChallengeIds, AcceptConsent(n) \/ Reject(n) \/ Abandon(n) PROVE JInv'
  BY <1>7, PagesOnce DEF AcceptConsent, Reject, Abandon, history
<1>8. ASSUME NEW c \in Calls, NEW n \in ChallengeIds, Redeem(c, n) PROVE JInv'
  BY <1>8, RedeemOnce
<1>9. ASSUME NEW c \in Calls, NEW d \in Devices, Poll(c, d) PROVE JInv'
  BY <1>9, PollOnce
<1>10. ASSUME NEW c \in Calls,
              \/ Unset(c) \/ SendToLogin(c) \/ SendToConsent(c)
              \/ Approve(c) \/ CreateSession(c) \/ Deny(c)
       PROVE  JInv'
  BY <1>10, UnsetOnce, EndOnce, ApproveOnce, CreateOnce, DenyOnce
<1>11. ASSUME NEW c \in Calls,
              \/ WriteAnswer(c) \/ FreeUserCode(c)
              \/ WritePoll(c) \/ WriteUse(c) \/ Mint(c) \/ Revoke(c) \/ Fail(c)
       PROVE  JInv'
  BY <1>11, WriteAnswerOnce, FreeOnce, WritePollOnce, WriteUseOnce, MintOnce, EndOnce
<1> QED
  BY <1>1, <1>2, <1>3, <1>4, <1>5, <1>6, <1>7, <1>8, <1>9, <1>10, <1>11 DEF Next

LEMMA OnceInvariance == Spec => [](IInv /\ JInv)
<1>1. Init => IInv /\ JInv
  BY InitInv, InitOnce
<1>2. (IInv /\ JInv) /\ [Next]_vars => (IInv /\ JInv)'
  BY NextInv, NextOnce
<1> QED BY <1>1, <1>2, PTL DEF Spec

\* A device code gives tokens one time (RFC 8628, #exchangeDeviceCode), with any number of
\* visits and polls, unless a write of its record met another call that held a copy of it.
THEOREM CodesGiveTokensOnce == Spec => []TokensOnce
<1>1. IInv /\ JInv => TokensOnce
  BY DEF IInv, TypeOK, JInv, DeviceFits, UseFits, TokensOnce
<1> QED BY <1>1, OnceInvariance, PTL

\* No poll, no later visit and no second tab undoes the answer a visit recorded
\* (#approveDevice, #denyDevice), unless a write raced it.
THEOREM AnswersAreKept == Spec => []AnswerStands
<1>1. IInv /\ JInv => AnswerStands
  BY DEF JInv, DeviceFits, AnswerFits, Stands, AnswerStands
<1> QED BY <1>1, OnceInvariance, PTL
=============================================================================
