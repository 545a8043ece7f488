------------------------------ MODULE DeviceGrant ------------------------------
(***************************************************************************)
(* The device authorization grant of the OAuth2 server (src/oauth2/api.ts, *)
(* RFC 8628): a device shows a user code and polls; an owner types the     *)
(* code on another screen, signs in, and answers a consent page.           *)
(*                                                                         *)
(* The pages and the polls meet in the key value store, which compares     *)
(* nothing before it writes.  A poll and an answer each read the record of *)
(* the device and write it back some steps later; a verifier is read and   *)
(* then unset.  These reads and writes are steps of their own here.  A     *)
(* page that only fills in its own challenge is one step.                  *)
(*                                                                         *)
(* The interval between two polls, the scopes, the consents that are       *)
(* remembered and a client that is deleted meanwhile are left out.         *)
(***************************************************************************)
EXTENDS Naturals, FiniteSets

CONSTANTS
  Devices,       \* device codes, one for each device authorization request
  UserCodes, Owners, Calls,
  ChallengeIds,  \* bound: the pages open at once
  MaxAttempts,   \* USER_CODE_ATTEMPTS
  MaxSessions,   \* bound: the grants created
  None, Idle

\* The session of a grant: SessionRecord, of a device that an owner approved.
Grant == [ device : Devices, owner : Owners, live : BOOLEAN ]

ASSUME DeviceGrantAssumption ==
  /\ MaxAttempts \in Nat \ {0} /\ MaxSessions \in Nat
  /\ None \notin Devices \cup UserCodes \cup Owners \cup ChallengeIds \cup Nat
  /\ None \notin {"accepted", "rejected", "login", "consent", "approve", "deny"} \cup Grant

SessionIds == 1..MaxSessions

DeviceRecord == [ status : {"pending", "approved", "denied"}, userCode : UserCodes,
                  session : SessionIds \cup {None}, used : BOOLEAN ]

ASSUME NoneAssumption == None \notin DeviceRecord

\* DeviceChallengeRecord, LoginRecord and ConsentRecord of a device request.  A
\* device page is answered when it names a device.
Challenge == [ page : {"device", "login", "consent"}, device : Devices \cup {None},
               owner : Owners \cup {None}, answer : {"accepted", "rejected", None},
               attempts : 0..(MaxAttempts - 1) ]

\* A call under way: `id` is the challenge it redeems, which leads to the phase
\* `next`, and `device` the record of the device it read.
Call == [ phase : {"unset", "login", "consent", "approve", "create", "deny", "answer", "free",
                   "polled", "use", "mint", "revoke"},
          id : ChallengeIds \cup {None}, next : {"login", "consent", "approve", "deny", None},
          owner : Owners \cup {None}, code : Devices, device : DeviceRecord \cup {None} ]

VARIABLES
  devices,     \* oauth2/device/<code>
  userCodes,   \* oauth2/user-code/<code>: the device that shows it
  challenges,  \* the records of the device, login and consent pages
  expired,     \* the devices past expiresAt
  grants,      \* the sessions of the grants, in the order they were created
  calls,       \* the calls under way
  consents,    \* history: the consents given, each on a page
  tokens,      \* history: the grants whose tokens a device got
  repeated,    \* history: the devices that got tokens a second time
  answered,    \* history: the last answer a visit recorded of a device
  raced        \* history: the devices whose record a write met in another call

kv == <<devices, userCodes, challenges>>
history == <<consents, tokens, repeated, answered, raced>>
vars == <<kv, expired, grants, calls, history>>
-----------------------------------------------------------------------------
Init ==
  /\ devices = [d \in Devices |-> None]
  /\ userCodes = [u \in UserCodes |-> None]
  /\ challenges = [n \in ChallengeIds |-> None]
  /\ expired = {}
  /\ grants = [s \in SessionIds |-> None]
  /\ calls = [c \in Calls |-> Idle]
  /\ consents = {} /\ tokens = {} /\ repeated = {} /\ raced = {}
  /\ answered = [d \in Devices |-> None]

IsPending(d) == devices[d] # None /\ devices[d].status = "pending"
IsOpen(d) == IsPending(d) /\ d \notin expired

\* deviceAuthorization, with a user code no request uses.
DeviceAuthorization(d, u) ==
  /\ devices[d] = None /\ d \notin expired /\ userCodes[u] = None
  /\ userCodes' = [userCodes EXCEPT ![u] = d]
  /\ devices' = [devices EXCEPT ![d] =
                   [status |-> "pending", userCode |-> u, session |-> None, used |-> FALSE]]
  /\ UNCHANGED <<challenges, expired, grants, calls, history>>

\* expiresAt passes, and with it the time to live of the user code.
Expire(d) ==
  /\ devices[d] # None /\ d \notin expired
  /\ expired' = expired \cup {d}
  /\ userCodes' = [u \in UserCodes |-> IF userCodes[u] = d THEN None ELSE userCodes[u]]
  /\ UNCHANGED <<devices, challenges, grants, calls, history>>

\* The record of a device lasts as long again.
Forget(d) ==
  /\ devices[d] # None /\ d \in expired
  /\ devices' = [devices EXCEPT ![d] = None]
  /\ UNCHANGED <<userCodes, challenges, expired, grants, calls, history>>
-----------------------------------------------------------------------------
Page(page, device, owner) ==
  [ page |-> page, device |-> device, owner |-> owner, answer |-> None, attempts |-> 0 ]

\* A new challenge, under a random id: one that no page and no call knows.
Draw(challenge) ==
  \E n \in ChallengeIds :
    /\ challenges[n] = None /\ \A c \in Calls : calls[c] # Idle => calls[c].id # n
    /\ challenges' = [challenges EXCEPT ![n] = challenge]

StartDeviceVerification ==
  /\ Draw(Page("device", None, None))
  /\ UNCHANGED <<devices, userCodes, expired, grants, calls, history>>

AtPage(n, page) == challenges[n] # None /\ challenges[n].page = page
Unanswered(n) == IF challenges[n].page = "device" THEN challenges[n].device = None
                 ELSE challenges[n].answer = None

\* A user code that names a device that waits.
Names(u) == \E d \in Devices : userCodes[u] = d /\ IsOpen(d)

\* acceptDeviceRequest with the code of a device that waits.
TypeUserCode(n, u) ==
  /\ AtPage(n, "device") /\ Unanswered(n) /\ Names(u)
  /\ challenges' = [challenges EXCEPT ![n].device = userCodes[u]]
  /\ UNCHANGED <<devices, userCodes, expired, grants, calls, history>>

\* A variant with a bug, for TypeOK: one attempt too many.
TryAgainOnceMore(page) ==
  IF page.attempts + 1 > MaxAttempts THEN None ELSE [page EXCEPT !.attempts = @ + 1]

\* The last attempt ends the challenge.
TryAgain(page) ==
  IF page.attempts + 1 >= MaxAttempts THEN None ELSE [page EXCEPT !.attempts = @ + 1]

\* acceptDeviceRequest with another code.
MistypeUserCode(n, u) ==
  /\ AtPage(n, "device") /\ Unanswered(n) /\ ~Names(u)
  /\ challenges' = [challenges EXCEPT ![n] = TryAgain(@)]
  /\ UNCHANGED <<devices, userCodes, expired, grants, calls, history>>

\* durations.challenge passes: a page that nobody answers, or a verifier nobody uses.
Abandon(n) ==
  /\ challenges[n] # None
  /\ challenges' = [challenges EXCEPT ![n] = None]
  /\ UNCHANGED <<devices, userCodes, expired, grants, calls, history>>

\* acceptLoginRequest, with the access token of an owner.
AcceptLogin(n, owner) ==
  /\ AtPage(n, "login") /\ Unanswered(n)
  /\ challenges' = [challenges EXCEPT ![n].answer = "accepted", ![n].owner = owner]
  /\ UNCHANGED <<devices, userCodes, expired, grants, calls, history>>

AcceptConsent(n) ==
  /\ AtPage(n, "consent") /\ Unanswered(n)
  /\ challenges' = [challenges EXCEPT ![n].answer = "accepted"]
  /\ consents' = consents \cup {[device |-> challenges[n].device, owner |-> challenges[n].owner]}
  /\ UNCHANGED <<devices, userCodes, expired, grants, calls, tokens, repeated, answered, raced>>

\* rejectLoginRequest and rejectConsentRequest.
Reject(n) ==
  /\ AtPage(n, "login") \/ AtPage(n, "consent")
  /\ Unanswered(n)
  /\ challenges' = [challenges EXCEPT ![n].answer = "rejected"]
  /\ UNCHANGED <<devices, userCodes, expired, grants, calls, history>>
-----------------------------------------------------------------------------
Begin(c, call) == calls' = [calls EXCEPT ![c] = call]
Goes(c, phase) == calls' = [calls EXCEPT ![c].phase = phase]
At(c, phase) == calls[c] # Idle /\ calls[c].phase = phase

\* A variant with a bug, for GrantIsConsented: an accepted login is consent enough,
\* as it is for the code of a client whose consent is remembered.
SkipConsent(challenge) ==
  CASE challenge.page = "device" -> "login"
    [] challenge.answer = "rejected" -> "deny"
    [] OTHER -> "approve"

\* What an answered challenge leads to.
Continuation(challenge) ==
  CASE challenge.page = "device" -> "login"
    [] challenge.answer = "rejected" -> "deny"
    [] challenge.page = "login" /\ challenge.answer = "accepted" -> "consent"
    [] challenge.page = "consent" /\ challenge.answer = "accepted" -> "approve"

\* authorize with a verifier: #redeem reads the record of an answered challenge.
Redeem(c, n) ==
  /\ calls[c] = Idle
  /\ challenges[n] # None /\ ~Unanswered(n)
  /\ Begin(c, [phase |-> "unset", id |-> n, next |-> Continuation(challenges[n]),
               owner |-> challenges[n].owner, code |-> challenges[n].device, device |-> None])
  /\ UNCHANGED <<kv, expired, grants, history>>

\* #redeem unsets the record, so the verifier works one time.
Unset(c) ==
  /\ At(c, "unset")
  /\ challenges' = [challenges EXCEPT ![calls[c].id] = None]
  /\ calls' = [calls EXCEPT ![c].phase = calls[c].next, ![c].next = None, ![c].id = None]
  /\ UNCHANGED <<devices, userCodes, expired, grants, history>>

\* #continueDevice sends the browser to the login page while the device waits.
SendToLogin(c) ==
  /\ At(c, "login") /\ IsOpen(calls[c].code)
  /\ Draw(Page("login", calls[c].code, None))
  /\ Begin(c, Idle)
  /\ UNCHANGED <<devices, userCodes, expired, grants, history>>

\* #continueLogin sends it to the consent page, which always shows for a device.
SendToConsent(c) ==
  /\ At(c, "consent")
  /\ Draw(Page("consent", calls[c].code, calls[c].owner))
  /\ Begin(c, Idle)
  /\ UNCHANGED <<devices, userCodes, expired, grants, history>>

\* A variant with a bug, for AnswerStands: the record is not looked at.
MayApproveAny(d) == devices[d] # None /\ d \notin expired

MayApprove(d) == IsOpen(d)

\* #approveDevice reads the record; without a device that waits it fails.
Approve(c) ==
  /\ At(c, "approve")
  /\ LET d == calls[c].code
     IN  calls' = [calls EXCEPT ![c].phase = IF MayApprove(d) THEN "create" ELSE "deny",
                                ![c].device = IF MayApprove(d) THEN devices[d] ELSE None]
  /\ UNCHANGED <<kv, expired, grants, history>>

\* #createSession, for the owner who signed in.
CreateSession(c) ==
  /\ At(c, "create")
  /\ \E s \in SessionIds :
       /\ \A t \in SessionIds : grants[t] = None <=> t >= s
       /\ grants' = [grants EXCEPT ![s] = [device |-> calls[c].code, owner |-> calls[c].owner, live |-> TRUE]]
       /\ calls' = [calls EXCEPT ![c] = [@ EXCEPT !.phase = "answer", !.owner = None,
                    !.device = [calls[c].device EXCEPT !.status = "approved", !.session = s]]]
  /\ UNCHANGED <<kv, expired, history>>

\* #denyDevice reads the record; a device that was answered stays as it is
\* (the page of this visit says "denied" all the same).
Deny(c) ==
  /\ At(c, "deny")
  /\ LET d == calls[c].code
     IN  IF IsPending(d)
         THEN calls' = [calls EXCEPT ![c].phase = "answer",
                                   ![c].device = [devices[d] EXCEPT !.status = "denied"]]
         ELSE Begin(c, Idle)
  /\ UNCHANGED <<kv, expired, grants, history>>

\* A call that holds a copy of the record of a device, and is going to write it.
Holds(c, d) ==
  calls[c] # Idle /\ calls[c].code = d /\ calls[c].phase \in {"create", "answer", "polled", "use"}

\* The copy of a call replaces the record of its device.
WriteDevice(c, copy) ==
  /\ devices' = [devices EXCEPT ![calls[c].code] = copy]
  /\ raced' = raced \cup { d \in {calls[c].code} : \E other \in Calls \ {c} : Holds(other, d) }

WriteAnswer(c) ==
  /\ At(c, "answer")
  /\ WriteDevice(c, calls[c].device)
  /\ Goes(c, "free")
  /\ UNCHANGED <<userCodes, challenges, expired, grants, consents, tokens, repeated, answered>>

\* The user code is free again, and the device page shows the answer.
FreeUserCode(c) ==
  /\ At(c, "free")
  /\ userCodes' = [userCodes EXCEPT ![calls[c].device.userCode] = None]
  /\ answered' = [answered EXCEPT ![calls[c].code] = calls[c].device.status]
  /\ Begin(c, Idle)
  /\ UNCHANGED <<devices, challenges, expired, grants, consents, tokens, repeated, raced>>
-----------------------------------------------------------------------------
\* What #exchangeDeviceCode does with the record a poll read.
PollPhase(d) ==
  CASE devices[d].used -> "revoke"
    [] ~devices[d].used /\ devices[d].status = "pending" -> "polled"
    [] OTHER -> "use"

\* A poll that only hears an error: nothing changes.
PollInVain(d) ==
  /\ IF devices[d] = None THEN TRUE
     ELSE ~devices[d].used /\ (d \in expired \/ devices[d].status = "denied")
  /\ UNCHANGED vars

\* #exchangeDeviceCode reads the record.
Poll(c, d) ==
  /\ calls[c] = Idle /\ devices[d] # None
  /\ devices[d].used \/ (d \notin expired /\ devices[d].status # "denied")
  /\ Begin(c, [phase |-> PollPhase(d), id |-> None, next |-> None, owner |-> None,
               code |-> d, device |-> devices[d]])
  /\ UNCHANGED <<kv, expired, grants, history>>

\* A poll that has to wait writes the time it came at.
WritePoll(c) ==
  /\ At(c, "polled")
  /\ WriteDevice(c, calls[c].device)
  /\ Begin(c, Idle)
  /\ UNCHANGED <<userCodes, challenges, expired, grants, consents, tokens, repeated, answered>>

\* A variant with a bug, for TokensOnce: no mark.
Unmarked(copy) == copy

Marked(copy) == [copy EXCEPT !.used = TRUE]

WriteUse(c) ==
  /\ At(c, "use")
  /\ WriteDevice(c, Marked(calls[c].device))
  /\ Goes(c, "mint")
  /\ UNCHANGED <<userCodes, challenges, expired, grants, consents, tokens, repeated, answered>>

\* #mintFirst: the tokens of the grant, while it stands.
Mint(c) ==
  /\ At(c, "mint")
  /\ LET s == calls[c].device.session
         got == { t \in tokens : t.device = calls[c].code }
     IN  IF grants[s].live
         THEN /\ tokens' = tokens \cup {[device |-> calls[c].code, session |-> s]}
              /\ repeated' = IF got = {} THEN repeated ELSE repeated \cup {calls[c].code}
         ELSE UNCHANGED <<tokens, repeated>>
  /\ Begin(c, Idle)
  /\ UNCHANGED <<kv, expired, grants, consents, answered, raced>>

\* #revokeSessionById: a device code that works twice leaked.
Revoke(c) ==
  /\ At(c, "revoke")
  /\ grants' = [grants EXCEPT ![calls[c].device.session].live = FALSE]
  /\ Begin(c, Idle)
  /\ UNCHANGED <<kv, expired, history>>

\* The call throws, or the server stops.
Fail(c) ==
  /\ calls[c] # Idle
  /\ Begin(c, Idle)
  /\ UNCHANGED <<kv, expired, grants, history>>

Next ==
  \/ \E d \in Devices, u \in UserCodes : DeviceAuthorization(d, u)
  \/ \E d \in Devices : Expire(d) \/ Forget(d) \/ PollInVain(d)
  \/ StartDeviceVerification
  \/ \E n \in ChallengeIds, u \in UserCodes : TypeUserCode(n, u) \/ MistypeUserCode(n, u)
  \/ \E n \in ChallengeIds, owner \in Owners : AcceptLogin(n, owner)
  \/ \E n \in ChallengeIds : AcceptConsent(n) \/ Reject(n) \/ Abandon(n)
  \/ \E c \in Calls, n \in ChallengeIds : Redeem(c, n)
  \/ \E c \in Calls, d \in Devices : Poll(c, d)
  \/ \E c \in Calls : \/ Unset(c) \/ SendToLogin(c) \/ SendToConsent(c) \/ Approve(c) \/ CreateSession(c) \/ Deny(c)
                      \/ WriteAnswer(c) \/ FreeUserCode(c)
                      \/ WritePoll(c) \/ WriteUse(c) \/ Mint(c) \/ Revoke(c) \/ Fail(c)

Spec == Init /\ [][Next]_vars
-----------------------------------------------------------------------------
TypeOK ==
  /\ devices \in [Devices -> DeviceRecord \cup {None}]
  /\ userCodes \in [UserCodes -> Devices \cup {None}]
  /\ challenges \in [ChallengeIds -> Challenge \cup {None}]
  /\ expired \subseteq Devices
  /\ grants \in [SessionIds -> Grant \cup {None}]
  /\ calls \in [Calls -> Call \cup {Idle}]
  /\ consents \subseteq [ device : Devices, owner : Owners ]
  /\ tokens \subseteq [ device : Devices, session : SessionIds ]
  /\ repeated \subseteq Devices /\ raced \subseteq Devices
  /\ answered \in [Devices -> {"approved", "denied", None}]

\* A device gets the tokens only of a grant whose owner accepted this
\* very device on a consent page: whatever visits
\* and answers run beside each other, and when a user code is used again.
GrantIsConsented ==
  \A t \in tokens : [device |-> t.device, owner |-> grants[t.session].owner] \in consents

\* A device code gives tokens one time, as long as no write of its record met
\* another call that held a copy of it (RFC 8628, #exchangeDeviceCode).
TokensOnce == repeated \subseteq raced

\* The answer a visit recorded is the one the device hears at its next poll, unless
\* a write raced it: no poll, no later visit and no second tab undoes it
\* (#approveDevice, #denyDevice).
AnswerStands ==
  \A d \in Devices \ raced :
    answered[d] # None /\ devices[d] # None => devices[d].status = answered[d]

\* As the comment of authorize states it: "the device gets its tokens at its next
\* poll" after the consent page answered.
ApprovalReachesTheDevice ==
  \A d \in Devices :
    answered[d] = "approved" /\ devices[d] # None => devices[d].status # "pending"
=============================================================================
