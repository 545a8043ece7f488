---------------------------- MODULE RequestLimits ----------------------------
(***************************************************************************)
(* The buckets a request passes on its way through the server: those of    *)
(* the address at the door of the two HTTP apps (src/app.ts,               *)
(* src/oauth2/app.ts), then those of the session, the identity and the     *)
(* recipient in the API (src/api.ts), on the two limiters that ship, the   *)
(* map of src/providers/memory.ts and the Durable Object of                *)
(* src/providers/cloudflare.ts.  Both count a hit in one step; the steps   *)
(* of two requests interleave between their hits.                          *)
(*                                                                         *)
(* Time is kept as distances, so that it needs no bound: a bucket knows    *)
(* how long its window lasts from now, and an allowed hit its age.         *)
(* Buckets know nothing of each other, so one is watched, any of them: it  *)
(* counts as the code does, and each other one may allow a hit or not.     *)
(* The storage of a Durable Object answers no request before the writes of *)
(* the request are stored, so an eviction loses no count: it is left out.  *)
(***************************************************************************)
EXTENDS Integers, Sequences, FiniteSets

CONSTANTS
  SecretRoutes,      \* /token, /introspect, /revoke and /device_authorization, where a client authenticates
  Addresses, Sessions, Identities, Recipients,
  Requests,          \* bound: the requests under way at a time
  Limit,             \* the hits a window of any bucket allows
  Window,            \* the length of a window
  Idle, Nobody

LimitsAssumption == Limit \in Nat \ {0} /\ Window \in Nat \ {0} /\ IsFiniteSet(Requests)

Limiters == {"memory", "durable"}

AddressBuckets == SecretRoutes
  \cup {"request", "address-send", "client-auth", "oauth2:request", "oauth2:register", "oauth2:device"}
Keys == (AddressBuckets \X (Addresses \cup {"unknown"}))
        \cup ({"manage", "refresh", "verify", "send"} \X (Sessions \cup Identities))
        \cup ({"recipient"} \X Recipients)

Hit(name, subject) == [ kind |-> "hit", key |-> <<name, subject>> ]
Do(name, subject) == [ kind |-> "do", key |-> <<name, subject>> ]

\* Who calls: an address or none, the session or the identity of the call or neither,
\* the recipient of the message of a send, and whether a client sends its secret.
Caller == [ address : Addresses \cup {Nobody}, subject : Sessions \cup Identities \cup {Nobody},
            recipient : Recipients, secret : BOOLEAN ]

Bucket == [ count : 0..(Limit + 1), left : (-1)..Window ]

\* The ages of the last events of a kind, the latest first: what two windows allow, and no
\* age beyond that of a window that is over.
Ages == [ 1..(2 * Limit) -> 0..(Window + 1) ]

VARIABLES
  limiter,   \* the one the storage uses
  watched,   \* the key of the bucket that is looked at
  bucket,    \* the hits its window counted and the time the window has left
  requests,  \* for each request under way the steps before it
  allowed,   \* history: the ages of the last allowed hits of the bucket
  worked,    \* history: the ages of the last work done for it
  spurious   \* history: a hit was refused though its last window had room

vars == <<limiter, watched, bucket, requests, allowed, worked, spurious>>

\* Nothing happened for longer than a window.
Long == [ k \in 1..(2 * Limit) |-> Window + 1 ]

Init ==
  /\ limiter \in Limiters /\ watched \in Keys
  /\ bucket = [ count |-> 0, left |-> -1 ]
  /\ requests = [ r \in Requests |-> Idle ]
  /\ allowed = Long /\ worked = Long
  /\ spurious = FALSE
-----------------------------------------------------------------------------
(* The way of a request.                                                   *)

AddressOf(caller) == IF caller.address = Nobody THEN "unknown" ELSE caller.address

\* A call that belongs to nobody yet keys on nothing.
Charged(name, caller) ==
  IF caller.subject = Nobody THEN << >> ELSE << Hit(name, caller.subject) >>

Worked(name, caller) ==
  IF caller.subject = Nobody THEN << >> ELSE << Do(name, caller.subject) >>

Door(caller) == << Hit("request", AddressOf(caller)) >>

\* The start of a management flow and the sign-out.
Manage(caller) == Door(caller) \o Charged("manage", caller) \o Worked("manage", caller)

RefreshToken(caller) == Door(caller) \o Charged("refresh", caller) \o Worked("refresh", caller)

\* A variant with a bug: the value is read before the bucket is charged.
SubmitReadFirst(caller) == Door(caller) \o Worked("verify", caller) \o Charged("verify", caller)

\* The value is read after the bucket of its subject is charged.
SubmitPrompt(caller) == Door(caller) \o Charged("verify", caller) \o Worked("verify", caller)

\* The component draws its code before the bucket of the recipient is charged.
SendPrompt(caller) ==
  Door(caller) \o << Hit("address-send", AddressOf(caller)) >>
  \o Charged("send", caller) \o Worked("send", caller)
  \o << Hit("recipient", caller.recipient), Do("recipient", caller.recipient) >>

\* The start of a sign-in, a sign-up or a recovery, the lists and the keys.
Start(caller) == Door(caller) \o << Do("request", AddressOf(caller)) >>

Oauth2Door(caller) == << Hit("oauth2:request", AddressOf(caller)) >>

\* The authorization endpoint, the grants of the owner and the routes of the pages.
Authorize(caller) == Oauth2Door(caller) \o << Do("oauth2:request", AddressOf(caller)) >>

\* Every check of a secret counts, before the secret is looked at.
CountSecretCheck(caller) ==
  IF caller.secret
  THEN << Hit("client-auth", AddressOf(caller)), Do("client-auth", AddressOf(caller)) >>
  ELSE << >>

\* /register and /device have a bucket of their own and no client.
Unauthenticated(route, caller) ==
  Oauth2Door(caller) \o << Hit(route, AddressOf(caller)), Do(route, AddressOf(caller)) >>

\* The routes a client authenticates at read the body, then count the secret it sends.
Authenticated(route, caller) == Unauthenticated(route, caller) \o CountSecretCheck(caller)

Way(route, caller) ==
  CASE route = "start" -> Start(caller)
    [] route = "manage" -> Manage(caller)
    [] route = "refresh" -> RefreshToken(caller)
    [] route = "submit" -> SubmitPrompt(caller)
    [] route = "send" -> SendPrompt(caller)
    [] route = "authorize" -> Authorize(caller)
    [] route \in {"oauth2:register", "oauth2:device"} -> Unauthenticated(route, caller)
    [] OTHER -> Authenticated(route, caller)

OwnerRoutes == {"manage", "refresh", "submit", "send"}
Routes == OwnerRoutes \cup SecretRoutes \cup {"start", "authorize", "oauth2:register", "oauth2:device"}

\* The flows of an owner who signed in belong to the session, the others to the identity.
Fits(route, caller) ==
  /\ route \in {"manage", "refresh"} => caller.subject \in Sessions
  /\ route \notin OwnerRoutes => caller.subject = Nobody

\* A request that never comes to the bucket that is watched cannot be told from there.
Arrive(r) ==
  /\ requests[r] = Idle
  /\ \E route \in Routes, caller \in Caller :
       /\ Fits(route, caller)
       /\ \E i \in DOMAIN Way(route, caller) : Way(route, caller)[i].key = watched
       /\ requests' = [requests EXCEPT ![r] = Way(route, caller)]
  /\ UNCHANGED <<limiter, watched, bucket, allowed, worked, spurious>>
-----------------------------------------------------------------------------
(* The limiters.                                                           *)

MemoryRoom(b) == b.count < Limit

\* MemoryRateLimiterProvider.limit: a window over, or never begun, begins again.
MemoryLimit(b) ==
  CASE b.left <= 0 -> [ ok |-> TRUE, bucket |-> [ count |-> 1, left |-> Window ] ]
    [] b.left > 0 /\ MemoryRoom(b) -> [ ok |-> TRUE, bucket |-> [ b EXCEPT !.count = @ + 1 ] ]
    [] OTHER -> [ ok |-> FALSE, bucket |-> b ]

\* The window lasts through the instant it ends at.
DurableWindow(b) == IF b.left < 0 THEN [ count |-> 0, left |-> Window ] ELSE b

\* A refused hit counts too; past the limit the number of them changes no answer.
Counted(b) == [ b EXCEPT !.count = IF @ > Limit THEN @ ELSE @ + 1 ]

\* RateLimiterDurableObject.limit.
DurableLimit(b) ==
  LET meta == Counted(DurableWindow(b)) IN [ ok |-> meta.count <= Limit, bucket |-> meta ]

LimitHit(b) == IF limiter = "memory" THEN MemoryLimit(b) ELSE DurableLimit(b)

\* The alarm of the Durable Object, set to the end of the window, may ring any time later.
Alarm ==
  /\ limiter = "durable"
  /\ bucket.count > 0 /\ bucket.left <= 0
  /\ bucket' = [ count |-> 0, left |-> -1 ]
  /\ UNCHANGED <<limiter, watched, requests, allowed, worked, spurious>>

\* One more event, this moment.
Now(ages) == [ k \in DOMAIN ages |-> IF k = 1 THEN 0 ELSE ages[k - 1] ]

At(r, kind) == requests[r] # Idle /\ requests[r] # << >> /\ Head(requests[r]).kind = kind

Goes(r) == requests' = [requests EXCEPT ![r] = Tail(@)]

\* A RateLimitedError ends the request.
Ends(r) == requests' = [requests EXCEPT ![r] = Idle]

Consume(r) ==
  /\ At(r, "hit") /\ Head(requests[r]).key = watched
  /\ LET hit == LimitHit(bucket) IN
       /\ bucket' = hit.bucket
       /\ \/ /\ hit.ok /\ Goes(r)
             /\ allowed' = Now(allowed)
             /\ UNCHANGED spurious
          \/ /\ ~hit.ok /\ Ends(r)
             /\ spurious' = (spurious \/ allowed[Limit] > Window)
             /\ UNCHANGED allowed
  /\ UNCHANGED <<limiter, watched, worked>>

ConsumeOther(r) ==
  /\ At(r, "hit") /\ Head(requests[r]).key # watched
  /\ Goes(r) \/ Ends(r)
  /\ UNCHANGED <<limiter, watched, bucket, allowed, worked, spurious>>

\* What a bucket is there to limit: a value read, a message sent, a secret checked.
Work(r) ==
  /\ At(r, "do") /\ Goes(r)
  /\ worked' = IF Head(requests[r]).key = watched THEN Now(worked) ELSE worked
  /\ UNCHANGED <<limiter, watched, bucket, allowed, spurious>>

\* A request ends with its answer, or with any other error on its way.
Leave(r) ==
  /\ requests[r] # Idle /\ Ends(r)
  /\ UNCHANGED <<limiter, watched, bucket, allowed, worked, spurious>>

Older(ages) == [ k \in DOMAIN ages |-> IF ages[k] > Window THEN ages[k] ELSE ages[k] + 1 ]

\* Work begins right after the hit that allows it, far faster than a window moves.
Tick ==
  /\ \A r \in Requests : ~At(r, "do")
  /\ bucket' = [ bucket EXCEPT !.left = IF @ < 0 THEN @ ELSE @ - 1 ]
  /\ allowed' = Older(allowed) /\ worked' = Older(worked)
  /\ UNCHANGED <<limiter, watched, requests, spurious>>

Next ==
  \/ \E r \in Requests : Arrive(r) \/ Consume(r) \/ ConsumeOther(r) \/ Work(r) \/ Leave(r)
  \/ Alarm
  \/ Tick

Spec == Init /\ [][Next]_vars
-----------------------------------------------------------------------------
(* Properties.                                                             *)

\* Every bucket counts within its window, and every request is a list of steps.
TypeOK ==
  /\ bucket \in Bucket
  /\ \A r \in Requests : requests[r] # Idle => \A i \in DOMAIN requests[r] : requests[r][i].key \in Keys
  /\ allowed \in Ages /\ worked \in Ages

\* No matter from how many addresses, states or flows, and how their requests
\* interleave: in no span as long as a window is more work done for one session,
\* identity, recipient or address than a window allows and the next one but a hit,
\* and no value is read, message sent or secret checked beside the count.
WorkIsBounded == worked[2 * Limit] >= Window

\* A hit is refused only if the last window, its two ends counted, allowed all it may:
\* refused hits, the alarm and the traffic of other keys take no room from a caller.
RefusedOnlyWhenFull == ~spurious

\* A limit binds whoever asks too often, and nobody else.
LimitsHold == TypeOK /\ WorkIsBounded /\ RefusedOnlyWhenFull
=============================================================================
