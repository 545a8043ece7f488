------------------------------ MODULE Management ------------------------------
(***************************************************************************)
(* What AuthDanceApi (src/api.ts) does to the record of one identity and   *)
(* to its sessions: enroll, unenroll, rotate, recover, subscribe,          *)
(* unsubscribe, delete, and the sign-ins that run beside them; and to the  *)
(* sign-up that made the identity, when its last step is submitted again.  *)
(*                                                                         *)
(* A call that completes a flow reads the session, reads the whole         *)
(* identity, changes its own copy, and writes the copy back; a reset and a *)
(* delete list and delete the sessions on the way.  Each of these is a     *)
(* step of its own, and the calls of Calls interleave.  The identity       *)
(* adapter offers no compare-and-set.                                      *)
(*                                                                         *)
(* The state of a flow is with the client, who can complete it again as    *)
(* long as it did not expire.  How a person proves the right to complete   *)
(* one, the access token, the age of the sign-in and the code sent to a    *)
(* new value, is left out here: a step may fail at any point instead.      *)
(***************************************************************************)
EXTENDS Naturals, FiniteSets

CONSTANTS
  Components,        \* names of components that hold a value on the identity
  Channels,          \* names of channels
  Paths,             \* the complete paths of the choreography, as sets of components
  Emits,             \* the records a component adds beside its own, as keys
  ChannelOf,         \* the channel that carries the code of a component that asks for one
  RejectsDuplicates, \* whether the identity adapter refuses two records under a key
  SignUpIsOpen,      \* whether the states of the sign-up did not expire yet
  Values, SessionIds, Calls,
  MaxIssued,         \* bound: flows started from a session
  MaxResets,         \* bound: rotates and recovers completed
  Gone, Idle, None

Keys == ({"component"} \X Components) \cup ({"channel"} \X Channels)

\* A code component keeps no value of its own: its verificationComponent always
\* throws, so it is enrolled by the address that emits it, and by nothing else.
AsksForCode == DOMAIN ChannelOf
Collectable == Components \ AsksForCode

ASSUME ManagementAssumption ==
  /\ Paths \subseteq SUBSET Components
  /\ Emits \in [Components -> SUBSET Keys]
  /\ \A name \in Components : <<"component", name>> \notin Emits[name]
  /\ AsksForCode \subseteq Components
  /\ \A name \in AsksForCode : ChannelOf[name] \in Channels
  /\ MaxResets \in Nat /\ MaxIssued \in Nat
  /\ SignUpIsOpen \in BOOLEAN

\* A path that asks for a code holds the address whose channel carries it, and
\* only code components are emitted beside an address.
ASSUME CodesFollowTheirAddress ==
  /\ \A path \in Paths : \A name \in path \cap AsksForCode :
       \E address \in path \cap Collectable : <<"channel", ChannelOf[name]>> \in Emits[address]
  /\ \A name \in Components, side \in Components :
       <<"component", side>> \in Emits[name] => side \in AsksForCode

\* AuthDanceIdentityComponent; `links` is linkedTo, `value` the private data.
Record == [ key : Keys, confirmed : BOOLEAN, links : SUBSET Components, value : Values ]

Ops == {"enroll", "unenroll", "rotate", "recover", "subscribe", "unsubscribe", "delete"}

\* The states of the flows that a session starts.
Flow == [ op : Ops, session : SessionIds, key : Keys \cup {None} ]

\* A call under way, and the copy of the identity it is going to write.
Dances == {"sign-in", "sign-up"}

Call == [ op : Ops \cup Dances, session : SessionIds \cup {None}, key : Keys \cup {None},
          value : Values \cup {None}, phase : {"session", "changed", "listed", "mint"},
          copy : (SUBSET Record) \cup {Gone}, listed : SUBSET SessionIds, era : 0..MaxResets ]

VARIABLES
  identity,  \* what getIdentity returns
  sessions,  \* the sessions, each new, live or ended
  issued,    \* the flows started; a state that expired is one never submitted again
  calls,     \* the calls under way
  resets,    \* history: the number of rotates and recovers written
  era,       \* history: `resets` when the sign-in of the session read the identity
  latest     \* history: the value the last completed flow collected for a component

vars == <<identity, sessions, issued, calls, resets, era, latest>>
-----------------------------------------------------------------------------
Own(name, value) ==
  [ key |-> <<"component", name>>, confirmed |-> TRUE, links |-> {}, value |-> value ]

\* getIdentityComponent, once the flow confirmed the record of the component
\* itself: the channel of an address starts confirmed, its code challenge not.
Emitted(name, value) ==
  { Own(name, value) } \cup
  { [ key |-> key, confirmed |-> key[1] = "channel", links |-> {name}, value |-> value ] :
      key \in Emits[name] }

KeysOf(records) == { r.key : r \in records }

\* Variants with a bug, for CodesReachTheAddress and LatestCredential.
KeepSubscribedChannels(records, fresh) ==
  { r \in records : r.key[1] = "channel" \/ r.key \notin KeysOf(fresh) } \cup
  { f \in fresh : f.key[1] = "component" \/ f.key \notin KeysOf(records) }

ReplaceNothing(records, fresh) == records

\* A variant with a bug, for TypeOK: a channel links to the one it supersedes, and not to
\* what that one was linked to.
LinkedToTheChannel(records, fresh) ==
  { r \in records : r.key \notin KeysOf(fresh) } \cup
  { [f EXCEPT !.links = @ \cup { r.key[2] : r \in { q \in records : q.key = f.key /\ f.key[1] = "channel" } }] :
      f \in fresh }

\* #applyReplacement: the fresh records take the place of those with the same
\* key, and a channel keeps the links of the one it supersedes.
ApplyReplacement(records, fresh) ==
  { r \in records : r.key \notin KeysOf(fresh) } \cup
  { IF f.key[1] = "channel"
    THEN [f EXCEPT !.links = @ \cup UNION { r.links : r \in { q \in records : q.key = f.key } }]
    ELSE f : f \in fresh }

Linked(r) == {"component"} \X r.links

\* A variant with a bug, for LinksResolve.
ClosedOneWay(records, keys) == \A r \in records : r.key \in keys => Linked(r) \subseteq keys

\* #removalCollateral: the least set that holds the seed, every record that
\* links into it, and everything those records link to.
Closed(records, keys) ==
  \A r \in records :
    /\ Linked(r) \cap keys # {} => r.key \in keys
    /\ r.key \in keys => Linked(r) \subseteq keys

\* A variant with a bug, for NeverLockedOut.
SeedAlone(records, seed) == { seed }

Collateral(records, seed) ==
  LET closed == { keys \in SUBSET Keys : seed \in keys /\ Closed(records, keys) }
  IN  { key \in Keys : \A keys \in closed : key \in keys }

Survivors(records, seed) == { r \in records : r.key \notin Collateral(records, seed) }

\* #isChoreographyCompletableWithout.
IsCompletable(records) ==
  \E path \in Paths : \A name \in path :
    \E r \in records : r.key = <<"component", name>> /\ r.confirmed

HasDuplicates(records) == \E q, r \in records : q # r /\ q.key = r.key

\* What a step of a sign-in needs from the identity: a code goes to the channel
\* of its address, whether the code challenge is confirmed or not.
Performable(records, name) ==
  \E r \in records :
    IF name \in AsksForCode THEN r.key = <<"channel", ChannelOf[name]>>
    ELSE r.key = <<"component", name>> /\ r.confirmed

CanSignIn(records) == \E path \in Paths : \A name \in path : Performable(records, name)

\* The identity as a sign-up through one path leaves it: it confirmed the code
\* challenge of the address where the path asks for it.
SignedUp(path, value) ==
  { IF r.key[1] = "component" /\ r.key[2] \in path THEN [r EXCEPT !.confirmed = TRUE] ELSE r :
      r \in UNION { Emitted(name, value) : name \in path \cap Collectable } }

Init ==
  /\ \E path \in Paths, value \in Values :
       /\ IsCompletable(SignedUp(path, value))
       /\ identity = SignedUp(path, value)
       /\ latest = [name \in Collectable |-> value]
  /\ \E first \in SessionIds : sessions = [s \in SessionIds |-> IF s = first THEN "live" ELSE "new"]
  /\ issued = {}
  /\ calls = [c \in Calls |-> Idle]
  /\ resets = 0
  /\ era = [s \in SessionIds |-> 0]
-----------------------------------------------------------------------------
\* Starting a flow: a session that exists, an identity that exists, and the
\* condition of the flow.
MayStart(op, key) ==
  CASE op = "enroll" -> key[1] = "component" /\ key[2] \in Collectable /\ key \notin KeysOf(identity)
    [] op = "rotate" -> key[1] = "component" /\ key[2] \in Collectable /\ key \in KeysOf(identity)
    [] op = "unenroll" ->
         key[1] = "component" /\ key \in KeysOf(identity) /\ IsCompletable(Survivors(identity, key))
    [] op = "subscribe" -> key[1] = "channel" /\ key \notin KeysOf(identity)
    [] op = "unsubscribe" ->
         key[1] = "channel" /\ key \in KeysOf(identity) /\ IsCompletable(Survivors(identity, key))

IsIssuable(op, key) ==
  IF op = "delete" THEN key = None ELSE op # "recover" /\ key \in Keys /\ MayStart(op, key)

Start(session, op, key) ==
  /\ sessions[session] = "live" /\ identity # Gone
  /\ Cardinality(issued) < MaxIssued
  /\ IsIssuable(op, key)
  /\ issued' = issued \cup {[op |-> op, session |-> session, key |-> key]}
  /\ UNCHANGED <<identity, sessions, calls, resets, era, latest>>
-----------------------------------------------------------------------------
NewCall(op, session, key, phase, copy) ==
  [ op |-> op, session |-> session, key |-> key, value |-> None, phase |-> phase,
    copy |-> copy, listed |-> {}, era |-> IF op \in Dances THEN resets ELSE 0 ]

Goes(c, call) == calls' = [calls EXCEPT ![c] = call]

\* The last call of a flow: #getSessionAndIdentity reads the session first.
Submit(c, flow) ==
  /\ calls[c] = Idle
  /\ sessions[flow.session] = "live"
  /\ Goes(c, NewCall(flow.op, flow.session, flow.key, "session", Gone))
  /\ UNCHANGED <<identity, sessions, issued, resets, era, latest>>

\* The last call of a recovery, whose dance proved the identity without a session.
SubmitRecovery(c, name) ==
  /\ calls[c] = Idle
  /\ Goes(c, NewCall("recover", None, <<"component", name>>, "session", Gone))
  /\ UNCHANGED <<identity, sessions, issued, resets, era, latest>>

\* The last call of a sign-in: the value it submits matches the identity it
\* reads.  The component may ask for a record of its own to be rewritten.
SubmitSignIn(c) ==
  /\ calls[c] = Idle
  /\ identity # Gone
  /\ { name \in UNION Paths : Performable(identity, name) } # {}
  /\ \E phase \in {"changed", "mint"} : Goes(c, NewCall("sign-in", None, None, phase, identity))
  /\ UNCHANGED <<identity, sessions, issued, resets, era, latest>>

\* The last call of the sign-up, again: its state holds the identity id and the
\* records, so the call reads nothing, and a fork of the dance holds other ones.
SubmitSignUp(c, path, value) ==
  /\ calls[c] = Idle
  /\ SignUpIsOpen
  /\ IsCompletable(SignedUp(path, value))
  /\ Goes(c, [NewCall("sign-up", None, None, "changed", SignedUp(path, value)) EXCEPT !.value = value])
  /\ UNCHANGED <<identity, sessions, issued, resets, era, latest>>

AtIdentity(c) == calls[c] # Idle /\ calls[c].phase = "session" /\ identity # Gone

Collects == {"enroll", "rotate", "recover"}

\* #submitPromptStep and #submitValidationStep of a flow that collects a value.
ChangeValue(c, value) ==
  /\ AtIdentity(c) /\ calls[c].op \in Collects
  /\ LET fresh == Emitted(calls[c].key[2], value)
     IN  Goes(c, [calls[c] EXCEPT !.phase = "changed", !.value = value,
                    !.copy = IF calls[c].op = "enroll" THEN identity \cup fresh
                             ELSE ApplyReplacement(identity, fresh)])
  /\ UNCHANGED <<identity, sessions, issued, resets, era, latest>>

\* The channel the code of the subscribe flow confirmed.
ChangeChannel(c, value) ==
  /\ AtIdentity(c) /\ calls[c].op = "subscribe"
  /\ Goes(c, [calls[c] EXCEPT !.phase = "changed",
                !.copy = identity \cup
                  {[key |-> calls[c].key, confirmed |-> TRUE, links |-> {}, value |-> value]}])
  /\ UNCHANGED <<identity, sessions, issued, resets, era, latest>>

\* A confirmed removal looks at the lock-out again, on the identity as it is now.
ChangeRemoved(c) ==
  /\ AtIdentity(c) /\ calls[c].op \in {"unenroll", "unsubscribe"}
  /\ LET left == Survivors(identity, calls[c].key)
     IN  /\ IsCompletable(left)
         /\ Goes(c, [calls[c] EXCEPT !.phase = "changed", !.copy = left])
  /\ UNCHANGED <<identity, sessions, issued, resets, era, latest>>

ChangeDeleted(c) ==
  /\ AtIdentity(c) /\ calls[c].op = "delete"
  /\ Goes(c, [calls[c] EXCEPT !.phase = "changed"])
  /\ UNCHANGED <<identity, sessions, issued, resets, era, latest>>
-----------------------------------------------------------------------------
Resets == {"rotate", "recover"}

Keeps(call, session) == call.op = "rotate" /\ session = call.session

\* #revokeSessions and the delete list the sessions, then delete each of them.
\* A rotate keeps the session that ran it.
ListSessions(c) ==
  /\ calls[c] # Idle /\ calls[c].phase = "changed" /\ calls[c].op \in Resets \cup {"delete"}
  /\ Goes(c, [calls[c] EXCEPT !.phase = "listed",
                !.listed = { s \in SessionIds : sessions[s] = "live" /\ ~Keeps(calls[c], s) }])
  /\ UNCHANGED <<identity, sessions, issued, resets, era, latest>>

DeleteSession(c, session) ==
  /\ calls[c] # Idle /\ session \in calls[c].listed
  /\ sessions' = [sessions EXCEPT ![session] = "ended"]
  /\ Goes(c, [calls[c] EXCEPT !.listed = @ \ {session}])
  /\ UNCHANGED <<identity, issued, resets, era, latest>>

\* A variant with a bug, for ResetEndsSessions.
AtWriteFirst(call) == call.phase = "changed"

\* A reset writes the identity when its sessions are gone, another flow at once.
AtWrite(call) ==
  IF call.op \in Resets THEN call.phase = "listed" /\ call.listed = {} ELSE call.phase = "changed"

Collected(call) ==
  IF call.op \in Collects THEN [latest EXCEPT ![call.key[2]] = call.value] ELSE latest

\* setIdentity of the changed copy.
WriteIdentity(c) ==
  /\ calls[c] # Idle /\ calls[c].op \notin Dances \cup {"delete"} /\ AtWrite(calls[c])
  /\ ~(RejectsDuplicates /\ HasDuplicates(calls[c].copy))
  /\ identity' = calls[c].copy
  /\ latest' = Collected(calls[c])
  /\ IF calls[c].op \in Resets
     THEN /\ resets < MaxResets
          /\ resets' = resets + 1
          /\ era' = IF calls[c].op = "rotate" THEN [era EXCEPT ![calls[c].session] = resets + 1] ELSE era
     ELSE UNCHANGED <<resets, era>>
  /\ Goes(c, Idle)
  /\ UNCHANGED <<sessions, issued>>

\* #upgradeIdentity writes the identity the sign-in read; its records hold what
\* they held.
UpgradeIdentity(c) ==
  /\ calls[c] # Idle /\ calls[c].op = "sign-in" /\ calls[c].phase = "changed"
  /\ identity' = calls[c].copy
  /\ Goes(c, [calls[c] EXCEPT !.phase = "mint"])
  /\ UNCHANGED <<sessions, issued, resets, era, latest>>

\* The setIdentity of a sign-up, whatever is stored under the id.
SaveIdentity(c) ==
  /\ calls[c] # Idle /\ calls[c].op = "sign-up" /\ calls[c].phase = "changed"
  /\ identity' = calls[c].copy
  /\ latest' = [name \in Collectable |-> calls[c].value]
  /\ Goes(c, [calls[c] EXCEPT !.phase = "mint"])
  /\ UNCHANGED <<sessions, issued, resets, era>>

\* #issueTokens.
CreateSession(c, session) ==
  /\ calls[c] # Idle /\ calls[c].phase = "mint"
  /\ sessions[session] = "new"
  /\ sessions' = [sessions EXCEPT ![session] = "live"]
  /\ era' = [era EXCEPT ![session] = calls[c].era]
  /\ Goes(c, Idle)
  /\ UNCHANGED <<identity, issued, resets, latest>>

\* A variant with a bug, for DeletedForGood: the identity goes on to #advance.
DeleteAndAdvance(c) ==
  /\ calls[c] # Idle /\ calls[c].op = "delete"
  /\ calls[c].phase = "listed" /\ calls[c].listed = {}
  /\ identity' = Gone
  /\ Goes(c, NewCall("sign-in", None, None, "changed", identity))
  /\ UNCHANGED <<sessions, issued, resets, era, latest>>

\* The delete flow returns here and never reaches #advance.
DeleteIdentity(c) ==
  /\ calls[c] # Idle /\ calls[c].op = "delete"
  /\ calls[c].phase = "listed" /\ calls[c].listed = {}
  /\ identity' = Gone
  /\ Goes(c, Idle)
  /\ UNCHANGED <<sessions, issued, resets, era, latest>>

\* The call throws, or the server stops: what it wrote stays, the rest is lost.
Fail(c) ==
  /\ calls[c] # Idle
  /\ Goes(c, Idle)
  /\ UNCHANGED <<identity, sessions, issued, resets, era, latest>>

Next ==
  \/ \E session \in SessionIds, op \in Ops, key \in Keys \cup {None} : Start(session, op, key)
  \/ \E c \in Calls, flow \in issued : Submit(c, flow)
  \/ \E c \in Calls, name \in Collectable : SubmitRecovery(c, name)
  \/ \E c \in Calls : SubmitSignIn(c)
  \/ \E c \in Calls, path \in Paths, value \in Values : SubmitSignUp(c, path, value)
  \/ \E c \in Calls, value \in Values : ChangeValue(c, value)
  \/ \E c \in Calls, value \in Values : ChangeChannel(c, value)
  \/ \E c \in Calls : ChangeRemoved(c)
  \/ \E c \in Calls : ChangeDeleted(c)
  \/ \E c \in Calls : ListSessions(c)
  \/ \E c \in Calls, session \in SessionIds : DeleteSession(c, session)
  \/ \E c \in Calls : WriteIdentity(c)
  \/ \E c \in Calls : UpgradeIdentity(c)
  \/ \E c \in Calls : SaveIdentity(c)
  \/ \E c \in Calls, session \in SessionIds : CreateSession(c, session)
  \/ \E c \in Calls : DeleteIdentity(c)
  \/ \E c \in Calls : Fail(c)

Spec == Init /\ [][Next]_vars
-----------------------------------------------------------------------------
TypeOK ==
  /\ identity \in (SUBSET Record) \cup {Gone}
  /\ sessions \in [SessionIds -> {"new", "live", "ended"}]
  /\ issued \subseteq Flow
  /\ calls \in [Calls -> Call \cup {Idle}]
  /\ resets \in 0..MaxResets
  /\ era \in [SessionIds -> 0..MaxResets]
  /\ latest \in [Collectable -> Values]

\* Whatever flows run beside each other, the identity keeps a way in: some path
\* of which it holds every step.  The lock-out check looks at the identity
\* again when the removal is confirmed; a lost update brings back an identity
\* that had a way in (#isChoreographyCompletableWithout).
NeverLockedOut == identity # Gone => CanSignIn(identity)

\* A channel and a code challenge go when the component they are linked to
\* goes, and a link is kept when a reset emits the record again: no code goes to
\* the address of a component the identity does not hold (#removalCollateral).
LinksResolve ==
  identity # Gone =>
    \A r \in identity : \A name \in r.links : <<"component", name>> \in KeysOf(identity)

\* The channel and the code challenge an address emitted hold the address the
\* identity signs in with, also after a rotate and after a lost update, when the
\* adapter refuses two records under a key: no code goes to an address that was
\* replaced (#applyReplacement).
CodesReachTheAddress ==
  identity # Gone =>
    \A r \in identity : \A name \in r.links : \A q \in identity :
      (r.key \in Emits[name] /\ q.key = <<"component", name>>) => r.value = q.value

\* One call at a time: the delete is final, whatever states of the identity's
\* flows are submitted after it ("Never write the deleted identity back").
DeletedForGood == [][identity = Gone => identity' = Gone]_vars

\* A delete leaves no session, so no token outlives the identity, also when it
\* stops half way (docs/concepts/flows.mdx:80).
NoSessionOutlivesTheIdentity ==
  identity = Gone => \A s \in SessionIds : sessions[s] # "live"

\* Every live session is of a sign-in that read the identity after the last
\* reset, or ran that reset as a rotate: a completed reset deletes the others,
\* and one that stops half way does not write (#revokeSessions).
ResetEndsSessions == \A s \in SessionIds : sessions[s] = "live" => era[s] = resets

\* The identity holds the value the last completed flow collected: no write
\* brings back a credential that was replaced, nor loses the new one.
LatestCredential ==
  identity # Gone =>
    \A r \in identity : \A name \in Collectable :
      r.key = <<"component", name>> => r.value = latest[name]

\* A reset and a delete end the sessions of the credential they take away.
EndsReachTheSessions == NoSessionOutlivesTheIdentity /\ ResetEndsSessions
=============================================================================
