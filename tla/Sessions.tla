------------------------------- MODULE Sessions -------------------------------
(***************************************************************************)
(* The sessions of one identity, at the grain of the key value store       *)
(* (src/storage.ts, and the calls of src/api.ts on it).                    *)
(*                                                                         *)
(* A session is two keys, session/<id> and sessions/<identity>/<id>, that  *)
(* are written and unset side by side, each in its own time.  A refresh    *)
(* reads the record, mints, and writes it back with the next count; a      *)
(* sign-out reads the record or lists the index, then unsets both keys.    *)
(* No step of the store spans two keys and none compares before it writes. *)
(*                                                                         *)
(* A call may stop at any point: its writes that did not land are lost,    *)
(* and so is its answer.  A write that outlives the rejected call it is    *)
(* part of is one of a call that answers late.  The time to live of a      *)
(* session, which ends both keys as a sign-out does, is left out.          *)
(***************************************************************************)
EXTENDS Naturals, FiniteSets

CONSTANTS
  SessionIds,
  Grants,     \* the sessions of the clients of the oauth2 module; the rest are of a dance
  Calls,
  MaxCount,   \* bound: refreshes of one session
  None, Idle

ASSUME SessionsAssumption ==
  /\ Grants \subseteq SessionIds
  /\ MaxCount \in Nat
  /\ None \notin Nat \cup SessionIds

Counts == 0..MaxCount
Value == Counts \cup {None}
KeySpaces == {"record", "index"}  \* session/<id> and sessions/<identity>/<id>

Token == [ session : SessionIds, count : Counts ]
Write == [ space : KeySpaces, session : SessionIds, value : Value ]

\* `targets` are the sessions listed, then those still to delete; `ends` the
\* sessions the answer reports deleted; `known` is history, see ReachesAll.
Call == [ op : {"create", "refresh", "reuse", "sign-out", "sign-out-all", "revoke"},
          phase : {"list", "values", "delete", "write"},
          session : SessionIds \cup {None}, count : Counts,
          targets : SUBSET SessionIds, ends : SUBSET SessionIds, writes : SUBSET Write,
          known : SUBSET SessionIds ]

ASSUME IdleAssumption == Idle \notin Call

VARIABLES
  kv,       \* the two key spaces; the refreshCounter of the session, or None
  calls,    \* the calls under way
  tokens,   \* the refresh tokens a client received
  created,  \* the session ids taken
  ended,    \* history: the sessions an answer reported deleted
  raced,    \* history: the sessions a write met another write or a deletion of
  broken    \* history: the sessions a call stopped on with a write outstanding

vars == <<kv, calls, tokens, created, ended, raced, broken>>
-----------------------------------------------------------------------------
\* A key only the record has: a variant with a bug, for LiveIsListed and ReachesAll.
RecordOnly(s, value) == { [ space |-> "record", session |-> s, value |-> value ] }

\* createSession, setSession and deleteSession write both keys at once.
Both(s, value) == { [ space |-> space, session |-> s, value |-> value ] : space \in KeySpaces }

NewCall ==
  [ op |-> "create", phase |-> "write", session |-> None, count |-> 0, targets |-> {},
    ends |-> {}, writes |-> {}, known |-> {} ]

\* A call that writes the session with a count and answers with its token.
Minting(op, s, count) ==
  [NewCall EXCEPT !.op = op, !.session = s, !.count = count, !.writes = Both(s, count)]

Busy(c) == calls[c] # Idle
Writing(c, s) == Busy(c) /\ \E w \in calls[c].writes : w.session = s /\ w.value # None
Deleting(c, s) == Busy(c) /\ \E w \in calls[c].writes : w.session = s /\ w.value = None
Touches(c, s) == Writing(c, s) \/ Deleting(c, s)

Delivered == { t.session : t \in tokens }
Listed == { s \in SessionIds : kv["index"][s] # None }

Init ==
  /\ kv = [space \in KeySpaces |-> [s \in SessionIds |-> None]]
  /\ calls = [c \in Calls |-> Idle]
  /\ tokens = {} /\ created = {} /\ ended = {} /\ raced = {} /\ broken = {}

Begin(c, call) == calls' = [calls EXCEPT ![c] = call]

\* A variant with a bug, for TypeOK: the id is not taken.
CreateUntaken(c, s) ==
  /\ ~Busy(c) /\ s \notin created
  /\ Begin(c, Minting("create", s, 0))
  /\ UNCHANGED <<kv, tokens, created, ended, raced, broken>>

\* createSession, for a dance that completed or a grant.
Create(c, s) ==
  /\ ~Busy(c) /\ s \notin created
  /\ Begin(c, Minting("create", s, 0))
  /\ created' = created \cup {s}
  /\ UNCHANGED <<kv, tokens, ended, raced, broken>>

\* A variant with a bug, for CountsGoForward: the record keeps the count.
RefreshedSame(t) ==
  [Minting("refresh", t.session, t.count + 1) EXCEPT !.writes = Both(t.session, t.count)]

Refreshed(t) == Minting("refresh", t.session, t.count + 1)

\* A variant with a bug, for EndedForGood: nothing asks for the record.
RefreshUnread(c, t) ==
  /\ ~Busy(c) /\ t \in tokens /\ t.count < MaxCount
  /\ Begin(c, Refreshed(t))
  /\ UNCHANGED <<kv, tokens, created, ended, raced, broken>>

\* refreshToken up to the read of the session: the count decides.
Refresh(c, t) ==
  /\ ~Busy(c) /\ t \in tokens
  /\ kv["record"][t.session] = t.count /\ t.count < MaxCount
  /\ Begin(c, Refreshed(t))
  /\ raced' = raced \cup { s \in {t.session} : \E d \in Calls \ {c} : Touches(d, s) }
  /\ UNCHANGED <<kv, tokens, created, ended, broken>>

\* A token that is not the last one ends its session.
Reuse(c, t) ==
  /\ ~Busy(c) /\ t \in tokens
  /\ kv["record"][t.session] \notin {None, t.count}
  /\ Begin(c, [NewCall EXCEPT !.op = "reuse", !.phase = "delete", !.session = t.session,
                 !.targets = {t.session}, !.ends = {t.session}])
  /\ UNCHANGED <<kv, tokens, created, ended, raced, broken>>

\* signOut: it lists the sessions here too, and then leaves the list aside.
SignOut(c, s) ==
  /\ ~Busy(c) /\ s \in Delivered /\ kv["record"][s] # None
  /\ Begin(c, [NewCall EXCEPT !.op = "sign-out", !.phase = "delete", !.session = s,
                 !.targets = {s}, !.ends = {s}])
  /\ UNCHANGED <<kv, tokens, created, ended, raced, broken>>

SignOutAll(c, s) ==
  /\ ~Busy(c) /\ s \in Delivered /\ kv["record"][s] # None
  /\ Begin(c, [NewCall EXCEPT !.op = "sign-out-all", !.phase = "list", !.session = s,
                 !.known = Delivered \ (Grants \ {s})])
  /\ UNCHANGED <<kv, tokens, created, ended, raced, broken>>

\* #revokeSessions, in the completion of a reset: a rotate keeps the session
\* that ran it, and a recovery keeps none.
Revoke(c, kept) ==
  /\ ~Busy(c)
  /\ kept # None => kept \in Delivered /\ kv["record"][kept] # None
  /\ Begin(c, [NewCall EXCEPT !.op = "revoke", !.phase = "list", !.session = kept,
                 !.known = Delivered \ {kept}])
  /\ UNCHANGED <<kv, tokens, created, ended, raced, broken>>

\* listSession: the keys first, and then the value of each.
ListKeys(c) ==
  /\ Busy(c) /\ calls[c].phase = "list"
  /\ calls' = [calls EXCEPT ![c].phase = "values", ![c].targets = Listed]
  /\ UNCHANGED <<kv, tokens, created, ended, raced, broken>>

\* The filters of #revokeSessions and of signOut on the list.
Selects(call, s) ==
  IF call.op = "revoke" THEN s # call.session ELSE s \notin Grants \/ s = call.session

ReadValues(c) ==
  /\ Busy(c) /\ calls[c].phase = "values"
  /\ LET found == { s \in calls[c].targets \cap Listed : Selects(calls[c], s) }
     IN  calls' = [calls EXCEPT ![c].phase = "delete", ![c].targets = found, ![c].ends = found]
  /\ UNCHANGED <<kv, tokens, created, ended, raced, broken>>

\* deleteSession: it reads the record, and unsets nothing without one.
DeleteSession(c, s) ==
  /\ Busy(c) /\ calls[c].phase = "delete" /\ s \in calls[c].targets
  /\ calls' = [calls EXCEPT ![c].targets = @ \ {s},
                 ![c].writes = @ \cup (IF kv["record"][s] = None THEN {} ELSE Both(s, None))]
  /\ raced' = raced \cup { x \in {s} : \E d \in Calls \ {c} : Writing(d, x) }
  /\ UNCHANGED <<kv, tokens, created, ended, broken>>

\* One write of a call reaches the store.
Land(c, w) ==
  /\ Busy(c) /\ w \in calls[c].writes
  /\ kv' = [kv EXCEPT ![w.space][w.session] = w.value]
  /\ calls' = [calls EXCEPT ![c].writes = @ \ {w}]
  /\ UNCHANGED <<tokens, created, ended, raced, broken>>

Landed(c) ==
  /\ Busy(c) /\ calls[c].phase \in {"write", "delete"}
  /\ calls[c].writes = {} /\ calls[c].targets = {}

\* The call answers: a client receives the tokens, or learns that the sessions ended.
Answer(c) ==
  /\ Landed(c)
  /\ tokens' = tokens \cup { t \in Token : /\ calls[c].op \in {"create", "refresh"}
                                           /\ t.session = calls[c].session
                                           /\ t.count = calls[c].count }
  /\ ended' = ended \cup calls[c].ends
  /\ calls' = [calls EXCEPT ![c] = Idle]
  /\ UNCHANGED <<kv, created, raced, broken>>

\* The call stops: a write fails, the process ends, or the answer is lost.
Fail(c) ==
  /\ Busy(c)
  /\ calls' = [calls EXCEPT ![c] = Idle]
  /\ broken' = broken \cup { w.session : w \in calls[c].writes }
  /\ UNCHANGED <<kv, tokens, created, ended, raced>>

Next ==
  \E c \in Calls :
    \/ \E s \in SessionIds : Create(c, s) \/ SignOut(c, s) \/ SignOutAll(c, s) \/ DeleteSession(c, s)
    \/ \E t \in tokens : Refresh(c, t) \/ Reuse(c, t)
    \/ \E kept \in SessionIds \cup {None} : Revoke(c, kept)
    \/ ListKeys(c) \/ ReadValues(c)
    \/ \E space \in KeySpaces, s \in SessionIds, value \in Value :
         Land(c, [ space |-> space, session |-> s, value |-> value ])
    \/ Answer(c) \/ Fail(c)

Spec == Init /\ [][Next]_vars
-----------------------------------------------------------------------------
\* Types: a session key holds a count, and only sessions created are touched.
TypeOK ==
  /\ kv \in [KeySpaces -> [SessionIds -> Value]]
  /\ calls \in [Calls -> Call \cup {Idle}]
  /\ tokens \subseteq Token
  /\ created \in SUBSET SessionIds
  /\ ended \in SUBSET created /\ raced \in SUBSET created /\ broken \in SUBSET created

\* refreshToken's doc: a session that an answer reported deleted, by a
\* sign-out, a reset or the return of an old token, cannot be refreshed back.
\* It stays away unless a write of it was under way beside the deletion.
EndedForGood == \A s \in ended \ raced : kv["record"][s] = None

\* refreshToken's doc: only the token with the current count passes.  As long as
\* no two calls wrote a session at a time, its record never falls behind a token
\* that a client holds, so a token that was exchanged never passes again.
CountsGoForward ==
  \A t \in tokens :
    t.session \notin raced /\ kv["record"][t.session] # None => t.count <= kv["record"][t.session]

\* storage.ts keeps a session under two keys.  When no call is on a session and
\* none raced or stopped half-way, listSession shows it exactly when
\* getSession finds it: a session in use is one its owner can see and end.
LiveIsListed ==
  \A s \in SessionIds \ (raced \cup broken) :
    (\A c \in Calls : ~Touches(c, s)) => (kv["record"][s] # None <=> kv["index"][s] # None)

SurvivesNone(c, s) == kv["record"][s] = None \/ \E d \in Calls \ {c} : Deleting(d, s)

\* signOut with `others`, and #revokeSessions: when the call answers, every
\* session it should end whose tokens a client held before it began is gone, or
\* another call is about to unset it; unless one raced it or broke it.
ReachesAll ==
  \A c \in Calls :
    Landed(c) => \A s \in calls[c].known \ (raced \cup broken) : SurvivesNone(c, s)

\* As the docs state it: "a sign-out, a delete, a reset or a revocation stops
\* it", the exchange of a refresh token.  A count above 0 is one an exchange wrote.
EndedStaysEnded == \A s \in ended : kv["record"][s] \in {None, 0}

\* The list of an identity shows its sessions, and what ends a part of the list ends all of it.
IndexShowsTheSessions == LiveIsListed /\ ReachesAll
=============================================================================
