--------------------------- MODULE Sessions_proofs ---------------------------
(***************************************************************************)
(* Proofs about Sessions for every number of sessions, calls and           *)
(* refreshes: a session that an answer reported deleted stays deleted, as  *)
(* long as no write of it met a deletion of it.                            *)
(*                                                                         *)
(* It rests on who still holds a write of a session: outside `raced`, a    *)
(* session that a call is past deleting has no writer left.                *)
(*                                                                         *)
(* And about the other end of a session, the tokens on the page            *)
(* (ClientTokens), for any calls, sessions and exchanges.                  *)
(***************************************************************************)
EXTENDS Sessions, MCClientTokens, Naturals, Sequences, SequenceTheorems, TLAPS

\* Only sessions that were created are on a call, in a key or in a token.
CallCreated(call) ==
  /\ call.session \in created \cup {None}
  /\ call.targets \subseteq created /\ call.ends \subseteq created
  /\ \A w \in call.writes : w.session \in created

CreatedInv ==
  /\ \A space \in KeySpaces, s \in SessionIds : kv[space][s] # None => s \in created
  /\ \A t \in tokens : t.session \in created
  /\ \A c \in Calls : Busy(c) => CallCreated(calls[c])

Mints(call) == call.op \in {"create", "refresh"}

\* The shape of a call: one that mints writes its count for its own session, any
\* other writes None, for sessions it ends and already took off its list.
CallFits(call) ==
  /\ Mints(call) => /\ call.phase = "write" /\ call.session # None
                    /\ call.ends = {} /\ call.targets = {}
                    /\ \A w \in call.writes : w.session = call.session /\ w.value = call.count
  /\ ~Mints(call) => /\ call.phase # "write"
                     /\ \A w \in call.writes : w.value = None
  /\ call.phase \in {"list", "values"} => call.ends = {} /\ call.writes = {}

Claims(c, s) == Busy(c) /\ s \in calls[c].ends \ calls[c].targets

Unset(s) == [ space |-> "record", session |-> s, value |-> None ]

\* A session that is ended, or that a call is past deleting, has no writer.
IsClosed(s) == s \in ended \/ \E c \in Calls : Claims(c, s)

ClosedInv ==
  \A s \in SessionIds \ raced :
    /\ IsClosed(s) => \A c \in Calls : ~Writing(c, s)
    /\ s \in ended => kv["record"][s] = None
    /\ \A c \in Calls : Claims(c, s) => kv["record"][s] = None \/ Unset(s) \in calls[c].writes

IInv ==
  /\ TypeOK
  /\ CreatedInv
  /\ \A c \in Calls : Busy(c) => CallFits(calls[c])
  /\ ClosedInv
-----------------------------------------------------------------------------
\* The value None is no count.
LEMMA NoneIsNoCount == None \notin Counts
BY SessionsAssumption DEF Counts

\* Nothing is created, so nothing is written, ended or held by a client.
LEMMA InitInv == Init => IInv
<1> SUFFICES ASSUME Init PROVE IInv
  OBVIOUS
<1>1. TypeOK /\ CreatedInv
  BY DEF Init, TypeOK, CreatedInv, Busy, Value, KeySpaces
<1> QED BY <1>1 DEF Init, IInv, ClosedInv, IsClosed, Claims, Busy, KeySpaces

\* A call that mints writes both keys of its session.
LEMMA MintingCall ==
  ASSUME NEW op \in {"create", "refresh"}, NEW s \in SessionIds, NEW count \in Counts
  PROVE  /\ Minting(op, s, count) \in Call /\ CallFits(Minting(op, s, count))
         /\ Minting(op, s, count).op = op
         /\ Minting(op, s, count).session = s
         /\ Minting(op, s, count).count = count
         /\ Minting(op, s, count).writes = Both(s, count)
         /\ Minting(op, s, count).targets = {}
         /\ Minting(op, s, count).ends = {}
<1> DEFINE call == Minting(op, s, count)
<1>1. Both(s, count) \in SUBSET Write /\ \A w \in Both(s, count) : w.session = s /\ w.value = count
  BY DEF Both, Write, Value
<1>2. call \in Call
  BY <1>1, SessionsAssumption DEF Call, Minting, NewCall, Counts
<1>3. /\ call.op = op /\ call.session = s /\ call.count = count /\ call.writes = Both(s, count)
      /\ call.ends = {} /\ call.targets = {} /\ call.phase = "write"
  BY DEF Minting, NewCall
<1>4. s # None
  BY SessionsAssumption
<1> HIDE DEF call
<1>5. CallFits(call)
  BY <1>1, <1>3, <1>4 DEF CallFits, Mints
<1> QED BY <1>2, <1>3, <1>5 DEF call

\* What a step does to the call it is about is all that the other calls see.
LEMMA CallStep ==
  ASSUME IInv, NEW c \in Calls, NEW call, calls' = [calls EXCEPT ![c] = call],
         call = Idle \/ (call \in Call /\ CallFits(call))
  PROVE  /\ calls' \in [Calls -> Call \cup {Idle}]
         /\ \A d \in Calls : Busy(d)' => CallFits(calls'[d])
         /\ calls'[c] = call
         /\ \A d \in Calls \ {c} : calls'[d] = calls[d]
BY DEF IInv, TypeOK, Busy

\* A call that starts, or answers, or stops: it neither claims nor writes a
\* session that was not free, so what the other calls claim stays closed.
LEMMA QuietStep ==
  ASSUME IInv, NEW c \in Calls, NEW call, calls' = [calls EXCEPT ![c] = call],
         call = Idle \/ (call \in Call /\ CallFits(call) /\ call.writes = {} /\ call.ends \subseteq call.targets),
         UNCHANGED <<kv, raced>>, ended' = ended
  PROVE  ClosedInv'
<1>1. /\ calls'[c] = call
      /\ \A d \in Calls \ {c} : calls'[d] = calls[d]
  BY CallStep
<1>2. \A s \in SessionIds : ~Claims(c, s)'
  BY <1>1 DEF Claims, Busy
<1>3. \A s \in SessionIds : ~Writing(c, s)'
  BY <1>1 DEF Writing, Busy
<1>4. \A d \in Calls \ {c} : \A s \in SessionIds : Claims(d, s)' <=> Claims(d, s)
  BY <1>1 DEF Claims, Busy
<1>5. \A d \in Calls \ {c} : \A s \in SessionIds : Writing(d, s)' <=> Writing(d, s)
  BY <1>1 DEF Writing, Busy
<1>6. ASSUME NEW s \in SessionIds \ raced PROVE IsClosed(s)' => IsClosed(s)
  BY <1>2, <1>4 DEF IsClosed
<1> SUFFICES ASSUME NEW s \in SessionIds \ raced
             PROVE  /\ IsClosed(s)' => \A d \in Calls : ~Writing(d, s)'
                    /\ s \in ended => kv["record"][s] = None
                    /\ \A d \in Calls : Claims(d, s)' => kv["record"][s] = None \/ Unset(s) \in calls'[d].writes
  BY DEF ClosedInv, Unset
<1>7. IsClosed(s)' => \A d \in Calls : ~Writing(d, s)'
  BY <1>3, <1>5, <1>6 DEF IInv, ClosedInv
<1>8. ASSUME NEW d \in Calls, Claims(d, s)'
      PROVE  kv["record"][s] = None \/ Unset(s) \in calls'[d].writes
  BY <1>1, <1>2, <1>4, <1>8 DEF IInv, ClosedInv
<1> QED BY <1>7, <1>8 DEF IInv, ClosedInv
-----------------------------------------------------------------------------
\* createSession: no call ends a session that is not created yet.
LEMMA CreateStep ==
  ASSUME IInv, NEW c \in Calls, NEW s \in SessionIds, Create(c, s)
  PROVE  IInv'
<1> DEFINE call == Minting("create", s, 0)
<1>2. 0 \in Counts
  BY SessionsAssumption DEF Counts
<1>3. /\ call \in Call /\ CallFits(call) /\ call.ends = {} /\ call.op = "create"
      /\ call.session = s /\ call.writes = Both(s, 0) /\ call.targets = {}
  BY <1>2, MintingCall
<1>4. calls' = [calls EXCEPT ![c] = call] /\ s \notin created /\ created' = created \cup {s}
      /\ UNCHANGED <<kv, tokens, ended, raced, broken>>
  BY DEF Create, Begin
<1> HIDE DEF call
<1>5. /\ calls' \in [Calls -> Call \cup {Idle}]
      /\ \A d \in Calls : Busy(d)' => CallFits(calls'[d])
      /\ calls'[c] = call
      /\ \A d \in Calls \ {c} : calls'[d] = calls[d]
  BY <1>3, <1>4, CallStep
<1>6. TypeOK'
  BY <1>4, <1>5 DEF IInv, TypeOK
<1>7. \A w \in Both(s, 0) : w.session = s
  BY DEF Both
<1>8. CreatedInv'
  <2>1. ASSUME NEW d \in Calls, Busy(d)' PROVE CallCreated(calls[d])' 
    BY <1>3, <1>4, <1>5, <1>7, <2>1 DEF IInv, CreatedInv, CallCreated, Busy
  <2> QED BY <1>4, <2>1 DEF IInv, CreatedInv
<1>9. ClosedInv'
  <2> SUFFICES ASSUME NEW x \in SessionIds \ raced
               PROVE  /\ IsClosed(x)' => \A d \in Calls : ~Writing(d, x)'
                      /\ x \in ended => kv["record"][x] = None
                      /\ \A d \in Calls : Claims(d, x)' => kv["record"][x] = None \/ Unset(x) \in calls'[d].writes
    BY <1>4 DEF ClosedInv, Unset
  <2>1. ~Claims(c, x)'
    BY <1>3, <1>5 DEF Claims
  <2>2. \A d \in Calls \ {c} : (Claims(d, x)' <=> Claims(d, x)) /\ (Writing(d, x)' <=> Writing(d, x))
    BY <1>5 DEF Claims, Writing, Busy
  <2>3. IsClosed(x)' => IsClosed(x)
    BY <1>4, <2>1, <2>2 DEF IsClosed
  <2>4. IsClosed(x) => x \in created
    BY DEF IsClosed, Claims, IInv, TypeOK, CreatedInv, CallCreated
  <2>5. x # s => ~Writing(c, x)'
    BY <1>3, <1>5, <1>7 DEF Writing
  <2>6. IsClosed(x)' => \A d \in Calls : ~Writing(d, x)'
    BY <1>4, <2>2, <2>3, <2>4, <2>5 DEF IInv, ClosedInv
  <2>7. ASSUME NEW d \in Calls, Claims(d, x)'
        PROVE  kv["record"][x] = None \/ Unset(x) \in calls'[d].writes
    BY <1>5, <2>1, <2>2, <2>7 DEF IInv, ClosedInv
  <2> QED BY <2>6, <2>7 DEF IInv, ClosedInv
<1> QED BY <1>5, <1>6, <1>8, <1>9 DEF IInv
-----------------------------------------------------------------------------
\* The call that every other is made from.
LEMMA NewCallTyped == NewCall \in Call
<1>1. 0 \in Counts
  BY SessionsAssumption DEF Counts
<1>2. {} \in SUBSET SessionIds /\ {} \in SUBSET Write
  OBVIOUS
<1> QED BY <1>1, <1>2 DEF NewCall, Call

\* A step that changes one call only, to one that neither claims nor writes.
LEMMA QuietKeeps ==
  ASSUME IInv, NEW c \in Calls, NEW call, calls' = [calls EXCEPT ![c] = call],
         call = Idle \/ (/\ call \in Call /\ CallFits(call) /\ CallCreated(call)
                         /\ call.writes = {} /\ call.ends \subseteq call.targets),
         UNCHANGED <<kv, tokens, created, ended, raced>>, broken' \in SUBSET created
  PROVE  IInv'
<1>1. /\ calls' \in [Calls -> Call \cup {Idle}]
      /\ \A d \in Calls : Busy(d)' => CallFits(calls'[d])
      /\ calls'[c] = call
      /\ \A d \in Calls \ {c} : calls'[d] = calls[d]
  BY CallStep
<1>2. TypeOK'
  BY <1>1 DEF IInv, TypeOK
<1>3. CreatedInv'
  <2>1. ASSUME NEW d \in Calls, Busy(d)' PROVE CallCreated(calls[d])'
    BY <1>1, <2>1 DEF IInv, CreatedInv, CallCreated, Busy
  <2> QED BY <2>1 DEF IInv, CreatedInv
<1>4. ClosedInv'
  BY QuietStep
<1> QED BY <1>1, <1>2, <1>3, <1>4 DEF IInv

\* The call that returns an old token: it ends the session of the token.
LEMMA ReuseStep ==
  ASSUME IInv, NEW c \in Calls, NEW t \in tokens, Reuse(c, t)
  PROVE  IInv'
<1> DEFINE call == [NewCall EXCEPT !.op = "reuse", !.phase = "delete", !.session = t.session,
                      !.targets = {t.session}, !.ends = {t.session}]
<1>1. t.session \in created /\ t.session \in SessionIds
  BY DEF IInv, CreatedInv, TypeOK, Token
<1>2. /\ call \in Call /\ CallFits(call) /\ CallCreated(call)
      /\ call.writes = {} /\ call.ends \subseteq call.targets
  <2>1. /\ call.op = "reuse" /\ call.phase = "delete" /\ call.session = t.session
        /\ call.targets = {t.session} /\ call.ends = {t.session} /\ call.writes = {}
    BY DEF NewCall
  <2>2. call \in Call
    BY <1>1, NewCallTyped DEF Call
  <2> HIDE DEF call
  <2> QED BY <1>1, <2>1, <2>2 DEF CallFits, Mints, CallCreated
<1>3. calls' = [calls EXCEPT ![c] = call]
  BY DEF Reuse, Begin
<1> HIDE DEF call
<1>4. UNCHANGED <<kv, tokens, created, ended, raced>> /\ broken' \in SUBSET created
  BY DEF Reuse, IInv, TypeOK
<1> QED BY <1>2, <1>3, <1>4, QuietKeeps

\* signOut of one session.
LEMMA SignOutStep ==
  ASSUME IInv, NEW c \in Calls, NEW s \in SessionIds, SignOut(c, s)
  PROVE  IInv'
<1> DEFINE call == [NewCall EXCEPT !.op = "sign-out", !.phase = "delete", !.session = s,
                      !.targets = {s}, !.ends = {s}]
<1>1. s \in created
  BY DEF SignOut, Delivered, IInv, CreatedInv
<1>2. /\ call \in Call /\ CallFits(call) /\ CallCreated(call)
      /\ call.writes = {} /\ call.ends \subseteq call.targets
  <2>1. /\ call.op = "sign-out" /\ call.phase = "delete" /\ call.session = s
        /\ call.targets = {s} /\ call.ends = {s} /\ call.writes = {}
    BY DEF NewCall
  <2>2. call \in Call
    BY <1>1, NewCallTyped DEF Call
  <2> HIDE DEF call
  <2> QED BY <1>1, <2>1, <2>2 DEF CallFits, Mints, CallCreated
<1>3. calls' = [calls EXCEPT ![c] = call]
  BY DEF SignOut, Begin
<1> HIDE DEF call
<1>4. UNCHANGED <<kv, tokens, created, ended, raced>> /\ broken' \in SUBSET created
  BY DEF SignOut, IInv, TypeOK
<1> QED BY <1>2, <1>3, <1>4, QuietKeeps

\* signOut of the others too: it starts with the list.
LEMMA SignOutAllStep ==
  ASSUME IInv, NEW c \in Calls, NEW s \in SessionIds, SignOutAll(c, s)
  PROVE  IInv'
<1> DEFINE call == [NewCall EXCEPT !.op = "sign-out-all", !.phase = "list", !.session = s,
                      !.known = Delivered \ (Grants \ {s})]
<1>1. s \in created /\ Delivered \subseteq SessionIds
  BY DEF SignOutAll, Delivered, IInv, CreatedInv, TypeOK, Token
<1>2. /\ call \in Call /\ CallFits(call) /\ CallCreated(call)
      /\ call.writes = {} /\ call.ends \subseteq call.targets
  <2>1. /\ call.op = "sign-out-all" /\ call.phase = "list" /\ call.session = s
        /\ call.targets = {} /\ call.ends = {} /\ call.writes = {}
    BY DEF NewCall
  <2>2. call \in Call
    BY <1>1, NewCallTyped DEF Call
  <2> HIDE DEF call
  <2> QED BY <1>1, <2>1, <2>2 DEF CallFits, Mints, CallCreated
<1>3. calls' = [calls EXCEPT ![c] = call]
  BY DEF SignOutAll, Begin
<1> HIDE DEF call
<1>4. UNCHANGED <<kv, tokens, created, ended, raced>> /\ broken' \in SUBSET created
  BY DEF SignOutAll, IInv, TypeOK
<1> QED BY <1>2, <1>3, <1>4, QuietKeeps

\* The revocation of a reset: it starts with the list.
LEMMA RevokeStep ==
  ASSUME IInv, NEW c \in Calls, NEW kept \in SessionIds \cup {None}, Revoke(c, kept)
  PROVE  IInv'
<1> DEFINE call == [NewCall EXCEPT !.op = "revoke", !.phase = "list", !.session = kept,
                      !.known = Delivered \ {kept}]
<1>1. Delivered \subseteq SessionIds /\ kept \in created \cup {None}
  BY DEF Revoke, Delivered, IInv, CreatedInv, TypeOK, Token
<1>2. /\ call \in Call /\ CallFits(call) /\ CallCreated(call)
      /\ call.writes = {} /\ call.ends \subseteq call.targets
  <2>1. /\ call.op = "revoke" /\ call.phase = "list" /\ call.session = kept
        /\ call.targets = {} /\ call.ends = {} /\ call.writes = {}
    BY DEF NewCall
  <2>2. call \in Call
    BY <1>1, NewCallTyped DEF Call
  <2> HIDE DEF call
  <2> QED BY <1>1, <2>1, <2>2 DEF CallFits, Mints, CallCreated
<1>3. calls' = [calls EXCEPT ![c] = call]
  BY DEF Revoke, Begin
<1> HIDE DEF call
<1>4. UNCHANGED <<kv, tokens, created, ended, raced>> /\ broken' \in SUBSET created
  BY DEF Revoke, IInv, TypeOK
<1> QED BY <1>2, <1>3, <1>4, QuietKeeps

\* listSession lists keys, and so sessions that were created.
LEMMA ListKeysStep ==
  ASSUME IInv, NEW c \in Calls, ListKeys(c)
  PROVE  IInv'
<1> DEFINE call == [calls[c] EXCEPT !.phase = "values", !.targets = Listed]
<1>1. Listed \subseteq created /\ Listed \subseteq SessionIds
  BY DEF Listed, IInv, CreatedInv, KeySpaces
<1>2. /\ calls[c] \in Call /\ CallFits(calls[c]) /\ CallCreated(calls[c])
      /\ calls[c].phase = "list"
  BY DEF ListKeys, Busy, IInv, TypeOK, CreatedInv
<1>3. /\ call \in Call /\ CallFits(call) /\ CallCreated(call)
      /\ call.writes = {} /\ call.ends \subseteq call.targets
  BY <1>1, <1>2 DEF Call, CallFits, Mints, CallCreated
<1>4. calls' = [calls EXCEPT ![c] = call]
  BY DEF ListKeys, IInv, TypeOK
<1> HIDE DEF call
<1>5. UNCHANGED <<kv, tokens, created, ended, raced>> /\ broken' \in SUBSET created
  BY DEF ListKeys, IInv, TypeOK
<1> QED BY <1>3, <1>4, <1>5, QuietKeeps

\* What the list found is what the answer reports, and none of it is deleted yet.
LEMMA ReadValuesStep ==
  ASSUME IInv, NEW c \in Calls, ReadValues(c)
  PROVE  IInv'
<1> DEFINE found == { s \in calls[c].targets \cap Listed : Selects(calls[c], s) }
           call == [calls[c] EXCEPT !.phase = "delete", !.targets = found, !.ends = found]
<1>1. found \subseteq created /\ found \subseteq SessionIds
  BY DEF Listed, IInv, CreatedInv, KeySpaces
<1>2. /\ calls[c] \in Call /\ CallFits(calls[c]) /\ CallCreated(calls[c])
      /\ calls[c].phase = "values"
  BY DEF ReadValues, Busy, IInv, TypeOK, CreatedInv
<1>3. calls' = [calls EXCEPT ![c] = call]
  BY DEF ReadValues, IInv, TypeOK
<1> HIDE DEF found
<1>4. /\ call \in Call /\ CallFits(call) /\ CallCreated(call)
      /\ call.writes = {} /\ call.ends \subseteq call.targets
  BY <1>1, <1>2 DEF Call, CallFits, Mints, CallCreated
<1> HIDE DEF call
<1>5. UNCHANGED <<kv, tokens, created, ended, raced>> /\ broken' \in SUBSET created
  BY DEF ReadValues, IInv, TypeOK
<1> QED BY <1>3, <1>4, <1>5, QuietKeeps

\* The call stops: what it claimed, no answer reports.
LEMMA FailStep ==
  ASSUME IInv, NEW c \in Calls, Fail(c)
  PROVE  IInv'
<1>1. CallCreated(calls[c]) /\ broken \in SUBSET created
  BY DEF Fail, IInv, CreatedInv, TypeOK
<1>2. broken' \in SUBSET created
  BY <1>1 DEF Fail, CallCreated
<1>3. calls' = [calls EXCEPT ![c] = Idle] /\ UNCHANGED <<kv, tokens, created, ended, raced>>
  BY DEF Fail
<1> QED BY <1>2, <1>3, QuietKeeps
-----------------------------------------------------------------------------
\* The exchange of a token: its session has a record.  Were the session closed,
\* that record would be one a call is about to unset, and the two race.
LEMMA RefreshStep ==
  ASSUME IInv, NEW c \in Calls, NEW t \in tokens, Refresh(c, t)
  PROVE  IInv'
<1> DEFINE s == t.session
           call == Minting("refresh", s, t.count + 1)
<1>1. s \in created /\ s \in SessionIds /\ t.count \in Counts
  BY DEF IInv, CreatedInv, TypeOK, Token
<1>2. t.count + 1 \in Counts
  BY <1>1, SessionsAssumption DEF Refresh, Counts
<1>3. /\ call \in Call /\ CallFits(call) /\ call.ends = {}
      /\ call.session = s /\ call.writes = Both(s, t.count + 1) /\ call.targets = {}
  BY <1>1, <1>2, MintingCall
<1>4. /\ calls' = [calls EXCEPT ![c] = call]
      /\ raced' = raced \cup { x \in {s} : \E d \in Calls \ {c} : Touches(d, x) }
      /\ kv["record"][s] = t.count /\ ~Busy(c)
      /\ UNCHANGED <<kv, tokens, created, ended, broken>>
  BY DEF Refresh, Begin, Refreshed
<1>5. kv["record"][s] # None
  BY <1>1, <1>4, NoneIsNoCount
<1> HIDE DEF call, s
<1>6. /\ calls' \in [Calls -> Call \cup {Idle}]
      /\ \A d \in Calls : Busy(d)' => CallFits(calls'[d])
      /\ calls'[c] = call
      /\ \A d \in Calls \ {c} : calls'[d] = calls[d]
  BY <1>3, <1>4, CallStep
<1>7. TypeOK'
  BY <1>1, <1>4, <1>6 DEF IInv, TypeOK
<1>8. \A w \in Both(s, t.count + 1) : w.session = s
  BY DEF Both
<1>9. CreatedInv'
  <2>1. ASSUME NEW d \in Calls, Busy(d)' PROVE CallCreated(calls[d])'
    BY <1>1, <1>3, <1>4, <1>6, <1>8, <2>1 DEF IInv, CreatedInv, CallCreated, Busy
  <2> QED BY <1>4, <2>1 DEF IInv, CreatedInv
<1>10. ClosedInv'
  <2> SUFFICES ASSUME NEW x \in SessionIds \ raced'
               PROVE  /\ IsClosed(x)' => \A d \in Calls : ~Writing(d, x)'
                      /\ x \in ended => kv["record"][x] = None
                      /\ \A d \in Calls : Claims(d, x)' => kv["record"][x] = None \/ Unset(x) \in calls'[d].writes
    BY <1>4 DEF ClosedInv, Unset
  <2>1. x \in SessionIds \ raced
    BY <1>4
  <2>2. ~Claims(c, x)' /\ ~Claims(c, x)
    BY <1>3, <1>4, <1>6 DEF Claims
  <2>3. \A d \in Calls \ {c} : (Claims(d, x)' <=> Claims(d, x)) /\ (Writing(d, x)' <=> Writing(d, x))
    BY <1>6 DEF Claims, Writing, Busy
  <2>4. IsClosed(x)' => IsClosed(x)
    BY <1>4, <2>2, <2>3 DEF IsClosed
  <2>5. ASSUME IsClosed(x) PROVE x # s
    <3> SUFFICES ASSUME x = s PROVE FALSE
      OBVIOUS
    <3>1. x \notin ended
      BY <1>5, <2>1 DEF IInv, ClosedInv
    <3>2. PICK d \in Calls \ {c} : Claims(d, x)
      BY <2>2, <2>5, <3>1 DEF IsClosed
    <3>3. Unset(x) \in calls[d].writes
      BY <1>5, <2>1, <3>2 DEF IInv, ClosedInv
    <3>4. Touches(d, x)
      BY <3>2, <3>3 DEF Touches, Deleting, Claims, Unset
    <3> QED BY <1>4, <3>4
  <2>6. x # s => ~Writing(c, x)'
    BY <1>3, <1>6, <1>8 DEF Writing
  <2>7. IsClosed(x)' => \A d \in Calls : ~Writing(d, x)'
    BY <2>1, <2>3, <2>4, <2>5, <2>6 DEF IInv, ClosedInv
  <2>8. ASSUME NEW d \in Calls, Claims(d, x)'
        PROVE  kv["record"][x] = None \/ Unset(x) \in calls'[d].writes
    BY <1>6, <2>1, <2>2, <2>3, <2>8 DEF IInv, ClosedInv
  <2> QED BY <2>1, <2>7, <2>8 DEF IInv, ClosedInv
<1> QED BY <1>6, <1>7, <1>9, <1>10 DEF IInv

\* deleteSession: a write of the session under way makes a race of it, so
\* outside `raced` the session that the call now claims has no writer.
LEMMA DeleteSessionStep ==
  ASSUME IInv, NEW c \in Calls, NEW s \in SessionIds, DeleteSession(c, s)
  PROVE  IInv'
<1> DEFINE unset == IF kv["record"][s] = None THEN {} ELSE Both(s, None)
           call == [calls[c] EXCEPT !.targets = @ \ {s}, !.writes = @ \cup unset]
<1>1. /\ calls[c] \in Call /\ CallFits(calls[c]) /\ CallCreated(calls[c])
      /\ calls[c].phase = "delete" /\ Busy(c) /\ s \in calls[c].targets /\ s \in created
  BY DEF DeleteSession, Busy, IInv, TypeOK, CreatedInv, CallCreated
<1>2. /\ calls' = [calls EXCEPT ![c] = call]
      /\ raced' = raced \cup { x \in {s} : \E d \in Calls \ {c} : Writing(d, x) }
      /\ UNCHANGED <<kv, tokens, created, ended, broken>>
  BY DEF DeleteSession, IInv, TypeOK
<1>3. /\ unset \in SUBSET Write
      /\ \A w \in unset : w.session = s /\ w.value = None
      /\ kv["record"][s] # None => Unset(s) \in unset
  BY DEF Both, Write, Value, Unset, KeySpaces
<1> HIDE DEF unset
<1>4. /\ call.op = calls[c].op /\ call.phase = "delete" /\ call.session = calls[c].session
      /\ call.targets = calls[c].targets \ {s} /\ call.ends = calls[c].ends
      /\ call.writes = calls[c].writes \cup unset
  BY <1>1 DEF Call
<1>5. call \in Call
  BY <1>1, <1>3 DEF Call
<1> HIDE DEF call
<1>6. CallFits(call) /\ CallCreated(call) /\ ~Mints(call)
  BY <1>1, <1>3, <1>4 DEF CallFits, CallCreated, Mints
<1>7. /\ calls' \in [Calls -> Call \cup {Idle}]
      /\ \A d \in Calls : Busy(d)' => CallFits(calls'[d])
      /\ calls'[c] = call
      /\ \A d \in Calls \ {c} : calls'[d] = calls[d]
  BY <1>2, <1>5, <1>6, CallStep
<1>8. TypeOK'
  BY <1>1, <1>2, <1>7 DEF IInv, TypeOK
<1>9. CreatedInv'
  <2>1. ASSUME NEW d \in Calls, Busy(d)' PROVE CallCreated(calls[d])'
    BY <1>2, <1>6, <1>7, <2>1 DEF IInv, CreatedInv, CallCreated, Busy
  <2> QED BY <1>2, <2>1 DEF IInv, CreatedInv
<1>10. ClosedInv'
  <2> SUFFICES ASSUME NEW x \in SessionIds \ raced'
               PROVE  /\ IsClosed(x)' => \A d \in Calls : ~Writing(d, x)'
                      /\ x \in ended => kv["record"][x] = None
                      /\ \A d \in Calls : Claims(d, x)' => kv["record"][x] = None \/ Unset(x) \in calls'[d].writes
    BY <1>2 DEF ClosedInv, Unset
  <2>1. x \in SessionIds \ raced
    BY <1>2
  <2>2. \A d \in Calls \ {c} : (Claims(d, x)' <=> Claims(d, x)) /\ (Writing(d, x)' <=> Writing(d, x))
    BY <1>7 DEF Claims, Writing, Busy
  <2>3. ~Writing(c, x)'
    BY <1>6, <1>7 DEF CallFits, Writing
  <2>4. x # s => (Claims(c, x)' => Claims(c, x))
    BY <1>1, <1>4, <1>5, <1>7 DEF Claims, Busy
  <2>5. x = s => \A d \in Calls \ {c} : ~Writing(d, x)
    BY <1>2
  <2>6. x # s => (IsClosed(x)' => IsClosed(x))
    BY <1>2, <2>2, <2>4 DEF IsClosed
  <2>7. IsClosed(x)' => \A d \in Calls : ~Writing(d, x)'
    BY <2>1, <2>2, <2>3, <2>5, <2>6 DEF IInv, ClosedInv
  <2>8. ASSUME NEW d \in Calls \ {c}, Claims(d, x)'
        PROVE  kv["record"][x] = None \/ Unset(x) \in calls'[d].writes
    BY <1>7, <2>1, <2>2, <2>8 DEF IInv, ClosedInv
  <2>9. ASSUME Claims(c, x)'
        PROVE  kv["record"][x] = None \/ Unset(x) \in calls'[c].writes
    <3>1. CASE x = s
      BY <1>3, <1>4, <1>7, <3>1
    <3>2. CASE x # s
      <4>1. kv["record"][x] = None \/ Unset(x) \in calls[c].writes
        BY <2>1, <2>4, <2>9, <3>2 DEF IInv, ClosedInv
      <4> QED BY <1>4, <1>7, <4>1
    <3> QED BY <3>1, <3>2
  <2> QED BY <2>1, <2>7, <2>8, <2>9 DEF IInv, ClosedInv
<1> QED BY <1>7, <1>8, <1>9, <1>10 DEF IInv

\* One write lands: a count only where its call still wrote, None elsewhere.
LEMMA LandStep ==
  ASSUME IInv, NEW c \in Calls, NEW w, Land(c, w)
  PROVE  IInv'
<1> DEFINE call == [calls[c] EXCEPT !.writes = @ \ {w}]
<1>1. /\ calls[c] \in Call /\ CallFits(calls[c]) /\ CallCreated(calls[c])
      /\ Busy(c) /\ w \in calls[c].writes
  BY DEF Land, Busy, IInv, TypeOK, CreatedInv
<1>2. w \in Write /\ w.session \in created
  BY <1>1 DEF Call, CallCreated
<1>3. /\ calls' = [calls EXCEPT ![c] = call]
      /\ kv' = [kv EXCEPT ![w.space][w.session] = w.value]
      /\ UNCHANGED <<tokens, created, ended, raced, broken>>
  BY DEF Land, IInv, TypeOK
<1>4. /\ call \in Call /\ call.op = calls[c].op /\ call.phase = calls[c].phase
      /\ call.session = calls[c].session /\ call.targets = calls[c].targets
      /\ call.ends = calls[c].ends /\ call.count = calls[c].count
      /\ call.writes = calls[c].writes \ {w}
  BY <1>1 DEF Call
<1> HIDE DEF call
<1>5. CallFits(call) /\ CallCreated(call)
  BY <1>1, <1>4 DEF CallFits, CallCreated, Mints
<1>6. /\ calls' \in [Calls -> Call \cup {Idle}]
      /\ \A d \in Calls : Busy(d)' => CallFits(calls'[d])
      /\ calls'[c] = call
      /\ \A d \in Calls \ {c} : calls'[d] = calls[d]
  BY <1>3, <1>4, <1>5, CallStep
<1>7. /\ kv' \in [KeySpaces -> [SessionIds -> Value]]
      /\ kv'[w.space][w.session] = w.value
      /\ \A space \in KeySpaces, s \in SessionIds :
           ~(space = w.space /\ s = w.session) => kv'[space][s] = kv[space][s]
  BY <1>2, <1>3 DEF IInv, TypeOK, Write
<1>8. TypeOK'
  BY <1>3, <1>6, <1>7 DEF IInv, TypeOK
<1>9. CreatedInv'
  <2>1. ASSUME NEW d \in Calls, Busy(d)' PROVE CallCreated(calls[d])'
    BY <1>3, <1>5, <1>6, <2>1 DEF IInv, CreatedInv, CallCreated, Busy
  <2>2. \A space \in KeySpaces, s \in SessionIds : kv'[space][s] # None => s \in created
    BY <1>2, <1>7 DEF IInv, CreatedInv
  <2> QED BY <1>3, <2>1, <2>2 DEF IInv, CreatedInv
<1>10. ClosedInv'
  <2> SUFFICES ASSUME NEW x \in SessionIds \ raced
               PROVE  /\ IsClosed(x)' => \A d \in Calls : ~Writing(d, x)'
                      /\ x \in ended => kv'["record"][x] = None
                      /\ \A d \in Calls : Claims(d, x)' => kv'["record"][x] = None \/ Unset(x) \in calls'[d].writes
    BY <1>3 DEF ClosedInv, Unset
  <2>1. \A d \in Calls : (Claims(d, x)' => Claims(d, x)) /\ (Writing(d, x)' => Writing(d, x))
    BY <1>1, <1>4, <1>6 DEF Claims, Writing, Busy
  <2>2. IsClosed(x)' => IsClosed(x)
    BY <1>3, <2>1 DEF IsClosed
  <2>3. IsClosed(x)' => \A d \in Calls : ~Writing(d, x)'
    BY <2>1, <2>2 DEF IInv, ClosedInv
  <2>4. ASSUME IsClosed(x) PROVE kv'["record"][x] \in {None, kv["record"][x]}
    <3>1. w.session = x => w.value = None
      BY <1>1, <2>4 DEF IInv, ClosedInv, Writing
    <3> QED BY <1>7, <3>1 DEF KeySpaces
  <2>5. x \in ended => kv'["record"][x] = None
    BY <2>4 DEF IInv, ClosedInv, IsClosed
  <2>6. ASSUME NEW d \in Calls, Claims(d, x)'
        PROVE  kv'["record"][x] = None \/ Unset(x) \in calls'[d].writes
    <3>1. Claims(d, x) /\ IsClosed(x)
      BY <2>1, <2>6 DEF IsClosed
    <3>2. kv["record"][x] = None \/ Unset(x) \in calls[d].writes
      BY <3>1 DEF IInv, ClosedInv
    <3>3. CASE kv["record"][x] = None
      BY <2>4, <3>1, <3>3
    <3>4. CASE Unset(x) \in calls[d].writes
      <4>1. CASE d = c /\ Unset(x) = w
        BY <1>7, <4>1 DEF Unset
      <4>2. CASE ~(d = c /\ Unset(x) = w)
        BY <1>4, <1>6, <3>4, <4>2
      <4> QED BY <4>1, <4>2
    <3> QED BY <3>2, <3>3, <3>4
  <2> QED BY <2>3, <2>5, <2>6
<1> QED BY <1>6, <1>8, <1>9, <1>10 DEF IInv

\* The call answers: what it reports deleted it claimed, with no write left.
LEMMA AnswerStep ==
  ASSUME IInv, NEW c \in Calls, Answer(c)
  PROVE  IInv'
<1>1. /\ calls[c] \in Call /\ CallFits(calls[c]) /\ CallCreated(calls[c]) /\ Busy(c)
      /\ calls[c].writes = {} /\ calls[c].targets = {}
  BY DEF Answer, Landed, Busy, IInv, TypeOK, CreatedInv
<1>2. /\ calls' = [calls EXCEPT ![c] = Idle]
      /\ ended' = ended \cup calls[c].ends
      /\ UNCHANGED <<kv, created, raced, broken>>
  BY DEF Answer
<1>3. /\ calls' \in [Calls -> Call \cup {Idle}]
      /\ \A d \in Calls : Busy(d)' => CallFits(calls'[d])
      /\ calls'[c] = Idle
      /\ \A d \in Calls \ {c} : calls'[d] = calls[d]
  BY <1>2, CallStep
<1>4. tokens' \subseteq Token /\ \A t \in tokens' : t.session \in created
  BY <1>1, SessionsAssumption DEF Answer, IInv, TypeOK, CreatedInv, CallCreated, Token
<1>5. TypeOK'
  BY <1>1, <1>2, <1>3, <1>4 DEF IInv, TypeOK, CallCreated
<1>6. CreatedInv'
  <2>1. ASSUME NEW d \in Calls, Busy(d)' PROVE CallCreated(calls[d])'
    BY <1>2, <1>3, <2>1 DEF IInv, CreatedInv, CallCreated, Busy
  <2> QED BY <1>2, <1>4, <2>1 DEF IInv, CreatedInv
<1>7. ClosedInv'
  <2> SUFFICES ASSUME NEW x \in SessionIds \ raced
               PROVE  /\ IsClosed(x)' => \A d \in Calls : ~Writing(d, x)'
                      /\ x \in ended' => kv["record"][x] = None
                      /\ \A d \in Calls : Claims(d, x)' => kv["record"][x] = None \/ Unset(x) \in calls'[d].writes
    BY <1>2 DEF ClosedInv, Unset
  <2>1. ~Claims(c, x)' /\ ~Writing(c, x)'
    BY <1>3 DEF Claims, Writing, Busy
  <2>2. \A d \in Calls \ {c} : (Claims(d, x)' <=> Claims(d, x)) /\ (Writing(d, x)' <=> Writing(d, x))
    BY <1>3 DEF Claims, Writing, Busy
  <2>3. x \in calls[c].ends => Claims(c, x)
    BY <1>1 DEF Claims
  <2>4. IsClosed(x)' => IsClosed(x)
    BY <1>2, <2>1, <2>2, <2>3 DEF IsClosed
  <2>5. IsClosed(x)' => \A d \in Calls : ~Writing(d, x)'
    BY <2>1, <2>2, <2>4 DEF IInv, ClosedInv
  <2>6. x \in ended' => kv["record"][x] = None
    BY <1>1, <1>2, <2>3 DEF IInv, ClosedInv
  <2>7. ASSUME NEW d \in Calls, Claims(d, x)'
        PROVE  kv["record"][x] = None \/ Unset(x) \in calls'[d].writes
    BY <1>3, <2>1, <2>2, <2>7 DEF IInv, ClosedInv
  <2> QED BY <2>5, <2>6, <2>7
<1> QED BY <1>3, <1>5, <1>6, <1>7 DEF IInv
-----------------------------------------------------------------------------
\* Every step keeps the inductive invariant.
LEMMA NextInv == IInv /\ [Next]_vars => IInv'
<1> SUFFICES ASSUME IInv, [Next]_vars PROVE IInv'
  OBVIOUS
<1>1. CASE UNCHANGED vars
  BY <1>1 DEF vars, IInv, TypeOK, CreatedInv, CallCreated, CallFits, Mints, ClosedInv, IsClosed,
              Claims, Unset, Writing, Busy
<1>2. CASE Next
  <2> PICK c \in Calls :
        \/ \E s \in SessionIds : Create(c, s) \/ SignOut(c, s) \/ SignOutAll(c, s) \/ DeleteSession(c, s)
        \/ \E t \in tokens : Refresh(c, t) \/ Reuse(c, t)
        \/ \E kept \in SessionIds \cup {None} : Revoke(c, kept)
        \/ ListKeys(c) \/ ReadValues(c)
        \/ \E space \in KeySpaces, s \in SessionIds, value \in Value :
             Land(c, [ space |-> space, session |-> s, value |-> value ])
        \/ Answer(c) \/ Fail(c)
    BY <1>2 DEF Next
  <2>1. CASE \E s \in SessionIds : Create(c, s) \/ SignOut(c, s) \/ SignOutAll(c, s) \/ DeleteSession(c, s)
    BY <2>1, CreateStep, SignOutStep, SignOutAllStep, DeleteSessionStep
  <2>2. CASE \E t \in tokens : Refresh(c, t) \/ Reuse(c, t)
    BY <2>2, RefreshStep, ReuseStep
  <2>3. CASE (\E kept \in SessionIds \cup {None} : Revoke(c, kept)) \/ ListKeys(c) \/ ReadValues(c)
    BY <2>3, RevokeStep, ListKeysStep, ReadValuesStep
  <2>4. CASE \E space \in KeySpaces, s \in SessionIds, value \in Value :
               Land(c, [ space |-> space, session |-> s, value |-> value ])
    BY <2>4, LandStep
  <2>5. CASE Answer(c) \/ Fail(c)
    BY <2>5, AnswerStep, FailStep
  <2> QED BY <2>1, <2>2, <2>3, <2>4, <2>5
<1> QED BY <1>1, <1>2

\* The invariant holds in every state of a behaviour.
LEMMA Invariance == Spec => []IInv
BY InitInv, NextInv, PTL DEF Spec

\* The keys hold counts, and only sessions that were created are ever ended,
\* raced or left half-written.
THEOREM SessionsTyped == Spec => []TypeOK
<1>1. IInv => TypeOK
  BY DEF IInv
<1> QED BY <1>1, Invariance, PTL

\* A session that an answer reported deleted, by a sign-out, a revocation or the
\* return of an old token, has no record again: no refresh and no half-done
\* deletion brings it back, unless a write of it raced the deletion.
THEOREM EndedSessionsStayEnded == Spec => []EndedForGood
<1>1. IInv => EndedForGood
  BY DEF IInv, TypeOK, ClosedInv, EndedForGood
<1> QED BY <1>1, Invariance, PTL
-----------------------------------------------------------------------------
(* The counts and the index.  Outside `raced` a session has one writer at  *)
(* a time, so its count only grows, and its two keys change together: both *)
(* hold it, or both lost it, up to the writes that are outstanding.        *)

MintsFor(c, s) == Busy(c) /\ Mints(calls[c]) /\ calls[c].session = s
Outstanding(c, space, s) == Busy(c) /\ \E w \in calls[c].writes : w.space = space /\ w.session = s
Stored(space, s) == kv[space][s] # None

OneWriter(s) == \A c, d \in Calls : Writing(c, s) /\ Touches(d, s) => c = d

TokensAreBehind(s) ==
  \A t \in tokens : t.session = s =>
    /\ Stored("record", s) => t.count <= kv["record"][s]
    /\ \A c \in Calls : Writing(c, s) => t.count <= calls[c].count

MintsAreBehind(s) ==
  \A c \in Calls : MintsFor(c, s) =>
    /\ Outstanding(c, "record", s) \/ (Stored("record", s) => calls[c].count <= kv["record"][s])
    /\ \A d \in Calls : Writing(d, s) => calls[c].count <= calls[d].count

CountsInv == \A s \in SessionIds \ raced : OneWriter(s) /\ TokensAreBehind(s) /\ MintsAreBehind(s)

\* Both keys hold the session, or it is new and its first writes are on the way.
Present(s) ==
  /\ \A c \in Calls : ~Deleting(c, s)
  /\ \A space \in KeySpaces :
       \/ Stored(space, s)
       \/ /\ s \notin Delivered
          /\ \A c \in Calls : MintsFor(c, s) => Outstanding(c, space, s)
          /\ \E c \in Calls : Outstanding(c, space, s)

\* Neither key holds it, or the write that unsets the key is on the way.
Absent(s) ==
  /\ \A c \in Calls : ~Writing(c, s)
  /\ \A space \in KeySpaces : Stored(space, s) => \E c \in Calls : Outstanding(c, space, s)

Whole == SessionIds \ (raced \cup broken)

PairInv == \A s \in Whole : Present(s) \/ Absent(s)

\* A call that ends the sessions of a list has each one it should still on the list, or gone.
CallReaches(c) ==
  /\ calls[c].known \subseteq Delivered
  /\ calls[c].known # {} => ~Mints(calls[c])
  /\ \A s \in calls[c].known : Selects(calls[c], s)
  /\ calls[c].phase # "list" => \A s \in calls[c].known \cap Whole : Absent(s) \/ s \in calls[c].targets

ReachInv == \A c \in Calls : Busy(c) => CallReaches(c)

JInv == CountsInv /\ PairInv /\ ReachInv
-----------------------------------------------------------------------------
\* Nothing is stored or under way.
LEMMA InitIndexInv == Init => JInv
BY SessionsAssumption
DEF Init, JInv, CountsInv, OneWriter, TokensAreBehind, MintsAreBehind, PairInv, Absent, Stored,
    ReachInv, Busy, MintsFor, Writing, Whole, KeySpaces

\* A write of a session is an outstanding one, and touches it.
LEMMA TouchesAreOutstanding ==
  ASSUME IInv, NEW c \in Calls, NEW s \in SessionIds
  PROVE  Touches(c, s) <=> \E space \in KeySpaces : Outstanding(c, space, s)
<1>1. Busy(c) => calls[c].writes \subseteq Write
  BY DEF IInv, TypeOK, Call, Busy
<1> QED BY <1>1 DEF Touches, Writing, Deleting, Outstanding, Write

\* The calls that a step leaves alone touch what they touched.
LEMMA OthersSame ==
  ASSUME NEW c \in Calls, \A d \in Calls \ {c} : calls'[d] = calls[d],
         NEW d \in Calls \ {c}, NEW s \in SessionIds
  PROVE  /\ Busy(d)' <=> Busy(d)
         /\ Writing(d, s)' <=> Writing(d, s)
         /\ Deleting(d, s)' <=> Deleting(d, s)
         /\ Touches(d, s)' <=> Touches(d, s)
         /\ MintsFor(d, s)' <=> MintsFor(d, s)
         /\ \A space \in KeySpaces : Outstanding(d, space, s)' <=> Outstanding(d, space, s)
BY DEF Busy, Writing, Deleting, Touches, MintsFor, Outstanding, Mints

\* A call that has no write and mints nothing touches no session.
LEMMA Untouching ==
  ASSUME NEW c \in Calls, Busy(c) => calls[c].writes = {}, NEW s \in SessionIds
  PROVE  /\ ~Writing(c, s) /\ ~Deleting(c, s) /\ ~Touches(c, s)
         /\ \A space \in KeySpaces : ~Outstanding(c, space, s)
BY DEF Writing, Deleting, Touches, Outstanding

\* A step of a call that wrote nothing and writes nothing is about its own list alone.
LEMMA ListStep ==
  ASSUME IInv, JInv, NEW c \in Calls, NEW call \in Call, calls' = [calls EXCEPT ![c] = call],
         UNCHANGED <<kv, tokens, raced, broken>>,
         Busy(c) => calls[c].writes = {} /\ ~Mints(calls[c]),
         call.writes = {}, ~Mints(call),
         call.known \subseteq Delivered, \A s \in call.known : Selects(call, s),
         call.phase # "list" => \A s \in call.known \cap Whole : Absent(s) \/ s \in call.targets
  PROVE  JInv'
<1>1. calls'[c] = call /\ \A d \in Calls \ {c} : calls'[d] = calls[d]
  BY DEF IInv, TypeOK
<1>2. ASSUME NEW d \in Calls, NEW s \in SessionIds
      PROVE  /\ Writing(d, s)' <=> Writing(d, s)
             /\ Deleting(d, s)' <=> Deleting(d, s)
             /\ Touches(d, s)' <=> Touches(d, s)
             /\ MintsFor(d, s)' <=> MintsFor(d, s)
             /\ \A space \in KeySpaces : Outstanding(d, space, s)' <=> Outstanding(d, space, s)
  <2>1. CASE d = c
    BY <1>1, <2>1 DEF Busy, Writing, Deleting, Touches, MintsFor, Outstanding
  <2>2. CASE d # c
    BY <1>1, <2>2, OthersSame
  <2> QED BY <2>1, <2>2
<1>3. \A d \in Calls, s \in SessionIds : Writing(d, s) \/ MintsFor(d, s) => d # c
  BY DEF Writing, MintsFor
<1>4. CountsInv'
  <2> SUFFICES ASSUME NEW s \in SessionIds \ raced
               PROVE  OneWriter(s)' /\ TokensAreBehind(s)' /\ MintsAreBehind(s)'
    BY DEF CountsInv
  <2>1. OneWriter(s) /\ TokensAreBehind(s) /\ MintsAreBehind(s)
    BY DEF JInv, CountsInv
  <2>2. OneWriter(s)'
    BY <1>2, <2>1 DEF OneWriter
  <2>3. TokensAreBehind(s)'
    BY <1>1, <1>2, <1>3, <2>1 DEF TokensAreBehind, Stored
  <2>4. MintsAreBehind(s)'
    BY <1>1, <1>2, <1>3, <2>1 DEF MintsAreBehind, Stored, KeySpaces
  <2> QED BY <2>2, <2>3, <2>4
<1>5. ASSUME NEW s \in SessionIds
      PROVE  (Present(s)' <=> Present(s)) /\ (Absent(s)' <=> Absent(s))
  BY <1>2 DEF Present, Absent, Stored, Delivered
<1>6. PairInv'
  BY <1>5 DEF JInv, PairInv, Whole
<1>7. ReachInv'
  <2> SUFFICES ASSUME NEW d \in Calls, Busy(d)' PROVE CallReaches(d)'
    BY DEF ReachInv
  <2>1. CASE d = c
    BY <1>1, <1>5, <2>1 DEF CallReaches, Delivered, Whole, Selects, Mints
  <2>2. CASE d # c
    BY <1>1, <1>5, <2>2 DEF JInv, ReachInv, CallReaches, Busy, Delivered, Whole, Selects, Mints
  <2> QED BY <2>1, <2>2
<1> QED BY <1>4, <1>6, <1>7 DEF JInv
\* A call that creates or refreshes a session starts to write both keys of it.  Outside `raced`
\* nothing touches the session, and the count it writes is above the ones that are known.
LEMMA MintingStep ==
  ASSUME IInv, JInv, NEW c \in Calls, ~Busy(c), NEW s \in SessionIds, NEW count \in Counts,
         NEW op \in {"create", "refresh"},
         calls' = [calls EXCEPT ![c] = Minting(op, s, count)],
         UNCHANGED <<kv, tokens, broken>>, raced \subseteq raced',
         s \notin raced' =>
           /\ \A d \in Calls : ~Touches(d, s)
           /\ \A t \in tokens : t.session = s => t.count <= count
           /\ \A d \in Calls : MintsFor(d, s) => calls[d].count <= count,
         s \notin raced' \cup broken =>
           \/ \A space \in KeySpaces : Stored(space, s)
           \/ /\ \A space \in KeySpaces : ~Stored(space, s)
              /\ s \notin Delivered /\ \A d \in Calls : ~MintsFor(d, s)
  PROVE  JInv'
<1> DEFINE call == Minting(op, s, count)
<1>1. /\ call \in Call /\ CallFits(call) /\ call.op = op /\ call.session = s
      /\ call.count = count /\ call.writes = Both(s, count)
  BY MintingCall
<1>2. call.known = {}
  BY DEF Minting, NewCall
<1> HIDE DEF call
<1>3. calls'[c] = call /\ \A d \in Calls \ {c} : calls'[d] = calls[d]
  BY DEF IInv, TypeOK, call
<1>4. count # None
  BY NoneIsNoCount
<1>5. ASSUME NEW x \in SessionIds
      PROVE  /\ ~Writing(c, x) /\ ~Deleting(c, x) /\ ~Touches(c, x) /\ ~MintsFor(c, x)
             /\ \A space \in KeySpaces : ~Outstanding(c, space, x)
  BY Untouching DEF MintsFor
<1>6. ASSUME NEW x \in SessionIds, x # s
      PROVE  /\ ~Writing(c, x)' /\ ~Deleting(c, x)' /\ ~Touches(c, x)' /\ ~MintsFor(c, x)'
             /\ \A space \in KeySpaces : ~Outstanding(c, space, x)'
  BY <1>1, <1>3, <1>6 DEF Both, Busy, Writing, Deleting, Touches, MintsFor, Outstanding
<1>7. /\ ~Deleting(c, s)'
      /\ Busy(c)' => \A space \in KeySpaces : Outstanding(c, space, s)'
      /\ MintsFor(c, s)' => Busy(c)'
  <2>1. \A w \in Both(s, count) : w.value = count
    BY DEF Both
  <2>2. ASSUME NEW space \in KeySpaces
        PROVE  \E w \in Both(s, count) : w.space = space /\ w.session = s
    <3>1. [ space |-> space, session |-> s, value |-> count ] \in Both(s, count)
      BY DEF Both
    <3> QED BY <3>1
  <2>3. calls'[c].writes = Both(s, count)
    BY <1>1, <1>3
  <2>4. ~Deleting(c, s)'
    BY <1>4, <2>1, <2>3 DEF Deleting
  <2>5. Busy(c)' => \A space \in KeySpaces : Outstanding(c, space, s)'
    BY <2>2, <2>3 DEF Outstanding
  <2> QED BY <2>4, <2>5 DEF MintsFor
<1>8. ASSUME NEW x \in SessionIds, x # s, NEW d \in Calls
      PROVE  /\ Writing(d, x)' <=> Writing(d, x)
             /\ Deleting(d, x)' <=> Deleting(d, x)
             /\ Touches(d, x)' <=> Touches(d, x)
             /\ MintsFor(d, x)' <=> MintsFor(d, x)
             /\ \A space \in KeySpaces : Outstanding(d, space, x)' <=> Outstanding(d, space, x)
             /\ Writing(d, x) \/ MintsFor(d, x) => d # c
  <2>1. CASE d = c
    BY <1>5, <1>6, <1>8, <2>1
  <2>2. CASE d # c
    BY <1>3, <2>2, OthersSame
  <2> QED BY <2>1, <2>2
<1>9. CountsInv'
  <2> SUFFICES ASSUME NEW x \in SessionIds \ raced'
               PROVE  OneWriter(x)' /\ TokensAreBehind(x)' /\ MintsAreBehind(x)'
    BY DEF CountsInv
  <2>1. OneWriter(x) /\ TokensAreBehind(x) /\ MintsAreBehind(x)
    BY DEF JInv, CountsInv
  <2>2. CASE x # s
    <3>1. OneWriter(x)'
      BY <1>8, <2>1, <2>2 DEF OneWriter
    <3>2. TokensAreBehind(x)'
      BY <1>3, <1>8, <2>1, <2>2 DEF TokensAreBehind, Stored
    <3>3. MintsAreBehind(x)'
      BY <1>3, <1>8, <2>1, <2>2 DEF MintsAreBehind, Stored, KeySpaces
    <3> QED BY <3>1, <3>2, <3>3
  <2>3. CASE x = s
    <3>1. \A d \in Calls \ {c} : ~Touches(d, s)' /\ ~Writing(d, s)' /\ (MintsFor(d, s)' <=> MintsFor(d, s))
                                 /\ ~Outstanding(d, "record", s)
      BY <1>3, <2>3, OthersSame, TouchesAreOutstanding DEF Touches, KeySpaces
    <3>2. OneWriter(s)'
      BY <3>1 DEF OneWriter
    <3>3. TokensAreBehind(s)'
      BY <1>1, <1>3, <2>1, <2>3, <3>1 DEF TokensAreBehind, Stored
    <3>4. ASSUME NEW d \in Calls, MintsFor(d, s)'
          PROVE  /\ Outstanding(d, "record", s)' \/ (Stored("record", s) => calls'[d].count <= kv["record"][s])
                 /\ \A e \in Calls : Writing(e, s)' => calls'[d].count <= calls'[e].count
      <4>1. \A e \in Calls : Writing(e, s)' => e = c
        BY <3>1
      <4>2. CASE d = c
        BY <1>1, <1>3, <1>7, <3>4, <4>1, <4>2 DEF KeySpaces, Counts
      <4>3. CASE d # c
        BY <1>1, <1>3, <2>1, <2>3, <3>1, <3>4, <4>1, <4>3 DEF MintsAreBehind
      <4> QED BY <4>2, <4>3
    <3>5. MintsAreBehind(s)'
      BY <3>4 DEF MintsAreBehind, Stored
    <3> QED BY <2>3, <3>2, <3>3, <3>5
  <2> QED BY <2>2, <2>3
<1>10. ASSUME NEW x \in SessionIds, x # s
       PROVE  (Present(x) => Present(x)') /\ (Absent(x) => Absent(x)')
  <2>1. Present(x) => Present(x)'
    BY <1>8, <1>10 DEF Present, Stored, Delivered
  <2>2. Absent(x) => Absent(x)'
    BY <1>8, <1>10 DEF Absent, Stored
  <2> QED BY <2>1, <2>2
<1>11. ASSUME s \notin raced' \cup broken PROVE Present(s)' \/ Absent(s)'
  <2>1. \A d \in Calls : ~Deleting(d, s)'
    BY <1>3, <1>7, <1>11, OthersSame DEF Touches
  <2>2. CASE \A space \in KeySpaces : Stored(space, s)
    BY <2>1, <2>2 DEF Present, Stored
  <2>3. CASE /\ \A space \in KeySpaces : ~Stored(space, s)
             /\ s \notin Delivered /\ \A d \in Calls : ~MintsFor(d, s)
    <3>1. \A d \in Calls : MintsFor(d, s)' => d = c
      BY <1>3, <2>3, OthersSame
    <3>2. CASE Busy(c)'
      BY <1>7, <2>1, <2>3, <3>1, <3>2 DEF Present, Delivered
    <3>3. CASE ~Busy(c)'
      <4>1. \A d \in Calls : ~Writing(d, s)'
        BY <1>3, <1>11, <3>3, OthersSame DEF Touches, Writing
      <4> QED BY <2>3, <4>1 DEF Absent, Stored
    <3> QED BY <3>2, <3>3
  <2> QED BY <1>11, <2>2, <2>3
<1>12. PairInv'
  BY <1>10, <1>11 DEF JInv, PairInv, Whole
<1>13. ReachInv'
  <2> SUFFICES ASSUME NEW d \in Calls, Busy(d)' PROVE CallReaches(d)'
    BY DEF ReachInv
  <2>1. CASE d = c
    BY <1>2, <1>3, <2>1 DEF CallReaches
  <2>2. CASE d # c
    <3>1. calls'[d] = calls[d] /\ CallReaches(d)
      BY <1>3, <2>2 DEF JInv, ReachInv, Busy
    <3>2. ASSUME calls[d].phase # "list", NEW x \in calls[d].known \cap Whole'
          PROVE  Absent(x)' \/ x \in calls[d].targets
      <4>1. x \in Whole /\ x \in Delivered /\ x \notin raced' \cup broken
        BY <3>1 DEF CallReaches, Whole
      <4>2. Absent(x) \/ x \in calls[d].targets
        BY <3>1, <3>2, <4>1 DEF CallReaches
      <4>3. CASE x = s
        <5>1. \A space \in KeySpaces : Stored(space, s) /\ \A e \in Calls : ~Outstanding(e, space, s)
          BY <4>1, <4>3, TouchesAreOutstanding
        <5> QED BY <4>2, <4>3, <5>1 DEF Absent, KeySpaces
      <4>4. CASE x # s
        BY <1>10, <4>1, <4>2, <4>4 DEF Whole
      <4> QED BY <4>3, <4>4
    <3> QED BY <3>1, <3>2 DEF CallReaches, Delivered, Selects, Mints
  <2> QED BY <2>1, <2>2
<1> QED BY <1>9, <1>12, <1>13 DEF JInv
\* createSession: the id is new, so nothing knows it.
LEMMA CreateIndex ==
  ASSUME IInv, JInv, NEW c \in Calls, NEW s \in SessionIds, Create(c, s)
  PROVE  JInv'
<1>1. /\ ~Busy(c) /\ calls' = [calls EXCEPT ![c] = Minting("create", s, 0)]
      /\ UNCHANGED <<kv, tokens, raced, broken>> /\ s \notin created
  BY DEF Create, Begin
<1>2. \A d \in Calls : ~Touches(d, s) /\ ~MintsFor(d, s)
  BY <1>1, SessionsAssumption
  DEF IInv, CreatedInv, CallCreated, Touches, Writing, Deleting, MintsFor
<1>3. \A t \in tokens : t.session # s
  BY <1>1 DEF IInv, CreatedInv
<1>4. s \notin Delivered /\ \A space \in KeySpaces : ~Stored(space, s)
  BY <1>1, <1>3 DEF IInv, CreatedInv, Delivered, Stored
<1>5. 0 \in Counts
  BY SessionsAssumption DEF Counts
<1> QED BY <1>1, <1>2, <1>3, <1>4, <1>5, MintingStep

\* refreshToken: it read the count of the record, so the next one is above all that are known.
LEMMA RefreshIndex ==
  ASSUME IInv, JInv, NEW c \in Calls, NEW t \in tokens, Refresh(c, t)
  PROVE  JInv'
<1> DEFINE s == t.session
           count == t.count + 1
<1>1. s \in SessionIds /\ t.count \in Counts /\ count \in Counts
  BY SessionsAssumption DEF Refresh, IInv, TypeOK, Token, Counts
<1>2. /\ ~Busy(c) /\ calls' = [calls EXCEPT ![c] = Minting("refresh", s, count)]
      /\ UNCHANGED <<kv, tokens, broken>> /\ kv["record"][s] = t.count
      /\ raced' = raced \cup { x \in {s} : \E d \in Calls \ {c} : Touches(d, x) }
  BY DEF Refresh, Refreshed, Begin
<1>3. Stored("record", s)
  BY <1>1, <1>2, NoneIsNoCount DEF Stored
<1>4. ASSUME s \notin raced'
      PROVE  /\ \A d \in Calls : ~Touches(d, s)
             /\ \A u \in tokens : u.session = s => u.count <= count
             /\ \A d \in Calls : MintsFor(d, s) => calls[d].count <= count
  <2>1. \A d \in Calls : ~Touches(d, s)
    BY <1>2, <1>4 DEF Touches, Writing, Deleting
  <2>2. TokensAreBehind(s) /\ MintsAreBehind(s)
    BY <1>1, <1>2, <1>4 DEF JInv, CountsInv
  <2>3. ASSUME NEW u \in tokens, u.session = s PROVE u.count <= count
    <3>1. u.count \in Nat /\ t.count \in Nat /\ u.count <= t.count
      BY <1>2, <1>3, <2>2, <2>3 DEF TokensAreBehind, IInv, TypeOK, Token, Counts
    <3> QED BY <3>1
  <2>4. ASSUME NEW d \in Calls, MintsFor(d, s) PROVE calls[d].count <= count
    <3>1. ~Outstanding(d, "record", s)
      BY <1>1, <2>1, TouchesAreOutstanding DEF KeySpaces
    <3>2. calls[d].count <= t.count
      BY <1>2, <1>3, <2>2, <2>4, <3>1 DEF MintsAreBehind
    <3>3. calls[d].count \in Nat /\ t.count \in Nat
      BY <1>1, <2>4 DEF MintsFor, Busy, IInv, TypeOK, Call, Counts
    <3> QED BY <3>2, <3>3
  <2> QED BY <2>1, <2>3, <2>4
<1>5. ASSUME s \notin raced' \cup broken
      PROVE  \A space \in KeySpaces : Stored(space, s)
  <2>1. \A d \in Calls, space \in KeySpaces : ~Outstanding(d, space, s)
    BY <1>1, <1>4, <1>5, TouchesAreOutstanding
  <2>2. Present(s) \/ Absent(s)
    BY <1>1, <1>2, <1>5 DEF JInv, PairInv, Whole
  <2> QED BY <1>3, <2>1, <2>2 DEF Present, Absent, KeySpaces
<1> HIDE DEF s, count
<1> QED BY <1>1, <1>2, <1>4, <1>5, MintingStep

\* A call that starts to delete: nobody expects it to reach others.
LEMMA ReuseIndex ==
  ASSUME IInv, JInv, NEW c \in Calls, NEW t \in tokens, Reuse(c, t)
  PROVE  JInv'
<1> DEFINE call == [NewCall EXCEPT !.op = "reuse", !.phase = "delete", !.session = t.session,
                      !.targets = {t.session}, !.ends = {t.session}]
<1>1. /\ ~Busy(c) /\ calls' = [calls EXCEPT ![c] = call]
      /\ UNCHANGED <<kv, tokens, raced, broken>> /\ t.session \in SessionIds
  BY DEF Reuse, Begin, IInv, TypeOK, Token
<1>2. call \in Call
  BY <1>1, NewCallTyped DEF Call
<1>3. call.op = "reuse" /\ call.writes = {} /\ call.known = {}
  BY DEF NewCall
<1> HIDE DEF call
<1>4. ~Mints(call)
  BY <1>3 DEF Mints
<1> QED BY <1>1, <1>2, <1>3, <1>4, ListStep

\* signOut of one session alike.
LEMMA SignOutIndex ==
  ASSUME IInv, JInv, NEW c \in Calls, NEW s \in SessionIds, SignOut(c, s)
  PROVE  JInv'
<1> DEFINE call == [NewCall EXCEPT !.op = "sign-out", !.phase = "delete", !.session = s,
                      !.targets = {s}, !.ends = {s}]
<1>1. /\ ~Busy(c) /\ calls' = [calls EXCEPT ![c] = call]
      /\ UNCHANGED <<kv, tokens, raced, broken>>
  BY DEF SignOut, Begin
<1>2. call \in Call
  BY NewCallTyped DEF Call
<1>3. call.op = "sign-out" /\ call.writes = {} /\ call.known = {}
  BY DEF NewCall
<1> HIDE DEF call
<1>4. ~Mints(call)
  BY <1>3 DEF Mints
<1> QED BY <1>1, <1>2, <1>3, <1>4, ListStep

\* signOut with `others` selects what it is expected to reach.
LEMMA SignOutAllIndex ==
  ASSUME IInv, JInv, NEW c \in Calls, NEW s \in SessionIds, SignOutAll(c, s)
  PROVE  JInv'
<1> DEFINE call == [NewCall EXCEPT !.op = "sign-out-all", !.phase = "list", !.session = s,
                      !.known = Delivered \ (Grants \ {s})]
<1>1. /\ ~Busy(c) /\ calls' = [calls EXCEPT ![c] = call]
      /\ UNCHANGED <<kv, tokens, raced, broken>>
  BY DEF SignOutAll, Begin
<1>2. call \in Call
  <2>1. Delivered \subseteq SessionIds
    BY DEF Delivered, IInv, TypeOK, Token
  <2> QED BY <2>1, NewCallTyped DEF Call
<1>3. /\ call.op = "sign-out-all" /\ call.phase = "list" /\ call.session = s
      /\ call.writes = {} /\ call.known = Delivered \ (Grants \ {s})
  BY DEF NewCall
<1> HIDE DEF call
<1>4. ~Mints(call) /\ \A x \in call.known : Selects(call, x)
  BY <1>3 DEF Mints, Selects
<1> QED BY <1>1, <1>2, <1>3, <1>4, ListStep

\* So does the revocation of a reset.
LEMMA RevokeIndex ==
  ASSUME IInv, JInv, NEW c \in Calls, NEW kept \in SessionIds \cup {None}, Revoke(c, kept)
  PROVE  JInv'
<1> DEFINE call == [NewCall EXCEPT !.op = "revoke", !.phase = "list", !.session = kept,
                      !.known = Delivered \ {kept}]
<1>1. /\ ~Busy(c) /\ calls' = [calls EXCEPT ![c] = call]
      /\ UNCHANGED <<kv, tokens, raced, broken>>
  BY DEF Revoke, Begin
<1>2. call \in Call
  <2>1. Delivered \subseteq SessionIds
    BY DEF Delivered, IInv, TypeOK, Token
  <2> QED BY <2>1, NewCallTyped DEF Call
<1>3. /\ call.op = "revoke" /\ call.phase = "list" /\ call.session = kept
      /\ call.writes = {} /\ call.known = Delivered \ {kept}
  BY DEF NewCall
<1> HIDE DEF call
<1>4. ~Mints(call) /\ \A x \in call.known : Selects(call, x)
  BY <1>3 DEF Mints, Selects
<1> QED BY <1>1, <1>2, <1>3, <1>4, ListStep

\* A session whose tokens a client holds is under both keys, unless it is gone.
LEMMA DeliveredIsListed ==
  ASSUME JInv, NEW s \in Whole, s \in Delivered
  PROVE  Absent(s) \/ s \in Listed
BY DEF JInv, PairInv, Present, Stored, Listed, Whole, KeySpaces

\* listSession: what the keys do not show is gone.
LEMMA ListKeysIndex ==
  ASSUME IInv, JInv, NEW c \in Calls, ListKeys(c)
  PROVE  JInv'
<1> DEFINE call == [calls[c] EXCEPT !.phase = "values", !.targets = Listed]
<1>1. /\ Busy(c) /\ calls[c] \in Call /\ CallFits(calls[c]) /\ calls[c].phase = "list"
      /\ UNCHANGED <<kv, tokens, raced, broken>>
  BY DEF ListKeys, Busy, IInv, TypeOK
<1>2. calls' = [calls EXCEPT ![c] = call]
  BY DEF ListKeys, IInv, TypeOK
<1>3. /\ call \in Call /\ call.op = calls[c].op /\ call.session = calls[c].session
      /\ call.writes = calls[c].writes /\ call.known = calls[c].known /\ call.targets = Listed
  BY <1>1 DEF Call, Listed
<1> HIDE DEF call
<1>4. calls[c].writes = {} /\ ~Mints(calls[c])
  BY <1>1 DEF CallFits
<1>5. /\ call.known \subseteq Delivered /\ \A s \in call.known : Selects(call, s)
      /\ ~Mints(call)
  BY <1>1, <1>3, <1>4 DEF JInv, ReachInv, CallReaches, Selects, Mints
<1>6. \A s \in call.known \cap Whole : Absent(s) \/ s \in call.targets
  BY <1>3, <1>5, DeliveredIsListed
<1> QED BY <1>1, <1>2, <1>3, <1>4, <1>5, <1>6, ListStep

\* And the values: what lost its key since is gone.
LEMMA ReadValuesIndex ==
  ASSUME IInv, JInv, NEW c \in Calls, ReadValues(c)
  PROVE  JInv'
<1> DEFINE found == { s \in calls[c].targets \cap Listed : Selects(calls[c], s) }
           call == [calls[c] EXCEPT !.phase = "delete", !.targets = found, !.ends = found]
<1>1. /\ Busy(c) /\ calls[c] \in Call /\ CallFits(calls[c]) /\ calls[c].phase = "values"
      /\ UNCHANGED <<kv, tokens, raced, broken>>
  BY DEF ReadValues, Busy, IInv, TypeOK
<1>2. calls' = [calls EXCEPT ![c] = call]
  BY DEF ReadValues, IInv, TypeOK
<1>3. /\ call \in Call /\ call.op = calls[c].op /\ call.session = calls[c].session
      /\ call.writes = calls[c].writes /\ call.known = calls[c].known /\ call.targets = found
  BY <1>1 DEF Call, Listed
<1> HIDE DEF call
<1>4. calls[c].writes = {} /\ ~Mints(calls[c]) /\ CallReaches(c)
  BY <1>1 DEF CallFits, JInv, ReachInv
<1>5. /\ call.known \subseteq Delivered /\ \A s \in call.known : Selects(call, s)
      /\ ~Mints(call)
  BY <1>3, <1>4 DEF CallReaches, Selects, Mints
<1>6. ASSUME NEW s \in call.known \cap Whole PROVE Absent(s) \/ s \in call.targets
  <2>1. Absent(s) \/ s \in Listed
    BY <1>5, DeliveredIsListed
  <2>2. (Absent(s) \/ s \in calls[c].targets) /\ Selects(calls[c], s)
    BY <1>1, <1>3, <1>4 DEF CallReaches
  <2> QED BY <1>3, <2>1, <2>2
<1> QED BY <1>1, <1>2, <1>3, <1>4, <1>5, <1>6, ListStep
\* The call that took a session off its list is a call still.
LEMMA DeletingCallTyped ==
  ASSUME NEW call \in Call, NEW s \in SessionIds
  PROVE  [call EXCEPT !.targets = @ \ {s},
                      !.writes = @ \cup (IF kv["record"][s] = None THEN {} ELSE Both(s, None))] \in Call
<1>1. Both(s, None) \in SUBSET Write
  BY DEF Both, Write, Value
<1> QED BY <1>1 DEF Call

\* deleteSession: the record it read is there exactly when the session is, so from here on the
\* session is gone or about to be.
LEMMA DeleteSessionIndex ==
  ASSUME IInv, JInv, NEW c \in Calls, NEW s \in SessionIds, DeleteSession(c, s)
  PROVE  JInv'
<1> DEFINE unset == IF kv["record"][s] = None THEN {} ELSE Both(s, None)
           call == [calls[c] EXCEPT !.targets = @ \ {s}, !.writes = @ \cup unset]
<1>1. /\ Busy(c) /\ calls[c] \in Call /\ CallFits(calls[c]) /\ calls[c].phase = "delete"
      /\ calls' = [calls EXCEPT ![c] = call]
      /\ raced' = raced \cup { x \in {s} : \E d \in Calls \ {c} : Writing(d, x) }
      /\ UNCHANGED <<kv, tokens, broken>>
  BY DEF DeleteSession, Busy, IInv, TypeOK
<1>2. /\ \A w \in unset : w.session = s /\ w.value = None
      /\ Stored("record", s) => \A space \in KeySpaces : \E w \in unset : w.space = space /\ w.session = s
  <2>1. \A w \in Both(s, None) : w.session = s /\ w.value = None
    BY DEF Both
  <2>2. ASSUME NEW space \in KeySpaces
        PROVE  \E w \in Both(s, None) : w.space = space /\ w.session = s
    <3>1. [ space |-> space, session |-> s, value |-> None ] \in Both(s, None)
      BY DEF Both
    <3> QED BY <3>1
  <2> QED BY <2>1, <2>2 DEF Stored
<1> HIDE DEF unset
<1>3. /\ call.op = calls[c].op /\ call.phase = "delete" /\ call.session = calls[c].session
      /\ call.targets = calls[c].targets \ {s} /\ call.known = calls[c].known
      /\ call.writes = calls[c].writes \cup unset
  BY <1>1 DEF Call
<1> HIDE DEF call
<1>4. calls'[c] = call /\ Busy(c)' /\ \A d \in Calls \ {c} : calls'[d] = calls[d]
  <2>1. call \in Call
    BY DeletingCallTyped, <1>1 DEF unset, call
  <2> QED BY <1>1, <2>1, IdleAssumption DEF IInv, TypeOK, Busy
<1>5. /\ ~Mints(calls[c]) /\ ~Mints(call) /\ \A w \in call.writes : w.value = None
      /\ \A x \in SessionIds : ~MintsFor(c, x) /\ ~MintsFor(c, x)' /\ ~Writing(c, x) /\ ~Writing(c, x)'
  <2>1. ~Mints(calls[c]) /\ ~Mints(call)
    BY <1>1, <1>3 DEF CallFits, Mints
  <2>2. \A w \in call.writes : w.value = None
    BY <1>1, <1>2, <1>3, <2>1 DEF CallFits
  <2> QED BY <1>3, <1>4, <2>1, <2>2 DEF MintsFor, Writing
<1>6. ASSUME NEW x \in SessionIds, NEW d \in Calls
      PROVE  /\ Writing(d, x)' <=> Writing(d, x)
             /\ MintsFor(d, x)' <=> MintsFor(d, x)
             /\ \A space \in KeySpaces : Outstanding(d, space, x) => Outstanding(d, space, x)'
             /\ x # s => (Deleting(d, x)' => Deleting(d, x)) /\ (Touches(d, x)' => Touches(d, x))
             /\ x # s => \A space \in KeySpaces : Outstanding(d, space, x)' => Outstanding(d, space, x)
             /\ Writing(d, x) \/ MintsFor(d, x) => d # c
  <2>1. CASE d = c
    <3>1. \A space \in KeySpaces : Outstanding(c, space, x) => Outstanding(c, space, x)'
      BY <1>3, <1>4 DEF Outstanding
    <3>2. ASSUME x # s
          PROVE  \A w \in call.writes : w.session = x => w \in calls[c].writes
      BY <1>2, <1>3, <3>2
    <3>3. x # s => /\ Deleting(c, x)' => Deleting(c, x)
                   /\ \A space \in KeySpaces : Outstanding(c, space, x)' => Outstanding(c, space, x)
      BY <1>1, <1>4, <3>2 DEF Deleting, Outstanding
    <3> QED BY <1>5, <2>1, <3>1, <3>3 DEF Touches
  <2>2. CASE d # c
    BY <1>4, <1>5, <2>2, OthersSame
  <2> QED BY <2>1, <2>2
<1>7. CountsInv'
  <2> SUFFICES ASSUME NEW x \in SessionIds \ raced'
               PROVE  OneWriter(x)' /\ TokensAreBehind(x)' /\ MintsAreBehind(x)'
    BY DEF CountsInv
  <2>1. OneWriter(x) /\ TokensAreBehind(x) /\ MintsAreBehind(x)
    BY <1>1 DEF JInv, CountsInv
  <2>2. x = s => \A d \in Calls : ~Writing(d, x)
    BY <1>1, <1>5
  <2>3. OneWriter(x)'
    BY <1>6, <2>1, <2>2 DEF OneWriter
  <2>4. TokensAreBehind(x)'
    BY <1>1, <1>4, <1>6, <2>1 DEF TokensAreBehind, Stored
  <2>5. MintsAreBehind(x)'
    BY <1>1, <1>4, <1>6, <2>1 DEF MintsAreBehind, Stored, KeySpaces
  <2> QED BY <2>3, <2>4, <2>5
<1>8. ASSUME NEW x \in SessionIds
      PROVE  Absent(x) => Absent(x)'
  BY <1>1, <1>6 DEF Absent, Stored
<1>9. ASSUME NEW x \in SessionIds, x # s
      PROVE  Present(x) => Present(x)'
  BY <1>1, <1>6, <1>9 DEF Present, Stored, Delivered
<1>10. ASSUME s \in Whole' PROVE Absent(s)'
  <2>1. \A d \in Calls : ~Writing(d, s) /\ ~Writing(d, s)'
    BY <1>1, <1>5, <1>6, <1>10 DEF Whole
  <2>2. CASE Absent(s)
    BY <1>8, <2>2
  <2>3. CASE Present(s)
    <3>1. \A d \in Calls, space \in KeySpaces : ~Outstanding(d, space, s)
      BY <2>1, <2>3, TouchesAreOutstanding DEF Present, Touches
    <3>2. Stored("record", s)
      BY <2>3, <3>1 DEF Present, KeySpaces
    <3>3. \A space \in KeySpaces : Outstanding(c, space, s)'
      BY <1>2, <1>3, <1>4, <3>2 DEF Outstanding
    <3> QED BY <2>1, <3>3 DEF Absent
  <2>4. s \in Whole
    BY <1>1, <1>10 DEF Whole
  <2> QED BY <2>2, <2>3, <2>4 DEF JInv, PairInv
<1>11. PairInv'
  <2> SUFFICES ASSUME NEW x \in Whole' PROVE Present(x)' \/ Absent(x)'
    BY DEF PairInv
  <2>1. x \in Whole
    BY <1>1 DEF Whole
  <2> QED BY <1>8, <1>9, <1>10, <2>1 DEF JInv, PairInv, Whole
<1>12. ReachInv'
  <2> SUFFICES ASSUME NEW d \in Calls, Busy(d)' PROVE CallReaches(d)'
    BY DEF ReachInv
  <2>1. CallReaches(d)
    BY <1>1, <1>4 DEF JInv, ReachInv, Busy
  <2>2. /\ calls'[d].known = calls[d].known /\ calls'[d].op = calls[d].op
        /\ calls'[d].session = calls[d].session /\ calls'[d].phase = calls[d].phase
        /\ calls'[d].targets = calls[d].targets \/ (d = c /\ calls'[d].targets = calls[d].targets \ {s})
    BY <1>1, <1>3, <1>4
  <2>3. ASSUME calls[d].phase # "list", NEW x \in calls[d].known \cap Whole'
        PROVE  Absent(x)' \/ x \in calls'[d].targets
    <3>1. x \in Whole
      BY <1>1 DEF Whole
    <3>2. Absent(x) \/ x \in calls[d].targets
      BY <2>1, <2>3, <3>1 DEF CallReaches
    <3> QED BY <1>8, <1>10, <2>2, <3>1, <3>2 DEF Whole
  <2> QED BY <1>1, <2>1, <2>2, <2>3 DEF CallReaches, Delivered, Selects, Mints
<1> QED BY <1>7, <1>11, <1>12 DEF JInv

\* One write lands: in either key, and nowhere else.
LEMMA LandIndex ==
  ASSUME IInv, JInv, NEW c \in Calls, NEW w, Land(c, w)
  PROVE  JInv'
<1> DEFINE call == [calls[c] EXCEPT !.writes = @ \ {w}]
           s == w.session
<1>1. /\ calls[c] \in Call /\ CallFits(calls[c]) /\ Busy(c) /\ w \in calls[c].writes
      /\ calls' = [calls EXCEPT ![c] = call]
      /\ kv' = [kv EXCEPT ![w.space][w.session] = w.value]
      /\ UNCHANGED <<tokens, raced, broken>>
  BY DEF Land, Busy, IInv, TypeOK
<1>2. w \in Write /\ s \in SessionIds /\ w.space \in KeySpaces
  BY <1>1 DEF Call, Write
<1>3. /\ call \in Call /\ call.op = calls[c].op /\ call.phase = calls[c].phase
      /\ call.session = calls[c].session /\ call.targets = calls[c].targets
      /\ call.known = calls[c].known /\ call.count = calls[c].count
      /\ call.writes = calls[c].writes \ {w}
  BY <1>1 DEF Call
<1> HIDE DEF call, s
<1>4. calls'[c] = call /\ Busy(c)' /\ \A d \in Calls \ {c} : calls'[d] = calls[d]
  BY <1>1, <1>3, IdleAssumption DEF IInv, TypeOK, Busy
<1>5. /\ kv'[w.space][s] = w.value
      /\ \A space \in KeySpaces, x \in SessionIds :
           ~(space = w.space /\ x = s) => kv'[space][x] = kv[space][x]
  BY <1>1, <1>2 DEF IInv, TypeOK, Write, s
<1>6. \A d \in Calls : /\ calls'[d].count = calls[d].count /\ calls'[d].known = calls[d].known
                       /\ calls'[d].op = calls[d].op /\ calls'[d].session = calls[d].session
                       /\ calls'[d].phase = calls[d].phase /\ calls'[d].targets = calls[d].targets
                       /\ Busy(d)' <=> Busy(d)
  BY <1>1, <1>3, <1>4 DEF Busy
<1>7. ASSUME NEW x \in SessionIds, NEW d \in Calls
      PROVE  /\ Writing(d, x)' => Writing(d, x)
             /\ Deleting(d, x)' => Deleting(d, x)
             /\ Touches(d, x)' => Touches(d, x)
             /\ MintsFor(d, x)' <=> MintsFor(d, x)
             /\ \A space \in KeySpaces : ~(space = w.space /\ x = s) =>
                  (Outstanding(d, space, x)' <=> Outstanding(d, space, x))
             /\ d # c => \A space \in KeySpaces : Outstanding(d, space, x)' <=> Outstanding(d, space, x)
  <2>1. CASE d = c
    BY <1>1, <1>3, <1>4, <2>1 DEF Writing, Deleting, Touches, MintsFor, Mints, Outstanding, s
  <2>2. CASE d # c
    BY <1>4, <2>2, OthersSame
  <2> QED BY <2>1, <2>2
<1>8. w.value # None =>
        Writing(c, s) /\ MintsFor(c, s) /\ w.value = calls[c].count
  BY <1>1 DEF Writing, MintsFor, CallFits, s
<1>9. w.value = None => Deleting(c, s) /\ \A x \in SessionIds : ~MintsFor(c, x)
  <2>1. w.value = None => ~Mints(calls[c])
    BY <1>1, NoneIsNoCount DEF CallFits, Call
  <2> QED BY <1>1, <2>1 DEF Deleting, MintsFor, s
<1>10. CountsInv'
  <2> SUFFICES ASSUME NEW x \in SessionIds \ raced
               PROVE  OneWriter(x)' /\ TokensAreBehind(x)' /\ MintsAreBehind(x)'
    BY <1>1 DEF CountsInv
  <2>1. OneWriter(x) /\ TokensAreBehind(x) /\ MintsAreBehind(x)
    BY DEF JInv, CountsInv
  <2>2. OneWriter(x)'
    BY <1>7, <2>1 DEF OneWriter
  <2>3. kv'["record"][x] = kv["record"][x] \/ kv'["record"][x] = None
        \/ (x = s /\ w.space = "record" /\ w.value # None /\ kv'["record"][x] = calls[c].count)
    BY <1>2, <1>5, <1>8 DEF KeySpaces
  <2>4. TokensAreBehind(x)'
    <3> SUFFICES ASSUME NEW t \in tokens, t.session = x
                 PROVE  /\ kv'["record"][x] # None => t.count <= kv'["record"][x]
                        /\ \A d \in Calls : Writing(d, x)' => t.count <= calls'[d].count
      BY <1>1 DEF TokensAreBehind, Stored
    <3>1. /\ kv["record"][x] # None => t.count <= kv["record"][x]
          /\ \A d \in Calls : Writing(d, x) => t.count <= calls[d].count
      BY <2>1 DEF TokensAreBehind, Stored
    <3>2. kv'["record"][x] # None => t.count <= kv'["record"][x]
      BY <1>8, <2>3, <3>1
    <3>3. ASSUME NEW d \in Calls, Writing(d, x)'
          PROVE  t.count <= calls'[d].count
      BY <1>6, <1>7, <3>1, <3>3
    <3> QED BY <3>2, <3>3
  <2>5. ASSUME NEW d \in Calls, MintsFor(d, x)'
        PROVE  /\ Outstanding(d, "record", x)' \/ (Stored("record", x)' => calls[d].count <= kv'["record"][x])
               /\ \A e \in Calls : Writing(e, x)' => calls[d].count <= calls[e].count
    <3>1. /\ MintsFor(d, x)
          /\ Outstanding(d, "record", x) \/ (Stored("record", x) => calls[d].count <= kv["record"][x])
          /\ \A e \in Calls : Writing(e, x) => calls[d].count <= calls[e].count
      BY <1>7, <2>1, <2>5 DEF MintsAreBehind
    <3>2. CASE x = s /\ w.space = "record" /\ w.value # None
      BY <1>5, <1>7, <1>8, <3>1, <3>2
    <3>3. CASE x = s /\ w.space = "record" /\ w.value = None
      BY <1>5, <1>7, <3>1, <3>3 DEF Stored
    <3>4. CASE ~(x = s /\ w.space = "record")
      BY <1>5, <1>7, <3>1, <3>4 DEF Stored, KeySpaces
    <3> QED BY <3>2, <3>3, <3>4
  <2>6. MintsAreBehind(x)'
    BY <1>6, <2>5 DEF MintsAreBehind, MintsFor, Mints, Outstanding, Stored, Writing, Busy
  <2> QED BY <2>2, <2>4, <2>6
<1>11. ASSUME NEW x \in SessionIds
       PROVE  Absent(x) => Absent(x)'
  <2> SUFFICES ASSUME Absent(x) PROVE Absent(x)'
    OBVIOUS
  <2>1. x = s => w.value = None
    BY <1>8 DEF Absent
  <2>2. ASSUME NEW space \in KeySpaces, Stored(space, x)'
        PROVE  \E d \in Calls : Outstanding(d, space, x)'
    <3>1. ~(space = w.space /\ x = s) /\ Stored(space, x)
      BY <1>5, <2>1, <2>2 DEF Stored
    <3> QED BY <1>7, <3>1 DEF Absent
  <2> QED BY <1>7, <2>2 DEF Absent
<1>12. ASSUME NEW x \in SessionIds
       PROVE  Present(x) => Present(x)'
  <2> SUFFICES ASSUME Present(x) PROVE Present(x)'
    OBVIOUS
  <2>1. x = s => w.value # None
    BY <1>9 DEF Present
  <2>2. \A d \in Calls : ~Deleting(d, x)'
    BY <1>7 DEF Present
  <2>3. ASSUME NEW space \in KeySpaces, ~Stored(space, x)'
        PROVE  /\ x \notin Delivered
               /\ \A d \in Calls : MintsFor(d, x)' => Outstanding(d, space, x)'
               /\ \E d \in Calls : Outstanding(d, space, x)'
    <3>1. ~(space = w.space /\ x = s) /\ ~Stored(space, x)
      BY <1>5, <2>1, <2>3 DEF Stored
    <3> QED BY <1>7, <3>1 DEF Present
  <2> QED BY <1>1, <2>2, <2>3 DEF Present, Delivered
<1>13. PairInv'
  BY <1>1, <1>11, <1>12 DEF JInv, PairInv, Whole
<1>14. ReachInv'
  <2> SUFFICES ASSUME NEW d \in Calls, Busy(d)' PROVE CallReaches(d)'
    BY DEF ReachInv
  <2>1. CallReaches(d)
    BY <1>6 DEF JInv, ReachInv, Busy
  <2>2. ASSUME calls[d].phase # "list", NEW x \in calls[d].known \cap Whole
        PROVE  Absent(x)' \/ x \in calls[d].targets
    BY <1>11, <2>1, <2>2 DEF CallReaches, Whole
  <2> QED BY <1>1, <1>6, <2>1, <2>2 DEF CallReaches, Delivered, Selects, Mints, Whole
<1> QED BY <1>10, <1>13, <1>14 DEF JInv

\* A call that is gone: it had no write on the sessions that stay whole, and the token it may
\* have answered with is one of its own.
LEMMA GoneIndex ==
  ASSUME IInv, JInv, NEW c \in Calls, Busy(c), calls' = [calls EXCEPT ![c] = Idle],
         UNCHANGED <<kv, raced>>, broken \subseteq broken', tokens \subseteq tokens',
         \A w \in calls[c].writes : w.session \in broken',
         \A t \in tokens' \ tokens : /\ calls[c].writes = {} /\ MintsFor(c, t.session)
                                     /\ t.count = calls[c].count
  PROVE  JInv'
<1>1. ~Busy(c)' /\ \A d \in Calls \ {c} : calls'[d] = calls[d]
  BY DEF IInv, TypeOK, Busy
<1>2. ASSUME NEW x \in SessionIds, NEW d \in Calls
      PROVE  /\ Writing(d, x)' => Writing(d, x) /\ d # c
             /\ Deleting(d, x)' => Deleting(d, x) /\ d # c
             /\ Touches(d, x)' => Touches(d, x) /\ d # c
             /\ MintsFor(d, x)' => MintsFor(d, x) /\ d # c
             /\ \A space \in KeySpaces : Outstanding(d, space, x)' <=> (Outstanding(d, space, x) /\ d # c)
  <2>1. CASE d = c
    BY <1>1, <2>1 DEF Writing, Deleting, Touches, MintsFor, Outstanding
  <2>2. CASE d # c
    BY <1>1, <2>2, OthersSame
  <2> QED BY <2>1, <2>2
<1>3. CountsInv'
  <2> SUFFICES ASSUME NEW x \in SessionIds \ raced
               PROVE  OneWriter(x)' /\ TokensAreBehind(x)' /\ MintsAreBehind(x)'
    BY DEF CountsInv
  <2>1. OneWriter(x) /\ TokensAreBehind(x) /\ MintsAreBehind(x)
    BY DEF JInv, CountsInv
  <2>2. OneWriter(x)'
    BY <1>2, <2>1 DEF OneWriter
  <2>3. TokensAreBehind(x)'
    <3> SUFFICES ASSUME NEW t \in tokens', t.session = x
                 PROVE  /\ Stored("record", x) => t.count <= kv["record"][x]
                        /\ \A d \in Calls : Writing(d, x)' => t.count <= calls'[d].count
      BY DEF TokensAreBehind, Stored
    <3>1. CASE t \in tokens
      BY <1>1, <1>2, <2>1, <3>1 DEF TokensAreBehind
    <3>2. CASE t \notin tokens
      <4>1. MintsFor(c, x) /\ t.count = calls[c].count /\ ~Outstanding(c, "record", x)
        BY <3>2 DEF Outstanding
      <4> QED BY <1>1, <1>2, <2>1, <4>1 DEF MintsAreBehind
    <3> QED BY <3>1, <3>2
  <2>4. MintsAreBehind(x)'
    BY <1>1, <1>2, <2>1 DEF MintsAreBehind, Stored, KeySpaces
  <2> QED BY <2>2, <2>3, <2>4
<1>4. ASSUME NEW x \in Whole', NEW space \in KeySpaces PROVE ~Outstanding(c, space, x)
  BY <1>4 DEF Outstanding, Whole
<1>5. ASSUME NEW x \in Whole' PROVE (Absent(x) => Absent(x)') /\ (Present(x) => Present(x)')
  <2>1. Absent(x) => Absent(x)'
    BY <1>2, <1>4, <1>5 DEF Absent, Stored, Whole
  <2>2. ASSUME Present(x), NEW space \in KeySpaces, ~Stored(space, x)
        PROVE  x \notin Delivered'
    <3>1. x \notin Delivered /\ (MintsFor(c, x) => Outstanding(c, space, x))
      BY <2>2 DEF Present
    <3>2. ~MintsFor(c, x)
      BY <1>4, <1>5, <3>1
    <3> QED BY <3>1, <3>2 DEF Delivered
  <2>3. Present(x) => Present(x)'
    BY <1>2, <1>4, <1>5, <2>2 DEF Present, Stored, Whole
  <2> QED BY <2>1, <2>3
<1>6. Whole' \subseteq Whole
  BY DEF Whole
<1>7. PairInv'
  BY <1>5, <1>6 DEF JInv, PairInv
<1>8. ReachInv'
  <2> SUFFICES ASSUME NEW d \in Calls, Busy(d)' PROVE CallReaches(d)'
    BY DEF ReachInv
  <2>1. CallReaches(d) /\ calls'[d] = calls[d]
    BY <1>1 DEF JInv, ReachInv, Busy
  <2>2. Delivered \subseteq Delivered'
    BY DEF Delivered
  <2>3. ASSUME calls[d].phase # "list", NEW x \in calls[d].known \cap Whole'
        PROVE  Absent(x)' \/ x \in calls[d].targets
    BY <1>5, <1>6, <2>1, <2>3 DEF CallReaches
  <2> QED BY <2>1, <2>2, <2>3 DEF CallReaches, Selects, Mints
<1> QED BY <1>3, <1>7, <1>8 DEF JInv

\* The call answers.
LEMMA AnswerIndex ==
  ASSUME IInv, JInv, NEW c \in Calls, Answer(c)
  PROVE  JInv'
<1>1. /\ Busy(c) /\ calls[c].writes = {} /\ calls' = [calls EXCEPT ![c] = Idle]
      /\ UNCHANGED <<kv, raced, broken>>
  BY DEF Answer, Landed
<1>2. tokens \subseteq tokens' /\ \A t \in tokens' \ tokens : MintsFor(c, t.session) /\ t.count = calls[c].count
  BY <1>1 DEF Answer, MintsFor, Mints
<1> QED BY <1>1, <1>2, GoneIndex

\* The call stops: what it did not write is broken.
LEMMA FailIndex ==
  ASSUME IInv, JInv, NEW c \in Calls, Fail(c)
  PROVE  JInv'
<1>1. /\ Busy(c) /\ calls' = [calls EXCEPT ![c] = Idle]
      /\ UNCHANGED <<kv, tokens, raced>> /\ broken' = broken \cup { w.session : w \in calls[c].writes }
  BY DEF Fail
<1> QED BY <1>1, GoneIndex

\* Every step keeps the counts and the index.
LEMMA NextIndexInv == IInv /\ JInv /\ [Next]_vars => JInv'
<1> SUFFICES ASSUME IInv, JInv, [Next]_vars PROVE JInv'
  OBVIOUS
<1>1. CASE UNCHANGED vars
  BY <1>1
  DEF vars, JInv, CountsInv, OneWriter, TokensAreBehind, MintsAreBehind, PairInv, Present, Absent,
      ReachInv, CallReaches, Whole, Stored, Outstanding, MintsFor, Mints, Writing, Deleting,
      Touches, Busy, Delivered, Selects
<1>2. CASE Next
  <2> PICK c \in Calls :
        \/ \E s \in SessionIds : Create(c, s) \/ SignOut(c, s) \/ SignOutAll(c, s) \/ DeleteSession(c, s)
        \/ \E t \in tokens : Refresh(c, t) \/ Reuse(c, t)
        \/ \E kept \in SessionIds \cup {None} : Revoke(c, kept)
        \/ ListKeys(c) \/ ReadValues(c)
        \/ \E space \in KeySpaces, s \in SessionIds, value \in Value :
             Land(c, [ space |-> space, session |-> s, value |-> value ])
        \/ Answer(c) \/ Fail(c)
    BY <1>2 DEF Next
  <2>1. CASE \E s \in SessionIds : Create(c, s) \/ SignOut(c, s) \/ SignOutAll(c, s) \/ DeleteSession(c, s)
    BY <2>1, CreateIndex, SignOutIndex, SignOutAllIndex, DeleteSessionIndex
  <2>2. CASE \E t \in tokens : Refresh(c, t) \/ Reuse(c, t)
    BY <2>2, RefreshIndex, ReuseIndex
  <2>3. CASE (\E kept \in SessionIds \cup {None} : Revoke(c, kept)) \/ ListKeys(c) \/ ReadValues(c)
    BY <2>3, RevokeIndex, ListKeysIndex, ReadValuesIndex
  <2>4. CASE \E space \in KeySpaces, s \in SessionIds, value \in Value :
               Land(c, [ space |-> space, session |-> s, value |-> value ])
    BY <2>4, LandIndex
  <2>5. CASE Answer(c) \/ Fail(c)
    BY <2>5, AnswerIndex, FailIndex
  <2> QED BY <2>1, <2>2, <2>3, <2>4, <2>5
<1> QED BY <1>1, <1>2

\* The second invariant holds in every state, beside the first.
LEMMA IndexInvariance == Spec => []JInv
BY InitIndexInv, NextIndexInv, Invariance, PTL DEF Spec

\* refreshToken (api.ts): the record of a session that no two calls wrote at a time is never
\* behind a token a client holds, so a token that was exchanged does not pass a second time.
THEOREM TokensPassOnce == Spec => []CountsGoForward
<1>1. JInv /\ IInv => CountsGoForward
  BY DEF JInv, IInv, TypeOK, Token, CountsInv, TokensAreBehind, Stored, CountsGoForward
<1> QED BY <1>1, IndexInvariance, Invariance, PTL

\* listSession (storage.ts) shows a session exactly when getSession finds it, and a sign-out of
\* all or a reset leaves none of the sessions it lists, outside of races and half-done calls.
THEOREM ListsReachTheSessions == Spec => []IndexShowsTheSessions
<1>1. IInv /\ JInv => LiveIsListed
  <2> SUFFICES ASSUME IInv, JInv, NEW s \in Whole, \A c \in Calls : ~Touches(c, s)
               PROVE  Stored("record", s) <=> Stored("index", s)
    BY DEF LiveIsListed, Whole, Stored
  <2>1. \A c \in Calls, space \in KeySpaces : ~Outstanding(c, space, s)
    BY TouchesAreOutstanding DEF Whole
  <2> QED BY <2>1 DEF JInv, PairInv, Present, Absent, KeySpaces
<1>2. IInv /\ JInv => ReachesAll
  <2> SUFFICES ASSUME IInv, JInv, NEW c \in Calls, Landed(c), NEW s \in calls[c].known \ (raced \cup broken)
               PROVE  SurvivesNone(c, s)
    BY DEF ReachesAll
  <2>1. /\ Busy(c) /\ calls[c].phase # "list" /\ calls[c].writes = {} /\ calls[c].targets = {}
        /\ s \in Whole
    BY DEF Landed, Busy, IInv, TypeOK, Call, Whole
  <2>2. Absent(s)
    BY <2>1 DEF JInv, ReachInv, CallReaches
  <2>3. ASSUME Stored("record", s) PROVE \E d \in Calls \ {c} : Deleting(d, s)
    <3>1. PICK d \in Calls : Outstanding(d, "record", s)
      BY <2>2, <2>3 DEF Absent, KeySpaces
    <3>2. d # c /\ Touches(d, s)
      BY <2>1, <3>1, TouchesAreOutstanding DEF Outstanding, KeySpaces, Whole
    <3> QED BY <2>2, <3>2 DEF Absent, Touches
  <2> QED BY <2>3 DEF SurvivesNone, Stored
<1> QED BY <1>1, <1>2, IndexInvariance, Invariance, PTL DEF IndexShowsTheSessions
-----------------------------------------------------------------------------
(***************************************************************************)
(* The tokens of a page (ClientTokens), for every number of calls,         *)
(* sessions and exchanges.  The argument is about which copies of a token  *)
(* may be behind the server: while an answer is out, every copy of its     *)
(* session; while the answer is being written, what lies in the store and  *)
(* what is written before it; none else, unless the session is lost.       *)
(***************************************************************************)

\* Tokens of a session that the server knows.
Known(t) == t # Nothing => server[t.session] # Unissued

\* The last tokens of their session, as long as it is not lost.
Fresh(t) == t # Nothing => t.session \in lost \/ server[t.session] = t.count

\* The exchange of d is past its restore and holds tokens.
Exchanging(d) == exchanges[d] # Over /\ exchanges[d].pc \in {"sent", "answered", "storing"}

\* The server counted an exchange of the session, whose tokens the store does not hold yet.
Spent(t) ==
  \E d \in PageCalls :
    /\ Page!Runs(d, "answered") \/ Page!Runs(d, "storing")
    /\ exchanges[d].tokens.session = Page!SessionOf(t)

Overdue(t) ==
  \E d \in PageCalls : Page!Runs(d, "answered") /\ exchanges[d].tokens.session = Page!SessionOf(t)

\* A sign-in was answered, and its tokens are not the ones of the page yet.
SignedIn(c) == pageCalls[c] # Over /\ pageCalls[c].pc = "answered"

\* The slot holds each exchange, which the call that started it waits for, and which goes on
\* after the restore; before the restore the page holds nothing.
ExchangesFit ==
  /\ \A d \in PageCalls : exchanges[d] # Over =>
       /\ refreshing = d /\ restoring # "no"
       /\ pageCalls[d] # Over /\ pageCalls[d].pc = "joined" /\ pageCalls[d].on = d
       /\ exchanges[d].pc # "restore" => restoring = "done"
       /\ Exchanging(d) => exchanges[d].tokens \in Page!Tokens
  /\ restoring = "no" => memory = Nothing /\ writes = <<>>
  /\ restoring # "read" => read = Nothing

CallsFit ==
  \A c \in PageCalls : pageCalls[c] # Over =>
    /\ pageCalls[c].pc # "joined" => pageCalls[c].on = Nothing
    /\ pageCalls[c].pc = "answered" => pageCalls[c].tokens \in Page!Tokens
    /\ pageCalls[c].op = "signOut" /\ pageCalls[c].pc = "sent" => pageCalls[c].tokens \in Page!Tokens

Storing(c) == pageCalls[c] # Over /\ pageCalls[c].pc = "storing"

\* A call, or the exchange it started, that is being stored has its one write in the queue.
WritesFit ==
  /\ \A i \in DOMAIN writes : writes[i].exchange =>
       Page!Runs(writes[i].by, "storing") /\ writes[i].value = exchanges[writes[i].by].tokens
  /\ \A i \in DOMAIN writes : ~writes[i].exchange => Storing(writes[i].by)
  /\ \A i, j \in DOMAIN writes : writes[i].by = writes[j].by => i = j
  /\ \A d \in PageCalls : Page!Runs(d, "storing") =>
       \E i \in DOMAIN writes : writes[i].exchange /\ writes[i].by = d

AllAreKnown ==
  /\ Known(memory) /\ Known(read) /\ Known(saved)
  /\ \A i \in DOMAIN writes : Known(writes[i].value)
  /\ \A d \in PageCalls : Exchanging(d) => Known(exchanges[d].tokens)
  /\ \A c \in PageCalls : SignedIn(c) => Known(pageCalls[c].tokens)

\* Nothing on the page is of a session that a sign-in is about to bring.
NewIsApart ==
  \A c \in PageCalls : SignedIn(c) => LET session == pageCalls[c].tokens.session IN
    /\ session \notin {Page!SessionOf(memory), Page!SessionOf(read), Page!SessionOf(saved)}
    /\ \A i \in DOMAIN writes : Page!SessionOf(writes[i].value) # session
    /\ \A d \in PageCalls : Exchanging(d) => exchanges[d].tokens.session # session
    /\ \A b \in PageCalls \ {c} : SignedIn(b) => pageCalls[b].tokens.session # session

AllAreFresh ==
  /\ Fresh(memory) \/ Overdue(memory)
  /\ Fresh(read)
  /\ Fresh(saved) \/ Spent(saved)
  /\ \A i \in DOMAIN writes :
       Fresh(writes[i].value) \/ (Spent(writes[i].value) /\ \A j \in 1..i : ~writes[j].exchange)
  /\ \A d \in PageCalls : Exchanging(d) => Fresh(exchanges[d].tokens)
  /\ \A c \in PageCalls : SignedIn(c) => Fresh(pageCalls[c].tokens)

\* What the client holds is what it wrote last, and before that what the store held.
Agreeing ==
  ~adrift =>
    /\ writes # <<>> => /\ memory = writes[Len(writes)].value
                        /\ memory # Nothing \/ restoring \notin {"reading", "read"}
    /\ writes = <<>> /\ restoring \in {"reading", "read"} => memory \in {Nothing, saved}
    /\ writes = <<>> /\ restoring = "read" /\ memory = Nothing => read = saved
    /\ restoring \in {"no", "reading"} /\ memory = Nothing => chosen = Page!SessionOf(saved)
    /\ restoring = "read" /\ memory = Nothing /\ ~overtaken => chosen = Page!SessionOf(read)

TokensInv ==
  /\ Page!TypeOK
  /\ ExchangesFit /\ CallsFit /\ WritesFit
  /\ AllAreKnown /\ NewIsApart /\ AllAreFresh
  /\ Agreeing
  /\ Page!HonestSessionsSurvive /\ Page!AtRestAllAgree /\ Page!Follows
-----------------------------------------------------------------------------
LEMMA TokenSentinels ==
  /\ MaxExchanges \in Nat
  /\ Nothing \notin Logins /\ Nothing \notin PageCalls /\ Nothing \notin Page!Tokens
  /\ Over \notin Page!Call /\ Over \notin Page!Exchange
  /\ Unissued \notin Nat /\ Revoked \notin Nat /\ Unissued # Revoked
BY PageAssumption DEF Page!ClientTokensAssumption

\* One exchange at most is under way.
LEMMA SlotIsShared ==
  ASSUME TokensInv, NEW d \in PageCalls, exchanges[d] # Over
  PROVE  /\ refreshing = d /\ refreshing # Nothing
         /\ \A e \in PageCalls : exchanges[e] # Over => e = d
BY TokenSentinels DEF TokensInv, ExchangesFit

\* The queue of the store, write by write.
LEMMA WritesAreWrites ==
  ASSUME TokensInv
  PROVE  /\ writes \in Seq(Page!Write) /\ DOMAIN writes = 1..Len(writes) /\ Len(writes) \in Nat
         /\ \A i \in DOMAIN writes :
              /\ writes[i].by \in PageCalls /\ writes[i].exchange \in BOOLEAN
              /\ writes[i].value \in Page!Tokens \cup {Nothing}
<1>1. writes \in Seq(Page!Write)
  BY DEF TokensInv, Page!TypeOK
<1>2. DOMAIN writes = 1..Len(writes) /\ Len(writes) \in Nat /\ \A i \in DOMAIN writes : writes[i] \in Page!Write
  BY <1>1
<1> QED BY <1>1, <1>2 DEF Page!Write

LEMMA TokenInit == Page!Init => TokensInv
<1> SUFFICES ASSUME Page!Init PROVE TokensInv
  OBVIOUS
<1> USE TokenSentinels DEF Page!Init
<1>1. /\ saved \in Page!Tokens \cup {Nothing}
      /\ saved # Nothing => saved.session \in Logins /\ saved.count = 0
  BY DEF Page!Tokens
<1>2. Page!SessionOf(saved) \in Logins \cup {Nothing}
  BY <1>1 DEF Page!SessionOf
<1>3. Page!TypeOK
  <2>1. writes \in Seq(Page!Write) /\ refreshing \in {c \in PageCalls : exchanges[c] # Over} \cup {Nothing}
    OBVIOUS
  <2>2. pageCalls \in [PageCalls -> Page!Call \cup {Over}] /\ exchanges \in [PageCalls -> Page!Exchange \cup {Over}]
    OBVIOUS
  <2>3. server \in [Logins -> 0..MaxExchanges \cup {Unissued, Revoked}]
    OBVIOUS
  <2> QED BY <1>1, <1>2, <2>1, <2>2, <2>3 DEF Page!TypeOK
<1>4. ExchangesFit /\ CallsFit /\ WritesFit
  BY DEF ExchangesFit, CallsFit, WritesFit, Page!Runs
<1>5. saved # Nothing => saved.session \in Logins /\ server[saved.session] = 0
  BY <1>1 DEF Page!SessionOf
<1>6. AllAreKnown /\ AllAreFresh
  BY <1>1, <1>5 DEF AllAreKnown, AllAreFresh, Known, Fresh, Exchanging, SignedIn
<1>7. NewIsApart
  BY DEF NewIsApart, SignedIn
<1>8. Agreeing /\ Page!HonestSessionsSurvive /\ Page!AtRestAllAgree /\ Page!Follows
  BY DEF Agreeing, Page!HonestSessionsSurvive, Page!AtRestAllAgree, Page!Follows
<1> QED BY <1>3, <1>4, <1>6, <1>7, <1>8 DEF TokensInv

\* A step that moves no token.
LEMMA CopiesAreKept ==
  ASSUME TokensInv, UNCHANGED <<memory, read, writes, saved, server, lost>>,
         \A d \in PageCalls : exchanges'[d] = exchanges[d] \/ (~Exchanging(d) /\ ~Exchanging(d)'),
         \A c \in PageCalls : SignedIn(c)' => SignedIn(c) /\ pageCalls'[c].tokens = pageCalls[c].tokens,
         \A c \in PageCalls : Storing(c) => Storing(c)'
  PROVE  WritesFit' /\ AllAreKnown' /\ NewIsApart' /\ AllAreFresh'
<1>1. \A d \in PageCalls : /\ Exchanging(d)' <=> Exchanging(d)
                           /\ Exchanging(d) => exchanges'[d] = exchanges[d]
  BY DEF Exchanging
<1>2. \A d \in PageCalls : /\ Page!Runs(d, "storing") => Exchanging(d)
                           /\ Page!Runs(d, "answered") => Exchanging(d)
                           /\ (Page!Runs(d, "storing"))' => Exchanging(d)'
                           /\ (Page!Runs(d, "answered"))' => Exchanging(d)'
  BY DEF Exchanging, Page!Runs
<1>3. \A d \in PageCalls : /\ (Page!Runs(d, "storing"))' <=> Page!Runs(d, "storing")
                           /\ (Page!Runs(d, "answered"))' <=> Page!Runs(d, "answered")
  BY <1>1, <1>2 DEF Page!Runs
<1>4. WritesFit'
  <2>1. \A i \in DOMAIN writes : writes[i].by \in PageCalls
    BY WritesAreWrites
  <2>2. \A i \in DOMAIN writes : writes[i].exchange =>
          Page!Runs(writes[i].by, "storing") /\ writes[i].value = exchanges[writes[i].by].tokens
    BY DEF TokensInv, WritesFit
  <2>3. \A i \in DOMAIN writes' : writes'[i].exchange =>
          (Page!Runs(writes[i].by, "storing"))' /\ writes'[i].value = exchanges'[writes'[i].by].tokens
    BY <1>1, <1>2, <1>3, <2>1, <2>2
  <2>4. \A d \in PageCalls : (Page!Runs(d, "storing"))' =>
          \E i \in DOMAIN writes' : writes'[i].exchange /\ writes'[i].by = d
    BY <1>3 DEF TokensInv, WritesFit
  <2>5. \A i \in DOMAIN writes' : ~writes'[i].exchange => Storing(writes[i].by)'
    <3>1. \A i \in DOMAIN writes : ~writes[i].exchange => Storing(writes[i].by)
      BY DEF TokensInv, WritesFit
    <3> QED BY <2>1, <3>1 DEF Storing
  <2>6. \A i, j \in DOMAIN writes' : writes'[i].by = writes'[j].by => i = j
    BY DEF TokensInv, WritesFit
  <2> QED BY <2>3, <2>4, <2>5, <2>6 DEF WritesFit
<1>5. AllAreKnown'
  BY <1>1 DEF TokensInv, AllAreKnown, Known
<1>6. NewIsApart'
  BY <1>1 DEF TokensInv, NewIsApart, Page!SessionOf
<1>7. AllAreFresh'
  <2>1. \A t : (Fresh(t) => Fresh(t)') /\ (Spent(t) => Spent(t)') /\ (Overdue(t) => Overdue(t)')
    BY <1>1, <1>2, <1>3 DEF Fresh, Spent, Overdue, Page!SessionOf
  <2> QED BY <1>1, <2>1 DEF TokensInv, AllAreFresh
<1> QED BY <1>4, <1>5, <1>6, <1>7
-----------------------------------------------------------------------------
\* A step that shows no other tokens, and with which a restore begins at most.
LEMMA ShownIsKept ==
  ASSUME TokensInv, UNCHANGED <<memory, read, writes, saved, shown, server, lost, chosen, overtaken, adrift>>,
         restoring' = restoring \/ (restoring = "no" /\ restoring' = "reading")
  PROVE  Agreeing' /\ Page!HonestSessionsSurvive' /\ Page!AtRestAllAgree' /\ Page!Follows'
<1>1. Agreeing'
  <2>1. restoring = "no" => memory = Nothing /\ writes = <<>>
    BY DEF TokensInv, ExchangesFit
  <2>2. CASE restoring' = restoring
    BY <2>2 DEF TokensInv, Agreeing, Page!SessionOf
  <2>3. CASE restoring = "no" /\ restoring' = "reading"
    BY <2>1, <2>3 DEF TokensInv, Agreeing, Page!SessionOf
  <2> QED BY <2>2, <2>3
<1>2. Page!HonestSessionsSurvive' /\ Page!Follows'
  BY DEF TokensInv, Page!HonestSessionsSurvive, Page!Follows, Page!SessionOf
<1>3. Page!AtRestAllAgree'
  BY DEF TokensInv, Page!AtRestAllAgree
<1> QED BY <1>1, <1>2, <1>3

\* The store answers the restore.  No exchange goes on before that.
LEMMA ReadStoreKeeps ==
  ASSUME TokensInv, Page!ReadStore
  PROVE  TokensInv'
<1> USE DEF Page!ReadStore, Page!history
<1>1. \A d \in PageCalls : ~Exchanging(d) /\ ~Exchanging(d)'
  BY DEF TokensInv, ExchangesFit, Exchanging
<1>2. ~Spent(saved)
  BY <1>1 DEF Spent, Exchanging, Page!Runs
<1>3. Page!TypeOK'
  BY DEF TokensInv, Page!TypeOK
<1>4. ExchangesFit' /\ CallsFit' /\ WritesFit'
  <2>1. ExchangesFit'
    BY DEF TokensInv, ExchangesFit, Exchanging
  <2>2. CallsFit' /\ WritesFit'
    BY DEF TokensInv, CallsFit, WritesFit, Page!Runs, Storing
  <2> QED BY <2>1, <2>2
<1>5. AllAreKnown' /\ AllAreFresh'
  <2>1. AllAreKnown'
    BY <1>1 DEF TokensInv, AllAreKnown, Known, SignedIn
  <2>2. AllAreFresh'
    <3>1. \A t : (Fresh(t) => Fresh(t)') /\ (Spent(t) => Spent(t)') /\ (Overdue(t) => Overdue(t)')
      BY DEF Fresh, Spent, Overdue, Page!SessionOf, Page!Runs
    <3>2. Fresh(read)'
      BY <1>2 DEF TokensInv, AllAreFresh, Fresh
    <3> QED BY <1>1, <3>1, <3>2 DEF TokensInv, AllAreFresh, SignedIn
  <2> QED BY <2>1, <2>2
<1>6. NewIsApart'
  BY <1>1 DEF TokensInv, NewIsApart, SignedIn, Page!SessionOf
<1>7. Agreeing'
  BY DEF TokensInv, Agreeing, Page!SessionOf
<1>8. Page!HonestSessionsSurvive' /\ Page!AtRestAllAgree' /\ Page!Follows'
  BY DEF TokensInv, Page!HonestSessionsSurvive, Page!AtRestAllAgree, Page!Follows, Page!SessionOf
<1> QED BY <1>3, <1>4, <1>5, <1>6, <1>7, <1>8 DEF TokensInv

\* `this.#tokens ??= stored`: a sign-in that came first stays.
LEMMA RestoreKeeps ==
  ASSUME TokensInv, Page!Restore
  PROVE  TokensInv'
<1> USE TokenSentinels DEF Page!Restore, Page!history
<1>1. \A d \in PageCalls : ~Exchanging(d) /\ ~Exchanging(d)'
  BY DEF TokensInv, ExchangesFit, Exchanging
<1>2. ~Overdue(memory)
  BY <1>1 DEF Overdue, Exchanging, Page!Runs
<1>3. memory' \in {memory, read} /\ read' = Nothing
  BY DEF Page!Restored
<1>4. Page!TypeOK'
  BY <1>3 DEF TokensInv, Page!TypeOK, Page!Restored
<1>5. ExchangesFit' /\ CallsFit' /\ WritesFit'
  <2>1. ExchangesFit'
    BY <1>3 DEF TokensInv, ExchangesFit, Exchanging
  <2>2. CallsFit' /\ WritesFit'
    BY DEF TokensInv, CallsFit, WritesFit, Page!Runs, Storing
  <2> QED BY <2>1, <2>2
<1>6. AllAreKnown' /\ AllAreFresh'
  <2>1. AllAreKnown'
    BY <1>1, <1>3 DEF TokensInv, AllAreKnown, Known, SignedIn
  <2>2. AllAreFresh'
    <3>1. \A t : (Fresh(t) => Fresh(t)') /\ (Spent(t) => Spent(t)')
      BY DEF Fresh, Spent, Page!SessionOf, Page!Runs
    <3>2. Fresh(memory)' /\ Fresh(read)'
      BY <1>2, <1>3 DEF TokensInv, AllAreFresh, Fresh
    <3> QED BY <1>1, <3>1, <3>2 DEF TokensInv, AllAreFresh, SignedIn
  <2> QED BY <2>1, <2>2
<1>7. NewIsApart'
  <2>1. Page!SessionOf(memory)' \in {Page!SessionOf(memory), Page!SessionOf(read)} /\ Page!SessionOf(read)' = Nothing
    BY <1>3 DEF Page!SessionOf
  <2>2. \A c \in PageCalls : SignedIn(c) => pageCalls[c].tokens.session # Nothing
    BY DEF TokensInv, CallsFit, SignedIn, Page!Tokens
  <2> QED BY <1>1, <2>1, <2>2 DEF TokensInv, NewIsApart, SignedIn, Page!SessionOf
<1>8. Agreeing' /\ Page!HonestSessionsSurvive' /\ Page!AtRestAllAgree' /\ Page!Follows'
  <2>1. memory # Nothing => memory' = memory
    BY DEF Page!Restored
  <2>2. memory = Nothing => memory' = read
    BY DEF Page!Restored
  <2>3. Agreeing'
    BY <2>1 DEF TokensInv, Agreeing
  <2>4. Page!HonestSessionsSurvive'
    BY DEF TokensInv, Page!HonestSessionsSurvive
  <2>5. Page!AtRestAllAgree'
    <3>1. shown' \in {shown, memory'} /\ (shown' = shown => shown = Hidden \/ shown = memory')
      OBVIOUS
    <3>2. writes = <<>> /\ ~adrift => memory' = saved
      BY <2>1, <2>2 DEF TokensInv, Agreeing
    <3> QED BY <3>1, <3>2 DEF Page!AtRestAllAgree
  <2>6. Page!Follows'
    BY <2>1, <2>2 DEF TokensInv, Agreeing, Page!Follows, Page!SessionOf
  <2> QED BY <2>3, <2>4, <2>5, <2>6
<1> QED BY <1>4, <1>5, <1>6, <1>7, <1>8 DEF TokensInv

\* The hook shows what the client holds.
LEMMA MountKeeps ==
  ASSUME TokensInv, Page!Mount
  PROVE  TokensInv'
<1> USE DEF Page!Mount, Page!history, Page!Restoring
<1>1. restoring' = restoring \/ (restoring = "no" /\ restoring' = "reading")
  BY DEF TokensInv, ExchangesFit
<1>2. Page!TypeOK'
  BY DEF TokensInv, Page!TypeOK
<1>3. ExchangesFit' /\ CallsFit'
  BY <1>1 DEF TokensInv, ExchangesFit, CallsFit, Exchanging
<1>4. WritesFit' /\ AllAreKnown' /\ NewIsApart' /\ AllAreFresh'
  BY CopiesAreKept DEF SignedIn, Storing
<1>5. Agreeing' /\ Page!HonestSessionsSurvive' /\ Page!Follows'
  <2>1. Agreeing'
    <3>1. restoring = "no" => memory = Nothing /\ writes = <<>>
      BY DEF TokensInv, ExchangesFit
    <3>2. CASE restoring' = restoring
      BY <3>2 DEF TokensInv, Agreeing, Page!SessionOf
    <3>3. CASE restoring = "no" /\ restoring' = "reading"
      BY <3>1, <3>3 DEF TokensInv, Agreeing, Page!SessionOf
    <3> QED BY <1>1, <3>2, <3>3
  <2> QED BY <2>1 DEF TokensInv, Page!HonestSessionsSurvive, Page!Follows, Page!SessionOf
<1>6. Page!AtRestAllAgree'
  BY <1>1 DEF TokensInv, Page!AtRestAllAgree
<1> QED BY <1>2, <1>3, <1>4, <1>5, <1>6 DEF TokensInv
-----------------------------------------------------------------------------
\* A call that is neither waiting nor storing started no exchange and has no write.
LEMMA FreeCall ==
  ASSUME TokensInv, NEW c \in PageCalls, pageCalls[c] = Over \/ pageCalls[c].pc \notin {"joined", "storing"}
  PROVE  /\ exchanges[c] = Over /\ refreshing # c
         /\ \A i \in DOMAIN writes : writes[i].by # c
<1>1. exchanges[c] = Over
  BY DEF TokensInv, ExchangesFit
<1>2. refreshing # c
  BY <1>1, TokenSentinels DEF TokensInv, Page!TypeOK
<1>3. ASSUME NEW i \in DOMAIN writes, writes[i].by = c PROVE FALSE
  <2>1. writes[i].exchange \in BOOLEAN
    BY WritesAreWrites
  <2>2. CASE writes[i].exchange
    BY <1>1, <1>3, <2>2 DEF TokensInv, WritesFit, Page!Runs
  <2>3. CASE ~writes[i].exchange
    BY <1>3, <2>3 DEF TokensInv, WritesFit, Storing
  <2> QED BY <2>1, <2>2, <2>3
<1> QED BY <1>1, <1>2, <1>3

\* What becomes of a call that was neither waiting nor storing.
LEMMA CallGoesOn ==
  ASSUME TokensInv, NEW c \in PageCalls, pageCalls[c] = Over \/ pageCalls[c].pc \notin {"joined", "storing"},
         NEW call, call \in Page!Call \cup {Over}, pageCalls' = [pageCalls EXCEPT ![c] = call],
         call # Over => /\ call.pc # "joined" => call.on = Nothing
                        /\ call.pc = "answered" => call.tokens \in Page!Tokens
                        /\ call.op = "signOut" /\ call.pc = "sent" => call.tokens \in Page!Tokens
  PROVE  /\ pageCalls' \in [PageCalls -> Page!Call \cup {Over}]
         /\ pageCalls'[c] = call /\ \A d \in PageCalls \ {c} : pageCalls'[d] = pageCalls[d]
         /\ CallsFit'
         /\ \A d \in PageCalls : Storing(d) => Storing(d)'
         /\ \A d \in PageCalls : exchanges[d] # Over =>
              pageCalls'[d] # Over /\ pageCalls'[d].pc = "joined" /\ pageCalls'[d].on = d
<1>1. pageCalls \in [PageCalls -> Page!Call \cup {Over}]
  BY DEF TokensInv, Page!TypeOK
<1>2. /\ pageCalls' \in [PageCalls -> Page!Call \cup {Over}]
      /\ pageCalls'[c] = call /\ \A d \in PageCalls \ {c} : pageCalls'[d] = pageCalls[d]
  BY <1>1
<1>3. CallsFit'
  BY <1>2 DEF TokensInv, CallsFit
<1>4. \A d \in PageCalls : Storing(d) => Storing(d)'
  BY <1>2 DEF Storing
<1>5. \A d \in PageCalls : exchanges[d] # Over =>
              pageCalls'[d] # Over /\ pageCalls'[d].pc = "joined" /\ pageCalls'[d].on = d
  BY <1>2, FreeCall DEF TokensInv, ExchangesFit
<1> QED BY <1>2, <1>3, <1>4, <1>5

\* A call joins the exchange under way, or starts one.
LEMMA JoinKeeps ==
  ASSUME TokensInv, NEW c \in PageCalls, NEW op \in Page!Operations, Page!Join(c, op),
         pageCalls[c] = Over \/ pageCalls[c].pc \notin {"joined", "storing"},
         restoring' = restoring \/ (restoring = "no" /\ restoring' = "reading"), restoring' # "no",
         UNCHANGED <<memory, read, writes, saved, shown, server, lost, chosen, overtaken, adrift>>
  PROVE  TokensInv'
<1> DEFINE on   == Page!Joins(c)
           call == [op |-> op, pc |-> "joined", on |-> on, tokens |-> Nothing]
<1>1. on \in PageCalls /\ on # Nothing
  BY TokenSentinels DEF TokensInv, Page!TypeOK, Page!Joins
<1>2. call \in Page!Call
  BY <1>1 DEF Page!Call
<1>3. pageCalls' = [pageCalls EXCEPT ![c] = call] /\ refreshing' = on
  BY DEF Page!Join
<1>4. exchanges[c] = Over /\ refreshing # c
  BY FreeCall
<1>5. /\ call # Over /\ call.pc = "joined" /\ call.on = on
      /\ on = c => refreshing = Nothing
      /\ on # c => refreshing = on /\ exchanges' = exchanges /\ exchanges[on] # Over
      /\ on = c => exchanges' = [exchanges EXCEPT ![c] = [pc |-> "restore", tokens |-> Nothing]]
  BY <1>1, <1>2, <1>4, TokenSentinels DEF TokensInv, Page!TypeOK, Page!Joins, Page!Join
<1> HIDE DEF call, on
<1>6. /\ pageCalls' \in [PageCalls -> Page!Call \cup {Over}]
      /\ pageCalls'[c] = call /\ \A d \in PageCalls \ {c} : pageCalls'[d] = pageCalls[d]
      /\ CallsFit'
      /\ \A d \in PageCalls : Storing(d) => Storing(d)'
      /\ \A d \in PageCalls : exchanges[d] # Over =>
           pageCalls'[d] # Over /\ pageCalls'[d].pc = "joined" /\ pageCalls'[d].on = d
  BY <1>2, <1>3, <1>5, CallGoesOn
<1>7. \A d \in PageCalls : SignedIn(d)' => SignedIn(d) /\ pageCalls'[d].tokens = pageCalls[d].tokens
  BY <1>5, <1>6 DEF SignedIn
<1>8. exchanges \in [PageCalls -> Page!Exchange \cup {Over}]
  BY DEF TokensInv, Page!TypeOK
<1>9. /\ exchanges' \in [PageCalls -> Page!Exchange \cup {Over}]
      /\ \A d \in PageCalls \ {c} : exchanges'[d] = exchanges[d]
      /\ exchanges'[c] = Over \/ exchanges'[c] = [pc |-> "restore", tokens |-> Nothing]
      /\ exchanges'[on] # Over
  <2>1. [pc |-> "restore", tokens |-> Nothing] \in Page!Exchange
    BY DEF Page!Exchange
  <2> QED BY <1>1, <1>4, <1>5, <1>8, <2>1, TokenSentinels
<1>10. \A d \in PageCalls : exchanges'[d] = exchanges[d] \/ (~Exchanging(d) /\ ~Exchanging(d)')
  BY <1>4, <1>9 DEF Exchanging
<1>11. Page!TypeOK'
  BY <1>1, <1>3, <1>6, <1>9 DEF TokensInv, Page!TypeOK
<1>12. ExchangesFit'
  <2> SUFFICES ASSUME NEW d \in PageCalls, exchanges'[d] # Over
               PROVE  /\ refreshing' = d
                      /\ pageCalls'[d] # Over /\ pageCalls'[d].pc = "joined" /\ pageCalls'[d].on = d
                      /\ exchanges'[d].pc # "restore" => restoring' = "done"
                      /\ Exchanging(d)' => exchanges'[d].tokens \in Page!Tokens
    BY DEF TokensInv, ExchangesFit
  <2>1. CASE exchanges[d] # Over
    <3>1. refreshing = d /\ d # c /\ on = d
      BY <1>4, <1>5, <2>1, TokenSentinels DEF TokensInv, ExchangesFit
    <3>2. exchanges'[d] = exchanges[d]
      BY <1>9, <3>1
    <3> QED BY <1>3, <1>6, <2>1, <3>1, <3>2 DEF TokensInv, ExchangesFit, Exchanging
  <2>2. CASE exchanges[d] = Over
    <3>1. d = c /\ on = c
      BY <1>5, <1>9, <2>2
    <3> QED BY <1>3, <1>5, <1>6, <1>9, <3>1 DEF Exchanging
  <2> QED BY <2>1, <2>2
<1>13. WritesFit' /\ AllAreKnown' /\ NewIsApart' /\ AllAreFresh'
  BY <1>6, <1>7, <1>10, CopiesAreKept
<1>14. Agreeing' /\ Page!HonestSessionsSurvive' /\ Page!AtRestAllAgree' /\ Page!Follows'
  BY ShownIsKept
<1> QED BY <1>6, <1>11, <1>12, <1>13, <1>14 DEF TokensInv

\* A step of a call that starts no exchange, answers no sign-in and writes nothing.
LEMMA CallStepKeeps ==
  ASSUME TokensInv, NEW c \in PageCalls, pageCalls[c] = Over \/ pageCalls[c].pc \notin {"joined", "storing"},
         NEW call, call \in Page!Call \cup {Over}, pageCalls' = [pageCalls EXCEPT ![c] = call],
         call # Over => /\ call.pc \notin {"joined", "answered"} /\ call.on = Nothing
                        /\ call.op = "signOut" /\ call.pc = "sent" => call.tokens \in Page!Tokens,
         restoring' = restoring \/ (restoring = "no" /\ restoring' = "reading"),
         UNCHANGED <<memory, read, refreshing, exchanges, writes, saved, shown, server,
                     lost, chosen, overtaken, adrift>>
  PROVE  TokensInv'
<1>1. /\ pageCalls' \in [PageCalls -> Page!Call \cup {Over}]
      /\ pageCalls'[c] = call /\ \A d \in PageCalls \ {c} : pageCalls'[d] = pageCalls[d]
      /\ CallsFit'
      /\ \A d \in PageCalls : Storing(d) => Storing(d)'
      /\ \A d \in PageCalls : exchanges[d] # Over =>
           pageCalls'[d] # Over /\ pageCalls'[d].pc = "joined" /\ pageCalls'[d].on = d
  BY CallGoesOn
<1>2. \A d \in PageCalls : SignedIn(d)' => SignedIn(d) /\ pageCalls'[d].tokens = pageCalls[d].tokens
  BY <1>1 DEF SignedIn
<1>3. Page!TypeOK'
  BY <1>1 DEF TokensInv, Page!TypeOK
<1>4. ExchangesFit'
  BY <1>1 DEF TokensInv, ExchangesFit, Exchanging
<1>5. WritesFit' /\ AllAreKnown' /\ NewIsApart' /\ AllAreFresh'
  BY <1>1, <1>2, CopiesAreKept
<1>6. Agreeing' /\ Page!HonestSessionsSurvive' /\ Page!AtRestAllAgree' /\ Page!Follows'
  BY ShownIsKept
<1> QED BY <1>1, <1>3, <1>4, <1>5, <1>6 DEF TokensInv
-----------------------------------------------------------------------------
LEMMA BeginKeeps ==
  ASSUME TokensInv, NEW c \in PageCalls, NEW op \in Page!Operations, Page!Begin(c, op)
  PROVE  TokensInv'
<1>1. /\ pageCalls[c] = Over
      /\ UNCHANGED <<memory, read, writes, saved, shown, server, lost, chosen, overtaken, adrift>>
  BY DEF Page!Begin, Page!history
<1>2. restoring = "no" => memory = Nothing
  BY DEF TokensInv, ExchangesFit
<1>3. Page!Restoring # "no" /\ (Page!Restoring = restoring \/ (restoring = "no" /\ Page!Restoring = "reading"))
  BY <1>2 DEF Page!Restoring
<1>4. CASE op = "refresh"
  <2>1. Page!Join(c, op) /\ restoring' = IF Page!Joins(c) = c THEN Page!Restoring ELSE restoring
    BY <1>4 DEF Page!Begin
  <2>2. Page!Joins(c) # c => restoring # "no"
    BY DEF TokensInv, ExchangesFit, Page!TypeOK, Page!Joins
  <2>3. restoring' # "no" /\ (restoring' = restoring \/ (restoring = "no" /\ restoring' = "reading"))
    BY <1>3, <2>1, <2>2
  <2> QED BY <1>1, <2>1, <2>3, JoinKeeps
<1>5. CASE op # "refresh"
  <2> DEFINE pc == IF op = "signIn" THEN "sent" ELSE IF op = "clear" THEN "clear" ELSE "restore"
             call == [op |-> op, on |-> Nothing, tokens |-> Nothing, pc |-> pc]
  <2>1. /\ pageCalls' = [pageCalls EXCEPT ![c] = call]
        /\ restoring' = IF op \in {"request", "signOut"} THEN Page!Restoring ELSE restoring
        /\ UNCHANGED <<refreshing, exchanges>>
    BY <1>5 DEF Page!Begin
  <2>2. call \in Page!Call
    BY DEF Page!Call
  <2>3. /\ call.pc \notin {"joined", "answered"} /\ call.on = Nothing
        /\ call.op = "signOut" /\ call.pc = "sent" => call.tokens \in Page!Tokens
    OBVIOUS
  <2>4. restoring' = restoring \/ (restoring = "no" /\ restoring' = "reading")
    BY <1>3, <2>1
  <2> HIDE DEF call
  <2> QED BY <1>1, <2>1, <2>2, <2>3, <2>4, CallStepKeeps
<1> QED BY <1>4, <1>5

\* The call that goes on with the tokens of the page.
LEMMA SentFits ==
  ASSUME TokensInv, NEW c \in PageCalls, pageCalls[c] # Over, memory # Nothing
  PROVE  /\ Page!Sent(pageCalls[c]) \in Page!Call
         /\ Page!Sent(pageCalls[c]).pc = "sent" /\ Page!Sent(pageCalls[c]).tokens \in Page!Tokens
         /\ Page!Sent(pageCalls[c]).on = Nothing
<1>1. pageCalls[c] \in Page!Call /\ memory \in Page!Tokens
  BY DEF TokensInv, Page!TypeOK
<1> QED BY <1>1 DEF Page!Sent, Page!Call

\* And the one that cannot.
LEMMA FailedFits ==
  ASSUME NEW call \in Page!Call
  PROVE  /\ Page!Failed(call) \in Page!Call \cup {Over}
         /\ Page!Failed(call) # Over => Page!Failed(call).pc = "clear" /\ Page!Failed(call).on = Nothing
BY DEF Page!Failed, Page!Call

LEMMA AskKeeps ==
  ASSUME TokensInv, NEW c \in PageCalls, Page!Ask(c)
  PROVE  TokensInv'
<1>1. /\ pageCalls[c] # Over /\ pageCalls[c].pc = "restore" /\ restoring \in {"done", "failed"}
      /\ UNCHANGED <<memory, restoring, read, writes, saved, shown, server, lost, chosen, overtaken, adrift>>
  BY DEF Page!Ask, Page!history
<1>2. pageCalls[c] \in Page!Call /\ pageCalls[c].op \in Page!Operations
  BY <1>1 DEF TokensInv, Page!TypeOK, Page!Call
<1>3. CASE pageCalls' = [pageCalls EXCEPT ![c] = Over] /\ UNCHANGED <<refreshing, exchanges>>
  BY <1>1, <1>3, CallStepKeeps
<1>4. CASE restoring = "done" /\ Page!Join(c, pageCalls[c].op)
  BY <1>1, <1>2, <1>4, JoinKeeps
<1>5. CASE /\ memory # Nothing
           /\ pageCalls' = [pageCalls EXCEPT ![c] = Page!Sent(pageCalls[c])]
           /\ UNCHANGED <<refreshing, exchanges>>
  <2> DEFINE call == Page!Sent(pageCalls[c])
  <2>1. call \in Page!Call /\ call.pc = "sent" /\ call.tokens \in Page!Tokens /\ call.on = Nothing
    BY <1>1, <1>5, SentFits
  <2> HIDE DEF call
  <2>2. pageCalls' = [pageCalls EXCEPT ![c] = call]
    BY <1>5 DEF call
  <2> QED BY <1>1, <1>5, <2>1, <2>2, CallStepKeeps
<1> QED BY <1>3, <1>4, <1>5 DEF Page!Ask

LEMMA ResumeKeeps ==
  ASSUME TokensInv, NEW c \in PageCalls, Page!Resume(c)
  PROVE  TokensInv'
<1> DEFINE call == IF memory = Nothing THEN Page!Failed(pageCalls[c]) ELSE Page!Sent(pageCalls[c])
<1>1. /\ pageCalls[c] # Over /\ pageCalls[c].pc = "resume"
      /\ pageCalls' = [pageCalls EXCEPT ![c] = call]
      /\ UNCHANGED <<memory, restoring, read, refreshing, exchanges, writes, saved, shown, server,
                     lost, chosen, overtaken, adrift>>
  BY DEF Page!Resume, Page!history
<1>2. pageCalls[c] \in Page!Call
  BY <1>1 DEF TokensInv, Page!TypeOK
<1>3. /\ call \in Page!Call \cup {Over}
      /\ call # Over => /\ call.pc \notin {"joined", "answered"} /\ call.on = Nothing
                        /\ call.op = "signOut" /\ call.pc = "sent" => call.tokens \in Page!Tokens
  BY <1>1, <1>2, SentFits, FailedFits
<1> HIDE DEF call
<1> QED BY <1>1, <1>3, CallStepKeeps
-----------------------------------------------------------------------------
\* The exchange of d is over, and the calls that waited for it go on.
LEMMA SettleFits ==
  ASSUME TokensInv, NEW d \in PageCalls, exchanges[d] # Over, NEW ok \in BOOLEAN, Page!Settle(d, ok)
  PROVE  /\ refreshing' = Nothing
         /\ exchanges' \in [PageCalls -> Page!Exchange \cup {Over}]
         /\ \A e \in PageCalls : exchanges'[e] = Over /\ (e # d => exchanges[e] = Over)
         /\ pageCalls' \in [PageCalls -> Page!Call \cup {Over}]
         /\ CallsFit'
         /\ \A c \in PageCalls : SignedIn(c)' => SignedIn(c) /\ pageCalls'[c].tokens = pageCalls[c].tokens
         /\ \A c \in PageCalls : Storing(c) => pageCalls'[c] = pageCalls[c]
<1>1. /\ pageCalls \in [PageCalls -> Page!Call \cup {Over}]
      /\ exchanges \in [PageCalls -> Page!Exchange \cup {Over}]
  BY DEF TokensInv, Page!TypeOK
<1>2. \A e \in PageCalls : e # d => exchanges[e] = Over
  BY SlotIsShared
<1>3. /\ refreshing' = Nothing
      /\ exchanges' = [exchanges EXCEPT ![d] = Over]
  BY DEF Page!Settle
<1>4. /\ exchanges' \in [PageCalls -> Page!Exchange \cup {Over}]
      /\ \A e \in PageCalls : exchanges'[e] = Over
  BY <1>1, <1>2, <1>3
<1>5. ASSUME NEW c \in PageCalls
      PROVE  /\ pageCalls'[c] \in Page!Call \cup {Over}
             /\ pageCalls'[c] = pageCalls[c] \/ pageCalls'[c] = Over
                \/ (pageCalls'[c].pc \in {"resume", "clear"} /\ pageCalls'[c].on = Nothing)
             /\ pageCalls[c] # Over /\ pageCalls[c].on # d => pageCalls'[c] = pageCalls[c]
  <2> DEFINE call == pageCalls[c]
             next == IF call = Over \/ call.on # d THEN call
                     ELSE IF call.op = "refresh" THEN Over
                     ELSE IF ok THEN [call EXCEPT !.pc = "resume", !.on = Nothing]
                     ELSE Page!Failed(call)
  <2>1. pageCalls'[c] = next
    BY DEF Page!Settle
  <2>2. call \in Page!Call \cup {Over}
    BY <1>1
  <2> HIDE DEF call
  <2>3. CASE call = Over \/ call.on # d
    BY <2>1, <2>2, <2>3 DEF call
  <2>4. CASE call # Over /\ call.on = d /\ call.op = "refresh"
    BY <2>1, <2>4 DEF call
  <2>5. CASE call # Over /\ call.on = d /\ call.op # "refresh" /\ ok
    <3>1. [call EXCEPT !.pc = "resume", !.on = Nothing] \in Page!Call
      BY <2>2, <2>5 DEF Page!Call
    <3>2. /\ [call EXCEPT !.pc = "resume", !.on = Nothing].pc = "resume"
          /\ [call EXCEPT !.pc = "resume", !.on = Nothing].on = Nothing
      BY <2>2, <2>5 DEF Page!Call
    <3> QED BY <2>1, <2>5, <3>1, <3>2 DEF call
  <2>6. CASE call # Over /\ call.on = d /\ call.op # "refresh" /\ ~ok
    <3>1. /\ Page!Failed(call) \in Page!Call \cup {Over}
          /\ Page!Failed(call) # Over => Page!Failed(call).pc = "clear" /\ Page!Failed(call).on = Nothing
      BY <2>2, <2>6, FailedFits
    <3> QED BY <2>1, <2>6, <3>1 DEF call
  <2> QED BY <2>3, <2>4, <2>5, <2>6
<1>6. pageCalls' \in [PageCalls -> Page!Call \cup {Over}]
  <2>1. pageCalls' = [c \in PageCalls |-> pageCalls'[c]]
    BY DEF Page!Settle
  <2> QED BY <1>5, <2>1
<1>7. CallsFit'
  BY <1>5 DEF TokensInv, CallsFit
<1>8. \A c \in PageCalls : SignedIn(c)' => SignedIn(c) /\ pageCalls'[c].tokens = pageCalls[c].tokens
  BY <1>5 DEF SignedIn
<1>9. \A c \in PageCalls : Storing(c) => pageCalls'[c] = pageCalls[c]
  BY <1>5, TokenSentinels DEF TokensInv, CallsFit, Storing
<1> QED BY <1>2, <1>3, <1>4, <1>6, <1>7, <1>8, <1>9
-----------------------------------------------------------------------------
\* An exchange that holds no tokens, or whose answer was refused, settles.
LEMMA SettleKeeps ==
  ASSUME TokensInv, NEW d \in PageCalls, exchanges[d] # Over, ~Exchanging(d), Page!Settle(d, FALSE),
         UNCHANGED <<memory, restoring, read, writes, saved, shown, server, lost, chosen, overtaken, adrift>>
  PROVE  TokensInv'
<1>1. /\ refreshing' = Nothing
      /\ exchanges' \in [PageCalls -> Page!Exchange \cup {Over}]
      /\ \A e \in PageCalls : exchanges'[e] = Over /\ (e # d => exchanges[e] = Over)
      /\ pageCalls' \in [PageCalls -> Page!Call \cup {Over}]
      /\ CallsFit'
      /\ \A c \in PageCalls : SignedIn(c)' => SignedIn(c) /\ pageCalls'[c].tokens = pageCalls[c].tokens
      /\ \A c \in PageCalls : Storing(c) => pageCalls'[c] = pageCalls[c]
  BY SettleFits
<1>2. Page!TypeOK'
  BY <1>1 DEF TokensInv, Page!TypeOK
<1>3. ExchangesFit'
  BY <1>1 DEF TokensInv, ExchangesFit
<1>4. \A e \in PageCalls : exchanges'[e] = exchanges[e] \/ (~Exchanging(e) /\ ~Exchanging(e)')
  BY <1>1 DEF Exchanging
<1>5. WritesFit' /\ AllAreKnown' /\ NewIsApart' /\ AllAreFresh'
  <2>1. \A c \in PageCalls : Storing(c) => Storing(c)'
    BY <1>1 DEF Storing
  <2> QED BY <1>1, <1>4, <2>1, CopiesAreKept
<1>6. Agreeing' /\ Page!HonestSessionsSurvive' /\ Page!AtRestAllAgree' /\ Page!Follows'
  BY ShownIsKept
<1> QED BY <1>1, <1>2, <1>3, <1>5, <1>6 DEF TokensInv

LEMMA RefuseExchangeKeeps ==
  ASSUME TokensInv, NEW d \in PageCalls, Page!RefuseExchange(d)
  PROVE  TokensInv'
<1>1. exchanges[d] # Over /\ ~Exchanging(d)
  BY DEF Page!RefuseExchange, Page!Runs, Exchanging
<1> QED BY <1>1, SettleKeeps DEF Page!RefuseExchange, Page!history

\* The exchange under way is that of d: no other is answered, or has a write.
LEMMA OneExchange ==
  ASSUME TokensInv, NEW d \in PageCalls, exchanges[d] # Over
  PROVE  /\ exchanges \in [PageCalls -> Page!Exchange \cup {Over}] /\ exchanges[d] \in Page!Exchange
         /\ \A e \in PageCalls \ {d} : exchanges[e] = Over /\ ~Exchanging(e)
         /\ \A t : Spent(t) => Exchanging(d) /\ exchanges[d].pc # "sent"
                               /\ exchanges[d].tokens.session = Page!SessionOf(t)
         /\ \A t : Overdue(t) <=> /\ exchanges[d].pc = "answered"
                                  /\ exchanges[d].tokens.session = Page!SessionOf(t)
         /\ exchanges[d].pc # "storing" => \A i \in DOMAIN writes : ~writes[i].exchange
<1>1. exchanges \in [PageCalls -> Page!Exchange \cup {Over}]
  BY DEF TokensInv, Page!TypeOK
<1>2. \A e \in PageCalls \ {d} : exchanges[e] = Over /\ ~Exchanging(e)
  BY SlotIsShared DEF Exchanging
<1>3. ASSUME NEW t, Spent(t)
      PROVE  /\ Exchanging(d) /\ exchanges[d].pc # "sent"
             /\ exchanges[d].tokens.session = Page!SessionOf(t)
  BY <1>2, <1>3 DEF Spent, Page!Runs, Exchanging
<1>4. ASSUME NEW t
      PROVE  Overdue(t) <=> exchanges[d].pc = "answered" /\ exchanges[d].tokens.session = Page!SessionOf(t)
  BY <1>2 DEF Overdue, Page!Runs
<1>5. ASSUME exchanges[d].pc # "storing", NEW i \in DOMAIN writes
      PROVE  ~writes[i].exchange
  BY <1>2, <1>5, WritesAreWrites DEF TokensInv, WritesFit, Page!Runs
<1> QED BY <1>1, <1>2, <1>3, <1>4, <1>5

\* What a step of the exchange of d does to the calls and the writes: nothing.
LEMMA ExchangeStep ==
  ASSUME TokensInv, NEW d \in PageCalls, exchanges[d] # Over, exchanges[d].pc # "storing",
         NEW next \in Page!Exchange, next.pc # "storing",
         next.pc \in {"sent", "answered"} => next.tokens \in Page!Tokens,
         next.pc = "restore" \/ restoring = "done",
         exchanges' = [exchanges EXCEPT ![d] = next],
         UNCHANGED <<memory, restoring, read, refreshing, pageCalls, writes>>
  PROVE  /\ exchanges' \in [PageCalls -> Page!Exchange \cup {Over}]
         /\ exchanges'[d] = next /\ next # Over
         /\ \A e \in PageCalls \ {d} : exchanges'[e] = Over /\ ~Exchanging(e)'
         /\ ExchangesFit' /\ CallsFit' /\ WritesFit'
<1>1. /\ exchanges \in [PageCalls -> Page!Exchange \cup {Over}]
      /\ \A e \in PageCalls \ {d} : exchanges[e] = Over
      /\ \A i \in DOMAIN writes : ~writes[i].exchange
  BY OneExchange
<1>2. /\ exchanges' \in [PageCalls -> Page!Exchange \cup {Over}]
      /\ exchanges'[d] = next /\ next # Over
      /\ \A e \in PageCalls \ {d} : exchanges'[e] = Over /\ ~Exchanging(e)'
  BY <1>1, TokenSentinels DEF Exchanging
<1>3. ExchangesFit'
  BY <1>2 DEF TokensInv, ExchangesFit, Exchanging
<1>4. CallsFit' /\ WritesFit'
  <2>1. \A e \in PageCalls : ~(Page!Runs(e, "storing"))'
    BY <1>2 DEF Page!Runs
  <2> QED BY <1>1, <2>1 DEF TokensInv, CallsFit, WritesFit, Storing
<1> QED BY <1>2, <1>3, <1>4
-----------------------------------------------------------------------------
\* The exchange goes out with the tokens of the page, the last of their session.
LEMMA StartExchangeKeeps ==
  ASSUME TokensInv, NEW d \in PageCalls, Page!StartExchange(d)
  PROVE  TokensInv'
<1>1. /\ exchanges[d] # Over /\ exchanges[d].pc = "restore" /\ restoring \in {"done", "failed"}
      /\ UNCHANGED <<memory, restoring, read, writes, saved, shown, server, lost, chosen, overtaken, adrift>>
  BY DEF Page!StartExchange, Page!Runs, Page!Ready, Page!history
<1>2. CASE Page!Settle(d, FALSE)
  BY <1>1, <1>2, SettleKeeps DEF Exchanging
<1>3. CASE ~(restoring = "failed" \/ memory = Nothing)
  <2> DEFINE next == [pc |-> "sent", tokens |-> memory]
  <2>1. exchanges' = [exchanges EXCEPT ![d] = next] /\ UNCHANGED <<pageCalls, refreshing>> /\ restoring = "done"
    BY <1>1, <1>3 DEF Page!StartExchange
  <2>2. memory \in Page!Tokens /\ next \in Page!Exchange /\ next.pc = "sent" /\ next.tokens = memory
    BY <1>3 DEF TokensInv, Page!TypeOK, Page!Exchange
  <2> HIDE DEF next
  <2>3. /\ exchanges' \in [PageCalls -> Page!Exchange \cup {Over}]
        /\ exchanges'[d] = next /\ next # Over
        /\ \A e \in PageCalls \ {d} : exchanges'[e] = Over /\ ~Exchanging(e)'
        /\ ExchangesFit' /\ CallsFit' /\ WritesFit'
    BY <1>1, <2>1, <2>2, ExchangeStep
  <2>4. /\ \A t : ~Spent(t) /\ ~Overdue(t)
        /\ \A i \in DOMAIN writes : ~writes[i].exchange
    BY <1>1, OneExchange DEF Exchanging
  <2>5. Page!TypeOK'
    <3>1. refreshing = d
      BY <1>1, SlotIsShared
    <3>2. refreshing' \in {c \in PageCalls : exchanges'[c] # Over} \cup {Nothing}
      BY <2>1, <2>3, <3>1
    <3> QED BY <1>1, <2>1, <2>3, <3>2 DEF TokensInv, Page!TypeOK
  <2>6. AllAreKnown'
    BY <1>1, <2>1, <2>2, <2>3 DEF TokensInv, AllAreKnown, Known, SignedIn
  <2>7. NewIsApart'
    <3>1. Page!SessionOf(memory) = memory.session
      BY <1>3 DEF Page!SessionOf
    <3> QED BY <1>1, <2>1, <2>2, <2>3, <3>1 DEF TokensInv, NewIsApart, SignedIn, Page!SessionOf
  <2>8. AllAreFresh'
    <3>1. Fresh(memory) /\ Fresh(saved) /\ \A i \in DOMAIN writes : Fresh(writes[i].value)
      BY <2>4 DEF TokensInv, AllAreFresh
    <3>2. \A t : Fresh(t) => Fresh(t)'
      BY <1>1 DEF Fresh
    <3> QED BY <1>1, <2>1, <2>2, <2>3, <3>1, <3>2 DEF TokensInv, AllAreFresh, SignedIn
  <2>9. Agreeing' /\ Page!HonestSessionsSurvive' /\ Page!AtRestAllAgree' /\ Page!Follows'
    BY <1>1, ShownIsKept
  <2> QED BY <2>3, <2>5, <2>6, <2>7, <2>8, <2>9 DEF TokensInv
<1> QED BY <1>2, <1>3 DEF Page!StartExchange

\* The server counts the exchange, and every copy of its session but the answer is behind;
\* or it ends a session that was lost before, or changes nothing.
LEMMA ServeKeeps ==
  ASSUME TokensInv, NEW d \in PageCalls, Page!Serve(d)
  PROVE  TokensInv'
<1> DEFINE sent == exchanges[d].tokens
           count == server[sent.session]
<1>1. /\ exchanges[d] # Over /\ exchanges[d].pc = "sent" /\ Exchanging(d)
      /\ UNCHANGED <<memory, restoring, read, refreshing, pageCalls, writes, saved, shown,
                     lost, chosen, overtaken, adrift>>
  BY DEF Page!Serve, Page!Runs, Exchanging, Page!history
<1>2. /\ sent \in Page!Tokens /\ restoring = "done" /\ read = Nothing /\ refreshing = d
      /\ Known(sent) /\ Fresh(sent)
  BY <1>1 DEF TokensInv, ExchangesFit, AllAreKnown, AllAreFresh
<1>3. /\ sent.session \in Logins /\ sent.count \in Nat /\ sent # Nothing
      /\ count # Unissued /\ (sent.session \in lost \/ count = sent.count)
      /\ server \in [Logins -> 0..MaxExchanges \cup {Unissued, Revoked}]
  BY <1>2, TokenSentinels DEF Page!Tokens, Known, Fresh, TokensInv, Page!TypeOK
<1>4. /\ \A t : ~Spent(t) /\ ~Overdue(t)
      /\ \A i \in DOMAIN writes : ~writes[i].exchange
      /\ exchanges[d] \in Page!Exchange
      /\ exchanges \in [PageCalls -> Page!Exchange \cup {Over}]
  BY <1>1, OneExchange
<1>5. Fresh(memory) /\ Fresh(saved) /\ \A i \in DOMAIN writes : Fresh(writes[i].value)
  BY <1>4 DEF TokensInv, AllAreFresh
<1>6. \A c \in PageCalls : SignedIn(c) => Fresh(pageCalls[c].tokens) /\ pageCalls[c].tokens.session # sent.session
  BY <1>1 DEF TokensInv, AllAreFresh, NewIsApart
<1>7. ASSUME NEW next \in Page!Exchange, exchanges' = [exchanges EXCEPT ![d] = next],
             next.pc \in {"answered", "refused"}, next.pc = "answered" => next.tokens \in Page!Tokens
      PROVE  /\ exchanges'[d] = next /\ next # Over
             /\ \A e \in PageCalls \ {d} : exchanges'[e] = Over /\ ~Exchanging(e)'
             /\ ExchangesFit' /\ CallsFit' /\ WritesFit'
             /\ server' \in [Logins -> 0..MaxExchanges \cup {Unissued, Revoked}] => Page!TypeOK'
  <2>1. /\ exchanges' \in [PageCalls -> Page!Exchange \cup {Over}]
        /\ exchanges'[d] = next /\ next # Over
        /\ \A e \in PageCalls \ {d} : exchanges'[e] = Over /\ ~Exchanging(e)'
        /\ ExchangesFit' /\ CallsFit' /\ WritesFit'
    BY <1>1, <1>2, <1>7, ExchangeStep
  <2>2. refreshing' \in {c \in PageCalls : exchanges'[c] # Over} \cup {Nothing}
    BY <1>1, <1>2, <2>1
  <2> QED BY <1>1, <2>1, <2>2 DEF TokensInv, Page!TypeOK
<1>8. Page!AtRestAllAgree' /\ Agreeing' /\ Page!Follows'
  BY <1>1 DEF TokensInv, Agreeing, Page!AtRestAllAgree, Page!Follows, Page!SessionOf
<1>9. CASE /\ count = sent.count /\ count < MaxExchanges
           /\ server' = [server EXCEPT ![sent.session] = count + 1]
           /\ exchanges' = [exchanges EXCEPT ![d] = [pc |-> "answered", tokens |-> [sent EXCEPT !.count = count + 1]]]
  <2> DEFINE minted == [sent EXCEPT !.count = count + 1]
             next   == [pc |-> "answered", tokens |-> minted]
  <2>1. /\ minted \in Page!Tokens /\ minted.session = sent.session /\ minted.count = count + 1
        /\ next \in Page!Exchange /\ next.pc = "answered" /\ next.tokens = minted
    BY <1>2, <1>3, <1>9, TokenSentinels DEF Page!Tokens, Page!Exchange
  <2>2. exchanges' = [exchanges EXCEPT ![d] = next]
    BY <1>9
  <2> HIDE DEF sent, count, minted, next
  <2>3. /\ exchanges'[d] = next /\ next # Over
        /\ \A e \in PageCalls \ {d} : exchanges'[e] = Over /\ ~Exchanging(e)'
        /\ ExchangesFit' /\ CallsFit' /\ WritesFit'
    BY <1>7, <2>1, <2>2
  <2>4. /\ server' \in [Logins -> 0..MaxExchanges \cup {Unissued, Revoked}]
        /\ server'[sent.session] = count + 1 /\ count + 1 \in Nat
        /\ \A s \in Logins : s # sent.session => server'[s] = server[s]
    BY <1>3, <1>9, TokenSentinels
  <2>5. Page!TypeOK'
    BY <1>7, <2>1, <2>2, <2>4
  <2>6. /\ \A t : Known(t) /\ t \in Page!Tokens \cup {Nothing} => Known(t)'
        /\ \A t : Fresh(t) /\ t \in Page!Tokens \cup {Nothing} =>
             Fresh(t)' \/ (t # Nothing /\ t.session = sent.session)
    BY <1>1, <2>4, TokenSentinels DEF Known, Fresh, Page!Tokens
  <2>7. /\ memory \in Page!Tokens \cup {Nothing} /\ saved \in Page!Tokens \cup {Nothing}
        /\ \A i \in DOMAIN writes : writes[i].value \in Page!Tokens \cup {Nothing}
        /\ \A c \in PageCalls : SignedIn(c) => pageCalls[c].tokens \in Page!Tokens
    BY WritesAreWrites DEF TokensInv, Page!TypeOK, CallsFit, SignedIn
  <2>8. server'[minted.session] # Unissued /\ server'[minted.session] = minted.count
    BY <1>3, <2>1, <2>4, TokenSentinels
  <2>9. AllAreKnown'
    BY <1>1, <1>2, <2>1, <2>3, <2>6, <2>7, <2>8 DEF TokensInv, AllAreKnown, Known, SignedIn
  <2>10. NewIsApart'
    BY <1>1, <1>6, <2>1, <2>3 DEF TokensInv, NewIsApart, SignedIn, Page!SessionOf
  <2>11. AllAreFresh'
    <3>1. \A t : t # Nothing /\ t.session = sent.session => Spent(t)' /\ Overdue(t)'
      BY <2>1, <2>3 DEF Spent, Overdue, Page!Runs, Page!SessionOf
    <3>2. Fresh(memory)' \/ Overdue(memory)'
      BY <1>1, <1>5, <2>6, <2>7, <3>1
    <3>3. Fresh(saved)' \/ Spent(saved)'
      BY <1>1, <1>5, <2>6, <2>7, <3>1
    <3>4. \A i \in DOMAIN writes : Fresh(writes[i].value)' \/ Spent(writes[i].value)'
      BY <1>1, <1>5, <2>6, <2>7, <3>1
    <3>5. Fresh(read)'
      BY <1>1, <1>2 DEF Fresh
    <3>6. \A c \in PageCalls : SignedIn(c) => Fresh(pageCalls[c].tokens)'
      BY <1>1, <1>6, <2>6, <2>7 DEF Fresh
    <3>7. \A i \in DOMAIN writes : \A j \in 1..i : ~writes[j].exchange
      BY <1>4, WritesAreWrites
    <3>8. \A i \in DOMAIN writes' :
            Fresh(writes[i].value)' \/ (Spent(writes[i].value)' /\ \A j \in 1..i : ~writes'[j].exchange)
      BY <1>1, <3>4, <3>7
    <3>9. \A e \in PageCalls : Exchanging(e)' => Fresh(exchanges[e].tokens)'
      <4>1. \A e \in PageCalls : Exchanging(e)' => e = d
        BY <2>3
      <4>2. Fresh(exchanges[d].tokens)'
        BY <2>1, <2>3, <2>8 DEF Fresh
      <4> QED BY <4>1, <4>2
    <3> QED BY <1>1, <3>2, <3>3, <3>5, <3>6, <3>8, <3>9 DEF AllAreFresh, SignedIn
  <2>12. Page!HonestSessionsSurvive'
    BY <1>1, <2>4, TokenSentinels DEF TokensInv, Page!HonestSessionsSurvive
  <2> QED BY <1>8, <2>3, <2>5, <2>9, <2>10, <2>11, <2>12 DEF TokensInv
<1>10. CASE /\ exchanges' = [exchanges EXCEPT ![d].pc = "refused"]
            /\ \/ count # sent.count /\ server' = [server EXCEPT ![sent.session] = Revoked]
               \/ server' = server
  <2> DEFINE next == [exchanges[d] EXCEPT !.pc = "refused"]
  <2>1. next \in Page!Exchange /\ next.pc = "refused" /\ exchanges' = [exchanges EXCEPT ![d] = next]
    BY <1>4, <1>10 DEF Page!Exchange
  <2> HIDE DEF sent, count, next
  <2>2. /\ exchanges'[d] = next /\ next # Over
        /\ \A e \in PageCalls \ {d} : exchanges'[e] = Over /\ ~Exchanging(e)'
        /\ ExchangesFit' /\ CallsFit' /\ WritesFit'
    BY <1>7, <2>1
  <2>3. /\ server' \in [Logins -> 0..MaxExchanges \cup {Unissued, Revoked}]
        /\ \A s \in Logins : server'[s] = server[s] \/ (server'[s] = Revoked /\ s \in lost)
        /\ \A s \in Logins : server[s] # Unissued => server'[s] # Unissued
    BY <1>3, <1>10, TokenSentinels
  <2>4. Page!TypeOK'
    BY <1>7, <2>1, <2>3
  <2>5. \A t \in Page!Tokens \cup {Nothing} : (Known(t) => Known(t)') /\ (Fresh(t) => Fresh(t)')
    BY <1>1, <2>3 DEF Known, Fresh, Page!Tokens
  <2>6. /\ memory \in Page!Tokens \cup {Nothing} /\ saved \in Page!Tokens \cup {Nothing}
        /\ \A i \in DOMAIN writes : writes[i].value \in Page!Tokens \cup {Nothing}
        /\ \A c \in PageCalls : SignedIn(c) => pageCalls[c].tokens \in Page!Tokens
    BY WritesAreWrites DEF TokensInv, Page!TypeOK, CallsFit, SignedIn
  <2>7. ~Exchanging(d)'
    BY <2>1, <2>2 DEF Exchanging
  <2>8. AllAreKnown'
    BY <1>1, <1>2, <2>2, <2>5, <2>6, <2>7 DEF TokensInv, AllAreKnown, Known, SignedIn
  <2>9. NewIsApart'
    BY <1>1, <1>6, <2>2, <2>7 DEF TokensInv, NewIsApart, SignedIn, Page!SessionOf
  <2>10. AllAreFresh'
    BY <1>1, <1>2, <1>5, <1>6, <2>2, <2>5, <2>6, <2>7 DEF AllAreFresh, Fresh, SignedIn
  <2>11. Page!HonestSessionsSurvive'
    BY <1>1, <2>3 DEF TokensInv, Page!HonestSessionsSurvive
  <2> QED BY <1>8, <2>2, <2>4, <2>8, <2>9, <2>10, <2>11 DEF TokensInv
<1> QED BY <1>9, <1>10 DEF Page!Serve
-----------------------------------------------------------------------------
\* The answer is gone: the session is lost, whoever still holds tokens of it.
LEMMA LoseKeeps ==
  ASSUME TokensInv, NEW d \in PageCalls, Page!Lose(d)
  PROVE  TokensInv'
<1> DEFINE session == exchanges[d].tokens.session
           next    == [exchanges[d] EXCEPT !.pc = "refused"]
<1>1. /\ exchanges[d] # Over /\ exchanges[d].pc = "answered" /\ Exchanging(d)
      /\ exchanges' = [exchanges EXCEPT ![d] = next] /\ lost' = lost \cup {session}
      /\ UNCHANGED <<memory, restoring, read, refreshing, pageCalls, writes, saved, shown, server,
                     chosen, overtaken, adrift>>
  BY DEF Page!Lose, Page!Runs, Exchanging
<1>2. /\ exchanges[d] \in Page!Exchange /\ exchanges[d].tokens \in Page!Tokens
      /\ restoring = "done" /\ refreshing = d /\ session \in Logins
  BY <1>1, OneExchange DEF TokensInv, ExchangesFit, Page!Tokens
<1>3. next \in Page!Exchange /\ next.pc = "refused"
  BY <1>2 DEF Page!Exchange
<1>4. /\ \A t : Spent(t) => session = Page!SessionOf(t)
      /\ \A t : Overdue(t) => session = Page!SessionOf(t)
  BY <1>1, OneExchange
<1> HIDE DEF next, session
<1>5. /\ exchanges' \in [PageCalls -> Page!Exchange \cup {Over}]
      /\ exchanges'[d] = next /\ next # Over
      /\ \A e \in PageCalls \ {d} : exchanges'[e] = Over /\ ~Exchanging(e)'
      /\ ExchangesFit' /\ CallsFit' /\ WritesFit'
  BY <1>1, <1>2, <1>3, ExchangeStep
<1>6. \A e \in PageCalls : ~Exchanging(e)'
  BY <1>3, <1>5 DEF Exchanging
<1>7. Page!TypeOK'
  <2>1. refreshing' \in {c \in PageCalls : exchanges'[c] # Over} \cup {Nothing}
    BY <1>1, <1>2, <1>5
  <2> QED BY <1>1, <1>2, <1>5, <2>1 DEF TokensInv, Page!TypeOK
<1>8. AllAreKnown' /\ NewIsApart'
  BY <1>1, <1>6 DEF TokensInv, AllAreKnown, NewIsApart, Known, SignedIn, Page!SessionOf
<1>9. AllAreFresh'
  <2>1. \A t : Fresh(t) \/ Spent(t) \/ Overdue(t) => (t # Nothing => t.session \in lost' \/ server[t.session] = t.count)
    BY <1>1, <1>4 DEF Fresh, Page!SessionOf
  <2> QED BY <1>1, <1>6, <2>1 DEF TokensInv, AllAreFresh, Fresh, SignedIn
<1>10. Agreeing' /\ Page!HonestSessionsSurvive' /\ Page!AtRestAllAgree' /\ Page!Follows'
  BY <1>1 DEF TokensInv, Agreeing, Page!HonestSessionsSurvive, Page!AtRestAllAgree, Page!Follows, Page!SessionOf
<1> QED BY <1>5, <1>7, <1>8, <1>9, <1>10 DEF TokensInv
-----------------------------------------------------------------------------
\* setTokens and clearTokens: the page holds the value at once, and the store is asked last.
LEMMA HoldFits ==
  ASSUME TokensInv, NEW value \in Page!Tokens \cup {Nothing}, NEW by \in PageCalls, NEW exchange \in BOOLEAN,
         Page!Hold(value, by, exchange), Page!NoRestore, \A i \in DOMAIN writes : writes[i].by # by
  PROVE  /\ memory' = value /\ memory' \in Page!Tokens \cup {Nothing}
         /\ restoring' \in {"reading", "read", "done", "failed"} /\ (restoring # "no" => restoring' = restoring)
         /\ writes' \in Seq(Page!Write) /\ writes' # <<>> /\ Len(writes') = Len(writes) + 1
         /\ DOMAIN writes' = 1..Len(writes) + 1
         /\ \A i \in DOMAIN writes : i \in DOMAIN writes' /\ writes'[i] = writes[i]
         /\ \A i \in DOMAIN writes' : i \in DOMAIN writes \/ i = Len(writes) + 1
         /\ writes'[Len(writes) + 1] = [value |-> value, by |-> by, exchange |-> exchange]
         /\ \A i, j \in DOMAIN writes' : writes'[i].by = writes'[j].by => i = j
         /\ adrift' \in BOOLEAN
         /\ Agreeing' /\ Page!AtRestAllAgree'
<1> DEFINE write == [value |-> value, by |-> by, exchange |-> exchange]
<1>1. memory' = value /\ writes' = Append(writes, write) /\ adrift' = (value = Nothing /\ restoring \in {"reading", "read"})
  BY DEF Page!Hold
<1>2. write \in Page!Write /\ writes \in Seq(Page!Write) /\ write.by = by /\ write.value = value
  BY WritesAreWrites DEF Page!Write
<1> HIDE DEF write
<1>3. /\ writes' \in Seq(Page!Write) /\ Len(writes') = Len(writes) + 1 /\ Len(writes) \in Nat
      /\ DOMAIN writes = 1..Len(writes) /\ DOMAIN writes' = 1..Len(writes) + 1
      /\ \A i \in 1..Len(writes) : writes'[i] = writes[i]
      /\ writes'[Len(writes) + 1] = write
  BY <1>1, <1>2
<1>4. /\ \A i \in DOMAIN writes : i \in DOMAIN writes' /\ writes'[i] = writes[i]
      /\ \A i \in DOMAIN writes' : i \in DOMAIN writes \/ i = Len(writes) + 1
      /\ writes' # <<>>
  BY <1>3
<1>5. /\ restoring' \in {"reading", "read", "done", "failed"}
      /\ restoring # "no" => restoring' = restoring
      /\ restoring = "no" => restoring' = "done"
  BY DEF Page!NoRestore, TokensInv, Page!TypeOK
<1>6. \A i, j \in DOMAIN writes' : writes'[i].by = writes'[j].by => i = j
  BY <1>2, <1>3, <1>4 DEF TokensInv, WritesFit
<1>7. Agreeing' /\ Page!AtRestAllAgree'
  BY <1>1, <1>2, <1>3, <1>4, <1>5 DEF Agreeing, Page!AtRestAllAgree
<1>8. adrift' \in BOOLEAN
  BY <1>1
<1> QED BY <1>1, <1>3, <1>4, <1>5, <1>6, <1>7, <1>8 DEF write

\* A call that holds a value of its own: the tokens of its sign-in, or nothing.
LEMMA CallHolds ==
  ASSUME TokensInv, NEW c \in PageCalls, pageCalls[c] # Over, pageCalls[c].pc \in {"answered", "clear"},
         NEW value, value = IF pageCalls[c].pc = "answered" THEN pageCalls[c].tokens ELSE Nothing,
         Page!Hold(value, c, FALSE), Page!NoRestore, pageCalls' = [pageCalls EXCEPT ![c].pc = "storing"],
         chosen' = Page!SessionOf(value),
         UNCHANGED <<read, refreshing, exchanges, shown, saved, server, lost, overtaken>>
  PROVE  TokensInv'
<1> DEFINE call == [pageCalls[c] EXCEPT !.pc = "storing"]
<1>1. pageCalls[c] \in Page!Call /\ pageCalls[c].on = Nothing
  BY DEF TokensInv, Page!TypeOK, CallsFit
<1>2. call \in Page!Call /\ call.pc = "storing" /\ call.on = Nothing /\ pageCalls' = [pageCalls EXCEPT ![c] = call]
  BY <1>1 DEF Page!Call
<1> HIDE DEF call
<1>3. value \in Page!Tokens \cup {Nothing} /\ Page!SessionOf(value) \in Logins \cup {Nothing}
  BY DEF TokensInv, CallsFit, Page!Tokens, Page!SessionOf
<1>4. /\ exchanges[c] = Over /\ refreshing # c
      /\ \A i \in DOMAIN writes : writes[i].by # c
  BY FreeCall
<1>5. /\ memory' = value /\ memory' \in Page!Tokens \cup {Nothing}
      /\ restoring' \in {"reading", "read", "done", "failed"} /\ (restoring # "no" => restoring' = restoring)
      /\ writes' \in Seq(Page!Write) /\ writes' # <<>> /\ Len(writes') = Len(writes) + 1
      /\ DOMAIN writes' = 1..Len(writes) + 1
      /\ \A i \in DOMAIN writes : i \in DOMAIN writes' /\ writes'[i] = writes[i]
      /\ \A i \in DOMAIN writes' : i \in DOMAIN writes \/ i = Len(writes) + 1
      /\ writes'[Len(writes) + 1] = [value |-> value, by |-> c, exchange |-> FALSE]
      /\ \A i, j \in DOMAIN writes' : writes'[i].by = writes'[j].by => i = j
      /\ adrift' \in BOOLEAN
      /\ Agreeing' /\ Page!AtRestAllAgree'
  BY <1>3, <1>4, HoldFits
<1>6. /\ pageCalls' \in [PageCalls -> Page!Call \cup {Over}]
      /\ pageCalls'[c] = call /\ \A d \in PageCalls \ {c} : pageCalls'[d] = pageCalls[d]
      /\ CallsFit'
      /\ \A d \in PageCalls : Storing(d) => Storing(d)'
      /\ \A d \in PageCalls : exchanges[d] # Over =>
           pageCalls'[d] # Over /\ pageCalls'[d].pc = "joined" /\ pageCalls'[d].on = d
  BY <1>2, CallGoesOn
<1>7. Page!TypeOK'
  BY <1>3, <1>5, <1>6 DEF TokensInv, Page!TypeOK
<1>8. ExchangesFit'
  <2>1. restoring # "read" => read = Nothing
    BY DEF TokensInv, ExchangesFit
  <2>2. restoring' # "read" => read' = Nothing
    BY <1>5, <2>1
  <2>3. \A d \in PageCalls : exchanges[d] # Over =>
          restoring' = restoring /\ (exchanges[d].pc # "restore" => restoring = "done")
    BY <1>5 DEF TokensInv, ExchangesFit
  <2>4. \A d \in PageCalls : exchanges[d] # Over => refreshing = d /\ (Exchanging(d) => exchanges[d].tokens \in Page!Tokens)
    BY DEF TokensInv, ExchangesFit
  <2>5. restoring' # "no" /\ \A d \in PageCalls : Exchanging(d)' <=> Exchanging(d)
    BY <1>5 DEF Exchanging
  <2> QED BY <1>6, <2>2, <2>3, <2>4, <2>5 DEF ExchangesFit
<1>9. WritesFit'
  <2>1. \A i \in DOMAIN writes : writes[i].by \in PageCalls /\ writes[i].exchange \in BOOLEAN
    BY WritesAreWrites
  <2>2. \A i \in DOMAIN writes' : writes'[i].exchange =>
          (Page!Runs(writes[i].by, "storing"))' /\ writes'[i].value = exchanges'[writes'[i].by].tokens
    BY <1>5, <2>1 DEF TokensInv, WritesFit, Page!Runs
  <2>3. \A i \in DOMAIN writes' : ~writes'[i].exchange => Storing(writes[i].by)'
    <3>1. Storing(c)'
      BY <1>2, <1>6, TokenSentinels DEF Storing
    <3>2. \A i \in DOMAIN writes : ~writes[i].exchange => Storing(writes[i].by)'
      <4>1. \A i \in DOMAIN writes : ~writes[i].exchange => Storing(writes[i].by)
        BY DEF TokensInv, WritesFit
      <4>2. \A i \in DOMAIN writes : writes'[i] = writes[i]
        BY <1>5
      <4> QED BY <1>6, <2>1, <4>1, <4>2
    <3>3. \A i \in DOMAIN writes' : i \in DOMAIN writes \/ writes'[i].by = c
      BY <1>5
    <3>4. \A i \in DOMAIN writes : writes'[i] = writes[i]
      BY <1>5
    <3>5. \A i \in DOMAIN writes' : writes'[i].by = c => Storing(writes[i].by)'
      BY <3>1 DEF Storing
    <3> QED BY <3>2, <3>3, <3>4, <3>5
  <2>4. \A d \in PageCalls : (Page!Runs(d, "storing"))' => \E i \in DOMAIN writes' : writes'[i].exchange /\ writes'[i].by = d
    BY <1>5 DEF TokensInv, WritesFit, Page!Runs
  <2> QED BY <1>5, <2>2, <2>3, <2>4 DEF WritesFit
<1>10. SignedIn(c) => value = pageCalls[c].tokens
  BY DEF SignedIn
<1>11. \A d \in PageCalls : SignedIn(d)' => d # c /\ SignedIn(d) /\ pageCalls'[d].tokens = pageCalls[d].tokens
  BY <1>2, <1>6 DEF SignedIn
<1>12. Known(value) /\ Fresh(value)
  BY DEF TokensInv, AllAreKnown, AllAreFresh, SignedIn, Known, Fresh
<1>13. AllAreKnown'
  BY <1>5, <1>11, <1>12 DEF TokensInv, AllAreKnown, Known, Exchanging
<1>14. NewIsApart'
  <2>1. \A d \in PageCalls : SignedIn(d)' => pageCalls[d].tokens.session # Page!SessionOf(value)
    <3>1. \A d \in PageCalls : SignedIn(d) => pageCalls[d].tokens.session # Nothing
      BY TokenSentinels DEF TokensInv, CallsFit, SignedIn, Page!Tokens
    <3>2. CASE value = Nothing
      BY <1>11, <3>1, <3>2 DEF Page!SessionOf
    <3>3. CASE value # Nothing
      BY <1>10, <1>11, <3>3 DEF TokensInv, NewIsApart, SignedIn, Page!SessionOf
    <3> QED BY <3>2, <3>3
  <2> QED BY <1>5, <1>11, <2>1 DEF TokensInv, NewIsApart, Page!SessionOf, Exchanging
<1>15. AllAreFresh'
  <2>1. \A t : (Fresh(t) => Fresh(t)') /\ (Spent(t) => Spent(t)')
    BY DEF Fresh, Spent, Page!SessionOf, Page!Runs
  <2>2. Fresh(memory)'
    BY <1>5, <1>12 DEF Fresh
  <2>3. ASSUME NEW i \in DOMAIN writes'
        PROVE  Fresh(writes[i].value)' \/ (Spent(writes[i].value)' /\ \A j \in 1..i : ~writes'[j].exchange)
    <3>1. CASE i = Len(writes) + 1
      BY <1>5, <1>12, <3>1 DEF Fresh
    <3>2. CASE i \in DOMAIN writes
      <4>1. writes'[i] = writes[i] /\ DOMAIN writes = 1..Len(writes) /\ Len(writes) \in Nat
        BY <1>5, <3>2, WritesAreWrites
      <4>2. \A j \in 1..i : j \in DOMAIN writes /\ writes'[j] = writes[j]
        BY <1>5, <3>2, <4>1
      <4>3. Fresh(writes[i].value) \/ (Spent(writes[i].value) /\ \A j \in 1..i : ~writes[j].exchange)
        BY <3>2 DEF TokensInv, AllAreFresh
      <4>4. (\A j \in 1..i : ~writes[j].exchange) => \A j \in 1..i : ~writes'[j].exchange
        BY <4>2
      <4> QED BY <2>1, <4>1, <4>3, <4>4
    <3> QED BY <1>5, <3>1, <3>2
  <2> QED BY <1>5, <1>11, <2>1, <2>2, <2>3 DEF TokensInv, AllAreFresh, Exchanging
<1>16. Page!HonestSessionsSurvive' /\ Page!Follows'
  BY <1>5 DEF TokensInv, Page!HonestSessionsSurvive, Page!Follows, Page!SessionOf
<1> QED BY <1>5, <1>6, <1>7, <1>8, <1>9, <1>13, <1>14, <1>15, <1>16 DEF TokensInv
-----------------------------------------------------------------------------
LEMMA TakeSessionKeeps ==
  ASSUME TokensInv, NEW c \in PageCalls, Page!TakeSession(c)
  PROVE  TokensInv'
<1> DEFINE value == pageCalls[c].tokens
<1>1. /\ pageCalls[c] # Over /\ pageCalls[c].pc = "answered"
      /\ Page!Hold(value, c, FALSE) /\ Page!NoRestore
      /\ pageCalls' = [pageCalls EXCEPT ![c].pc = "storing"]
      /\ chosen' = value.session
      /\ UNCHANGED <<read, refreshing, exchanges, shown, saved, server, lost, overtaken>>
  BY DEF Page!TakeSession
<1>2. value # Nothing
  BY <1>1, TokenSentinels DEF TokensInv, CallsFit
<1>3. chosen' = Page!SessionOf(value)
  BY <1>1, <1>2 DEF Page!SessionOf
<1> HIDE DEF value
<1>4. value = IF pageCalls[c].pc = "answered" THEN pageCalls[c].tokens ELSE Nothing
  BY <1>1 DEF value
<1> QED BY <1>1, <1>3, <1>4, CallHolds

LEMMA ClearKeeps ==
  ASSUME TokensInv, NEW c \in PageCalls, Page!Clear(c)
  PROVE  TokensInv'
<1>1. /\ pageCalls[c] # Over /\ pageCalls[c].pc = "clear"
      /\ Page!Hold(Nothing, c, FALSE) /\ Page!NoRestore
      /\ pageCalls' = [pageCalls EXCEPT ![c].pc = "storing"]
      /\ chosen' = Page!SessionOf(Nothing)
      /\ UNCHANGED <<read, refreshing, exchanges, shown, saved, server, lost, overtaken>>
  BY DEF Page!Clear, Page!SessionOf
<1>2. Nothing = IF pageCalls[c].pc = "answered" THEN pageCalls[c].tokens ELSE Nothing
  BY <1>1
<1> QED BY <1>1, <1>2, CallHolds

\* The tokens a page holds, wherever it holds them.
LEMMA WhatIsHeld ==
  ASSUME TokensInv
  PROVE  /\ \A t \in {memory, read, saved} : t \in Page!Tokens \cup {Nothing}
         /\ \A i \in DOMAIN writes : writes[i].value \in Page!Tokens \cup {Nothing}
         /\ \A d \in PageCalls : Exchanging(d) => exchanges[d].tokens \in Page!Tokens
         /\ \A d \in PageCalls : SignedIn(d) => pageCalls[d].tokens \in Page!Tokens
<1>1. memory \in Page!Tokens \cup {Nothing} /\ read \in Page!Tokens \cup {Nothing} /\ saved \in Page!Tokens \cup {Nothing}
  BY DEF TokensInv, Page!TypeOK
<1>2. \A d \in PageCalls : Exchanging(d) => exchanges[d].tokens \in Page!Tokens
  BY DEF TokensInv, ExchangesFit, Exchanging
<1>3. \A d \in PageCalls : SignedIn(d) => pageCalls[d].tokens \in Page!Tokens
  BY DEF TokensInv, CallsFit, SignedIn
<1> QED BY <1>1, <1>2, <1>3, WritesAreWrites

\* Nothing on the page moves, but the server changes or a call does.
LEMMA TokensMove ==
  ASSUME TokensInv, UNCHANGED <<memory, read, exchanges, writes, saved>>,
         \A d \in PageCalls : Storing(d) => Storing(d)',
         \A d \in PageCalls : SignedIn(d)' => Known(pageCalls[d].tokens)' /\ Fresh(pageCalls[d].tokens)',
         \A t \in Page!Tokens \cup {Nothing} : Known(t) => Known(t)' /\ (Fresh(t) => Fresh(t)')
  PROVE  WritesFit' /\ AllAreKnown' /\ AllAreFresh'
<1>1. /\ \A t \in {memory, read, saved} : t \in Page!Tokens \cup {Nothing}
      /\ \A i \in DOMAIN writes : writes[i].value \in Page!Tokens \cup {Nothing}
      /\ \A d \in PageCalls : Exchanging(d) => exchanges[d].tokens \in Page!Tokens
      /\ \A i \in DOMAIN writes : writes[i].by \in PageCalls
  BY WhatIsHeld, WritesAreWrites
<1>2. \A d \in PageCalls : Exchanging(d)' <=> Exchanging(d)
  BY DEF Exchanging
<1>3. \A t : (Spent(t) => Spent(t)') /\ (Overdue(t) => Overdue(t)')
  BY DEF Spent, Overdue, Page!Runs, Page!SessionOf
<1>4. WritesFit'
  <2>1. \A i \in DOMAIN writes : ~writes[i].exchange => Storing(writes[i].by)'
    BY <1>1 DEF TokensInv, WritesFit, Storing
  <2> QED BY <2>1 DEF TokensInv, WritesFit, Page!Runs, Storing
<1>5. /\ Known(memory)' /\ Known(read)' /\ Known(saved)'
      /\ \A i \in DOMAIN writes : Known(writes[i].value)'
      /\ \A d \in PageCalls : Exchanging(d) => Known(exchanges[d].tokens)'
  BY <1>1 DEF TokensInv, AllAreKnown, Known
<1>6. AllAreKnown'
  BY <1>2, <1>5 DEF AllAreKnown
<1>7. /\ Fresh(memory)' \/ Overdue(memory)'
      /\ Fresh(read)'
      /\ Fresh(saved)' \/ Spent(saved)'
      /\ \A d \in PageCalls : Exchanging(d) => Fresh(exchanges[d].tokens)'
  <2>1. \A t \in Page!Tokens \cup {Nothing} : Known(t) /\ Fresh(t) => Fresh(t)'
    OBVIOUS
  <2> QED BY <1>1, <1>3, <2>1 DEF TokensInv, AllAreKnown, AllAreFresh, Fresh, Spent, Overdue, Page!SessionOf
<1>8. \A i \in DOMAIN writes' :
        Fresh(writes[i].value)' \/ (Spent(writes[i].value)' /\ \A j \in 1..i : ~writes'[j].exchange)
  <2>1. \A i \in DOMAIN writes : Known(writes[i].value) /\ (Fresh(writes[i].value) => Fresh(writes[i].value)')
    BY <1>1 DEF TokensInv, AllAreKnown, Known, Fresh
  <2>2. \A i \in DOMAIN writes : Spent(writes[i].value) => Spent(writes[i].value)'
    BY DEF Spent, Page!Runs, Page!SessionOf
  <2> QED BY <2>1, <2>2 DEF TokensInv, AllAreFresh
<1> QED BY <1>2, <1>4, <1>6, <1>7, <1>8 DEF AllAreFresh

\* The server answers a call.  A session that ends is lost; one that begins is of nobody else.
LEMMA AnswerKeeps ==
  ASSUME TokensInv, NEW c \in PageCalls, Page!Answer(c)
  PROVE  TokensInv'
<1>1. /\ pageCalls[c] # Over /\ pageCalls[c].pc = "sent"
      /\ UNCHANGED <<memory, restoring, read, refreshing, exchanges, writes, shown, saved, chosen, overtaken, adrift>>
  BY DEF Page!Answer
<1>2. pageCalls[c] \in Page!Call /\ pageCalls[c].on = Nothing
  BY <1>1 DEF TokensInv, Page!TypeOK, CallsFit
<1>3. /\ \A t \in {memory, read, saved} : t \in Page!Tokens \cup {Nothing}
      /\ \A i \in DOMAIN writes : writes[i].value \in Page!Tokens \cup {Nothing}
      /\ \A d \in PageCalls : Exchanging(d) => exchanges[d].tokens \in Page!Tokens
      /\ \A d \in PageCalls : SignedIn(d) => pageCalls[d].tokens \in Page!Tokens
  BY WhatIsHeld
<1>4. server \in [Logins -> 0..MaxExchanges \cup {Unissued, Revoked}] /\ lost \subseteq Logins
  BY DEF TokensInv, Page!TypeOK
<1>5. CASE pageCalls' = [pageCalls EXCEPT ![c] = Over] /\ UNCHANGED <<server, lost>>
  BY <1>1, <1>5, CallStepKeeps
<1>6. CASE /\ pageCalls[c].op = "signOut" /\ pageCalls' = [pageCalls EXCEPT ![c].pc = "clear"]
           /\ UNCHANGED <<server, lost>>
  <2> DEFINE call == [pageCalls[c] EXCEPT !.pc = "clear"]
  <2>1. call \in Page!Call /\ call.pc = "clear" /\ call.on = Nothing /\ pageCalls' = [pageCalls EXCEPT ![c] = call]
    BY <1>2, <1>6 DEF Page!Call
  <2> HIDE DEF call
  <2> QED BY <1>1, <1>6, <2>1, CallStepKeeps
<1>7. CASE /\ pageCalls[c].op = "signOut" /\ pageCalls' = [pageCalls EXCEPT ![c].pc = "clear"]
           /\ server' = [server EXCEPT ![pageCalls[c].tokens.session] = Revoked]
           /\ lost' = lost \cup {pageCalls[c].tokens.session}
  <2> DEFINE call    == [pageCalls[c] EXCEPT !.pc = "clear"]
             session == pageCalls[c].tokens.session
  <2>1. call \in Page!Call /\ call.pc = "clear" /\ call.on = Nothing /\ pageCalls' = [pageCalls EXCEPT ![c] = call]
    BY <1>2, <1>7 DEF Page!Call
  <2>2. session \in Logins
    BY <1>1, <1>7 DEF TokensInv, CallsFit, Page!Tokens
  <2> HIDE DEF call
  <2>3. /\ pageCalls' \in [PageCalls -> Page!Call \cup {Over}]
        /\ pageCalls'[c] = call /\ \A d \in PageCalls \ {c} : pageCalls'[d] = pageCalls[d]
        /\ CallsFit'
        /\ \A d \in PageCalls : Storing(d) => Storing(d)'
        /\ \A d \in PageCalls : exchanges[d] # Over =>
             pageCalls'[d] # Over /\ pageCalls'[d].pc = "joined" /\ pageCalls'[d].on = d
    BY <1>1, <2>1, CallGoesOn
  <2>4. \A d \in PageCalls : SignedIn(d)' => SignedIn(d) /\ pageCalls'[d] = pageCalls[d]
    BY <2>1, <2>3 DEF SignedIn
  <2>5. /\ server' = [server EXCEPT ![session] = Revoked] /\ lost' = lost \cup {session}
    BY <1>7
  <2> HIDE DEF session
  <2>6. Page!TypeOK'
    BY <1>1, <1>4, <2>2, <2>3, <2>5 DEF TokensInv, Page!TypeOK
  <2>7. ExchangesFit'
    BY <1>1, <2>3 DEF TokensInv, ExchangesFit, Exchanging
  <2>8. \A t \in Page!Tokens \cup {Nothing} : (Known(t) => Known(t)') /\ (Fresh(t) => Fresh(t)')
    BY <1>4, <2>2, <2>5, TokenSentinels DEF Known, Fresh, Page!Tokens
  <2>9. AllAreKnown' /\ AllAreFresh' /\ WritesFit'
    <3>1. \A d \in PageCalls : SignedIn(d) => Known(pageCalls[d].tokens) /\ Fresh(pageCalls[d].tokens)
      BY DEF TokensInv, AllAreKnown, AllAreFresh
    <3>2. \A d \in PageCalls : SignedIn(d)' => Known(pageCalls[d].tokens)' /\ Fresh(pageCalls[d].tokens)'
      BY <1>3, <2>4, <2>8, <3>1 DEF Known, Fresh
    <3> QED BY <1>1, <2>3, <2>8, <3>2, TokensMove
  <2>11. NewIsApart'
    <3>1. \A d \in PageCalls : Exchanging(d)' <=> Exchanging(d)
      BY <1>1 DEF Exchanging
    <3> QED BY <1>1, <2>4, <3>1 DEF TokensInv, NewIsApart, Page!SessionOf
  <2>10. Agreeing' /\ Page!HonestSessionsSurvive' /\ Page!AtRestAllAgree' /\ Page!Follows'
    BY <1>1, <1>4, <2>2, <2>5, TokenSentinels
       DEF TokensInv, Agreeing, Page!HonestSessionsSurvive, Page!AtRestAllAgree, Page!Follows, Page!SessionOf
  <2> QED BY <2>3, <2>6, <2>7, <2>9, <2>10, <2>11 DEF TokensInv
<1>8. CASE /\ pageCalls[c].op = "signIn"
           /\ \E s \in Logins :
                /\ server[s] = Unissued
                /\ server' = [server EXCEPT ![s] = 0]
                /\ pageCalls' = [pageCalls EXCEPT ![c].pc = "answered", ![c].tokens = [session |-> s, count |-> 0]]
           /\ UNCHANGED lost
  <2>1. PICK s \in Logins :
                /\ server[s] = Unissued
                /\ server' = [server EXCEPT ![s] = 0]
                /\ pageCalls' = [pageCalls EXCEPT ![c].pc = "answered", ![c].tokens = [session |-> s, count |-> 0]]
    BY <1>8
  <2> DEFINE granted == [session |-> s, count |-> 0]
             call    == [pageCalls[c] EXCEPT !.pc = "answered", !.tokens = granted]
  <2>2. granted \in Page!Tokens /\ granted.session = s /\ granted.count = 0
    BY TokenSentinels DEF Page!Tokens
  <2>3. pageCalls \in [PageCalls -> Page!Call \cup {Over}]
    BY DEF TokensInv, Page!TypeOK
  <2> HIDE DEF granted
  <2>4. /\ call \in Page!Call /\ call.pc = "answered" /\ call.on = Nothing /\ call.tokens = granted
        /\ call.op = "signIn" /\ pageCalls' = [pageCalls EXCEPT ![c] = call]
    BY <1>2, <1>8, <2>1, <2>2, <2>3 DEF Page!Call, granted
  <2> HIDE DEF call
  <2>5. /\ pageCalls' \in [PageCalls -> Page!Call \cup {Over}]
        /\ pageCalls'[c] = call /\ \A d \in PageCalls \ {c} : pageCalls'[d] = pageCalls[d]
        /\ CallsFit'
        /\ \A d \in PageCalls : Storing(d) => Storing(d)'
        /\ \A d \in PageCalls : exchanges[d] # Over =>
             pageCalls'[d] # Over /\ pageCalls'[d].pc = "joined" /\ pageCalls'[d].on = d
    BY <1>1, <2>2, <2>4, CallGoesOn
  <2>6. \A d \in PageCalls : SignedIn(d)' => d = c \/ (SignedIn(d) /\ pageCalls'[d] = pageCalls[d])
    BY <2>5 DEF SignedIn
  <2>7. /\ server' \in [Logins -> 0..MaxExchanges \cup {Unissued, Revoked}] /\ server'[s] = 0
        /\ \A l \in Logins : l # s => server'[l] = server[l]
    BY <1>4, <2>1, TokenSentinels
  <2>8. Page!TypeOK'
    BY <1>1, <1>8, <2>5, <2>7 DEF TokensInv, Page!TypeOK
  <2>9. ExchangesFit'
    BY <1>1, <2>5 DEF TokensInv, ExchangesFit, Exchanging
  <2>10. \A t \in Page!Tokens \cup {Nothing} : Known(t) => Known(t)' /\ (Fresh(t) => Fresh(t)') /\ Page!SessionOf(t) # s
    BY <1>8, <2>1, <2>7, TokenSentinels DEF Known, Fresh, Page!Tokens, Page!SessionOf
  <2>11. AllAreKnown' /\ AllAreFresh' /\ WritesFit'
    <3>1. \A d \in PageCalls : SignedIn(d) => Known(pageCalls[d].tokens) /\ Fresh(pageCalls[d].tokens)
      BY DEF TokensInv, AllAreKnown, AllAreFresh
    <3>2. Known(granted)' /\ Fresh(granted)'
      BY <2>2, <2>7, TokenSentinels DEF Known, Fresh, granted
    <3>3. \A d \in PageCalls : SignedIn(d)' => Known(pageCalls[d].tokens)' /\ Fresh(pageCalls[d].tokens)'
      BY <1>3, <2>4, <2>5, <2>6, <2>10, <3>1, <3>2 DEF Known, Fresh
    <3> QED BY <1>1, <2>5, <2>10, <3>3, TokensMove
  <2>12. NewIsApart'
    <3>1. \A d \in PageCalls : Exchanging(d)' <=> Exchanging(d)
      BY <1>1 DEF Exchanging
    <3>2. s \notin {Page!SessionOf(memory), Page!SessionOf(read), Page!SessionOf(saved)}
      BY <1>3, <2>10 DEF TokensInv, AllAreKnown
    <3>3. \A i \in DOMAIN writes : Page!SessionOf(writes[i].value) # s
      BY <1>3, <2>10 DEF TokensInv, AllAreKnown
    <3>4. /\ \A d \in PageCalls : Exchanging(d) => exchanges[d].tokens.session # s
          /\ \A d \in PageCalls : SignedIn(d) => pageCalls[d].tokens.session # s
      BY <1>3, <2>10, TokenSentinels DEF TokensInv, AllAreKnown, Page!SessionOf
    <3>5. \A d \in PageCalls : SignedIn(d)' => pageCalls'[d].tokens.session = IF d = c THEN s ELSE pageCalls[d].tokens.session
      BY <2>2, <2>4, <2>5, <2>6
    <3> SUFFICES ASSUME NEW e \in PageCalls, SignedIn(e)', NEW session, session = pageCalls'[e].tokens.session
                 PROVE  /\ session \notin {Page!SessionOf(memory), Page!SessionOf(read), Page!SessionOf(saved)}
                        /\ \A i \in DOMAIN writes : Page!SessionOf(writes[i].value) # session
                        /\ \A d \in PageCalls : Exchanging(d) => exchanges[d].tokens.session # session
                        /\ \A b \in PageCalls \ {e} : SignedIn(b)' => pageCalls'[b].tokens.session # session
      BY <1>1, <3>1 DEF NewIsApart, Page!SessionOf
    <3>6. CASE e = c
      BY <2>6, <3>2, <3>3, <3>4, <3>5, <3>6
    <3>7. CASE e # c
      <4>1. SignedIn(e) /\ session = pageCalls[e].tokens.session
        BY <2>6, <3>7
      <4>2. \A b \in PageCalls \ {e} : SignedIn(b)' => b = c \/ (SignedIn(b) /\ pageCalls'[b] = pageCalls[b])
        BY <2>6
      <4> QED BY <3>4, <3>5, <3>7, <4>1, <4>2 DEF TokensInv, NewIsApart
    <3> QED BY <3>6, <3>7
  <2>13. Agreeing' /\ Page!AtRestAllAgree' /\ Page!Follows'
    BY <1>1 DEF TokensInv, Agreeing, Page!AtRestAllAgree, Page!Follows, Page!SessionOf
  <2>14. Page!HonestSessionsSurvive'
    BY <1>4, <1>8, <2>7, TokenSentinels DEF TokensInv, Page!HonestSessionsSurvive
  <2> QED BY <2>5, <2>8, <2>9, <2>11, <2>12, <2>13, <2>14 DEF TokensInv
<1> QED BY <1>5, <1>6, <1>7, <1>8 DEF Page!Answer
-----------------------------------------------------------------------------
\* The answer becomes the tokens of the page, and its write is the last: what lies in the store
\* and what is written before it stay behind until it lands.
LEMMA TakeExchangeKeeps ==
  ASSUME TokensInv, NEW d \in PageCalls, Page!TakeExchange(d)
  PROVE  TokensInv'
<1> DEFINE minted == exchanges[d].tokens
           next   == [exchanges[d] EXCEPT !.pc = "storing"]
<1>1. /\ exchanges[d] # Over /\ exchanges[d].pc = "answered" /\ Exchanging(d)
      /\ Page!Hold(minted, d, TRUE) /\ Page!NoRestore
      /\ exchanges' = [exchanges EXCEPT ![d] = next]
      /\ overtaken' = (overtaken \/ minted.session # chosen)
      /\ UNCHANGED <<read, refreshing, pageCalls, shown, saved, server, lost, chosen>>
  BY DEF Page!TakeExchange, Page!Runs, Exchanging
<1>2. /\ minted \in Page!Tokens /\ minted \in Page!Tokens \cup {Nothing} /\ minted # Nothing
      /\ restoring = "done" /\ refreshing = d
      /\ pageCalls[d] # Over /\ pageCalls[d].pc = "joined"
      /\ Known(minted) /\ Fresh(minted)
  BY <1>1, TokenSentinels DEF TokensInv, ExchangesFit, AllAreKnown, AllAreFresh
<1>3. /\ exchanges \in [PageCalls -> Page!Exchange \cup {Over}] /\ exchanges[d] \in Page!Exchange
      /\ \A e \in PageCalls \ {d} : exchanges[e] = Over /\ ~Exchanging(e)
      /\ \A i \in DOMAIN writes : ~writes[i].exchange
  BY <1>1, OneExchange
<1>4. \A i \in DOMAIN writes : writes[i].by # d
  BY <1>2, <1>3 DEF TokensInv, WritesFit, Storing
<1>5. next \in Page!Exchange /\ next.pc = "storing" /\ next.tokens = minted
  BY <1>3 DEF Page!Exchange
<1> HIDE DEF next
<1>6. /\ exchanges' \in [PageCalls -> Page!Exchange \cup {Over}]
      /\ exchanges'[d] = next /\ next # Over
      /\ \A e \in PageCalls \ {d} : exchanges'[e] = Over /\ ~Exchanging(e)'
  BY <1>1, <1>3, <1>5, TokenSentinels DEF Exchanging
<1>7. minted = exchanges[d].tokens
  OBVIOUS
<1> HIDE DEF minted
<1>8. /\ memory' = minted /\ memory' \in Page!Tokens \cup {Nothing}
      /\ restoring' \in {"reading", "read", "done", "failed"} /\ (restoring # "no" => restoring' = restoring)
      /\ writes' \in Seq(Page!Write) /\ writes' # <<>> /\ Len(writes') = Len(writes) + 1
      /\ DOMAIN writes' = 1..Len(writes) + 1
      /\ \A i \in DOMAIN writes : i \in DOMAIN writes' /\ writes'[i] = writes[i]
      /\ \A i \in DOMAIN writes' : i \in DOMAIN writes \/ i = Len(writes) + 1
      /\ writes'[Len(writes) + 1] = [value |-> minted, by |-> d, exchange |-> TRUE]
      /\ \A i, j \in DOMAIN writes' : writes'[i].by = writes'[j].by => i = j
      /\ adrift' \in BOOLEAN
      /\ Agreeing' /\ Page!AtRestAllAgree'
  BY <1>1, <1>2, <1>4, HoldFits
<1>9. restoring' = "done"
  BY <1>2, <1>8
<1>10. DOMAIN writes = 1..Len(writes) /\ Len(writes) \in Nat /\ Len(writes) + 1 \in DOMAIN writes'
  BY <1>8, WritesAreWrites
<1>11. Page!TypeOK'
  <2>1. refreshing' \in {c \in PageCalls : exchanges'[c] # Over} \cup {Nothing}
    BY <1>1, <1>2, <1>6
  <2>2. overtaken' \in BOOLEAN
    BY <1>1
  <2> QED BY <1>1, <1>6, <1>8, <2>1, <2>2 DEF TokensInv, Page!TypeOK
<1>12. ExchangesFit'
  <2>1. read' = Nothing
    BY <1>1, <1>2 DEF TokensInv, ExchangesFit
  <2>2. pageCalls'[d].on = d
    BY <1>1 DEF TokensInv, ExchangesFit
  <2> QED BY <1>1, <1>2, <1>5, <1>6, <1>9, <2>1, <2>2 DEF ExchangesFit
<1>13. CallsFit'
  BY <1>1 DEF TokensInv, CallsFit
<1>14. WritesFit'
  <2>1. (Page!Runs(d, "storing"))'
    BY <1>5, <1>6 DEF Page!Runs
  <2>2. \A i \in DOMAIN writes' : writes'[i].exchange => i = Len(writes) + 1
    BY <1>3, <1>8
  <2>3. \A i \in DOMAIN writes' : writes'[i].exchange =>
          (Page!Runs(writes[i].by, "storing"))' /\ writes'[i].value = exchanges'[writes'[i].by].tokens
    BY <1>5, <1>6, <1>8, <2>1, <2>2 DEF Page!Runs
  <2>4. \A i \in DOMAIN writes' : ~writes'[i].exchange => Storing(writes[i].by)'
    <3>1. \A i \in DOMAIN writes' : ~writes'[i].exchange => i \in DOMAIN writes /\ writes'[i] = writes[i]
      BY <1>8
    <3>2. \A i \in DOMAIN writes : ~writes[i].exchange => Storing(writes[i].by)
      BY DEF TokensInv, WritesFit
    <3> QED BY <1>1, <3>1, <3>2 DEF Storing
  <2>5. \A e \in PageCalls : (Page!Runs(e, "storing"))' => \E i \in DOMAIN writes' : writes'[i].exchange /\ writes'[i].by = e
    <3>1. \A e \in PageCalls : (Page!Runs(e, "storing"))' => e = d
      BY <1>6 DEF Page!Runs
    <3>2. writes'[Len(writes) + 1].exchange /\ writes'[Len(writes) + 1].by = d
      BY <1>8
    <3> QED BY <1>10, <3>1, <3>2
  <2> QED BY <1>8, <2>3, <2>4, <2>5 DEF WritesFit
<1>15. \A e \in PageCalls : Exchanging(e)' => e = d /\ exchanges'[e].tokens = minted
  BY <1>5, <1>6
<1>16. \A i \in DOMAIN writes' : (i \in DOMAIN writes /\ writes'[i] = writes[i]) \/ writes'[i].value = minted
  BY <1>8
<1>17. AllAreKnown'
  BY <1>1, <1>2, <1>8, <1>15, <1>16 DEF TokensInv, AllAreKnown, Known, SignedIn
<1>18. NewIsApart'
  <2>1. Page!SessionOf(minted) = minted.session
    BY <1>2 DEF Page!SessionOf
  <2>2. \A c \in PageCalls : SignedIn(c) => minted.session # pageCalls[c].tokens.session
    BY <1>1, <1>7 DEF TokensInv, NewIsApart
  <2> QED BY <1>1, <1>8, <1>15, <1>16, <2>1, <2>2 DEF TokensInv, NewIsApart, SignedIn, Page!SessionOf
<1>19. AllAreFresh'
  <2>1. \A t : Fresh(t) => Fresh(t)'
    BY <1>1 DEF Fresh
  <2>2. \A t : Spent(t) => Spent(t)'
    <3>1. \A t : Spent(t) => minted.session = Page!SessionOf(t)
      BY <1>1, <1>7, OneExchange
    <3>2. (Page!Runs(d, "storing"))' /\ exchanges'[d].tokens.session = minted.session
      BY <1>5, <1>6 DEF Page!Runs
    <3> QED BY <3>1, <3>2 DEF Spent, Page!SessionOf
  <2>3. Fresh(memory)' /\ Fresh(read)'
    BY <1>1, <1>2, <1>8 DEF TokensInv, AllAreFresh, Fresh
  <2>4. Fresh(saved)' \/ Spent(saved)'
    BY <1>1, <2>1, <2>2 DEF TokensInv, AllAreFresh, Fresh, Spent, Page!SessionOf
  <2>5. ASSUME NEW i \in DOMAIN writes'
        PROVE  Fresh(writes[i].value)' \/ (Spent(writes[i].value)' /\ \A j \in 1..i : ~writes'[j].exchange)
    <3>1. CASE i = Len(writes) + 1
      BY <1>1, <1>2, <1>8, <3>1 DEF Fresh
    <3>2. CASE i \in DOMAIN writes
      <4>1. writes'[i] = writes[i]
        BY <1>8, <3>2
      <4>2. \A j \in 1..i : j \in DOMAIN writes
        BY <1>10, <3>2
      <4>3. \A j \in 1..i : ~writes'[j].exchange
        BY <1>3, <1>8, <4>2
      <4>4. Fresh(writes[i].value) \/ Spent(writes[i].value)
        BY <3>2 DEF TokensInv, AllAreFresh
      <4>5. Fresh(writes[i].value)' \/ Spent(writes[i].value)'
        BY <2>1, <2>2, <4>1, <4>4
      <4> QED BY <4>3, <4>5
    <3> QED BY <1>8, <3>1, <3>2
  <2>6. \A e \in PageCalls : Exchanging(e)' => Fresh(exchanges[e].tokens)'
    BY <1>1, <1>2, <1>15 DEF Fresh
  <2>7. \A c \in PageCalls : SignedIn(c)' => Fresh(pageCalls[c].tokens)'
    BY <1>1 DEF TokensInv, AllAreFresh, SignedIn, Fresh
  <2> QED BY <2>3, <2>4, <2>5, <2>6, <2>7 DEF AllAreFresh
<1>20. Page!HonestSessionsSurvive' /\ Page!Follows'
  BY <1>1, <1>8 DEF TokensInv, Page!HonestSessionsSurvive, Page!Follows, Page!SessionOf
<1> QED BY <1>8, <1>11, <1>12, <1>13, <1>14, <1>17, <1>18, <1>19, <1>20 DEF TokensInv
-----------------------------------------------------------------------------
\* The queue of the store without its oldest write.
LEMMA OldestWrite ==
  ASSUME TokensInv, writes # <<>>, writes' = Tail(writes)
  PROVE  /\ Head(writes) = writes[1] /\ 1 \in DOMAIN writes /\ Head(writes) \in Page!Write
         /\ writes' \in Seq(Page!Write) /\ Len(writes') = Len(writes) - 1 /\ DOMAIN writes' = 1..(Len(writes) - 1)
         /\ \A i \in DOMAIN writes' : i + 1 \in DOMAIN writes /\ writes'[i] = writes[i + 1]
         /\ \A i \in DOMAIN writes : i # 1 => i - 1 \in DOMAIN writes' /\ writes'[i - 1] = writes[i]
         /\ writes' = <<>> => Len(writes) = 1
         /\ writes' # <<>> => writes'[Len(writes')] = writes[Len(writes)]
<1>1. writes \in Seq(Page!Write) /\ DOMAIN writes = 1..Len(writes) /\ Len(writes) \in Nat
  BY WritesAreWrites
<1>2. Len(writes) >= 1
  BY <1>1
<1>3. Head(writes) = writes[1] /\ 1 \in DOMAIN writes /\ Head(writes) \in Page!Write
  BY <1>1, <1>2
<1>4. /\ writes' \in Seq(Page!Write) /\ Len(writes') = Len(writes) - 1 /\ DOMAIN writes' = 1..(Len(writes) - 1)
      /\ \A i \in 1..(Len(writes) - 1) : writes'[i] = writes[i + 1]
  BY <1>1, <1>2
<1>5. \A i \in DOMAIN writes' : i + 1 \in DOMAIN writes /\ writes'[i] = writes[i + 1]
  BY <1>1, <1>4
<1>6. \A i \in DOMAIN writes : i # 1 => i - 1 \in DOMAIN writes' /\ writes'[i - 1] = writes[i]
  BY <1>1, <1>4
<1>7. writes' = <<>> => Len(writes) = 1
  <2>1. writes' = <<>> => Len(writes') = 0
    OBVIOUS
  <2> QED BY <1>1, <1>4, <2>1
<1>8. writes' # <<>> => writes'[Len(writes')] = writes[Len(writes)]
  <2>1. writes' # <<>> => Len(writes') # 0
    BY <1>4
  <2>2. Len(writes) # 1 => Len(writes) - 1 \in 1..(Len(writes) - 1) /\ Len(writes) - 1 + 1 = Len(writes)
    BY <1>1, <1>2
  <2> QED BY <1>1, <1>4, <2>1, <2>2
<1> QED BY <1>3, <1>4, <1>5, <1>6, <1>7, <1>8

\* What the page, its store and the listeners show after a write.
LEMMA LandShows ==
  ASSUME TokensInv, writes # <<>>, writes' = Tail(writes),
         UNCHANGED <<memory, restoring, read, server, chosen, overtaken>>, lost \subseteq lost',
         \A e \in PageCalls : Exchanging(e)' => Exchanging(e) /\ exchanges'[e] = exchanges[e],
         \A c \in PageCalls : SignedIn(c)' => SignedIn(c) /\ pageCalls'[c].tokens = pageCalls[c].tokens,
         \/ /\ saved' = Head(writes).value /\ adrift' = adrift
            /\ shown' = IF shown = Hidden THEN shown ELSE Head(writes).value
         \/ adrift' = (adrift \/ Tail(writes) = <<>>) /\ UNCHANGED <<saved, shown>>
  PROVE  /\ AllAreKnown' /\ NewIsApart'
         /\ Agreeing' /\ Page!HonestSessionsSurvive' /\ Page!AtRestAllAgree' /\ Page!Follows'
<1>1. /\ Head(writes) = writes[1] /\ 1 \in DOMAIN writes
      /\ \A i \in DOMAIN writes' : i + 1 \in DOMAIN writes /\ writes'[i] = writes[i + 1]
      /\ writes' = <<>> => Len(writes) = 1
      /\ writes' # <<>> => writes'[Len(writes')] = writes[Len(writes)]
  BY OldestWrite
<1>2. saved' = saved \/ saved' = writes[1].value
  BY <1>1
<1>3. AllAreKnown'
  <2>1. /\ Known(memory)' /\ Known(read)'
        /\ \A e \in PageCalls : Exchanging(e)' => Known(exchanges[e].tokens)'
    BY DEF TokensInv, AllAreKnown, Known
  <2>2. \A c \in PageCalls : SignedIn(c)' => Known(pageCalls[c].tokens)'
    BY DEF TokensInv, AllAreKnown, Known
  <2>3. Known(saved)' /\ \A i \in DOMAIN writes' : Known(writes[i].value)'
    BY <1>1, <1>2 DEF TokensInv, AllAreKnown, Known
  <2> QED BY <2>1, <2>2, <2>3 DEF AllAreKnown
<1>4. NewIsApart'
  <2> SUFFICES ASSUME NEW c \in PageCalls, SignedIn(c)', NEW session, session = pageCalls'[c].tokens.session
               PROVE  /\ session \notin {Page!SessionOf(memory), Page!SessionOf(read), Page!SessionOf(saved)'}
                      /\ \A i \in DOMAIN writes' : Page!SessionOf(writes[i].value)' # session
                      /\ \A d \in PageCalls : Exchanging(d)' => exchanges'[d].tokens.session # session
                      /\ \A b \in PageCalls \ {c} : SignedIn(b)' => pageCalls'[b].tokens.session # session
    BY DEF NewIsApart, Page!SessionOf
  <2>1. SignedIn(c) /\ session = pageCalls[c].tokens.session
    OBVIOUS
  <2>2. /\ session \notin {Page!SessionOf(memory), Page!SessionOf(read), Page!SessionOf(saved)}
        /\ \A i \in DOMAIN writes : Page!SessionOf(writes[i].value) # session
        /\ \A d \in PageCalls : Exchanging(d) => exchanges[d].tokens.session # session
        /\ \A b \in PageCalls \ {c} : SignedIn(b) => pageCalls[b].tokens.session # session
    BY <2>1 DEF TokensInv, NewIsApart
  <2>3. Page!SessionOf(saved)' # session /\ \A i \in DOMAIN writes' : Page!SessionOf(writes[i].value)' # session
    BY <1>1, <1>2, <2>2 DEF Page!SessionOf
  <2> QED BY <2>2, <2>3
<1>5. ~adrift => /\ memory = writes[Len(writes)].value
                 /\ memory # Nothing \/ restoring \notin {"reading", "read"}
  BY DEF TokensInv, Agreeing
<1>6. adrift' \/ ~adrift
  BY DEF TokensInv, Page!TypeOK
<1>7. restoring # "no"
  BY DEF TokensInv, ExchangesFit
<1>8. Agreeing'
  <2>1. CASE saved' = Head(writes).value /\ adrift' = adrift
    BY <1>1, <1>5, <1>7, <2>1 DEF Agreeing
  <2>2. CASE adrift' = (adrift \/ Tail(writes) = <<>>)
    BY <1>1, <1>5, <1>7, <2>2 DEF Agreeing
  <2> QED BY <2>1, <2>2
<1>9. Page!AtRestAllAgree'
  <2>1. CASE saved' = Head(writes).value /\ adrift' = adrift /\ shown' = IF shown = Hidden THEN shown ELSE Head(writes).value
    <3>1. writes' = <<>> /\ ~adrift => memory = saved'
      BY <1>1, <1>5, <2>1
    <3>2. shown' \in {saved', Hidden}
      BY <2>1
    <3> QED BY <2>1, <3>1, <3>2 DEF Page!AtRestAllAgree
  <2>2. CASE adrift' = (adrift \/ Tail(writes) = <<>>)
    BY <2>2 DEF Page!AtRestAllAgree
  <2> QED BY <2>1, <2>2
<1>10. Page!HonestSessionsSurvive' /\ Page!Follows'
  BY <1>6 DEF TokensInv, Page!HonestSessionsSurvive, Page!Follows, Page!SessionOf
<1> QED BY <1>3, <1>4, <1>8, <1>9, <1>10

\* The sessions a write that fails leaves behind are lost.
LEMMA LostFits ==
  ASSUME TokensInv, writes # <<>>
  PROVE  lost \cup ({Page!SessionOf(Head(writes).value), Page!SessionOf(saved)} \ {Nothing}) \subseteq Logins
<1>1. Head(writes) \in Page!Write
  BY WritesAreWrites
<1>2. Head(writes).value \in Page!Tokens \cup {Nothing} /\ saved \in Page!Tokens \cup {Nothing} /\ lost \subseteq Logins
  BY <1>1 DEF TokensInv, Page!TypeOK, Page!Write
<1> QED BY <1>2 DEF Page!Tokens, Page!SessionOf
-----------------------------------------------------------------------------
\* The write of an exchange: no answer is out any more, and what was behind it was overwritten
\* or is lost.
LEMMA LandExchangeKeeps ==
  ASSUME TokensInv, writes # <<>>, Head(writes).exchange, NEW ok \in BOOLEAN,
         Page!Settle(Head(writes).by, ok), writes' = Tail(writes),
         UNCHANGED <<memory, restoring, read, server, chosen, overtaken>>,
         \/ /\ saved' = Head(writes).value /\ adrift' = adrift /\ lost' = lost
            /\ shown' = IF shown = Hidden THEN shown ELSE Head(writes).value
         \/ /\ adrift' = (adrift \/ Tail(writes) = <<>>) /\ UNCHANGED <<saved, shown>>
            /\ lost' = lost \cup ({Page!SessionOf(Head(writes).value), Page!SessionOf(saved)} \ {Nothing})
  PROVE  TokensInv'
<1> DEFINE d == Head(writes).by
<1>1. /\ Head(writes) = writes[1] /\ 1 \in DOMAIN writes
      /\ writes' \in Seq(Page!Write) /\ Len(writes') = Len(writes) - 1 /\ DOMAIN writes' = 1..(Len(writes) - 1)
      /\ \A i \in DOMAIN writes' : i + 1 \in DOMAIN writes /\ writes'[i] = writes[i + 1]
  BY OldestWrite
<1>2. /\ d \in PageCalls /\ writes[1].by = d /\ writes[1].exchange
      /\ writes[1].value \in Page!Tokens \cup {Nothing}
  BY <1>1, WritesAreWrites
<1>3. /\ exchanges[d] # Over /\ exchanges[d].pc = "storing" /\ Exchanging(d)
      /\ writes[1].value = exchanges[d].tokens
  BY <1>1, <1>2 DEF TokensInv, WritesFit, Page!Runs, Exchanging
<1> HIDE DEF d
<1>4. Page!Settle(d, ok)
  BY DEF d
<1>5. /\ refreshing' = Nothing
      /\ exchanges' \in [PageCalls -> Page!Exchange \cup {Over}]
      /\ \A e \in PageCalls : exchanges'[e] = Over /\ (e # d => exchanges[e] = Over)
      /\ pageCalls' \in [PageCalls -> Page!Call \cup {Over}]
      /\ CallsFit'
      /\ \A c \in PageCalls : SignedIn(c)' => SignedIn(c) /\ pageCalls'[c].tokens = pageCalls[c].tokens
      /\ \A c \in PageCalls : Storing(c) => pageCalls'[c] = pageCalls[c]
  BY <1>2, <1>3, <1>4, SettleFits
<1>6. \A e \in PageCalls : ~Exchanging(e)' /\ ~(Page!Runs(e, "storing"))'
  BY <1>5 DEF Exchanging, Page!Runs
<1>7. Page!TypeOK'
  <2>1. lost' \subseteq Logins
    BY LostFits DEF TokensInv, Page!TypeOK
  <2>2. saved' \in Page!Tokens \cup {Nothing} /\ shown' \in Page!Tokens \cup {Nothing, Hidden}
    BY <1>1, <1>2 DEF TokensInv, Page!TypeOK
  <2>3. adrift' \in BOOLEAN
    BY DEF TokensInv, Page!TypeOK
  <2> QED BY <1>1, <1>5, <2>1, <2>2, <2>3 DEF TokensInv, Page!TypeOK
<1>8. ExchangesFit'
  <2>1. restoring # "no"
    BY DEF TokensInv, ExchangesFit
  <2> QED BY <1>5, <2>1 DEF TokensInv, ExchangesFit
<1>9. WritesFit'
  <2>1. \A i \in DOMAIN writes' : i \in Nat /\ i + 1 # 1
    BY <1>1
  <2>2. \A i \in DOMAIN writes' : ~writes'[i].exchange
    <3>1. ASSUME NEW i \in DOMAIN writes', writes'[i].exchange PROVE FALSE
      <4>1. i + 1 \in DOMAIN writes /\ writes[i + 1].exchange /\ writes[i + 1].by \in PageCalls
        BY <1>1, <3>1, WritesAreWrites
      <4>2. Page!Runs(writes[i + 1].by, "storing")
        BY <4>1 DEF TokensInv, WritesFit
      <4>3. writes[i + 1].by = d
        BY <1>5, <4>1, <4>2 DEF Page!Runs
      <4> QED BY <1>1, <1>2, <2>1, <4>1, <4>3 DEF TokensInv, WritesFit
    <3> QED BY <3>1
  <2>3. \A i \in DOMAIN writes' : ~writes'[i].exchange => Storing(writes[i].by)'
    <3>1. \A i \in DOMAIN writes : ~writes[i].exchange => writes[i].by \in PageCalls /\ Storing(writes[i].by)
      BY WritesAreWrites DEF TokensInv, WritesFit
    <3> QED BY <1>1, <1>5, <3>1 DEF Storing
  <2>4. \A i, j \in DOMAIN writes' : writes'[i].by = writes'[j].by => i = j
    <3>1. ASSUME NEW i \in DOMAIN writes', NEW j \in DOMAIN writes', writes'[i].by = writes'[j].by PROVE i = j
      <4>1. i + 1 = j + 1
        BY <1>1, <3>1 DEF TokensInv, WritesFit
      <4> QED BY <2>1, <4>1
    <3> QED BY <3>1
  <2> QED BY <1>6, <2>2, <2>3, <2>4 DEF WritesFit
<1>10. lost \subseteq lost'
  OBVIOUS
<1>11. /\ AllAreKnown' /\ NewIsApart'
       /\ Agreeing' /\ Page!HonestSessionsSurvive' /\ Page!AtRestAllAgree' /\ Page!Follows'
  BY <1>5, <1>6, <1>10, LandShows
<1>12. AllAreFresh'
  <2>1. \A t : Fresh(t) => Fresh(t)'
    BY <1>10 DEF Fresh
  <2>2. \A t : ~Overdue(t)
    BY <1>2, <1>3, OneExchange
  <2>3. Fresh(memory)' /\ Fresh(read)'
    BY <1>10, <2>2 DEF TokensInv, AllAreFresh, Fresh
  <2>4. Fresh(exchanges[d].tokens)
    BY <1>2, <1>3 DEF TokensInv, AllAreFresh
  <2>5. Fresh(saved)'
    <3>1. CASE saved' = Head(writes).value /\ lost' = lost
      BY <1>1, <1>3, <2>4, <3>1 DEF Fresh
    <3>2. CASE /\ saved' = saved
               /\ lost' = lost \cup ({Page!SessionOf(Head(writes).value), Page!SessionOf(saved)} \ {Nothing})
      <4>1. saved # Nothing => Page!SessionOf(saved) = saved.session /\ saved.session # Nothing
        BY TokenSentinels DEF TokensInv, Page!TypeOK, Page!Tokens, Page!SessionOf
      <4> QED BY <3>2, <4>1 DEF Fresh
    <3> QED BY <3>1, <3>2
  <2>6. \A i \in DOMAIN writes' : Fresh(writes[i].value)'
    <3>1. ASSUME NEW i \in DOMAIN writes' PROVE Fresh(writes[i + 1].value)
      <4>1. i + 1 \in DOMAIN writes /\ 1 \in 1..(i + 1)
        BY <1>1
      <4> QED BY <1>2, <4>1 DEF TokensInv, AllAreFresh
    <3>2. \A i \in DOMAIN writes' : writes'[i] = writes[i + 1]
      BY <1>1
    <3> QED BY <1>10, <3>1, <3>2 DEF Fresh
  <2>7. \A c \in PageCalls : SignedIn(c)' => Fresh(pageCalls[c].tokens)'
    BY <1>5, <1>10 DEF TokensInv, AllAreFresh, Fresh
  <2> QED BY <1>6, <2>3, <2>5, <2>6, <2>7 DEF AllAreFresh
<1> QED BY <1>5, <1>7, <1>8, <1>9, <1>11, <1>12 DEF TokensInv
-----------------------------------------------------------------------------
\* The write of a call, which is over then.
LEMMA LandCallKeeps ==
  ASSUME TokensInv, writes # <<>>, ~Head(writes).exchange,
         pageCalls' = [pageCalls EXCEPT ![Head(writes).by] = Over], writes' = Tail(writes),
         UNCHANGED <<memory, restoring, read, refreshing, exchanges, server, chosen, overtaken>>,
         \/ /\ saved' = Head(writes).value /\ adrift' = adrift /\ lost' = lost
            /\ shown' = IF shown = Hidden THEN shown ELSE Head(writes).value
         \/ /\ adrift' = (adrift \/ Tail(writes) = <<>>) /\ UNCHANGED <<saved, shown>>
            /\ lost' = lost \cup ({Page!SessionOf(Head(writes).value), Page!SessionOf(saved)} \ {Nothing})
  PROVE  TokensInv'
<1> DEFINE c == Head(writes).by
<1>1. /\ Head(writes) = writes[1] /\ 1 \in DOMAIN writes
      /\ writes' \in Seq(Page!Write) /\ Len(writes') = Len(writes) - 1 /\ DOMAIN writes' = 1..(Len(writes) - 1)
      /\ \A i \in DOMAIN writes' : i + 1 \in DOMAIN writes /\ writes'[i] = writes[i + 1]
      /\ \A i \in DOMAIN writes : i # 1 => i - 1 \in DOMAIN writes' /\ writes'[i - 1] = writes[i]
  BY OldestWrite
<1>2. /\ c \in PageCalls /\ writes[1].by = c /\ ~writes[1].exchange
      /\ writes[1].value \in Page!Tokens \cup {Nothing}
  BY <1>1, WritesAreWrites
<1>3. pageCalls[c] # Over /\ pageCalls[c].pc = "storing"
  BY <1>1, <1>2 DEF TokensInv, WritesFit, Storing
<1>4. pageCalls' = [pageCalls EXCEPT ![c] = Over]
  OBVIOUS
<1> HIDE DEF c
<1>5. pageCalls \in [PageCalls -> Page!Call \cup {Over}]
  BY DEF TokensInv, Page!TypeOK
<1>6. /\ pageCalls' \in [PageCalls -> Page!Call \cup {Over}]
      /\ pageCalls'[c] = Over /\ \A b \in PageCalls \ {c} : pageCalls'[b] = pageCalls[b]
  BY <1>2, <1>4, <1>5
<1>7. CallsFit'
  BY <1>6 DEF TokensInv, CallsFit
<1>8. \A b \in PageCalls : SignedIn(b)' => SignedIn(b) /\ pageCalls'[b].tokens = pageCalls[b].tokens
  BY <1>6 DEF SignedIn
<1>9. \A e \in PageCalls : Exchanging(e)' <=> Exchanging(e)
  BY DEF Exchanging
<1>10. Page!TypeOK'
  <2>1. lost' \subseteq Logins
    BY LostFits DEF TokensInv, Page!TypeOK
  <2>2. saved' \in Page!Tokens \cup {Nothing} /\ shown' \in Page!Tokens \cup {Nothing, Hidden}
    BY <1>1, <1>2 DEF TokensInv, Page!TypeOK
  <2>3. adrift' \in BOOLEAN
    BY DEF TokensInv, Page!TypeOK
  <2> QED BY <1>1, <1>6, <2>1, <2>2, <2>3 DEF TokensInv, Page!TypeOK
<1>11. ExchangesFit'
  <2>1. restoring # "no"
    BY DEF TokensInv, ExchangesFit
  <2>2. \A e \in PageCalls : exchanges[e] # Over => e # c
    BY <1>3 DEF TokensInv, ExchangesFit
  <2> QED BY <1>6, <1>9, <2>1, <2>2 DEF TokensInv, ExchangesFit
<1>12. WritesFit'
  <2>1. \A i \in DOMAIN writes' : i \in Nat /\ i + 1 # 1
    BY <1>1
  <2>2. ASSUME NEW i \in DOMAIN writes'
        PROVE  /\ i + 1 \in DOMAIN writes /\ writes'[i] = writes[i + 1]
               /\ writes[i + 1].by \in PageCalls /\ writes[i + 1].by # c
    BY <1>1, <1>2, <2>1, WritesAreWrites DEF TokensInv, WritesFit
  <2>3. \A e \in PageCalls : (Page!Runs(e, "storing"))' <=> Page!Runs(e, "storing")
    BY DEF Page!Runs
  <2>4. \A i \in DOMAIN writes' : writes'[i].exchange =>
          (Page!Runs(writes[i].by, "storing"))' /\ writes'[i].value = exchanges'[writes'[i].by].tokens
    <3>1. \A i \in DOMAIN writes : writes[i].exchange =>
            Page!Runs(writes[i].by, "storing") /\ writes[i].value = exchanges[writes[i].by].tokens
      BY DEF TokensInv, WritesFit
    <3> QED BY <2>2, <3>1 DEF Page!Runs
  <2>5. \A i \in DOMAIN writes' : ~writes'[i].exchange => Storing(writes[i].by)'
    <3>1. \A i \in DOMAIN writes : ~writes[i].exchange => Storing(writes[i].by)
      BY DEF TokensInv, WritesFit
    <3> QED BY <1>6, <2>2, <3>1 DEF Storing
  <2>6. \A i, j \in DOMAIN writes' : writes'[i].by = writes'[j].by => i = j
    <3>1. ASSUME NEW i \in DOMAIN writes', NEW j \in DOMAIN writes', writes'[i].by = writes'[j].by PROVE i = j
      <4>1. i + 1 = j + 1
        BY <2>2, <3>1 DEF TokensInv, WritesFit
      <4> QED BY <2>1, <4>1
    <3> QED BY <3>1
  <2>7. \A e \in PageCalls : (Page!Runs(e, "storing"))' => \E i \in DOMAIN writes' : writes'[i].exchange /\ writes'[i].by = e
    <3>1. ASSUME NEW e \in PageCalls, Page!Runs(e, "storing")
          PROVE  \E i \in DOMAIN writes' : writes'[i].exchange /\ writes'[i].by = e
      <4>1. PICK i \in DOMAIN writes : writes[i].exchange /\ writes[i].by = e
        BY <3>1 DEF TokensInv, WritesFit
      <4>2. i # 1
        BY <1>2, <4>1
      <4> QED BY <1>1, <4>1, <4>2
    <3> QED BY <2>3, <3>1
  <2> QED BY <2>4, <2>5, <2>6, <2>7 DEF WritesFit
<1>13. lost \subseteq lost'
  OBVIOUS
<1>14. /\ AllAreKnown' /\ NewIsApart'
       /\ Agreeing' /\ Page!HonestSessionsSurvive' /\ Page!AtRestAllAgree' /\ Page!Follows'
  BY <1>8, <1>9, <1>13, LandShows
<1>15. AllAreFresh'
  <2>1. \A t : (Fresh(t) => Fresh(t)') /\ (Spent(t) => Spent(t)')
    BY <1>13 DEF Fresh, Spent, Page!Runs, Page!SessionOf
  <2>2. (Fresh(memory)' \/ Overdue(memory)') /\ Fresh(read)'
    BY <1>13 DEF TokensInv, AllAreFresh, Fresh, Overdue, Page!Runs, Page!SessionOf
  <2>3. Fresh(saved)' \/ Spent(saved)'
    <3>1. Fresh(saved) \/ Spent(saved)
      BY DEF TokensInv, AllAreFresh
    <3>2. Fresh(writes[1].value) \/ Spent(writes[1].value)
      BY <1>1 DEF TokensInv, AllAreFresh
    <3>3. saved' = saved \/ saved' = writes[1].value
      BY <1>1
    <3> QED BY <1>13, <3>1, <3>2, <3>3 DEF Fresh, Spent, Page!Runs, Page!SessionOf
  <2>4. ASSUME NEW i \in DOMAIN writes'
        PROVE  Fresh(writes[i].value)' \/ (Spent(writes[i].value)' /\ \A j \in 1..i : ~writes'[j].exchange)
    <3>1. i + 1 \in DOMAIN writes /\ writes'[i] = writes[i + 1]
      BY <1>1
    <3>2. \A j \in 1..i : j \in DOMAIN writes' /\ j + 1 \in 1..(i + 1) /\ writes'[j] = writes[j + 1]
      BY <1>1
    <3>3. Fresh(writes[i + 1].value) \/ (Spent(writes[i + 1].value) /\ \A j \in 1..(i + 1) : ~writes[j].exchange)
      BY <3>1 DEF TokensInv, AllAreFresh
    <3>4. (\A j \in 1..(i + 1) : ~writes[j].exchange) => \A j \in 1..i : ~writes'[j].exchange
      BY <3>2
    <3>5. Fresh(writes[i + 1].value) => Fresh(writes[i].value)'
      BY <1>13, <3>1 DEF Fresh
    <3>6. Spent(writes[i + 1].value) => Spent(writes[i].value)'
      BY <3>1 DEF Spent, Page!Runs, Page!SessionOf
    <3> QED BY <3>3, <3>4, <3>5, <3>6
  <2>5. \A e \in PageCalls : Exchanging(e)' => Fresh(exchanges[e].tokens)'
    BY <1>9, <1>13 DEF TokensInv, AllAreFresh, Fresh
  <2>6. \A b \in PageCalls : SignedIn(b)' => Fresh(pageCalls[b].tokens)'
    BY <1>8, <1>13 DEF TokensInv, AllAreFresh, Fresh
  <2> QED BY <2>2, <2>3, <2>4, <2>5, <2>6 DEF AllAreFresh
<1> QED BY <1>7, <1>10, <1>11, <1>12, <1>14, <1>15 DEF TokensInv

LEMMA LandKeeps ==
  ASSUME TokensInv, Page!Land
  PROVE  TokensInv'
<1> DEFINE landed == /\ saved' = Head(writes).value /\ adrift' = adrift /\ lost' = lost
                     /\ shown' = IF shown = Hidden THEN shown ELSE Head(writes).value
           failed == /\ adrift' = (adrift \/ Tail(writes) = <<>>) /\ UNCHANGED <<saved, shown>>
                     /\ lost' = lost \cup ({Page!SessionOf(Head(writes).value), Page!SessionOf(saved)} \ {Nothing})
           ends   == pageCalls' = [pageCalls EXCEPT ![Head(writes).by] = Over] /\ UNCHANGED <<refreshing, exchanges>>
<1>1. /\ writes # <<>> /\ writes' = Tail(writes)
      /\ UNCHANGED <<memory, restoring, read, server, chosen, overtaken>>
  BY DEF Page!Land
<1>2. \/ landed /\ Head(writes).exchange /\ Page!Settle(Head(writes).by, TRUE)
      \/ failed /\ Head(writes).exchange /\ Page!Settle(Head(writes).by, FALSE)
      \/ (landed \/ failed) /\ ~Head(writes).exchange /\ ends
  BY DEF Page!Land
<1>3. CASE landed /\ Head(writes).exchange /\ Page!Settle(Head(writes).by, TRUE)
  BY <1>1, <1>3, LandExchangeKeeps
<1>4. CASE failed /\ Head(writes).exchange /\ Page!Settle(Head(writes).by, FALSE)
  BY <1>1, <1>4, LandExchangeKeeps
<1>5. CASE (landed \/ failed) /\ ~Head(writes).exchange /\ ends
  BY <1>1, <1>5, LandCallKeeps
<1> QED BY <1>2, <1>3, <1>4, <1>5
-----------------------------------------------------------------------------
\* The page goes.  The sessions whose last tokens were still to be stored are lost.
LEMMA ReloadKeeps ==
  ASSUME TokensInv, Page!Reload
  PROVE  TokensInv'
<1>1. /\ memory' = Nothing /\ restoring' = "no" /\ read' = Nothing /\ refreshing' = Nothing
      /\ pageCalls' = [c \in PageCalls |-> Over] /\ exchanges' = [c \in PageCalls |-> Over]
      /\ writes' = <<>> /\ shown' = Hidden
      /\ chosen' = Page!SessionOf(saved) /\ overtaken' = FALSE /\ adrift' = FALSE
      /\ UNCHANGED <<saved, server>>
  BY DEF Page!Reload
<1>2. lost' = lost \cup {exchanges[d].tokens.session : d \in {c \in PageCalls : Page!Runs(c, "answered")}}
                   \cup ({Page!SessionOf(writes[i].value) : i \in 1..Len(writes)} \ {Nothing})
  BY DEF Page!Reload
<1>3. \A c \in PageCalls : pageCalls'[c] = Over /\ exchanges'[c] = Over
  BY <1>1
<1>4. \A c \in PageCalls : ~SignedIn(c)' /\ ~Exchanging(c)'
  BY <1>3 DEF SignedIn, Exchanging
<1>5. saved \in Page!Tokens \cup {Nothing} /\ Page!SessionOf(saved) \in Logins \cup {Nothing}
  BY DEF TokensInv, Page!TypeOK, Page!Tokens, Page!SessionOf
<1>6. Page!TypeOK'
  <2>1. lost' \subseteq Logins
    <3>1. \A d \in PageCalls : Page!Runs(d, "answered") => exchanges[d].tokens.session \in Logins
      BY WhatIsHeld DEF Exchanging, Page!Runs, Page!Tokens
    <3>2. \A i \in 1..Len(writes) : Page!SessionOf(writes[i].value) \in Logins \cup {Nothing}
      BY WritesAreWrites DEF Page!Tokens, Page!SessionOf
    <3>3. lost \subseteq Logins
      BY DEF TokensInv, Page!TypeOK
    <3> QED BY <1>2, <3>1, <3>2, <3>3
  <2>2. server' \in [Logins -> 0..MaxExchanges \cup {Unissued, Revoked}]
    BY <1>1 DEF TokensInv, Page!TypeOK
  <2>3. pageCalls' \in [PageCalls -> Page!Call \cup {Over}] /\ exchanges' \in [PageCalls -> Page!Exchange \cup {Over}]
    BY <1>1
  <2>4. writes' \in Seq(Page!Write)
    BY <1>1
  <2> QED BY <1>1, <1>5, <2>1, <2>2, <2>3, <2>4 DEF Page!TypeOK
<1>7. ExchangesFit' /\ CallsFit' /\ WritesFit'
  <2>1. ExchangesFit' /\ CallsFit'
    BY <1>1, <1>3 DEF ExchangesFit, CallsFit
  <2>2. DOMAIN writes' = {} /\ \A d \in PageCalls : ~(Page!Runs(d, "storing"))'
    BY <1>1, <1>3 DEF Page!Runs
  <2>3. WritesFit'
    BY <2>2 DEF WritesFit
  <2> QED BY <2>1, <2>3
<1>8. Known(saved)
  BY DEF TokensInv, AllAreKnown
<1>9. AllAreKnown' /\ NewIsApart'
  BY <1>1, <1>4, <1>8 DEF AllAreKnown, NewIsApart, Known
<1>10. Fresh(saved)'
  <2>1. CASE Fresh(saved)
    BY <1>1, <1>2, <2>1 DEF Fresh
  <2>2. CASE Spent(saved) /\ saved # Nothing
    <3>1. PICK d \in PageCalls : /\ Page!Runs(d, "answered") \/ Page!Runs(d, "storing")
                                 /\ exchanges[d].tokens.session = saved.session
      BY <2>2 DEF Spent, Page!SessionOf
    <3>2. CASE Page!Runs(d, "answered")
      BY <1>1, <1>2, <3>1, <3>2 DEF Fresh
    <3>3. CASE Page!Runs(d, "storing")
      <4>1. PICK i \in DOMAIN writes : writes[i].exchange /\ writes[i].by = d
        BY <3>3 DEF TokensInv, WritesFit
      <4>2. writes[i].value = exchanges[d].tokens /\ i \in 1..Len(writes)
        BY <4>1, WritesAreWrites DEF TokensInv, WritesFit
      <4>3. exchanges[d].tokens \in Page!Tokens
        BY <3>3, WhatIsHeld DEF Exchanging, Page!Runs
      <4>4. Page!SessionOf(writes[i].value) = saved.session /\ saved.session # Nothing
        BY <3>1, <4>2, <4>3, TokenSentinels DEF Page!SessionOf, Page!Tokens
      <4> QED BY <1>1, <1>2, <4>2, <4>4 DEF Fresh
    <3> QED BY <3>1, <3>2, <3>3
  <2> QED BY <2>1, <2>2 DEF TokensInv, AllAreFresh, Fresh
<1>11. AllAreFresh'
  BY <1>1, <1>4, <1>10 DEF AllAreFresh, Fresh
<1>12. Agreeing' /\ Page!AtRestAllAgree' /\ Page!Follows'
  BY <1>1 DEF Agreeing, Page!AtRestAllAgree, Page!Follows, Page!SessionOf
<1>13. Page!HonestSessionsSurvive'
  BY <1>1, <1>2 DEF TokensInv, Page!HonestSessionsSurvive
<1> QED BY <1>6, <1>7, <1>9, <1>11, <1>12, <1>13 DEF TokensInv

LEMMA PageStutters ==
  ASSUME TokensInv, UNCHANGED Page!vars
  PROVE  TokensInv'
<1> USE DEF Page!vars, Page!page, Page!history
<1>1. Page!TypeOK' /\ CallsFit'
  BY DEF TokensInv, Page!TypeOK, CallsFit
<1>2. ExchangesFit'
  BY DEF TokensInv, ExchangesFit, Exchanging
<1>3. WritesFit' /\ AllAreKnown' /\ NewIsApart' /\ AllAreFresh'
  BY CopiesAreKept DEF SignedIn, Storing
<1>4. Agreeing' /\ Page!HonestSessionsSurvive' /\ Page!AtRestAllAgree' /\ Page!Follows'
  BY ShownIsKept
<1> QED BY <1>1, <1>2, <1>3, <1>4 DEF TokensInv

LEMMA PageStepKeeps == TokensInv /\ [Page!Next]_(Page!vars) => TokensInv'
<1> SUFFICES ASSUME TokensInv, [Page!Next]_(Page!vars) PROVE TokensInv'
  OBVIOUS
<1>1. CASE Page!ReadStore BY <1>1, ReadStoreKeeps
<1>2. CASE Page!Restore   BY <1>2, RestoreKeeps
<1>3. CASE Page!Mount     BY <1>3, MountKeeps
<1>4. CASE Page!Land      BY <1>4, LandKeeps
<1>5. CASE Page!Reload    BY <1>5, ReloadKeeps
<1>6. ASSUME NEW c \in PageCalls, Page!CallStep(c) PROVE TokensInv'
  <2>1. CASE Page!Ask(c)            BY <2>1, AskKeeps
  <2>2. CASE Page!Resume(c)         BY <2>2, ResumeKeeps
  <2>3. CASE Page!Answer(c)         BY <2>3, AnswerKeeps
  <2>4. CASE Page!TakeSession(c)    BY <2>4, TakeSessionKeeps
  <2>5. CASE Page!Clear(c)          BY <2>5, ClearKeeps
  <2>6. CASE Page!StartExchange(c)  BY <2>6, StartExchangeKeeps
  <2>7. CASE Page!Serve(c)          BY <2>7, ServeKeeps
  <2>8. CASE Page!Lose(c)           BY <2>8, LoseKeeps
  <2>9. CASE Page!TakeExchange(c)   BY <2>9, TakeExchangeKeeps
  <2>10. CASE Page!RefuseExchange(c) BY <2>10, RefuseExchangeKeeps
  <2> QED BY <1>6, <2>1, <2>2, <2>3, <2>4, <2>5, <2>6, <2>7, <2>8, <2>9, <2>10 DEF Page!CallStep
<1>7. ASSUME NEW c \in PageCalls, NEW op \in Page!Operations, Page!Begin(c, op) PROVE TokensInv'
  BY <1>7, BeginKeeps
<1>8. CASE UNCHANGED Page!vars
  BY <1>8, PageStutters
<1> QED BY <1>1, <1>2, <1>3, <1>4, <1>5, <1>6, <1>7, <1>8 DEF Page!Next

\* refreshTokens, whatever calls run beside each other and wherever the page is reloaded: the
\* client sends the last tokens of a session or those of a lost one, so the server ends no
\* session that its owner did not leave and whose last tokens reached the store.
THEOREM TokensEndWithTheirOwner == Page!Spec => []HonestSessionsSurvive
<1>1. TokensInv => HonestSessionsSurvive
  BY DEF TokensInv, HonestSessionsSurvive
<1> QED BY <1>1, TokenInit, PageStepKeeps, PTL DEF Page!Spec

\* setTokens, clearTokens and restore: whatever answer comes first, the client holds the session
\* its owner last chose, and at rest its store and the page show the same tokens.
THEOREM OneSessionEverywhere == Page!Spec => []OneSessionIsShown
<1>1. TokensInv => OneSessionIsShown
  BY DEF TokensInv, OneSessionIsShown, Page!OneSessionIsShown
<1> QED BY <1>1, TokenInit, PageStepKeeps, PTL DEF Page!Spec
==============================================================================
