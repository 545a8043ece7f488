----------------------------- MODULE Dance_proofs -----------------------------
(***************************************************************************)
(* Proofs about the prompt loop: for every set of identities, components,  *)
(* complete paths and codes, a session and a reset are earned by the       *)
(* credentials of the identity they are for.                               *)
(***************************************************************************)
EXTENDS Dance, SequenceTheorems, TLAPS

\* The evidence of a state is as long as its path and comes from its identity;
\* a state is verified only at the end of its recovery.
StateInv(state) ==
  /\ Len(state.by) = Len(state.path)
  /\ \A n \in 1..Len(state.path) :
       ProvesIn(state, state.path[n]) => /\ state.by[n] = state.identityId
                                         /\ state.identityId # None
  /\ state.kind = "recover" => state.component \in Names
  /\ state.verified => /\ state.kind = "recover"
                       /\ state.identityId # None
                       /\ Over(RecoveryPaths(state.component), state.path)
  /\ state.proving # None => ~state.verified /\ Verifiable(state.proving)
  /\ state.collected # None => state.verified /\ Verifiable(state.component)

\* The pending code of a step went out in one message, to the identity, the
\* channel and the recipient its record names.
Delivered(pending, channel, messages) ==
  /\ \E m \in messages : m.code = pending.code
  /\ \A m \in messages : m.code = pending.code =>
       m.to = pending.identityId /\ m.recipient = pending.recipient /\ m.channel = channel

CodeInv ==
  \A dance \in Dances, name \in Names :
    codes[<<dance, name>>] # None => Delivered(codes[<<dance, name>>], ChannelOf[name], sent)

EvidenceInv(outcome, proves(_)) ==
  \A n \in DOMAIN outcome.path : proves(outcome.path[n]) => outcome.by[n] = outcome.identityId

IInv ==
  /\ TypeOK
  /\ \A state \in issued : StateInv(state)
  /\ CodeInv
  /\ \A session \in sessions : Over(Paths, session.path) /\ EvidenceInv(session, Proves)
  /\ ResetEarned
  /\ AddressProven
-----------------------------------------------------------------------------
\* What #skipSteps adds to a path never proves anything: only consents are
\* skipped.
LEMMA SkippedPath ==
  ASSUME NEW state \in State, NEW path \in Seq(Names), NEW consents \in SUBSET Names,
         NEW longer \in Skipped(state, path, consents)
  PROVE  /\ longer \in Seq(Names)
         /\ Len(longer) >= Len(path)
         /\ \A n \in 1..Len(path) : longer[n] = path[n]
         /\ \A n \in (Len(path) + 1)..Len(longer) :
              ~ProvesIn(state, longer[n]) /\ longer[n] \in consents /\ Skippable(longer[n])
<1>1. PICK run \in UNION { [1..k -> consents] : k \in 0..MaxSkips } :
        longer = path \o run /\ CanSkip(state, path, run)
  BY DEF Skipped
<1>2. PICK k \in 0..MaxSkips : run \in [1..k -> consents]
  BY <1>1
<1>3. k \in Nat
  BY DanceAssumption
<1>4. run \in Seq(Names) /\ Len(run) = k
  BY <1>2, <1>3
<1>5. \A n \in 1..k : ~ProvesIn(state, run[n]) /\ run[n] \in consents /\ Skippable(run[n])
  <2>1. \A n \in 1..k : Skippable(run[n])
    BY <1>1, <1>2 DEF CanSkip
  <2> QED
    BY <1>2, <2>1 DEF Skippable, ProvesIn, Proves, ProvesInRecovery, Verifiable
<1> QED
  BY <1>1, <1>3, <1>4, <1>5

\* A step accepted on behalf of `from` takes a state to a state, as long as a
\* step that proves was accepted on behalf of the identity of the dance.
LEMMA AdvancedState ==
  ASSUME NEW state \in State, StateInv(state), state.collected = None,
         NEW name \in Names, NEW from \in Identities \cup {Nobody},
         NEW identityId \in Identities \cup {None}, NEW consents \in SUBSET Names,
         NEW next \in Advanced(state, name, from, identityId, consents),
         state.identityId # None => identityId = state.identityId,
         ProvesIn(state, name) => from = identityId /\ identityId # None,
         next.verified => identityId # None
  PROVE  /\ next \in State
         /\ StateInv(next)
         /\ next.identityId = identityId
         /\ next.kind = state.kind
<1> DEFINE answered == Append(state.path, name)
<1>1. PICK path \in Skipped(state, answered, consents) :
        next = [state EXCEPT !.path = path, !.identityId = identityId, !.proving = None,
                  !.by = [n \in 1..Len(path) |-> IF n <= Len(state.path) THEN state.by[n]
                                                 ELSE IF n = Len(state.path) + 1 THEN from ELSE Nobody],
                  !.verified = state.kind = "recover" /\ Over(PathsOf(state), path)]
  BY DEF Advanced
<1>2. answered \in Seq(Names) /\ Len(answered) = Len(state.path) + 1
  BY DEF State
<1>3. /\ path \in Seq(Names)
      /\ Len(path) >= Len(state.path) + 1
      /\ \A n \in 1..Len(state.path) : path[n] = state.path[n]
      /\ path[Len(state.path) + 1] = name
      /\ \A n \in (Len(state.path) + 2)..Len(path) : ~ProvesIn(state, path[n])
  <2>1. \A n \in 1..Len(state.path) : answered[n] = state.path[n]
    BY DEF State
  <2>2. answered[Len(state.path) + 1] = name
    BY DEF State
  <2> HIDE DEF answered
  <2>3. Len(state.path) \in Nat
    BY DEF State
  <2>4. /\ path \in Seq(Names)
        /\ Len(path) >= Len(answered)
        /\ \A n \in 1..Len(answered) : path[n] = answered[n]
        /\ \A n \in (Len(answered) + 1)..Len(path) : ~ProvesIn(state, path[n])
    BY SkippedPath, <1>2
  <2>5. Len(answered) = Len(state.path) + 1
    BY <1>2
  <2>6. Len(path) >= Len(state.path) + 1
    BY <2>4, <2>5
  <2>7. \A n \in 1..Len(state.path) : path[n] = state.path[n]
    <3> SUFFICES ASSUME NEW n \in 1..Len(state.path)
                 PROVE  path[n] = state.path[n]
      OBVIOUS
    <3>1. n \in 1..Len(answered)
      BY <2>3, <2>5
    <3> QED
      BY <3>1, <2>1, <2>4
  <2>8. path[Len(state.path) + 1] = name
    <3>1. Len(state.path) + 1 \in 1..Len(answered)
      BY <2>3, <2>5
    <3> QED
      BY <3>1, <2>2, <2>4
  <2>9. \A n \in (Len(state.path) + 2)..Len(path) : ~ProvesIn(state, path[n])
    <3>1. Len(answered) + 1 = Len(state.path) + 2
      BY <2>3, <2>5
    <3> QED
      BY <3>1, <2>4
  <2> QED
    BY <2>4, <2>6, <2>7, <2>8, <2>9
<1>4. next.by \in Seq(Identities \cup {Nobody}) /\ Len(next.by) = Len(path)
  <2>1. next.by = [n \in 1..Len(path) |-> IF n <= Len(state.path) THEN state.by[n]
                                          ELSE IF n = Len(state.path) + 1 THEN from ELSE Nobody]
    BY <1>1 DEF State
  <2>2. \A n \in 1..Len(path) : next.by[n] \in Identities \cup {Nobody}
    BY <2>1, <1>3 DEF State, StateInv
  <2> QED
    BY <2>1, <2>2, <1>3
<1>5. next \in State
  BY <1>1, <1>3, <1>4 DEF State
<1>6. \A n \in 1..Len(path) : ProvesIn(state, path[n]) => next.by[n] = identityId /\ identityId # None
  <2> SUFFICES ASSUME NEW n \in 1..Len(path), ProvesIn(state, path[n])
               PROVE  next.by[n] = identityId /\ identityId # None
    OBVIOUS
  <2>0. Len(state.path) \in Nat /\ Len(path) \in Nat
    BY <1>3 DEF State
  <2>1. n <= Len(state.path) + 1
    BY <2>0, <1>3
  <2>2. CASE n = Len(state.path) + 1
    BY <2>0, <2>2, <1>1, <1>3 DEF State
  <2>3. CASE n <= Len(state.path)
    <3>1. next.by[n] = state.by[n]
      BY <2>0, <2>3, <1>1 DEF State
    <3> QED
      BY <3>1, <2>0, <2>3, <1>3 DEF StateInv
  <2> QED
    BY <2>0, <2>1, <2>2, <2>3
<1>7. next.kind = state.kind /\ next.identityId = identityId /\ next.path = path /\ next.proving = None
      /\ next.collected = None /\ next.component = state.component
      /\ next.verified = (state.kind = "recover" /\ Over(PathsOf(state), path))
  BY <1>1 DEF State
<1>8. \A step : ProvesIn(next, step) <=> ProvesIn(state, step)
  BY <1>7 DEF ProvesIn
<1> QED
  BY <1>4, <1>5, <1>6, <1>7, <1>8 DEF StateInv, PathsOf
-----------------------------------------------------------------------------
\* A code that matches went to the identity of the state, over the channel of
\* the step, to the recipient the state names.
LEMMA MatchedCode ==
  ASSUME TypeOK, CodeInv, NEW state \in State, NEW name \in Names, NEW message \in sent,
         CodeMatches(state, name, message)
  PROVE  /\ state.identityId # None
         /\ message.to = state.identityId
         /\ message.channel = ChannelOf[name]
         /\ message.recipient = Recipient(state, name)
<1>1. state.id \in Dances
  BY DEF State
<1>2. codes[<<state.id, name>>] # None
  BY DEF CodeMatches, CodeKey
<1> QED
  BY <1>1, <1>2 DEF CodeMatches, CodeKey, CodeInv, Delivered

\* verifyPrompt unsets the code it matched: what waits under the other keys is
\* still what was delivered.
LEMMA ConsumedCode ==
  ASSUME TypeOK, CodeInv, NEW state \in State, NEW name \in Names,
         Consume(state, name), UNCHANGED sent
  PROVE  CodeInv' /\ codes' \in [Dances \X Names -> PendingCode \cup {None}]
<1>1. <<state.id, name>> \in Dances \X Names
  BY DEF State
<1>2. codes' = [codes EXCEPT ![<<state.id, name>>] = None]
  BY DEF Consume, CodeKey
<1>3. codes' \in [Dances \X Names -> PendingCode \cup {None}]
  BY <1>1, <1>2 DEF TypeOK
<1>4. CodeInv'
  <2>1. \A d \in Dances, s \in Names :
          codes'[<<d, s>>] # None => codes[<<d, s>>] # None /\ codes'[<<d, s>>] = codes[<<d, s>>]
    BY <1>2 DEF TypeOK
  <2> QED
    BY <2>1 DEF CodeInv
<1> QED
  BY <1>3, <1>4

\* What a step is accepted with: a proof comes from the identity the state has,
\* or gets, and that identity never changes.
LEMMA AcceptedEvidence ==
  ASSUME TypeOK, CodeInv, NEW state \in State, NEW name \in Names,
         NEW given \in Answers(state, name), Accepted(state, name, given)
  PROVE  /\ given.from \in Identities \cup {Nobody}
         /\ Resolved(state, given) \in Identities \cup {None}
         /\ state.identityId # None => Resolved(state, given) = state.identityId
         /\ Proves(name) => given.from = Resolved(state, given) /\ Resolved(state, given) # None
<1>0. state.identityId \in Identities \cup {None} /\ None \notin Identities /\ TRUE \notin Identities
  BY DanceAssumption DEF State
<1>1. CASE Kind[name] = "address"
  <2>1. PICK i \in Identities : given = [answer |-> i, from |-> Nobody]
    BY <1>1 DEF Answers
  <2> QED
    BY <1>0, <1>1, <2>1 DEF Accepted, Resolved, Proves
<1>2. CASE Kind[name] = "account"
  <2>1. PICK i \in Identities : given = [answer |-> i, from |-> i]
    BY <1>2 DEF Answers
  <2> QED
    BY <1>0, <2>1 DEF Accepted, Resolved
<1>3. CASE Kind[name] = "secret"
  <2>1. given = [answer |-> TRUE, from |-> state.identityId] /\ state.identityId # None
    BY <1>3 DEF Answers
  <2> QED
    BY <1>0, <2>1 DEF Resolved
<1>4. CASE Kind[name] = "code"
  <2>1. PICK m \in sent : CodeMatches(state, name, m) /\ given = [answer |-> TRUE, from |-> m.to]
    BY <1>4 DEF Answers
  <2> QED
    BY <1>0, <2>1, MatchedCode DEF Resolved
<1>5. CASE Kind[name] \in {"gate", "consent"}
  <2>1. given = [answer |-> TRUE, from |-> Nobody]
    BY <1>5 DEF Answers
  <2> QED
    BY <1>0, <1>5, <2>1 DEF Resolved, Proves
<1> QED
  BY <1>1, <1>2, <1>3, <1>4, <1>5, DanceAssumption DEF ComponentKinds
-----------------------------------------------------------------------------
\* Before any dance the invariant holds: no state and no code exist.
LEMMA InitInv == Init => IInv
<1> SUFFICES ASSUME Init PROVE IInv
  OBVIOUS
<1>1. TypeOK
  BY DEF Init, TypeOK
<1>2. CodeInv
  BY DEF Init, CodeInv
<1>3. AddressProven
  BY DEF Init, AddressProven
<1> QED
  BY <1>1, <1>2, <1>3 DEF Init, IInv, ResetEarned

\* The state signIn and recover hand out first carries no evidence yet.
LEMMA FreshState ==
  ASSUME NEW kind \in {"sign-in", "recover"}, NEW dance \in Dances, NEW component \in Names \cup {None},
         kind = "recover" => component \in Names
  PROVE  Fresh(kind, dance, component) \in State /\ StateInv(Fresh(kind, dance, component))
<1>1. Fresh(kind, dance, component) \in State
  BY DEF Fresh, State
<1> QED
  BY <1>1 DEF Fresh, StateInv

\* signIn and recover add a state without evidence.
LEMMA StartStep ==
  ASSUME IInv, NEW dance \in Dances, NEW component \in Names \cup {None},
         SignIn(dance) \/ (component \in Names /\ Recover(dance, component))
  PROVE  IInv'
<1>1. PICK state \in State : StateInv(state) /\ issued' = issued \cup {state}
  BY FreshState DEF SignIn, Recover, Issue
<1>2. UNCHANGED <<codes, held, consented, sessions, sent, resets, proven>>
  BY DEF SignIn, Recover
<1> QED
  BY <1>1, <1>2 DEF IInv, TypeOK, CodeInv, ResetEarned, AddressProven

\* sendPrompt writes a code nobody received before, so the message it sends is the
\* only one that carries it.
LEMMA SendStep ==
  ASSUME IInv, NEW state \in issued, NEW name \in Names, SendPrompt(state, name)
  PROVE  IInv'
<1>1. PICK code \in Codes \ { m.code : m \in sent } :
        /\ codes' = [codes EXCEPT ![<<state.id, name>>] =
                       [code |-> code, identityId |-> state.identityId, recipient |-> Recipient(state, name)]]
        /\ sent' = sent \cup {[code |-> code, to |-> state.identityId, channel |-> ChannelOf[name],
                               recipient |-> Recipient(state, name)]}
  BY DEF SendPrompt, CodeKey
<1>2. UNCHANGED <<issued, held, consented, sessions, resets, proven>>
  BY DEF SendPrompt
<1>3. state \in State /\ StateInv(state) /\ state.identityId \in Identities
  BY DEF IInv, TypeOK, State, SendPrompt
<1>4. ChannelOf[name] \in Names /\ Recipient(state, name) \in Values
  \* CanSend: a code step, or a verifiable component.
  <2>1. Sends(name)
    BY <1>3, DanceAssumption DEF SendPrompt, CanSend, Sends, StateInv, Verifiable
  <2>2. ChannelOf[name] \in Names
    BY <2>1, DanceAssumption
  <2> QED
    BY <1>3, <2>2 DEF Recipient, State, IInv, TypeOK
<1>5. TypeOK'
  BY <1>1, <1>2, <1>3, <1>4 DEF IInv, TypeOK, PendingCode, Message, State
<1>6. CodeInv'
  <2> SUFFICES ASSUME NEW d \in Dances, NEW s \in Names, codes'[<<d, s>>] # None
               PROVE  Delivered(codes'[<<d, s>>], ChannelOf[s], sent')
    BY DEF CodeInv
  <2>1. CASE <<d, s>> = <<state.id, name>>
    <3>1. codes'[<<d, s>>] = [code |-> code, identityId |-> state.identityId,
                              recipient |-> Recipient(state, name)] /\ s = name
      BY <1>1, <2>1 DEF IInv, TypeOK
    <3> DEFINE message == [code |-> code, to |-> state.identityId, channel |-> ChannelOf[name],
                           recipient |-> Recipient(state, name)]
    <3>2. /\ sent' = sent \cup {message}
          /\ message.code = code /\ message.to = state.identityId
          /\ message.recipient = Recipient(state, name)
          /\ message.channel = ChannelOf[name]
      BY <1>1
    <3> HIDE DEF message
    <3>3. \A m \in sent : m.code # code
      BY <1>1
    <3> QED
      BY <3>1, <3>2, <3>3 DEF Delivered
  <2>2. CASE <<d, s>> # <<state.id, name>>
    <3>1. codes'[<<d, s>>] = codes[<<d, s>>]
      BY <1>1, <2>2 DEF IInv, TypeOK
    <3>2. Delivered(codes[<<d, s>>], ChannelOf[s], sent)
      BY <3>1 DEF IInv, CodeInv
    <3> QED
      BY <1>1, <3>1, <3>2 DEF Delivered
  <2> QED
    BY <2>1, <2>2
<1> QED
  BY <1>2, <1>5, <1>6 DEF IInv, ResetEarned, AddressProven

\* An answer of a sign-in adds evidence of the identity of its state alone.
LEMMA AnswerSignInStep ==
  ASSUME IInv, NEW state \in issued, NEW name \in Names, AnswerSignIn(state, name)
  PROVE  IInv'
<1> USE DEF IInv
<1>1. /\ state \in State /\ StateInv(state) /\ state.kind = "sign-in"
      /\ state.verified = FALSE /\ state.collected = None
  BY DEF TypeOK, StateInv, AnswerSignIn, State
<1>2. PICK given \in Answers(state, name) :
        /\ Accepted(state, name, given)
        /\ Upgrade(name, Resolved(state, given))
        /\ \E next \in Advanced(state, name, given.from, Resolved(state, given),
                                ConsentsOf(Resolved(state, given))) : AdvanceSignIn(next)
  BY DEF AnswerSignIn
<1>3. PICK next \in Advanced(state, name, given.from, Resolved(state, given),
                             ConsentsOf(Resolved(state, given))) : AdvanceSignIn(next)
  BY <1>2
<1>4. /\ given.from \in Identities \cup {Nobody}
      /\ Resolved(state, given) \in Identities \cup {None}
      /\ state.identityId # None => Resolved(state, given) = state.identityId
      /\ Proves(name) => given.from = Resolved(state, given) /\ Resolved(state, given) # None
  BY <1>1, <1>2, AcceptedEvidence
<1>5. ConsentsOf(Resolved(state, given)) \in SUBSET Names
  BY <1>4 DEF ConsentsOf, TypeOK
<1>6. next.verified = FALSE
  BY <1>1 DEF Advanced, State
<1>7. next \in State /\ StateInv(next) /\ next.kind = "sign-in"
  BY <1>1, <1>4, <1>5, <1>6, AdvancedState DEF ProvesIn
<1>8. UNCHANGED <<held, sent, resets, proven>> /\ ConsumeIfCode(state, name)
  BY DEF AnswerSignIn
<1>9. CodeInv' /\ codes' \in [Dances \X Names -> PendingCode \cup {None}]
  <2>1. CASE Kind[name] = "code"
    BY <1>1, <1>8, <2>1, ConsumedCode DEF ConsumeIfCode
  <2>2. CASE Kind[name] # "code"
    BY <1>8, <2>2 DEF ConsumeIfCode, CodeInv, TypeOK
  <2> QED
    BY <2>1, <2>2
<1>10. consented' \in [Identities -> SUBSET Names]
  BY <1>2, <1>4 DEF Upgrade, TypeOK
<1>11. CASE Over(Paths, next.path)
  <2>1. sessions' = sessions \cup {OutcomeOf(next)} /\ UNCHANGED issued /\ next.identityId # None
    BY <1>3, <1>11 DEF AdvanceSignIn
  <2>2. OutcomeOf(next) \in Outcome
    BY <1>7, <2>1 DEF OutcomeOf, Outcome, State
  <2>3. EvidenceInv(OutcomeOf(next), Proves)
    BY <1>7 DEF EvidenceInv, OutcomeOf, StateInv, ProvesIn, State
  <2>4. OutcomeOf(next).path = next.path
    BY DEF OutcomeOf
  <2> QED
    BY <1>8, <1>9, <1>10, <1>11, <2>1, <2>2, <2>3, <2>4 DEF TypeOK, ResetEarned, AddressProven
<1>12. CASE ~Over(Paths, next.path)
  <2>1. issued' = issued \cup {next} /\ UNCHANGED sessions
    BY <1>3, <1>12 DEF AdvanceSignIn, Issue
  <2> QED
    BY <1>7, <1>8, <1>9, <1>10, <2>1 DEF TypeOK, ResetEarned, AddressProven
<1> QED
  BY <1>11, <1>12

\* An answer of a recovery adds evidence of the identity of its state, or waits for
\* the code that proves the address it named.
LEMMA AnswerRecoverStep ==
  ASSUME IInv, NEW state \in issued, NEW name \in Names, AnswerRecover(state, name)
  PROVE  IInv'
<1> USE DEF IInv
<1>1. /\ state \in State /\ StateInv(state) /\ state.kind = "recover"
      /\ state.verified = FALSE /\ state.collected = None /\ state.proving = None
  BY DEF TypeOK, StateInv, AnswerRecover, State
<1>2. PICK given \in Answers(state, name) :
        /\ Accepted(state, name, given)
        /\ IF NeedsRecoveryProof(name)
           THEN Issue([state EXCEPT !.identityId = Resolved(state, given), !.proving = name])
           ELSE \E next \in Advanced(state, name, given.from, Resolved(state, given),
                                     ConsentsOf(Resolved(state, given))) :
                  Issue(next) /\ (next.verified => next.identityId # None)
  BY DEF AnswerRecover
<1>3. /\ given.from \in Identities \cup {Nobody}
      /\ Resolved(state, given) \in Identities \cup {None}
      /\ state.identityId # None => Resolved(state, given) = state.identityId
      /\ Proves(name) => given.from = Resolved(state, given) /\ Resolved(state, given) # None
  BY <1>1, <1>2, AcceptedEvidence
<1>4. UNCHANGED <<held, consented, sessions, sent, resets, proven>> /\ ConsumeIfCode(state, name)
  BY DEF AnswerRecover
<1>5. CodeInv' /\ codes' \in [Dances \X Names -> PendingCode \cup {None}]
  <2>1. CASE Kind[name] = "code"
    BY <1>1, <1>4, <2>1, ConsumedCode DEF ConsumeIfCode
  <2>2. CASE Kind[name] # "code"
    BY <1>4, <2>2 DEF ConsumeIfCode, CodeInv, TypeOK
  <2> QED
    BY <2>1, <2>2
<1>6. \E next \in State : StateInv(next) /\ issued' = issued \cup {next}
  <2>1. CASE NeedsRecoveryProof(name)
    <3> DEFINE next == [state EXCEPT !.identityId = Resolved(state, given), !.proving = name]
    <3>1. issued' = issued \cup {next}
      BY <1>2, <2>1 DEF Issue
    <3>2. next \in State
      BY <1>1, <1>3 DEF State
    <3>3. /\ next.kind = state.kind /\ next.path = state.path /\ next.by = state.by
          /\ next.verified = FALSE /\ next.collected = None /\ next.component = state.component
          /\ next.proving = name /\ next.identityId = Resolved(state, given)
      BY <1>1 DEF State
    <3>4. Verifiable(name)
      BY <2>1 DEF NeedsRecoveryProof, ProvesInRecovery
    <3>5. \A step : ProvesIn(next, step) <=> ProvesIn(state, step)
      BY <3>3 DEF ProvesIn
    <3> HIDE DEF next
    <3>6. StateInv(next)
      BY <1>1, <1>3, <3>3, <3>4, <3>5 DEF StateInv
    <3> QED
      BY <3>1, <3>2, <3>6
  <2>2. CASE ~NeedsRecoveryProof(name)
    <3>1. PICK next \in Advanced(state, name, given.from, Resolved(state, given),
                                 ConsentsOf(Resolved(state, given))) :
            Issue(next) /\ (next.verified => next.identityId # None)
      BY <1>2, <2>2
    <3>2. ConsentsOf(Resolved(state, given)) \in SUBSET Names
      BY <1>3 DEF ConsentsOf, TypeOK
    <3>3. ProvesIn(state, name) => Proves(name)
      BY <1>1, <2>2 DEF ProvesIn, NeedsRecoveryProof
    <3>4. next.identityId = Resolved(state, given)
      BY <1>1 DEF Advanced, State
    <3>5. next \in State /\ StateInv(next)
      BY <1>1, <1>3, <3>1, <3>2, <3>3, <3>4, AdvancedState
    <3> QED
      BY <3>1, <3>5 DEF Issue
  <2> QED
    BY <2>1, <2>2
<1> QED
  BY <1>4, <1>5, <1>6 DEF TypeOK, ResetEarned, AddressProven

\* The code of a named address is evidence of the identity of the state.
LEMMA ProveControlStep ==
  ASSUME IInv, NEW state \in issued, ProveControl(state)
  PROVE  IInv'
<1> USE DEF IInv
<1>1. /\ state \in State /\ StateInv(state) /\ state.proving \in Names /\ state.collected = None
      /\ state.identityId \in Identities \cup {None}
  BY DEF TypeOK, StateInv, ProveControl, State
<1>2. PICK message \in sent :
        /\ CodeMatches(state, state.proving, message)
        /\ \E next \in Advanced(state, state.proving, message.to, state.identityId,
                                ConsentsOf(state.identityId)) : Issue(next)
  BY DEF ProveControl
<1>3. PICK next \in Advanced(state, state.proving, message.to, state.identityId,
                             ConsentsOf(state.identityId)) : Issue(next)
  BY <1>2
<1>4. state.identityId # None /\ message.to = state.identityId
  BY <1>1, <1>2, MatchedCode
<1>5. ConsentsOf(state.identityId) \in SUBSET Names
  BY <1>1 DEF ConsentsOf, TypeOK
<1>6. next \in State /\ StateInv(next)
  BY <1>1, <1>3, <1>4, <1>5, AdvancedState
<1>7. UNCHANGED <<held, consented, sessions, sent, resets, proven>> /\ Consume(state, state.proving)
  BY DEF ProveControl
<1>8. CodeInv' /\ codes' \in [Dances \X Names -> PendingCode \cup {None}]
  BY <1>1, <1>7, ConsumedCode
<1> QED
  BY <1>3, <1>6, <1>7, <1>8 DEF Issue, TypeOK, ResetEarned, AddressProven

\* What both ends of a recovery share: the write of the value and of the reset.
LEMMA CompletedRecovery ==
  ASSUME IInv, NEW state \in issued, state.verified, NEW value \in Values,
         CompleteRecovery(state, value)
  PROVE  /\ state.identityId \in Identities /\ state.component \in Names
         /\ held' \in [Identities -> [Names -> Values]]
         /\ sessions' \subseteq sessions
         /\ resets' \subseteq Outcome
         /\ ResetEarned'
         /\ \A i \in Identities, name \in Names :
              held'[i][name] # held[i][name] => i = state.identityId /\ name = state.component
         /\ held'[state.identityId][state.component] = value
<1> USE DEF IInv
<1>1. /\ state \in State /\ StateInv(state) /\ state.kind = "recover"
      /\ state.identityId \in Identities /\ state.component \in Names
      /\ Over(RecoveryPaths(state.component), state.path)
  BY DEF TypeOK, StateInv, State
<1>2. held' = [held EXCEPT ![state.identityId][state.component] = value]
  BY DEF CompleteRecovery
<1>3. OutcomeOf(state) \in Outcome
  BY <1>1 DEF OutcomeOf, Outcome, State
<1>4. /\ OutcomeOf(state).component = state.component /\ OutcomeOf(state).path = state.path
      /\ OutcomeOf(state).by = state.by /\ OutcomeOf(state).identityId = state.identityId
  BY DEF OutcomeOf
<1>5. \A n \in DOMAIN state.path : ProvesInRecovery(state.path[n]) => state.by[n] = state.identityId
  BY <1>1 DEF StateInv, ProvesIn, State
<1>6. resets' = resets \cup {OutcomeOf(state)} /\ sessions' \subseteq sessions
  BY DEF CompleteRecovery
<1>7. ResetEarned'
  BY <1>1, <1>4, <1>5, <1>6 DEF ResetEarned
<1> QED
  BY <1>1, <1>2, <1>3, <1>6, <1>7 DEF TypeOK

\* A verified recovery takes a value, and completes at once or waits for its code.
LEMMA CollectStep ==
  ASSUME IInv, NEW state \in issued, NEW value \in Values, CollectReplacement(state, value)
  PROVE  IInv'
<1> USE DEF IInv
<1>1. /\ state \in State /\ StateInv(state) /\ state.verified
      /\ UNCHANGED <<codes, consented, sent, proven>>
  BY DEF TypeOK, CollectReplacement
<1>2. CASE Verifiable(state.component)
  <2> DEFINE next == [state EXCEPT !.collected = value]
  <2>1. issued' = issued \cup {next} /\ UNCHANGED <<held, sessions, resets>>
    BY <1>2 DEF CollectReplacement, Issue
  <2>2. next \in State
    BY <1>1 DEF State
  <2>3. /\ next.kind = state.kind /\ next.path = state.path /\ next.by = state.by
        /\ next.verified = state.verified /\ next.component = state.component
        /\ next.proving = state.proving /\ next.identityId = state.identityId
    BY <1>1 DEF State
  <2>4. \A step : ProvesIn(next, step) <=> ProvesIn(state, step)
    BY <2>3 DEF ProvesIn
  <2> HIDE DEF next
  <2>5. StateInv(next)
    BY <1>1, <1>2, <2>3, <2>4 DEF StateInv
  <2> QED
    BY <1>1, <2>1, <2>2, <2>5 DEF TypeOK, CodeInv, ResetEarned, AddressProven
<1>3. CASE ~Verifiable(state.component)
  <2>1. CompleteRecovery(state, value) /\ UNCHANGED issued
    BY <1>3 DEF CollectReplacement
  <2>2. AddressProven'
    BY <1>1, <1>3, <2>1, CompletedRecovery DEF AddressProven
  <2> QED
    BY <1>1, <2>1, <2>2, CompletedRecovery DEF TypeOK, CodeInv
<1> QED
  BY <1>2, <1>3

\* The code sent to a new address completes the recovery and proves the address.
LEMMA ValidateStep ==
  ASSUME IInv, NEW state \in issued, ValidateReplacement(state)
  PROVE  IInv'
<1> USE DEF IInv
<1>1. /\ state \in State /\ StateInv(state) /\ state.verified /\ state.collected \in Values
      /\ Verifiable(state.component) /\ state.component \in Names
  BY DEF TypeOK, ValidateReplacement, StateInv, State
<1>2. PICK message \in sent :
        /\ CodeMatches(state, state.component, message)
        /\ proven' = proven \cup {<<message.to, message.channel, message.recipient>>}
  BY DEF ValidateReplacement
<1>3. /\ CompleteRecovery(state, state.collected) /\ Consume(state, state.component)
      /\ UNCHANGED <<issued, consented, sent>>
  BY DEF ValidateReplacement
<1>4. CodeInv' /\ codes' \in [Dances \X Names -> PendingCode \cup {None}]
  BY <1>1, <1>3, ConsumedCode
<1>5. /\ message.to = state.identityId /\ message.channel = state.component
      /\ message.recipient = state.collected
  <2>1. ChannelOf[state.component] = state.component
    BY <1>1, DanceAssumption
  <2>2. Recipient(state, state.component) = state.collected
    BY <2>1, <1>1, DanceAssumption DEF Recipient
  <2> QED
    BY <1>1, <1>2, <2>1, <2>2, MatchedCode
<1>6. AddressProven'
  <2> SUFFICES ASSUME NEW i \in Identities, NEW name \in Names, Verifiable(name)
               PROVE  <<i, name, held'[i][name]>> \in proven'
    BY DEF AddressProven
  <2>1. CASE i = state.identityId /\ name = state.component
    BY <2>1, <1>1, <1>2, <1>3, <1>5, CompletedRecovery
  <2>2. CASE ~(i = state.identityId /\ name = state.component)
    BY <2>2, <1>1, <1>2, <1>3, CompletedRecovery DEF AddressProven
  <2> QED
    BY <2>1, <2>2
<1> QED
  BY <1>1, <1>3, <1>4, <1>6, CompletedRecovery DEF TypeOK
-----------------------------------------------------------------------------
\* Every step of the prompt loop keeps the invariant.
LEMMA NextInv == IInv /\ [Next]_vars => IInv'
<1> SUFFICES ASSUME IInv, [Next]_vars PROVE IInv'
  OBVIOUS
<1>1. ASSUME NEW dance \in Dances, SignIn(dance) PROVE IInv'
  BY <1>1, StartStep
<1>2. ASSUME NEW dance \in Dances, NEW component \in Names, Recover(dance, component) PROVE IInv'
  BY <1>2, StartStep
<1>3. ASSUME NEW state \in issued, NEW name \in Names, SendPrompt(state, name) PROVE IInv'
  BY <1>3, SendStep
<1>4. ASSUME NEW state \in issued, NEW name \in Names, AnswerSignIn(state, name) PROVE IInv'
  BY <1>4, AnswerSignInStep
<1>5. ASSUME NEW state \in issued, NEW name \in Names, AnswerRecover(state, name) PROVE IInv'
  BY <1>5, AnswerRecoverStep
<1>6. ASSUME NEW state \in issued, ProveControl(state) PROVE IInv'
  BY <1>6, ProveControlStep
<1>7. ASSUME NEW state \in issued, NEW value \in Values, CollectReplacement(state, value) PROVE IInv'
  BY <1>7, CollectStep
<1>8. ASSUME NEW state \in issued, ValidateReplacement(state) PROVE IInv'
  BY <1>8, ValidateStep
<1>9. CASE UNCHANGED vars
  BY <1>9 DEF vars, IInv, TypeOK, CodeInv, ResetEarned, AddressProven
<1> QED
  BY <1>1, <1>2, <1>3, <1>4, <1>5, <1>6, <1>7, <1>8, <1>9 DEF Next

\* The inductive invariant holds in every reachable state of the prompt loop.
THEOREM Invariance == Spec => []IInv
BY InitInv, NextInv, PTL DEF Spec

\* The states, the codes and the identities have the shape the code gives them.
THEOREM DanceTyped == Spec => []TypeOK
<1>1. IInv => TypeOK
  BY DEF IInv
<1> QED
  BY <1>1, Invariance, PTL

\* A complete path of the policy proves, and so does a path that continues it.
LEMMA CompletePathProves ==
  ASSUME NEW path \in Seq(Names), Over(Paths, path) PROVE HasProof(path, Proves)
<1>1. PICK complete \in Paths : IsPrefix(complete, path)
  BY DEF Over
<1>2. complete \in Seq(Names)
  BY DanceAssumption
<1>3. PICK n \in DOMAIN complete : Proves(complete[n])
  BY ChoreographyAssumption DEF HasProof
<1>4. n \in 1..Len(complete) /\ Len(complete) <= Len(path)
  BY <1>1, <1>2, <1>3 DEF IsPrefix
<1>5. SubSeq(complete, 1, Len(complete))[n] = complete[n] /\ SubSeq(path, 1, Len(complete))[n] = path[n]
  BY <1>2, <1>4, SubSeqProperties
<1>6. path[n] = complete[n] /\ n \in DOMAIN path
  BY <1>1, <1>2, <1>4, <1>5 DEF IsPrefix
<1> QED
  BY <1>3, <1>6 DEF HasProof

\* Whatever states the clients replay and mix, a session is minted only for the
\* identity whose credentials proved every proving step of a complete path.
THEOREM SessionsAreEarned == Spec => []SessionEarned
<1>1. IInv => SessionEarned
  <2> SUFFICES ASSUME IInv, NEW session \in sessions
               PROVE  /\ Over(Paths, session.path)
                      /\ HasProof(session.path, Proves)
                      /\ \A n \in DOMAIN session.path :
                           Proves(session.path[n]) => session.by[n] = session.identityId
    BY DEF SessionEarned
  <2>1. session.path \in Seq(Names) /\ Over(Paths, session.path) /\ EvidenceInv(session, Proves)
    BY DEF IInv, TypeOK, Outcome
  <2> QED
    BY <2>1, CompletePathProves DEF EvidenceInv
<1> QED
  BY <1>1, Invariance, PTL

\* A recovery replaces a component only at the end of a path of its recovery
\* that the identity's own credentials proved.
THEOREM ResetsAreEarned == Spec => []ResetEarned
<1>1. IInv => ResetEarned
  BY DEF IInv
<1> QED
  BY <1>1, Invariance, PTL

\* An address is held only after its holder returned a code sent to it.
THEOREM AddressesAreProven == Spec => []AddressProven
<1>1. IInv => AddressProven
  BY DEF IInv
<1> QED
  BY <1>1, Invariance, PTL
-----------------------------------------------------------------------------
(* The consents of a sign-in.  Once a path went past an identification its *)
(* state has an identity, and each consent after that is on its record:    *)
(* the step that was answered by its upgrade, the skipped ones before.     *)

ConsentsFit(outcome) ==
  \A n \in 1..Len(outcome.path) :
    /\ Identification(outcome.path[n]) => outcome.identityId # None
    /\ Skippable(outcome.path[n]) /\ (\E m \in 1..(n - 1) : Identification(outcome.path[m])) =>
         outcome.path[n] \in consented[outcome.identityId]

ConsentInv ==
  /\ \A state \in issued : state.kind = "sign-in" => state.proving = None /\ ConsentsFit(state)
  /\ \A session \in sessions : ConsentsFit(session)

LEMMA AdvancedPath ==
  ASSUME NEW state \in State, NEW name \in Names, NEW from, NEW identityId, NEW consents \in SUBSET Names,
         NEW next \in Advanced(state, name, from, identityId, consents)
  PROVE  /\ next.path \in Seq(Names)
         /\ Len(next.path) >= Len(state.path) + 1
         /\ \A n \in 1..Len(state.path) : next.path[n] = state.path[n]
         /\ next.path[Len(state.path) + 1] = name
         /\ \A n \in (Len(state.path) + 2)..Len(next.path) :
              next.path[n] \in consents /\ Skippable(next.path[n])
         /\ next.identityId = identityId /\ next.kind = state.kind /\ next.proving = None
<1> DEFINE answered == Append(state.path, name)
<1>1. /\ next.path \in Skipped(state, answered, consents)
      /\ next.identityId = identityId /\ next.kind = state.kind /\ next.proving = None
  BY DEF Advanced, State
<1>2. /\ answered \in Seq(Names) /\ Len(answered) = Len(state.path) + 1 /\ Len(state.path) \in Nat
      /\ \A n \in 1..Len(state.path) : answered[n] = state.path[n]
      /\ answered[Len(state.path) + 1] = name
  BY DEF State
<1> HIDE DEF answered
<1>3. /\ next.path \in Seq(Names)
      /\ Len(next.path) >= Len(answered)
      /\ \A n \in 1..Len(answered) : next.path[n] = answered[n]
      /\ \A n \in (Len(answered) + 1)..Len(next.path) :
           next.path[n] \in consents /\ Skippable(next.path[n])
  BY <1>1, <1>2, SkippedPath
<1> QED BY <1>1, <1>2, <1>3

LEMMA InitConsents == Init => ConsentInv
BY DEF Init, ConsentInv

\* A record of consents only grows, and what fits it fits it then.
LEMMA ConsentsStay ==
  ASSUME NEW outcome, ConsentsFit(outcome),
         \A n \in 1..Len(outcome.path), m \in 1..Len(outcome.path) :
           m < n /\ Identification(outcome.path[m]) => outcome.identityId \in Identities,
         \A i \in Identities : consented[i] \subseteq consented'[i]
  PROVE  ConsentsFit(outcome)'
BY DEF ConsentsFit

LEMMA AnswerSignInConsents ==
  ASSUME IInv, ConsentInv, NEW state \in issued, NEW name \in Names, AnswerSignIn(state, name)
  PROVE  ConsentInv'
<1>1. /\ state \in State /\ StateInv(state) /\ state.kind = "sign-in"
      /\ state.collected = None /\ ConsentsFit(state)
  BY DEF IInv, TypeOK, StateInv, AnswerSignIn, State, ConsentInv
<1>2. PICK given \in Answers(state, name) :
        /\ Accepted(state, name, given)
        /\ Upgrade(name, Resolved(state, given))
        /\ \E next \in Advanced(state, name, given.from, Resolved(state, given),
                                ConsentsOf(Resolved(state, given))) : AdvanceSignIn(next)
  BY DEF AnswerSignIn
<1> DEFINE id == Resolved(state, given)
<1>3. PICK next \in Advanced(state, name, given.from, id, ConsentsOf(id)) : AdvanceSignIn(next)
  BY <1>2
<1>4. /\ id \in Identities \cup {None}
      /\ state.identityId # None => id = state.identityId
  BY <1>1, <1>2, AcceptedEvidence DEF IInv
<1>5. Identification(name) => id # None
  <2>1. None \notin Identities /\ TRUE \notin Identities
    BY DanceAssumption
  <2>2. CASE Kind[name] = "address"
    <3>1. PICK i \in Identities : given = [answer |-> i, from |-> Nobody]
      BY <1>2, <2>2 DEF Answers
    <3> QED BY <2>1, <3>1 DEF Resolved
  <2>3. CASE Kind[name] = "account"
    <3>1. PICK i \in Identities : given = [answer |-> i, from |-> i]
      BY <1>2, <2>3 DEF Answers
    <3> QED BY <2>1, <3>1 DEF Resolved
  <2> QED BY <2>2, <2>3 DEF Identification
<1>6. Upgrade(name, id)
  BY <1>2
<1> HIDE DEF id
<1>7. /\ \A i \in Identities : consented[i] \subseteq consented'[i]
      /\ Skippable(name) /\ id # None => name \in consented'[id]
  BY <1>4, <1>6 DEF Upgrade, IInv, TypeOK
<1>8. ConsentsOf(id) \in SUBSET Names
  BY <1>4 DEF ConsentsOf, IInv, TypeOK
<1>9. /\ next.path \in Seq(Names)
      /\ Len(next.path) >= Len(state.path) + 1
      /\ \A n \in 1..Len(state.path) : next.path[n] = state.path[n]
      /\ next.path[Len(state.path) + 1] = name
      /\ \A n \in (Len(state.path) + 2)..Len(next.path) :
           next.path[n] \in ConsentsOf(id) /\ Skippable(next.path[n])
      /\ next.identityId = id /\ next.kind = "sign-in" /\ next.proving = None
  BY <1>1, <1>8, AdvancedPath
<1>10. Len(state.path) \in Nat /\ Len(next.path) \in Nat
  BY <1>1, <1>9 DEF State
<1>11. ConsentsFit(next)'
  <2> SUFFICES ASSUME NEW n \in 1..Len(next.path)
               PROVE  /\ Identification(next.path[n]) => id # None
                      /\ Skippable(next.path[n]) /\ (\E m \in 1..(n - 1) : Identification(next.path[m])) =>
                           next.path[n] \in consented'[id]
    BY <1>9 DEF ConsentsFit
  <2>1. CASE n <= Len(state.path)
    <3>1. n \in 1..Len(state.path) /\ \A m \in 1..(n - 1) : m \in 1..Len(state.path)
      BY <1>10, <2>1
    <3>2. next.path[n] = state.path[n] /\ \A m \in 1..(n - 1) : next.path[m] = state.path[m]
      BY <1>9, <3>1
    <3>3. \A m \in 1..Len(state.path) : Identification(state.path[m]) => id = state.identityId /\ id \in Identities
      BY <1>1, <1>4 DEF ConsentsFit
    <3> QED BY <1>1, <1>7, <3>1, <3>2, <3>3 DEF ConsentsFit
  <2>2. CASE n = Len(state.path) + 1
    <3>1. next.path[n] = name /\ \A m \in 1..(n - 1) : next.path[m] = state.path[m] /\ m \in 1..Len(state.path)
      BY <1>9, <1>10, <2>2
    <3>2. \A m \in 1..(n - 1) : Identification(next.path[m]) => id # None
      BY <1>1, <1>4, <3>1 DEF ConsentsFit
    <3> QED BY <1>5, <1>7, <3>1, <3>2
  <2>3. CASE n > Len(state.path) + 1
    <3>1. next.path[n] \in ConsentsOf(id) /\ Skippable(next.path[n])
      BY <1>9, <1>10, <2>3
    <3>2. id \in Identities /\ next.path[n] \in consented'[id]
      BY <1>4, <1>7, <3>1 DEF ConsentsOf
    <3>3. ~Identification(next.path[n])
      BY <3>1 DEF Skippable, Identification
    <3> QED BY <3>2, <3>3
  <2> QED BY <1>10, <2>1, <2>2, <2>3
<1>12. /\ \A other \in issued : other.kind = "sign-in" => other.proving = None /\ ConsentsFit(other)'
       /\ \A session \in sessions : ConsentsFit(session)'
  <2>1. \A other \in issued : other.identityId \in Identities \cup {None}
    BY DEF IInv, TypeOK, State
  <2>2. \A session \in sessions : session.identityId \in Identities \cup {None}
    BY DEF IInv, TypeOK, Outcome
  <2>3. ASSUME NEW outcome, ConsentsFit(outcome), outcome.identityId \in Identities \cup {None}
        PROVE  ConsentsFit(outcome)'
    BY <1>7, <2>3, ConsentsStay DEF ConsentsFit
  <2> QED BY <2>1, <2>2, <2>3 DEF ConsentInv
<1>13. OutcomeOf(next).path = next.path /\ OutcomeOf(next).identityId = next.identityId
  BY DEF OutcomeOf
<1>14. ConsentsFit(OutcomeOf(next))'
  BY <1>11, <1>13 DEF ConsentsFit
<1> QED
  BY <1>3, <1>9, <1>11, <1>12, <1>14 DEF AdvanceSignIn, Issue, ConsentInv

\* A step that leaves the consents alone, issues a state of a recovery or a fresh one, and
\* mints no session.
LEMMA OtherConsents ==
  ASSUME ConsentInv, UNCHANGED consented, sessions' \subseteq sessions,
         \A state \in issued' \ issued : state.kind = "sign-in" => state.proving = None /\ state.path = <<>>
  PROVE  ConsentInv'
<1>1. ASSUME NEW outcome, ConsentsFit(outcome) \/ outcome.path = <<>> PROVE ConsentsFit(outcome)'
  BY <1>1 DEF ConsentsFit
<1> QED BY <1>1 DEF ConsentInv

LEMMA NextConsents == IInv /\ ConsentInv /\ [Next]_vars => ConsentInv'
<1> SUFFICES ASSUME IInv, ConsentInv, [Next]_vars PROVE ConsentInv'
  OBVIOUS
<1>1. ASSUME NEW dance \in Dances, SignIn(dance) PROVE ConsentInv'
  BY <1>1, OtherConsents DEF SignIn, Issue, Fresh
<1>2. ASSUME NEW dance \in Dances, NEW component \in Names, Recover(dance, component) PROVE ConsentInv'
  BY <1>2, OtherConsents DEF Recover, Issue, Fresh
<1>3. ASSUME NEW state \in issued, NEW name \in Names, SendPrompt(state, name) PROVE ConsentInv'
  BY <1>3, OtherConsents DEF SendPrompt
<1>4. ASSUME NEW state \in issued, NEW name \in Names, AnswerSignIn(state, name) PROVE ConsentInv'
  BY <1>4, AnswerSignInConsents
<1>5. ASSUME NEW state \in issued, NEW name \in Names, AnswerRecover(state, name) PROVE ConsentInv'
  <2>1. state \in State /\ state.kind = "recover" /\ UNCHANGED <<consented, sessions>>
    BY <1>5 DEF AnswerRecover, IInv, TypeOK
  <2>2. ASSUME NEW from, NEW id, NEW consents, NEW next \in Advanced(state, name, from, id, consents)
        PROVE  next.kind = "recover"
    BY <2>1, <2>2 DEF Advanced, State
  <2>3. ASSUME NEW id PROVE [state EXCEPT !.identityId = id, !.proving = name].kind = "recover"
    BY <2>1 DEF State
  <2>4. PICK next : issued' = issued \cup {next} /\ next.kind = "recover"
    <3>1. CASE NeedsRecoveryProof(name)
      BY <1>5, <2>3, <3>1 DEF AnswerRecover, Issue
    <3>2. CASE ~NeedsRecoveryProof(name)
      BY <1>5, <2>2, <3>2 DEF AnswerRecover, Issue
    <3> QED BY <3>1, <3>2
  <2> QED BY <2>1, <2>4, OtherConsents
<1>6. ASSUME NEW state \in issued, ProveControl(state) PROVE ConsentInv'
  <2>1. state \in State /\ state.kind = "recover" /\ UNCHANGED <<consented, sessions>>
    BY <1>6 DEF ProveControl, IInv, TypeOK, State, ConsentInv
  <2>2. ASSUME NEW from, NEW id, NEW consents,
               NEW next \in Advanced(state, state.proving, from, id, consents)
        PROVE  next.kind = "recover"
    BY <2>1, <2>2 DEF Advanced, State
  <2>4. PICK next : issued' = issued \cup {next} /\ next.kind = "recover"
    BY <1>6, <2>2 DEF ProveControl, Issue
  <2> QED BY <2>1, <2>4, OtherConsents
<1>7. ASSUME NEW state \in issued, NEW value \in Values, CollectReplacement(state, value) PROVE ConsentInv'
  <2>1. state \in State /\ state.kind = "recover" /\ UNCHANGED consented
    BY <1>7 DEF CollectReplacement, IInv, TypeOK, StateInv
  <2>2. \/ issued' = issued \cup {[state EXCEPT !.collected = value]} /\ UNCHANGED sessions
        \/ UNCHANGED issued /\ sessions' \subseteq sessions
    BY <1>7 DEF CollectReplacement, CompleteRecovery, Issue
  <2>3. [state EXCEPT !.collected = value].kind = "recover"
    BY <2>1 DEF State
  <2> QED BY <2>1, <2>2, <2>3, OtherConsents
<1>8. ASSUME NEW state \in issued, ValidateReplacement(state) PROVE ConsentInv'
  BY <1>8, OtherConsents DEF ValidateReplacement, CompleteRecovery
<1>9. ASSUME UNCHANGED vars PROVE ConsentInv'
  BY <1>9, OtherConsents DEF vars
<1> QED
  BY <1>1, <1>2, <1>3, <1>4, <1>5, <1>6, <1>7, <1>8, <1>9 DEF Next

\* A session that went past a consent, once its identity was known, has it on record, for
\* every accepted policy: the step that was answered writes it, and no step is skipped
\* without it (#skipSteps, #upgradeIdentity).
THEOREM ConsentsAreOnRecord == Spec => []ConsentOnRecord
<1>1. Init => IInv /\ ConsentInv
  BY InitInv, InitConsents
<1>2. (IInv /\ ConsentInv) /\ [Next]_vars => (IInv /\ ConsentInv)'
  BY NextInv, NextConsents
<1>3. IInv /\ ConsentInv => ConsentOnRecord
  <2> SUFFICES ASSUME IInv, ConsentInv, NEW session \in sessions, NEW n \in DOMAIN session.path,
                      Skippable(session.path[n]), \E m \in 1..(n - 1) : Identification(session.path[m])
               PROVE  session.path[n] \in consented[session.identityId]
    BY DEF ConsentOnRecord
  <2>1. ConsentsFit(session) /\ session.path \in Seq(Names)
    BY DEF ConsentInv, IInv, TypeOK, Outcome
  <2> QED BY <2>1 DEF ConsentsFit
<1> QED BY <1>1, <1>2, <1>3, PTL DEF Spec
=============================================================================
