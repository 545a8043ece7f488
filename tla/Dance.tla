-------------------------------- MODULE Dance --------------------------------
(***************************************************************************)
(* The prompt loop of AuthDanceApi (src/api.ts) for the two flows in which *)
(* a person proves who they are: the sign-in, which ends in a session, and *)
(* the recovery, which ends in the replacement of one component.           *)
(*                                                                         *)
(* The server keeps no dance.  Every answer it gives is an encrypted state *)
(* the client sends back with the next call, so a client can send any      *)
(* state it ever got, as often as it wants, also when a later state of the *)
(* same dance exists.  `issued` is the set of all of them.  What the       *)
(* storage does keep of a dance is the one-time code that waits under the  *)
(* id of the dance and the name of the step.                               *)
(*                                                                         *)
(* A call is one step here.  Races inside a call, on the identity and on   *)
(* the sessions, are the subject of Management.tla and Sessions.tla.       *)
(***************************************************************************)
EXTENDS Naturals, Sequences, SequencesExt, FiniteSets

CONSTANTS
  Identities,
  Dances,      \* the ids of dances, minted by signIn and recover
  Names,       \* options.components
  Kind,        \* what each component is: see ComponentKinds
  Paths,       \* the complete paths of options.choreography
  ChannelOf,   \* the address component whose channel carries a code, for each sender
  Values,      \* what an identity holds for a component, and what a channel delivers to
  Codes,       \* the one-time codes; a set bounds the messages sent
  MaxSkips,    \* bound: consents skipped in a row
  MaxIssued,   \* bound: states the clients got
  None, Nobody

\* address: an identification anyone can type, verified by a code sent to it
\* (email); account: an identification that proves control (a social login);
\* secret: a challenge checked against the identity (password, totp); code: a
\* challenge delivered over a channel (otp); gate: proves nothing and needs no
\* identity (proof of work); consent: a gate the library may skip (policy).
ComponentKinds == {"address", "account", "secret", "code", "gate", "consent"}

Identification(name) == Kind[name] \in {"address", "account"}
Verifiable(name)     == Kind[name] = "address"
Sends(name)          == Kind[name] \in {"address", "code"}
Skippable(name)      == Kind[name] = "consent"

Proves(name)           == Kind[name] \in {"account", "secret", "code"}
ProvesInRecovery(name) == Proves(name) \/ (Identification(name) /\ Verifiable(name))

\* A variant with a bug, for ResetEarned.
NeedsNoRecoveryProof(name) == FALSE

\* A recovery step that names an identity no proof came from yet.
NeedsRecoveryProof(name) == ~Proves(name) /\ ProvesInRecovery(name)

HasProof(path, proves(_)) == \E n \in DOMAIN path : proves(path[n])

ProofsFollowIdentification(path, proves(_)) ==
  \A n \in DOMAIN path : proves(path[n]) => \E m \in 1..n : Identification(path[m])

\* #isRecoveryPath.
IsRecoveryPath(path) ==
  /\ \E n \in DOMAIN path : Identification(path[n])
  /\ ProofsFollowIdentification(path, ProvesInRecovery)
  /\ HasProof(path, ProvesInRecovery)

\* The complete paths of the recovery of a component that options.recovery
\* does not name: those of a sign-in through it, without it.
RecoveryPaths(name) ==
  { path \in { SelectSeq(p, LAMBDA step : step # name) : p \in { q \in Paths : Contains(q, name) } } :
      IsRecoveryPath(path) }

ASSUME DanceAssumption ==
  /\ Kind \in [Names -> ComponentKinds]
  /\ Paths \subseteq Seq(Names)
  /\ ChannelOf \in [{ name \in Names : Sends(name) } -> { name \in Names : Verifiable(name) }]
  /\ \A name \in Names : Verifiable(name) => ChannelOf[name] = name
  /\ MaxSkips \in Nat
  /\ None \notin Identities \cup Values \cup Names
  /\ Nobody \notin Identities /\ TRUE \notin Identities

\* What the constructor refuses otherwise (#requireProof and
\* #requireProofAfterIdentification).
ASSUME ChoreographyAssumption ==
  \A path \in Paths : HasProof(path, Proves) /\ ProofsFollowIdentification(path, Proves)
-----------------------------------------------------------------------------
VARIABLES
  issued,     \* every state the server encrypted for a client
  codes,      \* KV records otp/<dance>/<name>
  held,       \* the value each identity holds for each component
  consented,  \* the consent steps each identity accepted already
  sessions,   \* the sessions minted, each with what it was minted for
  sent,       \* history: the messages delivered, each with the person it went to
  resets,     \* history: the recoveries completed
  proven      \* history: the values of each identity and component whose holder
              \* returned a code; sign-up proved the first ones

vars == <<issued, codes, held, consented, sessions, sent, resets, proven>>

\* AuthDanceStateSignIn and AuthDanceStateRecover.  `by` is a history field: for
\* each step of the path, the identity whose credential the step accepted.
State ==
  [ kind : {"sign-in", "recover"}, id : Dances, component : Names \cup {None},
    path : Seq(Names), by : Seq(Identities \cup {Nobody}),
    identityId : Identities \cup {None}, proving : Names \cup {None},
    verified : BOOLEAN, collected : Values \cup {None} ]

PendingCode == [ code : Codes, identityId : Identities, recipient : Values ]

Message == [ code : Codes, to : Identities, channel : Names, recipient : Values ]

\* The record of what a completed dance was completed with.
Outcome == [ identityId : Identities, component : Names \cup {None},
             path : Seq(Names), by : Seq(Identities \cup {Nobody}) ]

Init ==
  /\ issued = {}
  /\ codes = [key \in Dances \X Names |-> None]
  /\ \E value \in Values : held = [i \in Identities |-> [name \in Names |-> value]]
  /\ consented = [i \in Identities |-> {}]
  /\ sessions = {}
  /\ sent = {}
  /\ resets = {}
  /\ proven = { <<i, name, held[i][name]>> : i \in Identities, name \in Names }
-----------------------------------------------------------------------------
\* peek on the complete paths: over when one is a prefix of the path.
Over(paths, path) == \E complete \in paths : IsPrefix(complete, path)

Offers(paths, path) ==
  { p[Len(path) + 1] : p \in { q \in paths : IsStrictPrefix(path, q) } }

PathsOf(state) == IF state.kind = "sign-in" THEN Paths ELSE RecoveryPaths(state.component)
ProvesIn(state, name) == IF state.kind = "sign-in" THEN Proves(name) ELSE ProvesInRecovery(name)

\* #skipSteps, as the paths it can leave: each step added is the only one
\* offered, after a proof, and the identity consented to it before.
CanSkip(state, path, names) ==
  \A n \in DOMAIN names :
    LET before == path \o SubSeq(names, 1, n - 1)
    IN  /\ HasProof(before, LAMBDA name : ProvesIn(state, name))
        /\ ~Over(PathsOf(state), before)
        /\ Offers(PathsOf(state), before) = {names[n]}
        /\ Skippable(names[n])

Skipped(state, path, consents) ==
  { path \o names : names \in { run \in UNION { [1..k -> consents] : k \in 0..MaxSkips } :
                                  CanSkip(state, path, run) } }

\* The state after a step was accepted on behalf of `from`, and after the skips.
Advanced(state, name, from, identityId, consents) ==
  { [state EXCEPT !.path = path, !.identityId = identityId, !.proving = None,
                  !.by = [n \in 1..Len(path) |-> IF n <= Len(state.path) THEN state.by[n]
                                                ELSE IF n = Len(state.path) + 1 THEN from ELSE Nobody],
                  !.verified = state.kind = "recover" /\ Over(PathsOf(state), path)] :
    path \in { p \in Skipped(state, Append(state.path, name), consents) :
                 \A q \in Skipped(state, Append(state.path, name), consents) : Len(q) <= Len(p) } }

\* The consents skipPrompt reads; without an identity there is none.
ConsentsOf(identityId) == IF identityId = None THEN {} ELSE consented[identityId]

Issue(state) ==
  /\ issued' = issued \cup {state}
  /\ Cardinality(issued') <= MaxIssued
-----------------------------------------------------------------------------
\* What a code waits under, and whom it goes to.  The recipient is a channel of
\* the identity, and a value the dance collected stands before it.
CodeKey(state, name) == <<state.id, name>>

\* A variant with a bug, for TypeOK.
CollectedRecipient(state, name) == state.collected

Recipient(state, name) ==
  IF state.collected # None /\ ChannelOf[name] = state.component
  THEN state.collected ELSE held[state.identityId][ChannelOf[name]]

\* Variants with a bug, which the properties have to notice.
CodeMatchesAnyIdentity(state, name, message) ==
  LET pending == codes[CodeKey(state, name)]
  IN  /\ pending # None
      /\ state.identityId # None
      /\ pending.code = message.code
      /\ pending.recipient = Recipient(state, name)

CodeMatchesAnyRecipient(state, name, message) ==
  LET pending == codes[CodeKey(state, name)]
  IN  /\ pending # None
      /\ pending.code = message.code
      /\ pending.identityId = state.identityId

\* OtpAuthDanceComponent.verifyPrompt with a code somebody received.
CodeMatches(state, name, message) ==
  LET pending == codes[CodeKey(state, name)]
  IN  /\ pending # None
      /\ state.identityId # None
      /\ pending.code = message.code
      /\ pending.identityId = state.identityId
      /\ pending.recipient = Recipient(state, name)

Consume(state, name) == codes' = [codes EXCEPT ![CodeKey(state, name)] = None]

\* What verifyPrompt of a component answers: TRUE, or the id of an identity;
\* `from` is the identity whose credential it was given.  Anyone can type the
\* address of an identity.
Answers(state, name) ==
  CASE Kind[name] = "address" -> { [answer |-> i, from |-> Nobody] : i \in Identities }
    [] Kind[name] = "account" -> { [answer |-> i, from |-> i] : i \in Identities }
    [] Kind[name] = "secret" ->
         { [answer |-> TRUE, from |-> i] : i \in {state.identityId} \ {None} }
    [] Kind[name] = "code" ->
         { [answer |-> TRUE, from |-> m.to] : m \in { m \in sent : CodeMatches(state, name, m) } }
    [] OTHER -> { [answer |-> TRUE, from |-> Nobody] }

\* #acceptStep: no proof without an identity, and no second identity.
Accepted(state, name, given) ==
  IF given.answer = TRUE
  THEN state.identityId # None \/ ~ProvesIn(state, name)
  ELSE state.identityId \in {None, given.answer}

Resolved(state, given) ==
  IF given.answer = TRUE \/ state.identityId # None THEN state.identityId ELSE given.answer

\* verifyPrompt of a code unsets the record it matched.
ConsumeIfCode(state, name) ==
  IF Kind[name] = "code" THEN Consume(state, name) ELSE UNCHANGED codes
-----------------------------------------------------------------------------
Fresh(kind, dance, component) ==
  [ kind |-> kind, id |-> dance, component |-> component, path |-> <<>>, by |-> <<>>,
    identityId |-> None, proving |-> None, verified |-> FALSE, collected |-> None ]

IsNewDance(dance) == \A state \in issued : state.id # dance

SignIn(dance) ==
  /\ IsNewDance(dance)
  /\ ~Over(Paths, <<>>)
  /\ Issue(Fresh("sign-in", dance, None))
  /\ UNCHANGED <<codes, held, consented, sessions, sent, resets, proven>>

Recover(dance, component) ==
  /\ IsNewDance(dance)
  /\ RecoveryPaths(component) # {}
  /\ ~Over(RecoveryPaths(component), <<>>)
  /\ Issue(Fresh("recover", dance, component))
  /\ UNCHANGED <<codes, held, consented, sessions, sent, resets, proven>>

\* sendPrompt delivers the code of the current step, or of the validation the
\* state waits for.  It writes over a code sent before.
CanSend(state, name) ==
  \/ /\ state.proving = None /\ ~state.verified
     /\ name \in Offers(PathsOf(state), state.path) /\ Kind[name] = "code"
  \/ state.proving = name
  \/ state.collected # None /\ name = state.component

SendPrompt(state, name) ==
  /\ CanSend(state, name)
  /\ state.identityId # None
  /\ \E code \in Codes \ { m.code : m \in sent } :
       /\ codes' = [codes EXCEPT ![CodeKey(state, name)] =
                      [code |-> code, identityId |-> state.identityId,
                       recipient |-> Recipient(state, name)]]
       /\ sent' = sent \cup {[code |-> code, to |-> state.identityId, channel |-> ChannelOf[name],
                              recipient |-> Recipient(state, name)]}
  /\ UNCHANGED <<issued, held, consented, sessions, resets, proven>>
-----------------------------------------------------------------------------
OutcomeOf(state) ==
  [ identityId |-> state.identityId, component |-> state.component,
    path |-> state.path, by |-> state.by ]

\* A variant with a bug, for ConsentOnRecord.
UpgradeForgotten(name, identityId) == UNCHANGED consented

\* A sign-in step that accepted a consent writes it to the identity.
Upgrade(name, identityId) ==
  consented' = IF Skippable(name) /\ identityId # None
               THEN [consented EXCEPT ![identityId] = @ \cup {name}] ELSE consented

\* #advance: the next prompt, or the session.
AdvanceSignIn(next) ==
  IF Over(Paths, next.path)
  THEN /\ next.identityId # None
       /\ sessions' = sessions \cup {OutcomeOf(next)}
       /\ UNCHANGED issued
  ELSE /\ Issue(next)
       /\ UNCHANGED sessions

AnswerSignIn(state, name) ==
  /\ state.kind = "sign-in"
  /\ name \in Offers(Paths, state.path)
  /\ \E given \in Answers(state, name) :
       /\ Accepted(state, name, given)
       /\ Upgrade(name, Resolved(state, given))
       /\ \E next \in Advanced(state, name, given.from, Resolved(state, given),
                               ConsentsOf(Resolved(state, given))) : AdvanceSignIn(next)
  /\ ConsumeIfCode(state, name)
  /\ UNCHANGED <<held, sent, resets, proven>>

\* A step of the recovery dance; an address waits for its verification first.
AnswerRecover(state, name) ==
  /\ state.kind = "recover" /\ ~state.verified /\ state.proving = None
  /\ name \in Offers(RecoveryPaths(state.component), state.path)
  /\ \E given \in Answers(state, name) :
       /\ Accepted(state, name, given)
       /\ IF NeedsRecoveryProof(name)
          THEN Issue([state EXCEPT !.identityId = Resolved(state, given), !.proving = name])
          ELSE \E next \in Advanced(state, name, given.from, Resolved(state, given),
                                    ConsentsOf(Resolved(state, given))) :
                 Issue(next) /\ (next.verified => next.identityId # None)
  /\ ConsumeIfCode(state, name)
  /\ UNCHANGED <<held, consented, sessions, sent, resets, proven>>

\* The code that proves the address a recovery step named.
ProveControl(state) ==
  /\ state.proving # None
  /\ \E message \in sent :
       /\ CodeMatches(state, state.proving, message)
       /\ \E next \in Advanced(state, state.proving, message.to, state.identityId,
                               ConsentsOf(state.identityId)) : Issue(next)
  /\ Consume(state, state.proving)
  /\ UNCHANGED <<held, consented, sessions, sent, resets, proven>>

\* #advance of a recovery: #revokeSessions, then the identity with the value.
CompleteRecovery(state, value) ==
  /\ sessions' = { session \in sessions : session.identityId # state.identityId }
  /\ held' = [held EXCEPT ![state.identityId][state.component] = value]
  /\ resets' = resets \cup {OutcomeOf(state)}

CollectReplacement(state, value) ==
  /\ state.verified /\ state.collected = None
  /\ IF Verifiable(state.component)
     THEN /\ Issue([state EXCEPT !.collected = value])
          /\ UNCHANGED <<held, sessions, resets>>
     ELSE CompleteRecovery(state, value) /\ UNCHANGED issued
  /\ UNCHANGED <<codes, consented, sent, proven>>

ValidateReplacement(state) ==
  /\ state.collected # None
  /\ \E message \in sent :
       /\ CodeMatches(state, state.component, message)
       /\ proven' = proven \cup {<<message.to, message.channel, message.recipient>>}
  /\ CompleteRecovery(state, state.collected)
  /\ Consume(state, state.component)
  /\ UNCHANGED <<issued, consented, sent>>

Next ==
  \/ \E dance \in Dances : SignIn(dance)
  \/ \E dance \in Dances, component \in Names : Recover(dance, component)
  \/ \E state \in issued, name \in Names : SendPrompt(state, name)
  \/ \E state \in issued, name \in Names : AnswerSignIn(state, name)
  \/ \E state \in issued, name \in Names : AnswerRecover(state, name)
  \/ \E state \in issued : ProveControl(state)
  \/ \E state \in issued, value \in Values : CollectReplacement(state, value)
  \/ \E state \in issued : ValidateReplacement(state)

Spec == Init /\ [][Next]_vars
-----------------------------------------------------------------------------
TypeOK ==
  /\ issued \subseteq State
  /\ codes \in [Dances \X Names -> PendingCode \cup {None}]
  /\ held \in [Identities -> [Names -> Values]]
  /\ consented \in [Identities -> SUBSET Names]
  /\ sessions \subseteq Outcome
  /\ sent \subseteq Message
  /\ resets \subseteq Outcome

\* A session belongs to the identity whose own credentials proved every step of
\* a complete path that proves, whatever states of a dance the clients replayed,
\* branched and mixed (#submitPromptStep, #acceptStep, verifyPrompt of otp).
SessionEarned ==
  \A session \in sessions :
    /\ Over(Paths, session.path)
    /\ HasProof(session.path, Proves)
    /\ \A n \in DOMAIN session.path :
         Proves(session.path[n]) => session.by[n] = session.identityId

\* A component is replaced only after a complete path of its recovery, whose
\* proofs all come from the identity that gets the new value.
ResetEarned ==
  \A reset \in resets :
    /\ Over(RecoveryPaths(reset.component), reset.path)
    /\ \A n \in DOMAIN reset.path :
         ProvesInRecovery(reset.path[n]) => reset.by[n] = reset.identityId

\* The address an identity holds returned a code that was sent to it for that
\* identity: neither a code for the address it replaces nor one for another
\* replacement of the same dance confirms it.
AddressProven ==
  \A i \in Identities, name \in Names :
    Verifiable(name) => <<i, name, held[i][name]>> \in proven

\* The consent a session went past, after its identity was known, is on record.
ConsentOnRecord ==
  \A session \in sessions : \A n \in DOMAIN session.path :
    /\ Skippable(session.path[n])
    /\ \E m \in 1..(n - 1) : Identification(session.path[m])
    => session.path[n] \in consented[session.identityId]
=============================================================================
