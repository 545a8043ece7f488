-------------------------------- MODULE Flows --------------------------------
(***************************************************************************)
(* A flow between its start and its completion: sign-up, enroll, rotate    *)
(* and subscribe collect a value, deliver a code to it, and write it when  *)
(* the code came back (#submitPromptStep, #submitValidationStep and        *)
(* #sendPrompt of src/api.ts, with components/email.ts, otp.ts and         *)
(* password.ts).                                                           *)
(*                                                                         *)
(* The server keeps no flow.  A state is a token the client holds, and it  *)
(* may be sent again, in any order, by which one flow forks into several   *)
(* that share the key of their code.  A call is one step; what happens     *)
(* between the reads and the writes of a completion is the subject of      *)
(* Management.tla, and what two submits do to one code of OneTimeProofs.   *)
(*                                                                         *)
(* One person holds every state and one session, and reads the messages of *)
(* some recipients.  The identity behind the session may hold a value the  *)
(* person does not read: a session in the wrong hands.                     *)
(***************************************************************************)
EXTENDS Naturals, Sequences, SequencesExt, FiniteSets

CONSTANTS
  Names, KindOf,   \* the components: each an "address", a "secret" or a "code"
  Channels,
  ChannelOf,       \* the channel of an address, and the one a code goes over
  ChallengeOf,     \* the code an address contributes
  Paths,           \* the complete paths of the choreography
  Values, Reads,   \* recipients and secrets, and those whose messages the person reads
  States,          \* the ids of states
  Homes,           \* what the identity of the session may hold at the start
  MaxHeld,         \* bound: the states a person holds
  Home, None, Absent

Addresses == { name \in Names : KindOf[name] = "address" }

FlowsAssumption ==
  /\ Home \notin States /\ KindOf \in [Names -> {"address", "secret", "code"}]
  /\ ChannelOf \in [{ name \in Names : KindOf[name] # "secret" } -> Channels]
  /\ ChallengeOf \in [Addresses -> { name \in Names : KindOf[name] = "code" }]
  /\ Paths \subseteq Seq(Names) /\ Reads \subseteq Values /\ MaxHeld \in Nat

\* A policy a sign-up can go through: no path repeats a step, and a code comes right after the
\* one address that contributes it, or last.
PathsGoThrough ==
  Paths # {} /\ \A path \in Paths :
    /\ path # <<>>
    /\ \A m, n \in DOMAIN path :
         \/ path[m] = path[n]
         \/ path[m] \in Addresses /\ path[n] \in Addresses /\ ChallengeOf[path[m]] = ChallengeOf[path[n]]
         => m = n
    /\ \A n \in DOMAIN path : KindOf[path[n]] = "code" =>
         \E m \in 1..(n - 1) :
           path[m] \in Addresses /\ ChallengeOf[path[m]] = path[n] /\ n \in {m + 1, Len(path)}

VARIABLES
  held,        \* the states the client got
  started,     \* the ids in use
  kv,          \* otp/<state>/<name>: who the code that waits was delivered to
  identities,  \* the records of the identity of the session, and of each sign-up
  began        \* history: the records the identity of the session had at the start

vars == <<held, started, kv, identities, began>>
-----------------------------------------------------------------------------
(* Records, in the order an identity and a state hold them.                *)

Record == [ kind : {"identification", "challenge", "channel"}, name : Names \cup Channels,
            value : Values, confirmed : BOOLEAN ]

Entry(kind, name, value, confirmed) == [ kind |-> kind, name |-> name, value |-> value, confirmed |-> confirmed ]

\* getIdentityComponent with `confirmed` false.
Collected(name, value) ==
  IF KindOf[name] = "secret" THEN << Entry("challenge", name, value, FALSE) >>
  ELSE << Entry("identification", name, value, FALSE), Entry("channel", ChannelOf[name], value, TRUE),
          Entry("challenge", ChallengeOf[name], value, FALSE) >>

\* The members of a list that stand at these places, in their order.
Rank(n, places) == Cardinality({ m \in places : m <= n })
Chosen(list, places) ==
  [k \in 1..Cardinality(places) |-> list[CHOOSE n \in places : Rank(n, places) = k]]
First(places) == CHOOSE n \in places : \A m \in places : n <= m

IsOf(record, name) == record.kind # "channel" /\ record.name = name
Holds(records, name) == \E n \in DOMAIN records : IsOf(records[n], name)

\* #isPending.
IsPending(records, name) == \E n \in DOMAIN records : IsOf(records[n], name) /\ ~records[n].confirmed

\* The first record of the component becomes confirmed, and no other.
Confirm(records, name) ==
  [records EXCEPT ![First({ n \in DOMAIN records : IsOf(records[n], name) })].confirmed = TRUE]

\* #applyReplacement.
ApplyReplacement(records, fresh) ==
  Chosen(records, { n \in DOMAIN records : ~\E m \in DOMAIN fresh :
    (fresh[m].kind = "channel" <=> records[n].kind = "channel") /\ fresh[m].name = records[n].name }) \o fresh

\* A password component refuses the secret it replaces, and what identifies its owner.
Accepts(name, value, records) ==
  KindOf[name] = "secret" => ~\E n \in DOMAIN records :
    records[n].value = value /\ (records[n].kind = "identification" \/ IsOf(records[n], name))

Unique(records) ==
  \A m, n \in DOMAIN records : records[m].kind = records[n].kind /\ records[m].name = records[n].name => m = n

\* The memory adapter refuses two records of one kind and name, and an identification that
\* another identity holds.
Fits(id, records) ==
  /\ Unique(records)
  /\ \A other \in DOMAIN identities \ {id} : identities[other] # Absent =>
       \A n \in DOMAIN records : records[n].kind = "identification" =>
         ~\E m \in DOMAIN identities[other] :
            [records[n] EXCEPT !.confirmed = TRUE] = [identities[other][m] EXCEPT !.confirmed = TRUE]

\* What sign-ups and enrolments leave: the adapter takes it, an address has the channel it
\* brought, and no two addresses have one.
Stored(records) ==
  /\ records \in Seq(Record) /\ Unique(records)
  /\ \A n \in DOMAIN records : records[n].kind = "challenge" => records[n].name \in Names \ Addresses
  /\ \A n \in DOMAIN records : records[n].kind = "identification" =>
       /\ records[n].name \in Addresses
       /\ \E m \in DOMAIN records : /\ records[m].kind = "channel" /\ records[m].name = ChannelOf[records[n].name]
                                    /\ records[m].value = records[n].value
       /\ \A m \in DOMAIN records :
            records[m].kind = "identification" /\ ChannelOf[records[m].name] = ChannelOf[records[n].name] => m = n

HomesFit == \A records \in Homes : Stored(records)
-----------------------------------------------------------------------------
(* States and the phase each waits in.                                     *)

\* `checked` is `verified` of a rotate and `validating` of a subscribe; the record of a
\* subscribe is its channel.
State == [ kind : {"sign-up", "enroll", "rotate", "subscribe"}, id : States, name : Names \cup Channels \cup {None},
           checked : BOOLEAN, records : Seq(Record) ]

\* #signUpPath.
SignUpPath(records) ==
  LET own == Chosen(records, { n \in DOMAIN records : records[n].kind # "channel" /\ records[n].confirmed })
  IN  [n \in DOMAIN own |-> own[n].name]

\* What peek answers: null at the end of a path, else the next steps; none is an error.
IsOver(path) == \E complete \in Paths : IsPrefix(complete, path)
Offered(path) ==
  IF IsOver(path) THEN {} ELSE { p[Len(path) + 1] : p \in { q \in Paths : IsStrictPrefix(path, q) } }

Steps(state) == IF state.kind = "sign-up" THEN Offered(SignUpPath(state.records)) ELSE {state.name}

\* #signUpStepPending: a step that is offered.
SignUpStepPending(state) == \E name \in Steps(state) : IsPending(state.records, name)

\* #awaitsValidation.
AwaitsValidation(state) ==
  CASE state.kind = "sign-up" -> SignUpStepPending(state)
    [] state.kind = "enroll" -> IsPending(state.records, state.name)
    [] state.kind = "rotate" -> ~state.checked \/ IsPending(state.records, state.name)
    [] OTHER -> state.checked

\* The records of the context: what the flow collected comes before what is stored.
Context(state) == IF state.kind = "sign-up" THEN state.records ELSE state.records \o identities[Home]

\* The target of a code: the first channel of the context under its name.
Target(state, name) ==
  LET channel == IF state.kind = "subscribe" THEN name ELSE ChannelOf[name]
      records == Context(state)
      found == { n \in DOMAIN records : records[n].kind = "channel" /\ records[n].name = channel }
  IN  IF found = {} THEN None ELSE records[First(found)].value

\* #resolveVerification and the like: the step has a value to prove, and a code proves it.
Validates(state, name) ==
  /\ AwaitsValidation(state) /\ name \in Steps(state)
  /\ state.kind = "sign-up" => Holds(state.records, name)
  /\ state.kind # "subscribe" => KindOf[name] # "secret"
-----------------------------------------------------------------------------
Hand(state) == held' = held \cup {state} /\ Cardinality(held') <= MaxHeld

Init ==
  /\ held = {} /\ started = {}
  /\ kv = [key \in States \X (Names \cup Channels) |-> None]
  /\ began \in Homes /\ identities = [id \in States \cup {Home} |-> IF id = Home THEN began ELSE Absent]

Started(kind, id, name, checked) ==
  /\ id \notin started /\ started' = started \cup {id}
  /\ Hand([ kind |-> kind, id |-> id, name |-> name, checked |-> checked, records |-> <<>> ])
  /\ UNCHANGED <<kv, identities, began>>

SignUp(id) == Started("sign-up", id, None, FALSE)

\* An enrolled code comes with its address alone: its verification always throws.
Enroll(id, name) ==
  /\ ~Holds(identities[Home], name) /\ KindOf[name] # "code"
  /\ Started("enroll", id, name, FALSE)

\* A variant with a bug, for RotatesProveTheOld: no rotate asks for the current value.
VerifiedFirst(name) == TRUE

\* A component with no verification component starts out proven.
StartsVerified(name) == KindOf[name] = "secret"

Rotate(id, name) ==
  /\ Holds(identities[Home], name) /\ KindOf[name] # "code"
  /\ Started("rotate", id, name, StartsVerified(name))

Subscribe(id, channel) ==
  /\ ~\E n \in DOMAIN identities[Home] : identities[Home][n].kind = "channel" /\ identities[Home][n].name = channel
  /\ Started("subscribe", id, channel, FALSE)

\* sendPrompt.  A code step of a sign-up sends for itself, and has no other message.
Send(state, name) ==
  /\ \/ Validates(state, name)
     \/ /\ state.kind = "sign-up" /\ ~AwaitsValidation(state)
        /\ name \in Steps(state) /\ KindOf[name] = "code"
  /\ Target(state, name) # None
  /\ kv' = [kv EXCEPT ![<<state.id, name>>] = Target(state, name)]
  /\ UNCHANGED <<held, started, identities, began>>

\* setIdentity; the call fails when the adapter refuses the records.
Write(id, records) ==
  /\ UNCHANGED <<held, started, began>>
  /\ identities' = IF Fits(id, records) THEN [identities EXCEPT ![id] = records] ELSE identities

Goes(state) == Hand(state) /\ UNCHANGED <<started, identities, began>>

\* The end of a step whose value is confirmed.  A sign-up goes on along the path it came
\* by; the last step of a path writes, and a step after which peek finds nothing fails.
Advance(state, path) ==
  CASE state.kind = "sign-up" ->
         IF IsOver(path) THEN Write(state.id, state.records)
         ELSE IF Offered(path) = {} THEN UNCHANGED <<held, started, identities, began>> ELSE Goes(state)
    [] state.kind = "rotate" -> Write(Home, ApplyReplacement(identities[Home], state.records))
    [] OTHER -> Write(Home, identities[Home] \o state.records)

\* #submitPromptStep: the value is collected one time, and a secret counts at once.
Collect(state, name, value) ==
  /\ state.kind # "subscribe" /\ ~AwaitsValidation(state) /\ name \in Steps(state)
  /\ KindOf[name] # "code" /\ Accepts(name, value, Context(state))
  /\ IF state.kind = "sign-up" THEN ~Holds(state.records, name) ELSE state.records = <<>>
  /\ UNCHANGED kv
  /\ LET next == [state EXCEPT !.records = @ \o Collected(name, value)] IN
     IF KindOf[name] = "address" THEN Goes(next)
     ELSE Advance([next EXCEPT !.records = Confirm(@, name)], Append(SignUpPath(state.records), name))

Pending(channel, value) == Entry("channel", channel, value, FALSE)

CollectRecipient(state, value) ==
  /\ state.kind = "subscribe" /\ ~AwaitsValidation(state)
  /\ Goes([state EXCEPT !.checked = TRUE, !.records = << Pending(state.name, value) >>])
  /\ UNCHANGED kv

\* A variant with a bug, for AddressesAreProven: who the code went to is not compared.
MatchesAnyRecipient(state, name) == kv[state.id, name] # None

\* The code that waits went to the recipient the state names now.
Matches(state, name) == kv[state.id, name] # None /\ kv[state.id, name] = Target(state, name)

\* #submitValidationStep with the right code; any other answer changes nothing.
Prove(state, name) ==
  /\ Validates(state, name) /\ Matches(state, name) /\ kv[state.id, name] \in Reads
  /\ kv' = [kv EXCEPT ![<<state.id, name>>] = None]
  /\ IF state.kind = "rotate" /\ ~state.checked THEN Goes([state EXCEPT !.checked = TRUE])
     ELSE Advance([state EXCEPT !.records =
                     IF state.kind = "subscribe" THEN << [@[1] EXCEPT !.confirmed = TRUE] >> ELSE Confirm(@, name)],
                  Append(SignUpPath(state.records), name))

Next ==
  \/ \E id \in States :
       \/ SignUp(id)
       \/ \E name \in Names : Enroll(id, name) \/ Rotate(id, name)
       \/ \E channel \in Channels : Subscribe(id, channel)
  \/ \E state \in held :
       \/ \E name \in Names \cup Channels : Send(state, name) \/ Prove(state, name)
       \/ \E value \in Values : CollectRecipient(state, value) \/ \E name \in Names : Collect(state, name, value)

Spec == Init /\ [][Next]_vars
-----------------------------------------------------------------------------
IsSeqOf(list, set) == \A n \in DOMAIN list : list[n] \in set

\* Every state, code and record has its type, and what a flow collected for a step that is
\* still open is not confirmed.
TypeOK ==
  /\ \A state \in held :
       /\ state.kind \in {"sign-up", "enroll", "rotate", "subscribe"} /\ state.id \in started
       /\ IsSeqOf(state.records, Record)
       /\ state.kind # "sign-up" => \A n \in DOMAIN state.records :
            state.records[n].confirmed => state.records[n].kind = "channel" /\ state.kind # "subscribe"
  /\ \A id \in DOMAIN identities : identities[id] # Absent => IsSeqOf(identities[id], Record)
  /\ \A key \in DOMAIN kv : kv[key] \in Values \cup {None}

\* The code of a flow proves the value that is written: no replay and no fork of a state
\* stores an address or a recipient whose messages the person does not read.
AddressesAreProven ==
  \A id \in DOMAIN identities : identities[id] # Absent =>
    \A n \in DOMAIN identities[id] : LET record == identities[id][n] IN
      \/ record.value \in Reads
      \/ id = Home /\ \E m \in DOMAIN began : began[m] = record
      \/ record.kind = "challenge" /\ record.name \in Names /\ KindOf[record.name] = "secret"

\* rotate, "control of the enrolled value": who does not read the address of the identity
\* does not get rid of it, whatever other flows of the session do beside.
RotatesProveTheOld ==
  [][\A n \in DOMAIN identities[Home] : LET record == identities[Home][n] IN
       record.kind = "identification" /\ record.value \notin Reads =>
         \E m \in DOMAIN identities'[Home] : identities'[Home][m] = record]_vars

\* What a sign-up stores holds a confirmed record for each step of a complete path, whatever
\* order its states were sent in.
SignUpsAreWhole ==
  \A id \in States : identities[id] # Absent =>
    \E complete \in Paths : \A step \in DOMAIN complete : \E n \in DOMAIN identities[id] :
      IsOf(identities[id][n], complete[step]) /\ identities[id][n].confirmed

CanAnswer(state, name) ==
  IF AwaitsValidation(state) THEN Holds(state.records, name) ELSE ~Holds(state.records, name) /\ KindOf[name] # "code"

\* A sign-up state that the server handed out has a next step that takes an answer.
NoDeadEnd == \A state \in held : state.kind = "sign-up" => \E name \in Steps(state) : CanAnswer(state, name)

\* docs/concepts/choreography.mdx:59: "A sign-in and a sign-up walk one path, one step at a
\* time": each of the components that a prompt of a sign-up offers takes an answer.
EveryOfferIsTaken == \A state \in held : state.kind = "sign-up" => \A name \in Steps(state) : CanAnswer(state, name)

\* What a flow writes is what its person proved, and a sign-up comes to its end.
FlowsAreProven == TypeOK /\ AddressesAreProven /\ SignUpsAreWhole /\ NoDeadEnd
=============================================================================
