-------------------------- MODULE Management_proofs --------------------------
(***************************************************************************)
(* Proofs about Management for every policy, every set of values and       *)
(* sessions and every number of calls that interleave: the identity keeps  *)
(* a way in, no channel or code outlives the component it links to, and,   *)
(* when the adapter refuses two records under a key, each holds the        *)
(* address of its component.                                               *)
(*                                                                         *)
(* The copies of the identity that calls hold are old as soon as another   *)
(* call writes, so the argument is not about what the latest write did: it *)
(* is that the identity and every copy in memory is sound by itself, and   *)
(* that each change a call makes to its copy keeps it sound.               *)
(*                                                                         *)
(* What relates the identity to the sessions, to the latest value and to   *)
(* its own deletion holds one call at a time, which those theorems take as *)
(* a hypothesis about the behaviour, and fails when calls overlap.         *)
(*                                                                         *)
(* The last part is about Flows, the dance before the call that writes:    *)
(* for every set of components, every policy a sign-up can go through and  *)
(* every identity behind the session, what a flow writes is proven.        *)
(***************************************************************************)
EXTENDS Management, MCProvenFlows, Naturals, Sequences, FiniteSets, FunctionTheorems, FiniteSetTheorems,
        SequenceTheorems, TLAPS

LinksHold(records) ==
  \A r \in records : \A name \in r.links : <<"component", name>> \in KeysOf(records)

\* The channels an address emits stay linked to it for as long as it stays.
ChannelsHold(records) ==
  \A address \in Collectable : <<"component", address>> \in KeysOf(records) =>
    \A key \in Emits[address] : key[1] = "channel" =>
      \E r \in records : r.key = key /\ address \in r.links

Sound(records) ==
  /\ records \in SUBSET Record
  /\ LinksHold(records)
  /\ ChannelsHold(records)
  /\ CanSignIn(records)

IsSound(copy) == copy = Gone \/ Sound(copy)

OwnKeys == {"component"} \X Collectable

\* The keys a flow can be about.
KeyFits(op, key) ==
  /\ op \in Collects => key \in OwnKeys
  /\ op \in {"unenroll", "unsubscribe", "subscribe"} => key \in Keys
  /\ op = "subscribe" => key[1] = "channel"

CallFits(call) ==
  /\ KeyFits(call.op, call.key)
  /\ IsSound(call.copy)
  /\ (call.op \in Collects \cup {"sign-up"} /\ call.phase \in {"changed", "listed"}) => call.value \in Values

IInv ==
  /\ TypeOK
  /\ IsSound(identity)
  /\ \A flow \in issued : KeyFits(flow.op, flow.key)
  /\ \A c \in Calls : calls[c] # Idle => CallFits(calls[c])
-----------------------------------------------------------------------------
\* The records a component adds: its own, confirmed, and those that link to it.
LEMMA EmittedRecords ==
  ASSUME NEW name \in Collectable, NEW value \in Values
  PROVE  /\ Emitted(name, value) \in SUBSET Record
         /\ <<"component", name>> \in KeysOf(Emitted(name, value))
         /\ \A f \in Emitted(name, value) : f.links \subseteq {name}
         /\ \A f \in Emitted(name, value) : \A a \in Collectable :
              f.key = <<"component", a>> => a = name /\ f.confirmed
         /\ \A key \in Emits[name] : key[1] = "channel" =>
              \E f \in Emitted(name, value) : f.key = key /\ name \in f.links
<1> DEFINE Side(key) ==
      [ key |-> key, confirmed |-> key[1] = "channel", links |-> {name}, value |-> value ]
<1>1. name \in Components /\ Emits[name] \subseteq Keys
  BY ManagementAssumption DEF Collectable
<1>2. Own(name, value) \in Record
  BY <1>1 DEF Own, Record, Keys
<1>3. \A key \in Emits[name] : Side(key) \in Record
  BY <1>1 DEF Record
<1>4. Emitted(name, value) = { Own(name, value) } \cup { Side(key) : key \in Emits[name] }
  BY DEF Emitted
<1>5. Emitted(name, value) \in SUBSET Record
  BY <1>2, <1>3, <1>4
<1>6. <<"component", name>> \in KeysOf(Emitted(name, value))
  <2>1. Own(name, value) \in Emitted(name, value) /\ Own(name, value).key = <<"component", name>>
    BY <1>4 DEF Own
  <2> QED BY <2>1 DEF KeysOf
<1>7. \A f \in Emitted(name, value) : f.links \subseteq {name}
  BY <1>4 DEF Own
<1>8. ASSUME NEW f \in Emitted(name, value), NEW a \in Collectable, f.key = <<"component", a>>
      PROVE  a = name /\ f.confirmed
  <2>1. CASE f = Own(name, value)
    BY <2>1, <1>8 DEF Own
  <2>2. CASE f # Own(name, value)
    <3>1. PICK key \in Emits[name] : f = Side(key)
      BY <1>4, <2>2
    <3>2. <<"component", a>> \in Emits[name]
      BY <3>1, <1>8
    <3>3. a \in AsksForCode
      BY <1>1, <3>2, CodesFollowTheirAddress DEF Collectable
    <3> QED BY <3>3 DEF Collectable
  <2> QED BY <2>1, <2>2
<1>9. ASSUME NEW key \in Emits[name], key[1] = "channel"
      PROVE  \E f \in Emitted(name, value) : f.key = key /\ name \in f.links
  <2>1. Side(key) \in Emitted(name, value) /\ Side(key).key = key /\ name \in Side(key).links
    BY <1>4
  <2> QED BY <2>1
<1> QED BY <1>5, <1>6, <1>7, <1>8, <1>9

\* A complete path of confirmed components is a way in: the code on it goes over
\* the channel of an address that is on it as well.
LEMMA CompletableIsAWayIn ==
  ASSUME NEW records, IsCompletable(records), ChannelsHold(records)
  PROVE  CanSignIn(records)
<1>1. PICK path \in Paths : \A name \in path :
        \E r \in records : r.key = <<"component", name>> /\ r.confirmed
  BY DEF IsCompletable
<1>2. ASSUME NEW name \in path PROVE Performable(records, name)
  <2>1. CASE name \notin AsksForCode
    BY <1>1, <2>1 DEF Performable
  <2>2. CASE name \in AsksForCode
    <3>1. PICK address \in path \cap Collectable : <<"channel", ChannelOf[name]>> \in Emits[address]
      BY <2>2, CodesFollowTheirAddress
    <3>2. <<"component", address>> \in KeysOf(records)
      BY <1>1, <3>1 DEF KeysOf
    <3>3. PICK r \in records : r.key = <<"channel", ChannelOf[name]>>
      BY <3>1, <3>2 DEF ChannelsHold
    <3> QED BY <2>2, <3>3 DEF Performable
  <2> QED BY <2>1, <2>2
<1> QED BY <1>2 DEF CanSignIn

\* The keys of two sets of records together.
LEMMA KeysOfUnion ==
  \A records, fresh : KeysOf(records \cup fresh) = KeysOf(records) \cup KeysOf(fresh)
BY DEF KeysOf

\* Adding records keeps a sound identity sound, as long as the links of the new
\* ones resolve and no address comes without its channel: enroll and subscribe.
LEMMA AdditionIsSound ==
  ASSUME NEW records, Sound(records), NEW fresh \in SUBSET Record,
         LinksHold(records \cup fresh), ChannelsHold(records \cup fresh)
  PROVE  Sound(records \cup fresh)
<1>1. records \cup fresh \in SUBSET Record
  BY DEF Sound
<1>2. CanSignIn(records \cup fresh)
  <2>1. PICK path \in Paths : \A name \in path : Performable(records, name)
    BY DEF Sound, CanSignIn
  <2>2. \A name \in path : Performable(records \cup fresh, name)
    BY <2>1 DEF Performable
  <2> QED BY <2>2 DEF CanSignIn
<1> QED BY <1>1, <1>2 DEF Sound

\* An enroll adds a component with the records it emits, and keeps what holds.
LEMMA EnrollIsSound ==
  ASSUME NEW records, Sound(records), NEW name \in Collectable, NEW value \in Values
  PROVE  Sound(records \cup Emitted(name, value))
<1> DEFINE fresh == Emitted(name, value)
<1>1. KeysOf(records \cup fresh) = KeysOf(records) \cup KeysOf(fresh)
  BY KeysOfUnion
<1>2. LinksHold(records \cup fresh)
  <2> SUFFICES ASSUME NEW r \in records \cup fresh, NEW link \in r.links
               PROVE  <<"component", link>> \in KeysOf(records) \cup KeysOf(fresh)
    BY <1>1 DEF LinksHold
  <2>1. CASE r \in records
    BY <2>1 DEF Sound, LinksHold
  <2>2. CASE r \in fresh
    <3>1. r.links \subseteq {name} /\ <<"component", name>> \in KeysOf(fresh)
      BY <2>2, EmittedRecords
    <3>2. link = name
      BY <3>1
    <3> QED BY <3>1, <3>2
  <2> QED BY <2>1, <2>2
<1>3. ChannelsHold(records \cup fresh)
  <2> SUFFICES ASSUME NEW address \in Collectable,
                      <<"component", address>> \in KeysOf(records) \cup KeysOf(fresh),
                      NEW key \in Emits[address], key[1] = "channel"
               PROVE  \E r \in records \cup fresh : r.key = key /\ address \in r.links
    BY <1>1 DEF ChannelsHold
  <2>1. CASE <<"component", address>> \in KeysOf(records)
    BY <2>1 DEF Sound, ChannelsHold
  <2>2. CASE <<"component", address>> \in KeysOf(fresh)
    <3>1. address = name
      BY <2>2, EmittedRecords DEF KeysOf
    <3> QED BY <3>1, EmittedRecords
  <2> QED BY <2>1, <2>2
<1>4. fresh \in SUBSET Record
  BY EmittedRecords
<1> QED BY <1>2, <1>3, <1>4, AdditionIsSound

\* A confirmed channel without links changes no link and no address.
LEMMA SubscribeIsSound ==
  ASSUME NEW records, Sound(records), NEW key \in Keys, key[1] = "channel", NEW value \in Values
  PROVE  Sound(records \cup {[key |-> key, confirmed |-> TRUE, links |-> {}, value |-> value]})
<1> DEFINE new == [key |-> key, confirmed |-> TRUE, links |-> {}, value |-> value]
<1>1. new \in Record
  BY DEF Record
<1>2. KeysOf(records \cup {new}) = KeysOf(records) \cup {key}
  <2>1. KeysOf({new}) = {key}
    BY DEF KeysOf
  <2> QED BY <2>1, KeysOfUnion
<1>3. LinksHold(records \cup {new})
  <2> SUFFICES ASSUME NEW r \in records \cup {new}, NEW link \in r.links
               PROVE  <<"component", link>> \in KeysOf(records) \cup {key}
    BY <1>2 DEF LinksHold
  <2>1. r \in records
    <3>1. new.links = {}
      OBVIOUS
    <3> QED BY <3>1
  <2> QED BY <2>1 DEF Sound, LinksHold
<1>4. ChannelsHold(records \cup {new})
  <2> SUFFICES ASSUME NEW address \in Collectable,
                      <<"component", address>> \in KeysOf(records) \cup {key},
                      NEW k \in Emits[address], k[1] = "channel"
               PROVE  \E r \in records \cup {new} : r.key = k /\ address \in r.links
    BY <1>2 DEF ChannelsHold
  <2>1. <<"component", address>> # key
    OBVIOUS
  <2> QED BY <2>1 DEF Sound, ChannelsHold
<1> QED BY <1>1, <1>3, <1>4, AdditionIsSound

\* A reset: every record keeps its key or is superseded under it, every channel
\* its links, and the component of the reset is there, confirmed.
LEMMA ReplacementIsSound ==
  ASSUME NEW records, Sound(records), NEW name \in Collectable, NEW value \in Values
  PROVE  Sound(ApplyReplacement(records, Emitted(name, value)))
<1> DEFINE fresh == Emitted(name, value)
           kept  == { r \in records : r.key \notin KeysOf(fresh) }
           Past(f)   == UNION { r.links : r \in { q \in records : q.key = f.key } }
           Merged(f) == IF f.key[1] = "channel" THEN [f EXCEPT !.links = @ \cup Past(f)] ELSE f
           result == ApplyReplacement(records, fresh)
<1>0. fresh \in SUBSET Record
  BY EmittedRecords
<1>1. result = kept \cup { Merged(f) : f \in fresh }
  BY DEF ApplyReplacement
<1>2. \A f \in fresh : Past(f) \subseteq Components
  BY DEF Sound, Record
<1>3. ASSUME NEW f \in fresh
      PROVE  /\ Merged(f) \in Record /\ Merged(f).key = f.key /\ Merged(f).confirmed = f.confirmed
             /\ f.links \subseteq Merged(f).links /\ Merged(f).links \subseteq f.links \cup Past(f)
             /\ f.key[1] = "channel" => Past(f) \subseteq Merged(f).links
  BY <1>0, <1>2 DEF Record
<1>4. result \in SUBSET Record
  BY <1>1, <1>3 DEF Sound
<1>5. KeysOf(records) \cup KeysOf(fresh) \subseteq KeysOf(result)
  <2>1. ASSUME NEW f \in fresh PROVE f.key \in KeysOf(result)
    BY <1>1, <1>3 DEF KeysOf
  <2>2. ASSUME NEW r \in records PROVE r.key \in KeysOf(result)
    <3>1. CASE r.key \in KeysOf(fresh)
      BY <3>1, <2>1 DEF KeysOf
    <3>2. CASE r.key \notin KeysOf(fresh)
      BY <3>2, <1>1 DEF KeysOf
    <3> QED BY <3>1, <3>2
  <2> QED BY <2>1, <2>2 DEF KeysOf
<1>6. LinksHold(result)
  <2> SUFFICES ASSUME NEW r \in result, NEW link \in r.links
               PROVE  <<"component", link>> \in KeysOf(result)
    BY DEF LinksHold
  <2>1. CASE r \in kept
    BY <2>1, <1>5 DEF Sound, LinksHold
  <2>2. CASE r \notin kept
    <3>1. PICK f \in fresh : r = Merged(f)
      BY <2>2, <1>1
    <3>2. link \in f.links \/ link \in Past(f)
      BY <3>1, <1>3
    <3>3. CASE link \in f.links
      <4>1. link = name /\ <<"component", name>> \in KeysOf(fresh)
        BY <3>3, EmittedRecords
      <4> QED BY <4>1, <1>5
    <3>4. CASE link \in Past(f)
      BY <3>4, <1>5 DEF Sound, LinksHold
    <3> QED BY <3>2, <3>3, <3>4
  <2> QED BY <2>1, <2>2
<1>7. ChannelsHold(result)
  <2> SUFFICES ASSUME NEW address \in Collectable, <<"component", address>> \in KeysOf(result),
                      NEW key \in Emits[address], key[1] = "channel"
               PROVE  \E r \in result : r.key = key /\ address \in r.links
    BY DEF ChannelsHold
  <2>1. CASE address = name
    <3>1. PICK f \in fresh : f.key = key /\ name \in f.links
      BY <2>1, EmittedRecords
    <3>2. Merged(f) \in result /\ Merged(f).key = key /\ name \in Merged(f).links
      BY <3>1, <1>1, <1>3
    <3> QED BY <2>1, <3>2
  <2>2. CASE address # name
    <3>1. <<"component", address>> \in KeysOf(records)
      <4>1. PICK r \in result : r.key = <<"component", address>>
        BY DEF KeysOf
      <4>2. \A f \in fresh : f.key # <<"component", address>>
        BY <2>2, EmittedRecords
      <4>3. r \in kept
        BY <4>1, <4>2, <1>1, <1>3
      <4> QED BY <4>1, <4>3 DEF KeysOf
    <3>2. PICK r \in records : r.key = key /\ address \in r.links
      BY <3>1 DEF Sound, ChannelsHold
    <3>3. CASE key \notin KeysOf(fresh)
      BY <3>2, <3>3, <1>1
    <3>4. CASE key \in KeysOf(fresh)
      <4>1. PICK f \in fresh : f.key = key
        BY <3>4 DEF KeysOf
      <4>2. address \in Past(f)
        BY <3>2, <4>1
      <4>3. Merged(f) \in result /\ Merged(f).key = key /\ address \in Merged(f).links
        BY <4>1, <4>2, <1>1, <1>3
      <4> QED BY <4>3
    <3> QED BY <3>3, <3>4
  <2> QED BY <2>1, <2>2
<1>8. CanSignIn(result)
  <2>1. PICK path \in Paths : \A step \in path : Performable(records, step)
    BY DEF Sound, CanSignIn
  <2>2. ASSUME NEW step \in path PROVE Performable(result, step)
    <3>1. PICK r \in records : IF step \in AsksForCode THEN r.key = <<"channel", ChannelOf[step]>>
                               ELSE r.key = <<"component", step>> /\ r.confirmed
      BY <2>1 DEF Performable
    <3>2. CASE step \in AsksForCode
      <4>1. \E q \in result : q.key = <<"channel", ChannelOf[step]>>
        BY <3>1, <3>2, <1>5 DEF KeysOf
      <4> QED BY <3>2, <4>1 DEF Performable
    <3>3. CASE step \notin AsksForCode /\ r.key \notin KeysOf(fresh)
      <4>1. r \in result
        BY <3>3, <1>1
      <4> QED BY <3>1, <3>3, <4>1 DEF Performable
    <3>4. CASE step \notin AsksForCode /\ r.key \in KeysOf(fresh)
      <4>1. PICK f \in fresh : f.key = <<"component", step>>
        BY <3>1, <3>4 DEF KeysOf
      <4>2. step \in Collectable
        BY <2>1, <3>4, ManagementAssumption DEF Collectable
      <4>3. f.confirmed
        BY <4>1, <4>2, EmittedRecords
      <4>4. Merged(f) \in result /\ Merged(f).key = <<"component", step>> /\ Merged(f).confirmed
        BY <4>1, <4>3, <1>1, <1>3
      <4> QED BY <3>4, <4>4 DEF Performable
    <3> QED BY <3>2, <3>3, <3>4
  <2> QED BY <2>1, <2>2 DEF CanSignIn
<1> QED BY <1>4, <1>6, <1>7, <1>8 DEF Sound

\* The collateral of a removal is closed under the links, both ways.
LEMMA CollateralIsClosed ==
  ASSUME NEW records \in SUBSET Record, NEW seed
  PROVE  Closed(records, Collateral(records, seed))
<1> DEFINE taken == Collateral(records, seed)
<1> SUFFICES ASSUME NEW r \in records
             PROVE  /\ Linked(r) \cap taken # {} => r.key \in taken
                    /\ r.key \in taken => Linked(r) \subseteq taken
  BY DEF Closed
<1>1. r.key \in Keys /\ Linked(r) \subseteq Keys
  BY DEF Record, Linked, Keys
<1>2. ASSUME Linked(r) \cap taken # {} PROVE r.key \in taken
  <2>1. PICK link \in Linked(r) : link \in taken
    BY <1>2
  <2>2. \A keys \in SUBSET Keys : (seed \in keys /\ Closed(records, keys)) => r.key \in keys
    BY <2>1 DEF Collateral, Closed
  <2> QED BY <1>1, <2>2 DEF Collateral
<1>3. ASSUME r.key \in taken, NEW link \in Linked(r) PROVE link \in taken
  <2>1. \A keys \in SUBSET Keys : (seed \in keys /\ Closed(records, keys)) => link \in keys
    BY <1>3 DEF Collateral, Closed
  <2> QED BY <1>1, <2>1 DEF Collateral
<1> QED BY <1>2, <1>3

\* A removal that passed the lock-out check.
LEMMA RemovalIsSound ==
  ASSUME NEW records, Sound(records), NEW seed, IsCompletable(Survivors(records, seed))
  PROVE  Sound(Survivors(records, seed))
<1> DEFINE left == Survivors(records, seed)
           taken == Collateral(records, seed)
<1>1. left = { r \in records : r.key \notin taken }
  BY DEF Survivors
<1>2. Closed(records, taken)
  BY CollateralIsClosed DEF Sound
<1>3. left \in SUBSET Record
  BY <1>1 DEF Sound
<1>4. LinksHold(left)
  <2> SUFFICES ASSUME NEW r \in left, NEW link \in r.links
               PROVE  \E q \in left : q.key = <<"component", link>>
    BY DEF LinksHold, KeysOf
  <2>1. r \in records /\ r.key \notin taken
    BY <1>1
  <2>2. PICK q \in records : q.key = <<"component", link>>
    BY <2>1 DEF Sound, LinksHold, KeysOf
  <2>3. <<"component", link>> \in Linked(r)
    BY DEF Linked
  <2>4. q.key \notin taken
    BY <1>2, <2>1, <2>2, <2>3 DEF Closed
  <2> QED BY <1>1, <2>2, <2>4
<1>5. ChannelsHold(left)
  <2> SUFFICES ASSUME NEW address \in Collectable, NEW own \in left,
                      own.key = <<"component", address>>,
                      NEW key \in Emits[address], key[1] = "channel"
               PROVE  \E r \in left : r.key = key /\ address \in r.links
    BY DEF ChannelsHold, KeysOf
  <2>1. own \in records /\ own.key \notin taken
    BY <1>1
  <2>2. PICK r \in records : r.key = key /\ address \in r.links
    BY <2>1 DEF Sound, ChannelsHold, KeysOf
  <2>3. <<"component", address>> \in Linked(r)
    BY <2>2 DEF Linked
  <2>4. r.key \notin taken
    BY <1>2, <2>1, <2>2, <2>3 DEF Closed
  <2> QED BY <1>1, <2>2, <2>4
<1>6. CanSignIn(left)
  BY <1>5, CompletableIsAWayIn
<1> QED BY <1>3, <1>4, <1>5, <1>6 DEF Sound

\* The identity a sign-up leaves.
LEMMA SignUpIsSound ==
  ASSUME NEW path \in Paths, NEW value \in Values, IsCompletable(SignedUp(path, value))
  PROVE  Sound(SignedUp(path, value))
<1> DEFINE all == UNION { Emitted(name, value) : name \in path \cap Collectable }
           On(r) == IF r.key[1] = "component" /\ r.key[2] \in path THEN [r EXCEPT !.confirmed = TRUE] ELSE r
           signed == SignedUp(path, value)
<1>1. signed = { On(r) : r \in all }
  BY DEF SignedUp
<1>2. ASSUME NEW e \in all
      PROVE  e \in Record /\ \E name \in path \cap Collectable : e \in Emitted(name, value)
  <2>1. PICK name \in path \cap Collectable : e \in Emitted(name, value)
    OBVIOUS
  <2>2. Emitted(name, value) \in SUBSET Record
    BY EmittedRecords
  <2> QED BY <2>1, <2>2
<1>3. ASSUME NEW e \in all
      PROVE  On(e) \in Record /\ On(e).key = e.key /\ On(e).links = e.links /\ On(e) \in signed
  BY <1>1, <1>2 DEF Record
<1>4. ASSUME NEW name \in path \cap Collectable, NEW e \in Emitted(name, value) PROVE e \in all
  OBVIOUS
<1>5. LinksHold(signed)
  <2> SUFFICES ASSUME NEW r \in signed, NEW link \in r.links
               PROVE  \E q \in signed : q.key = <<"component", link>>
    BY DEF LinksHold, KeysOf
  <2>1. PICK e \in all : r = On(e)
    BY <1>1
  <2>2. PICK name \in path \cap Collectable : e \in Emitted(name, value)
    BY <1>2
  <2>3. e.links \subseteq {name} /\ <<"component", name>> \in KeysOf(Emitted(name, value))
    BY <2>2, EmittedRecords
  <2>4. PICK q \in Emitted(name, value) : q.key = <<"component", name>>
    BY <2>3 DEF KeysOf
  <2>5. q \in all
    BY <1>4
  <2>6. link = name
    BY <2>1, <2>3, <1>3
  <2> QED BY <2>4, <2>5, <2>6, <1>3
<1>6. ChannelsHold(signed)
  <2> SUFFICES ASSUME NEW address \in Collectable, NEW own \in signed,
                      own.key = <<"component", address>>,
                      NEW key \in Emits[address], key[1] = "channel"
               PROVE  \E r \in signed : r.key = key /\ address \in r.links
    BY DEF ChannelsHold, KeysOf
  <2>1. PICK e \in all : own = On(e)
    BY <1>1
  <2>2. PICK name \in path \cap Collectable : e \in Emitted(name, value)
    BY <1>2
  <2>3. address = name
    <3>1. e.key = <<"component", address>>
      BY <2>1, <1>3
    <3>2. e.key = <<"component", address>> => address = name
      BY <2>2, EmittedRecords
    <3> QED BY <3>1, <3>2
  <2>4. PICK f \in Emitted(name, value) : f.key = key /\ name \in f.links
    BY <2>3, EmittedRecords
  <2>5. f \in all
    BY <1>4
  <2> QED BY <2>3, <2>4, <2>5, <1>3
<1>7. signed \in SUBSET Record
  BY <1>1, <1>3
<1>8. CanSignIn(signed)
  BY <1>6, CompletableIsAWayIn
<1> QED BY <1>5, <1>6, <1>7, <1>8 DEF Sound
-----------------------------------------------------------------------------
\* An identity as a sign-up leaves it is sound, and no call holds a copy.
LEMMA InitInv == Init => IInv
<1> SUFFICES ASSUME Init PROVE IInv
  OBVIOUS
<1>1. PICK path \in Paths, value \in Values :
        /\ IsCompletable(SignedUp(path, value))
        /\ identity = SignedUp(path, value)
        /\ latest = [name \in Collectable |-> value]
  BY DEF Init
<1>2. Sound(identity)
  BY <1>1, SignUpIsSound
<1>3. TypeOK
  BY <1>1, <1>2, ManagementAssumption DEF Init, TypeOK, Sound
<1> QED BY <1>2, <1>3 DEF Init, IInv, IsSound

\* What a step does to the call it is about is all that the other calls see.
LEMMA CallStep ==
  ASSUME IInv, NEW c \in Calls, NEW call, Goes(c, call),
         call = Idle \/ (call \in Call /\ CallFits(call))
  PROVE  /\ calls' \in [Calls -> Call \cup {Idle}]
         /\ \A d \in Calls : calls'[d] # Idle => CallFits(calls'[d])
BY DEF IInv, TypeOK, Goes

\* A call under way is a record that fits its flow.
LEMMA CallOf ==
  ASSUME IInv, NEW c \in Calls, calls[c] # Idle
  PROVE  calls[c] \in Call /\ CallFits(calls[c])
BY DEF IInv, TypeOK

\* A new call has no value yet, and holds a sound copy or none.
LEMMA NewCallFits ==
  ASSUME IInv, NEW op \in Ops \cup Dances, NEW session \in SessionIds \cup {None},
         NEW key \in Keys \cup {None}, KeyFits(op, key),
         NEW phase \in {"session", "changed", "mint"},
         op \in Collects \cup {"sign-up"} => phase = "session",
         NEW copy \in (SUBSET Record) \cup {Gone}, IsSound(copy)
  PROVE  /\ NewCall(op, session, key, phase, copy) \in Call
         /\ CallFits(NewCall(op, session, key, phase, copy))
<1> DEFINE call == NewCall(op, session, key, phase, copy)
<1>1. resets \in 0..MaxResets /\ 0 \in 0..MaxResets
  BY ManagementAssumption DEF IInv, TypeOK
<1>2. call \in Call
  BY <1>1 DEF Call, NewCall, Dances
<1>3. call.op = op /\ call.key = key /\ call.copy = copy /\ call.phase = phase
  BY DEF NewCall
<1>4. CallFits(call)
  BY <1>3 DEF CallFits
<1> QED BY <1>2, <1>4

\* A flow that starts touches neither the identity nor a copy.
LEMMA StartStep ==
  ASSUME IInv, NEW session \in SessionIds, NEW op \in Ops, NEW key \in Keys \cup {None},
         Start(session, op, key)
  PROVE  IInv'
<1>1. KeyFits(op, key)
  <2>1. CASE op = "delete"
    BY <2>1 DEF KeyFits, Collects
  <2>2. CASE op # "delete"
    <3>1. op # "recover" /\ key \in Keys /\ MayStart(op, key)
      BY <2>2 DEF Start, IsIssuable
    <3>2. CASE op \in {"enroll", "rotate"}
      <4>1. key[1] = "component" /\ key[2] \in Collectable
        BY <3>1, <3>2 DEF MayStart
      <4>2. key \in OwnKeys
        BY <3>1, <4>1 DEF Keys, OwnKeys
      <4> QED BY <3>2, <4>2 DEF KeyFits
    <3>3. CASE op \in {"unenroll", "unsubscribe"}
      BY <3>1, <3>3 DEF KeyFits, Collects
    <3>4. CASE op = "subscribe"
      BY <3>1, <3>4 DEF KeyFits, Collects, MayStart
    <3> QED BY <2>2, <3>1, <3>2, <3>3, <3>4 DEF Ops
  <2> QED BY <2>1, <2>2
<1>2. TypeOK' /\ \A flow \in issued' : KeyFits(flow.op, flow.key)
  BY <1>1 DEF Start, IInv, TypeOK, Flow
<1> QED BY <1>2 DEF Start, IInv

\* A call that reads the session of its flow holds no copy yet.
LEMMA SubmitStep ==
  ASSUME IInv, NEW c \in Calls, NEW flow \in issued, Submit(c, flow)
  PROVE  IInv'
<1> DEFINE call == NewCall(flow.op, flow.session, flow.key, "session", Gone)
<1>1. flow \in Flow /\ KeyFits(flow.op, flow.key)
  BY DEF IInv, TypeOK
<1>2. call \in Call /\ CallFits(call)
  BY <1>1, NewCallFits DEF Flow, IsSound
<1>3. Goes(c, call)
  BY DEF Submit
<1> HIDE DEF call
<1> QED BY <1>2, <1>3, CallStep DEF Submit, IInv, TypeOK

\* The last call of a recovery holds no copy before it reads the identity.
LEMMA SubmitRecoveryStep ==
  ASSUME IInv, NEW c \in Calls, NEW name \in Collectable, SubmitRecovery(c, name)
  PROVE  IInv'
<1> DEFINE call == NewCall("recover", None, <<"component", name>>, "session", Gone)
<1>1. <<"component", name>> \in Keys /\ KeyFits("recover", <<"component", name>>)
  BY DEF Keys, Collectable, KeyFits, Collects, OwnKeys
<1>2. call \in Call /\ CallFits(call)
  BY <1>1, NewCallFits DEF Ops, IsSound
<1>3. Goes(c, call)
  BY DEF SubmitRecovery
<1> HIDE DEF call
<1> QED BY <1>2, <1>3, CallStep DEF SubmitRecovery, IInv, TypeOK

\* A sign-in holds the identity as it read it, which is sound.
LEMMA SubmitSignInStep ==
  ASSUME IInv, NEW c \in Calls, SubmitSignIn(c)
  PROVE  IInv'
<1>1. PICK phase \in {"changed", "mint"} : Goes(c, NewCall("sign-in", None, None, phase, identity))
  BY DEF SubmitSignIn
<1> DEFINE call == NewCall("sign-in", None, None, phase, identity)
<1>2. KeyFits("sign-in", None) /\ IsSound(identity) /\ identity \in (SUBSET Record) \cup {Gone}
  BY DEF KeyFits, Collects, IInv, TypeOK
<1>3. call \in Call /\ CallFits(call)
  BY <1>2, NewCallFits DEF Collects, Dances
<1>4. Goes(c, call)
  BY <1>1
<1> HIDE DEF call
<1> QED BY <1>3, <1>4, CallStep DEF SubmitSignIn, IInv, TypeOK

\* A sign-up that comes again holds what some sign-up of the identity could hold.
LEMMA SubmitSignUpStep ==
  ASSUME IInv, NEW c \in Calls, NEW path \in Paths, NEW value \in Values, SubmitSignUp(c, path, value)
  PROVE  IInv'
<1> DEFINE signed == SignedUp(path, value)
           call == [NewCall("sign-up", None, None, "changed", signed) EXCEPT !.value = value]
<1>1. Sound(signed)
  BY SignUpIsSound DEF SubmitSignUp
<1>2. signed \in SUBSET Record
  BY <1>1 DEF Sound
<1>3. Goes(c, call)
  BY DEF SubmitSignUp
<1> HIDE DEF signed
<1>4. resets \in 0..MaxResets /\ 0 \in 0..MaxResets
  BY ManagementAssumption DEF IInv, TypeOK
<1>5. call \in Call
  BY <1>2, <1>4 DEF Call, NewCall, Dances
<1>6. call.op = "sign-up" /\ call.key = None /\ call.copy = signed /\ call.value = value
  BY DEF NewCall
<1> HIDE DEF call
<1>7. CallFits(call)
  BY <1>1, <1>6 DEF CallFits, KeyFits, Collects, IsSound
<1> QED BY <1>3, <1>5, <1>7, CallStep DEF SubmitSignUp, IInv, TypeOK

\* A flow that collects a value changes a sound identity into a sound copy.
LEMMA ChangeValueStep ==
  ASSUME IInv, NEW c \in Calls, NEW value \in Values, ChangeValue(c, value)
  PROVE  IInv'
<1> DEFINE name == calls[c].key[2]
           copy == IF calls[c].op = "enroll" THEN identity \cup Emitted(name, value)
                   ELSE ApplyReplacement(identity, Emitted(name, value))
           call == [calls[c] EXCEPT !.phase = "changed", !.value = value, !.copy = copy]
<1>1. calls[c] \in Call /\ CallFits(calls[c]) /\ calls[c].op \in Collects
  BY CallOf DEF ChangeValue, AtIdentity
<1>2. name \in Collectable
  BY <1>1 DEF CallFits, KeyFits, OwnKeys
<1>3. Sound(identity)
  BY DEF ChangeValue, AtIdentity, IInv, IsSound
<1>4. Sound(copy)
  BY <1>2, <1>3, EnrollIsSound, ReplacementIsSound
<1>5. Goes(c, call)
  BY DEF ChangeValue
<1>6. copy \in SUBSET Record
  BY <1>4 DEF Sound
<1> HIDE DEF copy
<1>7. call \in Call
  BY <1>1, <1>6 DEF Call
<1>8. call.op = calls[c].op /\ call.key = calls[c].key /\ call.copy = copy /\ call.value = value
  BY <1>1 DEF Call
<1> HIDE DEF call
<1>9. CallFits(call)
  BY <1>1, <1>4, <1>8 DEF CallFits, IsSound
<1> QED BY <1>5, <1>7, <1>9, CallStep DEF ChangeValue, IInv, TypeOK

\* A subscribe adds one confirmed channel to its copy.
LEMMA ChangeChannelStep ==
  ASSUME IInv, NEW c \in Calls, NEW value \in Values, ChangeChannel(c, value)
  PROVE  IInv'
<1> DEFINE copy == identity \cup
                   {[key |-> calls[c].key, confirmed |-> TRUE, links |-> {}, value |-> value]}
           call == [calls[c] EXCEPT !.phase = "changed", !.copy = copy]
<1>1. calls[c] \in Call /\ CallFits(calls[c]) /\ calls[c].op = "subscribe"
  BY CallOf DEF ChangeChannel, AtIdentity
<1>2. calls[c].key \in Keys /\ calls[c].key[1] = "channel"
  BY <1>1 DEF CallFits, KeyFits
<1>3. Sound(identity)
  BY DEF ChangeChannel, AtIdentity, IInv, IsSound
<1>4. Sound(copy)
  BY <1>2, <1>3, SubscribeIsSound
<1>5. Goes(c, call)
  BY DEF ChangeChannel
<1>6. copy \in SUBSET Record
  BY <1>4 DEF Sound
<1> HIDE DEF copy
<1>7. call \in Call
  BY <1>1, <1>6 DEF Call
<1>8. call.op = calls[c].op /\ call.key = calls[c].key /\ call.copy = copy
  BY <1>1 DEF Call
<1> HIDE DEF call
<1>9. CallFits(call)
  BY <1>1, <1>4, <1>8 DEF CallFits, IsSound, Collects
<1> QED BY <1>5, <1>7, <1>9, CallStep DEF ChangeChannel, IInv, TypeOK

\* A removal that passes the lock-out check on the identity as it is now leaves a
\* sound copy.
LEMMA ChangeRemovedStep ==
  ASSUME IInv, NEW c \in Calls, ChangeRemoved(c)
  PROVE  IInv'
<1> DEFINE copy == Survivors(identity, calls[c].key)
           call == [calls[c] EXCEPT !.phase = "changed", !.copy = copy]
<1>1. calls[c] \in Call /\ CallFits(calls[c]) /\ calls[c].op \in {"unenroll", "unsubscribe"}
  BY CallOf DEF ChangeRemoved, AtIdentity
<1>2. Sound(identity) /\ IsCompletable(copy)
  BY DEF ChangeRemoved, AtIdentity, IInv, IsSound
<1>3. Sound(copy)
  BY <1>2, RemovalIsSound
<1>4. Goes(c, call)
  BY DEF ChangeRemoved
<1>5. copy \in SUBSET Record
  BY <1>3 DEF Sound
<1> HIDE DEF copy
<1>6. call \in Call
  BY <1>1, <1>5 DEF Call
<1>7. call.op = calls[c].op /\ call.key = calls[c].key /\ call.copy = copy
  BY <1>1 DEF Call
<1> HIDE DEF call
<1>8. CallFits(call)
  BY <1>1, <1>3, <1>7 DEF CallFits, IsSound, Collects
<1> QED BY <1>4, <1>6, <1>8, CallStep DEF ChangeRemoved, IInv, TypeOK

\* A delete holds no copy to write.
LEMMA ChangeDeletedStep ==
  ASSUME IInv, NEW c \in Calls, ChangeDeleted(c)
  PROVE  IInv'
<1> DEFINE call == [calls[c] EXCEPT !.phase = "changed"]
<1>1. calls[c] \in Call /\ CallFits(calls[c]) /\ calls[c].op = "delete"
  BY CallOf DEF ChangeDeleted, AtIdentity
<1>2. Goes(c, call)
  BY DEF ChangeDeleted
<1>3. call \in Call
  BY <1>1 DEF Call
<1>4. call.op = calls[c].op /\ call.key = calls[c].key /\ call.copy = calls[c].copy
  BY <1>1 DEF Call
<1> HIDE DEF call
<1>5. CallFits(call)
  BY <1>1, <1>4 DEF CallFits, Collects
<1> QED BY <1>2, <1>3, <1>5, CallStep DEF ChangeDeleted, IInv, TypeOK

\* Listing the sessions touches no record.
LEMMA ListSessionsStep ==
  ASSUME IInv, NEW c \in Calls, ListSessions(c)
  PROVE  IInv'
<1> DEFINE listed == { s \in SessionIds : sessions[s] = "live" /\ ~Keeps(calls[c], s) }
           call == [calls[c] EXCEPT !.phase = "listed", !.listed = listed]
<1>1. calls[c] \in Call /\ CallFits(calls[c]) /\ calls[c].phase = "changed"
  BY CallOf DEF ListSessions
<1>2. Goes(c, call)
  BY DEF ListSessions
<1>3. listed \in SUBSET SessionIds
  OBVIOUS
<1> HIDE DEF listed
<1>4. call \in Call
  BY <1>1, <1>3 DEF Call
<1>5. /\ call.op = calls[c].op /\ call.key = calls[c].key /\ call.copy = calls[c].copy
      /\ call.value = calls[c].value
  BY <1>1 DEF Call
<1> HIDE DEF call
<1>6. CallFits(call)
  BY <1>1, <1>5 DEF CallFits
<1> QED BY <1>2, <1>4, <1>6, CallStep DEF ListSessions, IInv, TypeOK

\* Deleting a session touches no record.
LEMMA DeleteSessionStep ==
  ASSUME IInv, NEW c \in Calls, NEW session \in SessionIds, DeleteSession(c, session)
  PROVE  IInv'
<1> DEFINE call == [calls[c] EXCEPT !.listed = @ \ {session}]
<1>1. calls[c] \in Call /\ CallFits(calls[c])
  BY CallOf DEF DeleteSession
<1>2. Goes(c, call)
  BY DEF DeleteSession
<1>3. call \in Call
  BY <1>1 DEF Call
<1>4. /\ call.op = calls[c].op /\ call.key = calls[c].key /\ call.copy = calls[c].copy
      /\ call.value = calls[c].value /\ call.phase = calls[c].phase
  BY <1>1 DEF Call
<1> HIDE DEF call
<1>5. CallFits(call)
  BY <1>1, <1>4 DEF CallFits
<1>6. sessions' \in [SessionIds -> {"new", "live", "ended"}]
  BY DEF DeleteSession, IInv, TypeOK
<1> QED BY <1>2, <1>3, <1>5, <1>6, CallStep DEF DeleteSession, IInv, TypeOK

\* The copy a call writes is sound, however old it is.
LEMMA WriteIdentityStep ==
  ASSUME IInv, NEW c \in Calls, WriteIdentity(c)
  PROVE  IInv'
<1>1. calls[c] \in Call /\ CallFits(calls[c])
  BY CallOf DEF WriteIdentity
<1>2. identity' = calls[c].copy /\ Goes(c, Idle)
  BY DEF WriteIdentity
<1>3. identity' \in (SUBSET Record) \cup {Gone} /\ IsSound(identity)'
  BY <1>1, <1>2 DEF Call, CallFits, IsSound, Sound, LinksHold, ChannelsHold, CanSignIn, KeysOf, Performable
<1>4. latest' \in [Collectable -> Values]
  <2>1. CASE calls[c].op \in Collects
    <3>1. calls[c].phase \in {"changed", "listed"}
      BY DEF WriteIdentity, AtWrite
    <3>2. calls[c].value \in Values
      BY <1>1, <2>1, <3>1 DEF CallFits
    <3> QED BY <2>1, <3>2 DEF WriteIdentity, Collected, IInv, TypeOK
  <2>2. CASE calls[c].op \notin Collects
    BY <2>2 DEF WriteIdentity, Collected, IInv, TypeOK
  <2> QED BY <2>1, <2>2
<1>5. resets' \in 0..MaxResets /\ era' \in [SessionIds -> 0..MaxResets]
  <2>1. CASE calls[c].op \in Resets
    <3>1. resets < MaxResets /\ resets' = resets + 1
      BY <2>1 DEF WriteIdentity
    <3>2. resets + 1 \in 0..MaxResets
      BY <3>1, ManagementAssumption DEF IInv, TypeOK
    <3>3. era' = [era EXCEPT ![calls[c].session] = resets + 1] \/ era' = era
      BY <2>1 DEF WriteIdentity
    <3> QED BY <3>1, <3>2, <3>3 DEF IInv, TypeOK
  <2>2. CASE calls[c].op \notin Resets
    BY <2>2 DEF WriteIdentity, IInv, TypeOK
  <2> QED BY <2>1, <2>2
<1>6. sessions' = sessions /\ issued' = issued
  BY DEF WriteIdentity
<1> QED BY <1>2, <1>3, <1>4, <1>5, <1>6, CallStep DEF IInv, TypeOK

\* The write of a sign-in puts back a sound identity it read.
LEMMA UpgradeIdentityStep ==
  ASSUME IInv, NEW c \in Calls, UpgradeIdentity(c)
  PROVE  IInv'
<1> DEFINE call == [calls[c] EXCEPT !.phase = "mint"]
<1>1. calls[c] \in Call /\ CallFits(calls[c]) /\ calls[c].op = "sign-in"
  BY CallOf DEF UpgradeIdentity
<1>2. Goes(c, call) /\ identity' = calls[c].copy
  BY DEF UpgradeIdentity
<1>3. identity' \in (SUBSET Record) \cup {Gone} /\ IsSound(identity)'
  BY <1>1, <1>2 DEF Call, CallFits, IsSound, Sound, LinksHold, ChannelsHold, CanSignIn, KeysOf, Performable
<1>4. call \in Call
  BY <1>1 DEF Call
<1>5. call.op = calls[c].op /\ call.key = calls[c].key /\ call.copy = calls[c].copy
  BY <1>1 DEF Call
<1> HIDE DEF call
<1>6. CallFits(call)
  BY <1>1, <1>5 DEF CallFits, Collects
<1> QED BY <1>2, <1>3, <1>4, <1>6, CallStep DEF UpgradeIdentity, IInv, TypeOK

\* The write of a sign-up leaves the identity as a sign-up could have left it.
LEMMA SaveIdentityStep ==
  ASSUME IInv, NEW c \in Calls, SaveIdentity(c)
  PROVE  IInv'
<1> DEFINE call == [calls[c] EXCEPT !.phase = "mint"]
<1>1. calls[c] \in Call /\ CallFits(calls[c]) /\ calls[c].op = "sign-up" /\ calls[c].phase = "changed"
  BY CallOf DEF SaveIdentity
<1>2. Goes(c, call) /\ identity' = calls[c].copy
  BY DEF SaveIdentity
<1>3. identity' \in (SUBSET Record) \cup {Gone} /\ IsSound(identity)'
  BY <1>1, <1>2 DEF Call, CallFits, IsSound, Sound, LinksHold, ChannelsHold, CanSignIn, KeysOf, Performable
<1>4. calls[c].value \in Values
  BY <1>1 DEF CallFits
<1>5. latest' \in [Collectable -> Values]
  BY <1>4 DEF SaveIdentity
<1>6. call \in Call
  BY <1>1 DEF Call
<1>7. call.op = calls[c].op /\ call.key = calls[c].key /\ call.copy = calls[c].copy /\ call.phase = "mint"
  BY <1>1 DEF Call
<1> HIDE DEF call
<1>8. CallFits(call)
  BY <1>1, <1>7 DEF CallFits, Collects
<1> QED BY <1>2, <1>3, <1>5, <1>6, <1>8, CallStep DEF SaveIdentity, IInv, TypeOK

\* The session of a sign-in touches no record.
LEMMA CreateSessionStep ==
  ASSUME IInv, NEW c \in Calls, NEW session \in SessionIds, CreateSession(c, session)
  PROVE  IInv'
<1>1. calls[c] \in Call /\ Goes(c, Idle)
  BY CallOf DEF CreateSession
<1>2. /\ sessions' \in [SessionIds -> {"new", "live", "ended"}]
      /\ era' \in [SessionIds -> 0..MaxResets]
  BY <1>1 DEF CreateSession, IInv, TypeOK, Call
<1> QED BY <1>1, <1>2, CallStep DEF CreateSession, IInv, TypeOK

\* A delete leaves no identity to be locked out of.
LEMMA DeleteIdentityStep ==
  ASSUME IInv, NEW c \in Calls, DeleteIdentity(c)
  PROVE  IInv'
<1>1. Goes(c, Idle) /\ identity' = Gone
  BY DEF DeleteIdentity
<1>2. identity' \in (SUBSET Record) \cup {Gone} /\ IsSound(identity)'
  BY <1>1 DEF IsSound
<1> QED BY <1>1, <1>2, CallStep DEF DeleteIdentity, IInv, TypeOK

\* A call that fails leaves what it wrote, and its copy is lost.
LEMMA FailStep ==
  ASSUME IInv, NEW c \in Calls, Fail(c)
  PROVE  IInv'
BY CallStep DEF Fail, IInv, TypeOK

\* Every step of every call keeps the invariant, in any interleaving.
LEMMA NextInv == IInv /\ [Next]_vars => IInv'
<1> SUFFICES ASSUME IInv, [Next]_vars PROVE IInv'
  OBVIOUS
<1>1. CASE UNCHANGED vars
  BY <1>1 DEF vars, IInv, TypeOK
<1>2. CASE Next
  BY <1>2, StartStep, SubmitStep, SubmitRecoveryStep, SubmitSignInStep, SubmitSignUpStep, ChangeValueStep,
     ChangeChannelStep, ChangeRemovedStep, ChangeDeletedStep, ListSessionsStep,
     DeleteSessionStep, WriteIdentityStep, UpgradeIdentityStep, SaveIdentityStep, CreateSessionStep,
     DeleteIdentityStep, FailStep
     DEF Next
<1> QED BY <1>1, <1>2
-----------------------------------------------------------------------------
\* The identity and every copy of it in memory stays sound.
THEOREM SoundAlways == Spec => []IInv
<1> QED BY InitInv, NextInv, PTL DEF Spec

\* The state of the identity, of the sessions and of every call under way has
\* its type.
THEOREM ManagementTyped == Spec => []TypeOK
<1>1. IInv => TypeOK
  BY DEF IInv
<1> QED BY SoundAlways, <1>1, PTL

\* No interleaving of flows, with any number of calls and replays and with calls
\* that stop half way, leaves the identity without a path it can sign in by.
THEOREM AWayInStays == Spec => []NeverLockedOut
<1>1. IInv => NeverLockedOut
  BY DEF IInv, IsSound, Sound, NeverLockedOut
<1> QED BY SoundAlways, <1>1, PTL

\* No interleaving leaves a channel or a code challenge linked to a component
\* that is not on the identity.
THEOREM LinksStayResolved == Spec => []LinksResolve
<1>1. IInv => LinksResolve
  BY DEF IInv, IsSound, Sound, LinksHold, LinksResolve
<1> QED BY SoundAlways, <1>1, PTL
-----------------------------------------------------------------------------
(* Codes reach the address.  An adapter that refuses two records under a   *)
(* key keeps the copies apart that would mix two addresses; what is left   *)
(* to show is that a change keeps each record with the address it is of.   *)

\* Each channel and code challenge is of one address: no two are sent over the same.
EmissionsAreOwn == \A a, b \in Collectable : Emits[a] \cap Emits[b] # {} => a = b

\* A record is linked to nothing but the address that emits it.
LinksFit(records) ==
  \A r \in records : \A name \in r.links : name \in Collectable /\ r.key \in Emits[name]

CodesReach(records) ==
  \A r \in records : \A name \in r.links : \A q \in records :
    (r.key \in Emits[name] /\ q.key = <<"component", name>>) => r.value = q.value

Unique(records) == \A q, r \in records : q.key = r.key => q = r

Reaches(records) == LinksFit(records) /\ (Unique(records) => CodesReach(records))

\* The writes of a sign-in and of a sign-up pass no adapter that compares keys.
CallReaches(call) ==
  call.copy # Gone => Reaches(call.copy) /\ (call.op \in Dances => Unique(call.copy))

ReachInv ==
  /\ identity # Gone => Reaches(identity) /\ Unique(identity)
  /\ \A c \in Calls : calls[c] # Idle => CallReaches(calls[c])

\* The records of an address: one under each key, all with its value, linked to it alone.
LEMMA EmittedReaches ==
  ASSUME NEW name \in Collectable, NEW value
  PROVE  /\ \A f \in Emitted(name, value) : f.value = value
         /\ \A f \in Emitted(name, value) :
              \/ f.key = <<"component", name>> /\ f.links = {}
              \/ f.key \in Emits[name] /\ f.links = {name}
         /\ Unique(Emitted(name, value))
         /\ LinksFit(Emitted(name, value))
<1> DEFINE Side(key) ==
      [ key |-> key, confirmed |-> key[1] = "channel", links |-> {name}, value |-> value ]
<1>1. Emitted(name, value) = { Own(name, value) } \cup { Side(key) : key \in Emits[name] }
  BY DEF Emitted
<1>2. <<"component", name>> \notin Emits[name]
  BY ManagementAssumption DEF Collectable
<1>3. ASSUME NEW f \in Emitted(name, value)
      PROVE  /\ f.value = value
             /\ \/ f = Own(name, value) /\ f.key = <<"component", name>> /\ f.links = {}
                \/ \E key \in Emits[name] : f = Side(key) /\ f.key = key /\ f.links = {name}
  BY <1>1 DEF Own
<1>4. Unique(Emitted(name, value))
  <2> SUFFICES ASSUME NEW q \in Emitted(name, value), NEW r \in Emitted(name, value), q.key = r.key
               PROVE  q = r
    BY DEF Unique
  <2>1. CASE q = Own(name, value)
    <3>1. q.key = <<"component", name>>
      BY <2>1 DEF Own
    <3>2. r = Own(name, value)
      BY <1>2, <1>3, <3>1
    <3> QED BY <2>1, <3>2
  <2>2. CASE q # Own(name, value)
    <3>1. PICK key \in Emits[name] : q = Side(key) /\ q.key = key
      BY <1>3, <2>2
    <3>2. PICK other \in Emits[name] : r = Side(other) /\ r.key = other
      <4>1. r.key # <<"component", name>>
        BY <1>2, <3>1
      <4> QED BY <1>3, <4>1
    <3> QED BY <3>1, <3>2
  <2> QED BY <2>1, <2>2
<1>5. LinksFit(Emitted(name, value))
  BY <1>3 DEF LinksFit
<1> QED BY <1>3, <1>4, <1>5

\* An enroll: a code of the identity stays with its address, which is there, and the
\* records of the new one are of one value; if it was there the copy holds it twice.
LEMMA EnrollReaches ==
  ASSUME NEW records, Sound(records), Reaches(records), Unique(records),
         NEW name \in Collectable, NEW value
  PROVE  Reaches(records \cup Emitted(name, value))
<1> DEFINE fresh == Emitted(name, value)
           all == records \cup fresh
<1>1. /\ \A f \in fresh : f.value = value
      /\ \A f \in fresh : \/ f.key = <<"component", name>> /\ f.links = {}
                          \/ f.key \in Emits[name] /\ f.links = {name}
      /\ LinksFit(fresh)
  BY EmittedReaches
<1>2. LinksFit(all)
  BY <1>1 DEF Reaches, LinksFit
<1>3. ASSUME Unique(all), NEW r \in all, NEW link \in r.links, NEW q \in all,
             r.key \in Emits[link], q.key = <<"component", link>>
      PROVE  r.value = q.value
  <2>1. CASE r \in records
    <3>1. PICK p \in records : p.key = <<"component", link>>
      BY <2>1 DEF Sound, LinksHold, KeysOf
    <3>2. p = q
      BY <1>3, <3>1 DEF Unique
    <3> QED BY <2>1, <3>1, <3>2, <1>3 DEF Reaches, CodesReach
  <2>2. CASE r \in fresh
    <3>1. link = name
      BY <2>2, <1>1
    <3>2. PICK own \in fresh : own.key = <<"component", name>>
      <4>1. Own(name, value) \in fresh /\ Own(name, value).key = <<"component", name>>
        BY DEF Emitted, Own
      <4> QED BY <4>1
    <3>3. q = own
      BY <1>3, <3>1, <3>2 DEF Unique
    <3> QED BY <2>2, <3>2, <3>3, <1>1
  <2> QED BY <2>1, <2>2
<1>4. Unique(all) => CodesReach(all)
  BY <1>3 DEF CodesReach
<1> QED BY <1>2, <1>4 DEF Reaches

\* A subscribe: a channel without links is no address, and is of none.
LEMMA SubscribeReaches ==
  ASSUME NEW records, Reaches(records), NEW key, key[1] = "channel", NEW value
  PROVE  Reaches(records \cup {[key |-> key, confirmed |-> TRUE, links |-> {}, value |-> value]})
<1> DEFINE new == [key |-> key, confirmed |-> TRUE, links |-> {}, value |-> value]
           all == records \cup {new}
<1>1. \A r \in all : \A link \in r.links : r \in records
  <2>1. new.links = {}
    OBVIOUS
  <2> QED BY <2>1
<1>2. \A q \in all : \A link : q.key = <<"component", link>> => q \in records
  <2>1. \A link : new.key # <<"component", link>>
    OBVIOUS
  <2> QED BY <2>1
<1>3. LinksFit(all)
  BY <1>1 DEF Reaches, LinksFit
<1>4. Unique(all) => CodesReach(all)
  <2>1. Unique(all) => Unique(records)
    BY DEF Unique
  <2>2. CodesReach(records) => CodesReach(all)
    BY <1>1, <1>2 DEF CodesReach
  <2> QED BY <2>1, <2>2 DEF Reaches
<1> QED BY <1>3, <1>4 DEF Reaches

\* A removal takes records and changes none.
LEMMA FewerReach ==
  ASSUME NEW records, Reaches(records), Unique(records), NEW left \in SUBSET records
  PROVE  Reaches(left)
BY DEF Reaches, LinksFit, Unique, CodesReach

\* What an address emits beside its channels is a code, and no address.
LEMMA SidesAreNoAddress ==
  \A a, b \in Collectable : <<"component", a>> \notin Emits[b]
<1> SUFFICES ASSUME NEW a \in Collectable, NEW b \in Collectable, <<"component", a>> \in Emits[b]
             PROVE  FALSE
  OBVIOUS
<1>1. b \in Components /\ a \in Components /\ a \notin AsksForCode
  BY DEF Collectable
<1>2. \A name \in Components, side \in Components :
        <<"component", side>> \in Emits[name] => side \in AsksForCode
  BY CodesFollowTheirAddress
<1> QED BY <1>1, <1>2

\* A reset: the records of the address leave with their codes, and what takes their
\* place has the new value; a record that stays is of an address that stays.
LEMMA ReplacementReaches ==
  ASSUME EmissionsAreOwn, NEW records, Sound(records), Reaches(records), Unique(records),
         NEW name \in Collectable, NEW value \in Values
  PROVE  Reaches(ApplyReplacement(records, Emitted(name, value)))
<1> DEFINE fresh == Emitted(name, value)
           kept  == { r \in records : r.key \notin KeysOf(fresh) }
           Past(f)   == UNION { r.links : r \in { q \in records : q.key = f.key } }
           Merged(f) == IF f.key[1] = "channel" THEN [f EXCEPT !.links = @ \cup Past(f)] ELSE f
           result == ApplyReplacement(records, fresh)
<1>1. result = kept \cup { Merged(f) : f \in fresh }
  BY DEF ApplyReplacement
<1>2. /\ \A f \in fresh : f.value = value
      /\ \A f \in fresh : \/ f.key = <<"component", name>> /\ f.links = {}
                          \/ f.key \in Emits[name] /\ f.links = {name}
      /\ fresh \in SUBSET Record
  BY EmittedReaches, EmittedRecords
<1>3. Emits[name] \subseteq KeysOf(fresh) /\ <<"component", name>> \in KeysOf(fresh)
  <2>1. ASSUME NEW key \in Emits[name] PROVE key \in KeysOf(fresh)
    <3>1. [ key |-> key, confirmed |-> key[1] = "channel", links |-> {name}, value |-> value ] \in fresh
      BY DEF Emitted
    <3> QED BY <3>1 DEF KeysOf
  <2>2. <<"component", name>> \in KeysOf(fresh)
    BY EmittedRecords
  <2> QED BY <2>1, <2>2
<1>4. ASSUME NEW f \in fresh
      PROVE  /\ Merged(f).key = f.key /\ Merged(f).value = value
             /\ \A link \in Merged(f).links : link = name /\ f.key \in Emits[name]
  <2>1. /\ Merged(f).key = f.key /\ Merged(f).value = value
        /\ Merged(f).links = f.links \/ (f.key[1] = "channel" /\ Merged(f).links = f.links \cup Past(f))
    BY <1>2 DEF Record
  <2>2. ASSUME NEW link \in Past(f), f.key[1] = "channel" PROVE link = name /\ f.key \in Emits[name]
    <3>1. PICK q \in records : q.key = f.key /\ link \in q.links
      OBVIOUS
    <3>2. link \in Collectable /\ f.key \in Emits[link]
      BY <3>1 DEF Reaches, LinksFit
    <3>3. f.key \in Emits[name]
      BY <1>2, <2>2
    <3>4. Emits[link] \cap Emits[name] # {}
      BY <3>2, <3>3
    <3> QED BY <3>2, <3>3, <3>4 DEF EmissionsAreOwn
  <2> QED BY <1>2, <2>1, <2>2
<1> HIDE DEF Merged
<1>5. LinksFit(result)
  <2> SUFFICES ASSUME NEW r \in result, NEW link \in r.links
               PROVE  link \in Collectable /\ r.key \in Emits[link]
    BY DEF LinksFit
  <2>1. CASE r \in kept
    BY <2>1 DEF Reaches, LinksFit
  <2>2. CASE r \notin kept
    <3>1. PICK f \in fresh : r = Merged(f)
      BY <2>2, <1>1
    <3> QED BY <3>1, <1>4
  <2> QED BY <2>1, <2>2
<1>6. CodesReach(result)
  <2> SUFFICES ASSUME NEW r \in result, NEW link \in r.links, NEW q \in result,
                      r.key \in Emits[link], q.key = <<"component", link>>
               PROVE  r.value = q.value
    BY DEF CodesReach
  <2>1. CASE r \notin kept
    <3>1. PICK f \in fresh : r = Merged(f)
      BY <2>1, <1>1
    <3>2. link = name /\ r.value = value
      BY <3>1, <1>4
    <3>3. q \notin kept
      BY <3>2, <1>3
    <3>4. PICK g \in fresh : q = Merged(g)
      BY <3>3, <1>1
    <3> QED BY <3>2, <3>4, <1>4
  <2>2. CASE r \in kept
    <3>1. link \in Collectable
      BY <2>2 DEF Reaches, LinksFit
    <3>2. link # name
      BY <2>2, <1>3
    <3>3. ASSUME NEW g \in fresh, q = Merged(g) PROVE FALSE
      <4>1. g.key = <<"component", link>>
        BY <3>3, <1>4
      <4>2. <<"component", link>> \in Emits[name]
        BY <4>1, <3>2, <1>2
      <4> QED BY <3>1, <4>2, SidesAreNoAddress
    <3>4. q \in kept
      BY <3>3, <1>1
    <3> QED BY <2>2, <3>4 DEF Reaches, CodesReach
  <2> QED BY <2>1, <2>2
<1> QED BY <1>5, <1>6 DEF Reaches

\* A sign-up holds one value, and no record two times.
LEMMA SignUpReaches ==
  ASSUME EmissionsAreOwn, NEW path, NEW value \in Values
  PROVE  Reaches(SignedUp(path, value)) /\ Unique(SignedUp(path, value))
<1> DEFINE all == UNION { Emitted(name, value) : name \in path \cap Collectable }
           On(r) == IF r.key[1] = "component" /\ r.key[2] \in path THEN [r EXCEPT !.confirmed = TRUE] ELSE r
           signed == SignedUp(path, value)
<1>1. signed = { On(r) : r \in all }
  BY DEF SignedUp
<1>2. ASSUME NEW e \in all
      PROVE  e.value = value /\ \E name \in path \cap Collectable :
               /\ e \in Emitted(name, value) /\ e \in Record
               /\ \/ e.key = <<"component", name>> /\ e.links = {}
                  \/ e.key \in Emits[name] /\ e.links = {name}
  <2>1. PICK name \in path \cap Collectable : e \in Emitted(name, value)
    OBVIOUS
  <2>2. \A f \in Emitted(name, value) :
          /\ f.value = value
          /\ \/ f.key = <<"component", name>> /\ f.links = {}
             \/ f.key \in Emits[name] /\ f.links = {name}
    BY EmittedReaches
  <2>3. Emitted(name, value) \in SUBSET Record
    BY EmittedRecords
  <2> HIDE DEF all
  <2> QED BY <2>1, <2>2, <2>3
<1>3. ASSUME NEW e \in all
      PROVE  On(e).key = e.key /\ On(e).links = e.links /\ On(e).value = value
  BY <1>2 DEF Record
<1> HIDE DEF all
<1>4. ASSUME NEW d \in all, NEW e \in all, d.key = e.key PROVE d = e
  <2>1. PICK a \in path \cap Collectable :
          /\ d \in Emitted(a, value)
          /\ \/ d.key = <<"component", a>> /\ d.links = {}
             \/ d.key \in Emits[a] /\ d.links = {a}
    BY <1>2
  <2>2. PICK b \in path \cap Collectable :
          /\ e \in Emitted(b, value)
          /\ \/ e.key = <<"component", b>> /\ e.links = {}
             \/ e.key \in Emits[b] /\ e.links = {b}
    BY <1>2
  <2>3. \A x, y \in Collectable : <<"component", x>> \notin Emits[y]
    BY SidesAreNoAddress
  <2>4. a = b
    <3>1. CASE d.key = <<"component", a>>
      <4>1. e.key = <<"component", b>>
        BY <1>4, <2>2, <2>3, <3>1
      <4>2. d.key[2] = a /\ e.key[2] = b
        BY <3>1, <4>1
      <4> QED BY <1>4, <4>2
    <3>2. CASE d.key \in Emits[a]
      <4>1. d.key \in Emits[b]
        BY <1>4, <2>2, <2>3, <3>2
      <4> QED BY <3>2, <4>1 DEF EmissionsAreOwn
    <3> QED BY <2>1, <3>1, <3>2
  <2> QED BY <1>4, <2>1, <2>2, <2>4, EmittedReaches DEF Unique
<1> HIDE DEF On
<1>5. Unique(signed)
  BY <1>1, <1>3, <1>4 DEF Unique
<1>6. LinksFit(signed)
  BY <1>1, <1>2, <1>3 DEF LinksFit
<1>7. CodesReach(signed)
  BY <1>1, <1>3 DEF CodesReach
<1> QED BY <1>5, <1>6, <1>7 DEF Reaches

\* What a step does to the call it is about, and to the identity, is all that matters.
LEMMA ReachStep ==
  ASSUME IInv, ReachInv, NEW c \in Calls, NEW call, Goes(c, call), call # Idle => CallReaches(call),
         identity' = identity \/ identity' = Gone \/ (Reaches(identity') /\ Unique(identity'))
  PROVE  ReachInv'
<1>1. \A d \in Calls : calls'[d] = IF d = c THEN call ELSE calls[d]
  BY DEF Goes, IInv, TypeOK
<1>2. \A d \in Calls : calls'[d] # Idle => CallReaches(calls'[d])
  BY <1>1 DEF ReachInv
<1>3. identity' # Gone => Reaches(identity') /\ Unique(identity')
  BY DEF ReachInv
<1> QED BY <1>2, <1>3 DEF ReachInv

\* A call that begins holds no copy, the identity it read, or what a sign-up holds.
LEMMA SubmitsReach ==
  ASSUME EmissionsAreOwn, IInv, ReachInv, NEW c \in Calls,
         \/ \E flow \in issued : Submit(c, flow)
         \/ \E name \in Collectable : SubmitRecovery(c, name)
         \/ SubmitSignIn(c)
         \/ \E path \in Paths, value \in Values : SubmitSignUp(c, path, value)
  PROVE  ReachInv'
<1>1. ASSUME NEW op, NEW session, NEW key, NEW phase, NEW copy
      PROVE  NewCall(op, session, key, phase, copy).copy = copy
  BY DEF NewCall
<1>2. CASE \E flow \in issued : Submit(c, flow)
  <2>1. PICK flow \in issued : Submit(c, flow)
    BY <1>2
  <2> DEFINE call == NewCall(flow.op, flow.session, flow.key, "session", Gone)
  <2>2. Goes(c, call) /\ identity' = identity
    BY <2>1 DEF Submit
  <2>3. CallReaches(call)
    BY <1>1 DEF CallReaches
  <2> HIDE DEF call
  <2> QED BY <2>2, <2>3, ReachStep
<1>3. CASE \E name \in Collectable : SubmitRecovery(c, name)
  <2>1. PICK name \in Collectable : SubmitRecovery(c, name)
    BY <1>3
  <2> DEFINE call == NewCall("recover", None, <<"component", name>>, "session", Gone)
  <2>2. Goes(c, call) /\ identity' = identity
    BY <2>1 DEF SubmitRecovery
  <2>3. CallReaches(call)
    BY <1>1 DEF CallReaches
  <2> HIDE DEF call
  <2> QED BY <2>2, <2>3, ReachStep
<1>4. CASE SubmitSignIn(c)
  <2>1. PICK phase \in {"changed", "mint"} : Goes(c, NewCall("sign-in", None, None, phase, identity))
    BY <1>4 DEF SubmitSignIn
  <2> DEFINE call == NewCall("sign-in", None, None, phase, identity)
  <2>2. Goes(c, call) /\ identity' = identity /\ identity # Gone
    BY <1>4, <2>1 DEF SubmitSignIn
  <2>3. CallReaches(call)
    BY <1>1, <2>2 DEF CallReaches, ReachInv
  <2> HIDE DEF call
  <2> QED BY <2>2, <2>3, ReachStep
<1>5. CASE \E path \in Paths, value \in Values : SubmitSignUp(c, path, value)
  <2>1. PICK path \in Paths, value \in Values : SubmitSignUp(c, path, value)
    BY <1>5
  <2> DEFINE signed == SignedUp(path, value)
             call == [NewCall("sign-up", None, None, "changed", signed) EXCEPT !.value = value]
  <2>2. Goes(c, call) /\ identity' = identity
    BY <2>1 DEF SubmitSignUp
  <2>3. call.copy = signed
    BY DEF NewCall
  <2>4. Reaches(signed) /\ Unique(signed)
    BY SignUpReaches
  <2>5. CallReaches(call)
    BY <2>3, <2>4 DEF CallReaches
  <2> HIDE DEF call
  <2> QED BY <2>2, <2>5, ReachStep
<1> QED BY <1>2, <1>3, <1>4, <1>5

\* A call that changes its copy keeps each record with its address.
LEMMA ChangesReach ==
  ASSUME EmissionsAreOwn, IInv, ReachInv, NEW c \in Calls,
         \/ \E value \in Values : ChangeValue(c, value) \/ ChangeChannel(c, value)
         \/ ChangeRemoved(c)
         \/ ChangeDeleted(c)
  PROVE  ReachInv'
<1>1. /\ calls[c] # Idle /\ calls[c] \in Call /\ CallFits(calls[c]) /\ CallReaches(calls[c])
      /\ identity # Gone /\ Sound(identity) /\ Reaches(identity) /\ Unique(identity)
      /\ identity' = identity
  BY CallOf DEF ChangeValue, ChangeChannel, ChangeRemoved, ChangeDeleted, AtIdentity, ReachInv,
                IInv, IsSound
<1>2. ASSUME NEW value \in Values, ChangeValue(c, value) PROVE ReachInv'
  <2> DEFINE name == calls[c].key[2]
             copy == IF calls[c].op = "enroll" THEN identity \cup Emitted(name, value)
                     ELSE ApplyReplacement(identity, Emitted(name, value))
             call == [calls[c] EXCEPT !.phase = "changed", !.value = value, !.copy = copy]
  <2>1. calls[c].op \in Collects /\ Goes(c, call)
    BY <1>2 DEF ChangeValue
  <2>2. name \in Collectable
    BY <1>1, <2>1 DEF CallFits, KeyFits, OwnKeys
  <2>3. Reaches(copy)
    BY <1>1, <2>2, EnrollReaches, ReplacementReaches
  <2> HIDE DEF copy
  <2>4. call.copy = copy /\ call.op \notin Dances
    BY <1>1, <2>1 DEF Call, Collects, Dances
  <2> HIDE DEF call
  <2> QED BY <1>1, <2>1, <2>3, <2>4, ReachStep DEF CallReaches
<1>3. ASSUME NEW value \in Values, ChangeChannel(c, value) PROVE ReachInv'
  <2> DEFINE copy == identity \cup
                     {[key |-> calls[c].key, confirmed |-> TRUE, links |-> {}, value |-> value]}
             call == [calls[c] EXCEPT !.phase = "changed", !.copy = copy]
  <2>1. calls[c].op = "subscribe" /\ Goes(c, call)
    BY <1>3 DEF ChangeChannel
  <2>2. calls[c].key[1] = "channel"
    BY <1>1, <2>1 DEF CallFits, KeyFits
  <2>3. Reaches(copy)
    BY <1>1, <2>2, SubscribeReaches
  <2> HIDE DEF copy
  <2>4. call.copy = copy /\ call.op \notin Dances
    BY <1>1, <2>1 DEF Call, Dances
  <2> HIDE DEF call
  <2> QED BY <1>1, <2>1, <2>3, <2>4, ReachStep DEF CallReaches
<1>4. ASSUME ChangeRemoved(c) PROVE ReachInv'
  <2> DEFINE copy == Survivors(identity, calls[c].key)
             call == [calls[c] EXCEPT !.phase = "changed", !.copy = copy]
  <2>1. calls[c].op \in {"unenroll", "unsubscribe"} /\ Goes(c, call)
    BY <1>4 DEF ChangeRemoved
  <2>2. copy \in SUBSET identity
    BY DEF Survivors
  <2>3. Reaches(copy)
    BY <1>1, <2>2, FewerReach
  <2> HIDE DEF copy
  <2>4. call.copy = copy /\ call.op \notin Dances
    BY <1>1, <2>1 DEF Call, Dances
  <2> HIDE DEF call
  <2> QED BY <1>1, <2>1, <2>3, <2>4, ReachStep DEF CallReaches
<1>5. ASSUME ChangeDeleted(c) PROVE ReachInv'
  <2> DEFINE call == [calls[c] EXCEPT !.phase = "changed"]
  <2>1. Goes(c, call)
    BY <1>5 DEF ChangeDeleted
  <2>2. call.copy = calls[c].copy /\ call.op = calls[c].op
    BY <1>1 DEF Call
  <2> HIDE DEF call
  <2> QED BY <1>1, <2>1, <2>2, ReachStep DEF CallReaches
<1> QED BY <1>2, <1>3, <1>4, <1>5

\* A call that lists or deletes sessions, or mints, keeps its copy or ends.
LEMMA SessionsReach ==
  ASSUME IInv, ReachInv, NEW c \in Calls,
         \/ ListSessions(c)
         \/ \E session \in SessionIds : DeleteSession(c, session) \/ CreateSession(c, session)
         \/ DeleteIdentity(c)
         \/ Fail(c)
  PROVE  ReachInv'
<1>1. /\ calls[c] # Idle /\ calls[c] \in Call /\ CallReaches(calls[c])
      /\ identity' = identity \/ identity' = Gone
  BY CallOf DEF ListSessions, DeleteSession, CreateSession, DeleteIdentity, Fail, ReachInv
<1>2. ASSUME Goes(c, Idle) PROVE ReachInv'
  BY <1>1, <1>2, ReachStep
<1>3. CASE ListSessions(c)
  <2> DEFINE listed == { s \in SessionIds : sessions[s] = "live" /\ ~Keeps(calls[c], s) }
             call == [calls[c] EXCEPT !.phase = "listed", !.listed = listed]
  <2>1. Goes(c, call)
    BY <1>3 DEF ListSessions
  <2> HIDE DEF listed
  <2>2. call.copy = calls[c].copy /\ call.op = calls[c].op
    BY <1>1 DEF Call
  <2> HIDE DEF call
  <2> QED BY <1>1, <2>1, <2>2, ReachStep DEF CallReaches
<1>4. ASSUME NEW session \in SessionIds, DeleteSession(c, session) PROVE ReachInv'
  <2> DEFINE call == [calls[c] EXCEPT !.listed = @ \ {session}]
  <2>1. Goes(c, call)
    BY <1>4 DEF DeleteSession
  <2>2. call.copy = calls[c].copy /\ call.op = calls[c].op
    BY <1>1 DEF Call
  <2> HIDE DEF call
  <2> QED BY <1>1, <2>1, <2>2, ReachStep DEF CallReaches
<1> QED BY <1>2, <1>3, <1>4 DEF CreateSession, DeleteIdentity, Fail

\* The copy a call writes: the adapter refused it with two records under a key, or it is
\* one that never had them.
LEMMA WritesReach ==
  ASSUME RejectsDuplicates, IInv, ReachInv, NEW c \in Calls,
         WriteIdentity(c) \/ UpgradeIdentity(c) \/ SaveIdentity(c)
  PROVE  ReachInv'
<1>1. /\ calls[c] # Idle /\ calls[c] \in Call /\ CallReaches(calls[c])
      /\ identity' = calls[c].copy
  BY CallOf DEF WriteIdentity, UpgradeIdentity, SaveIdentity, ReachInv
<1>2. CASE WriteIdentity(c)
  <2>1. Goes(c, Idle) /\ Unique(calls[c].copy)
    BY <1>2 DEF WriteIdentity, HasDuplicates, Unique
  <2> QED BY <1>1, <2>1, ReachStep DEF CallReaches
<1>3. CASE UpgradeIdentity(c) \/ SaveIdentity(c)
  <2> DEFINE call == [calls[c] EXCEPT !.phase = "mint"]
  <2>1. Goes(c, call) /\ calls[c].op \in Dances
    BY <1>3 DEF UpgradeIdentity, SaveIdentity, Dances
  <2>2. call.copy = calls[c].copy /\ call.op = calls[c].op
    BY <1>1 DEF Call
  <2> HIDE DEF call
  <2> QED BY <1>1, <2>1, <2>2, ReachStep DEF CallReaches
<1> QED BY <1>2, <1>3

\* Every record stays with its address, in the identity and in every copy.
LEMMA ReachInvariance ==
  ASSUME EmissionsAreOwn, RejectsDuplicates, IInv, ReachInv, [Next]_vars
  PROVE  ReachInv'
<1>1. CASE UNCHANGED vars \/ \E session \in SessionIds, op \in Ops, key \in Keys \cup {None} :
                               Start(session, op, key)
  <2>1. identity' = identity /\ calls' = calls
    BY <1>1 DEF vars, Start
  <2> QED BY <2>1 DEF ReachInv
<1>2. CASE \E c \in Calls :
             \/ \E flow \in issued : Submit(c, flow)
             \/ \E name \in Collectable : SubmitRecovery(c, name)
             \/ SubmitSignIn(c)
             \/ \E path \in Paths, value \in Values : SubmitSignUp(c, path, value)
  BY <1>2, SubmitsReach
<1>3. CASE \E c \in Calls :
             \/ \E value \in Values : ChangeValue(c, value) \/ ChangeChannel(c, value)
             \/ ChangeRemoved(c)
             \/ ChangeDeleted(c)
  BY <1>3, ChangesReach
<1>4. CASE \E c \in Calls :
             \/ ListSessions(c)
             \/ \E session \in SessionIds : DeleteSession(c, session) \/ CreateSession(c, session)
             \/ DeleteIdentity(c)
             \/ Fail(c)
  BY <1>4, SessionsReach
<1>5. CASE \E c \in Calls : WriteIdentity(c) \/ UpgradeIdentity(c) \/ SaveIdentity(c)
  BY <1>5, WritesReach
<1> QED BY <1>1, <1>2, <1>3, <1>4, <1>5 DEF Next

\* No code goes to an address that was replaced: in every interleaving of flows, a channel
\* and a code challenge hold the address the identity signs in with, for an adapter that
\* refuses two records under a key, and addresses that are sent over channels of their own.
THEOREM CodesKeepReachingTheAddress ==
  RejectsDuplicates /\ EmissionsAreOwn => (Spec => []CodesReachTheAddress)
<1> SUFFICES ASSUME RejectsDuplicates, EmissionsAreOwn PROVE Spec => []CodesReachTheAddress
  OBVIOUS
<1>1. Init => ReachInv
  <2> SUFFICES ASSUME Init PROVE ReachInv
    OBVIOUS
  <2>1. PICK path \in Paths, value \in Values : identity = SignedUp(path, value)
    BY DEF Init
  <2>2. Reaches(identity) /\ Unique(identity)
    BY <2>1, SignUpReaches
  <2> QED BY <2>2 DEF Init, ReachInv
<1>2. IInv /\ ReachInv /\ [Next]_vars => ReachInv'
  BY ReachInvariance
<1>3. ReachInv => CodesReachTheAddress
  BY DEF ReachInv, Reaches, CodesReach, CodesReachTheAddress
<1> QED BY <1>1, <1>2, <1>3, SoundAlways, PTL DEF Spec

-----------------------------------------------------------------------------
(* One call at a time.  What the docs say of a reset and of a delete rests *)
(* on what no other call does meanwhile; a call may still stop anywhere.   *)

\* No two calls overlap.
OneCallAtATime == \A c, d \in Calls : calls[c] # Idle /\ calls[d] # Idle => c = d

\* What getIdentity returns of a deleted identity is no identity.
GoneIsNoIdentity == Gone \notin SUBSET Record

Live == { s \in SessionIds : sessions[s] = "live" }

\* A call past its read of the identity found one, a sign-in read it after the last reset,
\* and a reset or a delete has listed every session it is to end.
EndsFits(call, stored, live, count) ==
  /\ call.op \in Dances => call.op = "sign-in" /\ call.era = count
  /\ call.phase = "mint" => call.op = "sign-in"
  /\ call.phase # "session" => stored # Gone
  /\ call.phase \in {"changed", "listed"} /\ call.op # "delete" => call.copy # Gone
  /\ call.phase = "listed" =>
       /\ call.op \in Resets \cup {"delete"}
       /\ \A s \in live : s \in call.listed \/ Keeps(call, s)

EndsInv ==
  /\ identity = Gone => Live = {}
  /\ \A s \in Live : era[s] = resets
  /\ \A c \in Calls : calls[c] # Idle => EndsFits(calls[c], identity, Live, resets)

\* The call a step is about is the only one there is.
LEMMA AloneStep ==
  ASSUME IInv, OneCallAtATime, OneCallAtATime', NEW c \in Calls, NEW call, Goes(c, call),
         calls[c] # Idle \/ call # Idle
  PROVE  \A d \in Calls : calls'[d] # Idle => d = c /\ calls'[d] = call
<1>1. \A d \in Calls : calls'[d] = IF d = c THEN call ELSE calls[d]
  BY DEF Goes, IInv, TypeOK
<1> QED BY <1>1 DEF OneCallAtATime

\* A step that leaves the identity, the sessions and the resets alone.
LEMMA EndsStep ==
  ASSUME IInv, EndsInv, OneCallAtATime, OneCallAtATime', NEW c \in Calls, NEW call, Goes(c, call),
         call # Idle => EndsFits(call, identity, Live, resets),
         UNCHANGED <<identity, sessions, resets, era>>
  PROVE  EndsInv'
<1>1. \A d \in Calls : calls'[d] # Idle => EndsFits(calls'[d], identity, Live, resets)
  <2>1. CASE calls[c] # Idle \/ call # Idle
    BY <2>1, AloneStep
  <2>2. CASE calls[c] = Idle /\ call = Idle
    <3>1. \A d \in Calls : calls'[d] = IF d = c THEN Idle ELSE calls[d]
      BY <2>2 DEF Goes, IInv, TypeOK
    <3> QED BY <3>1 DEF EndsInv
  <2> QED BY <2>1, <2>2
<1>2. Live' = Live
  BY DEF Live
<1> QED BY <1>1, <1>2 DEF EndsInv

\* A call that begins has listed nothing, and a sign-in reads an identity.
LEMMA SubmitsEnd ==
  ASSUME ~SignUpIsOpen, IInv, EndsInv, OneCallAtATime, OneCallAtATime', NEW c \in Calls,
         \/ \E flow \in issued : Submit(c, flow)
         \/ \E name \in Collectable : SubmitRecovery(c, name)
         \/ SubmitSignIn(c)
         \/ \E path \in Paths, value \in Values : SubmitSignUp(c, path, value)
  PROVE  EndsInv'
<1>1. ASSUME NEW op, NEW session, NEW key, NEW phase, NEW copy
      PROVE  /\ NewCall(op, session, key, phase, copy).op = op
             /\ NewCall(op, session, key, phase, copy).phase = phase
             /\ NewCall(op, session, key, phase, copy).copy = copy
             /\ op \in Dances => NewCall(op, session, key, phase, copy).era = resets
  BY DEF NewCall
<1>2. CASE \E flow \in issued : Submit(c, flow)
  <2>1. PICK flow \in issued : Submit(c, flow)
    BY <1>2
  <2> DEFINE call == NewCall(flow.op, flow.session, flow.key, "session", Gone)
  <2>2. Goes(c, call) /\ UNCHANGED <<identity, sessions, resets, era>>
    BY <2>1 DEF Submit
  <2>3. flow.op \in Ops
    BY DEF IInv, TypeOK, Flow
  <2>4. call.op = flow.op /\ call.phase = "session"
    BY <1>1
  <2> HIDE DEF call
  <2>5. EndsFits(call, identity, Live, resets)
    BY <2>3, <2>4 DEF EndsFits, Ops, Dances
  <2> QED BY <2>2, <2>5, EndsStep
<1>3. CASE \E name \in Collectable : SubmitRecovery(c, name)
  <2>1. PICK name \in Collectable : SubmitRecovery(c, name)
    BY <1>3
  <2> DEFINE call == NewCall("recover", None, <<"component", name>>, "session", Gone)
  <2>2. Goes(c, call) /\ UNCHANGED <<identity, sessions, resets, era>>
    BY <2>1 DEF SubmitRecovery
  <2>3. call.op = "recover" /\ call.phase = "session"
    BY <1>1
  <2> HIDE DEF call
  <2>4. EndsFits(call, identity, Live, resets)
    BY <2>3 DEF EndsFits, Dances
  <2> QED BY <2>2, <2>4, EndsStep
<1>4. CASE SubmitSignIn(c)
  <2>1. PICK phase \in {"changed", "mint"} : Goes(c, NewCall("sign-in", None, None, phase, identity))
    BY <1>4 DEF SubmitSignIn
  <2> DEFINE call == NewCall("sign-in", None, None, phase, identity)
  <2>2. Goes(c, call) /\ UNCHANGED <<identity, sessions, resets, era>> /\ identity # Gone
    BY <1>4, <2>1 DEF SubmitSignIn
  <2>3. call.op = "sign-in" /\ call.phase = phase /\ call.copy = identity /\ call.era = resets
    BY <1>1 DEF Dances
  <2> HIDE DEF call
  <2>4. EndsFits(call, identity, Live, resets)
    BY <2>2, <2>3 DEF EndsFits
  <2> QED BY <2>2, <2>4, EndsStep
<1>5. CASE \E path \in Paths, value \in Values : SubmitSignUp(c, path, value)
  BY <1>5 DEF SubmitSignUp
<1> QED BY <1>2, <1>3, <1>4, <1>5

\* A call that read the identity found one, and changes a copy of it.
LEMMA ChangesEnd ==
  ASSUME GoneIsNoIdentity, IInv, EndsInv, OneCallAtATime, OneCallAtATime', NEW c \in Calls,
         \/ \E value \in Values : ChangeValue(c, value) \/ ChangeChannel(c, value)
         \/ ChangeRemoved(c)
         \/ ChangeDeleted(c)
  PROVE  EndsInv'
<1>1. /\ calls[c] # Idle /\ calls[c] \in Call /\ CallFits(calls[c])
      /\ EndsFits(calls[c], identity, Live, resets)
      /\ calls[c].op \notin Dances /\ identity # Gone /\ Sound(identity)
      /\ UNCHANGED <<identity, sessions, resets, era>>
  BY CallOf DEF ChangeValue, ChangeChannel, ChangeRemoved, ChangeDeleted, AtIdentity, EndsInv,
                Collects, Dances, IInv, IsSound
<1> DEFINE Changed(call) ==
      /\ Goes(c, call) /\ call.op = calls[c].op /\ call.phase = "changed"
      /\ call.op # "delete" => call.copy # Gone
<1>2. \E call : Changed(call)
  <2>1. \A copy : Sound(copy) => copy # Gone
    BY DEF Sound, GoneIsNoIdentity
  <2>2. ASSUME NEW value \in Values, ChangeValue(c, value) PROVE \E call : Changed(call)
    <3> DEFINE name == calls[c].key[2]
               copy == IF calls[c].op = "enroll" THEN identity \cup Emitted(name, value)
                       ELSE ApplyReplacement(identity, Emitted(name, value))
               call == [calls[c] EXCEPT !.phase = "changed", !.value = value, !.copy = copy]
    <3>1. Goes(c, call) /\ calls[c].op \in Collects
      BY <2>2 DEF ChangeValue
    <3>2. name \in Collectable
      BY <1>1, <3>1 DEF CallFits, KeyFits, OwnKeys
    <3>3. copy # Gone
      BY <1>1, <2>1, <3>2, EnrollIsSound, ReplacementIsSound
    <3> HIDE DEF copy
    <3>4. call.op = calls[c].op /\ call.phase = "changed" /\ call.copy = copy
      BY <1>1 DEF Call
    <3> HIDE DEF call
    <3> QED BY <3>1, <3>3, <3>4
  <2>3. ASSUME NEW value \in Values, ChangeChannel(c, value) PROVE \E call : Changed(call)
    <3> DEFINE copy == identity \cup
                       {[key |-> calls[c].key, confirmed |-> TRUE, links |-> {}, value |-> value]}
               call == [calls[c] EXCEPT !.phase = "changed", !.copy = copy]
    <3>1. Goes(c, call) /\ calls[c].op = "subscribe"
      BY <2>3 DEF ChangeChannel
    <3>2. calls[c].key \in Keys /\ calls[c].key[1] = "channel"
      BY <1>1, <3>1 DEF CallFits, KeyFits
    <3>3. copy # Gone
      BY <1>1, <2>1, <3>2, SubscribeIsSound
    <3> HIDE DEF copy
    <3>4. call.op = calls[c].op /\ call.phase = "changed" /\ call.copy = copy
      BY <1>1 DEF Call
    <3> HIDE DEF call
    <3> QED BY <3>1, <3>3, <3>4
  <2>4. ASSUME ChangeRemoved(c) PROVE \E call : Changed(call)
    <3> DEFINE copy == Survivors(identity, calls[c].key)
               call == [calls[c] EXCEPT !.phase = "changed", !.copy = copy]
    <3>1. Goes(c, call) /\ IsCompletable(copy)
      BY <2>4 DEF ChangeRemoved
    <3>2. copy # Gone
      BY <1>1, <2>1, <3>1, RemovalIsSound
    <3> HIDE DEF copy
    <3>3. call.op = calls[c].op /\ call.phase = "changed" /\ call.copy = copy
      BY <1>1 DEF Call
    <3> HIDE DEF call
    <3> QED BY <3>1, <3>2, <3>3
  <2>5. ASSUME ChangeDeleted(c) PROVE \E call : Changed(call)
    <3> DEFINE call == [calls[c] EXCEPT !.phase = "changed"]
    <3>1. Goes(c, call) /\ calls[c].op = "delete"
      BY <2>5 DEF ChangeDeleted
    <3>2. call.op = calls[c].op /\ call.phase = "changed"
      BY <1>1 DEF Call
    <3> HIDE DEF call
    <3> QED BY <3>1, <3>2
  <2> QED BY <2>2, <2>3, <2>4, <2>5
<1>3. PICK call : Changed(call)
  BY <1>2
<1>4. EndsFits(call, identity, Live, resets)
  BY <1>1, <1>3 DEF EndsFits
<1> QED BY <1>1, <1>3, <1>4, EndsStep

\* A reset and a delete list all they are to end, and end one after the other.
LEMMA ListsEnd ==
  ASSUME IInv, EndsInv, OneCallAtATime, OneCallAtATime', NEW c \in Calls,
         ListSessions(c) \/ \E session \in SessionIds : DeleteSession(c, session)
  PROVE  EndsInv'
<1>1. calls[c] # Idle /\ calls[c] \in Call /\ EndsFits(calls[c], identity, Live, resets)
  BY CallOf DEF ListSessions, DeleteSession, EndsInv
<1>2. CASE ListSessions(c)
  <2> DEFINE listed == { s \in SessionIds : sessions[s] = "live" /\ ~Keeps(calls[c], s) }
             call == [calls[c] EXCEPT !.phase = "listed", !.listed = listed]
  <2>1. /\ Goes(c, call) /\ UNCHANGED <<identity, sessions, resets, era>>
        /\ calls[c].phase = "changed" /\ calls[c].op \in Resets \cup {"delete"}
    BY <1>2 DEF ListSessions
  <2>2. \A s \in Live : s \in listed \/ Keeps(calls[c], s)
    BY DEF Live
  <2> HIDE DEF listed
  <2>3. /\ call.op = calls[c].op /\ call.copy = calls[c].copy /\ call.phase = "listed"
        /\ call.session = calls[c].session /\ call.listed = listed
    BY <1>1 DEF Call
  <2> HIDE DEF call
  <2>4. EndsFits(call, identity, Live, resets)
    BY <1>1, <2>1, <2>2, <2>3 DEF EndsFits, Keeps, Resets, Dances
  <2> QED BY <2>1, <2>4, EndsStep
<1>3. ASSUME NEW session \in SessionIds, DeleteSession(c, session) PROVE EndsInv'
  <2> DEFINE call == [calls[c] EXCEPT !.listed = @ \ {session}]
  <2>1. Goes(c, call) /\ UNCHANGED <<identity, resets, era>>
    BY <1>3 DEF DeleteSession
  <2>2. Live' = Live \ {session}
    BY <1>3 DEF DeleteSession, Live, IInv, TypeOK
  <2>3. /\ call.op = calls[c].op /\ call.copy = calls[c].copy /\ call.phase = calls[c].phase
        /\ call.session = calls[c].session /\ call.listed = calls[c].listed \ {session}
        /\ call.era = calls[c].era
    BY <1>1 DEF Call
  <2> HIDE DEF call
  <2>4. EndsFits(call, identity, Live', resets)
    BY <1>1, <2>2, <2>3 DEF EndsFits, Keeps
  <2>5. \A d \in Calls : calls'[d] # Idle => EndsFits(calls'[d], identity, Live', resets)
    BY <1>1, <2>1, <2>4, AloneStep
  <2> QED BY <2>1, <2>2, <2>5 DEF EndsInv
<1> QED BY <1>2, <1>3

\* A write: a reset waited until every session it listed was gone, and the one it keeps
\* is of its own time.
LEMMA WritesEnd ==
  ASSUME IInv, EndsInv, OneCallAtATime, OneCallAtATime', NEW c \in Calls,
         WriteIdentity(c) \/ UpgradeIdentity(c) \/ SaveIdentity(c)
  PROVE  EndsInv'
<1>1. calls[c] # Idle /\ calls[c] \in Call /\ EndsFits(calls[c], identity, Live, resets)
  BY CallOf DEF WriteIdentity, UpgradeIdentity, SaveIdentity, EndsInv
<1>2. identity' = calls[c].copy /\ identity' # Gone /\ sessions' = sessions
  <2>1. calls[c].phase \in {"changed", "listed"} /\ calls[c].op # "delete"
    BY DEF WriteIdentity, UpgradeIdentity, SaveIdentity, AtWrite
  <2> QED BY <1>1, <2>1 DEF WriteIdentity, UpgradeIdentity, SaveIdentity, EndsFits
<1>3. Live' = Live /\ Live \subseteq SessionIds
  BY <1>2 DEF Live
<1>4. CASE WriteIdentity(c)
  <2>1. \A d \in Calls : calls'[d] = Idle
    <3>1. Goes(c, Idle)
      BY <1>4 DEF WriteIdentity
    <3> QED BY <1>1, <3>1, AloneStep
  <2>2. \A s \in Live : era'[s] = resets'
    <3>1. CASE calls[c].op \in Resets
      <4>1. \A s \in Live : calls[c].op = "rotate" /\ s = calls[c].session
        BY <1>1, <1>4, <3>1 DEF WriteIdentity, AtWrite, EndsFits, Keeps
      <4>2. /\ resets' = resets + 1
            /\ calls[c].op = "rotate" => era' = [era EXCEPT ![calls[c].session] = resets + 1]
        BY <1>4, <3>1 DEF WriteIdentity
      <4> QED BY <1>3, <4>1, <4>2 DEF IInv, TypeOK
    <3>2. CASE calls[c].op \notin Resets
      BY <1>4, <3>2 DEF WriteIdentity, EndsInv
    <3> QED BY <3>1, <3>2
  <2> QED BY <1>2, <1>3, <2>1, <2>2 DEF EndsInv
<1>5. CASE UpgradeIdentity(c)
  <2> DEFINE call == [calls[c] EXCEPT !.phase = "mint"]
  <2>1. Goes(c, call) /\ UNCHANGED <<sessions, resets, era>> /\ calls[c].op = "sign-in"
    BY <1>5 DEF UpgradeIdentity
  <2>2. call.op = calls[c].op /\ call.phase = "mint" /\ call.era = calls[c].era
    BY <1>1 DEF Call
  <2> HIDE DEF call
  <2>3. EndsFits(call, identity', Live, resets)
    BY <1>1, <1>2, <2>1, <2>2 DEF EndsFits
  <2>4. \A d \in Calls : calls'[d] # Idle => EndsFits(calls'[d], identity', Live, resets)
    BY <1>1, <2>1, <2>3, AloneStep
  <2> QED BY <1>2, <1>3, <2>1, <2>4 DEF EndsInv
<1>6. CASE SaveIdentity(c)
  BY <1>1, <1>6 DEF SaveIdentity, EndsFits, Dances
<1> QED BY <1>4, <1>5, <1>6

\* The session of a sign-in is of the time since the last reset, and a delete leaves none.
LEMMA SessionsEnd ==
  ASSUME IInv, EndsInv, OneCallAtATime, OneCallAtATime', NEW c \in Calls,
         \/ \E session \in SessionIds : CreateSession(c, session)
         \/ DeleteIdentity(c)
         \/ Fail(c)
  PROVE  EndsInv'
<1>1. /\ calls[c] # Idle /\ calls[c] \in Call /\ EndsFits(calls[c], identity, Live, resets)
      /\ Goes(c, Idle)
  BY CallOf DEF CreateSession, DeleteIdentity, Fail, EndsInv
<1>2. \A d \in Calls : calls'[d] = Idle
  BY <1>1, AloneStep
<1>3. ASSUME NEW session \in SessionIds, CreateSession(c, session) PROVE EndsInv'
  <2>1. identity' = identity /\ identity # Gone /\ resets' = resets /\ calls[c].era = resets
    BY <1>1, <1>3 DEF CreateSession, EndsFits, Dances
  <2>2. Live' = Live \cup {session}
    BY <1>3 DEF CreateSession, Live, IInv, TypeOK
  <2>3. \A s \in Live' : era'[s] = resets
    BY <1>3, <2>1, <2>2 DEF CreateSession, EndsInv, Live, IInv, TypeOK
  <2> QED BY <1>2, <2>1, <2>3 DEF EndsInv
<1>4. CASE DeleteIdentity(c)
  <2>1. Live = {}
    BY <1>1, <1>4 DEF DeleteIdentity, EndsFits, Keeps
  <2>2. Live' = Live
    BY <1>4 DEF DeleteIdentity, Live
  <2> QED BY <1>2, <2>1, <2>2 DEF EndsInv
<1>5. CASE Fail(c)
  <2>1. Live' = Live /\ UNCHANGED <<identity, resets, era>>
    BY <1>5 DEF Fail, Live
  <2> QED BY <1>2, <2>1 DEF EndsInv
<1> QED BY <1>3, <1>4, <1>5

\* The one call there is keeps to what it read, and leaves no session behind.
LEMMA EndsInvariance ==
  ASSUME ~SignUpIsOpen, GoneIsNoIdentity, IInv, EndsInv, OneCallAtATime, OneCallAtATime', [Next]_vars
  PROVE  EndsInv'
<1>1. CASE UNCHANGED vars \/ \E session \in SessionIds, op \in Ops, key \in Keys \cup {None} :
                               Start(session, op, key)
  <2>1. UNCHANGED <<identity, sessions, calls, resets, era>>
    BY <1>1 DEF vars, Start
  <2> QED BY <2>1 DEF EndsInv, Live
<1>2. CASE \E c \in Calls :
             \/ \E flow \in issued : Submit(c, flow)
             \/ \E name \in Collectable : SubmitRecovery(c, name)
             \/ SubmitSignIn(c)
             \/ \E path \in Paths, value \in Values : SubmitSignUp(c, path, value)
  BY <1>2, SubmitsEnd
<1>3. CASE \E c \in Calls :
             \/ \E value \in Values : ChangeValue(c, value) \/ ChangeChannel(c, value)
             \/ ChangeRemoved(c)
             \/ ChangeDeleted(c)
  BY <1>3, ChangesEnd
<1>4. CASE \E c \in Calls : ListSessions(c) \/ \E session \in SessionIds : DeleteSession(c, session)
  BY <1>4, ListsEnd
<1>5. CASE \E c \in Calls : WriteIdentity(c) \/ UpgradeIdentity(c) \/ SaveIdentity(c)
  BY <1>5, WritesEnd
<1>6. CASE \E c \in Calls :
             \/ \E session \in SessionIds : CreateSession(c, session)
             \/ DeleteIdentity(c)
             \/ Fail(c)
  BY <1>6, SessionsEnd
<1> QED BY <1>1, <1>2, <1>3, <1>4, <1>5, <1>6 DEF Next

\* A sign-up leaves one live session, of no reset.
LEMMA InitEnds ==
  ASSUME GoneIsNoIdentity, Init
  PROVE  EndsInv
<1>1. PICK path \in Paths, value \in Values :
        IsCompletable(SignedUp(path, value)) /\ identity = SignedUp(path, value)
  BY DEF Init
<1>2. identity # Gone
  BY <1>1, SignUpIsSound DEF Sound, GoneIsNoIdentity
<1> QED BY <1>2 DEF Init, EndsInv, Live

\* A reset and a delete end the sessions of the credential they take away: one call at a
\* time, and once the states of the sign-up expired, no session is left of a deleted
\* identity, and each live one is of a sign-in after the last reset, or ran that reset.
THEOREM EndsReachEverySession ==
  ~SignUpIsOpen /\ GoneIsNoIdentity => (Spec /\ []OneCallAtATime => []EndsReachTheSessions)
<1> SUFFICES ASSUME ~SignUpIsOpen, GoneIsNoIdentity PROVE Spec /\ []OneCallAtATime => []EndsReachTheSessions
  OBVIOUS
<1>1. Init => EndsInv
  BY InitEnds
<1>2. IInv /\ EndsInv /\ OneCallAtATime /\ OneCallAtATime' /\ [Next]_vars => EndsInv'
  BY EndsInvariance
<1>3. EndsInv => EndsReachTheSessions
  BY DEF EndsInv, Live, EndsReachTheSessions, NoSessionOutlivesTheIdentity, ResetEndsSessions
<1> QED BY <1>1, <1>2, <1>3, SoundAlways, PTL DEF Spec

\* The delete is final: one call at a time, no state of a flow that is submitted after it
\* brings the identity back, once the states of the sign-up expired.
THEOREM DeletesAreFinal ==
  ~SignUpIsOpen /\ GoneIsNoIdentity => (Spec /\ []OneCallAtATime => DeletedForGood)
<1> SUFFICES ASSUME ~SignUpIsOpen, GoneIsNoIdentity PROVE Spec /\ []OneCallAtATime => DeletedForGood
  OBVIOUS
<1>1. Init => EndsInv
  BY InitEnds
<1>2. IInv /\ EndsInv /\ OneCallAtATime /\ OneCallAtATime' /\ [Next]_vars => EndsInv'
  BY EndsInvariance
<1>3. EndsInv /\ [Next]_vars => [identity = Gone => identity' = Gone]_vars
  <2> SUFFICES ASSUME EndsInv, Next, identity = Gone PROVE identity' = Gone
    BY DEF vars
  <2>1. ASSUME NEW c \in Calls, calls[c] # Idle PROVE calls[c].phase = "session"
    BY <2>1 DEF EndsInv, EndsFits
  <2>2. ASSUME NEW c \in Calls PROVE ~(WriteIdentity(c) \/ UpgradeIdentity(c) \/ SaveIdentity(c))
    BY <2>1 DEF WriteIdentity, UpgradeIdentity, SaveIdentity, AtWrite
  <2> QED BY <2>2 DEF Next, Start, Submit, SubmitRecovery, SubmitSignIn, SubmitSignUp, ChangeValue,
                      ChangeChannel, ChangeRemoved, ChangeDeleted, ListSessions, DeleteSession,
                      CreateSession, DeleteIdentity, Fail
<1> QED BY <1>1, <1>2, <1>3, SoundAlways, PTL DEF Spec, DeletedForGood
-----------------------------------------------------------------------------
(* The latest credential: one call at a time, every copy in memory holds   *)
(* what the identity and the latest flow will have left when it is written.*)

HoldsValues(records, values) ==
  \A r \in records : \A name \in Collectable : r.key = <<"component", name>> => r.value = values[name]

\* The values the identity is to hold once the call wrote it.
AfterWrite(call, values) ==
  IF call.op \in Collects THEN [values EXCEPT ![call.key[2]] = call.value]
  ELSE IF call.op = "sign-up" THEN [name \in Collectable |-> call.value] ELSE values

\* A copy an enroll changed can hold its component twice: the adapter will refuse it.
ValuesFit(call, values) ==
  call.phase \in {"changed", "listed"} /\ call.op # "delete" /\ call.copy # Gone =>
    \/ call.op = "enroll" /\ ~Unique(call.copy)
    \/ HoldsValues(call.copy, AfterWrite(call, values))

ValuesInv ==
  /\ identity # Gone => HoldsValues(identity, latest)
  /\ \A c \in Calls : calls[c] # Idle => ValuesFit(calls[c], latest)

\* An enroll adds one value, when it adds no second record of its component.
LEMMA EnrollHoldsValues ==
  ASSUME NEW records, NEW values \in [Collectable -> Values], HoldsValues(records, values),
         NEW name \in Collectable, NEW value, Unique(records \cup Emitted(name, value))
  PROVE  HoldsValues(records \cup Emitted(name, value), [values EXCEPT ![name] = value])
<1> DEFINE fresh == Emitted(name, value)
<1>1. \A f \in fresh :
        /\ f.value = value
        /\ f.key = <<"component", name>> \/ f.key \in Emits[name]
  BY EmittedReaches
<1>2. PICK own \in fresh : own.key = <<"component", name>>
  <2>1. Own(name, value) \in fresh /\ Own(name, value).key = <<"component", name>>
    BY DEF Emitted, Own
  <2> QED BY <2>1
<1> SUFFICES ASSUME NEW r \in records \cup fresh, NEW a \in Collectable, r.key = <<"component", a>>
             PROVE  r.value = [values EXCEPT ![name] = value][a]
  BY DEF HoldsValues
<1>3. CASE a = name
  <2>1. r = own
    BY <1>2, <1>3 DEF Unique
  <2> QED BY <1>1, <1>3, <2>1
<1>4. CASE a # name
  <2>1. ASSUME r \in fresh PROVE FALSE
    <3>1. r.key # <<"component", name>>
      BY <1>4
    <3>2. <<"component", a>> \in Emits[name]
      BY <1>1, <2>1, <3>1
    <3> QED BY <3>2, SidesAreNoAddress
  <2> QED BY <1>4, <2>1 DEF HoldsValues
<1> QED BY <1>3, <1>4

\* A reset leaves the new value alone under the key of its component.
LEMMA ReplacementHoldsValues ==
  ASSUME NEW records, NEW values \in [Collectable -> Values], HoldsValues(records, values),
         NEW name \in Collectable, NEW value \in Values
  PROVE  HoldsValues(ApplyReplacement(records, Emitted(name, value)), [values EXCEPT ![name] = value])
<1> DEFINE fresh == Emitted(name, value)
           kept  == { r \in records : r.key \notin KeysOf(fresh) }
           Past(f)   == UNION { r.links : r \in { q \in records : q.key = f.key } }
           Merged(f) == IF f.key[1] = "channel" THEN [f EXCEPT !.links = @ \cup Past(f)] ELSE f
           result == ApplyReplacement(records, fresh)
<1>1. result = kept \cup { Merged(f) : f \in fresh }
  BY DEF ApplyReplacement
<1>2. /\ \A f \in fresh : f.value = value
      /\ \A f \in fresh : f.key = <<"component", name>> \/ f.key \in Emits[name]
      /\ fresh \in SUBSET Record /\ <<"component", name>> \in KeysOf(fresh)
  BY EmittedReaches, EmittedRecords
<1>3. ASSUME NEW f \in fresh PROVE Merged(f).key = f.key /\ Merged(f).value = value
  BY <1>2 DEF Record
<1> HIDE DEF Merged
<1> SUFFICES ASSUME NEW r \in result, NEW a \in Collectable, r.key = <<"component", a>>
             PROVE  r.value = [values EXCEPT ![name] = value][a]
  BY DEF HoldsValues
<1>4. CASE r \in kept
  <2>1. a # name
    BY <1>2, <1>4
  <2> QED BY <1>4, <2>1 DEF HoldsValues
<1>5. CASE r \notin kept
  <2>1. PICK f \in fresh : r = Merged(f)
    BY <1>1, <1>5
  <2>2. f.key = <<"component", a>> /\ r.value = value
    BY <1>3, <2>1
  <2>3. a = name
    BY <1>2, <2>2, SidesAreNoAddress
  <2> QED BY <2>2, <2>3
<1> QED BY <1>4, <1>5

\* A sign-up holds the one value it collected.
LEMMA SignUpHoldsValues ==
  ASSUME NEW path, NEW value \in Values
  PROVE  HoldsValues(SignedUp(path, value), [name \in Collectable |-> value])
<1> DEFINE all == UNION { Emitted(name, value) : name \in path \cap Collectable }
           On(r) == IF r.key[1] = "component" /\ r.key[2] \in path THEN [r EXCEPT !.confirmed = TRUE] ELSE r
<1>1. SignedUp(path, value) = { On(r) : r \in all }
  BY DEF SignedUp
<1>2. ASSUME NEW e \in all PROVE e \in Record /\ e.value = value
  <2>1. PICK name \in path \cap Collectable : e \in Emitted(name, value)
    OBVIOUS
  <2>2. \A f \in Emitted(name, value) : f.value = value
    BY EmittedReaches
  <2>3. Emitted(name, value) \in SUBSET Record
    BY EmittedRecords
  <2> HIDE DEF all
  <2> QED BY <2>1, <2>2, <2>3
<1>3. ASSUME NEW e \in all PROVE On(e).value = value
  BY <1>2 DEF Record
<1> HIDE DEF all, On
<1> QED BY <1>1, <1>3 DEF HoldsValues

\* The step of the one call there is: its copy, and the identity, keep to the values.
LEMMA ValuesStep ==
  ASSUME IInv, ValuesInv, OneCallAtATime, OneCallAtATime', NEW c \in Calls, NEW call, Goes(c, call),
         call # Idle => ValuesFit(call, latest'),
         identity' # Gone => HoldsValues(identity', latest'),
         calls[c] # Idle \/ latest' = latest
  PROVE  ValuesInv'
<1>1. CASE calls[c] # Idle \/ call # Idle
  <2>1. \A d \in Calls : calls'[d] # Idle => d = c /\ calls'[d] = call
    BY <1>1, AloneStep
  <2> QED BY <2>1 DEF ValuesInv
<1>2. CASE calls[c] = Idle /\ call = Idle
  <2>1. \A d \in Calls : calls'[d] = IF d = c THEN Idle ELSE calls[d]
    BY <1>2 DEF Goes, IInv, TypeOK
  <2> QED BY <1>2, <2>1 DEF ValuesInv
<1> QED BY <1>1, <1>2

\* A call that begins holds the identity it read, what a sign-up holds, or nothing yet.
LEMMA SubmitsHoldValues ==
  ASSUME IInv, ValuesInv, OneCallAtATime, OneCallAtATime', NEW c \in Calls,
         \/ \E flow \in issued : Submit(c, flow)
         \/ \E name \in Collectable : SubmitRecovery(c, name)
         \/ SubmitSignIn(c)
         \/ \E path \in Paths, value \in Values : SubmitSignUp(c, path, value)
  PROVE  ValuesInv'
<1>1. ASSUME NEW op, NEW session, NEW key, NEW phase, NEW copy
      PROVE  /\ NewCall(op, session, key, phase, copy).op = op
             /\ NewCall(op, session, key, phase, copy).phase = phase
             /\ NewCall(op, session, key, phase, copy).copy = copy
  BY DEF NewCall
<1>2. identity' = identity /\ latest' = latest /\ (identity' # Gone => HoldsValues(identity', latest'))
  BY DEF Submit, SubmitRecovery, SubmitSignIn, SubmitSignUp, ValuesInv
<1>3. CASE \/ \E flow \in issued : Submit(c, flow)
           \/ \E name \in Collectable : SubmitRecovery(c, name)
  <2>1. PICK op, session, key : Goes(c, NewCall(op, session, key, "session", Gone))
    BY <1>3 DEF Submit, SubmitRecovery
  <2> DEFINE call == NewCall(op, session, key, "session", Gone)
  <2>2. call.phase = "session"
    BY <1>1
  <2> HIDE DEF call
  <2>3. ValuesFit(call, latest')
    BY <2>2 DEF ValuesFit
  <2> QED BY <1>2, <2>1, <2>3, ValuesStep DEF call
<1>4. CASE SubmitSignIn(c)
  <2>1. PICK phase \in {"changed", "mint"} : Goes(c, NewCall("sign-in", None, None, phase, identity))
    BY <1>4 DEF SubmitSignIn
  <2> DEFINE call == NewCall("sign-in", None, None, phase, identity)
  <2>2. call.op = "sign-in" /\ call.copy = identity
    BY <1>1
  <2> HIDE DEF call
  <2>3. ValuesFit(call, latest')
    BY <1>2, <2>2 DEF ValuesFit, AfterWrite, Collects, ValuesInv
  <2> QED BY <1>2, <2>1, <2>3, ValuesStep DEF call
<1>5. CASE \E path \in Paths, value \in Values : SubmitSignUp(c, path, value)
  <2>1. PICK path \in Paths, value \in Values : SubmitSignUp(c, path, value)
    BY <1>5
  <2> DEFINE signed == SignedUp(path, value)
             call == [NewCall("sign-up", None, None, "changed", signed) EXCEPT !.value = value]
  <2>2. Goes(c, call)
    BY <2>1 DEF SubmitSignUp
  <2>3. call.op = "sign-up" /\ call.copy = signed /\ call.value = value
    BY DEF NewCall
  <2>4. HoldsValues(signed, [name \in Collectable |-> value])
    BY SignUpHoldsValues
  <2> HIDE DEF call, signed
  <2>5. ValuesFit(call, latest')
    BY <2>3, <2>4 DEF ValuesFit, AfterWrite, Collects
  <2> QED BY <1>2, <2>2, <2>5, ValuesStep
<1> QED BY <1>3, <1>4, <1>5

\* A call changes the copy of its component to the value it collected, and no other.
LEMMA ChangesHoldValues ==
  ASSUME IInv, ValuesInv, OneCallAtATime, OneCallAtATime', NEW c \in Calls,
         \/ \E value \in Values : ChangeValue(c, value) \/ ChangeChannel(c, value)
         \/ ChangeRemoved(c)
         \/ ChangeDeleted(c)
  PROVE  ValuesInv'
<1>1. /\ calls[c] # Idle /\ calls[c] \in Call /\ CallFits(calls[c])
      /\ identity # Gone /\ HoldsValues(identity, latest) /\ latest \in [Collectable -> Values]
      /\ identity' = identity /\ latest' = latest
  BY CallOf DEF ChangeValue, ChangeChannel, ChangeRemoved, ChangeDeleted, AtIdentity, ValuesInv,
                IInv, TypeOK
<1>2. ASSUME NEW value \in Values, ChangeValue(c, value) PROVE ValuesInv'
  <2> DEFINE name == calls[c].key[2]
             copy == IF calls[c].op = "enroll" THEN identity \cup Emitted(name, value)
                     ELSE ApplyReplacement(identity, Emitted(name, value))
             call == [calls[c] EXCEPT !.phase = "changed", !.value = value, !.copy = copy]
             after == [latest EXCEPT ![name] = value]
  <2>1. calls[c].op \in Collects /\ Goes(c, call)
    BY <1>2 DEF ChangeValue
  <2>2. name \in Collectable
    BY <1>1, <2>1 DEF CallFits, KeyFits, OwnKeys
  <2>3. (calls[c].op = "enroll" /\ ~Unique(copy)) \/ HoldsValues(copy, after)
    BY <1>1, <2>2, EnrollHoldsValues, ReplacementHoldsValues
  <2> HIDE DEF copy
  <2>4. call.copy = copy /\ call.op = calls[c].op /\ call.key = calls[c].key /\ call.value = value
    BY <1>1 DEF Call
  <2> HIDE DEF call
  <2>5. AfterWrite(call, latest') = after
    BY <1>1, <2>1, <2>4 DEF AfterWrite
  <2> HIDE DEF after
  <2>6. ValuesFit(call, latest')
    BY <2>3, <2>4, <2>5 DEF ValuesFit
  <2> QED BY <1>1, <2>1, <2>6, ValuesStep
<1>3. ASSUME NEW value \in Values, ChangeChannel(c, value) PROVE ValuesInv'
  <2> DEFINE new == [key |-> calls[c].key, confirmed |-> TRUE, links |-> {}, value |-> value]
             copy == identity \cup {new}
             call == [calls[c] EXCEPT !.phase = "changed", !.copy = copy]
  <2>1. calls[c].op = "subscribe" /\ Goes(c, call)
    BY <1>3 DEF ChangeChannel
  <2>2. calls[c].key[1] = "channel"
    BY <1>1, <2>1 DEF CallFits, KeyFits
  <2>3. \A name : new.key # <<"component", name>>
    BY <2>2
  <2> HIDE DEF new
  <2>4. HoldsValues(copy, latest)
    BY <1>1, <2>3 DEF HoldsValues
  <2> HIDE DEF copy
  <2>5. call.copy = copy /\ call.op = "subscribe"
    BY <1>1, <2>1 DEF Call
  <2>6. Goes(c, call)
    BY <2>1 DEF copy, new
  <2> HIDE DEF call
  <2>7. ValuesFit(call, latest')
    BY <1>1, <2>4, <2>5 DEF ValuesFit, AfterWrite, Collects
  <2> QED BY <1>1, <2>6, <2>7, ValuesStep
<1>4. ASSUME ChangeRemoved(c) PROVE ValuesInv'
  <2> DEFINE copy == Survivors(identity, calls[c].key)
             call == [calls[c] EXCEPT !.phase = "changed", !.copy = copy]
  <2>1. calls[c].op \in {"unenroll", "unsubscribe"} /\ Goes(c, call)
    BY <1>4 DEF ChangeRemoved
  <2>2. HoldsValues(copy, latest)
    BY <1>1 DEF Survivors, HoldsValues
  <2> HIDE DEF copy
  <2>3. call.copy = copy /\ call.op = calls[c].op
    BY <1>1 DEF Call
  <2> HIDE DEF call
  <2>4. ValuesFit(call, latest')
    BY <1>1, <2>1, <2>2, <2>3 DEF ValuesFit, AfterWrite, Collects
  <2> QED BY <1>1, <2>1, <2>4, ValuesStep
<1>5. ASSUME ChangeDeleted(c) PROVE ValuesInv'
  <2> DEFINE call == [calls[c] EXCEPT !.phase = "changed"]
  <2>1. Goes(c, call) /\ calls[c].op = "delete"
    BY <1>5 DEF ChangeDeleted
  <2>2. call.op = "delete"
    BY <1>1, <2>1 DEF Call
  <2> HIDE DEF call
  <2>3. ValuesFit(call, latest')
    BY <2>2 DEF ValuesFit
  <2> QED BY <1>1, <2>1, <2>3, ValuesStep
<1> QED BY <1>2, <1>3, <1>4, <1>5

\* A call that lists or deletes sessions, mints or ends leaves its copy and the values alone.
LEMMA SessionsHoldValues ==
  ASSUME IInv, ValuesInv, OneCallAtATime, OneCallAtATime', NEW c \in Calls,
         \/ ListSessions(c)
         \/ \E session \in SessionIds : DeleteSession(c, session) \/ CreateSession(c, session)
         \/ DeleteIdentity(c)
         \/ Fail(c)
  PROVE  ValuesInv'
<1>1. /\ calls[c] # Idle /\ calls[c] \in Call /\ ValuesFit(calls[c], latest) /\ latest' = latest
      /\ identity' # Gone => HoldsValues(identity', latest')
  BY CallOf DEF ListSessions, DeleteSession, CreateSession, DeleteIdentity, Fail, ValuesInv
<1>2. ASSUME Goes(c, Idle) PROVE ValuesInv'
  BY <1>1, <1>2, ValuesStep
<1>3. CASE ListSessions(c)
  <2> DEFINE listed == { s \in SessionIds : sessions[s] = "live" /\ ~Keeps(calls[c], s) }
             call == [calls[c] EXCEPT !.phase = "listed", !.listed = listed]
  <2>1. Goes(c, call) /\ calls[c].phase = "changed"
    BY <1>3 DEF ListSessions
  <2> HIDE DEF listed
  <2>2. /\ call.copy = calls[c].copy /\ call.op = calls[c].op
        /\ call.key = calls[c].key /\ call.value = calls[c].value
    BY <1>1 DEF Call
  <2> HIDE DEF call
  <2>3. ValuesFit(call, latest')
    BY <1>1, <2>1, <2>2 DEF ValuesFit, AfterWrite
  <2> QED BY <1>1, <2>1, <2>3, ValuesStep
<1>4. ASSUME NEW session \in SessionIds, DeleteSession(c, session) PROVE ValuesInv'
  <2> DEFINE call == [calls[c] EXCEPT !.listed = @ \ {session}]
  <2>1. Goes(c, call)
    BY <1>4 DEF DeleteSession
  <2>2. /\ call.copy = calls[c].copy /\ call.op = calls[c].op /\ call.phase = calls[c].phase
        /\ call.key = calls[c].key /\ call.value = calls[c].value
    BY <1>1 DEF Call
  <2> HIDE DEF call
  <2>3. ValuesFit(call, latest')
    BY <1>1, <2>2 DEF ValuesFit, AfterWrite
  <2> QED BY <1>1, <2>1, <2>3, ValuesStep
<1> QED BY <1>2, <1>3, <1>4 DEF CreateSession, DeleteIdentity, Fail

\* A write: the adapter refused a copy that holds a component twice, and what any other
\* copy holds is what the call leaves as the latest.
LEMMA WritesHoldValues ==
  ASSUME RejectsDuplicates, IInv, ValuesInv, OneCallAtATime, OneCallAtATime', NEW c \in Calls,
         WriteIdentity(c) \/ UpgradeIdentity(c) \/ SaveIdentity(c)
  PROVE  ValuesInv'
<1>1. /\ calls[c] # Idle /\ calls[c] \in Call /\ ValuesFit(calls[c], latest)
      /\ identity' = calls[c].copy
      /\ calls[c].phase \in {"changed", "listed"} /\ calls[c].op # "delete"
  BY CallOf DEF WriteIdentity, UpgradeIdentity, SaveIdentity, AtWrite, ValuesInv
<1>2. CASE WriteIdentity(c)
  <2>1. Goes(c, Idle) /\ Unique(calls[c].copy)
    BY <1>2 DEF WriteIdentity, HasDuplicates, Unique
  <2>2. latest' = AfterWrite(calls[c], latest)
    BY <1>2 DEF WriteIdentity, Collected, AfterWrite, Dances
  <2> QED BY <1>1, <2>1, <2>2, ValuesStep DEF ValuesFit
<1>3. CASE UpgradeIdentity(c) \/ SaveIdentity(c)
  <2> DEFINE call == [calls[c] EXCEPT !.phase = "mint"]
  <2>1. Goes(c, call)
    BY <1>3 DEF UpgradeIdentity, SaveIdentity
  <2>2. latest' = AfterWrite(calls[c], latest) /\ calls[c].op # "enroll"
    BY <1>3 DEF UpgradeIdentity, SaveIdentity, AfterWrite, Collects
  <2>3. call.phase = "mint"
    BY <1>1 DEF Call
  <2> HIDE DEF call
  <2>4. ValuesFit(call, latest')
    BY <2>3 DEF ValuesFit
  <2> QED BY <1>1, <2>1, <2>2, <2>4, ValuesStep DEF ValuesFit
<1> QED BY <1>2, <1>3

\* The identity and every copy keep to the values the flows collected.
LEMMA ValuesInvariance ==
  ASSUME RejectsDuplicates, IInv, ValuesInv, OneCallAtATime, OneCallAtATime', [Next]_vars
  PROVE  ValuesInv'
<1>1. CASE UNCHANGED vars \/ \E session \in SessionIds, op \in Ops, key \in Keys \cup {None} :
                               Start(session, op, key)
  <2>1. UNCHANGED <<identity, calls, latest>>
    BY <1>1 DEF vars, Start
  <2> QED BY <2>1 DEF ValuesInv
<1>2. CASE \E c \in Calls :
             \/ \E flow \in issued : Submit(c, flow)
             \/ \E name \in Collectable : SubmitRecovery(c, name)
             \/ SubmitSignIn(c)
             \/ \E path \in Paths, value \in Values : SubmitSignUp(c, path, value)
  BY <1>2, SubmitsHoldValues
<1>3. CASE \E c \in Calls :
             \/ \E value \in Values : ChangeValue(c, value) \/ ChangeChannel(c, value)
             \/ ChangeRemoved(c)
             \/ ChangeDeleted(c)
  BY <1>3, ChangesHoldValues
<1>4. CASE \E c \in Calls :
             \/ ListSessions(c)
             \/ \E session \in SessionIds : DeleteSession(c, session) \/ CreateSession(c, session)
             \/ DeleteIdentity(c)
             \/ Fail(c)
  BY <1>4, SessionsHoldValues
<1>5. CASE \E c \in Calls : WriteIdentity(c) \/ UpgradeIdentity(c) \/ SaveIdentity(c)
  BY <1>5, WritesHoldValues
<1> QED BY <1>1, <1>2, <1>3, <1>4, <1>5 DEF Next

\* No write brings back a credential that was replaced, nor loses the new one: one call at
\* a time, for an adapter that refuses two records under a key, the identity holds the
\* value the last completed flow collected, also with the states of the sign-up about.
THEOREM LatestCredentialIsHeld ==
  RejectsDuplicates => (Spec /\ []OneCallAtATime => []LatestCredential)
<1> SUFFICES ASSUME RejectsDuplicates PROVE Spec /\ []OneCallAtATime => []LatestCredential
  OBVIOUS
<1>1. Init => ValuesInv
  <2> SUFFICES ASSUME Init PROVE ValuesInv
    OBVIOUS
  <2>1. PICK path \in Paths, value \in Values :
          identity = SignedUp(path, value) /\ latest = [name \in Collectable |-> value]
    BY DEF Init
  <2>2. HoldsValues(identity, latest)
    BY <2>1, SignUpHoldsValues
  <2> QED BY <2>2 DEF Init, ValuesInv
<1>2. IInv /\ ValuesInv /\ OneCallAtATime /\ OneCallAtATime' /\ [Next]_vars => ValuesInv'
  BY ValuesInvariance
<1>3. ValuesInv => LatestCredential
  BY DEF ValuesInv, HoldsValues, LatestCredential
<1> QED BY <1>1, <1>2, <1>3, SoundAlways, PTL DEF Spec

-----------------------------------------------------------------------------
LEMMA CardinalityOfFlows == \A S : F!Cardinality(S) = Cardinality(S)
BY DEF F!Cardinality, Cardinality

\* The places of a list are ranked from one on, without a gap.
LEMMA RanksFit ==
  ASSUME NEW L \in Nat, NEW places, places \subseteq 1..L
  PROVE  /\ IsFiniteSet(places) /\ Cardinality(places) \in Nat
         /\ \A n \in places : F!Rank(n, places) \in 1..Cardinality(places)
         /\ \A m, n \in places : m < n => F!Rank(m, places) < F!Rank(n, places)
         /\ \A k \in 1..Cardinality(places) : \E n \in places : F!Rank(n, places) = k
<1> DEFINE UpTo(n) == { m \in places : m <= n }
           rank == [n \in places |-> Cardinality(UpTo(n))]
<1>1. IsFiniteSet(places) /\ Cardinality(places) \in Nat
  <2>1. IsFiniteSet(1..L)
    BY FS_Interval
  <2> QED BY <2>1, FS_Subset, FS_CardinalityType
<1>2. \A n : F!Rank(n, places) = Cardinality(UpTo(n))
  BY CardinalityOfFlows DEF F!Rank
<1>3. ASSUME NEW n \in places PROVE Cardinality(UpTo(n)) \in 1..Cardinality(places)
  <2>1. UpTo(n) \subseteq places /\ n \in UpTo(n)
    BY <1>3
  <2>2. IsFiniteSet(UpTo(n)) /\ Cardinality(UpTo(n)) <= Cardinality(places) /\ Cardinality(UpTo(n)) \in Nat
    BY <1>1, <2>1, FS_Subset, FS_CardinalityType
  <2>3. Cardinality(UpTo(n)) # 0
    BY <2>1, <2>2, FS_EmptySet
  <2> QED BY <2>2, <2>3
<1>4. ASSUME NEW m \in places, NEW n \in places, m < n PROVE Cardinality(UpTo(m)) < Cardinality(UpTo(n))
  <2>1. m \in Nat /\ n \in Nat /\ places \subseteq Nat
    OBVIOUS
  <2>2. UpTo(m) \subseteq UpTo(n) /\ n \in UpTo(n) /\ n \notin UpTo(m)
    <3>1. \A x \in places : x <= m => x <= n
      BY <1>4, <2>1
    <3>2. n <= n /\ ~(n <= m)
      BY <1>4, <2>1
    <3> QED BY <3>1, <3>2
  <2>3. IsFiniteSet(UpTo(n)) /\ IsFiniteSet(UpTo(m))
    BY <1>1, FS_Subset
  <2>4. UpTo(m) # UpTo(n)
    BY <2>2
  <2>5. Cardinality(UpTo(m)) \in Nat /\ Cardinality(UpTo(n)) \in Nat
    BY <2>3, FS_CardinalityType
  <2> HIDE DEF UpTo
  <2>6. Cardinality(UpTo(m)) <= Cardinality(UpTo(n)) /\ (Cardinality(UpTo(m)) = Cardinality(UpTo(n)) => UpTo(m) = UpTo(n))
    BY <2>2, <2>3, FS_Subset
  <2> QED BY <2>4, <2>5, <2>6
<1>5. rank \in Injection(places, 1..Cardinality(places))
  <2>1. rank \in [places -> 1..Cardinality(places)]
    BY <1>3
  <2>2. ASSUME NEW m \in places, NEW n \in places, m # n PROVE rank[m] # rank[n]
    <3>1. m \in Nat /\ n \in Nat /\ (m < n \/ n < m)
      BY <2>2
    <3>2. rank[m] < rank[n] \/ rank[n] < rank[m]
      BY <1>4, <3>1
    <3>3. rank[m] \in Nat /\ rank[n] \in Nat
      BY <2>1, <1>1
    <3> HIDE DEF rank
    <3> QED BY <3>2, <3>3
  <2> HIDE DEF rank
  <2> QED BY <2>1, <2>2 DEF Injection, IsInjective
<1>6. IsFiniteSet(1..Cardinality(places)) /\ Cardinality(1..Cardinality(places)) = Cardinality(places)
  BY <1>1, FS_Interval
<1>7. rank \in Surjection(places, 1..Cardinality(places))
  <2> HIDE DEF rank
  <2> QED BY <1>5, <1>6, FS_Injection
<1>8. ASSUME NEW k \in 1..Cardinality(places) PROVE \E n \in places : rank[n] = k
  <2> HIDE DEF rank
  <2> QED BY <1>7 DEF Surjection
<1> QED BY <1>1, <1>2, <1>3, <1>4, <1>8
-----------------------------------------------------------------------------
\* A filtered list holds the members at its places, in their order.
LEMMA ChosenMembers ==
  ASSUME NEW S, NEW list \in Seq(S), NEW places, places \subseteq DOMAIN list
  PROVE  /\ F!Chosen(list, places) \in Seq(S)
         /\ Len(F!Chosen(list, places)) = Cardinality(places)
         /\ \A k \in 1..Cardinality(places) :
              \E n \in places : F!Rank(n, places) = k /\ F!Chosen(list, places)[k] = list[n]
         /\ \A n \in places : F!Chosen(list, places)[F!Rank(n, places)] = list[n]
<1> DEFINE size == Cardinality(places)
           at(k) == CHOOSE n \in places : F!Rank(n, places) = k
<1>1. Len(list) \in Nat /\ DOMAIN list = 1..Len(list) /\ \A n \in DOMAIN list : list[n] \in S
  OBVIOUS
<1>2. places \subseteq 1..Len(list)
  BY <1>1
<1>3. size \in Nat /\ \A n \in places : F!Rank(n, places) \in 1..size
  BY <1>1, <1>2, RanksFit
<1>4. \A k \in 1..size : at(k) \in places /\ F!Rank(at(k), places) = k
  <2>1. \A k \in 1..size : \E n \in places : F!Rank(n, places) = k
    BY <1>1, <1>2, RanksFit
  <2> QED BY <2>1
<1>5. ASSUME NEW m \in places, NEW n \in places, F!Rank(m, places) = F!Rank(n, places) PROVE m = n
  <2>1. (m < n => F!Rank(m, places) < F!Rank(n, places)) /\ (n < m => F!Rank(n, places) < F!Rank(m, places))
    BY <1>1, <1>2, RanksFit
  <2>2. m \in Nat /\ n \in Nat /\ F!Rank(m, places) \in Nat
    BY <1>1, <1>2, <1>3
  <2> QED BY <1>5, <2>1, <2>2
<1>6. F!Chosen(list, places) = [k \in 1..size |-> list[at(k)]]
  BY CardinalityOfFlows DEF F!Chosen
<1> HIDE DEF size, at
<1>7. \A k \in 1..size : list[at(k)] \in S
  BY <1>1, <1>4
<1>8. F!Chosen(list, places) \in Seq(S) /\ Len(F!Chosen(list, places)) = size
  BY <1>3, <1>6, <1>7
<1>9. \A n \in places : at(F!Rank(n, places)) = n
  BY <1>3, <1>4, <1>5
<1>10. \A k \in 1..size : F!Chosen(list, places)[k] = list[at(k)]
  BY <1>6
<1> QED BY <1>3, <1>4, <1>8, <1>9, <1>10 DEF size

\* A place that follows all the others adds its member at the end.
LEMMA ChosenAppends ==
  ASSUME NEW list \in Seq(F!Record), NEW other \in Seq(F!Record), NEW places \in SUBSET DOMAIN list,
         NEW last \in DOMAIN other, \A n \in places : n < last /\ n \in DOMAIN other /\ other[n] = list[n],
         NEW more \in SUBSET DOMAIN other, more = places \cup {last}
  PROVE  F!Chosen(other, more) = Append(F!Chosen(list, places), other[last])
<1> DEFINE size == Cardinality(places)
<1>1. /\ Len(list) \in Nat /\ DOMAIN list = 1..Len(list) /\ Len(other) \in Nat /\ DOMAIN other = 1..Len(other)
      /\ last \in Nat /\ last \notin places /\ more \subseteq DOMAIN other /\ places \subseteq DOMAIN list
  OBVIOUS
<1>2. IsFiniteSet(places) /\ size \in Nat /\ Cardinality(more) = size + 1
  <2>1. IsFiniteSet(places) /\ size \in Nat
    BY <1>1, RanksFit
  <2> QED BY <1>1, <2>1, FS_AddElement
<1>3. F!Rank(last, more) = size + 1
  <2>1. \A n \in places : n <= last
    BY <1>1
  <2>2. { m \in more : m <= last } = more
    BY <1>1, <2>1
  <2> QED BY <1>2, <2>2, CardinalityOfFlows DEF F!Rank
<1>4. ASSUME NEW n \in places PROVE F!Rank(n, more) = F!Rank(n, places)
  <2>1. n \in Nat /\ n < last /\ ~(last <= n)
    BY <1>1
  <2>2. { m \in more : m <= n } = { m \in places : m <= n }
    BY <2>1
  <2> QED BY <2>2 DEF F!Rank
<1> DEFINE longer == F!Chosen(other, more)
           shorter == F!Chosen(list, places)
<1>5. /\ longer \in Seq(F!Record) /\ Len(longer) = size + 1
      /\ \A n \in more : longer[F!Rank(n, more)] = other[n]
  <2>1. /\ longer \in Seq(F!Record) /\ Len(longer) = Cardinality(more)
        /\ \A n \in more : longer[F!Rank(n, more)] = other[n]
    <3>1. ASSUME NEW p \in SUBSET DOMAIN other
          PROVE  /\ F!Chosen(other, p) \in Seq(F!Record) /\ Len(F!Chosen(other, p)) = Cardinality(p)
                 /\ \A n \in p : F!Chosen(other, p)[F!Rank(n, p)] = other[n]
      BY ChosenMembers
    <3> QED BY <3>1
  <2> QED BY <1>2, <2>1
<1>6. /\ shorter \in Seq(F!Record) /\ Len(shorter) = size
      /\ \A k \in 1..size : \E n \in places : F!Rank(n, places) = k /\ shorter[k] = list[n]
  BY <1>1, <1>2, ChosenMembers
<1> HIDE DEF longer, shorter, size
<1>7. longer[size + 1] = other[last]
  BY <1>3, <1>5
<1>8. ASSUME NEW k \in 1..size PROVE longer[k] = shorter[k]
  <2>1. PICK n \in places : F!Rank(n, places) = k /\ shorter[k] = list[n]
    BY <1>6
  <2> QED BY <1>4, <1>5, <2>1
<1>9. /\ Append(shorter, other[last]) \in Seq(F!Record) /\ Len(Append(shorter, other[last])) = size + 1
      /\ Append(shorter, other[last])[size + 1] = other[last]
      /\ \A k \in 1..size : Append(shorter, other[last])[k] = shorter[k]
  BY <1>1, <1>2, <1>6
<1>10. \A k \in 1..(size + 1) : longer[k] = Append(shorter, other[last])[k]
  <2>1. \A k \in 1..(size + 1) : k \in 1..size \/ k = size + 1
    BY <1>2
  <2> QED BY <1>7, <1>8, <1>9, <2>1
<1>11. longer = Append(shorter, other[last])
  BY <1>5, <1>9, <1>10, SeqEqual
<1> QED BY <1>11 DEF longer, shorter

\* The same members at the same places make the same list.
LEMMA ChosenStay ==
  ASSUME NEW list, NEW other, NEW places, \A n \in places : other[n] = list[n], NEW L \in Nat, places \subseteq 1..L
  PROVE  F!Chosen(other, places) = F!Chosen(list, places)
<1> DEFINE at(k) == CHOOSE n \in places : F!Rank(n, places) = k
<1>1. \A k \in 1..Cardinality(places) : at(k) \in places
  <2>1. \A k \in 1..Cardinality(places) : \E n \in places : F!Rank(n, places) = k
    BY RanksFit
  <2> QED BY <2>1
<1>2. /\ F!Chosen(other, places) = [k \in 1..Cardinality(places) |-> other[at(k)]]
      /\ F!Chosen(list, places) = [k \in 1..Cardinality(places) |-> list[at(k)]]
  BY CardinalityOfFlows DEF F!Chosen
<1> HIDE DEF at
<1>3. \A k \in 1..Cardinality(places) : other[at(k)] = list[at(k)]
  BY <1>1
<1> QED BY <1>2, <1>3

\* A set of places has a first one, and the last of a filtered list stands at the last one.
LEMMA FirstIsFirst ==
  ASSUME NEW L \in Nat, NEW places, places \subseteq 1..L, places # {}
  PROVE  F!First(places) \in places /\ \A m \in places : F!First(places) <= m
<1>1. \E n \in places : \A m \in places : n <= m
  <2>1. IsFiniteSet(places) /\ Cardinality(places) \in Nat
    BY RanksFit
  <2>2. Cardinality(places) # 0
    BY <2>1, FS_EmptySet
  <2>3. PICK n \in places : F!Rank(n, places) = 1
    <3>1. 1 \in 1..Cardinality(places)
      BY <2>1, <2>2
    <3> QED BY <3>1, RanksFit
  <2>4. ASSUME NEW m \in places, m < n PROVE FALSE
    <3>1. F!Rank(m, places) < F!Rank(n, places) /\ F!Rank(m, places) \in 1..Cardinality(places)
      BY <2>4, RanksFit
    <3> QED BY <2>1, <2>3, <3>1
  <2>5. \A m \in places : m \in Nat /\ n \in Nat
    OBVIOUS
  <2> QED BY <2>4, <2>5
<1> QED BY <1>1 DEF F!First

LEMMA LastIsLast ==
  ASSUME NEW L \in Nat, NEW places, places \subseteq 1..L, NEW n \in places,
         F!Rank(n, places) = Cardinality(places)
  PROVE  \A m \in places : m <= n
<1>1. ASSUME NEW m \in places, n < m PROVE FALSE
  <2>1. /\ F!Rank(n, places) < F!Rank(m, places) /\ F!Rank(m, places) \in 1..Cardinality(places)
        /\ Cardinality(places) \in Nat
    BY <1>1, RanksFit
  <2> QED BY <2>1
<1>2. \A m \in places : m \in Nat /\ n \in Nat
  OBVIOUS
<1> QED BY <1>1, <1>2
-----------------------------------------------------------------------------
(***************************************************************************)
(* The flows before their last write (Flows), for any components, values,  *)
(* states and identities, and any policy a sign-up can go through.  What a *)
(* flow writes depends on what its state has collected: the argument is    *)
(* about every state the server handed out, for any of them may be sent.   *)
(***************************************************************************)

Identifies(records, n) == n \in DOMAIN records /\ records[n].kind = "identification"
IsChannel(records, n) == n \in DOMAIN records /\ records[n].kind = "channel"

\* The places of the records that a sign-up counts as steps.
WalkedAt(records) == { n \in DOMAIN records : records[n].kind # "channel" /\ records[n].confirmed }

\* An address brings its channel and its code, of one value, and comes one time.
AddressFits(records, n) ==
  /\ records[n].name \in F!Addresses
  /\ n + 2 \in DOMAIN records
  /\ records[n + 1].kind = "channel" /\ records[n + 1].name = FlowChannelOf[records[n].name]
  /\ records[n + 1].value = records[n].value
  /\ records[n + 2].kind = "challenge" /\ records[n + 2].name = FlowChallengeOf[records[n].name]
  /\ records[n + 2].value = records[n].value
  /\ \A m \in DOMAIN records : Identifies(records, m) /\ records[m].name = records[n].name => m = n

\* A challenge is a secret, which counts at once, or the code of the address before it.
ChallengeFits(records, n) ==
  /\ records[n].name \in FlowNames \ F!Addresses
  /\ \/ FlowKindOf[records[n].name] = "secret" /\ records[n].confirmed
     \/ FlowKindOf[records[n].name] = "code" /\ n - 2 \in DOMAIN records /\ Identifies(records, n - 2)

GroupsFit(records) ==
  \A n \in DOMAIN records :
    /\ Identifies(records, n) => AddressFits(records, n)
    /\ IsChannel(records, n) => n - 1 \in DOMAIN records /\ Identifies(records, n - 1)
    /\ records[n].kind = "challenge" => ChallengeFits(records, n)

\* An identity with one channel two times is never stored.
ChannelTwice(records) ==
  \E m, n \in DOMAIN records :
    m # n /\ IsChannel(records, m) /\ IsChannel(records, n) /\ records[m].name = records[n].name

\* An address that waits for its proof is the step that goes on, and comes last.
WaitingFits(records) ==
  LET path == F!SignUpPath(records) IN
  \A n \in DOMAIN records : Identifies(records, n) /\ ~records[n].confirmed =>
    /\ records[n].name \in F!Offered(path)
    /\ \A m \in WalkedAt(records) : m < n
    /\ \A name \in F!Offered(path) : F!Holds(records, name) => name = records[n].name

ProvenFit(records) ==
  \/ ChannelTwice(records)
  \/ \A n \in DOMAIN records : Identifies(records, n) /\ records[n].confirmed => records[n].value \in Reads

SignUpFits(records) ==
  /\ GroupsFit(records) /\ F!Offered(F!SignUpPath(records)) # {}
  /\ WaitingFits(records) /\ ProvenFit(records)

\* A flow of one component has collected nothing yet, or its one address.
OneFits(s) ==
  /\ s.name \in FlowNames /\ FlowKindOf[s.name] # "code"
  /\ \/ s.records = <<>>
     \/ FlowKindOf[s.name] = "address" /\ \E value \in Recipients : s.records = F!Collected(s.name, value)

\* Who rotates an address that was there reads it, once the old one is proven.
RotateFits(s) ==
  /\ OneFits(s) /\ F!Holds(identities[Home], s.name)
  /\ IF s.checked
     THEN FlowKindOf[s.name] = "address" =>
       \A n \in DOMAIN identities[Home] :
         Identifies(identities[Home], n) /\ identities[Home][n].name = s.name => identities[Home][n].value \in Reads
     ELSE FlowKindOf[s.name] = "address" /\ s.records = <<>>

SubscribeFits(s) ==
  /\ s.name \in FlowChannels
  /\ IF s.checked THEN \E value \in Recipients : s.records = << F!Pending(s.name, value) >> ELSE s.records = <<>>

StateFits(s) ==
  /\ s \in F!State /\ s.id \in started
  /\ CASE s.kind = "sign-up" -> SignUpFits(s.records)
       [] s.kind = "enroll" -> OneFits(s)
       [] s.kind = "rotate" -> RotateFits(s)
       [] s.kind = "subscribe" -> SubscribeFits(s)

CodesTyped == waiting \in [States \X (FlowNames \cup FlowChannels) -> Recipients \cup {NoRecipient}]

FlowsTyped ==
  /\ identities = [id \in States \cup {Home} |-> identities[id]]
  /\ \A id \in States : identities[id] # NoRecords => identities[id] \in Seq(F!Record)
  /\ CodesTyped

\* What the identity of the session holds was there at the start, or is proven.
HomeIsProven ==
  \A n \in DOMAIN identities[Home] : LET record == identities[Home][n] IN
    \/ record.value \in Reads
    \/ \E m \in DOMAIN began : began[m] = record
    \/ record.kind = "challenge" /\ record.name \in FlowNames /\ FlowKindOf[record.name] = "secret"

FlowsInv ==
  /\ FlowsTyped /\ \A s \in states : StateFits(s)
  /\ F!Stored(identities[Home]) /\ HomeIsProven
  /\ F!AddressesAreProven /\ F!SignUpsAreWhole
-----------------------------------------------------------------------------
LEMMA FlowConstants ==
  /\ Home \notin States /\ FlowKindOf \in [FlowNames -> {"address", "secret", "code"}]
  /\ \A name \in FlowNames : FlowKindOf[name] # "secret" => FlowChannelOf[name] \in FlowChannels
  /\ \A name \in F!Addresses :
       /\ name \in FlowNames /\ FlowKindOf[name] = "address"
       /\ FlowChallengeOf[name] \in FlowNames /\ FlowKindOf[FlowChallengeOf[name]] = "code"
       /\ FlowChallengeOf[name] \notin F!Addresses
  /\ FlowPaths \subseteq Seq(FlowNames) /\ Reads \subseteq Recipients
BY FlowsFit DEF F!FlowsAssumption, F!Addresses

LEMMA PrefixIs ==
  ASSUME NEW S, NEW s \in Seq(S), NEW t \in Seq(S)
  PROVE  F!IsPrefix(s, t) <=> Len(s) <= Len(t) /\ \A n \in 1..Len(s) : s[n] = t[n]
<1>1. SubSeq(s, 1, Len(s)) = s
  OBVIOUS
<1>2. SUFFICES ASSUME Len(s) <= Len(t)
               PROVE  SubSeq(s, 1, Len(s)) = SubSeq(t, 1, Len(s)) <=> \A n \in 1..Len(s) : s[n] = t[n]
  BY DEF F!IsPrefix
<1>3. /\ SubSeq(t, 1, Len(s)) \in Seq(S) /\ Len(SubSeq(t, 1, Len(s))) = Len(s)
      /\ \A n \in 1..Len(s) : SubSeq(t, 1, Len(s))[n] = t[n]
  BY <1>2
<1>4. (\A n \in 1..Len(s) : s[n] = t[n]) => s = SubSeq(t, 1, Len(s))
  BY <1>3, SeqEqual
<1> QED BY <1>1, <1>3, <1>4

\* A step that is offered is the next one of a path.
LEMMA OfferedIs ==
  ASSUME NEW path \in Seq(FlowNames), NEW name \in F!Offered(path)
  PROVE  /\ ~F!IsOver(path) /\ name \in FlowNames
         /\ \E whole \in FlowPaths :
              /\ whole \in Seq(FlowNames) /\ Len(path) < Len(whole) /\ whole[Len(path) + 1] = name
              /\ \A n \in DOMAIN path : n \in DOMAIN whole /\ path[n] = whole[n]
<1>1. /\ ~F!IsOver(path)
      /\ \E whole \in FlowPaths : F!IsStrictPrefix(path, whole) /\ whole[Len(path) + 1] = name
  BY DEF F!Offered
<1>2. PICK whole \in FlowPaths : F!IsStrictPrefix(path, whole) /\ whole[Len(path) + 1] = name
  BY <1>1
<1>3. whole \in Seq(FlowNames)
  BY FlowConstants
<1>4. Len(path) <= Len(whole) /\ (\A n \in 1..Len(path) : path[n] = whole[n]) /\ path # whole
  BY <1>2, <1>3, PrefixIs DEF F!IsStrictPrefix
<1>5. Len(path) # Len(whole)
  BY <1>3, <1>4, SeqEqual
<1>6. Len(path) < Len(whole) /\ Len(path) + 1 \in DOMAIN whole /\ DOMAIN path = 1..Len(path)
  BY <1>3, <1>4, <1>5
<1>7. name \in FlowNames /\ \A n \in DOMAIN path : n \in DOMAIN whole
  BY <1>2, <1>3, <1>6
<1> QED BY <1>1, <1>2, <1>3, <1>4, <1>6, <1>7

LEMMA OverIs ==
  ASSUME NEW path \in Seq(FlowNames), F!IsOver(path)
  PROVE  \E complete \in FlowPaths : \A n \in DOMAIN complete : n \in DOMAIN path /\ complete[n] = path[n]
<1>1. PICK complete \in FlowPaths : F!IsPrefix(complete, path)
  BY DEF F!IsOver
<1>2. complete \in Seq(FlowNames)
  BY FlowConstants
<1>3. Len(complete) <= Len(path) /\ \A n \in 1..Len(complete) : complete[n] = path[n]
  BY <1>1, <1>2, PrefixIs
<1> QED BY <1>2, <1>3

\* No step is offered again.
LEMMA OfferedIsNew ==
  ASSUME NEW path \in Seq(FlowNames), NEW name \in F!Offered(path), NEW n \in DOMAIN path
  PROVE  path[n] # name
<1>1. PICK whole \in FlowPaths :
        /\ whole \in Seq(FlowNames) /\ Len(path) < Len(whole) /\ whole[Len(path) + 1] = name
        /\ \A m \in DOMAIN path : m \in DOMAIN whole /\ path[m] = whole[m]
  BY OfferedIs
<1>2. Len(path) + 1 \in DOMAIN whole /\ n \in DOMAIN whole /\ n # Len(path) + 1
  BY <1>1
<1>3. whole[n] # whole[Len(path) + 1]
  BY <1>2, FlowsFit DEF F!PathsGoThrough
<1> QED BY <1>1, <1>3

\* A code is offered after its address.
LEMMA CodesFollow ==
  ASSUME NEW path \in Seq(FlowNames), NEW name \in F!Offered(path), FlowKindOf[name] = "code"
  PROVE  /\ \E m \in DOMAIN path : path[m] \in F!Addresses /\ FlowChallengeOf[path[m]] = name
         /\ F!Offered(Append(path, name)) # {} =>
              /\ Len(path) \in DOMAIN path
              /\ \A m \in DOMAIN path :
                   path[m] \in F!Addresses /\ FlowChallengeOf[path[m]] = name => m = Len(path)
<1>1. ASSUME NEW longer \in Seq(FlowNames), NEW next \in F!Offered(longer), Len(longer) \in {Len(path), Len(path) + 1},
             NEW whole \in FlowPaths, whole \in Seq(FlowNames), Len(longer) < Len(whole),
             whole[Len(path) + 1] = name,
             \A m \in DOMAIN path : m \in DOMAIN whole /\ path[m] = whole[m]
      PROVE  \E m \in DOMAIN path :
               /\ path[m] \in F!Addresses /\ FlowChallengeOf[path[m]] = name
               /\ Len(longer) = Len(path) + 1 => m = Len(path)
               /\ \A k \in DOMAIN path : path[k] \in F!Addresses /\ FlowChallengeOf[path[k]] = name => k = m
  <2>1. Len(path) + 1 \in DOMAIN whole
    BY <1>1
  <2>2. FlowKindOf[whole[Len(path) + 1]] = "code"
    BY <1>1
  <2>3. PICK m \in 1..(Len(path) + 1 - 1) :
          /\ whole[m] \in F!Addresses /\ FlowChallengeOf[whole[m]] = whole[Len(path) + 1]
          /\ Len(path) + 1 \in {m + 1, Len(whole)}
    BY <2>1, <2>2, FlowsFit DEF F!PathsGoThrough
  <2>4. m \in DOMAIN path /\ path[m] \in F!Addresses /\ FlowChallengeOf[path[m]] = name
    BY <1>1, <2>3
  <2>5. Len(longer) = Len(path) + 1 => m = Len(path)
    BY <1>1, <2>3
  <2>6. ASSUME NEW k \in DOMAIN path, path[k] \in F!Addresses, FlowChallengeOf[path[k]] = name PROVE k = m
    <3>1. k \in DOMAIN whole /\ m \in DOMAIN whole /\ whole[k] = path[k] /\ whole[m] = path[m]
      BY <1>1, <2>4
    <3> QED BY <2>4, <2>6, <3>1, FlowsFit DEF F!PathsGoThrough
  <2> QED BY <2>4, <2>5, <2>6
<1>2. \E m \in DOMAIN path : path[m] \in F!Addresses /\ FlowChallengeOf[path[m]] = name
  <2>1. PICK whole \in FlowPaths :
          /\ whole \in Seq(FlowNames) /\ Len(path) < Len(whole) /\ whole[Len(path) + 1] = name
          /\ \A m \in DOMAIN path : m \in DOMAIN whole /\ path[m] = whole[m]
    BY OfferedIs
  <2> QED BY <1>1, <2>1
<1>3. ASSUME F!Offered(Append(path, name)) # {}
      PROVE  /\ Len(path) \in DOMAIN path
             /\ \A m \in DOMAIN path :
                  path[m] \in F!Addresses /\ FlowChallengeOf[path[m]] = name => m = Len(path)
  <2> DEFINE longer == Append(path, name)
  <2>1. PICK next : next \in F!Offered(longer)
    BY <1>3
  <2>2. name \in FlowNames
    BY OfferedIs
  <2>3. /\ longer \in Seq(FlowNames) /\ Len(longer) = Len(path) + 1 /\ longer[Len(path) + 1] = name
        /\ \A m \in DOMAIN path : m \in DOMAIN longer /\ longer[m] = path[m]
        /\ Len(path) + 1 \in DOMAIN longer
    BY <2>2
  <2> HIDE DEF longer
  <2>4. PICK whole \in FlowPaths :
          /\ whole \in Seq(FlowNames) /\ Len(longer) < Len(whole) /\ whole[Len(longer) + 1] = next
          /\ \A m \in DOMAIN longer : m \in DOMAIN whole /\ longer[m] = whole[m]
    BY <2>1, <2>3, OfferedIs
  <2>5. whole[Len(path) + 1] = name /\ \A m \in DOMAIN path : m \in DOMAIN whole /\ path[m] = whole[m]
    BY <2>3, <2>4
  <2>6. \E m \in DOMAIN path :
          /\ path[m] \in F!Addresses /\ FlowChallengeOf[path[m]] = name
          /\ Len(longer) = Len(path) + 1 => m = Len(path)
          /\ \A k \in DOMAIN path : path[k] \in F!Addresses /\ FlowChallengeOf[path[k]] = name => k = m
    BY <1>1, <2>1, <2>3, <2>4, <2>5
  <2> QED BY <2>3, <2>6
<1> QED BY <1>2, <1>3
-----------------------------------------------------------------------------
LEMMA CollectedIs ==
  /\ \A name \in F!Addresses, value \in Recipients :
       /\ F!Collected(name, value) \in Seq(F!Record) /\ Len(F!Collected(name, value)) = 3
       /\ F!Collected(name, value)[1] = F!Entry("identification", name, value, FALSE)
       /\ F!Collected(name, value)[2] = F!Entry("channel", FlowChannelOf[name], value, TRUE)
       /\ F!Collected(name, value)[3] = F!Entry("challenge", FlowChallengeOf[name], value, FALSE)
  /\ \A name \in FlowNames, value \in Recipients : FlowKindOf[name] = "secret" =>
       /\ F!Collected(name, value) = << F!Entry("challenge", name, value, FALSE) >>
       /\ F!Entry("challenge", name, value, FALSE) \in F!Record
<1>1. ASSUME NEW name \in F!Addresses, NEW value \in Recipients
      PROVE  /\ F!Collected(name, value) \in Seq(F!Record) /\ Len(F!Collected(name, value)) = 3
             /\ F!Collected(name, value)[1] = F!Entry("identification", name, value, FALSE)
             /\ F!Collected(name, value)[2] = F!Entry("channel", FlowChannelOf[name], value, TRUE)
             /\ F!Collected(name, value)[3] = F!Entry("challenge", FlowChallengeOf[name], value, FALSE)
  <2>1. /\ name \in FlowNames /\ FlowKindOf[name] = "address" /\ FlowChallengeOf[name] \in FlowNames
        /\ FlowChannelOf[name] \in FlowChannels
    BY FlowConstants
  <2>2. /\ F!Entry("identification", name, value, FALSE) \in F!Record
        /\ F!Entry("channel", FlowChannelOf[name], value, TRUE) \in F!Record
        /\ F!Entry("challenge", FlowChallengeOf[name], value, FALSE) \in F!Record
    BY <2>1 DEF F!Entry, F!Record
  <2>3. F!Collected(name, value) =
          << F!Entry("identification", name, value, FALSE), F!Entry("channel", FlowChannelOf[name], value, TRUE),
             F!Entry("challenge", FlowChallengeOf[name], value, FALSE) >>
    BY <2>1 DEF F!Collected
  <2>4. \A a, b, c \in F!Record :
          << a, b, c >> \in Seq(F!Record) /\ Len(<< a, b, c >>) = 3
          /\ << a, b, c >>[1] = a /\ << a, b, c >>[2] = b /\ << a, b, c >>[3] = c
    OBVIOUS
  <2> DEFINE a == F!Entry("identification", name, value, FALSE)
             b == F!Entry("channel", FlowChannelOf[name], value, TRUE)
             c == F!Entry("challenge", FlowChallengeOf[name], value, FALSE)
  <2>5. a \in F!Record /\ b \in F!Record /\ c \in F!Record /\ F!Collected(name, value) = << a, b, c >>
    BY <2>2, <2>3
  <2> HIDE DEF a, b, c
  <2>6. /\ F!Collected(name, value) \in Seq(F!Record) /\ Len(F!Collected(name, value)) = 3
        /\ F!Collected(name, value)[1] = a /\ F!Collected(name, value)[2] = b /\ F!Collected(name, value)[3] = c
    BY <2>4, <2>5
  <2> QED BY <2>6 DEF a, b, c
<1>2. ASSUME NEW name \in FlowNames, NEW value \in Recipients, FlowKindOf[name] = "secret"
      PROVE  /\ F!Collected(name, value) = << F!Entry("challenge", name, value, FALSE) >>
             /\ F!Entry("challenge", name, value, FALSE) \in F!Record
  BY <1>2 DEF F!Collected, F!Entry, F!Record
<1> QED BY <1>1, <1>2

\* The path of a sign-up has the names of the records that are walked, in their order.
LEMMA WalkIs ==
  ASSUME NEW records \in Seq(F!Record), \A n \in WalkedAt(records) : records[n].name \in FlowNames
  PROVE  LET path == F!SignUpPath(records) IN
         /\ path \in Seq(FlowNames) /\ Len(path) = Cardinality(WalkedAt(records))
         /\ \A k \in DOMAIN path : \E n \in WalkedAt(records) :
              F!Rank(n, WalkedAt(records)) = k /\ path[k] = records[n].name
         /\ \A n \in WalkedAt(records) :
              LET k == F!Rank(n, WalkedAt(records)) IN k \in DOMAIN path /\ path[k] = records[n].name
<1> DEFINE path == F!SignUpPath(records)
           places == WalkedAt(records)
           own == F!Chosen(records, places)
<1>1. places \subseteq DOMAIN records /\ Len(records) \in Nat /\ places \subseteq 1..Len(records)
  BY DEF WalkedAt
<1>2. path = [n \in DOMAIN own |-> own[n].name]
  BY DEF F!SignUpPath, WalkedAt
<1>3. Cardinality(places) \in Nat /\ \A n \in places : F!Rank(n, places) \in 1..Cardinality(places)
  BY <1>1, RanksFit
<1>4. /\ own \in Seq(F!Record) /\ Len(own) = Cardinality(places)
      /\ \A k \in 1..Cardinality(places) : \E n \in places : F!Rank(n, places) = k /\ own[k] = records[n]
      /\ \A n \in places : own[F!Rank(n, places)] = records[n]
  <2> HIDE DEF places
  <2> QED BY <1>1, ChosenMembers
<1>5. \A n \in places : records[n].name \in FlowNames
  OBVIOUS
<1> HIDE DEF path, places, own
<1>6. DOMAIN own = 1..Cardinality(places)
  BY <1>4
<1>7. \A k \in 1..Cardinality(places) : own[k].name \in FlowNames
  BY <1>4, <1>5
<1>8. path \in Seq(FlowNames) /\ Len(path) = Cardinality(places) /\ DOMAIN path = 1..Cardinality(places)
  BY <1>2, <1>3, <1>6, <1>7
<1>9. \A k \in DOMAIN path : path[k] = own[k].name
  BY <1>2, <1>6, <1>8
<1>10. \A k \in DOMAIN path : \E n \in places : F!Rank(n, places) = k /\ path[k] = records[n].name
  BY <1>4, <1>8, <1>9
<1>11. \A n \in places : F!Rank(n, places) \in DOMAIN path /\ path[F!Rank(n, places)] = records[n].name
  BY <1>3, <1>4, <1>8, <1>9
<1> QED BY <1>8, <1>10, <1>11 DEF path, places

LEMMA WalkStays ==
  ASSUME NEW records \in Seq(F!Record), NEW other, WalkedAt(other) = WalkedAt(records),
         \A n \in WalkedAt(records) : other[n] = records[n]
  PROVE  F!SignUpPath(other) = F!SignUpPath(records)
<1>1. Len(records) \in Nat /\ WalkedAt(records) \subseteq 1..Len(records)
  BY DEF WalkedAt
<1>2. F!Chosen(other, WalkedAt(records)) = F!Chosen(records, WalkedAt(records))
  BY <1>1, ChosenStay
<1>3. \A list : F!SignUpPath(list) = LET own == F!Chosen(list, WalkedAt(list)) IN [n \in DOMAIN own |-> own[n].name]
  BY DEF F!SignUpPath, WalkedAt
<1> QED BY <1>2, <1>3

\* A record that is confirmed behind all that are walked goes on along the path.
LEMMA WalkGoesOn ==
  ASSUME NEW records \in Seq(F!Record), NEW other \in Seq(F!Record), NEW last \in DOMAIN other,
         WalkedAt(other) = WalkedAt(records) \cup {last},
         \A n \in WalkedAt(records) : n < last /\ n \in DOMAIN other /\ other[n] = records[n]
  PROVE  F!SignUpPath(other) = Append(F!SignUpPath(records), other[last].name)
<1>1. WalkedAt(records) \subseteq DOMAIN records
  BY DEF WalkedAt
<1>2. F!Chosen(other, WalkedAt(other)) = Append(F!Chosen(records, WalkedAt(records)), other[last])
  <2>1. WalkedAt(records) \in SUBSET DOMAIN records /\ WalkedAt(other) \in SUBSET DOMAIN other
    BY DEF WalkedAt
  <2> QED BY <2>1, ChosenAppends
<1> DEFINE shorter == F!Chosen(records, WalkedAt(records))
           longer == F!Chosen(other, WalkedAt(other))
<1>a. longer = Append(shorter, other[last])
  BY <1>2
<1>3. shorter \in Seq(F!Record) /\ other[last] \in F!Record
  BY <1>1, ChosenMembers
<1>4. \A list : F!SignUpPath(list) = LET own == F!Chosen(list, WalkedAt(list)) IN [n \in DOMAIN own |-> own[n].name]
  BY DEF F!SignUpPath, WalkedAt
<1> DEFINE first == [n \in DOMAIN shorter |-> shorter[n].name]
           second == [n \in DOMAIN longer |-> longer[n].name]
<1>5. F!SignUpPath(records) = first /\ F!SignUpPath(other) = second
  BY <1>4
<1> HIDE DEF shorter, longer
<1>6. /\ Len(shorter) \in Nat /\ DOMAIN shorter = 1..Len(shorter)
      /\ longer \in Seq(F!Record) /\ Len(longer) = Len(shorter) + 1 /\ DOMAIN longer = 1..(Len(shorter) + 1)
      /\ longer[Len(shorter) + 1] = other[last] /\ \A n \in 1..Len(shorter) : longer[n] = shorter[n]
  BY <1>3, <1>a
<1> DEFINE Name == { r.name : r \in F!Record }
<1>7. (\A n \in 1..Len(shorter) : shorter[n].name \in Name) /\ (\A n \in 1..(Len(shorter) + 1) : longer[n].name \in Name)
      /\ other[last].name \in Name
  <2>1. \A n \in 1..Len(shorter) : shorter[n] \in F!Record
    BY <1>3
  <2>2. \A n \in 1..(Len(shorter) + 1) : longer[n] \in F!Record
    BY <1>6
  <2> QED BY <1>3, <2>1, <2>2
<1> HIDE DEF Name
<1>8. /\ first \in Seq(Name) /\ Len(first) = Len(shorter) /\ \A n \in 1..Len(shorter) : first[n] = shorter[n].name
      /\ second \in Seq(Name) /\ Len(second) = Len(shorter) + 1
      /\ \A n \in 1..(Len(shorter) + 1) : second[n] = longer[n].name
  BY <1>6, <1>7
<1> HIDE DEF first, second
<1>9. second = Append(first, other[last].name)
  <2>1. /\ Append(first, other[last].name) \in Seq(Name) /\ Len(Append(first, other[last].name)) = Len(shorter) + 1
        /\ Append(first, other[last].name)[Len(shorter) + 1] = other[last].name
        /\ \A n \in 1..Len(shorter) : Append(first, other[last].name)[n] = first[n]
    BY <1>7, <1>8
  <2>2. \A n \in 1..(Len(shorter) + 1) : n \in 1..Len(shorter) \/ n = Len(shorter) + 1
    BY <1>6
  <2>3. \A n \in 1..(Len(shorter) + 1) : second[n] = Append(first, other[last].name)[n]
    BY <1>6, <1>8, <2>1, <2>2
  <2> QED BY <1>8, <2>1, <2>3, SeqEqual
<1> QED BY <1>5, <1>9

\* The first record of a component becomes confirmed, and no other changes.
LEMMA ConfirmIs ==
  ASSUME NEW records \in Seq(F!Record), NEW name, F!Holds(records, name)
  PROVE  \E first \in DOMAIN records :
           /\ F!IsOf(records[first], name)
           /\ \A n \in DOMAIN records : F!IsOf(records[n], name) => first <= n
           /\ F!Confirm(records, name) = [records EXCEPT ![first] = [records[first] EXCEPT !.confirmed = TRUE]]
           /\ F!Confirm(records, name) \in Seq(F!Record)
           /\ DOMAIN F!Confirm(records, name) = DOMAIN records
           /\ F!Confirm(records, name)[first] = [records[first] EXCEPT !.confirmed = TRUE]
           /\ \A n \in DOMAIN records \ {first} : F!Confirm(records, name)[n] = records[n]
<1> DEFINE places == { n \in DOMAIN records : F!IsOf(records[n], name) }
           first == F!First(places)
<1>1. Len(records) \in Nat /\ DOMAIN records = 1..Len(records) /\ places \subseteq 1..Len(records) /\ places # {}
  BY DEF F!Holds
<1>2. first \in places /\ \A n \in places : first <= n
  <2> HIDE DEF places
  <2> QED BY <1>1, FirstIsFirst
<1>3. F!Confirm(records, name) = [records EXCEPT ![first].confirmed = TRUE]
  BY DEF F!Confirm
<1>4. first \in DOMAIN records /\ F!IsOf(records[first], name) /\ \A n \in DOMAIN records : F!IsOf(records[n], name) => first <= n
  BY <1>2
<1> HIDE DEF places, first
<1>5. records[first] \in F!Record /\ [records[first] EXCEPT !.confirmed = TRUE] \in F!Record
  <2>1. records[first] \in F!Record
    BY <1>4
  <2>2. \A r \in F!Record : [r EXCEPT !.confirmed = TRUE] \in F!Record
    BY DEF F!Record
  <2> QED BY <2>1, <2>2
<1>6. F!Confirm(records, name) = [records EXCEPT ![first] = [records[first] EXCEPT !.confirmed = TRUE]]
  BY <1>3
<1> DEFINE proven == [records[first] EXCEPT !.confirmed = TRUE]
           after == [records EXCEPT ![first] = proven]
<1>7. proven \in F!Record
  BY <1>5
<1> HIDE DEF proven
<1>8. /\ after \in Seq(F!Record) /\ DOMAIN after = DOMAIN records /\ after[first] = proven
      /\ \A n \in DOMAIN records \ {first} : after[n] = records[n]
  BY <1>1, <1>4, <1>7
<1>9. F!Confirm(records, name) = after
  BY <1>6 DEF proven
<1> HIDE DEF after
<1>10. /\ F!Confirm(records, name) = [records EXCEPT ![first] = proven]
       /\ F!Confirm(records, name) \in Seq(F!Record) /\ DOMAIN F!Confirm(records, name) = DOMAIN records
       /\ F!Confirm(records, name)[first] = proven
       /\ \A n \in DOMAIN records \ {first} : F!Confirm(records, name)[n] = records[n]
  BY <1>8, <1>9 DEF after
<1> QED BY <1>4, <1>10 DEF proven
-----------------------------------------------------------------------------
LEMMA WalkedNames ==
  ASSUME NEW records \in Seq(F!Record), GroupsFit(records)
  PROVE  /\ \A n \in DOMAIN records : records[n].kind \in {"identification", "challenge", "channel"}
         /\ \A n \in WalkedAt(records) : n \in DOMAIN records /\ records[n].name \in FlowNames
<1>1. \A n \in DOMAIN records : records[n] \in F!Record
  OBVIOUS
<1>2. \A n \in DOMAIN records : records[n].kind \in {"identification", "challenge", "channel"}
  BY <1>1 DEF F!Record
<1>3. ASSUME NEW n \in WalkedAt(records) PROVE n \in DOMAIN records /\ records[n].name \in FlowNames
  <2>1. n \in DOMAIN records /\ records[n].kind # "channel"
    BY DEF WalkedAt
  <2>2. CASE records[n].kind = "identification"
    BY <2>1, <2>2, FlowConstants DEF GroupsFit, Identifies, AddressFits
  <2>3. CASE records[n].kind = "challenge"
    BY <2>1, <2>3 DEF GroupsFit, ChallengeFits
  <2> QED BY <1>2, <2>1, <2>2, <2>3
<1> QED BY <1>2, <1>3

\* The path is of names, and has those of the records that are walked.
LEMMA PathOf ==
  ASSUME NEW records \in Seq(F!Record), GroupsFit(records)
  PROVE  LET path == F!SignUpPath(records) IN
         /\ path \in Seq(FlowNames) /\ Len(path) = Cardinality(WalkedAt(records))
         /\ \A k \in DOMAIN path : \E n \in WalkedAt(records) : path[k] = records[n].name
         /\ \A n \in WalkedAt(records) :
              LET k == F!Rank(n, WalkedAt(records)) IN k \in DOMAIN path /\ path[k] = records[n].name
<1>1. \A n \in WalkedAt(records) : records[n].name \in FlowNames
  BY WalkedNames
<1> QED BY <1>1, WalkIs

\* Of a step that is offered the state holds no record, or one that waits.
LEMMA OfferedWaits ==
  ASSUME NEW records \in Seq(F!Record), GroupsFit(records), NEW name \in F!Offered(F!SignUpPath(records)),
         F!Holds(records, name)
  PROVE  \A n \in DOMAIN records : F!IsOf(records[n], name) => ~records[n].confirmed
<1> SUFFICES ASSUME NEW n \in DOMAIN records, F!IsOf(records[n], name), records[n].confirmed PROVE FALSE
  OBVIOUS
<1>1. n \in WalkedAt(records) /\ records[n].name = name
  BY DEF F!IsOf, WalkedAt
<1> DEFINE path == F!SignUpPath(records)
           k == F!Rank(n, WalkedAt(records))
<1>2. path \in Seq(FlowNames) /\ k \in DOMAIN path /\ path[k] = name
  BY <1>1, PathOf
<1> HIDE DEF path, k
<1>3. name \in F!Offered(path)
  BY DEF path
<1> QED BY <1>2, <1>3, OfferedIsNew

\* The code of a step that is offered came with an address that is walked, the last one if the
\* path goes on after it.
LEMMA CodeIsHeld ==
  ASSUME NEW records \in Seq(F!Record), GroupsFit(records), NEW name \in F!Offered(F!SignUpPath(records)),
         FlowKindOf[name] = "code"
  PROVE  /\ F!Holds(records, name)
         /\ F!Offered(Append(F!SignUpPath(records), name)) # {} =>
              \A n \in DOMAIN records :
                Identifies(records, n) /\ records[n].confirmed /\ FlowChallengeOf[records[n].name] = name
                  => \A m \in WalkedAt(records) : m <= n
<1> DEFINE path == F!SignUpPath(records)
           places == WalkedAt(records)
<1>1. /\ path \in Seq(FlowNames) /\ Len(path) = Cardinality(places) /\ name \in F!Offered(path)
      /\ \A k \in DOMAIN path : \E n \in places : path[k] = records[n].name
      /\ \A n \in places : F!Rank(n, places) \in DOMAIN path /\ path[F!Rank(n, places)] = records[n].name
  BY PathOf
<1>2. places \subseteq DOMAIN records /\ Len(records) \in Nat /\ DOMAIN records = 1..Len(records)
  BY DEF WalkedAt
<1>3. \A n \in places : records[n].kind # "channel"
  BY DEF WalkedAt
<1>4. \A n \in DOMAIN records : Identifies(records, n) /\ records[n].confirmed => n \in places
  BY DEF WalkedAt, Identifies
<1> HIDE DEF path, places
<1>5. /\ \E m \in DOMAIN path : path[m] \in F!Addresses /\ FlowChallengeOf[path[m]] = name
      /\ F!Offered(Append(path, name)) # {} =>
           \A m \in DOMAIN path :
             path[m] \in F!Addresses /\ FlowChallengeOf[path[m]] = name => m = Len(path)
  BY <1>1, CodesFollow
<1>6. F!Holds(records, name)
  <2>1. PICK n \in places : records[n].name \in F!Addresses /\ FlowChallengeOf[records[n].name] = name
    BY <1>1, <1>5
  <2>2. Identifies(records, n)
    BY <1>2, <1>3, <2>1, WalkedNames DEF GroupsFit, ChallengeFits, Identifies
  <2>3. n + 2 \in DOMAIN records /\ records[n + 2].kind = "challenge" /\ records[n + 2].name = name
    BY <1>2, <2>1, <2>2 DEF GroupsFit, AddressFits
  <2> QED BY <2>3 DEF F!Holds, F!IsOf
<1>7. ASSUME F!Offered(Append(path, name)) # {}, NEW n \in DOMAIN records,
             Identifies(records, n), records[n].confirmed, FlowChallengeOf[records[n].name] = name
      PROVE  \A m \in places : m <= n
  <2>1. n \in places /\ records[n].name \in F!Addresses
    BY <1>4, <1>7 DEF GroupsFit, AddressFits
  <2>2. F!Rank(n, places) \in DOMAIN path /\ path[F!Rank(n, places)] = records[n].name
    BY <1>1, <2>1
  <2>3. F!Rank(n, places) = Len(path)
    BY <1>5, <1>7, <2>1, <2>2
  <2> QED BY <1>1, <1>2, <2>1, <2>3, LastIsLast
<1> QED BY <1>6, <1>7 DEF path, places

\* Before a step is collected no address waits, and no step that is offered is held.
LEMMA NothingWaits ==
  ASSUME NEW records \in Seq(F!Record), SignUpFits(records),
         \A name \in F!Offered(F!SignUpPath(records)) : ~F!IsPending(records, name)
  PROVE  /\ \A n \in DOMAIN records : Identifies(records, n) => records[n].confirmed
         /\ \A name \in F!Offered(F!SignUpPath(records)) : ~F!Holds(records, name)
<1>1. ASSUME NEW n \in DOMAIN records, Identifies(records, n), ~records[n].confirmed PROVE FALSE
  <2>1. records[n].name \in F!Offered(F!SignUpPath(records))
    BY <1>1 DEF SignUpFits, WaitingFits
  <2>2. F!IsPending(records, records[n].name)
    BY <1>1 DEF F!IsPending, F!IsOf, Identifies
  <2> QED BY <2>1, <2>2
<1>2. ASSUME NEW name \in F!Offered(F!SignUpPath(records)), F!Holds(records, name) PROVE FALSE
  <2>1. \A n \in DOMAIN records : F!IsOf(records[n], name) => ~records[n].confirmed
    BY <1>2, OfferedWaits DEF SignUpFits
  <2> QED BY <1>2, <2>1 DEF F!Holds, F!IsPending
<1> QED BY <1>1, <1>2

\* A list whose records differ in nothing but their proof has the same groups.
LEMMA GroupsStay ==
  ASSUME NEW records \in Seq(F!Record), NEW other \in Seq(F!Record), GroupsFit(records),
         DOMAIN other = DOMAIN records,
         \A n \in DOMAIN records :
           /\ other[n].kind = records[n].kind /\ other[n].name = records[n].name /\ other[n].value = records[n].value
           /\ records[n].confirmed => other[n].confirmed
  PROVE  GroupsFit(other) /\ (ChannelTwice(other) <=> ChannelTwice(records))
<1>1. \A n : Identifies(other, n) <=> Identifies(records, n)
  BY DEF Identifies
<1>2. \A n : IsChannel(other, n) <=> IsChannel(records, n)
  BY DEF IsChannel
<1>3. ChannelTwice(other) <=> ChannelTwice(records)
  BY <1>2 DEF ChannelTwice
<1>4. DOMAIN records = 1..Len(records) /\ Len(records) \in Nat
  OBVIOUS
<1>5. ASSUME NEW n \in DOMAIN records
      PROVE  /\ Identifies(other, n) => AddressFits(other, n)
             /\ IsChannel(other, n) => n - 1 \in DOMAIN other /\ Identifies(other, n - 1)
             /\ other[n].kind = "challenge" => ChallengeFits(other, n)
  <2>1. Identifies(other, n) => AddressFits(other, n)
    <3> SUFFICES ASSUME Identifies(records, n) PROVE AddressFits(other, n)
      BY <1>1
    <3>1. AddressFits(records, n)
      BY DEF GroupsFit
    <3>2. n + 2 \in DOMAIN records /\ n + 1 \in DOMAIN records
      BY <1>4, <3>1 DEF AddressFits
    <3> QED BY <1>1, <3>1, <3>2 DEF AddressFits
  <2>2. IsChannel(other, n) => n - 1 \in DOMAIN other /\ Identifies(other, n - 1)
    BY <1>1, <1>2 DEF GroupsFit
  <2>3. other[n].kind = "challenge" => ChallengeFits(other, n)
    BY <1>1 DEF GroupsFit, ChallengeFits
  <2> QED BY <2>1, <2>2, <2>3
<1> QED BY <1>3, <1>5 DEF GroupsFit
-----------------------------------------------------------------------------
\* A step of a sign-up that was answered: no address waits, and the path goes on by this step
\* unless it ends there.
StepFits(records, name, other) ==
  /\ other \in Seq(F!Record) /\ GroupsFit(other) /\ ProvenFit(other)
  /\ \A n \in DOMAIN other : Identifies(other, n) => other[n].confirmed
  /\ \A n \in WalkedAt(records) : n \in DOMAIN other /\ F!IsOf(other[n], records[n].name) /\ other[n].confirmed
  /\ \E n \in DOMAIN other : F!IsOf(other[n], name) /\ other[n].confirmed
  /\ F!Offered(Append(F!SignUpPath(records), name)) # {} =>
       F!SignUpPath(other) = Append(F!SignUpPath(records), name)

LEMMA BehindIs ==
  ASSUME NEW records \in Seq(F!Record), NEW more \in Seq(F!Record)
  PROVE  /\ records \o more \in Seq(F!Record) /\ Len(records \o more) = Len(records) + Len(more)
         /\ Len(records) \in Nat /\ Len(more) \in Nat /\ DOMAIN records = 1..Len(records)
         /\ DOMAIN (records \o more) = 1..(Len(records) + Len(more))
         /\ \A n \in 1..Len(records) : (records \o more)[n] = records[n]
         /\ \A n \in 1..Len(more) : (records \o more)[Len(records) + n] = more[n]
OBVIOUS

\* A longer list keeps the groups it had.
LEMMA GroupsGrow ==
  ASSUME NEW records \in Seq(F!Record), NEW other \in Seq(F!Record), GroupsFit(records),
         Len(records) <= Len(other), \A n \in DOMAIN records : other[n] = records[n],
         \A n \in DOMAIN other : n > Len(records) =>
           /\ Identifies(other, n) => AddressFits(other, n)
           /\ IsChannel(other, n) => n - 1 \in DOMAIN other /\ Identifies(other, n - 1)
           /\ other[n].kind = "challenge" => ChallengeFits(other, n)
           /\ Identifies(other, n) =>
                ~\E m \in DOMAIN records : Identifies(records, m) /\ records[m].name = other[n].name
  PROVE  GroupsFit(other)
<1>1. /\ DOMAIN records = 1..Len(records) /\ Len(records) \in Nat /\ DOMAIN other = 1..Len(other) /\ Len(other) \in Nat
      /\ DOMAIN records \subseteq DOMAIN other
      /\ \A n \in DOMAIN other : n > Len(records) \/ n \in DOMAIN records
  OBVIOUS
<1>2. \A n \in DOMAIN records : Identifies(other, n) <=> Identifies(records, n)
  BY <1>1 DEF Identifies
<1>3. \A n \in DOMAIN records : IsChannel(other, n) <=> IsChannel(records, n)
  BY <1>1 DEF IsChannel
<1>4. ASSUME NEW n \in DOMAIN records
      PROVE  /\ Identifies(other, n) => AddressFits(other, n)
             /\ IsChannel(other, n) => n - 1 \in DOMAIN other /\ Identifies(other, n - 1)
             /\ other[n].kind = "challenge" => ChallengeFits(other, n)
  <2>1. Identifies(other, n) => AddressFits(other, n)
    <3> SUFFICES ASSUME Identifies(records, n) PROVE AddressFits(other, n)
      BY <1>2
    <3>1. AddressFits(records, n)
      BY DEF GroupsFit
    <3>2. n + 2 \in DOMAIN records /\ n + 1 \in DOMAIN records /\ n + 2 \in DOMAIN other
      BY <1>1, <3>1 DEF AddressFits
    <3>3. \A m \in DOMAIN other : Identifies(other, m) /\ other[m].name = other[n].name => m = n
      BY <1>1, <1>2, <3>1 DEF AddressFits
    <3> QED BY <3>1, <3>2, <3>3 DEF AddressFits
  <2>2. IsChannel(other, n) => n - 1 \in DOMAIN other /\ Identifies(other, n - 1)
    BY <1>1, <1>2, <1>3 DEF GroupsFit
  <2>3. other[n].kind = "challenge" => ChallengeFits(other, n)
    BY <1>1, <1>2 DEF GroupsFit, ChallengeFits
  <2> QED BY <2>1, <2>2, <2>3
<1> QED BY <1>1, <1>4 DEF GroupsFit

\* An address that is collected waits for its proof at the end of the records.
LEMMA CollectAddress ==
  ASSUME NEW records \in Seq(F!Record), SignUpFits(records),
         \A other \in F!Offered(F!SignUpPath(records)) : ~F!IsPending(records, other),
         NEW name \in F!Offered(F!SignUpPath(records)), name \in F!Addresses, ~F!Holds(records, name),
         NEW value \in Recipients
  PROVE  SignUpFits(records \o F!Collected(name, value))
<1> DEFINE more == F!Collected(name, value)
           other == records \o more
           L == Len(records)
           path == F!SignUpPath(records)
<1>1. /\ more \in Seq(F!Record) /\ Len(more) = 3
      /\ more[1] = F!Entry("identification", name, value, FALSE)
      /\ more[2] = F!Entry("channel", FlowChannelOf[name], value, TRUE)
      /\ more[3] = F!Entry("challenge", FlowChallengeOf[name], value, FALSE)
  BY CollectedIs
<1> HIDE DEF more
<1>2. /\ other \in Seq(F!Record) /\ Len(other) = L + 3 /\ L \in Nat
      /\ DOMAIN records = 1..L /\ DOMAIN other = 1..(L + 3)
      /\ \A n \in 1..L : other[n] = records[n]
      /\ other[L + 1] = more[1] /\ other[L + 2] = more[2] /\ other[L + 3] = more[3]
  <2>1. 1 \in 1..3 /\ 2 \in 1..3 /\ 3 \in 1..3
    OBVIOUS
  <2>2. /\ other \in Seq(F!Record) /\ Len(other) = L + Len(more) /\ L \in Nat
        /\ DOMAIN records = 1..L /\ DOMAIN other = 1..(L + Len(more))
        /\ \A n \in 1..L : other[n] = records[n]
        /\ \A n \in 1..Len(more) : other[L + n] = more[n]
    BY <1>1, BehindIs, Zenon
  <2> HIDE DEF other, L
  <2> QED BY <1>1, <2>1, <2>2
<1> HIDE DEF other, L
<1>3. \A n \in DOMAIN other : n \in 1..L \/ n = L + 1 \/ n = L + 2 \/ n = L + 3
  BY <1>2
<1>4. /\ other[L + 1].kind = "identification" /\ other[L + 1].name = name /\ other[L + 1].value = value
      /\ ~other[L + 1].confirmed
      /\ other[L + 2].kind = "channel" /\ other[L + 2].name = FlowChannelOf[name] /\ other[L + 2].value = value
      /\ other[L + 3].kind = "challenge" /\ other[L + 3].name = FlowChallengeOf[name] /\ other[L + 3].value = value
      /\ ~other[L + 3].confirmed
  BY <1>1, <1>2 DEF F!Entry
<1>5. /\ \A n \in DOMAIN records : Identifies(records, n) => records[n].confirmed
      /\ \A step \in F!Offered(path) : ~F!Holds(records, step)
  BY NothingWaits
<1>6. \A m \in DOMAIN records : Identifies(records, m) => records[m].name # name
  BY DEF Identifies, F!Holds, F!IsOf
<1>7. Identifies(other, L + 1) /\ \A n \in 1..L : Identifies(other, n) <=> Identifies(records, n)
  BY <1>2, <1>4 DEF Identifies
<1>8. \A n \in DOMAIN other : Identifies(other, n) => n \in 1..L \/ n = L + 1
  BY <1>3, <1>4 DEF Identifies
<1>9. GroupsFit(other)
  <2>1. AddressFits(other, L + 1)
    <3>1. (L + 1) + 1 = L + 2 /\ (L + 1) + 2 = L + 3 /\ L + 3 \in DOMAIN other
      BY <1>2
    <3>2. \A m \in DOMAIN other : Identifies(other, m) /\ other[m].name = name => m = L + 1
      BY <1>2, <1>6, <1>7, <1>8
    <3> QED BY <1>4, <3>1, <3>2 DEF AddressFits
  <2>2. (L + 2) - 1 = L + 1 /\ L + 1 \in DOMAIN other
    BY <1>2
  <2>3. ChallengeFits(other, L + 3)
    <3>1. (L + 3) - 2 = L + 1
      BY <1>2
    <3> QED BY <1>4, <1>7, <2>2, <3>1, FlowConstants DEF ChallengeFits
  <2>4. ASSUME NEW n \in DOMAIN other, n > L
        PROVE  /\ Identifies(other, n) => AddressFits(other, n)
               /\ IsChannel(other, n) => n - 1 \in DOMAIN other /\ Identifies(other, n - 1)
               /\ other[n].kind = "challenge" => ChallengeFits(other, n)
               /\ Identifies(other, n) =>
                    ~\E m \in DOMAIN records : Identifies(records, m) /\ records[m].name = other[n].name
    <3>1. n = L + 1 \/ n = L + 2 \/ n = L + 3
      BY <1>2, <1>3, <2>4
    <3>2. CASE n = L + 1
      BY <1>4, <1>6, <2>1, <3>2 DEF IsChannel
    <3>3. CASE n = L + 2
      BY <1>4, <1>7, <2>2, <3>3 DEF Identifies
    <3>4. CASE n = L + 3
      BY <1>4, <2>3, <3>4 DEF Identifies, IsChannel
    <3> QED BY <3>1, <3>2, <3>3, <3>4
  <2>5. GroupsFit(records) /\ L <= Len(other) /\ \A n \in DOMAIN records : other[n] = records[n]
    BY <1>2 DEF SignUpFits
  <2> QED BY <1>2, <2>4, <2>5, GroupsGrow DEF L
<1>10. WalkedAt(other) = WalkedAt(records) /\ \A n \in WalkedAt(records) : other[n] = records[n] /\ n < L + 1
  <2>1. \A n \in DOMAIN other : n \in WalkedAt(other) => n \in 1..L
    BY <1>3, <1>4 DEF WalkedAt
  <2>2. 1..L \subseteq DOMAIN other
    BY <1>2
  <2>3. \A n \in 1..L : n \in WalkedAt(other) <=> n \in WalkedAt(records)
    BY <1>2, <2>2 DEF WalkedAt
  <2>4. WalkedAt(records) \subseteq 1..L /\ WalkedAt(other) \subseteq DOMAIN other
    BY <1>2 DEF WalkedAt
  <2>5. \A n \in 1..L : n < L + 1
    BY <1>2
  <2> QED BY <1>2, <2>1, <2>3, <2>4, <2>5
<1>11. F!SignUpPath(other) = path
  BY <1>10, WalkStays
<1>12. WaitingFits(other)
  <2> SUFFICES ASSUME NEW n \in DOMAIN other, Identifies(other, n), ~other[n].confirmed
               PROVE  /\ other[n].name \in F!Offered(path)
                      /\ \A m \in WalkedAt(other) : m < n
                      /\ \A step \in F!Offered(path) : F!Holds(other, step) => step = other[n].name
    BY <1>11 DEF WaitingFits
  <2>1. n = L + 1
    BY <1>2, <1>5, <1>7, <1>8
  <2>2. ASSUME NEW step \in F!Offered(path), F!Holds(other, step) PROVE step = name
    <3>1. PICK m \in DOMAIN other : F!IsOf(other[m], step)
      BY <2>2 DEF F!Holds
    <3>2. m \notin 1..L
      BY <1>2, <1>5, <3>1 DEF F!Holds
    <3>3. m # L + 2
      BY <1>4, <3>1 DEF F!IsOf
    <3>4. m # L + 3
      <4> SUFFICES ASSUME step = FlowChallengeOf[name] PROVE FALSE
        BY <1>4, <3>1 DEF F!IsOf
      <4>1. FlowKindOf[step] = "code"
        BY FlowConstants
      <4>2. F!Holds(records, step)
        BY <4>1, CodeIsHeld DEF SignUpFits
      <4> QED BY <1>5, <4>2
    <3>5. m = L + 1
      BY <1>3, <3>2, <3>3, <3>4
    <3> QED BY <1>4, <3>1, <3>5 DEF F!IsOf
  <2>3. \A m \in WalkedAt(other) : m < L + 1
    BY <1>10
  <2> QED BY <1>4, <2>1, <2>2, <2>3
<1>13. ProvenFit(other)
  <2>1. CASE ChannelTwice(records)
    <3>1. 1..L \subseteq DOMAIN other
      BY <1>2
    <3> QED BY <1>2, <2>1, <3>1 DEF ProvenFit, ChannelTwice, IsChannel
  <2>2. CASE \A n \in DOMAIN records : Identifies(records, n) /\ records[n].confirmed => records[n].value \in Reads
    BY <1>2, <1>4, <1>7, <1>8, <2>2 DEF ProvenFit
  <2> QED BY <2>1, <2>2 DEF SignUpFits, ProvenFit
<1>14. SignUpFits(other)
  BY <1>9, <1>11, <1>12, <1>13 DEF SignUpFits
<1> QED BY <1>14 DEF other, more

\* A secret that is collected counts at once.
LEMMA CollectSecret ==
  ASSUME NEW records \in Seq(F!Record), SignUpFits(records),
         \A other \in F!Offered(F!SignUpPath(records)) : ~F!IsPending(records, other),
         NEW name \in F!Offered(F!SignUpPath(records)), name \in FlowNames, FlowKindOf[name] = "secret",
         ~F!Holds(records, name), NEW value \in Recipients
  PROVE  StepFits(records, name, F!Confirm(records \o F!Collected(name, value), name))
<1> DEFINE more == F!Collected(name, value)
           longer == records \o more
           other == F!Confirm(longer, name)
           L == Len(records)
           path == F!SignUpPath(records)
<1>1. more = << F!Entry("challenge", name, value, FALSE) >> /\ F!Entry("challenge", name, value, FALSE) \in F!Record
  BY CollectedIs
<1>2. more \in Seq(F!Record) /\ Len(more) = 1 /\ more[1] = F!Entry("challenge", name, value, FALSE)
  <2>1. \A r \in F!Record : << r >> \in Seq(F!Record) /\ Len(<< r >>) = 1 /\ << r >>[1] = r
    OBVIOUS
  <2> DEFINE r == F!Entry("challenge", name, value, FALSE)
  <2>2. r \in F!Record /\ more = << r >>
    BY <1>1
  <2> HIDE DEF r, more
  <2>3. more \in Seq(F!Record) /\ Len(more) = 1 /\ more[1] = r
    BY <2>1, <2>2
  <2> QED BY <2>3 DEF r
<1> HIDE DEF more
<1>3. /\ longer \in Seq(F!Record) /\ Len(longer) = L + 1 /\ L \in Nat
      /\ DOMAIN records = 1..L /\ DOMAIN longer = 1..(L + 1)
      /\ \A n \in 1..L : longer[n] = records[n]
      /\ longer[L + 1] = more[1]
  <2>1. 1 \in 1..1
    OBVIOUS
  <2>2. /\ longer \in Seq(F!Record) /\ Len(longer) = L + Len(more) /\ L \in Nat
        /\ DOMAIN records = 1..L /\ DOMAIN longer = 1..(L + Len(more))
        /\ \A n \in 1..L : longer[n] = records[n]
        /\ \A n \in 1..Len(more) : longer[L + n] = more[n]
    BY <1>2, BehindIs, Zenon
  <2> HIDE DEF longer, L
  <2> QED BY <1>2, <2>1, <2>2
<1> HIDE DEF longer, L
<1>4. L + 1 \in DOMAIN longer /\ F!IsOf(longer[L + 1], name) /\ longer[L + 1].kind = "challenge"
  BY <1>2, <1>3 DEF F!IsOf, F!Entry
<1>5. \A n \in 1..L : ~F!IsOf(longer[n], name)
  BY <1>3 DEF F!Holds
<1>6. /\ other \in Seq(F!Record) /\ DOMAIN other = DOMAIN longer
      /\ other[L + 1] = [longer[L + 1] EXCEPT !.confirmed = TRUE]
      /\ \A n \in 1..L : other[n] = records[n]
  <2>1. F!Holds(longer, name)
    BY <1>4 DEF F!Holds
  <2>2. \E first \in DOMAIN longer :
           /\ F!IsOf(longer[first], name)
           /\ \A n \in DOMAIN longer : F!IsOf(longer[n], name) => first <= n
           /\ other = [longer EXCEPT ![first] = [longer[first] EXCEPT !.confirmed = TRUE]]
           /\ other \in Seq(F!Record)
           /\ DOMAIN other = DOMAIN longer
           /\ other[first] = [longer[first] EXCEPT !.confirmed = TRUE]
           /\ \A n \in DOMAIN longer \ {first} : other[n] = longer[n]
    BY <1>3, <2>1, ConfirmIs, Zenon
  <2> HIDE DEF other
  <2>3. PICK first \in DOMAIN longer :
           /\ F!IsOf(longer[first], name)
           /\ other \in Seq(F!Record)
           /\ DOMAIN other = DOMAIN longer
           /\ other[first] = [longer[first] EXCEPT !.confirmed = TRUE]
           /\ \A n \in DOMAIN longer \ {first} : other[n] = longer[n]
    BY <2>2
  <2>4. first = L + 1
    BY <1>3, <1>5, <2>3
  <2>5. \A n \in 1..L : n \in DOMAIN longer \ {L + 1}
    BY <1>3
  <2> QED BY <1>3, <2>3, <2>4, <2>5
<1> HIDE DEF other
<1>7. other[L + 1].kind = "challenge" /\ other[L + 1].name = name /\ other[L + 1].confirmed
  <2>1. longer[L + 1] \in F!Record /\ longer[L + 1].name = name
    BY <1>3, <1>4 DEF F!IsOf
  <2> QED BY <1>4, <1>6, <2>1 DEF F!Record
<1>8. \A n \in DOMAIN other : n \in 1..L \/ n = L + 1
  BY <1>3, <1>6
<1>9. /\ \A n \in DOMAIN records : Identifies(records, n) => records[n].confirmed
      /\ \A step \in F!Offered(path) : ~F!Holds(records, step)
  BY NothingWaits
<1>10. \A n : Identifies(other, n) <=> Identifies(records, n)
  <2>1. 1..L \subseteq DOMAIN other
    BY <1>3, <1>6
  <2> QED BY <1>3, <1>6, <1>7, <1>8, <2>1 DEF Identifies
<1>11. \A n : IsChannel(other, n) <=> IsChannel(records, n)
  <2>1. 1..L \subseteq DOMAIN other
    BY <1>3, <1>6
  <2> QED BY <1>3, <1>6, <1>7, <1>8, <2>1 DEF IsChannel
<1>12. GroupsFit(other)
  <2>1. ChallengeFits(other, L + 1)
    BY <1>7 DEF ChallengeFits, F!Addresses
  <2>2. Len(other) = L + 1 /\ L + 1 \notin DOMAIN records
    BY <1>3, <1>6
  <2>3. ASSUME NEW n \in DOMAIN other, n > L
        PROVE  /\ Identifies(other, n) => AddressFits(other, n)
               /\ IsChannel(other, n) => n - 1 \in DOMAIN other /\ Identifies(other, n - 1)
               /\ other[n].kind = "challenge" => ChallengeFits(other, n)
               /\ Identifies(other, n) =>
                    ~\E m \in DOMAIN records : Identifies(records, m) /\ records[m].name = other[n].name
    <3>1. n = L + 1
      BY <1>3, <1>8, <2>3
    <3> QED BY <1>7, <2>1, <3>1 DEF Identifies, IsChannel
  <2>4. GroupsFit(records) /\ L <= Len(other) /\ \A n \in DOMAIN records : other[n] = records[n]
    BY <1>3, <1>6, <2>2 DEF SignUpFits
  <2> QED BY <1>6, <2>3, <2>4, GroupsGrow DEF L
<1>13. ProvenFit(other)
  <2>1. \A n \in DOMAIN records : other[n] = records[n]
    BY <1>3, <1>6
  <2>2. ChannelTwice(records) => ChannelTwice(other)
    BY <1>11, <2>1 DEF ChannelTwice, IsChannel
  <2>3. (\A n \in DOMAIN records : Identifies(records, n) /\ records[n].confirmed => records[n].value \in Reads) =>
          \A n \in DOMAIN other : Identifies(other, n) /\ other[n].confirmed => other[n].value \in Reads
    BY <1>10, <2>1 DEF Identifies
  <2> QED BY <2>2, <2>3 DEF ProvenFit, SignUpFits
<1>14. \A n \in DOMAIN other : Identifies(other, n) => other[n].confirmed
  BY <1>3, <1>6, <1>9, <1>10 DEF Identifies
<1>15. WalkedAt(other) = WalkedAt(records) \cup {L + 1} /\ L + 1 \in DOMAIN other
       /\ \A n \in WalkedAt(records) : n < L + 1 /\ n \in DOMAIN other /\ other[n] = records[n]
  <2>1. 1..L \subseteq DOMAIN other /\ L + 1 \in DOMAIN other
    BY <1>3, <1>6
  <2>2. \A n \in 1..L : (n \in WalkedAt(other) <=> n \in WalkedAt(records)) /\ n < L + 1
    BY <1>3, <1>6, <2>1 DEF WalkedAt
  <2>3. L + 1 \in WalkedAt(other)
    BY <1>7, <2>1 DEF WalkedAt
  <2>4. WalkedAt(records) \subseteq 1..L /\ WalkedAt(other) \subseteq DOMAIN other
    BY <1>3 DEF WalkedAt
  <2> QED BY <1>6, <1>8, <2>1, <2>2, <2>3, <2>4
<1>16. F!SignUpPath(other) = Append(path, name)
  <2>1. F!SignUpPath(other) = Append(F!SignUpPath(records), other[L + 1].name)
    BY <1>6, <1>15, WalkGoesOn, Zenon
  <2> QED BY <1>7, <2>1
<1>17. \A n \in WalkedAt(records) : n \in DOMAIN other /\ F!IsOf(other[n], records[n].name) /\ other[n].confirmed
  BY <1>15 DEF WalkedAt, F!IsOf
<1>18. F!IsOf(other[L + 1], name) /\ other[L + 1].confirmed
  BY <1>7 DEF F!IsOf
<1>19. StepFits(records, name, other)
  BY <1>6, <1>12, <1>13, <1>14, <1>15, <1>16, <1>17, <1>18 DEF StepFits
<1> QED BY <1>19 DEF other, longer, more
-----------------------------------------------------------------------------
\* A value that is proven is confirmed in its place.
LEMMA ProveStep ==
  ASSUME NEW records \in Seq(F!Record), SignUpFits(records),
         NEW name \in F!Offered(F!SignUpPath(records)), F!Holds(records, name), FlowKindOf[name] # "secret",
         ~ChannelTwice(records) =>
           \A n : IsChannel(records, n) /\ records[n].name = FlowChannelOf[name] => records[n].value \in Reads
  PROVE  StepFits(records, name, F!Confirm(records, name))
<1> DEFINE other == F!Confirm(records, name)
           path == F!SignUpPath(records)
<1>1. \E first \in DOMAIN records :
           /\ F!IsOf(records[first], name)
           /\ \A n \in DOMAIN records : F!IsOf(records[n], name) => first <= n
           /\ other = [records EXCEPT ![first] = [records[first] EXCEPT !.confirmed = TRUE]]
           /\ other \in Seq(F!Record)
           /\ DOMAIN other = DOMAIN records
           /\ other[first] = [records[first] EXCEPT !.confirmed = TRUE]
           /\ \A n \in DOMAIN records \ {first} : other[n] = records[n]
  BY ConfirmIs, Zenon
<1> HIDE DEF other
<1>2. PICK f \in DOMAIN records :
           /\ F!IsOf(records[f], name)
           /\ other \in Seq(F!Record)
           /\ DOMAIN other = DOMAIN records
           /\ other[f] = [records[f] EXCEPT !.confirmed = TRUE]
           /\ \A n \in DOMAIN records \ {f} : other[n] = records[n]
  BY <1>1
<1>3. /\ GroupsFit(records) /\ WaitingFits(records) /\ ProvenFit(records)
      /\ DOMAIN records = 1..Len(records) /\ Len(records) \in Nat
  BY DEF SignUpFits
<1>4. /\ other[f].kind = records[f].kind /\ other[f].name = records[f].name /\ other[f].value = records[f].value
      /\ other[f].confirmed /\ records[f].kind # "channel" /\ records[f].name = name
  <2>1. records[f] \in F!Record
    OBVIOUS
  <2>2. \A r \in F!Record : LET p == [r EXCEPT !.confirmed = TRUE] IN
          p.kind = r.kind /\ p.name = r.name /\ p.value = r.value /\ p.confirmed
    BY DEF F!Record
  <2>3. \A r \in F!Record : F!IsOf(r, name) => r.kind # "channel" /\ r.name = name
    BY DEF F!IsOf
  <2> QED BY <1>2, <2>1, <2>2, <2>3
<1>5. ~records[f].confirmed
  BY <1>2, <1>3, OfferedWaits
<1>6. \A n \in DOMAIN records :
           /\ other[n].kind = records[n].kind /\ other[n].name = records[n].name /\ other[n].value = records[n].value
           /\ n # f => (records[n].confirmed <=> other[n].confirmed)
  <2>1. \A n \in DOMAIN records : n = f \/ n \in DOMAIN records \ {f}
    OBVIOUS
  <2> QED BY <1>2, <1>4, <2>1
<1>7. GroupsFit(other) /\ (ChannelTwice(other) <=> ChannelTwice(records))
  <2>1. \A n \in DOMAIN records :
           /\ other[n].kind = records[n].kind /\ other[n].name = records[n].name /\ other[n].value = records[n].value
           /\ records[n].confirmed => other[n].confirmed
    BY <1>4, <1>6
  <2> QED BY <1>2, <1>3, <2>1, GroupsStay, Zenon
<1>8. WalkedAt(other) = WalkedAt(records) \cup {f} /\ f \notin WalkedAt(records)
  BY <1>2, <1>4, <1>5, <1>6 DEF WalkedAt
<1>9. \A n : Identifies(other, n) <=> Identifies(records, n)
  BY <1>2, <1>6 DEF Identifies
<1>10. ASSUME NEW n \in DOMAIN records, Identifies(records, n), ~records[n].confirmed PROVE name = records[n].name
  BY <1>3, <1>10 DEF WaitingFits
<1>11. /\ \A n \in DOMAIN records : Identifies(records, n) /\ n # f => records[n].confirmed
       /\ F!Offered(Append(path, name)) # {} => \A n \in WalkedAt(records) : n < f
       /\ ~ChannelTwice(records) /\ Identifies(records, f) => records[f].value \in Reads
  <2>1. CASE records[f].kind = "identification"
    <3>1. Identifies(records, f)
      BY <2>1 DEF Identifies
    <3>2. AddressFits(records, f)
      BY <1>3, <3>1 DEF GroupsFit
    <3>3. \A n \in WalkedAt(records) : n < f
      BY <1>3, <1>5, <3>1 DEF WaitingFits
    <3>4. \A n \in DOMAIN records : Identifies(records, n) /\ records[n].name = name => n = f
      BY <1>4, <3>2 DEF AddressFits
    <3>5. \A n \in DOMAIN records : Identifies(records, n) /\ n # f => records[n].confirmed
      BY <1>10, <3>4
    <3>6. ~ChannelTwice(records) => records[f].value \in Reads
      <4>1. f + 1 \in DOMAIN records /\ records[f + 1].kind = "channel" /\ records[f + 1].name = FlowChannelOf[name]
            /\ records[f + 1].value = records[f].value
        BY <1>3, <1>4, <3>2 DEF AddressFits
      <4> QED BY <4>1 DEF IsChannel
    <3> QED BY <3>3, <3>5, <3>6
  <2>2. CASE records[f].kind = "challenge"
    <3>1. ChallengeFits(records, f)
      BY <1>3, <2>2 DEF GroupsFit
    <3>2. name \notin F!Addresses /\ FlowKindOf[name] = "code" /\ f - 2 \in DOMAIN records /\ Identifies(records, f - 2)
      BY <1>4, <3>1 DEF ChallengeFits
    <3>3. \A n \in DOMAIN records : Identifies(records, n) => records[n].confirmed
      <4>1. ASSUME NEW n \in DOMAIN records, Identifies(records, n), ~records[n].confirmed PROVE FALSE
        <5>1. records[n].name \in F!Addresses
          BY <1>3, <4>1 DEF GroupsFit, AddressFits
        <5> QED BY <1>10, <3>2, <4>1, <5>1
      <4> QED BY <4>1
    <3>4. FlowChallengeOf[records[f - 2].name] = name
      <4>1. AddressFits(records, f - 2)
        BY <1>3, <3>2 DEF GroupsFit
      <4>2. (f - 2) + 2 = f
        BY <1>3
      <4> QED BY <1>4, <4>1, <4>2 DEF AddressFits
    <3>5. ASSUME F!Offered(Append(path, name)) # {} PROVE \A n \in WalkedAt(records) : n < f
      <4>1. \A n \in WalkedAt(records) : n <= f - 2
        BY <1>3, <3>2, <3>3, <3>4, <3>5, CodeIsHeld
      <4>2. WalkedAt(records) \subseteq Nat /\ f \in Nat
        BY <1>3 DEF WalkedAt
      <4> QED BY <4>1, <4>2
    <3>6. ~Identifies(records, f)
      BY <2>2 DEF Identifies
    <3> QED BY <3>3, <3>5, <3>6
  <2>3. records[f].kind \in {"identification", "challenge", "channel"}
    BY <1>3, WalkedNames
  <2> QED BY <1>4, <2>1, <2>2, <2>3
<1>12. \A n \in DOMAIN other : Identifies(other, n) => other[n].confirmed
  BY <1>2, <1>4, <1>6, <1>9, <1>11
<1>13. ProvenFit(other)
  <2>1. CASE ChannelTwice(records)
    BY <1>7, <2>1 DEF ProvenFit
  <2>2. CASE ~ChannelTwice(records)
    <3>1. \A n \in DOMAIN records : Identifies(records, n) /\ records[n].confirmed => records[n].value \in Reads
      BY <1>3, <2>2 DEF ProvenFit
    <3>2. \A n \in DOMAIN records : Identifies(records, n) => records[n].value \in Reads
      BY <1>11, <2>2, <3>1
    <3> QED BY <1>2, <1>6, <1>9, <3>2 DEF ProvenFit
  <2> QED BY <2>1, <2>2
<1>14. \A n \in WalkedAt(records) : n \in DOMAIN other /\ F!IsOf(other[n], records[n].name) /\ other[n].confirmed
  BY <1>2, <1>6, <1>8 DEF WalkedAt, F!IsOf
<1>15. \E n \in DOMAIN other : F!IsOf(other[n], name) /\ other[n].confirmed
  BY <1>2, <1>4 DEF F!IsOf
<1>16. ASSUME F!Offered(Append(path, name)) # {} PROVE F!SignUpPath(other) = Append(path, name)
  <2>1. f \in DOMAIN other /\ \A n \in WalkedAt(records) : n < f /\ n \in DOMAIN other /\ other[n] = records[n]
    <3>1. \A n \in WalkedAt(records) : n \in DOMAIN records \ {f}
      BY <1>8 DEF WalkedAt
    <3> QED BY <1>2, <1>11, <1>16, <3>1
  <2>2. F!SignUpPath(other) = Append(F!SignUpPath(records), other[f].name)
    BY <1>2, <1>8, <2>1, WalkGoesOn, Zenon
  <2> QED BY <1>4, <2>2
<1>17. StepFits(records, name, other)
  BY <1>2, <1>7, <1>12, <1>13, <1>14, <1>15, <1>16 DEF StepFits
<1> QED BY <1>17 DEF other

\* A step with a next one leaves a state the sign-up goes on from.
LEMMA StepGoesOn ==
  ASSUME NEW records, NEW name, NEW other, StepFits(records, name, other),
         F!Offered(Append(F!SignUpPath(records), name)) # {}
  PROVE  SignUpFits(other)
<1>1. WaitingFits(other)
  BY DEF StepFits, WaitingFits
<1> QED BY <1>1 DEF StepFits, SignUpFits

\* The last step of a path leaves a record for each of them.
LEMMA StepIsWhole ==
  ASSUME NEW records \in Seq(F!Record), GroupsFit(records), NEW name \in FlowNames, NEW other,
         StepFits(records, name, other), F!IsOver(Append(F!SignUpPath(records), name))
  PROVE  \E complete \in FlowPaths : \A step \in DOMAIN complete : \E n \in DOMAIN other :
           F!IsOf(other[n], complete[step]) /\ other[n].confirmed
<1> DEFINE path == F!SignUpPath(records)
           longer == Append(path, name)
<1>1. path \in Seq(FlowNames) /\ \A k \in DOMAIN path : \E n \in WalkedAt(records) : path[k] = records[n].name
  BY PathOf
<1>2. F!IsOver(longer)
  OBVIOUS
<1> HIDE DEF path
<1>3. longer \in Seq(FlowNames) /\ \A k \in DOMAIN longer : longer[k] = name \/ (k \in DOMAIN path /\ longer[k] = path[k])
  <2>1. /\ longer \in Seq(FlowNames) /\ Len(longer) = Len(path) + 1 /\ Len(path) \in Nat
        /\ DOMAIN path = 1..Len(path) /\ DOMAIN longer = 1..Len(longer) /\ longer[Len(path) + 1] = name
        /\ \A k \in 1..Len(path) : longer[k] = path[k]
    BY <1>1
  <2> HIDE DEF longer
  <2>2. \A k \in 1..(Len(path) + 1) : k = Len(path) + 1 \/ k \in 1..Len(path)
    BY <2>1
  <2> QED BY <2>1, <2>2
<1> HIDE DEF longer
<1>4. PICK complete \in FlowPaths : \A n \in DOMAIN complete : n \in DOMAIN longer /\ complete[n] = longer[n]
  BY <1>2, <1>3, OverIs
<1>5. ASSUME NEW step \in DOMAIN complete
      PROVE  \E n \in DOMAIN other : F!IsOf(other[n], complete[step]) /\ other[n].confirmed
  <2>1. CASE complete[step] = name
    BY <2>1 DEF StepFits
  <2>2. CASE step \in DOMAIN path /\ complete[step] = path[step]
    BY <1>1, <2>2 DEF StepFits
  <2> QED BY <1>3, <1>4, <2>1, <2>2
<1> QED BY <1>5

\* What a step leaves is proven, where the identity could be stored.
LEMMA StepIsProven ==
  ASSUME NEW records, NEW name, NEW other, StepFits(records, name, other), F!Unique(other),
         NEW n \in DOMAIN other
  PROVE  \/ other[n].value \in Reads
         \/ other[n].kind = "challenge" /\ other[n].name \in FlowNames /\ FlowKindOf[other[n].name] = "secret"
<1>1. other \in Seq(F!Record) /\ GroupsFit(other) /\ DOMAIN other = 1..Len(other) /\ Len(other) \in Nat
  BY DEF StepFits
<1>2. ~ChannelTwice(other)
  BY DEF F!Unique, ChannelTwice, IsChannel
<1>3. \A m \in DOMAIN other : Identifies(other, m) => other[m].value \in Reads /\ AddressFits(other, m)
  BY <1>2 DEF StepFits, ProvenFit, GroupsFit
<1>4. CASE other[n].kind = "identification"
  BY <1>3, <1>4 DEF Identifies
<1>5. CASE other[n].kind = "channel"
  <2>1. n - 1 \in DOMAIN other /\ Identifies(other, n - 1)
    BY <1>1, <1>5 DEF GroupsFit, IsChannel
  <2>2. (n - 1) + 1 = n
    BY <1>1
  <2> QED BY <1>3, <2>1, <2>2 DEF AddressFits
<1>6. CASE other[n].kind = "challenge"
  <2>1. ChallengeFits(other, n)
    BY <1>1, <1>6 DEF GroupsFit
  <2>2. CASE FlowKindOf[other[n].name] = "secret"
    BY <1>6, <2>1, <2>2 DEF ChallengeFits
  <2>3. CASE n - 2 \in DOMAIN other /\ Identifies(other, n - 2)
    <3>1. (n - 2) + 2 = n
      BY <1>1
    <3> QED BY <1>3, <2>3, <3>1 DEF AddressFits
  <2> QED BY <2>1, <2>2, <2>3 DEF ChallengeFits
<1> QED BY <1>1, <1>4, <1>5, <1>6, WalkedNames
-----------------------------------------------------------------------------
\* The records that a flow beside a sign-up writes: an address with its channel, a secret or a
\* recipient, proven as its kind asks.
FreshFits(fresh, name) ==
  /\ fresh \in Seq(F!Record)
  /\ \A n \in DOMAIN fresh :
       /\ \/ fresh[n].value \in Reads
          \/ fresh[n].kind = "challenge" /\ fresh[n].name \in FlowNames /\ FlowKindOf[fresh[n].name] = "secret"
       /\ fresh[n].kind = "challenge" => fresh[n].name \in FlowNames \ F!Addresses
       /\ fresh[n].kind = "identification" =>
            /\ fresh[n].name = name /\ name \in F!Addresses
            /\ \E m \in DOMAIN fresh : /\ fresh[m].kind = "channel" /\ fresh[m].name = FlowChannelOf[name]
                                       /\ fresh[m].value = fresh[n].value

\* What a rotate writes replaces a component that the identity has, and that its person reads.
ReplacementFits(records, fresh, name) ==
  /\ F!Holds(records, name) /\ F!Holds(fresh, name)
  /\ \A n \in DOMAIN fresh : fresh[n].kind = "channel" => name \in F!Addresses /\ fresh[n].name = FlowChannelOf[name]
  /\ \A n : Identifies(records, n) /\ records[n].name = name => records[n].value \in Reads

\* What a write leaves of an identity, and what it adds.
HomeFits(records, other) ==
  /\ F!Stored(other)
  /\ \A n \in DOMAIN other :
       \/ other[n].value \in Reads
       \/ \E m \in DOMAIN records : records[m] = other[n]
       \/ other[n].kind = "challenge" /\ other[n].name \in FlowNames /\ FlowKindOf[other[n].name] = "secret"
  /\ \A name : F!Holds(records, name) => F!Holds(other, name)
  /\ \A n : Identifies(records, n) /\ records[n].value \notin Reads =>
       \E m \in DOMAIN other : other[m] = records[n]

\* A list of the records that are kept and those that are written.
Combines(records, kept, fresh, other) ==
  /\ \A n \in DOMAIN other : (\E m \in kept : other[n] = records[m]) \/ (\E k \in DOMAIN fresh : other[n] = fresh[k])
  /\ \A k \in DOMAIN fresh : \E n \in DOMAIN other : other[n] = fresh[k]
  /\ \A m \in kept : \E n \in DOMAIN other : other[n] = records[m]
  /\ \A m \in kept, k \in DOMAIN fresh : ~(records[m].kind = fresh[k].kind /\ records[m].name = fresh[k].name)
  /\ \A m \in DOMAIN records \ kept : \E k \in DOMAIN fresh :
       (fresh[k].kind = "channel" <=> records[m].kind = "channel") /\ fresh[k].name = records[m].name

LEMMA HomeIsKept ==
  ASSUME NEW records, F!Stored(records), NEW fresh, NEW name, FreshFits(fresh, name),
         NEW other \in Seq(F!Record), F!Unique(other), NEW kept \in SUBSET DOMAIN records,
         (kept = DOMAIN records \/ ReplacementFits(records, fresh, name)),
         Combines(records, kept, fresh, other)
  PROVE  HomeFits(records, other)
<1> USE DEF Combines
<1>1. /\ records \in Seq(F!Record) /\ \A n \in DOMAIN records : records[n] \in F!Record
      /\ fresh \in Seq(F!Record) /\ \A n \in DOMAIN fresh : fresh[n] \in F!Record
  BY DEF F!Stored, FreshFits
<1>2. \A r \in F!Record : r.kind \in {"identification", "challenge", "channel"}
  BY DEF F!Record
<1>3. \A n \in DOMAIN records : records[n].kind = "identification" =>
        /\ records[n].name \in F!Addresses
        /\ \E m \in DOMAIN records : /\ records[m].kind = "channel" /\ records[m].name = FlowChannelOf[records[n].name]
                                     /\ records[m].value = records[n].value
        /\ \A m \in DOMAIN records :
             records[m].kind = "identification" /\ FlowChannelOf[records[m].name] = FlowChannelOf[records[n].name] => m = n
  BY DEF F!Stored
<1>4. \A n \in DOMAIN records : records[n].kind = "challenge" => records[n].name \in FlowNames \ F!Addresses
  BY DEF F!Stored
\* An address that stays has no channel in common with the one that is written.
<1>5. ASSUME NEW i \in kept, records[i].kind = "identification", NEW k \in DOMAIN fresh, fresh[k].kind = "channel",
             fresh[k].name = FlowChannelOf[records[i].name]
      PROVE  FALSE
  <2>1. CASE kept = DOMAIN records
    BY <1>3, <1>5, <2>1
  <2>2. CASE ReplacementFits(records, fresh, name)
    <3>1. name \in F!Addresses /\ fresh[k].name = FlowChannelOf[name]
      BY <1>5, <2>2 DEF ReplacementFits
    <3>2. PICK m \in DOMAIN records : records[m].kind # "channel" /\ records[m].name = name
      BY <2>2 DEF ReplacementFits, F!Holds, F!IsOf
    <3>3. records[m].kind = "identification"
      BY <1>1, <1>2, <1>4, <3>1, <3>2
    <3>4. records[i].name = name
      BY <1>3, <1>5, <3>1, <3>2, <3>3
    <3>5. PICK j \in DOMAIN fresh : fresh[j].kind # "channel" /\ fresh[j].name = name
      BY <2>2 DEF ReplacementFits, F!Holds, F!IsOf
    <3>6. fresh[j].kind = "identification"
      BY <1>1, <1>2, <3>1, <3>5 DEF FreshFits
    <3> QED BY <1>5, <3>4, <3>5, <3>6
  <2> QED BY <2>1, <2>2
<1>6. F!Stored(other)
  <2>1. ASSUME NEW n \in DOMAIN other, other[n].kind = "challenge" PROVE other[n].name \in FlowNames \ F!Addresses
    BY <1>4, <2>1 DEF FreshFits
  <2>2. ASSUME NEW n \in DOMAIN other, other[n].kind = "identification"
        PROVE  /\ other[n].name \in F!Addresses
               /\ \E m \in DOMAIN other : /\ other[m].kind = "channel" /\ other[m].name = FlowChannelOf[other[n].name]
                                          /\ other[m].value = other[n].value
    <3>1. CASE \E k \in DOMAIN fresh : other[n] = fresh[k]
      <4>1. PICK k \in DOMAIN fresh : other[n] = fresh[k]
        BY <3>1
      <4>2. /\ other[n].name = name /\ name \in F!Addresses
            /\ \E m \in DOMAIN fresh : /\ fresh[m].kind = "channel" /\ fresh[m].name = FlowChannelOf[name]
                                       /\ fresh[m].value = other[n].value
        BY <2>2, <4>1 DEF FreshFits
      <4> QED BY <4>2
    <3>2. CASE \E i \in kept : other[n] = records[i]
      <4>1. PICK i \in kept : other[n] = records[i]
        BY <3>2
      <4>2. PICK m \in DOMAIN records :
              /\ records[m].kind = "channel" /\ records[m].name = FlowChannelOf[records[i].name]
              /\ records[m].value = records[i].value
        BY <1>3, <2>2, <4>1
      <4>3. m \in kept
        <5>1. ASSUME m \notin kept PROVE FALSE
          <6>1. PICK k \in DOMAIN fresh : fresh[k].kind = "channel" /\ fresh[k].name = records[m].name
            BY <4>2, <5>1
          <6> QED BY <1>5, <2>2, <4>1, <4>2, <6>1
        <5> QED BY <5>1
      <4>4. PICK x \in DOMAIN other : other[x] = records[m]
        BY <4>3
      <4>5. other[n].name \in F!Addresses
        BY <1>3, <2>2, <4>1
      <4> QED BY <4>1, <4>2, <4>4, <4>5
    <3> QED BY <3>1, <3>2
  <2>3. ASSUME NEW n \in DOMAIN other, NEW m \in DOMAIN other, other[n].kind = "identification",
               other[m].kind = "identification", FlowChannelOf[other[m].name] = FlowChannelOf[other[n].name]
        PROVE  m = n
    <3>1. ASSUME NEW i \in kept, NEW k \in DOMAIN fresh, records[i].kind = "identification",
                 fresh[k].kind = "identification", FlowChannelOf[records[i].name] = FlowChannelOf[fresh[k].name]
          PROVE  FALSE
      <4>1. PICK j \in DOMAIN fresh : fresh[j].kind = "channel" /\ fresh[j].name = FlowChannelOf[fresh[k].name]
        BY <3>1 DEF FreshFits
      <4> QED BY <1>5, <3>1, <4>1
    <3>2. other[m].name = other[n].name
      <4>1. CASE \E i \in kept : other[n] = records[i]
        <5>1. PICK i \in kept : other[n] = records[i]
          BY <4>1
        <5>2. \E j \in kept : other[m] = records[j]
          BY <2>3, <3>1, <5>1
        <5>3. PICK j \in kept : other[m] = records[j]
          BY <5>2
        <5>4. j = i
          BY <1>3, <2>3, <5>1, <5>3
        <5> QED BY <5>1, <5>3, <5>4
      <4>2. CASE \E k \in DOMAIN fresh : other[n] = fresh[k]
        <5>1. PICK k \in DOMAIN fresh : other[n] = fresh[k]
          BY <4>2
        <5>2. \E j \in DOMAIN fresh : other[m] = fresh[j]
          BY <2>3, <3>1, <5>1
        <5> QED BY <2>3, <5>1, <5>2 DEF FreshFits
      <4> QED BY <4>1, <4>2
    <3> QED BY <2>3, <3>2 DEF F!Unique
  <2> QED BY <2>1, <2>2, <2>3 DEF F!Stored
<1>7. ASSUME NEW n \in DOMAIN other
      PROVE  \/ other[n].value \in Reads
             \/ \E m \in DOMAIN records : records[m] = other[n]
             \/ other[n].kind = "challenge" /\ other[n].name \in FlowNames /\ FlowKindOf[other[n].name] = "secret"
  BY DEF FreshFits
<1>8. ASSUME NEW step, F!Holds(records, step) PROVE F!Holds(other, step)
  <2>1. PICK m \in DOMAIN records : records[m].kind # "channel" /\ records[m].name = step
    BY <1>8 DEF F!Holds, F!IsOf
  <2>2. \E n \in DOMAIN other : other[n].kind # "channel" /\ other[n].name = step
    <3>1. CASE m \in kept
      BY <2>1, <3>1
    <3>2. CASE m \notin kept
      <4>1. PICK k \in DOMAIN fresh : fresh[k].kind # "channel" /\ fresh[k].name = step
        BY <2>1, <3>2
      <4>2. PICK n \in DOMAIN other : other[n] = fresh[k]
        OBVIOUS
      <4> QED BY <4>1, <4>2
    <3> QED BY <3>1, <3>2
  <2> QED BY <2>2 DEF F!Holds, F!IsOf
<1>9. ASSUME NEW n, Identifies(records, n), records[n].value \notin Reads
      PROVE  \E m \in DOMAIN other : other[m] = records[n]
  <2>1. n \in DOMAIN records /\ records[n].kind = "identification" /\ records[n].name \in F!Addresses
    BY <1>3, <1>9 DEF Identifies
  <2>2. n \in kept
    <3>1. ASSUME n \notin kept PROVE FALSE
      <4>1. PICK k \in DOMAIN fresh : fresh[k].kind # "channel" /\ fresh[k].name = records[n].name
        BY <2>1, <3>1
      <4>2. fresh[k].kind = "identification"
        BY <1>1, <1>2, <2>1, <4>1 DEF FreshFits
      <4>3. records[n].name = name
        BY <4>1, <4>2 DEF FreshFits
      <4> QED BY <1>9, <2>1, <3>1, <4>3 DEF ReplacementFits
    <3> QED BY <3>1
  <2> QED BY <2>2
<1> QED BY <1>6, <1>7, <1>8, <1>9 DEF HomeFits

\* enroll and subscribe write behind what is stored.
LEMMA HomeGrows ==
  ASSUME NEW records, F!Stored(records), NEW fresh, NEW name, FreshFits(fresh, name), F!Unique(records \o fresh)
  PROVE  HomeFits(records, records \o fresh)
<1> DEFINE other == records \o fresh
           L == Len(records)
           K == Len(fresh)
<1>1. records \in Seq(F!Record) /\ fresh \in Seq(F!Record) /\ F!Unique(other)
  BY DEF F!Stored, FreshFits
<1>2. /\ other \in Seq(F!Record) /\ L \in Nat /\ K \in Nat /\ DOMAIN records = 1..L /\ DOMAIN fresh = 1..K
      /\ DOMAIN other = 1..(L + K) /\ (\A n \in 1..L : other[n] = records[n])
      /\ \A n \in 1..K : other[L + n] = fresh[n]
  <2>1. DOMAIN fresh = 1..Len(fresh)
    BY <1>1
  <2>2. /\ other \in Seq(F!Record) /\ L \in Nat /\ K \in Nat /\ DOMAIN records = 1..L
        /\ DOMAIN other = 1..(L + K) /\ (\A n \in 1..L : other[n] = records[n])
        /\ \A n \in 1..K : other[L + n] = fresh[n]
    BY <1>1, BehindIs, Zenon
  <2> QED BY <2>1, <2>2
<1> HIDE DEF other, L, K
<1>3. /\ \A n \in 1..(L + K) : n \in 1..L \/ (n - L \in 1..K /\ L + (n - L) = n)
      /\ \A n \in 1..L : n \in 1..(L + K)
      /\ \A n \in 1..K : L + n \in 1..(L + K) /\ L + n \notin 1..L
  BY <1>2
<1>4. \A n \in DOMAIN other : (\E m \in DOMAIN records : other[n] = records[m]) \/ (\E k \in DOMAIN fresh : other[n] = fresh[k])
  <2>1. ASSUME NEW n \in DOMAIN other
        PROVE (\E m \in DOMAIN records : other[n] = records[m]) \/ (\E k \in DOMAIN fresh : other[n] = fresh[k])
    <3>1. CASE n \in 1..L
      BY <1>2, <3>1
    <3>2. CASE n - L \in 1..K /\ L + (n - L) = n
      <4>1. other[L + (n - L)] = fresh[n - L]
        BY <1>2, <3>2
      <4> QED BY <1>2, <3>2, <4>1
    <3> QED BY <1>2, <1>3, <3>1, <3>2
  <2> QED BY <2>1
<1>5. \A k \in DOMAIN fresh : \E n \in DOMAIN other : other[n] = fresh[k]
  BY <1>2, <1>3
<1>6. \A m \in DOMAIN records : \E n \in DOMAIN other : other[n] = records[m]
  BY <1>2, <1>3
<1>7. \A m \in DOMAIN records, k \in DOMAIN fresh : ~(records[m].kind = fresh[k].kind /\ records[m].name = fresh[k].name)
  <2>1. ASSUME NEW m \in DOMAIN records, NEW k \in DOMAIN fresh, records[m].kind = fresh[k].kind,
               records[m].name = fresh[k].name
        PROVE  FALSE
    <3>1. /\ m \in DOMAIN other /\ L + k \in DOMAIN other /\ other[m] = records[m] /\ other[L + k] = fresh[k]
          /\ m # L + k
      BY <1>2, <1>3
    <3> QED BY <1>1, <2>1, <3>1 DEF F!Unique
  <2> QED BY <2>1
<1> DEFINE kept == DOMAIN records
<1>8. /\ kept \in SUBSET DOMAIN records
      /\ kept = DOMAIN records \/ ReplacementFits(records, fresh, name)
      /\ \A m \in DOMAIN records \ kept : \E k \in DOMAIN fresh :
           (fresh[k].kind = "channel" <=> records[m].kind = "channel") /\ fresh[k].name = records[m].name
  OBVIOUS
<1>9. /\ \A n \in DOMAIN other : (\E m \in kept : other[n] = records[m]) \/ (\E k \in DOMAIN fresh : other[n] = fresh[k])
      /\ \A m \in kept : \E n \in DOMAIN other : other[n] = records[m]
      /\ \A m \in kept, k \in DOMAIN fresh : ~(records[m].kind = fresh[k].kind /\ records[m].name = fresh[k].name)
  BY <1>4, <1>6, <1>7
<1> HIDE DEF kept
<1>10. Combines(records, kept, fresh, other)
  BY <1>5, <1>8, <1>9 DEF Combines
<1>11. HomeFits(records, other)
  BY <1>1, <1>2, <1>8, <1>10, HomeIsKept, Zenon
<1> QED BY <1>11 DEF other

\* rotate writes in the place of the component.
LEMMA HomeIsReplaced ==
  ASSUME NEW records, F!Stored(records), NEW fresh, NEW name, FreshFits(fresh, name),
         ReplacementFits(records, fresh, name), F!Unique(F!ApplyReplacement(records, fresh))
  PROVE  HomeFits(records, F!ApplyReplacement(records, fresh))
<1> DEFINE kept == { n \in DOMAIN records : ~\E m \in DOMAIN fresh :
             (fresh[m].kind = "channel" <=> records[n].kind = "channel") /\ fresh[m].name = records[n].name }
           before == F!Chosen(records, kept)
           other == before \o fresh
           L == Len(before)
           K == Len(fresh)
<1>1. records \in Seq(F!Record) /\ fresh \in Seq(F!Record)
  BY DEF F!Stored, FreshFits
<1>2. F!ApplyReplacement(records, fresh) = other /\ F!Unique(other)
  BY DEF F!ApplyReplacement
<1>3. kept \in SUBSET DOMAIN records
  OBVIOUS
<1>4. /\ \A m \in kept, k \in DOMAIN fresh : ~(records[m].kind = fresh[k].kind /\ records[m].name = fresh[k].name)
      /\ \A m \in DOMAIN records \ kept : \E k \in DOMAIN fresh :
           (fresh[k].kind = "channel" <=> records[m].kind = "channel") /\ fresh[k].name = records[m].name
  OBVIOUS
<1> HIDE DEF kept
<1>5. /\ before \in Seq(F!Record)
      /\ \A k \in DOMAIN before : \E n \in kept : before[k] = records[n]
      /\ \A n \in kept : \E k \in DOMAIN before : before[k] = records[n]
  <2>1. /\ before \in Seq(F!Record) /\ Len(before) = Cardinality(kept)
        /\ \A k \in 1..Cardinality(kept) : \E n \in kept : F!Rank(n, kept) = k /\ before[k] = records[n]
        /\ \A n \in kept : before[F!Rank(n, kept)] = records[n]
    BY <1>1, <1>3, ChosenMembers
  <2>2. \A n \in kept : F!Rank(n, kept) \in 1..Cardinality(kept)
    <3>1. Len(records) \in Nat /\ kept \subseteq 1..Len(records)
      BY <1>1, <1>3
    <3> QED BY <3>1, RanksFit, Zenon
  <2> HIDE DEF before
  <2>3. DOMAIN before = 1..Cardinality(kept)
    BY <2>1
  <2> QED BY <2>1, <2>2, <2>3
<1> HIDE DEF before
<1>6. /\ other \in Seq(F!Record) /\ L \in Nat /\ K \in Nat /\ DOMAIN before = 1..L /\ DOMAIN fresh = 1..K
      /\ DOMAIN other = 1..(L + K) /\ (\A n \in 1..L : other[n] = before[n])
      /\ \A n \in 1..K : other[L + n] = fresh[n]
  <2>1. DOMAIN fresh = 1..Len(fresh)
    BY <1>1
  <2>2. /\ other \in Seq(F!Record) /\ L \in Nat /\ K \in Nat /\ DOMAIN before = 1..L
        /\ DOMAIN other = 1..(L + K) /\ (\A n \in 1..L : other[n] = before[n])
        /\ \A n \in 1..K : other[L + n] = fresh[n]
    BY <1>1, <1>5, BehindIs, Zenon
  <2> QED BY <2>1, <2>2
<1> HIDE DEF other, L, K
<1>7. /\ \A n \in 1..(L + K) : n \in 1..L \/ (n - L \in 1..K /\ L + (n - L) = n)
      /\ \A n \in 1..L : n \in 1..(L + K)
      /\ \A n \in 1..K : L + n \in 1..(L + K)
  BY <1>6
<1>8. ASSUME NEW n \in DOMAIN other
      PROVE (\E m \in kept : other[n] = records[m]) \/ (\E k \in DOMAIN fresh : other[n] = fresh[k])
  <2>1. CASE n \in 1..L
    BY <1>5, <1>6, <2>1
  <2>2. CASE n - L \in 1..K /\ L + (n - L) = n
    <3>1. other[L + (n - L)] = fresh[n - L]
      BY <1>6, <2>2
    <3> QED BY <1>6, <2>2, <3>1
  <2> QED BY <1>6, <1>7, <2>1, <2>2
<1>9. \A k \in DOMAIN fresh : \E n \in DOMAIN other : other[n] = fresh[k]
  BY <1>6, <1>7
<1>10. ASSUME NEW m \in kept PROVE \E n \in DOMAIN other : other[n] = records[m]
  <2>1. PICK k \in DOMAIN before : before[k] = records[m]
    BY <1>5
  <2>2. k \in DOMAIN other /\ other[k] = before[k]
    BY <1>6, <1>7
  <2> QED BY <2>1, <2>2
<1>11. /\ \A n \in DOMAIN other : (\E m \in kept : other[n] = records[m]) \/ (\E k \in DOMAIN fresh : other[n] = fresh[k])
       /\ \A m \in kept : \E n \in DOMAIN other : other[n] = records[m]
       /\ kept = DOMAIN records \/ ReplacementFits(records, fresh, name)
  BY <1>8, <1>10
<1>12. other \in Seq(F!Record) /\ F!Unique(other)
  BY <1>2, <1>6
<1>13. Combines(records, kept, fresh, other)
  BY <1>4, <1>9, <1>11 DEF Combines
<1>14. HomeFits(records, other)
  BY <1>3, <1>11, <1>12, <1>13, HomeIsKept, Zenon
<1> QED BY <1>2, <1>14
-----------------------------------------------------------------------------
LEMMA StatesHave ==
  ASSUME NEW s \in F!State
  PROVE  /\ s.kind \in {"sign-up", "enroll", "rotate", "subscribe"} /\ s.id \in States /\ s.records \in Seq(F!Record)
         /\ s.checked \in BOOLEAN
         /\ \A first, records : [[s EXCEPT !.records = first] EXCEPT !.records = records] = [s EXCEPT !.records = records]
BY DEF F!State

LEMMA StateWith ==
  ASSUME NEW s \in F!State, NEW records \in Seq(F!Record)
  PROVE  LET next == [s EXCEPT !.records = records] IN
         /\ next \in F!State /\ next.kind = s.kind /\ next.id = s.id /\ next.name = s.name
         /\ next.checked = s.checked /\ next.records = records
BY DEF F!State

LEMMA StateChecked ==
  ASSUME NEW s \in F!State, NEW records \in Seq(F!Record)
  PROVE  LET next == [s EXCEPT !.checked = TRUE, !.records = records] IN
         /\ next \in F!State /\ next.kind = s.kind /\ next.id = s.id /\ next.name = s.name
         /\ next.checked = TRUE /\ next.records = records
BY DEF F!State

LEMMA StateProven ==
  ASSUME NEW s \in F!State
  PROVE  LET next == [s EXCEPT !.checked = TRUE] IN
         /\ next \in F!State /\ next.kind = s.kind /\ next.id = s.id /\ next.name = s.name
         /\ next.checked = TRUE /\ next.records = s.records
BY DEF F!State

\* The recipient of a code is that of the first channel under its name.
LEMMA TargetIs ==
  ASSUME NEW s, NEW name, F!Context(s) \in Seq(F!Record), F!Target(s, name) # NoRecipient
  PROVE  LET channel == IF s.kind = "subscribe" THEN name ELSE FlowChannelOf[name]
             records == F!Context(s)
         IN  \E first \in DOMAIN records :
               /\ records[first].kind = "channel" /\ records[first].name = channel
               /\ F!Target(s, name) = records[first].value /\ F!Target(s, name) \in Recipients
               /\ \A n \in DOMAIN records :
                    records[n].kind = "channel" /\ records[n].name = channel => first <= n
<1> DEFINE channel == IF s.kind = "subscribe" THEN name ELSE FlowChannelOf[name]
           records == F!Context(s)
           found == { n \in DOMAIN records : records[n].kind = "channel" /\ records[n].name = channel }
           first == F!First(found)
<1>1. F!Target(s, name) = IF found = {} THEN NoRecipient ELSE records[first].value
  BY DEF F!Target
<1>2. found # {} /\ F!Target(s, name) = records[first].value
  BY <1>1
<1> HIDE DEF first, records, channel
<1>3. Len(records) \in Nat /\ found \subseteq 1..Len(records) /\ records \in Seq(F!Record) /\ DOMAIN records = 1..Len(records)
  <2>1. records \in Seq(F!Record)
    BY DEF records
  <2> QED BY <2>1
<1>4. first \in found /\ \A n \in found : first <= n
  <2> HIDE DEF found
  <2> QED BY <1>2, <1>3, FirstIsFirst DEF first
<1>5. records[first].value \in Recipients
  <2>1. records[first] \in F!Record
    BY <1>3, <1>4
  <2> QED BY <2>1 DEF F!Record
<1>6. /\ first \in DOMAIN records /\ records[first].kind = "channel" /\ records[first].name = channel
      /\ F!Target(s, name) = records[first].value /\ F!Target(s, name) \in Recipients
      /\ \A n \in DOMAIN records : records[n].kind = "channel" /\ records[n].name = channel => first <= n
  BY <1>2, <1>4, <1>5
<1> QED BY <1>6 DEF records, channel

LEMMA ContextIs ==
  ASSUME FlowsInv, NEW s \in states
  PROVE  /\ s \in F!State /\ F!Context(s) \in Seq(F!Record) /\ identities[Home] \in Seq(F!Record)
         /\ s.kind = "sign-up" => F!Context(s) = s.records
         /\ s.kind # "sign-up" => F!Context(s) = s.records \o identities[Home]
<1>1. s \in F!State /\ identities[Home] \in Seq(F!Record)
  BY DEF FlowsInv, StateFits, F!Stored
<1>2. s.records \in Seq(F!Record)
  BY <1>1, StatesHave
<1>3. s.records \o identities[Home] \in Seq(F!Record)
  BY <1>1, <1>2
<1> QED BY <1>1, <1>2, <1>3 DEF F!Context

\* What a state depends on.
LEMMA StatesStay ==
  ASSUME NEW s, StateFits(s), started \subseteq started', identities' = identities
  PROVE  StateFits(s)'
BY DEF StateFits, RotateFits

\* What a step of a flow may do to the identity of the session.
OldStays ==
  \A n \in DOMAIN identities[Home] : LET record == identities[Home][n] IN
    record.kind = "identification" /\ record.value \notin Reads =>
      \E m \in DOMAIN identities'[Home] : identities'[Home][m] = record

LEMMA NothingIsWritten ==
  ASSUME FlowsInv, states' = states, started' = started, identities' = identities, began' = began,
         CodesTyped'
  PROVE  FlowsInv' /\ OldStays
<1>1. \A s \in states' : StateFits(s)'
  BY StatesStay DEF FlowsInv
<1>2. OldStays
  BY DEF OldStays
<1>3. FlowsTyped'
  BY DEF FlowsInv, FlowsTyped
<1>4. F!AddressesAreProven' /\ F!SignUpsAreWhole'
  BY DEF FlowsInv, F!AddressesAreProven, F!SignUpsAreWhole, F!IsOf
<1>5. F!Stored(identities[Home])' /\ HomeIsProven'
  BY DEF FlowsInv, HomeIsProven
<1> QED BY <1>1, <1>2, <1>3, <1>4, <1>5 DEF FlowsInv

LEMMA StateIsHanded ==
  ASSUME FlowsInv, NEW s, states' = states \cup {s}, started \subseteq started', identities' = identities,
         began' = began, StateFits(s)',
         CodesTyped'
  PROVE  FlowsInv' /\ OldStays
<1>1. \A t \in states' : StateFits(t)'
  <2>1. \A t \in states : StateFits(t)'
    BY StatesStay DEF FlowsInv
  <2> QED BY <2>1
<1>2. OldStays
  BY DEF OldStays
<1>3. FlowsTyped'
  BY DEF FlowsInv, FlowsTyped
<1>4. F!AddressesAreProven' /\ F!SignUpsAreWhole'
  BY DEF FlowsInv, F!AddressesAreProven, F!SignUpsAreWhole, F!IsOf
<1>5. F!Stored(identities[Home])' /\ HomeIsProven'
  BY DEF FlowsInv, HomeIsProven
<1> QED BY <1>1, <1>2, <1>3, <1>4, <1>5 DEF FlowsInv

LEMMA HomeIsWritten ==
  ASSUME FlowsInv, NEW other, HomeFits(identities[Home], other), identities' = [identities EXCEPT ![Home] = other],
         states' = states, started' = started, began' = began,
         CodesTyped'
  PROVE  FlowsInv' /\ OldStays
<1> DEFINE records == identities[Home]
<1>1. /\ identities'[Home] = other /\ DOMAIN identities = States \cup {Home} /\ Home \notin States
      /\ DOMAIN identities' = DOMAIN identities
      /\ \A id \in States : identities'[id] = identities[id]
      /\ identities' = [id \in States \cup {Home} |-> identities'[id]]
  BY FlowConstants DEF FlowsInv, FlowsTyped
<1>2. OldStays
  BY <1>1 DEF HomeFits, OldStays, Identifies
<1>3. FlowsTyped'
  BY <1>1 DEF FlowsInv, FlowsTyped
<1>4. F!Stored(identities[Home])'
  BY <1>1 DEF HomeFits
<1>5. F!SignUpsAreWhole'
  <2> SUFFICES ASSUME NEW i \in States, identities'[i] # NoRecords
               PROVE  \E complete \in FlowPaths : \A step \in DOMAIN complete : \E n \in DOMAIN identities'[i] :
                        F!IsOf(identities'[i][n], complete[step]) /\ identities'[i][n].confirmed
    BY DEF F!SignUpsAreWhole, F!IsOf
  <2>1. F!SignUpsAreWhole /\ identities'[i] = identities[i]
    BY <1>1 DEF FlowsInv
  <2> QED BY <2>1 DEF F!SignUpsAreWhole
<1>6. HomeIsProven'
  <2> SUFFICES ASSUME NEW n \in DOMAIN other
               PROVE  \/ other[n].value \in Reads
                      \/ \E m \in DOMAIN began : began[m] = other[n]
                      \/ other[n].kind = "challenge" /\ other[n].name \in FlowNames /\ FlowKindOf[other[n].name] = "secret"
    BY <1>1 DEF HomeIsProven
  <2>1. \/ other[n].value \in Reads
        \/ \E m \in DOMAIN records : records[m] = other[n]
        \/ other[n].kind = "challenge" /\ other[n].name \in FlowNames /\ FlowKindOf[other[n].name] = "secret"
    BY DEF HomeFits
  <2>2. HomeIsProven
    BY DEF FlowsInv
  <2> QED BY <2>1, <2>2 DEF HomeIsProven
<1>7. F!AddressesAreProven'
  <2> SUFFICES ASSUME NEW id \in DOMAIN identities', identities'[id] # NoRecords, NEW n \in DOMAIN identities'[id]
               PROVE  LET record == identities'[id][n] IN
                      \/ record.value \in Reads
                      \/ id = Home /\ \E m \in DOMAIN began' : began'[m] = record
                      \/ record.kind = "challenge" /\ record.name \in FlowNames /\ FlowKindOf[record.name] = "secret"
    BY DEF F!AddressesAreProven
  <2>1. CASE id = Home
    BY <1>6, <2>1 DEF HomeIsProven
  <2>2. CASE id \in States
    <3>1. identities'[id] = identities[id] /\ id \in DOMAIN identities /\ id # Home
      BY <1>1, <2>2
    <3> QED BY <3>1 DEF FlowsInv, F!AddressesAreProven
  <2> QED BY <1>1, <2>1, <2>2
<1>8. ASSUME NEW s \in states PROVE StateFits(s)'
  <2>1. StateFits(s)
    BY DEF FlowsInv
  <2>2. CASE s.kind # "rotate"
    <3>1. s.kind \in {"sign-up", "enroll", "rotate", "subscribe"}
      BY <2>1, StatesHave DEF StateFits
    <3> QED BY <2>1, <2>2, <3>1 DEF StateFits
  <2>3. CASE s.kind = "rotate"
    <3>1. RotateFits(s)
      BY <2>1, <2>3 DEF StateFits
    <3>2. F!Holds(other, s.name)
      BY <3>1 DEF HomeFits, RotateFits
    <3>3. ASSUME s.checked, FlowKindOf[s.name] = "address", NEW n \in DOMAIN other, other[n].kind = "identification",
                 other[n].name = s.name
          PROVE  other[n].value \in Reads
      <4>1. other[n].value \in Reads \/ \E m \in DOMAIN records : records[m] = other[n]
        BY <3>3 DEF HomeFits
      <4> QED BY <3>1, <3>3, <4>1 DEF RotateFits, Identifies
    <3>4. RotateFits(s)'
      BY <1>1, <3>1, <3>2, <3>3 DEF RotateFits, Identifies
    <3> QED BY <2>1, <2>3, <3>4 DEF StateFits
  <2> QED BY <2>2, <2>3
<1> QED BY <1>2, <1>3, <1>4, <1>5, <1>6, <1>7, <1>8 DEF FlowsInv

LEMMA SignUpIsWritten ==
  ASSUME FlowsInv, NEW id \in States, NEW other \in Seq(F!Record), identities' = [identities EXCEPT ![id] = other],
         \A n \in DOMAIN other :
           \/ other[n].value \in Reads
           \/ other[n].kind = "challenge" /\ other[n].name \in FlowNames /\ FlowKindOf[other[n].name] = "secret",
         \E complete \in FlowPaths : \A step \in DOMAIN complete : \E n \in DOMAIN other :
           F!IsOf(other[n], complete[step]) /\ other[n].confirmed,
         states' = states, started' = started, began' = began,
         CodesTyped'
  PROVE  FlowsInv' /\ OldStays
<1>1. /\ identities'[id] = other /\ DOMAIN identities = States \cup {Home} /\ Home \notin States
      /\ DOMAIN identities' = DOMAIN identities /\ identities'[Home] = identities[Home]
      /\ \A i \in States : i # id => identities'[i] = identities[i]
      /\ identities' = [i \in States \cup {Home} |-> identities'[i]]
  BY FlowConstants DEF FlowsInv, FlowsTyped
<1>2. OldStays
  BY <1>1 DEF OldStays
<1>3. FlowsTyped'
  BY <1>1 DEF FlowsInv, FlowsTyped
<1>4. F!Stored(identities[Home])' /\ HomeIsProven'
  BY <1>1 DEF FlowsInv, HomeIsProven
<1>5. F!SignUpsAreWhole'
  <2> SUFFICES ASSUME NEW i \in States, identities'[i] # NoRecords
               PROVE  \E complete \in FlowPaths : \A step \in DOMAIN complete : \E n \in DOMAIN identities'[i] :
                        F!IsOf(identities'[i][n], complete[step]) /\ identities'[i][n].confirmed
    BY DEF F!SignUpsAreWhole, F!IsOf
  <2>1. CASE i = id
    BY <1>1, <2>1
  <2>2. CASE i # id
    <3>1. F!SignUpsAreWhole /\ identities'[i] = identities[i]
      BY <1>1, <2>2 DEF FlowsInv
    <3> QED BY <3>1 DEF F!SignUpsAreWhole
  <2> QED BY <2>1, <2>2
<1>6. F!AddressesAreProven'
  BY <1>1 DEF FlowsInv, F!AddressesAreProven
<1>7. ASSUME NEW s \in states PROVE StateFits(s)'
  <2>1. StateFits(s)
    BY DEF FlowsInv
  <2> QED BY <1>1, <2>1 DEF StateFits, RotateFits
<1> QED BY <1>2, <1>3, <1>4, <1>5, <1>6, <1>7 DEF FlowsInv
-----------------------------------------------------------------------------
LEMMA CodesStay ==
  ASSUME FlowsInv
  PROVE  /\ waiting' = waiting => CodesTyped'
         /\ \A key, value : value \in Recipients \cup {NoRecipient} /\ waiting' = [waiting EXCEPT ![key] = value] =>
              CodesTyped'
<1>1. CodesTyped
  BY DEF FlowsInv, FlowsTyped
<1>2. waiting' = waiting => CodesTyped'
  BY <1>1 DEF CodesTyped
<1>3. ASSUME NEW key, NEW value \in Recipients \cup {NoRecipient}, waiting' = [waiting EXCEPT ![key] = value]
      PROVE  CodesTyped'
  BY <1>1, <1>3 DEF CodesTyped
<1> QED BY <1>2, <1>3

\* A policy has a first step.
LEMMA SignUpsStart == SignUpFits(<<>>)
<1>1. << >> \in Seq(F!Record) /\ DOMAIN << >> = {} /\ << >> \in Seq(FlowNames) /\ Len(<< >>) = 0
  OBVIOUS
<1>2. GroupsFit(<<>>) /\ WalkedAt(<<>>) = {}
  BY <1>1 DEF GroupsFit, WalkedAt
<1>3. WaitingFits(<<>>) /\ ProvenFit(<<>>)
  BY <1>1 DEF WaitingFits, ProvenFit
<1>4. F!SignUpPath(<<>>) = <<>>
  <2>1. F!SignUpPath(<<>>) \in Seq(FlowNames) /\ Len(F!SignUpPath(<<>>)) = 0
    BY <1>1, <1>2, PathOf, FS_EmptySet
  <2> QED BY <2>1
<1>5. F!Offered(<<>>) # {}
  <2>1. PICK path \in FlowPaths : path # <<>> /\ path \in Seq(FlowNames)
    BY FlowsFit, FlowConstants DEF F!PathsGoThrough
  <2>2. ~F!IsOver(<<>>)
    <3>1. ASSUME NEW complete \in FlowPaths, F!IsPrefix(complete, <<>>) PROVE FALSE
      <4>1. complete \in Seq(FlowNames) /\ complete # <<>>
        BY FlowsFit, FlowConstants DEF F!PathsGoThrough
      <4>2. Len(complete) <= 0
        BY <1>1, <3>1, <4>1, PrefixIs
      <4> QED BY <4>1, <4>2
    <3> QED BY <3>1 DEF F!IsOver
  <2>3. F!IsStrictPrefix(<<>>, path)
    <3>1. F!IsPrefix(<<>>, path)
      <4>1. Len(<< >>) <= Len(path) /\ \A n \in 1..Len(<< >>) : << >>[n] = path[n]
        BY <2>1
      <4> QED BY <1>1, <2>1, <4>1, PrefixIs
    <3> QED BY <2>1, <3>1 DEF F!IsStrictPrefix
  <2>4. path[Len(<< >>) + 1] \in F!Offered(<<>>)
    BY <2>2, <2>3 DEF F!Offered
  <2> QED BY <2>4
<1> QED BY <1>2, <1>3, <1>4, <1>5 DEF SignUpFits

\* A flow that starts.
LEMMA FlowStarts ==
  ASSUME FlowsInv, NEW kind \in {"sign-up", "enroll", "rotate", "subscribe"}, NEW id \in States,
         NEW name \in FlowNames \cup FlowChannels \cup {NoRecipient}, NEW checked \in BOOLEAN,
         F!Started(kind, id, name, checked),
         kind = "enroll" => name \in FlowNames /\ FlowKindOf[name] # "code",
         kind = "rotate" => /\ name \in FlowNames /\ FlowKindOf[name] # "code" /\ F!Holds(identities[Home], name)
                            /\ (checked <=> FlowKindOf[name] = "secret"),
         kind = "subscribe" => name \in FlowChannels /\ ~checked
  PROVE  FlowsInv' /\ OldStays
<1> DEFINE s == [ kind |-> kind, id |-> id, name |-> name, checked |-> checked, records |-> <<>> ]
<1>1. /\ states' = states \cup {s} /\ started \subseteq started' /\ id \in started'
      /\ identities' = identities /\ began' = began /\ waiting' = waiting
  BY DEF F!Started, F!Hand
<1>2. s \in F!State
  BY DEF F!State
<1>3. s.kind = kind /\ s.id = id /\ s.name = name /\ s.checked = checked /\ s.records = <<>>
  OBVIOUS
<1> HIDE DEF s
<1>4. CASE kind = "sign-up"
  <2>1. StateFits(s)'
    BY <1>1, <1>2, <1>3, <1>4, SignUpsStart DEF StateFits
  <2> QED BY <1>1, <2>1, CodesStay, StateIsHanded
<1>5. CASE kind = "enroll"
  <2>1. StateFits(s)'
    BY <1>1, <1>2, <1>3, <1>5 DEF StateFits, OneFits
  <2> QED BY <1>1, <2>1, CodesStay, StateIsHanded
<1>6. CASE kind = "rotate"
  <2>1. FlowKindOf[name] \in {"address", "secret", "code"}
    BY <1>6, FlowConstants
  <2>2. StateFits(s)'
    BY <1>1, <1>2, <1>3, <1>6, <2>1 DEF StateFits, RotateFits, OneFits
  <2> QED BY <1>1, <2>2, CodesStay, StateIsHanded
<1>7. CASE kind = "subscribe"
  <2>1. StateFits(s)'
    BY <1>1, <1>2, <1>3, <1>7 DEF StateFits, SubscribeFits
  <2> QED BY <1>1, <2>1, CodesStay, StateIsHanded
<1> QED BY <1>4, <1>5, <1>6, <1>7

LEMMA FlowIsStarted ==
  ASSUME FlowsInv, NEW id \in States,
         \/ F!SignUp(id)
         \/ \E name \in FlowNames : F!Enroll(id, name) \/ F!Rotate(id, name)
         \/ \E channel \in FlowChannels : F!Subscribe(id, channel)
  PROVE  FlowsInv' /\ OldStays
<1>1. CASE F!SignUp(id)
  BY <1>1, FlowStarts DEF F!SignUp
<1>2. ASSUME NEW name \in FlowNames, F!Enroll(id, name) PROVE FlowsInv' /\ OldStays
  BY <1>2, FlowStarts DEF F!Enroll
<1>3. ASSUME NEW name \in FlowNames, F!Rotate(id, name) PROVE FlowsInv' /\ OldStays
  <2> DEFINE checked == F!StartsVerified(name)
  <2>1. checked \in BOOLEAN /\ (checked <=> FlowKindOf[name] = "secret")
    BY DEF F!StartsVerified
  <2>2. FlowKindOf[name] # "code" /\ F!Holds(identities[Home], name) /\ F!Started("rotate", id, name, checked)
    BY <1>3 DEF F!Rotate
  <2> HIDE DEF checked
  <2> QED BY <2>1, <2>2, FlowStarts
<1>4. ASSUME NEW channel \in FlowChannels, F!Subscribe(id, channel) PROVE FlowsInv' /\ OldStays
  BY <1>4, FlowStarts DEF F!Subscribe
<1> QED BY <1>1, <1>2, <1>3, <1>4

LEMMA SendStep ==
  ASSUME FlowsInv, NEW s \in states, NEW name, F!Send(s, name)
  PROVE  FlowsInv' /\ OldStays
<1>1. /\ F!Target(s, name) # NoRecipient /\ waiting' = [waiting EXCEPT ![<<s.id, name>>] = F!Target(s, name)]
      /\ states' = states /\ started' = started /\ identities' = identities /\ began' = began
  BY DEF F!Send
<1>2. F!Target(s, name) \in Recipients
  BY <1>1, ContextIs, TargetIs
<1>3. CodesTyped'
  BY <1>1, <1>2, CodesStay
<1> QED BY <1>1, <1>3, NothingIsWritten

\* A step of a sign-up that was answered goes on, or writes what is whole and proven.
LEMMA SignUpAdvances ==
  ASSUME FlowsInv, NEW s \in states, s.kind = "sign-up", NEW name \in FlowNames, NEW other,
         StepFits(s.records, name, other), CodesTyped',
         F!Advance([s EXCEPT !.records = other], Append(F!SignUpPath(s.records), name))
  PROVE  FlowsInv' /\ OldStays
<1> DEFINE next == [s EXCEPT !.records = other]
           path == Append(F!SignUpPath(s.records), name)
<1>1. /\ s \in F!State /\ s.id \in started /\ s.id \in States /\ s.records \in Seq(F!Record) /\ SignUpFits(s.records)
      /\ s.checked \in BOOLEAN /\ other \in Seq(F!Record)
  BY StatesHave DEF FlowsInv, StateFits, StepFits
<1>2. next \in F!State /\ next.kind = "sign-up" /\ next.id = s.id /\ next.records = other
  BY <1>1, StateWith
<1> HIDE DEF next
<1>3. IF F!IsOver(path) THEN F!Write(s.id, other)
      ELSE IF F!Offered(path) = {} THEN UNCHANGED <<states, started, identities, began>> ELSE F!Goes(next)
  <2>1. F!Advance(next, path)
    BY DEF next
  <2> QED BY <1>2, <2>1 DEF F!Advance
<1>4. CASE F!IsOver(path)
  <2>1. F!Write(s.id, other)
    BY <1>3, <1>4
  <2>2. states' = states /\ started' = started /\ began' = began
    BY <2>1 DEF F!Write
  <2>3. CASE ~F!Fits(s.id, other)
    BY <2>1, <2>2, <2>3, NothingIsWritten DEF F!Write
  <2>4. CASE F!Fits(s.id, other)
    <3>1. identities' = [identities EXCEPT ![s.id] = other] /\ F!Unique(other)
      BY <2>1, <2>4 DEF F!Write, F!Fits
    <3>2. \A n \in DOMAIN other :
            \/ other[n].value \in Reads
            \/ other[n].kind = "challenge" /\ other[n].name \in FlowNames /\ FlowKindOf[other[n].name] = "secret"
      BY <3>1, StepIsProven
    <3>3. \E complete \in FlowPaths : \A step \in DOMAIN complete : \E n \in DOMAIN other :
            F!IsOf(other[n], complete[step]) /\ other[n].confirmed
      BY <1>1, <1>4, StepIsWhole DEF SignUpFits
    <3> QED BY <1>1, <2>2, <3>1, <3>2, <3>3, SignUpIsWritten
  <2> QED BY <2>3, <2>4
<1>5. CASE ~F!IsOver(path) /\ F!Offered(path) = {}
  BY <1>3, <1>5, NothingIsWritten
<1>6. CASE ~F!IsOver(path) /\ F!Offered(path) # {}
  <2>1. states' = states \cup {next} /\ started' = started /\ identities' = identities /\ began' = began
    BY <1>3, <1>6 DEF F!Goes, F!Hand
  <2>2. SignUpFits(other)
    BY <1>6, StepGoesOn
  <2>3. StateFits(next)'
    BY <1>1, <1>2, <2>1, <2>2 DEF StateFits
  <2> QED BY <2>1, <2>3, StateIsHanded
<1> QED BY <1>4, <1>5, <1>6
-----------------------------------------------------------------------------
LEMMA NothingBefore == \A more \in Seq(F!Record) : <<>> \o more = more
OBVIOUS

\* What enroll, rotate and subscribe write.
LEMMA SecretIsFresh ==
  ASSUME NEW name \in FlowNames, FlowKindOf[name] = "secret", NEW value \in Recipients
  PROVE  LET fresh == F!Confirm(F!Collected(name, value), name) IN
         /\ FreshFits(fresh, name) /\ F!Holds(fresh, name)
         /\ \A n \in DOMAIN fresh : fresh[n].kind # "channel"
<1> DEFINE entry == F!Entry("challenge", name, value, FALSE)
           more == F!Collected(name, value)
           fresh == F!Confirm(more, name)
<1>1. more = << entry >> /\ entry \in F!Record
  BY CollectedIs
<1>2. entry.kind = "challenge" /\ entry.name = name
  BY DEF F!Entry
<1> HIDE DEF entry, more
<1>3. more \in Seq(F!Record) /\ DOMAIN more = {1} /\ more[1] = entry
  BY <1>1
<1>4. F!Holds(more, name)
  BY <1>2, <1>3 DEF F!Holds, F!IsOf
<1>5. \E first \in DOMAIN more :
           /\ F!IsOf(more[first], name)
           /\ \A n \in DOMAIN more : F!IsOf(more[n], name) => first <= n
           /\ fresh = [more EXCEPT ![first] = [more[first] EXCEPT !.confirmed = TRUE]]
           /\ fresh \in Seq(F!Record)
           /\ DOMAIN fresh = DOMAIN more
           /\ fresh[first] = [more[first] EXCEPT !.confirmed = TRUE]
           /\ \A n \in DOMAIN more \ {first} : fresh[n] = more[n]
  BY <1>3, <1>4, ConfirmIs, Zenon
<1> HIDE DEF fresh
<1>6. fresh \in Seq(F!Record) /\ DOMAIN fresh = {1} /\ fresh[1] = [entry EXCEPT !.confirmed = TRUE]
  BY <1>3, <1>5
<1>7. fresh[1].kind = "challenge" /\ fresh[1].name = name
  <2>1. \A r \in F!Record : LET p == [r EXCEPT !.confirmed = TRUE] IN p.kind = r.kind /\ p.name = r.name
    BY DEF F!Record
  <2> QED BY <1>1, <1>2, <1>6, <2>1
<1>8. name \notin F!Addresses
  BY DEF F!Addresses
<1>9. FreshFits(fresh, name) /\ F!Holds(fresh, name) /\ \A n \in DOMAIN fresh : fresh[n].kind # "channel"
  BY <1>6, <1>7, <1>8 DEF FreshFits, F!Holds, F!IsOf
<1> QED BY <1>9 DEF fresh, more

LEMMA AddressIsFresh ==
  ASSUME NEW name \in F!Addresses, NEW value \in Reads
  PROVE  LET fresh == F!Confirm(F!Collected(name, value), name) IN
         /\ FreshFits(fresh, name) /\ F!Holds(fresh, name)
         /\ \A n \in DOMAIN fresh : fresh[n].kind = "channel" => fresh[n].name = FlowChannelOf[name]
<1> DEFINE more == F!Collected(name, value)
           fresh == F!Confirm(more, name)
<1>1. /\ more \in Seq(F!Record) /\ Len(more) = 3
      /\ more[1] = F!Entry("identification", name, value, FALSE)
      /\ more[2] = F!Entry("channel", FlowChannelOf[name], value, TRUE)
      /\ more[3] = F!Entry("challenge", FlowChallengeOf[name], value, FALSE)
  BY CollectedIs, FlowConstants
<1> HIDE DEF more
<1>2. /\ DOMAIN more = 1..3 /\ 1 \in 1..3 /\ 2 \in 1..3 /\ 3 \in 1..3 /\ \A n \in 1..3 : n = 1 \/ n = 2 \/ n = 3
      /\ more[1].kind = "identification" /\ more[1].name = name /\ more[1].value = value
      /\ more[2].kind = "channel" /\ more[2].name = FlowChannelOf[name] /\ more[2].value = value
      /\ more[3].kind = "challenge" /\ more[3].name = FlowChallengeOf[name] /\ more[3].value = value
  BY <1>1 DEF F!Entry
<1>3. F!Holds(more, name)
  BY <1>2 DEF F!Holds, F!IsOf
<1>4. \E first \in DOMAIN more :
           /\ F!IsOf(more[first], name)
           /\ \A n \in DOMAIN more : F!IsOf(more[n], name) => first <= n
           /\ fresh = [more EXCEPT ![first] = [more[first] EXCEPT !.confirmed = TRUE]]
           /\ fresh \in Seq(F!Record)
           /\ DOMAIN fresh = DOMAIN more
           /\ fresh[first] = [more[first] EXCEPT !.confirmed = TRUE]
           /\ \A n \in DOMAIN more \ {first} : fresh[n] = more[n]
  BY <1>1, <1>3, ConfirmIs, Zenon
<1> HIDE DEF fresh
<1>5. /\ fresh \in Seq(F!Record) /\ DOMAIN fresh = 1..3
      /\ \A n \in 1..3 : fresh[n].kind = more[n].kind /\ fresh[n].name = more[n].name /\ fresh[n].value = more[n].value
  <2>1. \A r \in F!Record : LET p == [r EXCEPT !.confirmed = TRUE] IN
          p.kind = r.kind /\ p.name = r.name /\ p.value = r.value
    BY DEF F!Record
  <2>2. \A n \in DOMAIN more : more[n] \in F!Record
    <3>1. \A list \in Seq(F!Record) : \A n \in DOMAIN list : list[n] \in F!Record
      OBVIOUS
    <3> QED BY <1>1, <3>1, Zenon
  <2>3. \A n \in 1..3 : fresh[n] = more[n] \/ fresh[n] = [more[n] EXCEPT !.confirmed = TRUE]
    BY <1>2, <1>4
  <2> QED BY <1>2, <1>4, <2>1, <2>2, <2>3
<1>6. FlowChallengeOf[name] \in FlowNames \ F!Addresses
  BY FlowConstants
<1>7. FreshFits(fresh, name)
  <2> SUFFICES ASSUME NEW n \in 1..3
               PROVE  /\ fresh[n].value \in Reads
                      /\ fresh[n].kind = "challenge" => fresh[n].name \in FlowNames \ F!Addresses
                      /\ fresh[n].kind = "identification" =>
                           /\ fresh[n].name = name /\ name \in F!Addresses
                           /\ \E m \in DOMAIN fresh : /\ fresh[m].kind = "channel" /\ fresh[m].name = FlowChannelOf[name]
                                                      /\ fresh[m].value = fresh[n].value
    BY <1>5 DEF FreshFits
  <2>1. fresh[2].kind = "channel" /\ fresh[2].name = FlowChannelOf[name] /\ fresh[2].value = value /\ 2 \in DOMAIN fresh
    BY <1>2, <1>5
  <2>2. fresh[n].value = value
    BY <1>2, <1>5
  <2>3. fresh[n].kind = "challenge" => n = 3 /\ fresh[n].name = FlowChallengeOf[name]
    BY <1>2, <1>5
  <2>4. fresh[n].kind = "identification" => fresh[n].name = name
    BY <1>2, <1>5
  <2> QED BY <1>6, <2>1, <2>2, <2>3, <2>4
<1>8. F!Holds(fresh, name)
  <2>1. 1 \in DOMAIN fresh /\ fresh[1].kind = "identification" /\ fresh[1].name = name
    BY <1>2, <1>5
  <2> QED BY <2>1 DEF F!Holds, F!IsOf
<1>9. \A n \in DOMAIN fresh : fresh[n].kind = "channel" => fresh[n].name = FlowChannelOf[name]
  <2>1. ASSUME NEW n \in 1..3, fresh[n].kind = "channel" PROVE fresh[n].name = FlowChannelOf[name]
    BY <1>2, <1>5, <2>1
  <2> QED BY <1>5, <2>1
<1> QED BY <1>7, <1>8, <1>9 DEF fresh, more

LEMMA ChannelIsFresh ==
  ASSUME NEW channel \in FlowChannels, NEW value \in Reads, NEW name
  PROVE  FreshFits(<< [F!Pending(channel, value) EXCEPT !.confirmed = TRUE] >>, name)
<1> DEFINE r == [F!Pending(channel, value) EXCEPT !.confirmed = TRUE]
<1>1. r \in F!Record /\ r.kind = "channel" /\ r.value \in Reads
  BY FlowConstants DEF F!Pending, F!Entry, F!Record
<1> HIDE DEF r
<1>2. << r >> \in Seq(F!Record) /\ DOMAIN << r >> = {1} /\ << r >>[1] = r
  BY <1>1
<1>3. FreshFits(<< r >>, name)
  BY <1>1, <1>2 DEF FreshFits
<1> QED BY <1>3 DEF r

\* A write of a flow beside a sign-up.
LEMMA FlowIsWritten ==
  ASSUME FlowsInv, NEW other, F!Write(Home, other), CodesTyped',
         F!Unique(other) => HomeFits(identities[Home], other)
  PROVE  FlowsInv' /\ OldStays
<1>1. states' = states /\ started' = started /\ began' = began
  BY DEF F!Write
<1>2. CASE ~F!Fits(Home, other)
  BY <1>1, <1>2, NothingIsWritten DEF F!Write
<1>3. CASE F!Fits(Home, other)
  BY <1>1, <1>3, HomeIsWritten DEF F!Write, F!Fits
<1> QED BY <1>2, <1>3

\* The end of a flow of one component: enroll writes beside, rotate in the place.
LEMMA FlowAdvances ==
  ASSUME FlowsInv, NEW s \in states, s.kind \in {"enroll", "rotate", "subscribe"}, NEW fresh, NEW name, NEW path,
         FreshFits(fresh, name), CodesTyped',
         s.kind = "rotate" => ReplacementFits(identities[Home], fresh, name),
         F!Advance([s EXCEPT !.records = fresh], path)
  PROVE  FlowsInv' /\ OldStays
<1> DEFINE next == [s EXCEPT !.records = fresh]
<1>1. s \in F!State /\ fresh \in Seq(F!Record) /\ F!Stored(identities[Home])
  BY DEF FlowsInv, StateFits, FreshFits
<1>2. next.kind = s.kind /\ next.records = fresh
  BY <1>1, StateWith
<1>3. F!Advance(next, path)
  OBVIOUS
<1> HIDE DEF next
<1>4. CASE s.kind = "rotate"
  <2>1. F!Write(Home, F!ApplyReplacement(identities[Home], fresh))
    BY <1>2, <1>3, <1>4 DEF F!Advance
  <2>2. F!Unique(F!ApplyReplacement(identities[Home], fresh)) =>
          HomeFits(identities[Home], F!ApplyReplacement(identities[Home], fresh))
    BY <1>1, <1>4, HomeIsReplaced
  <2> QED BY <2>1, <2>2, FlowIsWritten
<1>5. CASE s.kind \in {"enroll", "subscribe"}
  <2>1. F!Write(Home, identities[Home] \o fresh)
    BY <1>2, <1>3, <1>5 DEF F!Advance
  <2>2. F!Unique(identities[Home] \o fresh) => HomeFits(identities[Home], identities[Home] \o fresh)
    BY <1>1, HomeGrows
  <2> QED BY <2>1, <2>2, FlowIsWritten
<1> QED BY <1>4, <1>5
-----------------------------------------------------------------------------
LEMMA CollectSignUp ==
  ASSUME FlowsInv, NEW s \in states, s.kind = "sign-up", NEW name \in FlowNames, NEW value \in Recipients,
         F!Collect(s, name, value)
  PROVE  FlowsInv' /\ OldStays
<1> DEFINE records == s.records
           more == F!Collected(name, value)
           path == F!SignUpPath(records)
<1>1. /\ s \in F!State /\ s.id \in started /\ s.id \in States /\ records \in Seq(F!Record) /\ SignUpFits(records)
  BY StatesHave DEF FlowsInv, StateFits
<1>2. waiting' = waiting /\ CodesTyped'
  BY CodesStay DEF F!Collect
<1>3. /\ name \in F!Offered(path) /\ \A step \in F!Offered(path) : ~F!IsPending(records, step)
      /\ ~F!Holds(records, name) /\ FlowKindOf[name] # "code"
  BY DEF F!Collect, F!AwaitsValidation, F!SignUpStepPending, F!Steps
<1>4. LET next == [s EXCEPT !.records = @ \o more] IN
      IF FlowKindOf[name] = "address" THEN F!Goes(next)
      ELSE F!Advance([next EXCEPT !.records = F!Confirm(@, name)], Append(path, name))
  BY DEF F!Collect
<1>5. CASE FlowKindOf[name] = "address"
  <2> DEFINE other == records \o more
             next == [s EXCEPT !.records = other]
  <2>1. name \in F!Addresses
    BY <1>5 DEF F!Addresses
  <2>2. SignUpFits(other)
    BY <1>1, <1>3, <2>1, CollectAddress
  <2>3. more \in Seq(F!Record)
    BY <2>1, CollectedIs
  <2>4. other \in Seq(F!Record)
    BY <1>1, <2>3
  <2>5. F!Goes(next)
    BY <1>4, <1>5
  <2> HIDE DEF other
  <2>6. next \in F!State /\ next.kind = "sign-up" /\ next.id = s.id /\ next.records = other
    BY <1>1, <2>4, StateWith
  <2> HIDE DEF next
  <2>7. states' = states \cup {next} /\ started' = started /\ identities' = identities /\ began' = began
    BY <2>5 DEF F!Goes, F!Hand
  <2>8. StateFits(next)'
    BY <1>1, <2>2, <2>6, <2>7 DEF StateFits
  <2> QED BY <1>2, <2>7, <2>8, StateIsHanded
<1>6. CASE FlowKindOf[name] # "address"
  <2> DEFINE other == F!Confirm(records \o more, name)
  <2>1. FlowKindOf[name] = "secret"
    BY <1>3, <1>6, FlowConstants
  <2>2. StepFits(records, name, other)
    BY <1>1, <1>3, <2>1, CollectSecret
  <2>3. F!Advance([[s EXCEPT !.records = records \o more] EXCEPT !.records = other], Append(path, name))
    <3>1. [[s EXCEPT !.records = @ \o more] EXCEPT !.records = F!Confirm(@, name)] =
            [[s EXCEPT !.records = records \o more] EXCEPT !.records = other]
      BY <1>1 DEF F!State
    <3> QED BY <1>4, <1>6, <3>1
  <2> HIDE DEF other
  <2>4. F!Advance([s EXCEPT !.records = other], Append(path, name))
    BY <1>1, <2>3, StatesHave
  <2> QED BY <1>2, <2>2, <2>4, SignUpAdvances
<1> QED BY <1>5, <1>6

LEMMA CollectOne ==
  ASSUME FlowsInv, NEW s \in states, s.kind \in {"enroll", "rotate"}, NEW name \in FlowNames, NEW value \in Recipients,
         F!Collect(s, name, value)
  PROVE  FlowsInv' /\ OldStays
<1> DEFINE more == F!Collected(name, value)
           path == Append(F!SignUpPath(s.records), name)
<1>1. /\ s \in F!State /\ StateFits(s) /\ OneFits(s) /\ s.id \in started
      /\ s.kind = "rotate" => RotateFits(s)
  BY DEF FlowsInv, StateFits, RotateFits
<1>2. waiting' = waiting /\ CodesTyped'
  BY CodesStay DEF F!Collect
<1>3. /\ name = s.name /\ s.records = <<>> /\ FlowKindOf[name] # "code"
      /\ s.kind = "rotate" => s.checked
  BY DEF F!Collect, F!AwaitsValidation, F!Steps
<1>4. LET next == [s EXCEPT !.records = @ \o more] IN
      IF FlowKindOf[name] = "address" THEN F!Goes(next)
      ELSE F!Advance([next EXCEPT !.records = F!Confirm(@, name)], path)
  BY DEF F!Collect
<1>5. CASE FlowKindOf[name] = "address"
  <2> DEFINE next == [s EXCEPT !.records = more]
  <2>1. name \in F!Addresses
    BY <1>5 DEF F!Addresses
  <2>2. more \in Seq(F!Record)
    BY <2>1, CollectedIs
  <2>3. s.records \o more = more
    BY <1>3, <2>2, NothingBefore
  <2>4. F!Goes(next)
    BY <1>4, <1>5, <2>3
  <2>5. next \in F!State /\ next.kind = s.kind /\ next.id = s.id /\ next.name = name /\ next.checked = s.checked
        /\ next.records = more
    BY <1>1, <1>3, <2>2, StateWith
  <2> HIDE DEF next
  <2>6. states' = states \cup {next} /\ started' = started /\ identities' = identities /\ began' = began
    BY <2>4 DEF F!Goes, F!Hand
  <2>7. OneFits(next)
    BY <1>5, <2>5 DEF OneFits
  <2>8. s.kind = "rotate" => RotateFits(next)
    BY <1>1, <1>3, <2>5, <2>7 DEF RotateFits
  <2>9. StateFits(next)'
    <3>1. CASE s.kind = "enroll"
      BY <1>1, <2>5, <2>6, <2>7, <3>1 DEF StateFits, OneFits
    <3>2. CASE s.kind = "rotate"
      <4>1. RotateFits(next)'
        BY <2>6, <2>8, <3>2 DEF RotateFits
      <4> QED BY <1>1, <2>5, <2>6, <3>2, <4>1 DEF StateFits
    <3> QED BY <3>1, <3>2
  <2> QED BY <1>2, <2>6, <2>9, StateIsHanded
<1>6. CASE FlowKindOf[name] # "address"
  <2> DEFINE fresh == F!Confirm(more, name)
  <2>1. FlowKindOf[name] = "secret"
    BY <1>3, <1>6, FlowConstants
  <2>2. FreshFits(fresh, name) /\ F!Holds(fresh, name) /\ \A n \in DOMAIN fresh : fresh[n].kind # "channel"
    BY <2>1, SecretIsFresh
  <2>3. s.records \o more = more
    <3>1. more \in Seq(F!Record)
      <4>1. \A r \in F!Record : << r >> \in Seq(F!Record)
        OBVIOUS
      <4>2. more = << F!Entry("challenge", name, value, FALSE) >> /\ F!Entry("challenge", name, value, FALSE) \in F!Record
        BY <2>1, CollectedIs
      <4> QED BY <4>1, <4>2, Zenon
    <3> QED BY <1>3, <3>1, NothingBefore
  <2>4. F!Advance([[s EXCEPT !.records = more] EXCEPT !.records = fresh], path)
    <3>1. [[s EXCEPT !.records = @ \o more] EXCEPT !.records = F!Confirm(@, name)] =
            [[s EXCEPT !.records = more] EXCEPT !.records = fresh]
      BY <1>1, <2>3 DEF F!State
    <3> QED BY <1>4, <1>6, <3>1
  <2> HIDE DEF fresh
  <2>5. F!Advance([s EXCEPT !.records = fresh], path)
    BY <1>1, <2>4, StatesHave
  <2>6. s.kind = "rotate" => ReplacementFits(identities[Home], fresh, name)
    <3> SUFFICES ASSUME s.kind = "rotate" PROVE ReplacementFits(identities[Home], fresh, name)
      OBVIOUS
    <3>1. F!Holds(identities[Home], name)
      BY <1>1, <1>3 DEF RotateFits
    <3>2. \A n : Identifies(identities[Home], n) => identities[Home][n].name # name
      <4>1. F!Stored(identities[Home]) /\ name \notin F!Addresses
        BY <2>1 DEF FlowsInv, F!Addresses
      <4> QED BY <4>1 DEF F!Stored, Identifies
    <3> QED BY <2>2, <3>1, <3>2 DEF ReplacementFits
  <2> HIDE DEF path
  <2> QED BY <1>2, <2>2, <2>5, <2>6, FlowAdvances
<1> QED BY <1>5, <1>6

LEMMA CollectStep ==
  ASSUME FlowsInv, NEW s \in states, NEW name \in FlowNames, NEW value \in Recipients, F!Collect(s, name, value)
  PROVE  FlowsInv' /\ OldStays
<1>1. s.kind \in {"sign-up", "enroll", "rotate", "subscribe"} /\ s.kind # "subscribe"
  BY StatesHave DEF FlowsInv, StateFits, F!Collect
<1> QED BY <1>1, CollectSignUp, CollectOne

LEMMA CollectRecipientStep ==
  ASSUME FlowsInv, NEW s \in states, NEW value \in Recipients, F!CollectRecipient(s, value)
  PROVE  FlowsInv' /\ OldStays
<1> DEFINE records == << F!Pending(s.name, value) >>
           next == [s EXCEPT !.checked = TRUE, !.records = records]
<1>1. s.kind = "subscribe" /\ s \in F!State /\ s.id \in started /\ s.name \in FlowChannels
  BY DEF FlowsInv, StateFits, SubscribeFits, F!CollectRecipient
<1>2. F!Goes(next) /\ CodesTyped'
  BY CodesStay DEF F!CollectRecipient
<1>3. records \in Seq(F!Record)
  <2>1. F!Pending(s.name, value) \in F!Record
    BY <1>1 DEF F!Pending, F!Entry, F!Record
  <2> QED BY <2>1
<1>4. \E v \in Recipients : records = << F!Pending(s.name, v) >>
  OBVIOUS
<1> HIDE DEF records
<1>5. next \in F!State /\ next.kind = "subscribe" /\ next.id = s.id /\ next.name = s.name /\ next.checked
      /\ next.records = records
  BY <1>1, <1>3, StateChecked
<1> HIDE DEF next
<1>6. states' = states \cup {next} /\ started' = started /\ identities' = identities /\ began' = began
  BY <1>2 DEF F!Goes, F!Hand
<1>7. StateFits(next)'
  BY <1>1, <1>4, <1>5, <1>6 DEF StateFits, SubscribeFits
<1> QED BY <1>2, <1>6, <1>7, StateIsHanded
-----------------------------------------------------------------------------
\* A code that comes back proves the recipient the state names.
LEMMA CodeIsRight ==
  ASSUME FlowsInv, NEW s \in states, NEW name, F!Prove(s, name)
  PROVE  /\ F!Target(s, name) # NoRecipient /\ F!Target(s, name) \in Reads
         /\ CodesTyped'
<1>1. /\ F!Target(s, name) # NoRecipient /\ F!Target(s, name) \in Reads
      /\ waiting' = [waiting EXCEPT ![<<s.id, name>>] = NoRecipient]
  BY DEF F!Prove, F!Matches
<1> QED BY <1>1, CodesStay

LEMMA ProveSignUp ==
  ASSUME FlowsInv, NEW s \in states, s.kind = "sign-up", NEW name, F!Prove(s, name)
  PROVE  FlowsInv' /\ OldStays
<1> DEFINE records == s.records
           path == F!SignUpPath(records)
           other == F!Confirm(records, name)
<1>1. s \in F!State /\ records \in Seq(F!Record) /\ SignUpFits(records)
  BY StatesHave DEF FlowsInv, StateFits
<1>2. name \in F!Offered(path) /\ F!Holds(records, name) /\ FlowKindOf[name] # "secret"
  BY DEF F!Prove, F!Validates, F!Steps
<1>3. F!Advance([s EXCEPT !.records = other], Append(path, name))
  BY <1>1 DEF F!Prove, F!State
<1>4. name \in FlowNames
  <2>1. path \in Seq(FlowNames)
    BY <1>1, PathOf DEF SignUpFits
  <2> QED BY <1>2, <2>1, OfferedIs
<1>5. ASSUME ~ChannelTwice(records), NEW n, IsChannel(records, n), records[n].name = FlowChannelOf[name]
      PROVE  records[n].value \in Reads
  <2>1. F!Context(s) = records /\ F!Context(s) \in Seq(F!Record)
    BY ContextIs
  <2>2. F!Target(s, name) # NoRecipient /\ F!Target(s, name) \in Reads
    BY CodeIsRight
  <2>3. PICK first \in DOMAIN records :
          /\ records[first].kind = "channel" /\ records[first].name = FlowChannelOf[name]
          /\ F!Target(s, name) = records[first].value
    BY <2>1, <2>2, TargetIs
  <2>4. first = n
    BY <1>5, <2>3 DEF ChannelTwice, IsChannel
  <2> QED BY <2>2, <2>3, <2>4
<1>6. StepFits(records, name, other)
  BY <1>1, <1>2, <1>5, ProveStep
<1> HIDE DEF other
<1> QED BY <1>3, <1>4, <1>6, CodeIsRight, SignUpAdvances

\* An address that enroll or rotate collected is the recipient of its code.
LEMMA ProveOne ==
  ASSUME FlowsInv, NEW s \in states, s.kind \in {"enroll", "rotate"}, s.kind = "rotate" => s.checked, NEW name,
         F!Prove(s, name)
  PROVE  FlowsInv' /\ OldStays
<1> DEFINE fresh == F!Confirm(s.records, name)
           path == Append(F!SignUpPath(s.records), name)
<1>1. /\ s \in F!State /\ OneFits(s)
      /\ s.kind = "rotate" => RotateFits(s)
  BY DEF FlowsInv, StateFits, RotateFits
<1>2. name = s.name /\ F!IsPending(s.records, name)
  BY DEF F!Prove, F!Validates, F!AwaitsValidation, F!Steps
<1>3. F!Advance([s EXCEPT !.records = fresh], path)
  <2>1. ~(s.kind = "rotate" /\ ~s.checked) /\ s.kind # "subscribe"
    OBVIOUS
  <2>2. F!Advance([s EXCEPT !.records =
                     IF s.kind = "subscribe" THEN << [@[1] EXCEPT !.confirmed = TRUE] >> ELSE F!Confirm(@, name)], path)
    BY <2>1 DEF F!Prove
  <2>3. [s EXCEPT !.records =
                     IF s.kind = "subscribe" THEN << [@[1] EXCEPT !.confirmed = TRUE] >> ELSE F!Confirm(@, name)]
          = [s EXCEPT !.records = fresh]
    BY <1>1, <2>1 DEF F!State
  <2> QED BY <2>2, <2>3
<1>4. s.records # <<>>
  BY <1>2 DEF F!IsPending
<1>5. PICK value \in Recipients : s.records = F!Collected(name, value) /\ FlowKindOf[name] = "address" /\ name \in F!Addresses
  BY <1>1, <1>2, <1>4 DEF OneFits, F!Addresses
<1>6. value \in Reads
  <2>1. F!Context(s) = s.records \o identities[Home] /\ F!Context(s) \in Seq(F!Record)
        /\ identities[Home] \in Seq(F!Record)
    BY ContextIs
  <2>2. F!Target(s, name) # NoRecipient /\ F!Target(s, name) \in Reads
    BY CodeIsRight
  <2>3. \E first \in DOMAIN F!Context(s) :
          /\ F!Target(s, name) = F!Context(s)[first].value
          /\ F!Context(s)[first].kind = "channel" /\ F!Context(s)[first].name = FlowChannelOf[name]
          /\ \A n \in DOMAIN F!Context(s) :
               F!Context(s)[n].kind = "channel" /\ F!Context(s)[n].name = FlowChannelOf[name] => first <= n
    <3>1. s.kind # "subscribe"
      OBVIOUS
    <3> QED BY <2>1, <2>2, <3>1, TargetIs
  <2> DEFINE records == F!Context(s)
             more == F!Collected(name, value)
             home == identities[Home]
  <2>4. /\ more \in Seq(F!Record) /\ Len(more) = 3 /\ more[1].kind = "identification"
        /\ more[2].kind = "channel" /\ more[2].name = FlowChannelOf[name] /\ more[2].value = value
    <3>1. /\ more \in Seq(F!Record) /\ Len(more) = 3
          /\ more[1] = F!Entry("identification", name, value, FALSE)
          /\ more[2] = F!Entry("channel", FlowChannelOf[name], value, TRUE)
      BY <1>5, CollectedIs
    <3> HIDE DEF more
    <3> QED BY <3>1 DEF F!Entry
  <2>5. records = more \o home /\ home \in Seq(F!Record)
    BY <1>5, <2>1
  <2>6. \E first \in DOMAIN records :
          /\ F!Target(s, name) = records[first].value
          /\ records[first].kind = "channel"
          /\ \A n \in DOMAIN records : records[n].kind = "channel" /\ records[n].name = FlowChannelOf[name] => first <= n
    BY <2>3
  <2> HIDE DEF records, more, home
  <2>7. /\ Len(home) \in Nat /\ DOMAIN records = 1..(3 + Len(home))
        /\ records[1] = more[1] /\ records[2] = more[2]
    <3>1. /\ Len(home) \in Nat /\ DOMAIN (more \o home) = 1..(Len(more) + Len(home))
          /\ \A n \in 1..Len(more) : (more \o home)[n] = more[n]
      BY <2>4, <2>5, BehindIs, Zenon
    <3>2. 1 \in 1..3 /\ 2 \in 1..3
      OBVIOUS
    <3> QED BY <2>4, <2>5, <3>1, <3>2
  <2>8. 2 \in DOMAIN records /\ 1 \in DOMAIN records
    BY <2>7
  <2>9. PICK first \in DOMAIN records :
          /\ F!Target(s, name) = records[first].value
          /\ records[first].kind = "channel"
          /\ \A n \in DOMAIN records : records[n].kind = "channel" /\ records[n].name = FlowChannelOf[name] => first <= n
    BY <2>6
  <2>10. first <= 2 /\ first # 1
    BY <2>9, <2>4, <2>7, <2>8
  <2>11. first = 2
    BY <2>7, <2>10
  <2> QED BY <2>2, <2>4, <2>7, <2>11, <2>9
<1>7. /\ FreshFits(fresh, name) /\ F!Holds(fresh, name)
      /\ \A n \in DOMAIN fresh : fresh[n].kind = "channel" => fresh[n].name = FlowChannelOf[name]
  BY <1>5, <1>6, AddressIsFresh
<1> HIDE DEF fresh, path
<1>8. s.kind = "rotate" => ReplacementFits(identities[Home], fresh, name)
  <2> SUFFICES ASSUME s.kind = "rotate" PROVE ReplacementFits(identities[Home], fresh, name)
    OBVIOUS
  <2>1. /\ F!Holds(identities[Home], name)
        /\ \A n \in DOMAIN identities[Home] :
             Identifies(identities[Home], n) /\ identities[Home][n].name = name => identities[Home][n].value \in Reads
    BY <1>1, <1>2, <1>5 DEF RotateFits
  <2> QED BY <1>5, <1>7, <2>1 DEF ReplacementFits, Identifies
<1> QED BY <1>3, <1>7, <1>8, CodeIsRight, FlowAdvances

\* The first code of a rotate proves the address it replaces.
LEMMA ProveOld ==
  ASSUME FlowsInv, NEW s \in states, s.kind = "rotate", ~s.checked, NEW name, F!Prove(s, name)
  PROVE  FlowsInv' /\ OldStays
<1> DEFINE next == [s EXCEPT !.checked = TRUE]
           records == identities[Home]
<1>1. /\ s \in F!State /\ s.id \in started /\ RotateFits(s) /\ F!Stored(records)
  BY DEF FlowsInv, StateFits
<1>2. name = s.name /\ FlowKindOf[name] = "address" /\ s.records = <<>>
  BY <1>1 DEF F!Prove, F!Validates, F!Steps, RotateFits
<1>3. F!Goes(next) /\ CodesTyped'
  BY CodeIsRight DEF F!Prove
<1>4. next \in F!State /\ next.kind = "rotate" /\ next.id = s.id /\ next.name = name /\ next.checked
      /\ next.records = <<>>
  BY <1>1, <1>2, StateProven
<1> HIDE DEF next
<1>5. states' = states \cup {next} /\ started' = started /\ identities' = identities /\ began' = began
  BY <1>3 DEF F!Goes, F!Hand
<1>6. ASSUME NEW n \in DOMAIN records, records[n].kind = "identification", records[n].name = name
      PROVE  records[n].value \in Reads
  <2>1. F!Context(s) = records
    BY <1>2, ContextIs, NothingBefore
  <2>2. F!Target(s, name) # NoRecipient /\ F!Target(s, name) \in Reads
    BY CodeIsRight
  <2>3. F!Context(s) \in Seq(F!Record)
    BY ContextIs
  <2>4. PICK first \in DOMAIN records :
          /\ records[first].kind = "channel" /\ records[first].name = FlowChannelOf[name]
          /\ F!Target(s, name) = records[first].value
    BY <2>1, <2>2, <2>3, TargetIs
  <2>5. PICK m \in DOMAIN records :
          /\ records[m].kind = "channel" /\ records[m].name = FlowChannelOf[name] /\ records[m].value = records[n].value
    BY <1>1, <1>6 DEF F!Stored
  <2>6. first = m
    BY <1>1, <2>4, <2>5 DEF F!Stored, F!Unique
  <2> QED BY <2>2, <2>4, <2>5, <2>6
<1>7. StateFits(next)'
  <2>1. RotateFits(next)
    BY <1>1, <1>2, <1>4, <1>6 DEF RotateFits, OneFits, Identifies
  <2>2. RotateFits(next)'
    BY <1>5, <2>1 DEF RotateFits
  <2> QED BY <1>1, <1>4, <1>5, <2>2 DEF StateFits
<1> QED BY <1>3, <1>5, <1>7, StateIsHanded

LEMMA ProveRecipient ==
  ASSUME FlowsInv, NEW s \in states, s.kind = "subscribe", NEW name, F!Prove(s, name)
  PROVE  FlowsInv' /\ OldStays
<1> DEFINE path == Append(F!SignUpPath(s.records), name)
<1>1. s \in F!State /\ SubscribeFits(s)
  BY DEF FlowsInv, StateFits
<1>2. name = s.name /\ s.checked /\ s.name \in FlowChannels
  BY <1>1 DEF F!Prove, F!Validates, F!AwaitsValidation, F!Steps, SubscribeFits
<1>3. PICK value \in Recipients : s.records = << F!Pending(s.name, value) >>
  BY <1>1, <1>2 DEF SubscribeFits
<1> DEFINE r == F!Pending(s.name, value)
           fresh == << [r EXCEPT !.confirmed = TRUE] >>
<1>4. F!Advance([s EXCEPT !.records = fresh], path)
  <2>1. F!Advance([s EXCEPT !.records =
                     IF s.kind = "subscribe" THEN << [@[1] EXCEPT !.confirmed = TRUE] >> ELSE F!Confirm(@, name)], path)
    BY DEF F!Prove
  <2>2. s.records[1] = r
    BY <1>3
  <2>3. [s EXCEPT !.records =
                     IF s.kind = "subscribe" THEN << [@[1] EXCEPT !.confirmed = TRUE] >> ELSE F!Confirm(@, name)]
          = [s EXCEPT !.records = << [s.records[1] EXCEPT !.confirmed = TRUE] >>]
    BY <1>1 DEF F!State
  <2> QED BY <2>1, <2>2, <2>3
<1>5. value \in Reads
  <2>1. F!Context(s) = s.records \o identities[Home] /\ F!Context(s) \in Seq(F!Record)
        /\ identities[Home] \in Seq(F!Record)
    BY ContextIs
  <2>2. F!Target(s, name) # NoRecipient /\ F!Target(s, name) \in Reads
    BY CodeIsRight
  <2> DEFINE records == F!Context(s)
  <2>3. PICK first \in DOMAIN records :
          /\ F!Target(s, name) = records[first].value
          /\ \A n \in DOMAIN records : records[n].kind = "channel" /\ records[n].name = name => first <= n
    BY <2>1, <2>2, TargetIs
  <2>4. r \in F!Record /\ r.kind = "channel" /\ r.name = name /\ r.value = value
    BY <1>2 DEF F!Pending, F!Entry, F!Record
  <2>5. records = << r >> \o identities[Home]
    BY <1>3, <2>1
  <2> HIDE DEF records, r
  <2>6. Len(identities[Home]) \in Nat /\ DOMAIN records = 1..(1 + Len(identities[Home])) /\ records[1] = r
    BY <2>1, <2>4, <2>5
  <2>7. 1 \in DOMAIN records
    BY <2>6
  <2>8. first = 1
    BY <2>3, <2>4, <2>6, <2>7
  <2> QED BY <2>2, <2>3, <2>4, <2>6, <2>8
<1>6. FreshFits(fresh, name)
  BY <1>2, <1>5, ChannelIsFresh
<1> HIDE DEF fresh, path
<1> QED BY <1>4, <1>6, CodeIsRight, FlowAdvances

LEMMA ProveAnyStep ==
  ASSUME FlowsInv, NEW s \in states, NEW name, F!Prove(s, name)
  PROVE  FlowsInv' /\ OldStays
<1>1. s.kind \in {"sign-up", "enroll", "rotate", "subscribe"}
  BY StatesHave DEF FlowsInv, StateFits
<1> QED BY <1>1, ProveSignUp, ProveOne, ProveOld, ProveRecipient

LEMMA FlowStep ==
  ASSUME FlowsInv, F!Next
  PROVE  FlowsInv' /\ OldStays
<1>1. ASSUME NEW id \in States,
             \/ F!SignUp(id)
             \/ \E name \in FlowNames : F!Enroll(id, name) \/ F!Rotate(id, name)
             \/ \E channel \in FlowChannels : F!Subscribe(id, channel)
      PROVE  FlowsInv' /\ OldStays
  BY <1>1, FlowIsStarted
<1>2. ASSUME NEW s \in states, NEW name, F!Send(s, name) PROVE FlowsInv' /\ OldStays
  BY <1>2, SendStep
<1>3. ASSUME NEW s \in states, NEW name, F!Prove(s, name) PROVE FlowsInv' /\ OldStays
  BY <1>3, ProveAnyStep
<1>4. ASSUME NEW s \in states, NEW value \in Recipients, F!CollectRecipient(s, value) PROVE FlowsInv' /\ OldStays
  BY <1>4, CollectRecipientStep
<1>5. ASSUME NEW s \in states, NEW value \in Recipients, NEW name \in FlowNames, F!Collect(s, name, value)
      PROVE  FlowsInv' /\ OldStays
  BY <1>5, CollectStep
<1> QED BY <1>1, <1>2, <1>3, <1>4, <1>5 DEF F!Next

LEMMA FlowsBegin ==
  ASSUME F!Init
  PROVE  FlowsInv
<1>1. /\ states = {} /\ waiting = [key \in States \X (FlowNames \cup FlowChannels) |-> NoRecipient]
      /\ began \in Homes /\ identities = [id \in States \cup {Home} |-> IF id = Home THEN began ELSE NoRecords]
  BY DEF F!Init
<1>2. identities[Home] = began /\ (\A id \in States : identities[id] = NoRecords) /\ DOMAIN identities = States \cup {Home}
  BY <1>1, FlowConstants
<1>3. F!Stored(identities[Home]) /\ HomeIsProven
  BY <1>1, <1>2, FlowsFit DEF F!HomesFit, HomeIsProven
<1>4. FlowsTyped
  BY <1>1, <1>2 DEF FlowsTyped, CodesTyped
<1>5. F!SignUpsAreWhole
  BY <1>2 DEF F!SignUpsAreWhole
<1>6. F!AddressesAreProven
  BY <1>2 DEF F!AddressesAreProven
<1> QED BY <1>1, <1>3, <1>4, <1>5, <1>6 DEF FlowsInv

\* What the runs check of a state follows.
LEMMA FlowsInvSays ==
  ASSUME FlowsInv
  PROVE  FlowsAreProven
<1>1. F!TypeOK
  <2>1. ASSUME NEW s \in states
        PROVE  /\ s.kind \in {"sign-up", "enroll", "rotate", "subscribe"} /\ s.id \in started
               /\ F!IsSeqOf(s.records, F!Record)
               /\ s.kind # "sign-up" => \A n \in DOMAIN s.records :
                    s.records[n].confirmed => s.records[n].kind = "channel" /\ s.kind # "subscribe"
    <3>1. /\ s \in F!State /\ s.id \in started /\ s.records \in Seq(F!Record)
          /\ s.kind \in {"sign-up", "enroll", "rotate", "subscribe"}
      BY StatesHave DEF FlowsInv, StateFits
    <3>2. F!IsSeqOf(s.records, F!Record)
      BY <3>1 DEF F!IsSeqOf
    <3>3. CASE s.kind \in {"enroll", "rotate"}
      <4>1. OneFits(s)
        BY <3>3 DEF FlowsInv, StateFits, RotateFits
      <4>2. CASE s.records = <<>>
        BY <3>1, <3>2, <4>2
      <4>3. CASE FlowKindOf[s.name] = "address" /\ \E value \in Recipients : s.records = F!Collected(s.name, value)
        <5>1. PICK value \in Recipients : s.records = F!Collected(s.name, value) /\ s.name \in F!Addresses
          BY <4>1, <4>3 DEF OneFits, F!Addresses
        <5>2. /\ Len(s.records) = 3 /\ ~s.records[1].confirmed /\ s.records[2].kind = "channel" /\ ~s.records[3].confirmed
          <6>1. /\ Len(s.records) = 3 /\ s.records[1] = F!Entry("identification", s.name, value, FALSE)
                /\ s.records[2] = F!Entry("channel", FlowChannelOf[s.name], value, TRUE)
                /\ s.records[3] = F!Entry("challenge", FlowChallengeOf[s.name], value, FALSE)
            BY <5>1, CollectedIs
          <6> QED BY <6>1 DEF F!Entry
        <5>3. \A n \in DOMAIN s.records : n = 1 \/ n = 2 \/ n = 3
          BY <3>1, <5>2
        <5> QED BY <3>1, <3>2, <3>3, <5>2, <5>3
      <4> QED BY <4>1, <4>2, <4>3 DEF OneFits
    <3>4. CASE s.kind = "subscribe"
      <4>1. SubscribeFits(s)
        BY <3>4 DEF FlowsInv, StateFits
      <4>2. \A n \in DOMAIN s.records : ~s.records[n].confirmed
        <5>1. CASE s.records = <<>>
          BY <5>1
        <5>2. CASE \E value \in Recipients : s.records = << F!Pending(s.name, value) >>
          BY <5>2 DEF F!Pending, F!Entry
        <5> QED BY <4>1, <5>1, <5>2 DEF SubscribeFits
      <4> QED BY <3>1, <3>2, <4>2
    <3> QED BY <3>1, <3>2, <3>3, <3>4
  <2>2. ASSUME NEW id \in DOMAIN identities, identities[id] # NoRecords PROVE F!IsSeqOf(identities[id], F!Record)
    <3>1. DOMAIN identities = States \cup {Home}
      BY DEF FlowsInv, FlowsTyped
    <3>2. identities[id] \in Seq(F!Record)
      BY <2>2, <3>1 DEF FlowsInv, FlowsTyped, F!Stored
    <3> QED BY <3>2 DEF F!IsSeqOf
  <2>3. \A key \in DOMAIN waiting : waiting[key] \in Recipients \cup {NoRecipient}
    BY DEF FlowsInv, FlowsTyped, CodesTyped
  <2> QED BY <2>1, <2>2, <2>3 DEF F!TypeOK
<1>2. F!NoDeadEnd
  <2> SUFFICES ASSUME NEW s \in states, s.kind = "sign-up" PROVE \E name \in F!Steps(s) : F!CanAnswer(s, name)
    BY DEF F!NoDeadEnd
  <2> DEFINE records == s.records
             path == F!SignUpPath(records)
  <2>1. records \in Seq(F!Record) /\ SignUpFits(records)
    BY StatesHave DEF FlowsInv, StateFits
  <2>2. F!Steps(s) = F!Offered(path)
    BY DEF F!Steps
  <2>3. F!AwaitsValidation(s) <=> \E name \in F!Offered(path) : F!IsPending(records, name)
    BY <2>2 DEF F!AwaitsValidation, F!SignUpStepPending
  <2>4. CASE F!AwaitsValidation(s)
    <3>1. PICK name \in F!Offered(path) : F!IsPending(records, name)
      BY <2>3, <2>4
    <3>2. F!Holds(records, name)
      BY <3>1 DEF F!IsPending, F!Holds
    <3> QED BY <2>2, <2>4, <3>1, <3>2 DEF F!CanAnswer
  <2>5. CASE ~F!AwaitsValidation(s)
    <3>1. PICK name \in F!Offered(path) : TRUE
      BY <2>1 DEF SignUpFits
    <3>2. ~F!Holds(records, name)
      BY <2>1, <2>3, <2>5, NothingWaits
    <3>3. FlowKindOf[name] # "code"
      BY <2>1, <3>2, CodeIsHeld DEF SignUpFits
    <3> QED BY <2>2, <2>5, <3>1, <3>2, <3>3 DEF F!CanAnswer
  <2> QED BY <2>4, <2>5
<1> QED BY <1>1, <1>2 DEF FlowsAreProven, F!FlowsAreProven, FlowsInv

LEMMA FlowsInvHolds == F!Spec => []FlowsInv
<1>1. FlowsInv /\ [F!Next]_(F!vars) => FlowsInv'
  <2> SUFFICES ASSUME FlowsInv, [F!Next]_(F!vars) PROVE FlowsInv'
    OBVIOUS
  <2>1. CASE F!Next
    BY <2>1, FlowStep
  <2>2. CASE UNCHANGED F!vars
    BY <2>2, NothingIsWritten, CodesStay DEF F!vars
  <2> QED BY <2>1, <2>2
<1> QED BY <1>1, FlowsBegin, PTL DEF F!Spec

\* The code of a flow proves the value that it writes, a sign-up that is stored holds a proven
\* record for each step of a path, and none that is under way is stuck: whichever of its
\* states are sent, and in whatever order (#submitPromptStep, #submitValidationStep).
THEOREM FlowsWriteWhatIsProven == F!Spec => []FlowsAreProven
BY FlowsInvHolds, FlowsInvSays, PTL

\* Who holds the session and does not read its address does not rotate the address away: the
\* first code of a rotate goes to the address it replaces.
THEOREM RotatesNeedTheOld == F!Spec => RotatesProveTheOld
<1>1. FlowsInv /\ [F!Next]_(F!vars) => [OldStays]_(F!vars)
  BY FlowStep
<1>2. F!Spec => [][OldStays]_(F!vars)
  BY <1>1, FlowsInvHolds, PTL DEF F!Spec
<1> QED BY <1>2 DEF RotatesProveTheOld, F!RotatesProveTheOld, OldStays
==============================================
