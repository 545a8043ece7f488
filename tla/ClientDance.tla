------------------------------ MODULE ClientDance ------------------------------
(***************************************************************************)
(* A dance in a page: AuthDanceClientChoreography (src/client.ts) and the  *)
(* hook that starts and drives one, useAuthDanceFlow (src/react.ts).       *)
(*                                                                         *)
(* The server keeps nothing of a dance: a step is its state and what it    *)
(* offers, which here is the names answered before it.  An answer changes  *)
(* the object that asked, whatever became of it in between: other answers, *)
(* the way back, a restart, the end, or a node that is done with it.  A    *)
(* store answers at once to a write, as web storage does, and later to a   *)
(* read.  Each object has one call of the page to it, or several.          *)
(***************************************************************************)
EXTENDS Naturals, Sequences, SequencesExt

CONSTANTS
  Flows,        \* the flows, with what they act on
  Names,        \* the components a step may offer: each is answered one time
  Dances,       \* bound: the objects a page keeps
  Starts,       \* bound: the calls of start under way
  Calls,        \* bound: the calls of actions under way
  MaxChanges,   \* bound: how often the node is given other options, or is mounted
  None

\* A step: the names answered before it, which is all its state tells.
Step == Seq(Names)

\* AuthDanceClientChoreography.  A timer that fired stands for a dance that expired: no
\* answer moves the moment.  `crossed` is history: an answer changed a dance that was
\* no longer the one it was asked by.
Dance == [flow : Flows, steps : Seq(Step), trail : Seq(Names), selected : Names \cup {None},
          done : BOOLEAN, timer : {"armed", "fired", "off"}, crossed : BOOLEAN]

Snapshot(dance) == [flow |-> dance.flow, steps |-> dance.steps, trail |-> dance.trail,
                    selected |-> dance.selected, crossed |-> dance.crossed]

\* A call of start: `mounted` is the flag of the effect that made it.
Start == [flow : Flows, pc : {"reading", "asked", "started"}, dance : Dances \cup {None}, mounted : BOOLEAN]

\* An action under way: `here` while the node that ran it is mounted, `steps` history.
Call == [op : {"submit", "send", "restart"}, dance : Dances, name : Names \cup {None},
         steps : Seq(Step), here : BOOLEAN]

ClientDanceAssumption ==
  /\ MaxChanges \in Nat
  /\ None \notin Flows \cup Names \cup Dances \cup Starts \cup Calls
  /\ None \notin Dance /\ None \notin Start /\ None \notin Call

VARIABLES
  dances, starts, calls,
  saved,      \* the snapshot in the store
  mounted,    \* whether the node is there
  flow, enabled,     \* the options of useAuthDanceFlow
  held,       \* its choreography
  pending, error,
  changes,    \* how often the options changed
  strayed     \* history: a dance the node does not hold wrote the snapshot last

hook == <<mounted, flow, enabled, held, pending, error, changes>>
vars == <<dances, starts, calls, saved, hook, strayed>>
-----------------------------------------------------------------------------
Init ==
  /\ dances = [d \in Dances |-> None] /\ starts = [s \in Starts |-> None] /\ calls = [c \in Calls |-> None]
  /\ saved = None /\ strayed = FALSE
  /\ mounted = FALSE /\ flow \in Flows /\ enabled = TRUE /\ held = None
  /\ pending = FALSE /\ error = FALSE /\ changes = 0

\* What a step offers: the branches of a choice, or the one input that is left.
Offers(step) == Names \ ToSet(step)

\* The steps of a dance that is not over end in the one it is on.
Current(dance) == dance.steps[Len(dance.steps)]

\* The constructor, over a snapshot with steps.  An old one may have expired.
Build(snapshot, timer) ==
  [ flow |-> snapshot.flow, steps |-> snapshot.steps, trail |-> snapshot.trail, selected |-> snapshot.selected,
    done |-> FALSE, timer |-> timer, crossed |-> snapshot.crossed ]

Fresh(f) == Build([flow |-> f, steps |-> << <<>> >>, trail |-> <<>>, selected |-> None, crossed |-> FALSE], "armed")

\* #save: a dance without steps drops the snapshot.
Save(d, dance) ==
  /\ saved' = IF dance.steps = <<>> THEN None ELSE Snapshot(dance)
  /\ strayed' = (held # d)

\* #arm, after a dance moved.
Armed(dance) == [dance EXCEPT !.timer =
  IF dance.done \/ dance.steps = <<>> THEN "off" ELSE IF @ = "fired" THEN "fired" ELSE "armed"]

\* [Symbol.dispose].
Disposed(dance) == [dance EXCEPT !.timer = "off"]

\* An object only calls refer to is gone with the last of them.
Kept(d, others, dance) == IF \E c \in others : calls[c] # None /\ calls[c].dance = d THEN dance ELSE None

\* The dances once the node disposed the one it holds.
LetGo == IF held = None THEN dances ELSE [dances EXCEPT ![held] = Kept(held, Calls, Disposed(@))]
-----------------------------------------------------------------------------
\* The effect of useAuthDanceFlow cleans up after the options it ran with: the start of
\* before counts for nothing, and a request of it is aborted.
Unmounted == [s \in Starts |->
  IF starts[s] = None \/ starts[s].pc = "asked" THEN None ELSE [starts[s] EXCEPT !.mounted = FALSE]]

\* The effect: a node that is on starts its flow.
Effect(f, on) ==
  IF on
  THEN /\ pending' = TRUE /\ error' = FALSE
       /\ \E s \in Starts : /\ Unmounted[s] = None
                            /\ starts' = [Unmounted EXCEPT ![s] = [flow |-> f, pc |-> "reading", dance |-> None, mounted |-> TRUE]]
  ELSE starts' = Unmounted /\ pending' = FALSE /\ UNCHANGED error

\* The node is given other options.
Change(f, on) ==
  /\ mounted /\ changes < MaxChanges /\ <<f, on>> # <<flow, enabled>>
  /\ flow' = f /\ enabled' = on /\ changes' = changes + 1
  /\ Effect(f, on)
  /\ UNCHANGED <<dances, calls, saved, mounted, held, strayed>>

\* A node mounts, with nothing but its options and the store.
Mount(f) ==
  /\ ~mounted /\ changes < MaxChanges
  /\ mounted' = TRUE /\ flow' = f /\ enabled' = TRUE /\ changes' = changes + 1
  /\ Effect(f, TRUE)
  /\ UNCHANGED <<dances, calls, saved, held, strayed>>

\* It unmounts: its dance is disposed, and what it ran goes on without it.
Unmount ==
  /\ mounted
  /\ mounted' = FALSE /\ held' = None /\ pending' = FALSE /\ error' = FALSE
  /\ starts' = Unmounted
  /\ dances' = LetGo
  /\ calls' = [c \in Calls |-> IF calls[c] = None THEN None ELSE [calls[c] EXCEPT !.here = FALSE]]
  /\ UNCHANGED <<saved, flow, enabled, changes, strayed>>

Runs(s, pc) == starts[s] # None /\ starts[s].pc = pc

\* Which snapshot a start takes back.
Takes(snapshot, f) == snapshot # None /\ snapshot.flow = f /\ snapshot.steps # <<>>

\* start, once its store answered: it resumes the snapshot of its flow, or asks for a step.
\* A request of a start that counts for nothing is aborted.
ReadSnapshot(s) ==
  /\ Runs(s, "reading")
  /\ IF Takes(saved, starts[s].flow)
     THEN \E d \in Dances :
            /\ dances[d] = None
            /\ \E timer \in {"armed", "fired"} : dances' = [dances EXCEPT ![d] = Build(saved, timer)]
            /\ starts' = [starts EXCEPT ![s].pc = "started", ![s].dance = d]
     ELSE /\ starts' = [starts EXCEPT ![s] = IF @.mounted THEN [@ EXCEPT !.pc = "asked"] ELSE None]
          /\ UNCHANGED dances
  /\ UNCHANGED <<calls, saved, hook, strayed>>

\* The first step arrives, and takes the place of the snapshot.
FirstStep(s) ==
  /\ Runs(s, "asked")
  /\ \E d \in Dances :
       /\ dances[d] = None
       /\ dances' = [dances EXCEPT ![d] = Fresh(starts[s].flow)]
       /\ starts' = [starts EXCEPT ![s].pc = "started", ![s].dance = d]
       /\ Save(d, Fresh(starts[s].flow))
  /\ UNCHANGED <<calls, hook>>

\* The start is refused.
RefuseStart(s) ==
  /\ Runs(s, "asked")
  /\ starts' = [starts EXCEPT ![s] = None]
  /\ held' = None /\ error' = TRUE /\ pending' = FALSE
  /\ dances' = LetGo
  /\ UNCHANGED <<calls, saved, mounted, flow, enabled, changes, strayed>>

\* A variant with a bug, for HandleIsOfItsFlow: the last start to answer counts.
CountsAlways(s) == mounted

\* Whether the effect that made a start still stands.
Counts(s) == starts[s].mounted

\* A dance no node takes is disposed.
Untaken(d) == [dances EXCEPT ![d] = None]

\* start resolves: the node takes the dance and disposes the one it held, or nobody takes it.
TakeDance(s) ==
  LET d == starts[s].dance IN
  /\ Runs(s, "started")
  /\ starts' = [starts EXCEPT ![s] = None]
  /\ IF Counts(s)
     THEN /\ held' = d /\ pending' = FALSE
          /\ dances' = LetGo
          /\ strayed' = (saved # Snapshot(dances[d]))
     ELSE dances' = Untaken(d) /\ UNCHANGED <<held, pending, strayed>>
  /\ UNCHANGED <<calls, saved, mounted, flow, enabled, error, changes>>

\* restart of a handle without a dance starts the flow again.
Retry ==
  /\ mounted /\ held = None /\ enabled /\ changes < MaxChanges
  /\ changes' = changes + 1
  /\ Effect(flow, TRUE)
  /\ UNCHANGED <<dances, calls, saved, mounted, flow, enabled, held, strayed>>
-----------------------------------------------------------------------------
\* #target: a dance that is not over and not expired, and a name its current step offers.
Target(dance, name) ==
  ~dance.done /\ dance.timer # "fired" /\ dance.steps # <<>> /\ name \in Offers(Current(dance))

\* run: an action of the handle calls the server.
Act(c, op, name) ==
  /\ mounted /\ held # None /\ calls[c] = None
  /\ CASE op = "submit" -> Target(dances[held], name)
       [] op = "send" -> name = None /\ \E n \in Names : Target(dances[held], n)
       [] op = "restart" -> name = None
  /\ calls' = [calls EXCEPT ![c] = [op |-> op, dance |-> held, name |-> name, here |-> TRUE,
                                    steps |-> IF op = "submit" THEN dances[held].steps ELSE <<>>]]
  /\ pending' = TRUE /\ error' = FALSE
  /\ UNCHANGED <<dances, starts, saved, mounted, flow, enabled, held, changes, strayed>>

\* A call left a dance as `dance`, which goes if nothing refers to it any more.
Leave(c, dance) ==
  dances' = [dances EXCEPT ![calls[c].dance] = IF held = calls[c].dance THEN dance ELSE Kept(calls[c].dance, Calls \ {c}, dance)]

\* The `finally` of run, in the node that ran it.
Ran(c, failed) ==
  /\ calls' = [calls EXCEPT ![c] = None]
  /\ IF calls[c].here THEN pending' = FALSE /\ error' = (error \/ failed) ELSE UNCHANGED <<pending, error>>

Crosses(c) == held # calls[c].dance \/ dances[held].steps # calls[c].steps

\* The answer of a step leads to the next one, or ends the dance.
Answered(dance, name, step) ==
  LET trail == Append(dance.trail, name) IN
  IF Offers(step) # {}
  THEN [dance EXCEPT !.trail = trail, !.selected = None, !.steps = Append(@, step)]
  ELSE [dance EXCEPT !.trail = trail, !.selected = None, !.steps = <<>>, !.done = TRUE]

\* submitPrompt, once the server took the answer to the step it was asked at.
Submitted(c) ==
  LET call == calls[c]
      d == call.dance
      step == Append(call.steps[Len(call.steps)], call.name)
      after == [Armed(Answered(dances[d], call.name, step)) EXCEPT !.crossed = @ \/ Crosses(c)] IN
  /\ call # None /\ call.op = "submit"
  /\ Leave(c, after) /\ Save(d, after) /\ Ran(c, FALSE)
  /\ UNCHANGED <<starts, mounted, flow, enabled, held, changes>>

\* sendPrompt, once delivered.
Delivered(c) ==
  /\ calls[c] # None /\ calls[c].op = "send"
  /\ Leave(c, dances[calls[c].dance]) /\ Ran(c, FALSE)
  /\ UNCHANGED <<starts, saved, mounted, flow, enabled, held, changes, strayed>>

\* restart, with a first step of its own.
Restarted(c) ==
  LET d == calls[c].dance
      after == [Fresh(dances[d].flow) EXCEPT !.crossed = held # d] IN
  /\ calls[c] # None /\ calls[c].op = "restart"
  /\ Leave(c, after) /\ Save(d, after) /\ Ran(c, FALSE)
  /\ UNCHANGED <<starts, mounted, flow, enabled, held, changes>>

\* A call is refused: a wrong value, an expired state, a network that fails.
Refused(c) ==
  /\ calls[c] # None
  /\ Leave(c, dances[calls[c].dance]) /\ Ran(c, TRUE)
  /\ UNCHANGED <<starts, saved, mounted, flow, enabled, held, changes, strayed>>

\* An action that calls no route ends at once, and so does the `finally` of its run.
Move(dance) ==
  /\ mounted /\ held # None
  /\ dances' = [dances EXCEPT ![held] = dance]
  /\ Save(held, dance)
  /\ pending' = FALSE /\ error' = FALSE
  /\ UNCHANGED <<starts, calls, mounted, flow, enabled, held, changes>>

\* choose: a branch of the current choice.
Choose(name) ==
  /\ held # None /\ dances[held].steps # <<>>
  /\ name \in Offers(Current(dances[held])) /\ Offers(Current(dances[held])) # {name}
  /\ Move([dances[held] EXCEPT !.selected = name])

\* A variant with a bug, for StepsAreADance: the way back keeps the name it takes back.
BackTrailKept(dance) == [dance EXCEPT !.steps = Front(@), !.selected = None]

\* One step back: the state of the step before is still good.
Back(dance) == [dance EXCEPT !.steps = Front(@), !.trail = Front(@), !.selected = None]

Prev ==
  /\ held # None /\ ~dances[held].done /\ Len(dances[held].steps) > 1
  /\ Move(Armed(Back(dances[held])))

Abandon ==
  /\ held # None
  /\ Move(Armed([dances[held] EXCEPT !.steps = <<>>, !.trail = <<>>, !.selected = None, !.done = TRUE]))

\* The flow expires, and its timer fires.
Expire(d) ==
  /\ dances[d] # None /\ dances[d].timer = "armed"
  /\ dances' = [dances EXCEPT ![d].timer = "fired"]
  /\ UNCHANGED <<starts, calls, saved, hook, strayed>>
-----------------------------------------------------------------------------
StartStep(s) == ReadSnapshot(s) \/ FirstStep(s) \/ RefuseStart(s) \/ TakeDance(s)
CallStep(c) == Submitted(c) \/ Delivered(c) \/ Restarted(c) \/ Refused(c)

Next ==
  \/ \E f \in Flows : Mount(f) \/ \E on \in BOOLEAN : Change(f, on)
  \/ Unmount \/ Retry \/ Prev \/ Abandon
  \/ \E s \in Starts : StartStep(s)
  \/ \E c \in Calls : CallStep(c) \/ \E name \in Names \cup {None}, op \in {"submit", "send", "restart"} : Act(c, op, name)
  \/ \E name \in Names : Choose(name)
  \/ \E d \in Dances : Expire(d)

Spec == Init /\ [][Next]_vars
-----------------------------------------------------------------------------
Starting == \E s \in Starts : starts[s] # None /\ starts[s].mounted

\* Everything has the type its code gives it, and the store never keeps a dance that is over.
TypeOK ==
  /\ dances \in [Dances -> Dance \cup {None}] /\ held \in {d \in Dances : dances[d] # None} \cup {None}
  /\ starts \in [Starts -> Start \cup {None}] /\ calls \in [Calls -> Call \cup {None}]
  /\ saved # None => saved.flow \in Flows /\ saved.steps # <<>>
  /\ mounted \in BOOLEAN /\ flow \in Flows /\ enabled \in BOOLEAN
  /\ pending \in BOOLEAN /\ error \in BOOLEAN /\ changes \in 0..MaxChanges /\ strayed \in BOOLEAN

\* prev, submitPrompt and resume (client.ts:981, 1053): each step of a dance is the one the
\* name beside it in the trail led to, so a state is never sent with the answer of another
\* step, and a dance that is over has none.  An answer must meet the dance that asked.
StepsAreADance ==
  \A d \in Dances : dances[d] # None /\ ~dances[d].crossed =>
    LET dance == dances[d] IN
    IF dance.done THEN dance.steps = <<>> /\ dance.selected = None
    ELSE /\ Len(dance.steps) = Len(dance.trail) + 1
         /\ \A i \in DOMAIN dance.steps : dance.steps[i] = SubSeq(dance.trail, 1, i - 1)
         /\ dance.selected \in Offers(Current(dance)) \cup {None}

\* useAuthDanceFlow keeps the snapshot in the store (react.ts:261), so that the same node
\* picks the flow up on the step it left, whatever the owner did in between.
PicksUpWhereItLeft ==
  mounted /\ held # None /\ ~strayed =>
    saved = IF dances[held].steps = <<>> THEN None ELSE Snapshot(dances[held])

\* Once no start is out, a node that is on shows a dance of the flow it was given, or why
\* there is none, in whatever order the options changed and the starts resolved.
HandleIsOfItsFlow ==
  mounted /\ enabled /\ ~Starting => IF held = None THEN error ELSE dances[held].flow = flow

\* A dance no node holds and no start brings has no timer left (react.ts:302, 339).
DisposedIsQuiet ==
  \A d \in Dances : dances[d] # None /\ ~dances[d].crossed /\ held # d
    /\ (\A s \in Starts : starts[s] # None => starts[s].dance # d) => dances[d].timer # "armed"

\* A node is pending only while a call is out that will say so: none is left waiting for a
\* start its options took back, or for a call another node made.
PendingIsForACall ==
  pending => Starting \/ \E c \in Calls : calls[c] # None /\ calls[c].here

\* The class says of `done` that `current` answers null from then on (client.ts:785-786).
OverIsOver == \A d \in Dances : dances[d] # None /\ dances[d].done => dances[d].steps = <<>>

\* What the client holds and what it saved are one dance of the server.
DanceIsOne == TypeOK /\ StepsAreADance /\ PicksUpWhereItLeft

\* What the hook shows is of the flow it was given, and what it dropped is quiet.
HookShowsTheFlow == HandleIsOfItsFlow /\ DisposedIsQuiet /\ PendingIsForACall
=============================================================================
