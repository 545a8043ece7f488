---------------------------- MODULE OneTimeProofs ----------------------------
(***************************************************************************)
(* What makes a proof of a component work one time: the code of            *)
(* components/otp.ts, the ceremony and the signature counter of            *)
(* components/webauthn.ts, the challenge of components/pow.ts, the         *)
(* authorization of components/oauth2.ts, the spent time step of           *)
(* components/totp.ts.  Each keeps one key in the store, and reads it,     *)
(* checks the answer and removes or rewrites it in separate calls, so      *)
(* submits and prompts of one dance, and of several, get in between.       *)
(*                                                                         *)
(* A challenge is a number: a step of a dance draws 1, 2, and so on, and   *)
(* an answer is right for one of them.  The clock counts time steps of     *)
(* TOTP.  An identity has one authenticator and one shared key.            *)
(***************************************************************************)
EXTENDS Integers, FiniteSets

CONSTANTS
  Steps, KindOf,   \* the steps of dances under way, and what answers each
  Calls,
  Window,          \* the `window` of the TOTP component
  MaxIssued,       \* bound: the challenges of a step
  MaxCount,        \* bound: the signature counter
  MaxTime,         \* bound: the clock
  None, Idle

Kinds == {"code", "assertion", "work", "account"}

Challenges == 0..MaxIssued

\* A call under way: a submit of `step`, which answers challenge `n`, rightly or not, and
\* `read` the one that waited; a prompt; or a submit of a TOTP code.  `count` is the
\* signature counter or the time step of the code.
Call == [pc : {"draw", "count", "recount", "unset", "exchange", "spend"}, step : Steps \cup {None},
         n : Challenges, right : BOOLEAN, read : Challenges, count : Nat]

\* The entry of a shared key: the last time step that was accepted, and when it goes.
Spent == [step : Nat, until : Nat]

OneTimeProofsAssumption ==
  /\ KindOf \in [Steps -> Kinds]
  /\ Window \in Nat /\ MaxIssued \in Nat /\ MaxCount \in Nat /\ MaxTime \in Nat
  /\ Idle \notin Call /\ None \notin Spent

VARIABLES
  kv,         \* otp/.., webauthn/.., pow/.. and oauth2/<state>/<step>: a challenge, or 0
  signCount,  \* webauthn/count/<credential>, 0 for none
  spent,      \* totp/<identity>/<name>: the last time step, and when the entry goes
  clock,
  issued,     \* the challenges drawn for each step
  exchanged,  \* external: the codes of the provider that were exchanged
  calls,
  taken,      \* history: the challenges an answer removed
  lapsed,     \* history: the challenges whose time passed
  accepted,   \* history: the challenges with an accepted answer
  twice,      \* history: the ones with two
  raced,      \* history: the ones that two submits read before either removed it
  crossed,    \* history: the ones that a call which had not read them removed or replaced
  highest,    \* history: the last accepted time step, and signature counter
  backward,   \* history: which of the two went back or stood still
  tangled     \* history: which of the two was read by two calls before either wrote it

history == <<taken, lapsed, accepted, twice, raced, crossed, highest, backward, tangled>>
vars == <<kv, signCount, spent, clock, issued, exchanged, calls, history>>
-----------------------------------------------------------------------------
Init ==
  /\ kv = [s \in Steps |-> 0] /\ issued = [s \in Steps |-> 0] /\ exchanged = {}
  /\ signCount = 0 /\ spent = None /\ clock = 0
  /\ calls = [c \in Calls |-> Idle]
  /\ taken = {} /\ lapsed = {} /\ accepted = {} /\ twice = {} /\ raced = {} /\ crossed = {}
  /\ highest = [totp |-> -1, count |-> 0] /\ backward = {} /\ tangled = {}

Busy(c, pc) == calls[c] # Idle /\ calls[c].pc = pc

Drop(c) == calls' = [calls EXCEPT ![c] = Idle]
Go(c, pc) == calls' = [calls EXCEPT ![c].pc = pc]

\* The call has proved what it was asked for.
Accept(c) ==
  LET proof == <<calls[c].step, calls[c].n>> IN
  /\ accepted' = accepted \cup {proof}
  /\ twice' = twice \cup ({proof} \cap accepted)
  /\ Drop(c)

\* The store puts a new challenge under the key of the step, over the one that waits.
Draw(s) ==
  /\ issued[s] < MaxIssued
  /\ issued' = [issued EXCEPT ![s] = @ + 1]
  /\ kv' = [kv EXCEPT ![s] = issued[s] + 1]

\* sendPrompt of a code, and getPrompt of a ceremony or an authorization.
Prompt(s) ==
  /\ KindOf[s] # "work"
  /\ Draw(s)
  /\ UNCHANGED <<signCount, spent, clock, exchanged, calls, history>>

\* getPrompt of a proof of work gives back the challenge that waits.
DrawsWork(s) == kv[s] = 0

PromptWork(c, s) ==
  /\ KindOf[s] = "work" /\ calls[c] = Idle
  /\ DrawsWork(s)
  /\ calls' = [calls EXCEPT ![c] = [pc |-> "draw", step |-> s, n |-> 0, right |-> FALSE, read |-> kv[s], count |-> 0]]
  /\ UNCHANGED <<kv, signCount, spent, clock, issued, exchanged, history>>

\* Two prompts that found nothing each draw one, and the last one stays.
DrawWork(c) ==
  /\ Busy(c, "draw")
  /\ LET s == calls[c].step IN
     /\ Draw(s)
     /\ crossed' = IF kv[s] \in {0, calls[c].read} THEN crossed ELSE crossed \cup {<<s, kv[s]>>}
  /\ Drop(c)
  /\ UNCHANGED <<signCount, spent, clock, exchanged, taken, lapsed, accepted, twice, raced, highest, backward, tangled>>

\* The time to live of a challenge passes.
Lapse(s) ==
  /\ kv[s] # 0
  /\ lapsed' = lapsed \cup {<<s, kv[s]>>}
  /\ kv' = [kv EXCEPT ![s] = 0]
  /\ UNCHANGED <<signCount, spent, clock, issued, exchanged, calls, taken, accepted, twice, raced, crossed, highest, backward, tangled>>
-----------------------------------------------------------------------------
\* What a submit does after it read the challenge: a proof of work removes it whatever the
\* answer, the others compare the answer first.
Matches(s, n) == kv[s] # 0 /\ (KindOf[s] = "work" \/ kv[s] = n)

\* submitPrompt reads what waits for the step.
Submit(c, s, n, right, count) ==
  /\ calls[c] = Idle /\ n \in 1..issued[s] /\ Matches(s, n)
  /\ right \/ KindOf[s] = "work"
  /\ count = 0 \/ KindOf[s] = "assertion"
  /\ calls' = [calls EXCEPT ![c] = [pc |-> IF KindOf[s] = "assertion" THEN "count" ELSE "unset",
                                    step |-> s, n |-> n, right |-> right, read |-> kv[s], count |-> count]]
  /\ raced' = raced \cup { <<s, kv[s]>> : d \in { d \in Calls : calls[d] # Idle /\ calls[d].pc # "draw" /\ calls[d].step = s /\ calls[d].read = kv[s] } }
  /\ UNCHANGED <<kv, signCount, spent, clock, issued, exchanged, taken, lapsed, accepted, twice, crossed, highest, backward, tangled>>

\* #countSignature: the counter goes up.
CountsUp(count) == count > signCount

\* It reads the counter.  An authenticator without one reports zero every time.
ReadCount(c) ==
  /\ Busy(c, "count")
  /\ IF calls[c].count = 0 /\ signCount = 0 THEN Go(c, "unset")
     ELSE IF CountsUp(calls[c].count) THEN Go(c, "recount")
     ELSE Drop(c)
  /\ tangled' = IF \E d \in Calls : Busy(d, "recount") THEN tangled \cup {"count"} ELSE tangled
  /\ UNCHANGED <<kv, signCount, spent, clock, issued, exchanged, taken, lapsed, accepted, twice, raced, crossed, highest, backward>>

\* It writes the counter.
WriteCount(c) ==
  /\ Busy(c, "recount")
  /\ signCount' = calls[c].count
  /\ backward' = IF calls[c].count <= highest.count THEN backward \cup {"count"} ELSE backward
  /\ highest' = [highest EXCEPT !.count = IF calls[c].count > @ THEN calls[c].count ELSE @]
  /\ Go(c, "unset")
  /\ UNCHANGED <<kv, spent, clock, issued, exchanged, taken, lapsed, accepted, twice, raced, crossed, tangled>>

\* A variant with a bug, for ProofWorksOnce: the challenge stays.
Left(s) == kv

\* unsetKv of the key of the step, whatever it holds by now.
Removed(s) == [kv EXCEPT ![s] = 0]

Unset(c) ==
  /\ Busy(c, "unset")
  /\ LET call == calls[c]
         s == call.step IN
     /\ kv' = Removed(s)
     /\ taken' = taken \cup {<<s, call.read>>}
     /\ crossed' = IF kv[s] \in {0, call.read} THEN crossed ELSE crossed \cup {<<s, kv[s]>>}
     /\ CASE KindOf[s] = "account" -> Go(c, "exchange") /\ UNCHANGED <<accepted, twice>>
          [] KindOf[s] = "work" /\ ~(call.right /\ call.n = call.read) -> Drop(c) /\ UNCHANGED <<accepted, twice>>
          [] OTHER -> Accept(c)
  /\ UNCHANGED <<signCount, spent, clock, issued, exchanged, lapsed, raced, highest, backward, tangled>>

\* The token endpoint of the provider takes a code one time, or does not answer.
Exchange(c) ==
  /\ Busy(c, "exchange")
  /\ LET code == <<calls[c].step, calls[c].n>> IN
     \/ code \notin exchanged /\ exchanged' = exchanged \cup {code} /\ Accept(c)
     \/ Drop(c) /\ UNCHANGED <<exchanged, accepted, twice>>
  /\ UNCHANGED <<kv, signCount, spent, clock, issued, taken, lapsed, raced, crossed, highest, backward, tangled>>
-----------------------------------------------------------------------------
Tick ==
  /\ clock < MaxTime
  /\ clock' = clock + 1
  /\ UNCHANGED <<kv, signCount, spent, issued, exchanged, calls, history>>

\* The time step a code was last accepted for, while the entry is there.
SpentStep == IF spent # None /\ spent.until > clock THEN spent.step ELSE -1

\* verifyPrompt of TOTP: a code of a step in the window, after the one spent last.  The
\* steps of the window and the entry are read at the same time.
SubmitTotp(c, step) ==
  /\ calls[c] = Idle /\ step \in (clock - Window)..(clock + Window)
  /\ step > SpentStep
  /\ calls' = [calls EXCEPT ![c] = [pc |-> "spend", step |-> None, n |-> 0, right |-> TRUE, read |-> 0, count |-> step]]
  /\ tangled' = IF \E d \in Calls : Busy(d, "spend") THEN tangled \cup {"totp"} ELSE tangled
  /\ UNCHANGED <<kv, signCount, spent, clock, issued, exchanged, taken, lapsed, accepted, twice, raced, crossed, highest, backward>>

\* How long the entry stays, in time steps.
Lifetime == Window * 2 + 1

Spend(c) ==
  /\ Busy(c, "spend")
  /\ spent' = [step |-> calls[c].count, until |-> clock + Lifetime]
  /\ backward' = IF calls[c].count <= highest.totp THEN backward \cup {"totp"} ELSE backward
  /\ highest' = [highest EXCEPT !.totp = IF calls[c].count > @ THEN calls[c].count ELSE @]
  /\ Drop(c)
  /\ UNCHANGED <<kv, signCount, clock, issued, exchanged, taken, lapsed, accepted, twice, raced, crossed, tangled>>

\* A call stops: the store or the process fails.
Stop(c) ==
  /\ calls[c] # Idle
  /\ Drop(c)
  /\ UNCHANGED <<kv, signCount, spent, clock, issued, exchanged, history>>

Next ==
  \/ Tick
  \/ \E s \in Steps : Prompt(s) \/ Lapse(s)
  \/ \E c \in Calls :
       \/ DrawWork(c) \/ ReadCount(c) \/ WriteCount(c) \/ Unset(c) \/ Exchange(c) \/ Spend(c) \/ Stop(c)
       \/ \E step \in 0..(MaxTime + Window) : SubmitTotp(c, step)
       \/ \E s \in Steps :
            PromptWork(c, s) \/ \E n \in Challenges, right \in BOOLEAN, count \in 0..MaxCount : Submit(c, s, n, right, count)

Spec == Init /\ [][Next]_vars
-----------------------------------------------------------------------------
Known == { proof \in Steps \X (1..MaxIssued) : proof[2] <= issued[proof[1]] }

\* Everything has the type its code gives it, and what waits was drawn.
TypeOK ==
  /\ kv \in [Steps -> Challenges] /\ issued \in [Steps -> Challenges]
  /\ \A s \in Steps : kv[s] <= issued[s]
  /\ signCount \in 0..MaxCount /\ clock \in 0..MaxTime
  /\ spent \in Spent \cup {None}
  /\ calls \in [Calls -> Call \cup {Idle}]
  /\ taken \cup lapsed \cup accepted \cup raced \cup crossed \cup exchanged \subseteq Known

\* A code, an assertion and a proof of work work one time (otp.ts:92, pow.ts:294), unless
\* two submits read the challenge before either removed it.  An authorization works one time
\* then too: the provider takes its code once.
ProofWorksOnce ==
  \A proof \in twice : proof \in raced /\ KindOf[proof[1]] # "account"

\* What waits for an answer goes only with one, or with its time: the last challenge of a
\* step, and every challenge of a proof of work a client may be busy with (pow.ts:240).  A
\* submit that read an older challenge, or two first renders at once, may take it away.
UnansweredStands ==
  \A s \in Steps, n \in 1..MaxIssued :
    n <= issued[s] /\ (n = issued[s] \/ KindOf[s] = "work") =>
      kv[s] = n \/ <<s, n>> \in taken \cup lapsed \cup crossed

\* TOTP (totp.ts:281): the accepted time steps go up, so a code works one time for all the
\* time its window accepts it, unless two submits read the entry before either wrote it.
TotpCodesGoForward == "totp" \in backward => "totp" \in tangled

\* #countSignature (webauthn.ts:761): the accepted counters go up, across all dances, so
\* a copy of an authenticator shows, unless two submits read the counter at once.
SignCountsGoForward == "count" \in backward => "count" \in tangled

\* verifyPrompt (otp.ts:85-86) "deletes the key so a code works one time only".
CodeWorksOnce == \A proof \in twice : KindOf[proof[1]] # "code"

\* A proof counts one time, and what waits for one is there to be answered.
ProofsCountOnce ==
  TypeOK /\ ProofWorksOnce /\ UnansweredStands /\ TotpCodesGoForward /\ SignCountsGoForward
=============================================================================
