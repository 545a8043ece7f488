------------------------ MODULE OneTimeProofs_proofs ------------------------
(***************************************************************************)
(* Proofs about OneTimeProofs for any number of steps of dances, of calls, *)
(* and any bounds: a proof of a component works one time, what waits for   *)
(* an answer stays, and time steps and signature counters go up.           *)
(*                                                                         *)
(* Each key of the store is read and rewritten in two calls, so every part *)
(* of the invariant says what a call between its two calls still knows,    *)
(* unless another read the same before it wrote: a challenge that was      *)
(* answered is gone and no call is going to remove it again; the entry of  *)
(* a shared key outlives the window of its time step; the counter that is  *)
(* stored is the highest.                                                  *)
(*                                                                         *)
(* And about the dance of a page (ClientDance) for any number of flows,    *)
(* names, objects, starts and calls: its steps are of one dance of the     *)
(* server, and the node shows the flow it was given.                       *)
(***************************************************************************)
EXTENDS OneTimeProofs, MCClientDance, Naturals, Sequences, SequenceTheorems, TLAPS

Submitted == {"count", "recount", "unset", "exchange"}

\* What a call knows of the challenge it answers.
CallFits(drawn, call) ==
  /\ call.pc = "draw" => call.step \in Steps /\ KindOf[call.step] = "work" /\ call.read = 0
  /\ call.pc \in Submitted =>
       /\ call.step \in Steps
       /\ call.n \in 1..drawn[call.step] /\ call.read \in 1..drawn[call.step]
       /\ KindOf[call.step] # "work" => call.read = call.n
  /\ call.pc \in {"count", "recount"} => KindOf[call.step] = "assertion" /\ call.count <= MaxCount
  /\ call.pc = "exchange" => KindOf[call.step] = "account"

CallsFit == \A c \in Calls : calls[c] # Idle => CallFits(issued, calls[c])

\* A call is going to remove the challenge it read.
Reads(c, proof) ==
  /\ calls[c] # Idle /\ calls[c].pc \in {"count", "recount", "unset"}
  /\ calls[c].step = proof[1] /\ calls[c].read = proof[2]

\* An answer removes its challenge for good, and nobody else is about to, unless two
\* submits read it.  A proof was accepted after that, or by the provider.
ProofFits(proof) ==
  /\ proof \in taken => kv[proof[1]] # proof[2]
  /\ proof \notin raced => \A c, d \in Calls : Reads(c, proof) /\ Reads(d, proof) => c = d
  /\ proof \in taken \ raced => \A c \in Calls : ~Reads(c, proof)
  /\ proof \in accepted => IF KindOf[proof[1]] = "account" THEN proof \in exchanged ELSE proof \in taken

ProofsFit == \A proof \in Steps \X (1..MaxIssued) : ProofFits(proof)

\* The entry is of the highest time step, and stays until the window is past it.
TotpFits ==
  "totp" \notin tangled =>
    /\ "totp" \notin backward
    /\ IF spent = None THEN highest.totp = -1
       ELSE highest.totp = spent.step /\ spent.until >= spent.step + Window + 1
    /\ \A c \in Calls : Busy(c, "spend") =>
         /\ highest.totp < calls[c].count /\ calls[c].count <= clock + Window
         /\ \A d \in Calls : Busy(d, "spend") => c = d

\* The stored counter is the highest one.
CountFits ==
  "count" \notin tangled =>
    /\ "count" \notin backward /\ highest.count = signCount
    /\ \A c \in Calls : Busy(c, "recount") =>
         /\ calls[c].count > signCount
         /\ \A d \in Calls : Busy(d, "recount") => c = d

Typed == TypeOK /\ highest \in [totp : Int, count : Int] /\ CallsFit

Once == ProofsFit /\ twice \subseteq accepted /\ ProofWorksOnce

IInv == Typed /\ Once /\ UnansweredStands /\ TotpFits /\ CountFits
-----------------------------------------------------------------------------
\* A call that changes leaves the others as they are, and challenges are only added.
LEMMA OneCall ==
  ASSUME Typed, NEW c \in Calls, NEW call, calls' = [calls EXCEPT ![c] = call],
         \A s \in Steps : issued[s] \in Nat /\ issued'[s] \in Nat /\ issued'[s] >= issued[s],
         call = Idle \/ (call \in Call /\ CallFits(issued', call))
  PROVE  /\ calls'[c] = call /\ \A d \in Calls \ {c} : calls'[d] = calls[d]
         /\ calls' \in [Calls -> Call \cup {Idle}] /\ CallsFit'
<1>1. calls \in [Calls -> Call \cup {Idle}]
  BY DEF Typed, TypeOK
<1>2. calls'[c] = call /\ \A d \in Calls \ {c} : calls'[d] = calls[d]
  BY <1>1
<1>3. calls' \in [Calls -> Call \cup {Idle}]
  BY <1>1
<1>4. ASSUME NEW d \in Calls, calls'[d] # Idle PROVE CallFits(issued', calls'[d])
  <2>1. CASE d = c
    BY <1>2, <1>4, <2>1
  <2>2. CASE d # c
    <3>1. calls'[d] = calls[d] /\ CallFits(issued, calls[d])
      BY <1>2, <1>4, <2>2 DEF Typed, CallsFit
    <3> QED BY <3>1 DEF CallFits, Submitted
  <2> QED BY <2>1, <2>2
<1> QED BY <1>2, <1>3, <1>4 DEF CallsFit

\* What a call under way knows.
LEMMA CallAt ==
  ASSUME Typed, NEW c \in Calls, NEW pc, Busy(c, pc)
  PROVE  /\ calls[c] \in Call /\ CallFits(issued, calls[c]) /\ calls[c].pc = pc /\ calls[c] # Idle
         /\ \A s \in Steps : issued[s] \in Nat /\ issued[s] <= MaxIssued
BY DEF Typed, TypeOK, Busy, CallsFit, Challenges

\* A challenge that was drawn is known, and stays so.
LEMMA DrawnIsKnown ==
  ASSUME OneTimeProofsAssumption, Typed, NEW s \in Steps, NEW n \in 1..issued[s]
  PROVE  <<s, n>> \in Known /\ n \in 1..MaxIssued
<1>1. issued[s] \in 0..MaxIssued /\ MaxIssued \in Nat
  BY DEF Typed, TypeOK, Challenges, OneTimeProofsAssumption
<1>2. <<s, n>>[1] = s /\ <<s, n>>[2] = n
  OBVIOUS
<1>3. n \in 1..MaxIssued /\ n <= issued[s]
  BY <1>1
<1> QED BY <1>2, <1>3 DEF Known

LEMMA KnownGrows ==
  ASSUME Typed, \A s \in Steps : issued'[s] \in Nat /\ issued'[s] >= issued[s]
  PROVE  Known \subseteq Known'
<1> SUFFICES ASSUME NEW proof \in Known PROVE proof[2] <= issued'[proof[1]]
  BY DEF Known
<1>1. proof[1] \in Steps /\ proof[2] \in 1..MaxIssued /\ proof[2] <= issued[proof[1]]
  BY DEF Known
<1>2. issued[proof[1]] \in Nat /\ proof[2] \in Nat
  BY <1>1 DEF Typed, TypeOK, Challenges
<1> QED BY <1>1, <1>2

\* The store draws the next challenge of a step.
LEMMA Drawn ==
  ASSUME OneTimeProofsAssumption, Typed, NEW s \in Steps, Draw(s)
  PROVE  /\ kv' \in [Steps -> Challenges] /\ issued' \in [Steps -> Challenges]
         /\ kv'[s] = issued[s] + 1 /\ issued'[s] = issued[s] + 1
         /\ \A r \in Steps \ {s} : kv'[r] = kv[r] /\ issued'[r] = issued[r]
         /\ \A r \in Steps : kv'[r] <= issued'[r] /\ issued[r] \in Nat /\ issued'[r] \in Nat /\ issued'[r] >= issued[r]
         /\ Known \subseteq Known'
<1>1. kv \in [Steps -> Challenges] /\ issued \in [Steps -> Challenges] /\ issued[s] < MaxIssued
      /\ MaxIssued \in Nat /\ \A r \in Steps : kv[r] <= issued[r]
  BY DEF Typed, TypeOK, Draw, OneTimeProofsAssumption
<1>2. kv' = [kv EXCEPT ![s] = issued[s] + 1] /\ issued' = [issued EXCEPT ![s] = issued[s] + 1]
  BY DEF Draw
<1>3. issued[s] + 1 \in Challenges /\ \A r \in Steps : issued[r] \in Nat
  BY <1>1 DEF Challenges
<1>4. kv' \in [Steps -> Challenges] /\ issued' \in [Steps -> Challenges]
  BY <1>1, <1>2, <1>3
<1>5. /\ kv'[s] = issued[s] + 1 /\ issued'[s] = issued[s] + 1
      /\ \A r \in Steps \ {s} : kv'[r] = kv[r] /\ issued'[r] = issued[r]
  BY <1>1, <1>2
<1>6. \A r \in Steps : kv'[r] <= issued'[r] /\ issued[r] \in Nat /\ issued'[r] \in Nat /\ issued'[r] >= issued[r]
  <2> TAKE r \in Steps
  <2>1. CASE r = s
    BY <1>3, <1>5, <2>1
  <2>2. CASE r # s
    BY <1>1, <1>3, <1>5, <2>2
  <2> QED BY <2>1, <2>2
<1> QED BY <1>4, <1>5, <1>6, KnownGrows
-----------------------------------------------------------------------------
LEMMA TypedInit == ASSUME OneTimeProofsAssumption, Init PROVE Typed
<1>1. TypeOK
  BY DEF Init, TypeOK, OneTimeProofsAssumption, Challenges
<1>2. highest \in [totp : Int, count : Int]
  BY DEF Init
<1>3. CallsFit
  BY DEF Init, CallsFit
<1> QED BY <1>1, <1>2, <1>3 DEF Typed

\* A step that draws nothing and changes one call.
LEMMA TypedStep ==
  ASSUME OneTimeProofsAssumption, Typed, NEW c \in Calls, NEW call,
         calls' = [calls EXCEPT ![c] = call], UNCHANGED <<issued, clock>>,
         call = Idle \/ (call \in Call /\ CallFits(issued, call)),
         kv' \in [Steps -> Challenges], \A s \in Steps : kv'[s] <= issued[s],
         signCount' \in 0..MaxCount, spent' \in Spent \cup {None},
         highest' \in [totp : Int, count : Int],
         (taken' \cup lapsed' \cup accepted' \cup raced' \cup crossed' \cup exchanged') \subseteq Known
  PROVE  Typed'
<1>1. Known' = Known
  BY DEF Known
<1>2. \A s \in Steps : issued[s] \in Nat /\ issued'[s] \in Nat /\ issued'[s] >= issued[s]
  BY DEF Typed, TypeOK, Challenges
<1>3. calls' \in [Calls -> Call \cup {Idle}] /\ CallsFit'
  BY <1>2, OneCall
<1>4. issued' \in [Steps -> Challenges] /\ clock' \in 0..MaxTime /\ \A s \in Steps : kv'[s] <= issued'[s]
  BY DEF Typed, TypeOK
<1> QED BY <1>1, <1>3, <1>4 DEF Typed, TypeOK

\* A call that goes on to another point keeps what it knows.
LEMMA GoesOn ==
  ASSUME Typed, NEW c \in Calls, NEW pc, NEW next, Busy(c, pc), Go(c, next),
         next \in {"recount", "unset", "exchange"}, pc \in {"count", "recount", "unset"},
         next = "recount" => pc = "count",
         next = "exchange" => KindOf[calls[c].step] = "account"
  PROVE  /\ calls' = [calls EXCEPT ![c] = [calls[c] EXCEPT !.pc = next]]
         /\ [calls[c] EXCEPT !.pc = next] \in Call
         /\ CallFits(issued, [calls[c] EXCEPT !.pc = next])
<1>1. calls[c] \in Call /\ CallFits(issued, calls[c]) /\ calls[c].pc = pc
  BY CallAt
<1>2. calls' = [calls EXCEPT ![c] = [calls[c] EXCEPT !.pc = next]]
  BY DEF Go
<1>3. [calls[c] EXCEPT !.pc = next] \in Call
  BY <1>1 DEF Call
<1>4. CallFits(issued, [calls[c] EXCEPT !.pc = next])
  BY <1>1, <1>3 DEF CallFits, Call, Submitted
<1> QED BY <1>2, <1>3, <1>4

LEMMA TypedInvariance ==
  ASSUME OneTimeProofsAssumption, Typed, [Next]_vars
  PROVE  Typed'
<1>0. /\ kv \in [Steps -> Challenges] /\ issued \in [Steps -> Challenges]
      /\ \A s \in Steps : kv[s] <= issued[s] /\ issued[s] \in Nat
      /\ signCount \in 0..MaxCount /\ clock \in 0..MaxTime /\ spent \in Spent \cup {None}
      /\ highest \in [totp : Int, count : Int] /\ calls \in [Calls -> Call \cup {Idle}]
      /\ taken \cup lapsed \cup accepted \cup raced \cup crossed \cup exchanged \subseteq Known
      /\ MaxIssued \in Nat /\ MaxCount \in Nat /\ MaxTime \in Nat /\ Window \in Nat
  BY DEF Typed, TypeOK, Challenges, OneTimeProofsAssumption
<1>1. CASE UNCHANGED vars
  BY <1>1 DEF vars, history, Typed, TypeOK, CallsFit, Known
<1>2. CASE Tick
  <2>1. clock' \in 0..MaxTime
    BY <1>0, <1>2 DEF Tick
  <2> QED BY <1>2, <2>1 DEF Tick, history, Typed, TypeOK, CallsFit, Known
<1>3. ASSUME NEW s \in Steps, Prompt(s) PROVE Typed'
  <2>1. Draw(s) /\ UNCHANGED <<signCount, spent, clock, exchanged, calls, history>>
    BY <1>3 DEF Prompt
  <2>2. CallsFit'
    <3>1. ASSUME NEW c \in Calls, calls[c] # Idle PROVE CallFits(issued', calls[c])
      BY <2>1, <3>1, Drawn DEF Typed, CallsFit, CallFits, Submitted
    <3> QED BY <2>1, <3>1 DEF CallsFit
  <2> QED BY <2>1, <2>2, Drawn DEF history, Typed, TypeOK
<1>4. ASSUME NEW s \in Steps, Lapse(s) PROVE Typed'
  <2>1. kv[s] \in 1..issued[s] /\ kv' = [kv EXCEPT ![s] = 0]
    BY <1>0, <1>4 DEF Lapse, Challenges
  <2>2. <<s, kv[s]>> \in Known /\ Known' = Known
    BY <1>4, <2>1, DrawnIsKnown DEF Known, Lapse
  <2>3. kv' \in [Steps -> Challenges] /\ \A r \in Steps : kv'[r] <= issued[r]
    BY <1>0, <2>1 DEF Challenges
  <2> QED BY <1>4, <2>2, <2>3 DEF Lapse, Typed, TypeOK, CallsFit
<1>5. ASSUME NEW c \in Calls, DrawWork(c) PROVE Typed'
  <2> DEFINE s == calls[c].step
  <2>1. s \in Steps /\ Draw(s)
    BY <1>5, CallAt DEF DrawWork, CallFits
  <2> HIDE DEF s
  <2>2. calls' = [calls EXCEPT ![c] = Idle]
    BY <1>5 DEF DrawWork, Drop
  <2>3. kv[s] # 0 => <<s, kv[s]>> \in Known
    BY <1>0, <2>1, DrawnIsKnown DEF Challenges
  <2>4. crossed' \subseteq crossed \cup {<<s, kv[s]>>} /\ (kv[s] = 0 => crossed' = crossed)
    BY <1>5 DEF DrawWork, s
  <2>5. calls' \in [Calls -> Call \cup {Idle}] /\ CallsFit'
    BY <2>1, <2>2, Drawn, OneCall
  <2> QED BY <1>5, <2>1, <2>3, <2>4, <2>5, Drawn DEF DrawWork, Typed, TypeOK
<1>6. ASSUME NEW c \in Calls, NEW s \in Steps, PromptWork(c, s) PROVE Typed'
  <2> DEFINE call == [pc |-> "draw", step |-> s, n |-> 0, right |-> FALSE, read |-> kv[s], count |-> 0]
  <2>1. calls' = [calls EXCEPT ![c] = call] /\ kv[s] = 0 /\ KindOf[s] = "work"
    BY <1>6 DEF PromptWork, DrawsWork
  <2>2. call \in Call /\ CallFits(issued, call)
    BY <1>0, <2>1 DEF Call, CallFits, Submitted, Challenges
  <2> HIDE DEF call
  <2> QED BY <1>0, <1>6, <2>1, <2>2, TypedStep DEF PromptWork, history
<1>7. ASSUME NEW c \in Calls, NEW s \in Steps, NEW n \in Challenges, NEW right \in BOOLEAN,
             NEW count \in 0..MaxCount, Submit(c, s, n, right, count)
      PROVE  Typed'
  <2> DEFINE call == [pc |-> IF KindOf[s] = "assertion" THEN "count" ELSE "unset",
                      step |-> s, n |-> n, right |-> right, read |-> kv[s], count |-> count]
  <2>1. calls' = [calls EXCEPT ![c] = call] /\ n \in 1..issued[s] /\ Matches(s, n)
    BY <1>7 DEF Submit
  <2>2. kv[s] \in 1..issued[s] /\ (KindOf[s] # "work" => kv[s] = n)
    BY <1>0, <2>1 DEF Matches, Challenges
  <2>3. call \in Call
    BY <1>0 DEF Call, Challenges
  <2>4. CallFits(issued, call)
    BY <1>0, <2>1, <2>2 DEF CallFits, Submitted
  <2>5. <<s, kv[s]>> \in Known
    BY <2>2, DrawnIsKnown
  <2>6. raced' \subseteq raced \cup {<<s, kv[s]>>}
    BY <1>7 DEF Submit
  <2> HIDE DEF call
  <2>7. UNCHANGED <<kv, signCount, spent, clock, issued, exchanged, taken, lapsed, accepted, crossed, highest>>
    BY <1>7 DEF Submit
  <2>8. (taken' \cup lapsed' \cup accepted' \cup raced' \cup crossed' \cup exchanged') \subseteq Known
    BY <1>0, <2>5, <2>6, <2>7
  <2> QED BY <1>0, <2>1, <2>3, <2>4, <2>7, <2>8, TypedStep
<1>8. ASSUME NEW c \in Calls, ReadCount(c) PROVE Typed'
  <2>1. Busy(c, "count")
    BY <1>8 DEF ReadCount
  <2>2. PICK call : calls' = [calls EXCEPT ![c] = call] /\ (call = Idle \/ (call \in Call /\ CallFits(issued, call)))
    BY <1>8, <2>1, GoesOn DEF ReadCount, Drop
  <2> QED BY <1>0, <1>8, <2>2, TypedStep DEF ReadCount
<1>9. ASSUME NEW c \in Calls, WriteCount(c) PROVE Typed'
  <2>1. Busy(c, "recount") /\ calls[c] \in Call /\ calls[c].count <= MaxCount
    BY <1>9, CallAt DEF WriteCount, CallFits
  <2>2. calls[c].count \in 0..MaxCount
    BY <1>0, <2>1 DEF Call
  <2>3. highest' \in [totp : Int, count : Int]
    BY <1>0, <1>9, <2>2 DEF WriteCount
  <2>4. PICK call : calls' = [calls EXCEPT ![c] = call] /\ call \in Call /\ CallFits(issued, call)
    BY <1>9, <2>1, GoesOn DEF WriteCount
  <2> QED BY <1>0, <1>9, <2>2, <2>3, <2>4, TypedStep DEF WriteCount
<1>10. ASSUME NEW c \in Calls, Unset(c) PROVE Typed'
  <2> DEFINE s == calls[c].step
  <2>1. /\ Busy(c, "unset") /\ calls[c] \in Call /\ s \in Steps
        /\ calls[c].n \in 1..issued[s] /\ calls[c].read \in 1..issued[s]
    BY <1>10, CallAt DEF Unset, CallFits, Submitted
  <2>2. <<s, calls[c].n>> \in Known /\ <<s, calls[c].read>> \in Known
    BY <2>1, DrawnIsKnown
  <2>3. kv[s] # 0 => <<s, kv[s]>> \in Known
    BY <1>0, <2>1, DrawnIsKnown DEF Challenges
  <2>4. kv' = [kv EXCEPT ![s] = 0] /\ taken' = taken \cup {<<s, calls[c].read>>}
    BY <1>10 DEF Unset, Removed
  <2>5. crossed' \subseteq crossed \cup {<<s, kv[s]>>} /\ (kv[s] = 0 => crossed' = crossed)
    BY <1>10 DEF Unset
  <2>6. kv' \in [Steps -> Challenges] /\ \A r \in Steps : kv'[r] <= issued[r]
    <3>1. 0 \in Challenges /\ \A r \in Steps : kv'[r] = 0 \/ kv'[r] = kv[r]
      BY <1>0, <2>4 DEF Challenges
    <3>2. kv' \in [Steps -> Challenges]
      BY <1>0, <2>4, <3>1
    <3>3. ASSUME NEW r \in Steps PROVE kv'[r] <= issued[r]
      BY <1>0, <3>1
    <3> QED BY <3>2, <3>3
  <2>7. accepted' \subseteq accepted \cup {<<s, calls[c].n>>}
    <3>1. CASE KindOf[s] = "account"
      BY <1>10, <3>1 DEF Unset
    <3>2. CASE KindOf[s] # "account"
      BY <1>10, <3>2 DEF Unset, Accept
    <3> QED BY <3>1, <3>2
  <2>8. PICK call : calls' = [calls EXCEPT ![c] = call] /\ (call = Idle \/ (call \in Call /\ CallFits(issued, call)))
    BY <1>10, <2>1, GoesOn DEF Unset, Accept, Drop
  <2> HIDE DEF s
  <2>9. UNCHANGED <<signCount, spent, clock, issued, exchanged, lapsed, raced, highest>>
    BY <1>10 DEF Unset
  <2>10. (taken' \cup lapsed' \cup accepted' \cup raced' \cup crossed' \cup exchanged') \subseteq Known
    BY <1>0, <2>2, <2>3, <2>4, <2>5, <2>7, <2>9
  <2> QED BY <1>0, <2>6, <2>8, <2>9, <2>10, TypedStep
<1>11. ASSUME NEW c \in Calls, Exchange(c) PROVE Typed'
  <2>1. <<calls[c].step, calls[c].n>> \in Known
    BY <1>11, CallAt, DrawnIsKnown DEF Exchange, CallFits, Submitted
  <2>2. /\ calls' = [calls EXCEPT ![c] = Idle]
        /\ exchanged' \subseteq exchanged \cup {<<calls[c].step, calls[c].n>>}
        /\ accepted' \subseteq accepted \cup {<<calls[c].step, calls[c].n>>}
    BY <1>11 DEF Exchange, Accept, Drop
  <2> QED BY <1>0, <1>11, <2>1, <2>2, TypedStep DEF Exchange
<1>12. ASSUME NEW c \in Calls, NEW step \in 0..(MaxTime + Window), SubmitTotp(c, step) PROVE Typed'
  <2> DEFINE call == [pc |-> "spend", step |-> None, n |-> 0, right |-> TRUE, read |-> 0, count |-> step]
  <2>1. call \in Call /\ CallFits(issued, call)
    BY <1>0 DEF Call, CallFits, Submitted, Challenges
  <2>2. calls' = [calls EXCEPT ![c] = call]
    BY <1>12 DEF SubmitTotp
  <2> HIDE DEF call
  <2> QED BY <1>0, <1>12, <2>1, <2>2, TypedStep DEF SubmitTotp
<1>13. ASSUME NEW c \in Calls, Spend(c) PROVE Typed'
  <2>1. calls[c] \in Call
    BY <1>13, CallAt DEF Spend
  <2>2. spent' \in Spent /\ highest' \in [totp : Int, count : Int]
    BY <1>0, <1>13, <2>1 DEF Spend, Spent, Lifetime, Call
  <2>3. calls' = [calls EXCEPT ![c] = Idle]
    BY <1>13 DEF Spend, Drop
  <2> QED BY <1>0, <1>13, <2>2, <2>3, TypedStep DEF Spend
<1>14. ASSUME NEW c \in Calls, Stop(c) PROVE Typed'
  <2>1. calls' = [calls EXCEPT ![c] = Idle]
    BY <1>14 DEF Stop, Drop
  <2> QED BY <1>0, <1>14, <2>1, TypedStep DEF Stop, history
<1> QED BY <1>1, <1>2, <1>3, <1>4, <1>5, <1>6, <1>7, <1>8, <1>9, <1>10, <1>11, <1>12, <1>13, <1>14 DEF Next
-----------------------------------------------------------------------------
\* What waits for an answer goes only with one, with its time, or with a call that had not
\* read it.
LEMMA UnansweredStays ==
  ASSUME OneTimeProofsAssumption, Typed, UnansweredStands, [Next]_vars
  PROVE  UnansweredStands'
<1>0. /\ \A s \in Steps : issued[s] \in Nat /\ kv[s] \in Nat
      /\ kv \in [Steps -> Challenges] /\ MaxIssued \in Nat
  BY DEF Typed, TypeOK, Challenges, OneTimeProofsAssumption
<1> DEFINE Gone == taken \cup lapsed \cup crossed
<1> SUFFICES ASSUME NEW s \in Steps, NEW n \in 1..MaxIssued, n <= issued'[s],
                    n = issued'[s] \/ KindOf[s] = "work"
             PROVE  kv'[s] = n \/ <<s, n>> \in Gone'
  BY DEF UnansweredStands
<1>1. ASSUME issued'[s] = issued[s], kv'[s] = kv[s], Gone \subseteq Gone'
      PROVE  kv'[s] = n \/ <<s, n>> \in Gone'
  BY <1>1 DEF UnansweredStands
<1> DEFINE Drew(r) ==
      \/ /\ r # s \/ KindOf[s] # "work" \/ kv[s] = 0
         /\ Gone \subseteq Gone'
      \/ /\ r = s /\ Gone \cup {<<s, kv[s]>>} \subseteq Gone'
<1>2. ASSUME NEW r \in Steps, Draw(r), Drew(r)
      PROVE  kv'[s] = n \/ <<s, n>> \in Gone'
  <2>1. CASE r # s
    BY <1>1, <1>2, <2>1, Drawn
  <2>2. CASE r = s /\ n = issued[s] + 1
    BY <1>2, <2>2, Drawn
  <2>3. CASE r = s /\ n # issued[s] + 1
    <3>1. n <= issued[s] /\ KindOf[s] = "work"
      BY <1>0, <1>2, <2>3, Drawn
    <3>2. kv[s] = n \/ <<s, n>> \in Gone
      BY <3>1 DEF UnansweredStands
    <3> QED BY <1>2, <2>3, <3>1, <3>2
  <2> QED BY <2>1, <2>2, <2>3
<1>3. ASSUME NEW r \in Steps, UNCHANGED issued, kv' = [kv EXCEPT ![r] = 0],
             Gone \subseteq Gone', kv[r] = 0 \/ <<r, kv[r]>> \in Gone'
      PROVE  kv'[s] = n \/ <<s, n>> \in Gone'
  <2>1. kv[s] = n \/ <<s, n>> \in Gone
    BY <1>3 DEF UnansweredStands
  <2> QED BY <1>0, <1>3, <2>1
<1>4. ASSUME NEW r \in Steps, Prompt(r) PROVE kv'[s] = n \/ <<s, n>> \in Gone'
  BY <1>2, <1>4 DEF Prompt, history
<1>5. ASSUME NEW r \in Steps, Lapse(r) PROVE kv'[s] = n \/ <<s, n>> \in Gone'
  BY <1>3, <1>5 DEF Lapse
<1>6. ASSUME NEW c \in Calls, DrawWork(c) PROVE kv'[s] = n \/ <<s, n>> \in Gone'
  <2> DEFINE r == calls[c].step
  <2>1. r \in Steps /\ Draw(r) /\ calls[c].read = 0
    BY <1>6, CallAt DEF DrawWork, CallFits
  <2>2. crossed' = (IF kv[r] = 0 THEN crossed ELSE crossed \cup {<<r, kv[r]>>}) /\ UNCHANGED <<taken, lapsed>>
    BY <1>6, <2>1 DEF DrawWork
  <2> HIDE DEF r
  <2>3. Drew(r)
    BY <2>2
  <2> QED BY <1>2, <2>1, <2>3
<1>7. ASSUME NEW c \in Calls, Unset(c) PROVE kv'[s] = n \/ <<s, n>> \in Gone'
  <2> DEFINE r == calls[c].step
  <2>1. r \in Steps
    BY <1>7, CallAt DEF Unset, CallFits, Submitted
  <2>2. /\ kv' = [kv EXCEPT ![r] = 0] /\ taken' = taken \cup {<<r, calls[c].read>>}
        /\ crossed' = IF kv[r] \in {0, calls[c].read} THEN crossed ELSE crossed \cup {<<r, kv[r]>>}
        /\ UNCHANGED <<issued, lapsed>>
    BY <1>7 DEF Unset, Removed
  <2>3. Gone \subseteq Gone' /\ (kv[r] = 0 \/ <<r, kv[r]>> \in Gone')
    BY <2>2
  <2> HIDE DEF r
  <2> QED BY <1>3, <2>1, <2>2, <2>3
<1>8. CASE UNCHANGED <<kv, issued, taken, lapsed, crossed>>
  BY <1>1, <1>8
<1>9. ASSUME UNCHANGED vars \/ Tick PROVE UNCHANGED <<kv, issued, taken, lapsed, crossed>>
  BY <1>9 DEF vars, history, Tick
<1>10. ASSUME NEW c \in Calls, ReadCount(c) \/ WriteCount(c) \/ Exchange(c) \/ Spend(c) \/ Stop(c)
       PROVE  UNCHANGED <<kv, issued, taken, lapsed, crossed>>
  BY <1>10 DEF ReadCount, WriteCount, Exchange, Spend, Stop, history
<1>11. ASSUME NEW c \in Calls, NEW r \in Steps,
              \/ PromptWork(c, r)
              \/ \E m \in Challenges, right \in BOOLEAN, count \in 0..MaxCount : Submit(c, r, m, right, count)
       PROVE  UNCHANGED <<kv, issued, taken, lapsed, crossed>>
  BY <1>11 DEF PromptWork, Submit, history
<1>12. ASSUME NEW c \in Calls, \E step \in 0..(MaxTime + Window) : SubmitTotp(c, step)
       PROVE  UNCHANGED <<kv, issued, taken, lapsed, crossed>>
  BY <1>12 DEF SubmitTotp
<1> QED BY <1>4, <1>5, <1>6, <1>7, <1>8, <1>9, <1>10, <1>11, <1>12 DEF Next
-----------------------------------------------------------------------------
\* Only a submit of a code of TOTP and the write after it touch what TotpFits speaks of, and
\* the clock only goes on.
LEMMA TotpStays ==
  ASSUME OneTimeProofsAssumption, Typed, TotpFits, [Next]_vars
  PROVE  TotpFits'
<1>0. /\ calls \in [Calls -> Call \cup {Idle}] /\ clock \in Nat /\ Window \in Nat
      /\ highest \in [totp : Int, count : Int] /\ spent \in Spent \cup {None}
      /\ Idle \notin Call /\ None \notin Spent
  BY DEF Typed, TypeOK, OneTimeProofsAssumption
<1> SUFFICES ASSUME "totp" \notin tangled' PROVE TotpFits'
  BY DEF TotpFits
<1>1. ASSUME "totp" \notin tangled, UNCHANGED <<spent>>, highest'.totp = highest.totp,
             "totp" \notin backward', clock' \in Nat, clock' >= clock,
             \A c \in Calls : Busy(c, "spend")' => calls'[c] = calls[c]
      PROVE  TotpFits'
  <2>1. \A c \in Calls : Busy(c, "spend")' => Busy(c, "spend") /\ calls'[c] = calls[c] /\ calls[c].count \in Nat
    BY <1>0, <1>1 DEF Busy, Call
  <2> QED BY <1>0, <1>1, <2>1 DEF TotpFits
\* The call that submits a code, or none does.
<1>2. ASSUME NEW c \in Calls, NEW step \in 0..(MaxTime + Window), SubmitTotp(c, step)
      PROVE  TotpFits'
  <2> DEFINE call == [pc |-> "spend", step |-> None, n |-> 0, right |-> TRUE, read |-> 0, count |-> step]
  <2>1. /\ calls' = [calls EXCEPT ![c] = call] /\ calls[c] = Idle
        /\ UNCHANGED <<clock, spent, highest, backward>> /\ step \in Nat
        /\ step >= clock - Window /\ step <= clock + Window /\ step > SpentStep
        /\ "totp" \notin tangled /\ \A d \in Calls : ~Busy(d, "spend")
    BY <1>0, <1>2 DEF SubmitTotp
  <2>2. call.count = step
    OBVIOUS
  <2> HIDE DEF call
  <2>3. step > highest.totp
    <3>1. CASE spent = None
      BY <1>0, <2>1, <3>1 DEF TotpFits
    <3>2. CASE spent # None
      <4>1. /\ spent.step \in Nat /\ spent.until \in Nat
            /\ highest.totp = spent.step /\ spent.until >= spent.step + Window + 1
        BY <1>0, <2>1, <3>2 DEF TotpFits, Spent
      <4>2. CASE spent.until > clock
        BY <2>1, <3>2, <4>1, <4>2 DEF SpentStep
      <4>3. CASE ~(spent.until > clock)
        BY <1>0, <2>1, <4>1, <4>3
      <4> QED BY <4>2, <4>3
    <3> QED BY <3>1, <3>2
  <2>4. calls'[c] = call /\ \A d \in Calls : Busy(d, "spend")' => d = c
    BY <1>0, <2>1 DEF Busy
  <2> QED BY <2>1, <2>2, <2>3, <2>4 DEF TotpFits
<1>3. ASSUME NEW c \in Calls, Spend(c) PROVE TotpFits'
  <2>1. /\ Busy(c, "spend") /\ calls' = [calls EXCEPT ![c] = Idle] /\ UNCHANGED <<clock, tangled>>
        /\ spent' = [step |-> calls[c].count, until |-> clock + Lifetime]
        /\ backward' = IF calls[c].count <= highest.totp THEN backward \cup {"totp"} ELSE backward
        /\ highest' = [highest EXCEPT !.totp = IF calls[c].count > @ THEN calls[c].count ELSE @]
    BY <1>3 DEF Spend, Drop
  <2>2. calls[c].count \in Nat /\ highest.totp \in Int
    BY <1>0, <2>1 DEF Busy, Call
  <2>3. /\ calls[c].count > highest.totp /\ calls[c].count <= clock + Window
        /\ "totp" \notin backward /\ \A d \in Calls : Busy(d, "spend") => d = c
    BY <2>1, <2>2 DEF TotpFits
  <2>4. highest'.totp = calls[c].count /\ "totp" \notin backward'
    BY <1>0, <2>1, <2>2, <2>3
  <2>5. /\ spent' # None /\ spent'.step = calls[c].count
        /\ spent'.until >= spent'.step + Window + 1
    <3>1. spent'.step = calls[c].count /\ spent'.until = clock + (Window * 2 + 1)
      BY <2>1 DEF Lifetime
    <3>2. spent' \in Spent
      BY <1>0, <2>1, <2>2 DEF Spent, Lifetime
    <3> QED BY <1>0, <2>2, <2>3, <3>1, <3>2
  <2>6. \A d \in Calls : ~Busy(d, "spend")'
    BY <1>0, <2>1, <2>3 DEF Busy
  <2> QED BY <2>4, <2>5, <2>6 DEF TotpFits
<1>4. CASE UNCHANGED vars
  BY <1>1, <1>4 DEF vars, history, Busy, TotpFits
<1>5. CASE Tick
  BY <1>0, <1>1, <1>5 DEF Tick, history, Busy, TotpFits
<1>6. ASSUME NEW s \in Steps, Prompt(s) \/ Lapse(s) PROVE TotpFits'
  BY <1>0, <1>1, <1>6 DEF Prompt, Lapse, history, Busy, TotpFits
<1>7. ASSUME NEW c \in Calls, NEW call, calls' = [calls EXCEPT ![c] = call],
             call = Idle \/ call.pc # "spend", UNCHANGED <<spent, clock>>, highest'.totp = highest.totp,
             "totp" \in tangled' <=> "totp" \in tangled, "totp" \in backward' <=> "totp" \in backward
      PROVE  TotpFits'
  BY <1>0, <1>1, <1>7 DEF TotpFits, Busy
<1>8. ASSUME NEW c \in Calls, DrawWork(c) \/ Stop(c) PROVE TotpFits'
  BY <1>7, <1>8 DEF DrawWork, Stop, Drop, history
<1>9. ASSUME NEW c \in Calls, Unset(c) PROVE TotpFits'
  <2>1. calls' = [calls EXCEPT ![c] = Idle] \/ calls' = [calls EXCEPT ![c] = [calls[c] EXCEPT !.pc = "exchange"]]
    BY <1>9 DEF Unset, Accept, Drop, Go
  <2>2. calls[c] \in Call
    BY <1>0, <1>9 DEF Unset, Busy
  <2>3. [calls[c] EXCEPT !.pc = "exchange"].pc # "spend"
    BY <2>2 DEF Call
  <2> QED BY <1>7, <1>9, <2>1, <2>3 DEF Unset
<1>10. ASSUME NEW c \in Calls, Exchange(c) PROVE TotpFits'
  BY <1>7, <1>10 DEF Exchange, Accept, Drop
<1>11. ASSUME NEW c \in Calls, NEW s \in Steps, PromptWork(c, s) PROVE TotpFits'
  <2>1. [pc |-> "draw", step |-> s, n |-> 0, right |-> FALSE, read |-> kv[s], count |-> 0].pc # "spend"
    OBVIOUS
  <2> QED BY <1>7, <1>11, <2>1 DEF PromptWork, history
<1>12. ASSUME NEW c \in Calls, NEW s \in Steps, NEW n, NEW right, NEW count, Submit(c, s, n, right, count)
       PROVE  TotpFits'
  <2>1. [pc |-> IF KindOf[s] = "assertion" THEN "count" ELSE "unset", step |-> s, n |-> n, right |-> right,
         read |-> kv[s], count |-> count].pc # "spend"
    OBVIOUS
  <2> QED BY <1>7, <1>12, <2>1 DEF Submit
<1>13. ASSUME NEW c \in Calls, ReadCount(c) \/ WriteCount(c) PROVE TotpFits'
  <2>1. calls[c] \in Call
    BY <1>0, <1>13 DEF ReadCount, WriteCount, Busy
  <2>2. PICK call : calls' = [calls EXCEPT ![c] = call] /\ (call = Idle \/ call.pc # "spend")
    <3>1. /\ [calls[c] EXCEPT !.pc = "unset"].pc # "spend"
          /\ [calls[c] EXCEPT !.pc = "recount"].pc # "spend"
      BY <2>1 DEF Call
    <3> QED BY <1>13, <3>1 DEF ReadCount, WriteCount, Drop, Go
  <2>3. /\ UNCHANGED <<spent, clock>> /\ highest'.totp = highest.totp
        /\ "totp" \in tangled' <=> "totp" \in tangled
        /\ "totp" \in backward' <=> "totp" \in backward
    BY <1>0, <1>13 DEF ReadCount, WriteCount
  <2> QED BY <1>7, <2>2, <2>3
<1> QED BY <1>2, <1>3, <1>4, <1>5, <1>6, <1>8, <1>9, <1>10, <1>11, <1>12, <1>13 DEF Next
-----------------------------------------------------------------------------
\* Only the two calls about the counter touch what CountFits speaks of.
LEMMA CountStays ==
  ASSUME OneTimeProofsAssumption, Typed, CountFits, [Next]_vars
  PROVE  CountFits'
<1>0. /\ calls \in [Calls -> Call \cup {Idle}] /\ signCount \in Nat
      /\ highest \in [totp : Int, count : Int] /\ Idle \notin Call
  BY DEF Typed, TypeOK, OneTimeProofsAssumption
<1>1. ASSUME UNCHANGED signCount, highest'.count = highest.count,
             "count" \in tangled' <=> "count" \in tangled, "count" \in backward' <=> "count" \in backward,
             \A c \in Calls : Busy(c, "recount")' => calls'[c] = calls[c]
      PROVE  CountFits'
  BY <1>0, <1>1 DEF CountFits, Busy
<1>2. ASSUME NEW c \in Calls, NEW call, calls' = [calls EXCEPT ![c] = call],
             call = Idle \/ call.pc # "recount", UNCHANGED signCount, highest'.count = highest.count,
             "count" \in tangled' <=> "count" \in tangled, "count" \in backward' <=> "count" \in backward
      PROVE  CountFits'
  BY <1>0, <1>1, <1>2 DEF Busy
<1>3. ASSUME NEW c \in Calls, ReadCount(c) PROVE CountFits'
  <2>1. /\ Busy(c, "count") /\ calls[c] \in Call /\ UNCHANGED <<signCount, highest, backward>>
        /\ tangled' = IF \E d \in Calls : Busy(d, "recount") THEN tangled \cup {"count"} ELSE tangled
    BY <1>0, <1>3 DEF ReadCount, Busy
  <2>2. CASE Go(c, "recount") /\ CountsUp(calls[c].count)
    <3> DEFINE call == [calls[c] EXCEPT !.pc = "recount"]
    <3>1. calls' = [calls EXCEPT ![c] = call] /\ call.count = calls[c].count
      BY <2>1, <2>2 DEF Go, Call
    <3> HIDE DEF call
    <3>2. calls'[c] = call /\ \A d \in Calls \ {c} : calls'[d] = calls[d]
      BY <1>0, <3>1
    <3> SUFFICES ASSUME "count" \notin tangled' PROVE CountFits'
      BY DEF CountFits
    <3>3. "count" \notin tangled /\ \A d \in Calls : ~Busy(d, "recount")
      BY <2>1
    <3>4. \A d \in Calls : Busy(d, "recount")' => d = c
      BY <3>2, <3>3 DEF Busy
    <3>5. calls'[c].count > signCount
      BY <2>2, <3>1, <3>2 DEF CountsUp
    <3> QED BY <2>1, <3>3, <3>4, <3>5 DEF CountFits
  <2>3. CASE calls' = [calls EXCEPT ![c] = Idle] \/ calls' = [calls EXCEPT ![c] = [calls[c] EXCEPT !.pc = "unset"]]
    <3>1. [calls[c] EXCEPT !.pc = "unset"].pc # "recount"
      BY <2>1 DEF Call
    <3>2. \A d \in Calls : Busy(d, "recount")' => calls'[d] = calls[d]
      BY <1>0, <2>3, <3>1 DEF Busy
    <3> QED BY <1>0, <2>1, <3>2 DEF CountFits, Busy
  <2> QED BY <1>3, <2>2, <2>3 DEF ReadCount, Go, Drop
<1>4. ASSUME NEW c \in Calls, WriteCount(c) PROVE CountFits'
  <2>1. /\ Busy(c, "recount") /\ calls[c] \in Call /\ UNCHANGED tangled /\ signCount' = calls[c].count
        /\ backward' = IF calls[c].count <= highest.count THEN backward \cup {"count"} ELSE backward
        /\ highest' = [highest EXCEPT !.count = IF calls[c].count > @ THEN calls[c].count ELSE @]
        /\ calls' = [calls EXCEPT ![c] = [calls[c] EXCEPT !.pc = "unset"]]
    BY <1>0, <1>4 DEF WriteCount, Busy, Go
  <2>2. calls[c].count \in Nat /\ highest.count \in Int /\ [calls[c] EXCEPT !.pc = "unset"].pc # "recount"
    BY <1>0, <2>1 DEF Call
  <2> SUFFICES ASSUME "count" \notin tangled PROVE CountFits'
    BY <2>1 DEF CountFits
  <2>3. /\ calls[c].count > highest.count /\ "count" \notin backward
        /\ \A d \in Calls : Busy(d, "recount") => d = c
    BY <2>1 DEF CountFits
  <2>4. highest'.count = calls[c].count /\ "count" \notin backward'
    BY <1>0, <2>1, <2>2, <2>3
  <2>5. \A d \in Calls : ~Busy(d, "recount")'
    BY <1>0, <2>1, <2>2, <2>3 DEF Busy
  <2> QED BY <2>1, <2>4, <2>5 DEF CountFits
<1>5. CASE UNCHANGED vars \/ Tick
  BY <1>1, <1>5 DEF vars, Tick, history
<1>6. ASSUME NEW s \in Steps, Prompt(s) \/ Lapse(s) PROVE CountFits'
  BY <1>1, <1>6 DEF Prompt, Lapse, history
<1>8. ASSUME NEW c \in Calls, DrawWork(c) \/ Stop(c) PROVE CountFits'
  BY <1>2, <1>8 DEF DrawWork, Stop, Drop, history
<1>9. ASSUME NEW c \in Calls, Unset(c) PROVE CountFits'
  <2>1. calls' = [calls EXCEPT ![c] = Idle] \/ calls' = [calls EXCEPT ![c] = [calls[c] EXCEPT !.pc = "exchange"]]
    BY <1>9 DEF Unset, Accept, Drop, Go
  <2>2. calls[c] \in Call
    BY <1>0, <1>9 DEF Unset, Busy
  <2>3. [calls[c] EXCEPT !.pc = "exchange"].pc # "recount"
    BY <2>2 DEF Call
  <2> QED BY <1>2, <1>9, <2>1, <2>3 DEF Unset
<1>10. ASSUME NEW c \in Calls, Exchange(c) PROVE CountFits'
  BY <1>2, <1>10 DEF Exchange, Accept, Drop
<1>11. ASSUME NEW c \in Calls, NEW s \in Steps, PromptWork(c, s) PROVE CountFits'
  <2>1. [pc |-> "draw", step |-> s, n |-> 0, right |-> FALSE, read |-> kv[s], count |-> 0].pc # "recount"
    OBVIOUS
  <2> QED BY <1>2, <1>11, <2>1 DEF PromptWork, history
<1>12. ASSUME NEW c \in Calls, NEW s \in Steps, NEW n, NEW right, NEW count, Submit(c, s, n, right, count)
       PROVE  CountFits'
  <2>1. [pc |-> IF KindOf[s] = "assertion" THEN "count" ELSE "unset", step |-> s, n |-> n, right |-> right,
         read |-> kv[s], count |-> count].pc # "recount"
    OBVIOUS
  <2> QED BY <1>2, <1>12, <2>1 DEF Submit
<1>13. ASSUME NEW c \in Calls, NEW step, SubmitTotp(c, step) PROVE CountFits'
  <2>1. [pc |-> "spend", step |-> None, n |-> 0, right |-> TRUE, read |-> 0, count |-> step].pc # "recount"
    OBVIOUS
  <2>2. "count" \in tangled' <=> "count" \in tangled
    BY <1>13 DEF SubmitTotp
  <2> QED BY <1>2, <1>13, <2>1, <2>2 DEF SubmitTotp
<1>14. ASSUME NEW c \in Calls, Spend(c) PROVE CountFits'
  <2>1. highest'.count = highest.count /\ ("count" \in backward' <=> "count" \in backward)
    BY <1>0, <1>14 DEF Spend
  <2> QED BY <1>2, <1>14, <2>1 DEF Spend, Drop
<1> QED BY <1>3, <1>4, <1>5, <1>6, <1>8, <1>9, <1>10, <1>11, <1>12, <1>13, <1>14 DEF Next
-----------------------------------------------------------------------------
\* A challenge stays answered, and every other as it was, when no new call reads it.
LEMMA Undisturbed ==
  ASSUME OneTimeProofsAssumption, Typed, NEW proof \in Steps \X (1..MaxIssued), ProofFits(proof),
         proof \in taken' <=> proof \in taken, proof \in accepted' <=> proof \in accepted,
         raced \subseteq raced', exchanged \subseteq exchanged',
         kv'[proof[1]] \in {0, kv[proof[1]], issued[proof[1]] + 1},
         \A c \in Calls : Reads(c, proof)' => Reads(c, proof)
  PROVE  ProofFits(proof)'
<1>1. proof[1] \in Steps /\ proof[2] \in Nat /\ proof[2] # 0
  BY DEF OneTimeProofsAssumption
<1>2. proof \in taken => proof[2] <= issued[proof[1]] /\ issued[proof[1]] \in Nat
  BY <1>1 DEF Typed, TypeOK, Known, Challenges
<1>3. proof \in taken' => kv'[proof[1]] # proof[2]
  BY <1>1, <1>2 DEF ProofFits
<1>4. proof \notin raced' => \A c, d \in Calls : Reads(c, proof)' /\ Reads(d, proof)' => c = d
  BY DEF ProofFits
<1>5. proof \in taken' \ raced' => \A c \in Calls : ~Reads(c, proof)'
  BY DEF ProofFits
<1>6. proof \in accepted' => IF KindOf[proof[1]] = "account" THEN proof \in exchanged' ELSE proof \in taken'
  BY DEF ProofFits
<1> QED BY <1>3, <1>4, <1>5, <1>6 DEF ProofFits

\* A step that removes nothing and accepts nothing, and whose call, if one changes, does not
\* come to remove a challenge.
LEMMA OnceStep ==
  ASSUME OneTimeProofsAssumption, Typed, Once, UNCHANGED <<taken, accepted, twice, raced, exchanged>>,
         \A s \in Steps : kv'[s] \in {0, kv[s], issued[s] + 1},
         \A c \in Calls : \/ calls'[c] \in {calls[c], Idle} \/ calls'[c].pc \in {"draw", "exchange", "spend"}
                         \/ /\ calls[c] # Idle /\ calls[c].pc \in {"count", "recount", "unset"}
                            /\ calls'[c].step = calls[c].step /\ calls'[c].read = calls[c].read
  PROVE  Once'
<1>1. ASSUME NEW proof \in Steps \X (1..MaxIssued) PROVE ProofFits(proof)'
  <2>1. \A c \in Calls : Reads(c, proof)' => Reads(c, proof)
    BY DEF Reads
  <2>2. ProofFits(proof)
    BY DEF Once, ProofsFit
  <2> QED BY <2>1, <2>2, Undisturbed
<1> QED BY <1>1 DEF Once, ProofsFit, ProofWorksOnce

LEMMA SubmitOnce ==
  ASSUME OneTimeProofsAssumption, Typed, Once, NEW c \in Calls, NEW s \in Steps, NEW n \in Challenges,
         NEW right \in BOOLEAN, NEW count \in 0..MaxCount, Submit(c, s, n, right, count)
  PROVE  Once'
<1> DEFINE call == [pc |-> IF KindOf[s] = "assertion" THEN "count" ELSE "unset",
                    step |-> s, n |-> n, right |-> right, read |-> kv[s], count |-> count]
           read == <<s, kv[s]>>
<1>1. /\ calls' = [calls EXCEPT ![c] = call] /\ UNCHANGED <<kv, taken, accepted, twice, exchanged>>
      /\ raced' = raced \cup { read : d \in { d \in Calls : calls[d] # Idle /\ calls[d].pc # "draw"
                                                         /\ calls[d].step = s /\ calls[d].read = kv[s] } }
  BY DEF Submit
<1>2. call.step = s /\ call.read = kv[s]
  OBVIOUS
<1> HIDE DEF call
<1>3. calls'[c] = call /\ \A d \in Calls \ {c} : calls'[d] = calls[d]
  BY <1>1 DEF Typed, TypeOK
<1>4. ASSUME NEW proof \in Steps \X (1..MaxIssued) PROVE ProofFits(proof)'
  <2>1. ProofFits(proof) /\ proof = <<proof[1], proof[2]>>
    BY DEF Once, ProofsFit
  <2>2. CASE proof # read
    <3>1. \A d \in Calls : Reads(d, proof)' => Reads(d, proof)
      BY <1>2, <1>3, <2>1, <2>2 DEF Reads
    <3> QED BY <1>1, <2>1, <3>1, Undisturbed
  <2>3. CASE proof = read
    <3>1. proof[1] = s /\ proof[2] = kv[s]
      BY <2>3
    <3>2. proof \notin taken
      BY <2>1, <3>1 DEF ProofFits
    <3>3. proof \notin raced' => \A d \in Calls : ~Reads(d, proof)
      BY <1>1, <2>3, <3>1 DEF Reads
    <3>4. \A d \in Calls \ {c} : Reads(d, proof)' => Reads(d, proof)
      BY <1>3 DEF Reads
    <3> QED BY <1>1, <2>1, <3>2, <3>3, <3>4 DEF ProofFits
  <2> QED BY <2>2, <2>3
<1> QED BY <1>1, <1>4 DEF Once, ProofsFit, ProofWorksOnce

LEMMA UnsetOnce ==
  ASSUME OneTimeProofsAssumption, Typed, Once, NEW c \in Calls, Unset(c)
  PROVE  Once'
<1> DEFINE s == calls[c].step
           read == <<s, calls[c].read>>
<1>1. /\ calls[c] \in Call /\ calls[c].pc = "unset" /\ calls[c] # Idle /\ s \in Steps
      /\ read \in Known /\ calls[c].read # 0 /\ (KindOf[s] # "work" => calls[c].n = calls[c].read)
  <2>1. /\ calls[c] \in Call /\ calls[c].pc = "unset" /\ calls[c] # Idle /\ s \in Steps
        /\ calls[c].read \in 1..issued[s] /\ (KindOf[s] # "work" => calls[c].n = calls[c].read)
    BY CallAt DEF Unset, CallFits, Submitted
  <2>2. read \in Known
    BY <2>1, DrawnIsKnown
  <2>3. issued[s] \in Nat
    BY <2>1 DEF Typed, TypeOK, Challenges
  <2> QED BY <2>1, <2>2, <2>3
<1>2. /\ kv' = [kv EXCEPT ![s] = 0] /\ taken' = taken \cup {read} /\ UNCHANGED <<raced, exchanged>>
  BY DEF Unset, Removed
<1>3. \A r \in Steps : kv'[r] \in {0, kv[r]}
  BY <1>2 DEF Typed, TypeOK
<1>4. kv'[s] = 0
  BY <1>1, <1>2 DEF Typed, TypeOK
<1>5. \/ /\ accepted' = accepted \cup {read} /\ twice' = twice \cup ({read} \cap accepted)
         /\ KindOf[s] # "account"
      \/ UNCHANGED <<accepted, twice>>
  <2>1. CASE KindOf[s] = "account"
    BY <2>1 DEF Unset
  <2>2. CASE KindOf[s] = "work" /\ ~(calls[c].right /\ calls[c].n = calls[c].read)
    BY <2>2 DEF Unset
  <2>3. CASE ~(KindOf[s] = "account") /\ ~(KindOf[s] = "work" /\ ~(calls[c].right /\ calls[c].n = calls[c].read))
    <3>1. Accept(c)
      BY <2>3 DEF Unset
    <3>2. calls[c].n = calls[c].read
      BY <1>1, <2>3
    <3> QED BY <2>3, <3>1, <3>2 DEF Accept
  <2> QED BY <2>1, <2>2, <2>3
<1>6. /\ \A d \in Calls \ {c} : calls'[d] = calls[d]
      /\ \A proof : ~Reads(c, proof)'
  <2>1. calls' = [calls EXCEPT ![c] = Idle] \/ calls' = [calls EXCEPT ![c] = [calls[c] EXCEPT !.pc = "exchange"]]
    BY DEF Unset, Accept, Drop, Go
  <2>2. [calls[c] EXCEPT !.pc = "exchange"].pc = "exchange"
    BY <1>1 DEF Call
  <2> QED BY <2>1, <2>2 DEF Typed, TypeOK, Reads
<1>7. \A d \in Calls : \A proof : Reads(d, proof)' => Reads(d, proof) /\ d # c
  BY <1>6 DEF Reads
<1>8. Reads(c, read)
  BY <1>1 DEF Reads
<1>9. ASSUME NEW proof \in Steps \X (1..MaxIssued) PROVE ProofFits(proof)'
  <2>1. ProofFits(proof)
    BY DEF Once, ProofsFit
  <2>2. CASE proof # read
    <3>1. (proof \in accepted' <=> proof \in accepted) /\ (proof \in taken' <=> proof \in taken)
      BY <1>2, <1>5, <2>2
    <3> QED BY <1>2, <1>3, <1>7, <2>1, <3>1, Undisturbed
  <2>3. CASE proof = read
    <3>1. kv'[proof[1]] # proof[2]
      BY <1>1, <1>4, <2>3
    <3>2. proof \notin raced' => \A d \in Calls : ~Reads(d, proof)'
      BY <1>2, <1>7, <1>8, <2>1, <2>3 DEF ProofFits
    <3>3. proof \in taken' /\ proof[1] = s
      BY <1>2, <2>3
    <3>4. proof \in accepted' => IF KindOf[proof[1]] = "account" THEN proof \in exchanged' ELSE proof \in taken'
      BY <1>2, <1>5, <2>1, <3>3 DEF ProofFits
    <3> QED BY <3>1, <3>2, <3>3, <3>4 DEF ProofFits
  <2> QED BY <2>2, <2>3
<1>10. ASSUME NEW proof \in twice' PROVE proof \in raced /\ KindOf[proof[1]] # "account"
  <2>1. CASE proof \in twice
    BY <2>1 DEF Once, ProofWorksOnce
  <2>2. CASE proof = read /\ read \in accepted /\ KindOf[s] # "account"
    <3>1. read \in Steps \X (1..MaxIssued) /\ read[1] = s
      BY <1>1 DEF Known
    <3>2. ProofFits(read)
      BY <3>1 DEF Once, ProofsFit
    <3> QED BY <1>8, <2>2, <3>1, <3>2 DEF ProofFits
  <2> QED BY <1>5, <1>10, <2>1, <2>2
<1>11. twice' \subseteq accepted'
  BY <1>5 DEF Once
<1> QED BY <1>2, <1>9, <1>10, <1>11 DEF Once, ProofsFit, ProofWorksOnce

LEMMA ExchangeOnce ==
  ASSUME OneTimeProofsAssumption, Typed, Once, NEW c \in Calls, Exchange(c)
  PROVE  Once'
<1> DEFINE code == <<calls[c].step, calls[c].n>>
<1>1. KindOf[code[1]] = "account" /\ code \in Known
  BY CallAt, DrawnIsKnown DEF Exchange, CallFits, Submitted
<1>2. /\ calls' = [calls EXCEPT ![c] = Idle] /\ UNCHANGED <<kv, taken, raced>>
      /\ \/ /\ code \notin exchanged /\ exchanged' = exchanged \cup {code}
            /\ accepted' = accepted \cup {code} /\ twice' = twice \cup ({code} \cap accepted)
         \/ UNCHANGED <<exchanged, accepted, twice>>
  BY DEF Exchange, Accept, Drop
<1> HIDE DEF code
<1>3. \A d \in Calls : \A proof : Reads(d, proof)' => Reads(d, proof)
  BY <1>2 DEF Typed, TypeOK, Reads
<1>4. code \in accepted => code \in exchanged
  BY <1>1 DEF Once, ProofsFit, ProofFits, Known
<1>5. twice' = twice
  BY <1>2, <1>4
<1>6. ASSUME NEW proof \in Steps \X (1..MaxIssued) PROVE ProofFits(proof)'
  <2>1. ProofFits(proof)
    BY DEF Once, ProofsFit
  <2>2. CASE proof \in accepted' <=> proof \in accepted
    BY <1>2, <1>3, <2>1, <2>2, Undisturbed
  <2>3. CASE proof = code /\ code \in exchanged'
    BY <1>1, <1>2, <1>3, <2>1, <2>3 DEF ProofFits
  <2> QED BY <1>2, <2>2, <2>3
<1> QED BY <1>2, <1>5, <1>6 DEF Once, ProofsFit, ProofWorksOnce

LEMMA OnceInvariance ==
  ASSUME OneTimeProofsAssumption, Typed, Once, [Next]_vars
  PROVE  Once'
<1>0. /\ calls \in [Calls -> Call \cup {Idle}] /\ kv \in [Steps -> Challenges]
      /\ \A s \in Steps : kv[s] \in {0, kv[s], issued[s] + 1}
  BY DEF Typed, TypeOK
<1>1. CASE UNCHANGED vars \/ Tick
  BY <1>0, <1>1, OnceStep DEF vars, Tick, history
<1>2. ASSUME NEW s \in Steps, Draw(s) PROVE \A r \in Steps : kv'[r] \in {0, kv[r], issued[r] + 1}
  BY <1>2, Drawn
<1>3. ASSUME NEW s \in Steps, Prompt(s) PROVE Once'
  BY <1>2, <1>3, OnceStep DEF Prompt, history
<1>4. ASSUME NEW s \in Steps, Lapse(s) PROVE Once'
  BY <1>0, <1>4, OnceStep DEF Lapse
<1>5. ASSUME NEW c \in Calls, DrawWork(c) PROVE Once'
  <2>1. calls[c].step \in Steps
    BY <1>5, CallAt DEF DrawWork, CallFits
  <2> QED BY <1>0, <1>2, <1>5, <2>1, OnceStep DEF DrawWork, Drop
<1>6. ASSUME NEW c \in Calls, NEW s \in Steps, PromptWork(c, s) PROVE Once'
  <2> DEFINE call == [pc |-> "draw", step |-> s, n |-> 0, right |-> FALSE, read |-> kv[s], count |-> 0]
  <2>1. calls' = [calls EXCEPT ![c] = call] /\ call.pc = "draw"
    BY <1>6 DEF PromptWork
  <2> HIDE DEF call
  <2>2. \A d \in Calls : calls'[d] = calls[d] \/ calls'[d].pc = "draw"
    BY <1>0, <2>1
  <2> QED BY <1>0, <1>6, <2>2, OnceStep DEF PromptWork, history
<1>7. ASSUME NEW c \in Calls, NEW s \in Steps, NEW n \in Challenges, NEW right \in BOOLEAN,
             NEW count \in 0..MaxCount, Submit(c, s, n, right, count)
      PROVE  Once'
  BY <1>7, SubmitOnce
<1>8. ASSUME NEW c \in Calls, ReadCount(c) \/ WriteCount(c) PROVE Once'
  <2>1. calls[c] \in Call /\ calls[c] # Idle /\ calls[c].pc \in {"count", "recount"}
    BY <1>8, CallAt DEF ReadCount, WriteCount
  <2>2. ASSUME NEW pc PROVE [calls[c] EXCEPT !.pc = pc].step = calls[c].step /\ [calls[c] EXCEPT !.pc = pc].read = calls[c].read
    BY <2>1 DEF Call
  <2>3. calls' = [calls EXCEPT ![c] = Idle] \/ \E pc : calls' = [calls EXCEPT ![c] = [calls[c] EXCEPT !.pc = pc]]
    BY <1>8 DEF ReadCount, WriteCount, Go, Drop
  <2>4. /\ \A d \in Calls \ {c} : calls'[d] = calls[d]
        /\ calls'[c] = Idle \/ (calls'[c].step = calls[c].step /\ calls'[c].read = calls[c].read)
    BY <1>0, <2>2, <2>3
  <2>5. UNCHANGED <<kv, taken, accepted, twice, raced, exchanged>>
    BY <1>8 DEF ReadCount, WriteCount
  <2> QED BY <1>0, <2>1, <2>4, <2>5, OnceStep
<1>9. ASSUME NEW c \in Calls, Unset(c) PROVE Once'
  BY <1>9, UnsetOnce
<1>10. ASSUME NEW c \in Calls, Exchange(c) PROVE Once'
  BY <1>10, ExchangeOnce
<1>11. ASSUME NEW c \in Calls, NEW step, SubmitTotp(c, step) PROVE Once'
  <2> DEFINE call == [pc |-> "spend", step |-> None, n |-> 0, right |-> TRUE, read |-> 0, count |-> step]
  <2>1. calls' = [calls EXCEPT ![c] = call] /\ call.pc = "spend"
    BY <1>11 DEF SubmitTotp
  <2> HIDE DEF call
  <2>2. \A d \in Calls : calls'[d] = calls[d] \/ calls'[d].pc = "spend"
    BY <1>0, <2>1
  <2> QED BY <1>0, <1>11, <2>2, OnceStep DEF SubmitTotp
<1>12. ASSUME NEW c \in Calls, Spend(c) \/ Stop(c) PROVE Once'
  BY <1>0, <1>12, OnceStep DEF Spend, Stop, Drop, history
<1> QED BY <1>1, <1>3, <1>4, <1>5, <1>6, <1>7, <1>8, <1>9, <1>10, <1>11, <1>12 DEF Next
-----------------------------------------------------------------------------
LEMMA InitInv == ASSUME OneTimeProofsAssumption, Init PROVE IInv
<1>1. Typed
  BY TypedInit
<1>2. Once
  BY DEF Init, Once, ProofsFit, ProofFits, Reads, ProofWorksOnce
<1>3. UnansweredStands
  BY DEF Init, UnansweredStands, OneTimeProofsAssumption
<1>4. TotpFits /\ CountFits
  BY DEF Init, TotpFits, CountFits, Busy
<1> QED BY <1>1, <1>2, <1>3, <1>4 DEF IInv

LEMMA Invariance == ASSUME OneTimeProofsAssumption, IInv, [Next]_vars PROVE IInv'
BY TypedInvariance, OnceInvariance, UnansweredStays, TotpStays, CountStays DEF IInv

\* A proof counts one time, and what waits for one is there to be answered: for any number of
\* dances and of submits at once, a code, an assertion, a proof of work and an authorization
\* are accepted one time unless two submits read them before either removed them
\* (components/otp.ts, webauthn.ts, pow.ts, oauth2.ts), a challenge goes only with an answer
\* or its time, and time steps and signature counters go up (totp.ts, webauthn.ts).
THEOREM ProofsCount == OneTimeProofsAssumption => (Spec => []ProofsCountOnce)
<1> SUFFICES ASSUME OneTimeProofsAssumption PROVE Spec => []ProofsCountOnce
  OBVIOUS
<1>1. Init => IInv
  BY InitInv
<1>2. IInv /\ [Next]_vars => IInv'
  BY Invariance
<1>3. IInv => ProofsCountOnce
  BY DEF IInv, Typed, Once, TotpFits, CountFits, ProofsCountOnce, TotpCodesGoForward, SignCountsGoForward
<1> QED BY <1>1, <1>2, <1>3, PTL DEF Spec
-----------------------------------------------------------------------------
(* The dance of a page.  A snapshot is a dance without its timer, so what  *)
(* is said of the steps is said of both; a start brings a dance that       *)
(* nobody else refers to.                                                  *)

SavedDance == [flow : Flows, steps : Seq(D!Step), trail : Seq(Names), selected : Names \cup {Nothing}, crossed : BOOLEAN]

\* The steps and the trail of a dance that is not over.
IsAWalk(dance) ==
  /\ Len(dance.steps) = Len(dance.trail) + 1
  /\ \A i \in DOMAIN dance.steps : dance.steps[i] = SubSeq(dance.trail, 1, i - 1)
  /\ dance.selected \in D!Offers(D!Current(dance)) \cup {Nothing}

\* A dance, also one that an answer crossed: its trail is long enough to go back.
DanceFits(dance) ==
  /\ dance \in D!Dance
  /\ Len(dance.steps) <= Len(dance.trail) + 1
  /\ ~dance.crossed => IF dance.done THEN dance.steps = <<>> /\ dance.selected = Nothing ELSE IsAWalk(dance)

SnapshotFits(snapshot) ==
  /\ snapshot \in SavedDance /\ snapshot.steps # <<>>
  /\ Len(snapshot.steps) <= Len(snapshot.trail) + 1
  /\ ~snapshot.crossed => IsAWalk(snapshot)

DancesFit ==
  /\ dances \in [Dances -> D!Dance \cup {Nothing}]
  /\ \A d \in Dances : dances[d] # Nothing => DanceFits(dances[d])
  /\ saved # Nothing => SnapshotFits(saved)

CallsRefer ==
  /\ actions \in [Actions -> D!Call \cup {Nothing}]
  /\ \A c \in Actions : actions[c] # Nothing =>
       /\ actions[c].dance \in Dances /\ dances[actions[c].dance] # Nothing
       /\ actions[c].op = "submit" => actions[c].name \in Names /\ actions[c].steps # <<>>

\* What a start brought waits untouched for the node to take it.
Brings(s) ==
  LET start == starts[s] IN
  /\ start.dance \in Dances /\ dances[start.dance] # Nothing
  /\ dances[start.dance].flow = start.flow /\ dances[start.dance].steps # <<>>
  /\ held # start.dance
  /\ \A c \in Actions : actions[c] # Nothing => actions[c].dance # start.dance
  /\ \A r \in Starts \ {s} : starts[r] # Nothing => starts[r].dance # start.dance

StartsRefer ==
  /\ starts \in [Starts -> D!Start \cup {Nothing}]
  /\ \A s \in Starts : starts[s] # Nothing =>
       /\ starts[s].mounted => mounted /\ enabled /\ starts[s].flow = flow
       /\ starts[s].pc = "asked" => starts[s].mounted
       /\ IF starts[s].pc = "started" THEN Brings(s) ELSE starts[s].dance = Nothing

NodeFits ==
  /\ mounted \in BOOLEAN /\ flow \in Flows /\ enabled \in BOOLEAN
  /\ pending \in BOOLEAN /\ error \in BOOLEAN /\ changes \in 0..MaxChanges /\ strayed \in BOOLEAN
  /\ held # Nothing => held \in Dances /\ dances[held] # Nothing /\ mounted

PageInv ==
  /\ DancesFit /\ CallsRefer /\ StartsRefer /\ NodeFits
  /\ D!PicksUpWhereItLeft /\ D!HandleIsOfItsFlow /\ D!DisposedIsQuiet /\ D!PendingIsForACall

\* The first step of a flow.
LEMMA FreshFits ==
  ASSUME NEW f \in Flows
  PROVE  /\ DanceFits(D!Fresh(f)) /\ D!Fresh(f).steps # <<>> /\ D!Fresh(f).flow = f
         /\ ~D!Fresh(f).crossed /\ D!Fresh(f).timer = "armed"
<1> DEFINE fresh == D!Fresh(f)
<1>1. /\ fresh.flow = f /\ fresh.steps = << <<>> >> /\ fresh.trail = <<>> /\ fresh.selected = Nothing
      /\ fresh.done = FALSE /\ fresh.timer = "armed" /\ fresh.crossed = FALSE
  BY DEF D!Fresh, D!Build
<1>2. fresh \in D!Dance
  <2>1. << <<>> >> \in Seq(D!Step) /\ <<>> \in Seq(Names)
    BY DEF D!Step
  <2> QED BY <2>1 DEF D!Fresh, D!Build, D!Dance
<1>3. /\ Len(fresh.steps) = 1 /\ DOMAIN fresh.steps = {1} /\ fresh.steps[1] = <<>> /\ Len(fresh.trail) = 0
  BY <1>1
<1>4. SubSeq(fresh.trail, 1, 0) = <<>>
  BY SubSeqEmpty
<1> HIDE DEF fresh
<1>5. IsAWalk(fresh)
  <2>1. ASSUME NEW i \in DOMAIN fresh.steps PROVE fresh.steps[i] = SubSeq(fresh.trail, 1, i - 1)
    <3>1. i = 1 /\ i - 1 = 0
      BY <1>3
    <3> QED BY <1>3, <1>4, <3>1
  <2>2. Len(fresh.steps) = Len(fresh.trail) + 1
    BY <1>3
  <2> QED BY <1>1, <2>1, <2>2 DEF IsAWalk
<1>6. DanceFits(fresh)
  BY <1>1, <1>2, <1>3, <1>5 DEF DanceFits
<1> QED BY <1>1, <1>3, <1>6 DEF fresh

\* A dance built from a snapshot is the one it is of.
LEMMA BuiltFits ==
  ASSUME NEW snapshot, SnapshotFits(snapshot), NEW timer \in {"armed", "fired"}
  PROVE  /\ DanceFits(D!Build(snapshot, timer)) /\ D!Build(snapshot, timer).steps # <<>>
         /\ D!Build(snapshot, timer).flow = snapshot.flow
<1> DEFINE built == D!Build(snapshot, timer)
<1>1. /\ built.flow = snapshot.flow /\ built.steps = snapshot.steps /\ built.trail = snapshot.trail
      /\ built.selected = snapshot.selected /\ built.done = FALSE /\ built.crossed = snapshot.crossed
  BY DEF D!Build
<1>2. built \in D!Dance
  BY DEF D!Build, D!Dance, SnapshotFits, SavedDance
<1> HIDE DEF built
<1>3. DanceFits(built) /\ built.steps # <<>>
  BY <1>1, <1>2 DEF SnapshotFits, DanceFits, IsAWalk, D!Current
<1> QED BY <1>1, <1>3 DEF built

\* The snapshot of a dance that is under way.
LEMMA SnapshotOfFits ==
  ASSUME NEW dance, DanceFits(dance), dance.steps # <<>>
  PROVE  SnapshotFits(D!Snapshot(dance))
<1> DEFINE snapshot == D!Snapshot(dance)
<1>1. /\ snapshot.flow = dance.flow /\ snapshot.steps = dance.steps /\ snapshot.trail = dance.trail
      /\ snapshot.selected = dance.selected /\ snapshot.crossed = dance.crossed
  BY DEF D!Snapshot
<1>2. snapshot \in SavedDance
  BY DEF D!Snapshot, D!Dance, DanceFits, SavedDance
<1> HIDE DEF snapshot
<1>3. SnapshotFits(snapshot)
  BY <1>1, <1>2 DEF SnapshotFits, DanceFits, IsAWalk, D!Current
<1> QED BY <1>3 DEF snapshot

\* A timer is no part of the walk.
LEMMA TimerFits ==
  ASSUME NEW dance, DanceFits(dance), NEW timer \in {"armed", "fired", "off"}
  PROVE  LET after == [dance EXCEPT !.timer = timer] IN
         /\ DanceFits(after) /\ after.timer = timer /\ after.steps = dance.steps /\ after.flow = dance.flow
         /\ after.crossed = dance.crossed /\ D!Snapshot(after) = D!Snapshot(dance)
<1> DEFINE after == [dance EXCEPT !.timer = timer]
<1>1. dance \in D!Dance
  BY DEF DanceFits
<1>2. /\ after \in D!Dance /\ after.timer = timer /\ after.flow = dance.flow /\ after.steps = dance.steps
      /\ after.trail = dance.trail /\ after.selected = dance.selected /\ after.done = dance.done
      /\ after.crossed = dance.crossed
  BY <1>1 DEF D!Dance
<1> HIDE DEF after
<1>3. DanceFits(after)
  BY <1>2 DEF DanceFits, IsAWalk, D!Current
<1>4. D!Snapshot(after) = D!Snapshot(dance)
  BY <1>2 DEF D!Snapshot
<1> QED BY <1>2, <1>3, <1>4 DEF after

\* A record of a dance is not what stands for none.
LEMMA DanceIsSome ==
  ASSUME NEW dance, DanceFits(dance)
  PROVE  dance # Nothing
BY PageAssumption DEF DanceFits, D!ClientDanceAssumption

\* The timer of a dance that moved.
LEMMA ArmedFits ==
  ASSUME NEW dance, DanceFits(dance)
  PROVE  DanceFits(D!Armed(dance)) /\ D!Armed(dance).steps = dance.steps /\ D!Armed(dance).flow = dance.flow
<1>1. PICK timer \in {"armed", "fired", "off"} : D!Armed(dance) = [dance EXCEPT !.timer = timer]
  BY DEF D!Armed, DanceFits, D!Dance
<1> DEFINE after == [dance EXCEPT !.timer = timer]
<1>2. DanceFits(after) /\ after.steps = dance.steps /\ after.flow = dance.flow
  BY TimerFits
<1> HIDE DEF after
<1>3. D!Armed(dance) = after
  BY <1>1 DEF after
<1> QED BY <1>2, <1>3

\* A dance that is over, or was crossed, as an answer leaves it.
LEMMA CrossedFits ==
  ASSUME NEW dance \in D!Dance, Len(dance.steps) <= Len(dance.trail) + 1
  PROVE  DanceFits([dance EXCEPT !.crossed = TRUE])
<1> DEFINE after == [dance EXCEPT !.crossed = TRUE]
<1>1. after \in D!Dance /\ after.steps = dance.steps /\ after.trail = dance.trail /\ after.crossed
  BY DEF D!Dance
<1> HIDE DEF after
<1>2. DanceFits(after)
  BY <1>1 DEF DanceFits
<1> QED BY <1>2 DEF after

\* A choice changes what is selected alone.
LEMMA ChosenFits ==
  ASSUME NEW dance, DanceFits(dance), dance.steps # <<>>, NEW name \in Names, name \in D!Offers(D!Current(dance))
  PROVE  LET after == [dance EXCEPT !.selected = name] IN DanceFits(after) /\ after.flow = dance.flow
<1> DEFINE after == [dance EXCEPT !.selected = name]
<1>1. dance \in D!Dance
  BY DEF DanceFits
<1>2. /\ after \in D!Dance /\ after.flow = dance.flow /\ after.steps = dance.steps
      /\ after.trail = dance.trail /\ after.selected = name /\ after.done = dance.done
      /\ after.crossed = dance.crossed
  BY <1>1 DEF D!Dance
<1> HIDE DEF after
<1>3. DanceFits(after)
  BY <1>2 DEF DanceFits, IsAWalk, D!Current
<1> QED BY <1>2, <1>3 DEF after

\* A dance that is given up has no step.
LEMMA AbandonedFits ==
  ASSUME NEW dance, DanceFits(dance)
  PROVE  LET after == [dance EXCEPT !.steps = <<>>, !.trail = <<>>, !.selected = Nothing, !.done = TRUE] IN
         DanceFits(after) /\ after.flow = dance.flow
<1> DEFINE after == [dance EXCEPT !.steps = <<>>, !.trail = <<>>, !.selected = Nothing, !.done = TRUE]
<1>1. dance \in D!Dance
  BY DEF DanceFits
<1>2. /\ after.flow = dance.flow /\ after.steps = <<>> /\ after.trail = <<>> /\ after.selected = Nothing
      /\ after.done
  BY <1>1 DEF D!Dance
<1>3. after \in D!Dance
  <2>1. <<>> \in Seq(D!Step) /\ <<>> \in Seq(Names)
    OBVIOUS
  <2> QED BY <1>1, <2>1 DEF D!Dance
<1> HIDE DEF after
<1>4. DanceFits(after)
  BY <1>2, <1>3 DEF DanceFits
<1> QED BY <1>2, <1>4 DEF after

\* The prefixes of a trail are those of a longer one.
LEMMA PrefixOfAppend ==
  ASSUME NEW trail \in Seq(Names), NEW name \in Names, NEW i \in 0..Len(trail)
  PROVE  SubSeq(Append(trail, name), 1, i) = SubSeq(trail, 1, i)
<1>1. /\ Append(trail, name) \in Seq(Names) /\ Len(Append(trail, name)) = Len(trail) + 1
      /\ \A k \in 1..Len(trail) : Append(trail, name)[k] = trail[k]
  OBVIOUS
<1>2. i \in Int /\ Len(trail) \in Nat
  OBVIOUS
<1>3. /\ \A k \in 1..i : Append(trail, name)[k] = trail[k] /\ trail[k] \in Names
      /\ \A k \in 1..i : Append(trail, name)[k] \in Names
  BY <1>1, <1>2
<1>4. /\ SubSeq(trail, 1, i) \in Seq(Names) /\ Len(SubSeq(trail, 1, i)) = i
      /\ \A k \in 1..i : SubSeq(trail, 1, i)[k] = trail[k]
  <2>1. \A k \in 1..i : trail[k] \in Names
    BY <1>3
  <2> QED BY <1>2, <2>1, SubSeqProperties
<1>5. /\ SubSeq(Append(trail, name), 1, i) \in Seq(Names) /\ Len(SubSeq(Append(trail, name), 1, i)) = i
      /\ \A k \in 1..i : SubSeq(Append(trail, name), 1, i)[k] = Append(trail, name)[k]
  <2>1. \A k \in 1..i : Append(trail, name)[k] \in Names
    BY <1>3
  <2> QED BY <1>2, <2>1, SubSeqProperties
<1>6. \A k \in 1..i : SubSeq(Append(trail, name), 1, i)[k] = SubSeq(trail, 1, i)[k]
  BY <1>3, <1>4, <1>5
<1> QED BY <1>4, <1>5, <1>6, SeqEqual

\* And those of a shorter one.
LEMMA PrefixOfFront ==
  ASSUME NEW S, NEW trail \in Seq(S), trail # <<>>
  PROVE  /\ D!Front(trail) \in Seq(S) /\ Len(D!Front(trail)) = Len(trail) - 1
         /\ \A i \in 1..Len(trail) - 1 : D!Front(trail)[i] = trail[i]
         /\ \A i \in 0..Len(trail) - 1 : SubSeq(D!Front(trail), 1, i) = SubSeq(trail, 1, i)
<1> DEFINE front == SubSeq(trail, 1, Len(trail) - 1)
<1>1. Len(trail) \in Nat /\ Len(trail) > 0 /\ \A k \in 1..Len(trail) : trail[k] \in S
  BY EmptySeq, LenProperties
<1>2. /\ front \in Seq(S) /\ Len(front) = Len(trail) - 1
      /\ \A k \in 1..Len(trail) - 1 : front[k] = trail[k]
  <2> DEFINE n == Len(trail) - 1
  <2>1. n \in Nat /\ n - 1 + 1 = n /\ \A k \in 1..n : trail[k] \in S /\ 1 + k - 1 = k
    BY <1>1
  <2> HIDE DEF n
  <2>2. /\ SubSeq(trail, 1, n) \in Seq(S) /\ Len(SubSeq(trail, 1, n)) = n
        /\ \A k \in 1..n : SubSeq(trail, 1, n)[k] = trail[k]
    BY <2>1, SubSeqProperties
  <2> QED BY <2>2 DEF n
<1> HIDE DEF front
<1>3. ASSUME NEW i \in 0..Len(trail) - 1
      PROVE  SubSeq(front, 1, i) = SubSeq(trail, 1, i)
  <2>1. i \in Int /\ (1 <= i => i - 1 + 1 = i) /\ \A k \in 1..i : 1 + k - 1 = k
    BY <1>1
  <2>2. \A k \in 1..i : front[k] = trail[k] /\ front[k] \in S /\ trail[k] \in S
    BY <1>1, <1>2
  <2>3. /\ SubSeq(front, 1, i) \in Seq(S) /\ Len(SubSeq(front, 1, i)) = i
        /\ \A k \in 1..i : SubSeq(front, 1, i)[k] = front[k]
    <3>1. \A k \in 1..i : front[k] \in S
      BY <2>2
    <3> QED BY <2>1, <3>1, SubSeqProperties
  <2>4. /\ SubSeq(trail, 1, i) \in Seq(S) /\ Len(SubSeq(trail, 1, i)) = i
        /\ \A k \in 1..i : SubSeq(trail, 1, i)[k] = trail[k]
    <3>1. \A k \in 1..i : trail[k] \in S
      BY <2>2
    <3> QED BY <2>1, <3>1, SubSeqProperties
  <2>5. \A k \in 1..i : SubSeq(front, 1, i)[k] = SubSeq(trail, 1, i)[k]
    BY <2>2, <2>3, <2>4
  <2> QED BY <2>3, <2>4, <2>5, SeqEqual
<1> QED BY <1>2, <1>3 DEF D!Front, front

\* The way back.
LEMMA BackFits ==
  ASSUME NEW dance, DanceFits(dance), ~dance.done, Len(dance.steps) > 1
  PROVE  DanceFits(D!Back(dance)) /\ D!Back(dance).flow = dance.flow
<1> DEFINE after == D!Back(dance)
<1>1. dance \in D!Dance
  BY DEF DanceFits
<1>2. /\ after.flow = dance.flow /\ after.steps = D!Front(dance.steps) /\ after.trail = D!Front(dance.trail)
      /\ after.selected = Nothing /\ after.done = dance.done /\ after.crossed = dance.crossed
      /\ after.timer = dance.timer
  BY <1>1 DEF D!Back, D!Dance
<1>3. /\ dance.steps \in Seq(D!Step) /\ dance.trail \in Seq(Names) /\ dance.steps # <<>> /\ dance.trail # <<>>
      /\ Len(dance.steps) \in Nat /\ Len(dance.trail) \in Nat /\ Len(dance.steps) <= Len(dance.trail) + 1
  <2>1. dance.steps \in Seq(D!Step) /\ dance.trail \in Seq(Names)
    BY <1>1 DEF D!Dance
  <2>2. Len(dance.steps) \in Nat /\ Len(dance.trail) \in Nat /\ Len(dance.steps) <= Len(dance.trail) + 1
    BY <2>1, LenProperties DEF DanceFits
  <2> QED BY <2>1, <2>2, EmptySeq
<1>4. /\ after.steps \in Seq(D!Step) /\ Len(after.steps) = Len(dance.steps) - 1
      /\ \A i \in 1..Len(dance.steps) - 1 : after.steps[i] = dance.steps[i]
  BY <1>2, <1>3, PrefixOfFront
<1>5. /\ after.trail \in Seq(Names) /\ Len(after.trail) = Len(dance.trail) - 1
      /\ \A i \in 0..Len(dance.trail) - 1 : SubSeq(after.trail, 1, i) = SubSeq(dance.trail, 1, i)
  BY <1>2, <1>3, PrefixOfFront
<1>6. after \in D!Dance
  <2>1. after = [dance EXCEPT !.steps = D!Front(dance.steps), !.trail = D!Front(dance.trail), !.selected = Nothing]
    BY DEF D!Back
  <2> HIDE DEF after
  <2>2. D!Front(dance.steps) \in Seq(D!Step) /\ D!Front(dance.trail) \in Seq(Names)
    BY <1>2, <1>4, <1>5
  <2> QED BY <1>1, <2>1, <2>2 DEF D!Dance
<1> HIDE DEF after
<1>7. ASSUME ~dance.crossed PROVE IsAWalk(after)
  <2>1. IsAWalk(dance)
    BY <1>7 DEF DanceFits
  <2>2. Len(after.steps) = Len(after.trail) + 1 /\ Len(dance.steps) = Len(dance.trail) + 1
    BY <1>3, <1>4, <1>5, <2>1 DEF IsAWalk
  <2>3. ASSUME NEW i \in DOMAIN after.steps PROVE after.steps[i] = SubSeq(after.trail, 1, i - 1)
    <3>1. i \in 1..Len(dance.steps) - 1 /\ i - 1 \in 0..Len(dance.trail) - 1 /\ i \in DOMAIN dance.steps
      BY <1>3, <1>4, <2>2, LenProperties
    <3>2. dance.steps[i] = SubSeq(dance.trail, 1, i - 1)
      BY <2>1, <3>1 DEF IsAWalk
    <3> QED BY <1>4, <1>5, <3>1, <3>2
  <2> QED BY <1>2, <2>2, <2>3 DEF IsAWalk
<1>8. DanceFits(after)
  BY <1>2, <1>3, <1>4, <1>5, <1>6, <1>7 DEF DanceFits
<1> QED BY <1>2, <1>8 DEF after

\* The answer to the step a dance is on.
LEMMA AnsweredFits ==
  ASSUME NEW dance, DanceFits(dance), ~dance.crossed, dance.steps # <<>>, NEW name \in Names
  PROVE  DanceFits(D!Answered(dance, name, Append(dance.steps[Len(dance.steps)], name)))
<1> DEFINE step == Append(dance.steps[Len(dance.steps)], name)
           after == D!Answered(dance, name, step)
<1>1. dance \in D!Dance /\ dance.steps \in Seq(D!Step) /\ dance.trail \in Seq(Names)
  BY DEF DanceFits, D!Dance
<1>2. Len(dance.steps) \in Nat /\ Len(dance.trail) \in Nat /\ Len(dance.steps) > 0 /\ ~dance.done /\ IsAWalk(dance)
  BY <1>1, EmptySeq, LenProperties DEF DanceFits
<1>3. Len(dance.steps) = Len(dance.trail) + 1
  BY <1>2 DEF IsAWalk
<1>4. dance.steps[Len(dance.steps)] = dance.trail
  <2>1. Len(dance.steps) \in DOMAIN dance.steps /\ Len(dance.steps) - 1 = Len(dance.trail)
    BY <1>1, <1>2, <1>3, LenProperties
  <2>2. dance.steps[Len(dance.steps)] = SubSeq(dance.trail, 1, Len(dance.trail))
    BY <1>2, <2>1 DEF IsAWalk
  <2> QED BY <1>1, <2>2, SubSeqFull
<1>5. /\ step = Append(dance.trail, name) /\ step \in D!Step /\ step \in Seq(Names)
      /\ Len(step) = Len(dance.trail) + 1
  BY <1>1, <1>4 DEF D!Step
<1> DEFINE trail == Append(dance.trail, name)
           steps == Append(dance.steps, step)
<1>6. CASE D!Offers(step) # {}
  <2>1. after = [dance EXCEPT !.trail = trail, !.selected = Nothing, !.steps = steps]
    BY <1>6 DEF D!Answered
  <2>2. trail \in Seq(Names) /\ Len(trail) = Len(dance.trail) + 1
    BY <1>5
  <2>3. /\ steps \in Seq(D!Step) /\ Len(steps) = Len(dance.steps) + 1
        /\ steps[Len(dance.steps) + 1] = step /\ \A i \in 1..Len(dance.steps) : steps[i] = dance.steps[i]
    <3> HIDE DEF step
    <3> QED BY <1>1, <1>5
  <2> HIDE DEF after, trail, steps, step
  <2>4. /\ after.steps = steps /\ after.trail = trail /\ after.selected = Nothing
        /\ after.done = dance.done /\ after.crossed = dance.crossed /\ after \in D!Dance
    BY <1>1, <2>1, <2>2, <2>3 DEF D!Dance
  <2>5. ASSUME NEW i \in DOMAIN after.steps PROVE after.steps[i] = SubSeq(after.trail, 1, i - 1)
    <3>1. i \in 1..Len(dance.steps) + 1 /\ i - 1 \in 0..Len(dance.trail) + 1
      BY <1>2, <1>3, <2>3, <2>4, LenProperties
    <3>2. CASE i \in 1..Len(dance.steps)
      <4>1. dance.steps[i] = SubSeq(dance.trail, 1, i - 1)
        BY <1>1, <1>2, <3>2, LenProperties DEF IsAWalk
      <4>2. i - 1 \in 0..Len(dance.trail)
        BY <1>2, <1>3, <3>2
      <4>3. SubSeq(trail, 1, i - 1) = SubSeq(dance.trail, 1, i - 1)
        BY <1>1, <4>2, PrefixOfAppend DEF trail
      <4> QED BY <2>3, <2>4, <3>2, <4>1, <4>3
    <3>3. CASE i \notin 1..Len(dance.steps)
      <4>1. i = Len(dance.steps) + 1 /\ i - 1 = Len(trail)
        BY <1>2, <1>3, <2>2, <3>1, <3>3
      <4>2. SubSeq(trail, 1, Len(trail)) = trail
        BY <2>2, SubSeqFull
      <4>3. step = trail
        BY <1>5 DEF trail
      <4> QED BY <2>3, <2>4, <4>1, <4>2, <4>3
    <3> QED BY <3>2, <3>3
  <2>6. Len(after.steps) = Len(after.trail) + 1
    BY <1>2, <1>3, <2>2, <2>3, <2>4
  <2>7. IsAWalk(after)
    BY <2>4, <2>5, <2>6 DEF IsAWalk
  <2>8. Len(after.steps) <= Len(after.trail) + 1
    BY <1>2, <2>2, <2>4, <2>6
  <2> QED BY <1>2, <2>4, <2>7, <2>8 DEF DanceFits, after, step
<1>7. CASE D!Offers(step) = {}
  <2>1. after = [dance EXCEPT !.trail = trail, !.selected = Nothing, !.steps = <<>>, !.done = TRUE]
    BY <1>7 DEF D!Answered
  <2>2. trail \in Seq(Names) /\ Len(trail) = Len(dance.trail) + 1 /\ <<>> \in Seq(D!Step) /\ Len(<<>>) = 0
    BY <1>5
  <2> HIDE DEF after, trail, steps, step
  <2>3. /\ after.steps = <<>> /\ after.trail = trail /\ after.selected = Nothing
        /\ after.done /\ after \in D!Dance
    BY <1>1, <2>1, <2>2 DEF D!Dance
  <2>4. Len(after.steps) <= Len(after.trail) + 1
    BY <1>2, <2>2, <2>3
  <2> QED BY <2>3, <2>4 DEF DanceFits, after, step
<1> QED BY <1>6, <1>7

\* The answer to a step a dance is no longer on.
LEMMA LateAnswerFits ==
  ASSUME NEW dance, DanceFits(dance), NEW name \in Names, NEW step \in D!Step
  PROVE  /\ D!Answered(dance, name, step) \in D!Dance
         /\ Len(D!Answered(dance, name, step).steps) <= Len(D!Answered(dance, name, step).trail) + 1
<1> DEFINE after == D!Answered(dance, name, step)
           trail == Append(dance.trail, name)
           steps == IF D!Offers(step) # {} THEN Append(dance.steps, step) ELSE <<>>
<1>1. dance \in D!Dance /\ dance.steps \in Seq(D!Step) /\ dance.trail \in Seq(Names)
      /\ Len(dance.steps) <= Len(dance.trail) + 1
  BY DEF DanceFits, D!Dance
<1>2. Len(dance.steps) \in Nat /\ Len(dance.trail) \in Nat
  BY <1>1, LenProperties
<1>3. trail \in Seq(Names) /\ Len(trail) = Len(dance.trail) + 1
  BY <1>1
<1>4. steps \in Seq(D!Step) /\ Len(steps) <= Len(dance.steps) + 1
  <2>1. Append(dance.steps, step) \in Seq(D!Step) /\ Len(Append(dance.steps, step)) = Len(dance.steps) + 1
    BY <1>1
  <2>2. <<>> \in Seq(D!Step) /\ Len(<<>>) = 0
    OBVIOUS
  <2> QED BY <1>2, <2>1, <2>2
<1>5. after = [dance EXCEPT !.trail = trail, !.selected = Nothing, !.steps = steps,
                            !.done = IF D!Offers(step) # {} THEN dance.done ELSE TRUE]
  BY <1>1 DEF D!Answered, D!Dance
<1> HIDE DEF after, trail, steps
<1>6. after \in D!Dance /\ after.steps = steps /\ after.trail = trail
  BY <1>1, <1>3, <1>4, <1>5 DEF D!Dance
<1> QED BY <1>1, <1>2, <1>3, <1>4, <1>6 DEF after

\* The effect takes back the starts of before it, but not what they bring.
LEMMA UnmountedGives ==
  ASSUME StartsRefer
  PROVE  /\ D!Unmounted \in [Starts -> D!Start \cup {Nothing}]
         /\ \A r \in Starts : D!Unmounted[r] # Nothing =>
              /\ starts[r] # Nothing /\ starts[r].pc # "asked"
              /\ D!Unmounted[r].pc = starts[r].pc /\ D!Unmounted[r].flow = starts[r].flow
              /\ D!Unmounted[r].dance = starts[r].dance /\ ~D!Unmounted[r].mounted
         /\ \A r \in Starts : starts[r] # Nothing /\ starts[r].pc = "started" => D!Unmounted[r] # Nothing
<1> SUFFICES ASSUME NEW r \in Starts
             PROVE  /\ D!Unmounted[r] \in D!Start \cup {Nothing}
                    /\ D!Unmounted[r] # Nothing =>
                         /\ starts[r] # Nothing /\ starts[r].pc # "asked"
                         /\ D!Unmounted[r].pc = starts[r].pc /\ D!Unmounted[r].flow = starts[r].flow
                         /\ D!Unmounted[r].dance = starts[r].dance /\ ~D!Unmounted[r].mounted
                    /\ starts[r] # Nothing /\ starts[r].pc = "started" => D!Unmounted[r] # Nothing
  BY DEF D!Unmounted
<1> DEFINE record == [starts[r] EXCEPT !.mounted = FALSE]
<1>1. D!Unmounted[r] = IF starts[r] = Nothing \/ starts[r].pc = "asked" THEN Nothing ELSE record
  BY DEF D!Unmounted
<1>2. ASSUME starts[r] # Nothing
      PROVE  /\ record \in D!Start /\ record.pc = starts[r].pc /\ record.flow = starts[r].flow
             /\ record.dance = starts[r].dance /\ record.mounted = FALSE
  BY <1>2 DEF StartsRefer, D!Start
<1>3. starts[r] # Nothing => record # Nothing
  BY <1>2, PageAssumption DEF D!ClientDanceAssumption
<1> HIDE DEF record
<1> QED BY <1>1, <1>2, <1>3

\* What a start brought stays, where nothing it refers to changed.
LEMMA BringsStays ==
  ASSUME StartsRefer, NEW s \in Starts, starts[s] # Nothing, starts[s].pc = "started",
         starts'[s].dance = starts[s].dance, starts'[s].flow = starts[s].flow,
         dances'[starts[s].dance] = dances[starts[s].dance], held' # starts[s].dance,
         \A c \in Actions : actions'[c] # Nothing => actions'[c].dance # starts[s].dance,
         \A r \in Starts \ {s} : starts'[r] # Nothing => starts'[r].dance # starts[s].dance
  PROVE  Brings(s)'
BY DEF StartsRefer, Brings

\* What stands for nothing.
LEMMA NothingIsNone ==
  /\ Nothing \notin Dances /\ Nothing \notin D!Dance /\ Nothing \notin D!Start /\ Nothing \notin D!Call
  /\ Nothing \notin Names
BY PageAssumption DEF D!ClientDanceAssumption

\* The node has options, and its effect runs.
LEMMA OptionsKeep ==
  ASSUME PageInv, NEW f \in Flows, NEW on \in BOOLEAN, D!Effect(f, on),
         mounted' = TRUE, flow' = f, enabled' = on, changes' \in 0..MaxChanges,
         UNCHANGED <<dances, actions, saved, held, strayed>>
  PROVE  PageInv'
<1> DEFINE record == [flow |-> f, pc |-> "reading", dance |-> Nothing, mounted |-> TRUE]
<1>1. /\ DancesFit /\ CallsRefer /\ StartsRefer /\ NodeFits
      /\ D!PicksUpWhereItLeft /\ D!HandleIsOfItsFlow /\ D!DisposedIsQuiet /\ D!PendingIsForACall
  BY DEF PageInv
<1>2. record \in D!Start /\ record # Nothing
  <2>1. record \in D!Start
    BY DEF D!Start
  <2> QED BY <2>1, NothingIsNone
<1>3. /\ record.flow = f /\ record.pc = "reading" /\ record.dance = Nothing /\ record.mounted
  OBVIOUS
<1>4. \/ /\ on /\ pending' = TRUE /\ error' = FALSE
         /\ \E s \in Starts : D!Unmounted[s] = Nothing /\ starts' = [D!Unmounted EXCEPT ![s] = record]
      \/ ~on /\ starts' = D!Unmounted /\ pending' = FALSE /\ error' = error
  BY DEF D!Effect
<1> HIDE DEF record
<1>5. /\ starts' \in [Starts -> D!Start \cup {Nothing}]
      /\ \A r \in Starts : starts'[r] = D!Unmounted[r] \/ (on /\ D!Unmounted[r] = Nothing /\ starts'[r] = record)
      /\ on => \E s \in Starts : starts'[s] = record
  <2>1. D!Unmounted \in [Starts -> D!Start \cup {Nothing}]
    BY <1>1, UnmountedGives
  <2>2. CASE on
    <3>1. PICK s \in Starts : D!Unmounted[s] = Nothing /\ starts' = [D!Unmounted EXCEPT ![s] = record]
      BY <1>4, <2>2
    <3> QED BY <1>2, <2>1, <2>2, <3>1
  <2>3. CASE ~on
    BY <1>4, <2>1, <2>3
  <2> QED BY <2>2, <2>3
<1>6. \A r \in Starts : starts'[r] # Nothing =>
        \/ starts'[r] = record /\ on
        \/ /\ starts[r] # Nothing /\ starts[r].pc # "asked" /\ starts'[r].pc = starts[r].pc
           /\ starts'[r].flow = starts[r].flow /\ starts'[r].dance = starts[r].dance /\ ~starts'[r].mounted
  BY <1>1, <1>5, UnmountedGives
<1>7. \A r \in Starts : starts[r] # Nothing /\ starts[r].pc = "started" =>
        starts'[r] # Nothing /\ starts'[r].dance = starts[r].dance
  BY <1>1, <1>5, UnmountedGives
<1>8. DancesFit' /\ CallsRefer'
  BY <1>1 DEF DancesFit, CallsRefer
<1>9. StartsRefer'
  <2> SUFFICES ASSUME NEW s \in Starts, starts'[s] # Nothing
               PROVE  /\ starts'[s].mounted => mounted' /\ enabled' /\ starts'[s].flow = flow'
                      /\ starts'[s].pc = "asked" => starts'[s].mounted
                      /\ IF starts'[s].pc = "started" THEN Brings(s)' ELSE starts'[s].dance = Nothing
    BY <1>5 DEF StartsRefer
  <2>1. CASE starts'[s] = record /\ on
    BY <1>3, <2>1
  <2>2. CASE /\ starts[s] # Nothing /\ starts[s].pc # "asked" /\ starts'[s].pc = starts[s].pc
             /\ starts'[s].flow = starts[s].flow /\ starts'[s].dance = starts[s].dance /\ ~starts'[s].mounted
    <3>1. CASE starts[s].pc = "started"
      <4>1. /\ starts[s].dance \in Dances /\ held # starts[s].dance
            /\ \A c \in Actions : actions[c] # Nothing => actions[c].dance # starts[s].dance
            /\ \A r \in Starts \ {s} : starts[r] # Nothing => starts[r].dance # starts[s].dance
        BY <1>1, <2>2, <3>1 DEF StartsRefer, Brings
      <4>2. \A r \in Starts \ {s} : starts'[r] # Nothing => starts'[r].dance # starts[s].dance
        BY <1>3, <1>6, <4>1, NothingIsNone
      <4>3. Brings(s)'
        BY <1>1, <2>2, <3>1, <4>1, <4>2, BringsStays
      <4> QED BY <2>2, <3>1, <4>3
    <3>2. CASE starts[s].pc # "started"
      BY <1>1, <2>2, <3>2 DEF StartsRefer
    <3> QED BY <3>1, <3>2
  <2> QED BY <1>6, <2>1, <2>2
<1>10. NodeFits'
  BY <1>1, <1>4 DEF NodeFits
<1>11. D!PicksUpWhereItLeft'
  BY <1>1 DEF D!PicksUpWhereItLeft, NodeFits
<1>12. on => D!Starting'
  BY <1>2, <1>3, <1>5 DEF D!Starting
<1>13. D!HandleIsOfItsFlow' /\ D!PendingIsForACall'
  BY <1>4, <1>12 DEF D!HandleIsOfItsFlow, D!PendingIsForACall
<1>14. D!DisposedIsQuiet'
  <2> SUFFICES ASSUME NEW d \in Dances, dances[d] # Nothing, ~dances[d].crossed, held # d,
                      \A s \in Starts : starts'[s] # Nothing => starts'[s].dance # d
               PROVE  dances[d].timer # "armed"
    BY DEF D!DisposedIsQuiet
  <2>1. \A s \in Starts : starts[s] # Nothing => starts[s].dance # d
    BY <1>1, <1>7, NothingIsNone DEF StartsRefer
  <2> QED BY <1>1, <2>1 DEF D!DisposedIsQuiet
<1> QED BY <1>8, <1>9, <1>10, <1>11, <1>13, <1>14 DEF PageInv

\* The node lets go of the dance it holds.
LEMMA LetGoGives ==
  ASSUME DancesFit, NodeFits
  PROVE  /\ D!LetGo \in [Dances -> D!Dance \cup {Nothing}]
         /\ \A d \in Dances : D!LetGo[d] # Nothing => DanceFits(D!LetGo[d])
         /\ \A d \in Dances : d # held => D!LetGo[d] = dances[d]
         /\ held # Nothing /\ D!LetGo[held] # Nothing => D!LetGo[held].timer = "off"
         /\ \A c \in Actions : actions[c] # Nothing /\ dances[actions[c].dance] # Nothing /\ actions[c].dance \in Dances
              => D!LetGo[actions[c].dance] # Nothing
<1>1. CASE held = Nothing
  BY <1>1, NothingIsNone DEF D!LetGo, DancesFit
<1>2. CASE held # Nothing
  <2> DEFINE disposed == D!Disposed(dances[held])
             kept == D!Kept(held, Actions, disposed)
  <2>1. held \in Dances /\ dances[held] # Nothing /\ DanceFits(dances[held])
    BY <1>2 DEF NodeFits, DancesFit
  <2>2. DanceFits(disposed) /\ disposed.timer = "off"
    BY <2>1, TimerFits DEF D!Disposed
  <2>3. disposed # Nothing /\ disposed \in D!Dance
    BY <2>2, DanceIsSome DEF DanceFits
  <2> HIDE DEF disposed
  <2>4. kept \in {disposed, Nothing} /\ ((\E c \in Actions : actions[c] # Nothing /\ actions[c].dance = held) => kept = disposed)
    BY DEF D!Kept
  <2>5. D!LetGo = [dances EXCEPT ![held] = kept]
    BY <1>2 DEF D!LetGo, disposed
  <2> HIDE DEF kept
  <2>6. \A d \in Dances : D!LetGo[d] = IF d = held THEN kept ELSE dances[d]
    BY <2>1, <2>5 DEF DancesFit
  <2>7. D!LetGo \in [Dances -> D!Dance \cup {Nothing}]
    BY <2>1, <2>3, <2>4, <2>5 DEF DancesFit
  <2> QED BY <2>1, <2>2, <2>3, <2>4, <2>6, <2>7 DEF DancesFit
<1> QED BY <1>1, <1>2

\* So the dances and the calls stay as they are to be.
LEMMA LetGoKeeps ==
  ASSUME DancesFit, CallsRefer, NodeFits, dances' = D!LetGo, UNCHANGED <<actions, saved>>
  PROVE  DancesFit' /\ CallsRefer'
<1>1. DancesFit'
  BY LetGoGives DEF DancesFit
<1>2. CallsRefer'
  BY LetGoGives DEF CallsRefer
<1> QED BY <1>1, <1>2

\* The node unmounts: what it ran goes on without it.
LEMMA UnmountKeeps ==
  ASSUME PageInv, D!Unmount
  PROVE  PageInv'
<1>1. /\ DancesFit /\ CallsRefer /\ StartsRefer /\ NodeFits /\ D!DisposedIsQuiet
  BY DEF PageInv
<1>2. /\ mounted' = FALSE /\ held' = Nothing /\ pending' = FALSE /\ error' = FALSE
      /\ starts' = D!Unmounted /\ dances' = D!LetGo
      /\ actions' = [c \in Actions |-> IF actions[c] = Nothing THEN Nothing ELSE [actions[c] EXCEPT !.here = FALSE]]
      /\ UNCHANGED <<saved, flow, enabled, changes, strayed>>
  BY DEF D!Unmount
<1>3. DancesFit'
  BY <1>1, <1>2, LetGoGives DEF DancesFit
<1>4. /\ actions' \in [Actions -> D!Call \cup {Nothing}]
      /\ \A c \in Actions : actions'[c] # Nothing =>
           /\ actions[c] # Nothing /\ actions'[c].dance = actions[c].dance /\ actions'[c].op = actions[c].op
           /\ actions'[c].name = actions[c].name /\ actions'[c].steps = actions[c].steps
  <2> SUFFICES ASSUME NEW c \in Actions
               PROVE  /\ actions'[c] \in D!Call \cup {Nothing}
                      /\ actions'[c] # Nothing =>
                           /\ actions[c] # Nothing /\ actions'[c].dance = actions[c].dance /\ actions'[c].op = actions[c].op
                           /\ actions'[c].name = actions[c].name /\ actions'[c].steps = actions[c].steps
    BY <1>2
  <2>1. actions[c] = Nothing \/ actions[c] \in D!Call
    BY <1>1 DEF CallsRefer
  <2>2. CASE actions[c] = Nothing
    BY <1>2, <2>2
  <2>3. CASE actions[c] # Nothing
    <3>1. actions'[c] = [actions[c] EXCEPT !.here = FALSE]
      BY <1>2, <2>3
    <3> QED BY <2>1, <2>3, <3>1 DEF D!Call
  <2> QED BY <2>2, <2>3
<1>5. CallsRefer'
  BY <1>1, <1>2, <1>4, LetGoGives DEF CallsRefer
<1>6. \A r \in Starts : starts'[r] # Nothing =>
        /\ starts[r] # Nothing /\ starts[r].pc # "asked" /\ starts'[r].pc = starts[r].pc
        /\ starts'[r].flow = starts[r].flow /\ starts'[r].dance = starts[r].dance /\ ~starts'[r].mounted
  BY <1>1, <1>2, UnmountedGives
<1>7. StartsRefer'
  <2> SUFFICES ASSUME NEW s \in Starts, starts'[s] # Nothing
               PROVE  /\ starts'[s].mounted => mounted' /\ enabled' /\ starts'[s].flow = flow'
                      /\ starts'[s].pc = "asked" => starts'[s].mounted
                      /\ IF starts'[s].pc = "started" THEN Brings(s)' ELSE starts'[s].dance = Nothing
    BY <1>1, <1>2, UnmountedGives DEF StartsRefer
  <2>1. CASE starts[s].pc = "started"
    <3>1. /\ starts[s].dance \in Dances /\ held # starts[s].dance
          /\ \A c \in Actions : actions[c] # Nothing => actions[c].dance # starts[s].dance
          /\ \A r \in Starts \ {s} : starts[r] # Nothing => starts[r].dance # starts[s].dance
      BY <1>1, <1>6, <2>1 DEF StartsRefer, Brings
    <3>2. /\ \A r \in Starts \ {s} : starts'[r] # Nothing => starts'[r].dance # starts[s].dance
          /\ \A c \in Actions : actions'[c] # Nothing => actions'[c].dance # starts[s].dance
          /\ held' # starts[s].dance /\ dances'[starts[s].dance] = dances[starts[s].dance]
      BY <1>1, <1>2, <1>4, <1>6, <3>1, NothingIsNone, LetGoGives
    <3>3. Brings(s)'
      BY <1>1, <1>6, <2>1, <3>2, BringsStays
    <3> QED BY <1>6, <2>1, <3>3
  <2>2. CASE starts[s].pc # "started"
    BY <1>1, <1>6, <2>2 DEF StartsRefer
  <2> QED BY <2>1, <2>2
<1>8. NodeFits'
  BY <1>1, <1>2 DEF NodeFits
<1>9. D!PicksUpWhereItLeft' /\ D!HandleIsOfItsFlow' /\ D!PendingIsForACall'
  BY <1>2 DEF D!PicksUpWhereItLeft, D!HandleIsOfItsFlow, D!PendingIsForACall
<1>10. D!DisposedIsQuiet'
  <2> SUFFICES ASSUME NEW d \in Dances, dances'[d] # Nothing, ~dances'[d].crossed,
                      \A s \in Starts : starts'[s] # Nothing => starts'[s].dance # d
               PROVE  dances'[d].timer # "armed"
    BY DEF D!DisposedIsQuiet
  <2>1. CASE d = held
    BY <1>1, <1>2, <2>1, NothingIsNone, LetGoGives
  <2>2. CASE d # held
    <3>1. dances'[d] = dances[d]
      BY <1>1, <1>2, <2>2, LetGoGives
    <3>2. \A s \in Starts : starts[s] # Nothing => starts[s].dance # d
      <4> SUFFICES ASSUME NEW s \in Starts, starts[s] # Nothing, starts[s].dance = d PROVE FALSE
        OBVIOUS
      <4>1. starts[s].pc = "started"
        BY <1>1, NothingIsNone DEF StartsRefer
      <4>2. starts'[s] # Nothing
        BY <1>1, <1>2, <4>1, UnmountedGives
      <4> QED BY <1>6, <4>2
    <3> QED BY <1>1, <2>2, <3>1, <3>2 DEF D!DisposedIsQuiet
  <2> QED BY <2>1, <2>2
<1> QED BY <1>3, <1>5, <1>7, <1>8, <1>9, <1>10 DEF PageInv

\* Nobody refers to an object that is not there.
LEMMA NobodyRefers ==
  ASSUME CallsRefer, StartsRefer, NodeFits, NEW d \in Dances, dances[d] = Nothing
  PROVE  /\ held # d
         /\ \A c \in Actions : actions[c] # Nothing => actions[c].dance # d
         /\ \A r \in Starts : starts[r] # Nothing => starts[r].dance # d
BY NothingIsNone DEF CallsRefer, StartsRefer, Brings, NodeFits

\* A start has its dance: the one of the snapshot, or a first step that replaces it.
LEMMA BroughtKeeps ==
  ASSUME PageInv, NEW s \in Starts, starts[s] # Nothing, starts[s].pc # "started",
         NEW d \in Dances, dances[d] = Nothing,
         NEW dance, DanceFits(dance), dance.steps # <<>>, dance.flow = starts[s].flow,
         dances' = [dances EXCEPT ![d] = dance],
         starts' = [starts EXCEPT ![s].pc = "started", ![s].dance = d],
         UNCHANGED <<saved, strayed>> \/ (saved' = D!Snapshot(dance) /\ strayed' = (held # d)),
         UNCHANGED <<actions, mounted, flow, enabled, held, pending, error, changes>>
  PROVE  PageInv'
<1> DEFINE record == [starts[s] EXCEPT !.pc = "started", !.dance = d]
<1>1. /\ DancesFit /\ CallsRefer /\ StartsRefer /\ NodeFits
      /\ D!PicksUpWhereItLeft /\ D!HandleIsOfItsFlow /\ D!DisposedIsQuiet /\ D!PendingIsForACall
  BY DEF PageInv
<1>2. /\ held # d
      /\ \A c \in Actions : actions[c] # Nothing => actions[c].dance # d
      /\ \A r \in Starts : starts[r] # Nothing => starts[r].dance # d
  BY <1>1, NobodyRefers
<1>3. /\ record \in D!Start /\ record.pc = "started" /\ record.dance = d
      /\ record.flow = starts[s].flow /\ record.mounted = starts[s].mounted
  BY <1>1 DEF StartsRefer, D!Start
<1>4. starts' = [starts EXCEPT ![s] = record]
  BY <1>1 DEF StartsRefer
<1>5. record # Nothing
  BY <1>3, NothingIsNone
<1> HIDE DEF record
<1>6. /\ starts' \in [Starts -> D!Start \cup {Nothing}]
      /\ \A r \in Starts : starts'[r] = IF r = s THEN record ELSE starts[r]
  BY <1>1, <1>3, <1>4 DEF StartsRefer
<1>7. dance \in D!Dance /\ dance # Nothing
  BY DanceIsSome DEF DanceFits
<1>8. /\ dances' \in [Dances -> D!Dance \cup {Nothing}]
      /\ \A e \in Dances : dances'[e] = IF e = d THEN dance ELSE dances[e]
  BY <1>1, <1>7 DEF DancesFit
<1>9. DancesFit'
  BY <1>1, <1>8, SnapshotOfFits DEF DancesFit
<1>10. CallsRefer'
  BY <1>1, <1>2, <1>8 DEF CallsRefer
<1>11. StartsRefer'
  <2> SUFFICES ASSUME NEW r \in Starts, starts'[r] # Nothing
               PROVE  /\ starts'[r].mounted => mounted' /\ enabled' /\ starts'[r].flow = flow'
                      /\ starts'[r].pc = "asked" => starts'[r].mounted
                      /\ IF starts'[r].pc = "started" THEN Brings(r)' ELSE starts'[r].dance = Nothing
    BY <1>6 DEF StartsRefer
  <2>1. CASE r = s
    <3>1. starts'[r] = record
      BY <1>6, <2>1
    <3>2. \A q \in Starts \ {s} : starts'[q] # Nothing => starts'[q].dance # d
      BY <1>2, <1>6
    <3>3. Brings(s)'
      <4>1. starts'[s] = record /\ dances'[d] = dance /\ held' # d
            /\ \A c \in Actions : actions'[c] # Nothing => actions'[c].dance # d
        BY <1>2, <1>8, <2>1, <3>1
      <4> QED BY <1>3, <1>7, <3>2, <4>1 DEF Brings
    <3> QED BY <1>1, <1>3, <2>1, <3>1, <3>3 DEF StartsRefer
  <2>2. CASE r # s
    <3>1. starts'[r] = starts[r]
      BY <1>6, <2>2
    <3>2. ASSUME starts[r].pc = "started" PROVE Brings(r)'
      <4>1. /\ starts[r].dance \in Dances /\ held # starts[r].dance
            /\ \A c \in Actions : actions[c] # Nothing => actions[c].dance # starts[r].dance
            /\ \A q \in Starts \ {r} : starts[q] # Nothing => starts[q].dance # starts[r].dance
        BY <1>1, <3>1, <3>2 DEF StartsRefer, Brings
      <4>2. /\ \A q \in Starts \ {r} : starts'[q] # Nothing => starts'[q].dance # starts[r].dance
            /\ dances'[starts[r].dance] = dances[starts[r].dance]
        BY <1>2, <1>3, <1>6, <1>8, <3>1, <4>1
      <4> QED BY <1>1, <3>1, <3>2, <4>1, <4>2, BringsStays
    <3> QED BY <1>1, <3>1, <3>2 DEF StartsRefer
  <2> QED BY <2>1, <2>2
<1>12. NodeFits'
  BY <1>1, <1>7, <1>8 DEF NodeFits
<1>13. D!PicksUpWhereItLeft'
  <2> SUFFICES ASSUME mounted, held # Nothing, ~strayed'
               PROVE  saved' = IF dances'[held].steps = <<>> THEN Nothing ELSE D!Snapshot(dances'[held])
    BY DEF D!PicksUpWhereItLeft
  <2>1. UNCHANGED <<saved, strayed>> /\ dances'[held] = dances[held]
    BY <1>1, <1>2, <1>8 DEF NodeFits
  <2> QED BY <1>1, <2>1 DEF D!PicksUpWhereItLeft
<1>14. D!Starting' <=> D!Starting
  BY <1>3, <1>5, <1>6 DEF D!Starting
<1>15. D!HandleIsOfItsFlow'
  BY <1>1, <1>2, <1>8, <1>14 DEF D!HandleIsOfItsFlow, NodeFits
<1>16. D!PendingIsForACall'
  BY <1>1, <1>14 DEF D!PendingIsForACall
<1>17. D!DisposedIsQuiet'
  <2> SUFFICES ASSUME NEW e \in Dances, dances'[e] # Nothing, ~dances'[e].crossed, held # e,
                      \A r \in Starts : starts'[r] # Nothing => starts'[r].dance # e
               PROVE  dances'[e].timer # "armed"
    BY DEF D!DisposedIsQuiet
  <2>1. e # d
    BY <1>3, <1>5, <1>6
  <2>2. \A r \in Starts : starts[r] # Nothing => starts[r].dance # e
    BY <1>1, <1>6, NothingIsNone DEF StartsRefer
  <2> QED BY <1>1, <1>8, <2>1, <2>2 DEF D!DisposedIsQuiet
<1> QED BY <1>9, <1>10, <1>11, <1>12, <1>13, <1>15, <1>16, <1>17 DEF PageInv

\* A start goes on: it has to ask for its first step, or stops.
LEMMA AskKeeps ==
  ASSUME PageInv, NEW s \in Starts, starts[s] # Nothing, starts[s].pc = "reading",
         starts' = [starts EXCEPT ![s] = IF @.mounted THEN [@ EXCEPT !.pc = "asked"] ELSE Nothing],
         UNCHANGED <<dances, actions, saved, mounted, flow, enabled, held, pending, error, changes, strayed>>
  PROVE  PageInv'
<1> DEFINE record == [starts[s] EXCEPT !.pc = "asked"]
<1>1. /\ DancesFit /\ CallsRefer /\ StartsRefer /\ NodeFits
      /\ D!PicksUpWhereItLeft /\ D!HandleIsOfItsFlow /\ D!DisposedIsQuiet /\ D!PendingIsForACall
  BY DEF PageInv
<1>2. /\ record \in D!Start /\ record.pc = "asked" /\ record.dance = starts[s].dance
      /\ record.flow = starts[s].flow /\ record.mounted = starts[s].mounted
  BY <1>1 DEF StartsRefer, D!Start
<1>3. record # Nothing
  BY <1>2, NothingIsNone
<1>4. starts' = [starts EXCEPT ![s] = IF starts[s].mounted THEN record ELSE Nothing]
  BY <1>1 DEF StartsRefer
<1> HIDE DEF record
<1>5. /\ starts' \in [Starts -> D!Start \cup {Nothing}]
      /\ \A r \in Starts : starts'[r] = IF r # s THEN starts[r] ELSE IF starts[s].mounted THEN record ELSE Nothing
  BY <1>1, <1>2, <1>4 DEF StartsRefer
<1>6. DancesFit' /\ CallsRefer'
  BY <1>1 DEF DancesFit, CallsRefer
<1>7. starts[s].dance = Nothing
  BY <1>1 DEF StartsRefer
<1>8. StartsRefer'
  <2> SUFFICES ASSUME NEW r \in Starts, starts'[r] # Nothing
               PROVE  /\ starts'[r].mounted => mounted' /\ enabled' /\ starts'[r].flow = flow'
                      /\ starts'[r].pc = "asked" => starts'[r].mounted
                      /\ IF starts'[r].pc = "started" THEN Brings(r)' ELSE starts'[r].dance = Nothing
    BY <1>5 DEF StartsRefer
  <2>1. CASE r = s
    BY <1>1, <1>2, <1>5, <1>7, <2>1 DEF StartsRefer
  <2>2. CASE r # s
    <3>1. starts'[r] = starts[r]
      BY <1>5, <2>2
    <3>2. ASSUME starts[r].pc = "started" PROVE Brings(r)'
      <4>1. /\ starts[r].dance \in Dances /\ held # starts[r].dance
            /\ \A c \in Actions : actions[c] # Nothing => actions[c].dance # starts[r].dance
            /\ \A q \in Starts \ {r} : starts[q] # Nothing => starts[q].dance # starts[r].dance
        BY <1>1, <3>1, <3>2 DEF StartsRefer, Brings
      <4>2. \A q \in Starts \ {r} : starts'[q] # Nothing => starts'[q].dance # starts[r].dance
        BY <1>2, <1>5, <1>7, <4>1, NothingIsNone
      <4> QED BY <1>1, <3>1, <3>2, <4>1, <4>2, BringsStays
    <3> QED BY <1>1, <3>1, <3>2 DEF StartsRefer
  <2> QED BY <2>1, <2>2
<1>9. NodeFits'
  BY <1>1 DEF NodeFits
<1>10. D!PicksUpWhereItLeft'
  BY <1>1 DEF D!PicksUpWhereItLeft
<1>11. D!Starting' <=> D!Starting
  BY <1>2, <1>3, <1>5 DEF D!Starting
<1>12. D!HandleIsOfItsFlow' /\ D!PendingIsForACall'
  BY <1>1, <1>11 DEF D!HandleIsOfItsFlow, D!PendingIsForACall
<1>13. D!DisposedIsQuiet'
  <2> SUFFICES ASSUME NEW d \in Dances, dances[d] # Nothing, ~dances[d].crossed, held # d,
                      \A r \in Starts : starts'[r] # Nothing => starts'[r].dance # d
               PROVE  dances[d].timer # "armed"
    BY DEF D!DisposedIsQuiet
  <2>1. \A r \in Starts : starts[r] # Nothing => starts[r].dance # d
    BY <1>5, <1>7, NothingIsNone
  <2> QED BY <1>1, <2>1 DEF D!DisposedIsQuiet
<1> QED BY <1>6, <1>8, <1>9, <1>10, <1>12, <1>13 DEF PageInv

\* The starts that stay when one is over, or gave its dance to the node.
LEMMA OtherStartsStay ==
  ASSUME StartsRefer, NEW s \in Starts, starts' = [starts EXCEPT ![s] = Nothing],
         UNCHANGED <<actions, mounted, flow, enabled>>,
         \A r \in Starts \ {s} : starts[r] # Nothing /\ starts[r].pc = "started" =>
           dances'[starts[r].dance] = dances[starts[r].dance] /\ held' # starts[r].dance
  PROVE  /\ StartsRefer'
         /\ \A r \in Starts : starts'[r] = IF r = s THEN Nothing ELSE starts[r]
<1>1. /\ starts' \in [Starts -> D!Start \cup {Nothing}]
      /\ \A r \in Starts : starts'[r] = IF r = s THEN Nothing ELSE starts[r]
  BY DEF StartsRefer
<1>2. StartsRefer'
  <2> SUFFICES ASSUME NEW r \in Starts, starts'[r] # Nothing
               PROVE  /\ starts'[r].mounted => mounted' /\ enabled' /\ starts'[r].flow = flow'
                      /\ starts'[r].pc = "asked" => starts'[r].mounted
                      /\ IF starts'[r].pc = "started" THEN Brings(r)' ELSE starts'[r].dance = Nothing
    BY <1>1 DEF StartsRefer
  <2>1. r # s /\ starts'[r] = starts[r]
    BY <1>1
  <2>2. ASSUME starts[r].pc = "started" PROVE Brings(r)'
    <3>1. /\ starts[r].dance \in Dances
          /\ \A c \in Actions : actions[c] # Nothing => actions[c].dance # starts[r].dance
          /\ \A q \in Starts \ {r} : starts[q] # Nothing => starts[q].dance # starts[r].dance
      BY <2>1, <2>2 DEF StartsRefer, Brings
    <3>2. /\ \A q \in Starts \ {r} : starts'[q] # Nothing => starts'[q].dance # starts[r].dance
          /\ dances'[starts[r].dance] = dances[starts[r].dance] /\ held' # starts[r].dance
      BY <1>1, <2>1, <2>2, <3>1
    <3> QED BY <2>1, <2>2, <3>1, <3>2, BringsStays
  <2> QED BY <2>1, <2>2 DEF StartsRefer
<1> QED BY <1>1, <1>2

\* A refused start leaves the node without a dance, and says so.
LEMMA RefusalKeeps ==
  ASSUME PageInv, NEW s \in Starts, D!RefuseStart(s)
  PROVE  PageInv'
<1>1. /\ DancesFit /\ CallsRefer /\ StartsRefer /\ NodeFits /\ D!DisposedIsQuiet
  BY DEF PageInv
<1>2. /\ starts[s] # Nothing /\ starts[s].pc = "asked" /\ starts' = [starts EXCEPT ![s] = Nothing]
      /\ held' = Nothing /\ error' = TRUE /\ pending' = FALSE /\ dances' = D!LetGo
      /\ UNCHANGED <<actions, saved, mounted, flow, enabled, changes, strayed>>
  BY DEF D!RefuseStart, D!Runs
<1>3. DancesFit' /\ CallsRefer'
  BY <1>1, <1>2, LetGoKeeps
<1>4. /\ StartsRefer'
      /\ \A r \in Starts : starts'[r] = IF r = s THEN Nothing ELSE starts[r]
  <2>1. \A r \in Starts \ {s} : starts[r] # Nothing /\ starts[r].pc = "started" =>
          dances'[starts[r].dance] = dances[starts[r].dance] /\ held' # starts[r].dance
    BY <1>1, <1>2, NothingIsNone, LetGoGives DEF StartsRefer, Brings
  <2> QED BY <1>1, <1>2, <2>1, OtherStartsStay
<1>5. NodeFits'
  BY <1>1, <1>2 DEF NodeFits
<1>6. D!PicksUpWhereItLeft' /\ D!HandleIsOfItsFlow' /\ D!PendingIsForACall'
  BY <1>2 DEF D!PicksUpWhereItLeft, D!HandleIsOfItsFlow, D!PendingIsForACall
<1>7. D!DisposedIsQuiet'
  <2> SUFFICES ASSUME NEW d \in Dances, dances'[d] # Nothing, ~dances'[d].crossed,
                      \A r \in Starts : starts'[r] # Nothing => starts'[r].dance # d
               PROVE  dances'[d].timer # "armed"
    BY DEF D!DisposedIsQuiet
  <2>1. CASE d = held
    BY <1>1, <1>2, <2>1, NothingIsNone, LetGoGives
  <2>2. CASE d # held
    <3>1. dances'[d] = dances[d]
      BY <1>1, <1>2, <2>2, LetGoGives
    <3>2. starts[s].dance = Nothing
      BY <1>1, <1>2 DEF StartsRefer
    <3>3. \A r \in Starts : starts[r] # Nothing => starts[r].dance # d
      BY <1>4, <3>2, NothingIsNone
    <3> QED BY <1>1, <2>2, <3>1, <3>3 DEF D!DisposedIsQuiet
  <2> QED BY <2>1, <2>2
<1> QED BY <1>3, <1>4, <1>5, <1>6, <1>7 DEF PageInv

\* The node takes the dance of a start that counts, and lets go of the one it held.
LEMMA TakenKeeps ==
  ASSUME PageInv, NEW s \in Starts, D!TakeDance(s), starts[s].mounted
  PROVE  PageInv'
<1> DEFINE d == starts[s].dance
<1>1. /\ DancesFit /\ CallsRefer /\ StartsRefer /\ NodeFits /\ D!DisposedIsQuiet
  BY DEF PageInv
<1>2. /\ starts[s] # Nothing /\ starts[s].pc = "started" /\ starts' = [starts EXCEPT ![s] = Nothing]
      /\ held' = d /\ pending' = FALSE /\ dances' = D!LetGo /\ strayed' = (saved # D!Snapshot(dances[d]))
      /\ UNCHANGED <<actions, saved, mounted, flow, enabled, error, changes>>
  BY DEF D!TakeDance, D!Runs, D!Counts
<1>3. /\ d \in Dances /\ dances[d] # Nothing /\ dances[d].flow = starts[s].flow /\ dances[d].steps # <<>> /\ held # d
      /\ \A r \in Starts \ {s} : starts[r] # Nothing => starts[r].dance # d
      /\ mounted /\ starts[s].flow = flow
  BY <1>1, <1>2 DEF StartsRefer, Brings
<1>4. DancesFit' /\ CallsRefer'
  BY <1>1, <1>2, LetGoKeeps
<1>5. dances'[d] = dances[d]
  BY <1>1, <1>2, <1>3, LetGoGives
<1>6. /\ StartsRefer'
      /\ \A r \in Starts : starts'[r] = IF r = s THEN Nothing ELSE starts[r]
  <2>1. \A r \in Starts \ {s} : starts[r] # Nothing /\ starts[r].pc = "started" =>
          dances'[starts[r].dance] = dances[starts[r].dance] /\ held' # starts[r].dance
    BY <1>1, <1>2, <1>3, LetGoGives DEF StartsRefer, Brings
  <2> QED BY <1>1, <1>2, <2>1, OtherStartsStay
<1>7. NodeFits'
  BY <1>1, <1>2, <1>3, <1>5 DEF NodeFits
<1>8. D!PicksUpWhereItLeft' /\ D!HandleIsOfItsFlow' /\ D!PendingIsForACall'
  BY <1>2, <1>3, <1>5, NothingIsNone DEF D!PicksUpWhereItLeft, D!HandleIsOfItsFlow, D!PendingIsForACall
<1>9. D!DisposedIsQuiet'
  <2> SUFFICES ASSUME NEW e \in Dances, dances'[e] # Nothing, ~dances'[e].crossed, e # d,
                      \A r \in Starts : starts'[r] # Nothing => starts'[r].dance # e
               PROVE  dances'[e].timer # "armed"
    BY <1>2 DEF D!DisposedIsQuiet
  <2>1. CASE e = held
    BY <1>1, <1>2, <2>1, NothingIsNone, LetGoGives
  <2>2. CASE e # held
    <3>1. dances'[e] = dances[e]
      BY <1>1, <1>2, <2>2, LetGoGives
    <3>2. \A r \in Starts : starts[r] # Nothing => starts[r].dance # e
      BY <1>6
    <3> QED BY <1>1, <2>2, <3>1, <3>2 DEF D!DisposedIsQuiet
  <2> QED BY <2>1, <2>2
<1> QED BY <1>4, <1>6, <1>7, <1>8, <1>9 DEF PageInv

\* Nobody takes a dance whose start counts for nothing.
LEMMA UntakenKeeps ==
  ASSUME PageInv, NEW s \in Starts, D!TakeDance(s), ~starts[s].mounted
  PROVE  PageInv'
<1> DEFINE d == starts[s].dance
<1>1. /\ DancesFit /\ CallsRefer /\ StartsRefer /\ NodeFits
      /\ D!PicksUpWhereItLeft /\ D!HandleIsOfItsFlow /\ D!DisposedIsQuiet /\ D!PendingIsForACall
  BY DEF PageInv
<1>2. /\ starts[s] # Nothing /\ starts[s].pc = "started" /\ starts' = [starts EXCEPT ![s] = Nothing]
      /\ dances' = [dances EXCEPT ![d] = Nothing]
      /\ UNCHANGED <<held, pending, strayed, actions, saved, mounted, flow, enabled, error, changes>>
  BY DEF D!TakeDance, D!Runs, D!Counts, D!Untaken
<1>3. /\ d \in Dances /\ held # d
      /\ \A c \in Actions : actions[c] # Nothing => actions[c].dance # d
      /\ \A r \in Starts \ {s} : starts[r] # Nothing => starts[r].dance # d
  BY <1>1, <1>2 DEF StartsRefer, Brings
<1> HIDE DEF d
<1>4. /\ dances' \in [Dances -> D!Dance \cup {Nothing}]
      /\ \A e \in Dances : dances'[e] = IF e = d THEN Nothing ELSE dances[e]
  BY <1>1, <1>2 DEF DancesFit
<1>5. DancesFit'
  BY <1>1, <1>2, <1>4 DEF DancesFit
<1>6. CallsRefer'
  BY <1>1, <1>2, <1>3, <1>4 DEF CallsRefer
<1>7. /\ StartsRefer'
      /\ \A r \in Starts : starts'[r] = IF r = s THEN Nothing ELSE starts[r]
  <2>1. \A r \in Starts \ {s} : starts[r] # Nothing /\ starts[r].pc = "started" =>
          dances'[starts[r].dance] = dances[starts[r].dance] /\ held' # starts[r].dance
    BY <1>1, <1>2, <1>3, <1>4 DEF StartsRefer, Brings
  <2> QED BY <1>1, <1>2, <2>1, OtherStartsStay
<1>8. NodeFits' /\ (held # Nothing => dances'[held] = dances[held])
  BY <1>1, <1>2, <1>3, <1>4 DEF NodeFits
<1>9. D!PicksUpWhereItLeft'
  BY <1>1, <1>2, <1>8 DEF D!PicksUpWhereItLeft
<1>10. D!Starting' <=> D!Starting
  BY <1>7 DEF D!Starting
<1>11. D!HandleIsOfItsFlow' /\ D!PendingIsForACall'
  BY <1>1, <1>2, <1>8, <1>10 DEF D!HandleIsOfItsFlow, D!PendingIsForACall
<1>12. D!DisposedIsQuiet'
  <2> SUFFICES ASSUME NEW e \in Dances, dances'[e] # Nothing, ~dances'[e].crossed, held # e,
                      \A r \in Starts : starts'[r] # Nothing => starts'[r].dance # e
               PROVE  dances'[e].timer # "armed"
    BY <1>2 DEF D!DisposedIsQuiet
  <2>1. e # d /\ dances'[e] = dances[e]
    BY <1>4
  <2>2. \A r \in Starts : starts[r] # Nothing => starts[r].dance # e
    BY <1>7, <2>1 DEF d
  <2> QED BY <1>1, <2>1, <2>2 DEF D!DisposedIsQuiet
<1> QED BY <1>5, <1>6, <1>7, <1>8, <1>9, <1>11, <1>12 DEF PageInv

\* An answer leaves the dance that asked: as it was, or saved, and crossed if the node does
\* not hold it.
LEMMA LeaveKeeps ==
  ASSUME PageInv, NEW c \in Actions, actions[c] # Nothing, NEW after, DanceFits(after),
         after.flow = dances[actions[c].dance].flow, NEW failed \in BOOLEAN,
         D!Leave(c, after), D!Ran(c, failed),
         \/ UNCHANGED <<saved, strayed>> /\ after = dances[actions[c].dance]
         \/ D!Save(actions[c].dance, after) /\ (held = actions[c].dance \/ after.crossed),
         UNCHANGED <<starts, mounted, flow, enabled, held, changes>>
  PROVE  PageInv'
<1> DEFINE d == actions[c].dance
<1>1. /\ DancesFit /\ CallsRefer /\ StartsRefer /\ NodeFits
      /\ D!PicksUpWhereItLeft /\ D!HandleIsOfItsFlow /\ D!DisposedIsQuiet /\ D!PendingIsForACall
  BY DEF PageInv
<1>2. d \in Dances /\ dances[d] # Nothing /\ after # Nothing /\ after \in D!Dance
  BY <1>1, DanceIsSome DEF CallsRefer, DanceFits
<1>3. /\ dances' \in [Dances -> D!Dance \cup {Nothing}]
      /\ \A e \in Dances \ {d} : dances'[e] = dances[e]
      /\ dances'[d] = after \/ dances'[d] = Nothing
      /\ held = d => dances'[d] = after
      /\ (\E b \in Actions \ {c} : actions[b] # Nothing /\ actions[b].dance = d) => dances'[d] = after
  <2> DEFINE left == IF held = d THEN after ELSE D!Kept(d, Actions \ {c}, after)
  <2>1. left \in {after, Nothing} /\ (held = d => left = after)
    BY DEF D!Kept
  <2>2. (\E b \in Actions \ {c} : actions[b] # Nothing /\ actions[b].dance = d) => left = after
    BY DEF D!Kept
  <2>3. dances' = [dances EXCEPT ![d] = left]
    BY DEF D!Leave
  <2> HIDE DEF left, d
  <2> QED BY <1>1, <1>2, <2>1, <2>2, <2>3 DEF DancesFit
<1>4. /\ actions' = [actions EXCEPT ![c] = Nothing]
      /\ IF actions[c].here THEN pending' = FALSE /\ error' = (error \/ failed) ELSE UNCHANGED <<pending, error>>
  BY DEF D!Ran
<1>5. /\ actions' \in [Actions -> D!Call \cup {Nothing}]
      /\ \A b \in Actions : actions'[b] = IF b = c THEN Nothing ELSE actions[b]
  BY <1>1, <1>4 DEF CallsRefer
<1> HIDE DEF d
<1>6. DancesFit'
  <2>1. \A e \in Dances : dances'[e] # Nothing => DanceFits(dances'[e])
    BY <1>1, <1>3 DEF DancesFit
  <2>2. saved' # Nothing => SnapshotFits(saved')
    BY <1>1, SnapshotOfFits DEF DancesFit, D!Save
  <2> QED BY <1>3, <2>1, <2>2 DEF DancesFit
<1>7. CallsRefer'
  <2> SUFFICES ASSUME NEW b \in Actions, actions'[b] # Nothing
               PROVE  /\ actions'[b].dance \in Dances /\ dances'[actions'[b].dance] # Nothing
                      /\ actions'[b].op = "submit" => actions'[b].name \in Names /\ actions'[b].steps # <<>>
    BY <1>5 DEF CallsRefer
  <2>1. b # c /\ actions'[b] = actions[b]
    BY <1>5
  <2>2. /\ actions[b].dance \in Dances /\ dances[actions[b].dance] # Nothing
        /\ actions[b].op = "submit" => actions[b].name \in Names /\ actions[b].steps # <<>>
    BY <1>1, <2>1 DEF CallsRefer
  <2>3. dances'[actions[b].dance] # Nothing
    BY <1>2, <1>3, <2>1, <2>2
  <2> QED BY <2>1, <2>2, <2>3
<1>8. StartsRefer'
  <2> SUFFICES ASSUME NEW r \in Starts, starts[r] # Nothing, starts[r].pc = "started" PROVE Brings(r)'
    BY <1>1 DEF StartsRefer
  <2>1. /\ starts[r].dance \in Dances /\ held # starts[r].dance /\ starts[r].dance # d
        /\ \A b \in Actions : actions[b] # Nothing => actions[b].dance # starts[r].dance
        /\ \A q \in Starts \ {r} : starts[q] # Nothing => starts[q].dance # starts[r].dance
    BY <1>1 DEF StartsRefer, Brings, d
  <2>2. /\ dances'[starts[r].dance] = dances[starts[r].dance]
        /\ \A b \in Actions : actions'[b] # Nothing => actions'[b].dance # starts[r].dance
    BY <1>3, <1>5, <2>1
  <2> QED BY <1>1, <2>1, <2>2, BringsStays
<1>9. pending' \in BOOLEAN /\ error' \in BOOLEAN /\ (error => error')
  <2>1. pending \in BOOLEAN /\ error \in BOOLEAN
    BY <1>1 DEF NodeFits
  <2> QED BY Zenon, <1>4, <2>1
<1>10. NodeFits'
  <2>1. strayed' \in BOOLEAN
    <3>1. strayed \in BOOLEAN
      BY <1>1 DEF NodeFits
    <3> QED BY <3>1 DEF D!Save
  <2>2. held # Nothing => dances'[held] # Nothing
    BY <1>1, <1>2, <1>3 DEF NodeFits
  <2> QED BY <1>1, <1>9, <2>1, <2>2 DEF NodeFits
<1>11. D!PicksUpWhereItLeft'
  <2> SUFFICES ASSUME mounted, held # Nothing, ~strayed'
               PROVE  saved' = IF dances'[held].steps = <<>> THEN Nothing ELSE D!Snapshot(dances'[held])
    BY DEF D!PicksUpWhereItLeft
  <2>1. CASE UNCHANGED <<saved, strayed>> /\ after = dances[d]
    <3>1. dances'[held] = dances[held]
      BY <1>1, <1>3, <2>1 DEF NodeFits
    <3> QED BY <1>1, <2>1, <3>1 DEF D!PicksUpWhereItLeft
  <2>2. CASE D!Save(d, after)
    <3>1. held = d /\ dances'[held] = after
      BY <1>3, <2>2 DEF D!Save
    <3> QED BY <2>2, <3>1 DEF D!Save
  <2> QED BY <2>1, <2>2 DEF d
<1>12. D!Starting' <=> D!Starting
  BY DEF D!Starting
<1>13. D!HandleIsOfItsFlow'
  <2> SUFFICES ASSUME mounted, enabled, ~D!Starting
               PROVE  IF held = Nothing THEN error' ELSE dances'[held].flow = flow
    BY <1>12 DEF D!HandleIsOfItsFlow
  <2>1. CASE held = Nothing
    BY <1>1, <1>9, <2>1 DEF D!HandleIsOfItsFlow
  <2>2. CASE held # Nothing
    <3>1. dances[held].flow = flow /\ held \in Dances
      BY <1>1, <2>2 DEF D!HandleIsOfItsFlow, NodeFits
    <3>2. dances'[held].flow = flow
      BY <1>3, <3>1 DEF d
    <3> QED BY <2>2, <3>2
  <2> QED BY <2>1, <2>2
<1>14. D!PendingIsForACall'
  BY <1>1, <1>4, <1>5, <1>12 DEF D!PendingIsForACall
<1>15. D!DisposedIsQuiet'
  <2> SUFFICES ASSUME NEW e \in Dances, dances'[e] # Nothing, ~dances'[e].crossed, held # e,
                      \A r \in Starts : starts[r] # Nothing => starts[r].dance # e
               PROVE  dances'[e].timer # "armed"
    BY DEF D!DisposedIsQuiet
  <2>1. dances'[e] = dances[e]
    <3>1. CASE e = d
      BY <1>3, <3>1 DEF d
    <3>2. CASE e # d
      BY <1>3, <3>2
    <3> QED BY <3>1, <3>2
  <2> QED BY <1>1, <2>1 DEF D!DisposedIsQuiet
<1> QED BY <1>6, <1>7, <1>8, <1>10, <1>11, <1>13, <1>14, <1>15 DEF PageInv

\* What an answer to a step leaves, whichever dance it meets.
LEMMA SubmittedFits ==
  ASSUME PageInv, NEW c \in Actions, actions[c] # Nothing, actions[c].op = "submit"
  PROVE  LET call == actions[c]
             step == Append(call.steps[Len(call.steps)], call.name)
             after == [D!Armed(D!Answered(dances[call.dance], call.name, step)) EXCEPT !.crossed = @ \/ D!Crosses(c)]
         IN  /\ DanceFits(after) /\ after.flow = dances[call.dance].flow
             /\ held = call.dance \/ after.crossed
<1> DEFINE call == actions[c]
           dance == dances[call.dance]
           step == Append(call.steps[Len(call.steps)], call.name)
           answered == D!Answered(dance, call.name, step)
           armed == D!Armed(answered)
           after == [armed EXCEPT !.crossed = @ \/ D!Crosses(c)]
<1>1. /\ DanceFits(dance) /\ dance \in D!Dance /\ call.name \in Names /\ call.steps # <<>> /\ call \in D!Call
  BY DEF PageInv, DancesFit, CallsRefer, DanceFits
<1>2. step \in D!Step
  <2>1. call.steps \in Seq(D!Step)
    BY <1>1 DEF D!Call
  <2>2. call.steps[Len(call.steps)] \in Seq(Names)
    BY <1>1, <2>1, EmptySeq, LenProperties DEF D!Step
  <2> QED BY <1>1, <2>2 DEF D!Step
<1>3. answered \in D!Dance /\ Len(answered.steps) <= Len(answered.trail) + 1
  BY <1>1, <1>2, LateAnswerFits
<1>4. answered.flow = dance.flow /\ answered.crossed = dance.crossed
  BY <1>1 DEF D!Answered, D!Dance
<1>5. ~D!Crosses(c) => held = call.dance /\ dance.steps = call.steps
  BY DEF D!Crosses
<1> HIDE DEF answered
<1>6. /\ armed \in D!Dance /\ armed.flow = answered.flow /\ armed.steps = answered.steps
      /\ armed.trail = answered.trail /\ armed.crossed = answered.crossed
  BY <1>3 DEF D!Armed, D!Dance
<1> HIDE DEF armed, step
<1>7. CASE dance.crossed \/ D!Crosses(c)
  <2>1. after = [armed EXCEPT !.crossed = TRUE]
    BY <1>4, <1>6, <1>7
  <2>2. DanceFits([armed EXCEPT !.crossed = TRUE])
    BY <1>3, <1>6, CrossedFits
  <2>3. after.flow = dance.flow /\ after.crossed
    BY <1>4, <1>6, <2>1 DEF D!Dance
  <2> HIDE DEF after
  <2> QED BY <2>1, <2>2, <2>3 DEF after, armed, answered, step
<1>8. CASE ~dance.crossed /\ ~D!Crosses(c)
  <2>1. DanceFits(answered)
    BY <1>1, <1>5, <1>8, AnsweredFits DEF answered, step
  <2>2. DanceFits(armed)
    BY <2>1, ArmedFits DEF armed
  <2>3. after = armed
    BY <1>4, <1>6, <1>8 DEF D!Dance
  <2> HIDE DEF after
  <2> QED BY <1>4, <1>5, <1>6, <1>8, <2>2, <2>3 DEF after, armed, answered, step
<1> QED BY <1>7, <1>8

\* Every call that ends.
LEMMA CallsKeep ==
  ASSUME PageInv, NEW c \in Actions, D!CallStep(c)
  PROVE  PageInv'
<1> DEFINE d == actions[c].dance
<1>1. actions[c] # Nothing
  BY DEF D!CallStep, D!Submitted, D!Delivered, D!Restarted, D!Refused
<1>2. d \in Dances /\ DanceFits(dances[d]) /\ dances[d].flow \in Flows
  BY <1>1 DEF PageInv, DancesFit, CallsRefer, DanceFits, D!Dance
<1>3. CASE D!Submitted(c)
  <2> DEFINE step == Append(actions[c].steps[Len(actions[c].steps)], actions[c].name)
             after == [D!Armed(D!Answered(dances[d], actions[c].name, step)) EXCEPT !.crossed = @ \/ D!Crosses(c)]
  <2>1. /\ actions[c].op = "submit" /\ D!Leave(c, after) /\ D!Save(d, after) /\ D!Ran(c, FALSE)
        /\ UNCHANGED <<starts, mounted, flow, enabled, held, changes>>
    BY <1>3 DEF D!Submitted
  <2>2. DanceFits(after) /\ after.flow = dances[d].flow /\ (held = d \/ after.crossed)
    BY <1>1, <2>1, SubmittedFits
  <2> HIDE DEF after
  <2> QED BY <1>1, <2>1, <2>2, LeaveKeeps
<1>4. CASE D!Delivered(c)
  <2>1. /\ D!Leave(c, dances[d]) /\ D!Ran(c, FALSE)
        /\ UNCHANGED <<starts, saved, mounted, flow, enabled, held, changes, strayed>>
    BY <1>4 DEF D!Delivered
  <2> QED BY <1>1, <1>2, <2>1, LeaveKeeps
<1>5. CASE D!Refused(c)
  <2>1. /\ D!Leave(c, dances[d]) /\ D!Ran(c, TRUE)
        /\ UNCHANGED <<starts, saved, mounted, flow, enabled, held, changes, strayed>>
    BY <1>5 DEF D!Refused
  <2> QED BY <1>1, <1>2, <2>1, LeaveKeeps
<1>6. CASE D!Restarted(c)
  <2> DEFINE fresh == D!Fresh(dances[d].flow)
             after == [fresh EXCEPT !.crossed = held # d]
  <2>1. /\ D!Leave(c, after) /\ D!Save(d, after) /\ D!Ran(c, FALSE)
        /\ UNCHANGED <<starts, mounted, flow, enabled, held, changes>>
    BY <1>6 DEF D!Restarted
  <2>2. DanceFits(fresh) /\ fresh.flow = dances[d].flow /\ ~fresh.crossed
    BY <1>2, FreshFits
  <2>3. fresh \in D!Dance /\ Len(fresh.steps) <= Len(fresh.trail) + 1 /\ fresh.crossed = FALSE
    BY <2>2 DEF DanceFits, D!Dance
  <2> HIDE DEF fresh
  <2>4. DanceFits(after) /\ after.flow = dances[d].flow /\ (held = d \/ after.crossed)
    <3>1. CASE held = d
      <4>1. after = fresh
        BY <2>3, <3>1 DEF D!Dance
      <4> QED BY <2>2, <3>1, <4>1
    <3>2. CASE held # d
      <4>1. after = [fresh EXCEPT !.crossed = TRUE]
        BY <3>2
      <4>2. DanceFits([fresh EXCEPT !.crossed = TRUE])
        BY <2>3, CrossedFits
      <4>3. after.flow = fresh.flow /\ after.crossed
        BY <2>3, <4>1 DEF D!Dance
      <4> HIDE DEF after
      <4> QED BY <2>2, <4>1, <4>2, <4>3
    <3> QED BY <3>1, <3>2
  <2> HIDE DEF after
  <2> QED BY <1>1, <2>1, <2>4, LeaveKeeps
<1> QED BY <1>3, <1>4, <1>5, <1>6 DEF D!CallStep

\* An action without a route moves the dance the node holds, and saves it.
LEMMA MoveKeeps ==
  ASSUME PageInv, held # Nothing, NEW after, DanceFits(after), after.flow = dances[held].flow, D!Move(after)
  PROVE  PageInv'
<1>1. /\ DancesFit /\ CallsRefer /\ StartsRefer /\ NodeFits
      /\ D!PicksUpWhereItLeft /\ D!HandleIsOfItsFlow /\ D!DisposedIsQuiet /\ D!PendingIsForACall
  BY DEF PageInv
<1>2. /\ held \in Dances /\ after # Nothing /\ after \in D!Dance
      /\ dances' = [dances EXCEPT ![held] = after] /\ pending' = FALSE /\ error' = FALSE
      /\ saved' = (IF after.steps = <<>> THEN Nothing ELSE D!Snapshot(after)) /\ strayed' = FALSE
      /\ UNCHANGED <<starts, actions, mounted, flow, enabled, held, changes>>
  BY <1>1, DanceIsSome DEF NodeFits, D!Move, D!Save, DanceFits
<1>3. /\ dances' \in [Dances -> D!Dance \cup {Nothing}]
      /\ \A d \in Dances : dances'[d] = IF d = held THEN after ELSE dances[d]
  BY <1>1, <1>2 DEF DancesFit
<1>4. DancesFit'
  BY <1>1, <1>2, <1>3, SnapshotOfFits DEF DancesFit
<1>5. CallsRefer'
  BY <1>1, <1>2, <1>3 DEF CallsRefer
<1>6. StartsRefer'
  <2> SUFFICES ASSUME NEW r \in Starts, starts[r] # Nothing, starts[r].pc = "started" PROVE Brings(r)'
    BY <1>1, <1>2 DEF StartsRefer
  <2>1. /\ starts[r].dance \in Dances /\ held # starts[r].dance
        /\ \A b \in Actions : actions[b] # Nothing => actions[b].dance # starts[r].dance
        /\ \A q \in Starts \ {r} : starts[q] # Nothing => starts[q].dance # starts[r].dance
    BY <1>1 DEF StartsRefer, Brings
  <2>2. dances'[starts[r].dance] = dances[starts[r].dance]
    BY <1>3, <2>1
  <2> QED BY <1>1, <1>2, <2>1, <2>2, BringsStays
<1>7. NodeFits'
  BY <1>1, <1>2, <1>3 DEF NodeFits
<1>8. D!PicksUpWhereItLeft'
  BY <1>2, <1>3 DEF D!PicksUpWhereItLeft
<1>9. D!Starting' <=> D!Starting
  BY <1>2 DEF D!Starting
<1>10. D!HandleIsOfItsFlow' /\ D!PendingIsForACall'
  BY <1>1, <1>2, <1>3, <1>9 DEF D!HandleIsOfItsFlow, D!PendingIsForACall
<1>11. D!DisposedIsQuiet'
  BY <1>1, <1>2, <1>3 DEF D!DisposedIsQuiet
<1> QED BY <1>4, <1>5, <1>6, <1>7, <1>8, <1>10, <1>11 DEF PageInv

\* A choice, a way back and an end.
LEMMA MovesKeep ==
  ASSUME PageInv, D!Prev \/ D!Abandon \/ \E name \in Names : D!Choose(name)
  PROVE  PageInv'
<1>1. held # Nothing
  BY DEF D!Prev, D!Abandon, D!Choose
<1>2. DanceFits(dances[held])
  BY <1>1 DEF PageInv, NodeFits, DancesFit
<1>3. CASE D!Prev
  <2> DEFINE after == D!Back(dances[held])
  <2>1. ~dances[held].done /\ Len(dances[held].steps) > 1 /\ D!Move(D!Armed(after))
    BY <1>3 DEF D!Prev
  <2>2. DanceFits(after) /\ after.flow = dances[held].flow
    BY <1>2, <2>1, BackFits
  <2> HIDE DEF after
  <2>3. DanceFits(D!Armed(after)) /\ D!Armed(after).flow = dances[held].flow
    BY <2>2, ArmedFits
  <2> QED BY <1>1, <2>1, <2>3, MoveKeeps
<1>4. CASE D!Abandon
  <2> DEFINE after == [dances[held] EXCEPT !.steps = <<>>, !.trail = <<>>, !.selected = Nothing, !.done = TRUE]
  <2>1. D!Move(D!Armed(after))
    BY <1>4 DEF D!Abandon
  <2>2. DanceFits(after) /\ after.flow = dances[held].flow
    BY <1>2, AbandonedFits
  <2> HIDE DEF after
  <2>3. DanceFits(D!Armed(after)) /\ D!Armed(after).flow = dances[held].flow
    BY <2>2, ArmedFits
  <2> QED BY <1>1, <2>1, <2>3, MoveKeeps
<1>5. ASSUME NEW name \in Names, D!Choose(name) PROVE PageInv'
  <2> DEFINE after == [dances[held] EXCEPT !.selected = name]
  <2>1. dances[held].steps # <<>> /\ name \in D!Offers(D!Current(dances[held])) /\ D!Move(after)
    BY <1>5 DEF D!Choose
  <2>2. DanceFits(after) /\ after.flow = dances[held].flow
    BY <1>2, <2>1, ChosenFits
  <2> HIDE DEF after
  <2> QED BY <1>1, <2>1, <2>2, MoveKeeps
<1> QED BY <1>3, <1>4, <1>5

\* A call goes out for the dance the node holds.
LEMMA ActKeeps ==
  ASSUME PageInv, NEW c \in Actions, NEW name \in Names \cup {Nothing}, NEW op \in {"submit", "send", "restart"},
         D!Act(c, op, name)
  PROVE  PageInv'
<1> DEFINE record == [op |-> op, dance |-> held, name |-> name, here |-> TRUE,
                      steps |-> IF op = "submit" THEN dances[held].steps ELSE <<>>]
<1>1. /\ DancesFit /\ CallsRefer /\ StartsRefer /\ NodeFits
      /\ D!PicksUpWhereItLeft /\ D!HandleIsOfItsFlow /\ D!DisposedIsQuiet /\ D!PendingIsForACall
  BY DEF PageInv
<1>2. /\ held # Nothing /\ actions[c] = Nothing
      /\ op = "submit" => D!Target(dances[held], name)
      /\ actions' = [actions EXCEPT ![c] = record] /\ pending' = TRUE /\ error' = FALSE
      /\ UNCHANGED <<dances, starts, saved, mounted, flow, enabled, held, changes, strayed>>
  BY DEF D!Act
<1>3. held \in Dances /\ dances[held] # Nothing /\ dances[held].steps \in Seq(D!Step)
  <2>1. held \in Dances /\ dances[held] # Nothing
    BY <1>1, <1>2 DEF NodeFits
  <2>2. dances[held] \in D!Dance
    BY <1>1, <2>1 DEF DancesFit
  <2> QED BY <2>1, <2>2 DEF D!Dance
<1>4. op = "submit" => name \in Names /\ dances[held].steps # <<>>
  BY <1>2 DEF D!Target, D!Offers
<1>5. /\ record.dance = held /\ record.op = op /\ record.name = name /\ record.here
      /\ record.op = "submit" => record.name \in Names /\ record.steps # <<>>
  BY <1>4
<1>6. record \in D!Call
  <2>1. <<>> \in Seq(D!Step)
    OBVIOUS
  <2> QED BY <1>3, <2>1 DEF D!Call
<1>7. record # Nothing
  BY <1>6, NothingIsNone
<1> HIDE DEF record
<1>8. /\ actions' \in [Actions -> D!Call \cup {Nothing}]
      /\ \A b \in Actions : actions'[b] = IF b = c THEN record ELSE actions[b]
  BY <1>1, <1>2, <1>6 DEF CallsRefer
<1>9. DancesFit'
  BY <1>1, <1>2 DEF DancesFit
<1>10. CallsRefer'
  BY <1>1, <1>2, <1>3, <1>5, <1>8 DEF CallsRefer
<1>11. StartsRefer'
  <2> SUFFICES ASSUME NEW r \in Starts, starts[r] # Nothing, starts[r].pc = "started" PROVE Brings(r)'
    BY <1>1, <1>2 DEF StartsRefer
  <2>1. /\ held # starts[r].dance
        /\ \A b \in Actions : actions[b] # Nothing => actions[b].dance # starts[r].dance
        /\ \A q \in Starts \ {r} : starts[q] # Nothing => starts[q].dance # starts[r].dance
    BY <1>1 DEF StartsRefer, Brings
  <2>2. \A b \in Actions : actions'[b] # Nothing => actions'[b].dance # starts[r].dance
    BY <1>5, <1>8, <2>1
  <2> QED BY <1>1, <1>2, <2>1, <2>2, BringsStays
<1>12. NodeFits'
  BY <1>1, <1>2 DEF NodeFits
<1>13. D!PicksUpWhereItLeft' /\ D!DisposedIsQuiet'
  BY <1>1, <1>2 DEF D!PicksUpWhereItLeft, D!DisposedIsQuiet
<1>14. D!HandleIsOfItsFlow'
  BY <1>1, <1>2 DEF D!HandleIsOfItsFlow, D!Starting
<1>15. D!PendingIsForACall'
  BY <1>5, <1>7, <1>8 DEF D!PendingIsForACall
<1> QED BY <1>9, <1>10, <1>11, <1>12, <1>13, <1>14, <1>15 DEF PageInv

\* A timer fires.
LEMMA ExpireKeeps ==
  ASSUME PageInv, NEW d \in Dances, D!Expire(d)
  PROVE  PageInv'
<1> DEFINE fired == [dances[d] EXCEPT !.timer = "fired"]
<1>1. /\ DancesFit /\ CallsRefer /\ StartsRefer /\ NodeFits
      /\ D!PicksUpWhereItLeft /\ D!HandleIsOfItsFlow /\ D!DisposedIsQuiet /\ D!PendingIsForACall
  BY DEF PageInv
<1>2. /\ dances[d] # Nothing /\ dances' = [dances EXCEPT ![d] = fired]
      /\ UNCHANGED <<starts, actions, saved, mounted, flow, enabled, held, pending, error, changes, strayed>>
  BY <1>1 DEF D!Expire, D!hook, DancesFit
<1>3. /\ DanceFits(fired) /\ fired.timer = "fired" /\ fired.steps = dances[d].steps /\ fired.flow = dances[d].flow
      /\ D!Snapshot(fired) = D!Snapshot(dances[d])
  BY <1>1, <1>2, TimerFits DEF DancesFit
<1>4. fired # Nothing /\ fired \in D!Dance
  BY <1>3, DanceIsSome DEF DanceFits
<1> HIDE DEF fired
<1>5. /\ dances' \in [Dances -> D!Dance \cup {Nothing}]
      /\ \A e \in Dances : dances'[e] = IF e = d THEN fired ELSE dances[e]
  BY <1>1, <1>2, <1>4 DEF DancesFit
<1>6. DancesFit'
  BY <1>1, <1>2, <1>3, <1>5 DEF DancesFit
<1>7. CallsRefer'
  BY <1>1, <1>2, <1>4, <1>5 DEF CallsRefer
<1>8. StartsRefer'
  BY <1>1, <1>2, <1>3, <1>4, <1>5 DEF StartsRefer, Brings
<1>9. NodeFits'
  BY <1>1, <1>2, <1>4, <1>5 DEF NodeFits
<1>10. D!PicksUpWhereItLeft'
  <2> SUFFICES ASSUME mounted, held # Nothing, ~strayed
               PROVE  saved = IF dances'[held].steps = <<>> THEN Nothing ELSE D!Snapshot(dances'[held])
    BY <1>2 DEF D!PicksUpWhereItLeft
  <2>1. dances'[held].steps = dances[held].steps /\ D!Snapshot(dances'[held]) = D!Snapshot(dances[held])
    BY <1>1, <1>3, <1>5 DEF NodeFits
  <2> QED BY <1>1, <2>1 DEF D!PicksUpWhereItLeft
<1>11. D!HandleIsOfItsFlow'
  BY <1>1, <1>2, <1>3, <1>5 DEF D!HandleIsOfItsFlow, D!Starting, NodeFits
<1>12. D!PendingIsForACall'
  BY <1>1, <1>2 DEF D!PendingIsForACall, D!Starting
<1>13. D!DisposedIsQuiet'
  <2> SUFFICES ASSUME NEW e \in Dances, dances'[e] # Nothing, ~dances'[e].crossed, held # e,
                      \A r \in Starts : starts[r] # Nothing => starts[r].dance # e
               PROVE  dances'[e].timer # "armed"
    BY <1>2 DEF D!DisposedIsQuiet
  <2>1. CASE e = d
    BY <1>3, <1>5, <2>1
  <2>2. CASE e # d
    BY <1>1, <1>5, <2>2 DEF D!DisposedIsQuiet
  <2> QED BY <2>1, <2>2
<1> QED BY <1>6, <1>7, <1>8, <1>9, <1>10, <1>11, <1>12, <1>13 DEF PageInv

\* Every step of a start.
LEMMA StartStepsKeep ==
  ASSUME PageInv, NEW s \in Starts, D!StartStep(s)
  PROVE  PageInv'
<1>1. /\ DancesFit /\ StartsRefer
      /\ starts[s] # Nothing => starts[s] \in D!Start
  BY DEF PageInv, StartsRefer
<1>2. CASE D!ReadSnapshot(s)
  <2>1. /\ starts[s] # Nothing /\ starts[s].pc = "reading"
        /\ UNCHANGED <<actions, saved, mounted, flow, enabled, held, pending, error, changes, strayed>>
    BY <1>2 DEF D!ReadSnapshot, D!Runs, D!hook
  <2>2. CASE D!Takes(saved, starts[s].flow)
    <3>1. PICK d \in Dances, timer \in {"armed", "fired"} :
            /\ dances[d] = Nothing /\ dances' = [dances EXCEPT ![d] = D!Build(saved, timer)]
            /\ starts' = [starts EXCEPT ![s].pc = "started", ![s].dance = d]
      BY <1>2, <2>2 DEF D!ReadSnapshot
    <3> DEFINE built == D!Build(saved, timer)
    <3>2. SnapshotFits(saved) /\ saved.flow = starts[s].flow
      BY <1>1, <2>2 DEF DancesFit, D!Takes
    <3>3. DanceFits(built) /\ built.steps # <<>> /\ built.flow = starts[s].flow
      BY <3>2, BuiltFits
    <3> HIDE DEF built
    <3>4. dances' = [dances EXCEPT ![d] = built]
      BY <3>1 DEF built
    <3> QED BY <2>1, <3>1, <3>3, <3>4, BroughtKeeps
  <2>3. CASE ~D!Takes(saved, starts[s].flow)
    <3>1. /\ starts' = [starts EXCEPT ![s] = IF @.mounted THEN [@ EXCEPT !.pc = "asked"] ELSE Nothing]
          /\ UNCHANGED dances
      BY <1>2, <2>3 DEF D!ReadSnapshot
    <3> QED BY <2>1, <3>1, AskKeeps
  <2> QED BY <2>2, <2>3
<1>3. CASE D!FirstStep(s)
  <2>1. PICK d \in Dances :
          /\ dances[d] = Nothing /\ dances' = [dances EXCEPT ![d] = D!Fresh(starts[s].flow)]
          /\ starts' = [starts EXCEPT ![s].pc = "started", ![s].dance = d]
          /\ D!Save(d, D!Fresh(starts[s].flow))
    BY <1>3 DEF D!FirstStep
  <2>2. /\ starts[s] # Nothing /\ starts[s].pc = "asked"
        /\ UNCHANGED <<actions, mounted, flow, enabled, held, pending, error, changes>>
    BY <1>3 DEF D!FirstStep, D!Runs, D!hook
  <2> DEFINE fresh == D!Fresh(starts[s].flow)
  <2>3. starts[s].flow \in Flows
    BY <1>1, <2>2 DEF D!Start
  <2>4. DanceFits(fresh) /\ fresh.steps # <<>> /\ fresh.flow = starts[s].flow
    BY <2>3, FreshFits
  <2> HIDE DEF fresh
  <2>5. /\ dances' = [dances EXCEPT ![d] = fresh]
        /\ saved' = D!Snapshot(fresh) /\ strayed' = (held # d)
    BY <2>1, <2>4 DEF D!Save, fresh
  <2> QED BY <2>1, <2>2, <2>4, <2>5, BroughtKeeps
<1>4. CASE D!RefuseStart(s)
  BY <1>4, RefusalKeeps
<1>5. CASE D!TakeDance(s)
  BY <1>5, TakenKeeps, UntakenKeeps
<1> QED BY <1>2, <1>3, <1>4, <1>5 DEF D!StartStep

\* The node mounts, is given other options, or tries again.
LEMMA NodeKeeps ==
  ASSUME PageInv, D!Retry \/ \E f \in Flows : D!Mount(f) \/ \E on \in BOOLEAN : D!Change(f, on)
  PROVE  PageInv'
<1>1. changes \in 0..MaxChanges /\ MaxChanges \in Nat /\ flow \in Flows
  BY PageAssumption DEF PageInv, NodeFits, D!ClientDanceAssumption
<1>2. CASE D!Retry
  <2>1. /\ D!Effect(flow, TRUE) /\ mounted' = TRUE /\ flow' = flow /\ enabled' = TRUE /\ changes' \in 0..MaxChanges
        /\ UNCHANGED <<dances, actions, saved, held, strayed>>
    <3>1. mounted \in BOOLEAN /\ enabled \in BOOLEAN
      BY DEF PageInv, NodeFits
    <3>2. D!Effect(flow, TRUE)
      BY Zenon, <1>2 DEF D!Retry
    <3>3. mounted' = TRUE /\ enabled' = TRUE
      BY <1>2, <3>1 DEF D!Retry
    <3>4. /\ flow' = flow /\ changes' \in 0..MaxChanges
          /\ UNCHANGED <<dances, actions, saved, held, strayed>>
      BY <1>1, <1>2 DEF D!Retry
    <3> QED BY Zenon, <3>2, <3>3, <3>4
  <2> QED BY <1>1, <2>1, OptionsKeep
<1>3. ASSUME NEW f \in Flows, D!Mount(f) PROVE PageInv'
  <2>1. /\ D!Effect(f, TRUE) /\ mounted' = TRUE /\ flow' = f /\ enabled' = TRUE /\ changes' \in 0..MaxChanges
        /\ UNCHANGED <<dances, actions, saved, held, strayed>>
    <3>1. D!Effect(f, TRUE)
      BY Zenon, <1>3 DEF D!Mount
    <3>2. /\ mounted' = TRUE /\ flow' = f /\ enabled' = TRUE /\ changes' \in 0..MaxChanges
          /\ UNCHANGED <<dances, actions, saved, held, strayed>>
      BY <1>1, <1>3 DEF D!Mount
    <3> QED BY Zenon, <3>1, <3>2
  <2> QED BY <2>1, OptionsKeep
<1>4. ASSUME NEW f \in Flows, NEW on \in BOOLEAN, D!Change(f, on) PROVE PageInv'
  <2>1. /\ D!Effect(f, on) /\ mounted' = TRUE /\ flow' = f /\ enabled' = on /\ changes' \in 0..MaxChanges
        /\ UNCHANGED <<dances, actions, saved, held, strayed>>
    <3>1. mounted \in BOOLEAN
      BY DEF PageInv, NodeFits
    <3> QED BY <1>1, <1>4, <3>1 DEF D!Change
  <2> QED BY <2>1, OptionsKeep
<1> QED BY <1>2, <1>3, <1>4

\* A page starts with an empty store.
LEMMA PageInit == D!Init => PageInv
<1> SUFFICES ASSUME D!Init PROVE PageInv
  OBVIOUS
<1>1. changes \in 0..MaxChanges
  BY PageAssumption DEF D!Init, D!ClientDanceAssumption
<1>2. DancesFit /\ CallsRefer /\ StartsRefer /\ NodeFits
  BY <1>1 DEF D!Init, DancesFit, CallsRefer, StartsRefer, NodeFits
<1>3. D!PicksUpWhereItLeft /\ D!HandleIsOfItsFlow /\ D!DisposedIsQuiet /\ D!PendingIsForACall
  BY DEF D!Init, D!PicksUpWhereItLeft, D!HandleIsOfItsFlow, D!DisposedIsQuiet, D!PendingIsForACall
<1> QED BY <1>2, <1>3 DEF PageInv

\* Every step keeps what the page refers to.
LEMMA PageInvariance == PageInv /\ [D!Next]_(D!vars) => PageInv'
<1> SUFFICES ASSUME PageInv, [D!Next]_(D!vars) PROVE PageInv'
  OBVIOUS
<1>1. CASE D!Retry \/ \E f \in Flows : D!Mount(f) \/ \E on \in BOOLEAN : D!Change(f, on)
  BY <1>1, NodeKeeps
<1>2. CASE D!Unmount
  BY <1>2, UnmountKeeps
<1>3. CASE D!Prev \/ D!Abandon \/ \E name \in Names : D!Choose(name)
  BY <1>3, MovesKeep
<1>4. CASE \E s \in Starts : D!StartStep(s)
  BY <1>4, StartStepsKeep
<1>5. CASE \E c \in Actions : D!CallStep(c)
  BY <1>5, CallsKeep
<1>6. ASSUME NEW c \in Actions, NEW name \in Names \cup {Nothing}, NEW op \in {"submit", "send", "restart"},
             D!Act(c, op, name)
      PROVE  PageInv'
  BY <1>6, ActKeeps
<1>7. CASE \E d \in Dances : D!Expire(d)
  BY <1>7, ExpireKeeps
<1>8. CASE UNCHANGED D!vars
  <2>1. UNCHANGED <<dances, starts, actions, saved, mounted, flow, enabled, held, pending, error, changes, strayed>>
    BY <1>8 DEF D!vars, D!hook
  <2>2. DancesFit' /\ CallsRefer' /\ NodeFits'
    BY <2>1 DEF PageInv, DancesFit, CallsRefer, NodeFits
  <2>3. StartsRefer'
    BY <2>1 DEF PageInv, StartsRefer, Brings
  <2>4. D!PicksUpWhereItLeft' /\ D!HandleIsOfItsFlow' /\ D!DisposedIsQuiet' /\ D!PendingIsForACall'
    BY <2>1 DEF PageInv, D!PicksUpWhereItLeft, D!HandleIsOfItsFlow, D!DisposedIsQuiet, D!PendingIsForACall, D!Starting
  <2> QED BY <2>2, <2>3, <2>4 DEF PageInv
<1> QED BY <1>1, <1>2, <1>3, <1>4, <1>5, <1>6, <1>7, <1>8 DEF D!Next

\* What the client holds and what it saved are one dance of the server: a state is never sent
\* with the answer of another step, and the snapshot in the store is of the step the owner left
\* (prev, submitPrompt and resume of src/client.ts).
THEOREM StepsAreOfOneDance == D!Spec => []DanceIsOne
<1>1. PageInv => DanceIsOne
  <2> SUFFICES ASSUME PageInv PROVE DanceIsOne
    OBVIOUS
  <2>1. D!TypeOK
    BY DEF PageInv, DancesFit, CallsRefer, StartsRefer, NodeFits, SnapshotFits, SavedDance, D!TypeOK
  <2>2. D!StepsAreADance
    BY DEF PageInv, DancesFit, DanceFits, IsAWalk, D!StepsAreADance
  <2> QED BY <2>1, <2>2 DEF PageInv, DanceIsOne, D!DanceIsOne
<1> QED BY <1>1, PageInit, PageInvariance, PTL DEF D!Spec

\* In whatever order the options change and the calls resolve, the node shows a dance of the
\* flow it was given, is pending for a call that will say so, and what it dropped has no timer
\* (useAuthDanceFlow of src/react.ts).
THEOREM HandlesAreOfTheirFlow == D!Spec => []HookShowsTheFlow
<1>1. PageInv => HookShowsTheFlow
  BY DEF PageInv, HookShowsTheFlow, D!HookShowsTheFlow
<1> QED BY <1>1, PageInit, PageInvariance, PTL DEF D!Spec
=============================================================================
