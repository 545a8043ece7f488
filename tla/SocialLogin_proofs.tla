------------------------ MODULE SocialLogin_proofs ------------------------
(***************************************************************************)
(* Proofs about SocialLogin for any sets of providers, accounts and        *)
(* dances, any number of prompts, codes and calls: who signs in with an    *)
(* account of a provider is its owner, and an authorization without an     *)
(* answer stands.                                                          *)
(*                                                                         *)
(* The exchange is what the argument rests on: PKCE or the nonce binds a   *)
(* code to the authorization its owner saw, and a call keeps that until it *)
(* resolves the account or writes it.  The look for another holder and the *)
(* write are two calls, so what is proved of owners excepts the accounts   *)
(* two identities asked for at once.                                       *)
(*                                                                         *)
(* And about RequestLimits, the guest of the run of SocialLogin: the       *)
(* limits bind whoever asks too often, and nobody else.                    *)
(***************************************************************************)
EXTENDS SocialLogin, MCRequestLimits, Integers, Sequences, FiniteSets,
  FiniteSetTheorems, SequenceTheorems, TLAPS

\* What a call knows: the code it was given, which answers the authorization it read once the
\* provider took it.
CallFits(known, call) ==
  /\ call.pc # "prompt" =>
       /\ \E code \in known : call.code = {code}
       /\ call.read = call.state /\ call.read \in 1..MaxPrompts
  /\ call.pc \in {"lookup", "write"} => \A code \in call.code : code.for = <<call.dance, call.read>>
  /\ call.pc = "write" => call.dance \in Links

CallsFit == \A c \in Calls : calls[c] # Idle => CallFits(codes, calls[c])

Typed ==
  /\ TypeOK /\ CallsFit
  /\ kv \in [Dances -> 0..MaxPrompts] /\ issued \in [Dances -> 0..MaxPrompts]

\* Each account was linked by an agreement of its owner.
HoldersAgreed == \A h \in holders : Agreed(h[1], h[2], h[3])

\* The account a call is going to write.
Writes(c, i, name, sub) ==
  /\ Busy(c, "write") /\ IdentityOf[calls[c].dance] = i /\ NameOf[calls[c].dance] = name
  /\ \E code \in calls[c].code : code.sub = sub

\* Nobody else holds the account a call is going to write, or is going to, unless two asked
\* for it at once.
WritesFit ==
  \A c \in Calls, i, j \in Identities, name \in Names, sub \in Subs :
    Writes(c, i, name, sub) /\ i # j /\ <<name, sub>> \notin raced =>
      /\ <<j, name, sub>> \notin holders
      /\ \A e \in Calls : ~Writes(e, j, name, sub)

IInv ==
  /\ Typed /\ HoldersAgreed /\ SignInsAreAgreed /\ StandsForItsAnswer
  /\ OutageIsNotKept /\ WritesFit /\ AccountsHaveOneOwner
-----------------------------------------------------------------------------
\* A call that changes leaves the others as they are, and codes are only added.
LEMMA OneCall ==
  ASSUME Typed, NEW c \in Calls, NEW call, calls' = [calls EXCEPT ![c] = call], codes \subseteq codes',
         call = Idle \/ (call \in Call /\ CallFits(codes', call))
  PROVE  /\ calls'[c] = call /\ \A e \in Calls \ {c} : calls'[e] = calls[e]
         /\ calls' \in [Calls -> Call \cup {Idle}] /\ CallsFit'
<1>1. calls \in [Calls -> Call \cup {Idle}]
  BY DEF Typed, TypeOK
<1>2. calls'[c] = call /\ \A e \in Calls \ {c} : calls'[e] = calls[e]
  BY <1>1
<1>3. calls' \in [Calls -> Call \cup {Idle}]
  BY <1>1
<1>4. ASSUME NEW e \in Calls, calls'[e] # Idle PROVE CallFits(codes', calls'[e])
  <2>1. CASE e = c
    BY <1>2, <1>4, <2>1
  <2>2. CASE e # c
    <3>1. calls'[e] = calls[e] /\ CallFits(codes, calls[e])
      BY <1>2, <1>4, <2>2 DEF Typed, CallsFit
    <3> QED BY <3>1 DEF CallFits
  <2> QED BY <2>1, <2>2
<1> QED BY <1>2, <1>3, <1>4 DEF CallsFit

\* What a call under way knows.
LEMMA CallAt ==
  ASSUME Typed, NEW c \in Calls, NEW pc, Busy(c, pc)
  PROVE  calls[c] \in Call /\ CallFits(codes, calls[c]) /\ calls[c].pc = pc /\ calls[c] # Idle
BY DEF Typed, TypeOK, Busy, CallsFit

LEMMA GoesOn ==
  ASSUME Typed, NEW c \in Calls, NEW pc, NEW next, Busy(c, pc), pc # "prompt", Go(c, next),
         next \in {"exchange", "lookup", "write"},
         next \in {"lookup", "write"} =>
           \A code \in calls[c].code : code.for = <<calls[c].dance, calls[c].read>>,
         next = "write" => calls[c].dance \in Links
  PROVE  /\ calls' = [calls EXCEPT ![c] = [calls[c] EXCEPT !.pc = next]]
         /\ [calls[c] EXCEPT !.pc = next] \in Call
         /\ CallFits(codes, [calls[c] EXCEPT !.pc = next])
<1>1. calls[c] \in Call /\ CallFits(codes, calls[c]) /\ calls[c].pc = pc
  BY CallAt
<1>2. calls' = [calls EXCEPT ![c] = [calls[c] EXCEPT !.pc = next]]
  BY DEF Go
<1>3. [calls[c] EXCEPT !.pc = next] \in Call
  BY <1>1 DEF Call
<1>4. CallFits(codes, [calls[c] EXCEPT !.pc = next])
  BY <1>1, <1>3 DEF CallFits, Call
<1> QED BY <1>2, <1>3, <1>4

\* What the types say of a call that was given a code.
LEMMA CallGiven ==
  ASSUME SocialLoginAssumption, Typed, NEW c \in Calls, calls[c] # Idle, calls[c].pc # "prompt"
  PROVE  /\ calls[c].dance \in Dances /\ IdentityOf[calls[c].dance] \in Identities
         /\ NameOf[calls[c].dance] \in Names /\ calls[c].read \in 1..MaxPrompts
         /\ calls[c].read = calls[c].state
         /\ \E code \in codes : calls[c].code = {code} /\ code.sub \in Subs
<1>1. calls[c] \in Call /\ CallFits(codes, calls[c]) /\ codes \subseteq [for : Drawn, sub : Subs]
  BY DEF Typed, TypeOK, CallsFit
<1>2. calls[c].dance \in Dances
  BY <1>1 DEF Call
<1>3. \E code \in codes : calls[c].code = {code} /\ code.sub \in Subs
  BY <1>1 DEF CallFits
<1> QED BY <1>1, <1>2, <1>3 DEF CallFits, Identities, SocialLoginAssumption

\* The store puts a new authorization under the key of a dance.
LEMMA Stored ==
  ASSUME SocialLoginAssumption, Typed, NEW d \in Dances, issued[d] < MaxPrompts, Stores(d)
  PROVE  /\ kv' \in [Dances -> 0..MaxPrompts] /\ issued' \in [Dances -> 0..MaxPrompts]
         /\ kv'[d] = issued[d] + 1 /\ issued'[d] = issued[d] + 1
         /\ \A e \in Dances \ {d} : kv'[e] = kv[e] /\ issued'[e] = issued[e]
         /\ \A e \in Dances : kv'[e] \in 0..issued'[e]
         /\ Drawn \subseteq Drawn'
<1>1. /\ kv \in [Dances -> 0..MaxPrompts] /\ issued \in [Dances -> 0..MaxPrompts]
      /\ MaxPrompts \in Nat /\ \A e \in Dances : kv[e] \in 0..issued[e]
  BY DEF Typed, TypeOK, SocialLoginAssumption
<1>2. kv' = [kv EXCEPT ![d] = issued[d] + 1] /\ issued' = [issued EXCEPT ![d] = issued[d] + 1]
  BY DEF Stores
<1>3. issued[d] + 1 \in 0..MaxPrompts /\ issued[d] \in Nat
  BY <1>1
<1>4. kv' \in [Dances -> 0..MaxPrompts] /\ issued' \in [Dances -> 0..MaxPrompts]
  BY <1>1, <1>2, <1>3
<1>5. /\ kv'[d] = issued[d] + 1 /\ issued'[d] = issued[d] + 1
      /\ \A e \in Dances \ {d} : kv'[e] = kv[e] /\ issued'[e] = issued[e]
  BY <1>1, <1>2
<1>6. ASSUME NEW e \in Dances PROVE kv'[e] \in 0..issued'[e] /\ issued'[e] >= issued[e]
  BY <1>1, <1>3, <1>5
<1>7. ASSUME NEW a \in Drawn PROVE a \in Drawn'
  <2>1. a \in Authorizations /\ a[2] <= issued[a[1]] /\ a[1] \in Dances /\ a[2] \in 1..MaxPrompts
    BY DEF Drawn, Authorizations
  <2>2. a[2] <= issued'[a[1]]
    BY <1>1, <1>4, <1>6, <2>1
  <2> QED BY <2>1, <2>2 DEF Drawn
<1> QED BY <1>4, <1>5, <1>6, <1>7
-----------------------------------------------------------------------------
LEMMA TypedInit == ASSUME SocialLoginAssumption, Init PROVE Typed
<1>1. TypeOK
  BY DEF Init, TypeOK, SocialLoginAssumption
<1>2. CallsFit
  BY DEF Init, CallsFit
<1>3. kv \in [Dances -> 0..MaxPrompts] /\ issued \in [Dances -> 0..MaxPrompts]
  BY DEF Init, SocialLoginAssumption
<1> QED BY <1>1, <1>2, <1>3 DEF Typed

\* A step that draws nothing and changes one call.
LEMMA TypedStep ==
  ASSUME SocialLoginAssumption, Typed, NEW c \in Calls, NEW call, calls' = [calls EXCEPT ![c] = call],
         UNCHANGED <<issued, codes>>, call = Idle \/ (call \in Call /\ CallFits(codes, call)),
         kv' = kv \/ \E d \in Dances : kv' = [kv EXCEPT ![d] = 0],
         discovery' \in [Discovered -> {"none", "reading", "kept"}], spent' \subseteq codes,
         holders' \subseteq Identities \X Names \X Subs,
         signedIn' \subseteq Identities \X Dances \X (1..MaxPrompts) \X Subs, over' \subseteq Dances
  PROVE  Typed'
<1>1. calls' \in [Calls -> Call \cup {Idle}] /\ CallsFit'
  BY OneCall
<1>2. /\ kv \in [Dances -> 0..MaxPrompts] /\ issued \in [Dances -> 0..MaxPrompts]
      /\ MaxPrompts \in Nat /\ \A e \in Dances : kv[e] \in 0..issued[e]
  BY DEF Typed, TypeOK, SocialLoginAssumption
<1>3. kv' \in [Dances -> 0..MaxPrompts] /\ \A e \in Dances : kv'[e] = kv[e] \/ kv'[e] = 0
  BY <1>2
<1>4. \A e \in Dances : kv'[e] \in 0..issued'[e]
  BY <1>2, <1>3
<1>5. codes' \subseteq [for : Drawn', sub : Subs]
  BY DEF Typed, TypeOK, Drawn
<1> QED BY <1>1, <1>2, <1>3, <1>4, <1>5 DEF Typed, TypeOK

LEMMA BeginTyped ==
  ASSUME SocialLoginAssumption, Typed, NEW c \in Calls, NEW call \in Call, CallFits(codes, call), Begin(c, call),
         UNCHANGED <<kv, issued, codes, spent, holders, history>>
  PROVE  Typed'
<1>1. calls' = [calls EXCEPT ![c] = call]
  BY DEF Begin
<1>2. discovery' \in [Discovered -> {"none", "reading", "kept"}]
  BY DEF Begin, Typed, TypeOK
<1> QED BY <1>1, <1>2, TypedStep DEF Typed, TypeOK, history

LEMMA TypedInvariance ==
  ASSUME SocialLoginAssumption, Typed, [Next]_vars
  PROVE  Typed'
<1>0. /\ calls \in [Calls -> Call \cup {Idle}] /\ codes \subseteq [for : Drawn, sub : Subs]
      /\ spent \subseteq codes /\ discovery \in [Discovered -> {"none", "reading", "kept"}]
      /\ holders \subseteq Identities \X Names \X Subs /\ over \subseteq Dances
      /\ signedIn \subseteq Identities \X Dances \X (1..MaxPrompts) \X Subs
      /\ kv \in [Dances -> 0..MaxPrompts] /\ issued \in [Dances -> 0..MaxPrompts]
      /\ MaxPrompts \in Nat /\ \A d \in Dances : kv[d] \in 0..issued[d]
  BY DEF Typed, TypeOK, SocialLoginAssumption
<1>1. CASE UNCHANGED vars
  BY <1>1 DEF vars, history, Typed, TypeOK, CallsFit, Drawn
<1>2. ASSUME NEW name \in Discovered, Discover(name) \/ DiscoveryFails(name) PROVE Typed'
  <2>1. discovery' \in [Discovered -> {"none", "reading", "kept"}]
    BY <1>0, <1>2 DEF Discover, DiscoveryFails, Forgotten
  <2>2. /\ calls' \in [Calls -> Call \cup {Idle}]
        /\ \A c \in Calls : calls'[c] \in {Idle, calls[c]}
    BY <1>0, <1>2 DEF Discover, DiscoveryFails
  <2>3. UNCHANGED <<kv, issued, codes, spent, holders, signedIn, over>>
    BY <1>2 DEF Discover, DiscoveryFails, history
  <2>4. CallsFit'
    BY <2>2, <2>3 DEF Typed, CallsFit
  <2>5. TypeOK'
    BY <1>0, <2>1, <2>2, <2>3 DEF TypeOK, Drawn
  <2> QED BY <1>0, <2>3, <2>4, <2>5 DEF Typed
<1>3. ASSUME NEW d \in Dances, Lapse(d) PROVE Typed'
  <2>1. kv' = [kv EXCEPT ![d] = 0]
    BY <1>3 DEF Lapse
  <2>2. kv' \in [Dances -> 0..MaxPrompts] /\ \A e \in Dances : kv'[e] \in 0..issued[e]
    BY <1>0, <2>1
  <2> QED BY <1>0, <1>3, <2>2 DEF Lapse, Typed, TypeOK, CallsFit, Drawn
<1>4. ASSUME NEW a \in Authorizations, NEW sub \in Subs, Authorize(a, sub) PROVE Typed'
  <2>1. /\ a \in Drawn /\ codes' = codes \cup {[for |-> a, sub |-> sub]}
        /\ UNCHANGED <<kv, issued, discovery, spent, holders, calls, signedIn, over>>
    BY <1>4 DEF Authorize, history
  <2>2. codes' \subseteq [for : Drawn', sub : Subs]
    BY <1>0, <2>1 DEF Drawn
  <2>3. CallsFit'
    BY <2>1 DEF Typed, CallsFit, CallFits
  <2> QED BY <1>0, <2>1, <2>2, <2>3 DEF Typed, TypeOK
<1>5. ASSUME NEW c \in Calls, Draw(c) PROVE Typed'
  <2> DEFINE d == calls[c].dance
  <2>1. d \in Dances /\ issued[d] < MaxPrompts /\ Stores(d) /\ calls' = [calls EXCEPT ![c] = Idle]
    BY <1>5, CallAt DEF Draw, Call, Drop
  <2> HIDE DEF d
  <2>2. UNCHANGED <<discovery, codes, spent, holders, signedIn>> /\ over' \subseteq over
    BY <1>5 DEF Draw
  <2>3. calls' \in [Calls -> Call \cup {Idle}] /\ CallsFit'
    BY <2>1, <2>2, OneCall
  <2>4. codes' \subseteq [for : Drawn', sub : Subs]
    BY <1>0, <2>1, <2>2, Stored
  <2> QED BY <1>0, <2>1, <2>2, <2>3, <2>4, Stored DEF Typed, TypeOK
<1>6. ASSUME NEW c \in Calls, Unset(c) PROVE Typed'
  <2>1. /\ Busy(c, "endpoints") /\ calls[c].dance \in Dances /\ Go(c, "exchange")
        /\ kv' = [kv EXCEPT ![calls[c].dance] = 0]
        /\ UNCHANGED <<issued, discovery, codes, spent, holders, signedIn>>
    BY <1>6, CallAt, CallGiven DEF Unset
  <2>2. over' \subseteq Dances
    BY <1>0, <1>6, <2>1 DEF Unset
  <2> QED BY <1>0, <2>1, <2>2, GoesOn, TypedStep
<1>7. ASSUME NEW c \in Calls, Refused(c) PROVE Typed'
  <2>1. PICK code \in codes : calls[c].code = {code}
    BY <1>7, CallAt, CallGiven DEF Refused
  <2>2. spent' \subseteq codes /\ calls' = [calls EXCEPT ![c] = Idle]
    BY <1>0, <1>7, <2>1 DEF Refused, Drop
  <2> QED BY <1>0, <1>7, <2>2, TypedStep DEF Refused, history
<1>8. ASSUME NEW c \in Calls, Exchange(c) PROVE Typed'
  <2> DEFINE d == calls[c].dance
             n == calls[c].read
  <2>1. Busy(c, "exchange") /\ Go(c, "lookup") /\ UNCHANGED <<kv, issued, discovery, codes, holders, history>>
    BY <1>8 DEF Exchange
  <2>2. PICK code \in codes : calls[c].code = {code}
    BY <2>1, CallAt, CallGiven
  <2>3. Takes(code, d, n) /\ Verifies(code, d, n) /\ spent' = spent \cup {code}
    BY <1>8, <2>2 DEF Exchange
  <2>4. NameOf[d] \in Pkce \cup Oidc
    BY <2>1, CallAt, CallGiven DEF SocialLoginAssumption
  <2>5. code.for = <<d, n>>
    BY <2>3, <2>4 DEF Takes, Verifies
  <2>6. \A other \in calls[c].code : other.for = <<d, n>>
    BY <2>2, <2>5
  <2>7. \E call : calls' = [calls EXCEPT ![c] = call] /\ call \in Call /\ CallFits(codes, call)
    BY <2>1, <2>6, GoesOn
  <2> QED BY <1>0, <2>1, <2>2, <2>3, <2>7, TypedStep DEF history
<1>9. ASSUME NEW c \in Calls, Resolve(c) PROVE Typed'
  <2>1. PICK code \in codes : calls[c].code = {code} /\ code.sub \in Subs
    BY <1>9, CallAt, CallGiven DEF Resolve
  <2>2. calls[c].dance \in Dances /\ calls[c].read \in 1..MaxPrompts
    BY <1>9, CallAt, CallGiven DEF Resolve
  <2>3. signedIn' \subseteq Identities \X Dances \X (1..MaxPrompts) \X Subs
    <3>1. signedIn' = signedIn \/ \E i \in Holders(NameOf[calls[c].dance], code.sub) :
            signedIn' = signedIn \cup {<<i, calls[c].dance, calls[c].read, code.sub>>}
      BY <1>9, <2>1 DEF Resolve
    <3>2. Holders(NameOf[calls[c].dance], code.sub) \subseteq Identities
      BY DEF Holders
    <3> QED BY <1>0, <2>1, <2>2, <3>1, <3>2
  <2> QED BY <1>0, <1>9, <2>3, TypedStep DEF Resolve, Drop
<1>10. ASSUME NEW c \in Calls, Check(c) PROVE Typed'
  <2>1. /\ Busy(c, "lookup") /\ calls[c].dance \in Links /\ (Drop(c) \/ Go(c, "write"))
        /\ UNCHANGED <<kv, issued, discovery, codes, spent, holders, signedIn, over>>
    BY <1>10 DEF Check
  <2>2. \A code \in calls[c].code : code.for = <<calls[c].dance, calls[c].read>>
    BY <2>1, CallAt DEF CallFits
  <2>3. PICK call : calls' = [calls EXCEPT ![c] = call] /\ (call = Idle \/ (call \in Call /\ CallFits(codes, call)))
    BY <2>1, <2>2, GoesOn DEF Drop
  <2> QED BY <1>0, <2>1, <2>3, TypedStep
<1>11. ASSUME NEW c \in Calls, Write(c) PROVE Typed'
  <2>1. PICK code \in codes : calls[c].code = {code} /\ code.sub \in Subs
    BY <1>11, CallAt, CallGiven DEF Write
  <2>2. holders' \subseteq holders \cup {<<IdentityOf[calls[c].dance], NameOf[calls[c].dance], code.sub>>}
    BY <1>11, <2>1 DEF Write
  <2>3. IdentityOf[calls[c].dance] \in Identities /\ NameOf[calls[c].dance] \in Names
    BY <1>11, CallAt, CallGiven DEF Write
  <2>4. holders' \subseteq Identities \X Names \X Subs
    BY <1>0, <2>1, <2>2, <2>3
  <2> QED BY <1>0, <1>11, <2>4, TypedStep DEF Write, Drop
<1>12. ASSUME NEW c \in Calls, Stop(c) PROVE Typed'
  BY <1>0, <1>12, TypedStep DEF Stop, Drop, history
<1>13. ASSUME NEW c \in Calls, NEW d \in Dances, Prompt(c, d) PROVE Typed'
  <2> DEFINE call == [pc |-> "prompt", dance |-> d, state |-> 0, read |-> 0, code |-> {}]
  <2>1. call \in Call /\ CallFits(codes, call)
    BY <1>0 DEF Call, CallFits
  <2> HIDE DEF call
  <2> QED BY <1>13, <2>1, BeginTyped DEF Prompt, call
<1>14. ASSUME NEW c \in Calls, NEW d \in Dances, NEW n \in 1..MaxPrompts, NEW code \in codes, Submit(c, d, n, code)
       PROVE  Typed'
  <2> DEFINE call == [pc |-> "endpoints", dance |-> d, state |-> n, read |-> kv[d], code |-> {code}]
  <2>1. kv[d] = n /\ Begin(c, call) /\ UNCHANGED <<kv, issued, codes, spent, holders, history>>
    BY <1>14 DEF Submit, InProgress
  <2>2. code \in Code
    BY <1>0 DEF Code, Drawn
  <2>3. call \in Call /\ CallFits(codes, call)
    BY <1>0, <2>1, <2>2 DEF Call, CallFits
  <2> HIDE DEF call
  <2> QED BY <2>1, <2>3, BeginTyped
<1> QED BY <1>1, <1>2, <1>3, <1>4, <1>5, <1>6, <1>7, <1>8, <1>9, <1>10, <1>11, <1>12, <1>13, <1>14 DEF Next
-----------------------------------------------------------------------------
\* Codes are only added, so what was agreed stays so, and a holder or a sign-in comes with an
\* agreement to it.
LEMMA AgreedStays ==
  ASSUME Typed, HoldersAgreed, SignInsAreAgreed, codes \subseteq codes',
         \A h \in holders' : h \in holders \/ Agreed(h[1], h[2], h[3]),
         \A s \in signedIn' : \/ s \in signedIn
                             \/ /\ [for |-> <<s[2], s[3]>>, sub |-> s[4]] \in codes
                                /\ Agreed(s[1], NameOf[s[2]], s[4])
  PROVE  HoldersAgreed' /\ SignInsAreAgreed'
<1>1. ASSUME NEW i, NEW name, NEW sub, Agreed(i, name, sub) PROVE Agreed(i, name, sub)'
  BY <1>1 DEF Agreed
<1>2. HoldersAgreed'
  BY <1>1 DEF HoldersAgreed
<1>3. SignInsAreAgreed'
  BY <1>1 DEF SignInsAreAgreed
<1> QED BY <1>2, <1>3

LEMMA AgreedInvariance ==
  ASSUME SocialLoginAssumption, Typed, HoldersAgreed, SignInsAreAgreed, [Next]_vars
  PROVE  HoldersAgreed' /\ SignInsAreAgreed'
<1>1. CASE codes \subseteq codes' /\ UNCHANGED <<holders, signedIn>>
  BY <1>1, AgreedStays
<1>2. ASSUME NEW c \in Calls, Resolve(c) PROVE HoldersAgreed' /\ SignInsAreAgreed'
  <2> DEFINE d == calls[c].dance
             n == calls[c].read
  <2>1. PICK code \in codes : calls[c].code = {code}
    BY <1>2, CallAt, CallGiven DEF Resolve
  <2>2. code.for = <<d, n>>
    BY <1>2, <2>1, CallAt DEF Resolve, CallFits
  <2>3. code = [for |-> <<d, n>>, sub |-> code.sub]
    BY <2>1, <2>2 DEF Typed, TypeOK
  <2>4. UNCHANGED <<codes, holders>>
    BY <1>2 DEF Resolve
  <2>5. ASSUME NEW i \in Holders(NameOf[d], code.sub) PROVE Agreed(i, NameOf[d], code.sub)
    <3>1. <<i, NameOf[d], code.sub>> \in holders
      BY DEF Holders
    <3> QED BY <3>1 DEF HoldersAgreed
  <2>6. signedIn' = signedIn \/ \E i \in Holders(NameOf[d], code.sub) : signedIn' = signedIn \cup {<<i, d, n, code.sub>>}
    BY <1>2, <2>1 DEF Resolve
  <2> HIDE DEF d, n
  <2>7. \A s \in signedIn' : \/ s \in signedIn
                            \/ /\ [for |-> <<s[2], s[3]>>, sub |-> s[4]] \in codes
                               /\ Agreed(s[1], NameOf[s[2]], s[4])
    BY <2>1, <2>3, <2>5, <2>6
  <2> QED BY <2>4, <2>7, AgreedStays
<1>3. ASSUME NEW c \in Calls, Write(c) PROVE HoldersAgreed' /\ SignInsAreAgreed'
  <2> DEFINE d == calls[c].dance
             n == calls[c].read
  <2>1. PICK code \in codes : calls[c].code = {code}
    BY <1>3, CallAt, CallGiven DEF Write
  <2>2. code.for = <<d, n>> /\ d \in Links /\ n \in 1..MaxPrompts
    BY <1>3, <2>1, CallAt, CallGiven DEF Write, CallFits
  <2>3. code = [for |-> <<d, n>>, sub |-> code.sub]
    BY <2>1, <2>2 DEF Typed, TypeOK
  <2>4. UNCHANGED <<codes, signedIn>> /\ holders' \subseteq holders \cup {<<IdentityOf[d], NameOf[d], code.sub>>}
    BY <1>3, <2>1 DEF Write
  <2>5. Agreed(IdentityOf[d], NameOf[d], code.sub)
    BY <2>1, <2>2, <2>3 DEF Agreed
  <2> HIDE DEF d, n
  <2>6. \A h \in holders' : h \in holders \/ Agreed(h[1], h[2], h[3])
    BY <2>4, <2>5
  <2> QED BY <2>4, <2>6, AgreedStays
<1>4. ASSUME NEW c \in Calls, Draw(c) \/ Unset(c) \/ Refused(c) \/ Exchange(c) \/ Check(c) \/ Stop(c)
      PROVE  codes \subseteq codes' /\ UNCHANGED <<holders, signedIn>>
  BY <1>4 DEF Draw, Unset, Refused, Exchange, Check, Stop, history
<1>5. ASSUME NEW c \in Calls, NEW d \in Dances,
             Prompt(c, d) \/ \E n \in 1..MaxPrompts, code \in codes : Submit(c, d, n, code)
      PROVE  codes \subseteq codes' /\ UNCHANGED <<holders, signedIn>>
  BY <1>5 DEF Prompt, Submit, history
<1>6. ASSUME \/ UNCHANGED vars \/ \E name \in Discovered : Discover(name) \/ DiscoveryFails(name)
             \/ \E d \in Dances : Lapse(d)
             \/ \E a \in Authorizations, sub \in Subs : Authorize(a, sub)
      PROVE  codes \subseteq codes' /\ UNCHANGED <<holders, signedIn>>
  BY <1>6 DEF vars, history, Discover, DiscoveryFails, Lapse, Authorize
<1> QED BY <1>1, <1>2, <1>3, <1>4, <1>5, <1>6 DEF Next
-----------------------------------------------------------------------------
\* The last authorization of a dance goes with an answer, its time or an older one.
LEMMA AuthorizationStays ==
  ASSUME SocialLoginAssumption, Typed, StandsForItsAnswer, [Next]_vars
  PROVE  StandsForItsAnswer'
<1>0. /\ kv \in [Dances -> 0..MaxPrompts] /\ issued \in [Dances -> 0..MaxPrompts]
  BY DEF Typed
<1>1. CASE UNCHANGED <<kv, issued, over>>
  BY <1>1 DEF StandsForItsAnswer
<1>2. ASSUME NEW d \in Dances, Lapse(d) PROVE StandsForItsAnswer'
  BY <1>0, <1>2 DEF Lapse, StandsForItsAnswer
<1>3. ASSUME NEW c \in Calls, Draw(c) PROVE StandsForItsAnswer'
  <2>1. calls[c].dance \in Dances
    BY <1>3, CallAt DEF Draw, Call
  <2> QED BY <1>3, <2>1, Stored DEF Draw, StandsForItsAnswer
<1>4. ASSUME NEW c \in Calls, Unset(c) PROVE StandsForItsAnswer'
  <2>1. calls[c].dance \in Dances /\ calls[c].read = calls[c].state
    BY <1>4, CallAt, CallGiven DEF Unset
  <2>2. /\ kv' = [kv EXCEPT ![calls[c].dance] = 0] /\ UNCHANGED issued
        /\ over' = IF kv[calls[c].dance] # 0 THEN over \cup {calls[c].dance} ELSE over
    BY <1>4, <2>1 DEF Unset
  <2> QED BY <1>0, <2>1, <2>2 DEF StandsForItsAnswer
<1>5. ASSUME NEW c \in Calls, Refused(c) \/ Exchange(c) \/ Resolve(c) \/ Check(c) \/ Write(c) \/ Stop(c)
      PROVE  UNCHANGED <<kv, issued, over>>
  BY <1>5 DEF Refused, Exchange, Resolve, Check, Write, Stop, history
<1>6. ASSUME NEW c \in Calls, NEW d \in Dances,
             Prompt(c, d) \/ \E n \in 1..MaxPrompts, code \in codes : Submit(c, d, n, code)
      PROVE  UNCHANGED <<kv, issued, over>>
  BY <1>6 DEF Prompt, Submit, history
<1>7. ASSUME \/ UNCHANGED vars \/ \E name \in Discovered : Discover(name) \/ DiscoveryFails(name)
             \/ \E a \in Authorizations, sub \in Subs : Authorize(a, sub)
      PROVE  UNCHANGED <<kv, issued, over>>
  BY <1>7 DEF vars, history, Discover, DiscoveryFails, Authorize
<1> QED BY <1>1, <1>2, <1>3, <1>4, <1>5, <1>6, <1>7 DEF Next
-----------------------------------------------------------------------------
\* A call that waits for a document that is being read waits for the read.
LEMMA OutageStays ==
  ASSUME SocialLoginAssumption, Typed, OutageIsNotKept, [Next]_vars
  PROVE  OutageIsNotKept'
<1>0. /\ calls \in [Calls -> Call \cup {Idle}] /\ discovery \in [Discovered -> {"none", "reading", "kept"}]
      /\ Idle \notin Call
  BY DEF Typed, TypeOK, SocialLoginAssumption
<1>1. ASSUME NEW c \in Calls, UNCHANGED discovery, \A e \in Calls \ {c} : calls'[e] = calls[e],
             \/ calls[c] = Idle \/ calls[c].pc \notin {"prompt", "endpoints"}
             \/ Ready(c) \/ calls'[c] = calls[c]
      PROVE  OutageIsNotKept'
  <2>1. ASSUME NEW name \in Discovered, discovery[name] = "reading" PROVE \E e \in Calls : Waits(e, name)'
    <3>1. PICK e \in Calls : Waits(e, name)
      BY <2>1 DEF OutageIsNotKept
    <3>2. calls'[e] = calls[e]
      BY <1>1, <2>1, <3>1 DEF Waits, Ready
    <3> QED BY <3>1, <3>2 DEF Waits
  <2> QED BY <1>1, <2>1 DEF OutageIsNotKept
<1>2. ASSUME NEW c \in Calls, NEW call, Begin(c, call), call # Idle, call.pc \in {"prompt", "endpoints"}
      PROVE  OutageIsNotKept'
  <2>1. calls[c] = Idle /\ calls'[c] = call /\ \A e \in Calls \ {c} : calls'[e] = calls[e]
    BY <1>0, <1>2 DEF Begin
  <2>2. ASSUME NEW name \in Discovered, discovery'[name] = "reading" PROVE \E e \in Calls : Waits(e, name)'
    <3>1. CASE discovery[name] = "reading"
      <4>1. PICK e \in Calls : Waits(e, name)
        BY <3>1 DEF OutageIsNotKept
      <4>2. calls'[e] = calls[e]
        BY <2>1, <4>1 DEF Waits
      <4> QED BY <4>1, <4>2 DEF Waits
    <3>2. CASE discovery[name] # "reading"
      <4>1. name = NameOf[call.dance]
        BY <1>0, <1>2, <2>2, <3>2 DEF Begin
      <4> QED BY <1>2, <2>1, <4>1 DEF Waits
    <3> QED BY <3>1, <3>2
  <2> QED BY <2>2 DEF OutageIsNotKept
<1>3. ASSUME NEW name \in Discovered, Discover(name) PROVE OutageIsNotKept'
  BY <1>0, <1>3 DEF Discover, OutageIsNotKept, Waits
<1>4. ASSUME NEW name \in Discovered, DiscoveryFails(name) PROVE OutageIsNotKept'
  <2>1. /\ discovery' = [discovery EXCEPT ![name] = "none"]
        /\ calls' = [c \in Calls |-> IF Waits(c, name) THEN Idle ELSE calls[c]]
    BY <1>4 DEF DiscoveryFails, Forgotten
  <2>2. ASSUME NEW other \in Discovered, discovery'[other] = "reading" PROVE \E e \in Calls : Waits(e, other)'
    <3>1. discovery[other] = "reading" /\ other # name
      BY <1>0, <2>1, <2>2
    <3>2. PICK e \in Calls : Waits(e, other)
      BY <3>1 DEF OutageIsNotKept
    <3>3. ~Waits(e, name)
      BY <3>1, <3>2 DEF Waits
    <3>4. calls'[e] = calls[e]
      BY <2>1, <3>3
    <3> QED BY <3>2, <3>4 DEF Waits
  <2> QED BY <2>2 DEF OutageIsNotKept
<1>5. CASE UNCHANGED <<calls, discovery>>
  BY <1>5 DEF OutageIsNotKept, Waits
<1>6. ASSUME NEW d \in Dances, Lapse(d) PROVE UNCHANGED <<calls, discovery>>
  BY <1>6 DEF Lapse
<1>7. ASSUME NEW a \in Authorizations, NEW sub \in Subs, Authorize(a, sub) PROVE UNCHANGED <<calls, discovery>>
  BY <1>7 DEF Authorize
<1>8. ASSUME NEW c \in Calls, Draw(c) \/ Unset(c) PROVE OutageIsNotKept'
  <2>1. Ready(c) /\ UNCHANGED discovery /\ \A e \in Calls \ {c} : calls'[e] = calls[e]
    BY <1>0, <1>8 DEF Draw, Unset, Drop, Go
  <2> QED BY <1>1, <2>1
<1>9. ASSUME NEW c \in Calls, Refused(c) \/ Exchange(c) \/ Resolve(c) \/ Check(c) \/ Write(c) \/ Stop(c)
      PROVE  OutageIsNotKept'
  <2>1. calls[c].pc \notin {"prompt", "endpoints"} /\ UNCHANGED discovery
    BY <1>9 DEF Refused, Exchange, Resolve, Check, Write, Stop, Busy
  <2>2. calls' = [calls EXCEPT ![c] = Idle] \/ \E pc : calls' = [calls EXCEPT ![c] = [calls[c] EXCEPT !.pc = pc]]
    <3>1. ASSUME Check(c) PROVE Drop(c) \/ Go(c, "write")
      BY <3>1 DEF Check
    <3> QED BY <1>9, <3>1 DEF Refused, Exchange, Resolve, Write, Stop, Drop, Go
  <2>3. \A e \in Calls \ {c} : calls'[e] = calls[e]
    BY <1>0, <2>2
  <2> QED BY <1>1, <2>1, <2>3
<1>10. ASSUME NEW c \in Calls, NEW d \in Dances, Prompt(c, d) PROVE OutageIsNotKept'
  <2> DEFINE call == [pc |-> "prompt", dance |-> d, state |-> 0, read |-> 0, code |-> {}]
  <2>1. call \in Call /\ call.pc = "prompt" /\ Begin(c, call)
    BY <1>10 DEF Prompt, Call, SocialLoginAssumption
  <2> HIDE DEF call
  <2> QED BY <1>0, <1>2, <2>1
<1>11. ASSUME NEW c \in Calls, NEW d \in Dances, NEW n \in 1..MaxPrompts, NEW code \in codes, Submit(c, d, n, code)
       PROVE  OutageIsNotKept'
  <2> DEFINE call == [pc |-> "endpoints", dance |-> d, state |-> n, read |-> kv[d], code |-> {code}]
  <2>1. code \in Code
    BY DEF Typed, TypeOK, Code, Drawn
  <2>2. call \in Call /\ call.pc = "endpoints" /\ Begin(c, call)
    BY <1>11, <2>1 DEF Submit, Call, Typed, SocialLoginAssumption
  <2> HIDE DEF call
  <2> QED BY <1>0, <1>2, <2>2
<1> QED BY <1>3, <1>4, <1>5, <1>6, <1>7, <1>8, <1>9, <1>10, <1>11 DEF Next, vars
-----------------------------------------------------------------------------
\* A step that links no account and after which no other call is to write one.
LEMMA OwnersKeep ==
  ASSUME WritesFit, AccountsHaveOneOwner, holders' \subseteq holders, raced \subseteq raced',
         \A c \in Calls, i \in Identities, name \in Names, sub \in Subs :
           Writes(c, i, name, sub)' => Writes(c, i, name, sub)
  PROVE  WritesFit' /\ AccountsHaveOneOwner'
<1>1. WritesFit'
  BY DEF WritesFit
<1>2. AccountsHaveOneOwner'
  BY DEF AccountsHaveOneOwner, Holders
<1> QED BY <1>1, <1>2

LEMMA CheckOwners ==
  ASSUME SocialLoginAssumption, Typed, WritesFit, AccountsHaveOneOwner, NEW c \in Calls, Check(c)
  PROVE  WritesFit' /\ AccountsHaveOneOwner'
<1> DEFINE d == calls[c].dance
           mine == IdentityOf[d]
           its == NameOf[d]
<1>0. calls \in [Calls -> Call \cup {Idle}]
  BY DEF Typed, TypeOK
<1>1. PICK code \in codes : calls[c].code = {code} /\ code.sub \in Subs
  BY CallAt, CallGiven DEF Check
<1>2. CASE Drop(c)
  <2>1. holders' = holders /\ raced \subseteq raced' /\ calls' = [calls EXCEPT ![c] = Idle]
    BY <1>2 DEF Check, Drop
  <2>2. \A e \in Calls : \A i, name, sub : Writes(e, i, name, sub)' => Writes(e, i, name, sub)
    BY <1>0, <2>1 DEF Writes, Busy
  <2> QED BY <2>1, <2>2, OwnersKeep
<1>3. CASE ~Taken(mine, its, code.sub) /\ Go(c, "write")
  <2>1. /\ UNCHANGED holders
        /\ raced \subseteq raced'
        /\ \A e \in Calls : Busy(e, "write") /\ IdentityOf[calls[e].dance] # mine /\ NameOf[calls[e].dance] = its
                            /\ (\E other \in calls[e].code : other.sub = code.sub)
                            => <<its, code.sub>> \in raced'
    BY <1>1, <1>3 DEF Check
  <2>2. calls[c] \in Call /\ calls' = [calls EXCEPT ![c] = [calls[c] EXCEPT !.pc = "write"]]
    BY <1>3, CallAt DEF Go, Check
  <2>3. /\ calls'[c].dance = d /\ calls'[c].code = {code}
        /\ \A e \in Calls \ {c} : calls'[e] = calls[e]
    BY <1>0, <1>1, <2>2 DEF Call
  <2>4. \A e \in Calls \ {c} : \A i, name, sub : Writes(e, i, name, sub)' <=> Writes(e, i, name, sub)
    BY <2>3 DEF Writes, Busy
  <2>5. \A i, name, sub : Writes(c, i, name, sub)' => i = mine /\ name = its /\ sub = code.sub
    BY <2>3 DEF Writes
  <2>6. \A j \in Identities : j # mine => <<j, its, code.sub>> \notin holders
    BY <1>3 DEF Taken, Holders
  <2>7. \A e \in Calls : \A j : Writes(e, j, its, code.sub) /\ j # mine => <<its, code.sub>> \in raced'
    BY <2>1 DEF Writes
  <2> HIDE DEF d, mine, its
  <2>8. ASSUME NEW e \in Calls, NEW i \in Identities, NEW j \in Identities, NEW name \in Names, NEW sub \in Subs,
               Writes(e, i, name, sub)', i # j, <<name, sub>> \notin raced'
        PROVE  <<j, name, sub>> \notin holders /\ \A f \in Calls : ~Writes(f, j, name, sub)'
    <3>1. CASE e = c
      BY <2>4, <2>5, <2>6, <2>7, <2>8, <3>1
    <3>2. CASE e # c
      <4>1. Writes(e, i, name, sub) /\ <<name, sub>> \notin raced
        BY <2>1, <2>4, <2>8, <3>2
      <4>2. <<j, name, sub>> \notin holders /\ \A f \in Calls : ~Writes(f, j, name, sub)
        BY <2>8, <4>1 DEF WritesFit
      <4>3. ~Writes(c, j, name, sub)'
        BY <2>5, <2>7, <2>8, <4>1
      <4> QED BY <2>4, <4>2, <4>3
    <3> QED BY <3>1, <3>2
  <2>9. WritesFit'
    BY <2>1, <2>8 DEF WritesFit
  <2> QED BY <2>1, <2>9 DEF AccountsHaveOneOwner, Holders
<1> QED BY <1>1, <1>2, <1>3 DEF Check

LEMMA WriteOwners ==
  ASSUME SocialLoginAssumption, Typed, WritesFit, AccountsHaveOneOwner, NEW c \in Calls, Write(c)
  PROVE  WritesFit' /\ AccountsHaveOneOwner'
<1> DEFINE mine == IdentityOf[calls[c].dance]
           its == NameOf[calls[c].dance]
<1>0. calls \in [Calls -> Call \cup {Idle}]
  BY DEF Typed, TypeOK
<1>1. PICK code \in codes : calls[c].code = {code} /\ code.sub \in Subs
  BY CallAt, CallGiven DEF Write
<1>2. mine \in Identities /\ its \in Names
  BY CallAt, CallGiven DEF Write
<1>3. /\ holders' \subseteq holders \cup {<<mine, its, code.sub>>} /\ UNCHANGED raced
      /\ calls' = [calls EXCEPT ![c] = Idle]
  BY <1>1 DEF Write, Drop
<1>4. Writes(c, mine, its, code.sub)
  BY <1>1 DEF Writes, Write
<1> HIDE DEF mine, its
<1>5. \A e \in Calls : \A i, name, sub : Writes(e, i, name, sub)' => Writes(e, i, name, sub)
  BY <1>0, <1>3 DEF Writes, Busy
<1>6. ASSUME <<its, code.sub>> \notin raced, NEW j \in Identities, j # mine
      PROVE  <<j, its, code.sub>> \notin holders /\ \A e \in Calls : ~Writes(e, j, its, code.sub)
  BY <1>1, <1>2, <1>4, <1>6 DEF WritesFit
<1>7. ASSUME NEW e \in Calls, NEW i \in Identities, NEW j \in Identities, NEW name \in Names, NEW sub \in Subs,
             Writes(e, i, name, sub)', i # j, <<name, sub>> \notin raced
      PROVE  <<j, name, sub>> \notin holders' /\ \A f \in Calls : ~Writes(f, j, name, sub)'
  <2>1. Writes(e, i, name, sub)
    BY <1>5, <1>7
  <2>2. <<j, name, sub>> \notin holders /\ \A f \in Calls : ~Writes(f, j, name, sub)
    BY <1>7, <2>1 DEF WritesFit
  <2>3. <<j, name, sub>> # <<mine, its, code.sub>>
    BY <1>4, <2>2
  <2> QED BY <1>3, <1>5, <2>2, <2>3
<1>8. ASSUME NEW name \in Names, NEW sub \in Subs, <<name, sub>> \notin raced,
             NEW i \in Identities, NEW j \in Identities, <<i, name, sub>> \in holders', <<j, name, sub>> \in holders'
      PROVE  i = j
  <2>1. CASE name = its /\ sub = code.sub
    BY <1>3, <1>6, <1>8, <2>1 DEF AccountsHaveOneOwner, Holders
  <2>2. CASE ~(name = its /\ sub = code.sub)
    BY <1>3, <1>8, <2>2 DEF AccountsHaveOneOwner, Holders
  <2> QED BY <2>1, <2>2
<1>9. WritesFit'
  BY <1>3, <1>7 DEF WritesFit
<1>10. AccountsHaveOneOwner'
  BY <1>3, <1>8 DEF AccountsHaveOneOwner, Holders
<1> QED BY <1>9, <1>10

LEMMA OwnersInvariance ==
  ASSUME SocialLoginAssumption, Typed, WritesFit, AccountsHaveOneOwner, [Next]_vars
  PROVE  WritesFit' /\ AccountsHaveOneOwner'
<1>0. calls \in [Calls -> Call \cup {Idle}] /\ Idle \notin Call
  BY DEF Typed, TypeOK, SocialLoginAssumption
<1>1. ASSUME UNCHANGED <<holders, raced>>,
             \A c \in Calls : calls'[c] \in {calls[c], Idle} \/ calls'[c].pc # "write"
      PROVE  WritesFit' /\ AccountsHaveOneOwner'
  <2>1. \A c \in Calls : \A i, name, sub : Writes(c, i, name, sub)' => Writes(c, i, name, sub)
    BY <1>1 DEF Writes, Busy
  <2> QED BY <1>1, <2>1, OwnersKeep
<1>2. CASE UNCHANGED <<calls, holders, raced>>
  BY <1>1, <1>2
<1>3. ASSUME \/ UNCHANGED vars \/ \E name \in Discovered : Discover(name)
             \/ \E d \in Dances : Lapse(d)
             \/ \E a \in Authorizations, sub \in Subs : Authorize(a, sub)
      PROVE  UNCHANGED <<calls, holders, raced>>
  BY <1>3 DEF vars, history, Discover, Lapse, Authorize
<1>4. ASSUME NEW name \in Discovered, DiscoveryFails(name) PROVE WritesFit' /\ AccountsHaveOneOwner'
  BY <1>1, <1>4 DEF DiscoveryFails, history
<1>5. ASSUME NEW c \in Calls, Draw(c) \/ Refused(c) \/ Resolve(c) \/ Stop(c) PROVE WritesFit' /\ AccountsHaveOneOwner'
  <2>1. calls' = [calls EXCEPT ![c] = Idle] /\ UNCHANGED <<holders, raced>>
    BY <1>5 DEF Draw, Refused, Resolve, Stop, Drop, history
  <2> QED BY <1>0, <1>1, <2>1
<1>6. ASSUME NEW c \in Calls, Unset(c) \/ Exchange(c) PROVE WritesFit' /\ AccountsHaveOneOwner'
  <2>1. calls[c] \in Call /\ UNCHANGED <<holders, raced>> /\ (Go(c, "exchange") \/ Go(c, "lookup"))
    BY <1>6, CallAt DEF Unset, Exchange, history
  <2>2. /\ [calls[c] EXCEPT !.pc = "exchange"].pc # "write"
        /\ [calls[c] EXCEPT !.pc = "lookup"].pc # "write"
    BY <2>1 DEF Call
  <2>3. calls' = [calls EXCEPT ![c] = [calls[c] EXCEPT !.pc = "exchange"]] \/ calls' = [calls EXCEPT ![c] = [calls[c] EXCEPT !.pc = "lookup"]]
    BY <2>1 DEF Go
  <2>4. \A e \in Calls : calls'[e] = calls[e] \/ calls'[e].pc # "write"
    BY <1>0, <2>2, <2>3
  <2> QED BY <1>1, <2>1, <2>4
<1>7. ASSUME NEW c \in Calls, Check(c) PROVE WritesFit' /\ AccountsHaveOneOwner'
  BY <1>7, CheckOwners
<1>8. ASSUME NEW c \in Calls, Write(c) PROVE WritesFit' /\ AccountsHaveOneOwner'
  BY <1>8, WriteOwners
<1>9. ASSUME NEW c \in Calls, NEW d \in Dances, Prompt(c, d) PROVE WritesFit' /\ AccountsHaveOneOwner'
  <2>1. [pc |-> "prompt", dance |-> d, state |-> 0, read |-> 0, code |-> {}].pc # "write"
    OBVIOUS
  <2> QED BY <1>0, <1>1, <1>9, <2>1 DEF Prompt, Begin, history
<1>10. ASSUME NEW c \in Calls, NEW d \in Dances, NEW n, NEW code, Submit(c, d, n, code)
       PROVE  WritesFit' /\ AccountsHaveOneOwner'
  <2>1. [pc |-> "endpoints", dance |-> d, state |-> n, read |-> kv[d], code |-> {code}].pc # "write"
    OBVIOUS
  <2> QED BY <1>0, <1>1, <1>10, <2>1 DEF Submit, Begin, history
<1> QED BY <1>2, <1>3, <1>4, <1>5, <1>6, <1>7, <1>8, <1>9, <1>10 DEF Next
-----------------------------------------------------------------------------
LEMMA InitInv == ASSUME SocialLoginAssumption, Init PROVE IInv
<1>1. Typed
  BY TypedInit
<1>2. HoldersAgreed
  BY DEF Init, HoldersAgreed, Agreed, SocialLoginAssumption
<1>3. SignInsAreAgreed /\ StandsForItsAnswer /\ OutageIsNotKept /\ WritesFit
  BY DEF Init, SignInsAreAgreed, StandsForItsAnswer, OutageIsNotKept, WritesFit, Writes, Busy
<1>4. AccountsHaveOneOwner
  BY DEF Init, AccountsHaveOneOwner, Holders, SocialLoginAssumption
<1> QED BY <1>1, <1>2, <1>3, <1>4 DEF IInv

LEMMA Invariance == ASSUME SocialLoginAssumption, IInv, [Next]_vars PROVE IInv'
BY TypedInvariance, AgreedInvariance, AuthorizationStays, OutageStays, OwnersInvariance DEF IInv

\* Who signs in with an account is its owner: for any providers, dances and mix-up of their
\* codes and states, a sign-in rests on the agreement of the owner to this authorization and to
\* the link before (components/oauth2.ts #exchange, oidc.ts verifyToken); an authorization
\* without an answer stands, an outage of a provider is not kept, and an account has one
\* owner unless two asked for it at once.
THEOREM AccountsAreOwned == SocialLoginAssumption => (Spec => []AccountsAreTheOwners)
<1> SUFFICES ASSUME SocialLoginAssumption PROVE Spec => []AccountsAreTheOwners
  OBVIOUS
<1>1. Init => IInv
  BY InitInv
<1>2. IInv /\ [Next]_vars => IInv'
  BY Invariance
<1>3. IInv => AccountsAreTheOwners
  BY DEF IInv, Typed, AccountsAreTheOwners
<1> QED BY <1>1, <1>2, <1>3, PTL DEF Spec
-----------------------------------------------------------------------------
(***************************************************************************)
(* The limits (RequestLimits), for any routes, callers and requests, any   *)
(* limit and any window.  The argument counts back from now: the first hit *)
(* of the window is as old as the window, so at most one less than the     *)
(* limit of those before it is younger than a window; and each piece of    *)
(* work follows its own hit, in the order of the hits but for the requests *)
(* that were let in and have not begun.                                    *)
(***************************************************************************)

\* The hits that the window under way allowed.
Used(b) == IF b.left < 0 THEN 0 ELSE IF b.count < Limit THEN b.count ELSE Limit

\* The requests that were let in and have not begun their work.
Doing == {r \in Requests : R!At(r, "do") /\ Head(requests[r]).key = watched}

Slots == 1..(2 * Limit)

Sorted(ages) == \A j, k \in Slots : j <= k => ages[j] <= ages[k]

Step == [kind : {"hit", "do"}, key : R!Keys]

\* In a request, work comes right after the hit of its bucket.
WayFits(way) ==
  /\ way \in Seq(Step)
  /\ \A j \in 1..Len(way) : j > 1 /\ way[j].kind = "do" => way[j - 1] = [way[j] EXCEPT !.kind = "hit"]

RequestsFit ==
  /\ requests = [r \in Requests |-> requests[r]]
  /\ \A r \in Requests : requests[r] # Quiet => WayFits(requests[r])

\* The first hit of the window began it, and the hits before fill a window of their own.
WindowFits(b, hits) ==
  /\ b.left >= 0 => b.count >= 1 /\ hits[Used(b)] = Window - b.left
  /\ hits[Used(b) + Limit] >= Window

\* Each piece of work has an allowed hit that is no older, apart from the hits of those
\* that have not begun, p of them.
Follows(p, hits, work) ==
  /\ \A k \in Slots : k <= p => hits[k] = 0
  /\ \A i, k \in Slots : k = i + p => hits[k] <= work[i]

WorkFollowsHits == Follows(Cardinality(Doing), allowed, worked)

LimitsInv ==
  /\ limiter \in R!Limiters /\ watched \in R!Keys /\ bucket \in R!Bucket
  /\ allowed \in R!Ages /\ worked \in R!Ages /\ Sorted(allowed) /\ Sorted(worked)
  /\ RequestsFit /\ WindowFits(bucket, allowed) /\ WorkFollowsHits
  /\ ~spurious
-----------------------------------------------------------------------------
LEMMA LimitsAreNumbers == Limit \in Nat \ {0} /\ Window \in Nat \ {0} /\ IsFiniteSet(Requests)
<1>1. Limit \in Nat \ {0} /\ Window \in Nat \ {0}
  BY LimitsFit DEF R!LimitsAssumption
<1>2. IsFiniteSet(Requests)
  BY LimitsFit DEF R!LimitsAssumption, R!IsFiniteSet, IsFiniteSet
<1> QED BY <1>1, <1>2

\* A way that begins with a hit.
IsAWay(way) == WayFits(way) /\ (way # <<>> => way[1].kind = "hit")

LEMMA StepsOfABucket ==
  ASSUME NEW name, NEW subject, <<name, subject>> \in R!Keys
  PROVE  /\ R!Hit(name, subject) \in Step /\ R!Hit(name, subject).kind = "hit"
         /\ R!Do(name, subject) \in Step /\ R!Do(name, subject).kind = "do"
         /\ R!Hit(name, subject) = [R!Do(name, subject) EXCEPT !.kind = "hit"]
BY DEF R!Hit, R!Do, Step

LEMMA HitIsAWay ==
  ASSUME NEW hit \in Step, hit.kind = "hit"
  PROVE  IsAWay(<<hit>>)
BY DEF IsAWay, WayFits

LEMMA HitAndWorkIsAWay ==
  ASSUME NEW hit \in Step, hit.kind = "hit", NEW work \in Step, hit = [work EXCEPT !.kind = "hit"]
  PROVE  IsAWay(<<hit, work>>) /\ IsAWay(<<hit>> \o <<work>>)
<1>1. ASSUME NEW way \in Seq(Step), Len(way) = 2, way[1] = hit, way[2] = work
      PROVE  IsAWay(way)
  <2>1. ASSUME NEW j \in 1..Len(way), j > 1, way[j].kind = "do" PROVE way[j - 1] = [way[j] EXCEPT !.kind = "hit"]
    <3>1. j = 2 /\ j - 1 = 1
      BY <1>1, <2>1
    <3> QED BY <1>1, <3>1
  <2> QED BY <1>1, <2>1 DEF IsAWay, WayFits
<1>2. <<hit, work>> \in Seq(Step) /\ Len(<<hit, work>>) = 2 /\ <<hit, work>>[1] = hit /\ <<hit, work>>[2] = work
  OBVIOUS
<1>3. /\ <<hit>> \o <<work>> \in Seq(Step) /\ Len(<<hit>> \o <<work>>) = 2
      /\ (<<hit>> \o <<work>>)[1] = hit /\ (<<hit>> \o <<work>>)[2] = work
  OBVIOUS
<1> QED BY <1>1, <1>2, <1>3

\* One way and then another.
LEMMA WaysChain ==
  ASSUME NEW a, IsAWay(a), NEW b, IsAWay(b)
  PROVE  IsAWay(a \o b)
<1> DEFINE way == a \o b
<1>1. /\ a \in Seq(Step) /\ b \in Seq(Step) /\ Len(a) \in Nat /\ Len(b) \in Nat
      /\ way \in Seq(Step) /\ Len(way) = Len(a) + Len(b)
      /\ \A j \in 1..Len(a) : way[j] = a[j]
      /\ \A j \in 1..Len(way) : j > Len(a) => way[j] = b[j - Len(a)]
  BY DEF IsAWay, WayFits
<1> HIDE DEF way
<1>2. ASSUME NEW j \in 1..Len(way), j > 1, way[j].kind = "do" PROVE way[j - 1] = [way[j] EXCEPT !.kind = "hit"]
  <2>1. CASE j <= Len(a)
    <3>1. j \in 1..Len(a) /\ j - 1 \in 1..Len(a)
      BY <1>1, <1>2, <2>1
    <3> QED BY <1>1, <1>2, <3>1 DEF IsAWay, WayFits
  <2>2. CASE j = Len(a) + 1
    <3>1. way[j] = b[1] /\ b # <<>>
      <4>1. j - Len(a) = 1 /\ Len(b) >= 1
        BY <1>1, <2>2
      <4> QED BY <1>1, <1>2, <2>2, <4>1
    <3> QED BY <1>2, <3>1 DEF IsAWay
  <2>3. CASE j > Len(a) + 1
    <3>1. /\ j - Len(a) \in 1..Len(b) /\ j - Len(a) > 1 /\ j - 1 \in 1..Len(way)
          /\ (j - 1) - Len(a) = (j - Len(a)) - 1
      BY <1>1, <2>3
    <3>2. way[j] = b[j - Len(a)] /\ way[j - 1] = b[(j - Len(a)) - 1]
      BY <1>1, <2>3, <3>1
    <3> QED BY <1>2, <3>1, <3>2 DEF IsAWay, WayFits
  <2> QED BY <1>1, <2>1, <2>2, <2>3
<1>3. way # <<>> => way[1].kind = "hit"
  <2>1. CASE a = <<>>
    <3>1. Len(a) = 0 /\ (way # <<>> => Len(way) >= 1 /\ b # <<>>)
      BY <1>1, <2>1
    <3> QED BY <1>1, <3>1 DEF IsAWay
  <2>2. CASE a # <<>>
    <3>1. 1 \in 1..Len(a)
      BY <1>1, <2>2
    <3> QED BY <1>1, <2>2, <3>1 DEF IsAWay
  <2> QED BY <2>1, <2>2
<1>4. IsAWay(way)
  BY <1>1, <1>2, <1>3 DEF IsAWay, WayFits
<1> QED BY <1>4 DEF way

\* A hit and its work after a way, one by one.
LEMMA WorkChains ==
  ASSUME NEW a, IsAWay(a), NEW hit \in Step, hit.kind = "hit", NEW work \in Step, hit = [work EXCEPT !.kind = "hit"]
  PROVE  IsAWay((a \o <<hit>>) \o <<work>>)
<1>1. a \in Seq(Step)
  BY DEF IsAWay, WayFits
<1>2. (a \o <<hit>>) \o <<work>> = a \o (<<hit>> \o <<work>>)
  BY <1>1, ConcatAssociative
<1> QED BY <1>2, HitAndWorkIsAWay, WaysChain
-----------------------------------------------------------------------------
\* Every route is a way: nothing is worked before a hit of its bucket was counted.
LEMMA RoutesAreWays ==
  ASSUME NEW route \in R!Routes, NEW caller \in R!Caller
  PROVE  IsAWay(R!Way(route, caller))
<1> DEFINE address == R!AddressOf(caller)
           door    == R!Door(caller)
           oauth2  == R!Oauth2Door(caller)
<1>1. ASSUME NEW name \in R!AddressBuckets PROVE <<name, address>> \in R!Keys
  <2>1. address \in Addresses \cup {"unknown"}
    BY DEF R!AddressOf, R!Caller
  <2> HIDE DEF address
  <2> QED BY <2>1 DEF R!Keys
<1>2. ASSUME NEW name \in {"manage", "refresh", "verify", "send"}, caller.subject # Nobody
      PROVE  <<name, caller.subject>> \in R!Keys
  <2>1. caller.subject \in Sessions \cup Owners
    BY <1>2 DEF R!Caller
  <2> QED BY <2>1 DEF R!Keys
<1>3. <<"recipient", caller.recipient>> \in R!Keys
  <2>1. caller.recipient \in Recipients
    BY DEF R!Caller
  <2> QED BY <2>1 DEF R!Keys
<1>4. /\ {"request", "address-send", "client-auth", "oauth2:request", "oauth2:register", "oauth2:device"} \subseteq R!AddressBuckets
      /\ SecretRoutes \subseteq R!AddressBuckets
  BY DEF R!AddressBuckets
<1> HIDE DEF address
<1>5. ASSUME NEW name \in R!AddressBuckets
      PROVE  /\ R!Hit(name, address) \in Step /\ R!Hit(name, address).kind = "hit"
             /\ R!Do(name, address) \in Step /\ R!Do(name, address).kind = "do"
             /\ R!Hit(name, address) = [R!Do(name, address) EXCEPT !.kind = "hit"]
  BY <1>1, StepsOfABucket
<1>6. IsAWay(door) /\ IsAWay(oauth2)
  BY <1>4, <1>5, HitIsAWay DEF R!Door, R!Oauth2Door, address
<1>7. IsAWay(<<>>)
  BY DEF IsAWay, WayFits
<1>8. ASSUME NEW a, IsAWay(a), NEW name \in {"manage", "refresh", "verify", "send"}
      PROVE  IsAWay((a \o R!Charged(name, caller)) \o R!Worked(name, caller))
  <2>1. CASE caller.subject = Nobody
    <3>1. R!Charged(name, caller) = <<>> /\ R!Worked(name, caller) = <<>>
      BY <2>1 DEF R!Charged, R!Worked
    <3> QED BY <1>7, <1>8, <3>1, WaysChain
  <2>2. CASE caller.subject # Nobody
    <3>1. /\ R!Charged(name, caller) = <<R!Hit(name, caller.subject)>>
          /\ R!Worked(name, caller) = <<R!Do(name, caller.subject)>>
      BY <2>2 DEF R!Charged, R!Worked
    <3>2. /\ R!Hit(name, caller.subject) \in Step /\ R!Hit(name, caller.subject).kind = "hit"
          /\ R!Do(name, caller.subject) \in Step
          /\ R!Hit(name, caller.subject) = [R!Do(name, caller.subject) EXCEPT !.kind = "hit"]
      BY <1>2, <2>2, StepsOfABucket
    <3> QED BY <1>8, <3>1, <3>2, WorkChains
  <2> QED BY <2>1, <2>2
<1>9. IsAWay(R!Manage(caller)) /\ IsAWay(R!RefreshToken(caller)) /\ IsAWay(R!SubmitPrompt(caller))
  BY <1>6, <1>8 DEF R!Manage, R!RefreshToken, R!SubmitPrompt
<1>10. IsAWay(R!SendPrompt(caller))
  <2>1. IsAWay(door \o <<R!Hit("address-send", address)>>)
    BY <1>4, <1>5, <1>6, HitIsAWay, WaysChain
  <2>2. IsAWay(((door \o <<R!Hit("address-send", address)>>) \o R!Charged("send", caller)) \o R!Worked("send", caller))
    BY <1>8, <2>1
  <2>3. IsAWay(<<R!Hit("recipient", caller.recipient), R!Do("recipient", caller.recipient)>>)
    <3>1. /\ R!Hit("recipient", caller.recipient) \in Step /\ R!Hit("recipient", caller.recipient).kind = "hit"
          /\ R!Do("recipient", caller.recipient) \in Step
          /\ R!Hit("recipient", caller.recipient) = [R!Do("recipient", caller.recipient) EXCEPT !.kind = "hit"]
      BY <1>3, StepsOfABucket
    <3> QED BY <3>1, HitAndWorkIsAWay
  <2>4. IsAWay((((door \o <<R!Hit("address-send", address)>>) \o R!Charged("send", caller)) \o R!Worked("send", caller))
               \o <<R!Hit("recipient", caller.recipient), R!Do("recipient", caller.recipient)>>)
    BY <2>2, <2>3, WaysChain
  <2> QED BY <2>4 DEF R!SendPrompt, address
<1>11. IsAWay(R!Start(caller)) /\ IsAWay(R!Authorize(caller))
  <2>1. /\ R!Start(caller) = <<R!Hit("request", address)>> \o <<R!Do("request", address)>>
        /\ R!Authorize(caller) = <<R!Hit("oauth2:request", address)>> \o <<R!Do("oauth2:request", address)>>
    BY DEF R!Start, R!Authorize, R!Door, R!Oauth2Door, address
  <2>2. {"request", "oauth2:request"} \subseteq R!AddressBuckets
    BY <1>4
  <2> QED BY <1>5, <2>1, <2>2, HitAndWorkIsAWay
<1>12. ASSUME NEW name \in R!AddressBuckets
       PROVE  IsAWay(R!Unauthenticated(name, caller))
  <2>1. IsAWay(<<R!Hit(name, address), R!Do(name, address)>>)
    BY <1>5, HitAndWorkIsAWay
  <2>2. R!Unauthenticated(name, caller) = oauth2 \o <<R!Hit(name, address), R!Do(name, address)>>
    BY DEF R!Unauthenticated, address
  <2> QED BY <1>6, <2>1, <2>2, WaysChain
<1>13. ASSUME NEW name \in R!AddressBuckets
       PROVE  IsAWay(R!Authenticated(name, caller))
  <2>1. IsAWay(R!CountSecretCheck(caller))
    <3>1. IsAWay(<<R!Hit("client-auth", address), R!Do("client-auth", address)>>)
      BY <1>4, <1>5, HitAndWorkIsAWay
    <3> QED BY <1>7, <3>1 DEF R!CountSecretCheck, address
  <2> QED BY <1>12, <1>13, <2>1, WaysChain DEF R!Authenticated
<1> HIDE DEF door, oauth2
<1>14. CASE route = "start"      BY <1>11, <1>14 DEF R!Way
<1>15. CASE route = "manage"     BY <1>9, <1>15 DEF R!Way
<1>16. CASE route = "refresh"    BY <1>9, <1>16 DEF R!Way
<1>17. CASE route = "submit"     BY <1>9, <1>17 DEF R!Way
<1>18. CASE route = "send"       BY <1>10, <1>18 DEF R!Way
<1>19. CASE route = "authorize"  BY <1>11, <1>19 DEF R!Way
<1>20. CASE route \in {"oauth2:register", "oauth2:device"}
  <2>1. IsAWay(R!Unauthenticated(route, caller))
    BY <1>4, <1>12, <1>20
  <2>2. R!Way(route, caller) = R!Unauthenticated(route, caller)
    BY <1>20 DEF R!Way
  <2> QED BY <2>1, <2>2
<1>21. CASE route \notin R!OwnerRoutes \cup {"start", "authorize", "oauth2:register", "oauth2:device"}
  <2>1. route \in SecretRoutes
    BY <1>21 DEF R!Routes
  <2>2. IsAWay(R!Authenticated(route, caller))
    BY <1>4, <1>13, <2>1
  <2>3. R!Way(route, caller) = R!Authenticated(route, caller)
    BY <1>21 DEF R!Way, R!OwnerRoutes
  <2> QED BY <2>2, <2>3
<1> QED BY <1>14, <1>15, <1>16, <1>17, <1>18, <1>19, <1>20, <1>21 DEF R!Routes, R!OwnerRoutes
-----------------------------------------------------------------------------
(* What a step does to the requests.                                       *)

LEMMA TailFits ==
  ASSUME NEW way, WayFits(way), way # <<>>
  PROVE  /\ Head(way) \in Step /\ WayFits(Tail(way))
         /\ Tail(way) # <<>> /\ Head(Tail(way)).kind = "do" =>
              Head(way) = [Head(Tail(way)) EXCEPT !.kind = "hit"]
<1>1. way \in Seq(Step) /\ Len(way) \in Nat /\ Len(way) >= 1 /\ Head(way) = way[1]
  BY DEF WayFits
<1>2. /\ Tail(way) \in Seq(Step) /\ Len(Tail(way)) = Len(way) - 1
      /\ \A j \in 1..(Len(way) - 1) : Tail(way)[j] = way[j + 1]
  BY <1>1
<1> DEFINE rest == Tail(way)
<1> HIDE DEF rest
<1>3. ASSUME NEW j \in 1..Len(rest), rest[j].kind = "do"
      PROVE  way[j] = [rest[j] EXCEPT !.kind = "hit"]
  <2>1. j + 1 \in 1..Len(way) /\ j + 1 > 1 /\ (j + 1) - 1 = j /\ rest[j] = way[j + 1]
    BY <1>1, <1>2, <1>3 DEF rest
  <2> QED BY <1>3, <2>1 DEF WayFits
<1>4. WayFits(rest)
  <2>1. ASSUME NEW j \in 1..Len(rest), j > 1, rest[j].kind = "do"
        PROVE  rest[j - 1] = [rest[j] EXCEPT !.kind = "hit"]
    <3>1. j - 1 \in 1..(Len(way) - 1) /\ (j - 1) + 1 = j
      BY <1>1, <1>2, <2>1 DEF rest
    <3>2. rest[j - 1] = way[j]
      BY <1>2, <3>1 DEF rest
    <3> QED BY <1>3, <2>1, <3>2
  <2> QED BY <1>2, <2>1 DEF WayFits, rest
<1>5. rest # <<>> => 1 \in 1..Len(rest) /\ Head(rest) = rest[1]
  BY <1>1, <1>2 DEF rest
<1>6. rest # <<>> /\ Head(rest).kind = "do" => Head(way) = [Head(rest) EXCEPT !.kind = "hit"]
  BY <1>1, <1>3, <1>5
<1>7. Head(way) \in Step
  BY <1>1
<1> QED BY <1>4, <1>6, <1>7 DEF rest

\* A request that was let in and has not begun its work.
InHand(way) == way # Quiet /\ way # <<>> /\ Head(way).kind = "do" /\ Head(way).key = watched

LEMMA OneRequest ==
  ASSUME RequestsFit, NEW r \in Requests, NEW way, way # Quiet => WayFits(way),
         requests' = [requests EXCEPT ![r] = way], watched' = watched
  PROVE  /\ RequestsFit'
         /\ InHand(way) => Doing' = Doing \cup {r}
         /\ ~InHand(way) => Doing' = Doing \ {r}
<1>1. requests = [q \in Requests |-> requests[q]]
  BY DEF RequestsFit
<1>2. requests' = [q \in Requests |-> IF q = r THEN way ELSE requests[q]]
  BY <1>1
<1> DEFINE F == [q \in Requests |-> IF q = r THEN way ELSE requests[q]]
<1> HIDE DEF F
<1>3. F = [q \in Requests |-> F[q]] /\ F[r] = way /\ \A q \in Requests : q # r => F[q] = requests[q]
  BY DEF F
<1>4. RequestsFit'
  BY <1>2, <1>3 DEF RequestsFit, F
<1>5. Doing' = {q \in Requests : F[q] # Quiet /\ F[q] # <<>> /\ Head(F[q]).kind = "do" /\ Head(F[q]).key = watched}
  BY <1>2 DEF Doing, R!At, F
<1>6. Doing = {q \in Requests : requests[q] # Quiet /\ requests[q] # <<>> /\ Head(requests[q]).kind = "do"
                                  /\ Head(requests[q]).key = watched}
  BY DEF Doing, R!At
<1>7. InHand(way) => Doing' = Doing \cup {r}
  BY <1>3, <1>5, <1>6 DEF InHand
<1>8. ~InHand(way) => Doing' = Doing \ {r}
  BY <1>3, <1>5, <1>6 DEF InHand
<1> QED BY <1>4, <1>7, <1>8

LEMMA DoingCounts ==
  /\ IsFiniteSet(Doing) /\ Cardinality(Doing) \in Nat
  /\ \A r \in Requests : r \notin Doing => Cardinality(Doing \cup {r}) = Cardinality(Doing) + 1
  /\ \A r \in Doing : Cardinality(Doing \ {r}) = Cardinality(Doing) - 1 /\ Cardinality(Doing) >= 1
  /\ \A r : r \notin Doing => Doing \ {r} = Doing
<1>1. Doing \subseteq Requests
  BY DEF Doing
<1>2. IsFiniteSet(Doing) /\ Cardinality(Doing) \in Nat
  BY <1>1, LimitsAreNumbers, FS_Subset, FS_CardinalityType
<1>3. \A r \in Requests : r \notin Doing => Cardinality(Doing \cup {r}) = Cardinality(Doing) + 1
  BY <1>2, FS_AddElement
<1>4. \A r \in Doing : Cardinality(Doing \ {r}) = Cardinality(Doing) - 1
  BY <1>2, FS_RemoveElement
<1>5. \A r \in Doing : Cardinality(Doing \ {r}) \in Nat
  BY <1>2, FS_RemoveElement, FS_CardinalityType
<1>6. ASSUME NEW r \in Doing PROVE Cardinality(Doing) >= 1
  <2>1. Cardinality(Doing \ {r}) = Cardinality(Doing) - 1 /\ Cardinality(Doing \ {r}) \in Nat
    BY <1>4, <1>5
  <2> QED BY <1>2, <2>1
<1> QED BY <1>2, <1>3, <1>4, <1>6
-----------------------------------------------------------------------------
(* What a moment, a hit and a piece of work do to the histories.           *)

LEMMA NowAndOlder ==
  ASSUME NEW ages \in R!Ages, Sorted(ages)
  PROVE  /\ R!Now(ages) \in R!Ages /\ Sorted(R!Now(ages))
         /\ R!Now(ages)[1] = 0 /\ \A k \in Slots : k > 1 => R!Now(ages)[k] = ages[k - 1]
         /\ R!Older(ages) \in R!Ages /\ Sorted(R!Older(ages))
         /\ \A k \in Slots : R!Older(ages)[k] = IF ages[k] > Window THEN ages[k] ELSE ages[k] + 1
<1>1. DOMAIN ages = Slots /\ \A k \in Slots : ages[k] \in 0..(Window + 1)
  BY DEF R!Ages, Slots
<1>2. /\ R!Now(ages) = [k \in Slots |-> IF k = 1 THEN 0 ELSE ages[k - 1]]
      /\ R!Older(ages) = [k \in Slots |-> IF ages[k] > Window THEN ages[k] ELSE ages[k] + 1]
  BY <1>1 DEF R!Now, R!Older
<1>3. /\ 1 \in Slots /\ \A k \in Slots : k \in Nat /\ (k > 1 => k - 1 \in Slots)
  BY LimitsAreNumbers DEF Slots
<1>4. /\ R!Now(ages)[1] = 0 /\ \A k \in Slots : k > 1 => R!Now(ages)[k] = ages[k - 1]
  BY <1>2, <1>3
<1>5. R!Now(ages) \in R!Ages
  <2>1. \A k \in Slots : (IF k = 1 THEN 0 ELSE ages[k - 1]) \in 0..(Window + 1)
    BY <1>1, <1>3, LimitsAreNumbers DEF Slots
  <2> QED BY <1>2, <2>1 DEF R!Ages, Slots
<1>6. Sorted(R!Now(ages))
  <2>1. ASSUME NEW j \in Slots, NEW k \in Slots, j <= k PROVE R!Now(ages)[j] <= R!Now(ages)[k]
    <3>1. CASE j = 1
      <4>1. R!Now(ages)[k] \in 0..(Window + 1)
        BY <1>5 DEF R!Ages, Slots
      <4> QED BY <1>4, <3>1, <4>1
    <3>2. CASE j > 1
      <4>1. k > 1 /\ j - 1 \in Slots /\ k - 1 \in Slots /\ j - 1 <= k - 1
        BY <1>3, <2>1, <3>2
      <4> QED BY <1>4, <3>2, <4>1 DEF Sorted
    <3> QED BY <3>1, <3>2 DEF Slots
  <2> QED BY <2>1 DEF Sorted
<1>7. /\ R!Older(ages) \in R!Ages
      /\ \A k \in Slots : R!Older(ages)[k] = IF ages[k] > Window THEN ages[k] ELSE ages[k] + 1
  <2>1. \A k \in Slots : (IF ages[k] > Window THEN ages[k] ELSE ages[k] + 1) \in 0..(Window + 1)
    BY <1>1, LimitsAreNumbers
  <2> QED BY <1>2, <2>1 DEF R!Ages, Slots
<1>8. Sorted(R!Older(ages))
  <2>1. ASSUME NEW j \in Slots, NEW k \in Slots, j <= k PROVE R!Older(ages)[j] <= R!Older(ages)[k]
    <3>1. ages[j] <= ages[k] /\ ages[j] \in 0..(Window + 1) /\ ages[k] \in 0..(Window + 1)
      BY <1>1, <2>1 DEF Sorted
    <3> QED BY <1>7, <3>1, LimitsAreNumbers
  <2> QED BY <2>1 DEF Sorted
<1> QED BY <1>4, <1>5, <1>6, <1>7, <1>8

\* A hit counts, for one more request that works or for none.
LEMMA HitFollows ==
  ASSUME NEW hits \in R!Ages, Sorted(hits), NEW work \in R!Ages, NEW p \in Nat, Follows(p, hits, work)
  PROVE  Follows(p, R!Now(hits), work) /\ Follows(p + 1, R!Now(hits), work)
<1> DEFINE next == R!Now(hits)
<1>1. next[1] = 0 /\ \A k \in Slots : k > 1 => next[k] = hits[k - 1]
  BY NowAndOlder
<1> HIDE DEF next
<1>2. /\ \A k \in Slots : k \in Nat /\ k >= 1 /\ (k > 1 => k - 1 \in Slots)
      /\ \A k \in Slots : hits[k] \in Nat /\ work[k] \in Nat
  BY LimitsAreNumbers DEF Slots, R!Ages
<1>3. ASSUME NEW k \in Slots, k <= p + 1 PROVE next[k] = 0
  <2>1. CASE k = 1
    BY <1>1, <2>1
  <2>2. CASE k > 1
    <3>1. k - 1 \in Slots /\ k - 1 <= p
      BY <1>2, <1>3, <2>2
    <3> QED BY <1>1, <2>2, <3>1 DEF Follows
  <2> QED BY <1>2, <2>1, <2>2
<1>4. ASSUME NEW i \in Slots, NEW k \in Slots, k = i + p PROVE next[k] <= work[i]
  <2>1. CASE k = 1
    BY <1>1, <1>2, <2>1
  <2>2. CASE k > 1
    <3>1. k - 1 \in Slots /\ k - 1 <= k /\ hits[k] <= work[i]
      BY <1>2, <1>4, <2>2 DEF Follows
    <3>2. hits[k - 1] <= hits[k]
      BY <3>1 DEF Sorted
    <3>3. hits[k - 1] \in Nat /\ hits[k] \in Nat /\ work[i] \in Nat
      BY <1>2, <3>1
    <3> QED BY <1>1, <2>2, <3>1, <3>2, <3>3
  <2> QED BY <1>2, <2>1, <2>2
<1>5. ASSUME NEW i \in Slots, NEW k \in Slots, k = i + (p + 1) PROVE next[k] <= work[i]
  <2>1. k > 1 /\ k - 1 \in Slots /\ k - 1 = i + p
    BY <1>2, <1>5
  <2> QED BY <1>1, <2>1 DEF Follows
<1>6. \A k \in Slots : k <= p => k <= p + 1
  BY <1>2
<1> QED BY <1>3, <1>4, <1>5, <1>6 DEF Follows, next

\* One of those that were let in works.
LEMMA WorkFollows ==
  ASSUME NEW hits \in R!Ages, NEW work \in R!Ages, Sorted(work), NEW p \in Nat, p >= 1, Follows(p, hits, work)
  PROVE  Follows(p - 1, hits, R!Now(work))
<1> DEFINE next == R!Now(work)
<1>1. next[1] = 0 /\ \A k \in Slots : k > 1 => next[k] = work[k - 1]
  BY NowAndOlder
<1> HIDE DEF next
<1>2. \A k \in Slots : k \in Nat /\ k >= 1 /\ (k > 1 => k - 1 \in Slots)
  BY LimitsAreNumbers DEF Slots
<1>3. ASSUME NEW k \in Slots, k <= p - 1 PROVE hits[k] = 0
  BY <1>2, <1>3 DEF Follows
<1>4. ASSUME NEW i \in Slots, NEW k \in Slots, k = i + (p - 1) PROVE hits[k] <= next[i]
  <2>1. CASE i = 1
    <3>1. k <= p
      BY <1>4, <2>1
    <3>2. hits[k] = 0
      BY <3>1 DEF Follows
    <3> QED BY <1>1, <2>1, <3>2
  <2>2. CASE i > 1
    <3>1. i - 1 \in Slots /\ k = (i - 1) + p
      BY <1>2, <1>4, <2>2
    <3>2. hits[k] <= work[i - 1]
      BY <3>1 DEF Follows
    <3> QED BY <1>1, <2>2, <3>2
  <2> QED BY <1>2, <2>1, <2>2
<1> QED BY <1>3, <1>4 DEF Follows, next

\* One of those that were let in leaves.
LEMMA LeaveFollows ==
  ASSUME NEW hits \in R!Ages, Sorted(hits), NEW work \in R!Ages, Sorted(work),
         NEW p \in Nat, p >= 1, Follows(p, hits, work)
  PROVE  Follows(p - 1, hits, work)
<1>1. /\ \A k \in Slots : k \in Nat /\ k >= 1 /\ (k > 1 => k - 1 \in Slots) /\ k <= 2 * Limit
      /\ \A k \in Slots : (k # 2 * Limit => k + 1 \in Slots)
      /\ \A k \in Slots : hits[k] \in Nat /\ work[k] \in Nat
  BY LimitsAreNumbers DEF Slots, R!Ages
<1>2. ASSUME NEW k \in Slots, k <= p - 1 PROVE hits[k] = 0
  BY <1>1, <1>2 DEF Follows
<1>3. ASSUME NEW i \in Slots, NEW k \in Slots, k = i + (p - 1) PROVE hits[k] <= work[i]
  <2>1. CASE k # 2 * Limit
    <3>1. k + 1 \in Slots /\ k + 1 = i + p /\ k <= k + 1
      BY <1>1, <1>3, <2>1
    <3>2. hits[k] <= hits[k + 1] /\ hits[k + 1] <= work[i]
      BY <3>1 DEF Follows, Sorted
    <3>3. hits[k] \in Nat /\ hits[k + 1] \in Nat /\ work[i] \in Nat
      BY <1>1, <3>1
    <3> QED BY <3>2, <3>3
  <2>2. CASE i = 1
    <3>1. k <= p
      BY <1>3, <2>2
    <3>2. hits[k] = 0
      BY <3>1 DEF Follows
    <3> QED BY <1>1, <3>2
  <2>3. CASE i > 1
    <3>1. i - 1 \in Slots /\ k = (i - 1) + p /\ i - 1 <= i
      BY <1>1, <1>3, <2>3
    <3>2. hits[k] <= work[i - 1] /\ work[i - 1] <= work[i]
      BY <3>1 DEF Follows, Sorted
    <3>3. hits[k] \in Nat /\ work[i - 1] \in Nat /\ work[i] \in Nat
      BY <1>1, <3>1
    <3> QED BY <3>2, <3>3
  <2> QED BY <1>1, <2>1, <2>2, <2>3
<1> QED BY <1>2, <1>3 DEF Follows

LEMMA OlderFollows ==
  ASSUME NEW hits \in R!Ages, Sorted(hits), NEW work \in R!Ages, Sorted(work), Follows(0, hits, work)
  PROVE  Follows(0, R!Older(hits), R!Older(work))
<1>1. \A k \in Slots : k \in Nat /\ k >= 1 /\ hits[k] \in Nat /\ work[k] \in Nat
  BY LimitsAreNumbers DEF Slots, R!Ages
<1>2. ASSUME NEW i \in Slots, NEW k \in Slots, k = i + 0 PROVE R!Older(hits)[k] <= R!Older(work)[i]
  <2>1. k = i /\ hits[k] <= work[i]
    BY <1>1, <1>2 DEF Follows
  <2>2. /\ R!Older(hits)[k] = IF hits[k] > Window THEN hits[k] ELSE hits[k] + 1
        /\ R!Older(work)[i] = IF work[i] > Window THEN work[i] ELSE work[i] + 1
    BY NowAndOlder
  <2>3. hits[k] \in 0..(Window + 1) /\ work[i] \in 0..(Window + 1)
    BY DEF R!Ages, Slots
  <2> QED BY <2>1, <2>2, <2>3, LimitsAreNumbers
<1>3. ASSUME NEW k \in Slots, k <= 0 PROVE FALSE
  BY <1>1, <1>3
<1> QED BY <1>2, <1>3 DEF Follows
-----------------------------------------------------------------------------
(* What a step does to the bucket.                                         *)

LEMMA UsedFits ==
  ASSUME NEW b \in R!Bucket, NEW hits \in R!Ages, Sorted(hits), WindowFits(b, hits)
  PROVE  /\ Used(b) \in 0..Limit /\ Limit \in Slots /\ Used(b) + Limit \in Slots
         /\ b.left \in Int /\ b.left <= Window /\ b.count \in Nat
         /\ \A k \in Slots : hits[k] \in 0..(Window + 1)
         /\ b.left >= 0 => Used(b) >= 1 /\ Used(b) \in Slots /\ hits[Limit] >= Window - b.left
         /\ b.left <= 0 => hits[Limit] >= Window
<1>1. b.left \in (-1)..Window /\ b.count \in 0..(Limit + 1)
  BY DEF R!Bucket
<1>2. Used(b) \in 0..Limit /\ Limit \in Slots /\ Used(b) + Limit \in Slots
  BY <1>1, LimitsAreNumbers DEF Used, Slots
<1>3. \A k \in Slots : hits[k] \in 0..(Window + 1)
  BY DEF R!Ages, Slots
<1>4. ASSUME b.left >= 0 PROVE Used(b) >= 1 /\ Used(b) \in Slots /\ hits[Limit] >= Window - b.left
  <2>1. Used(b) >= 1 /\ Used(b) <= Limit /\ Used(b) \in Slots
    BY <1>1, <1>2, <1>4, LimitsAreNumbers DEF Used, WindowFits, Slots
  <2>2. hits[Used(b)] = Window - b.left /\ hits[Used(b)] <= hits[Limit]
    BY <1>2, <1>4, <2>1 DEF WindowFits, Sorted
  <2> QED BY <2>1, <2>2
<1>5. ASSUME b.left <= 0 PROVE hits[Limit] >= Window
  <2>1. CASE b.left < 0
    <3>1. Used(b) = 0 /\ 0 + Limit = Limit
      BY <2>1, LimitsAreNumbers DEF Used
    <3> QED BY <3>1 DEF WindowFits
  <2>2. CASE b.left = 0
    <3>1. hits[Limit] >= Window - 0
      BY <1>4, <2>2
    <3> QED BY <3>1, LimitsAreNumbers
  <2> QED BY <1>1, <1>5, <2>1, <2>2
<1> QED BY <1>1, <1>2, <1>3, <1>4, <1>5, LimitsAreNumbers

\* A limiter begins a window that ended, counts in the one under way, or refuses when it is full.
Outcome(b, hit) ==
  /\ hit.bucket \in R!Bucket
  /\ \/ hit.ok = TRUE /\ b.left <= 0 /\ hit.bucket.count = 1 /\ hit.bucket.left = Window
     \/ /\ hit.ok = TRUE /\ b.left >= 0 /\ b.count < Limit
        /\ hit.bucket.count = b.count + 1 /\ hit.bucket.left = b.left
     \/ /\ hit.ok = FALSE /\ b.left >= 0 /\ b.count >= Limit
        /\ hit.bucket.count >= Limit /\ hit.bucket.left = b.left

LEMMA HitOutcomes ==
  ASSUME NEW b \in R!Bucket, limiter \in R!Limiters, b.left >= 0 => b.count >= 1
  PROVE  Outcome(b, R!LimitHit(b))
<1>1. /\ b.left \in (-1)..Window /\ b.count \in 0..(Limit + 1) /\ b = [count |-> b.count, left |-> b.left]
  BY DEF R!Bucket
<1>2. CASE limiter = "memory"
  <2>1. R!LimitHit(b) = R!MemoryLimit(b)
    BY <1>2 DEF R!LimitHit
  <2>2. CASE b.left <= 0
    <3>1. R!MemoryLimit(b) = [ok |-> TRUE, bucket |-> [count |-> 1, left |-> Window]]
      BY <1>1, <2>2 DEF R!MemoryLimit
    <3> QED BY <2>1, <2>2, <3>1, LimitsAreNumbers DEF R!Bucket, Outcome
  <2>3. CASE b.left > 0 /\ b.count < Limit
    <3>1. R!MemoryLimit(b) = [ok |-> TRUE, bucket |-> [b EXCEPT !.count = @ + 1]]
      BY <1>1, <2>3 DEF R!MemoryLimit, R!MemoryRoom
    <3>2. [b EXCEPT !.count = @ + 1] = [count |-> b.count + 1, left |-> b.left]
      BY <1>1
    <3>3. R!LimitHit(b) = [ok |-> TRUE, bucket |-> [count |-> b.count + 1, left |-> b.left]]
      BY <2>1, <3>1, <3>2
    <3> QED BY <1>1, <2>3, <3>3, LimitsAreNumbers DEF R!Bucket, Outcome
  <2>4. CASE b.left > 0 /\ b.count >= Limit
    <3>1. R!MemoryLimit(b) = [ok |-> FALSE, bucket |-> b]
      BY <1>1, <2>4, LimitsAreNumbers DEF R!MemoryLimit, R!MemoryRoom
    <3> QED BY <1>1, <2>1, <2>4, <3>1, LimitsAreNumbers DEF Outcome
  <2> QED BY <1>1, <2>2, <2>3, <2>4, LimitsAreNumbers
<1>3. CASE limiter # "memory"
  <2>1. R!LimitHit(b) = R!DurableLimit(b)
    BY <1>3 DEF R!LimitHit
  <2> DEFINE window == R!DurableWindow(b)
             meta   == R!Counted(window)
  <2>2. R!DurableLimit(b) = [ok |-> meta.count <= Limit, bucket |-> meta]
    BY DEF R!DurableLimit
  <2>3. window = IF b.left < 0 THEN [count |-> 0, left |-> Window] ELSE [count |-> b.count, left |-> b.left]
    BY <1>1 DEF R!DurableWindow
  <2>4. meta = [count |-> IF window.count > Limit THEN window.count ELSE window.count + 1, left |-> window.left]
    BY <2>3 DEF R!Counted
  <2> HIDE DEF meta, window
  <2>5. CASE b.left < 0
    <3>1. meta = [count |-> 1, left |-> Window]
      BY <2>3, <2>4, <2>5, LimitsAreNumbers
    <3>2. (meta.count <= Limit) = TRUE
      BY <3>1, LimitsAreNumbers
    <3>3. R!LimitHit(b) = [ok |-> TRUE, bucket |-> [count |-> 1, left |-> Window]]
      BY <2>1, <2>2, <3>1, <3>2
    <3> QED BY <2>5, <3>3, LimitsAreNumbers DEF R!Bucket, Outcome
  <2>6. CASE b.left >= 0
    <3>1. meta = [count |-> IF b.count > Limit THEN b.count ELSE b.count + 1, left |-> b.left]
      BY <1>1, <2>3, <2>4, <2>6
    <3>2. CASE b.count < Limit
      <4>1. meta = [count |-> b.count + 1, left |-> b.left]
        BY <1>1, <3>1, <3>2, LimitsAreNumbers
      <4>2. (meta.count <= Limit) = TRUE
        BY <1>1, <3>2, <4>1, LimitsAreNumbers
      <4>3. R!LimitHit(b) = [ok |-> TRUE, bucket |-> [count |-> b.count + 1, left |-> b.left]]
        BY <2>1, <2>2, <4>1, <4>2
      <4> QED BY <1>1, <2>6, <3>2, <4>3, LimitsAreNumbers DEF R!Bucket, Outcome
    <3>3. CASE b.count >= Limit
      <4>1. meta.left = b.left /\ meta.count \in Nat /\ meta.count > Limit /\ meta.count <= Limit + 1 /\ meta \in R!Bucket
        BY <1>1, <3>1, <3>3, LimitsAreNumbers DEF R!Bucket
      <4>2. (meta.count <= Limit) = FALSE
        BY <4>1, LimitsAreNumbers
      <4>3. R!LimitHit(b) = [ok |-> FALSE, bucket |-> meta]
        BY <2>1, <2>2, <4>2
      <4> QED BY <1>1, <2>6, <3>3, <4>1, <4>3, LimitsAreNumbers DEF Outcome
    <3> QED BY <1>1, <3>2, <3>3, LimitsAreNumbers
  <2> QED BY <1>1, <2>5, <2>6
<1> QED BY <1>2, <1>3

\* An allowed hit counts in its window.
LEMMA AllowedFits ==
  ASSUME NEW b \in R!Bucket, limiter \in R!Limiters, NEW hits \in R!Ages, Sorted(hits), WindowFits(b, hits),
         R!LimitHit(b).ok
  PROVE  WindowFits(R!LimitHit(b).bucket, R!Now(hits))
<1> DEFINE next  == R!Now(hits)
           after == R!LimitHit(b).bucket
<1>1. next[1] = 0 /\ \A k \in Slots : k > 1 => next[k] = hits[k - 1]
  BY NowAndOlder
<1>2. b.left >= 0 => b.count >= 1
  BY DEF WindowFits
<1>3. \/ b.left <= 0 /\ after.count = 1 /\ after.left = Window
      \/ b.left >= 0 /\ b.count < Limit /\ after.count = b.count + 1 /\ after.left = b.left
  BY <1>2, HitOutcomes DEF Outcome
<1> SUFFICES WindowFits(after, next)
  OBVIOUS
<1> HIDE DEF next, after
<1>4. CASE b.left <= 0 /\ after.count = 1 /\ after.left = Window
  <2>1. Used(after) = 1
    BY <1>4, LimitsAreNumbers DEF Used
  <2>2. 1 + Limit \in Slots /\ 1 + Limit > 1 /\ (1 + Limit) - 1 = Limit
    BY LimitsAreNumbers DEF Slots
  <2>3. next[1 + Limit] = hits[Limit] /\ hits[Limit] >= Window
    BY <1>1, <1>4, <2>2, UsedFits
  <2>4. next[Used(after)] = Window - after.left /\ next[Used(after) + Limit] >= Window
    BY <1>1, <1>4, <2>1, <2>3, LimitsAreNumbers
  <2> QED BY <1>4, <2>4 DEF WindowFits
<1>5. CASE b.left >= 0 /\ b.count < Limit /\ after.count = b.count + 1 /\ after.left = b.left
  <2>1. b.left \in Int /\ b.count \in Nat
    BY UsedFits
  <2>2. Used(b) = b.count /\ Used(after) = b.count + 1
    BY <1>5, <2>1, LimitsAreNumbers DEF Used
  <2>3. /\ b.count + 1 \in Slots /\ b.count + 1 > 1 /\ (b.count + 1) - 1 = b.count
        /\ (b.count + 1) + Limit \in Slots /\ (b.count + 1) + Limit > 1
        /\ ((b.count + 1) + Limit) - 1 = b.count + Limit
    BY <1>2, <1>5, <2>1, LimitsAreNumbers DEF Slots
  <2>4. next[b.count + 1] = hits[b.count] /\ next[(b.count + 1) + Limit] = hits[b.count + Limit]
    BY <1>1, <2>3
  <2>5. hits[b.count] = Window - b.left /\ hits[b.count + Limit] >= Window
    BY <1>5, <2>2 DEF WindowFits
  <2>6. next[Used(after)] = Window - after.left /\ next[Used(after) + Limit] >= Window
    BY <1>5, <2>2, <2>4, <2>5
  <2>7. after.count >= 1
    BY <1>2, <1>5, <2>1
  <2> QED BY <2>6, <2>7 DEF WindowFits
<1> QED BY <1>3, <1>4, <1>5

\* A hit is refused when the window is full.
LEMMA RefusedFits ==
  ASSUME NEW b \in R!Bucket, limiter \in R!Limiters, NEW hits \in R!Ages, Sorted(hits), WindowFits(b, hits),
         ~R!LimitHit(b).ok
  PROVE  WindowFits(R!LimitHit(b).bucket, hits) /\ ~(hits[Limit] > Window)
<1> DEFINE after == R!LimitHit(b).bucket
<1>1. b.left >= 0 => b.count >= 1
  BY DEF WindowFits
<1>2. b.left >= 0 /\ b.count >= Limit /\ after.count >= Limit /\ after.left = b.left /\ after \in R!Bucket
  BY <1>1, HitOutcomes DEF Outcome
<1> HIDE DEF after
<1>3. b.left \in Int /\ b.count \in Nat /\ after.count \in Nat
  BY <1>2, UsedFits DEF R!Bucket
<1>4. Used(b) = Limit /\ Used(after) = Limit
  BY <1>2, <1>3, LimitsAreNumbers DEF Used
<1>5. hits[Limit] = Window - b.left /\ hits[Limit + Limit] >= Window
  BY <1>2, <1>4 DEF WindowFits
<1> QED BY <1>2, <1>3, <1>4, <1>5, LimitsAreNumbers DEF WindowFits, after

\* A bucket that is cleared once its window is over.
LEMMA ClearedFits ==
  ASSUME NEW b \in R!Bucket, NEW hits \in R!Ages, Sorted(hits), WindowFits(b, hits), b.left <= 0
  PROVE  WindowFits([count |-> 0, left |-> -1], hits)
<1>1. hits[Limit] >= Window
  BY UsedFits
<1>2. Used([count |-> 0, left |-> -1]) = 0 /\ 0 + Limit = Limit
  BY LimitsAreNumbers DEF Used
<1> QED BY <1>1, <1>2 DEF WindowFits

\* A moment passes.
LEMMA OlderFits ==
  ASSUME NEW b \in R!Bucket, NEW hits \in R!Ages, Sorted(hits), WindowFits(b, hits),
         NEW after, after = [b EXCEPT !.left = IF @ < 0 THEN @ ELSE @ - 1]
  PROVE  after \in R!Bucket /\ WindowFits(after, R!Older(hits))
<1> DEFINE next == R!Older(hits)
<1>1. b.left \in (-1)..Window /\ b.count \in 0..(Limit + 1) /\ b = [count |-> b.count, left |-> b.left]
  BY DEF R!Bucket
<1>2. after = [count |-> b.count, left |-> IF b.left < 0 THEN b.left ELSE b.left - 1]
  BY <1>1
<1>3. after \in R!Bucket
  BY <1>1, <1>2, LimitsAreNumbers DEF R!Bucket
<1>4. \A k \in Slots : next[k] = IF hits[k] > Window THEN hits[k] ELSE hits[k] + 1
  BY NowAndOlder
<1> SUFFICES WindowFits(after, next)
  BY <1>3
<1> HIDE DEF next
<1>5. \A k \in Slots : hits[k] \in 0..(Window + 1) /\ (hits[k] >= Window => next[k] >= Window)
  BY <1>4, UsedFits, LimitsAreNumbers
<1>6. CASE b.left < 0
  <2>1. after.left < 0 /\ Used(after) = 0 /\ Used(b) = 0
    BY <1>1, <1>2, <1>6 DEF Used
  <2>2. 0 + Limit \in Slots /\ hits[0 + Limit] >= Window
    BY <2>1, UsedFits DEF WindowFits
  <2>3. next[0 + Limit] >= Window
    BY <1>5, <2>2
  <2>4. ~(after.left >= 0)
    BY <1>1, <1>2, <1>6
  <2> QED BY <2>1, <2>3, <2>4 DEF WindowFits
<1>7. CASE b.left = 0
  <2>1. after.left = -1 /\ Used(after) = 0 /\ 0 + Limit = Limit
    BY <1>2, <1>7, LimitsAreNumbers DEF Used
  <2>2. Limit \in Slots /\ hits[Limit] >= Window
    BY <1>7, UsedFits
  <2>3. next[0 + Limit] >= Window
    BY <1>5, <2>1, <2>2
  <2>4. ~(after.left >= 0)
    BY <2>1
  <2> QED BY <2>1, <2>3, <2>4 DEF WindowFits
<1>8. CASE b.left > 0
  <2>1. after.left = b.left - 1 /\ after.count = b.count /\ Used(after) = Used(b)
    BY <1>1, <1>2, <1>8 DEF Used
  <2>2. Used(b) \in Slots /\ Used(b) + Limit \in Slots
    BY <1>1, <1>8, UsedFits
  <2>3. hits[Used(b)] = Window - b.left /\ hits[Used(b) + Limit] >= Window /\ b.count >= 1
    BY <1>1, <1>8 DEF WindowFits
  <2>4. next[Used(b)] = (Window - b.left) + 1
    BY <1>1, <1>4, <1>8, <2>2, <2>3, LimitsAreNumbers
  <2>5. next[Used(after)] = Window - after.left
    BY <1>1, <2>1, <2>4, LimitsAreNumbers
  <2>6. next[Used(after) + Limit] >= Window
    BY <1>5, <2>1, <2>2, <2>3
  <2> QED BY <2>1, <2>3, <2>5, <2>6 DEF WindowFits
<1> QED BY <1>1, <1>6, <1>7, <1>8
-----------------------------------------------------------------------------
(* The invariant.                                                          *)

LEMMA LimitsBegin == R!Init => LimitsInv
<1> SUFFICES ASSUME R!Init PROVE LimitsInv
  OBVIOUS
<1>1. R!Long \in R!Ages /\ Sorted(R!Long) /\ \A k \in Slots : R!Long[k] = Window + 1
  BY LimitsAreNumbers DEF R!Long, R!Ages, Sorted, Slots
<1>2. /\ limiter \in R!Limiters /\ watched \in R!Keys /\ ~spurious
      /\ allowed = R!Long /\ worked = R!Long /\ bucket = [count |-> 0, left |-> -1]
      /\ requests = [r \in Requests |-> Quiet]
  BY DEF R!Init
<1>3. bucket \in R!Bucket /\ WindowFits(bucket, allowed)
  <2>1. Used(bucket) = 0 /\ 0 + Limit \in Slots
    BY <1>2, LimitsAreNumbers DEF Used, Slots
  <2>2. allowed[0 + Limit] >= Window
    BY <1>1, <1>2, <2>1, LimitsAreNumbers
  <2>3. ~(bucket.left >= 0) /\ bucket \in R!Bucket
    BY <1>2, LimitsAreNumbers DEF R!Bucket
  <2> QED BY <2>1, <2>2, <2>3 DEF WindowFits
<1>4. RequestsFit
  BY <1>2 DEF RequestsFit
<1>5. WorkFollowsHits
  <2>1. Doing = {}
    BY <1>2 DEF Doing, R!At
  <2>2. Cardinality(Doing) = 0
    BY <2>1, FS_EmptySet
  <2>3. Follows(0, R!Long, R!Long)
    BY <1>1, LimitsAreNumbers DEF Follows, Slots
  <2> QED BY <1>2, <2>2, <2>3 DEF WorkFollowsHits
<1> QED BY <1>1, <1>2, <1>3, <1>4, <1>5 DEF LimitsInv

\* A request that comes, moves past another bucket or leaves.
LEMMA OtherRequests ==
  ASSUME LimitsInv, NEW r \in Requests, NEW way, way # Quiet => WayFits(way), ~InHand(way),
         requests' = [requests EXCEPT ![r] = way],
         UNCHANGED <<limiter, watched, bucket, allowed, worked, spurious>>
  PROVE  LimitsInv'
<1>1. RequestsFit' /\ Doing' = Doing \ {r}
  BY OneRequest DEF LimitsInv
<1>2. WorkFollowsHits'
  <2> DEFINE p == Cardinality(Doing)
  <2>1. Follows(p, allowed, worked) /\ p \in Nat
    BY DoingCounts DEF LimitsInv, WorkFollowsHits
  <2>2. CASE r \in Doing
    <3>1. Cardinality(Doing') = p - 1 /\ p >= 1
      BY <1>1, <2>2, DoingCounts
    <3> HIDE DEF p
    <3>2. Follows(p - 1, allowed, worked)
      BY <2>1, <3>1, LeaveFollows DEF LimitsInv
    <3> QED BY <3>1, <3>2 DEF WorkFollowsHits, Follows
  <2>3. CASE r \notin Doing
    <3>1. Doing' = Doing
      BY <1>1, <2>3, DoingCounts
    <3> QED BY <2>1, <3>1 DEF WorkFollowsHits, Follows
  <2> QED BY <2>2, <2>3
<1>3. WindowFits(bucket, allowed)'
  BY DEF LimitsInv, WindowFits, Used
<1>4. /\ (limiter \in R!Limiters)' /\ (watched \in R!Keys)' /\ (bucket \in R!Bucket)' /\ ~spurious'
      /\ (allowed \in R!Ages)' /\ (worked \in R!Ages)' /\ Sorted(allowed)' /\ Sorted(worked)'
  BY DEF LimitsInv, Sorted, R!Limiters, R!Bucket, R!Ages, R!Keys, R!AddressBuckets
<1> QED BY <1>1, <1>2, <1>3, <1>4 DEF LimitsInv

\* A hit of the bucket that is watched.
LEMMA HitKeepsLimits ==
  ASSUME LimitsInv, NEW r \in Requests, R!Consume(r)
  PROVE  LimitsInv'
<1> DEFINE hit == R!LimitHit(bucket)
           way == requests[r]
           p   == Cardinality(Doing)
<1>1. /\ way # Quiet /\ way # <<>> /\ Head(way).kind = "hit" /\ Head(way).key = watched
      /\ bucket' = hit.bucket /\ limiter' = limiter /\ watched' = watched /\ worked' = worked
  BY DEF R!Consume, R!At
<1>2. /\ limiter \in R!Limiters /\ watched \in R!Keys /\ bucket \in R!Bucket /\ ~spurious
      /\ allowed \in R!Ages /\ worked \in R!Ages /\ Sorted(allowed) /\ Sorted(worked)
      /\ WindowFits(bucket, allowed) /\ RequestsFit /\ Follows(p, allowed, worked) /\ p \in Nat
  BY DoingCounts DEF LimitsInv, WorkFollowsHits
<1>3. r \notin Doing
  BY <1>1 DEF Doing, R!At
<1>4. (limiter \in R!Limiters)' /\ (watched \in R!Keys)' /\ (worked \in R!Ages)' /\ Sorted(worked)' /\ (bucket \in R!Bucket)'
  <2>1. hit.bucket \in R!Bucket
    BY <1>2, HitOutcomes DEF Outcome, WindowFits
  <2> QED BY <1>1, <1>2, <2>1 DEF Sorted, R!Limiters, R!Bucket, R!Ages, R!Keys, R!AddressBuckets
<1>5. CASE hit.ok /\ R!Goes(r) /\ allowed' = R!Now(allowed) /\ UNCHANGED spurious
  <2>1. requests' = [requests EXCEPT ![r] = Tail(way)] /\ WayFits(Tail(way))
    BY <1>1, <1>2, <1>5, TailFits DEF R!Goes, RequestsFit
  <2>2. /\ RequestsFit'
        /\ Doing' = Doing \cup {r} \/ Doing' = Doing \ {r}
    BY <1>1, <1>2, <2>1, OneRequest
  <2>3. (allowed \in R!Ages)' /\ Sorted(allowed)'
    <3>1. R!Now(allowed) \in R!Ages /\ Sorted(R!Now(allowed))
      BY <1>2, NowAndOlder
    <3> QED BY <1>5, <3>1 DEF Sorted, R!Ages
  <2>4. WindowFits(bucket, allowed)'
    <3>1. WindowFits(hit.bucket, R!Now(allowed))
      BY <1>2, <1>5, AllowedFits
    <3> QED BY <1>1, <1>5, <3>1 DEF WindowFits, Used
  <2>5. WorkFollowsHits'
    <3>1. Cardinality(Doing') = p \/ Cardinality(Doing') = p + 1
      BY <1>3, <2>2, DoingCounts
    <3> HIDE DEF p
    <3>2. Follows(p, R!Now(allowed), worked) /\ Follows(p + 1, R!Now(allowed), worked)
      BY <1>2, HitFollows
    <3> QED BY <1>1, <1>5, <3>1, <3>2 DEF WorkFollowsHits, Follows
  <2> QED BY <1>2, <1>4, <1>5, <2>2, <2>3, <2>4, <2>5 DEF LimitsInv
<1>6. CASE ~hit.ok /\ R!Ends(r) /\ spurious' = (spurious \/ allowed[Limit] > Window) /\ UNCHANGED allowed
  <2>1. requests' = [requests EXCEPT ![r] = Quiet] /\ ~InHand(Quiet)
    BY <1>6 DEF R!Ends, InHand
  <2>2. RequestsFit' /\ Doing' = Doing \ {r}
    BY <1>1, <1>2, <2>1, OneRequest
  <2>3. Doing' = Doing
    BY <1>3, <2>2, DoingCounts
  <2>4. WorkFollowsHits'
    BY <1>1, <1>2, <1>6, <2>3 DEF WorkFollowsHits, Follows
  <2>5. WindowFits(hit.bucket, allowed) /\ ~(allowed[Limit] > Window)
    BY <1>2, <1>6, RefusedFits
  <2>6. WindowFits(bucket, allowed)' /\ ~spurious'
    BY <1>1, <1>2, <1>6, <2>5 DEF WindowFits, Used
  <2>7. (allowed \in R!Ages)' /\ Sorted(allowed)'
    BY <1>2, <1>6 DEF Sorted, R!Ages
  <2> QED BY <1>4, <2>2, <2>4, <2>6, <2>7 DEF LimitsInv
<1>7. \/ hit.ok /\ R!Goes(r) /\ allowed' = R!Now(allowed) /\ UNCHANGED spurious
      \/ ~hit.ok /\ R!Ends(r) /\ spurious' = (spurious \/ allowed[Limit] > Window) /\ UNCHANGED allowed
  BY DEF R!Consume
<1> QED BY <1>5, <1>6, <1>7
-----------------------------------------------------------------------------
\* The rest of a way: its work comes after the hit of its bucket.
LEMMA RestOfAWay ==
  ASSUME NEW way, WayFits(way), way # <<>>, Head(way).kind = "do" \/ Head(way).key # watched
  PROVE  WayFits(Tail(way)) /\ ~InHand(Tail(way))
<1>1. /\ WayFits(Tail(way))
      /\ Tail(way) # <<>> /\ Head(Tail(way)).kind = "do" => Head(way) = [Head(Tail(way)) EXCEPT !.kind = "hit"]
  BY TailFits
<1> DEFINE rest == Tail(way)
<1> HIDE DEF rest
<1>2. ASSUME InHand(rest) PROVE FALSE
  <2>1. rest # <<>> /\ Head(rest).kind = "do" /\ Head(rest).key = watched
    BY <1>2 DEF InHand
  <2>2. Head(rest) \in Step
    <3>1. rest \in Seq(Step)
      BY <1>1 DEF WayFits, rest
    <3> QED BY <2>1, <3>1
  <2>3. Head(way) = [Head(rest) EXCEPT !.kind = "hit"]
    BY <1>1, <2>1 DEF rest
  <2>4. Head(way).kind = "hit" /\ Head(way).key = watched
    BY <2>1, <2>2, <2>3 DEF Step
  <2> QED BY <2>4
<1> QED BY <1>1, <1>2 DEF rest

LEMMA WorkKeepsLimits ==
  ASSUME LimitsInv, NEW r \in Requests, R!Work(r)
  PROVE  LimitsInv'
<1> DEFINE way == requests[r]
           p   == Cardinality(Doing)
<1>1. /\ way # Quiet /\ way # <<>> /\ Head(way).kind = "do"
      /\ requests' = [requests EXCEPT ![r] = Tail(way)]
      /\ worked' = IF Head(way).key = watched THEN R!Now(worked) ELSE worked
      /\ UNCHANGED <<limiter, watched, bucket, allowed, spurious>>
  BY DEF R!Work, R!At, R!Goes
<1>2. WayFits(Tail(way)) /\ ~InHand(Tail(way))
  BY <1>1, RestOfAWay DEF LimitsInv, RequestsFit
<1>3. CASE Head(way).key # watched
  BY <1>1, <1>2, <1>3, OtherRequests
<1>4. CASE Head(way).key = watched
  <2>1. r \in Doing
    BY <1>1, <1>4 DEF Doing, R!At
  <2>2. RequestsFit' /\ Doing' = Doing \ {r}
    BY <1>1, <1>2, OneRequest DEF LimitsInv
  <2>3. worked' = R!Now(worked) /\ R!Now(worked) \in R!Ages /\ Sorted(R!Now(worked))
    BY <1>1, <1>4, NowAndOlder DEF LimitsInv
  <2>4. WorkFollowsHits'
    <3>1. Cardinality(Doing') = p - 1 /\ p >= 1 /\ p \in Nat /\ Follows(p, allowed, worked)
      BY <2>1, <2>2, DoingCounts DEF LimitsInv, WorkFollowsHits
    <3> HIDE DEF p
    <3>2. Follows(p - 1, allowed, R!Now(worked))
      BY <3>1, WorkFollows DEF LimitsInv
    <3> QED BY <1>1, <2>3, <3>1, <3>2 DEF WorkFollowsHits, Follows
  <2>5. WindowFits(bucket, allowed)'
    BY <1>1 DEF LimitsInv, WindowFits, Used
  <2>6. (worked \in R!Ages)' /\ Sorted(worked)'
    BY <2>3 DEF Sorted, R!Ages
  <2>7. /\ (limiter \in R!Limiters)' /\ (watched \in R!Keys)' /\ (bucket \in R!Bucket)' /\ ~spurious'
        /\ (allowed \in R!Ages)' /\ Sorted(allowed)'
    BY <1>1 DEF LimitsInv, Sorted, R!Limiters, R!Bucket, R!Ages, R!Keys, R!AddressBuckets
  <2> QED BY <2>2, <2>4, <2>5, <2>6, <2>7 DEF LimitsInv
<1> QED BY <1>3, <1>4

LEMMA MovesKeepLimits ==
  ASSUME LimitsInv, NEW r \in Requests, R!Arrive(r) \/ R!ConsumeOther(r) \/ R!Leave(r)
  PROVE  LimitsInv'
<1>1. ~InHand(Quiet)
  BY DEF InHand
<1>2. CASE R!Arrive(r)
  <2>1. PICK route \in R!Routes, caller \in R!Caller : requests' = [requests EXCEPT ![r] = R!Way(route, caller)]
    BY <1>2 DEF R!Arrive
  <2> DEFINE way == R!Way(route, caller)
  <2>2. IsAWay(way)
    BY RoutesAreWays
  <2> HIDE DEF way
  <2>3. WayFits(way) /\ ~InHand(way)
    <3>1. WayFits(way) /\ (way # <<>> => way[1].kind = "hit")
      BY <2>2 DEF IsAWay
    <3>2. way # <<>> => Head(way) = way[1]
      BY <3>1 DEF WayFits
    <3> QED BY <3>1, <3>2 DEF InHand
  <2>4. UNCHANGED <<limiter, watched, bucket, allowed, worked, spurious>>
    BY <1>2 DEF R!Arrive
  <2> QED BY <2>1, <2>3, <2>4, OtherRequests DEF way
<1>3. CASE R!ConsumeOther(r)
  <2> DEFINE way == requests[r]
  <2>1. /\ way # Quiet /\ way # <<>> /\ Head(way).key # watched
        /\ UNCHANGED <<limiter, watched, bucket, allowed, worked, spurious>>
        /\ \/ requests' = [requests EXCEPT ![r] = Tail(way)]
           \/ requests' = [requests EXCEPT ![r] = Quiet]
    BY <1>3 DEF R!ConsumeOther, R!At, R!Goes, R!Ends
  <2>2. WayFits(Tail(way)) /\ ~InHand(Tail(way))
    BY <2>1, RestOfAWay DEF LimitsInv, RequestsFit
  <2> HIDE DEF way
  <2>3. CASE requests' = [requests EXCEPT ![r] = Tail(way)]
    BY <2>1, <2>2, <2>3, OtherRequests
  <2>4. CASE requests' = [requests EXCEPT ![r] = Quiet]
    BY <1>1, <2>1, <2>4, OtherRequests
  <2> QED BY <2>1, <2>3, <2>4
<1>4. CASE R!Leave(r)
  BY <1>1, <1>4, OtherRequests DEF R!Leave, R!Ends
<1> QED BY <1>2, <1>3, <1>4

LEMMA TimeKeepsLimits ==
  ASSUME LimitsInv, R!Alarm \/ R!Tick
  PROVE  LimitsInv'
<1>1. /\ UNCHANGED <<limiter, watched, requests, spurious>>
      /\ RequestsFit /\ limiter \in R!Limiters /\ watched \in R!Keys /\ ~spurious
      /\ bucket \in R!Bucket /\ WindowFits(bucket, allowed)
      /\ allowed \in R!Ages /\ worked \in R!Ages /\ Sorted(allowed) /\ Sorted(worked)
  BY DEF LimitsInv, R!Alarm, R!Tick
<1>2. RequestsFit' /\ (limiter \in R!Limiters)' /\ (watched \in R!Keys)' /\ ~spurious' /\ Doing' = Doing
  BY <1>1 DEF RequestsFit, R!Limiters, R!Keys, R!AddressBuckets, Doing, R!At
<1>3. CASE R!Alarm
  <2>1. /\ bucket' = [count |-> 0, left |-> -1] /\ bucket.left <= 0 /\ allowed' = allowed /\ worked' = worked
    BY <1>3 DEF R!Alarm
  <2>2. bucket' \in R!Bucket
    BY <2>1, LimitsAreNumbers DEF R!Bucket
  <2>3. WindowFits(bucket, allowed)'
    <3>1. WindowFits([count |-> 0, left |-> -1], allowed)
      BY <1>1, <2>1, ClearedFits
    <3> QED BY <2>1, <3>1 DEF WindowFits, Used
  <2>4. WorkFollowsHits'
    BY <1>2, <2>1 DEF LimitsInv, WorkFollowsHits, Follows
  <2>5. (allowed \in R!Ages)' /\ (worked \in R!Ages)' /\ Sorted(allowed)' /\ Sorted(worked)' /\ (bucket \in R!Bucket)'
    BY <1>1, <2>1, <2>2 DEF Sorted, R!Ages, R!Bucket
  <2> QED BY <1>2, <2>3, <2>4, <2>5 DEF LimitsInv
<1>4. CASE R!Tick
  <2>1. /\ bucket' = [bucket EXCEPT !.left = IF @ < 0 THEN @ ELSE @ - 1]
        /\ allowed' = R!Older(allowed) /\ worked' = R!Older(worked)
    BY <1>4 DEF R!Tick
  <2>2. Doing = {}
    BY <1>4 DEF R!Tick, Doing
  <2>3. Cardinality(Doing) = 0
    BY <2>2, FS_EmptySet
  <2>4. bucket' \in R!Bucket /\ WindowFits(bucket', R!Older(allowed))
    BY <1>1, <2>1, OlderFits
  <2>5. WindowFits(bucket, allowed)'
    BY <2>1, <2>4 DEF WindowFits, Used
  <2>6. WorkFollowsHits'
    <3>1. Follows(0, R!Older(allowed), R!Older(worked))
      BY <1>1, <2>3, OlderFollows DEF LimitsInv, WorkFollowsHits
    <3> QED BY <1>2, <2>1, <2>3, <3>1 DEF WorkFollowsHits, Follows
  <2>7. /\ R!Older(allowed) \in R!Ages /\ Sorted(R!Older(allowed))
        /\ R!Older(worked) \in R!Ages /\ Sorted(R!Older(worked))
    BY <1>1, NowAndOlder
  <2>8. (allowed \in R!Ages)' /\ (worked \in R!Ages)' /\ Sorted(allowed)' /\ Sorted(worked)' /\ (bucket \in R!Bucket)'
    BY <2>1, <2>4, <2>7 DEF Sorted, R!Ages, R!Bucket
  <2> QED BY <1>2, <2>5, <2>6, <2>8 DEF LimitsInv
<1> QED BY <1>3, <1>4

LEMMA LimitsKept == LimitsInv /\ [R!Next]_(R!vars) => LimitsInv'
<1> SUFFICES ASSUME LimitsInv, [R!Next]_(R!vars) PROVE LimitsInv'
  OBVIOUS
<1>1. CASE R!Next
  <2>1. CASE \E r \in Requests : R!Arrive(r) \/ R!Consume(r) \/ R!ConsumeOther(r) \/ R!Work(r) \/ R!Leave(r)
    <3>1. PICK r \in Requests : R!Arrive(r) \/ R!Consume(r) \/ R!ConsumeOther(r) \/ R!Work(r) \/ R!Leave(r)
      BY <2>1
    <3>2. CASE R!Arrive(r) \/ R!ConsumeOther(r) \/ R!Leave(r)
      BY <3>2, MovesKeepLimits
    <3>3. CASE R!Consume(r)
      BY <3>3, HitKeepsLimits
    <3>4. CASE R!Work(r)
      BY <3>4, WorkKeepsLimits
    <3> QED BY <3>1, <3>2, <3>3, <3>4
  <2>2. CASE R!Alarm \/ R!Tick
    BY <2>2, TimeKeepsLimits
  <2> QED BY <1>1, <2>1, <2>2 DEF R!Next
<1>2. CASE UNCHANGED R!vars
  <2>1. UNCHANGED <<limiter, watched, bucket, requests, allowed, worked, spurious>>
    BY <1>2 DEF R!vars
  <2>2. RequestsFit' /\ Doing' = Doing
    BY <2>1 DEF LimitsInv, RequestsFit, Doing, R!At
  <2>3. WorkFollowsHits'
    BY <2>1, <2>2 DEF LimitsInv, WorkFollowsHits, Follows
  <2>4. WindowFits(bucket, allowed)'
    BY <2>1 DEF LimitsInv, WindowFits, Used
  <2>5. /\ (limiter \in R!Limiters)' /\ (watched \in R!Keys)' /\ (bucket \in R!Bucket)' /\ ~spurious'
        /\ (allowed \in R!Ages)' /\ (worked \in R!Ages)' /\ Sorted(allowed)' /\ Sorted(worked)'
    BY <2>1 DEF LimitsInv, Sorted, R!Limiters, R!Bucket, R!Ages, R!Keys, R!AddressBuckets
  <2> QED BY <2>2, <2>3, <2>4, <2>5 DEF LimitsInv
<1> QED BY <1>1, <1>2

LEMMA WorkHasItsHits == LimitsInv => LimitsHold
<1> SUFFICES ASSUME LimitsInv PROVE LimitsHold
  OBVIOUS
<1> DEFINE p    == Cardinality(Doing)
           last == 2 * Limit
<1>1. p \in Nat /\ Follows(p, allowed, worked)
  BY DoingCounts DEF LimitsInv, WorkFollowsHits
<1> HIDE DEF p
<1>2. /\ last \in Slots /\ \A k \in Slots : k \in Nat /\ k >= 1 /\ k <= last
      /\ \A k \in Slots : allowed[k] \in Nat /\ worked[k] \in Nat
  BY LimitsAreNumbers DEF LimitsInv, R!Ages, Slots
<1>3. allowed[last] >= Window
  <2>1. Used(bucket) + Limit \in Slots /\ allowed[Used(bucket) + Limit] >= Window
    BY UsedFits DEF LimitsInv, WindowFits
  <2>2. allowed[Used(bucket) + Limit] <= allowed[last]
    BY <1>2, <2>1 DEF LimitsInv, Sorted
  <2>3. allowed[Used(bucket) + Limit] \in Nat /\ allowed[last] \in Nat
    BY <1>2, <2>1
  <2> QED BY <2>1, <2>2, <2>3, LimitsAreNumbers
<1>4. p < last
  <2>1. last <= p => allowed[last] = 0
    BY <1>1, <1>2 DEF Follows
  <2>2. last \in Nat
    BY <1>2
  <2> HIDE DEF last
  <2> QED BY <1>1, <1>3, <2>1, <2>2, LimitsAreNumbers
<1>5. worked[last] >= Window
  <2>1. last - p \in Slots /\ last = (last - p) + p /\ last - p <= last
    BY <1>1, <1>4, LimitsAreNumbers DEF Slots
  <2>2. allowed[last] <= worked[last - p]
    BY <1>1, <1>2, <2>1 DEF Follows
  <2>3. worked[last - p] <= worked[last]
    BY <1>2, <2>1 DEF LimitsInv, Sorted
  <2>4. allowed[last] \in Nat /\ worked[last - p] \in Nat /\ worked[last] \in Nat
    BY <1>2, <2>1
  <2> HIDE DEF last
  <2> QED BY <1>3, <2>2, <2>3, <2>4, LimitsAreNumbers
<1>6. ASSUME NEW r \in Requests, requests[r] # Quiet, NEW i \in DOMAIN requests[r]
      PROVE  requests[r][i].key \in R!Keys
  <2>1. requests[r] \in Seq(Step)
    BY <1>6 DEF LimitsInv, RequestsFit, WayFits
  <2>2. requests[r][i] \in Step
    BY <1>6, <2>1
  <2> QED BY <2>2 DEF Step
<1>7. R!TypeOK
  BY <1>6 DEF LimitsInv, R!TypeOK
<1> QED BY <1>5, <1>7 DEF LimitsHold, R!LimitsHold, R!WorkIsBounded, R!RefusedOnlyWhenFull, LimitsInv

\* In no span as long as a window is more done for one session, identity, recipient or address
\* than a window allows and the next one but a hit, however the requests of however many callers
\* interleave between a hit and its work, and a limiter refuses nobody whose last window had
\* room (RateLimiterDurableObject.limit, MemoryRateLimiterProvider.limit, the consume calls
\* of app.ts, oauth2/app.ts and api.ts).
THEOREM LimitsBindWhoAsks == R!Spec => []LimitsHold
<1>1. LimitsInv => LimitsHold
  BY WorkHasItsHits
<1>2. LimitsInv /\ [R!Next]_(R!vars) => LimitsInv'
  BY LimitsKept
<1> QED BY LimitsBegin, <1>1, <1>2, PTL DEF R!Spec
==============================================
