---------------------------- MODULE SocialLogin ----------------------------
(***************************************************************************)
(* An account at another server as a step of a dance: the authorization    *)
(* the prompt starts, the redirect that answers it, the exchange of its    *)
(* code and the account it names (components/oauth2.ts), with the          *)
(* discovery document and the nonce of OpenID Connect (components/oidc.ts  *)
(* and the providers of components/oauth2/).                               *)
(*                                                                         *)
(* An authorization is a number: the `state`, the PKCE verifier and the    *)
(* nonce are drawn together, and a dance draws 1, 2, and so on.  A code is *)
(* what a provider hands to the page of the redirect.  Codes of several    *)
(* authorizations are in the same browser, in tabs and in the history, so  *)
(* the page may submit any of them with any state.                         *)
(*                                                                         *)
(* External: a provider issues a code to the owner of an account, for the  *)
(* authorization the owner saw, and takes it one time.  An ID token        *)
(* carries the nonce of the authorization its code was issued for.         *)
(***************************************************************************)
EXTENDS Naturals, FiniteSets

CONSTANTS
  Names,          \* the steps, one for each provider
  Pkce, Oidc,     \* the providers that check the PKCE verifier, and that give an ID token
  Discovered,     \* the ones with endpoints from a discovery document
  Subs,           \* ids of accounts: two providers may give the same one
  Dances, NameOf, IdentityOf,
  Links,          \* the dances that link an account; the others look for its holder
  Home,           \* the accounts that identities hold at the start
  Calls,
  MaxPrompts,     \* bound: the prompts
  MaxCodes,       \* bound: the codes
  Idle

Identities == { IdentityOf[d] : d \in Dances }

Authorizations == Dances \X (1..MaxPrompts)

\* The owner of account `sub` agreed to an authorization.
Code == [for : Authorizations, sub : Subs]

\* A call under way: a prompt, or a submit of `code` with `state` against the authorization
\* `read`.  `code` is {} for a prompt.
Call == [pc : {"prompt", "endpoints", "exchange", "lookup", "write"}, dance : Dances,
         state : 0..MaxPrompts, read : 0..MaxPrompts, code : SUBSET Code]

\* A provider binds a code to its authorization in one way at least.
SocialLoginAssumption ==
  /\ NameOf \in [Dances -> Names] /\ Links \subseteq Dances
  /\ Names = Pkce \cup Oidc /\ Discovered \subseteq Oidc
  /\ Home \subseteq Identities \X Names \X Subs
  /\ \A h, g \in Home : h[2] = g[2] /\ h[3] = g[3] => h = g
  /\ MaxPrompts \in Nat /\ MaxCodes \in Nat
  /\ Idle \notin Call

VARIABLES
  kv,         \* oauth2/<state>/<name>: the authorization in progress, or 0
  issued,     \* the authorizations drawn in each dance
  discovery,  \* the document of a provider: "none", "reading" or "kept"
  codes,      \* external: the codes of the redirects
  spent,      \* external: the codes a provider took
  holders,    \* the accounts of the identities
  calls,
  signedIn,   \* history: the sign-ins, <<identity, dance, authorization, sub>>
  over,       \* history: the dances whose last authorization got an answer with its state,
              \* outlived its time, or went with an older one that a call had read
  raced       \* history: the accounts two identities asked for before either had it

history == <<signedIn, over, raced>>
vars == <<kv, issued, discovery, codes, spent, holders, calls, history>>
-----------------------------------------------------------------------------
Init ==
  /\ kv = [d \in Dances |-> 0] /\ issued = [d \in Dances |-> 0]
  /\ discovery = [p \in Discovered |-> "none"]
  /\ codes = {} /\ spent = {}
  /\ holders = Home
  /\ calls = [c \in Calls |-> Idle]
  /\ signedIn = {} /\ over = {} /\ raced = {}

Busy(c, pc) == calls[c] # Idle /\ calls[c].pc = pc

Drop(c) == calls' = [calls EXCEPT ![c] = Idle]
Go(c, pc) == calls' = [calls EXCEPT ![c].pc = pc]

Drawn == { authorization \in Authorizations : authorization[2] <= issued[authorization[1]] }
-----------------------------------------------------------------------------
(* The endpoints.  The first call reads the discovery document, and all of *)
(* them wait for that one read.                                            *)

Waits(c, name) == calls[c] # Idle /\ calls[c].pc \in {"prompt", "endpoints"} /\ NameOf[calls[c].dance] = name

Begin(c, call) ==
  /\ calls[c] = Idle
  /\ calls' = [calls EXCEPT ![c] = call]
  /\ LET name == NameOf[call.dance] IN
     discovery' = IF name \in Discovered /\ discovery[name] = "none" THEN [discovery EXCEPT ![name] = "reading"]
                  ELSE discovery

Ready(c) == LET name == NameOf[calls[c].dance] IN name \in Discovered => discovery[name] = "kept"

Discover(name) ==
  /\ discovery[name] = "reading"
  /\ discovery' = [discovery EXCEPT ![name] = "kept"]
  /\ UNCHANGED <<kv, issued, codes, spent, holders, calls, history>>

Forgotten(name) == [discovery EXCEPT ![name] = "none"]

\* The provider does not answer, or answers a document of another issuer or without endpoints.
\* The calls that wait fail with the read.
DiscoveryFails(name) ==
  /\ discovery[name] = "reading"
  /\ discovery' = Forgotten(name)
  /\ calls' = [c \in Calls |-> IF Waits(c, name) THEN Idle ELSE calls[c]]
  /\ UNCHANGED <<kv, issued, codes, spent, holders, history>>
-----------------------------------------------------------------------------
(* The prompt and what the owner of an account does with it.               *)

Prompt(c, d) ==
  /\ Begin(c, [pc |-> "prompt", dance |-> d, state |-> 0, read |-> 0, code |-> {}])
  /\ UNCHANGED <<kv, issued, codes, spent, holders, history>>

\* The authorization takes the place of an earlier one of the step.
Stores(d) ==
  /\ issued' = [issued EXCEPT ![d] = @ + 1]
  /\ kv' = [kv EXCEPT ![d] = issued[d] + 1]

\* getPrompt, once it has the endpoints.
Draw(c) ==
  /\ Busy(c, "prompt") /\ Ready(c)
  /\ issued[calls[c].dance] < MaxPrompts /\ Cardinality(Drawn) < MaxPrompts
  /\ Stores(calls[c].dance)
  /\ over' = over \ {calls[c].dance}
  /\ Drop(c)
  /\ UNCHANGED <<discovery, codes, spent, holders, signedIn, raced>>

Lapse(d) ==
  /\ kv[d] # 0
  /\ over' = over \cup {d}
  /\ kv' = [kv EXCEPT ![d] = 0]
  /\ UNCHANGED <<issued, discovery, codes, spent, holders, calls, signedIn, raced>>

\* The owner of an account agrees, on the page of an authorization URL the client was given.
Authorize(authorization, sub) ==
  /\ authorization \in Drawn /\ Cardinality(codes) < MaxCodes
  /\ codes' = codes \cup {[for |-> authorization, sub |-> sub]}
  /\ UNCHANGED <<kv, issued, discovery, spent, holders, calls, history>>
-----------------------------------------------------------------------------
(* The submit: #exchange, and then verifyPrompt or getIdentityComponent.   *)

\* The authorization in progress is the one the redirect names.
InProgress(d, n) == kv[d] # 0 /\ kv[d] = n

Submit(c, d, n, code) ==
  /\ InProgress(d, n)
  /\ Begin(c, [pc |-> "endpoints", dance |-> d, state |-> n, read |-> kv[d], code |-> {code}])
  /\ UNCHANGED <<kv, issued, codes, spent, holders, history>>

\* It answers one time, whatever the provider says about the code.
Unset(c) ==
  /\ Busy(c, "endpoints") /\ Ready(c)
  /\ LET call == calls[c]
         d    == call.dance IN
     /\ kv' = [kv EXCEPT ![d] = 0]
     /\ over' = IF kv[d] # 0 /\ (call.state = kv[d] \/ call.read # kv[d]) THEN over \cup {d} ELSE over
  /\ Go(c, "exchange")
  /\ UNCHANGED <<issued, discovery, codes, spent, holders, signedIn, raced>>

\* External: the token endpoint takes a code it issued for this step, with its verifier.
Takes(code, d, n) ==
  /\ NameOf[code.for[1]] = NameOf[d] /\ code \notin spent
  /\ NameOf[d] \in Pkce => code.for = <<d, n>>

\* A variant with a bug, for SignInsAreAgreed: an ID token of any authorization will do.
VerifiesClaimsAlone(code, d, n) == TRUE

\* verifyToken: the ID token gives the nonce of the authorization back.
Verifies(code, d, n) == NameOf[d] \in Oidc => code.for = <<d, n>>

\* The provider refuses the code or does not answer, or the ID token fails a check.
Refused(c) ==
  /\ Busy(c, "exchange")
  /\ \E code \in calls[c].code : spent' \in {spent, spent \cup {code}}
  /\ Drop(c)
  /\ UNCHANGED <<kv, issued, discovery, codes, holders, history>>

Exchange(c) ==
  /\ Busy(c, "exchange")
  /\ LET call == calls[c] IN
     \E code \in call.code :
       /\ Takes(code, call.dance, call.read) /\ Verifies(code, call.dance, call.read)
       /\ spent' = spent \cup {code}
  /\ Go(c, "lookup")
  /\ UNCHANGED <<kv, issued, discovery, codes, holders, history>>

\* getIdentityByIdentification, for the account of a provider.
Holders(name, sub) == { i \in Identities : <<i, name, sub>> \in holders }

\* verifyPrompt resolves the identity that holds the account.
Resolve(c) ==
  /\ Busy(c, "lookup") /\ calls[c].dance \notin Links
  /\ LET call == calls[c] IN
     \E code \in call.code :
       LET found == Holders(NameOf[call.dance], code.sub) IN
       IF found = {} THEN UNCHANGED signedIn
       ELSE \E i \in found : signedIn' = signedIn \cup {<<i, call.dance, call.read, code.sub>>}
  /\ Drop(c)
  /\ UNCHANGED <<kv, issued, discovery, codes, spent, holders, over, raced>>

\* Another identity holds the account.
Taken(i, name, sub) == Holders(name, sub) \ {i} # {}

\* getIdentityComponent looks whether the account is free.
Check(c) ==
  /\ Busy(c, "lookup") /\ calls[c].dance \in Links
  /\ LET d == calls[c].dance IN
     \E code \in calls[c].code :
       LET rivals == { e \in Calls : Busy(e, "write") /\ IdentityOf[calls[e].dance] # IdentityOf[d]
                                     /\ NameOf[calls[e].dance] = NameOf[d] /\ \E other \in calls[e].code : other.sub = code.sub } IN
       IF Taken(IdentityOf[d], NameOf[d], code.sub) THEN Drop(c) /\ UNCHANGED raced
       ELSE /\ Go(c, "write")
            /\ raced' = IF rivals = {} THEN raced ELSE raced \cup {<<NameOf[d], code.sub>>}
  /\ UNCHANGED <<kv, issued, discovery, codes, spent, holders, signedIn, over>>

\* The flow completes: the account takes the place of the one the identity had.
Write(c) ==
  /\ Busy(c, "write")
  /\ LET i    == IdentityOf[calls[c].dance]
         name == NameOf[calls[c].dance] IN
     \E code \in calls[c].code :
       holders' = (holders \ ({i} \X {name} \X Subs)) \cup {<<i, name, code.sub>>}
  /\ Drop(c)
  /\ UNCHANGED <<kv, issued, discovery, codes, spent, signedIn, over, raced>>

\* A call stops: the store or the process fails, or the flow is given up.
Stop(c) ==
  /\ calls[c] # Idle /\ calls[c].pc \notin {"prompt", "endpoints"}
  /\ Drop(c)
  /\ UNCHANGED <<kv, issued, discovery, codes, spent, holders, history>>

Next ==
  \/ \E name \in Discovered : Discover(name) \/ DiscoveryFails(name)
  \/ \E d \in Dances : Lapse(d)
  \/ \E a \in Authorizations, sub \in Subs : Authorize(a, sub)
  \/ \E c \in Calls :
       \/ Draw(c) \/ Unset(c) \/ Refused(c) \/ Exchange(c) \/ Resolve(c) \/ Check(c) \/ Write(c) \/ Stop(c)
       \/ \E d \in Dances : Prompt(c, d) \/ \E n \in 1..MaxPrompts, code \in codes : Submit(c, d, n, code)

Spec == Init /\ [][Next]_vars
-----------------------------------------------------------------------------
\* Everything has the type its code gives it, and what waits was drawn.
TypeOK ==
  /\ \A d \in Dances : kv[d] \in 0..issued[d]
  /\ discovery \in [Discovered -> {"none", "reading", "kept"}]
  /\ spent \subseteq codes /\ codes \subseteq [for : Drawn, sub : Subs]
  /\ holders \subseteq Identities \X Names \X Subs
  /\ signedIn \subseteq Identities \X Dances \X (1..MaxPrompts) \X Subs
  /\ calls \in [Calls -> Call \cup {Idle}]
  /\ over \subseteq Dances

\* The owner of an account agreed to link it to an identity, in a dance of that identity.
Agreed(i, name, sub) ==
  \/ <<i, name, sub>> \in Home
  \/ \E d \in Links, n \in 1..MaxPrompts :
       IdentityOf[d] = i /\ NameOf[d] = name /\ [for |-> <<d, n>>, sub |-> sub] \in codes

\* A sign-in proves its account from end to end (oauth2.ts:376 and 451, oidc.ts:199): the owner
\* agreed to this very authorization, and agreed before to link the account, at this provider,
\* to the identity it resolves.  Whichever codes and states a browser mixes up, whether PKCE
\* or the nonce binds them, and also where two providers give the same id to two persons.
SignInsAreAgreed ==
  \A s \in signedIn :
    /\ [for |-> <<s[2], s[3]>>, sub |-> s[4]] \in codes
    /\ Agreed(s[1], NameOf[s[2]], s[4])

\* The last authorization of a dance stands until an answer gives its state back
\* (oauth2.ts:157-159) or its time passes; a provider that is down does not use it up.  Only a
\* submit of an older one, that was under way when it was drawn, takes it along.
StandsForItsAnswer ==
  \A d \in Dances :
    issued[d] # 0 /\ d \notin over => kv[d] = issued[d]

\* A read of the discovery document that failed is not kept (oidc.ts:76): whenever one is under
\* way, a call waits for it, so the next prompt reads the document again.
OutageIsNotKept ==
  \A name \in Discovered : discovery[name] = "reading" => \E c \in Calls : Waits(c, name)

\* An account belongs to one identity (oauth2.ts:425), unless two asked for it before either
\* had it: the look and the write are apart.
AccountsHaveOneOwner ==
  \A name \in Names, sub \in Subs :
    (\A i, j \in Holders(name, sub) : i = j) \/ <<name, sub>> \in raced

\* Who signs in with an account is its owner, who is never stuck with an authorization that
\* went without an answer.
AccountsAreTheOwners ==
  TypeOK /\ SignInsAreAgreed /\ StandsForItsAnswer /\ OutageIsNotKept /\ AccountsHaveOneOwner
=============================================================================
