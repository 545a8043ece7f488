------------------------------ MODULE MCDance ------------------------------
(***************************************************************************)
(* The walk of a policy and the dances over one, for TLC.                  *)
(*                                                                         *)
(* Dance: two identities, a policy with a branch at the first and at the   *)
(* second step, a gate before the identification, a step that can be       *)
(* skipped, and an account of another server as a second identification.   *)
(*                                                                         *)
(* PolicyWalk: every policy of two levels over three components, with two  *)
(* children to a node, and the longer policies the documentation gives as  *)
(* examples, over four.                                                    *)
(*                                                                         *)
(* The two share no state.  A walk starts while no dance has, and dances   *)
(* while the walk is the empty one, so the run holds the states of both    *)
(* side by side, and not their product.                                    *)
(***************************************************************************)
EXTENDS Dance, TLC

Components == {"email", "otp", "password", "google", "pow", "policy"}

KindOf ==
  "email" :> "address" @@ "otp" :> "code" @@ "password" :> "secret"
    @@ "google" :> "account" @@ "pow" :> "gate" @@ "policy" :> "consent"

EmailCarries == "email" :> "email" @@ "otp" :> "email"

\* sequence("email", choice("otp", "google"), "policy") and a sign-in that
\* starts with a proof of work.
Branches ==
  { <<"email", "otp", "policy">>, <<"email", "google", "policy">>,
    <<"pow", "email", "password">> }

VARIABLES policy, dance, walked, path, satisfied, skipped, over

Tree == INSTANCE Choreography WITH End <- None

Leaves == { Tree!Component(name) : name \in {"email", "password", "policy"} }

Pairs(children) ==
  UNION { { Tree!Sequence(<<a, b>>), Tree!Choice(<<a, b>>) } : a, b \in children }

\* The empty policy and the nodes of one child, which simplify removes.
Thin == { Tree!Sequence(<<>>) } \cup UNION { { Tree!Sequence(<<a>>), Tree!Choice(<<a>>) } : a \in Pairs(Leaves) }

Step(name) == Tree!Component(name)

LongPolicies ==
  { Tree!Sequence(<<Step("email"), Step("password"), Step("totp")>>),
    Tree!Sequence(<<Step("email"), Step("password"), Step("policy"), Step("policy")>>),
    Tree!Sequence(<<Step("policy"), Step("email"), Step("password"), Step("policy")>>),
    Tree!Sequence(<<Step("email"), Tree!Pick(2, <<Step("password"), Step("totp"), Step("policy")>>)>>),
    Tree!Choice(<<Tree!Sequence(<<Step("email"), Step("password")>>),
             Tree!Sequence(<<Step("email"), Step("password"), Step("totp")>>)>>),
    Tree!Sequence(<<Step("email"), Tree!Choice(<<Step("password"), Step("totp")>>),
               Tree!Choice(<<Step("password"), Step("totp")>>)>>),
    Tree!Sequence(<<Step("email"),
               Tree!Choice(<<Tree!Sequence(<<Step("password"), Step("totp")>>),
                        Tree!Sequence(<<Step("totp"), Step("policy")>>)>>),
               Step("policy")>>) }

\* A policy with a dead end is accepted and cannot be completed through it; no
\* property is claimed of it.
AllPolicies ==
  { tree \in Leaves \cup Thin \cup Pairs(Leaves \cup Pairs(Leaves)) \cup LongPolicies :
      Tree!HasNoDeadEnd(tree) }

walk == <<policy, dance, walked, path, satisfied, skipped, over>>

W == INSTANCE PolicyWalk
       WITH End <- None, TheSignIn <- "sign-in", Policies <- AllPolicies,
            Identifications <- {"email"}, Proving <- {"password", "totp"},
            VerifiableNames <- {"email"}, SkippableNames <- {"policy"}

FirstWalk ==
  /\ policy = Tree!Sequence(<<Step("email"), Step("password")>>) /\ dance = "sign-in" /\ walked = policy
  /\ path = <<>> /\ satisfied = {} /\ skipped = {} /\ over = FALSE

DancesInit == Init /\ W!Init

DancesSpec ==
  /\ DancesInit
  /\ [][\/ FirstWalk /\ Next /\ UNCHANGED walk
        \/ Init /\ W!Next /\ UNCHANGED vars]_<<vars, walk>>

Symmetries == UNION { Permutations(s) : s \in {Identities, Values, Dances, Codes} }

\* What a person goes through is the policy of the deployment (choreography.ts, #acceptStep).
WalkIsThePolicy == W!WalkIsThePolicy
=============================================================================
