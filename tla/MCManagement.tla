---------------------------- MODULE MCManagement ----------------------------
(***************************************************************************)
(* An address with its channel and its code, a password, and a channel     *)
(* that carries no code of the policy.                                     *)
(***************************************************************************)
EXTENDS Management, TLC

Names == {"email", "otp", "password"}

EmailEmits ==
  [ name \in Names |-> IF name = "email" THEN {<<"channel", "mail">>, <<"component", "otp">>} ELSE {} ]

CodeByEmail == "otp" :> "mail"

PasswordAlone == { {"email", "otp"}, {"password"} }

ValueSymmetries == Permutations(SessionIds) \cup Permutations(Calls) \cup Permutations(Values)

\* Bounds: a second session is created while no other call is under way, and nobody goes on
\* from there; a sign-in, or the sign-up again, is submitted beside one flow.
Narrow ==
  /\ Cardinality({ s \in SessionIds : sessions[s] # "new" }) > 1 => \A c \in Calls : calls[c] = Idle
  /\ \A c \in Calls : calls[c] # Idle /\ calls[c].op \in Dances => Cardinality(issued) <= 1

\* The history variables no guard reads are left out of the fingerprint of a
\* state; no invariant of a run with this view is about their values.
WithoutHistory == <<identity, sessions, issued, calls, resets>>
=============================================================================
