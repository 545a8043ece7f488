------------------------------- MODULE MCFlows -------------------------------
(***************************************************************************)
(* Flows for TLC, under a policy of docs/concepts/choreography.mdx: an     *)
(* address, and then a password or a code.                                 *)
(***************************************************************************)
EXTENDS Flows, TLC

CONSTANTS mine, work, theirs

AllNames == {"email", "password", "otp"}
AllKinds == [email |-> "address", password |-> "secret", otp |-> "code"]
ByMail   == [email |-> "mail", otp |-> "mail"]
Codes    == [email |-> "otp"]

PasswordOrCode == { <<"email", "password">>, <<"email", "otp">> }

AllHomes == { << Entry("challenge", "password", work, TRUE) >> }

Symmetries == Permutations(States)
=============================================================================
