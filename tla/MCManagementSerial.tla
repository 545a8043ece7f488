-------------------------- MODULE MCManagementSerial --------------------------
(***************************************************************************)
(* One call at a time, for TLC.                                            *)
(*                                                                         *)
(* Management: the instance of MCManagement.                               *)
(*                                                                         *)
(* Flows: the policy of the demo, in which a code proves the address of a  *)
(* sign-up; two states, and an identity whose address the holder of the    *)
(* session may not read.                                                   *)
(*                                                                         *)
(* They share no state.  Each is explored with the other at rest, so the   *)
(* run holds their states side by side, and not their product.             *)
(***************************************************************************)
EXTENDS MCManagement, MCProvenFlows
-----------------------------------------------------------------------------
\* Flows.
CONSTANTS mine, work, theirs

TheNames == {"email", "password", "otp"}
TheKinds == [email |-> "address", password |-> "secret", otp |-> "code"]
ByMail   == [email |-> "mail", otp |-> "mail"]
TheCode  == [email |-> "otp"]
DemoPath == { <<"email", "password", "otp">> }

Kept(kind, name, value, confirmed) ==
  [kind |-> kind, name |-> name, value |-> value, confirmed |-> confirmed]

\* An identity with a password alone, and one whose address the person does not read.
FirstHome == << Kept("challenge", "password", work, TRUE) >>

AllHomes ==
  { FirstHome,
    << Kept("challenge", "password", mine, TRUE), Kept("identification", "email", theirs, TRUE),
       Kept("channel", "mail", theirs, TRUE), Kept("challenge", "otp", theirs, FALSE) >> }
-----------------------------------------------------------------------------
\* Where the calls rest while the flows are explored.
NotManaged ==
  /\ issued = {} /\ resets = 0 /\ \A c \in Calls : calls[c] = Idle
  /\ \A session \in SessionIds : sessions[session] # "ended" /\ era[session] = 0
  /\ Cardinality({ session \in SessionIds : sessions[session] = "live" }) = 1
  /\ \E value \in Values : identity = SignedUp({"password"}, value) /\ latest["password"] = value

NoFlow == states = {} /\ identities[Home] = FirstHome /\ F!Init

SerialInit == Init /\ F!Init

SerialNext ==
  \/ NoFlow /\ Next /\ UNCHANGED flows
  \/ NotManaged /\ F!Next /\ UNCHANGED vars

SerialSpec == SerialInit /\ [][SerialNext]_<<vars, flows>>

Symmetries == ValueSymmetries \cup Permutations(States)
=============================================================================
