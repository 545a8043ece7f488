--------------------------- MODULE MCOneTimeProofs ---------------------------
(***************************************************************************)
(* A dance in the store of the server and in the page, for TLC.            *)
(*                                                                         *)
(* OneTimeProofs, between the calls it makes of the store: a code, two     *)
(* dances with the same authenticator, a proof of work and an account of a *)
(* provider.                                                               *)
(*                                                                         *)
(* ClientDance: the instance of MCClientDance.                             *)
(*                                                                         *)
(* They share no state.  Each is explored with the other at rest, so the   *)
(* run holds their states side by side, and not their product.             *)
(***************************************************************************)
EXTENDS MCClientDance, OneTimeProofs, TLC

CONSTANTS otp, key, spare, pow, social

AllSteps == {otp, key, spare, pow, social}
AllKinds == [s \in AllSteps |->
  CASE s = otp -> "code" [] s \in {key, spare} -> "assertion" [] s = pow -> "work" [] s = social -> "account"]

ASSUME OneTimeProofsAssumption

\* The components share no key, but for the counter of an authenticator: one is looked at
\* at a time, and the authenticator in two dances, with one challenge each and no lapse.
OneComponent ==
  LET active == { s \in AllSteps : issued[s] > 0 } IN
  /\ Cardinality(active) <= 1 \/ (active = {key, spare} /\ lapsed = {})
  /\ issued[key] <= 1 /\ issued[spare] <= 1
  /\ clock > 0 \/ spent # None => active = {}
-----------------------------------------------------------------------------
Narrow == OneComponent /\ NarrowPage

DancesInit == Init /\ D!Init

DancesNext ==
  \/ D!Init /\ Next /\ UNCHANGED page
  \/ Init /\ D!Next /\ UNCHANGED vars

DancesSpec == DancesInit /\ [][DancesNext]_<<vars, page>>

Symmetries == Permutations(Flows) \cup Permutations(Names) \cup Permutations(Dances)
                \cup Permutations(Starts) \cup Permutations(Actions)
=============================================================================
