----------------------------- MODULE MCSocialLogin -----------------------------
(***************************************************************************)
(* Calls that others answer or refuse, for TLC.                            *)
(*                                                                         *)
(* SocialLogin: a provider of OpenID Connect that ignores PKCE, and one of *)
(* OAuth 2.0, with an account of the same id at both; a person signs in at *)
(* either, and two people link an account of the first.                    *)
(*                                                                         *)
(* RequestLimits: the instance of MCRequestLimits.                         *)
(*                                                                         *)
(* They share no state.  Each is explored with the other at rest, so the   *)
(* run holds their states side by side, and not their product.             *)
(***************************************************************************)
EXTENDS MCRequestLimits, SocialLogin, TLC

AllNames == [d1 |-> "corp", d2 |-> "corp", d3 |-> "corp", d4 |-> "hub"]
AllOwners == [d1 |-> "ada", d2 |-> "ada", d3 |-> "bob", d4 |-> "bob"]
AllDances == DOMAIN AllNames
AtHome == {<<"ada", "corp", "s1">>, <<"bob", "hub", "s1">>}

ASSUME SocialLoginAssumption
-----------------------------------------------------------------------------
LoginsInit == Init /\ R!Init

LoginsNext ==
  \/ NoRequest /\ Next /\ UNCHANGED limits
  \/ Init /\ R!Next /\ UNCHANGED vars

LoginsSpec == LoginsInit /\ [][LoginsNext]_<<vars, limits>>

Symmetries == Permutations(Requests) \cup Permutations(SecretRoutes)
=============================================================================
