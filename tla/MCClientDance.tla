----------------------------- MODULE MCClientDance -----------------------------
(***************************************************************************)
(* An instance of ClientDance for TLC: two flows, three objects, two       *)
(* starts and two actions.  It has the states that another module explores *)
(* beside it.                                                              *)
(***************************************************************************)
EXTENDS Naturals

CONSTANTS Flows, Names, Dances, Starts, Actions, MaxChanges, Nothing

VARIABLES dances, starts, actions, saved, mounted, flow, enabled, held, pending, error, changes, strayed

page == <<dances, starts, actions, saved, mounted, flow, enabled, held, pending, error, changes, strayed>>

D == INSTANCE ClientDance WITH Calls <- Actions, calls <- actions, None <- Nothing

\* What stands for nothing is no object and no call.
ASSUME PageAssumption == D!ClientDanceAssumption

UnderWay == { c \in Actions : actions[c] # Nothing } \cup { s \in Starts : starts[s] # Nothing }

\* Once the options changed for the last time, one call at most is under way, and from the
\* second change on none expires.
NarrowPage ==
  /\ changes = MaxChanges => \A c, d \in UnderWay : c = d
  /\ changes >= 2 => \A d \in Dances : dances[d] # Nothing => dances[d].timer # "fired"

\* The steps of a dance are of one dance, and the snapshot is one the page held (client.ts).
DanceIsOne == D!DanceIsOne

\* What the hook shows and drops is of the flow of its node (react.ts).
HookShowsTheFlow == D!HookShowsTheFlow
=============================================================================
