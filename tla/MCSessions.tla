----------------------------- MODULE MCSessions -----------------------------
(***************************************************************************)
(* Instances of Sessions for TLC: two sessions of dances and a grant.      *)
(***************************************************************************)
EXTENDS Sessions, TLC

CONSTANT AGrant

MCGrants == {AGrant}

RefreshedOnce == { t \in tokens : t.count = 1 }

OneCallAtATime == \A c, d \in Calls : Busy(c) /\ Busy(d) => c = d

\* No refresh got further than the `count` th.
CountsUpTo(count) ==
  (\A t \in tokens : t.count <= count) /\ \A c \in Calls : Busy(c) => calls[c].count <= count

\* Calls overlap on one session of a dance, to the last refresh; or on two that nobody
\* refreshed and no call raced or broke.  Beside three sessions one call runs at a time, one of
\* them is refreshed, and one broken.
Narrow ==
  \/ \E s \in SessionIds \ Grants : created \subseteq {s}
  \/ Cardinality(created) <= 2 /\ raced = {} /\ broken = {} /\ CountsUpTo(0)
  \/ /\ OneCallAtATime /\ raced = {} /\ CountsUpTo(1)
     /\ Cardinality(broken) <= 1 /\ Cardinality(RefreshedOnce) <= 1

Symmetries == Permutations(Calls) \cup Permutations(SessionIds \ Grants)
=============================================================================
