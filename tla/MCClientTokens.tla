---------------------------- MODULE MCClientTokens ----------------------------
(***************************************************************************)
(* An instance of ClientTokens for TLC: two calls of a page, and two       *)
(* sessions that are exchanged once each.                                  *)
(***************************************************************************)
EXTENDS Naturals

CONSTANTS PageCalls, Logins, MaxExchanges, Nothing, Over, Hidden, Unissued, Revoked

VARIABLES memory, restoring, read, refreshing, pageCalls, exchanges, writes, saved, shown, server,
          lost, chosen, overtaken, adrift

Page == INSTANCE ClientTokens
          WITH Calls <- PageCalls, Sessions <- Logins, MaxCount <- MaxExchanges,
               None <- Nothing, Idle <- Over, Unmounted <- Hidden, Unborn <- Unissued, Gone <- Revoked,
               calls <- pageCalls, store <- saved

\* What stands for nothing, or for a session that is over, is told from the rest.
ASSUME PageAssumption == Page!ClientTokensAssumption

\* Until the hook is mounted only one sign-in or clearTokens runs, and no call begins once
\* an exchange has overtaken a choice or each session is lost, until the page opens again.
\* No step that fairness speaks of is left out.
NarrowPage ==
  /\ shown' = Hidden => \A c \in PageCalls : pageCalls'[c] # Over =>
       pageCalls'[c].op \in {"signIn", "clear"} /\ \A d \in PageCalls \ {c} : pageCalls'[d] = Over
  /\ overtaken \/ lost = Logins => \A c \in PageCalls : pageCalls[c] = Over => pageCalls'[c] = Over

NarrowPageSpec == Page!Init /\ [][Page!Next /\ NarrowPage]_(Page!vars) /\ Page!Fairness

\* Calls that run beside each other end no session of their owner (client.ts).
HonestSessionsSurvive == Page!HonestSessionsSurvive

\* The client, its store and the page hold the session the owner chose (client.ts, react.ts).
OneSessionIsShown == Page!OneSessionIsShown

\* No call of the client waits for an exchange that is over (client.ts).
Settles == Page!Settles
=============================================================================
