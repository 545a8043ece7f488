----------------------------- MODULE ClientTokens -----------------------------
(***************************************************************************)
(* The tokens of AuthDanceClient (src/client.ts) on one page, and what the *)
(* hook useAuthDanceTokens (src/react.ts) shows of them.  Calls of the     *)
(* client run beside each other: each await is a place where another call, *)
(* the answer of the server or the store gets in between.  The page may be *)
(* reloaded at any time, which leaves the store and the server.            *)
(*                                                                         *)
(* The store answers in the order it was asked, as web storage does.  The  *)
(* server is what Sessions shows of it: a session, and the number of times *)
(* it was exchanged.                                                       *)
(***************************************************************************)
EXTENDS Naturals, Sequences

CONSTANTS
  Calls, Sessions,
  MaxCount,        \* bound: the exchanges of one session
  None, Idle, Unmounted, Unborn, Gone

\* The tokens of a session after `count` exchanges.
Tokens == [session : Sessions, count : 0..MaxCount]

\* A call of the client: authenticated routes, refreshTokens, signOut, the last submitPrompt
\* of a sign-in, and clearTokens.  A "joined" call waits for the exchange `on`.
Operations == {"request", "refresh", "signOut", "signIn", "clear"}
Call == [op : Operations, pc : {"restore", "joined", "resume", "sent", "answered", "clear", "storing"},
         on : Calls \cup {None}, tokens : Tokens \cup {None}]

\* #refreshTokens, under the call that started it.
Exchange == [pc : {"restore", "sent", "answered", "refused", "storing"}, tokens : Tokens \cup {None}]

Write == [value : Tokens \cup {None}, by : Calls, exchange : BOOLEAN]

ClientTokensAssumption ==
  /\ MaxCount \in Nat
  /\ None \notin Sessions \cup Calls \cup Tokens
  /\ Idle \notin Call \cup Exchange
  /\ Unborn \notin Nat /\ Gone \notin Nat /\ Unborn # Gone

VARIABLES
  memory,      \* #tokens
  restoring,   \* #restoring: not asked, reading the store, holding what it read, resolved or rejected
  read,        \* what the store answered the restore with
  refreshing,  \* #refreshing
  calls, exchanges,
  writes,      \* the sets and deletes the store was asked for
  store,
  shown,       \* the state of useAuthDanceTokens
  server,      \* the exchanges of each session, Unborn or Gone
  lost,        \* history: the sessions the owner signed out of, or whose last tokens never reached the store
  chosen,      \* history: the session the owner last signed in to, None after the owner left
  overtaken,   \* history: the answer of an exchange came after the owner chose otherwise
  adrift       \* history: the last write failed, or the tokens were dropped under a restore

page == <<memory, restoring, read, refreshing, calls, exchanges, writes, shown>>
history == <<lost, chosen, overtaken, adrift>>
vars == <<page, store, server, history>>

SessionOf(tokens) == IF tokens = None THEN None ELSE tokens.session
-----------------------------------------------------------------------------
\* A page that opens over a store that holds tokens or nothing.
Init ==
  /\ memory = None /\ restoring = "no" /\ read = None /\ refreshing = None
  /\ calls = [c \in Calls |-> Idle] /\ exchanges = [c \in Calls |-> Idle]
  /\ writes = <<>> /\ shown = Unmounted
  /\ store \in [session : Sessions, count : {0}] \cup {None}
  /\ server = [s \in Sessions |-> IF s = SessionOf(store) THEN 0 ELSE Unborn]
  /\ lost = {} /\ chosen = SessionOf(store) /\ overtaken = FALSE /\ adrift = FALSE

\* restore, as the call that first asks for it leaves it.
Restoring == IF restoring # "no" THEN restoring ELSE IF memory # None THEN "done" ELSE "reading"

\* `#restoring ??= Promise.resolve()`.
NoRestore == restoring' = IF restoring = "no" THEN "done" ELSE restoring

\* The store answers the restore, or fails to, which the client keeps for good.
ReadStore ==
  /\ restoring = "reading"
  /\ \/ restoring' = "read" /\ read' = store
     \/ restoring' = "failed" /\ UNCHANGED read
  /\ UNCHANGED <<memory, refreshing, calls, exchanges, writes, shown, store, server, history>>

\* A variant with a bug, for AtRestAllAgree: what the store held wins over a sign-in.
Kept == read

\* `this.#tokens ??= stored`.
Restored == IF memory = None THEN read ELSE memory

\* restore goes on, and the hook renders what the client holds.
Restore ==
  /\ restoring = "read"
  /\ restoring' = "done" /\ memory' = Restored /\ read' = None
  /\ shown' = IF shown = Unmounted THEN shown ELSE Restored
  /\ UNCHANGED <<refreshing, calls, exchanges, writes, store, server, history>>

\* The effect of useAuthDanceTokens.
Mount ==
  /\ shown = Unmounted
  /\ shown' = memory /\ restoring' = Restoring
  /\ UNCHANGED <<memory, read, refreshing, calls, exchanges, writes, store, server, history>>

\* The memory and the queue of the store after setTokens(value), or clearTokens for None.
Hold(value, by, exchange) ==
  /\ memory' = value
  /\ writes' = Append(writes, [value |-> value, by |-> by, exchange |-> exchange])
  /\ adrift' = (value = None /\ restoring \in {"reading", "read"})
-----------------------------------------------------------------------------
\* A variant with a bug, for HonestSessionsSurvive: each call exchanges the tokens itself.
JoinsNone(c) == c

\* The exchange under way, or one the call starts.
Joins(c) == IF refreshing = None THEN c ELSE refreshing

Join(c, op) ==
  LET on == Joins(c) IN
  /\ calls' = [calls EXCEPT ![c] = [op |-> op, pc |-> "joined", on |-> on, tokens |-> None]]
  /\ refreshing' = on
  /\ exchanges' = IF on = c THEN [exchanges EXCEPT ![c] = [pc |-> "restore", tokens |-> None]] ELSE exchanges

\* A call begins.  refreshTokens joins before it awaits anything.
Begin(c, op) ==
  /\ calls[c] = Idle
  /\ IF op = "refresh"
     THEN Join(c, op) /\ restoring' = IF Joins(c) = c THEN Restoring ELSE restoring
     ELSE /\ calls' = [calls EXCEPT ![c] =
                         [op |-> op, on |-> None, tokens |-> None,
                          pc |-> IF op = "signIn" THEN "sent" ELSE IF op = "clear" THEN "clear" ELSE "restore"]]
          /\ restoring' = IF op \in {"request", "signOut"} THEN Restoring ELSE restoring
          /\ UNCHANGED <<refreshing, exchanges>>
  /\ UNCHANGED <<memory, read, writes, shown, store, server, history>>

\* How a call goes on when its access token cannot be had: only signOut drops the tokens then.
Failed(call) == IF call.op = "signOut" THEN [call EXCEPT !.pc = "clear", !.on = None] ELSE Idle

Sent(call) == [call EXCEPT !.pc = "sent", !.on = None, !.tokens = memory]

\* #accessToken of request and signOut, once the restore is over: a failed one ends the
\* call, and so does a client without tokens.  Expired tokens are exchanged first.
Ask(c) ==
  /\ calls[c] # Idle /\ calls[c].pc = "restore" /\ restoring \in {"done", "failed"}
  /\ \/ /\ restoring = "failed" \/ memory = None
        /\ calls' = [calls EXCEPT ![c] = Idle]
        /\ UNCHANGED <<refreshing, exchanges>>
     \/ /\ restoring = "done" /\ memory # None
        /\ \/ Join(c, calls[c].op)
           \/ /\ calls' = [calls EXCEPT ![c] = Sent(calls[c])]
              /\ UNCHANGED <<refreshing, exchanges>>
  /\ UNCHANGED <<memory, restoring, read, writes, shown, store, server, history>>

\* The rest of #accessToken after an exchange: `this.#tokens!` may be undefined by now.
Resume(c) ==
  /\ calls[c] # Idle /\ calls[c].pc = "resume"
  /\ calls' = [calls EXCEPT ![c] = IF memory = None THEN Failed(calls[c]) ELSE Sent(calls[c])]
  /\ UNCHANGED <<memory, restoring, read, refreshing, exchanges, writes, shown, store, server, history>>

\* The server answers, or refuses, or does not answer, a call other than an exchange.
Answer(c) ==
  /\ calls[c] # Idle /\ calls[c].pc = "sent"
  /\ \/ /\ calls[c].op = "request"
        /\ calls' = [calls EXCEPT ![c] = Idle]
        /\ UNCHANGED <<server, lost>>
     \/ /\ calls[c].op = "signOut"
        /\ calls' = [calls EXCEPT ![c].pc = "clear"]
        /\ \/ /\ server' = [server EXCEPT ![calls[c].tokens.session] = Gone]
              /\ lost' = lost \cup {calls[c].tokens.session}
           \/ UNCHANGED <<server, lost>>
     \/ /\ calls[c].op = "signIn"
        /\ \/ \E s \in Sessions :
                /\ server[s] = Unborn
                /\ server' = [server EXCEPT ![s] = 0]
                /\ calls' = [calls EXCEPT ![c].pc = "answered", ![c].tokens = [session |-> s, count |-> 0]]
           \/ calls' = [calls EXCEPT ![c] = Idle] /\ UNCHANGED server
        /\ UNCHANGED lost
  /\ UNCHANGED <<memory, restoring, read, refreshing, exchanges, writes, shown, store, chosen, overtaken, adrift>>

\* The tokens of a sign-in become the session of the client.
TakeSession(c) ==
  /\ calls[c] # Idle /\ calls[c].pc = "answered"
  /\ Hold(calls[c].tokens, c, FALSE) /\ NoRestore
  /\ calls' = [calls EXCEPT ![c].pc = "storing"]
  /\ chosen' = calls[c].tokens.session
  /\ UNCHANGED <<read, refreshing, exchanges, shown, store, server, lost, overtaken>>

\* clearTokens, at the end of signOut or on its own.
Clear(c) ==
  /\ calls[c] # Idle /\ calls[c].pc = "clear"
  /\ Hold(None, c, FALSE) /\ NoRestore
  /\ calls' = [calls EXCEPT ![c].pc = "storing"]
  /\ chosen' = None
  /\ UNCHANGED <<read, refreshing, exchanges, shown, store, server, lost, overtaken>>
-----------------------------------------------------------------------------

\* The exchange of d is over: it leaves the slot, and the calls that joined it go on.
Settle(d, ok) ==
  /\ refreshing' = None
  /\ exchanges' = [exchanges EXCEPT ![d] = Idle]
  /\ calls' = [c \in Calls |->
       IF calls[c] = Idle \/ calls[c].on # d THEN calls[c]
       ELSE IF calls[c].op = "refresh" THEN Idle
       ELSE IF ok THEN [calls[c] EXCEPT !.pc = "resume", !.on = None]
       ELSE Failed(calls[c])]

Runs(d, pc) == exchanges[d] # Idle /\ exchanges[d].pc = pc

\* A variant with a bug, for Settles: /refresh-token is called as an authenticated route, so
\* the exchange waits for the exchange under way.
ReadyAlone(d) == restoring \in {"done", "failed"} /\ refreshing # d

Ready(d) == restoring \in {"done", "failed"}

\* #refreshTokens after its restore.
StartExchange(d) ==
  /\ Runs(d, "restore") /\ Ready(d)
  /\ IF restoring = "failed" \/ memory = None
     THEN Settle(d, FALSE)
     ELSE exchanges' = [exchanges EXCEPT ![d] = [pc |-> "sent", tokens |-> memory]] /\ UNCHANGED <<calls, refreshing>>
  /\ UNCHANGED <<memory, restoring, read, writes, shown, store, server, history>>

\* /refresh-token: the last token counts, an older one ends the session, and a session that
\* is gone refuses.  A call that never arrives, or meets a rate limit, changes nothing.
Serve(d) ==
  LET tokens == exchanges[d].tokens
      count == server[tokens.session] IN
  /\ Runs(d, "sent")
  /\ \/ /\ count = tokens.count /\ count < MaxCount
        /\ server' = [server EXCEPT ![tokens.session] = count + 1]
        /\ exchanges' = [exchanges EXCEPT ![d] = [pc |-> "answered", tokens |-> [tokens EXCEPT !.count = count + 1]]]
     \/ /\ count \notin {Gone, tokens.count}
        /\ server' = [server EXCEPT ![tokens.session] = Gone]
        /\ exchanges' = [exchanges EXCEPT ![d].pc = "refused"]
     \/ exchanges' = [exchanges EXCEPT ![d].pc = "refused"] /\ UNCHANGED server
  /\ UNCHANGED <<memory, restoring, read, refreshing, calls, writes, shown, store, history>>

\* The answer of an exchange is lost, or the caller that started it dropped the call.
Lose(d) ==
  /\ Runs(d, "answered")
  /\ exchanges' = [exchanges EXCEPT ![d].pc = "refused"]
  /\ lost' = lost \cup {exchanges[d].tokens.session}
  /\ UNCHANGED <<memory, restoring, read, refreshing, calls, writes, shown, store, server, chosen, overtaken, adrift>>

TakeExchange(d) ==
  /\ Runs(d, "answered")
  /\ Hold(exchanges[d].tokens, d, TRUE) /\ NoRestore
  /\ exchanges' = [exchanges EXCEPT ![d].pc = "storing"]
  /\ overtaken' = (overtaken \/ exchanges[d].tokens.session # chosen)
  /\ UNCHANGED <<read, refreshing, calls, shown, store, server, lost, chosen>>

RefuseExchange(d) ==
  /\ Runs(d, "refused")
  /\ Settle(d, FALSE)
  /\ UNCHANGED <<memory, restoring, read, writes, shown, store, server, history>>

\* The store answers its oldest write, and the call that made it goes on: a write that
\* landed is told to the listeners, one that failed is not.
Land ==
  /\ writes # <<>>
  /\ LET write == Head(writes) IN
     /\ writes' = Tail(writes)
     /\ \/ /\ store' = write.value
           /\ shown' = IF shown = Unmounted THEN shown ELSE write.value
           /\ (IF write.exchange THEN Settle(write.by, TRUE)
               ELSE calls' = [calls EXCEPT ![write.by] = Idle] /\ UNCHANGED <<refreshing, exchanges>>)
           /\ UNCHANGED <<lost, adrift>>
        \/ /\ (IF write.exchange THEN Settle(write.by, FALSE)
               ELSE calls' = [calls EXCEPT ![write.by] = Idle] /\ UNCHANGED <<refreshing, exchanges>>)
           /\ lost' = lost \cup ({SessionOf(write.value), SessionOf(store)} \ {None})
           /\ adrift' = (adrift \/ Tail(writes) = <<>>)
           /\ UNCHANGED <<store, shown>>
  /\ UNCHANGED <<memory, restoring, read, server, chosen, overtaken>>

\* The page goes, with every call and every write under way, and opens again.
Reload ==
  /\ restoring # "no"
  /\ memory' = None /\ restoring' = "no" /\ read' = None /\ refreshing' = None
  /\ calls' = [c \in Calls |-> Idle] /\ exchanges' = [c \in Calls |-> Idle]
  /\ writes' = <<>> /\ shown' = Unmounted
  /\ lost' = lost \cup { exchanges[d].tokens.session : d \in { c \in Calls : Runs(c, "answered") } }
                  \cup ({ SessionOf(writes[i].value) : i \in 1..Len(writes) } \ {None})
  /\ chosen' = SessionOf(store) /\ overtaken' = FALSE /\ adrift' = FALSE
  /\ UNCHANGED <<store, server>>
-----------------------------------------------------------------------------
CallStep(c) ==
  \/ Ask(c) \/ Resume(c) \/ Answer(c) \/ TakeSession(c) \/ Clear(c)
  \/ StartExchange(c) \/ Serve(c) \/ Lose(c) \/ TakeExchange(c) \/ RefuseExchange(c)

Next ==
  \/ ReadStore \/ Restore \/ Mount \/ Land \/ Reload
  \/ \E c \in Calls : CallStep(c) \/ \E op \in Operations : Begin(c, op)

\* A call goes on when it can, a request is answered or fails, and the store answers: the
\* event loop runs what is ready, and fetch and the store settle.
Fairness ==
  /\ WF_vars(ReadStore) /\ WF_vars(Restore) /\ WF_vars(Land)
  /\ \A c \in Calls : WF_vars(CallStep(c))

Spec == Init /\ [][Next]_vars /\ Fairness
-----------------------------------------------------------------------------
\* Everything has the type its code gives it, and the slot holds an exchange under way.
TypeOK ==
  /\ memory \in Tokens \cup {None} /\ read \in Tokens \cup {None} /\ store \in Tokens \cup {None}
  /\ restoring \in {"no", "reading", "read", "done", "failed"}
  /\ refreshing \in {c \in Calls : exchanges[c] # Idle} \cup {None}
  /\ calls \in [Calls -> Call \cup {Idle}] /\ exchanges \in [Calls -> Exchange \cup {Idle}]
  /\ writes \in Seq(Write) /\ shown \in Tokens \cup {None, Unmounted}
  /\ server \in [Sessions -> 0..MaxCount \cup {Unborn, Gone}]
  /\ lost \subseteq Sessions /\ chosen \in Sessions \cup {None}
  /\ overtaken \in BOOLEAN /\ adrift \in BOOLEAN

\* refreshTokens (client.ts:522): calls beside each other share one exchange, so the client
\* never sends a token twice, and no session ends for it.  A session ends because its owner
\* signed out, or because the tokens of an exchange did not reach the store.
HonestSessionsSurvive ==
  \A s \in Sessions : server[s] = Gone => s \in lost

\* setTokens, clearTokens and restore (client.ts:440): once the store was read and every
\* write has landed, the client, its store and the page show the same tokens.
AtRestAllAgree ==
  restoring = "done" /\ writes = <<>> /\ ~adrift =>
    memory = store /\ shown \in {memory, Unmounted}

\* The client holds the session its owner last signed in to, or nothing once the owner left,
\* whatever the restore answers.  The answer of an exchange that was out may overtake it.
Follows ==
  ~overtaken /\ ~adrift /\ memory # None => SessionOf(memory) = chosen

\* Every call of the client comes to its end: none waits for an exchange that is over.
Settles == \A c \in Calls : calls[c] # Idle ~> calls[c] = Idle

\* signOut (client.ts:541-543) "drops the tokens it holds": an owner who left is
\* signed out until the next sign-in.
SignedOutStaysOut == chosen = None /\ ~adrift => memory = None

\* The client, its store and the page hold one and the same session, the last that was chosen.
OneSessionIsShown == TypeOK /\ AtRestAllAgree /\ Follows
=============================================================================
