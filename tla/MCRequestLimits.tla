---------------------------- MODULE MCRequestLimits ----------------------------
(***************************************************************************)
(* An instance of RequestLimits for TLC: an address and the shared one of  *)
(* the requests that carry none, a session, an identity, a recipient, and  *)
(* two of the four routes with a secret, which are alike.  It has the      *)
(* states that another module explores beside it.                          *)
(***************************************************************************)
CONSTANTS SecretRoutes, Addresses, Sessions, Owners, Recipients, Requests, Limit, Window, Quiet, Nobody

VARIABLES limiter, watched, bucket, requests, allowed, worked, spurious

limits == <<limiter, watched, bucket, requests, allowed, worked, spurious>>

R == INSTANCE RequestLimits WITH Identities <- Owners, Idle <- Quiet

\* A window allows something and lasts, and the requests under way are finitely many.
ASSUME LimitsFit == R!LimitsAssumption

\* The limits at rest: one of their first states.
NoRequest == watched = <<"request", "unknown">> /\ limiter = "memory" /\ R!Init

\* The limits bound what a span of time sees of one subject's tries, and refuse nobody
\* without reason (app.ts, oauth2/app.ts, api.ts, the two limiters).
LimitsHold == R!LimitsHold
=============================================================================
