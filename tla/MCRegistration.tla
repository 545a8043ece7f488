---------------------------- MODULE MCRegistration ----------------------------
(***************************************************************************)
(* The clients of Registration, with the names of a module that explores   *)
(* other stores beside them.                                               *)
(***************************************************************************)
CONSTANTS Clients, Calls, MaxSecrets, MaxTime, Lifetime, Offered, Scopes, Bodies, Unregistered, Idle

VARIABLES clients, calls, drawn, clock, given, replaced, deleted, lost, edited, passed

registration == <<clients, calls, drawn, clock, given, replaced, deleted, lost, edited, passed>>

R == INSTANCE Registration WITH Absent <- Unregistered

\* The bounds are numbers, and the metadata that requests come up with is metadata.
ASSUME ClientsAssumption == R!RegistrationAssumption

\* A registered client is what the server made of its request (oauth2/api.ts, registerClient).
ClientsAreAsRegistered == R!ClientsAreAsRegistered
=============================================================================
