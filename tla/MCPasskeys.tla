------------------------------ MODULE MCPasskeys ------------------------------
(***************************************************************************)
(* The passkeys of Passkeys, with the names of a module that explores      *)
(* other stores beside them.                                               *)
(***************************************************************************)
CONSTANTS People, Keys, HolderOf, CredentialIds, Dances, FlowOf, DriverOf, OwnerOf, Verification, Homes,
          MaxPrompts, NoCeremony

VARIABLES held, kv, prompts, homes, signedIn, proven

passkeys == <<held, kv, prompts, homes, signedIn, proven>>

P == INSTANCE Passkeys
       WITH Ids <- CredentialIds, None <- NoCeremony, drawn <- prompts, identities <- homes

\* A stored passkey is of its owner, and nobody without a passkey lost a session.
ASSUME PasskeysAssumption == P!PasskeysAssumption

\* A passkey signs in the person who holds it (components/webauthn.ts).
PasskeysAreTheOwners == P!PasskeysAreTheOwners
=============================================================================
