---------------------------- MODULE MCAccessTokens ----------------------------
(***************************************************************************)
(* The tokens of AccessTokens, with the names of a module that explores    *)
(* other stores beside them.                                               *)
(***************************************************************************)
CONSTANTS Owners, SessionIds, Apps, Profile, Issuer, TokenScopes, Account, Named, Mapped, Reserved, KeyLists,
          Access, Elevated, Life, MaxMoment, MaxTokens, NoSession

VARIABLES keys, owners, members, sessions, ended, unexchanged, tokens, moment, signIns

access == <<keys, owners, members, sessions, ended, unexchanged, tokens, moment, signIns>>

T == INSTANCE AccessTokens
       WITH Identities <- Owners, Clients <- Apps, Scopes <- TokenScopes, MaxTime <- MaxMoment,
            None <- NoSession, identities <- owners, clients <- members, clock <- moment

\* A deployment has its clients, its keys and durations that last.
ASSUME TokensAssumption == T!AccessTokensAssumption

\* A token gives what its session and its owner gave (mintTokens, refreshToken, introspect).
TokensTellTheTruth == T!TokensTellTheTruth
=============================================================================
