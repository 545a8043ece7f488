SPECIFICATION StoresSpec
CONSTANTS
  Ids = {i1, i2, i3}
  Names = {email}
  Values = {u, v}
  Absent = Absent
  Nobody = Nobody
  Clients = {app}
  Calls = {k1, k2}
  MaxSecrets = 2
  MaxTime = 2
  Lifetime = 1
  Offered = {"profile"}
  Scopes = {"profile", "account"}
  Bodies <- AllBodies
  Unregistered = Unregistered
  Idle = Idle
  MaxId = 3
  Inboxes = {mine, yours}
  PageSize = 2
  MaxLive = 2
  Vacant = Vacant
  People = {"alice", "mallory"}
  Keys = {"k1", "k2", "m1"}
  HolderOf <- Holders
  CredentialIds = {"c1", "c2", "c3"}
  Dances <- AllDances
  FlowOf <- Flow
  DriverOf <- Driver
  OwnerOf <- Owner
  Verification = "preferred"
  Homes <- AllHomes
  MaxPrompts = 3
  NoCeremony = NoCeremony
  Owners = {"ada"}
  SessionIds = {s1, s2}
  Apps = {"app", "rs"}
  Profile <- AllProfiles
  Issuer = "issuer"
  TokenScopes <- AllScopes
  Account = "account"
  Named <- ByDefault
  Mapped <- ByMapper
  Reserved = {"sub"}
  KeyLists <- KeyListsDeployed
  Access = 1
  Elevated = 0
  Life = 2
  MaxMoment = 2
  MaxTokens = 4
  NoSession = NoSession
SYMMETRY Symmetries
CONSTRAINT Narrow
CHECK_DEADLOCK FALSE
INVARIANTS
  EveryHolderIsFound
  ClientsAreAsRegistered
  RewritesAreSafe
  PasskeysAreTheOwners
  TokensTellTheTruth
PROPERTIES
  ImplementsContract
