SPECIFICATION Spec
CONSTANTS
  app = app
  trusted = trusted
  read = read
  write = write
  Clients <- AllClients
  SkipConsent <- TrustedClients
  Scopes <- AllScopes
  MayAsk <- AskedScopes
  Owners = {ada}
  Proofs = {p1, p2}
  Calls = {c1, c2}
  ChallengeIds = {n1}
  MaxSessions = 2
  None = None
  Idle = Idle
SYMMETRY Symmetries
CONSTRAINT Narrow
INVARIANTS
  TokensAreOfTheConsent
  CodeGivesTokensOnce
  RevokedStaysRevoked
