SPECIFICATION Spec
CONSTANTS
  Devices = {d1, d2}
  UserCodes = {u1}
  Owners = {ada, bob}
  Calls = {c1, c2}
  ChallengeIds = {n1}
  MaxAttempts = 2
  MaxSessions = 2
  None = None
  Idle = Idle
SYMMETRY Symmetries
CONSTRAINT OneDeviceWhenBusy
INVARIANTS
  TypeOK
  GrantIsConsented
  TokensOnce
  AnswerStands
