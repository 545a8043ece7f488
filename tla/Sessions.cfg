CONSTANTS
  SessionIds = {s1, s2, grant}
  AGrant = grant
  Grants <- MCGrants
  Calls = {c1, c2}
  MaxCount = 2
  None = None
  Idle = Idle
SPECIFICATION Spec
CONSTRAINT Narrow
SYMMETRY Symmetries
INVARIANTS
  TypeOK
  EndedForGood
  CountsGoForward
  IndexShowsTheSessions
