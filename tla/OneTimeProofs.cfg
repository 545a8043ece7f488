SPECIFICATION DancesSpec
CONSTANTS
  Steps <- AllSteps
  KindOf <- AllKinds
  otp = otp
  key = key
  spare = spare
  pow = pow
  social = social
  Calls = {k1, k2}
  Window = 1
  MaxTime = 4
  MaxIssued = 2
  MaxCount = 2
  None = None
  Idle = Idle
  Flows = {f, g}
  Names = {a, b}
  Dances = {d1, d2, d3}
  Starts = {t1, t2}
  Actions = {e1, e2}
  MaxChanges = 3
  Nothing = Nothing
SYMMETRY Symmetries
CONSTRAINT Narrow
CHECK_DEADLOCK FALSE
INVARIANTS
  ProofsCountOnce
  DanceIsOne
  HookShowsTheFlow
