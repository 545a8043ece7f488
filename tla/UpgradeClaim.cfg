SPECIFICATION Spec
CONSTANTS
  Components <- Names
  Channels = {"mail"}
  Paths <- PasswordAlone
  Emits <- EmailEmits
  ChannelOf <- CodeByEmail
  RejectsDuplicates = TRUE
  SignUpIsOpen = FALSE
  Values = {v1, v2}
  SessionIds = {s1}
  Calls = {c1, c2}
  MaxIssued = 2
  MaxResets = 1
  Gone = Gone
  Idle = Idle
  None = None
SYMMETRY ValueSymmetries
INVARIANT
  LatestCredential
