SPECIFICATION SerialSpec
CONSTANTS
  Components <- Names
  Channels = {"mail", "sms"}
  Paths <- PasswordAlone
  Emits <- EmailEmits
  ChannelOf <- CodeByEmail
  RejectsDuplicates = TRUE
  SignUpIsOpen = FALSE
  Values = {v1, v2}
  SessionIds = {s1, s2}
  Calls = {c1}
  MaxIssued = 2
  MaxResets = 1
  Gone = Gone
  Idle = Idle
  None = None
  States = {f1, f2}
  mine = mine
  work = work
  theirs = theirs
  MaxHeld = 6
  Home = Home
  FlowNames <- TheNames
  FlowKindOf <- TheKinds
  FlowChannels = {"mail", "sms"}
  FlowChannelOf <- ByMail
  FlowChallengeOf <- TheCode
  FlowPaths <- DemoPath
  Recipients = {mine, work, theirs}
  Reads = {mine, work}
  Homes <- AllHomes
  NoRecipient = None
  NoRecords = Gone
SYMMETRY Symmetries
CHECK_DEADLOCK FALSE
INVARIANTS
  TypeOK
  EndsReachTheSessions
  LatestCredential
  FlowsAreProven
PROPERTIES
  DeletedForGood
  RotatesProveTheOld
