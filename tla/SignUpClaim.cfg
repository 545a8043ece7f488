SPECIFICATION Spec
CONSTANTS
  mine = mine
  work = work
  theirs = theirs
  Names <- AllNames
  KindOf <- AllKinds
  Channels = {"mail", "sms"}
  ChannelOf <- ByMail
  ChallengeOf <- Codes
  Paths <- PasswordOrCode
  Values = {mine, work, theirs}
  Reads = {mine, work}
  States = {f1, f2}
  Homes <- AllHomes
  MaxHeld = 4
  Home = Home
  None = None
  Absent = Absent
SYMMETRY Symmetries
CHECK_DEADLOCK FALSE
INVARIANTS
  EveryOfferIsTaken
