SPECIFICATION DancesSpec
CONSTANTS
  Identities = {ada, bob}
  Dances = {d1, d2}
  Names <- Components
  Kind <- KindOf
  Paths <- Branches
  ChannelOf <- EmailCarries
  Values = {v1, v2}
  Codes = {c1, c2, c3}
  MaxSkips = 2
  MaxIssued = 6
  None = None
  Nobody = Nobody
SYMMETRY Symmetries
INVARIANTS
  TypeOK
  SessionEarned
  ResetEarned
  AddressProven
  ConsentOnRecord
  WalkIsThePolicy
