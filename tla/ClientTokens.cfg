SPECIFICATION NarrowPageSpec
CONSTANTS
  PageCalls = {c1, c2}
  Logins = {s1, s2}
  MaxExchanges = 1
  Nothing = Nothing
  Over = Over
  Hidden = Hidden
  Unissued = Unissued
  Revoked = Revoked
INVARIANTS
  HonestSessionsSurvive
  OneSessionIsShown
PROPERTY Settles
