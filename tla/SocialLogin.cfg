SPECIFICATION LoginsSpec
CONSTANTS
  Names = {"corp", "hub"}
  Pkce = {"hub"}
  Oidc = {"corp"}
  Discovered = {"corp"}
  Subs = {"s1", "s2"}
  Dances <- AllDances
  NameOf <- AllNames
  IdentityOf <- AllOwners
  Links = {"d2", "d3"}
  Home <- AtHome
  Calls = {k1, k2}
  MaxPrompts = 2
  MaxCodes = 2
  Idle = Idle
  SecretRoutes = {token, revoke}
  Addresses = {a1}
  Sessions = {ses}
  Owners = {ada}
  Recipients = {r1}
  Requests = {q1, q2}
  Limit = 2
  Window = 2
  Quiet = Quiet
  Nobody = Nobody
SYMMETRY Symmetries
CHECK_DEADLOCK FALSE
INVARIANTS
  AccountsAreTheOwners
  LimitsHold
