SPECIFICATION StsSpec
CONSTANTS
  i1 = i1
  k1 = k1
  c1 = c1
  c2 = c2
  s1 = s1
  s2 = s2
  Callers = {c1, c2}
  Issuers = {i1}
  Keys = {k1}
  Ttl = 2
  FailureTtl = 1
  MaxFetch = 1
  Horizon = 5
  NoEntry = NoEntry
  NoIssuer = NoIssuer
  NoRead = NoRead
  RoleIds = {"role"}
  Roles <- MCRoles
  Tokens <- MCTokens
  Requested = {0, NoDuration}
  MinSession = 1
  DefaultSession = 3
  MaxSession = 2
  SealingKeys = {s1, s2}
  NoRole = NoRole
  NoDuration = NoDuration
  NoExchange = NoExchange
  Panicked = Panicked
  NoSession = NoSession
INVARIANTS
  StsTypeOK
  KeyTrustEnds
  RoleTrustEnds
SYMMETRY Symmetry
