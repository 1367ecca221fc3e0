\* Two subjects of one role share the map; the trust policy accepts one.
SPECIFICATION LiveSpec
CONSTANTS
  r1 = r1
  s1 = s1
  s2 = s2
  c1 = c1
  c2 = c2
  c3 = c3
  Callers = {c1, c2, c3}
  Scopes = {r1}
  Subjects = {s1, s2}
  Trusted <- TrustedFirst
  Lifetimes = {2, 5}
  RefreshLead = 4
  MinServe = 1
  ClaimTimeout = 2
  NoEntry = NoEntry
  NoAnswer = NoAnswer
INVARIANTS
  TypeOK
  NoTrustBypass
  ServedFloor
  SingleFlight
PROPERTIES
  ImplementsService
  RenewalAttempted
