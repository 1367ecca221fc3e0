SPECIFICATION LiveSpec
CONSTANTS
  Callers = {c1, c2, c3}
  Issuers = {i1}
  Keys = {k1}
  Ttl = 3
  FailureTtl = 2
  MaxFetch = 1
  Horizon = 4
  NoEntry = NoEntry
  NoIssuer = NoIssuer
  NoRead = NoRead
INVARIANTS
  TypeOK
  BackoffEarned
PROPERTIES
  ImplementsStaleReads
  Recovery
