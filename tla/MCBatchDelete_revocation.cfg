SPECIFICATION BatchSpec
CONSTANTS
  c1 = c1
  c2 = c2
  Callers = {c1, c2}
  Items = {"AKPROXY"}
  Values <- MCValues
  Ttl = 1
  MaxRead = 1
  Horizon = 4
  NoEntry = NoEntry
  NoItem = NoItem
  NoValue = NoValue
  NoRead = NoRead
  Keys <- MCKeys
  BackendPrefix <- P
  Requests <- MCRequests
  MaxKeys = 2
  MaxWait = 1
  Absent = Absent
  Failed = Failed
  NoBatch = NoBatch
INVARIANTS
  BatchTypeOK
  ReportTrue
PROPERTIES
  ImplementsStaleReads
  RevocationTakesHold
SYMMETRY Symmetry
