\* One request at a time, crashes, with and without SQLite failures.
SPECIFICATION MCSpec
CONSTANTS
  t1 = t1
  d1 = d1
  d2 = d2
  r1 = r1
  r2 = r2
  Thread = {t1}
  Device = {d1, d2}
  Ref = {r1, r2}
  NoThread = NoThread
  NoRef = NoRef
  Kind = {"register", "heartbeat", "ingest", "prune", "refresh"}
  Retain = 1
  MaxClock = 4
  Faults = TRUE
  Crashes = TRUE
SYMMETRY Symmetry
INVARIANTS
  TypeOK
  AckedIsDurable
  LastSeenIsLatest
  AckedIsKnown
  CacheUnlessFaulty
PROPERTIES
  ImplementsAtomicRegistry
CHECK_DEADLOCK FALSE
