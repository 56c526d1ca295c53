\* The server alone or commands in turn, a legacy file, SQLite failures.
SPECIFICATION MCSpec
CONSTANTS
  p1 = p1
  p2 = p2
  p3 = p3
  api = api
  cli1 = cli1
  Package = {p1, p2, p3}
  Proc = {api, cli1}
  Server = {api}
  Legacy = {p1}
  Overlap = FALSE
  Faults = TRUE
  MaxClock = 6
INVARIANTS
  TypeOK
  InstalledStays
  RemovedStays
  ServerIsCurrent
CHECK_DEADLOCK FALSE
