\* The server and a command, one after the other.
SPECIFICATION Spec
CONSTANTS
  p1 = p1
  p2 = p2
  api = api
  cli1 = cli1
  Package = {p1, p2}
  Proc = {api, cli1}
  Server = {api}
  Legacy = {}
  Overlap = FALSE
  Faults = FALSE
  MaxClock = 4
INVARIANTS
  InstalledStays
CHECK_DEADLOCK FALSE
