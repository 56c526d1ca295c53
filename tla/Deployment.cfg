\* Two overlapping requests, builds meanwhile, one restart, fair threads.
SPECIFICATION FairSpec
CONSTANTS
  r1 = r1
  r2 = r2
  Request = {r1, r2}
  Operation = {"ota", "validate_flash", "confirm", "exchange"}
  Faults = TRUE
  MaxTraces = 1
  a = a
  b = b
  Firmware = {a, b}
  NoFile = NoFile
  MaxBuilds = 2
  MaxRestarts = 1
INVARIANTS
  TypeOK
  HistoryIsTrue
  AnsweredIsRecorded
  DispatchedIsSigned
  TraceFollowsRequest
PROPERTIES
  RequestAnswered
CHECK_DEADLOCK FALSE
