\* Both backends, lost answers, SQLite failures, one restart.
SPECIFICATION Spec
CONSTANTS
  j1 = j1
  j2 = j2
  j3 = j3
  w1 = w1
  w2 = w2
  Job = {j1, j2, j3}
  Worker = {w1, w2}
  NoWorker = NoWorker
  Local = Local
  NoJob = NoJob
  PoolSize = 2
  Backends = {"local", "sqlite", "remote", "other"}
  Verdicts = {"ok", "raise"}
  Losses = TRUE
  Faults = TRUE
  MaxRestarts = 1
SYMMETRY Symmetry
INVARIANTS
  TypeOK
  AtMostOnce
  HolderIsRecorded
  OutcomeIsRecorded
  ReportIsDurable
  LocalFinalIsReported
PROPERTIES
  StatusForward
CHECK_DEADLOCK FALSE
