\* Fair threads and workers, one restart.
SPECIFICATION FairSpec
CONSTANTS
  j1 = j1
  j2 = j2
  w1 = w1
  w2 = w2
  Job = {j1, j2}
  Worker = {w1, w2}
  NoWorker = NoWorker
  Local = Local
  NoJob = NoJob
  PoolSize = 1
  Backends = {"local", "sqlite", "remote"}
  Verdicts = {"ok", "raise"}
  Losses = FALSE
  Faults = FALSE
  MaxRestarts = 1
PROPERTIES
  FinishesUnlessRestarted
  QueuedIsClaimed
CHECK_DEADLOCK FALSE
