\* External jobs: get_job hides the record.
SPECIFICATION Spec
CONSTANTS
  j1 = j1
  w1 = w1
  Job = {j1}
  Worker = {w1}
  NoWorker = NoWorker
  Local = Local
  NoJob = NoJob
  PoolSize = 1
  Backends = {"sqlite"}
  Verdicts = {"ok"}
  Losses = FALSE
  Faults = FALSE
  MaxRestarts = 0
SYMMETRY Symmetry
INVARIANTS
  FinalIsReported
CHECK_DEADLOCK FALSE
