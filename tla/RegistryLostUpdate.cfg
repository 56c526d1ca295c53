\* Two threads, no failure: an answered request is lost.
SPECIFICATION Spec
CONSTANTS
  t1 = t1
  t2 = t2
  d1 = d1
  d2 = d2
  r1 = r1
  r2 = r2
  r3 = r3
  Thread = {t1, t2}
  Device = {d1, d2}
  Ref = {r1, r2, r3}
  NoThread = NoThread
  NoRef = NoRef
  Kind = {"register", "ingest"}
  Retain = 1
  MaxClock = 3
  Faults = FALSE
  Crashes = FALSE
SYMMETRY Symmetry
INVARIANTS
  AckedIsDurable
CHECK_DEADLOCK FALSE
