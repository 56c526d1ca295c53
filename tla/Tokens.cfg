\* Two threads, one token of each kind in turn, two rotations.
SPECIFICATION Spec
CONSTANTS
  h1 = h1
  h2 = h2
  t1 = t1
  ApiKey = ApiKey
  Handler = {h1, h2}
  Token = {t1}
  Ttl = 1
  Faults = TRUE
  MaxTime = 2
  MaxRotations = 2
INVARIANTS
  TypeOK
PROPERTIES
  ServedIsValid
  ServedIsPermitted
  RefusedForCause
CHECK_DEADLOCK FALSE
