\* Two clients, a window of three ticks, at most two requests in it.
SPECIFICATION Spec
CONSTANTS
  c1 = c1
  c2 = c2
  Client = {c1, c2}
  Limit = 2
  Period = 2
  MaxTime = 6
  MaxRefusals = 1
INVARIANTS
  WindowLimit
PROPERTIES
  ImplementsSlidingWindow
CHECK_DEADLOCK FALSE
