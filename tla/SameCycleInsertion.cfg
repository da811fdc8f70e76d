CONSTANTS
  e1 = e1
  e2 = e2
  e3 = e3
  Events = {e1, e2, e3}
  None = None
  Freed = Freed
  MaxCycle = 4
  MaxSteps = 2
  Reentrant = TRUE
SPECIFICATION Spec
INVARIANT NoneLost
CHECK_DEADLOCK FALSE
