CONSTANTS
  e1 = e1
  e2 = e2
  e3 = e3
  Events = {e1, e2, e3}
  None = None
  Freed = Freed
  MaxCycle = 3
  MaxSteps = 2
  Reentrant = FALSE
SPECIFICATION FairSpec
INVARIANTS TypeOK NoneLost NextIsEarliest
PROPERTIES LoopAdvances CallbacksInOrder ImplementsAgenda LoopReturns
CHECK_DEADLOCK FALSE
