CONSTANTS
  cache = cache
  memory = memory
  Queues = {cache, memory}
  None = None
  frequency = 3
  Freq <- CacheAndMemory
  MaxCycle = 5
  MaxSteps = 2
  MaxEvents = 2
SPECIFICATION Spec
INVARIANTS
  TypeOK
  NoUnderflow
  Aligned
PROPERTIES
  CycleExact
  OnTime
CHECK_DEADLOCK FALSE
