CONSTANTS
  CHANNELS = 3
  PAGES = 2
  promotionChannel = 0
  QueueSize = 2
  MaxInFlight = 2
SPECIFICATION FairSpec
INVARIANTS TypeOK Accounted HeldHasRetry
PROPERTIES MigratesOnce 
CHECK_DEADLOCK FALSE
