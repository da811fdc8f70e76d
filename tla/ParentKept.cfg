CONSTANTS
  CHANNELS = 3
  PAGES = 2
  promotionChannel = 0
  QueueSize = 2
  MaxInFlight = 2
SPECIFICATION Spec
INVARIANT ParentKept
CHECK_DEADLOCK FALSE
