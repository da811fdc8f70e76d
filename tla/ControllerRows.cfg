CONSTANTS
  BANKS = 1
  SubArrayNum = 1
  BanksPerRefresh = 1
  tRCD = 2
  tRAS = 3
  tRP = 2
  tCAS = 2
  tCWD = 2
  tBURST = 1
  tCCD = 3
  tRTP = 2
  tWR = 1
  tWTR = 1
  tRTRS = 1
  tPPD = 0
  tRRDR = 1
  tRAW = 2
  RAW = 2
  tRFC = 2
  tWP = 0
  Requests = {1, 2, 3, 4}
  Transactions <- TwoRows
  NoRow = NoRow
  Configurations <- RowConfigurations
  QueueSize = 2
  StarvationThreshold = 1
  UseRefresh = FALSE
  DelayedRefreshThreshold = 1
  tREFI = 14
SPECIFICATION FairSpec
INVARIANT InOnePlace
PROPERTIES NoneDropped Served
