CONSTANTS
  BANKS = 2
  SubArrayNum = 1
  BanksPerRefresh = 2
  tRCD = 2
  tRAS = 3
  tRP = 2
  tCAS = 2
  tCWD = 2
  tBURST = 1
  tCCD = 1
  tRTP = 2
  tWR = 1
  tWTR = 1
  tRTRS = 1
  tPPD = 0
  tRRDR = 1
  tRAW = 2
  RAW = 2
  tRFC = 2
  tWP = 0
  Requests = {1, 2}
  Transactions <- TwoBanks
  NoRow = NoRow
  Configurations <- RefreshConfigurations
  QueueSize = 2
  StarvationThreshold = 2
  UseRefresh = TRUE
  DelayedRefreshThreshold = 1
  tREFI = 14
SPECIFICATION Spec
INVARIANTS TypeOK ViewAgrees  RefreshAgrees RefreshInTime NothingOwed
