CONSTANTS
  p1 = p1
  p2 = p2
  p3 = p3
  p4 = p4
  Packets = {p1, p2, p3, p4}
  None = None
  Port <- TwoPorts
  Kind <- EveryKind
  Instances = 2
  Capacity = 1
  Latency = 2
  clock = 2
  MaxTick = 5
  MaxDumps = 1
SPECIFICATION Spec
INVARIANTS
  TypeOK
  OneResponse
  RetryWillCome
  ResponseWillGo
  WakeWillCome
  NeverAhead
CHECK_DEADLOCK FALSE
