CONSTANTS
  p1 = p1
  p2 = p2
  p3 = p3
  p4 = p4
  Packets = {p1, p2, p3}
  None = None
  Port <- TwoPorts
  Kind <- TwoReadsOneWrite
  Instances = 2
  Capacity = 1
  Latency = 2
  clock = 2
  MaxTick = 7
  MaxDumps = 0
SPECIFICATION Spec
INVARIANTS
  WakeInTime
CHECK_DEADLOCK FALSE
