CONSTANTS
  MaxCalls = 2
  Test = Test
  SCM = SCM
  Arm = Arm
  Procs = {p1, p2}
  Families = {Test}
  Runnable <- OnlyTest
  BinaryOf <- SharedBinary
  NoFamily = NoFamily
  NoBinary = NoBinary
  Missing = Missing
  Empty = Empty
  Exclusive = FALSE
  Crashes = TRUE
  Edits = FALSE
SPECIFICATION MCFairSpec
INVARIANT NoPhantomBuild
PROPERTY InvocationEnds
CHECK_DEADLOCK FALSE
