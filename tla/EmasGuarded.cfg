CONSTANTS
  p1 = p1
  Test = Test
  SCM = SCM
  Arm = Arm
  Procs = {p1}
  Families = {Test}
  Runnable <- OnlyTest
  BinaryOf <- SharedBinary
  NoFamily = NoFamily
  NoBinary = NoBinary
  Missing = Missing
  Empty = Empty
  Exclusive = TRUE
  Crashes = TRUE
  Edits = TRUE
SPECIFICATION Spec
INVARIANTS TypeOK Gate CommandsTrustBuilds
 
