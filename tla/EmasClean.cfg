CONSTANTS
  p1 = p1
  Test = Test
  SCM = SCM
  Arm = Arm
  Procs = {p1}
  Families = {Test, SCM}
  Runnable <- OnlyTest
  BinaryOf <- SharedBinary
  NoFamily = NoFamily
  NoBinary = NoBinary
  Missing = Missing
  Empty = Empty
  Exclusive = TRUE
  Crashes = FALSE
  Edits = FALSE
SPECIFICATION Spec
INVARIANTS NoFalseAlarm CoherentRecord

