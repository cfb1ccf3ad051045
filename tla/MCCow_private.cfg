SPECIFICATION Spec
CONSTANTS
  InitProc = init
  f1 = f1
  f2 = f2
  f3 = f3
  f4 = f4
  Frames <- MCFrames
  NoProc = NoProc
  NoFrame = NoFrame
  NotPresent = NotPresent
  Frame0 = Frame0
  Junk = "junk"
  Zero = "a"
  CPUs = {c1}
  Procs = {init, p2, p3}
  Others = {f5, f6, f7, f8}
  Boot <- MCBoot
  NPages = 1
  KvmTables = 0
  ExecSizes = {}
  SbrkSizes = {}
  KernelWrites = FALSE
  Values = {"a", "b"}
  Image = "b"
SYMMETRY Slots
INVARIANTS
  WritableExclusive
  TlbFresh
PROPERTIES
  PrivateMemory
CHECK_DEADLOCK FALSE
