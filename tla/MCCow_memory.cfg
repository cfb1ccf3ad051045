SPECIFICATION Spec
CONSTANTS
  InitProc = init
  f1 = f1
  f2 = f2
  f3 = f3
  f4 = f4
  Frames <- MCFrames
  NoProc = NoProc
  NoFrame = NoFrame
  NotPresent = NotPresent
  Frame0 = Frame0
  Junk = "junk"
  Zero = "a"
  CPUs = {c1}
  Procs = {init, p2}
  Others = {f5, f6, f7}
  Boot <- MCBootTable
  NPages = 2
  KvmTables = 1
  ExecSizes = {1}
  SbrkSizes = {0, 1, 2}
  KernelWrites = TRUE
  Values = {"a"}
  Image = "a"
INVARIANTS
  TypeOK
  RefExact
  FreeUnreachable
  PagesConserved
CHECK_DEADLOCK FALSE
