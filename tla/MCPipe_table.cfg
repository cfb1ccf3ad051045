SPECIFICATION Spec
CONSTANTS
  Procs = {p1, p2}
  initproc = p1
  Files = {f1, f2, f3}
  NoFile = NoFile
  NOFILE = 2
  Pages = {x1, x2}
  PIPESIZE = 1
  UintMod = 2
  Messages = {}
  ReadSizes = {1}
  NoProc = NoProc
  SMP = TRUE
  Killable = {p2}
SYMMETRY Symmetry
INVARIANTS
  RefsExact
  PageFreedOnce
CHECK_DEADLOCK FALSE
