SPECIFICATION Spec
CONSTANTS
  Procs = {p1, p2}
  initproc = p1
  Files = {f1, f2}
  NoFile = NoFile
  NOFILE = 2
  Pages = {x1}
  PIPESIZE = 2
  UintMod = 4
  Messages <- Letters
  ReadSizes = {2}
  NoProc = NoProc
  SMP = FALSE
  Killable = {}
SYMMETRY Symmetry
INVARIANTS
  NoLostWakeup
PROPERTIES
  Fifo
CHECK_DEADLOCK FALSE
