SPECIFICATION FairSpec
CONSTANTS
  Procs = {p1, p2}
  initproc = p1
  Files = {f1, f2}
  NoFile = NoFile
  NOFILE = 2
  Pages = {x1}
  PIPESIZE = 1
  UintMod = 2
  Messages <- Blank
  ReadSizes = {1}
  NoProc = NoProc
  SMP = FALSE
  Killable = {p2}
INVARIANTS
  KilledAwake
PROPERTIES
  Released
  HonestReturn
CHECK_DEADLOCK FALSE
