SPECIFICATION Spec
CONSTANTS
  Procs = {p1, p2}
  NoProc = NoProc
  Bufs = {b1, b2, b3}
  NoBuf = NoBuf
  SectorNos = {s1, s2, s3, s4}
  NoSector = NoSector
  Outer = {s1, s2}
  Contents = {0, 1}
  ReadErrors = FALSE
INVARIANTS
  QueueServed
  BuffersHeld
PROPERTIES
  AtomicSectors
SYMMETRY Symmetry
CHECK_DEADLOCK FALSE
