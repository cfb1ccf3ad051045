SPECIFICATION Spec
CONSTANTS
  Procs = {p1, p2}
  NoProc = NoProc
  Inodes = {1, 2, 3}
  NoInode = NoInode
  Names = {"a", "b"}
  Workloads <- All_workloads
  MaxBoots = 1
INVARIANTS
  NamesSound
  LinksExact
  CacheCoherent
  NeverPanics
  NoCircularWait
CHECK_DEADLOCK FALSE
SYMMETRY Symmetry
