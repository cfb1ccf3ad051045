SPECIFICATION Spec
CONSTANTS
  \* system calls and the programs that make them
  Pids = {1, 2, 3, 4, 5}
  Inums = {1, 2, 3, 4, 5, 6, 7, 8, 9, 10, 11, 12, 13, 14, 15, 16, 17, 18, 19, 20}
  FileSlots = {1, 2, 3, 4, 5, 6, 7}
  NOFILE = 7
  PipeNos = {1, 2}
  PIPESIZE = 2
  REP = 3
  FILEBLOCKS = 6
  PGSIZE = 2
  USERTOP = 10
  TextBytes = 2
  FRAMES = 15
  Tests = {"bsstest", "sbrktest", "validatetest", "opentest", "writetest", "writetest1",
    "createtest", "mem", "pipe1", "preempt", "exitwait", "rmdot", "fourteen", "bigfile", "subdir",
    "concreate", "linktest", "unlinkread", "createdelete", "twofiles", "sharedfd", "dirfile", "iref",
    "forktest", "bigdir", "exectest"}
  StartedPrograms = {"usertests", "forktest", "stressfs", "zombie"}
  \* malloc, psort, runscan, smash
  MaxUnits = 10
  MinUnits = 4
  Requests = {2, 3, 5}
  SortKeys = {1, 2}
  MaxLines = 5
  MaxThreads = 3
  BLOCK = 2
  DIRECT = 2
  PER = 3
  MaxSize = 27
  MaxStages = 3
  MaxLoop = 2
  MaxItems = 2
  PipeRoom = 1
  MaxProcs = 5
  MayFail = {}
  \* sh
  MaxTokens = 4
  MAXARGS = 3
  MaxShProcs = 4
  \* library functions and filters
  Cells = 5
  IntBits = 8
  MaxText = 3
  MaxFormat = 4
  BUF = 5
  MaxFile = 5
  ShortReads = FALSE
  MaxKeys = 5
  \* the tests of p4's scheduler
  SchedTestNames = {"test_1", "test_2", "test_3", "test_4", "test_5", "test_6", "test_7", "test_8",
    "test_9", "test_10", "test_11", "test_12", "test_13", "test_14", "test_15", "test_16",
    "test_graph", "test_c"}
  SlotsOfTests = 6
  PROC = 2
  TestREP = 2
  SPIN = 3
  FACTOR = 2
  LOW = 1
  HIGH = 12
  MaxPreempts = 1
  \* the test of copy-on-write, rcheck
  ARRAY = 1
  RecordKeys = {1, 2, 3}
  RECORD = 2
  MaxRecords = 3
  \* lines typed at smash
  AnyWords = {"a", "|", ">", ";", "cd", "pwd", "exit", "loop", "2"}
  MaxWords = 3
  \* names of JPEGs
  GROUPS = 2
  PER_GROUP = 4
  JPEGS = {4, 6, 8}
  Lengths = {4, 7, 8}
  DirBytes = 128
  LETTER = 97
  \* mkfs, badger_fortune
  SIZE = 24
  META = 4
  NINODES = 12
  FileLens = {0, 5, 7}
  MaxBatch = 2
  Dirty = TRUE
  \* cat, ls, ln, rm, mkdir, kill
  FileNames = {"f"}
  DirNames = {"d"}
  DevNames = {"c"}
  MaxNames = 3
  MaxArgs = 2
  MaxOther = 1
  FILESIZE = 3
INVARIANTS
  TestsPass
  ToolsRight
  ShellsRight
  LibraryRight
  SchedTestsPass
CHECK_DEADLOCK FALSE
