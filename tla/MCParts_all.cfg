SPECIFICATION PartsSpec
CONSTANTS
  \* the blocks of files
  Procs = {p1, p2}
  NoProc = NoProc
  Files = {1, 2}
  NBLOCKS = 3
  NDIRECT = 1
  Words = 2
  MaxWrite = 2
  MaxBoots = 1
  \* spin locks on two CPUs
  Cpus = {1, 2}
  NoCpu = 0
  Locks = {1, 2, 3}
  \* the process table on two CPUs
  CPUs = {1, 2}
  NoCPU = 0
  NPROC = 3
  MaxPid = 3
  AskedPids = {3}
  \* the console
  Readers = {1, 2}
  NoReader = 0
  Typed = {"x", "nl", "eof"}
  INPUT_BUF = 2
  Wrap = 4
  MaxRead = 2
  \* the start of the kernel
  NCPU = 3
  MaxEntries = 4
  \* address spaces
  MaxCalls = 4
  \* traps, and the screen
  MaxTicks = 4
  MaxPut = 7
  CpuCount = 1
SYMMETRY Symmetry
INVARIANTS
  BlocksSound
  LocksSafe
  StacksSound
  ZombieIsReaped
  StateFound
  TrapsRight
  BootSafe
  
PROPERTIES
  ConsoleRight
CHECK_DEADLOCK FALSE
