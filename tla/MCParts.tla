------------------------------- MODULE MCParts -------------------------------
(***************************************************************************)
(* Nine parts of the kernel side by side, for one run to check them all:   *)
(* the initial state chooses one, the part that moves.  Blocks, Spinlock   *)
(* and ProcTable have their variables here and stay as they begin where    *)
(* another part moves.  The other six do not exist but where they move:    *)
(* their variables are v1, v2, ..., and they share them.                   *)
(***************************************************************************)
EXTENDS Blocks, Spinlock, ProcTable, TLC

CONSTANTS
  Readers, NoReader, Typed, INPUT_BUF, Wrap, MaxRead,
  NCPU, MaxEntries, MaxCalls,
  MaxTicks, MaxPut, CpuCount

(* Files that exec() is given: two segments, one with a bss and a header   *)
(* that is not loaded, one cut short, one of another kind, one too large.  *)
Executables == <<
  [magic |-> TRUE, whole |-> TRUE,
   phs |-> <<[load |-> TRUE, va |-> 0, filesz |-> 3, memsz |-> 5],
             [load |-> FALSE, va |-> 0, filesz |-> 1, memsz |-> 0]>>],
  [magic |-> TRUE, whole |-> TRUE,
   phs |-> <<[load |-> TRUE, va |-> 0, filesz |-> 5, memsz |-> 5],
             [load |-> TRUE, va |-> 6, filesz |-> 1, memsz |-> 2]>>],
  [magic |-> TRUE, whole |-> FALSE,
   phs |-> <<[load |-> TRUE, va |-> 0, filesz |-> 2, memsz |-> 2]>>],
  [magic |-> FALSE, whole |-> TRUE, phs |-> <<>>],
  [magic |-> TRUE, whole |-> TRUE,
   phs |-> <<[load |-> TRUE, va |-> 18, filesz |-> 1, memsz |-> 12]>>]>>
Arguments == {<<2>>, <<7>>, <<1, 1, 1>>}

VARIABLES
  part, v1, v2, v3, v4, v5, v6, v7, v8, v9, v10, v11, v12, v13

C == INSTANCE Console WITH
  Chars <- Typed,
  buf <- v1, r <- v2, w <- v3, e <- v4, lock <- v5, rpc <- v6, target <- v7,
  dst <- v8, sleeping <- v9, killed <- v10
O == INSTANCE Boot WITH
  table <- v1, mp <- v2, at <- v3, done <- v4, own <- v5, fl <- v6, route <- v7,
  low <- v8, stack <- v9, booted <- v10, oc <- v11, allocs <- v12, init <- v13
A == INSTANCE AddressSpace WITH
  NPROC <- 2, FRAMES <- 12, PGSIZE <- 6, USERTOP <- 24, KvmTables <- 1, MAXARG <- 2,
  Images <- Executables, Argvs <- Arguments, MaxCalls <- MaxCalls,
  kmem <- v1, proc <- v2, k <- v3, calls <- v4, emptied <- v5, panicked <- v6,
  lost <- v7, sees <- v8
T == INSTANCE Trap WITH
  Procs <- {1, 2}, Wrap <- 4, SleepArgs <- {0, 2, 3},
  tpc <- v1, killed <- v2, ticks <- v3, tickslock <- v4, ticks0 <- v5, n <- v6,
  passed <- v7, ret <- v8, back <- v9, late <- v10
S == INSTANCE Screen WITH
  ROWS <- 3, COLS <- 2, BYTE <- 4,
  crt <- v1, index <- v2, hi <- v3, lo <- v4, wpc <- v5, c <- v6, pos <- v7,
  crashed <- v8, put <- v9, text <- v10, end <- v11, top <- v12
D == INSTANCE Bootmain WITH
  SECTSIZE <- 3, MEMORY <- 20, KERNEL <- 7,
  elf <- v1, mem <- v2, disk <- v3, ph <- v4, va <- v5, eva <- v6, offset <- v7, lpc <- v8

(* The variables a machine does not have stay 0. *)
vs == <<v1, v2, v3, v4, v5, v6, v7, v8, v9, v10, v11, v12, v13>>
Zero10 == v11 = 0 /\ v12 = 0 /\ v13 = 0
Zero8 == v9 = 0 /\ v10 = 0 /\ Zero10
Zero == Zero8 /\ v1 = 0 /\ v2 = 0 /\ v3 = 0 /\ v4 = 0 /\ v5 = 0 /\ v6 = 0 /\ v7 = 0 /\ v8 = 0

PartsInit ==
  /\ Init /\ SpinInit /\ ProcInit
  /\ \/ part \in {"blocks", "locks", "table"} /\ Zero
     \/ part = "console" /\ C!ConsInit /\ Zero10
     \/ part = "boot" /\ O!BootInit
     \/ part = "vm" /\ A!Init /\ Zero8
     \/ part = "trap" /\ T!TrapInit /\ Zero10
     \/ part = "screen" /\ S!ScreenInit /\ v13 = 0
     \/ part = "loader" /\ D!LoadInit /\ Zero8

(* What an action of a part leaves alone. *)
Blocks_rest == UNCHANGED <<part, spinvars, procvars, vs>>
Locks_rest == UNCHANGED <<part, vars, procvars, vs>>
Table_rest == UNCHANGED <<part, vars, spinvars, vs>>
Rest == UNCHANGED <<part, vars, spinvars, procvars>>
Rest12 == UNCHANGED v13 /\ Rest
Rest10 == UNCHANGED <<v11, v12, v13>> /\ Rest
Rest8 == UNCHANGED <<v9, v10>> /\ Rest10
PartsNext ==
  \/ /\ part = "blocks"
     /\ \/ Crash
        \/ \E f \in Files : Create(f)
        \/ \E p \in Procs, f \in Files : Writei(p, f)
        \/ \E p \in Procs, f \in Files : Unlink(p, f)
        \/ \E p \in Procs : BmapInode(p)
        \/ \E p \in Procs : BmapIndirect(p)
        \/ \E p \in Procs : BwriteIndirect(p)
        \/ \E p \in Procs : WriteData(p)
        \/ \E p \in Procs : WriteEnds(p)
        \/ \E p \in Procs : Skip(p)
        \/ \E p \in Procs : Bzero(p)
        \/ \E p \in Procs : Bfree(p)
        \/ \E p \in Procs : Truncated(p)
        \/ \E p \in Procs : Ifree(p)
     /\ Blocks_rest
  \/ /\ part = "locks"
     /\ \/ \E c \in Cpus, l \in Locks : Pushcli(c, l)
        \/ \E c \in Cpus, l \in Locks : Release(c, l)
        \/ \E c \in Cpus : Xchg(c)
        \/ \E c \in Cpus : Acquired(c)
        \/ \E c \in Cpus : Unlock(c)
        \/ \E c \in Cpus : Popcli(c)
        \/ \E c \in Cpus : Interrupt(c)
        \/ \E c \in Cpus : Iret(c)
     /\ Locks_rest
  \/ /\ part = "table"
     /\ \/ Wakeup
        \/ \E c \in CPUs : Allocproc(c)
        \/ \E c \in CPUs : Kstack(c)
        \/ \E c \in CPUs : ForkFails(c)
        \/ \E c \in CPUs : Copyuvm(c)
        \/ \E c \in CPUs : ForkEnds(c)
        \/ \E c \in CPUs : Exit(c)
        \/ \E c \in CPUs : Sched(c)
        \/ \E c \in CPUs : Yield(c)
        \/ \E c \in CPUs : Sleep(c)
        \/ \E c \in CPUs : Resume(c)
        \/ \E c \in CPUs : SchedulerStarts(c)
        \/ \E c \in CPUs : SchedulerRuns(c)
        \/ \E c \in CPUs : SchedulerEnds(c)
        \/ \E c \in CPUs : WaitReaps(c)
        \/ \E c \in CPUs : WaitFails(c)
        \/ \E c \in CPUs : WaitSleeps(c)
        \/ \E c \in CPUs, k \in 2 .. MaxPid : Kill(c, k)
        \/ \E c \in CPUs : ReadPid(c)
        \/ \E c \in CPUs : ReadState(c)
        \/ \E c \in CPUs, n \in AskedPids : Getprocstate(c, n)
     /\ Table_rest
  \/ /\ part = "console"
     /\ \/ \E c \in Typed : C!KeyChar(c)
        \/ C!KeyBackspace
        \/ C!KeyKill
        \/ \E p \in Readers, k \in 1 .. MaxRead : C!Read(p, k)
        \/ \E p \in Readers : C!ReadChar(p)
        \/ \E p \in Readers : C!ReadEnds(p)
        \/ \E p \in Readers : C!ReadKilled(p)
        \/ \E p \in Readers : C!ReadEmpty(p)
        \/ \E p \in Readers : C!ReadSleep(p)
        \/ \E p \in Readers : C!ReadWakes(p)
        \/ \E p \in Readers : C!KillReader(p)
     /\ Rest10
  \/ /\ part = "boot"
     /\ \/ O!MpinitConf
        \/ O!MpinitProc
        \/ O!MpinitOther
        \/ O!MpinitUnknown
        \/ O!MpinitEnds
        \/ \E c \in O!Machine : O!Step(c)
        \/ \E c \in O!Machine : O!Jmpkstack(c)
        \/ \E c \in O!Machine : O!StartAp(c)
        \/ \E c \in O!Machine : O!IsStarted(c)
        \/ \E c \in O!Machine : O!WaitBooted(c)
        \/ \E c \in O!Machine : O!BootothersEnds(c)
        \/ \E c \in O!Machine : O!Start32(c)
        \/ \E c \in O!Machine : O!CallCinit(c)
        \/ \E c \in O!Machine : O!Booted(c)
        \/ \E c \in O!Machine : O!Sti(c)
        \/ \E c \in O!Machine : O!Allocproc(c)
        \/ \E c \in O!Machine : O!Userinit(c)
        \/ \E c \in O!Machine : O!RunInit(c)
     /\ Rest
  \/ /\ part = "vm"
     /\ \/ A!ExecKvm
        \/ A!ExecLoad
        \/ A!ExecStack
        \/ A!ExecPush
        \/ A!ExecFrame
        \/ A!ExecCommit
        \/ A!ExecBad
        \/ A!ForkKvm
        \/ A!ForkCopies
        \/ \E p \in A!Slots : (\E f \in DOMAIN Executables, argv \in Arguments : A!Exec(p, f, argv))
        \/ \E p \in A!Slots : (\E n \in A!Grows(p) : A!Sbrk(p, n))
        \/ \E p, z \in A!Slots : A!Wait(p, z)
        \/ \E p \in A!Slots : A!Fork(p)
        \/ \E p \in A!Slots : A!Exit(p)
        \/ \E p \in A!Slots, a \in A!Ends : A!Store(p, a)
        \/ \E p \in A!Slots, a \in A!Ends, n \in A!Counts : A!Syscall(p, a, n)
        \/ \E p \in A!Slots, a \in A!Ends : A!Getprocstate(p, a, 7)
     /\ Rest8
  \/ /\ part = "trap"
     /\ \/ T!Timer
        \/ \E p \in {1, 2} : T!Iret(p)
        \/ \E p \in {1, 2} : T!Syscall(p)
        \/ \E p \in {1, 2} : T!Entry(p)
        \/ \E p \in {1, 2} : T!Return(p)
        \/ \E p \in {1, 2} : T!SleepTest(p)
        \/ \E p \in {1, 2} : T!Block(p)
        \/ \E p \in {1, 2} : T!Wakes(p)
        \/ \E p \in {1, 2} : T!Interrupt(p)
        \/ \E p \in {1, 2} : T!Fault(p)
        \/ \E p \in {1, 2} : T!Yield(p)
        \/ \E p \in {1, 2} : T!Yielded(p)
        \/ \E p \in {1, 2}, k \in {0, 2, 3} : T!Sleep(p, k)
        \/ \E p, q \in {1, 2} : T!Kill(p, q)
     /\ Rest10
  \/ /\ part = "screen"
     /\ \/ \E w \in S!Writers, c \in S!Chars : S!Consputc(w, c)
        \/ \E w \in S!Writers : S!SelectHi(w)
        \/ \E w \in S!Writers : S!ReadHi(w)
        \/ \E w \in S!Writers : S!SelectLo(w)
        \/ \E w \in S!Writers : S!ReadLo(w)
        \/ \E w \in S!Writers : S!Draw(w)
        \/ \E w \in S!Writers : S!SetHi(w)
        \/ \E w \in S!Writers : S!WriteHi(w)
        \/ \E w \in S!Writers : S!SetLo(w)
        \/ \E w \in S!Writers : S!WriteLo(w)
        \/ \E w \in S!Writers : S!Space(w)
     /\ Rest12
  \/ /\ part = "loader"
     /\ \/ D!Magic
        \/ D!NextSegment
        \/ D!Command
        \/ D!DiskReady
        \/ D!Insl
        \/ D!SegmentEnds
        \/ D!Entry
     /\ Rest8
PartsSpec == PartsInit /\ [][PartsNext]_<<part, vars, spinvars, procvars, vs>>

(* The processes that call the file system are interchangeable. *)
Symmetry == Permutations(Procs)
-----------------------------------------------------------------------------
(* The properties of Blocks, Spinlock and ProcTable are stated there; here *)
(* are those of the other six.                                             *)
(* console.c implements module LineInput, no reader sleeps past input, and *)
(* the screen shows the last rows of what was put on it.                   *)
ConsoleRight ==
  /\ part = "console" => C!Promise!Init
  /\ [](part = "console" => C!SleepsOnlyIfEmpty)
  /\ [](part = "screen" => S!ScreenRight)
  /\ [][part = "console" => C!Promise!Next \/ UNCHANGED C!Promise!lineVars]_<<part, v1, v2, v3, v4, v7, v8, v10>>
(* trap.c, sysproc.c: who is killed leaves, sleep() takes its time.        *)
TrapsRight == part = "trap" => T!TrapsRight
(* The screen alone.  On two CPUs (CpuCount = 2) echo and cprintf()        *)
(* disturb each other and it is violated.                                  *)
ScreenRight == part = "screen" => S!ScreenRight
(* bootmain.c, main.c, mp.c: the kernel is loaded as it was linked, and    *)
(* every initialisation is made before it is used.                         *)
BootSafe ==
  /\ part = "loader" => D!LoadedRight
  /\ part = "boot" => O!BootSafe
=============================================================================
