------------------------------ MODULE MCPrograms ------------------------------
(***************************************************************************)
(* The programs of the repository side by side, as MCParts has the parts   *)
(* of the kernel: the initial state chooses one.                           *)
(***************************************************************************)
EXTENDS Integers, Sequences, TLC

CONSTANTS
  Pids, Inums, FileSlots, NOFILE, PipeNos, PIPESIZE, FRAMES,
  StartedPrograms, REP, FILEBLOCKS, PGSIZE, USERTOP, TextBytes, Tests,
  MaxUnits, MinUnits, Requests, SortKeys, MaxLines, MaxThreads,
  BLOCK, DIRECT, PER, MaxSize, MaxStages, MaxLoop, MaxItems, PipeRoom, MaxProcs, MayFail,
  MaxTokens, MAXARGS, MaxShProcs,
  Cells, IntBits, MaxText, MaxFormat, BUF, MaxFile, ShortReads, MaxKeys,
  SchedTestNames, SlotsOfTests, PROC, TestREP, SPIN, FACTOR, LOW, HIGH, MaxPreempts,
  ARRAY, RecordKeys, RECORD, MaxRecords,
  AnyWords, MaxWords, GROUPS, PER_GROUP, JPEGS, Lengths, DirBytes, LETTER,
  SIZE, META, NINODES, FileLens, MaxBatch, Dirty,
  FileNames, DirNames, DevNames, MaxNames, MaxArgs, MaxOther, FILESIZE

(* What is typed at sh: all short lines, and some that need more tokens. *)
Tokens == {"a", "<", ">", "|", "(", ")", "&", ";"}
Lines ==
  UNION {[1 .. k -> Tokens] : k \in 0 .. MaxTokens} \cup
  {<<"a", "|", "a", "|", "a">>, <<"a", ";", "a", "|", "(", "a", ";", "a", ")">>,
   <<"(", "a", "|", "a", ")", "&", ";", "a">>, <<"(", "a", ";", "a", ")", ">", "a", "|", "a">>,
   <<"a", "a", ">", "a", "<", "a">>, <<"cd", "a">>}

VARIABLES
  part, v1, v2, v3, v4, v5, v6, v7, v8, v9, v10, v11, v12, v13, v14, v15,
  v16, v17, v18, v19, v20, v21, v22, v23, v24

T == INSTANCE SystemCalls WITH
  Slots <- FileSlots, Pipes <- PipeNos, Programs <- StartedPrograms, MAXFILE <- FILEBLOCKS,
  Text <- TextBytes,
  inode <- v1, file <- v2, fds <- v3, pipe <- v4, cwd <- v5, st <- v6,
  parent <- v7, killed <- v8, mem <- v9, sz <- v10, user <- v11
M == INSTANCE Umalloc WITH
  ptr <- v1, size <- v2, freep <- v3, inited <- v4, sz <- v5, live <- v6,
  own <- v7
S == INSTANCE PSort WITH
  Keys <- SortKeys,
  lines <- v1, asked <- v2, arrays <- v3, todo <- v4, put <- v5, final <- v6,
  finalTodo <- v7, sortpc <- v8,
  rec <- v1, sort <- v2, key_pointer_map <- v3, calls <- v4, ret <- v5, rpc <- v6
R == INSTANCE RunScan WITH
  size <- v1, offset <- v2, copied <- v3, group <- v4, scanpc <- v5,
  kind <- v1, entries <- v2, inode_no <- v3, ngroup <- v4, idx <- v5,
  byte_count <- v6, out <- v7, namepc <- v8
H == INSTANCE Smash WITH
  Items <- MaxItems, Room <- PipeRoom,
  n <- v1, failing <- v2, short <- v3, numLoop <- v4, my_pid <- v5, at <- v6,
  i <- v7, in <- v8, stdin <- v9, stdout <- v10, ends <- v11, has <- v12,
  held <- v13, fd <- v14
U == INSTANCE Sh WITH
  MaxProcs <- MaxShProcs, line <- v1, shpc <- v2, at <- v3, job <- v4,
  parent <- v5, loose <- v6, stdin <- v7, stdout <- v8, ends <- v9, pipe <- v10,
  waits <- v11, has <- v12, held <- v13
F == INSTANCE Library WITH fn <- v1, arg <- v2, out <- v3, rest <- v4, state <- v5
D == INSTANCE SchedTests WITH
  NPROC <- SlotsOfTests, MAXSTRIDE <- 12, IntMax <- 2000,
  TicketArgs <- {1}, MaxTicks <- 12, MaxKilled <- 2, Observing <- FALSE,
  REP <- TestREP, state <- v1, parent <- v2, nopid <- v3, killed <- v4,
  tickets <- v5, init_stride <- v6, passvalue <- v7, ticks <- v8, pc <- v9,
  np <- v10, ready <- v11, proc <- v12, k <- v13, lowestPV <- v14,
  chosenProc <- v15, mark <- v16, panicked <- v17, test <- v18,
  user <- v19, pid <- v20, nextpid <- v21, acted <- v22, preempts <- v23,
  said <- v24
W == INSTANCE SmashLine WITH
  line <- v1, meant <- v2, lines <- v3, cmds <- v4, i <- v5, j <- v6,
  numLoop <- v7, log <- v8, smashpc <- v9
K == INSTANCE Mkfs WITH
  NDIRECT <- 1, BSIZE <- 2, host <- v1, img <- v2, freeblock <- v3,
  usedblocks <- v4, freeinode <- v5, stack <- v6, mkpc <- v7
Q == INSTANCE Fortune WITH
  Fortunes <- {-1, 0, 2}, Longest <- {-1, 0, 3, 5}, Extra <- {-1, 0, 1}, Numbers <- {-1, 0, 2, 3},
  argv <- v1, file <- v2, batch <- v3, i <- v4, flag <- v5, fortune <- v6,
  num <- v7, line <- v8, batchCounter <- v9, out <- v10, fpc <- v11
X == INSTANCE Commands WITH
  MaxEntries <- MaxNames, BUF <- 2, cmd <- v1, argv <- v2, i <- v3,
  dir <- v4, cpc <- v5, fd <- v6, off <- v7, cur <- v8, log <- v9,
  steady <- v10, others <- v11

E == INSTANCE CowTest WITH
  CPUs <- {1}, Procs <- 1 .. 4, InitProc <- 1, Frames <- 1 .. 16, NPages <- ARRAY + 1,
  KvmTables <- 0, ExecSizes <- {1}, Values <- {"a"}, Zero <- "a", Image <- "a", Junk <- "junk",
  Boot <- [kstack |-> 1, pgdir |-> 2, page |-> 3, tables |-> {}],
  KernelWrites <- FALSE, SbrkSizes <- {ARRAY + 1},
  NoProc <- 0, NoFrame <- 0, NotPresent <- 17, Frame0 <- 18,
  free <- v1, free_pages <- v2, ref_cnt <- v3, data <- v4, pte <- v5, writable <- v6,
  tables <- v7, stale <- v8, kp <- v9, state <- v10, sz <- v11, parent <- v12, np <- v13,
  newsz <- v14, i <- v15, pc <- v16, cpu <- v17, ptlock <- v18, dropped <- v19,
  panicked <- v20, at <- v21, counts <- v22, said <- v23

(* The variables a machine does not have stay 0. *)
Zero14 == v15 = 0 /\ v16 = 0 /\ v17 = 0 /\ v18 = 0 /\ v19 = 0 /\ v20 = 0 /\ v21 = 0 /\ v22 = 0 /\ v23 = 0 /\ v24 = 0
Rest14 == UNCHANGED <<v15, v16, v17, v18, v19, v20, v21, v22, v23, v24>>
Zero13 == v14 = 0 /\ Zero14
Rest13 == UNCHANGED <<v14>> /\ Rest14
Zero11 == v12 = 0 /\ v13 = 0 /\ Zero13
Rest11 == UNCHANGED <<v12, v13>> /\ Rest13
Zero9 == v10 = 0 /\ v11 = 0 /\ Zero11
Rest9 == UNCHANGED <<v10, v11>> /\ Rest11
Zero8 == v9 = 0 /\ Zero9
Rest8 == UNCHANGED <<v9>> /\ Rest9
Zero7 == v8 = 0 /\ Zero8
Rest7 == UNCHANGED <<v8>> /\ Rest8
Zero6 == v7 = 0 /\ Zero7
Rest6 == UNCHANGED v7 /\ Rest7
Zero5 == v6 = 0 /\ Zero6
Rest5 == UNCHANGED v6 /\ Rest6

Init ==
  \/ part = "user" /\ T!CallInit /\ Zero11
  \/ part = "malloc" /\ M!MallocInit /\ Zero7
  \/ part = "psort" /\ S!SortInit /\ Zero8
  \/ part = "runscan" /\ R!ScanInit /\ Zero5
  \/ part = "smash" /\ H!SmashInit /\ Zero14
  \/ part = "sh" /\ U!ShInit /\ Zero13
  \/ part = "library" /\ F!LibInit /\ Zero5
  \/ part = "sched" /\ D!SchedInit
  \/ part = "smashline" /\ W!LineInit /\ Zero9
  \/ part = "scannames" /\ R!NameInit /\ Zero8
  \/ part = "mkfs" /\ K!MkInit /\ Zero7
  \/ part = "fortune" /\ Q!FortuneInit /\ Zero11
  \/ part = "commands" /\ X!CommandInit /\ Zero11
  \/ part = "cowtest" /\ E!TestInit /\ v24 = 0
  \/ part = "rcheck" /\ S!RCheckInit /\ Zero6
In(x) == part = x /\ UNCHANGED part
Next ==
  \/ \E p \in Pids : In("user") /\ T!SysOpen(p) /\ Rest11
  \/ \E p \in Pids : In("user") /\ T!SysMkdir(p) /\ Rest11
  \/ \E p \in Pids : In("user") /\ T!SysLink(p) /\ Rest11
  \/ \E p \in Pids : In("user") /\ T!SysUnlink(p) /\ Rest11
  \/ \E p \in Pids : In("user") /\ T!SysChdir(p) /\ Rest11
  \/ \E p \in Pids : In("user") /\ T!SysClose(p) /\ Rest11
  \/ \E p \in Pids : In("user") /\ T!SysPipe(p) /\ Rest11
  \/ \E p \in Pids : In("user") /\ T!SysRead(p) /\ Rest11
  \/ \E p \in Pids : In("user") /\ T!SysReadDir(p) /\ Rest11
  \/ \E p \in Pids : In("user") /\ T!SysWrite(p) /\ Rest11
  \/ \E p \in Pids : In("user") /\ T!SysWritePipe(p) /\ Rest11
  \/ \E p \in Pids : In("user") /\ T!SysFork(p) /\ Rest11
  \/ \E p \in Pids : In("user") /\ T!SysExit(p) /\ Rest11
  \/ \E p \in Pids : In("user") /\ T!Dies(p) /\ Rest11
  \/ \E p \in Pids : In("user") /\ T!SysWait(p) /\ Rest11
  \/ \E p \in Pids : In("user") /\ T!SysKill(p) /\ Rest11
  \/ \E p \in Pids : In("user") /\ T!SysSleep(p) /\ Rest11
  \/ \E p \in Pids : In("user") /\ T!SysSbrk(p) /\ Rest11
  \/ \E p \in Pids : In("user") /\ T!SysSbrkTo(p) /\ Rest11
  \/ \E p \in Pids : In("user") /\ T!Store(p) /\ Rest11
  \/ \E p \in Pids : In("user") /\ T!Load(p) /\ Rest11
  \/ \E p \in Pids : In("user") /\ T!SysExec(p) /\ Rest11
  \/ In("malloc") /\ M!Sbrk /\ Rest7
  \/ \E b \in M!Addresses : In("malloc") /\ M!Free(b) /\ Rest7
  \/ \E u \in Requests : In("malloc") /\ M!MallocFits(u) /\ Rest7
  \/ \E u \in Requests : In("malloc") /\ M!MallocGrows(u) /\ Rest7
  \/ \E u \in Requests : In("malloc") /\ M!MallocFails(u) /\ Rest7
  \/ In("psort") /\ S!Split /\ Rest8
  \/ In("psort") /\ S!Join /\ Rest8
  \/ In("psort") /\ S!FinalMerges /\ Rest8
  \/ In("psort") /\ S!Write /\ Rest8
  \/ \E t \in 1 .. MaxThreads + 1 : In("psort") /\ S!ThreadCopies(t) /\ Rest8
  \/ \E t \in 1 .. MaxThreads + 1 : In("psort") /\ S!ThreadPuts(t) /\ Rest8
  \/ In("runscan") /\ R!DirectBlocks /\ Rest5
  \/ In("runscan") /\ R!DirectTail /\ Rest5
  \/ In("runscan") /\ R!IndirectBlocks /\ Rest5
  \/ In("runscan") /\ R!GroupBlocks /\ Rest5
  \/ In("runscan") /\ R!LeftOvers /\ Rest5
  \/ In("runscan") /\ R!NoDouble /\ Rest5
  \/ In("smash") /\ H!Fork /\ Rest14
  \/ In("smash") /\ H!Wait /\ Rest14
  \/ \E p \in 1 .. MaxProcs : In("smash") /\ H!ForkPipe(p) /\ Rest14
  \/ \E p \in 1 .. MaxProcs : In("smash") /\ H!SpawnProc(p) /\ Rest14
  \/ \E p \in 1 .. MaxProcs : In("smash") /\ H!ExecLast(p) /\ Rest14
  \/ \E p \in 1 .. MaxProcs : In("smash") /\ H!Write(p) /\ Rest14
  \/ \E p \in 1 .. MaxProcs : In("smash") /\ H!Read(p) /\ Rest14
  \/ In("sh") /\ U!ShChdir /\ Rest13
  \/ In("sh") /\ U!ShFork /\ Rest13
  \/ In("sh") /\ U!ShWait /\ Rest13
  \/ \E p \in 1 .. MaxShProcs : In("sh") /\ U!Fork1Fails(p) /\ Rest13
  \/ \E p \in 1 .. MaxShProcs : In("sh") /\ U!RunExec(p) /\ Rest13
  \/ \E p \in 1 .. MaxShProcs : In("sh") /\ U!RunRedir(p) /\ Rest13
  \/ \E p \in 1 .. MaxShProcs : In("sh") /\ U!RunBack(p) /\ Rest13
  \/ \E p \in 1 .. MaxShProcs : In("sh") /\ U!RunList(p) /\ Rest13
  \/ \E p \in 1 .. MaxShProcs : In("sh") /\ U!RunPipe(p) /\ Rest13
  \/ \E p \in 1 .. MaxShProcs : In("sh") /\ U!RunRight(p) /\ Rest13
  \/ \E p \in 1 .. MaxShProcs : In("sh") /\ U!DupWrite(p) /\ Rest13
  \/ \E p \in 1 .. MaxShProcs : In("sh") /\ U!DupRead(p) /\ Rest13
  \/ \E p \in 1 .. MaxShProcs : In("sh") /\ U!ClosePipe(p) /\ Rest13
  \/ \E p \in 1 .. MaxShProcs : In("sh") /\ U!Wait(p) /\ Rest13
  \/ \E p \in 1 .. MaxShProcs : In("sh") /\ U!RunAfter(p) /\ Rest13
  \/ \E p \in 1 .. MaxShProcs : In("sh") /\ U!RunEnds(p) /\ Rest13
  \/ \E p \in 1 .. MaxShProcs : In("sh") /\ U!Write(p) /\ Rest13
  \/ \E p \in 1 .. MaxShProcs : In("sh") /\ U!Read(p) /\ Rest13
  \/ In("library") /\ F!Call /\ Rest5
  \/ \E n \in 1 .. MaxText + 2 : In("library") /\ F!WcRead(n) /\ Rest5
  \/ \E n \in 1 .. BUF : In("library") /\ F!GrepRead(n) /\ Rest5
  \/ \E k \in F!Keys : In("library") /\ F!Key(k) /\ Rest5
  \/ In("sched") /\ D!Schedules
  \/ \E p \in D!Slots : In("sched") /\ D!Preempted(p)
  \/ \E p \in D!Slots : In("sched") /\ D!Spins(p)
  \/ \E p \in D!Slots : In("sched") /\ D!SpinEnds(p)
  \/ \E p \in D!Slots : In("sched") /\ D!ForkStarts(p)
  \/ \E p \in D!Slots : In("sched") /\ D!ForkReturns(p)
  \/ \E p \in D!Slots : In("sched") /\ D!Getpid(p)
  \/ \E p \in D!Slots : In("sched") /\ D!Settickets(p)
  \/ \E p \in D!Slots : In("sched") /\ D!Getpinfo(p)
  \/ \E p \in D!Slots : In("sched") /\ D!Waits(p)
  \/ \E p \in D!Slots : In("sched") /\ D!Kills(p)
  \/ \E p \in D!Slots : In("sched") /\ D!Says(p)
  \/ \E p \in D!Slots : In("sched") /\ D!Exits(p)
  \/ \E p \in D!Slots : In("sched") /\ D!Sleeps(p)
  \/ \E p \in D!Slots : In("sched") /\ D!Woken_(p)
  \/ \E p \in D!Slots : In("sched") /\ D!Returns(p)
  \/ In("smashline") /\ W!GetLine /\ Rest9
  \/ In("smashline") /\ W!EndOfInput /\ Rest9
  \/ In("smashline") /\ W!SkipEmpty /\ Rest9
  \/ In("smashline") /\ W!Once /\ Rest9
  \/ In("smashline") /\ W!Loop /\ Rest9
  \/ In("smashline") /\ W!LoopAlone /\ Rest9
  \/ In("smashline") /\ W!LineEnds /\ Rest9
  \/ In("smashline") /\ W!ExecBuiltin /\ Rest9
  \/ In("smashline") /\ W!RoundsEnd /\ Rest9
  \/ In("smashline") /\ W!RunChild /\ Rest9
  \/ In("scannames") /\ R!NextInode /\ Rest8
  \/ In("scannames") /\ R!FindName /\ Rest8
  \/ In("scannames") /\ R!MainEnds /\ Rest8
  \/ In("scannames") /\ R!SearchInode /\ Rest8
  \/ In("scannames") /\ R!Skips /\ Rest8
  \/ In("scannames") /\ R!Found /\ Rest8
  \/ In("scannames") /\ R!EntriesEnd /\ Rest8
  \/ In("scannames") /\ R!NotFound /\ Rest8
  \/ In("mkfs") /\ K!Format /\ Rest7
  \/ In("mkfs") /\ K!Dots /\ Rest7
  \/ In("mkfs") /\ K!AddFile /\ Rest7
  \/ In("mkfs") /\ K!AddDir /\ Rest7
  \/ In("mkfs") /\ K!AddFails /\ Rest7
  \/ In("mkfs") /\ K!EndDir /\ Rest7
  \/ In("mkfs") /\ K!Balloc /\ Rest7
  \/ In("fortune") /\ Q!Usage /\ Rest11
  \/ In("fortune") /\ Q!ParseArg /\ Rest11
  \/ In("fortune") /\ Q!FlagError /\ Rest11
  \/ In("fortune") /\ Q!NoFile /\ Rest11
  \/ In("fortune") /\ Q!NoName /\ Rest11
  \/ In("fortune") /\ Q!NoFortunes /\ Rest11
  \/ In("fortune") /\ Q!ReadFortunes /\ Rest11
  \/ In("fortune") /\ Q!NumberMode /\ Rest11
  \/ In("fortune") /\ Q!OutputNumber /\ Rest11
  \/ In("fortune") /\ Q!Silent /\ Rest11
  \/ In("fortune") /\ Q!OpenBatch /\ Rest11
  \/ In("fortune") /\ Q!BatchInvalid /\ Rest11
  \/ In("fortune") /\ Q!BatchLine /\ Rest11
  \/ In("fortune") /\ Q!BatchEnds /\ Rest11
  \/ In("commands") /\ X!Usage /\ Rest11
  \/ In("commands") /\ X!RmArg /\ Rest11
  \/ In("commands") /\ X!MkdirArg /\ Rest11
  \/ In("commands") /\ X!Ln /\ Rest11
  \/ In("commands") /\ X!KillArg /\ Rest11
  \/ In("commands") /\ X!ArgsEnd /\ Rest11
  \/ In("commands") /\ X!CatOpens /\ Rest11
  \/ In("commands") /\ X!CatReads /\ Rest11
  \/ In("commands") /\ X!CatEnds /\ Rest11
  \/ In("commands") /\ X!LsOpens /\ Rest11
  \/ In("commands") /\ X!LsFile /\ Rest11
  \/ In("commands") /\ X!LsReads /\ Rest11
  \/ In("commands") /\ X!LsStats /\ Rest11
  \/ In("commands") /\ X!LsDirEnds /\ Rest11
  \/ \E n \in X!Names : In("commands") /\ X!OtherUnlinks(n) /\ Rest11
  \/ \E n \in X!Names : In("commands") /\ X!OtherCreates(n) /\ Rest11
  \/ \E p \in 1 .. 4 : In("cowtest") /\ E!Stores(p) /\ UNCHANGED v24
  \/ \E p \in 1 .. 4 : In("cowtest") /\ E!Faults(p) /\ UNCHANGED v24
  \/ \E p \in 1 .. 4 : In("cowtest") /\ E!Sbrks(p) /\ UNCHANGED v24
  \/ \E p \in 1 .. 4 : In("cowtest") /\ E!Forks(p) /\ UNCHANGED v24
  \/ \E p \in 1 .. 4 : In("cowtest") /\ E!Waits(p) /\ UNCHANGED v24
  \/ \E p \in 1 .. 4 : In("cowtest") /\ E!Exits(p) /\ UNCHANGED v24
  \/ \E p \in 1 .. 4 : In("cowtest") /\ E!Sleeps(p) /\ UNCHANGED v24
  \/ \E p \in 1 .. 4 : In("cowtest") /\ E!Counts(p) /\ UNCHANGED v24
  \/ \E p \in 1 .. 4 : In("cowtest") /\ E!Says(p) /\ UNCHANGED v24
  \/ \E p \in 1 .. 4 : In("cowtest") /\ E!InKernel(p) /\ UNCHANGED v24
  \/ \E p \in 1 .. 4 : In("cowtest") /\ E!Scheduled(p) /\ UNCHANGED v24
  \/ In("rcheck") /\ S!Fails /\ Rest6
  \/ In("rcheck") /\ S!Maps /\ Rest6
  \/ In("rcheck") /\ S!Qs /\ Rest6
  \/ In("rcheck") /\ S!Compares /\ Rest6
Spec == Init /\ [][Next]_<<part, v1, v2, v3, v4, v5, v6, v7, v8, v9, v10, v11, v12, v13, v14, v15, v16, v17, v18, v19, v20, v21, v22, v23, v24>>
-----------------------------------------------------------------------------
(* The properties of the machines, each stated where it is defined. *)
(* psort.c: the output is the input, sorted and stable, and rcheck.c says  *)
(* so.  runscan.c: every JPEG is found and named, and its copy is the      *)
(* file.  mkfs.c: the image is a file system.  badger_fortune.c: it prints *)
(* the fortunes asked for.                                                 *)
ToolsRight ==
  /\ part = "psort" => S!SortedWhole
  /\ part = "rcheck" => S!RCheckRight
  /\ part = "runscan" => R!CopyWhole
  /\ part = "scannames" => R!NamesRight
  /\ part = "mkfs" => K!ImageSound
  /\ part = "fortune" => Q!FortuneRight
(* smash.c: a line means what the README says, and the shell prompts       *)
(* again.  sh.c: the parser builds the grammar's tree, nobody goes on      *)
(* before what it waits for has ended, and the wait ends.                  *)
ShellsRight ==
  /\ part = "smash" => H!WaitEnds
  /\ part = "smashline" => W!LineRight
  /\ part = "sh" => U!ParsedRight /\ U!ForegroundEnds /\ U!PromptReturns
(* The library functions, the filters and the small programs give what     *)
(* they are for; malloc() and free() cut the heap into free blocks and the *)
(* program's.                                                              *)
LibraryRight ==
  /\ part = "malloc" => M!HeapSound
  /\ part = "library" => F!LibraryRight
  /\ part = "commands" => X!CommandsRight
(* The programs of the repository are content with every system call, and  *)
(* p5's test of copy-on-write prints SUCCESS.                              *)
TestsPass ==
  /\ part = "user" => T!TestsPass
  /\ part = "cowtest" => E!CowTestPasses
(* ctests: the test programs print SUCCESS on p4's scheduler. *)
SchedTestsPass == part = "sched" => D!SchedTestsPass
==============================================================================
