------------------------------- MODULE Commands -------------------------------
(***************************************************************************)
(* p2's small programs cat, ls, ln, rm, mkdir and kill, which make one     *)
(* system call after the other on one directory, while another process     *)
(* removes and creates names in it between any two calls.                  *)
(*                                                                         *)
(* The directory is its array of entries: unlink() leaves a hole, which    *)
(* the next name takes; ls skips holes, and asks for each entry it has     *)
(* read once more by name.  A byte that cat prints is a file and a place.  *)
(***************************************************************************)
EXTENDS Naturals, Sequences, FiniteSets, SequencesExt

CONSTANTS
  FileNames, DirNames, DevNames,  \* what the names are at first
  MaxEntries, MaxArgs, MaxOther,  \* bounds: entries, arguments, calls of the other process
  FILESIZE, BUF                   \* length of a file, sizeof(buf) of cat

Names == FileNames \cup DirNames \cup DevNames
Entry(n, t) == [name |-> n, type |-> t]
Hole == Entry("none", "none")
Here == Entry(".", "T_DIR")
Given == {Entry(n, "T_FILE") : n \in FileNames} \cup {Entry(n, "T_DIR") : n \in DirNames}
         \cup {Entry(n, "T_DEV") : n \in DevNames}

VARIABLES
  cmd, argv, i,   \* the program, its arguments, the one it is at
  dir,            \* the entries of the directory
  cpc,            \* "main", "cat", "ls", "stat", "exit"
  fd, off, cur,   \* the open file, its offset, the name ls asks for
  log,            \* calls made, and what is printed
  steady,         \* names that have been in the directory since the start
  others          \* calls the other process has made
commandVars == <<cmd, argv, i, dir, cpc, fd, off, cur, log, steady, others>>

Directories ==
  {d \in UNION {[1 .. k -> Given \cup {Hole}] : k \in 0 .. MaxEntries} :
     \A a, b \in DOMAIN d : a # b /\ d[a] = d[b] => d[a] = Hole}
Arguments == UNION {[1 .. k -> Names \cup {"."}] : k \in 0 .. MaxArgs}
CommandInit ==
  /\ cmd \in {"cat", "ls", "ln", "rm", "mkdir", "kill"} /\ argv \in Arguments
  /\ cmd = "cat" => Range(argv) \subseteq FileNames   \* what it prints is read from files
  /\ dir \in Directories
  /\ i = 1 /\ cpc = "main" /\ fd = Hole /\ off = 0 /\ cur = "none" /\ log = <<>> /\ others = 0
  /\ steady = {e.name : e \in Range(dir) \ {Hole}}

(* The system calls, as they change the directory. *)
Named(n) == {e \in Range(dir) \cup {Here} : e.name = n}
Exists(n) == Named(n) # {}
Slots(e) == {k \in DOMAIN dir : dir[k] = e}
First(S) == CHOOSE k \in S : \A j \in S : k <= j
Dirlink(n, t) ==
  IF Slots(Hole) # {} THEN [dir EXCEPT ![First(Slots(Hole))] = Entry(n, t)] ELSE Append(dir, Entry(n, t))
Unlinked(n) == [k \in DOMAIN dir |-> IF dir[k].name = n THEN Hole ELSE dir[k]]
Room == Slots(Hole) # {} \/ Len(dir) < MaxEntries

At(c, pc) == cmd = c /\ cpc = pc
NextArg == i' = i + 1
Says(x) == log' = Append(log, x)
-----------------------------------------------------------------------------
(* rm, mkdir, ln and kill.  kill compares argc, which counts the program   *)
(* itself, with 1, and so never prints its usage; it does not look at what *)
(* kill() returns.                                                         *)
Usage ==
  /\ cpc = "main" /\ ((cmd \in {"rm", "mkdir"} /\ argv = <<>>) \/ (cmd = "ln" /\ Len(argv) # 2))
  /\ Says(<<"usage", cmd>>) /\ cpc' = "exit"
  /\ UNCHANGED <<cmd, argv, i, dir, fd, off, cur, steady, others>>
Removable(n) == Exists(n) /\ n # "."
RmArg ==
  /\ At("rm", "main") /\ i <= Len(argv)
  /\ Says(<<argv[i], Removable(argv[i])>>) /\ NextArg
  /\ IF Removable(argv[i])
     THEN dir' = Unlinked(argv[i]) /\ steady' = steady \ {argv[i]} /\ UNCHANGED cpc
     ELSE UNCHANGED <<dir, steady>> /\ cpc' = "exit"
  /\ UNCHANGED <<cmd, argv, fd, off, cur, others>>
MkdirArg ==
  /\ At("mkdir", "main") /\ i <= Len(argv)
  /\ LET done == ~Exists(argv[i]) /\ Room
     IN /\ Says(<<argv[i], done>>)
        /\ dir' = IF done THEN Dirlink(argv[i], "T_DIR") ELSE dir
        /\ cpc' = IF done THEN cpc ELSE "exit"
  /\ NextArg /\ UNCHANGED <<cmd, argv, fd, off, cur, steady, others>>
Ln ==
  /\ At("ln", "main") /\ Len(argv) = 2
  /\ LET done == /\ \E e \in Named(argv[1]) : e.type # "T_DIR"
                 /\ ~Exists(argv[2]) /\ Room
     IN /\ Says(<<argv[2], done>>)
        /\ dir' = IF done THEN Dirlink(argv[2], (CHOOSE e \in Named(argv[1]) : TRUE).type) ELSE dir
  /\ cpc' = "exit" /\ UNCHANGED <<cmd, argv, i, fd, off, cur, steady, others>>
KillArg ==
  /\ At("kill", "main") /\ i <= Len(argv)
  /\ Says(<<argv[i], TRUE>>) /\ NextArg
  /\ UNCHANGED <<cmd, argv, dir, cpc, fd, off, cur, steady, others>>
ArgsEnd ==
  /\ cpc = "main" /\ i > Len(argv)
  /\ cmd # "ln" /\ (argv = <<>> => cmd = "kill" \/ i > 1)
  /\ cpc' = "exit" /\ UNCHANGED <<cmd, argv, i, dir, fd, off, cur, log, steady, others>>
-----------------------------------------------------------------------------
(* cat: without an argument, of what it is given as standard input. *)
Stdin == Entry("stdin", "T_FILE")
CatOpens ==
  /\ At("cat", "main") /\ (IF argv = <<>> THEN i = 1 ELSE i <= Len(argv))
  /\ IF argv # <<>> /\ ~Exists(argv[i])
     THEN Says(<<"cannot open", argv[i]>>) /\ cpc' = "exit" /\ UNCHANGED <<fd, off>>
     ELSE /\ fd' = IF argv = <<>> THEN Stdin ELSE CHOOSE e \in Named(argv[i]) : TRUE
          /\ off' = 0 /\ cpc' = "cat" /\ UNCHANGED log
  /\ UNCHANGED <<cmd, argv, i, dir, cur, steady, others>>
Piece == IF FILESIZE - off < BUF THEN FILESIZE - off ELSE BUF
CatReads ==
  /\ cpc = "cat" /\ off < FILESIZE
  /\ log' = log \o [k \in 1 .. Piece |-> <<fd.name, off + k>>] /\ off' = off + Piece
  /\ UNCHANGED <<cmd, argv, i, dir, cpc, fd, cur, steady, others>>
CatEnds ==
  /\ cpc = "cat" /\ off = FILESIZE
  /\ NextArg /\ fd' = Hole /\ cpc' = "main"
  /\ UNCHANGED <<cmd, argv, dir, off, cur, log, steady, others>>
-----------------------------------------------------------------------------
(* ls: of a file its line, of a device nothing, of a directory a line for  *)
(* each entry whose stat(), which opens it by name, succeeds.              *)
Path == IF argv = <<>> THEN "." ELSE argv[i]
LsOpens ==
  /\ At("ls", "main") /\ (IF argv = <<>> THEN i = 1 ELSE i <= Len(argv))
  /\ IF Exists(Path)
     THEN fd' = (CHOOSE e \in Named(Path) : TRUE) /\ off' = 0 /\ cpc' = "ls" /\ UNCHANGED <<i, log>>
     ELSE Says(<<"cannot open", Path>>) /\ NextArg /\ UNCHANGED <<cpc, fd, off>>
  /\ UNCHANGED <<cmd, argv, dir, cur, steady, others>>
LsEnds == fd' = Hole /\ NextArg /\ cpc' = "main"
LsFile ==
  /\ cpc = "ls" /\ fd.type # "T_DIR"
  /\ log' = IF fd.type = "T_FILE" THEN Append(log, <<"line", fd.name>>) ELSE log
  /\ LsEnds /\ UNCHANGED <<cmd, argv, dir, off, cur, steady, others>>
(* A subdirectory has no entries but "." and "..", which are not listed here. *)
Entries == IF fd = Here THEN dir ELSE <<>>
AfterHole_ends == Len(Entries)
AfterHole == off + 1
LsReads ==
  /\ cpc = "ls" /\ fd.type = "T_DIR" /\ off < Len(Entries)
  /\ IF Entries[off + 1] = Hole THEN off' = AfterHole /\ UNCHANGED <<cur, cpc>>
     ELSE off' = off + 1 /\ cur' = Entries[off + 1].name /\ cpc' = "stat"
  /\ UNCHANGED <<cmd, argv, i, dir, fd, log, steady, others>>
LsStats ==
  /\ cpc = "stat"
  /\ Says(<<IF Exists(cur) THEN "line" ELSE "cannot stat", cur>>) /\ cpc' = "ls"
  /\ UNCHANGED <<cmd, argv, i, dir, fd, off, cur, steady, others>>
LsDirEnds ==
  /\ cpc = "ls" /\ fd.type = "T_DIR" /\ off >= Len(Entries)
  /\ LsEnds /\ UNCHANGED <<cmd, argv, dir, off, cur, log, steady, others>>
-----------------------------------------------------------------------------
(* The other process. *)
OtherUnlinks(n) ==
  /\ cpc # "exit" /\ others < MaxOther /\ Removable(n)
  /\ dir' = Unlinked(n) /\ steady' = steady \ {n} /\ others' = others + 1
  /\ UNCHANGED <<cmd, argv, i, cpc, fd, off, cur, log>>
OtherCreates(n) ==
  /\ cpc # "exit" /\ others < MaxOther /\ ~Exists(n) /\ Room
  /\ dir' = Dirlink(n, "T_FILE") /\ others' = others + 1
  /\ UNCHANGED <<cmd, argv, i, cpc, fd, off, cur, log, steady>>

CommandNext ==
  \/ Usage \/ RmArg \/ MkdirArg \/ Ln \/ KillArg \/ ArgsEnd
  \/ CatOpens \/ CatReads \/ CatEnds
  \/ LsOpens \/ LsFile \/ LsReads \/ LsStats \/ LsDirEnds
  \/ \E n \in Names : OtherUnlinks(n) \/ OtherCreates(n)
CommandSpec == CommandInit /\ [][CommandNext]_commandVars
-----------------------------------------------------------------------------
Times(x) == Cardinality({k \in DOMAIN log : log[k] = x})
(* Whatever the other process does: ls of the directory has one line for   *)
(* each name that is in it all the time; cat prints its files one after    *)
(* the other, each whole, up to the first it cannot open; rm and mkdir     *)
(* make their calls in order and stop at the first that fails, and kill    *)
(* makes them all.                                                         *)
CommandsRight ==
  /\ (At("ls", "exit") /\ (argv = <<>> \/ argv = <<".">>)) =>
       \A n \in steady : Times(<<"line", n>>) = 1 /\ Times(<<"cannot stat", n>>) = 0
  /\ At("cat", "exit") =>
       LET shown == IF argv = <<>> THEN <<"stdin">> ELSE SubSeq(argv, 1, i - 1)
           bytes == FlattenSeq([k \in DOMAIN shown |-> [o \in 1 .. FILESIZE |-> <<shown[k], o>>]])
       IN log = bytes \o (IF i <= Len(argv) THEN <<<<"cannot open", argv[i]>>>> ELSE <<>>)
  /\ (cpc = "exit" /\ cmd \in {"rm", "mkdir", "kill"} /\ log # <<<<"usage", cmd>>>>) =>
       /\ \A k \in DOMAIN log : log[k][1] = argv[k] /\ (k < Len(log) => log[k][2])
       /\ Len(log) < Len(argv) => ~Last(log)[2]
=============================================================================
