----------------------------- MODULE SystemCalls -----------------------------
(***************************************************************************)
(* What the system calls of p4's kernel do for user programs, each call    *)
(* one step: files and directories, descriptors with shared offsets,       *)
(* pipes, processes and their memory.  How the kernel gets there with      *)
(* locks, blocks and buffers is in modules Files, Blocks, BufferCache and  *)
(* Pipe, which model p2's copies of the same files, and Stride.            *)
(*                                                                         *)
(* A process runs a program of module UserTests: the system calls it makes *)
(* are the actions, the tests and loops between them are Settle.           *)
(***************************************************************************)
EXTENDS UserTests

CONSTANTS
  Pids,        \* the slots of the process table, 1 for init
  Inums,       \* the inodes of the disk, 1 for the root directory
  Slots,       \* the open files of the system
  NOFILE,      \* descriptors of a process
  Pipes,       \* pipes
  PIPESIZE,    \* bytes in a pipe
  FRAMES,      \* page frames of the machine
  Programs     \* the programs init may start

VARIABLES
  inode,    \* [type, nlink, data, ents]
  file,     \* [kind, ip, off, r, w]: the table of open files
  fds,      \* descriptors of a process: a slot, or 0
  pipe,     \* the bytes in a pipe
  cwd, st, parent, killed,
  mem,      \* the pages of a process, byte by byte
  sz,       \* its size
  user      \* [code, reg]: what it still has to run, and its registers

fsVars == <<inode, file, fds, pipe, cwd>>
procVars == <<st, parent, killed, mem, sz>>
callVars == <<fsVars, procVars, user>>

-----------------------------------------------------------------------------
(* Between two system calls: tests, loops, assignments and the comparison  *)
(* of what was read with what is expected.                                 *)
RECURSIVE Settle(_, _)
Settle(c, g) ==
  IF c = <<>> THEN [code |-> c, reg |-> g]
  ELSE LET i == Head(c) IN
    CASE i.op = "if" ->
           Settle((IF g[i.to] \in i.want THEN i.a[1] ELSE i.a[2]) \o Tail(c), g)
      [] i.op = "while" ->
           Settle(IF g[i.to] \in i.want THEN i.a[1] \o c ELSE Tail(c), g)
      [] i.op = "until" ->
           Settle(IF g[i.to] \in OK /\ g[i.to] # g[i.a[2]] THEN i.a[1] \o c ELSE Tail(c), g)
      [] i.op = "let" -> Settle(Tail(c), [g EXCEPT ![i.to] = i.a[1]])
      [] i.op = "add" -> Settle(Tail(c), [g EXCEPT ![i.to] = @ + i.a[1]])
      [] i.op = "append" -> Settle(Tail(c), [g EXCEPT ![i.to] = @ \o g[i.a[1]]])
      [] i.op = "check" ->
           IF g[i.to] \in i.want THEN Settle(Tail(c), g) ELSE [code |-> Oops, reg |-> g]
      [] i.op = "same" ->
           IF g[i.to] = g[i.a[1]] THEN Settle(Tail(c), g) ELSE [code |-> Oops, reg |-> g]
      [] i.op = "call" -> Settle(Test(i.a[1]) \o Tail(c), g)
      [] OTHER -> [code |-> c, reg |-> g]

NoRegs ==
  [x |-> 0, fd |-> 0, fd1 |-> 0, r |-> 0, w |-> 0, pid |-> 0, pid1 |-> 0, pid2 |-> 0,
   n |-> 0, a |-> 0, buf |-> <<>>, all |-> <<>>, names |-> {}]

Instr(p) == Head(user[p].code)
(* p makes the call `op` in user mode and has not been killed. *)
Calls(p, op) == st[p] = "run" /\ p \notin killed /\ user[p].code # <<>> /\ Instr(p).op = op
Reg(p, x) == user[p].reg[x]

(* The program goes on with the result n and the registers g. *)
Goes(p, n, g) ==
  user' = [user EXCEPT ![p] =
    IF n \in Instr(p).want THEN Settle(Tail(user[p].code), [g EXCEPT ![Instr(p).to] = n])
    ELSE [code |-> Oops, reg |-> g]]
Returns(p, n) == Goes(p, n, user[p].reg)

-----------------------------------------------------------------------------
(* Names.  A name longer than DIRSIZ is cut to DIRSIZ. *)
DIRSIZ(name) == IF name = "fifteen_letters" THEN "fourteenletter" ELSE name

NoInode == [type |-> "free", nlink |-> 0, data |-> <<>>, ents |-> <<>>]
Dir(i, up) == [type |-> "dir", nlink |-> 1, data |-> <<>>, ents |-> [x \in {".", ".."} |-> IF x = "." THEN i ELSE up]]
PlainFile == [type |-> "file", nlink |-> 1, data |-> <<>>, ents |-> <<>>]

IsDir(i) == i # 0 /\ inode[i].type = "dir"
dirlookup(d, name) ==
  IF IsDir(d) /\ DIRSIZ(name) \in DOMAIN inode[d].ents THEN inode[d].ents[DIRSIZ(name)] ELSE 0

(* Where a path leads, 0 for nowhere: "/" as its first element is the root. *)
Namex(p, path) ==
  IF path # <<>> /\ path[1] = "/" THEN FoldLeft(dirlookup, 1, Tail(path))
  ELSE FoldLeft(dirlookup, cwd[p], path)
namei(p, path) == Namex(p, path)
(* The directory of the last name; none for the empty path and for "/". *)
nameiparent(p, path) ==
  IF path = <<>> \/ path = <<"/">> THEN 0
  ELSE LET d == Namex(p, Front(path)) IN IF IsDir(d) THEN d ELSE 0

(* What is in use. *)
UsedSlots(f) == {f[p][d] : p \in Pids, d \in 0 .. NOFILE - 1} \ {0}
FreeSlots == Slots \ UsedSlots(fds)
FreeFds(p) == {d \in 0 .. NOFILE - 1 : fds[p][d] = 0}
Least(S) == CHOOSE x \in S : \A y \in S : x <= y

(* The inodes after a call: one without a name that nobody has open or     *)
(* works in is freed.                                                      *)
Kept(ino, f, dirs) ==
  [i \in Inums |->
     IF ino[i].nlink = 0 /\ (\A s \in UsedSlots(f) : file[s].kind = "file" => file[s].ip # i)
        /\ (\A p \in Pids : dirs[p] # i)
     THEN NoInode ELSE ino[i]]

-----------------------------------------------------------------------------
Firsts(s, n) == SubSeq(s, 1, IF n < Len(s) THEN n ELSE Len(s))
From(s, off) == SubSeq(s, off + 1, Len(s))
Fd(p) == Reg(p, Instr(p).a[1])
FileOf(p, d) == IF d \in 0 .. NOFILE - 1 THEN fds[p][d] ELSE 0

(* create(): a new inode under the last name of the path.  0: it fails. *)
CanCreate(p, path, type) ==
  LET d == nameiparent(p, path) IN
    d # 0 /\ LET i == dirlookup(d, Last(path)) IN i # 0 => type = "file" /\ inode[i].type = "file"
Fresh == Least({i \in Inums : inode[i].type = "free"})
Created(p, path, type) ==
  LET d == nameiparent(p, path)
      i == Fresh
      d1 == [inode[d] EXCEPT !.ents = [x \in DOMAIN @ \cup {DIRSIZ(Last(path))} |->
                                         IF x = DIRSIZ(Last(path)) THEN i ELSE @[x]],
                             !.nlink = IF type = "dir" THEN @ + 1 ELSE @]
  IN [inode EXCEPT ![d] = d1, ![i] = IF type = "dir" THEN Dir(i, d) ELSE PlainFile]

(* open(path, mode): with "c" in the mode the file is created if need be. *)
SysOpen(p) ==
  /\ Calls(p, "open")
  /\ LET path == Instr(p).a[1]  mode == Instr(p).a[2]
         i == namei(p, path)
         creates == "c" \in mode
         found == IF creates THEN CanCreate(p, path, "file")
                  ELSE i # 0 /\ (inode[i].type = "dir" => mode = {})
         d == Least(FreeFds(p))  s == Least(FreeSlots)
         room == FreeFds(p) # {} /\ FreeSlots # {}
     IN /\ inode' = IF found /\ creates /\ i = 0 THEN Created(p, path, "file") ELSE inode
        /\ IF found /\ room
           THEN /\ fds' = [fds EXCEPT ![p][d] = s]
                /\ file' = [file EXCEPT ![s] =
                     [kind |-> "file", ip |-> IF i = 0 THEN Fresh ELSE i, off |-> 0,
                      r |-> "w" \notin mode, w |-> mode \cap {"w", "rw"} # {}]]
                /\ Returns(p, d)
           ELSE UNCHANGED <<fds, file>> /\ Returns(p, -1)
  /\ UNCHANGED <<pipe, cwd, procVars>>

SysMkdir(p) ==
  /\ Calls(p, "mkdir")
  /\ IF CanCreate(p, Instr(p).a[1], "dir")
     THEN inode' = Created(p, Instr(p).a[1], "dir") /\ Returns(p, 0)
     ELSE UNCHANGED inode /\ Returns(p, -1)
  /\ UNCHANGED <<file, fds, pipe, cwd, procVars>>

(* link(old, new).  A pointer outside the process ("bad") is refused. *)
SysLink(p) ==
  /\ Calls(p, "link")
  /\ LET old == Instr(p).a[1]  new == Instr(p).a[2]
         i == namei(p, old)
         d == nameiparent(p, new)
         name == DIRSIZ(Last(new))
     IN IF /\ old # <<"bad">> /\ new # <<"bad">>
           /\ i # 0 /\ inode[i].type # "dir" /\ d # 0 /\ dirlookup(d, Last(new)) = 0
        THEN /\ inode' = [inode EXCEPT ![i].nlink = @ + 1,
                            ![d].ents = [x \in DOMAIN @ \cup {name} |-> IF x = name THEN i ELSE @[x]]]
             /\ Returns(p, 0)
        ELSE UNCHANGED inode /\ Returns(p, -1)
  /\ UNCHANGED <<file, fds, pipe, cwd, procVars>>

IsDirEmpty(i) == DOMAIN inode[i].ents = {".", ".."}
SysUnlink(p) ==
  /\ Calls(p, "unlink")
  /\ LET path == Instr(p).a[1]
         d == nameiparent(p, path)
         i == IF d = 0 THEN 0 ELSE dirlookup(d, Last(path))
         dir == IsDir(i)
         name == DIRSIZ(Last(path))
     IN IF d # 0 /\ Last(path) \notin {".", ".."} /\ i # 0 /\ (dir => IsDirEmpty(i))
        THEN /\ inode' = Kept([inode EXCEPT
                   ![d] = [@ EXCEPT !.ents = [x \in DOMAIN @ \ {name} |-> @[x]],
                                    !.nlink = IF dir THEN @ - 1 ELSE @],
                   ![i].nlink = @ - 1], fds, cwd)
             /\ Returns(p, 0)
        ELSE UNCHANGED inode /\ Returns(p, -1)
  /\ UNCHANGED <<file, fds, pipe, cwd, procVars>>

SysChdir(p) ==
  /\ Calls(p, "chdir")
  /\ LET i == namei(p, Instr(p).a[1]) IN
       IF IsDir(i)
       THEN /\ cwd' = [cwd EXCEPT ![p] = i]
            /\ inode' = Kept(inode, fds, [cwd EXCEPT ![p] = i])
            /\ Returns(p, 0)
       ELSE UNCHANGED <<cwd, inode>> /\ Returns(p, -1)
  /\ UNCHANGED <<file, fds, pipe, procVars>>

SysClose(p) ==
  /\ Calls(p, "close")
  /\ IF FileOf(p, Fd(p)) # 0
     THEN /\ fds' = [fds EXCEPT ![p][Fd(p)] = 0]
          /\ inode' = Kept(inode, fds', cwd)
          /\ Returns(p, 0)
     ELSE UNCHANGED <<fds, inode>> /\ Returns(p, -1)
  /\ UNCHANGED <<file, pipe, cwd, procVars>>

SysPipe(p) ==
  /\ Calls(p, "pipe")
  /\ LET used == {file[s].ip : s \in {t \in UsedSlots(fds) : file[t].kind = "pipe"}}
         q == Least(Pipes \ used)
         s == Least(FreeSlots)  t == Least(FreeSlots \ {s})
         d == Least(FreeFds(p))  c == Least(FreeFds(p) \ {d})
         end(reads) == [kind |-> "pipe", ip |-> q, off |-> 0, r |-> reads, w |-> ~reads]
         g == [user[p].reg EXCEPT !.r = d, !.w = c]
     IN IF Pipes \ used # {} /\ Cardinality(FreeSlots) >= 2 /\ Cardinality(FreeFds(p)) >= 2
        THEN /\ fds' = [fds EXCEPT ![p][d] = s, ![p][c] = t]
             /\ file' = [file EXCEPT ![s] = end(TRUE), ![t] = end(FALSE)]
             /\ pipe' = [pipe EXCEPT ![q] = <<>>]
             /\ Goes(p, 0, g)
        ELSE UNCHANGED <<fds, file, pipe>> /\ Returns(p, -1)
  /\ UNCHANGED <<inode, cwd, procVars>>

(* Somebody has the writing (reading) end of pipe q open. *)
Writers(q) == \E s \in UsedSlots(fds) : file[s].kind = "pipe" /\ file[s].ip = q /\ file[s].w
Readers(q) == \E s \in UsedSlots(fds) : file[s].kind = "pipe" /\ file[s].ip = q /\ file[s].r
(* read() waits: the pipe is empty and may still be written. *)
ReadWaits(p) ==
  LET s == FileOf(p, Fd(p)) IN
    s # 0 /\ file[s].kind = "pipe" /\ file[s].r /\ pipe[file[s].ip] = <<>> /\ Writers(file[s].ip)

(* read(fd, buf, n). *)
SysRead(p) ==
  /\ Calls(p, "read") /\ ~ReadWaits(p)
  /\ LET s == FileOf(p, Fd(p))
         n == Instr(p).a[2]
         bytes == IF file[s].kind = "pipe" THEN pipe[file[s].ip]
                 ELSE From(inode[file[s].ip].data, file[s].off)
         got == Firsts(bytes, n)
         g == [user[p].reg EXCEPT !.buf = got]
     IN IF s = 0 \/ ~file[s].r
        THEN UNCHANGED <<file, pipe>> /\ Returns(p, -1)
        ELSE /\ Goes(p, Len(got), g)
             /\ IF file[s].kind = "pipe"
                THEN pipe' = [pipe EXCEPT ![file[s].ip] = From(@, Len(got))] /\ UNCHANGED file
                ELSE file' = [file EXCEPT ![s].off = @ + Len(got)] /\ UNCHANGED pipe
  /\ UNCHANGED <<inode, fds, cwd, procVars>>

(* The names in a directory, read entry by entry in the code. *)
SysReadDir(p) ==
  /\ Calls(p, "readdir")
  /\ LET s == FileOf(p, Fd(p)) IN
       user' = [user EXCEPT ![p] = Settle(Tail(@.code),
         [@.reg EXCEPT !.names = DOMAIN inode[file[s].ip].ents \cap Instr(p).a[2]])]
  /\ UNCHANGED <<fsVars, procVars>>

(* A write lands at the offset all users of the open file share. *)
Landed(data, off, new) ==
  [k \in 1 .. (IF off + Len(new) > Len(data) THEN off + Len(new) ELSE Len(data)) |->
     IF k > off /\ k <= off + Len(new) THEN new[k - off] ELSE data[k]]
(* write() to a pipe waits while it is full and somebody may read. *)
WriteWaits(p) ==
  LET s == FileOf(p, Fd(p)) IN
    /\ s # 0 /\ file[s].kind = "pipe" /\ file[s].w
    /\ Len(pipe[file[s].ip]) = PIPESIZE /\ Readers(file[s].ip)
(* write(fd, data, n) to a file. *)
SysWrite(p) ==
  /\ Calls(p, "write")
  /\ LET s == FileOf(p, Fd(p))
         d == Instr(p).a[2]
     IN IF s = 0 \/ ~file[s].w
        THEN UNCHANGED <<inode, file>> /\ Returns(p, -1)
        ELSE /\ file[s].kind = "file"
             /\ LET new == Firsts(d, MAXFILE - file[s].off) IN
                  /\ inode' = [inode EXCEPT ![file[s].ip].data = Landed(@, file[s].off, new)]
                  /\ file' = [file EXCEPT ![s].off = @ + Len(new)]
                  /\ Returns(p, Len(new))
  /\ UNCHANGED <<fds, pipe, cwd, procVars>>

(* write() to a pipe puts in what fits and goes on when there is room: the *)
(* rest of the bytes and the count so far are kept in the instruction.  It  *)
(* looks for a reader only when the pipe is full.                          *)
SysWritePipe(p) ==
  /\ Calls(p, "write") /\ ~WriteWaits(p)
  /\ LET s == FileOf(p, Fd(p))
         i == Instr(p)
         done == IF Len(i.a) = 3 THEN i.a[3] ELSE 0
         q == file[s].ip
         fits == Firsts(i.a[2], PIPESIZE - Len(pipe[q]))
         rest == From(i.a[2], Len(fits))
     IN /\ s # 0 /\ file[s].w /\ file[s].kind = "pipe"
        /\ IF fits = <<>> /\ rest # <<>> THEN UNCHANGED pipe /\ Returns(p, -1)
           ELSE /\ pipe' = [pipe EXCEPT ![q] = @ \o fits]
                /\ IF rest = <<>> THEN Returns(p, done + Len(fits))
                   ELSE user' = [user EXCEPT ![p].code =
                          <<[i EXCEPT !.a = <<i.a[1], rest, done + Len(fits)>>]>> \o Tail(@)]
  /\ UNCHANGED <<inode, file, fds, cwd, procVars>>

-----------------------------------------------------------------------------
Pages(n) == (n + PGSIZE - 1) \div PGSIZE
(* Frames in use: the pages of every process, and one for its tables and   *)
(* kernel stack.                                                           *)
Frames ==
  LET held(p) == Len(mem[p]) \div PGSIZE + 1
  IN MapThenSumSet(held, {p \in Pids : st[p] # "unused"})
FreeFrames == FRAMES - Frames
UnusedSlot == Least({p \in Pids : st[p] = "unused"})

SysFork(p) ==
  /\ Calls(p, "fork")
  /\ IF (\E c \in Pids : st[c] = "unused") /\ FreeFrames >= Len(mem[p]) \div PGSIZE + 1
     THEN LET c == UnusedSlot
              next == Tail(user[p].code)
              to(n) == [user[p].reg EXCEPT ![Instr(p).to] = n]
          IN /\ st' = [st EXCEPT ![c] = "run"]
             /\ parent' = [parent EXCEPT ![c] = p]
             /\ mem' = [mem EXCEPT ![c] = mem[p]]
             /\ sz' = [sz EXCEPT ![c] = sz[p]]
             /\ fds' = [fds EXCEPT ![c] = fds[p]]
             /\ cwd' = [cwd EXCEPT ![c] = cwd[p]]
             /\ user' = [user EXCEPT ![p] = Settle(next, to(c)), ![c] = Settle(next, to(0))]
     ELSE UNCHANGED <<st, parent, mem, sz, fds, cwd>> /\ Returns(p, -1)
  /\ UNCHANGED <<inode, file, pipe, killed>>

(* exit(): descriptors are closed, children are passed to init. *)
Ended(p) ==
  /\ st' = [st EXCEPT ![p] = "zombie"]
  /\ parent' = [q \in Pids |-> IF st[q] # "unused" /\ parent[q] = p THEN 1 ELSE parent[q]]
  /\ fds' = [fds EXCEPT ![p] = [d \in 0 .. NOFILE - 1 |-> 0]]
  /\ cwd' = [cwd EXCEPT ![p] = 0]
  /\ inode' = Kept(inode, fds', cwd')
  /\ UNCHANGED <<file, pipe, killed, mem, sz, user>>
SysExit(p) == Calls(p, "exit") /\ Ended(p)
(* A killed process leaves at its next trap, or out of the call it waits in. *)
Dies(p) == st[p] = "run" /\ p \in killed /\ user[p].code # Oops /\ Ended(p)

Children(p) == {c \in Pids : st[c] # "unused" /\ parent[c] = p}
WaitWaits(p) == Children(p) # {} /\ \A c \in Children(p) : st[c] # "zombie"
SysWait(p) ==
  /\ Calls(p, "wait") /\ ~WaitWaits(p)
  /\ LET c == Least({z \in Children(p) : st[z] = "zombie"}) IN
       IF Children(p) = {} THEN UNCHANGED <<st, parent, killed, mem, sz>> /\ Returns(p, -1)
       ELSE /\ st' = [st EXCEPT ![c] = "unused"]
            /\ parent' = [parent EXCEPT ![c] = 0]
            /\ killed' = killed \ {c}
            /\ mem' = [mem EXCEPT ![c] = <<>>]
            /\ sz' = [sz EXCEPT ![c] = 0]
            /\ user' = [user EXCEPT ![c] = [code |-> <<>>, reg |-> NoRegs],
                                    ![p] = IF c \in Instr(p).want
                                           THEN Settle(Tail(@.code), [@.reg EXCEPT ![Instr(p).to] = c])
                                           ELSE [@ EXCEPT !.code = Oops]]
  /\ UNCHANGED fsVars

SysKill(p) ==
  /\ Calls(p, "kill")
  /\ LET c == Reg(p, Instr(p).a[1]) IN
       IF c \in Pids /\ st[c] # "unused"
       THEN killed' = killed \cup {c} /\ Returns(p, 0)
       ELSE UNCHANGED killed /\ Returns(p, -1)
  /\ UNCHANGED <<fsVars, st, parent, mem, sz>>

(* sleep(n) returns some time later; what is slept for is not modelled. *)
SysSleep(p) == Calls(p, "sleep") /\ Returns(p, 0) /\ UNCHANGED <<fsVars, procVars>>

(* sbrk() to the size n: memory that is added is zero, what is given back  *)
(* is freed by the page.                                                   *)
Resized_dirty(m, n) ==
  [k \in 1 .. Pages(n) * PGSIZE |-> IF k <= Len(m) THEN m[k] ELSE 1]
Resized(m, n) ==
  [k \in 1 .. Pages(n) * PGSIZE |-> IF k <= Len(m) THEN m[k] ELSE 0]
Sbrk(p, n) ==
  IF n <= USERTOP /\ Pages(n) - Len(mem[p]) \div PGSIZE <= FreeFrames
  THEN /\ sz' = [sz EXCEPT ![p] = n]
       /\ mem' = [mem EXCEPT ![p] = Resized(@, n)]
       /\ Returns(p, sz[p])
  ELSE UNCHANGED <<sz, mem>> /\ Returns(p, -1)
SysSbrk(p) ==
  /\ Calls(p, "sbrk") /\ Sbrk(p, sz[p] + Instr(p).a[1])
  /\ UNCHANGED <<fsVars, st, parent, killed>>
(* The same with the difference computed from sbrk(0) by the program. *)
SysSbrkTo(p) ==
  /\ Calls(p, "sbrkto") /\ Sbrk(p, Instr(p).a[1])
  /\ UNCHANGED <<fsVars, st, parent, killed>>

(* A store or a load at an address; outside its pages the process faults   *)
(* and is killed.                                                          *)
Store(p) ==
  /\ Calls(p, "store")
  /\ LET addr == Instr(p).a[1] + 1 IN
       IF addr \in DOMAIN mem[p]
       THEN mem' = [mem EXCEPT ![p][addr] = Instr(p).a[2]] /\ Returns(p, 0) /\ UNCHANGED killed
       ELSE killed' = killed \cup {p} /\ UNCHANGED <<mem, user>>
  /\ UNCHANGED <<fsVars, st, parent, sz>>
Load(p) ==
  /\ Calls(p, "load")
  /\ LET addr == Instr(p).a[1] + 1 IN
       IF addr \in DOMAIN mem[p]
       THEN Returns(p, mem[p][addr]) /\ UNCHANGED killed
       ELSE killed' = killed \cup {p} /\ UNCHANGED user
  /\ UNCHANGED <<fsVars, st, parent, mem, sz>>

(* exec(path, argv): the arguments take size bytes on the stack page; what  *)
(* does not fit there goes below it, over the program.                     *)
SysExec(p) ==
  /\ Calls(p, "exec")
  /\ LET path == Instr(p).a[1]  argv == Instr(p).a[2]  size == Instr(p).a[3]
         n == Pages(Text) * PGSIZE + PGSIZE
     IN IF namei(p, path) # 0 /\ inode[namei(p, path)].type = "file"
           /\ Pages(n) + 1 <= FreeFrames /\ size <= n
        THEN /\ sz' = [sz EXCEPT ![p] = n]
             /\ mem' = [mem EXCEPT ![p] = Resized(<<>>, n)]
             /\ user' = [user EXCEPT ![p] =
                           Settle(Program(Last(path), argv), NoRegs)]
        ELSE UNCHANGED <<sz, mem>> /\ Returns(p, -1)
  /\ UNCHANGED <<fsVars, st, parent, killed>>

-----------------------------------------------------------------------------
(* The disk holds README and the programs; init is about to start one. *)
Executables == <<"README", "echo", "usertests", "forktest", "stressfs", "zombie">>
Boot(name) ==
  /\ inode = [i \in Inums |->
       IF i = 1 THEN [Dir(1, 1) EXCEPT !.ents =
            [x \in {".", ".."} \cup {Executables[k] : k \in DOMAIN Executables} |->
               IF x \in {".", ".."} THEN 1 ELSE CHOOSE k \in Inums : k > 1 /\ Executables[k - 1] = x]]
       ELSE IF i - 1 \in DOMAIN Executables THEN PlainFile ELSE NoInode]
  /\ file = [s \in Slots |-> [kind |-> "dev", ip |-> 0, off |-> 0, r |-> TRUE, w |-> TRUE]]
  /\ fds = [p \in Pids |-> [d \in 0 .. NOFILE - 1 |-> IF p = 1 /\ d <= 2 THEN 1 ELSE 0]]
  /\ pipe = [q \in Pipes |-> <<>>]
  /\ cwd = [p \in Pids |-> IF p = 1 THEN 1 ELSE 0]
  /\ st = [p \in Pids |-> IF p = 1 THEN "run" ELSE "unused"]
  /\ parent = [p \in Pids |-> 0]
  /\ killed = {}
  /\ mem = [p \in Pids |-> IF p = 1 THEN Resized(<<>>, PGSIZE) ELSE <<>>]
  /\ sz = [p \in Pids |-> IF p = 1 THEN PGSIZE ELSE 0]
  /\ user = [p \in Pids |-> [code |-> IF p = 1 THEN init(name) ELSE <<>>, reg |-> NoRegs]]
CallInit == \E name \in Programs : Boot(name)

(* No program complains: every call, and every test of usertests, gives    *)
(* what the repository's programs expect, however processes interleave;    *)
(* and nobody waits for ever: when no call can return, init is done.       *)
Waits(p) ==
  LET op == Instr(p).op IN
    \/ st[p] # "run" \/ user[p].code = <<>> \/ op = "spin"
    \/ op = "wait" /\ WaitWaits(p)
    \/ op = "read" /\ ReadWaits(p)
    \/ op = "write" /\ WriteWaits(p)
TestsPass ==
  /\ \A p \in Pids : user[p].code # Oops
  /\ (\A p \in Pids \ killed : Waits(p)) /\ (\A p \in killed : st[p] # "run") => user[1].code = <<>>
=============================================================================
