--------------------------------- MODULE Pipe ---------------------------------
(***************************************************************************)
(* Pipes, the table of open files and sleep()/wakeup() of the p2 kernel:   *)
(* pipe.c, file.c, and what sysfile.c and proc.c do with open files.       *)
(*                                                                         *)
(* What ftable.lock protects is one step each.  So is what a process does  *)
(* under a pipe's lock, with one exception: between its last look at       *)
(* proc->killed and sleep() taking ptable.lock it holds the pipe's lock    *)
(* but not ptable.lock, and kill() can run on another CPU.                 *)
(***************************************************************************)
EXTENDS Integers, Sequences, FiniteSets

CONSTANTS Procs, initproc,  \* slots of the process table; the one that is in use
          Files, NoFile,    \* slots of ftable.file; no open file
          NOFILE,           \* descriptors per process
          Pages,            \* memory for struct pipe
          PIPESIZE,
          UintMod,          \* how many values a uint has
          Messages,         \* what programs write
          ReadSizes,        \* how many bytes they ask for
          NoProc,
          SMP,              \* more than one CPU?
          Killable          \* bound of the model: who is ever killed

ASSUME PipeAssumption ==
  /\ IsFiniteSet(Procs) /\ initproc \in Procs /\ NoProc \notin Procs
  /\ NoFile \notin Files /\ Pages # {}
  /\ NOFILE \in Nat /\ PIPESIZE \in Nat \ {0}
  /\ UintMod \in Nat /\ UintMod > PIPESIZE /\ UintMod % PIPESIZE = 0
  /\ \A m \in Messages : m \in Seq(UNION {{s[i] : i \in DOMAIN s} : s \in Messages})
  /\ ReadSizes \subseteq Nat /\ SMP \in BOOLEAN /\ Killable \subseteq Procs

VARIABLES
  ref, type, writable, pipe,  \* struct file; writable is not readable
  ofile,                      \* ofile[p][fd] : an open file or NoFile
  free,                       \* the pages kalloc() can give
  data, nread, nwrite, readopen, writeopen, lock,  \* struct pipe
  state, killed,              \* struct proc
  pc,                         \* where a process is in the kernel
  xp,                         \* the pipe it works on there
  todo,                       \* what is left to do of a write()
  want, got,                  \* size of a read(), and what it has brought
  hand,                       \* files pipealloc() has, or that are to be closed
  exiting                     \* processes in exit()

files == <<ref, type, writable, pipe>>
ring == <<data, nread, nwrite>>
io == <<todo, want, got>>
vars == <<ref, type, writable, pipe, ofile, free, data, nread, nwrite, readopen,
          writeopen, lock, state, killed, pc, xp, todo, want, got, hand,
          exiting>>

FDs == 0 .. NOFILE - 1
Slots == 0 .. PIPESIZE - 1
Byte == UNION {{s[i] : i \in DOMAIN s} : s \in Messages}
Junk == "junk"  \* kfree() fills a page with ones

Init ==
  /\ ref = [f \in Files |-> 0] /\ type = [f \in Files |-> "none"]
  /\ writable = [f \in Files |-> FALSE]
  /\ pipe = [f \in Files |-> CHOOSE x \in Pages : TRUE]
  /\ ofile = [p \in Procs |-> [fd \in FDs |-> NoFile]]
  /\ free = Pages
  /\ data = [x \in Pages |-> [i \in Slots |-> Junk]]
  /\ nread = [x \in Pages |-> 1] /\ nwrite = [x \in Pages |-> 1]
  /\ readopen = {} /\ writeopen = {}
  /\ lock = [x \in Pages |-> NoProc]
  /\ state = [p \in Procs |-> IF p = initproc THEN "RUNNABLE" ELSE "UNUSED"]
  /\ killed = {}
  /\ pc = [p \in Procs |-> "user"]
  /\ xp = [p \in Procs |-> CHOOSE x \in Pages : TRUE]
  /\ todo = [p \in Procs |-> <<>>]
  /\ want = [p \in Procs |-> 0] /\ got = [p \in Procs |-> <<>>]
  /\ hand = [p \in Procs |-> <<>>]
  /\ exiting = {}

-----------------------------------------------------------------------------
(* A process takes a step at l.  On one CPU nobody else does while a lock  *)
(* is held, as interrupts are off.                                         *)
At(p, l) ==
  /\ state[p] = "RUNNABLE" /\ pc[p] = l
  /\ SMP \/ \A x \in Pages : lock[x] \in {NoProc, p}
Goto(p, l) == pc' = [pc EXCEPT ![p] = l]

(* A system call.  A killed process makes none: trap() has it exit. *)
Call(p) == At(p, "user") /\ p \notin killed

(* wakeup() : who sleeps on &x->nread, or on &x->nwrite. *)
Sleepers_other_end(x, l) ==
  {q \in Procs : state[q] = "SLEEPING" /\ pc[q] # l /\ xp[q] = x}
Sleepers(x, l) == {q \in Procs : state[q] = "SLEEPING" /\ pc[q] = l /\ xp[q] = x}
Wakeup(x, l) ==
  state' = [q \in Procs |-> IF q \in Sleepers(x, l) THEN "RUNNABLE" ELSE state[q]]

(* fdalloc() : the lowest descriptor that is not in use. *)
Unused(p) == {fd \in FDs : ofile[p][fd] = NoFile}
Open(p) == FDs \ Unused(p)
Lowest(S) == CHOOSE fd \in S : \A g \in S : fd <= g

-----------------------------------------------------------------------------
(* sys_pipe() and pipealloc() *)

SysPipe(p) ==
  /\ Call(p)
  /\ Goto(p, "pipe")
  /\ UNCHANGED <<files, ofile, free, ring, readopen, writeopen, lock, state,
                 killed, xp, io, hand, exiting>>

(* filealloc(), twice; what there is is closed when the table is full. *)
FileAlloc(p) ==
  /\ At(p, "pipe") /\ Len(hand[p]) < 2
  /\ \/ \E f \in Files :
          /\ ref[f] = 0
          /\ ref' = [ref EXCEPT ![f] = 1]
          /\ hand' = [hand EXCEPT ![p] = Append(@, f)]
          /\ UNCHANGED pc
     \/ /\ \A f \in Files : ref[f] # 0
        /\ Goto(p, "close")
        /\ UNCHANGED <<ref, hand>>
  /\ UNCHANGED <<type, writable, pipe, ofile, free, ring, readopen, writeopen,
                 lock, state, killed, xp, io, exiting>>

(* The pipe and its two files; kalloc() may fail. *)
PipeAlloc(p) ==
  LET f == hand[p] IN
  /\ At(p, "pipe") /\ Len(f) = 2
  /\ \/ \E x \in free :
          /\ free' = free \ {x}
          /\ nread' = [nread EXCEPT ![x] = 0]
          /\ nwrite' = [nwrite EXCEPT ![x] = 0]
          /\ readopen' = readopen \cup {x}
          /\ writeopen' = writeopen \cup {x}
          /\ lock' = [lock EXCEPT ![x] = NoProc]
          /\ type' = [type EXCEPT ![f[1]] = "pipe", ![f[2]] = "pipe"]
          /\ writable' = [writable EXCEPT ![f[1]] = FALSE, ![f[2]] = TRUE]
          /\ pipe' = [pipe EXCEPT ![f[1]] = x, ![f[2]] = x]
          /\ Goto(p, "fds")
     \/ /\ Goto(p, "close")
        /\ UNCHANGED <<free, nread, nwrite, readopen, writeopen, lock, type,
                       writable, pipe>>
  /\ UNCHANGED <<ref, ofile, data, state, killed, xp, io, hand, exiting>>

(* Two descriptors, or both files are closed. *)
InstallFds(p) ==
  LET fd0 == Lowest(Unused(p))
      fd1 == Lowest(Unused(p) \ {fd0}) IN
  /\ At(p, "fds")
  /\ \/ /\ Cardinality(Unused(p)) >= 2
        /\ ofile' = [ofile EXCEPT ![p][fd0] = hand[p][1], ![p][fd1] = hand[p][2]]
        /\ hand' = [hand EXCEPT ![p] = <<>>]
        /\ Goto(p, "user")
     \/ /\ Cardinality(Unused(p)) < 2
        /\ Goto(p, "close")
        /\ UNCHANGED <<ofile, hand>>
  /\ UNCHANGED <<files, free, ring, readopen, writeopen, lock, state, killed,
                 xp, io, exiting>>

-----------------------------------------------------------------------------
(* dup(), close(), fork(), exit() *)

FileDup_keep(r, f) == r
FileDup(r, f) == [r EXCEPT ![f] = @ + 1]

SysDup(p) ==
  /\ Call(p) /\ Unused(p) # {}
  /\ \E fd \in Open(p) :
       /\ ofile' = [ofile EXCEPT ![p][Lowest(Unused(p))] = ofile[p][fd]]
       /\ ref' = FileDup(ref, ofile[p][fd])
  /\ UNCHANGED <<type, writable, pipe, free, ring, readopen, writeopen, lock,
                 state, killed, pc, xp, io, hand, exiting>>

SysClose(p) ==
  /\ Call(p)
  /\ \E fd \in Open(p) :
       /\ ofile' = [ofile EXCEPT ![p][fd] = NoFile]
       /\ hand' = [hand EXCEPT ![p] = <<ofile[p][fd]>>]
  /\ Goto(p, "close")
  /\ UNCHANGED <<files, free, ring, readopen, writeopen, lock, state, killed,
                 xp, io, exiting>>

(* The child, whom nobody sees before it is RUNNABLE, gets all open files. *)
Fork(p) ==
  /\ Call(p)
  /\ \E c \in Procs :
       /\ state[c] = "UNUSED"
       /\ state' = [state EXCEPT ![c] = "RUNNABLE"]
       /\ pc' = [pc EXCEPT ![c] = "user"]
       /\ ofile' = [ofile EXCEPT ![c] = ofile[p]]
       /\ ref' = [f \in Files |->
                    ref[f] + Cardinality({fd \in FDs : ofile[p][fd] = f})]
  /\ UNCHANGED <<type, writable, pipe, free, ring, readopen, writeopen, lock,
                 killed, xp, io, hand, exiting>>

(* exit(), by the program or in trap() for a killed process. *)
Exit(p) ==
  /\ At(p, "user") /\ p # initproc
  /\ exiting' = exiting \cup {p}
  /\ Goto(p, "close")
  /\ UNCHANGED <<files, ofile, free, ring, readopen, writeopen, lock, state,
                 killed, xp, io, hand>>

(* fileclose() : the slot is given up before the pipe's end is closed, so  *)
(* what it held is remembered: the pipe in xp, the end in the label.       *)
LastRef_early(f) == ref[f] <= 2
LastRef(f) == ref[f] = 1

FileClose(p) ==
  LET f == Head(hand[p]) IN
  /\ At(p, "close") /\ hand[p] # <<>>
  /\ hand' = [hand EXCEPT ![p] = Tail(@)]
  /\ \/ /\ ~LastRef(f)
        /\ ref' = [ref EXCEPT ![f] = @ - 1]
        /\ UNCHANGED <<type, pc, xp>>
     \/ /\ LastRef(f)
        /\ ref' = [ref EXCEPT ![f] = 0]
        /\ type' = [type EXCEPT ![f] = "none"]
        /\ \/ /\ type[f] = "pipe"
              /\ xp' = [xp EXCEPT ![p] = pipe[f]]
              /\ Goto(p, IF writable[f] THEN "closewrite" ELSE "closeread")
           \/ /\ type[f] = "none"
              /\ UNCHANGED <<pc, xp>>
  /\ UNCHANGED <<writable, pipe, ofile, free, ring, readopen, writeopen, lock,
                 state, killed, io, exiting>>

(* fileclose() returns: to the program, or to the loop of exit(), which    *)
(* clears a descriptor only after fileclose(); nobody else looks at it.    *)
Closed(p) ==
  /\ At(p, "close") /\ hand[p] = <<>>
  /\ \/ /\ p \notin exiting
        /\ Goto(p, "user")
        /\ UNCHANGED <<ofile, hand, state>>
     \/ /\ p \in exiting /\ Open(p) # {}
        /\ ofile' = [ofile EXCEPT ![p][Lowest(Open(p))] = NoFile]
        /\ hand' = [hand EXCEPT ![p] = <<ofile[p][Lowest(Open(p))]>>]
        /\ UNCHANGED <<pc, state>>
     \/ /\ p \in exiting /\ Open(p) = {}
        /\ state' = [state EXCEPT ![p] = "ZOMBIE"]
        /\ UNCHANGED <<ofile, hand, pc>>
  /\ UNCHANGED <<files, free, ring, readopen, writeopen, lock, killed, xp, io,
                 exiting>>

(* wait() of the parent frees the slot, and the memory of the process. *)
Reap(p) ==
  /\ state[p] = "ZOMBIE"
  /\ SMP \/ \A x \in Pages : lock[x] = NoProc
  /\ state' = [state EXCEPT ![p] = "UNUSED"]
  /\ killed' = killed \ {p} /\ exiting' = exiting \ {p}
  /\ Goto(p, "user")
  /\ got' = [got EXCEPT ![p] = <<>>]
  /\ UNCHANGED <<files, ofile, free, ring, readopen, writeopen, lock, xp, todo,
                 want, hand>>

(* kill() of a process with a pid; a sleeper wakes up. *)
Roused_not(q) == state
Roused(q) == [state EXCEPT ![q] = IF @ = "SLEEPING" THEN "RUNNABLE" ELSE @]

Kill(p, q) ==
  /\ Call(p) /\ state[q] # "UNUSED" /\ q \in Killable
  /\ killed' = killed \cup {q}
  /\ state' = Roused(q)
  /\ UNCHANGED <<files, ofile, free, ring, readopen, writeopen, lock, pc, xp,
                 io, hand, exiting>>

-----------------------------------------------------------------------------
(* pipeclose() *)

PipeClose(p) ==
  LET x == xp[p] IN
  /\ lock[x] = NoProc
  /\ \/ /\ At(p, "closewrite")
        /\ writeopen' = writeopen \ {x}
        /\ Wakeup(x, "read")
        /\ UNCHANGED readopen
     \/ /\ At(p, "closeread")
        /\ readopen' = readopen \ {x}
        /\ Wakeup(x, "write")
        /\ UNCHANGED writeopen
  /\ \/ /\ x \in readopen' \cup writeopen'
        /\ UNCHANGED <<free, ring>>
     \/ /\ x \notin readopen' \cup writeopen'
        /\ free' = free \cup {x}
        /\ data' = [data EXCEPT ![x] = [i \in Slots |-> Junk]]
        /\ nread' = [nread EXCEPT ![x] = 1] /\ nwrite' = [nwrite EXCEPT ![x] = 1]
  /\ Goto(p, "close")
  /\ UNCHANGED <<files, ofile, lock, killed, xp, io, hand, exiting>>

-----------------------------------------------------------------------------
(* The ring: nread and nwrite are uints, which wrap. *)

Uint_no_wrap(n) == n
Uint(n) == n % UintMod
Avail(x) == Uint(nwrite[x] - nread[x])
(* How many bytes fit before nwrite = nread + PIPESIZE. *)
Room_one_more(x) == Uint(nread[x] + PIPESIZE + 1 - nwrite[x])
Room(x) == Uint(nread[x] + PIPESIZE - nwrite[x])
Smaller(m, n) == IF m < n THEN m ELSE n

(* The bytes at n, n + 1, ..., and the ring with s put there. *)
Take(x, n, k) == [j \in 1 .. k |-> data[x][(n + j - 1) % PIPESIZE]]
Put(x, n, s) ==
  [i \in Slots |->
     LET at == {j \in 1 .. Len(s) : (n + j - 1) % PIPESIZE = i} IN
     IF at = {} THEN data[x][i] ELSE s[CHOOSE j \in at : \A h \in at : h <= j]]

(* sys_write() *)
SysWrite(p) ==
  /\ Call(p)
  /\ \E fd \in Open(p), m \in Messages :
       /\ writable[ofile[p][fd]]
       /\ xp' = [xp EXCEPT ![p] = pipe[ofile[p][fd]]]
       /\ todo' = [todo EXCEPT ![p] = m]
  /\ Goto(p, "write")
  /\ UNCHANGED <<files, ofile, free, ring, readopen, writeopen, lock, state,
                 killed, want, got, hand, exiting>>

(* pipewrite(), from acquire() or the return of sleep() on: what fits is   *)
(* written, and if that is not all the process sleeps, or gives up when    *)
(* nobody can read or it has been killed.                                  *)
Write(p) ==
  LET x == xp[p]
      k == Smaller(Len(todo[p]), Room(x))
      rest == SubSeq(todo[p], k + 1, Len(todo[p]))
      giveup == x \notin readopen \/ p \in killed IN
  /\ At(p, "write") /\ lock[x] = NoProc
  /\ data' = [data EXCEPT ![x] = Put(x, nwrite[x], SubSeq(todo[p], 1, k))]
  /\ nwrite' = [nwrite EXCEPT ![x] = Uint(@ + k)]
  /\ \/ /\ rest = <<>>
        /\ Wakeup(x, "read")
        /\ Goto(p, "user")
        /\ UNCHANGED lock
     \/ /\ rest # <<>> /\ giveup
        /\ Goto(p, "user")
        /\ UNCHANGED <<state, lock>>
     \/ /\ rest # <<>> /\ ~giveup
        /\ Wakeup(x, "read")
        /\ lock' = [lock EXCEPT ![x] = p]
        /\ UNCHANGED pc
  /\ todo' = [todo EXCEPT ![p] = IF pc'[p] = "user" THEN <<>> ELSE rest]
  /\ UNCHANGED <<files, ofile, free, nread, readopen, writeopen, killed, xp,
                 want, got, hand, exiting>>

(* sys_read() *)
SysRead(p) ==
  /\ Call(p)
  /\ \E fd \in Open(p), n \in ReadSizes :
       /\ ~writable[ofile[p][fd]]
       /\ xp' = [xp EXCEPT ![p] = pipe[ofile[p][fd]]]
       /\ want' = [want EXCEPT ![p] = n]
  /\ got' = [got EXCEPT ![p] = <<>>]
  /\ Goto(p, "read")
  /\ UNCHANGED <<files, ofile, free, ring, readopen, writeopen, lock, state,
                 killed, todo, hand, exiting>>

(* piperead(), from acquire() or the return of sleep() on. *)
Read(p) ==
  LET x == xp[p]
      k == Smaller(want[p], Avail(x))
      empty == nread[x] = nwrite[x] /\ x \in writeopen IN
  /\ At(p, "read") /\ lock[x] = NoProc
  /\ \/ /\ empty /\ p \in killed
        /\ Goto(p, "user")
        /\ UNCHANGED <<nread, lock, state, got>>
     \/ /\ empty /\ p \notin killed
        /\ lock' = [lock EXCEPT ![x] = p]
        /\ UNCHANGED <<nread, state, pc, got>>
     \/ /\ ~empty
        /\ got' = [got EXCEPT ![p] = Take(x, nread[x], k)]
        /\ nread' = [nread EXCEPT ![x] = Uint(@ + k)]
        /\ Wakeup(x, "write")
        /\ Goto(p, "user")
        /\ UNCHANGED lock
  /\ want' = [want EXCEPT ![p] = IF pc'[p] = "user" THEN 0 ELSE @]
  /\ UNCHANGED <<files, ofile, free, data, nwrite, readopen, writeopen, killed,
                 xp, todo, hand, exiting>>

(* sleep() on &x->nread or &x->nwrite: once it holds ptable.lock it gives  *)
(* up the pipe's.                                                          *)
Sleep(p) ==
  LET x == xp[p] IN
  /\ At(p, pc[p]) /\ lock[x] = p
  /\ state' = [state EXCEPT ![p] = "SLEEPING"]
  /\ lock' = [lock EXCEPT ![x] = NoProc]
  /\ UNCHANGED <<files, ofile, free, ring, readopen, writeopen, killed, pc, xp,
                 io, hand, exiting>>

-----------------------------------------------------------------------------
Next ==
  \E p \in Procs :
    \/ SysPipe(p) \/ FileAlloc(p) \/ PipeAlloc(p) \/ InstallFds(p)
    \/ SysDup(p) \/ SysClose(p) \/ FileClose(p) \/ Closed(p) \/ PipeClose(p)
    \/ Fork(p) \/ Exit(p) \/ Reap(p)
    \/ SysWrite(p) \/ Write(p) \/ SysRead(p) \/ Read(p) \/ Sleep(p)
    \/ \E q \in Procs : Kill(p, q)

Spec == Init /\ [][Next]_vars

(* The scheduler goes round the table, so a process that can take a step   *)
(* of pipewrite() or piperead() again and again takes it.                  *)
FairSpec == Spec /\ \A p \in Procs : SF_vars(Write(p) \/ Read(p) \/ Sleep(p))

-----------------------------------------------------------------------------
(* Properties *)

Labels == {"user", "pipe", "fds", "close", "closeread", "closewrite", "read", "write"}

(* Every variable has its type. *)
TypeOK ==
  /\ ref \in [Files -> Nat] /\ type \in [Files -> {"none", "pipe"}]
  /\ writable \in [Files -> BOOLEAN] /\ pipe \in [Files -> Pages]
  /\ ofile \in [Procs -> [FDs -> Files \cup {NoFile}]]
  /\ free \in SUBSET Pages
  /\ data \in [Pages -> [Slots -> Byte \cup {Junk}]]
  /\ nread \in [Pages -> 0 .. UintMod - 1]
  /\ nwrite \in [Pages -> 0 .. UintMod - 1]
  /\ readopen \in SUBSET Pages /\ writeopen \in SUBSET Pages
  /\ lock \in [Pages -> Procs \cup {NoProc}]
  /\ state \in [Procs -> {"UNUSED", "RUNNABLE", "SLEEPING", "ZOMBIE"}]
  /\ killed \in SUBSET Procs /\ exiting \in SUBSET Procs
  /\ pc \in [Procs -> Labels] /\ xp \in [Procs -> Pages]
  /\ todo \in [Procs -> Seq(Byte)] /\ got \in [Procs -> Seq(Byte)]
  /\ want \in [Procs -> Nat]
  /\ hand \in [Procs -> Seq(Files)] /\ \A p \in Procs : Len(hand[p]) <= 2

(* Reference counts are exact: the descriptors, and what is in the hands   *)
(* of pipealloc() and fileclose().                                         *)
Descs(f) == {s \in Procs \X FDs : ofile[s[1]][s[2]] = f}
InHands(f) == {s \in Procs \X {1, 2} :
                 s[2] \in DOMAIN hand[s[1]] /\ hand[s[1]][s[2]] = f}
RefsExact ==
  \A f \in Files : ref[f] = Cardinality(Descs(f)) + Cardinality(InHands(f))

(* The open files of an end of x, and who is closing it. *)
Ends(x, w) ==
  {f \in Files : ref[f] > 0 /\ type[f] = "pipe" /\ pipe[f] = x /\ writable[f] = w}
Closers(x) == {p \in Procs : pc[p] \in {"closeread", "closewrite"} /\ xp[p] = x}

(* The page of a pipe is freed once, when its last file has been closed:   *)
(* not before, and not while a process is in piperead() or pipewrite().    *)
PageFreedOnce ==
  /\ \A x \in Pages :
       x \in free <=> Ends(x, TRUE) \cup Ends(x, FALSE) = {} /\ Closers(x) = {}
  /\ \A p \in Procs : pc[p] \in {"read", "write"} => xp[p] \notin free

(* No wakeup is lost: who sleeps on a pipe whose lock is free has reason   *)
(* to, whoever woke him, closed an end or overtook him before he slept.    *)
NoLostWakeup ==
  \A p \in Procs :
    LET x == xp[p] IN
    state[p] = "SLEEPING" /\ lock[x] = NoProc =>
      \/ pc[p] = "read" /\ Avail(x) = 0 /\ x \in writeopen
      \/ pc[p] = "write" /\ Room(x) = 0 /\ x \in readopen

(* A killed process does not sleep on: kill() wakes it (proc.c:401).       *)
KilledAwake == \A p \in killed : state[p] # "SLEEPING"

(* Has somebody a descriptor of an end of x? *)
Held(x, w) ==
  \E q \in Procs : \E fd \in Open(q) :
    pipe[ofile[q][fd]] = x /\ writable[ofile[q][fd]] = w

(* A reader sees the end of the file only when nobody has the pipe open    *)
(* for writing any more, and a writer is cut short only when nobody has it *)
(* open for reading; else they have been killed.                           *)
HonestReturn ==
  [][\A p \in Procs \ killed :
       pc'[p] = "user" =>
         /\ pc[p] = "read" /\ got'[p] = <<>> /\ want[p] > 0
              => ~Held(xp[p], TRUE)
         /\ pc[p] = "write" /\ Len(todo[p]) > Room(xp[p])
              => ~Held(xp[p], FALSE)]_vars

(* Nobody stays in the pipe for ever once the other side has closed it or  *)
(* he has been killed.                                                     *)
Released ==
  \A p \in Procs :
    /\ pc[p] = "read" /\ (xp[p] \notin writeopen \/ p \in killed)
         ~> pc[p] # "read"
    /\ pc[p] = "write" /\ (xp[p] \notin readopen \/ p \in killed)
         ~> pc[p] # "write"

(* Pipes implement channels, which deliver every byte once and in order.   *)
CallOf(p) == IF pc[p] \in {"read", "write"} THEN pc[p] ELSE "idle"
Calls == [p \in Procs |-> CallOf(p)]
Queue(x) == Take(x, nread[x], Avail(x))
Queues == [x \in Pages |-> Queue(x)]
OpenEnds == [x \in Pages |->
               {e \in {"r", "w"} : x \in IF e = "r" THEN readopen ELSE writeopen}]
Bytes ==
  INSTANCE Channel WITH
    Channels <- Pages, Capacity <- PIPESIZE, call <- Calls, q <- Queues, ends <- OpenEnds
Fifo == Bytes!Spec
=============================================================================
