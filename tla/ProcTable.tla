----------------------------- MODULE ProcTable -----------------------------
(***************************************************************************)
(* The process table of p2's kernel on several CPUs: fork, exit, wait,     *)
(* kill, sleep, wakeup, yield and scheduler of proc.c.                     *)
(*                                                                         *)
(* ptable.lock is a variable: a process that gives up its CPU takes it,    *)
(* switches to the scheduler's stack with it held, and the process that    *)
(* runs next lets it go.  What it protects without a switch is one step.   *)
(***************************************************************************)
EXTENDS Naturals, FiniteSets

CONSTANTS CPUs, NoCPU, NPROC,
          MaxPid,       \* bound of the model: processes ever created
          AskedPids     \* bound of the model: whose state is asked for

Slots == 1 .. NPROC
initproc == 1
(* Channels: who waits for a child sleeps on its own table entry. *)
NoChan == 0
Event == NPROC + 1

(* A pid that getprocstate() is asked for is one that allocproc() gives    *)
(* out: 0 is the pid of entries without a process.                         *)
ASSUME TableAssumption ==
  NPROC \in Nat \ {0} /\ NoCPU \notin CPUs /\ AskedPids \subseteq Nat \ {0}

VARIABLES
  state, pid, parent, killed, chan, kstack,  \* struct proc
  nextpid,
  holder,               \* the CPU that has ptable.lock
  ctx,                  \* the process whose kernel stack a CPU is on; 0: the scheduler's
  scan,                 \* where the scheduler is in the table
  ppc, kid,             \* a process: its place in the kernel, the child it makes
  look                  \* who is in getprocstate(), for which pid, at which entry

kernelvars == <<state, pid, parent, killed, chan, kstack, nextpid, holder, ctx, scan, ppc, kid>>
procvars == <<kernelvars, look>>
table == <<pid, parent, killed, chan, kstack, nextpid>>
NoLook == [by |-> 0, pid |-> 0, at |-> 0, found |-> FALSE]

First(v, none) == [s \in Slots |-> IF s = initproc THEN v ELSE none]
ProcInit ==
  /\ state = First("RUNNABLE", "UNUSED") /\ pid = First(1, 0) /\ parent = First(0, 0)
  /\ killed = First(FALSE, FALSE) /\ chan = First(NoChan, NoChan)
  /\ kstack = First(TRUE, FALSE) /\ nextpid = 2
  /\ holder = NoCPU /\ ctx = [c \in CPUs |-> 0] /\ scan = [c \in CPUs |-> 0]
  /\ ppc = First("forkret", "user") /\ kid = First(0, 0) /\ look = NoLook

LowestSlot(S) == CHOOSE s \in S : \A t \in S : s <= t
Step(s, at) == ppc' = [ppc EXCEPT ![s] = at]
(* The process on a CPU, at a place of its own, alone with ptable.lock or  *)
(* without it.                                                             *)
On(c, at) == ctx[c] # 0 /\ ppc[ctx[c]] = at
InUser(c) == On(c, "user") /\ look.by # ctx[c]
HoldsTable(c) == holder = c
Unlocked == holder = NoCPU
-----------------------------------------------------------------------------
(* allocproc(): the slot is taken under the lock and filled without it. *)
UnusedSlots == {s \in Slots : state[s] = "UNUSED"}
Allocproc(c) ==
  /\ InUser(c) /\ Unlocked /\ UnusedSlots # {} /\ nextpid <= MaxPid
  /\ LET n == LowestSlot(UnusedSlots)
     IN /\ state' = [state EXCEPT ![n] = "EMBRYO"]
        /\ pid' = [pid EXCEPT ![n] = nextpid]
        /\ kid' = [kid EXCEPT ![ctx[c]] = n]
  /\ nextpid' = nextpid + 1 /\ Step(ctx[c], "kstack")
  /\ UNCHANGED <<parent, killed, chan, kstack, holder, ctx, scan, look>>
Kstack(c) ==
  /\ On(c, "kstack")
  /\ kstack' = [kstack EXCEPT ![kid[ctx[c]]] = TRUE] /\ Step(ctx[c], "copyuvm")
  /\ UNCHANGED <<state, pid, parent, killed, chan, nextpid, holder, ctx, scan, kid, look>>

(* No memory for the stack or for the pages. *)
ForkFails(c) ==
  /\ On(c, "kstack") \/ On(c, "copyuvm")
  /\ kstack' = [kstack EXCEPT ![kid[ctx[c]]] = FALSE]
  /\ state' = [state EXCEPT ![kid[ctx[c]]] = "UNUSED"]
  /\ kid' = [kid EXCEPT ![ctx[c]] = 0] /\ Step(ctx[c], "user")
  /\ UNCHANGED <<pid, parent, killed, chan, nextpid, holder, ctx, scan, look>>

Copyuvm(c) ==
  /\ On(c, "copyuvm")
  /\ parent' = [parent EXCEPT ![kid[ctx[c]]] = ctx[c]]
  /\ ppc' = [ppc EXCEPT ![ctx[c]] = "runnable", ![kid[ctx[c]]] = "forkret"]
  /\ UNCHANGED <<state, pid, killed, chan, kstack, nextpid, holder, ctx, scan, kid, look>>
ForkEnds(c) ==
  /\ On(c, "runnable")
  /\ state' = [state EXCEPT ![kid[ctx[c]]] = "RUNNABLE"]
  /\ kid' = [kid EXCEPT ![ctx[c]] = 0] /\ Step(ctx[c], "user")
  /\ UNCHANGED <<table, holder, ctx, scan, look>>
-----------------------------------------------------------------------------
Wakeup1(st, ch) == [s \in Slots |-> IF st[s] = "SLEEPING" /\ chan[s] = ch THEN "RUNNABLE" ELSE st[s]]
ChildrenOf(p) == {s \in Slots : parent[s] = p}
Zombies(p) == {s \in ChildrenOf(p) : state[s] = "ZOMBIE"}

(* exit(): the parent is woken, the children go to init, which is woken if *)
(* one of them is a zombie.                                                *)
ParentWoken_not(p, st) == st
ParentWoken(p, st) == Wakeup1(st, parent[p])
ToInit(p, st) == IF Zombies(p) # {} THEN Wakeup1(st, initproc) ELSE st
Kept_released(c) == NoCPU
Kept(c) == c
Exit(c) ==
  /\ InUser(c) /\ ctx[c] # initproc /\ Unlocked
  /\ LET p == ctx[c]
     IN /\ state' = [ToInit(p, ParentWoken(p, state)) EXCEPT ![p] = "ZOMBIE"]
        /\ parent' = [s \in Slots |-> IF parent[s] = p THEN initproc ELSE parent[s]]
        /\ Step(p, "sched")
  /\ holder' = Kept(c)
  /\ UNCHANGED <<pid, killed, chan, kstack, nextpid, ctx, scan, kid, look>>

(* sched(): on to the scheduler's stack, ptable.lock goes with the CPU. *)
Sched(c) ==
  /\ On(c, "sched") /\ HoldsTable(c)
  /\ ctx' = [ctx EXCEPT ![c] = 0]
  /\ Step(ctx[c], IF state[ctx[c]] = "ZOMBIE" THEN "user"
                  ELSE IF chan[ctx[c]] = ctx[c] THEN "waiting" ELSE "resumed")
  /\ UNCHANGED <<state, table, holder, scan, kid, look>>

(* scheduler(): the table is gone through once under the lock. *)
SchedulerStarts(c) ==
  /\ ctx[c] = 0 /\ Unlocked /\ holder' = c
  /\ scan' = [scan EXCEPT ![c] = 0]
  /\ UNCHANGED <<state, table, ctx, ppc, kid, look>>
Later(c) == {s \in Slots : s > scan[c] /\ state[s] = "RUNNABLE"}
SchedulerRuns(c) ==
  /\ ctx[c] = 0 /\ HoldsTable(c) /\ Later(c) # {}
  /\ state' = [state EXCEPT ![LowestSlot(Later(c))] = "RUNNING"]
  /\ ctx' = [ctx EXCEPT ![c] = LowestSlot(Later(c))] /\ scan' = [scan EXCEPT ![c] = LowestSlot(Later(c))]
  /\ UNCHANGED <<table, holder, ppc, kid, look>>
SchedulerEnds(c) ==
  /\ ctx[c] = 0 /\ HoldsTable(c) /\ Later(c) = {} /\ holder' = NoCPU
  /\ scan' = [scan EXCEPT ![c] = 0]
  /\ UNCHANGED <<state, table, ctx, ppc, kid, look>>

(* forkret(), and the ends of yield() and sleep(). *)
Resume(c) ==
  /\ On(c, "forkret") \/ On(c, "resumed")
  /\ HoldsTable(c)
  /\ holder' = NoCPU /\ chan' = [chan EXCEPT ![ctx[c]] = NoChan] /\ Step(ctx[c], "user")
  /\ UNCHANGED <<state, pid, parent, killed, kstack, nextpid, ctx, scan, kid, look>>

Yield(c) ==
  /\ On(c, "user") /\ Unlocked /\ holder' = c
  /\ state' = [state EXCEPT ![ctx[c]] = "RUNNABLE"] /\ Step(ctx[c], "sched")
  /\ UNCHANGED <<table, ctx, scan, kid, look>>

(* sleep() for something that is not a child, under another lock. *)
Sleep(c) ==
  /\ InUser(c) /\ Unlocked /\ holder' = c
  /\ state' = [state EXCEPT ![ctx[c]] = "SLEEPING"] /\ chan' = [chan EXCEPT ![ctx[c]] = Event]
  /\ Step(ctx[c], "sched")
  /\ UNCHANGED <<pid, parent, killed, kstack, nextpid, ctx, scan, kid, look>>
Wakeup ==
  /\ Unlocked /\ state' = Wakeup1(state, Event)
  /\ UNCHANGED <<table, holder, ctx, scan, ppc, kid, look>>
-----------------------------------------------------------------------------
(* wait(): called, or woken in its loop with the lock held. *)
InWait(c) == (InUser(c) /\ Unlocked) \/ (On(c, "waiting") /\ HoldsTable(c))
WaitReaps(c) ==
  /\ InWait(c) /\ Zombies(ctx[c]) # {}
  /\ LET z == LowestSlot(Zombies(ctx[c]))
     IN /\ kstack' = [kstack EXCEPT ![z] = FALSE] /\ state' = [state EXCEPT ![z] = "UNUSED"]
        /\ pid' = [pid EXCEPT ![z] = 0] /\ parent' = [parent EXCEPT ![z] = 0]
        /\ killed' = [killed EXCEPT ![z] = FALSE]
  /\ chan' = [chan EXCEPT ![ctx[c]] = NoChan]
  /\ holder' = NoCPU /\ Step(ctx[c], "user")
  /\ UNCHANGED <<nextpid, ctx, scan, kid, look>>
WaitFails(c) ==
  /\ InWait(c) /\ Zombies(ctx[c]) = {} /\ (ChildrenOf(ctx[c]) = {} \/ killed[ctx[c]])
  /\ chan' = [chan EXCEPT ![ctx[c]] = NoChan]
  /\ holder' = NoCPU /\ Step(ctx[c], "user")
  /\ UNCHANGED <<state, pid, parent, killed, kstack, nextpid, ctx, scan, kid, look>>
WaitSleeps(c) ==
  /\ InWait(c) /\ Zombies(ctx[c]) = {} /\ ChildrenOf(ctx[c]) # {} /\ ~killed[ctx[c]]
  /\ holder' = c /\ state' = [state EXCEPT ![ctx[c]] = "SLEEPING"]
  /\ chan' = [chan EXCEPT ![ctx[c]] = ctx[c]] /\ Step(ctx[c], "sched")
  /\ UNCHANGED <<pid, parent, killed, kstack, nextpid, ctx, scan, kid, look>>

(* kill() of a pid that has been given out, init's excepted. *)
Kill(c, n) ==
  /\ InUser(c) /\ Unlocked /\ n < nextpid /\ \E s \in Slots : pid[s] = n
  /\ LET s == LowestSlot({t \in Slots : pid[t] = n})
     IN /\ killed' = [killed EXCEPT ![s] = TRUE]
        /\ state' = [state EXCEPT ![s] = IF @ = "SLEEPING" THEN "RUNNABLE" ELSE @]
  /\ UNCHANGED <<pid, parent, chan, kstack, nextpid, holder, ctx, scan, ppc, kid, look>>

-----------------------------------------------------------------------------
(* getprocstate(): entry by entry without ptable.lock, the pid first and   *)
(* the state after it; other CPUs go on, and a clock interrupt may take    *)
(* this one away.                                                          *)
Getprocstate(c, n) ==
  /\ InUser(c) /\ look = NoLook /\ n < nextpid
  /\ look' = [by |-> ctx[c], pid |-> n, at |-> 1, found |-> FALSE]
  /\ UNCHANGED kernelvars
NextEntry_stops == IF state[look.at] = "UNUSED" THEN NPROC + 1 ELSE look.at + 1
NextEntry == look.at + 1
Looking(c) == On(c, "user") /\ look.by = ctx[c]
ReadPid(c) ==
  /\ Looking(c) /\ ~look.found /\ look.at <= NPROC
  /\ look' = IF pid[look.at] = look.pid THEN [look EXCEPT !.found = TRUE] ELSE [look EXCEPT !.at = NextEntry]
  /\ UNCHANGED kernelvars
(* The state of the entry found, or -1. *)
ReadState(c) ==
  /\ Looking(c) /\ (look.found \/ look.at > NPROC)
  /\ look' = NoLook /\ UNCHANGED kernelvars

ProcNext ==
  \/ Wakeup
  \/ \E c \in CPUs :
       \/ ReadPid(c) \/ ReadState(c) \/ \E n \in AskedPids : Getprocstate(c, n)
       \/ Allocproc(c) \/ Kstack(c) \/ ForkFails(c) \/ Copyuvm(c) \/ ForkEnds(c)
       \/ Exit(c) \/ Sched(c) \/ Yield(c) \/ Sleep(c) \/ Resume(c)
       \/ SchedulerStarts(c) \/ SchedulerRuns(c) \/ SchedulerEnds(c)
       \/ WaitReaps(c) \/ WaitFails(c) \/ WaitSleeps(c)
       \/ \E n \in 2 .. MaxPid : Kill(c, n)
ProcSpec == ProcInit /\ [][ProcNext]_procvars
-----------------------------------------------------------------------------
(* A CPU is on a kernel stack that exists and that no other CPU is on: a   *)
(* process that others can run, wake or reap has left its own.             *)
StacksSound ==
  /\ \A c, d \in CPUs : ctx[c] # 0 /\ ctx[c] = ctx[d] => c = d
  /\ \A c \in CPUs : ctx[c] # 0 => kstack[ctx[c]] /\ state[ctx[c]] \notin {"UNUSED", "EMBRYO"}
  /\ Unlocked => \A s \in Slots : (state[s] = "RUNNING") = (\E c \in CPUs : ctx[c] = s)
  /\ \A s \in Slots : state[s] \in {"RUNNABLE", "RUNNING", "SLEEPING", "ZOMBIE"} => kstack[s]

(* proc.c:167-168, "an exited process remains in the zombie state until    *)
(* its parent calls wait()": a zombie has a parent that lives and that     *)
(* does not sleep in wait() past it, whoever exits at the same time.       *)
ZombieIsReaped ==
  Unlocked => \A s \in Slots : state[s] = "ZOMBIE" =>
    /\ parent[s] # 0 /\ state[parent[s]] \in {"RUNNABLE", "RUNNING", "SLEEPING"}
    /\ state[parent[s]] = "SLEEPING" => chan[parent[s]] # parent[s]

(* README.md:67 of p2, getprocstate() "retrieves the state of the first    *)
(* process with the specified PID": a process that is there when it is     *)
(* called and lives on is not missed, whatever is forked, exits or is      *)
(* reaped around it, and it is its own entry whose state is read.          *)
StateFound ==
  \A s \in Slots : look # NoLook /\ pid[s] = look.pid =>
    IF look.found THEN look.at = s ELSE look.at <= s
(* That the state is of this process: the code does not keep this, as the  *)
(* process may be reaped, and its entry given to another, between the two  *)
(* reads.                                                                  *)
StateIsOfPid == look.found => pid[look.at] = look.pid
=============================================================================
