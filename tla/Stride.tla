-------------------------------- MODULE Stride --------------------------------
(***************************************************************************)
(* The process table and the stride scheduler of the p4 kernel (proc.c),   *)
(* on one CPU.                                                             *)
(*                                                                         *)
(* ptable.lock is held, and interrupts are off, while scheduler() scans    *)
(* the table and switches and while exit(), wait() and sleep() work on it. *)
(* Elsewhere a process can be preempted, and interrupts can wake sleepers; *)
(* the scheduler has interrupts on only between two scans (k = 0).         *)
(***************************************************************************)
EXTENDS Integers, FiniteSets

CONSTANTS NPROC,       \* slots of the process table
          MAXSTRIDE,
          IntMax,      \* the largest int
          TicketArgs,  \* what programs pass to settickets()
          MaxTicks,    \* bound of the model on ticks[p]; it stops there
          MaxKilled,   \* bound of the model on the slots killed at a time
          Observing    \* is a snapshot taken?

ASSUME StrideAssumption ==
  /\ NPROC \in Nat \ {0} /\ MAXSTRIDE \in Nat \ {0}
  /\ IntMax \in Nat /\ MAXSTRIDE <= IntMax
  /\ TicketArgs \subseteq 1 .. IntMax
  /\ MaxTicks \in Nat /\ MaxKilled \in Nat /\ Observing \in BOOLEAN

Slots == 0 .. NPROC - 1
initproc == 0
NoProc == -1

VARIABLES
  state, parent,   \* struct proc
  nopid,           \* the slots with pid 0
  killed,          \* the slots with killed set
  tickets, init_stride, passvalue, ticks,
  pc,              \* where a process is: user mode, fork(), wait(), ...
  np,              \* np[p] : the slot fork() got from allocproc()
  ready,           \* sleepers whose event has come
  proc,            \* the process that runs; NoProc in scheduler()
  k,               \* scheduler() : the slot the scan is at
  lowestPV, chosenProc,
  mark,            \* an observer's snapshot: see Observe
  panicked

strides == <<tickets, init_stride>>
scan == <<k, lowestPV, chosenProc>>
table == <<state, parent, nopid, killed>>
vars == <<state, parent, nopid, killed, tickets, init_stride, passvalue, ticks,
          pc, np, ready, proc, k, lowestPV, chosenProc, mark, panicked>>

(* The processes compared since the snapshot, and how one drops out. *)
steady == DOMAIN mark
Forget(p) == mark' = [q \in steady \ {p} |-> mark[q]]
NoMark == [q \in {} |-> 0]

Init ==
  /\ state = [p \in Slots |-> IF p = initproc THEN "RUNNABLE" ELSE "UNUSED"]
  /\ parent = [p \in Slots |-> NoProc]
  /\ nopid = Slots \ {initproc}
  /\ killed = {}
  /\ tickets = [p \in Slots |-> IF p = initproc THEN 1 ELSE 0]
  /\ init_stride = [p \in Slots |-> IF p = initproc THEN MAXSTRIDE ELSE 0]
  /\ passvalue = init_stride
  /\ ticks = [p \in Slots |-> 0]
  /\ pc = [p \in Slots |-> "user"]
  /\ np = [p \in Slots |-> NoProc]
  /\ ready = {}
  /\ proc = NoProc
  /\ k = 0 /\ lowestPV = -1 /\ chosenProc = NoProc
  /\ mark = NoMark
  /\ panicked = FALSE

-----------------------------------------------------------------------------
(* scheduler() *)

(* Two's complement: what an int holds after an addition. *)
Wrap_missing(x) == x
Wrap(x) == IF x > IntMax THEN x - 2 * (IntMax + 1) ELSE x

(* Does the slot at hand become the candidate?  -1 stands for "none yet". *)
Better_last(p) == lowestPV = -1 \/ passvalue[p] > lowestPV
Better(p) == lowestPV = -1 \/ passvalue[p] < lowestPV

(* One round of the loop over the table. *)
Scan ==
  /\ proc = NoProc /\ ~panicked /\ k < NPROC
  /\ k' = k + 1
  /\ \/ /\ state[k] = "RUNNABLE" /\ Better(k)
        /\ lowestPV' = passvalue[k] /\ chosenProc' = k
     \/ /\ ~(state[k] = "RUNNABLE" /\ Better(k))
        /\ UNCHANGED <<lowestPV, chosenProc>>
  /\ UNCHANGED <<table, strides, passvalue, ticks, pc, np, ready, proc, mark,
                 panicked>>

(* After the loop chosenProc runs, and is charged.  When no process was    *)
(* RUNNABLE that is the one that ran last, whatever its state.             *)
Choose ==
  LET p == chosenProc
      sum == passvalue[p] + init_stride[p] IN
  /\ proc = NoProc /\ ~panicked /\ k = NPROC /\ p # NoProc
  /\ ticks[p] < MaxTicks
  /\ lowestPV' = -1 /\ k' = 0
  /\ passvalue' = [passvalue EXCEPT ![p] = Wrap(sum)]
  /\ ticks' = [ticks EXCEPT ![p] = @ + 1]
  /\ proc' = p
  /\ state' = [state EXCEPT ![p] = "RUNNING"]
  /\ mark' = IF sum > IntMax THEN NoMark ELSE mark
  /\ UNCHANGED <<parent, nopid, killed, strides, pc, np, ready, chosenProc,
                 panicked>>

-----------------------------------------------------------------------------
(* The running process.  Sched gives the CPU back with a new state. *)

At(p, l) == proc = p /\ ~panicked /\ pc[p] = l
Goto(p, l) == pc' = [pc EXCEPT ![p] = l]
(* A system call: the program asks for it, and has not been killed. *)
Call(p) == At(p, "user") /\ p \notin killed

(* The timer interrupt, in user mode and in fork(). *)
Yield(p) ==
  /\ Call(p) \/ At(p, "fork")
  /\ state' = [state EXCEPT ![p] = "RUNNABLE"]
  /\ proc' = NoProc
  /\ UNCHANGED <<parent, nopid, killed, strides, passvalue, ticks, pc, np,
                 ready, scan, mark, panicked>>

(* allocproc() takes the first free slot. *)
AllocProc(p) ==
  /\ Call(p)
  /\ \E c \in Slots :
       /\ state[c] = "UNUSED" /\ \A q \in Slots : state[q] = "UNUSED" => c <= q
       /\ state' = [state EXCEPT ![c] = "EMBRYO"]
       /\ nopid' = nopid \ {c}
       /\ tickets' = [tickets EXCEPT ![c] = 1]
       /\ ticks' = [ticks EXCEPT ![c] = 0]
       /\ init_stride' = [init_stride EXCEPT ![c] = MAXSTRIDE]
       /\ passvalue' = [passvalue EXCEPT ![c] = MAXSTRIDE]
       /\ np' = [np EXCEPT ![p] = c]
  /\ Goto(p, "fork")
  /\ UNCHANGED <<parent, killed, ready, proc, scan, mark, panicked>>

(* No memory for the stack or the address space. *)
ForkFailed(p) ==
  /\ At(p, "fork")
  /\ state' = [state EXCEPT ![np[p]] = "UNUSED"]
  /\ np' = [np EXCEPT ![p] = NoProc]
  /\ Goto(p, "user")
  /\ UNCHANGED <<parent, nopid, killed, strides, passvalue, ticks, ready, proc,
                 scan, mark, panicked>>

(* The child gets its parent's tickets and starts at its stride. *)
ForkDone(p) ==
  LET c == np[p] IN
  /\ At(p, "fork")
  /\ parent' = [parent EXCEPT ![c] = p]
  /\ tickets' = [tickets EXCEPT ![c] = tickets[p]]
  /\ init_stride' = [init_stride EXCEPT ![c] = init_stride[p]]
  /\ passvalue' = [passvalue EXCEPT ![c] = init_stride[p]]
  /\ ticks' = [ticks EXCEPT ![c] = 0]
  /\ state' = [state EXCEPT ![c] = "RUNNABLE"]
  /\ pc' = [pc EXCEPT ![p] = "user", ![c] = "user"]
  /\ np' = [np EXCEPT ![p] = NoProc]
  /\ UNCHANGED <<nopid, killed, ready, proc, scan, mark, panicked>>

SetTickets(p, n) ==
  /\ Call(p)
  /\ tickets' = [tickets EXCEPT ![p] = n]
  /\ init_stride' = [init_stride EXCEPT ![p] = MAXSTRIDE \div n]
  /\ passvalue' = [passvalue EXCEPT ![p] = MAXSTRIDE \div n]
  /\ Forget(p)
  /\ UNCHANGED <<table, ticks, pc, np, ready, proc, scan, panicked>>

(* wakeup1() in exit() : the states of all slots once p's children have    *)
(* gone to init and those who wait for them have been woken.               *)
Woken_parent_only(p) ==
  {q \in Slots : state[q] = "SLEEPING" /\ pc[q] = "wait" /\ q = parent[p]}
Woken(p) ==
  {q \in Slots : state[q] = "SLEEPING" /\ pc[q] = "wait"
     /\ \/ q = parent[p]
        \/ /\ q = initproc
           /\ \E z \in Slots : parent[z] = p /\ state[z] = "ZOMBIE"}

Adopt_none(p) == UNCHANGED parent
Adopt(p) ==
  parent' = [q \in Slots |-> IF parent[q] = p THEN initproc ELSE parent[q]]

(* exit(), by the program or in trap() for a killed process. *)
Exit(p) ==
  /\ At(p, "user")
  /\ \/ /\ p = initproc
        /\ panicked' = TRUE
        /\ UNCHANGED <<state, parent, pc, proc, mark>>
     \/ /\ p # initproc
        /\ state' = [q \in Slots |-> IF q = p THEN "ZOMBIE"
                                     ELSE IF q \in Woken(p) THEN "RUNNABLE"
                                     ELSE state[q]]
        /\ Adopt(p)
        /\ Goto(p, "zombie")
        /\ proc' = NoProc
        /\ Forget(p)
        /\ UNCHANGED panicked
  /\ UNCHANGED <<nopid, killed, strides, passvalue, ticks, np, ready, scan>>

(* Where sched() returns in exit() : panic("zombie exit"). *)
ZombieExit(p) ==
  /\ At(p, "zombie")
  /\ panicked' = TRUE
  /\ UNCHANGED <<table, strides, passvalue, ticks, pc, np, ready, proc, scan,
                 mark>>

(* A pass of the loop of wait(), after the call and after every sleep. *)
Wait(p) ==
  LET kids == {z \in Slots : parent[z] = p}
      zombies == {z \in kids : state[z] = "ZOMBIE"} IN
  /\ Call(p) \/ At(p, "wait")
  /\ \/ \E z \in zombies :
        /\ \A y \in zombies : z <= y
        /\ state' = [state EXCEPT ![z] = "UNUSED"]
        /\ nopid' = nopid \cup {z}
        /\ parent' = [parent EXCEPT ![z] = NoProc]
        /\ killed' = killed \ {z}
        /\ Goto(p, "user")
        /\ UNCHANGED <<proc, mark>>
     \/ /\ zombies = {} /\ (kids = {} \/ p \in killed)
        /\ Goto(p, "user")
        /\ UNCHANGED <<table, proc, mark>>
     \/ /\ zombies = {} /\ kids # {} /\ p \notin killed
        /\ state' = [state EXCEPT ![p] = "SLEEPING"]
        /\ Goto(p, "wait")
        /\ proc' = NoProc
        /\ Forget(p)
        /\ UNCHANGED <<parent, nopid, killed>>
  /\ UNCHANGED <<strides, passvalue, ticks, np, ready, scan, panicked>>

(* sleep() for an event from outside the table: the disk, a pipe, the      *)
(* clock.  Its callers look again for the event and sleep once more; some  *)
(* of them give up when the process has been killed.                       *)
Sleep(p) ==
  /\ Call(p) \/ (At(p, "event") /\ p \notin ready)
  /\ state' = [state EXCEPT ![p] = "SLEEPING"]
  /\ Goto(p, "event")
  /\ ready' = ready \ {p}
  /\ proc' = NoProc
  /\ Forget(p)
  /\ UNCHANGED <<parent, nopid, killed, strides, passvalue, ticks, np, scan,
                 panicked>>

SleepReturns(p) ==
  /\ At(p, "event") /\ (p \in ready \/ p \in killed)
  /\ ready' = ready \ {p}
  /\ Goto(p, "user")
  /\ UNCHANGED <<table, strides, passvalue, ticks, np, proc, scan, mark,
                 panicked>>

(* wakeup(), where interrupts are on. *)
Wakeup(S) ==
  /\ ~panicked
  /\ \/ proc = NoProc /\ k = 0
     \/ proc # NoProc /\ pc[proc] \in {"user", "fork"}
  /\ S # {} /\ \A q \in S : state[q] = "SLEEPING" /\ pc[q] = "event"
  /\ state' = [q \in Slots |-> IF q \in S THEN "RUNNABLE" ELSE state[q]]
  /\ ready' = ready \cup S
  /\ UNCHANGED <<parent, nopid, killed, strides, passvalue, ticks, pc, np,
                 proc, scan, mark, panicked>>

(* kill(pid).  kill(0) finds the first slot without a pid, which is in use *)
(* by nobody.                                                              *)
Kill(p, q) ==
  /\ Call(p) /\ Cardinality(killed) < MaxKilled
  /\ q \in nopid => \A r \in nopid : q <= r
  /\ killed' = killed \cup {q}
  /\ state' = [state EXCEPT ![q] = IF @ = "SLEEPING" THEN "RUNNABLE" ELSE @]
  /\ UNCHANGED <<parent, nopid, strides, passvalue, ticks, pc, np, ready, proc,
                 scan, mark, panicked>>

-----------------------------------------------------------------------------
(* Not in the code: between two scans an observer notes the ticks and the  *)
(* passvalue of the processes that want the CPU, while no passvalue is     *)
(* negative.  mark keeps the records of those that have neither slept nor  *)
(* exited nor called settickets() since, until a passvalue overflows.      *)
Observe ==
  /\ Observing /\ steady = {} /\ proc = NoProc /\ k = 0 /\ ~panicked
  /\ \A p \in Slots : passvalue[p] >= 0
  /\ mark' = [p \in {q \in Slots : state[q] = "RUNNABLE"} |->
                [ticks |-> ticks[p], passvalue |-> passvalue[p]]]
  /\ UNCHANGED <<table, strides, passvalue, ticks, pc, np, ready, proc, scan,
                 panicked>>

Next ==
  \/ Scan \/ Choose \/ Observe
  \/ \E S \in SUBSET Slots : Wakeup(S)
  \/ \E p \in Slots :
       \/ Yield(p)
       \/ AllocProc(p) \/ ForkFailed(p) \/ ForkDone(p)
       \/ \E n \in TicketArgs : SetTickets(p, n)
       \/ Exit(p) \/ ZombieExit(p) \/ Wait(p)
       \/ Sleep(p) \/ SleepReturns(p)
       \/ \E q \in Slots : Kill(p, q)

Spec == Init /\ [][Next]_vars

-----------------------------------------------------------------------------
(* Properties *)

States == {"UNUSED", "EMBRYO", "SLEEPING", "RUNNABLE", "RUNNING", "ZOMBIE"}
Living == {"SLEEPING", "RUNNABLE", "RUNNING"}

(* Every variable has its type. *)
TypeOK ==
  /\ state \in [Slots -> States]
  /\ parent \in [Slots -> Slots \cup {NoProc}]
  /\ nopid \in SUBSET Slots /\ killed \in SUBSET Slots
  /\ tickets \in [Slots -> 0 .. IntMax]
  /\ init_stride \in [Slots -> 0 .. MAXSTRIDE]
  /\ passvalue \in [Slots -> -IntMax - 1 .. IntMax]
  /\ ticks \in [Slots -> 0 .. MaxTicks]
  /\ pc \in [Slots -> {"user", "fork", "wait", "event", "zombie"}]
  /\ np \in [Slots -> Slots \cup {NoProc}]
  /\ ready \in SUBSET Slots
  /\ proc \in Slots \cup {NoProc}
  /\ k \in 0 .. NPROC
  /\ lowestPV \in -IntMax - 1 .. IntMax
  /\ chosenProc \in Slots \cup {NoProc}
  /\ steady \subseteq Slots
  /\ mark \in [steady -> [ticks : 0 .. MaxTicks,
                          passvalue : -IntMax - 1 .. IntMax]]
  /\ panicked \in BOOLEAN

(* How often p was chosen since the mark. *)
Turns(p) == ticks[p] - mark[p].ticks

(* CPU time in proportion to the tickets (README.md of p4): of any two     *)
(* processes that wanted the CPU all the time, neither has been charged    *)
(* more than the other by more than one of its own strides, beyond the     *)
(* lead the other had at the mark.  In particular neither waits for ever,  *)
(* as long as no passvalue overflows.                                      *)
FairShare ==
  \A p, q \in steady :
    Turns(p) > 0 =>
      mark[p].passvalue + (Turns(p) - 1) * init_stride[p]
        <= mark[q].passvalue + Turns(q) * init_stride[q]

(* No wakeup is lost: nobody sleeps in wait() while a child of his is a    *)
(* zombie, though children exit, and their parents do, at any time.        *)
NoSleepOnZombie ==
  \A p, z \in Slots :
    state[p] = "SLEEPING" /\ pc[p] = "wait" /\ parent[z] = p
      => state[z] # "ZOMBIE"

(* Every process but init has a parent that is alive and can reap it. *)
SomebodyReaps ==
  \A z \in Slots \ {initproc} :
    state[z] \in Living \cup {"ZOMBIE"} =>
      parent[z] \in Slots /\ state[parent[z]] \in Living

(* exit() does not return (proc.c:174-176): the scheduler never runs a     *)
(* zombie.                                                                 *)
ExitNeverReturns == \A p \in Slots : proc = p => pc[p] # "zombie"
=============================================================================
