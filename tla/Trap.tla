--------------------------------- MODULE Trap ---------------------------------
(***************************************************************************)
(* The ways into and out of p2's kernel: trap() for system calls, clock    *)
(* interrupts and faults of a program, the clock, sys_sleep() and kill().  *)
(*                                                                         *)
(* The processes run on CPUs of their own or take turns: a step of one may *)
(* come between any two of another.  What happens under tickslock, or with *)
(* ptable.lock, is one step unless a process may be killed in between.     *)
(* An int of sleep() is compared with uints: it counts as n % Wrap.        *)
(***************************************************************************)
EXTENDS Integers

CONSTANTS
  Procs,
  Wrap,        \* 2^32
  SleepArgs,   \* what programs pass to sleep()
  MaxTicks     \* bound of the model: clock interrupts

VARIABLES
  tpc,         \* where a process is: "user", "entry", "call", "ticks", "block",
               \* "asleep", "woken", "return", "intr", "yielded", "zombie"
  killed,
  ticks,
  tickslock,   \* who has it, or NoOne
  ticks0, n,   \* sys_sleep()'s variables
  passed,      \* ticks since it was called
  ret,         \* what it returns
  back,        \* how often a killed process has gone back to its program
  late         \* has such a process then made a system call?
trapvars == <<tpc, killed, ticks, tickslock, ticks0, n, passed, ret, back, late>>

NoOne == 0
TrapInit ==
  /\ tpc = [p \in Procs |-> "user"] /\ killed = [p \in Procs |-> FALSE]
  /\ ticks \in {0, Wrap - 2} /\ tickslock = NoOne
  /\ ticks0 = [p \in Procs |-> 0] /\ n = [p \in Procs |-> 0] /\ passed = [p \in Procs |-> 0]
  /\ ret = [p \in Procs |-> 0] /\ back = [p \in Procs |-> 0] /\ late = {}

To(p, at) == tpc' = [tpc EXCEPT ![p] = at]
sleepvars == <<ticks, tickslock, ticks0, n, passed, ret>>
IfKilled(p, at) == IF killed[p] THEN "zombie" ELSE at
(* The end of trap(), and back to the program. *)
Leaves(p) ==
  /\ To(p, IfKilled(p, "iret")) /\ UNCHANGED <<killed, sleepvars, back, late>>
Iret(p) ==
  /\ tpc[p] = "iret" /\ To(p, "user")
  /\ back' = [back EXCEPT ![p] = IF killed[p] /\ @ < 2 THEN @ + 1 ELSE @]
  /\ UNCHANGED <<killed, sleepvars, late>>
-----------------------------------------------------------------------------
(* A system call: killed is looked at before and after it. *)
Syscall(p) ==
  /\ tpc[p] = "user" /\ To(p, "entry") /\ UNCHANGED <<killed, sleepvars, back, late>>
AtEntry_unchecked(p) == "call"
AtEntry(p) == IfKilled(p, "call")
Entry(p) ==
  /\ tpc[p] = "entry" /\ To(p, AtEntry(p)) /\ UNCHANGED <<killed, sleepvars, back, late>>
Begins(p) ==
  /\ tpc[p] = "call"
  /\ late' = IF back[p] > 0 THEN late \cup {p} ELSE late
Cleared(f, p) == [f EXCEPT ![p] = 0]
Return(p) ==
  /\ tpc[p] = "return" /\ To(p, IfKilled(p, "iret"))
  /\ ticks0' = Cleared(ticks0, p) /\ n' = Cleared(n, p)
  /\ passed' = Cleared(passed, p) /\ ret' = Cleared(ret, p)
  /\ UNCHANGED <<killed, ticks, tickslock, back, late>>

(* kill(): whoever sleeps is woken, to find killed set. *)
Kill(p, q) ==
  /\ Begins(p) /\ tpc[q] # "zombie"
  /\ killed' = [killed EXCEPT ![q] = TRUE]
  /\ tpc' = [tpc EXCEPT ![p] = "return", ![q] = IF q = p THEN "return" ELSE IF @ = "asleep" THEN "woken" ELSE @]
  /\ UNCHANGED <<sleepvars, back>>
-----------------------------------------------------------------------------
(* sys_sleep(): tickslock is held from a wakeup to the next sleep. *)
Sleep(p, k) ==
  /\ Begins(p) /\ tickslock = NoOne
  /\ tickslock' = p /\ ticks0' = [ticks0 EXCEPT ![p] = ticks] /\ n' = [n EXCEPT ![p] = k % Wrap]
  /\ passed' = [passed EXCEPT ![p] = 0]
  /\ To(p, "ticks") /\ UNCHANGED <<killed, ticks, ret, back>>
Slept(p) == (ticks - ticks0[p]) % Wrap
SleepTest(p) ==
  /\ tpc[p] = "ticks"
  /\ IF Slept(p) < n[p] /\ ~killed[p]
     THEN To(p, "block") /\ UNCHANGED <<tickslock, ret>>
     ELSE /\ To(p, "return") /\ tickslock' = NoOne
          /\ ret' = [ret EXCEPT ![p] = IF Slept(p) < n[p] THEN -1 ELSE 0]
  /\ UNCHANGED <<killed, ticks, ticks0, n, passed, back, late>>
Block(p) ==
  /\ tpc[p] = "block" /\ To(p, "asleep") /\ tickslock' = NoOne
  /\ UNCHANGED <<killed, ticks, ticks0, n, passed, ret, back, late>>
Wakes(p) ==
  /\ tpc[p] = "woken" /\ tickslock = NoOne /\ tickslock' = p /\ To(p, "ticks")
  /\ UNCHANGED <<killed, ticks, ticks0, n, passed, ret, back, late>>
-----------------------------------------------------------------------------
(* The clock interrupt of CPU 0. *)
Woken_only_due == [p \in Procs |-> IF tpc[p] = "asleep" /\ passed[p] >= n[p] THEN "woken" ELSE tpc[p]]
Woken == [p \in Procs |-> IF tpc[p] = "asleep" THEN "woken" ELSE tpc[p]]
InSleep(p) == tpc[p] \in {"block", "asleep", "woken"}
Timer ==
  /\ tickslock = NoOne /\ \A p \in Procs : passed[p] < MaxTicks
  /\ ticks' = (ticks + 1) % Wrap /\ tpc' = Woken
  /\ passed' = [p \in Procs |-> IF InSleep(p) THEN passed[p] + 1 ELSE passed[p]]
  /\ UNCHANGED <<killed, tickslock, ticks0, n, ret, back, late>>
(* Any interrupt while a program runs; the clock's makes it yield.         *)
Interrupt(p) ==
  /\ tpc[p] = "user" /\ To(p, "intr") /\ UNCHANGED <<killed, sleepvars, back, late>>
Fault(p) ==
  /\ tpc[p] = "user" /\ To(p, "intr") /\ killed' = [killed EXCEPT ![p] = TRUE]
  /\ UNCHANGED <<sleepvars, back, late>>
Yield(p) ==
  /\ tpc[p] = "intr" /\ To(p, IfKilled(p, "yielded")) /\ UNCHANGED <<killed, sleepvars, back, late>>
Yielded(p) == tpc[p] = "yielded" /\ Leaves(p)

TrapNext ==
  \/ Timer
  \/ \E p \in Procs :
       \/ Iret(p) \/ Syscall(p) \/ Entry(p) \/ Return(p)
       \/ SleepTest(p) \/ Block(p) \/ Wakes(p)
       \/ Interrupt(p) \/ Fault(p) \/ Yield(p) \/ Yielded(p)
       \/ \E k \in SleepArgs : Sleep(p, k)
       \/ \E q \in Procs : Kill(p, q)
TrapSpec == TrapInit /\ [][TrapNext]_trapvars
-----------------------------------------------------------------------------
(* trap.c:94, "Force process exit if it has been killed and is in user     *)
(* space": a killed process sees its program once more at most, if it was  *)
(* killed on its way back, and makes no system call there.                 *)
KilledLeaves == late = {} /\ \A p \in Procs : back[p] <= 1
(* sleep(n) that returns 0 has taken n ticks at least, even if ticks has   *)
(* wrapped; who is asleep has not slept long enough yet; no sleeper stays  *)
(* asleep over a tick.                                                     *)
SleepsRight ==
  \A p \in Procs :
    /\ tpc[p] = "return" /\ ret[p] = 0 => passed[p] >= n[p]
    /\ tpc[p] = "asleep" => Slept(p) < n[p]
TrapsRight == KilledLeaves /\ SleepsRight
=============================================================================
