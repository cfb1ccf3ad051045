------------------------------ MODULE Spinlock ------------------------------
(***************************************************************************)
(* spinlock.c: acquire(), release(), pushcli() and popcli() on several     *)
(* CPUs, with interrupts.  A CPU runs a process or, when interrupts are    *)
(* enabled, an interrupt handler on top of it; either takes locks in       *)
(* ascending order and lets them go in any order, as the kernel does.      *)
(***************************************************************************)
EXTENDS Naturals, FiniteSets

CONSTANTS Cpus, NoCpu,
          Locks         \* numbered in the order in which they nest

Levels == {"process", "handler"}

ASSUME LockAssumption == Locks \subseteq Nat /\ NoCpu \notin Cpus

VARIABLES
  locked, owner,   \* struct spinlock: locked (0 is FALSE) and cpu
  fl,              \* FL_IF of each CPU's eflags
  ncli, intena,    \* struct cpu
  spc, want,       \* where a CPU is, and the lock that is about
  level,           \* what it runs
  has,             \* the locks each level of it has been given
  panics           \* CPUs stopped by an assertion

lockvars == <<locked, owner>>
cpuvars == <<fl, ncli, intena>>
spinvars == <<locked, owner, fl, ncli, intena, spc, want, level, has, panics>>

SpinInit ==
  /\ locked = [l \in Locks |-> FALSE] /\ owner = [l \in Locks |-> NoCpu]
  /\ fl = [c \in Cpus |-> TRUE] /\ ncli = [c \in Cpus |-> 0]
  /\ intena = [c \in Cpus |-> FALSE]
  /\ spc = [c \in Cpus |-> "run"] /\ want = [c \in Cpus |-> 0]
  /\ level = [c \in Cpus |-> "process"]
  /\ has = [c \in Cpus |-> [x \in Levels |-> {}]]
  /\ panics = {}

Mine(c) == has[c]["process"] \cup has[c]["handler"]
Running(c, at) == spc[c] = at /\ c \notin panics
Go(c, at) == spc' = [spc EXCEPT ![c] = at]
holding(c, l) == locked[l] /\ owner[l] = c
Check(c, ok) == panics' = IF ok THEN panics ELSE panics \cup {c}
-----------------------------------------------------------------------------
(* pushcli(), and the assertion that this CPU does not hold the lock. *)
Cli_not(c) == UNCHANGED fl
Cli(c) == fl' = [fl EXCEPT ![c] = FALSE]
Pushcli(c, l) ==
  /\ Running(c, "run") /\ \A m \in has[c][level[c]] : m < l
  /\ Cli(c) /\ ncli' = [ncli EXCEPT ![c] = @ + 1]
  /\ intena' = IF ncli[c] = 0 THEN [intena EXCEPT ![c] = fl[c]] ELSE intena
  /\ want' = [want EXCEPT ![c] = l] /\ Go(c, "spin")
  /\ Check(c, ~holding(c, l))
  /\ UNCHANGED <<lockvars, level, has>>

(* while(xchg(&lk->locked, 1) != 0), and then lk->cpu = cpu. *)
Free_always(l) == TRUE
Free(l) == ~locked[l]
Xchg(c) ==
  /\ Running(c, "spin") /\ Free(want[c])
  /\ locked' = [locked EXCEPT ![want[c]] = TRUE]
  /\ has' = [has EXCEPT ![c][level[c]] = @ \cup {want[c]}]
  /\ Go(c, "acquired")
  /\ UNCHANGED <<owner, cpuvars, want, level, panics>>
Acquired(c) ==
  /\ Running(c, "acquired")
  /\ owner' = [owner EXCEPT ![want[c]] = c]
  /\ want' = [want EXCEPT ![c] = 0] /\ Go(c, "run")
  /\ UNCHANGED <<locked, cpuvars, level, has, panics>>

(* release(): lk->cpu = 0, then xchg(&lk->locked, 0), then popcli(). *)
Release(c, l) ==
  /\ Running(c, "run") /\ l \in has[c][level[c]]
  /\ owner' = [owner EXCEPT ![l] = NoCpu]
  /\ want' = [want EXCEPT ![c] = l] /\ Go(c, "unlock")
  /\ Check(c, holding(c, l))
  /\ UNCHANGED <<locked, cpuvars, level, has>>
Unlock(c) ==
  /\ Running(c, "unlock")
  /\ locked' = [locked EXCEPT ![want[c]] = FALSE]
  /\ has' = [has EXCEPT ![c][level[c]] = @ \ {want[c]}]
  /\ want' = [want EXCEPT ![c] = 0] /\ Go(c, "popcli")
  /\ UNCHANGED <<owner, cpuvars, level, panics>>
Popcli(c) ==
  /\ Running(c, "popcli")
  /\ Check(c, ~fl[c] /\ ncli[c] > 0)
  /\ ncli' = [ncli EXCEPT ![c] = IF @ > 0 THEN @ - 1 ELSE @]
  /\ fl' = [fl EXCEPT ![c] = @ \/ (ncli[c] = 1 /\ intena[c])]
  /\ Go(c, "run")
  /\ UNCHANGED <<lockvars, intena, want, level, has>>

(* An interrupt gate clears FL_IF, iret restores it.  Where a lock is held *)
(* or waited for FL_IF is clear already.                                   *)
Interrupt(c) ==
  /\ Running(c, "run") /\ level[c] = "process" /\ fl[c]
  /\ level' = [level EXCEPT ![c] = "handler"] /\ fl' = [fl EXCEPT ![c] = FALSE]
  /\ UNCHANGED <<lockvars, ncli, intena, spc, want, has, panics>>
Iret(c) ==
  /\ Running(c, "run") /\ level[c] = "handler" /\ has[c]["handler"] = {}
  /\ level' = [level EXCEPT ![c] = "process"] /\ fl' = [fl EXCEPT ![c] = TRUE]
  /\ UNCHANGED <<lockvars, ncli, intena, spc, want, has, panics>>

SpinNext ==
  \E c \in Cpus :
    \/ \E l \in Locks : Pushcli(c, l) \/ Release(c, l)
    \/ Xchg(c) \/ Acquired(c) \/ Unlock(c) \/ Popcli(c)
    \/ Interrupt(c) \/ Iret(c)
SpinSpec == SpinInit /\ [][SpinNext]_spinvars
-----------------------------------------------------------------------------
SpinTypeOK ==
  /\ locked \in [Locks -> BOOLEAN] /\ owner \in [Locks -> Cpus \cup {NoCpu}]
  /\ fl \in [Cpus -> BOOLEAN] /\ ncli \in [Cpus -> Nat] /\ intena \in [Cpus -> BOOLEAN]
  /\ spc \in [Cpus -> {"run", "spin", "acquired", "unlock", "popcli"}]
  /\ want \in [Cpus -> Locks \cup {0}] /\ level \in [Cpus -> Levels]
  /\ has \in [Cpus -> [Levels -> SUBSET Locks]]
  /\ panics \subseteq Cpus

(* spinlock.c:1, a lock has one owner at a time; holding() is right about  *)
(* it although it reads two words that other CPUs write.                   *)
MutualExclusion ==
  /\ \A c, d \in Cpus : c # d => Mine(c) \cap Mine(d) = {}
  /\ \A c \in Cpus, l \in Locks : Running(c, "run") => (holding(c, l) = (l \in Mine(c)))

(* spinlock.c:90-92, pushcli() and popcli() match: no handler runs on top  *)
(* of a process that has a lock or waits for one, or it could wait for     *)
(* ever; and when the last lock is let go, in whatever order, interrupts   *)
(* are enabled again if they were before the first.                        *)
InterruptsMatched ==
  \A c \in Cpus :
    /\ fl[c] => spc[c] = "run" /\ Mine(c) = {} /\ ncli[c] = 0
    /\ level[c] = "handler" => has[c]["process"] = {} /\ ~fl[c]
    /\ spc[c] = "run" /\ Mine(c) = {} => ncli[c] = 0 /\ fl[c] = (level[c] = "process")

(* None of the assertions of spinlock.c fails. *)
LocksSafe == MutualExclusion /\ InterruptsMatched /\ panics = {}
=============================================================================
