--------------------------------- MODULE Boot ---------------------------------
(***************************************************************************)
(* How p2's kernel starts: the boot processor reads the table of           *)
(* processors, initialises one part of the kernel after the other, starts  *)
(* the other processors one by one and makes the first process.            *)
(*                                                                         *)
(* A processor is named by its APIC number.  at[c] is what processor c has *)
(* still to do, one step an initialisation function.                       *)
(***************************************************************************)
EXTENDS Naturals, Sequences, FiniteSets

CONSTANTS NCPU, MaxEntries

VARIABLES
  table,    \* the BIOS's MP configuration table, empty if there is none
  mp,       \* [p, ismp, lapic, ncpu, bcpu]: what mpinit() has found
  at,
  done,     \* the initialisations of the kernel that have been made
  own,      \* those each processor makes for itself
  fl,       \* processors that take interrupts
  route,    \* the processor an interrupt is routed to, or masked (NCPU)
  low,      \* the stack that bootothers() has put at start-4
  stack,    \* the stack a processor runs on
  booted,   \* cpu->booted
  oc,       \* the cpu bootothers() is at
  allocs,   \* pages handed out by kalloc()
  init      \* the first process: "none", "embryo", "runnable", "running"

bootVars == <<table, mp, at, done, own, fl, route, low, stack, booted, oc, allocs, init>>
Machine == 0 .. NCPU - 1
Irqs == {"kbd", "com", "ide", "timer"}

(* Tables with some processors, one of which the BIOS has started.         *)
Proc(q) == {k \in DOMAIN q : q[k].type = "proc"}
Entry == [type : {"proc"}, id : Machine, boot : BOOLEAN] \cup {[type |-> "bus"], [type |-> "unknown"]}
Tables ==
  {q \in UNION {[1 .. n -> Entry] : n \in 1 .. MaxEntries} :
     /\ \A j, k \in Proc(q) : j # k => q[j].id # q[k].id
     /\ Cardinality({k \in Proc(q) : q[k].boot}) = 1} \cup {<<>>}
Bsp == IF table = <<>> THEN 0 ELSE table[CHOOSE k \in Proc(table) : table[k].boot].id

(* With no local APIC mapped every processor takes itself for number 0. *)
Cpunum(c) == IF mp.lapic THEN c ELSE 0
InMain_lock_before_segments == <<"lapicinit", "kinit", "seginit", "jmpkstack">>
InMain == <<"lapicinit", "seginit", "kinit", "jmpkstack">>
InMainc ==
  <<"picinit", "ioapicinit", "consoleinit", "uartinit",
    "kvmalloc", "pinit", "tvinit", "binit", "fileinit", "iinit", "ideinit", "timerinit", "bootothers",
    "cinit", "sti", "userinit", "scheduler">>
MpmainSteps == <<"start", "cinit", "scheduler">>
Cinit(c) ==
  (IF Cpunum(c) # mp.bcpu THEN <<"seginit", "lapicinit">> ELSE <<>>) \o <<"vmenable", "idtinit", "booted">>
OfProcessor == {"seginit", "lapicinit", "vmenable", "idtinit"}

BootInit ==
  /\ table \in Tables
  /\ mp = [p |-> 0, ismp |-> FALSE, lapic |-> FALSE, ncpu |-> 0, bcpu |-> 0]
  /\ at = [c \in Machine |-> IF c = Bsp THEN <<"mpinit">> \o InMain \o InMainc ELSE <<>>]
  /\ done = {} /\ own = [c \in Machine |-> {}] /\ fl = {}
  /\ route = [i \in Irqs |-> NCPU]
  /\ low = 0 /\ stack = [c \in Machine |-> 0] /\ booted = {} /\ oc = 0 /\ allocs = 0 /\ init = "none"

-----------------------------------------------------------------------------
Next_(c, step) == at[c] # <<>> /\ Head(at[c]) = step
Past(c) == at' = [at EXCEPT ![c] = Tail(@)]

(* mpinit(), an entry a step; mp.p is 0 before the table is looked for. *)
Unread == UNCHANGED <<table, at, done, own, fl, route, low, stack, booted, oc, allocs, init>>
MpinitConf ==
  /\ Next_(Bsp, "mpinit") /\ mp.p = 0 /\ table # <<>>
  /\ mp' = [mp EXCEPT !.p = 1, !.ismp = TRUE, !.lapic = TRUE]
  /\ Unread
AtEntry(type) == Next_(Bsp, "mpinit") /\ mp.p \in DOMAIN table /\ table[mp.p].type = type
MpinitProc ==
  /\ AtEntry("proc")
  /\ LET e == table[mp.p] IN
       mp' = [mp EXCEPT !.p = @ + 1, !.ncpu = @ + 1, !.ismp = @ /\ mp.ncpu = e.id,
                        !.bcpu = IF e.boot THEN mp.ncpu ELSE @]
  /\ Unread
MpinitOther == AtEntry("bus") /\ mp' = [mp EXCEPT !.p = @ + 1] /\ Unread
(* The default case does not go on to the next entry. *)
MpinitUnknown == AtEntry("unknown") /\ mp' = [mp EXCEPT !.ismp = FALSE] /\ Unread
MpinitEnds ==
  /\ Next_(Bsp, "mpinit") /\ (mp.p > Len(table) \/ table = <<>>)
  /\ mp' = IF mp.ismp \/ table = <<>> THEN mp ELSE [mp EXCEPT !.ncpu = 1, !.lapic = FALSE]
  /\ Past(Bsp)
  /\ UNCHANGED <<table, done, own, fl, route, low, stack, booted, oc, allocs, init>>

(* The steps that only initialise something, and where they route the      *)
(* interrupt of their device to: through the I/O APIC, or, without a table *)
(* that mpinit() likes, through the 8259A to the boot processor.           *)
Irq(step) ==
  [consoleinit |-> "kbd", uartinit |-> "com", ideinit |-> "ide", timerinit |-> "timer"][step]
Enables == {"consoleinit", "uartinit", "ideinit"} \cup (IF mp.ismp THEN {} ELSE {"timerinit"})
Target(step) == IF ~mp.ismp THEN Bsp ELSE IF step = "ideinit" THEN mp.ncpu - 1 ELSE 0
Special == {"mpinit", "jmpkstack", "bootothers", "wait", "cinit", "booted", "sti", "userinit", "ready", "start",
            "scheduler", "swtch"}
Step(c) ==
  /\ at[c] # <<>> /\ Head(at[c]) \notin Special
  /\ LET s == Head(at[c]) IN
       /\ IF s \in OfProcessor
          THEN own' = [own EXCEPT ![c] = @ \cup {s}] /\ UNCHANGED done
          ELSE done' = done \cup {s} /\ UNCHANGED own
       /\ route' = IF s = "ioapicinit" /\ mp.ismp THEN [i \in Irqs |-> NCPU]
                   ELSE IF s \in Enables THEN [route EXCEPT ![Irq(s)] = Target(s)] ELSE route
  /\ Past(c)
  /\ UNCHANGED <<table, mp, fl, low, stack, booted, oc, allocs, init>>
Jmpkstack(c) ==
  /\ Next_(c, "jmpkstack")
  /\ allocs' = allocs + 1 /\ stack' = [stack EXCEPT ![c] = allocs + 1]
  /\ Past(c)
  /\ UNCHANGED <<table, mp, done, own, fl, route, low, booted, oc, init>>

(* bootothers(): a stack for the next processor, the two IPIs, and the     *)
(* wait until it is up.                                                    *)
StartAp(c) ==
  /\ Next_(c, "bootothers") /\ oc < mp.ncpu /\ oc # Cpunum(c)
  /\ allocs' = allocs + 1 /\ low' = allocs + 1
  /\ at' = [at EXCEPT ![c] = <<"wait">> \o @, ![oc] = MpmainSteps]
  /\ oc' = oc + 1
  /\ UNCHANGED <<table, mp, done, own, fl, route, stack, booted, init>>
IsStarted(c) ==
  /\ Next_(c, "bootothers") /\ oc < mp.ncpu /\ oc = Cpunum(c)
  /\ oc' = oc + 1
  /\ UNCHANGED <<table, mp, at, done, own, fl, route, low, stack, booted, allocs, init>>
WaitBooted(c) ==
  /\ Next_(c, "wait") /\ oc - 1 \in booted
  /\ Past(c)
  /\ UNCHANGED <<table, mp, done, own, fl, route, low, stack, booted, oc, allocs, init>>
BootothersEnds(c) ==
  /\ Next_(c, "bootothers") /\ oc >= mp.ncpu
  /\ done' = done \cup {"bootothers"} /\ Past(c)
  /\ UNCHANGED <<table, mp, own, fl, route, low, stack, booted, oc, allocs, init>>

(* bootother.S takes the stack that is at start-4 now. *)
Start32(c) ==
  /\ Next_(c, "start")
  /\ stack' = [stack EXCEPT ![c] = low] /\ Past(c)
  /\ UNCHANGED <<table, mp, done, own, fl, route, low, booted, oc, allocs, init>>
CallCinit(c) ==
  /\ Next_(c, "cinit")
  /\ at' = [at EXCEPT ![c] = Cinit(c) \o Tail(@)]
  /\ UNCHANGED <<table, mp, done, own, fl, route, low, stack, booted, oc, allocs, init>>
Booted(c) ==
  /\ Next_(c, "booted")
  /\ booted' = booted \cup {Cpunum(c)} /\ Past(c)
  /\ UNCHANGED <<table, mp, done, own, fl, route, low, stack, oc, allocs, init>>
Sti(c) ==
  /\ Next_(c, "sti") \/ Next_(c, "scheduler")
  /\ fl' = fl \cup {c}
  /\ at' = [at EXCEPT ![c] = (IF Head(@) = "scheduler" THEN <<"swtch">> ELSE <<>>) \o Tail(@)]
  /\ UNCHANGED <<table, mp, done, own, route, low, stack, booted, oc, allocs, init>>

(* userinit(): the process is in the table as an EMBRYO, then, when        *)
(* ptable.lock is released, RUNNABLE with its memory and directory.        *)
Allocproc(c) ==
  /\ Next_(c, "userinit")
  /\ init' = "embryo" /\ allocs' = allocs + 1
  /\ at' = [at EXCEPT ![c] = <<"ready">> \o Tail(@)]
  /\ UNCHANGED <<table, mp, done, own, fl, route, low, stack, booted, oc>>
Userinit(c) ==
  /\ Next_(c, "ready")
  /\ init' = "runnable" /\ done' = done \cup {"userinit"} /\ Past(c)
  /\ UNCHANGED <<table, mp, own, fl, route, low, stack, booted, oc, allocs>>
RunInit(c) ==
  /\ Next_(c, "swtch") /\ init = "runnable"
  /\ init' = "running" /\ Past(c)
  /\ UNCHANGED <<table, mp, done, own, fl, route, low, stack, booted, oc, allocs>>

-----------------------------------------------------------------------------
(* What a step uses: a lock needs the processor's segment (cpu->ncli),     *)
(* kalloc() the freelist, the console prints without a lock only before    *)
(* consoleinit().                                                          *)
Uses(step) ==
  CASE step \in {"kinit", "jmpkstack", "pinit"} -> {"seginit"} \cup (IF step = "jmpkstack" THEN {"kinit"} ELSE {})
    [] step = "kvmalloc" -> {"seginit", "kinit"}
    [] step \in Enables -> {"picinit", "ioapicinit"}
    [] step = "lapicinit" -> IF "consoleinit" \in done THEN {"seginit"} ELSE {}
    [] step = "bootothers" -> {"kinit", "kvmalloc", "pinit", "tvinit", "ideinit"}
    [] step = "vmenable" -> {"kvmalloc", "seginit"}
    [] step = "idtinit" -> {"tvinit", "seginit", "vmenable"}
    [] step = "userinit" -> {"seginit", "kinit", "pinit", "iinit", "binit", "fileinit", "bootothers"}
    [] step \in {"scheduler", "swtch"} -> {"seginit", "vmenable", "idtinit", "pinit", "tvinit"}
    [] OTHER -> {}
(* What the handler of an interrupt uses. *)
Handler(irq) ==
  {"pinit"} \cup
  [kbd |-> {"consoleinit"}, com |-> {"consoleinit", "uartinit"}, ide |-> {"ideinit", "binit"}, timer |-> {"tvinit"}][irq]

(* Every step finds what it uses; a processor that takes interrupts has    *)
(* its gates, and an interrupt routed to it a handler that is ready; no    *)
(* two processors are on one stack; and when the first process is made,    *)
(* all processors are up and every interrupt goes to one of them.          *)
BootSafe ==
  /\ \A c \in Machine : at[c] # <<>> => Uses(Head(at[c])) \subseteq done \cup own[c]
  /\ \A c \in fl : /\ {"seginit", "vmenable", "idtinit"} \subseteq own[c]
                   /\ \A i \in Irqs : route[i] = c => Handler(i) \subseteq done
                   /\ Handler("timer") \subseteq done
  /\ \A c, d \in Machine : c # d /\ stack[c] # 0 => stack[c] # stack[d]
  /\ init # "none" =>
       /\ \A c \in Machine : c = Bsp \/ (mp.ismp /\ c < mp.ncpu) => Cpunum(c) \in booted /\ OfProcessor \subseteq own[c]
       /\ \A i \in {"kbd", "com", "ide"} : route[i] \in fl \cup {c \in Machine : at[c] = <<"scheduler">>}
  /\ init = "running" => "userinit" \in done
=============================================================================
