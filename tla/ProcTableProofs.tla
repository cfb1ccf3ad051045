--------------------------- MODULE ProcTableProofs ---------------------------
(***************************************************************************)
(* Theorems about ProcTable: for any number of CPUs and table entries, no  *)
(* two CPUs are on one kernel stack, no parent sleeps past a zombie child, *)
(* and getprocstate() finds the process it is asked about.                 *)
(***************************************************************************)
EXTENDS ProcTable, WellFoundedInduction, TLAPS

States == {"UNUSED", "EMBRYO", "RUNNABLE", "RUNNING", "SLEEPING", "ZOMBIE"}
Alive == {"RUNNABLE", "RUNNING", "SLEEPING"}
Forking == {"kstack", "copyuvm", "runnable"}
Places == Forking \cup {"user", "sched", "waiting", "resumed", "forkret"}
Looks == [by : 0 .. NPROC, pid : Nat, at : 1 .. NPROC + 1, found : BOOLEAN]
TableTypeOK ==
  /\ state \in [Slots -> States] /\ pid \in [Slots -> Nat]
  /\ parent \in [Slots -> 0 .. NPROC] /\ killed \in [Slots -> BOOLEAN]
  /\ chan \in [Slots -> 0 .. NPROC + 1] /\ kstack \in [Slots -> BOOLEAN]
  /\ nextpid \in Nat /\ holder \in CPUs \cup {NoCPU}
  /\ ctx \in [CPUs -> 0 .. NPROC] /\ scan \in [CPUs -> 0 .. NPROC]
  /\ ppc \in [Slots -> Places] /\ kid \in [Slots -> 0 .. NPROC] /\ look \in Looks \cup {NoLook}

(* A CPU is on the stack of a process that runs, or of one that leaves it  *)
(* with ptable.lock held; and nobody else is in either state.              *)
OnStacks ==
  /\ \A c, d \in CPUs : ctx[c] # 0 /\ ctx[c] = ctx[d] => c = d
  /\ \A c \in CPUs : ctx[c] # 0 =>
       IF ppc[ctx[c]] = "sched"
       THEN holder = c /\ state[ctx[c]] \in {"RUNNABLE", "SLEEPING", "ZOMBIE"}
       ELSE state[ctx[c]] = "RUNNING"
  /\ \A s \in Slots : state[s] = "RUNNING" \/ ppc[s] = "sched" => \E c \in CPUs : ctx[c] = s

(* The child that fork() makes is an EMBRYO of its own, which nobody else  *)
(* makes, until it is RUNNABLE with a stack and a parent.                  *)
Forks ==
  /\ \A s \in Slots : kid[s] # 0 <=> ppc[s] \in Forking
  /\ \A s \in Slots : kid[s] # 0 =>
       /\ state[s] = "RUNNING" /\ state[kid[s]] = "EMBRYO"
       /\ ppc[s] # "kstack" => kstack[kid[s]]
       /\ ppc[s] = "runnable" => parent[kid[s]] # 0
  /\ \A s, t \in Slots : kid[s] # 0 /\ kid[s] = kid[t] => s = t
StacksMade == \A s \in Slots : state[s] \in Alive \cup {"ZOMBIE"} => kstack[s]

(* Parents live: exit() gives the children away.  The first process has no *)
(* parent and never exits.                                                 *)
Families ==
  /\ state[initproc] \in Alive /\ parent[initproc] = 0
  /\ \A s \in Slots : /\ parent[s] # s
                      /\ parent[s] # 0 => state[parent[s]] \in Alive
                      /\ s # initproc /\ state[s] \in Alive \cup {"ZOMBIE"} => parent[s] # 0

(* Who sleeps in wait() has no zombie, at every step and not only when     *)
(* ptable.lock is free.                                                    *)
Waiting == \A s \in Slots : state[s] = "SLEEPING" /\ chan[s] = s => Zombies(s) = {}

(* A pid is given out once. *)
PidsUnique ==
  /\ \A s \in Slots : pid[s] < nextpid
  /\ \A s, t \in Slots : pid[s] # 0 /\ pid[s] = pid[t] => s = t
  /\ look # NoLook => look.pid # 0 /\ look.pid < nextpid

TableInv ==
  /\ TableTypeOK /\ OnStacks /\ Forks /\ StacksMade /\ Families /\ Waiting
  /\ PidsUnique /\ StateFound
-----------------------------------------------------------------------------
(* What a step leaves alone, as far as each part of TableInv can tell. *)
StacksCalm ==
  /\ ctx' = ctx
  /\ \A s \in Slots : /\ state'[s] = "RUNNING" <=> state[s] = "RUNNING"
                      /\ ppc'[s] = "sched" <=> ppc[s] = "sched"
                      /\ ppc[s] = "sched" => state'[s] = state[s] /\ holder' = holder
ForksCalm ==
  /\ kid' = kid
  /\ \A s \in Slots :
       /\ state[s] \in {"EMBRYO", "RUNNING"} /\ (state[s] = "EMBRYO" \/ kid[s] # 0)
          => state'[s] = state[s]
       /\ state[s] = "EMBRYO" => (kstack'[s] <=> kstack[s]) /\ parent'[s] = parent[s]
       /\ ppc'[s] = ppc[s] \/ (ppc[s] \notin Forking /\ ppc'[s] \notin Forking)
MadeCalm ==
  \A s \in Slots : state'[s] \in Alive \cup {"ZOMBIE"} =>
    kstack'[s] \/ ((kstack[s] => kstack'[s]) /\ state[s] \in Alive \cup {"ZOMBIE"})
FamiliesCalm ==
  /\ parent' = parent
  /\ \A s \in Slots : /\ state'[s] \in Alive <=> state[s] \in Alive
                      /\ state'[s] = "ZOMBIE" <=> state[s] = "ZOMBIE"
WaitingCalm ==
  \A s \in Slots :
    /\ state'[s] = "SLEEPING" /\ chan'[s] = s => state[s] = "SLEEPING" /\ chan[s] = s
    /\ state'[s] = "ZOMBIE" => state[s] = "ZOMBIE" /\ parent'[s] = parent[s]
PidsCalm == pid' = pid /\ nextpid' = nextpid /\ look' = look

LEMMA StacksKept ==
  ASSUME TableTypeOK, OnStacks, StacksCalm
  PROVE  OnStacks'
<1>1. \A c, d \in CPUs : ctx'[c] # 0 /\ ctx'[c] = ctx'[d] => c = d
  BY DEF OnStacks, StacksCalm
<1>2. ASSUME NEW c \in CPUs, ctx'[c] # 0
      PROVE  IF ppc'[ctx'[c]] = "sched"
             THEN holder' = c /\ state'[ctx'[c]] \in {"RUNNABLE", "SLEEPING", "ZOMBIE"}
             ELSE state'[ctx'[c]] = "RUNNING"
  <2>1. PICK s \in Slots : ctx[c] = s /\ ctx'[c] = s
    BY <1>2, TableAssumption DEF TableTypeOK, StacksCalm, Slots
  <2> QED
    BY <1>2, <2>1 DEF OnStacks, StacksCalm
<1>3. \A s \in Slots : state'[s] = "RUNNING" \/ ppc'[s] = "sched" => \E c \in CPUs : ctx'[c] = s
  BY DEF OnStacks, StacksCalm
<1> QED
  BY <1>1, <1>2, <1>3 DEF OnStacks

LEMMA ForksKept ==
  ASSUME TableTypeOK, Forks, ForksCalm
  PROVE  Forks'
<1>1. \A s \in Slots : kid'[s] # 0 <=> ppc'[s] \in Forking
  BY DEF Forks, ForksCalm
<1>2. ASSUME NEW s \in Slots, kid'[s] # 0
      PROVE  /\ state'[s] = "RUNNING" /\ state'[kid'[s]] = "EMBRYO"
             /\ ppc'[s] # "kstack" => kstack'[kid'[s]]
             /\ ppc'[s] = "runnable" => parent'[kid'[s]] # 0
  <2>1. PICK k \in Slots : kid[s] = k /\ kid'[s] = k
    BY <1>2, TableAssumption DEF TableTypeOK, ForksCalm, Slots
  <2>2. ppc'[s] = ppc[s]
    BY <1>2, <2>1 DEF Forks, ForksCalm
  <2> QED
    BY <1>2, <2>1, <2>2 DEF Forks, ForksCalm
<1>3. \A s, t \in Slots : kid'[s] # 0 /\ kid'[s] = kid'[t] => s = t
  BY DEF Forks, ForksCalm
<1> QED
  BY <1>1, <1>2, <1>3 DEF Forks

LEMMA MadeKept ==
  ASSUME StacksMade, MadeCalm
  PROVE  StacksMade'
  BY DEF StacksMade, MadeCalm

LEMMA FamiliesKept ==
  ASSUME TableTypeOK, Families, FamiliesCalm
  PROVE  Families'
<1>1. initproc \in Slots
  BY TableAssumption DEF Slots, initproc
<1>2. \A s \in Slots : parent[s] # 0 => parent[s] \in Slots
  BY DEF TableTypeOK, Slots
<1> QED
  BY <1>1, <1>2 DEF Families, FamiliesCalm

LEMMA WaitingKept ==
  ASSUME TableTypeOK, Waiting, WaitingCalm
  PROVE  Waiting'
  BY DEF Waiting, WaitingCalm, Zombies, ChildrenOf

LEMMA PidsKept ==
  ASSUME PidsUnique, StateFound, PidsCalm
  PROVE  PidsUnique' /\ StateFound'
  BY DEF PidsUnique, StateFound, PidsCalm

LEMMA LowestIs ==
  ASSUME NEW S \in SUBSET Slots, S # {}
  PROVE  LowestSlot(S) \in S
<1>1. S \in SUBSET Nat
  BY DEF Slots
<1>2. PICK n \in S : \A m \in S : ~(<<m, n>> \in OpToRel(<, Nat))
  BY <1>1, NatLessThanWellFounded, WFMin
<1>3. \A m \in S : ~(m < n)
  BY <1>1, <1>2 DEF OpToRel
<1>4. \A m \in S : n <= m
  BY <1>1, <1>3
<1> QED
  BY <1>4 DEF LowestSlot

(* Who is on a CPU, and what is known of him by his place. *)
LEMMA OnIs ==
  ASSUME TableInv, NEW c \in CPUs, ctx[c] # 0
  PROVE  /\ ctx[c] \in Slots
         /\ ppc[ctx[c]] # "sched" => state[ctx[c]] = "RUNNING"
         /\ ppc[ctx[c]] = "sched" =>
              holder = c /\ state[ctx[c]] \in {"RUNNABLE", "SLEEPING", "ZOMBIE"}
<1>1. ctx[c] \in Slots
  BY TableAssumption DEF TableInv, TableTypeOK, Slots
<1> QED
  BY <1>1 DEF TableInv, OnStacks

(* The lock is free, or with a CPU that is not in sched(): nobody is. *)
LEMMA NobodyLeaves ==
  ASSUME TableInv, NEW c \in CPUs,
         Unlocked \/ (holder = c /\ (ctx[c] = 0 \/ ppc[ctx[c]] # "sched"))
  PROVE  \A s \in Slots : ppc[s] # "sched"
<1> SUFFICES ASSUME NEW s \in Slots, ppc[s] = "sched" PROVE FALSE
  OBVIOUS
<1>1. PICK d \in CPUs : ctx[d] = s
  BY DEF TableInv, OnStacks
<1>2. s # 0
  BY DEF Slots
<1> QED
  BY <1>1, <1>2, TableAssumption DEF TableInv, OnStacks, Unlocked

(* Where the numbers of entries point. *)
LEMMA KidsIn ==
  ASSUME TableInv
  PROVE  0 \notin Slots /\ \A s \in Slots : kid[s] # 0 => kid[s] \in Slots
  BY TableAssumption DEF TableInv, TableTypeOK, Slots
(* The fields of the table are functions. *)
LEMMA Fields ==
  ASSUME TableInv
  PROVE  /\ state = [s \in Slots |-> state[s]] /\ parent = [s \in Slots |-> parent[s]]
         /\ chan = [s \in Slots |-> chan[s]] /\ kstack = [s \in Slots |-> kstack[s]]
         /\ ppc = [s \in Slots |-> ppc[s]] /\ kid = [s \in Slots |-> kid[s]]
         /\ pid = [s \in Slots |-> pid[s]]
  BY DEF TableInv, TableTypeOK
LEMMA ParentsIn ==
  ASSUME TableInv
  PROVE  /\ 0 \notin Slots /\ initproc \in Slots
         /\ \A s \in Slots : parent[s] # 0 => parent[s] \in Slots
  BY TableAssumption DEF TableInv, TableTypeOK, Slots, initproc

(* A child in the making is an entry of its own. *)
LEMMA KidIs ==
  ASSUME TableInv, NEW s \in Slots, ppc[s] \in Forking
  PROVE  /\ kid[s] \in Slots /\ kid[s] # s /\ state[s] = "RUNNING" /\ state[kid[s]] = "EMBRYO"
         /\ kid[kid[s]] = 0 /\ ppc[kid[s]] \notin Forking /\ ppc[kid[s]] # "sched"
         /\ ppc[s] # "kstack" => kstack[kid[s]]
         /\ ppc[s] = "runnable" => parent[kid[s]] # 0
<1>1. kid[s] # 0
  BY DEF TableInv, Forks
<1>2. kid[s] \in Slots
  BY <1>1, TableAssumption DEF TableInv, TableTypeOK, Slots
<1>3. ppc[kid[s]] = "sched" => state[kid[s]] # "EMBRYO"
  BY <1>2, KidsIn DEF TableInv, OnStacks
<1> QED
  BY <1>1, <1>2, <1>3 DEF TableInv, Forks

(* What the variables are set to. *)
LEMMA Values ==
  /\ Places = {"kstack", "copyuvm", "runnable", "user", "sched", "waiting", "resumed", "forkret"}
  /\ {"UNUSED", "EMBRYO", "RUNNABLE", "RUNNING", "SLEEPING", "ZOMBIE"} = States
  /\ Slots \subseteq 0 .. NPROC /\ Slots \subseteq 0 .. NPROC + 1
  /\ 0 \in 0 .. NPROC /\ NoChan \in 0 .. NPROC + 1 /\ Event \in 0 .. NPROC + 1
  /\ \A n \in Nat : n + 1 \in Nat
  /\ 0 \in Nat
  BY TableAssumption DEF Places, Forking, States, Slots, NoChan, Event

(* Who does not run makes no child, and an entry that is not of a process  *)
(* is not leaving a CPU.                                                   *)
LEMMA IdleIs ==
  ASSUME TableInv, NEW s \in Slots
  PROVE  /\ state[s] # "RUNNING" => kid[s] = 0 /\ ppc[s] \notin Forking
         /\ ppc[s] = "sched" => state[s] \in {"RUNNABLE", "SLEEPING", "ZOMBIE"}
  BY KidsIn DEF TableInv, OnStacks, Forks

(* A CPU on its way from a process to the scheduler. *)
LEMMA StacksLeft ==
  ASSUME OnStacks, NEW c \in CPUs, NEW p \in Slots, ctx[c] = p, ctx' = ctx, holder' = c,
         \A s \in Slots : ppc[s] # "sched", ppc'[p] = "sched",
         state'[p] \in {"RUNNABLE", "SLEEPING", "ZOMBIE"},
         \A s \in Slots : s # p =>
           ppc'[s] # "sched" /\ (state'[s] = "RUNNING" <=> state[s] = "RUNNING"),
         TableTypeOK
  PROVE  OnStacks'
<1>1. \A a, b \in CPUs : ctx'[a] # 0 /\ ctx'[a] = ctx'[b] => a = b
  BY DEF OnStacks
<1>2. ASSUME NEW d \in CPUs, ctx'[d] # 0
      PROVE  IF ppc'[ctx'[d]] = "sched"
             THEN holder' = d /\ state'[ctx'[d]] \in {"RUNNABLE", "SLEEPING", "ZOMBIE"}
             ELSE state'[ctx'[d]] = "RUNNING"
  <2>1. PICK s \in Slots : ctx[d] = s
    <3>1. ctx[d] \in 0 .. NPROC
      BY DEF TableTypeOK
    <3>2. ctx[d] \in Slots
      BY <1>2, <3>1, TableAssumption DEF Slots
    <3> QED
      BY <3>2
  <2>2. CASE s = p
    <3>1. p # 0
      BY DEF Slots
    <3>2. d = c
      BY <2>1, <2>2, <3>1 DEF OnStacks
    <3> QED
      BY <3>2
  <2>3. CASE s # p
    BY <1>2, <2>1, <2>3 DEF OnStacks
  <2> QED
    BY <2>2, <2>3
<1>3. \A s \in Slots : state'[s] = "RUNNING" \/ ppc'[s] = "sched" => \E d \in CPUs : ctx'[d] = s
  BY DEF OnStacks
<1> QED
  BY <1>1, <1>2, <1>3 DEF OnStacks

-----------------------------------------------------------------------------
(* One lemma per action: where it leads, what it leaves alone, and each    *)
(* part of the invariant that it disturbs.                                 *)
LEMMA KstackKeeps ==
  ASSUME TableInv, NEW c \in CPUs, Kstack(c)
  PROVE  TableInv'
<1>1. PICK p \in Slots : ctx[c] = p /\ ppc[p] = "kstack" /\ state[p] = "RUNNING"
  BY OnIs DEF Kstack, On
<1>2. PICK n \in Slots : /\ n = kid[p] /\ n # p /\ state[n] = "EMBRYO" /\ kid[n] = 0
                         /\ ppc[n] \notin Forking /\ ppc[n] # "sched"
  BY <1>1, KidIs DEF Forking
<1>3. /\ kstack' = [kstack EXCEPT ![n] = TRUE] /\ ppc' = [ppc EXCEPT ![p] = "copyuvm"]
  BY <1>1, <1>2 DEF Kstack, Step
<1>4. UNCHANGED <<state, pid, parent, killed, chan, nextpid, holder, ctx, scan, kid, look>>
  BY <1>1, <1>2 DEF Kstack, Step
<1>5. \A s \in Slots : /\ kstack'[s] <=> s = n \/ kstack[s]
                       /\ ppc'[s] = IF s = p THEN "copyuvm" ELSE ppc[s]
  <2>1. \A s \in Slots : kstack'[s] <=> s = n \/ kstack[s]
    BY <1>3, Fields
  <2>2. \A s \in Slots : ppc'[s] = IF s = p THEN "copyuvm" ELSE ppc[s]
    BY <1>3, Fields
  <2> QED
    BY <2>1, <2>2
<1>6. TableTypeOK'
  BY <1>1, <1>2, <1>3, <1>4, Values DEF TableInv, TableTypeOK
<1>7. StacksCalm
  BY <1>1, <1>2, <1>4, <1>5 DEF StacksCalm
<1>8. MadeCalm
  BY <1>1, <1>2, <1>4, <1>5 DEF TableInv, MadeCalm, Alive, StacksMade
<1>9. FamiliesCalm
  BY <1>1, <1>2, <1>4, <1>5 DEF FamiliesCalm, Alive
<1>10. WaitingCalm
  BY <1>1, <1>2, <1>4, <1>5 DEF WaitingCalm
<1>11. PidsCalm
  BY <1>1, <1>2, <1>4, <1>5 DEF PidsCalm
<1>12. Forks'
  <2>1. \A s \in Slots : kid'[s] # 0 <=> ppc'[s] \in Forking
    BY <1>1, <1>2, <1>4, <1>5, KidsIn DEF TableInv, Forks, Forking
  <2>2. ASSUME NEW s \in Slots, kid'[s] # 0
        PROVE  /\ state'[s] = "RUNNING" /\ state'[kid'[s]] = "EMBRYO"
               /\ ppc'[s] # "kstack" => kstack'[kid'[s]]
               /\ ppc'[s] = "runnable" => parent'[kid'[s]] # 0
    BY <1>1, <1>2, <1>4, <1>5, KidsIn, <2>2 DEF TableInv, Forks, Forking
  <2>3. \A s, t \in Slots : kid'[s] # 0 /\ kid'[s] = kid'[t] => s = t
    BY <1>1, <1>2, <1>4, <1>5, KidsIn DEF TableInv, Forks, Forking
  <2> QED
    BY <2>1, <2>2, <2>3 DEF Forks
<1> QED
  BY <1>6, <1>7, <1>8, <1>9, <1>10, <1>11, <1>12, StacksKept, MadeKept, FamiliesKept,
     WaitingKept, PidsKept DEF TableInv

LEMMA ForkFailsKeeps ==
  ASSUME TableInv, NEW c \in CPUs, ForkFails(c)
  PROVE  TableInv'
<1>1. PICK p \in Slots : ctx[c] = p /\ ppc[p] \in {"kstack", "copyuvm"} /\ state[p] = "RUNNING"
  BY OnIs DEF ForkFails, On
<1>2. PICK n \in Slots : /\ n = kid[p] /\ n # p /\ state[n] = "EMBRYO" /\ kid[n] = 0
                         /\ ppc[n] \notin Forking /\ ppc[n] # "sched"
  BY <1>1, KidIs DEF Forking
<1>3. /\ kstack' = [kstack EXCEPT ![n] = FALSE] /\ state' = [state EXCEPT ![n] = "UNUSED"]
      /\ kid' = [kid EXCEPT ![p] = 0] /\ ppc' = [ppc EXCEPT ![p] = "user"]
  BY <1>1, <1>2 DEF ForkFails, Step
<1>4. UNCHANGED <<pid, parent, killed, chan, nextpid, holder, ctx, scan, look>>
  BY <1>1, <1>2 DEF ForkFails, Step
<1>5. \A s \in Slots : /\ kstack'[s] <=> s # n /\ kstack[s]
                       /\ state'[s] = IF s = n THEN "UNUSED" ELSE state[s]
                       /\ kid'[s] = IF s = p THEN 0 ELSE kid[s]
                       /\ ppc'[s] = IF s = p THEN "user" ELSE ppc[s]
  <2>1. \A s \in Slots : kstack'[s] <=> s # n /\ kstack[s]
    BY <1>3, Fields
  <2>2. \A s \in Slots : state'[s] = IF s = n THEN "UNUSED" ELSE state[s]
    BY <1>3, Fields
  <2>3. \A s \in Slots : kid'[s] = IF s = p THEN 0 ELSE kid[s]
    BY <1>3, Fields
  <2>4. \A s \in Slots : ppc'[s] = IF s = p THEN "user" ELSE ppc[s]
    BY <1>3, Fields
  <2> QED
    BY <2>1, <2>2, <2>3, <2>4
<1>6. TableTypeOK'
  BY <1>1, <1>2, <1>3, <1>4, Values DEF TableInv, TableTypeOK
<1>7. StacksCalm
  BY <1>1, <1>2, <1>4, <1>5 DEF StacksCalm
<1>8. MadeCalm
  BY <1>1, <1>2, <1>4, <1>5 DEF TableInv, MadeCalm, Alive, StacksMade
<1>9. FamiliesCalm
  BY <1>1, <1>2, <1>4, <1>5 DEF FamiliesCalm, Alive
<1>10. WaitingCalm
  BY <1>1, <1>2, <1>4, <1>5 DEF WaitingCalm
<1>11. PidsCalm
  BY <1>1, <1>2, <1>4, <1>5 DEF PidsCalm
<1>12. Forks'
  <2>1. \A s \in Slots : kid'[s] # 0 <=> ppc'[s] \in Forking
    BY <1>1, <1>2, <1>4, <1>5, KidsIn DEF TableInv, Forks, Forking
  <2>2. ASSUME NEW s \in Slots, kid'[s] # 0
        PROVE  /\ state'[s] = "RUNNING" /\ state'[kid'[s]] = "EMBRYO"
               /\ ppc'[s] # "kstack" => kstack'[kid'[s]]
               /\ ppc'[s] = "runnable" => parent'[kid'[s]] # 0
    BY <1>1, <1>2, <1>4, <1>5, KidsIn, <2>2 DEF TableInv, Forks, Forking
  <2>3. \A s, t \in Slots : kid'[s] # 0 /\ kid'[s] = kid'[t] => s = t
    BY <1>1, <1>2, <1>4, <1>5, KidsIn DEF TableInv, Forks, Forking
  <2> QED
    BY <2>1, <2>2, <2>3 DEF Forks
<1> QED
  BY <1>6, <1>7, <1>8, <1>9, <1>10, <1>11, <1>12, StacksKept, MadeKept, FamiliesKept,
     WaitingKept, PidsKept DEF TableInv

LEMMA CopyuvmKeeps ==
  ASSUME TableInv, NEW c \in CPUs, Copyuvm(c)
  PROVE  TableInv'
<1>1. PICK p \in Slots : ctx[c] = p /\ ppc[p] = "copyuvm" /\ state[p] = "RUNNING"
  BY OnIs DEF Copyuvm, On
<1>2. PICK n \in Slots : /\ n = kid[p] /\ n # p /\ state[n] = "EMBRYO" /\ kid[n] = 0
                         /\ ppc[n] \notin Forking /\ ppc[n] # "sched"
  BY <1>1, KidIs DEF Forking
<1>3. kstack[n]
  BY <1>1, <1>2, KidIs DEF Forking
<1>4. /\ parent' = [parent EXCEPT ![n] = p]
      /\ ppc' = [ppc EXCEPT ![p] = "runnable", ![n] = "forkret"]
  BY <1>1, <1>2 DEF Copyuvm
<1>5. UNCHANGED <<state, pid, killed, chan, kstack, nextpid, holder, ctx, scan, kid, look>>
  BY <1>1, <1>2 DEF Copyuvm
<1>6. \A s \in Slots : /\ parent'[s] = IF s = n THEN p ELSE parent[s]
                       /\ ppc'[s] = (IF s = p THEN "runnable" ELSE IF s = n THEN "forkret" ELSE ppc[s])
  <2>1. \A s \in Slots : parent'[s] = IF s = n THEN p ELSE parent[s]
    BY <1>4, Fields
  <2>2. \A s \in Slots : ppc'[s] = (IF s = p THEN "runnable" ELSE IF s = n THEN "forkret" ELSE ppc[s])
    BY <1>4, Fields
  <2> QED
    BY <2>1, <2>2
<1>7. TableTypeOK'
  BY <1>1, <1>2, <1>3, <1>4, <1>5, Values DEF TableInv, TableTypeOK
<1>8. StacksCalm
  BY <1>1, <1>2, <1>3, <1>5, <1>6 DEF StacksCalm
<1>9. MadeCalm
  BY <1>1, <1>2, <1>3, <1>5, <1>6 DEF TableInv, MadeCalm, Alive, StacksMade
<1>10. WaitingCalm
  BY <1>1, <1>2, <1>3, <1>5, <1>6 DEF WaitingCalm
<1>11. PidsCalm
  BY <1>1, <1>2, <1>3, <1>5, <1>6 DEF PidsCalm
<1>12. Forks'
  <2>1. \A s \in Slots : kid'[s] # 0 <=> ppc'[s] \in Forking
    BY <1>1, <1>2, <1>3, <1>5, <1>6, KidsIn DEF TableInv, Forks, Forking
  <2>2. ASSUME NEW s \in Slots, kid'[s] # 0
        PROVE  /\ state'[s] = "RUNNING" /\ state'[kid'[s]] = "EMBRYO"
               /\ ppc'[s] # "kstack" => kstack'[kid'[s]]
               /\ ppc'[s] = "runnable" => parent'[kid'[s]] # 0
    BY <1>1, <1>2, <1>3, <1>5, <1>6, KidsIn, <2>2 DEF TableInv, Forks, Forking
  <2>3. \A s, t \in Slots : kid'[s] # 0 /\ kid'[s] = kid'[t] => s = t
    BY <1>1, <1>2, <1>3, <1>5, <1>6, KidsIn DEF TableInv, Forks, Forking
  <2> QED
    BY <2>1, <2>2, <2>3 DEF Forks
<1>13. Families'
  BY <1>1, <1>2, <1>3, <1>5, <1>6, ParentsIn DEF TableInv, Families, Alive
<1> QED
  BY <1>7, <1>8, <1>9, <1>10, <1>11, <1>12, <1>13, StacksKept, MadeKept, WaitingKept,
     PidsKept DEF TableInv

LEMMA ForkEndsKeeps ==
  ASSUME TableInv, NEW c \in CPUs, ForkEnds(c)
  PROVE  TableInv'
<1>1. PICK p \in Slots : ctx[c] = p /\ ppc[p] = "runnable" /\ state[p] = "RUNNING"
  BY OnIs DEF ForkEnds, On
<1>2. PICK n \in Slots : /\ n = kid[p] /\ n # p /\ state[n] = "EMBRYO" /\ kid[n] = 0
                         /\ ppc[n] \notin Forking /\ ppc[n] # "sched"
  BY <1>1, KidIs DEF Forking
<1>3. kstack[n] /\ parent[n] # 0
  BY <1>1, <1>2, KidIs DEF Forking
<1>4. /\ state' = [state EXCEPT ![n] = "RUNNABLE"] /\ kid' = [kid EXCEPT ![p] = 0]
      /\ ppc' = [ppc EXCEPT ![p] = "user"]
  BY <1>1, <1>2 DEF ForkEnds, Step, table
<1>5. UNCHANGED <<pid, parent, killed, chan, kstack, nextpid, holder, ctx, scan, look>>
  BY <1>1, <1>2 DEF ForkEnds, Step, table
<1>6. \A s \in Slots : /\ state'[s] = IF s = n THEN "RUNNABLE" ELSE state[s]
                       /\ kid'[s] = IF s = p THEN 0 ELSE kid[s]
                       /\ ppc'[s] = IF s = p THEN "user" ELSE ppc[s]
  <2>1. \A s \in Slots : state'[s] = IF s = n THEN "RUNNABLE" ELSE state[s]
    BY <1>4, Fields
  <2>2. \A s \in Slots : kid'[s] = IF s = p THEN 0 ELSE kid[s]
    BY <1>4, Fields
  <2>3. \A s \in Slots : ppc'[s] = IF s = p THEN "user" ELSE ppc[s]
    BY <1>4, Fields
  <2> QED
    BY <2>1, <2>2, <2>3
<1>7. TableTypeOK'
  BY <1>1, <1>2, <1>3, <1>4, <1>5, Values DEF TableInv, TableTypeOK
<1>8. StacksCalm
  BY <1>1, <1>2, <1>3, <1>5, <1>6 DEF StacksCalm
<1>9. MadeCalm
  BY <1>1, <1>2, <1>3, <1>5, <1>6 DEF TableInv, MadeCalm, Alive, StacksMade
<1>10. WaitingCalm
  BY <1>1, <1>2, <1>3, <1>5, <1>6 DEF WaitingCalm
<1>11. PidsCalm
  BY <1>1, <1>2, <1>3, <1>5, <1>6 DEF PidsCalm
<1>12. Forks'
  <2>1. \A s \in Slots : kid'[s] # 0 <=> ppc'[s] \in Forking
    BY <1>1, <1>2, <1>3, <1>5, <1>6, KidsIn DEF TableInv, Forks, Forking
  <2>2. ASSUME NEW s \in Slots, kid'[s] # 0
        PROVE  /\ state'[s] = "RUNNING" /\ state'[kid'[s]] = "EMBRYO"
               /\ ppc'[s] # "kstack" => kstack'[kid'[s]]
               /\ ppc'[s] = "runnable" => parent'[kid'[s]] # 0
    BY <1>1, <1>2, <1>3, <1>5, <1>6, KidsIn, <2>2 DEF TableInv, Forks, Forking
  <2>3. \A s, t \in Slots : kid'[s] # 0 /\ kid'[s] = kid'[t] => s = t
    BY <1>1, <1>2, <1>3, <1>5, <1>6, KidsIn DEF TableInv, Forks, Forking
  <2> QED
    BY <2>1, <2>2, <2>3 DEF Forks
<1>13. Families'
  BY <1>1, <1>2, <1>3, <1>5, <1>6, ParentsIn DEF TableInv, Families, Alive
<1> QED
  BY <1>7, <1>8, <1>9, <1>10, <1>11, <1>12, <1>13, StacksKept, MadeKept, WaitingKept,
     PidsKept DEF TableInv

LEMMA AllocprocKeeps ==
  ASSUME TableInv, NEW c \in CPUs, Allocproc(c)
  PROVE  TableInv'
<1>1. PICK p \in Slots : ctx[c] = p /\ ppc[p] = "user" /\ state[p] = "RUNNING" /\ kid[p] = 0
  BY OnIs DEF Allocproc, InUser, On, TableInv, Forks, Forking
<1>2. PICK n \in Slots : n = LowestSlot(UnusedSlots) /\ state[n] = "UNUSED"
  BY LowestIs DEF Allocproc, UnusedSlots
<1>3. n # p /\ kid[n] = 0 /\ ppc[n] \notin Forking /\ ppc[n] # "sched" /\ kid[p] = 0
  BY <1>1, <1>2, IdleIs DEF TableInv, Forks, Forking
<1>4. /\ state' = [state EXCEPT ![n] = "EMBRYO"] /\ pid' = [pid EXCEPT ![n] = nextpid]
      /\ kid' = [kid EXCEPT ![p] = n] /\ nextpid' = nextpid + 1
      /\ ppc' = [ppc EXCEPT ![p] = "kstack"]
  BY <1>1, <1>2 DEF Allocproc, Step
<1>5. UNCHANGED <<parent, killed, chan, kstack, holder, ctx, scan, look>>
  BY <1>1, <1>2 DEF Allocproc, Step
<1>6. \A s \in Slots : /\ state'[s] = IF s = n THEN "EMBRYO" ELSE state[s]
                       /\ pid'[s] = IF s = n THEN nextpid ELSE pid[s]
                       /\ kid'[s] = IF s = p THEN n ELSE kid[s]
                       /\ ppc'[s] = IF s = p THEN "kstack" ELSE ppc[s]
  <2>1. \A s \in Slots : state'[s] = IF s = n THEN "EMBRYO" ELSE state[s]
    BY <1>4, Fields
  <2>2. \A s \in Slots : pid'[s] = IF s = n THEN nextpid ELSE pid[s]
    BY <1>4, Fields
  <2>3. \A s \in Slots : kid'[s] = IF s = p THEN n ELSE kid[s]
    BY <1>4, Fields
  <2>4. \A s \in Slots : ppc'[s] = IF s = p THEN "kstack" ELSE ppc[s]
    BY <1>4, Fields
  <2> QED
    BY <2>1, <2>2, <2>3, <2>4
<1>7. TableTypeOK'
  BY <1>1, <1>2, <1>3, <1>4, <1>5, Values DEF TableInv, TableTypeOK
<1>8. StacksCalm
  BY <1>1, <1>2, <1>3, <1>5, <1>6 DEF StacksCalm
<1>9. MadeCalm
  BY <1>1, <1>2, <1>3, <1>5, <1>6 DEF TableInv, MadeCalm, Alive, StacksMade
<1>10. FamiliesCalm
  BY <1>1, <1>2, <1>3, <1>5, <1>6 DEF FamiliesCalm, Alive
<1>11. WaitingCalm
  BY <1>1, <1>2, <1>3, <1>5, <1>6 DEF WaitingCalm
<1>12. Forks'
  <2>1. \A s \in Slots : kid'[s] # 0 <=> ppc'[s] \in Forking
    BY <1>1, <1>2, <1>3, <1>5, <1>6, KidsIn DEF TableInv, Forks, Forking
  <2>2. ASSUME NEW s \in Slots, kid'[s] # 0
        PROVE  /\ state'[s] = "RUNNING" /\ state'[kid'[s]] = "EMBRYO"
               /\ ppc'[s] # "kstack" => kstack'[kid'[s]]
               /\ ppc'[s] = "runnable" => parent'[kid'[s]] # 0
    BY <1>1, <1>2, <1>3, <1>5, <1>6, KidsIn, <2>2 DEF TableInv, Forks, Forking
  <2>3. \A s, t \in Slots : kid'[s] # 0 /\ kid'[s] = kid'[t] => s = t
    BY <1>1, <1>2, <1>3, <1>5, <1>6, KidsIn DEF TableInv, Forks, Forking
  <2> QED
    BY <2>1, <2>2, <2>3 DEF Forks
<1>13. pid \in [Slots -> Nat] /\ nextpid \in Nat /\ nextpid' = nextpid + 1
  BY <1>4 DEF TableInv, TableTypeOK
<1>14. PidsUnique'
  <2>1. PidsUnique
    BY DEF TableInv
  <2>2. \A s \in Slots : pid'[s] < nextpid'
    BY <1>6, <1>13, <2>1 DEF PidsUnique
  <2>3. \A s, t \in Slots : pid'[s] # 0 /\ pid'[s] = pid'[t] => s = t
    BY <1>6, <1>13, <2>1 DEF PidsUnique
  <2>4. look' # NoLook => look'.pid # 0 /\ look'.pid < nextpid'
    <3>1. look # NoLook => look.pid \in Nat
      BY DEF TableInv, TableTypeOK, Looks
    <3> QED
      BY <1>5, <1>13, <2>1, <3>1 DEF PidsUnique
  <2> QED
    BY <2>2, <2>3, <2>4 DEF PidsUnique
<1>15. StateFound'
  <2>1. PidsUnique /\ StateFound
    BY DEF TableInv
  <2>2. look # NoLook => look.pid # nextpid
    BY <1>13, <2>1 DEF PidsUnique
  <2> QED
    BY <1>5, <1>6, <2>1, <2>2 DEF StateFound
<1> QED
  BY <1>7, <1>8, <1>9, <1>10, <1>11, <1>12, <1>13, <1>14, <1>15, StacksKept, MadeKept,
     FamiliesKept, WaitingKept DEF TableInv

LEMMA SchedKeeps ==
  ASSUME TableInv, NEW c \in CPUs, Sched(c)
  PROVE  TableInv'
<1>1. PICK p \in Slots : ctx[c] = p /\ ppc[p] = "sched" /\ holder = c
  BY OnIs DEF Sched, On, HoldsTable
<1>2. PICK v \in {"user", "waiting", "resumed"} : ppc' = [ppc EXCEPT ![p] = v]
  BY <1>1 DEF Sched, Step
<1>3. ctx' = [ctx EXCEPT ![c] = 0]
  BY <1>1 DEF Sched, table
<1>4. UNCHANGED <<state, pid, parent, killed, chan, kstack, nextpid, holder, scan, kid, look>>
  BY <1>1 DEF Sched, table
<1>5. /\ \A s \in Slots : ppc'[s] = IF s = p THEN v ELSE ppc[s]
      /\ \A d \in CPUs : ctx'[d] = IF d = c THEN 0 ELSE ctx[d]
  BY <1>2, <1>3 DEF TableInv, TableTypeOK
<1>6. TableTypeOK'
  BY <1>1, <1>2, <1>3, <1>4, Values DEF TableInv, TableTypeOK
<1>7. ForksCalm
  BY <1>1, <1>2, <1>4, <1>5 DEF ForksCalm, Forking
<1>8. MadeCalm
  BY <1>1, <1>2, <1>4, <1>5 DEF TableInv, MadeCalm, Alive, StacksMade
<1>9. FamiliesCalm
  BY <1>1, <1>2, <1>4, <1>5 DEF FamiliesCalm, Alive
<1>10. WaitingCalm
  BY <1>1, <1>2, <1>4, <1>5 DEF WaitingCalm
<1>11. PidsCalm
  BY <1>1, <1>2, <1>4, <1>5 DEF PidsCalm
<1>12. OnStacks'
  BY <1>1, <1>2, <1>4, <1>5, OnIs DEF TableInv, OnStacks
<1> QED
  BY <1>6, <1>7, <1>8, <1>9, <1>10, <1>11, <1>12, ForksKept, MadeKept, FamiliesKept,
     WaitingKept, PidsKept DEF TableInv

LEMMA SchedulerRunsKeeps ==
  ASSUME TableInv, NEW c \in CPUs, SchedulerRuns(c)
  PROVE  TableInv'
<1>1. ctx[c] = 0 /\ holder = c
  BY DEF SchedulerRuns, HoldsTable
<1>2. \A s \in Slots : ppc[s] # "sched"
  BY <1>1, NobodyLeaves
<1>3. PICK n \in Slots : n = LowestSlot(Later(c)) /\ state[n] = "RUNNABLE"
  BY LowestIs DEF SchedulerRuns, Later
<1>4. /\ state' = [state EXCEPT ![n] = "RUNNING"] /\ ctx' = [ctx EXCEPT ![c] = n]
      /\ scan' = [scan EXCEPT ![c] = n]
  BY <1>3 DEF SchedulerRuns, table
<1>5. UNCHANGED <<pid, parent, killed, chan, kstack, nextpid, holder, ppc, kid, look>>
  BY <1>3 DEF SchedulerRuns, table
<1>6. /\ \A s \in Slots : state'[s] = IF s = n THEN "RUNNING" ELSE state[s]
      /\ \A d \in CPUs : ctx'[d] = IF d = c THEN n ELSE ctx[d]
  BY <1>4 DEF TableInv, TableTypeOK
<1>7. 0 \notin Slots /\ kid[n] = 0 /\ kstack[n]
  BY <1>3, IdleIs, KidsIn DEF TableInv, StacksMade, Alive
<1>8. TableTypeOK'
  BY <1>1, <1>2, <1>3, <1>4, <1>5, <1>6, Values DEF TableInv, TableTypeOK
<1>9. ForksCalm
  BY <1>1, <1>2, <1>3, <1>5, <1>6, <1>7 DEF ForksCalm, Forking
<1>10. MadeCalm
  BY <1>1, <1>2, <1>3, <1>5, <1>6, <1>7 DEF TableInv, MadeCalm, Alive, StacksMade
<1>11. FamiliesCalm
  BY <1>1, <1>2, <1>3, <1>5, <1>6, <1>7 DEF FamiliesCalm, Alive
<1>12. WaitingCalm
  BY <1>1, <1>2, <1>3, <1>5, <1>6, <1>7 DEF WaitingCalm
<1>13. PidsCalm
  BY <1>1, <1>2, <1>3, <1>5, <1>6, <1>7 DEF PidsCalm
<1>14. OnStacks'
  BY <1>1, <1>2, <1>3, <1>5, <1>6, <1>7, OnIs DEF TableInv, OnStacks
<1> QED
  BY <1>8, <1>9, <1>10, <1>11, <1>12, <1>13, <1>14, ForksKept, MadeKept, FamiliesKept,
     WaitingKept, PidsKept DEF TableInv

LEMMA ResumeKeeps ==
  ASSUME TableInv, NEW c \in CPUs, Resume(c)
  PROVE  TableInv'
<1>1. PICK p \in Slots : /\ ctx[c] = p /\ ppc[p] \in {"forkret", "resumed"} /\ state[p] = "RUNNING"
                         /\ holder = c
  BY OnIs DEF Resume, On, HoldsTable
<1>2. \A s \in Slots : ppc[s] # "sched"
  BY <1>1, NobodyLeaves DEF Resume, Unlocked, HoldsTable
<1>3. /\ holder' = NoCPU /\ chan' = [chan EXCEPT ![p] = NoChan] /\ ppc' = [ppc EXCEPT ![p] = "user"]
  BY <1>1 DEF Resume, Step
<1>4. UNCHANGED <<state, pid, parent, killed, kstack, nextpid, ctx, scan, kid, look>>
  BY <1>1 DEF Resume, Step
<1>5. \A s \in Slots : /\ chan'[s] = IF s = p THEN NoChan ELSE chan[s]
                       /\ ppc'[s] = IF s = p THEN "user" ELSE ppc[s]
  <2>1. \A s \in Slots : chan'[s] = IF s = p THEN NoChan ELSE chan[s]
    BY <1>3, Fields
  <2>2. \A s \in Slots : ppc'[s] = IF s = p THEN "user" ELSE ppc[s]
    BY <1>3, Fields
  <2> QED
    BY <2>1, <2>2
<1>6. TableTypeOK'
  BY <1>1, <1>2, <1>3, <1>4, Values DEF TableInv, TableTypeOK
<1>7. StacksCalm
  BY <1>1, <1>2, <1>4, <1>5 DEF StacksCalm
<1>8. ForksCalm
  BY <1>1, <1>2, <1>4, <1>5 DEF ForksCalm, Forking
<1>9. MadeCalm
  BY <1>1, <1>2, <1>4, <1>5 DEF TableInv, MadeCalm, Alive, StacksMade
<1>10. FamiliesCalm
  BY <1>1, <1>2, <1>4, <1>5 DEF FamiliesCalm, Alive
<1>11. WaitingCalm
  BY <1>1, <1>2, <1>4, <1>5 DEF WaitingCalm
<1>12. PidsCalm
  BY <1>1, <1>2, <1>4, <1>5 DEF PidsCalm
<1> QED
  BY <1>6, <1>7, <1>8, <1>9, <1>10, <1>11, <1>12, StacksKept, ForksKept, MadeKept,
     FamiliesKept, WaitingKept, PidsKept DEF TableInv

LEMMA YieldKeeps ==
  ASSUME TableInv, NEW c \in CPUs, Yield(c)
  PROVE  TableInv'
<1>1. PICK p \in Slots : ctx[c] = p /\ ppc[p] = "user" /\ state[p] = "RUNNING" /\ kid[p] = 0
  BY OnIs DEF Yield, InUser, On, TableInv, Forks, Forking
<1>2. \A s \in Slots : ppc[s] # "sched"
  BY <1>1, NobodyLeaves DEF Yield, Unlocked, HoldsTable
<1>3. /\ state' = [state EXCEPT ![p] = "RUNNABLE"] /\ ppc' = [ppc EXCEPT ![p] = "sched"]
  BY <1>1 DEF Yield, Step, table
<1>4. UNCHANGED <<pid, parent, killed, chan, kstack, nextpid, ctx, scan, kid, look>> /\ holder' = c
  BY <1>1 DEF Yield, Step, table
<1>5. \A s \in Slots : /\ state'[s] = IF s = p THEN "RUNNABLE" ELSE state[s]
                       /\ ppc'[s] = IF s = p THEN "sched" ELSE ppc[s]
  <2>1. \A s \in Slots : state'[s] = IF s = p THEN "RUNNABLE" ELSE state[s]
    BY <1>3, Fields
  <2>2. \A s \in Slots : ppc'[s] = IF s = p THEN "sched" ELSE ppc[s]
    BY <1>3, Fields
  <2> QED
    BY <2>1, <2>2
<1>6. TableTypeOK'
  BY <1>1, <1>2, <1>3, <1>4, Values DEF TableInv, TableTypeOK
<1>7. ForksCalm
  BY <1>1, <1>2, <1>4, <1>5 DEF ForksCalm, Forking
<1>8. MadeCalm
  BY <1>1, <1>2, <1>4, <1>5 DEF TableInv, MadeCalm, Alive, StacksMade
<1>9. FamiliesCalm
  BY <1>1, <1>2, <1>4, <1>5 DEF FamiliesCalm, Alive
<1>10. WaitingCalm
  BY <1>1, <1>2, <1>4, <1>5 DEF WaitingCalm
<1>11. PidsCalm
  BY <1>1, <1>2, <1>4, <1>5 DEF PidsCalm
<1>12. OnStacks'
  <2>1. OnStacks /\ TableTypeOK
    BY DEF TableInv
  <2>2. \A s \in Slots : s # p => ppc'[s] # "sched" /\ (state'[s] = "RUNNING" <=> state[s] = "RUNNING")
    BY <1>1, <1>2, <1>4, <1>5
  <2>3. ctx' = ctx /\ holder' = c /\ ppc'[p] = "sched" /\ state'[p] \in {"RUNNABLE", "SLEEPING", "ZOMBIE"}
    BY <1>1, <1>2, <1>4, <1>5
  <2> QED
    BY <1>1, <1>2, <2>1, <2>2, <2>3, StacksLeft
<1> QED
  BY <1>6, <1>7, <1>8, <1>9, <1>10, <1>11, <1>12, ForksKept, MadeKept, FamiliesKept,
     WaitingKept, PidsKept DEF TableInv

LEMMA SleepKeeps ==
  ASSUME TableInv, NEW c \in CPUs, Sleep(c)
  PROVE  TableInv'
<1>1. PICK p \in Slots : ctx[c] = p /\ ppc[p] = "user" /\ state[p] = "RUNNING" /\ kid[p] = 0
  BY OnIs DEF Sleep, InUser, On, TableInv, Forks, Forking
<1>2. \A s \in Slots : ppc[s] # "sched"
  BY <1>1, NobodyLeaves DEF Sleep, Unlocked, HoldsTable
<1>3. Event \notin Slots
  BY TableAssumption DEF Event, Slots
<1>4. /\ state' = [state EXCEPT ![p] = "SLEEPING"] /\ chan' = [chan EXCEPT ![p] = Event] /\ ppc' = [ppc EXCEPT ![p] = "sched"]
  BY <1>1 DEF Sleep, Step, table
<1>5. UNCHANGED <<pid, parent, killed, kstack, nextpid, ctx, scan, kid, look>> /\ holder' = c
  BY <1>1 DEF Sleep, Step, table
<1>6. \A s \in Slots : /\ state'[s] = IF s = p THEN "SLEEPING" ELSE state[s]
                       /\ chan'[s] = IF s = p THEN Event ELSE chan[s]
                       /\ ppc'[s] = IF s = p THEN "sched" ELSE ppc[s]
  <2>1. \A s \in Slots : state'[s] = IF s = p THEN "SLEEPING" ELSE state[s]
    BY <1>4, Fields
  <2>2. \A s \in Slots : chan'[s] = IF s = p THEN Event ELSE chan[s]
    BY <1>4, Fields
  <2>3. \A s \in Slots : ppc'[s] = IF s = p THEN "sched" ELSE ppc[s]
    BY <1>4, Fields
  <2> QED
    BY <2>1, <2>2, <2>3
<1>7. TableTypeOK'
  BY <1>1, <1>2, <1>3, <1>4, <1>5, Values DEF TableInv, TableTypeOK
<1>8. ForksCalm
  BY <1>1, <1>2, <1>3, <1>5, <1>6 DEF ForksCalm, Forking
<1>9. MadeCalm
  BY <1>1, <1>2, <1>3, <1>5, <1>6 DEF TableInv, MadeCalm, Alive, StacksMade
<1>10. FamiliesCalm
  BY <1>1, <1>2, <1>3, <1>5, <1>6 DEF FamiliesCalm, Alive
<1>11. WaitingCalm
  BY <1>1, <1>2, <1>3, <1>5, <1>6 DEF WaitingCalm
<1>12. PidsCalm
  BY <1>1, <1>2, <1>3, <1>5, <1>6 DEF PidsCalm
<1>13. OnStacks'
  <2>1. OnStacks /\ TableTypeOK
    BY DEF TableInv
  <2>2. \A s \in Slots : s # p => ppc'[s] # "sched" /\ (state'[s] = "RUNNING" <=> state[s] = "RUNNING")
    BY <1>1, <1>2, <1>3, <1>5, <1>6
  <2>3. ctx' = ctx /\ holder' = c /\ ppc'[p] = "sched" /\ state'[p] \in {"RUNNABLE", "SLEEPING", "ZOMBIE"}
    BY <1>1, <1>2, <1>3, <1>5, <1>6
  <2> QED
    BY <1>1, <1>2, <2>1, <2>2, <2>3, StacksLeft
<1> QED
  BY <1>7, <1>8, <1>9, <1>10, <1>11, <1>12, <1>13, ForksKept, MadeKept, FamiliesKept,
     WaitingKept, PidsKept DEF TableInv

LEMMA SchedulerStartsKeeps ==
  ASSUME TableInv, NEW c \in CPUs, SchedulerStarts(c)
  PROVE  TableInv'
<1>1. ctx[c] = 0 /\ (Unlocked \/ holder = c)
  BY DEF SchedulerStarts, HoldsTable
<1>2. \A s \in Slots : ppc[s] # "sched"
  BY <1>1, NobodyLeaves
<1>3. holder' = c /\ scan' = [scan EXCEPT ![c] = 0]
  BY DEF SchedulerStarts, table
<1>4. UNCHANGED <<state, pid, parent, killed, chan, kstack, nextpid, ctx, ppc, kid, look>>
  BY DEF SchedulerStarts, table
<1>5. TableTypeOK'
  BY <1>1, <1>2, <1>3, <1>4, Values DEF TableInv, TableTypeOK
<1>6. StacksCalm
  BY <1>1, <1>2, <1>4 DEF StacksCalm
<1>7. ForksCalm
  BY <1>1, <1>2, <1>4 DEF ForksCalm, Forking
<1>8. MadeCalm
  BY <1>1, <1>2, <1>4 DEF TableInv, MadeCalm, Alive, StacksMade
<1>9. FamiliesCalm
  BY <1>1, <1>2, <1>4 DEF FamiliesCalm, Alive
<1>10. WaitingCalm
  BY <1>1, <1>2, <1>4 DEF WaitingCalm
<1>11. PidsCalm
  BY <1>1, <1>2, <1>4 DEF PidsCalm
<1> QED
  BY <1>5, <1>6, <1>7, <1>8, <1>9, <1>10, <1>11, StacksKept, ForksKept, MadeKept,
     FamiliesKept, WaitingKept, PidsKept DEF TableInv

LEMMA SchedulerEndsKeeps ==
  ASSUME TableInv, NEW c \in CPUs, SchedulerEnds(c)
  PROVE  TableInv'
<1>1. ctx[c] = 0 /\ (Unlocked \/ holder = c)
  BY DEF SchedulerEnds, HoldsTable
<1>2. \A s \in Slots : ppc[s] # "sched"
  BY <1>1, NobodyLeaves
<1>3. holder' = NoCPU /\ scan' = [scan EXCEPT ![c] = 0]
  BY DEF SchedulerEnds, table
<1>4. UNCHANGED <<state, pid, parent, killed, chan, kstack, nextpid, ctx, ppc, kid, look>>
  BY DEF SchedulerEnds, table
<1>5. TableTypeOK'
  BY <1>1, <1>2, <1>3, <1>4, Values DEF TableInv, TableTypeOK
<1>6. StacksCalm
  BY <1>1, <1>2, <1>4 DEF StacksCalm
<1>7. ForksCalm
  BY <1>1, <1>2, <1>4 DEF ForksCalm, Forking
<1>8. MadeCalm
  BY <1>1, <1>2, <1>4 DEF TableInv, MadeCalm, Alive, StacksMade
<1>9. FamiliesCalm
  BY <1>1, <1>2, <1>4 DEF FamiliesCalm, Alive
<1>10. WaitingCalm
  BY <1>1, <1>2, <1>4 DEF WaitingCalm
<1>11. PidsCalm
  BY <1>1, <1>2, <1>4 DEF PidsCalm
<1> QED
  BY <1>5, <1>6, <1>7, <1>8, <1>9, <1>10, <1>11, StacksKept, ForksKept, MadeKept,
     FamiliesKept, WaitingKept, PidsKept DEF TableInv

LEMMA WaitFailsKeeps ==
  ASSUME TableInv, NEW c \in CPUs, WaitFails(c)
  PROVE  TableInv'
<1>1. PICK p \in Slots : /\ ctx[c] = p /\ ppc[p] \in {"user", "waiting"} /\ state[p] = "RUNNING"
                         /\ kid[p] = 0 /\ (Unlocked \/ holder = c)
  BY OnIs DEF WaitFails, InWait, InUser, On, HoldsTable, TableInv, Forks, Forking
<1>2. \A s \in Slots : ppc[s] # "sched"
  BY <1>1, NobodyLeaves DEF WaitFails, Unlocked, HoldsTable
<1>3. /\ holder' = NoCPU /\ chan' = [chan EXCEPT ![p] = NoChan] /\ ppc' = [ppc EXCEPT ![p] = "user"]
  BY <1>1 DEF WaitFails, Step
<1>4. UNCHANGED <<state, pid, parent, killed, kstack, nextpid, ctx, scan, kid, look>>
  BY <1>1 DEF WaitFails, Step
<1>5. \A s \in Slots : /\ chan'[s] = IF s = p THEN NoChan ELSE chan[s]
                       /\ ppc'[s] = IF s = p THEN "user" ELSE ppc[s]
  <2>1. \A s \in Slots : chan'[s] = IF s = p THEN NoChan ELSE chan[s]
    BY <1>3, Fields
  <2>2. \A s \in Slots : ppc'[s] = IF s = p THEN "user" ELSE ppc[s]
    BY <1>3, Fields
  <2> QED
    BY <2>1, <2>2
<1>6. TableTypeOK'
  BY <1>1, <1>2, <1>3, <1>4, Values DEF TableInv, TableTypeOK
<1>7. StacksCalm
  BY <1>1, <1>2, <1>4, <1>5 DEF StacksCalm
<1>8. ForksCalm
  BY <1>1, <1>2, <1>4, <1>5 DEF ForksCalm, Forking
<1>9. MadeCalm
  BY <1>1, <1>2, <1>4, <1>5 DEF TableInv, MadeCalm, Alive, StacksMade
<1>10. FamiliesCalm
  BY <1>1, <1>2, <1>4, <1>5 DEF FamiliesCalm, Alive
<1>11. WaitingCalm
  BY <1>1, <1>2, <1>4, <1>5 DEF WaitingCalm
<1>12. PidsCalm
  BY <1>1, <1>2, <1>4, <1>5 DEF PidsCalm
<1> QED
  BY <1>6, <1>7, <1>8, <1>9, <1>10, <1>11, <1>12, StacksKept, ForksKept, MadeKept,
     FamiliesKept, WaitingKept, PidsKept DEF TableInv

LEMMA WaitSleepsKeeps ==
  ASSUME TableInv, NEW c \in CPUs, WaitSleeps(c)
  PROVE  TableInv'
<1>1. PICK p \in Slots : /\ ctx[c] = p /\ ppc[p] \in {"user", "waiting"} /\ state[p] = "RUNNING"
                         /\ kid[p] = 0 /\ (Unlocked \/ holder = c)
  BY OnIs DEF WaitSleeps, InWait, InUser, On, HoldsTable, TableInv, Forks, Forking
<1>2. \A s \in Slots : ppc[s] # "sched"
  BY <1>1, NobodyLeaves DEF WaitSleeps, Unlocked, HoldsTable
<1>3. Zombies(p) = {}
  BY <1>1 DEF WaitSleeps
<1>4. /\ state' = [state EXCEPT ![p] = "SLEEPING"] /\ chan' = [chan EXCEPT ![p] = p]
      /\ ppc' = [ppc EXCEPT ![p] = "sched"]
  BY <1>1 DEF WaitSleeps, Step
<1>5. UNCHANGED <<pid, parent, killed, kstack, nextpid, ctx, scan, kid, look>> /\ holder' = c
  BY <1>1 DEF WaitSleeps, Step
<1>6. \A s \in Slots : /\ state'[s] = IF s = p THEN "SLEEPING" ELSE state[s]
                       /\ chan'[s] = IF s = p THEN p ELSE chan[s]
                       /\ ppc'[s] = IF s = p THEN "sched" ELSE ppc[s]
  <2>1. \A s \in Slots : state'[s] = IF s = p THEN "SLEEPING" ELSE state[s]
    BY <1>4, Fields
  <2>2. \A s \in Slots : chan'[s] = IF s = p THEN p ELSE chan[s]
    BY <1>4, Fields
  <2>3. \A s \in Slots : ppc'[s] = IF s = p THEN "sched" ELSE ppc[s]
    BY <1>4, Fields
  <2> QED
    BY <2>1, <2>2, <2>3
<1>7. TableTypeOK'
  BY <1>1, <1>2, <1>3, <1>4, <1>5, Values DEF TableInv, TableTypeOK
<1>8. ForksCalm
  BY <1>1, <1>2, <1>3, <1>5, <1>6 DEF ForksCalm, Forking
<1>9. MadeCalm
  BY <1>1, <1>2, <1>3, <1>5, <1>6 DEF TableInv, MadeCalm, Alive, StacksMade
<1>10. FamiliesCalm
  BY <1>1, <1>2, <1>3, <1>5, <1>6 DEF FamiliesCalm, Alive
<1>11. PidsCalm
  BY <1>1, <1>2, <1>3, <1>5, <1>6 DEF PidsCalm
<1>12. OnStacks'
  <2>1. OnStacks /\ TableTypeOK
    BY DEF TableInv
  <2>2. \A s \in Slots : s # p => ppc'[s] # "sched" /\ (state'[s] = "RUNNING" <=> state[s] = "RUNNING")
    BY <1>1, <1>2, <1>3, <1>5, <1>6
  <2>3. ctx' = ctx /\ holder' = c /\ ppc'[p] = "sched" /\ state'[p] \in {"RUNNABLE", "SLEEPING", "ZOMBIE"}
    BY <1>1, <1>2, <1>3, <1>5, <1>6
  <2> QED
    BY <1>1, <1>2, <2>1, <2>2, <2>3, StacksLeft
<1>13. Waiting'
  BY <1>1, <1>2, <1>3, <1>5, <1>6 DEF TableInv, Waiting, Zombies, ChildrenOf
<1> QED
  BY <1>7, <1>8, <1>9, <1>10, <1>11, <1>12, <1>13, ForksKept, MadeKept, FamiliesKept,
     PidsKept DEF TableInv

LEMMA WaitReapsKeeps ==
  ASSUME TableInv, NEW c \in CPUs, WaitReaps(c)
  PROVE  TableInv'
<1>1. PICK p \in Slots : /\ ctx[c] = p /\ ppc[p] \in {"user", "waiting"} /\ state[p] = "RUNNING"
                         /\ kid[p] = 0 /\ (Unlocked \/ holder = c)
  BY OnIs DEF WaitReaps, InWait, InUser, On, HoldsTable, TableInv, Forks, Forking
<1>2. \A s \in Slots : ppc[s] # "sched"
  BY <1>1, NobodyLeaves DEF WaitReaps, Unlocked, HoldsTable
<1>3. PICK z \in Slots : z = LowestSlot(Zombies(p)) /\ state[z] = "ZOMBIE" /\ parent[z] = p
  <2>1. Zombies(p) # {} /\ Zombies(p) \in SUBSET Slots
    BY <1>1 DEF WaitReaps, Zombies, ChildrenOf
  <2>2. LowestSlot(Zombies(p)) \in Zombies(p)
    BY <2>1, LowestIs
  <2> QED
    BY <2>2 DEF Zombies, ChildrenOf
<1>4. z # p /\ kid[z] = 0 /\ ppc[z] \notin Forking /\ 0 \notin Slots
  BY <1>1, <1>3, IdleIs, KidsIn
<1>5. /\ kstack' = [kstack EXCEPT ![z] = FALSE] /\ state' = [state EXCEPT ![z] = "UNUSED"]
      /\ pid' = [pid EXCEPT ![z] = 0] /\ parent' = [parent EXCEPT ![z] = 0]
      /\ killed' = [killed EXCEPT ![z] = FALSE] /\ chan' = [chan EXCEPT ![p] = NoChan]
      /\ holder' = NoCPU /\ ppc' = [ppc EXCEPT ![p] = "user"]
  BY <1>1, <1>3 DEF WaitReaps, Step
<1>6. UNCHANGED <<nextpid, ctx, scan, kid, look>>
  BY <1>1, <1>3 DEF WaitReaps, Step
<1>7. \A s \in Slots : /\ kstack'[s] <=> s # z /\ kstack[s]
                       /\ state'[s] = IF s = z THEN "UNUSED" ELSE state[s]
                       /\ pid'[s] = IF s = z THEN 0 ELSE pid[s]
                       /\ parent'[s] = IF s = z THEN 0 ELSE parent[s]
                       /\ chan'[s] = IF s = p THEN NoChan ELSE chan[s]
                       /\ ppc'[s] = IF s = p THEN "user" ELSE ppc[s]
  <2>1. \A s \in Slots : kstack'[s] <=> s # z /\ kstack[s]
    BY <1>5, Fields
  <2>2. \A s \in Slots : state'[s] = IF s = z THEN "UNUSED" ELSE state[s]
    BY <1>5, Fields
  <2>3. \A s \in Slots : pid'[s] = IF s = z THEN 0 ELSE pid[s]
    BY <1>5, Fields
  <2>4. \A s \in Slots : parent'[s] = IF s = z THEN 0 ELSE parent[s]
    BY <1>5, Fields
  <2>5. \A s \in Slots : chan'[s] = IF s = p THEN NoChan ELSE chan[s]
    BY <1>5, Fields
  <2>6. \A s \in Slots : ppc'[s] = IF s = p THEN "user" ELSE ppc[s]
    BY <1>5, Fields
  <2> QED
    BY <2>1, <2>2, <2>3, <2>4, <2>5, <2>6
<1>8. TableTypeOK'
  BY <1>1, <1>2, <1>3, <1>4, <1>5, <1>6, Values DEF TableInv, TableTypeOK
<1>9. StacksCalm
  BY <1>1, <1>2, <1>3, <1>4, <1>6, <1>7 DEF StacksCalm
<1>10. ForksCalm
  BY <1>1, <1>2, <1>3, <1>4, <1>6, <1>7 DEF ForksCalm, Forking
<1>11. MadeCalm
  BY <1>1, <1>2, <1>3, <1>4, <1>6, <1>7 DEF TableInv, MadeCalm, Alive, StacksMade
<1>12. WaitingCalm
  BY <1>1, <1>2, <1>3, <1>4, <1>6, <1>7 DEF WaitingCalm
<1>13. Families'
  BY <1>1, <1>2, <1>3, <1>4, <1>6, <1>7, ParentsIn DEF TableInv, Families, Alive
<1>14. pid \in [Slots -> Nat] /\ nextpid \in Nat
  BY DEF TableInv, TableTypeOK
<1>15. PidsUnique'
  BY <1>1, <1>2, <1>3, <1>4, <1>6, <1>7, <1>14 DEF TableInv, PidsUnique
<1>16. StateFound'
  BY <1>1, <1>2, <1>3, <1>4, <1>6, <1>7, <1>14 DEF TableInv, PidsUnique, StateFound
<1> QED
  BY <1>8, <1>9, <1>10, <1>11, <1>12, <1>13, <1>14, <1>15, <1>16, StacksKept, ForksKept,
     MadeKept, WaitingKept DEF TableInv

LEMMA KillKeeps ==
  ASSUME TableInv, NEW c \in CPUs, NEW n \in 2 .. MaxPid, Kill(c, n)
  PROVE  TableInv'
<1>1. Unlocked
  BY DEF Kill
<1>2. \A s \in Slots : ppc[s] # "sched"
  BY <1>1, NobodyLeaves DEF Kill, Unlocked, HoldsTable
<1>3. PICK k \in Slots : k = LowestSlot({t \in Slots : pid[t] = n})
  BY LowestIs DEF Kill
<1>4. PICK v \in States : v = IF state[k] = "SLEEPING" THEN "RUNNABLE" ELSE state[k]
  BY DEF TableInv, TableTypeOK, States
<1>5. killed' = [killed EXCEPT ![k] = TRUE] /\ state' = [state EXCEPT ![k] = v]
  BY <1>3, <1>4 DEF Kill
<1>6. UNCHANGED <<pid, parent, chan, kstack, nextpid, holder, ctx, scan, ppc, kid, look>>
  BY <1>3, <1>4 DEF Kill
<1>7. \A s \in Slots : state'[s] = IF s = k THEN v ELSE state[s]
  BY <1>5, Fields
<1>8. TableTypeOK'
  BY <1>1, <1>2, <1>3, <1>4, <1>5, <1>6, Values DEF TableInv, TableTypeOK
<1>9. StacksCalm
  BY <1>1, <1>2, <1>3, <1>4, <1>6, <1>7 DEF StacksCalm
<1>10. ForksCalm
  BY <1>1, <1>2, <1>3, <1>4, <1>6, <1>7 DEF ForksCalm, Forking
<1>11. MadeCalm
  BY <1>1, <1>2, <1>3, <1>4, <1>6, <1>7 DEF TableInv, MadeCalm, Alive, StacksMade
<1>12. FamiliesCalm
  BY <1>1, <1>2, <1>3, <1>4, <1>6, <1>7 DEF FamiliesCalm, Alive
<1>13. WaitingCalm
  BY <1>1, <1>2, <1>3, <1>4, <1>6, <1>7 DEF WaitingCalm
<1>14. PidsCalm
  BY <1>1, <1>2, <1>3, <1>4, <1>6, <1>7 DEF PidsCalm
<1> QED
  BY <1>8, <1>9, <1>10, <1>11, <1>12, <1>13, <1>14, StacksKept, ForksKept, MadeKept,
     FamiliesKept, WaitingKept, PidsKept DEF TableInv

LEMMA WakeupKeeps ==
  ASSUME TableInv, Wakeup
  PROVE  TableInv'
<1>1. Unlocked
  BY DEF Wakeup
<1>2. \A s \in Slots : ppc[s] # "sched"
  BY <1>1, TableAssumption DEF TableInv, OnStacks, Unlocked, Slots
<1>3. state' = Wakeup1(state, Event)
  BY DEF Wakeup, table
<1>4. UNCHANGED <<pid, parent, killed, chan, kstack, nextpid, holder, ctx, scan, ppc, kid, look>>
  BY DEF Wakeup, table
<1>5. \A s \in Slots : state'[s] = state[s] \/ (state[s] = "SLEEPING" /\ state'[s] = "RUNNABLE")
  BY <1>3 DEF Wakeup1
<1>6. TableTypeOK'
  BY <1>1, <1>2, <1>3, <1>4, Values DEF TableInv, TableTypeOK, Wakeup1
<1>7. StacksCalm
  BY <1>1, <1>2, <1>4, <1>5 DEF StacksCalm
<1>8. ForksCalm
  BY <1>1, <1>2, <1>4, <1>5 DEF ForksCalm, Forking
<1>9. MadeCalm
  BY <1>1, <1>2, <1>4, <1>5 DEF TableInv, MadeCalm, Alive, StacksMade
<1>10. FamiliesCalm
  BY <1>1, <1>2, <1>4, <1>5 DEF FamiliesCalm, Alive
<1>11. WaitingCalm
  BY <1>1, <1>2, <1>4, <1>5 DEF WaitingCalm
<1>12. PidsCalm
  BY <1>1, <1>2, <1>4, <1>5 DEF PidsCalm
<1> QED
  BY <1>6, <1>7, <1>8, <1>9, <1>10, <1>11, <1>12, StacksKept, ForksKept, MadeKept,
     FamiliesKept, WaitingKept, PidsKept DEF TableInv

(* exit(): who is woken, and who gets another parent. *)
LEMMA ExitIs ==
  ASSUME TableInv, NEW c \in CPUs, NEW p \in Slots, ctx[c] = p, Exit(c)
  PROVE  /\ p # initproc /\ Unlocked
         /\ state'[p] = "ZOMBIE"
         /\ \A s \in Slots : s # p =>
              /\ state'[s] = state[s] \/ (state[s] = "SLEEPING" /\ state'[s] = "RUNNABLE")
              /\ chan[s] = parent[p] => state'[s] # "SLEEPING"
              /\ Zombies(p) # {} /\ chan[s] = initproc => state'[s] # "SLEEPING"
         /\ \A s \in Slots : parent'[s] = IF parent[s] = p THEN initproc ELSE parent[s]
         /\ ppc' = [ppc EXCEPT ![p] = "sched"] /\ holder' = c
         /\ state' \in [Slots -> States] /\ parent' \in [Slots -> 0 .. NPROC]
         /\ UNCHANGED <<pid, killed, chan, kstack, nextpid, ctx, scan, kid, look>>
<1>1. /\ p # initproc /\ Unlocked /\ ppc' = [ppc EXCEPT ![p] = "sched"] /\ holder' = c
      /\ UNCHANGED <<pid, killed, chan, kstack, nextpid, ctx, scan, kid, look>>
  BY DEF Exit, Step, Kept
<1>2. \A s \in Slots : parent'[s] = IF parent[s] = p THEN initproc ELSE parent[s]
  BY DEF Exit
<1>3. parent' \in [Slots -> 0 .. NPROC]
  BY Values, ParentsIn DEF Exit, TableInv, TableTypeOK
<1> DEFINE one == ParentWoken(p, state)
           two == ToInit(p, one)
<1>4. state \in [Slots -> States]
  BY DEF TableInv, TableTypeOK
<1>5. /\ one \in [Slots -> States]
      /\ \A s \in Slots : one[s] = IF state[s] = "SLEEPING" /\ chan[s] = parent[p]
                                   THEN "RUNNABLE" ELSE state[s]
  BY <1>4 DEF ParentWoken, Wakeup1, States
<1>6. /\ two \in [Slots -> States]
      /\ \A s \in Slots : two[s] = IF Zombies(p) # {} /\ one[s] = "SLEEPING" /\ chan[s] = initproc
                                   THEN "RUNNABLE" ELSE one[s]
  <2> HIDE DEF one
  <2> QED
    BY <1>5 DEF ToInit, Wakeup1, States
<1>7. state' = [two EXCEPT ![p] = "ZOMBIE"]
  BY DEF Exit
<1> HIDE DEF one, two
<1>8. state' \in [Slots -> States] /\ state'[p] = "ZOMBIE"
  BY <1>6, <1>7 DEF States
<1>9. ASSUME NEW s \in Slots, s # p
      PROVE  /\ state'[s] = state[s] \/ (state[s] = "SLEEPING" /\ state'[s] = "RUNNABLE")
             /\ chan[s] = parent[p] => state'[s] # "SLEEPING"
             /\ Zombies(p) # {} /\ chan[s] = initproc => state'[s] # "SLEEPING"
  <2>1. state'[s] = two[s]
    BY <1>6, <1>7, <1>9
  <2> QED
    BY <2>1, <1>5, <1>6
<1> QED
  BY <1>1, <1>2, <1>3, <1>8, <1>9

LEMMA ExitKeeps ==
  ASSUME TableInv, NEW c \in CPUs, Exit(c)
  PROVE  TableInv'
<1>1. PICK p \in Slots : ctx[c] = p /\ ppc[p] = "user" /\ state[p] = "RUNNING" /\ kid[p] = 0
  BY OnIs DEF Exit, InUser, On, TableInv, Forks, Forking
<1>2. \A s \in Slots : ppc[s] # "sched"
  BY <1>1, NobodyLeaves DEF Exit, Unlocked, HoldsTable
<1>3. /\ p # initproc /\ Unlocked
      /\ state'[p] = "ZOMBIE"
      /\ \A s \in Slots : s # p =>
           /\ state'[s] = state[s] \/ (state[s] = "SLEEPING" /\ state'[s] = "RUNNABLE")
           /\ chan[s] = parent[p] => state'[s] # "SLEEPING"
           /\ Zombies(p) # {} /\ chan[s] = initproc => state'[s] # "SLEEPING"
      /\ \A s \in Slots : parent'[s] = IF parent[s] = p THEN initproc ELSE parent[s]
  BY <1>1, ExitIs
<1>4. /\ ppc' = [ppc EXCEPT ![p] = "sched"]
      /\ state' \in [Slots -> States] /\ parent' \in [Slots -> 0 .. NPROC]
  BY <1>1, ExitIs
<1>5. UNCHANGED <<pid, killed, chan, kstack, nextpid, ctx, scan, kid, look>> /\ holder' = c
  BY <1>1, ExitIs
<1>6. \A s \in Slots : ppc'[s] = IF s = p THEN "sched" ELSE ppc[s]
  BY <1>4, Fields
<1>7. TableTypeOK'
  BY <1>1, <1>2, <1>3, <1>4, <1>5, Values DEF TableInv, TableTypeOK
<1>8. MadeCalm
  BY <1>1, <1>2, <1>3, <1>5, <1>6 DEF TableInv, MadeCalm, Alive, StacksMade
<1>9. PidsCalm
  BY <1>1, <1>2, <1>3, <1>5, <1>6 DEF PidsCalm
<1>10. OnStacks'
  <2>1. OnStacks /\ TableTypeOK
    BY DEF TableInv
  <2>2. \A s \in Slots : s # p => ppc'[s] # "sched" /\ (state'[s] = "RUNNING" <=> state[s] = "RUNNING")
    BY <1>1, <1>2, <1>3, <1>5, <1>6
  <2>3. ctx' = ctx /\ holder' = c /\ ppc'[p] = "sched" /\ state'[p] \in {"RUNNABLE", "SLEEPING", "ZOMBIE"}
    BY <1>1, <1>2, <1>3, <1>5, <1>6
  <2> QED
    BY <1>1, <1>2, <2>1, <2>2, <2>3, StacksLeft
<1>11. Forks'
  <2>1. \A s \in Slots : kid'[s] # 0 <=> ppc'[s] \in Forking
    BY <1>1, <1>2, <1>3, <1>5, <1>6, KidsIn, ParentsIn DEF TableInv, Forks, Forking
  <2>2. ASSUME NEW s \in Slots, kid'[s] # 0
        PROVE  /\ state'[s] = "RUNNING" /\ state'[kid'[s]] = "EMBRYO"
               /\ ppc'[s] # "kstack" => kstack'[kid'[s]]
               /\ ppc'[s] = "runnable" => parent'[kid'[s]] # 0
    BY <1>1, <1>2, <1>3, <1>5, <1>6, KidsIn, ParentsIn, <2>2 DEF TableInv, Forks, Forking
  <2>3. \A s, t \in Slots : kid'[s] # 0 /\ kid'[s] = kid'[t] => s = t
    BY <1>1, <1>2, <1>3, <1>5, <1>6, KidsIn, ParentsIn DEF TableInv, Forks, Forking
  <2> QED
    BY <2>1, <2>2, <2>3 DEF Forks
<1>12. Families'
  BY <1>1, <1>2, <1>3, <1>5, <1>6, ParentsIn DEF TableInv, Families, Alive
<1>13. Waiting'
  <2>1. SUFFICES ASSUME NEW s \in Slots, state'[s] = "SLEEPING", chan'[s] = s,
                        NEW t \in Slots, parent'[t] = s, state'[t] = "ZOMBIE"
                 PROVE  FALSE
    BY DEF Waiting, Zombies, ChildrenOf
  <2>2. s # p /\ state[s] = "SLEEPING" /\ chan[s] = s /\ s # parent[p]
    BY <2>1, <1>3, <1>5
  <2>3. parent[p] # p
    BY DEF TableInv, Families
  <2>4. t # p /\ state[t] = "ZOMBIE"
    BY <2>1, <2>2, <2>3, <1>3
  <2>5. CASE parent[t] = p
    BY <2>1, <2>2, <2>4, <2>5, <1>3 DEF Zombies, ChildrenOf
  <2>6. CASE parent[t] # p
    BY <2>1, <2>2, <2>4, <2>6, <1>3 DEF TableInv, Waiting, Zombies, ChildrenOf
  <2> QED
    BY <2>5, <2>6
<1> QED
  BY <1>7, <1>8, <1>9, <1>10, <1>11, <1>12, <1>13, MadeKept, PidsKept DEF TableInv

(* getprocstate() changes nothing but where it is. *)
LEMMA KernelStill ==
  ASSUME TableInv, UNCHANGED kernelvars
  PROVE  /\ OnStacks' /\ Forks' /\ StacksMade' /\ Families' /\ Waiting'
         /\ look' \in Looks \cup {NoLook} => TableTypeOK'
<1>1. UNCHANGED <<state, pid, parent, killed, chan, kstack, nextpid, holder, ctx, scan, ppc, kid>>
  BY DEF kernelvars
<1>2. OnStacks'
  BY <1>1 DEF TableInv, OnStacks
<1>3. Forks'
  BY <1>1 DEF TableInv, Forks
<1>4. StacksMade'
  BY <1>1 DEF TableInv, StacksMade
<1>5. Families'
  BY <1>1 DEF TableInv, Families
<1>6. Waiting'
  BY <1>1 DEF TableInv, Waiting, Zombies, ChildrenOf
<1>7. look' \in Looks \cup {NoLook} => TableTypeOK'
  BY <1>1 DEF TableInv, TableTypeOK
<1> QED
  BY <1>2, <1>3, <1>4, <1>5, <1>6, <1>7

LEMMA GetprocstateKeeps ==
  ASSUME TableInv, NEW c \in CPUs, NEW n \in AskedPids, Getprocstate(c, n)
  PROVE  TableInv'
<1>1. PICK p \in Slots : ctx[c] = p
  BY OnIs DEF Getprocstate, InUser, On
<1>2. /\ look' = [by |-> p, pid |-> n, at |-> 1, found |-> FALSE] /\ n \in Nat /\ n # 0
      /\ n < nextpid /\ UNCHANGED kernelvars
  BY <1>1, TableAssumption DEF Getprocstate
<1>3. look' \in Looks
  BY <1>2, Values, TableAssumption DEF Looks
<1>4. PidsUnique'
  BY <1>2 DEF TableInv, PidsUnique, kernelvars
<1>5. StateFound'
  BY <1>2 DEF StateFound, Slots
<1> QED
  BY <1>2, <1>3, <1>4, <1>5, KernelStill DEF TableInv

LEMMA ReadPidKeeps ==
  ASSUME TableInv, NEW c \in CPUs, ReadPid(c)
  PROVE  TableInv'
<1>1. /\ look \in Looks /\ look # NoLook /\ ~look.found /\ look.at \in Slots
      /\ UNCHANGED kernelvars
  BY TableAssumption DEF TableInv, TableTypeOK, ReadPid, Looking, On, NoLook, Looks, Slots
<1>2. CASE pid[look.at] = look.pid
  <2>1. look' = [look EXCEPT !.found = TRUE]
    BY <1>2 DEF ReadPid
  <2>2. look' \in Looks /\ look'.pid = look.pid /\ look'.at = look.at /\ look'.found
    BY <1>1, <2>1 DEF Looks
  <2>3. PidsUnique'
    BY <1>1, <2>2 DEF TableInv, PidsUnique, kernelvars
  <2>4. StateFound'
    BY <1>1, <1>2, <2>2 DEF TableInv, PidsUnique, StateFound, kernelvars
  <2> QED
    BY <1>1, <2>2, <2>3, <2>4, KernelStill DEF TableInv
<1>3. CASE pid[look.at] # look.pid
  <2>1. look' = [look EXCEPT !.at = look.at + 1]
    BY <1>3 DEF ReadPid, NextEntry
  <2>2. look' \in Looks /\ look'.pid = look.pid /\ look'.at = look.at + 1 /\ ~look'.found
    BY <1>1, <2>1, TableAssumption DEF Looks, Slots
  <2>3. PidsUnique'
    BY <1>1, <2>2 DEF TableInv, PidsUnique, kernelvars
  <2>4. ASSUME NEW s \in Slots, pid'[s] = look'.pid PROVE look'.at <= s
    <3>1. s # look.at /\ look.at <= s
      BY <1>1, <1>3, <2>2, <2>4 DEF TableInv, StateFound, kernelvars
    <3> QED
      BY <1>1, <2>2, <3>1 DEF Slots
  <2> QED
    BY <1>1, <2>2, <2>3, <2>4, KernelStill DEF TableInv, StateFound
<1> QED
  BY <1>2, <1>3

LEMMA ReadStateKeeps ==
  ASSUME TableInv, NEW c \in CPUs, ReadState(c)
  PROVE  TableInv'
<1>1. look' = NoLook /\ UNCHANGED kernelvars
  BY DEF ReadState
<1>2. PidsUnique' /\ StateFound'
  BY <1>1 DEF TableInv, PidsUnique, StateFound, kernelvars
<1> QED
  BY <1>1, <1>2, KernelStill DEF TableInv

-----------------------------------------------------------------------------
LEMMA TableInvHolds == ProcSpec => []TableInv
<1>1. ProcInit => TableInv
  <2> SUFFICES ASSUME ProcInit PROVE TableInv
    OBVIOUS
  <2>1. initproc \in Slots
    BY TableAssumption DEF initproc, Slots
  <2>2. \A s \in Slots :
          /\ state[s] = (IF s = initproc THEN "RUNNABLE" ELSE "UNUSED")
          /\ pid[s] = (IF s = initproc THEN 1 ELSE 0) /\ parent[s] = 0
          /\ chan[s] = NoChan /\ kid[s] = 0 /\ (s = initproc => kstack[s])
          /\ ppc[s] = (IF s = initproc THEN "forkret" ELSE "user")
    BY DEF ProcInit, First
  <2>3. TableTypeOK
    BY Values DEF ProcInit, First, TableTypeOK
  <2>4. 0 \notin Slots /\ look = NoLook /\ nextpid = 2 /\ \A c \in CPUs : ctx[c] = 0
    BY DEF ProcInit, Slots
  <2>5. OnStacks /\ Forks /\ StacksMade
    BY <2>1, <2>2, <2>4 DEF OnStacks, Forks, StacksMade, Forking, Alive
  <2>6. Families /\ Waiting
    BY <2>1, <2>2, <2>4 DEF Families, Waiting, Zombies, ChildrenOf, Alive
  <2>7. PidsUnique /\ StateFound
    BY <2>1, <2>2, <2>4 DEF PidsUnique, StateFound
  <2> QED
    BY <2>3, <2>5, <2>6, <2>7 DEF TableInv
<1>2. TableInv /\ [ProcNext]_procvars => TableInv'
  <2> SUFFICES ASSUME TableInv, [ProcNext]_procvars PROVE TableInv'
    OBVIOUS
  <2>1. CASE Wakeup
    BY <2>1, WakeupKeeps
  <2>2. ASSUME NEW c \in CPUs, \E n \in AskedPids : Getprocstate(c, n) PROVE TableInv'
    BY <2>2, GetprocstateKeeps
  <2>3. ASSUME NEW c \in CPUs, \E n \in 2 .. MaxPid : Kill(c, n) PROVE TableInv'
    BY <2>3, KillKeeps
  <2>4. ASSUME NEW c \in CPUs,
               \/ ReadPid(c) \/ ReadState(c) \/ Allocproc(c) \/ Kstack(c) \/ ForkFails(c)
               \/ Copyuvm(c) \/ ForkEnds(c) \/ Exit(c) \/ Sched(c) \/ Yield(c) \/ Sleep(c)
        PROVE  TableInv'
    BY <2>4, ReadPidKeeps, ReadStateKeeps, AllocprocKeeps, KstackKeeps, ForkFailsKeeps,
       CopyuvmKeeps, ForkEndsKeeps, ExitKeeps, SchedKeeps, YieldKeeps, SleepKeeps
  <2>5. ASSUME NEW c \in CPUs,
               \/ Resume(c) \/ SchedulerStarts(c) \/ SchedulerRuns(c) \/ SchedulerEnds(c)
               \/ WaitReaps(c) \/ WaitFails(c) \/ WaitSleeps(c)
        PROVE  TableInv'
    BY <2>5, ResumeKeeps, SchedulerStartsKeeps, SchedulerRunsKeeps, SchedulerEndsKeeps,
       WaitReapsKeeps, WaitFailsKeeps, WaitSleepsKeeps
  <2>6. CASE UNCHANGED procvars
    <3>1. UNCHANGED kernelvars /\ look' = look
      BY <2>6 DEF procvars
    <3>2. PidsUnique' /\ StateFound'
      BY <3>1 DEF TableInv, PidsUnique, StateFound, kernelvars
    <3> QED
      BY <3>1, <3>2, KernelStill DEF TableInv, TableTypeOK
  <2> QED
    BY <2>1, <2>2, <2>3, <2>4, <2>5, <2>6 DEF ProcNext
<1> QED
  BY <1>1, <1>2, PTL DEF ProcSpec

(* The fields of struct proc, the scheduler's place and getprocstate()'s   *)
(* have values of their kinds, and pids are given out once.                *)
THEOREM TableTypesCorrect ==
  ProcSpec => [](TableTypeOK /\ PidsUnique)
<1>1. TableInv => TableTypeOK /\ PidsUnique
  BY DEF TableInv
<1> QED
  BY <1>1, TableInvHolds, PTL

(* sched() and scheduler(): no two CPUs are on one kernel stack, a CPU is  *)
(* on a stack that exists and is not reaped, and the RUNNING processes are *)
(* those on the CPUs when ptable.lock is free.                             *)
THEOREM StacksCorrect == ProcSpec => []StacksSound
<1>1. ASSUME TableInv PROVE StacksSound
  <2>1. \A c, d \in CPUs : ctx[c] # 0 /\ ctx[c] = ctx[d] => c = d
    BY <1>1 DEF TableInv, OnStacks
  <2>2. ASSUME NEW c \in CPUs, ctx[c] # 0
        PROVE  kstack[ctx[c]] /\ state[ctx[c]] \notin {"UNUSED", "EMBRYO"}
    <3>1. ctx[c] \in Slots /\ state[ctx[c]] \in Alive \cup {"ZOMBIE"}
      BY <1>1, <2>2, OnIs DEF Alive
    <3> QED
      BY <1>1, <3>1 DEF TableInv, StacksMade, Alive
  <2>3. ASSUME Unlocked, NEW s \in Slots
        PROVE  (state[s] = "RUNNING") = (\E c \in CPUs : ctx[c] = s)
    <3>1. 0 \notin Slots
      BY DEF Slots
    <3>2. state[s] = "RUNNING" => \E c \in CPUs : ctx[c] = s
      BY <1>1 DEF TableInv, OnStacks
    <3>3. (\E c \in CPUs : ctx[c] = s) => state[s] = "RUNNING"
      BY <1>1, <2>3, <3>1, TableAssumption DEF TableInv, OnStacks, Unlocked
    <3> QED
      BY <3>2, <3>3
  <2>4. \A s \in Slots : state[s] \in {"RUNNABLE", "RUNNING", "SLEEPING", "ZOMBIE"} => kstack[s]
    BY <1>1 DEF TableInv, StacksMade, Alive
  <2> QED
    BY <2>1, <2>2, <2>3, <2>4 DEF StacksSound
<1>2. TableInv => StacksSound
  BY <1>1
<1> QED
  BY <1>2, TableInvHolds, PTL

(* exit() and wait(): a zombie has a parent that lives and that does not   *)
(* sleep in wait() past it, however many processes exit at once.           *)
THEOREM ZombiesReaped == ProcSpec => []ZombieIsReaped
<1>1. ASSUME TableInv PROVE ZombieIsReaped
  <2>1. ASSUME NEW s \in Slots, state[s] = "ZOMBIE"
        PROVE  /\ parent[s] # 0 /\ state[parent[s]] \in {"RUNNABLE", "RUNNING", "SLEEPING"}
               /\ state[parent[s]] = "SLEEPING" => chan[parent[s]] # parent[s]
    <3>1. parent[s] # 0 /\ state[parent[s]] \in Alive
      BY <1>1, <2>1 DEF TableInv, Families, Alive
    <3>2. parent[s] \in Slots
      BY <1>1, <3>1, ParentsIn
    <3>3. s \in Zombies(parent[s])
      BY <2>1 DEF Zombies, ChildrenOf
    <3> QED
      BY <1>1, <3>1, <3>2, <3>3 DEF TableInv, Waiting, Alive
  <2> QED
    BY <2>1 DEF ZombieIsReaped
<1>2. TableInv => ZombieIsReaped
  BY <1>1
<1> QED
  BY <1>2, TableInvHolds, PTL

(* getprocstate(): a process that is there when it is called, and is not   *)
(* reaped, is not passed over; found, it is its own entry.                 *)
THEOREM StateIsFound == ProcSpec => []StateFound
<1>1. TableInv => StateFound
  BY DEF TableInv
<1> QED
  BY <1>1, TableInvHolds, PTL
=============================================================================
