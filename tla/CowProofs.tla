------------------------------ MODULE CowProofs ------------------------------
(***************************************************************************)
(* Theorems about Cow, for any number of processes, frames and pages.      *)
(*                                                                         *)
(* Inv1 is about control: types, which pointers are null, how far loops    *)
(* have come.  Inv2 is about memory: who has which frame and what the      *)
(* reference counts count.  Inv2 is inductive on one CPU (OneCPU), which   *)
(* is what the kernel is run with (p5 Makefile:84-88): on two CPUs two     *)
(* sharers can both give up their reference to the frame they both copy.   *)
(*                                                                         *)
(* Inv3 is about contents: what the pages hold that fork(), exec() and     *)
(* sbrk() have entered so far.  With it every step of Cow is a step of     *)
(* ForkMemory or changes no memory.                                        *)
(***************************************************************************)
EXTENDS Cow, FiniteSetTheorems, TLAPS

ForkPcs == {"kstack", "kvm", "tables", "cow", "inc"}
HasDir == {"tables", "cow", "inc", "load", "free"}
Living == {"RUNNABLE", "RUNNING", "SLEEPING"}

(* TypeOK in three parts: kalloc.c, the page tables, the rest. *)
MemTypes ==
  /\ free \in SUBSET Frames /\ free_pages \in Int
  /\ ref_cnt \in [Frames -> Int] /\ DOMAIN data = Frames

PageTypes ==
  /\ pte \in [Frames -> [Pages -> Entry]]
  /\ writable \in [Frames -> SUBSET Pages]
  /\ tables \in [Frames -> SUBSET Frames]
  /\ stale \in [Procs -> SUBSET Pages]
  /\ dropped \in SUBSET Frames

ProcTypes ==
  /\ kp \in [Fields -> [Procs -> Ptr]]
  /\ state \in [Procs -> {"UNUSED", "EMBRYO", "SLEEPING", "RUNNABLE",
                          "RUNNING", "ZOMBIE"}]
  /\ sz \in [Procs -> 0 .. NPages]
  /\ parent \in [Procs -> Procs \cup {NoProc}]
  /\ np \in [Procs -> Procs \cup {NoProc}]
  /\ newsz \in [Procs -> 0 .. NPages]
  /\ i \in [Procs -> 0 .. NPages]
  /\ pc \in [Procs -> Interruptible \cup InHandler]
  /\ cpu \in [CPUs -> Procs \cup {NoProc}]
  /\ ptlock \in Procs \cup {NoProc}
  /\ panicked \in {"no", "kfree", "page_not_present", "init_exiting"}

(* Which process a CPU runs, and where it may be in the kernel. *)
Control ==
  /\ \A c \in CPUs : cpu[c] # NoProc => state[cpu[c]] = "RUNNING"
  /\ \A c, d \in CPUs : cpu[c] # NoProc /\ cpu[c] = cpu[d] => c = d
  /\ \A p \in Procs :
       /\ pc[p] # "user" => state[p] \in Living
       /\ state[p] = "SLEEPING" => pc[p] = "wait"
       /\ pc[p] \in InHandler => \E c \in CPUs : cpu[c] = p
       /\ np[p] # NoProc => pc[p] \in ForkPcs \cup {"free"}
       /\ pc[p] \in {"kstack", "cow", "inc"} => np[p] # NoProc
       /\ pc[p] = "load" => np[p] = NoProc
  /\ ptlock # NoProc => pc[ptlock] = "free" /\ np[ptlock] # NoProc
  /\ \A p \in Procs : pc[p] = "free" /\ np[p] # NoProc => ptlock = p

(* The slot fork() builds or wait() reaps. *)
Slot ==
  /\ \A p, q \in Procs : np[p] # NoProc /\ np[p] = np[q] => p = q
  /\ \A p \in Procs : np[p] # NoProc =>
       /\ pc[p] \in ForkPcs =>
            /\ state[np[p]] = "EMBRYO"
            /\ kp["kstack"][np[p]] = NoFrame <=> pc[p] = "kstack"
       /\ pc[p] = "free" =>
            /\ state[np[p]] = "ZOMBIE"
            /\ kp["kstack"][np[p]] = NoFrame /\ kp["pgdir"][np[p]] = NoFrame

(* Which pointers are null. *)
Pointers ==
  \A p \in Procs :
    /\ kp["d"][p] # NoFrame <=> pc[p] \in HasDir
    /\ kp["mem"][p] # NoFrame => pc[p] \in {"dec", "copy"}
    /\ state[p] \in Living => kp["pgdir"][p] # NoFrame /\ kp["kstack"][p] # NoFrame
    /\ state[p] \in {"UNUSED", "EMBRYO"} => kp["pgdir"][p] = NoFrame
    /\ state[p] = "UNUSED" => kp["kstack"][p] = NoFrame
    /\ state[p] = "ZOMBIE" /\ (ptlock = NoProc \/ np[ptlock] # p)
         => kp["pgdir"][p] # NoFrame /\ kp["kstack"][p] # NoFrame

(* How far a loop has come. *)
Loops ==
  \A p \in Procs :
    /\ pc[p] = "inc" => i[p] < sz[p]
    /\ pc[p] = "cow" => i[p] <= sz[p]
    /\ pc[p] \in {"load", "grow"} => i[p] <= newsz[p]
    /\ pc[p] = "grow" => sz[p] <= i[p]
    /\ pc[p] \in {"ref", "dup", "dec", "copy"} => i[p] < NPages
    /\ pc[p] \in {"user", "kstack", "kvm", "tables", "wait"} => i[p] = 0

CtlInv == ProcTypes /\ Control /\ Slot /\ Pointers /\ Loops
Inv1 == MemTypes /\ PageTypes /\ CtlInv

-----------------------------------------------------------------------------
LEMMA Inv1Init == Init => Inv1
<1> SUFFICES ASSUME Init PROVE Inv1
  OBVIOUS
<1> USE SizeAssumption, NameAssumption, BootAssumption
<1>1. MemTypes
  <2>1. free \subseteq Frames /\ ref_cnt \in [Frames -> Int] /\ DOMAIN data = Frames
    BY DEF Init
  <2>2. IsFiniteSet(free)
    BY <2>1, FS_Subset
  <2>3. free_pages \in Int
    BY <2>2, FS_CardinalityType DEF Init
  <2> QED
    BY <2>1, <2>3 DEF MemTypes
<1>2. PageTypes
  <2>1. Boot.page \in Frames /\ Boot.tables \subseteq Frames
    OBVIOUS
  <2>2. 0 \in Pages
    BY DEF Pages
  <2>3. pte \in [Frames -> [Pages -> Entry]]
    BY <2>1 DEF Init, Entry
  <2> QED
    BY <2>1, <2>2, <2>3 DEF Init, PageTypes
<1>3. ProcTypes
  <2>1. kp \in [Fields -> [Procs -> Ptr]]
    BY DEF Init, Fields, Ptr
  <2> QED
    BY <2>1 DEF Init, ProcTypes, Interruptible, InHandler
<1>4. Control
  BY DEF Init, Control, InHandler, Living
<1>5. Slot
  BY DEF Init, Slot
<1>6. Pointers
  BY DEF Init, Pointers, Fields, HasDir, Living
<1>7. Loops
  BY DEF Init, Loops
<1> QED
  BY <1>1, <1>2, <1>3, <1>4, <1>5, <1>6, <1>7 DEF Inv1, CtlInv

LEMMA CtlUnchanged ==
  ASSUME CtlInv, UNCHANGED <<kp, state, sz, parent, np, newsz, i, pc, cpu,
                             ptlock, panicked>>
  PROVE  CtlInv'
BY DEF CtlInv, ProcTypes, Control, Slot, Pointers, Loops


LEMMA CtlNext == Inv1 /\ [Next]_vars => CtlInv'
<1> SUFFICES ASSUME Inv1, [Next]_vars PROVE CtlInv'
  OBVIOUS
<1> USE SizeAssumption, NameAssumption
    DEF Inv1, CtlInv, kmem, vm, procs, locals, Goto, At, Running
<1>1. ASSUME NEW p \in Procs, Fork(p)
      PROVE  CtlInv'
  <2>1. CASE
           /\ pc[p] = "user"
           /\ \E c \in CPUs : cpu[c] = p
           /\ \E c \in Procs : state[c] = "UNUSED" /\ state' = [state EXCEPT ![c] = "EMBRYO"] /\ np' = [np EXCEPT ![p] = c]
           /\ pc' = [pc EXCEPT ![p] = "kstack"]
           /\ UNCHANGED <<kp, sz, parent, newsz, i, cpu, ptlock, panicked>>
    <3>1. ProcTypes'
      BY <2>1 DEF ProcTypes, Control, Loops, Pages, Ptr, Fields, Interruptible, InHandler
    <3>2. Control'
      BY <2>1 DEF ProcTypes, Control, Slot, Interruptible, InHandler, Living, ForkPcs
    <3>3. Slot'
      BY <2>1 DEF ProcTypes, Control, Slot, Pointers, Fields, Living, ForkPcs, HasDir
    <3>4. Pointers'
      BY <2>1 DEF ProcTypes, Control, Slot, Pointers, Ptr, Fields, Living, ForkPcs, HasDir
    <3>5. Loops'
      BY <2>1 DEF ProcTypes, Loops, Control, Pages
    <3> QED BY <3>1, <3>2, <3>3, <3>4, <3>5
  <2> QED
    BY <1>1, <2>1 DEF Fork
<1>2. ASSUME NEW p \in Procs, AllocKstack(p)
      PROVE  CtlInv'
  <2>1. CASE
           /\ pc[p] = "kstack"
           /\ \E c \in CPUs : cpu[c] = p
           /\ state' = [state EXCEPT ![np[p]] = "UNUSED"]
           /\ pc' = [pc EXCEPT ![p] = "user"]
           /\ np' = [np EXCEPT ![p] = NoProc]
           /\ newsz' = [newsz EXCEPT ![p] = 0]
           /\ i' = [i EXCEPT ![p] = 0]
           /\ UNCHANGED <<kp, sz, parent, cpu, ptlock, panicked>>
    <3>1. ProcTypes'
      BY <2>1 DEF ProcTypes, Control, Loops, Pages, Ptr, Fields, Interruptible, InHandler
    <3>2. Control'
      BY <2>1 DEF ProcTypes, Control, Slot, Interruptible, InHandler, Living, ForkPcs
    <3>3. Slot'
      BY <2>1 DEF ProcTypes, Control, Slot, Pointers, Fields, Living, ForkPcs, HasDir
    <3>4. Pointers'
      BY <2>1 DEF ProcTypes, Control, Slot, Pointers, Ptr, Fields, Living, ForkPcs, HasDir
    <3>5. Loops'
      BY <2>1 DEF ProcTypes, Loops, Control, Pages
    <3> QED BY <3>1, <3>2, <3>3, <3>4, <3>5
  <2>2. CASE
           /\ pc[p] = "kstack"
           /\ \E c \in CPUs : cpu[c] = p
           /\ \E f \in Frames : kp' = [kp EXCEPT !["kstack"][np[p]] = f]
           /\ pc' = [pc EXCEPT ![p] = "kvm"]
           /\ UNCHANGED <<state, sz, parent, np, newsz, i, cpu, ptlock, panicked>>
    <3>1. ProcTypes'
      BY <2>2 DEF ProcTypes, Control, Loops, Pages, Ptr, Fields, Interruptible, InHandler
    <3>2. Control'
      BY <2>2 DEF ProcTypes, Control, Slot, Interruptible, InHandler, Living, ForkPcs
    <3>3. Slot'
      BY <2>2 DEF ProcTypes, Control, Slot, Pointers, Fields, Living, ForkPcs, HasDir
    <3>4. Pointers'
      BY <2>2 DEF ProcTypes, Control, Slot, Pointers, Ptr, Fields, Living, ForkPcs, HasDir
    <3>5. Loops'
      BY <2>2 DEF ProcTypes, Loops, Control, Pages
    <3> QED BY <3>1, <3>2, <3>3, <3>4, <3>5
  <2> QED
    BY <1>2, <2>1, <2>2 DEF AllocKstack, Return, MemTypes
<1>3. ASSUME NEW p \in Procs, KvmDir(p)
      PROVE  CtlInv'
  <2>1. CASE
           /\ pc[p] = "kvm"
           /\ \E c \in CPUs : cpu[c] = p
           /\ np[p] # NoProc
           /\ state' = [state EXCEPT ![np[p]] = "UNUSED"]
           /\ kp' = [kp EXCEPT !["kstack"][np[p]] = NoFrame]
           /\ pc' = [pc EXCEPT ![p] = "user"]
           /\ np' = [np EXCEPT ![p] = NoProc]
           /\ newsz' = [newsz EXCEPT ![p] = 0]
           /\ i' = [i EXCEPT ![p] = 0]
           /\ UNCHANGED <<sz, parent, cpu, ptlock, panicked>>
    <3>1. ProcTypes'
      BY <2>1 DEF ProcTypes, Control, Loops, Pages, Ptr, Fields, Interruptible, InHandler
    <3>2. Control'
      BY <2>1 DEF ProcTypes, Control, Slot, Interruptible, InHandler, Living, ForkPcs
    <3>3. Slot'
      BY <2>1 DEF ProcTypes, Control, Slot, Pointers, Fields, Living, ForkPcs, HasDir
    <3>4. Pointers'
      BY <2>1 DEF ProcTypes, Control, Slot, Pointers, Ptr, Fields, Living, ForkPcs, HasDir
    <3>5. Loops'
      BY <2>1 DEF ProcTypes, Loops, Control, Pages
    <3> QED BY <3>1, <3>2, <3>3, <3>4, <3>5
  <2>2. CASE
           /\ pc[p] = "kvm"
           /\ \E c \in CPUs : cpu[c] = p
           /\ np[p] = NoProc
           /\ pc' = [pc EXCEPT ![p] = "user"]
           /\ np' = [np EXCEPT ![p] = NoProc]
           /\ newsz' = [newsz EXCEPT ![p] = 0]
           /\ i' = [i EXCEPT ![p] = 0]
           /\ UNCHANGED <<kp, state, sz, parent, cpu, ptlock, panicked>>
    <3>1. ProcTypes'
      BY <2>2 DEF ProcTypes, Control, Loops, Pages, Ptr, Fields, Interruptible, InHandler
    <3>2. Control'
      BY <2>2 DEF ProcTypes, Control, Slot, Interruptible, InHandler, Living, ForkPcs
    <3>3. Slot'
      BY <2>2 DEF ProcTypes, Control, Slot, Pointers, Fields, Living, ForkPcs, HasDir
    <3>4. Pointers'
      BY <2>2 DEF ProcTypes, Control, Slot, Pointers, Ptr, Fields, Living, ForkPcs, HasDir
    <3>5. Loops'
      BY <2>2 DEF ProcTypes, Loops, Control, Pages
    <3> QED BY <3>1, <3>2, <3>3, <3>4, <3>5
  <2>3. CASE
           /\ pc[p] = "kvm"
           /\ \E c \in CPUs : cpu[c] = p
           /\ \E f \in Frames : kp' = [kp EXCEPT !["d"][p] = f]
           /\ pc' = [pc EXCEPT ![p] = "tables"]
           /\ UNCHANGED <<state, sz, parent, np, newsz, i, cpu, ptlock, panicked>>
    <3>1. ProcTypes'
      BY <2>3 DEF ProcTypes, Control, Loops, Pages, Ptr, Fields, Interruptible, InHandler
    <3>2. Control'
      BY <2>3 DEF ProcTypes, Control, Slot, Interruptible, InHandler, Living, ForkPcs
    <3>3. Slot'
      BY <2>3 DEF ProcTypes, Control, Slot, Pointers, Fields, Living, ForkPcs, HasDir
    <3>4. Pointers'
      BY <2>3 DEF ProcTypes, Control, Slot, Pointers, Ptr, Fields, Living, ForkPcs, HasDir
    <3>5. Loops'
      BY <2>3 DEF ProcTypes, Loops, Control, Pages
    <3> QED BY <3>1, <3>2, <3>3, <3>4, <3>5
  <2> QED
    BY <1>3, <2>1, <2>2, <2>3 DEF KvmDir, KvmFailed, Forking, Return, MemTypes
<1>4. ASSUME NEW p \in Procs, KvmTable(p)
      PROVE  CtlInv'
  <2>1. CASE
           /\ pc[p] = "tables"
           /\ \E c \in CPUs : cpu[c] = p
           /\ np[p] # NoProc
           /\ pc' = [pc EXCEPT ![p] = "cow"]
           /\ UNCHANGED <<kp, state, sz, parent, np, newsz, i, cpu, ptlock, panicked>>
    <3>1. ProcTypes'
      BY <2>1 DEF ProcTypes, Control, Loops, Pages, Ptr, Fields, Interruptible, InHandler
    <3>2. Control'
      BY <2>1 DEF ProcTypes, Control, Slot, Interruptible, InHandler, Living, ForkPcs
    <3>3. Slot'
      BY <2>1 DEF ProcTypes, Control, Slot, Pointers, Fields, Living, ForkPcs, HasDir
    <3>4. Pointers'
      BY <2>1 DEF ProcTypes, Control, Slot, Pointers, Ptr, Fields, Living, ForkPcs, HasDir
    <3>5. Loops'
      BY <2>1 DEF ProcTypes, Loops, Control, Pages
    <3> QED BY <3>1, <3>2, <3>3, <3>4, <3>5
  <2>2. CASE
           /\ pc[p] = "tables"
           /\ \E c \in CPUs : cpu[c] = p
           /\ np[p] = NoProc
           /\ pc' = [pc EXCEPT ![p] = "load"]
           /\ UNCHANGED <<kp, state, sz, parent, np, newsz, i, cpu, ptlock, panicked>>
    <3>1. ProcTypes'
      BY <2>2 DEF ProcTypes, Control, Loops, Pages, Ptr, Fields, Interruptible, InHandler
    <3>2. Control'
      BY <2>2 DEF ProcTypes, Control, Slot, Interruptible, InHandler, Living, ForkPcs
    <3>3. Slot'
      BY <2>2 DEF ProcTypes, Control, Slot, Pointers, Fields, Living, ForkPcs, HasDir
    <3>4. Pointers'
      BY <2>2 DEF ProcTypes, Control, Slot, Pointers, Ptr, Fields, Living, ForkPcs, HasDir
    <3>5. Loops'
      BY <2>2 DEF ProcTypes, Loops, Control, Pages
    <3> QED BY <3>1, <3>2, <3>3, <3>4, <3>5
  <2>3. CASE
           /\ pc[p] = "tables"
           /\ \E c \in CPUs : cpu[c] = p
           /\ UNCHANGED <<kp, state, sz, parent, np, newsz, i, pc, cpu, ptlock, panicked>>
    <3>1. ProcTypes'
      BY <2>3 DEF ProcTypes, Control, Loops, Pages, Ptr, Fields, Interruptible, InHandler
    <3>2. Control'
      BY <2>3 DEF ProcTypes, Control, Slot, Interruptible, InHandler, Living, ForkPcs
    <3>3. Slot'
      BY <2>3 DEF ProcTypes, Control, Slot, Pointers, Fields, Living, ForkPcs, HasDir
    <3>4. Pointers'
      BY <2>3 DEF ProcTypes, Control, Slot, Pointers, Ptr, Fields, Living, ForkPcs, HasDir
    <3>5. Loops'
      BY <2>3 DEF ProcTypes, Loops, Control, Pages
    <3> QED BY <3>1, <3>2, <3>3, <3>4, <3>5
  <2>4. CASE
           /\ pc[p] = "tables"
           /\ \E c \in CPUs : cpu[c] = p
           /\ np[p] # NoProc
           /\ state' = [state EXCEPT ![np[p]] = "UNUSED"]
           /\ kp' \in [Fields -> [Procs -> Ptr]]
           /\ \A q \in Procs : kp'["kstack"][q] = IF q = np[p] THEN NoFrame ELSE kp["kstack"][q]
           /\ \A q \in Procs : kp'["pgdir"][q] = kp["pgdir"][q]
           /\ \A q \in Procs : kp'["d"][q] = IF q = p THEN NoFrame ELSE kp["d"][q]
           /\ \A q \in Procs : kp'["mem"][q] = kp["mem"][q]
           /\ pc' = [pc EXCEPT ![p] = "user"]
           /\ np' = [np EXCEPT ![p] = NoProc]
           /\ newsz' = [newsz EXCEPT ![p] = 0]
           /\ i' = [i EXCEPT ![p] = 0]
           /\ UNCHANGED <<sz, parent, cpu, ptlock, panicked>>
    <3>1. ProcTypes'
      BY <2>4 DEF ProcTypes, Control, Loops, Pages, Ptr, Fields, Interruptible, InHandler
    <3>2. Control'
      BY <2>4 DEF ProcTypes, Control, Slot, Interruptible, InHandler, Living, ForkPcs
    <3>3. Slot'
      BY <2>4 DEF ProcTypes, Control, Slot, Pointers, Fields, Living, ForkPcs, HasDir
    <3>4. Pointers'
      BY <2>4 DEF ProcTypes, Control, Slot, Pointers, Ptr, Fields, Living, ForkPcs, HasDir
    <3>5. Loops'
      BY <2>4 DEF ProcTypes, Loops, Control, Pages
    <3> QED BY <3>1, <3>2, <3>3, <3>4, <3>5
  <2>5. CASE
           /\ pc[p] = "tables"
           /\ \E c \in CPUs : cpu[c] = p
           /\ np[p] = NoProc
           /\ kp' = [kp EXCEPT !["d"][p] = NoFrame]
           /\ pc' = [pc EXCEPT ![p] = "user"]
           /\ np' = [np EXCEPT ![p] = NoProc]
           /\ newsz' = [newsz EXCEPT ![p] = 0]
           /\ i' = [i EXCEPT ![p] = 0]
           /\ UNCHANGED <<state, sz, parent, cpu, ptlock, panicked>>
    <3>1. ProcTypes'
      BY <2>5 DEF ProcTypes, Control, Loops, Pages, Ptr, Fields, Interruptible, InHandler
    <3>2. Control'
      BY <2>5 DEF ProcTypes, Control, Slot, Interruptible, InHandler, Living, ForkPcs
    <3>3. Slot'
      BY <2>5 DEF ProcTypes, Control, Slot, Pointers, Fields, Living, ForkPcs, HasDir
    <3>4. Pointers'
      BY <2>5 DEF ProcTypes, Control, Slot, Pointers, Ptr, Fields, Living, ForkPcs, HasDir
    <3>5. Loops'
      BY <2>5 DEF ProcTypes, Loops, Control, Pages
    <3> QED BY <3>1, <3>2, <3>3, <3>4, <3>5
  <2>6. ASSUME np[p] # NoProc,
               kp' = [kp EXCEPT !["d"][p] = NoFrame, !["kstack"][np[p]] = NoFrame]
       PROVE
             /\ kp' \in [Fields -> [Procs -> Ptr]]
             /\ \A q \in Procs : kp'["kstack"][q] = IF q = np[p] THEN NoFrame ELSE kp["kstack"][q]
             /\ \A q \in Procs : kp'["pgdir"][q] = kp["pgdir"][q]
             /\ \A q \in Procs : kp'["d"][q] = IF q = p THEN NoFrame ELSE kp["d"][q]
             /\ \A q \in Procs : kp'["mem"][q] = kp["mem"][q]
    BY <2>6 DEF ProcTypes, Fields, Ptr
  <2> QED
    BY <1>4, <2>1, <2>2, <2>3, <2>4, <2>5, <2>6 DEF KvmTable, KvmFailed, Forking, Return, Control, MemTypes, ProcTypes, Fields, Ptr, Slot, ForkPcs
<1>5. ASSUME NEW p \in Procs, CowPage(p)
      PROVE  CtlInv'
  <2>1. CASE
           /\ panicked' = "page_not_present"
           /\ UNCHANGED <<kp, state, sz, parent, np, newsz, i, pc, cpu, ptlock>>
    BY <2>1 DEF CtlInv, ProcTypes, Control, Slot, Pointers, Loops
  <2>2. CASE
           /\ pc[p] = "cow"
           /\ \E c \in CPUs : cpu[c] = p
           /\ i[p] < sz[p]
           /\ pc' = [pc EXCEPT ![p] = "inc"]
           /\ UNCHANGED <<kp, state, sz, parent, np, newsz, i, cpu, ptlock, panicked>>
    <3>1. ProcTypes'
      BY <2>2 DEF ProcTypes, Control, Loops, Pages, Ptr, Fields, Interruptible, InHandler
    <3>2. Control'
      BY <2>2 DEF ProcTypes, Control, Slot, Interruptible, InHandler, Living, ForkPcs
    <3>3. Slot'
      BY <2>2 DEF ProcTypes, Control, Slot, Pointers, Fields, Living, ForkPcs, HasDir
    <3>4. Pointers'
      BY <2>2 DEF ProcTypes, Control, Slot, Pointers, Ptr, Fields, Living, ForkPcs, HasDir
    <3>5. Loops'
      BY <2>2 DEF ProcTypes, Loops, Control, Pages
    <3> QED BY <3>1, <3>2, <3>3, <3>4, <3>5
  <2> QED
    BY <1>5, <2>1, <2>2 DEF CowPage, Panic
<1>6. ASSUME NEW p \in Procs, CowInc(p)
      PROVE  CtlInv'
  <2>1. CASE
           /\ pc[p] = "inc"
           /\ \E c \in CPUs : cpu[c] = p
           /\ i' = [i EXCEPT ![p] = @ + 1]
           /\ pc' = [pc EXCEPT ![p] = "cow"]
           /\ UNCHANGED <<kp, state, sz, parent, np, newsz, cpu, ptlock, panicked>>
    <3>1. ProcTypes'
      BY <2>1 DEF ProcTypes, Control, Loops, Pages, Ptr, Fields, Interruptible, InHandler
    <3>2. Control'
      BY <2>1 DEF ProcTypes, Control, Slot, Interruptible, InHandler, Living, ForkPcs
    <3>3. Slot'
      BY <2>1 DEF ProcTypes, Control, Slot, Pointers, Fields, Living, ForkPcs, HasDir
    <3>4. Pointers'
      BY <2>1 DEF ProcTypes, Control, Slot, Pointers, Ptr, Fields, Living, ForkPcs, HasDir
    <3>5. Loops'
      BY <2>1 DEF ProcTypes, Loops, Control, Pages
    <3> QED BY <3>1, <3>2, <3>3, <3>4, <3>5
  <2> QED
    BY <1>6, <2>1 DEF CowInc
<1>7. ASSUME NEW p \in Procs, ForkDone(p)
      PROVE  CtlInv'
  <2>1. CASE
           /\ pc[p] = "cow"
           /\ \E c \in CPUs : cpu[c] = p
           /\ kp' \in [Fields -> [Procs -> Ptr]]
           /\ \A q \in Procs : kp'["kstack"][q] = kp["kstack"][q]
           /\ \A q \in Procs : kp'["pgdir"][q] = IF q = np[p] THEN kp["d"][p] ELSE kp["pgdir"][q]
           /\ \A q \in Procs : kp'["d"][q] = IF q = p THEN NoFrame ELSE kp["d"][q]
           /\ \A q \in Procs : kp'["mem"][q] = kp["mem"][q]
           /\ sz' = [sz EXCEPT ![np[p]] = sz[p]]
           /\ parent' = [parent EXCEPT ![np[p]] = p]
           /\ state' = [state EXCEPT ![np[p]] = "RUNNABLE"]
           /\ pc' = [pc EXCEPT ![p] = "user"]
           /\ np' = [np EXCEPT ![p] = NoProc]
           /\ newsz' = [newsz EXCEPT ![p] = 0]
           /\ i' = [i EXCEPT ![p] = 0]
           /\ UNCHANGED <<cpu, ptlock, panicked>>
    <3>1. ProcTypes'
      BY <2>1 DEF ProcTypes, Control, Loops, Pages, Ptr, Fields, Interruptible, InHandler
    <3>2. Control'
      BY <2>1 DEF ProcTypes, Control, Slot, Interruptible, InHandler, Living, ForkPcs
    <3>3. Slot'
      BY <2>1 DEF ProcTypes, Control, Slot, Pointers, Fields, Living, ForkPcs, HasDir
    <3>4. Pointers'
      BY <2>1 DEF ProcTypes, Control, Slot, Pointers, Ptr, Fields, Living, ForkPcs, HasDir
    <3>5. Loops'
      BY <2>1 DEF ProcTypes, Loops, Control, Pages, Slot, Living, ForkPcs
    <3> QED BY <3>1, <3>2, <3>3, <3>4, <3>5
  <2>2. ASSUME np[p] # NoProc,
               kp' = [kp EXCEPT !["pgdir"][np[p]] = kp["d"][p], !["d"][p] = NoFrame]
       PROVE
             /\ kp' \in [Fields -> [Procs -> Ptr]]
             /\ \A q \in Procs : kp'["kstack"][q] = kp["kstack"][q]
             /\ \A q \in Procs : kp'["pgdir"][q] = IF q = np[p] THEN kp["d"][p] ELSE kp["pgdir"][q]
             /\ \A q \in Procs : kp'["d"][q] = IF q = p THEN NoFrame ELSE kp["d"][q]
             /\ \A q \in Procs : kp'["mem"][q] = kp["mem"][q]
    BY <2>2 DEF ProcTypes, Fields, Ptr
  <2> QED
    BY <1>7, <2>1, <2>2 DEF ForkDone, Return, Control, MemTypes, ProcTypes, Fields, Ptr, Slot, ForkPcs
<1>8. ASSUME NEW p \in Procs, NEW n \in 0 .. NPages, Exec(p, n)
      PROVE  CtlInv'
  <2>1. CASE
           /\ pc[p] = "user"
           /\ \E c \in CPUs : cpu[c] = p
           /\ newsz' = [newsz EXCEPT ![p] = n]
           /\ pc' = [pc EXCEPT ![p] = "kvm"]
           /\ UNCHANGED <<kp, state, sz, parent, np, i, cpu, ptlock, panicked>>
    <3>1. ProcTypes'
      BY <2>1 DEF ProcTypes, Control, Loops, Pages, Ptr, Fields, Interruptible, InHandler
    <3>2. Control'
      BY <2>1 DEF ProcTypes, Control, Slot, Interruptible, InHandler, Living, ForkPcs
    <3>3. Slot'
      BY <2>1 DEF ProcTypes, Control, Slot, Pointers, Fields, Living, ForkPcs, HasDir
    <3>4. Pointers'
      BY <2>1 DEF ProcTypes, Control, Slot, Pointers, Ptr, Fields, Living, ForkPcs, HasDir
    <3>5. Loops'
      BY <2>1 DEF ProcTypes, Loops, Control, Pages
    <3> QED BY <3>1, <3>2, <3>3, <3>4, <3>5
  <2> QED
    BY <1>8, <2>1 DEF Exec
<1>9. ASSUME NEW p \in Procs, LoadPage(p)
      PROVE  CtlInv'
  <2>1. CASE
           /\ pc[p] = "load"
           /\ \E c \in CPUs : cpu[c] = p
           /\ pc' = [pc EXCEPT ![p] = "free"]
           /\ UNCHANGED <<kp, state, sz, parent, np, newsz, i, cpu, ptlock, panicked>>
    <3>1. ProcTypes'
      BY <2>1 DEF ProcTypes, Control, Loops, Pages, Ptr, Fields, Interruptible, InHandler
    <3>2. Control'
      BY <2>1 DEF ProcTypes, Control, Slot, Interruptible, InHandler, Living, ForkPcs
    <3>3. Slot'
      BY <2>1 DEF ProcTypes, Control, Slot, Pointers, Fields, Living, ForkPcs, HasDir
    <3>4. Pointers'
      BY <2>1 DEF ProcTypes, Control, Slot, Pointers, Ptr, Fields, Living, ForkPcs, HasDir
    <3>5. Loops'
      BY <2>1 DEF ProcTypes, Loops, Control, Pages
    <3> QED BY <3>1, <3>2, <3>3, <3>4, <3>5
  <2>2. CASE
           /\ pc[p] = "load"
           /\ i[p] < newsz[p]
           /\ i' = [i EXCEPT ![p] = @ + 1]
           /\ UNCHANGED <<kp, state, sz, parent, np, newsz, pc, cpu, ptlock, panicked>>
    <3>1. ProcTypes'
      BY <2>2 DEF ProcTypes, Control, Loops, Pages, Ptr, Fields, Interruptible, InHandler
    <3>2. Control'
      BY <2>2 DEF ProcTypes, Control, Slot, Interruptible, InHandler, Living, ForkPcs
    <3>3. Slot'
      BY <2>2 DEF ProcTypes, Control, Slot, Pointers, Fields, Living, ForkPcs, HasDir
    <3>4. Pointers'
      BY <2>2 DEF ProcTypes, Control, Slot, Pointers, Ptr, Fields, Living, ForkPcs, HasDir
    <3>5. Loops'
      BY <2>2 DEF ProcTypes, Loops, Control, Pages
    <3> QED BY <3>1, <3>2, <3>3, <3>4, <3>5
  <2> QED
    BY <1>9, <2>1, <2>2 DEF LoadPage, More
<1>10. ASSUME NEW p \in Procs, ExecCommit(p)
      PROVE  CtlInv'
  <2>1. CASE
           /\ pc[p] = "load"
           /\ \E c \in CPUs : cpu[c] = p
           /\ kp' = [kp EXCEPT !["pgdir"][p] = kp["d"][p], !["d"][p] = kp["pgdir"][p]]
           /\ sz' = [sz EXCEPT ![p] = newsz[p]]
           /\ pc' = [pc EXCEPT ![p] = "free"]
           /\ UNCHANGED <<state, parent, np, newsz, i, cpu, ptlock, panicked>>
    <3>1. ProcTypes'
      BY <2>1 DEF ProcTypes, Control, Loops, Pages, Ptr, Fields, Interruptible, InHandler
    <3>2. Control'
      BY <2>1 DEF ProcTypes, Control, Slot, Interruptible, InHandler, Living, ForkPcs
    <3>3. Slot'
      <4>1. /\ np' = np /\ state' = state /\ kp'["kstack"] = kp["kstack"] /\ np[p] = NoProc
            /\ \A q \in Procs : q # p => pc'[q] = pc[q] /\ kp'["pgdir"][q] = kp["pgdir"][q]
        BY <2>1 DEF ProcTypes, Control, Fields
      <4>2. \A q \in Procs : np[q] # p
        BY <2>1, <4>1, NameAssumption DEF Slot, Control, Living
      <4>3. \A q \in Procs : np[q] # NoProc => np[q] \in Procs /\ q # p
        BY <4>1 DEF ProcTypes
      <4> QED BY <4>1, <4>2, <4>3 DEF Slot
    <3>4. Pointers'
      BY <2>1 DEF ProcTypes, Control, Slot, Pointers, Ptr, Fields, Living, ForkPcs, HasDir
    <3>5. Loops'
      BY <2>1 DEF ProcTypes, Loops, Control, Pages
    <3> QED BY <3>1, <3>2, <3>3, <3>4, <3>5
  <2> QED
    BY <1>10, <2>1 DEF ExecCommit
<1>11. ASSUME NEW p \in Procs, FreePage(p)
      PROVE  CtlInv'
  <2>1. CASE
           /\ panicked' = "kfree"
           /\ UNCHANGED <<kp, state, sz, parent, np, newsz, i, pc, cpu, ptlock>>
    BY <2>1 DEF CtlInv, ProcTypes, Control, Slot, Pointers, Loops
  <2>2. CASE UNCHANGED <<kp, state, sz, parent, np, newsz, i, pc, cpu, ptlock, panicked>>
    BY <2>2, CtlUnchanged
  <2> QED
    BY <1>11, <2>1, <2>2 DEF FreePage, FreeEntry, Panic
<1>12. ASSUME NEW p \in Procs, FreeTable(p)
      PROVE  CtlInv'
  BY <1>12, CtlUnchanged DEF FreeTable
<1>13. ASSUME NEW p \in Procs, FreeDir(p)
      PROVE  CtlInv'
  <2>1. CASE
           /\ pc[p] = "free"
           /\ \E c \in CPUs : cpu[c] = p
           /\ np[p] = NoProc
           /\ kp' = [kp EXCEPT !["d"][p] = NoFrame]
           /\ pc' = [pc EXCEPT ![p] = "user"]
           /\ np' = [np EXCEPT ![p] = NoProc]
           /\ newsz' = [newsz EXCEPT ![p] = 0]
           /\ i' = [i EXCEPT ![p] = 0]
           /\ UNCHANGED <<state, sz, parent, cpu, ptlock, panicked>>
    <3>1. ProcTypes'
      BY <2>1 DEF ProcTypes, Control, Loops, Pages, Ptr, Fields, Interruptible, InHandler
    <3>2. Control'
      BY <2>1 DEF ProcTypes, Control, Slot, Interruptible, InHandler, Living, ForkPcs
    <3>3. Slot'
      BY <2>1 DEF ProcTypes, Control, Slot, Pointers, Fields, Living, ForkPcs, HasDir
    <3>4. Pointers'
      BY <2>1 DEF ProcTypes, Control, Slot, Pointers, Ptr, Fields, Living, ForkPcs, HasDir
    <3>5. Loops'
      BY <2>1 DEF ProcTypes, Loops, Control, Pages
    <3> QED BY <3>1, <3>2, <3>3, <3>4, <3>5
  <2>2. CASE
           /\ pc[p] = "free"
           /\ \E c \in CPUs : cpu[c] = p
           /\ np[p] # NoProc
           /\ kp' = [kp EXCEPT !["d"][p] = NoFrame]
           /\ state' = [state EXCEPT ![np[p]] = "UNUSED"]
           /\ parent' = [parent EXCEPT ![np[p]] = NoProc]
           /\ ptlock' = NoProc
           /\ pc' = [pc EXCEPT ![p] = "user"]
           /\ np' = [np EXCEPT ![p] = NoProc]
           /\ newsz' = [newsz EXCEPT ![p] = 0]
           /\ i' = [i EXCEPT ![p] = 0]
           /\ UNCHANGED <<sz, cpu, panicked>>
    <3>1. ProcTypes'
      BY <2>2 DEF ProcTypes, Control, Loops, Pages, Ptr, Fields, Interruptible, InHandler
    <3>2. Control'
      BY <2>2 DEF ProcTypes, Control, Slot, Interruptible, InHandler, Living, ForkPcs
    <3>3. Slot'
      BY <2>2 DEF ProcTypes, Control, Slot, Pointers, Fields, Living, ForkPcs, HasDir
    <3>4. Pointers'
      BY <2>2 DEF ProcTypes, Control, Slot, Pointers, Ptr, Fields, Living, ForkPcs, HasDir
    <3>5. Loops'
      BY <2>2 DEF ProcTypes, Loops, Control, Pages
    <3> QED BY <3>1, <3>2, <3>3, <3>4, <3>5
  <2> QED
    BY <1>13, <2>1, <2>2 DEF FreeDir, Return
<1>14. ASSUME NEW p \in Procs, NEW n \in 0 .. NPages, Sbrk(p, n)
      PROVE  CtlInv'
  <2>1. CASE
           /\ pc[p] = "user"
           /\ \E c \in CPUs : cpu[c] = p
           /\ n > sz[p]
           /\ newsz' = [newsz EXCEPT ![p] = n]
           /\ i' = [i EXCEPT ![p] = sz[p]]
           /\ pc' = [pc EXCEPT ![p] = "grow"]
           /\ UNCHANGED <<kp, state, sz, parent, np, cpu, ptlock, panicked>>
    <3>1. ProcTypes'
      BY <2>1 DEF ProcTypes, Control, Loops, Pages, Ptr, Fields, Interruptible, InHandler
    <3>2. Control'
      BY <2>1 DEF ProcTypes, Control, Slot, Interruptible, InHandler, Living, ForkPcs
    <3>3. Slot'
      BY <2>1 DEF ProcTypes, Control, Slot, Pointers, Fields, Living, ForkPcs, HasDir
    <3>4. Pointers'
      BY <2>1 DEF ProcTypes, Control, Slot, Pointers, Ptr, Fields, Living, ForkPcs, HasDir
    <3>5. Loops'
      BY <2>1 DEF ProcTypes, Loops, Control, Pages
    <3> QED BY <3>1, <3>2, <3>3, <3>4, <3>5
  <2>2. CASE
           /\ pc[p] = "user"
           /\ \E c \in CPUs : cpu[c] = p
           /\ newsz' = [newsz EXCEPT ![p] = n]
           /\ i' = [i EXCEPT ![p] = 0]
           /\ pc' = [pc EXCEPT ![p] = "shrink"]
           /\ UNCHANGED <<kp, state, sz, parent, np, cpu, ptlock, panicked>>
    <3>1. ProcTypes'
      BY <2>2 DEF ProcTypes, Control, Loops, Pages, Ptr, Fields, Interruptible, InHandler
    <3>2. Control'
      BY <2>2 DEF ProcTypes, Control, Slot, Interruptible, InHandler, Living, ForkPcs
    <3>3. Slot'
      BY <2>2 DEF ProcTypes, Control, Slot, Pointers, Fields, Living, ForkPcs, HasDir
    <3>4. Pointers'
      BY <2>2 DEF ProcTypes, Control, Slot, Pointers, Ptr, Fields, Living, ForkPcs, HasDir
    <3>5. Loops'
      BY <2>2 DEF ProcTypes, Loops, Control, Pages
    <3> QED BY <3>1, <3>2, <3>3, <3>4, <3>5
  <2> QED
    BY <1>14, <2>1, <2>2 DEF Sbrk
<1>15. ASSUME NEW p \in Procs, GrowPage(p)
      PROVE  CtlInv'
  <2>1. CASE
           /\ pc[p] = "grow"
           /\ \E c \in CPUs : cpu[c] = p
           /\ pc' = [pc EXCEPT ![p] = "undo"]
           /\ UNCHANGED <<kp, state, sz, parent, np, newsz, i, cpu, ptlock, panicked>>
    <3>1. ProcTypes'
      BY <2>1 DEF ProcTypes, Control, Loops, Pages, Ptr, Fields, Interruptible, InHandler
    <3>2. Control'
      BY <2>1 DEF ProcTypes, Control, Slot, Interruptible, InHandler, Living, ForkPcs
    <3>3. Slot'
      BY <2>1 DEF ProcTypes, Control, Slot, Pointers, Fields, Living, ForkPcs, HasDir
    <3>4. Pointers'
      BY <2>1 DEF ProcTypes, Control, Slot, Pointers, Ptr, Fields, Living, ForkPcs, HasDir
    <3>5. Loops'
      BY <2>1 DEF ProcTypes, Loops, Control, Pages
    <3> QED BY <3>1, <3>2, <3>3, <3>4, <3>5
  <2>2. CASE
           /\ pc[p] = "grow"
           /\ i[p] < newsz[p]
           /\ i' = [i EXCEPT ![p] = @ + 1]
           /\ UNCHANGED <<kp, state, sz, parent, np, newsz, pc, cpu, ptlock, panicked>>
    <3>1. ProcTypes'
      BY <2>2 DEF ProcTypes, Control, Loops, Pages, Ptr, Fields, Interruptible, InHandler
    <3>2. Control'
      BY <2>2 DEF ProcTypes, Control, Slot, Interruptible, InHandler, Living, ForkPcs
    <3>3. Slot'
      BY <2>2 DEF ProcTypes, Control, Slot, Pointers, Fields, Living, ForkPcs, HasDir
    <3>4. Pointers'
      BY <2>2 DEF ProcTypes, Control, Slot, Pointers, Ptr, Fields, Living, ForkPcs, HasDir
    <3>5. Loops'
      BY <2>2 DEF ProcTypes, Loops, Control, Pages
    <3> QED BY <3>1, <3>2, <3>3, <3>4, <3>5
  <2> QED
    BY <1>15, <2>1, <2>2 DEF GrowPage, More
<1>16. ASSUME NEW p \in Procs, GrowDone(p)
      PROVE  CtlInv'
  <2>1. CASE
           /\ pc[p] = "grow"
           /\ \E c \in CPUs : cpu[c] = p
           /\ sz' = [sz EXCEPT ![p] = newsz[p]]
           /\ pc' = [pc EXCEPT ![p] = "user"]
           /\ np' = [np EXCEPT ![p] = NoProc]
           /\ newsz' = [newsz EXCEPT ![p] = 0]
           /\ i' = [i EXCEPT ![p] = 0]
           /\ UNCHANGED <<kp, state, parent, cpu, ptlock, panicked>>
    <3>1. ProcTypes'
      BY <2>1 DEF ProcTypes, Control, Loops, Pages, Ptr, Fields, Interruptible, InHandler
    <3>2. Control'
      BY <2>1 DEF ProcTypes, Control, Slot, Interruptible, InHandler, Living, ForkPcs
    <3>3. Slot'
      BY <2>1 DEF ProcTypes, Control, Slot, Pointers, Fields, Living, ForkPcs, HasDir
    <3>4. Pointers'
      BY <2>1 DEF ProcTypes, Control, Slot, Pointers, Ptr, Fields, Living, ForkPcs, HasDir
    <3>5. Loops'
      BY <2>1 DEF ProcTypes, Loops, Control, Pages
    <3> QED BY <3>1, <3>2, <3>3, <3>4, <3>5
  <2> QED
    BY <1>16, <2>1 DEF GrowDone, Return
<1>17. ASSUME NEW p \in Procs, DeallocPage(p)
      PROVE  CtlInv'
  <2>1. CASE
           /\ panicked' = "kfree"
           /\ UNCHANGED <<kp, state, sz, parent, np, newsz, i, pc, cpu, ptlock>>
    BY <2>1 DEF CtlInv, ProcTypes, Control, Slot, Pointers, Loops
  <2>2. CASE UNCHANGED <<kp, state, sz, parent, np, newsz, i, pc, cpu, ptlock, panicked>>
    BY <2>2, CtlUnchanged
  <2> QED
    BY <1>17, <2>1, <2>2 DEF DeallocPage, FreeEntry, Panic
<1>18. ASSUME NEW p \in Procs, ShrinkDone(p)
      PROVE  CtlInv'
  <2>1. CASE
           /\ pc[p] = "shrink"
           /\ \E c \in CPUs : cpu[c] = p
           /\ pc' = [pc EXCEPT ![p] = "user"]
           /\ np' = [np EXCEPT ![p] = NoProc]
           /\ newsz' = [newsz EXCEPT ![p] = 0]
           /\ i' = [i EXCEPT ![p] = 0]
           /\ UNCHANGED <<kp, state, sz, parent, cpu, ptlock, panicked>>
    <3>1. ProcTypes'
      BY <2>1 DEF ProcTypes, Control, Loops, Pages, Ptr, Fields, Interruptible, InHandler
    <3>2. Control'
      BY <2>1 DEF ProcTypes, Control, Slot, Interruptible, InHandler, Living, ForkPcs
    <3>3. Slot'
      BY <2>1 DEF ProcTypes, Control, Slot, Pointers, Fields, Living, ForkPcs, HasDir
    <3>4. Pointers'
      BY <2>1 DEF ProcTypes, Control, Slot, Pointers, Ptr, Fields, Living, ForkPcs, HasDir
    <3>5. Loops'
      BY <2>1 DEF ProcTypes, Loops, Control, Pages
    <3> QED BY <3>1, <3>2, <3>3, <3>4, <3>5
  <2>2. CASE
           /\ pc[p] = "shrink"
           /\ \E c \in CPUs : cpu[c] = p
           /\ sz' = [sz EXCEPT ![p] = newsz[p]]
           /\ pc' = [pc EXCEPT ![p] = "user"]
           /\ np' = [np EXCEPT ![p] = NoProc]
           /\ newsz' = [newsz EXCEPT ![p] = 0]
           /\ i' = [i EXCEPT ![p] = 0]
           /\ UNCHANGED <<kp, state, parent, cpu, ptlock, panicked>>
    <3>1. ProcTypes'
      BY <2>2 DEF ProcTypes, Control, Loops, Pages, Ptr, Fields, Interruptible, InHandler
    <3>2. Control'
      BY <2>2 DEF ProcTypes, Control, Slot, Interruptible, InHandler, Living, ForkPcs
    <3>3. Slot'
      BY <2>2 DEF ProcTypes, Control, Slot, Pointers, Fields, Living, ForkPcs, HasDir
    <3>4. Pointers'
      BY <2>2 DEF ProcTypes, Control, Slot, Pointers, Ptr, Fields, Living, ForkPcs, HasDir
    <3>5. Loops'
      BY <2>2 DEF ProcTypes, Loops, Control, Pages
    <3> QED BY <3>1, <3>2, <3>3, <3>4, <3>5
  <2> QED
    BY <1>18, <2>1, <2>2 DEF ShrinkDone, Return
<1>19. ASSUME NEW p \in Procs, GrowFailed(p)
      PROVE  CtlInv'
  <2>1. CASE
           /\ pc[p] = "undo"
           /\ \E c \in CPUs : cpu[c] = p
           /\ pc' = [pc EXCEPT ![p] = "user"]
           /\ np' = [np EXCEPT ![p] = NoProc]
           /\ newsz' = [newsz EXCEPT ![p] = 0]
           /\ i' = [i EXCEPT ![p] = 0]
           /\ UNCHANGED <<kp, state, sz, parent, cpu, ptlock, panicked>>
    <3>1. ProcTypes'
      BY <2>1 DEF ProcTypes, Control, Loops, Pages, Ptr, Fields, Interruptible, InHandler
    <3>2. Control'
      BY <2>1 DEF ProcTypes, Control, Slot, Interruptible, InHandler, Living, ForkPcs
    <3>3. Slot'
      BY <2>1 DEF ProcTypes, Control, Slot, Pointers, Fields, Living, ForkPcs, HasDir
    <3>4. Pointers'
      BY <2>1 DEF ProcTypes, Control, Slot, Pointers, Ptr, Fields, Living, ForkPcs, HasDir
    <3>5. Loops'
      BY <2>1 DEF ProcTypes, Loops, Control, Pages
    <3> QED BY <3>1, <3>2, <3>3, <3>4, <3>5
  <2> QED
    BY <1>19, <2>1 DEF GrowFailed, Return
<1>20. ASSUME NEW p \in Procs, NEW v \in Pages, NEW x \in Values, UserWrite(p, v, x)
      PROVE  CtlInv'
  BY <1>20, CtlUnchanged DEF UserWrite
<1>21. ASSUME NEW p \in Procs, NEW v \in Pages, NEW x \in Values, KernelWrite(p, v, x)
      PROVE  CtlInv'
  BY <1>21, CtlUnchanged DEF KernelWrite
<1>22. ASSUME NEW p \in Procs, NEW v \in Pages, WriteFault(p, v)
      PROVE  CtlInv'
  <2>1. CASE
           /\ pc[p] = "user"
           /\ \E c \in CPUs : cpu[c] = p
           /\ i' = [i EXCEPT ![p] = v]
           /\ pc' = [pc EXCEPT ![p] = "ref"]
           /\ UNCHANGED <<kp, state, sz, parent, np, newsz, cpu, ptlock, panicked>>
    <3>1. ProcTypes'
      BY <2>1 DEF ProcTypes, Control, Loops, Pages, Ptr, Fields, Interruptible, InHandler
    <3>2. Control'
      BY <2>1 DEF ProcTypes, Control, Slot, Interruptible, InHandler, Living, ForkPcs
    <3>3. Slot'
      BY <2>1 DEF ProcTypes, Control, Slot, Pointers, Fields, Living, ForkPcs, HasDir
    <3>4. Pointers'
      BY <2>1 DEF ProcTypes, Control, Slot, Pointers, Ptr, Fields, Living, ForkPcs, HasDir
    <3>5. Loops'
      BY <2>1 DEF ProcTypes, Loops, Control, Pages
    <3> QED BY <3>1, <3>2, <3>3, <3>4, <3>5
  <2> QED
    BY <1>22, <2>1 DEF WriteFault
<1>23. ASSUME NEW p \in Procs, NEW v \in Pages, BadAccess(p, v)
      PROVE  CtlInv'
  <2>1. CASE
           /\ pc[p] = "user"
           /\ \E c \in CPUs : cpu[c] = p
           /\ pc' = [pc EXCEPT ![p] = "exit"]
           /\ UNCHANGED <<kp, state, sz, parent, np, newsz, i, cpu, ptlock, panicked>>
    <3>1. ProcTypes'
      BY <2>1 DEF ProcTypes, Control, Loops, Pages, Ptr, Fields, Interruptible, InHandler
    <3>2. Control'
      BY <2>1 DEF ProcTypes, Control, Slot, Interruptible, InHandler, Living, ForkPcs
    <3>3. Slot'
      BY <2>1 DEF ProcTypes, Control, Slot, Pointers, Fields, Living, ForkPcs, HasDir
    <3>4. Pointers'
      BY <2>1 DEF ProcTypes, Control, Slot, Pointers, Ptr, Fields, Living, ForkPcs, HasDir
    <3>5. Loops'
      BY <2>1 DEF ProcTypes, Loops, Control, Pages
    <3> QED BY <3>1, <3>2, <3>3, <3>4, <3>5
  <2> QED
    BY <1>23, <2>1 DEF BadAccess
<1>24. ASSUME NEW p \in Procs, ReadRef(p)
      PROVE  CtlInv'
  <2>1. CASE
           /\ pc[p] = "ref"
           /\ \E c \in CPUs : cpu[c] = p
           /\ pc' = [pc EXCEPT ![p] = "user"]
           /\ np' = [np EXCEPT ![p] = NoProc]
           /\ newsz' = [newsz EXCEPT ![p] = 0]
           /\ i' = [i EXCEPT ![p] = 0]
           /\ UNCHANGED <<kp, state, sz, parent, cpu, ptlock, panicked>>
    <3>1. ProcTypes'
      BY <2>1 DEF ProcTypes, Control, Loops, Pages, Ptr, Fields, Interruptible, InHandler
    <3>2. Control'
      BY <2>1 DEF ProcTypes, Control, Slot, Interruptible, InHandler, Living, ForkPcs
    <3>3. Slot'
      BY <2>1 DEF ProcTypes, Control, Slot, Pointers, Fields, Living, ForkPcs, HasDir
    <3>4. Pointers'
      BY <2>1 DEF ProcTypes, Control, Slot, Pointers, Ptr, Fields, Living, ForkPcs, HasDir
    <3>5. Loops'
      BY <2>1 DEF ProcTypes, Loops, Control, Pages
    <3> QED BY <3>1, <3>2, <3>3, <3>4, <3>5
  <2>2. CASE
           /\ pc[p] = "ref"
           /\ \E c \in CPUs : cpu[c] = p
           /\ pc' = [pc EXCEPT ![p] = "dup"]
           /\ UNCHANGED <<kp, state, sz, parent, np, newsz, i, cpu, ptlock, panicked>>
    <3>1. ProcTypes'
      BY <2>2 DEF ProcTypes, Control, Loops, Pages, Ptr, Fields, Interruptible, InHandler
    <3>2. Control'
      BY <2>2 DEF ProcTypes, Control, Slot, Interruptible, InHandler, Living, ForkPcs
    <3>3. Slot'
      BY <2>2 DEF ProcTypes, Control, Slot, Pointers, Fields, Living, ForkPcs, HasDir
    <3>4. Pointers'
      BY <2>2 DEF ProcTypes, Control, Slot, Pointers, Ptr, Fields, Living, ForkPcs, HasDir
    <3>5. Loops'
      BY <2>2 DEF ProcTypes, Loops, Control, Pages
    <3> QED BY <3>1, <3>2, <3>3, <3>4, <3>5
  <2> QED
    BY <1>24, <2>1, <2>2 DEF ReadRef, Return
<1>25. ASSUME NEW p \in Procs, AllocCopy(p)
      PROVE  CtlInv'
  <2>1. CASE
           /\ pc[p] = "dup"
           /\ \E c \in CPUs : cpu[c] = p
           /\ pc' = [pc EXCEPT ![p] = "dec"]
           /\ UNCHANGED <<kp, state, sz, parent, np, newsz, i, cpu, ptlock, panicked>>
    <3>1. ProcTypes'
      BY <2>1 DEF ProcTypes, Control, Loops, Pages, Ptr, Fields, Interruptible, InHandler
    <3>2. Control'
      BY <2>1 DEF ProcTypes, Control, Slot, Interruptible, InHandler, Living, ForkPcs
    <3>3. Slot'
      BY <2>1 DEF ProcTypes, Control, Slot, Pointers, Fields, Living, ForkPcs, HasDir
    <3>4. Pointers'
      BY <2>1 DEF ProcTypes, Control, Slot, Pointers, Ptr, Fields, Living, ForkPcs, HasDir
    <3>5. Loops'
      BY <2>1 DEF ProcTypes, Loops, Control, Pages
    <3> QED BY <3>1, <3>2, <3>3, <3>4, <3>5
  <2>2. CASE
           /\ pc[p] = "dup"
           /\ \E c \in CPUs : cpu[c] = p
           /\ \E f \in Frames : kp' = [kp EXCEPT !["mem"][p] = f]
           /\ pc' = [pc EXCEPT ![p] = "dec"]
           /\ UNCHANGED <<state, sz, parent, np, newsz, i, cpu, ptlock, panicked>>
    <3>1. ProcTypes'
      BY <2>2 DEF ProcTypes, Control, Loops, Pages, Ptr, Fields, Interruptible, InHandler
    <3>2. Control'
      BY <2>2 DEF ProcTypes, Control, Slot, Interruptible, InHandler, Living, ForkPcs
    <3>3. Slot'
      BY <2>2 DEF ProcTypes, Control, Slot, Pointers, Fields, Living, ForkPcs, HasDir
    <3>4. Pointers'
      BY <2>2 DEF ProcTypes, Control, Slot, Pointers, Ptr, Fields, Living, ForkPcs, HasDir
    <3>5. Loops'
      BY <2>2 DEF ProcTypes, Loops, Control, Pages
    <3> QED BY <3>1, <3>2, <3>3, <3>4, <3>5
  <2> QED
    BY <1>25, <2>1, <2>2 DEF AllocCopy, MemTypes
<1>26. ASSUME NEW p \in Procs, DecRef(p)
      PROVE  CtlInv'
  <2>1. CASE
           /\ pc[p] = "dec"
           /\ \E c \in CPUs : cpu[c] = p
           /\ pc' = [pc EXCEPT ![p] = "copy"]
           /\ UNCHANGED <<kp, state, sz, parent, np, newsz, i, cpu, ptlock, panicked>>
    <3>1. ProcTypes'
      BY <2>1 DEF ProcTypes, Control, Loops, Pages, Ptr, Fields, Interruptible, InHandler
    <3>2. Control'
      BY <2>1 DEF ProcTypes, Control, Slot, Interruptible, InHandler, Living, ForkPcs
    <3>3. Slot'
      BY <2>1 DEF ProcTypes, Control, Slot, Pointers, Fields, Living, ForkPcs, HasDir
    <3>4. Pointers'
      BY <2>1 DEF ProcTypes, Control, Slot, Pointers, Ptr, Fields, Living, ForkPcs, HasDir
    <3>5. Loops'
      BY <2>1 DEF ProcTypes, Loops, Control, Pages
    <3> QED BY <3>1, <3>2, <3>3, <3>4, <3>5
  <2> QED
    BY <1>26, <2>1 DEF DecRef
<1>27. ASSUME NEW p \in Procs, CopyPage(p)
      PROVE  CtlInv'
  <2>1. CASE
           /\ pc[p] = "copy"
           /\ \E c \in CPUs : cpu[c] = p
           /\ kp' = [kp EXCEPT !["mem"][p] = NoFrame]
           /\ pc' = [pc EXCEPT ![p] = "user"]
           /\ np' = [np EXCEPT ![p] = NoProc]
           /\ newsz' = [newsz EXCEPT ![p] = 0]
           /\ i' = [i EXCEPT ![p] = 0]
           /\ UNCHANGED <<state, sz, parent, cpu, ptlock, panicked>>
    <3>1. ProcTypes'
      BY <2>1 DEF ProcTypes, Control, Loops, Pages, Ptr, Fields, Interruptible, InHandler
    <3>2. Control'
      BY <2>1 DEF ProcTypes, Control, Slot, Interruptible, InHandler, Living, ForkPcs
    <3>3. Slot'
      BY <2>1 DEF ProcTypes, Control, Slot, Pointers, Fields, Living, ForkPcs, HasDir
    <3>4. Pointers'
      BY <2>1 DEF ProcTypes, Control, Slot, Pointers, Ptr, Fields, Living, ForkPcs, HasDir
    <3>5. Loops'
      BY <2>1 DEF ProcTypes, Loops, Control, Pages
    <3> QED BY <3>1, <3>2, <3>3, <3>4, <3>5
  <2>2. CASE
           /\ pc[p] = "copy"
           /\ \E c \in CPUs : cpu[c] = p
           /\ pc' = [pc EXCEPT ![p] = "exit"]
           /\ kp["mem"][p] = NoFrame
           /\ UNCHANGED <<kp, state, sz, parent, np, newsz, i, cpu, ptlock, panicked>>
    <3>1. ProcTypes'
      BY <2>2 DEF ProcTypes, Control, Loops, Pages, Ptr, Fields, Interruptible, InHandler
    <3>2. Control'
      BY <2>2 DEF ProcTypes, Control, Slot, Interruptible, InHandler, Living, ForkPcs
    <3>3. Slot'
      BY <2>2 DEF ProcTypes, Control, Slot, Pointers, Fields, Living, ForkPcs, HasDir
    <3>4. Pointers'
      BY <2>2 DEF ProcTypes, Control, Slot, Pointers, Ptr, Fields, Living, ForkPcs, HasDir
    <3>5. Loops'
      BY <2>2 DEF ProcTypes, Loops, Control, Pages
    <3> QED BY <3>1, <3>2, <3>3, <3>4, <3>5
  <2> QED
    BY <1>27, <2>1, <2>2 DEF CopyPage, Return
<1>28. ASSUME NEW p \in Procs, Exit(p)
      PROVE  CtlInv'
  <2>1. CASE
           /\ panicked' = "init_exiting"
           /\ UNCHANGED <<kp, state, sz, parent, np, newsz, i, pc, cpu, ptlock>>
    BY <2>1 DEF CtlInv, ProcTypes, Control, Slot, Pointers, Loops
  <2>2. CASE
           /\ pc[p] \in {"user", "exit"}
           /\ \E c \in CPUs : cpu[c] = p
           /\ ptlock = NoProc
           /\ state'[p] = "ZOMBIE"
           /\ \A q \in Procs \ {p} : state'[q] = state[q] \/ (state[q] = "SLEEPING" /\ state'[q] = "RUNNABLE")
           /\ state' \in [Procs -> {"UNUSED", "EMBRYO", "SLEEPING", "RUNNABLE",
                                "RUNNING", "ZOMBIE"}]
           /\ parent' = [q \in Procs |-> IF parent[q] = p THEN InitProc ELSE parent[q]]
           /\ cpu' = [c \in CPUs |-> IF cpu[c] = p THEN NoProc ELSE cpu[c]]
           /\ pc' = [pc EXCEPT ![p] = "user"]
           /\ i' = [i EXCEPT ![p] = 0]
           /\ UNCHANGED <<kp, sz, np, newsz, ptlock>>
           /\ panicked' = panicked
    <3>1. ProcTypes'
      BY <2>2 DEF ProcTypes, Control, Loops, Pages, Ptr, Fields, Interruptible, InHandler
    <3>2. Control'
      BY <2>2 DEF ProcTypes, Control, Slot, Interruptible, InHandler, Living, ForkPcs
    <3>3. Slot'
      BY <2>2 DEF ProcTypes, Control, Slot, Pointers, Fields, Living, ForkPcs, HasDir
    <3>4. Pointers'
      BY <2>2 DEF ProcTypes, Control, Slot, Pointers, Ptr, Fields, Living, ForkPcs, HasDir
    <3>5. Loops'
      BY <2>2 DEF ProcTypes, Loops, Control, Pages
    <3> QED BY <3>1, <3>2, <3>3, <3>4, <3>5
  <2> QED
    BY <1>28, <2>1, <2>2 DEF Exit, Panic, ProcTypes
<1>29. ASSUME NEW p \in Procs, Wait(p)
      PROVE  CtlInv'
  <2>1. ASSUME NEW z \in Procs,
                  pc[p] \in {"user", "wait"},
                  \E c \in CPUs : cpu[c] = p,
                  ptlock = NoProc,
                  state[z] = "ZOMBIE",
                  np' = [np EXCEPT ![p] = z],
                  kp' \in [Fields -> [Procs -> Ptr]],
                  \A q \in Procs : kp'["kstack"][q] = IF q = z THEN NoFrame ELSE kp["kstack"][q],
                  \A q \in Procs : kp'["pgdir"][q] = IF q = z THEN NoFrame ELSE kp["pgdir"][q],
                  \A q \in Procs : kp'["d"][q] = IF q = p THEN kp["pgdir"][z] ELSE kp["d"][q],
                  \A q \in Procs : kp'["mem"][q] = kp["mem"][q],
                  ptlock' = p,
                  pc' = [pc EXCEPT ![p] = "free"],
                  UNCHANGED <<state, sz, parent, newsz, i, cpu, panicked>>
       PROVE  CtlInv'
    <3>1. ProcTypes'
      BY <2>1 DEF ProcTypes, Control, Loops, Pages, Ptr, Fields, Interruptible, InHandler
    <3>2. Control'
      BY <2>1 DEF ProcTypes, Control, Slot, Interruptible, InHandler, Living, ForkPcs
    <3>3. Slot'
      BY <2>1 DEF ProcTypes, Control, Slot, Pointers, Fields, Living, ForkPcs, HasDir
    <3>4. Pointers'
      BY <2>1 DEF ProcTypes, Control, Slot, Pointers, Ptr, Fields, Living, ForkPcs, HasDir
    <3>5. Loops'
      BY <2>1 DEF ProcTypes, Loops, Control, Pages
    <3> QED BY <3>1, <3>2, <3>3, <3>4, <3>5
  <2>2. CASE
           /\ pc[p] \in {"user", "wait"}
           /\ \E c \in CPUs : cpu[c] = p
           /\ ptlock = NoProc
           /\ state' = [state EXCEPT ![p] = "SLEEPING"]
           /\ cpu' = [c \in CPUs |-> IF cpu[c] = p THEN NoProc ELSE cpu[c]]
           /\ pc' = [pc EXCEPT ![p] = "wait"]
           /\ UNCHANGED <<kp, sz, parent, np, newsz, i, ptlock, panicked>>
    <3>1. ProcTypes'
      BY <2>2 DEF ProcTypes, Control, Loops, Pages, Ptr, Fields, Interruptible, InHandler
    <3>2. Control'
      BY <2>2 DEF ProcTypes, Control, Slot, Interruptible, InHandler, Living, ForkPcs
    <3>3. Slot'
      BY <2>2 DEF ProcTypes, Control, Slot, Pointers, Fields, Living, ForkPcs, HasDir
    <3>4. Pointers'
      BY <2>2 DEF ProcTypes, Control, Slot, Pointers, Ptr, Fields, Living, ForkPcs, HasDir
    <3>5. Loops'
      BY <2>2 DEF ProcTypes, Loops, Control, Pages
    <3> QED BY <3>1, <3>2, <3>3, <3>4, <3>5
  <2>3. CASE
           /\ pc[p] \in {"user", "wait"}
           /\ \E c \in CPUs : cpu[c] = p
           /\ ptlock = NoProc
           /\ pc' = [pc EXCEPT ![p] = "user"]
           /\ UNCHANGED <<kp, state, sz, parent, np, newsz, i, cpu, ptlock, panicked>>
    <3>1. ProcTypes'
      BY <2>3 DEF ProcTypes, Control, Loops, Pages, Ptr, Fields, Interruptible, InHandler
    <3>2. Control'
      BY <2>3 DEF ProcTypes, Control, Slot, Interruptible, InHandler, Living, ForkPcs
    <3>3. Slot'
      BY <2>3 DEF ProcTypes, Control, Slot, Pointers, Fields, Living, ForkPcs, HasDir
    <3>4. Pointers'
      BY <2>3 DEF ProcTypes, Control, Slot, Pointers, Ptr, Fields, Living, ForkPcs, HasDir
    <3>5. Loops'
      BY <2>3 DEF ProcTypes, Loops, Control, Pages
    <3> QED BY <3>1, <3>2, <3>3, <3>4, <3>5
  <2>4. ASSUME NEW z \in Procs,
               kp' = [kp EXCEPT !["kstack"][z] = NoFrame, !["d"][p] = kp["pgdir"][z],
                                !["pgdir"][z] = NoFrame]
       PROVE
             /\ kp' \in [Fields -> [Procs -> Ptr]]
             /\ \A q \in Procs : kp'["kstack"][q] = IF q = z THEN NoFrame ELSE kp["kstack"][q]
             /\ \A q \in Procs : kp'["pgdir"][q] = IF q = z THEN NoFrame ELSE kp["pgdir"][q]
             /\ \A q \in Procs : kp'["d"][q] = IF q = p THEN kp["pgdir"][z] ELSE kp["d"][q]
             /\ \A q \in Procs : kp'["mem"][q] = kp["mem"][q]
    BY <2>4 DEF ProcTypes, Fields, Ptr
  <2> QED
    BY <1>29, <2>1, <2>2, <2>3, <2>4 DEF Wait
<1>30. ASSUME NEW c \in CPUs, NEW p \in Procs, Dispatch(c, p)
      PROVE  CtlInv'
  <2>1. CASE
           /\ ptlock = NoProc
           /\ state[p] = "RUNNABLE"
           /\ cpu' = [cpu EXCEPT ![c] = p]
           /\ state' = [state EXCEPT ![p] = "RUNNING"]
           /\ cpu[c] = NoProc
           /\ UNCHANGED <<kp, sz, parent, np, newsz, i, pc, ptlock, panicked>>
    <3>1. ProcTypes'
      BY <2>1 DEF ProcTypes, Control, Loops, Pages, Ptr, Fields, Interruptible, InHandler
    <3>2. Control'
      BY <2>1 DEF ProcTypes, Control, Slot, Interruptible, InHandler, Living, ForkPcs
    <3>3. Slot'
      BY <2>1 DEF ProcTypes, Control, Slot, Pointers, Fields, Living, ForkPcs, HasDir
    <3>4. Pointers'
      BY <2>1 DEF ProcTypes, Control, Slot, Pointers, Ptr, Fields, Living, ForkPcs, HasDir
    <3>5. Loops'
      BY <2>1 DEF ProcTypes, Loops, Control, Pages
    <3> QED BY <3>1, <3>2, <3>3, <3>4, <3>5
  <2> QED
    BY <1>30, <2>1 DEF Dispatch
<1>31. ASSUME NEW c \in CPUs, NEW p \in Procs, Preempt(c, p)
      PROVE  CtlInv'
  <2>1. CASE
           /\ ptlock = NoProc
           /\ cpu[c] = p
           /\ pc[p] \in Interruptible
           /\ cpu' = [cpu EXCEPT ![c] = NoProc]
           /\ state' = [state EXCEPT ![p] = "RUNNABLE"]
           /\ UNCHANGED <<kp, sz, parent, np, newsz, i, pc, ptlock, panicked>>
    <3>1. ProcTypes'
      BY <2>1 DEF ProcTypes, Control, Loops, Pages, Ptr, Fields, Interruptible, InHandler
    <3>2. Control'
      BY <2>1 DEF ProcTypes, Control, Slot, Interruptible, InHandler, Living, ForkPcs
    <3>3. Slot'
      BY <2>1 DEF ProcTypes, Control, Slot, Pointers, Fields, Living, ForkPcs, HasDir
    <3>4. Pointers'
      BY <2>1 DEF ProcTypes, Control, Slot, Pointers, Ptr, Fields, Living, ForkPcs, HasDir
    <3>5. Loops'
      BY <2>1 DEF ProcTypes, Loops, Control, Pages
    <3> QED BY <3>1, <3>2, <3>3, <3>4, <3>5
  <2> QED
    BY <1>31, <2>1 DEF Preempt
<1>32. CASE UNCHANGED vars
  BY <1>32, CtlUnchanged DEF vars
<1> QED
  BY <1>1, <1>2, <1>3, <1>4, <1>5, <1>6, <1>7, <1>8, <1>9, <1>10, <1>11, <1>12, <1>13, <1>14, <1>15, <1>16, <1>17, <1>18, <1>19, <1>20, <1>21, <1>22, <1>23, <1>24, <1>25, <1>26, <1>27, <1>28, <1>29, <1>30, <1>31, <1>32 DEF Next, ForkStep, ExecStep, FreeStep,
     SbrkStep, UserStep, FaultStep, ExitStep, SchedStep

LEMMA KAllocType ==
  ASSUME MemTypes, NEW f \in free, KAlloc(f)
  PROVE  f \in Frames /\ (DOMAIN data' = Frames => MemTypes')
BY DEF MemTypes, KAlloc

LEMMA KFreeType ==
  ASSUME MemTypes, NEW f \in Frames, KFree(f)
  PROVE  MemTypes'
BY DEF MemTypes, KFree

LEMMA RefType ==
  ASSUME MemTypes, NEW f, IncPageRef(f) \/ DecPageRef(f),
         UNCHANGED <<free, free_pages, data>>
  PROVE  MemTypes'
BY DEF MemTypes, IncPageRef, DecPageRef

LEMMA MapPageType ==
  ASSUME PageTypes, NEW d \in Frames, NEW v \in Pages, NEW e \in Entry,
         MapPage(d, v, e), UNCHANGED <<tables, dropped>>,
         stale' \in [Procs -> SUBSET Pages]
  PROVE  PageTypes'
BY DEF PageTypes, MapPage

LEMMA PteType ==
  ASSUME PageTypes, NEW d \in Frames, NEW v \in Pages, NEW e \in Entry,
         pte' = [pte EXCEPT ![d][v] = e]
  PROVE  pte' \in [Frames -> [Pages -> Entry]]
BY DEF PageTypes

LEMMA UnmapType ==
  ASSUME PageTypes, NEW d \in Frames, NEW v \in Pages,
         Unmap(d, v), UNCHANGED <<tables, dropped>>,
         stale' \in [Procs -> SUBSET Pages]
  PROVE  PageTypes'
BY DEF PageTypes, Unmap, Entry

(* The directories and frames that pointers hold. *)
LEMMA PointerFrames ==
  ASSUME Inv1, NEW p \in Procs
  PROVE  /\ \A x \in Fields : kp[x][p] \in Ptr
         /\ pc[p] \in HasDir => kp["d"][p] \in Frames
         /\ Running(p) => kp["pgdir"][p] \in Frames /\ kp["kstack"][p] \in Frames
         /\ state[p] = "ZOMBIE" /\ ptlock = NoProc
              => kp["pgdir"][p] \in Frames /\ kp["kstack"][p] \in Frames
  <1>1. \A x \in Fields : kp[x][p] \in Ptr
    BY DEF Inv1, CtlInv, ProcTypes
  <1>2. Running(p) => state[p] = "RUNNING"
    BY NameAssumption DEF Running, Inv1, CtlInv, Control
  <1> QED
    BY <1>1, <1>2 DEF Inv1, CtlInv, Pointers, Living, Fields, Ptr

(* Each action keeps the types of the allocator and of the page tables. *)
LEMMA TypesNext == Inv1 /\ [Next]_vars => MemTypes' /\ PageTypes'
<1> SUFFICES ASSUME Inv1, [Next]_vars PROVE MemTypes' /\ PageTypes'
  OBVIOUS
<1> USE SizeAssumption, NameAssumption DEF kmem, vm, procs, locals
<1>1. ASSUME NEW p \in Procs, Fork(p)
      PROVE  MemTypes' /\ PageTypes'
  <2>1. MemTypes'
    BY <1>1 DEF Fork, Inv1, MemTypes
  <2>2. PageTypes'
    BY <1>1 DEF Fork, Inv1, PageTypes
  <2> QED BY <2>1, <2>2
<1>2. ASSUME NEW p \in Procs, AllocKstack(p)
      PROVE  MemTypes' /\ PageTypes'
  <2>1. MemTypes'
    BY <1>2, KAllocType DEF AllocKstack, Inv1, MemTypes
  <2>2. PageTypes'
    BY <1>2 DEF AllocKstack, Inv1, PageTypes
  <2> QED BY <2>1, <2>2
<1>3. ASSUME NEW p \in Procs, KvmDir(p)
      PROVE  MemTypes' /\ PageTypes'
  <2>1. MemTypes'
    BY <1>3, KAllocType, KFreeType DEF KvmDir, KvmFailed, Forking, CtlInv, ProcTypes, Slot, ForkPcs, Ptr, Fields, At, Inv1, MemTypes
  <2>2. PageTypes'
    BY <1>3 DEF KvmDir, KvmFailed, Forking, Inv1, PageTypes
  <2> QED BY <2>1, <2>2
<1>4. ASSUME NEW p \in Procs, KvmTable(p)
      PROVE  MemTypes' /\ PageTypes'
  <2>1. MemTypes'
    BY <1>4, KAllocType, KFreeType DEF KvmTable, KvmFailed, Forking, CtlInv, ProcTypes, Slot, ForkPcs, Ptr, Fields, At, Inv1, MemTypes
  <2>2. kp["d"][p] \in Frames
    BY <1>4, PointerFrames DEF KvmTable, At, HasDir
  <2>3. \A f \in free : f \in Frames
    BY DEF Inv1, MemTypes
  <2>4. PageTypes'
    BY <1>4, <2>2, <2>3 DEF KvmTable, KvmFailed, Inv1, PageTypes
  <2> QED BY <2>1, <2>4
<1>5. ASSUME NEW p \in Procs, CowPage(p)
      PROVE  MemTypes' /\ PageTypes'
  <2>1. MemTypes'
    BY <1>5 DEF CowPage, ClearW, Inv1, MemTypes
  <2>2. kp["pgdir"][p] \in Frames /\ kp["d"][p] \in Frames
    BY <1>5, PointerFrames DEF CowPage, At, HasDir
  <2>3. i[p] \in Pages
    BY <1>5 DEF CowPage, At, Inv1, CtlInv, ProcTypes, Loops, Pages
  <2>4. pte[kp["pgdir"][p]][i[p]] \in Entry
    BY <2>2, <2>3 DEF Inv1, PageTypes
  <2>5. \/ UNCHANGED <<pte, writable, stale>>
       \/ /\ pte' = [pte EXCEPT ![kp["d"][p]][i[p]] = pte[kp["pgdir"][p]][i[p]]]
          /\ writable' = [writable EXCEPT ![kp["pgdir"][p]] = @ \ {i[p]}]
          /\ stale' = [stale EXCEPT ![p] = @ \cup {i[p]}]
    BY <1>5 DEF CowPage, ClearW
  <2>6. pte' \in [Frames -> [Pages -> Entry]]
    BY <2>2, <2>3, <2>4, <2>5, PteType DEF Inv1, PageTypes
  <2>7. writable' \in [Frames -> SUBSET Pages]
    BY <2>2, <2>5 DEF Inv1, PageTypes
  <2>8. stale' \in [Procs -> SUBSET Pages]
    BY <2>3, <2>5 DEF Inv1, PageTypes
  <2>9. PageTypes'
    BY <1>5, <2>6, <2>7, <2>8 DEF CowPage, Inv1, PageTypes
  <2> QED BY <2>1, <2>9
<1>6. ASSUME NEW p \in Procs, CowInc(p)
      PROVE  MemTypes' /\ PageTypes'
  <2>1. MemTypes'
    BY <1>6, RefType DEF CowInc, Inv1
  <2>2. PageTypes'
    BY <1>6 DEF CowInc, IncPageRef, Inv1, PageTypes
  <2> QED BY <2>1, <2>2
<1>7. ASSUME NEW p \in Procs, ForkDone(p)
      PROVE  MemTypes' /\ PageTypes'
  <2>1. MemTypes'
    BY <1>7 DEF ForkDone, Flush, Inv1, MemTypes
  <2>2. PageTypes'
    BY <1>7 DEF ForkDone, Flush, Inv1, PageTypes
  <2> QED BY <2>1, <2>2
<1>8. ASSUME NEW p \in Procs, NEW n \in 0 .. NPages, Exec(p, n)
      PROVE  MemTypes' /\ PageTypes'
  <2>1. MemTypes'
    BY <1>8 DEF Exec, Inv1, MemTypes
  <2>2. PageTypes'
    BY <1>8 DEF Exec, Inv1, PageTypes
  <2> QED BY <2>1, <2>2
<1>9. ASSUME NEW p \in Procs, LoadPage(p)
      PROVE  MemTypes' /\ PageTypes'
  <2>1. MemTypes'
    BY <1>9, KAllocType DEF LoadPage, MapPage, More, Inv1, MemTypes
  <2>2. kp["d"][p] \in Frames /\ i[p] \in Pages
    BY <1>9, PointerFrames DEF LoadPage, More, At, HasDir, Inv1, CtlInv, ProcTypes, Pages
  <2>3. \A f \in free : f \in Entry
    BY DEF Inv1, MemTypes, Entry
  <2>4. PageTypes'
    BY <1>9, <2>2, <2>3, MapPageType DEF LoadPage, Inv1, PageTypes
  <2> QED BY <2>1, <2>4
<1>10. ASSUME NEW p \in Procs, ExecCommit(p)
      PROVE  MemTypes' /\ PageTypes'
  <2>1. MemTypes'
    BY <1>10 DEF ExecCommit, Flush, Inv1, MemTypes
  <2>2. PageTypes'
    BY <1>10 DEF ExecCommit, Flush, Inv1, PageTypes
  <2> QED BY <2>1, <2>2
<1>11. ASSUME NEW p \in Procs, FreePage(p)
      PROVE  MemTypes' /\ PageTypes'
  <2>1. MemTypes'
    BY <1>11, KFreeType DEF FreePage, FreeEntry, Unmap, Present, PageTypes, Entry, CtlInv, ProcTypes, Control, Pointers, HasDir, Living, Ptr, Fields, At, Running, Inv1, MemTypes
  <2>2. kp["d"][p] \in Frames
    BY <1>11, PointerFrames DEF FreePage, At, HasDir
  <2>3. PageTypes'
    BY <1>11, <2>2, UnmapType DEF FreePage, FreeEntry, Present, Inv1, PageTypes
  <2> QED BY <2>1, <2>3
<1>12. ASSUME NEW p \in Procs, FreeTable(p)
      PROVE  MemTypes' /\ PageTypes'
  <2>1. MemTypes'
    BY <1>12, KFreeType DEF FreeTable, PageTypes, CtlInv, ProcTypes, Control, Pointers, HasDir, Living, Ptr, Fields, At, Running, Inv1, MemTypes
  <2>2. kp["d"][p] \in Frames
    BY <1>12, PointerFrames DEF FreeTable, At, HasDir
  <2>3. PageTypes'
    BY <1>12, <2>2 DEF FreeTable, Inv1, PageTypes
  <2> QED BY <2>1, <2>3
<1>13. ASSUME NEW p \in Procs, FreeDir(p)
      PROVE  MemTypes' /\ PageTypes'
  <2>1. MemTypes'
    BY <1>13, KFreeType DEF FreeDir, CtlInv, ProcTypes, Control, Pointers, HasDir, Living, Ptr, Fields, At, Running, Inv1, MemTypes
  <2>2. PageTypes'
    BY <1>13 DEF FreeDir, Inv1, PageTypes
  <2> QED BY <2>1, <2>2
<1>14. ASSUME NEW p \in Procs, NEW n \in 0 .. NPages, Sbrk(p, n)
      PROVE  MemTypes' /\ PageTypes'
  <2>1. MemTypes'
    BY <1>14 DEF Sbrk, Inv1, MemTypes
  <2>2. PageTypes'
    BY <1>14 DEF Sbrk, Inv1, PageTypes
  <2> QED BY <2>1, <2>2
<1>15. ASSUME NEW p \in Procs, GrowPage(p)
      PROVE  MemTypes' /\ PageTypes'
  <2>1. MemTypes'
    BY <1>15, KAllocType DEF GrowPage, MapPage, More, Inv1, MemTypes
  <2>2. kp["pgdir"][p] \in Frames /\ i[p] \in Pages
    BY <1>15, PointerFrames DEF GrowPage, More, At, HasDir, Inv1, CtlInv, ProcTypes, Pages
  <2>3. \A f \in free : f \in Entry
    BY DEF Inv1, MemTypes, Entry
  <2>4. PageTypes'
    BY <1>15, <2>2, <2>3, MapPageType DEF GrowPage, Inv1, PageTypes
  <2> QED BY <2>1, <2>4
<1>16. ASSUME NEW p \in Procs, GrowDone(p)
      PROVE  MemTypes' /\ PageTypes'
  <2>1. MemTypes'
    BY <1>16 DEF GrowDone, Flush, Inv1, MemTypes
  <2>2. PageTypes'
    BY <1>16 DEF GrowDone, Flush, Inv1, PageTypes
  <2> QED BY <2>1, <2>2
<1>17. ASSUME NEW p \in Procs, DeallocPage(p)
      PROVE  MemTypes' /\ PageTypes'
  <2>1. MemTypes'
    BY <1>17, KFreeType DEF DeallocPage, FreeEntry, Unmap, Present, PageTypes, Entry, CtlInv, ProcTypes, Control, Pointers, HasDir, Living, Ptr, Fields, At, Running, Inv1, MemTypes
  <2>2. kp["pgdir"][p] \in Frames
    BY <1>17, PointerFrames DEF DeallocPage, At
  <2>3. PageTypes'
    BY <1>17, <2>2, UnmapType DEF DeallocPage, FreeEntry, Present, Inv1, PageTypes
  <2> QED BY <2>1, <2>3
<1>18. ASSUME NEW p \in Procs, ShrinkDone(p)
      PROVE  MemTypes' /\ PageTypes'
  <2>1. MemTypes'
    BY <1>18 DEF ShrinkDone, Flush, Inv1, MemTypes
  <2>2. PageTypes'
    BY <1>18 DEF ShrinkDone, Flush, Inv1, PageTypes
  <2> QED BY <2>1, <2>2
<1>19. ASSUME NEW p \in Procs, GrowFailed(p)
      PROVE  MemTypes' /\ PageTypes'
  <2>1. MemTypes'
    BY <1>19 DEF GrowFailed, Inv1, MemTypes
  <2>2. PageTypes'
    BY <1>19 DEF GrowFailed, Inv1, PageTypes
  <2> QED BY <2>1, <2>2
<1>20. ASSUME NEW p \in Procs, NEW v \in Pages, NEW x \in Values, UserWrite(p, v, x)
      PROVE  MemTypes' /\ PageTypes'
  <2>1. MemTypes'
    BY <1>20 DEF UserWrite, Inv1, MemTypes
  <2>2. PageTypes'
    BY <1>20 DEF UserWrite, Inv1, PageTypes
  <2> QED BY <2>1, <2>2
<1>21. ASSUME NEW p \in Procs, NEW v \in Pages, NEW x \in Values, KernelWrite(p, v, x)
      PROVE  MemTypes' /\ PageTypes'
  <2>1. MemTypes'
    BY <1>21 DEF KernelWrite, Inv1, MemTypes
  <2>2. PageTypes'
    BY <1>21 DEF KernelWrite, Inv1, PageTypes
  <2> QED BY <2>1, <2>2
<1>22. ASSUME NEW p \in Procs, NEW v \in Pages, WriteFault(p, v)
      PROVE  MemTypes' /\ PageTypes'
  <2>1. MemTypes'
    BY <1>22 DEF WriteFault, Inv1, MemTypes
  <2>2. PageTypes'
    BY <1>22 DEF WriteFault, Inv1, PageTypes
  <2> QED BY <2>1, <2>2
<1>23. ASSUME NEW p \in Procs, NEW v \in Pages, BadAccess(p, v)
      PROVE  MemTypes' /\ PageTypes'
  <2>1. MemTypes'
    BY <1>23 DEF BadAccess, Inv1, MemTypes
  <2>2. PageTypes'
    BY <1>23 DEF BadAccess, Inv1, PageTypes
  <2> QED BY <2>1, <2>2
<1>24. ASSUME NEW p \in Procs, ReadRef(p)
      PROVE  MemTypes' /\ PageTypes'
  <2>1. MemTypes'
    BY <1>24 DEF ReadRef, Flush, Inv1, MemTypes
  <2>2. kp["pgdir"][p] \in Frames /\ i[p] \in Pages
    BY <1>24, PointerFrames DEF ReadRef, At, Inv1, CtlInv, ProcTypes, Loops, Pages
  <2>3. PageTypes'
    BY <1>24, <2>2 DEF ReadRef, Flush, Inv1, PageTypes
  <2> QED BY <2>1, <2>3
<1>25. ASSUME NEW p \in Procs, AllocCopy(p)
      PROVE  MemTypes' /\ PageTypes'
  <2>1. MemTypes'
    BY <1>25, KAllocType DEF AllocCopy, Inv1, MemTypes
  <2>2. PageTypes'
    BY <1>25 DEF AllocCopy, Inv1, PageTypes
  <2> QED BY <2>1, <2>2
<1>26. ASSUME NEW p \in Procs, DecRef(p)
      PROVE  MemTypes' /\ PageTypes'
  <2>1. MemTypes'
    BY <1>26, RefType DEF DecRef, Inv1
  <2>2. PageTypes'
    BY <1>26 DEF DecRef, DecPageRef, Inv1, PageTypes
  <2> QED BY <2>1, <2>2
<1>27. ASSUME NEW p \in Procs, CopyPage(p)
      PROVE  MemTypes' /\ PageTypes'
  <2>1. MemTypes'
    BY <1>27 DEF CopyPage, Flush, MapPage, Inv1, MemTypes
  <2>2. kp["pgdir"][p] \in Frames /\ i[p] \in Pages
    BY <1>27, PointerFrames DEF CopyPage, At, Inv1, CtlInv, ProcTypes, Loops, Pages
  <2>3. kp["mem"][p] \in Ptr
    BY PointerFrames DEF Fields
  <2>4. PageTypes'
    BY <1>27, <2>2, <2>3, MapPageType DEF CopyPage, Flush, Inv1, PageTypes, Ptr, Entry
  <2> QED BY <2>1, <2>4
<1>28. ASSUME NEW p \in Procs, Exit(p)
      PROVE  MemTypes' /\ PageTypes'
  <2>1. MemTypes'
    BY <1>28 DEF Exit, Inv1, MemTypes
  <2>2. PageTypes'
    BY <1>28 DEF Exit, Inv1, PageTypes
  <2> QED BY <2>1, <2>2
<1>29. ASSUME NEW p \in Procs, Wait(p)
      PROVE  MemTypes' /\ PageTypes'
  <2>1. MemTypes'
    BY <1>29, KFreeType, PointerFrames DEF Wait, Inv1, MemTypes
  <2>2. PageTypes'
    BY <1>29 DEF Wait, Inv1, PageTypes
  <2> QED BY <2>1, <2>2
<1>30. ASSUME NEW c \in CPUs, NEW p \in Procs, Dispatch(c, p)
      PROVE  MemTypes' /\ PageTypes'
  <2>1. MemTypes'
    BY <1>30 DEF Dispatch, Flush, Inv1, MemTypes
  <2>2. PageTypes'
    BY <1>30 DEF Dispatch, Flush, Inv1, PageTypes
  <2> QED BY <2>1, <2>2
<1>31. ASSUME NEW c \in CPUs, NEW p \in Procs, Preempt(c, p)
      PROVE  MemTypes' /\ PageTypes'
  <2>1. MemTypes'
    BY <1>31 DEF Preempt, Inv1, MemTypes
  <2>2. PageTypes'
    BY <1>31 DEF Preempt, Inv1, PageTypes
  <2> QED BY <2>1, <2>2
<1>32. CASE UNCHANGED vars
  BY <1>32 DEF vars, Inv1, MemTypes, PageTypes
<1> QED
  BY <1>1, <1>2, <1>3, <1>4, <1>5, <1>6, <1>7, <1>8, <1>9, <1>10, <1>11, <1>12, <1>13, <1>14, <1>15, <1>16, <1>17, <1>18, <1>19, <1>20, <1>21, <1>22, <1>23, <1>24, <1>25, <1>26, <1>27, <1>28, <1>29, <1>30, <1>31, <1>32 DEF Next, ForkStep, ExecStep, FreeStep,
     SbrkStep, UserStep, FaultStep, ExitStep, SchedStep

LEMMA Inv1Next == Inv1 /\ [Next]_vars => Inv1'
BY TypesNext, CtlNext DEF Inv1

(* Every variable keeps its type, whatever the processes do.  Inv1 is the  *)
(* inductive invariant: the types of np, i and kp depend on which step of  *)
(* a system call each process has reached.                                 *)
THEOREM TypeCorrect == Spec => []TypeOK
<1>1. Inv1 => TypeOK
  BY DEF Inv1, MemTypes, PageTypes, CtlInv, ProcTypes, TypeOK
<1> QED
  BY Inv1Init, Inv1Next, <1>1, PTL DEF Spec

-----------------------------------------------------------------------------
(* Who has which frame, and what the reference counts count.               *)

(* A frame is pointed to, is a page table, is mapped, or is free.          *)
PointedIn(k, f) == \E x \in Fields, p \in Procs : k[x][p] = f
Pointed(f) == PointedIn(kp, f)
Tabled(f) == \E d \in Frames : f \in tables[d]
Counted(f) == Users(f) \ Uncounted

(* Makefile:85 of p5: CPUS := 1.                                           *)
OneCPU == \A c, d \in CPUs : c = d

OnceIn(k) ==
  \A x, y \in Fields, p, q \in Procs :
    k[x][p] = k[y][q] /\ k[x][p] # NoFrame => x = y /\ p = q
PtrOnce == OnceIn(kp)
TblOnce == \A d, e \in Frames : \A t \in tables[d] : t \in tables[e] => d = e
Kinds ==
  \A f \in Frames :
    /\ Pointed(f) => f \notin free /\ ref_cnt[f] = 1 /\ ~Tabled(f) /\ Users(f) = {}
    /\ Tabled(f) => f \notin free /\ ref_cnt[f] = 1 /\ Users(f) = {}
    /\ Users(f) # {} => f \notin free
Conserved ==
  /\ free_pages = Cardinality(free)
  /\ \A f \in Frames : f \in free \/ Pointed(f) \/ Tabled(f) \/ Users(f) # {} \/ f \in dropped

(* Only a directory somebody has maps anything; a writable page is mapped. *)
DirHeld ==
  \A d \in Frames :
    (tables[d] # {} \/ \E v \in Pages : pte[d][v] # NotPresent) =>
       \E p \in Procs : kp["pgdir"][p] = d \/ kp["d"][p] = d
WrPresent == \A d \in Frames : writable[d] \subseteq Present(d)

(* The reference counts of mapped frames.                                  *)
RefOn == \A f \in Frames : Users(f) # {} => ref_cnt[f] = Cardinality(Counted(f))

(* How much of its directories a process has filled.                       *)
FillOn(p) ==
  /\ pc[p] = "tables" => \A v \in Pages : pte[kp["d"][p]][v] = NotPresent
  /\ pc[p] \in {"cow", "load"} =>
       \A v \in Pages : v >= i[p] => pte[kp["d"][p]][v] = NotPresent
  /\ pc[p] = "inc" =>
       /\ pte[kp["d"][p]][i[p]] = Map(p)[i[p]] /\ Map(p)[i[p]] \in Frames
       /\ \A v \in Pages : v > i[p] => pte[kp["d"][p]][v] = NotPresent
  /\ pc[p] = "grow" => \A v \in Pages : v >= i[p] => Map(p)[v] = NotPresent
  /\ pc[p] \in {"ref", "dup", "dec", "copy"} => Map(p)[i[p]] \in Frames
  /\ state[p] \in Living /\ pc[p] \notin {"grow", "undo"} =>
       \A v \in Pages : v >= sz[p] => Map(p)[v] = NotPresent
  /\ pc[p] \in {"tables", "cow", "inc", "load"} =>
       \A v \in Pages : pte[kp["d"][p]][v] # Frame0
  /\ state[p] \in Living /\ pc[p] # "exit" => \A v \in Pages : Map(p)[v] # Frame0
Filled == \A p \in Procs : FillOn(p)

(* While the page fault handler copies a frame somebody else maps it.      *)
SharedOn(p) ==
  /\ pc[p] \in {"dup", "dec"} => ref_cnt[Map(p)[i[p]]] > 1
  /\ pc[p] = "copy" => ref_cnt[Map(p)[i[p]]] > 0
Shared == \A p \in Procs : SharedOn(p)

Owners == PtrOnce /\ TblOnce /\ Kinds /\ Conserved /\ DirHeld
Entries == WrPresent /\ RefOn /\ WritableExclusive
Inv2 == Owners /\ Entries /\ Filled /\ Shared

-----------------------------------------------------------------------------
(* Pointers, tables and entries.                                           *)

LEMMA UsersIs ==
  ASSUME PageTypes
  PROVE  /\ \A f : IsFiniteSet(Users(f))
         /\ \A f : \A d \in Frames, v \in Pages : <<d, v>> \in Users(f) <=> pte[d][v] = f
         /\ \A f : Users(f) # {} <=> \E d \in Frames, v \in Pages : pte[d][v] = f
<1>1. IsFiniteSet(Pages)
  <2>1. 0 \in Int /\ NPages - 1 \in Int
    BY SizeAssumption
  <2> QED
    BY <2>1, FS_Interval DEF Pages
<1>2. IsFiniteSet(Frames \X Pages)
  BY <1>1, NameAssumption, FS_Product
<1>3. \A f : Users(f) \in SUBSET (Frames \X Pages)
  BY DEF Users
<1>4. \A f : IsFiniteSet(Users(f))
  BY <1>2, <1>3, FS_Subset
<1>5. \A f : \A d \in Frames, v \in Pages : <<d, v>> \in Users(f) <=> pte[d][v] = f
  BY DEF Users
<1>6. ASSUME NEW f PROVE Users(f) # {} <=> \E d \in Frames, v \in Pages : pte[d][v] = f
  <2>1. ASSUME Users(f) # {} PROVE \E d \in Frames, v \in Pages : pte[d][v] = f
    <3>1. PICK s \in Frames \X Pages : pte[s[1]][s[2]] = f
      BY <2>1 DEF Users
    <3>2. s[1] \in Frames /\ s[2] \in Pages
      BY <3>1
    <3> QED
      BY <3>1, <3>2
  <2>2. ASSUME NEW d \in Frames, NEW v \in Pages, pte[d][v] = f PROVE Users(f) # {}
    BY <1>5, <2>2
  <2> QED
    BY <2>1, <2>2
<1> QED
  BY <1>4, <1>5, <1>6

LEMMA UsersKept ==
  ASSUME UNCHANGED pte
  PROVE  \A f : Users(f)' = Users(f)
  BY DEF Users

(* What one entry more or less does to the users of a frame.               *)
Enter(d, v, e) == pte' = [pte EXCEPT ![d][v] = e]

LEMMA UsersAfter ==
  ASSUME PageTypes, NEW d \in Frames, NEW v \in Pages, NEW e, Enter(d, v, e)
  PROVE  /\ \A f : Users(f)' = IF f = e THEN Users(f) \cup {<<d, v>>} ELSE Users(f) \ {<<d, v>>}
         /\ pte'[d][v] = e
         /\ \A u \in Pages : u # v => pte'[d][u] = pte[d][u]
         /\ \A c \in Frames : c # d => pte'[c] = pte[c]
<1>1. /\ pte'[d][v] = e
      /\ \A u \in Pages : u # v => pte'[d][u] = pte[d][u]
      /\ \A c \in Frames : c # d => pte'[c] = pte[c]
  BY DEF PageTypes, Enter
<1>2. ASSUME NEW f, NEW s \in Frames \X Pages
      PROVE  pte'[s[1]][s[2]] = f <=> IF s = <<d, v>> THEN f = e ELSE pte[s[1]][s[2]] = f
  <2>1. PICK c \in Frames, u \in Pages : s = <<c, u>>
    OBVIOUS
  <2> QED
    BY <1>1, <2>1
<1>3. <<d, v>> \in Frames \X Pages
  OBVIOUS
<1>4. ASSUME NEW f
      PROVE  Users(f)' = IF f = e THEN Users(f) \cup {<<d, v>>} ELSE Users(f) \ {<<d, v>>}
  <2>1. Users(f)' = {s \in Frames \X Pages : pte'[s[1]][s[2]] = f}
    BY DEF Users
  <2>2. Users(f) = {s \in Frames \X Pages : pte[s[1]][s[2]] = f}
    BY DEF Users
  <2> QED
    BY <1>2, <1>3, <2>1, <2>2
<1> QED
  BY <1>1, <1>4

(* Entries that are not counted, in the words of the processes.            *)
LEMMA UncountedIs ==
  \A s : s \in Uncounted <=> \E p \in Procs : \/ pc[p] = "inc" /\ s = <<kp["d"][p], i[p]>>
                                              \/ pc[p] = "copy" /\ s = <<kp["pgdir"][p], i[p]>>
  BY DEF Uncounted

LEMMA UncountedNext ==
  \A s : s \in Uncounted' <=> \E p \in Procs : \/ pc'[p] = "inc" /\ s = <<kp'["d"][p], i'[p]>>
                                               \/ pc'[p] = "copy" /\ s = <<kp'["pgdir"][p], i'[p]>>
  BY DEF Uncounted

LEMMA UncountedKept ==
  ASSUME \A q \in Procs :
           /\ pc'[q] = "inc" <=> pc[q] = "inc"
           /\ pc'[q] = "copy" <=> pc[q] = "copy"
           /\ pc[q] \in {"inc", "copy"} => i'[q] = i[q] /\ kp'["d"][q] = kp["d"][q]
                                           /\ kp'["pgdir"][q] = kp["pgdir"][q]
  PROVE  Uncounted' = Uncounted
<1>1. \A s : s \in Uncounted' <=> s \in Uncounted
  BY UncountedNext, UncountedIs
<1> QED
  BY <1>1

(* An entry that is not counted maps a frame.                              *)
LEMMA UncountedMapped ==
  ASSUME Filled, Inv1, NEW d, NEW v, <<d, v>> \in Uncounted
  PROVE  pte[d][v] \in Frames
  BY UncountedIs DEF Filled, FillOn, Map

(* No two processes have the same directory.                               *)
LEMMA OwnDirs ==
  ASSUME PtrOnce, NEW p \in Procs, NEW q \in Procs, NEW d, d # NoFrame,
         d \in {kp["pgdir"][p], kp["d"][p]}, d \in {kp["pgdir"][q], kp["d"][q]}
  PROVE  p = q /\ (kp["pgdir"][p] # d \/ kp["d"][p] # d)
  BY DEF PtrOnce, OnceIn, Fields

-----------------------------------------------------------------------------
(* Updates of one pointer, or of two.                                      *)

(* m is k with one pointer set, or with two pointers swapped.              *)
Sets(k, m, x, q, f) ==
  /\ m \in [Fields -> [Procs -> Ptr]]
  /\ \A y \in Fields, r \in Procs : m[y][r] = IF y = x /\ r = q THEN f ELSE k[y][r]
Swaps(k, m, x, q, y, r) ==
  /\ m \in [Fields -> [Procs -> Ptr]]
  /\ \A z \in Fields, t \in Procs :
       m[z][t] = IF z = x /\ t = q THEN k[y][r]
                 ELSE IF z = y /\ t = r THEN k[x][q] ELSE k[z][t]

LEMMA PointMore ==
  ASSUME NEW k, OnceIn(k), NEW x \in Fields, NEW q \in Procs,
         NEW f \in Frames, ~PointedIn(k, f), k[x][q] = NoFrame, NEW m, Sets(k, m, x, q, f)
  PROVE  OnceIn(m) /\ \A g \in Frames : PointedIn(m, g) <=> PointedIn(k, g) \/ g = f
<1>1. \A y \in Fields, r \in Procs : m[y][r] = IF y = x /\ r = q THEN f ELSE k[y][r]
  BY DEF Sets
<1>2. f # NoFrame /\ NoFrame \notin Frames
  BY NameAssumption
<1>3. OnceIn(m)
  <2> SUFFICES ASSUME NEW y \in Fields, NEW z \in Fields, NEW r \in Procs, NEW t \in Procs,
                      m[y][r] = m[z][t], m[y][r] # NoFrame
               PROVE  y = z /\ r = t
    BY DEF OnceIn
  <2> QED
    BY <1>1 DEF OnceIn, PointedIn
<1>4. \A g \in Frames : PointedIn(m, g) <=> PointedIn(k, g) \/ g = f
  BY <1>1, <1>2 DEF PointedIn
<1> QED
  BY <1>3, <1>4

LEMMA PointLess ==
  ASSUME NEW k, OnceIn(k), NEW x \in Fields, NEW q \in Procs,
         NEW f \in Frames, k[x][q] = f, NEW m, Sets(k, m, x, q, NoFrame)
  PROVE  OnceIn(m) /\ \A g \in Frames : PointedIn(m, g) <=> PointedIn(k, g) /\ g # f
<1>1. \A y \in Fields, r \in Procs : m[y][r] = IF y = x /\ r = q THEN NoFrame ELSE k[y][r]
  BY DEF Sets
<1>2. NoFrame \notin Frames
  BY NameAssumption
<1>3. OnceIn(m)
  <2> SUFFICES ASSUME NEW y \in Fields, NEW z \in Fields, NEW r \in Procs, NEW t \in Procs,
                      m[y][r] = m[z][t], m[y][r] # NoFrame
               PROVE  y = z /\ r = t
    BY DEF OnceIn
  <2> QED
    BY <1>1 DEF OnceIn
<1>4. \A g \in Frames : PointedIn(m, g) <=> PointedIn(k, g) /\ g # f
  BY <1>1, <1>2 DEF PointedIn, OnceIn
<1> QED
  BY <1>3, <1>4

(* A frame changes hands.                                                  *)
LEMMA PointSwap ==
  ASSUME NEW k, OnceIn(k), NEW x \in Fields, NEW q \in Procs,
         NEW y \in Fields, NEW r \in Procs, x # y, NEW m, Swaps(k, m, x, q, y, r)
  PROVE  OnceIn(m) /\ \A g : PointedIn(m, g) <=> PointedIn(k, g)
<1>1. \A z \in Fields, t \in Procs :
         ~(z = x /\ t = q) /\ ~(z = y /\ t = r) => m[z][t] = k[z][t]
  BY DEF Swaps
<1>2. m[x][q] = k[y][r] /\ m[y][r] = k[x][q]
  BY DEF Swaps
<1>3. \A z \in Fields, t \in Procs :
         \/ z = x /\ t = q /\ m[z][t] = k[y][r]
         \/ z = y /\ t = r /\ m[z][t] = k[x][q]
         \/ ~(z = x /\ t = q) /\ ~(z = y /\ t = r) /\ m[z][t] = k[z][t]
  BY <1>1, <1>2
<1>4. \A z, w \in Fields, s, t \in Procs : m[z][s] = m[w][t] /\ m[z][s] # NoFrame => z = w /\ s = t
  <2>1. SUFFICES ASSUME NEW z \in Fields, NEW w \in Fields, NEW s \in Procs, NEW t \in Procs,
                        m[z][s] = m[w][t], m[z][s] # NoFrame
                 PROVE  z = w /\ s = t
    OBVIOUS
  <2>2. \A z1, w1 \in Fields, s1, t1 \in Procs :
           k[z1][s1] = k[w1][t1] /\ k[z1][s1] # NoFrame => z1 = w1 /\ s1 = t1
    BY DEF OnceIn
  <2> QED
    BY ONLY <1>3, <2>1, <2>2, x \in Fields, y \in Fields, q \in Procs, r \in Procs, x # y,
            z \in Fields, w \in Fields, s \in Procs, t \in Procs
<1>5. ASSUME NEW g PROVE PointedIn(m, g) <=> PointedIn(k, g)
  <2>1. PointedIn(m, g) => PointedIn(k, g)
    BY <1>3 DEF PointedIn
  <2>2. PointedIn(k, g) => PointedIn(m, g)
    <3>1. SUFFICES ASSUME NEW z \in Fields, NEW t \in Procs, k[z][t] = g PROVE PointedIn(m, g)
      BY DEF PointedIn
    <3>2. CASE z = x /\ t = q
      BY <1>2, <3>1, <3>2 DEF PointedIn
    <3>3. CASE z = y /\ t = r
      BY <1>2, <3>1, <3>3 DEF PointedIn
    <3>4. CASE ~(z = x /\ t = q) /\ ~(z = y /\ t = r)
      BY <1>1, <3>1, <3>4 DEF PointedIn
    <3> QED
      BY <3>2, <3>3, <3>4
  <2> QED
    BY <2>1, <2>2
<1> QED
  BY <1>4, <1>5 DEF OnceIn

-----------------------------------------------------------------------------
(* What kalloc() and kfree() do to the freelist.                           *)

LEMMA AllocIs ==
  ASSUME Inv1, Inv2, NEW f \in free, KAlloc(f)
  PROVE  /\ f \in Frames /\ free' = free \ {f} /\ free_pages' = Cardinality(free')
         /\ ref_cnt'[f] = 1 /\ \A g \in Frames : g # f => ref_cnt'[g] = ref_cnt[g]
         /\ ~Pointed(f) /\ ~Tabled(f) /\ Users(f) = {}
<1>1. free \in SUBSET Frames /\ ref_cnt \in [Frames -> Int] /\ free_pages = Cardinality(free)
  BY DEF Inv1, MemTypes, Inv2, Owners, Conserved
<1>2. IsFiniteSet(free) /\ Cardinality(free) \in Nat
  BY <1>1, NameAssumption, FS_Subset, FS_CardinalityType
<1>3. Cardinality(free \ {f}) = Cardinality(free) - 1
  BY <1>2, FS_RemoveElement
<1> QED
  BY <1>1, <1>3, NameAssumption DEF KAlloc, Inv2, Owners, Kinds

LEMMA FreeIs ==
  ASSUME Inv1, Inv2, NEW f \in Frames, f \notin free, KFree(f), LastRef(f)
  PROVE  free' = free \cup {f} /\ free_pages' = Cardinality(free') /\ ref_cnt' = ref_cnt
<1>1. free \in SUBSET Frames /\ free_pages = Cardinality(free)
  BY DEF Inv1, MemTypes, Inv2, Owners, Conserved
<1>2. IsFiniteSet(free) /\ Cardinality(free) \in Nat
  BY <1>1, NameAssumption, FS_Subset, FS_CardinalityType
<1>3. Cardinality(free \cup {f}) = Cardinality(free) + 1
  BY <1>2, FS_AddElement
<1> QED
  BY <1>1, <1>3 DEF KFree

LEMMA KfreeOwned ==
  ASSUME Inv1, Inv2, NEW f \in Frames, Pointed(f) \/ Tabled(f), KFree(f)
  PROVE  /\ f \notin free /\ free' = free \cup {f} /\ free_pages' = Cardinality(free')
         /\ ref_cnt' = ref_cnt /\ Users(f) = {}
<1>1. f \notin free /\ ref_cnt[f] = 1 /\ Users(f) = {}
  BY DEF Inv2, Owners, Kinds
<1>2. LastRef(f)
  BY <1>1 DEF LastRef
<1> QED
  BY <1>1, <1>2, FreeIs

-----------------------------------------------------------------------------
(* Steps that leave the memory of the other processes alone.               *)

LEMMA OwnersKept ==
  ASSUME Owners, DirHeld', UNCHANGED <<free, free_pages, tables, dropped, kp>>,
         \A f \in Frames : Users(f)' # {} <=> Users(f) # {},
         \A f \in Frames : Pointed(f) \/ Tabled(f) => ref_cnt'[f] = ref_cnt[f]
  PROVE  Owners'
<1>1. \A f : (Pointed(f)' <=> Pointed(f)) /\ (Tabled(f)' <=> Tabled(f))
  BY DEF Pointed, PointedIn, Tabled
<1>2. PtrOnce' /\ TblOnce'
  BY DEF Owners, PtrOnce, OnceIn, TblOnce
<1>3. Kinds'
  BY <1>1 DEF Owners, Kinds
<1>4. Conserved'
  BY <1>1 DEF Owners, Conserved
<1> QED
  BY <1>2, <1>3, <1>4 DEF Owners

LEMMA DirHeldKept ==
  ASSUME DirHeld, UNCHANGED <<kp, tables, pte>>
  PROVE  DirHeld'
  BY DEF DirHeld

LEMMA EntriesKept ==
  ASSUME Entries, UNCHANGED <<pte, writable>>, Uncounted' = Uncounted,
         \A f \in Frames : Users(f) # {} => ref_cnt'[f] = ref_cnt[f]
  PROVE  Entries'
<1>1. \A f : Users(f)' = Users(f) /\ Counted(f)' = Counted(f)
  BY UsersKept DEF Counted
<1>2. RefOn'
  BY <1>1 DEF Entries, RefOn
<1>3. WritableExclusive'
  BY <1>1 DEF Entries, WritableExclusive
<1>4. WrPresent'
  BY DEF Entries, WrPresent, Present
<1> QED
  BY <1>2, <1>3, <1>4 DEF Entries

LEMMA FillKept ==
  ASSUME NEW q \in Procs, FillOn(q), Pointers, Pointers',
         UNCHANGED <<pc[q], i[q], sz[q]>>, state'[q] \in Living => state[q] \in Living,
         kp["d"][q] # NoFrame => kp'["d"][q] = kp["d"][q] /\ pte'[kp["d"][q]] = pte[kp["d"][q]],
         state'[q] \in Living => kp'["pgdir"][q] = kp["pgdir"][q] /\ pte'[kp["pgdir"][q]] = pte[kp["pgdir"][q]],
         pc[q] # "user" => state'[q] \in Living
  PROVE  FillOn(q)'
<1>1. pc[q] \in HasDir => pte'[kp'["d"][q]] = pte[kp["d"][q]]
  BY DEF Pointers
<1>2. state'[q] \in Living => Map(q)' = Map(q)
  BY DEF Map
<1>3. pc[q] # "user" => Map(q)' = Map(q)
  BY <1>2
<1>4. UNCHANGED <<pc[q], i[q], sz[q]>>
  OBVIOUS
<1> QED
  BY <1>1, <1>2, <1>3, <1>4 DEF FillOn, HasDir

(* With one CPU nobody is inside the page fault handler but who runs.      *)
LEMMA OnlyRunner ==
  ASSUME Inv1, OneCPU, NEW p \in Procs, NEW q \in Procs, q # p,
         \E c \in CPUs : cpu[c] \in {p, NoProc}
  PROVE  pc[q] \notin InHandler
  BY NameAssumption DEF Inv1, CtlInv, Control, OneCPU

(* Nothing of q's is changed by a step of p.                               *)
Untouched(p, q) ==
  /\ UNCHANGED <<pc[q], i[q], sz[q], kp["d"][q]>>
  /\ state'[q] \in Living => state[q] \in Living /\ kp'["pgdir"][q] = kp["pgdir"][q]
DirsOf(p) == {kp["pgdir"][p], kp["d"][p]}

LEMMA OtherFill ==
  ASSUME Inv1, Inv1', Inv2, NEW p \in Procs, NEW q \in Procs, q # p, Untouched(p, q),
         \A d \in Frames \ DirsOf(p) : pte'[d] = pte[d]
  PROVE  FillOn(q)'
<1>1. FillOn(q) /\ PtrOnce
  BY DEF Inv2, Filled, Owners
<1>2. Pointers /\ Pointers' /\ (pc[q] # "user" => state'[q] \in Living)
  BY DEF Inv1, CtlInv, Control, Untouched
<1>3. kp["d"][q] \in Ptr /\ kp["pgdir"][q] \in Ptr
  BY PointerFrames DEF Fields
<1>4. kp["d"][q] # NoFrame => pte'[kp["d"][q]] = pte[kp["d"][q]]
  BY <1>1, <1>3, OwnDirs DEF DirsOf, Ptr
<1>5. state'[q] \in Living => kp["pgdir"][q] # NoFrame
  BY <1>2 DEF Untouched, Pointers
<1>6. state'[q] \in Living => pte'[kp["pgdir"][q]] = pte[kp["pgdir"][q]]
  BY <1>1, <1>3, <1>5, OwnDirs DEF DirsOf, Ptr
<1> QED
  BY <1>1, <1>2, <1>4, <1>6, FillKept DEF Untouched

LEMMA FilledNext ==
  ASSUME Inv1, Inv1', Inv2, OneCPU, NEW p \in Procs,
         \E c \in CPUs : cpu[c] \in {p, NoProc},
         \A q \in Procs : q # p => Untouched(p, q),
         \A d \in Frames \ DirsOf(p) : pte'[d] = pte[d],
         FillOn(p)', SharedOn(p)'
  PROVE  Filled' /\ Shared'
<1>1. \A q \in Procs : q # p => FillOn(q)'
  BY OtherFill
<1>2. \A q \in Procs : q # p => SharedOn(q)'
  BY OnlyRunner DEF SharedOn, Untouched, InHandler
<1> QED
  BY <1>1, <1>2 DEF Filled, Shared

LEMMA NeutralStep ==
  ASSUME Inv1, Inv1', Inv2, OneCPU, NEW p \in Procs,
         \E c \in CPUs : cpu[c] \in {p, NoProc},
         UNCHANGED <<free, free_pages, ref_cnt, pte, writable, tables, kp, dropped>>,
         \A q \in Procs : q # p => Untouched(p, q),
         {pc[p], pc'[p]} \cap {"inc", "copy"} = {},
         FillOn(p)', SharedOn(p)'
  PROVE  Inv2'
<1>1. Uncounted' = Uncounted
  <2>1. \A q \in Procs : q # p => pc'[q] = pc[q] /\ i'[q] = i[q]
    BY DEF Untouched
  <2> QED
    BY <2>1, UncountedKept
<1>2. Entries'
  BY <1>1, EntriesKept DEF Inv2
<1>3. Owners'
  BY OwnersKept, DirHeldKept, UsersKept DEF Inv2, Owners
<1>4. Filled' /\ Shared'
  BY FilledNext
<1> QED
  BY <1>2, <1>3, <1>4 DEF Inv2

LEMMA AtIs ==
  ASSUME Inv1, NEW p \in Procs, NEW l, At(p, l)
  PROVE  /\ pc[p] = l /\ state[p] = "RUNNING" /\ (\E c \in CPUs : cpu[c] \in {p, NoProc})
         /\ panicked = "no" /\ kp["pgdir"][p] \in Frames
  BY PointerFrames, NameAssumption DEF At, Running, Inv1, CtlInv, Control

-----------------------------------------------------------------------------
(* System calls begin, and the neutral ends of theirs.                     *)

LEMMA ForkOwn ==
  ASSUME Inv1, Inv1', Inv2, OneCPU, NEW p \in Procs, Fork(p)
  PROVE  Inv2'
<1>1. pc[p] = "user" /\ pc'[p] = "kstack" /\ \E c \in CPUs : cpu[c] \in {p, NoProc}
  BY AtIs DEF Fork, Goto, Inv1, CtlInv, ProcTypes
<1>2. PICK c \in Procs : state[c] = "UNUSED" /\ state' = [state EXCEPT ![c] = "EMBRYO"]
  BY DEF Fork
<1>3. \A q \in Procs : state'[q] \in Living => state[q] \in Living
  BY <1>2 DEF Inv1, CtlInv, ProcTypes, Living
<1>4. \A q \in Procs : q # p => Untouched(p, q)
  BY <1>3 DEF Fork, Goto, Untouched, Inv1, CtlInv, ProcTypes
<1>5. FillOn(p)' /\ SharedOn(p)'
  BY <1>1, <1>3 DEF Fork, vm, FillOn, SharedOn, Inv2, Filled, Map
<1>6. UNCHANGED <<free, free_pages, ref_cnt, pte, writable, tables, kp, dropped>>
  BY DEF Fork, kmem, vm
<1> QED
  BY <1>1, <1>4, <1>5, <1>6, NeutralStep

LEMMA ExecOwn ==
  ASSUME Inv1, Inv1', Inv2, OneCPU, NEW p \in Procs, NEW n, Exec(p, n)
  PROVE  Inv2'
<1>1. pc[p] = "user" /\ pc'[p] = "kvm" /\ \E c \in CPUs : cpu[c] \in {p, NoProc}
  BY AtIs DEF Exec, Goto, Inv1, CtlInv, ProcTypes
<1>2. \A q \in Procs : q # p => Untouched(p, q)
  BY DEF Exec, procs, Goto, Untouched, Inv1, CtlInv, ProcTypes
<1>3. FillOn(p)' /\ SharedOn(p)'
  BY <1>1 DEF Exec, vm, procs, FillOn, SharedOn, Inv2, Filled, Map
<1>4. UNCHANGED <<free, free_pages, ref_cnt, pte, writable, tables, kp, dropped>>
  BY DEF Exec, kmem, vm
<1> QED
  BY <1>1, <1>2, <1>3, <1>4, NeutralStep

LEMMA SbrkOwn ==
  ASSUME Inv1, Inv1', Inv2, OneCPU, NEW p \in Procs, NEW n, Sbrk(p, n)
  PROVE  Inv2'
<1>1. /\ pc[p] = "user" /\ pc'[p] \in {"grow", "shrink"} /\ state[p] = "RUNNING"
      /\ \E c \in CPUs : cpu[c] \in {p, NoProc}
      /\ pc'[p] = "grow" => i'[p] = sz[p]
  BY AtIs DEF Sbrk, Goto, Inv1, CtlInv, ProcTypes
<1>2. \A q \in Procs : q # p => Untouched(p, q)
  BY DEF Sbrk, procs, Goto, Untouched, Inv1, CtlInv, ProcTypes
<1>3. FillOn(p)' /\ SharedOn(p)'
  BY <1>1 DEF Sbrk, vm, procs, FillOn, SharedOn, Inv2, Filled, Map, Living
<1>4. UNCHANGED <<free, free_pages, ref_cnt, pte, writable, tables, kp, dropped>>
  BY DEF Sbrk, kmem, vm
<1> QED
  BY <1>1, <1>2, <1>3, <1>4, NeutralStep

LEMMA GrowDoneOwn ==
  ASSUME Inv1, Inv1', Inv2, OneCPU, NEW p \in Procs, GrowDone(p)
  PROVE  Inv2'
<1>1. /\ pc[p] = "grow" /\ pc'[p] = "user"
      /\ \E c \in CPUs : cpu[c] \in {p, NoProc}
  BY AtIs DEF GrowDone, Return, Goto, Inv1, CtlInv, ProcTypes
<1>2. \A q \in Procs : q # p => Untouched(p, q)
  BY DEF GrowDone, Return, procs, Goto, Untouched, Inv1, CtlInv, ProcTypes
<1>3. sz'[p] = newsz[p] /\ i[p] <= newsz[p] /\ newsz[p] \in Int /\ i[p] \in Int
  BY <1>1, SizeAssumption DEF GrowDone, Inv1, CtlInv, ProcTypes, Loops
<1>4. i[p] = newsz[p]
  BY <1>3 DEF GrowDone, More
<1>5. \A v \in Pages : v >= sz'[p] => Map(p)'[v] = NotPresent
  BY <1>1, <1>3, <1>4 DEF GrowDone, Inv2, Filled, FillOn, Map
<1>6. FillOn(p)' /\ SharedOn(p)'
  BY <1>1, <1>5 DEF GrowDone, procs, FillOn, SharedOn, Inv2, Filled, Map
<1>7. UNCHANGED <<free, free_pages, ref_cnt, pte, writable, tables, kp, dropped>>
  BY DEF GrowDone, kmem
<1> QED
  BY <1>1, <1>2, <1>6, <1>7, NeutralStep

LEMMA ShrinkDoneOwn ==
  ASSUME Inv1, Inv1', Inv2, OneCPU, NEW p \in Procs, ShrinkDone(p)
  PROVE  Inv2'
<1>1. /\ pc[p] = "shrink" /\ pc'[p] = "user" /\ kp["pgdir"][p] \in Frames
      /\ \E c \in CPUs : cpu[c] \in {p, NoProc}
  BY AtIs DEF ShrinkDone, Return, Goto, Inv1, CtlInv, ProcTypes
<1>2. \A q \in Procs : q # p => Untouched(p, q)
  BY DEF ShrinkDone, Return, procs, Goto, Untouched, Inv1, CtlInv, ProcTypes
<1>3. newsz[p] \in Int /\ sz[p] \in Int /\ \A v \in Pages : v \in Int
  BY SizeAssumption DEF Inv1, CtlInv, ProcTypes, Pages
<1>4. \A v \in Pages : v >= newsz[p] => Map(p)[v] = NotPresent
  BY <1>3 DEF ShrinkDone, Present, Map
<1>5. sz'[p] = sz[p] \/ sz'[p] = newsz[p]
  BY DEF ShrinkDone, Inv1, CtlInv, ProcTypes
<1>6. state[p] \in Living => \A v \in Pages : v >= sz'[p] => Map(p)'[v] = NotPresent
  BY <1>1, <1>4, <1>5 DEF ShrinkDone, Inv2, Filled, FillOn, Map
<1>7. FillOn(p)' /\ SharedOn(p)'
  BY <1>1, <1>6 DEF ShrinkDone, procs, FillOn, SharedOn, Inv2, Filled, Map
<1>8. UNCHANGED <<free, free_pages, ref_cnt, pte, writable, tables, kp, dropped>>
  BY DEF ShrinkDone, kmem
<1> QED
  BY <1>1, <1>2, <1>7, <1>8, NeutralStep

LEMMA GrowFailedOwn ==
  ASSUME Inv1, Inv1', Inv2, OneCPU, NEW p \in Procs, GrowFailed(p)
  PROVE  Inv2'
<1>1. /\ pc[p] = "undo" /\ pc'[p] = "user" /\ kp["pgdir"][p] \in Frames
      /\ \E c \in CPUs : cpu[c] \in {p, NoProc}
  BY AtIs DEF GrowFailed, Return, Goto, Inv1, CtlInv, ProcTypes
<1>2. \A q \in Procs : q # p => Untouched(p, q)
  BY DEF GrowFailed, Return, procs, Goto, Untouched, Inv1, CtlInv, ProcTypes
<1>3. sz[p] \in Int /\ \A v \in Pages : v \in Int
  BY SizeAssumption DEF Inv1, CtlInv, ProcTypes, Pages
<1>4. \A v \in Pages : v >= sz'[p] => Map(p)'[v] = NotPresent
  BY <1>3 DEF GrowFailed, Present, Map, vm
<1>5. FillOn(p)' /\ SharedOn(p)'
  BY <1>1, <1>4 DEF GrowFailed, procs, vm, FillOn, SharedOn, Inv2, Filled, Map
<1>6. UNCHANGED <<free, free_pages, ref_cnt, pte, writable, tables, kp, dropped>>
  BY DEF GrowFailed, kmem, vm
<1> QED
  BY <1>1, <1>2, <1>5, <1>6, NeutralStep

LEMMA UserOwn ==
  ASSUME Inv1, Inv1', Inv2, OneCPU, NEW p \in Procs, NEW v \in Pages, NEW x,
         UserWrite(p, v, x) \/ KernelWrite(p, v, x) \/ WriteFault(p, v) \/ BadAccess(p, v)
  PROVE  Inv2'
<1>1. /\ pc[p] = "user" /\ pc'[p] \in {"user", "ref", "exit"} /\ kp["pgdir"][p] \in Frames
      /\ state[p] = "RUNNING" /\ \E c \in CPUs : cpu[c] \in {p, NoProc}
  BY AtIs DEF UserWrite, KernelWrite, WriteFault, BadAccess, Goto, Inv1, CtlInv, ProcTypes
<1>2. UNCHANGED <<free, free_pages, ref_cnt, pte, writable, tables, kp, dropped, state, sz>>
  BY DEF UserWrite, KernelWrite, WriteFault, BadAccess, kmem, vm, procs
<1>3. \A q \in Procs : q # p => pc'[q] = pc[q] /\ i'[q] = i[q]
  BY DEF UserWrite, KernelWrite, WriteFault, BadAccess, Goto, locals, Inv1, CtlInv, ProcTypes
<1>4. \A q \in Procs : q # p => Untouched(p, q)
  BY <1>2, <1>3 DEF Untouched
<1>5. pc'[p] = "ref" => i'[p] = v /\ Map(p)[v] # NotPresent
  BY <1>1 DEF UserWrite, KernelWrite, WriteFault, BadAccess, Goto, Inv1, CtlInv, ProcTypes
<1>6. Map(p)[v] \in Entry /\ Map(p)[v] # Frame0
  BY <1>1 DEF Inv1, PageTypes, Map, Inv2, Filled, FillOn, Living
<1>7. pc'[p] = "ref" => Map(p)'[i'[p]] \in Frames
  BY <1>2, <1>5, <1>6 DEF Entry, Map
<1>8. FillOn(p)' /\ SharedOn(p)'
  BY <1>1, <1>2, <1>7 DEF FillOn, SharedOn, Inv2, Filled, Map
<1> QED
  BY <1>1, <1>2, <1>4, <1>8, NeutralStep

(* The scheduler, and the ends of processes.                               *)
LEMMA DispatchOwn ==
  ASSUME Inv1, Inv1', Inv2, OneCPU, NEW c \in CPUs, NEW p \in Procs, Dispatch(c, p)
  PROVE  Inv2'
<1>1. (\E k \in CPUs : cpu[k] \in {p, NoProc}) /\ state[p] = "RUNNABLE"
  BY DEF Dispatch
<1>2. UNCHANGED <<free, free_pages, ref_cnt, pte, writable, tables, kp, dropped, sz, i, pc>>
  BY DEF Dispatch, kmem, locals
<1>3. \A q \in Procs : q # p => Untouched(p, q)
  BY <1>2 DEF Dispatch, Untouched, Inv1, CtlInv, ProcTypes
<1>4. pc[p] \notin InHandler
  BY <1>1, NameAssumption DEF Inv1, CtlInv, Control
<1>6. FillOn(p)' /\ SharedOn(p)'
  BY <1>1, <1>2, <1>4 DEF FillOn, SharedOn, Inv2, Filled, Shared, Map, Living, InHandler
<1>7. Uncounted' = Uncounted
  BY <1>2, UncountedKept
<1>8. Entries' /\ Owners'
  BY <1>2, <1>7, EntriesKept, OwnersKept, DirHeldKept, UsersKept DEF Inv2, Owners
<1> QED
  BY <1>1, <1>2, <1>3, <1>6, <1>8, FilledNext DEF Inv2

LEMMA PreemptOwn ==
  ASSUME Inv1, Inv1', Inv2, OneCPU, NEW c \in CPUs, NEW p \in Procs, Preempt(c, p)
  PROVE  Inv2'
<1>1. (\E k \in CPUs : cpu[k] \in {p, NoProc}) /\ state[p] = "RUNNING"
  BY NameAssumption DEF Preempt, Inv1, CtlInv, Control
<1>2. UNCHANGED <<free, free_pages, ref_cnt, pte, writable, tables, kp, dropped, sz, i, pc>>
  BY DEF Preempt, kmem, vm, locals
<1>3. \A q \in Procs : q # p => Untouched(p, q)
  BY <1>2 DEF Preempt, Untouched, Inv1, CtlInv, ProcTypes
<1>4. FillOn(p)' /\ SharedOn(p)'
  BY <1>1, <1>2 DEF FillOn, SharedOn, Inv2, Filled, Shared, Map, Living
<1>5. Uncounted' = Uncounted
  BY <1>2, UncountedKept
<1>6. Entries' /\ Owners'
  BY <1>2, <1>5, EntriesKept, OwnersKept, DirHeldKept, UsersKept DEF Inv2, Owners
<1> QED
  BY <1>1, <1>2, <1>3, <1>4, <1>6, FilledNext DEF Inv2

LEMMA ExitOwn ==
  ASSUME Inv1, Inv1', Inv2, OneCPU, NEW p \in Procs, Exit(p)
  PROVE  Inv2'
<1>1. pc[p] \in {"user", "exit"} /\ \E c \in CPUs : cpu[c] \in {p, NoProc}
  BY AtIs DEF Exit
<1>2. UNCHANGED <<free, free_pages, ref_cnt, pte, writable, tables, kp, dropped, sz>>
  BY DEF Exit, kmem, vm
<1>3. CASE p = InitProc
  <2>1. UNCHANGED <<pc, i, state>>
    BY <1>3 DEF Exit
  <2>2. \A q \in Procs : q # p => Untouched(p, q)
    BY <1>2, <2>1 DEF Untouched
  <2>3. FillOn(p)' /\ SharedOn(p)'
    BY <1>2, <2>1 DEF FillOn, SharedOn, Inv2, Filled, Shared, Map
  <2> QED
    BY <1>1, <1>2, <2>1, <2>2, <2>3, NeutralStep
<1>4. CASE p # InitProc
  <2>1. state' = [q \in Procs |->
             CASE q = p -> "ZOMBIE"
               [] q # p /\ state[q] = "SLEEPING"
                    /\ \/ q = parent[p]
                       \/ /\ q = InitProc
                          /\ \E z \in Procs : parent[z] = p /\ state[z] = "ZOMBIE"
                    -> "RUNNABLE"
               [] OTHER -> state[q]]
    BY <1>4 DEF Exit
  <2>2. state'[p] = "ZOMBIE" /\ \A q \in Procs : q # p => state'[q] = state[q] \/ state[q] = "SLEEPING"
    BY <2>1
  <2>3. pc'[p] = "user" /\ \A q \in Procs : q # p => pc'[q] = pc[q] /\ i'[q] = i[q]
    BY <1>4 DEF Exit, Goto, Inv1, CtlInv, ProcTypes
  <2>4. \A q \in Procs : q # p => Untouched(p, q)
    BY <1>2, <2>2, <2>3 DEF Untouched, Living
  <2>5. FillOn(p)' /\ SharedOn(p)'
    BY <2>2, <2>3 DEF FillOn, SharedOn, Living
  <2> QED
    BY <1>1, <1>2, <2>3, <2>4, <2>5, NeutralStep
<1> QED
  BY <1>3, <1>4

LEMMA KeepOwn ==
  ASSUME Inv2, UNCHANGED vars
  PROVE  Inv2'
<1>1. Uncounted' = Uncounted
  BY UncountedKept DEF vars
<1>2. Entries' /\ Owners'
  BY <1>1, EntriesKept, OwnersKept, DirHeldKept, UsersKept DEF Inv2, Owners, vars
<1>3. Filled' /\ Shared'
  BY DEF vars, Inv2, Filled, FillOn, Shared, SharedOn, Map
<1> QED
  BY <1>2, <1>3 DEF Inv2

-----------------------------------------------------------------------------
(* A new frame for a pointer, a page table or a page.                      *)

LEMMA AllocPointer ==
  ASSUME Inv1, Inv2, NEW x \in Fields, NEW q \in Procs, NEW f \in free, KAlloc(f),
         kp[x][q] = NoFrame, kp' = [kp EXCEPT ![x][q] = f],
         UNCHANGED <<pte, writable, tables, dropped>>, Uncounted' = Uncounted
  PROVE  Owners' /\ Entries'
<1>1. /\ f \in Frames /\ free' = free \ {f} /\ free_pages' = Cardinality(free')
      /\ ref_cnt'[f] = 1 /\ \A g \in Frames : g # f => ref_cnt'[g] = ref_cnt[g]
      /\ ~Pointed(f) /\ ~Tabled(f) /\ Users(f) = {}
  BY AllocIs
<1>2. Sets(kp, kp', x, q, f)
  BY <1>1 DEF Inv1, CtlInv, ProcTypes, Ptr, Sets
<1>3. /\ OnceIn(kp')
      /\ \A g \in Frames : PointedIn(kp', g) <=> PointedIn(kp, g) \/ g = f
      /\ \A y \in Fields, r \in Procs : ~(y = x /\ r = q) => kp'[y][r] = kp[y][r]
  <2>1. \A y \in Fields, r \in Procs : ~(y = x /\ r = q) => kp'[y][r] = kp[y][r]
    BY <1>2 DEF Sets
  <2>2. ~PointedIn(kp, f) /\ OnceIn(kp)
    BY <1>1 DEF Pointed, Inv2, Owners, PtrOnce
  <2>3. OnceIn(kp') /\ \A g \in Frames : PointedIn(kp', g) <=> PointedIn(kp, g) \/ g = f
    <3>1. f \in Frames
      BY <1>1
    <3> QED
      BY ONLY <3>1, <1>2, <2>2, kp[x][q] = NoFrame, x \in Fields, q \in Procs, PointMore
  <2> QED
    BY <2>1, <2>3
<1>4. PtrOnce' /\ \A g \in Frames : Pointed(g)' <=> Pointed(g) \/ g = f
  BY <1>3 DEF PtrOnce, Pointed
<1>5. \A g \in Frames : (Tabled(g)' <=> Tabled(g)) /\ Users(g)' = Users(g)
  BY UsersKept DEF Tabled
<1>6. TblOnce'
  BY DEF Inv2, Owners, TblOnce
<1>7. Kinds'
  BY <1>1, <1>4, <1>5 DEF Inv2, Owners, Kinds
<1>8. Conserved'
  BY <1>1, <1>4, <1>5 DEF Inv2, Owners, Conserved
<1>9. DirHeld'
  <2>1. \A d \in Frames : d # NoFrame
    BY NameAssumption
  <2>2. "pgdir" \in Fields /\ "d" \in Fields
    BY DEF Fields
  <2> QED
    BY <1>3, <2>1, <2>2 DEF Inv2, Owners, DirHeld
<1>10. Entries'
  BY <1>1, EntriesKept DEF Inv2
<1> QED
  BY <1>4, <1>6, <1>7, <1>8, <1>9, <1>10 DEF Owners

(* A free frame is no directory anybody fills.                             *)
LEMMA FreeIsBlank ==
  ASSUME Inv1, Inv2, NEW f \in free
  PROVE  tables[f] = {} /\ \A v \in Pages : pte[f][v] = NotPresent
<1>1. f \in Frames /\ ~Pointed(f)
  BY DEF Inv1, MemTypes, Inv2, Owners, Kinds
<1> QED
  BY <1>1 DEF Inv2, Owners, DirHeld, Pointed, PointedIn, Fields

(* A new page in an entry that was empty.                                  *)
LEMMA AllocPage ==
  ASSUME Inv1, Inv2, NEW p \in Procs, NEW d \in DirsOf(p), d \in Frames, NEW v \in Pages,
         pte[d][v] = NotPresent, NEW f \in free, KAlloc(f), MapPage(d, v, f),
         UNCHANGED <<kp, tables, dropped>>, Uncounted' = Uncounted
  PROVE  Owners' /\ Entries'
<1>1. /\ f \in Frames /\ free' = free \ {f} /\ free_pages' = Cardinality(free')
      /\ ref_cnt'[f] = 1 /\ \A g \in Frames : g # f => ref_cnt'[g] = ref_cnt[g]
      /\ ~Pointed(f) /\ ~Tabled(f) /\ Users(f) = {}
  BY AllocIs
<1>2. PageTypes /\ Enter(d, v, f) /\ f # NotPresent
  BY <1>1, NameAssumption DEF Inv1, MapPage, Enter
<1>3. /\ \A g : Users(g)' = IF g = f THEN Users(g) \cup {<<d, v>>} ELSE Users(g) \ {<<d, v>>}
      /\ pte'[d][v] = f
      /\ \A u \in Pages : u # v => pte'[d][u] = pte[d][u]
      /\ \A c \in Frames : c # d => pte'[c] = pte[c]
  BY <1>2, UsersAfter
<1>4. \A g \in Frames : <<d, v>> \notin Users(g)
  BY <1>2, UsersIs, NameAssumption
<1>5. Users(f)' = {<<d, v>>} /\ \A g \in Frames : g # f => Users(g)' = Users(g)
  BY <1>1, <1>3, <1>4
<1>6. \A g \in Frames : (Pointed(g)' <=> Pointed(g)) /\ (Tabled(g)' <=> Tabled(g))
  BY DEF Pointed, PointedIn, Tabled
<1>7. PtrOnce' /\ TblOnce'
  BY DEF Inv2, Owners, PtrOnce, OnceIn, TblOnce
<1>8. Kinds'
  BY <1>1, <1>5, <1>6 DEF Inv2, Owners, Kinds
<1>9. Conserved'
  BY <1>1, <1>5, <1>6 DEF Inv2, Owners, Conserved
<1>10. DirHeld'
  BY <1>3 DEF Inv2, Owners, DirHeld, DirsOf
<1>11. WrPresent'
  <2>1. writable' = [writable EXCEPT ![d] = @ \cup {v}] /\ writable \in [Frames -> SUBSET Pages]
    BY DEF MapPage, Inv1, PageTypes
  <2> QED
    BY <1>2, <1>3, <2>1 DEF Inv2, Entries, WrPresent, Present
<1>12. RefOn'
  <2>1. <<d, v>> \notin Uncounted
    BY UncountedMapped, NameAssumption DEF Inv2
  <2>2. Counted(f)' = {<<d, v>>} /\ \A g \in Frames : g # f => Counted(g)' = Counted(g)
    BY <1>5, <2>1 DEF Counted
  <2>3. Cardinality({<<d, v>>}) = 1
    BY FS_Singleton
  <2> QED
    BY <1>1, <1>5, <2>2, <2>3 DEF Inv2, Entries, RefOn
<1>13. WritableExclusive'
  <2> SUFFICES ASSUME NEW c \in Frames, NEW u \in writable'[c], pte'[c][u] \in Frames
               PROVE  Users(pte[c][u])' = {<<c, u>>}
    BY DEF WritableExclusive
  <2>1. u \in Pages /\ (u \in writable[c] \/ (c = d /\ u = v))
    BY DEF MapPage, Inv1, PageTypes
  <2>2. CASE c = d /\ u = v
    BY <1>3, <1>5, <2>2
  <2>3. CASE ~(c = d /\ u = v)
    <3>1. pte'[c][u] = pte[c][u] /\ u \in writable[c]
      BY <1>3, <2>1, <2>3
    <3>2. Users(pte[c][u]) = {<<c, u>>}
      BY <3>1 DEF Inv2, Entries, WritableExclusive
    <3>3. pte[c][u] # f
      BY <1>1, <3>2
    <3> QED
      BY <1>5, <3>1, <3>2, <3>3
  <2> QED
    BY <2>2, <2>3
<1> QED
  BY <1>7, <1>8, <1>9, <1>10, <1>11, <1>12, <1>13 DEF Owners, Entries

(* A frame that a pointer held is given back; a directory when it is empty. *)
LEMMA FreePointer ==
  ASSUME Inv1, Inv2, NEW x \in Fields, NEW q \in Procs, NEW f \in Frames, kp[x][q] = f,
         KFree(f), Sets(kp, kp', x, q, NoFrame),
         x \in {"pgdir", "d"} => tables[f] = {} /\ Present(f) = {},
         UNCHANGED <<pte, writable, tables, dropped>>, Uncounted' = Uncounted
  PROVE  Owners' /\ Entries'
<1>1. Pointed(f)
  BY DEF Pointed, PointedIn
<1>2. /\ f \notin free /\ free' = free \cup {f} /\ free_pages' = Cardinality(free')
      /\ ref_cnt' = ref_cnt /\ Users(f) = {}
  BY <1>1, KfreeOwned
<1>3. OnceIn(kp') /\ \A g \in Frames : PointedIn(kp', g) <=> PointedIn(kp, g) /\ g # f
  <2>1. OnceIn(kp)
    BY DEF Inv2, Owners, PtrOnce
  <2> QED
    BY ONLY <2>1, x \in Fields, q \in Procs, f \in Frames, kp[x][q] = f,
            Sets(kp, kp', x, q, NoFrame), PointLess
<1>4. PtrOnce' /\ \A g \in Frames : Pointed(g)' <=> Pointed(g) /\ g # f
  BY <1>3 DEF PtrOnce, Pointed
<1>5. \A g \in Frames : (Tabled(g)' <=> Tabled(g)) /\ Users(g)' = Users(g)
  BY UsersKept DEF Tabled
<1>6. TblOnce'
  BY DEF Inv2, Owners, TblOnce
<1>7. Kinds'
  BY <1>1, <1>2, <1>4, <1>5 DEF Inv2, Owners, Kinds
<1>8. Conserved'
  BY <1>2, <1>4, <1>5 DEF Inv2, Owners, Conserved
<1>9. DirHeld'
  <2>1. \A d \in Frames : d # NoFrame
    BY NameAssumption
  <2>2. "pgdir" \in Fields /\ "d" \in Fields
    BY DEF Fields
  <2>3. \A y \in Fields, r \in Procs : ~(y = x /\ r = q) => kp'[y][r] = kp[y][r]
    BY DEF Sets
  <2> QED
    BY <2>1, <2>2, <2>3 DEF Inv2, Owners, DirHeld, Present
<1>10. Entries'
  BY <1>2, EntriesKept DEF Inv2
<1> QED
  BY <1>4, <1>6, <1>7, <1>8, <1>9, <1>10 DEF Owners

(* Nothing is forgotten or mapped by a step that returns to user mode.     *)
LEMMA ReturnIs ==
  ASSUME Inv1, NEW p \in Procs, Return(p)
  PROVE  /\ pc'[p] = "user" /\ i'[p] = 0
         /\ \A q \in Procs : q # p => pc'[q] = pc[q] /\ i'[q] = i[q]
  BY DEF Return, Goto, Inv1, CtlInv, ProcTypes

LEMMA AllocKstackOwn ==
  ASSUME Inv1, Inv1', Inv2, OneCPU, NEW p \in Procs, AllocKstack(p)
  PROVE  Inv2'
<1>1. /\ pc[p] = "kstack" /\ state[p] = "RUNNING" /\ \E c \in CPUs : cpu[c] \in {p, NoProc}
      /\ np[p] \in Procs /\ state[np[p]] = "EMBRYO" /\ kp["kstack"][np[p]] = NoFrame
  BY AtIs DEF AllocKstack, Inv1, CtlInv, ProcTypes, Control, Slot, ForkPcs
<1>2. UNCHANGED <<pte, writable, tables, dropped, sz>>
  BY DEF AllocKstack, vm
<1>3. CASE free = {} /\ state' = [state EXCEPT ![np[p]] = "UNUSED"] /\ Return(p) /\ UNCHANGED <<kmem, kp>>
  <2>1. \A q \in Procs : state'[q] \in Living => state[q] \in Living
    BY <1>3 DEF Inv1, CtlInv, ProcTypes, Living
  <2>2. \A q \in Procs : q # p => Untouched(p, q)
    BY <1>2, <1>3, <2>1, ReturnIs DEF Untouched
  <2>3. FillOn(p)' /\ SharedOn(p)'
    BY <1>1, <1>2, <1>3, <2>1, ReturnIs DEF FillOn, SharedOn, Inv2, Filled, Map
  <2> QED
    BY <1>1, <1>2, <1>3, <2>2, <2>3, ReturnIs, NeutralStep DEF kmem
<1>4. CASE \E f \in free : KAlloc(f) /\ kp' = [kp EXCEPT !["kstack"][np[p]] = f]
                           /\ Goto(p, "kvm") /\ UNCHANGED <<state, locals>>
  <2>1. PICK f \in free : KAlloc(f) /\ kp' = [kp EXCEPT !["kstack"][np[p]] = f]
    BY <1>4
  <2>2. pc'[p] = "kvm" /\ \A q \in Procs : q # p => pc'[q] = pc[q]
    BY <1>4 DEF Goto, Inv1, CtlInv, ProcTypes
  <2>3. UNCHANGED <<state, i>>
    BY <1>4 DEF locals
  <2>4. \A q \in Procs : kp'["d"][q] = kp["d"][q] /\ kp'["pgdir"][q] = kp["pgdir"][q]
    BY <2>1 DEF Inv1, CtlInv, ProcTypes, Fields
  <2>5. \A q \in Procs : q # p => Untouched(p, q)
    BY <1>2, <2>2, <2>3, <2>4 DEF Untouched
  <2>6. FillOn(p)' /\ SharedOn(p)'
    BY <1>1, <1>2, <2>2, <2>3, <2>4 DEF FillOn, SharedOn, Inv2, Filled, Map
  <2>7. Uncounted' = Uncounted
    BY <1>1, <2>2, <2>3, <2>4, UncountedKept
  <2>8. "kstack" \in Fields
    BY DEF Fields
  <2>9. Owners' /\ Entries'
    BY <1>1, <1>2, <2>1, <2>7, <2>8, AllocPointer
  <2>10. Filled' /\ Shared'
    BY <1>1, <1>2, <2>5, <2>6, FilledNext
  <2> QED
    BY <2>9, <2>10 DEF Inv2
<1> QED
  BY <1>3, <1>4 DEF AllocKstack

LEMMA KvmDirOwn ==
  ASSUME Inv1, Inv1', Inv2, OneCPU, NEW p \in Procs, KvmDir(p)
  PROVE  Inv2'
<1>1. /\ pc[p] = "kvm" /\ state[p] = "RUNNING" /\ \E c \in CPUs : cpu[c] \in {p, NoProc}
      /\ kp["d"][p] = NoFrame
  BY AtIs DEF KvmDir, Inv1, CtlInv, Pointers, HasDir
<1>2. UNCHANGED <<pte, writable, tables, dropped, sz>>
  BY DEF KvmDir, vm
<1>3. CASE ~Forking(p) /\ free = {} /\ KvmFailed(p, kp)
  <2>1. Return(p) /\ UNCHANGED <<free, free_pages, ref_cnt, kp, state>>
    BY <1>3 DEF KvmFailed, kmem
  <2>2. \A q \in Procs : q # p => Untouched(p, q)
    BY <1>2, <2>1, ReturnIs DEF Untouched
  <2>3. FillOn(p)' /\ SharedOn(p)'
    BY <1>1, <1>2, <2>1, ReturnIs DEF FillOn, SharedOn, Inv2, Filled, Map
  <2> QED
    BY <1>1, <1>2, <2>1, <2>2, <2>3, ReturnIs, NeutralStep
<1>4. CASE Forking(p) /\ free = {} /\ KvmFailed(p, kp)
  <2>1. /\ np[p] \in Procs /\ state[np[p]] = "EMBRYO" /\ kp["kstack"][np[p]] \in Frames
    BY <1>1, <1>4 DEF Forking, Inv1, CtlInv, ProcTypes, Slot, ForkPcs, Ptr, Fields
  <2>2. /\ Return(p) /\ KFree(kp["kstack"][np[p]])
        /\ kp' = [kp EXCEPT !["kstack"][np[p]] = NoFrame]
        /\ state' = [state EXCEPT ![np[p]] = "UNUSED"]
    BY <1>4 DEF KvmFailed
  <2>3. Sets(kp, kp', "kstack", np[p], NoFrame)
    BY <2>1, <2>2 DEF Sets, Inv1, CtlInv, ProcTypes, Fields, Ptr
  <2>4. \A q \in Procs : kp'["d"][q] = kp["d"][q] /\ kp'["pgdir"][q] = kp["pgdir"][q]
    BY <2>3 DEF Sets, Fields
  <2>5. \A q \in Procs : state'[q] \in Living => state[q] \in Living
    BY <2>2 DEF Inv1, CtlInv, ProcTypes, Living
  <2>6. \A q \in Procs : q # p => Untouched(p, q)
    BY <1>2, <2>2, <2>4, <2>5, ReturnIs DEF Untouched
  <2>7. FillOn(p)' /\ SharedOn(p)'
    BY <1>1, <1>2, <2>2, <2>4, <2>5, ReturnIs DEF FillOn, SharedOn, Inv2, Filled, Map
  <2>8. Uncounted' = Uncounted
    <3>1. /\ \A q \in Procs : q # p => pc'[q] = pc[q] /\ i'[q] = i[q]
          /\ pc'[p] = "user"
      BY <2>2, ReturnIs
    <3> QED
      BY <1>1, <2>4, <3>1, UncountedKept
  <2>9. "kstack" \in Fields
    BY DEF Fields
  <2>10. Owners' /\ Entries'
    BY <1>2, <2>1, <2>2, <2>3, <2>8, <2>9, FreePointer
  <2>11. Filled' /\ Shared'
    BY <1>1, <1>2, <2>6, <2>7, FilledNext
  <2> QED
    BY <2>10, <2>11 DEF Inv2
<1>5. CASE \E f \in free : /\ KAlloc(f) /\ kp' = [kp EXCEPT !["d"][p] = f]
                           /\ Goto(p, "tables") /\ UNCHANGED <<data, state, locals>>
  <2>1. PICK f \in free : KAlloc(f) /\ kp' = [kp EXCEPT !["d"][p] = f]
    BY <1>5
  <2>2. pc'[p] = "tables" /\ \A q \in Procs : q # p => pc'[q] = pc[q]
    BY <1>5 DEF Goto, Inv1, CtlInv, ProcTypes
  <2>3. UNCHANGED <<state, i>>
    BY <1>5 DEF locals
  <2>4. /\ \A q \in Procs : kp'["pgdir"][q] = kp["pgdir"][q]
        /\ \A q \in Procs : q # p => kp'["d"][q] = kp["d"][q]
        /\ kp'["d"][p] = f
    BY <2>1 DEF Inv1, CtlInv, ProcTypes, Fields
  <2>5. \A q \in Procs : q # p => Untouched(p, q)
    BY <1>2, <2>2, <2>3, <2>4 DEF Untouched
  <2>6. \A v \in Pages : pte[f][v] = NotPresent
    BY FreeIsBlank
  <2>7. FillOn(p)' /\ SharedOn(p)'
    BY <1>1, <1>2, <2>2, <2>3, <2>4, <2>6, NameAssumption DEF FillOn, SharedOn, Inv2, Filled, Map
  <2>8. Uncounted' = Uncounted
    BY <1>1, <2>2, <2>3, <2>4, UncountedKept
  <2>9. "d" \in Fields
    BY DEF Fields
  <2>10. Owners' /\ Entries'
    BY <1>1, <1>2, <2>1, <2>8, <2>9, AllocPointer
  <2>11. Filled' /\ Shared'
    BY <1>1, <1>2, <2>5, <2>7, FilledNext
  <2> QED
    BY <2>10, <2>11 DEF Inv2
<1> QED
  BY <1>3, <1>4, <1>5 DEF KvmDir

(* The page a fault or a loop is at.                                       *)
LEMMA PageAt ==
  ASSUME Inv1, NEW p \in Procs,
         \/ pc[p] \in {"ref", "dup", "dec", "copy", "inc"}
         \/ pc[p] = "cow" /\ i[p] < sz[p]
         \/ pc[p] \in {"load", "grow"} /\ i[p] < newsz[p]
  PROVE  i[p] \in Pages
<1>1. i[p] \in 0 .. NPages /\ sz[p] \in 0 .. NPages /\ newsz[p] \in 0 .. NPages /\ NPages \in Nat
  BY SizeAssumption DEF Inv1, CtlInv, ProcTypes
<1>2. i[p] < NPages
  BY <1>1 DEF Inv1, CtlInv, Loops
<1> QED
  BY <1>1, <1>2 DEF Pages

LEMMA AllocCopyOwn ==
  ASSUME Inv1, Inv1', Inv2, OneCPU, NEW p \in Procs, AllocCopy(p)
  PROVE  Inv2'
<1>1. /\ pc[p] = "dup" /\ state[p] = "RUNNING" /\ \E c \in CPUs : cpu[c] \in {p, NoProc}
      /\ kp["mem"][p] = NoFrame /\ kp["pgdir"][p] \in Frames /\ i[p] \in Pages
  <2>1. pc[p] = "dup" /\ state[p] = "RUNNING" /\ (\E c \in CPUs : cpu[c] \in {p, NoProc}) /\ kp["pgdir"][p] \in Frames
    BY AtIs DEF AllocCopy
  <2>2. kp["mem"][p] = NoFrame
    BY <2>1 DEF Inv1, CtlInv, Pointers
  <2> QED
    BY <2>1, <2>2, PageAt
<1>2. /\ UNCHANGED <<pte, writable, tables, dropped, sz, state, i>>
      /\ pc'[p] = "dec" /\ \A q \in Procs : q # p => pc'[q] = pc[q]
  BY DEF AllocCopy, Goto, vm, procs, locals, Inv1, CtlInv, ProcTypes
<1>3. Map(p)[i[p]] \in Frames /\ Map(p)[i[p]] \notin free /\ ref_cnt[Map(p)[i[p]]] > 1
  <2>1. Map(p)[i[p]] \in Frames /\ ref_cnt[Map(p)[i[p]]] > 1
    BY <1>1 DEF Inv2, Filled, FillOn, Shared, SharedOn
  <2>2. Users(Map(p)[i[p]]) # {}
    BY <1>1, UsersIs DEF Map, Inv1
  <2> QED
    BY <2>1, <2>2 DEF Inv2, Owners, Kinds
<1>4. CASE free = {} /\ UNCHANGED <<kmem, kp>>
  <2>1. \A q \in Procs : q # p => Untouched(p, q)
    BY <1>2, <1>4 DEF Untouched
  <2>2. FillOn(p)' /\ SharedOn(p)'
    BY <1>1, <1>2, <1>4 DEF FillOn, SharedOn, Inv2, Filled, Shared, Map, kmem
  <2> QED
    BY <1>1, <1>2, <1>4, <2>1, <2>2, NeutralStep DEF kmem
<1>5. CASE \E f \in free : KAlloc(f) /\ kp' = [kp EXCEPT !["mem"][p] = f]
  <2>1. PICK f \in free : KAlloc(f) /\ kp' = [kp EXCEPT !["mem"][p] = f]
    BY <1>5
  <2>2. \A q \in Procs : kp'["d"][q] = kp["d"][q] /\ kp'["pgdir"][q] = kp["pgdir"][q]
    BY <2>1 DEF Inv1, CtlInv, ProcTypes, Fields
  <2>3. \A q \in Procs : q # p => Untouched(p, q)
    BY <1>2, <2>2 DEF Untouched
  <2>4. Map(p)' = Map(p)
    BY <1>2, <2>2 DEF Map
  <2>5. ref_cnt'[Map(p)[i[p]]] = ref_cnt[Map(p)[i[p]]]
    BY <1>3, <2>1, AllocIs
  <2>6. FillOn(p)' /\ SharedOn(p)'
    BY <1>1, <1>2, <1>3, <2>2, <2>4, <2>5 DEF FillOn, SharedOn, Inv2, Filled
  <2>7. Uncounted' = Uncounted
    BY <1>1, <1>2, <2>2, UncountedKept
  <2>8. "mem" \in Fields
    BY DEF Fields
  <2>9. Owners' /\ Entries'
    BY <1>1, <1>2, <2>1, <2>7, <2>8, AllocPointer
  <2>10. Filled' /\ Shared'
    BY <1>1, <1>2, <2>3, <2>6, FilledNext
  <2> QED
    BY <2>9, <2>10 DEF Inv2
<1> QED
  BY <1>4, <1>5 DEF AllocCopy

LEMMA LoadPageOwn ==
  ASSUME Inv1, Inv1', Inv2, OneCPU, NEW p \in Procs, LoadPage(p)
  PROVE  Inv2'
<1> DEFINE d == kp["d"][p]
<1>1. /\ pc[p] = "load" /\ state[p] = "RUNNING" /\ (\E c \in CPUs : cpu[c] \in {p, NoProc})
      /\ d \in Frames /\ i[p] < newsz[p]
  BY AtIs, PointerFrames DEF LoadPage, More, HasDir
<1>2. i[p] \in Pages
  BY <1>1, PageAt
<1>3. UNCHANGED <<tables, kp, dropped, sz, state>>
  BY DEF LoadPage, procs
<1>4. \A v \in Pages : (v >= i[p] => pte[d][v] = NotPresent) /\ pte[d][v] # Frame0
  BY <1>1 DEF Inv2, Filled, FillOn
<1>5. CASE Goto(p, "free") /\ UNCHANGED <<kmem, data, pte, writable, i>>
  <2>1. pc'[p] = "free" /\ \A q \in Procs : q # p => pc'[q] = pc[q]
    BY <1>5 DEF Goto, Inv1, CtlInv, ProcTypes
  <2>2. \A q \in Procs : q # p => Untouched(p, q)
    BY <1>3, <1>5, <2>1 DEF Untouched
  <2>3. FillOn(p)' /\ SharedOn(p)'
    BY <1>1, <1>3, <1>5, <2>1 DEF FillOn, SharedOn, Inv2, Filled, Map
  <2> QED
    BY <1>1, <1>3, <1>5, <2>1, <2>2, <2>3, NeutralStep DEF kmem
<1>6. CASE \E f \in free : /\ KAlloc(f) /\ MapPage(d, i[p], f)
                           /\ i' = [i EXCEPT ![p] = @ + 1] /\ UNCHANGED pc
  <2>1. PICK f \in free : KAlloc(f) /\ MapPage(d, i[p], f)
    BY <1>6
  <2>2. UNCHANGED pc /\ i'[p] = i[p] + 1 /\ \A q \in Procs : q # p => i'[q] = i[q]
    BY <1>6 DEF Inv1, CtlInv, ProcTypes
  <2>3. \A q \in Procs : q # p => Untouched(p, q)
    BY <1>3, <2>2 DEF Untouched
  <2>4. Uncounted' = Uncounted
    BY <1>1, <1>3, <2>2, UncountedKept
  <2>5. Owners' /\ Entries'
    BY <1>1, <1>2, <1>3, <1>4, <2>1, <2>4, AllocPage, SizeAssumption DEF DirsOf, Pages
  <2>6. /\ f \in Frames /\ pte'[d][i[p]] = f
        /\ \A u \in Pages : u # i[p] => pte'[d][u] = pte[d][u]
        /\ \A c \in Frames : c # d => pte'[c] = pte[c]
    <3>1. f \in Frames /\ PageTypes
      BY <2>1, AllocIs DEF Inv1
    <3>2. Enter(d, i[p], f)
      BY <2>1 DEF MapPage, Enter
    <3> HIDE DEF d
    <3> QED
      BY <1>1, <1>2, <3>1, <3>2, UsersAfter
  <2>7. kp["pgdir"][p] \in Frames /\ kp["pgdir"][p] # d
    BY <1>1, NameAssumption, PointerFrames, AtIs, OwnDirs DEF LoadPage, Inv2, Owners
  <2>8. FillOn(p)'
    <3>1. \A v \in Pages : v \in Int /\ i[p] \in Int
      BY <1>2 DEF Pages
    <3>2. \A v \in Pages : (v >= i'[p] => pte'[d][v] = NotPresent) /\ pte'[d][v] # Frame0
      BY <1>4, <2>2, <2>6, <3>1, NameAssumption
    <3>3. Map(p)' = Map(p)
      BY <1>3, <2>6, <2>7 DEF Map
    <3> QED
      BY <1>1, <1>3, <2>2, <3>2, <3>3 DEF FillOn, Inv2, Filled
  <2>9. SharedOn(p)'
    BY <1>1, <2>2 DEF SharedOn
  <2>10. Filled' /\ Shared'
    BY <1>1, <1>3, <2>3, <2>6, <2>8, <2>9, FilledNext DEF DirsOf
  <2> QED
    BY <2>5, <2>10 DEF Inv2
<1> QED
  BY <1>5, <1>6 DEF LoadPage

LEMMA GrowPageOwn ==
  ASSUME Inv1, Inv1', Inv2, OneCPU, NEW p \in Procs, GrowPage(p)
  PROVE  Inv2'
<1> DEFINE d == kp["pgdir"][p]
<1>1. /\ pc[p] = "grow" /\ state[p] = "RUNNING" /\ (\E c \in CPUs : cpu[c] \in {p, NoProc})
      /\ d \in Frames /\ i[p] < newsz[p]
  BY AtIs DEF GrowPage, More
<1>2. i[p] \in Pages
  BY <1>1, PageAt
<1>3. UNCHANGED <<tables, kp, dropped, sz, state>>
  BY DEF GrowPage, procs
<1>4. \A v \in Pages : (v >= i[p] => pte[d][v] = NotPresent) /\ pte[d][v] # Frame0
  BY <1>1 DEF Inv2, Filled, FillOn, Map, Living
<1>5. CASE Goto(p, "undo") /\ UNCHANGED <<kmem, data, pte, writable, i>>
  <2>1. pc'[p] = "undo" /\ \A q \in Procs : q # p => pc'[q] = pc[q]
    BY <1>5 DEF Goto, Inv1, CtlInv, ProcTypes
  <2>2. \A q \in Procs : q # p => Untouched(p, q)
    BY <1>3, <1>5, <2>1 DEF Untouched
  <2>3. FillOn(p)' /\ SharedOn(p)'
    BY <1>1, <1>3, <1>5, <2>1 DEF FillOn, SharedOn, Inv2, Filled, Map
  <2> QED
    BY <1>1, <1>3, <1>5, <2>1, <2>2, <2>3, NeutralStep DEF kmem
<1>6. CASE \E f \in free : /\ KAlloc(f) /\ MapPage(d, i[p], f)
                           /\ i' = [i EXCEPT ![p] = @ + 1] /\ UNCHANGED pc
  <2>1. PICK f \in free : KAlloc(f) /\ MapPage(d, i[p], f)
    BY <1>6
  <2>2. UNCHANGED pc /\ i'[p] = i[p] + 1 /\ \A q \in Procs : q # p => i'[q] = i[q]
    BY <1>6 DEF Inv1, CtlInv, ProcTypes
  <2>3. \A q \in Procs : q # p => Untouched(p, q)
    BY <1>3, <2>2 DEF Untouched
  <2>4. Uncounted' = Uncounted
    BY <1>1, <1>3, <2>2, UncountedKept
  <2>5. Owners' /\ Entries'
    BY <1>1, <1>2, <1>3, <1>4, <2>1, <2>4, AllocPage, SizeAssumption DEF DirsOf, Pages
  <2>6. /\ f \in Frames /\ pte'[d][i[p]] = f
        /\ \A u \in Pages : u # i[p] => pte'[d][u] = pte[d][u]
        /\ \A c \in Frames : c # d => pte'[c] = pte[c]
    <3>1. f \in Frames /\ PageTypes
      BY <2>1, AllocIs DEF Inv1
    <3>2. Enter(d, i[p], f)
      BY <2>1 DEF MapPage, Enter
    <3> HIDE DEF d
    <3> QED
      BY <1>1, <1>2, <3>1, <3>2, UsersAfter
  <2>7. FillOn(p)'
    <3>1. \A v \in Pages : v \in Int /\ i[p] \in Int
      BY <1>2 DEF Pages
    <3>2. \A v \in Pages : (v >= i'[p] => Map(p)'[v] = NotPresent) /\ Map(p)'[v] # Frame0
      BY <1>3, <1>4, <2>2, <2>6, <3>1, NameAssumption DEF Map
    <3> QED
      BY <1>1, <1>3, <2>2, <3>2 DEF FillOn
  <2>8. SharedOn(p)'
    BY <1>1, <2>2 DEF SharedOn
  <2>9. Filled' /\ Shared'
    BY <1>1, <1>3, <2>3, <2>6, <2>7, <2>8, FilledNext DEF DirsOf
  <2> QED
    BY <2>5, <2>9 DEF Inv2
<1> QED
  BY <1>5, <1>6 DEF GrowPage

(* setupkvm() takes a page table, and gives up.                            *)
LEMMA AllocTable ==
  ASSUME Inv1, Inv2, NEW p \in Procs, NEW d \in DirsOf(p), d \in Frames,
         NEW f \in free, KAlloc(f), tables' = [tables EXCEPT ![d] = @ \cup {f}],
         UNCHANGED <<kp, pte, writable, dropped>>, Uncounted' = Uncounted
  PROVE  Owners' /\ Entries'
<1>1. /\ f \in Frames /\ free' = free \ {f} /\ free_pages' = Cardinality(free')
      /\ ref_cnt'[f] = 1 /\ \A g \in Frames : g # f => ref_cnt'[g] = ref_cnt[g]
      /\ ~Pointed(f) /\ ~Tabled(f) /\ Users(f) = {}
  BY AllocIs
<1>2. tables \in [Frames -> SUBSET Frames]
  BY DEF Inv1, PageTypes
<1>3. /\ tables'[d] = tables[d] \cup {f}
      /\ \A c \in Frames : c # d => tables'[c] = tables[c]
  BY <1>2
<1>4. \A g \in Frames : /\ Pointed(g)' <=> Pointed(g)
                        /\ Tabled(g)' <=> Tabled(g) \/ g = f
                        /\ Users(g)' = Users(g)
  BY <1>3, UsersKept DEF Pointed, PointedIn, Tabled
<1>5. PtrOnce'
  BY DEF Inv2, Owners, PtrOnce, OnceIn
<1>6. TblOnce'
  <2>1. \A c \in Frames : f \notin tables[c]
    BY <1>1 DEF Tabled
  <2> QED
    BY <1>3, <2>1 DEF Inv2, Owners, TblOnce
<1>7. Kinds'
  BY <1>1, <1>4 DEF Inv2, Owners, Kinds
<1>8. Conserved'
  BY <1>1, <1>4 DEF Inv2, Owners, Conserved
<1>9. DirHeld'
  BY <1>3 DEF Inv2, Owners, DirHeld, DirsOf
<1>10. Entries'
  BY <1>1, EntriesKept DEF Inv2
<1> QED
  BY <1>5, <1>6, <1>7, <1>8, <1>9, <1>10 DEF Owners

LEMMA ForgetDir ==
  ASSUME Inv1, Inv2, NEW p \in Procs, NEW d \in Frames, kp["d"][p] = d,
         Present(d) = {}, UNCHANGED <<pte, writable>>, Uncounted' = Uncounted,
         tables' = [tables EXCEPT ![d] = {}], dropped' = dropped \cup {d} \cup tables[d],
         NEW k, Sets(kp, k, "d", p, NoFrame),
         \/ UNCHANGED <<free, free_pages, ref_cnt>> /\ kp' = k
         \/ \E q \in Procs : /\ kp["kstack"][q] \in Frames /\ KFree(kp["kstack"][q])
                             /\ Sets(k, kp', "kstack", q, NoFrame)
  PROVE  Owners' /\ Entries'
<1>1. OnceIn(k) /\ \A g \in Frames : PointedIn(k, g) <=> Pointed(g) /\ g # d
  <2>1. OnceIn(kp) /\ "d" \in Fields
    BY DEF Inv2, Owners, PtrOnce, Fields
  <2> QED
    BY ONLY <2>1, p \in Procs, d \in Frames, kp["d"][p] = d, Sets(kp, k, "d", p, NoFrame), PointLess
    DEF Pointed
<1>2. ref_cnt' = ref_cnt
  <2>1. ASSUME NEW q \in Procs, kp["kstack"][q] \in Frames, KFree(kp["kstack"][q])
        PROVE  ref_cnt' = ref_cnt
    <3>1. Pointed(kp["kstack"][q])
      BY DEF Pointed, PointedIn, Fields
    <3> QED
      BY <2>1, <3>1, KfreeOwned
  <2> QED
    BY <2>1
<1>3. /\ tables'[d] = {} /\ \A c \in Frames : c # d => tables'[c] = tables[c]
  BY DEF Inv1, PageTypes
<1>4. \A g \in Frames : Users(g)' = Users(g)
  BY UsersKept
<1>5. \A g \in Frames : Tabled(g)' <=> Tabled(g) /\ g \notin tables[d]
  BY <1>3 DEF Tabled, Inv2, Owners, TblOnce
<1>6. TblOnce'
  BY <1>3 DEF Inv2, Owners, TblOnce
<1>7. /\ PtrOnce' /\ Kinds' /\ Conserved'
      /\ \A q \in Procs : /\ kp'["pgdir"][q] = kp["pgdir"][q]
                          /\ q # p => kp'["d"][q] = kp["d"][q]
  <2>1. CASE UNCHANGED <<free, free_pages, ref_cnt>> /\ kp' = k
    <3>1. PtrOnce' /\ \A g \in Frames : Pointed(g)' <=> Pointed(g) /\ g # d
      BY <1>1, <2>1 DEF PtrOnce, Pointed
    <3>2. Kinds'
      BY <1>4, <1>5, <2>1, <3>1 DEF Inv2, Owners, Kinds
    <3>3. Conserved'
      BY <1>4, <1>5, <2>1, <3>1 DEF Inv2, Owners, Conserved
    <3> QED
      BY <2>1, <3>1, <3>2, <3>3 DEF Sets, Fields
  <2>2. ASSUME NEW q \in Procs, kp["kstack"][q] \in Frames, KFree(kp["kstack"][q]),
               Sets(k, kp', "kstack", q, NoFrame)
        PROVE  /\ PtrOnce' /\ Kinds' /\ Conserved'
               /\ \A r \in Procs : /\ kp'["pgdir"][r] = kp["pgdir"][r]
                                   /\ r # p => kp'["d"][r] = kp["d"][r]
    <3>1. PICK s \in Frames : s = kp["kstack"][q]
      BY <2>2
    <3>2. Pointed(s) /\ s # d
      BY <3>1, NameAssumption DEF Pointed, PointedIn, Fields, Inv2, Owners, PtrOnce, OnceIn
    <3>3. /\ s \notin free /\ free' = free \cup {s} /\ free_pages' = Cardinality(free')
          /\ ref_cnt' = ref_cnt /\ Users(s) = {}
      BY <2>2, <3>1, <3>2, KfreeOwned
    <3>4. k["kstack"][q] = s
      BY <3>1 DEF Sets, Fields
    <3>5. OnceIn(kp') /\ \A g \in Frames : PointedIn(kp', g) <=> PointedIn(k, g) /\ g # s
      <4>1. "kstack" \in Fields
        BY DEF Fields
      <4> QED
        BY ONLY <1>1, <2>2, <3>4, <4>1, s \in Frames, PointLess
    <3>6. PtrOnce' /\ \A g \in Frames : Pointed(g)' <=> Pointed(g) /\ g # d /\ g # s
      BY <1>1, <3>5 DEF PtrOnce, Pointed
    <3>7. Kinds'
      BY <1>4, <1>5, <3>2, <3>3, <3>6 DEF Inv2, Owners, Kinds
    <3>8. Conserved'
      BY <1>4, <1>5, <3>3, <3>6 DEF Inv2, Owners, Conserved
    <3>9. \A r \in Procs : kp'["pgdir"][r] = kp["pgdir"][r] /\ (r # p => kp'["d"][r] = kp["d"][r])
      BY <2>2 DEF Sets, Fields
    <3> QED
      BY <3>6, <3>7, <3>8, <3>9
  <2> QED
    BY <2>1, <2>2
<1>8. DirHeld'
  BY <1>3, <1>7 DEF Inv2, Owners, DirHeld, Present
<1>9. Entries'
  BY <1>2, EntriesKept DEF Inv2
<1> QED
  BY <1>6, <1>7, <1>8, <1>9 DEF Owners

LEMMA KvmTableOwn ==
  ASSUME Inv1, Inv1', Inv2, OneCPU, NEW p \in Procs, KvmTable(p)
  PROVE  Inv2'
<1>0. PICK d : d = kp["d"][p]
  OBVIOUS
<1>1. /\ pc[p] = "tables" /\ state[p] = "RUNNING" /\ (\E c \in CPUs : cpu[c] \in {p, NoProc})
      /\ d \in Frames /\ i[p] = 0
  <2>1. At(p, "tables")
    BY DEF KvmTable
  <2>2. pc[p] = "tables" /\ state[p] = "RUNNING" /\ \E c \in CPUs : cpu[c] \in {p, NoProc}
    BY <2>1, AtIs
  <2> QED
    BY <1>0, <2>2, PointerFrames DEF HasDir, Inv1, CtlInv, Loops
<1>2. UNCHANGED <<pte, writable, sz>>
  BY DEF KvmTable
<1>3. Present(d) = {}
  BY <1>0, <1>1 DEF Inv2, Filled, FillOn, Present
<1>4. CASE Goto(p, IF Forking(p) THEN "cow" ELSE "load")
           /\ UNCHANGED <<kmem, data, state, kp, tables, locals, dropped>>
  <2>1. pc'[p] \in {"cow", "load"} /\ \A q \in Procs : q # p => pc'[q] = pc[q]
    BY <1>4 DEF Goto, Inv1, CtlInv, ProcTypes
  <2>2. \A q \in Procs : q # p => Untouched(p, q)
    BY <1>2, <1>4, <2>1 DEF Untouched, locals
  <2>3. FillOn(p)' /\ SharedOn(p)'
    BY <1>1, <1>2, <1>4, <2>1 DEF FillOn, SharedOn, Inv2, Filled, Map, locals
  <2>4. UNCHANGED <<free, free_pages, ref_cnt, pte, writable, tables, kp, dropped>>
    BY <1>2, <1>4 DEF kmem
  <2> QED
    BY <1>1, <2>1, <2>2, <2>3, <2>4, NeutralStep
<1>5. CASE /\ \E f \in free : KAlloc(f) /\ tables' = [tables EXCEPT ![d] = @ \cup {f}]
           /\ UNCHANGED <<data, state, kp, pc, locals, dropped>>
  <2>1. PICK f \in free : KAlloc(f) /\ tables' = [tables EXCEPT ![d] = @ \cup {f}]
    BY <1>5
  <2>2. UNCHANGED <<state, kp, pc, i, dropped>>
    BY <1>5 DEF locals
  <2>3. Uncounted' = Uncounted
    BY <2>2, UncountedKept
  <2>4. Owners' /\ Entries'
    BY <1>0, <1>1, <1>2, <2>1, <2>2, <2>3, AllocTable DEF DirsOf
  <2>5. FillOn(p)' /\ SharedOn(p)'
    BY <1>1, <1>2, <2>2 DEF FillOn, SharedOn, Inv2, Filled, Map
  <2>6. \A q \in Procs : q # p => Untouched(p, q)
    BY <1>2, <2>2 DEF Untouched
  <2>7. Filled' /\ Shared'
    BY <1>1, <1>2, <2>5, <2>6, FilledNext
  <2> QED
    BY <2>4, <2>7 DEF Inv2
<1>6. CASE /\ KvmFailed(p, [kp EXCEPT !["d"][p] = NoFrame])
           /\ tables' = [tables EXCEPT ![d] = {}]
           /\ dropped' = dropped \cup {d} \cup tables[d]
  <2>1. PICK k : k = [kp EXCEPT !["d"][p] = NoFrame]
    OBVIOUS
  <2>2. Sets(kp, k, "d", p, NoFrame)
    BY <2>1 DEF Sets, Inv1, CtlInv, ProcTypes, Fields, Ptr
  <2>3. Return(p) /\ \/ /\ KFree(kp["kstack"][np[p]]) /\ Forking(p)
                        /\ kp' = [k EXCEPT !["kstack"][np[p]] = NoFrame]
                        /\ state' = [state EXCEPT ![np[p]] = "UNUSED"]
                     \/ kp' = k /\ UNCHANGED <<kmem, data, state>>
    BY <1>6, <2>1 DEF KvmFailed
  <2>4. Forking(p) => np[p] \in Procs /\ kp["kstack"][np[p]] \in Frames
    BY <1>1 DEF Forking, Inv1, CtlInv, ProcTypes, Slot, ForkPcs, Ptr, Fields
  <2>5. \/ UNCHANGED <<free, free_pages, ref_cnt>> /\ kp' = k
        \/ \E q \in Procs : /\ kp["kstack"][q] \in Frames /\ KFree(kp["kstack"][q])
                            /\ Sets(k, kp', "kstack", q, NoFrame)
    <3>1. CASE kp' = k /\ UNCHANGED <<kmem, data, state>>
      BY <3>1 DEF kmem
    <3>2. CASE Forking(p) /\ KFree(kp["kstack"][np[p]]) /\ kp' = [k EXCEPT !["kstack"][np[p]] = NoFrame]
      <4>1. Sets(k, kp', "kstack", np[p], NoFrame)
        BY <2>2, <2>4, <3>2 DEF Sets, Fields, Ptr
      <4> QED
        BY <2>4, <3>2, <4>1
    <3> QED
      BY <2>3, <3>1, <3>2
  <2>6. \A q \in Procs : /\ kp'["pgdir"][q] = kp["pgdir"][q]
                         /\ q # p => kp'["d"][q] = kp["d"][q]
    BY <2>2, <2>5 DEF Sets, Fields
  <2>7. \A q \in Procs : state'[q] \in Living => state[q] \in Living
    BY <2>3 DEF Inv1, CtlInv, ProcTypes, Living
  <2>8. pc'[p] = "user" /\ \A q \in Procs : q # p => pc'[q] = pc[q] /\ i'[q] = i[q]
    BY <2>3, ReturnIs
  <2>9. \A q \in Procs : q # p => Untouched(p, q)
    BY <1>2, <2>6, <2>7, <2>8 DEF Untouched
  <2>10. FillOn(p)' /\ SharedOn(p)'
    BY <1>1, <1>2, <2>6, <2>7, <2>8 DEF FillOn, SharedOn, Inv2, Filled, Map
  <2>11. Uncounted' = Uncounted
    BY <1>1, <2>6, <2>8, UncountedKept
  <2>12. Owners' /\ Entries'
    BY <1>0, <1>1, <1>2, <1>3, <1>6, <2>2, <2>5, <2>11, ForgetDir
  <2>13. Filled' /\ Shared'
    BY <1>1, <1>2, <2>9, <2>10, FilledNext
  <2> QED
    BY <2>12, <2>13 DEF Inv2
<1> QED
  BY <1>0, <1>4, <1>5, <1>6 DEF KvmTable

-----------------------------------------------------------------------------
(* An entry is given back.                                                 *)

(* Who may clear an entry owns a counted reference, and LastRef() tells    *)
(* whether it is the only one: cowuvm() of another process cannot be       *)
(* between the copy of the entry and incPageRef(), because its own entry   *)
(* is a second one, and nobody else is inside the page fault handler.      *)
LEMMA LastUser ==
  ASSUME Inv1, Inv2, OneCPU, NEW p \in Procs, \E c \in CPUs : cpu[c] \in {p, NoProc},
         pc[p] \notin {"inc", "copy"}, NEW d \in DirsOf(p), d \in Frames, NEW v \in Pages,
         NEW f \in Frames, pte[d][v] = f
  PROVE  /\ <<d, v>> \in Users(f) /\ <<d, v>> \in Counted(f)
         /\ IsFiniteSet(Counted(f)) /\ Cardinality(Counted(f)) \in Nat
         /\ ref_cnt[f] = Cardinality(Counted(f)) /\ ref_cnt[f] >= 1
         /\ LastRef(f) => Users(f) = {<<d, v>>}
<1>1. <<d, v>> \in Users(f) /\ IsFiniteSet(Users(f))
  BY UsersIs DEF Inv1
<1>2. PtrOnce /\ d # NoFrame
  BY NameAssumption DEF Inv2, Owners
<1>3. <<d, v>> \notin Uncounted
  <2> SUFFICES ASSUME NEW q \in Procs,
                      \/ pc[q] = "inc" /\ <<d, v>> = <<kp["d"][q], i[q]>>
                      \/ pc[q] = "copy" /\ <<d, v>> = <<kp["pgdir"][q], i[q]>>
               PROVE  FALSE
    BY UncountedIs
  <2>1. d \in {kp["pgdir"][q], kp["d"][q]}
    OBVIOUS
  <2>2. p = q
    BY <1>2, <2>1, OwnDirs DEF DirsOf
  <2> QED
    BY <2>2
<1>4. /\ <<d, v>> \in Counted(f) /\ IsFiniteSet(Counted(f)) /\ Cardinality(Counted(f)) \in Nat
  BY <1>1, <1>3, FS_Subset, FS_CardinalityType DEF Counted
<1>5. ref_cnt[f] = Cardinality(Counted(f))
  BY <1>1 DEF Inv2, Entries, RefOn
<1>6. Cardinality(Counted(f)) # 0
  BY <1>4, FS_EmptySet
<1>7. ASSUME LastRef(f) PROVE Users(f) = {<<d, v>>}
  <2>1. Cardinality(Counted(f)) = 1
    BY <1>4, <1>5, <1>6, <1>7 DEF LastRef
  <2>2. Counted(f) = {<<d, v>>}
    BY <1>4, <2>1, FS_Singleton
  <2>3. Users(f) \cap Uncounted = {}
    <3> SUFFICES ASSUME NEW s \in Users(f), s \in Uncounted PROVE FALSE
      OBVIOUS
    <3>1. PICK q \in Procs : \/ pc[q] = "inc" /\ s = <<kp["d"][q], i[q]>>
                             \/ pc[q] = "copy" /\ s = <<kp["pgdir"][q], i[q]>>
      BY UncountedIs
    <3>2. pc[q] = "inc" /\ s = <<kp["d"][q], i[q]>> /\ q # p
      BY <3>1, OnlyRunner DEF InHandler
    <3>3. kp["d"][q] \in Frames /\ kp["pgdir"][q] \in Frames /\ i[q] \in Pages
      <4>1. kp["d"][q] \in Frames /\ i[q] \in Pages
        BY <3>2, PointerFrames, PageAt DEF HasDir
      <4>2. kp["pgdir"][q] # NoFrame /\ kp["pgdir"][q] \in Ptr
        BY <3>2, PointerFrames DEF Inv1, CtlInv, Control, Pointers, Fields
      <4> QED
        BY <4>1, <4>2 DEF Ptr
    <3>4. pte[kp["d"][q]][i[q]] = pte[kp["pgdir"][q]][i[q]]
      BY <3>2 DEF Inv2, Filled, FillOn, Map
    <3>5. pte[kp["d"][q]][i[q]] = f
      BY <3>2, <3>3, UsersIs DEF Inv1
    <3>6. <<kp["pgdir"][q], i[q]>> \in Users(f)
      BY <3>3, <3>4, <3>5, UsersIs DEF Inv1
    <3>7. <<kp["pgdir"][q], i[q]>> \notin Uncounted
      <4> SUFFICES ASSUME NEW r \in Procs,
                          \/ pc[r] = "inc" /\ kp["pgdir"][q] = kp["d"][r]
                          \/ pc[r] = "copy" /\ kp["pgdir"][q] = kp["pgdir"][r]
                   PROVE  FALSE
        BY UncountedIs
      <4>1. kp["pgdir"][q] # NoFrame
        BY <3>3, NameAssumption
      <4> QED
        BY <1>2, <3>2, <4>1 DEF PtrOnce, OnceIn, Fields
    <3>8. kp["pgdir"][q] = d
      BY <2>2, <3>6, <3>7 DEF Counted
    <3>9. p = q
      BY <1>2, <3>8, OwnDirs DEF DirsOf
    <3> QED
      BY <3>2, <3>9
  <2> QED
    BY <2>2, <2>3 DEF Counted
<1> QED
  BY <1>1, <1>4, <1>5, <1>6, <1>7

LEMMA FreeMapped ==
  ASSUME Inv1, Inv2, OneCPU, NEW p \in Procs, \E c \in CPUs : cpu[c] \in {p, NoProc},
         pc[p] \notin {"inc", "copy"}, NEW d \in DirsOf(p), d \in Frames, NEW v \in Pages,
         NEW f \in Frames, pte[d][v] = f, KFree(f), Unmap(d, v),
         UNCHANGED <<kp, tables, dropped>>, Uncounted' = Uncounted
  PROVE  Owners' /\ Entries'
<1>1. /\ <<d, v>> \in Users(f) /\ <<d, v>> \in Counted(f)
      /\ IsFiniteSet(Counted(f)) /\ Cardinality(Counted(f)) \in Nat
      /\ ref_cnt[f] = Cardinality(Counted(f))
      /\ LastRef(f) => Users(f) = {<<d, v>>}
  BY LastUser
<1>2. f \notin free /\ ~Pointed(f) /\ ~Tabled(f)
  BY <1>1 DEF Inv2, Owners, Kinds
<1>3. PageTypes /\ Enter(d, v, NotPresent) /\ \A g \in Frames : g # NotPresent
  BY NameAssumption DEF Inv1, Unmap, Enter
<1>4. /\ \A g : Users(g)' = IF g = NotPresent THEN Users(g) \cup {<<d, v>>} ELSE Users(g) \ {<<d, v>>}
      /\ pte'[d][v] = NotPresent
      /\ \A u \in Pages : u # v => pte'[d][u] = pte[d][u]
      /\ \A c \in Frames : c # d => pte'[c] = pte[c]
  BY <1>3, UsersAfter
<1>5. /\ \A g \in Frames : g # f => Users(g)' = Users(g)
      /\ Users(f)' = Users(f) \ {<<d, v>>}
  <2>1. \A g \in Frames : g # f => <<d, v>> \notin Users(g)
    BY <1>3, UsersIs
  <2> QED
    BY <1>3, <1>4, <2>1
<1>6. /\ \A g \in Frames : g # f => Counted(g)' = Counted(g)
      /\ Counted(f)' = Counted(f) \ {<<d, v>>}
  BY <1>5 DEF Counted
<1>7. Cardinality(Counted(f) \ {<<d, v>>}) = Cardinality(Counted(f)) - 1
  BY <1>1, FS_RemoveElement
<1>8. \A g \in Frames : (Pointed(g)' <=> Pointed(g)) /\ (Tabled(g)' <=> Tabled(g))
  BY DEF Pointed, PointedIn, Tabled
<1>9. PtrOnce' /\ TblOnce'
  BY DEF Inv2, Owners, PtrOnce, OnceIn, TblOnce
<1>10. Kinds' /\ Conserved' /\ RefOn'
  <2>1. CASE LastRef(f)
    <3>1. free' = free \cup {f} /\ free_pages' = Cardinality(free') /\ ref_cnt' = ref_cnt
      BY <1>2, <2>1, FreeIs
    <3>2. Users(f)' = {}
      BY <1>1, <1>5, <2>1
    <3>3. Kinds'
      BY <1>2, <1>5, <1>8, <3>1, <3>2 DEF Inv2, Owners, Kinds
    <3>4. Conserved'
      BY <1>5, <1>8, <3>1, <3>2 DEF Inv2, Owners, Conserved
    <3>5. RefOn'
      BY <1>5, <1>6, <3>1, <3>2 DEF Inv2, Entries, RefOn
    <3> QED
      BY <3>3, <3>4, <3>5
  <2>2. CASE ~LastRef(f)
    <3>1. /\ UNCHANGED <<free, free_pages>> /\ ref_cnt'[f] = ref_cnt[f] - 1
          /\ \A g \in Frames : g # f => ref_cnt'[g] = ref_cnt[g]
      BY <2>2 DEF KFree, Inv1, MemTypes
    <3>2. Counted(f)' # {}
      <4>1. Cardinality(Counted(f)) > 1
        BY <1>1, <2>2 DEF LastRef
      <4>2. Cardinality(Counted(f) \ {<<d, v>>}) > 0
        BY <1>1, <1>7, <4>1
      <4>3. Counted(f) \ {<<d, v>>} # {}
        BY <4>2, FS_EmptySet
      <4> QED
        BY <1>6, <4>3
    <3>3. Users(f)' # {} /\ Users(f) # {}
      BY <1>1, <3>2 DEF Counted
    <3>4. Kinds'
      BY <1>2, <1>5, <1>8, <3>1, <3>3 DEF Inv2, Owners, Kinds
    <3>5. Conserved'
      BY <1>5, <1>8, <3>1, <3>3 DEF Inv2, Owners, Conserved
    <3>6. RefOn'
      BY <1>1, <1>5, <1>6, <1>7, <3>1 DEF Inv2, Entries, RefOn
    <3> QED
      BY <3>4, <3>5, <3>6
  <2> QED
    BY <2>1, <2>2
<1>11. DirHeld'
  BY <1>4 DEF Inv2, Owners, DirHeld
<1>12. writable'[d] = writable[d] \ {v} /\ \A c \in Frames : c # d => writable'[c] = writable[c]
  BY DEF Unmap, Inv1, PageTypes
<1>13. WrPresent'
  BY <1>4, <1>12 DEF Inv2, Entries, WrPresent, Present, Inv1, PageTypes
<1>14. WritableExclusive'
  <2> SUFFICES ASSUME NEW c \in Frames, NEW u \in writable'[c], pte'[c][u] \in Frames
               PROVE  Users(pte[c][u])' = {<<c, u>>}
    BY DEF WritableExclusive
  <2>1. u \in Pages /\ u \in writable[c] /\ <<c, u>> # <<d, v>>
    BY <1>12 DEF Inv1, PageTypes
  <2>2. pte'[c][u] = pte[c][u]
    BY <1>4, <2>1
  <2>3. Users(pte[c][u]) = {<<c, u>>}
    BY <2>1, <2>2 DEF Inv2, Entries, WritableExclusive
  <2>4. pte[c][u] # f
    BY <1>1, <2>1, <2>3
  <2>5. \A g \in Frames : g # f => Users(g)' = Users(g)
    BY <1>5
  <2> QED
    BY <2>2, <2>3, <2>4, <2>5
<1> QED
  BY <1>9, <1>10, <1>11, <1>13, <1>14 DEF Owners, Entries

LEMMA FreePageOwn ==
  ASSUME Inv1, Inv1', Inv2, OneCPU, NEW p \in Procs, FreePage(p)
  PROVE  Inv2'
<1>0. PICK d : d = kp["d"][p]
  OBVIOUS
<1>1. /\ pc[p] = "free" /\ state[p] = "RUNNING" /\ (\E c \in CPUs : cpu[c] \in {p, NoProc})
      /\ d \in Frames /\ d \in DirsOf(p)
  <2>1. At(p, "free")
    BY DEF FreePage
  <2>2. pc[p] = "free" /\ state[p] = "RUNNING" /\ \E c \in CPUs : cpu[c] \in {p, NoProc}
    BY <2>1, AtIs
  <2> QED
    BY <1>0, <2>2, PointerFrames DEF HasDir, DirsOf
<1>2. UNCHANGED <<tables, kp, dropped, sz, state, pc, i>>
  BY DEF FreePage, procs, locals
<1>3. PICK v \in Present(d) : FreeEntry(d, v)
  BY <1>0 DEF FreePage
<1>4. v \in Pages /\ pte[d][v] \in Entry /\ pte[d][v] # NotPresent
  BY <1>1 DEF Present, Inv1, PageTypes
<1>5. \A q \in Procs : q # p => Untouched(p, q)
  BY <1>2 DEF Untouched
<1>6. FillOn(p)' /\ SharedOn(p)'
  <2>1. kp["pgdir"][p] \in Frames /\ kp["pgdir"][p] # d
    BY <1>0, <1>1, NameAssumption, PointerFrames, AtIs, OwnDirs DEF FreePage, Inv2, Owners
  <2>2. \A c \in Frames : c # d => pte'[c] = pte[c]
    BY <1>3 DEF FreeEntry, Unmap, Inv1, PageTypes
  <2>3. Map(p)' = Map(p)
    BY <1>2, <2>1, <2>2 DEF Map
  <2> QED
    BY <1>1, <1>2, <2>3 DEF FillOn, SharedOn, Inv2, Filled
<1>7. Uncounted' = Uncounted
  BY <1>2, UncountedKept
<1>8. CASE UNCHANGED <<kmem, data, pte, writable>>
  BY <1>1, <1>2, <1>5, <1>6, <1>8, NeutralStep DEF kmem
<1>9. CASE pte[d][v] # Frame0 /\ KFree(pte[d][v]) /\ Unmap(d, v)
  <2>1. PICK f \in Frames : f = pte[d][v]
    BY <1>4, <1>9 DEF Entry
  <2>2. Owners' /\ Entries'
    BY <1>1, <1>2, <1>4, <1>7, <1>9, <2>1, FreeMapped
  <2>3. \A c \in Frames \ DirsOf(p) : pte'[c] = pte[c]
    BY <1>1, <1>9 DEF Unmap, Inv1, PageTypes
  <2>4. Filled' /\ Shared'
    BY <1>1, <1>5, <1>6, <2>3, FilledNext
  <2> QED
    BY <2>2, <2>4 DEF Inv2
<1> QED
  BY <1>3, <1>8, <1>9 DEF FreeEntry

LEMMA DeallocPageOwn ==
  ASSUME Inv1, Inv1', Inv2, OneCPU, NEW p \in Procs, DeallocPage(p)
  PROVE  Inv2'
<1>0. PICK d : d = kp["pgdir"][p]
  OBVIOUS
<1>1. /\ pc[p] \in {"shrink", "undo"} /\ state[p] = "RUNNING"
      /\ (\E c \in CPUs : cpu[c] \in {p, NoProc})
      /\ d \in Frames /\ d \in DirsOf(p)
  BY <1>0, AtIs DEF DeallocPage, DirsOf
<1>2. UNCHANGED <<tables, kp, dropped, sz, state, pc, i>>
  BY DEF DeallocPage, procs, locals
<1>3. PICK v \in Present(d) : FreeEntry(d, v)
  BY <1>0 DEF DeallocPage
<1>4. v \in Pages /\ pte[d][v] \in Entry /\ pte[d][v] # NotPresent
  BY <1>1 DEF Present, Inv1, PageTypes
<1>5. \A q \in Procs : q # p => Untouched(p, q)
  BY <1>2 DEF Untouched
<1>6. FillOn(p)' /\ SharedOn(p)'
  <2>1. \A u \in Pages : pte'[d][u] = pte[d][u] \/ pte'[d][u] = NotPresent
    BY <1>1, <1>3, <1>4 DEF FreeEntry, Unmap, Inv1, PageTypes
  <2>2. \A u \in Pages : Map(p)'[u] = Map(p)[u] \/ Map(p)'[u] = NotPresent
    BY <1>0, <1>2, <2>1 DEF Map
  <2> QED
    BY <1>1, <1>2, <2>2, NameAssumption DEF FillOn, SharedOn, Inv2, Filled
<1>7. Uncounted' = Uncounted
  BY <1>2, UncountedKept
<1>8. CASE UNCHANGED <<kmem, data, pte, writable>>
  BY <1>1, <1>2, <1>5, <1>6, <1>8, NeutralStep DEF kmem
<1>9. CASE pte[d][v] # Frame0 /\ KFree(pte[d][v]) /\ Unmap(d, v)
  <2>1. PICK f \in Frames : f = pte[d][v]
    BY <1>4, <1>9 DEF Entry
  <2>2. Owners' /\ Entries'
    BY <1>1, <1>2, <1>4, <1>7, <1>9, <2>1, FreeMapped
  <2>3. \A c \in Frames \ DirsOf(p) : pte'[c] = pte[c]
    BY <1>1, <1>9 DEF Unmap, Inv1, PageTypes
  <2>4. Filled' /\ Shared'
    BY <1>1, <1>5, <1>6, <2>3, FilledNext
  <2> QED
    BY <2>2, <2>4 DEF Inv2
<1> QED
  BY <1>3, <1>8, <1>9 DEF FreeEntry

(* freevm() goes on with the page tables and the directory.                *)
LEMMA FreeTableOwn ==
  ASSUME Inv1, Inv1', Inv2, OneCPU, NEW p \in Procs, FreeTable(p)
  PROVE  Inv2'
<1>0. PICK d : d = kp["d"][p]
  OBVIOUS
<1>1. /\ pc[p] = "free" /\ state[p] = "RUNNING" /\ (\E c \in CPUs : cpu[c] \in {p, NoProc})
      /\ d \in Frames
  <2>1. At(p, "free")
    BY DEF FreeTable
  <2>2. pc[p] = "free" /\ state[p] = "RUNNING" /\ \E c \in CPUs : cpu[c] \in {p, NoProc}
    BY <2>1, AtIs
  <2> QED
    BY <1>0, <2>2, PointerFrames DEF HasDir
<1>2. UNCHANGED <<pte, writable, kp, dropped, sz, state, pc, i>>
  BY DEF FreeTable, procs, locals
<1>3. PICK t \in tables[d] : KFree(t) /\ tables' = [tables EXCEPT ![d] = @ \ {t}]
  BY <1>0 DEF FreeTable
<1>4. t \in Frames /\ Tabled(t) /\ tables'[d] = tables[d] \ {t}
      /\ \A c \in Frames : c # d => tables'[c] = tables[c]
  BY <1>1, <1>3 DEF Tabled, Inv1, PageTypes
<1>5. /\ t \notin free /\ free' = free \cup {t} /\ free_pages' = Cardinality(free')
      /\ ref_cnt' = ref_cnt /\ Users(t) = {}
  BY <1>3, <1>4, KfreeOwned
<1>6. \A g \in Frames : (Pointed(g)' <=> Pointed(g)) /\ Users(g)' = Users(g)
  BY <1>2, UsersKept DEF Pointed, PointedIn
<1>7. \A g \in Frames : Tabled(g)' <=> Tabled(g) /\ g # t
  BY <1>1, <1>3, <1>4 DEF Tabled, Inv2, Owners, TblOnce
<1>8. TblOnce'
  BY <1>4 DEF Inv2, Owners, TblOnce
<1>9. PtrOnce'
  BY <1>2 DEF Inv2, Owners, PtrOnce, OnceIn
<1>10. Kinds'
  BY <1>4, <1>5, <1>6, <1>7 DEF Inv2, Owners, Kinds
<1>11. Conserved'
  BY <1>2, <1>5, <1>6, <1>7 DEF Inv2, Owners, Conserved
<1>12. DirHeld'
  BY <1>2, <1>4 DEF Inv2, Owners, DirHeld
<1>13. Uncounted' = Uncounted
  BY <1>2, UncountedKept
<1>14. Entries'
  BY <1>2, <1>5, <1>13, EntriesKept DEF Inv2
<1>15. FillOn(p)' /\ SharedOn(p)'
  BY <1>1, <1>2 DEF FillOn, SharedOn, Inv2, Filled, Map
<1>16. \A q \in Procs : q # p => Untouched(p, q)
  BY <1>2 DEF Untouched
<1>17. Filled' /\ Shared'
  BY <1>1, <1>2, <1>15, <1>16, FilledNext
<1> QED
  BY <1>8, <1>9, <1>10, <1>11, <1>12, <1>14, <1>17 DEF Inv2, Owners

LEMMA FreeDirOwn ==
  ASSUME Inv1, Inv1', Inv2, OneCPU, NEW p \in Procs, FreeDir(p)
  PROVE  Inv2'
<1>0. PICK d : d = kp["d"][p]
  OBVIOUS
<1>1. /\ pc[p] = "free" /\ state[p] = "RUNNING" /\ (\E c \in CPUs : cpu[c] \in {p, NoProc})
      /\ d \in Frames
  <2>1. At(p, "free")
    BY DEF FreeDir
  <2>2. pc[p] = "free" /\ state[p] = "RUNNING" /\ \E c \in CPUs : cpu[c] \in {p, NoProc}
    BY <2>1, AtIs
  <2> QED
    BY <1>0, <2>2, PointerFrames DEF HasDir
<1>2. /\ KFree(d) /\ Present(d) = {} /\ tables[d] = {} /\ Return(p)
      /\ UNCHANGED <<pte, writable, tables, dropped, sz>>
  BY <1>0 DEF FreeDir, vm
<1>3. "d" \in Fields /\ Sets(kp, kp', "d", p, NoFrame)
  BY DEF FreeDir, Sets, Inv1, CtlInv, ProcTypes, Fields, Ptr
<1>4. \A q \in Procs : /\ kp'["pgdir"][q] = kp["pgdir"][q]
                       /\ q # p => kp'["d"][q] = kp["d"][q]
  BY <1>3 DEF Sets, Fields
<1>5. pc'[p] = "user" /\ \A q \in Procs : q # p => pc'[q] = pc[q] /\ i'[q] = i[q]
  BY <1>2, ReturnIs
<1>6. \A q \in Procs : state'[q] \in Living => state[q] \in Living
  BY DEF FreeDir, Inv1, CtlInv, ProcTypes, Living
<1>7. Uncounted' = Uncounted
  BY <1>1, <1>4, <1>5, UncountedKept
<1>8. Owners' /\ Entries'
  BY <1>0, <1>1, <1>2, <1>3, <1>7, FreePointer
<1>9. FillOn(p)' /\ SharedOn(p)'
  BY <1>1, <1>2, <1>4, <1>5, <1>6 DEF FillOn, SharedOn, Inv2, Filled, Map
<1>10. \A q \in Procs : q # p => Untouched(p, q)
  BY <1>2, <1>4, <1>5, <1>6 DEF Untouched
<1>11. Filled' /\ Shared'
  BY <1>1, <1>2, <1>9, <1>10, FilledNext
<1> QED
  BY <1>8, <1>11 DEF Inv2

(* A frame moves from one pointer to another.                              *)
LEMMA MovePointer ==
  ASSUME Inv1, Inv2, NEW x \in {"pgdir", "d"}, NEW q \in Procs,
         NEW y \in {"pgdir", "d"}, NEW r \in Procs, x # y, Swaps(kp, kp', x, q, y, r),
         UNCHANGED <<free, free_pages, ref_cnt, pte, writable, tables, dropped>>,
         Uncounted' = Uncounted
  PROVE  Owners' /\ Entries'
<1>1. OnceIn(kp') /\ \A g : PointedIn(kp', g) <=> PointedIn(kp, g)
  <2>1. OnceIn(kp) /\ x \in Fields /\ y \in Fields
    BY DEF Inv2, Owners, PtrOnce, Fields
  <2> QED
    BY ONLY <2>1, q \in Procs, r \in Procs, x # y, Swaps(kp, kp', x, q, y, r), PointSwap
<1>2. PtrOnce' /\ \A g \in Frames : Pointed(g)' <=> Pointed(g)
  BY <1>1 DEF PtrOnce, Pointed
<1>3. \A g \in Frames : (Tabled(g)' <=> Tabled(g)) /\ Users(g)' = Users(g)
  BY UsersKept DEF Tabled
<1>4. TblOnce'
  BY DEF Inv2, Owners, TblOnce
<1>5. Kinds' /\ Conserved'
  BY <1>2, <1>3 DEF Inv2, Owners, Kinds, Conserved
<1>6. DirHeld'
  <2> SUFFICES ASSUME NEW d \in Frames, tables[d] # {} \/ \E v \in Pages : pte[d][v] # NotPresent
               PROVE  \E s \in Procs : kp'["pgdir"][s] = d \/ kp'["d"][s] = d
    BY DEF DirHeld
  <2>1. PICK s \in Procs, z \in {"pgdir", "d"} : kp[z][s] = d
    BY DEF Inv2, Owners, DirHeld
  <2>2. /\ kp'[x][q] = kp[y][r] /\ kp'[y][r] = kp[x][q]
        /\ ~(z = x /\ s = q) /\ ~(z = y /\ s = r) => kp'[z][s] = kp[z][s]
    BY DEF Swaps, Fields
  <2>3. \E w \in {"pgdir", "d"}, t \in Procs : kp'[w][t] = d
    BY <2>1, <2>2
  <2> QED
    BY <2>3
<1>7. Entries'
  BY EntriesKept DEF Inv2
<1> QED
  BY <1>2, <1>4, <1>5, <1>6, <1>7 DEF Owners

LEMMA ForkDoneOwn ==
  ASSUME Inv1, Inv1', Inv2, OneCPU, NEW p \in Procs, ForkDone(p)
  PROVE  Inv2'
<1>0. PICK c : c = np[p]
  OBVIOUS
<1>1. /\ pc[p] = "cow" /\ state[p] = "RUNNING" /\ (\E k \in CPUs : cpu[k] \in {p, NoProc})
      /\ i[p] >= sz[p]
  BY AtIs DEF ForkDone
<1>2. c \in Procs /\ state[c] = "EMBRYO" /\ c # p /\ kp["pgdir"][c] = NoFrame /\ pc[c] = "user"
  BY <1>0, <1>1 DEF Inv1, CtlInv, ProcTypes, Control, Slot, ForkPcs, Pointers, Living
<1>3. /\ UNCHANGED <<free, free_pages, ref_cnt, pte, writable, tables, dropped>> /\ Return(p)
      /\ kp' = [kp EXCEPT !["pgdir"][c] = kp["d"][p], !["d"][p] = NoFrame]
      /\ sz' = [sz EXCEPT ![c] = sz[p]] /\ state' = [state EXCEPT ![c] = "RUNNABLE"]
  BY <1>0 DEF ForkDone, kmem
<1>4. Swaps(kp, kp', "pgdir", c, "d", p)
  <2>1. kp \in [Fields -> [Procs -> Ptr]]
    BY DEF Inv1, CtlInv, ProcTypes
  <2> QED
    BY <1>2, <1>3, <2>1 DEF Swaps, Fields, Ptr
<1>5. /\ kp'["pgdir"][c] = kp["d"][p]
      /\ \A q \in Procs : /\ q # c => kp'["pgdir"][q] = kp["pgdir"][q]
                          /\ q # p => kp'["d"][q] = kp["d"][q]
  BY <1>2, <1>4 DEF Swaps, Fields
<1>6. pc'[p] = "user" /\ \A q \in Procs : q # p => pc'[q] = pc[q] /\ i'[q] = i[q]
  BY <1>3, ReturnIs
<1>7. /\ sz'[c] = sz[p] /\ state'[c] = "RUNNABLE"
      /\ \A q \in Procs : q # c => sz'[q] = sz[q] /\ state'[q] = state[q]
  BY <1>2, <1>3 DEF Inv1, CtlInv, ProcTypes
<1>8. Uncounted' = Uncounted
  BY <1>1, <1>2, <1>5, <1>6, UncountedKept
<1>9. Owners' /\ Entries'
  BY <1>2, <1>3, <1>4, <1>8, MovePointer
<1>10. \A q \in Procs : q # p /\ q # c => FillOn(q)' /\ SharedOn(q)'
  <2>1. \A q \in Procs : q # p /\ q # c => Untouched(p, q)
    BY <1>5, <1>6, <1>7 DEF Untouched
  <2>2. \A q \in Procs : q # p /\ q # c => FillOn(q)'
    BY <1>3, <2>1, OtherFill
  <2>3. \A q \in Procs : q # p /\ q # c => SharedOn(q)'
    BY <1>1, <1>6, OnlyRunner DEF SharedOn, InHandler
  <2> QED
    BY <2>2, <2>3
<1>11. FillOn(p)' /\ SharedOn(p)'
  <2>1. /\ kp'["pgdir"][p] = kp["pgdir"][p] /\ sz'[p] = sz[p] /\ state'[p] = state[p] /\ pc'[p] = "user"
        /\ UNCHANGED pte
    BY <1>2, <1>3, <1>5, <1>6, <1>7
  <2> QED
    BY <1>1, <2>1 DEF FillOn, SharedOn, Inv2, Filled, Map
<1>12. FillOn(c)' /\ SharedOn(c)'
  <2>1. i[p] \in Int /\ sz[p] \in Int /\ i[p] <= sz[p]
    BY <1>1, SizeAssumption DEF Inv1, CtlInv, ProcTypes, Loops
  <2>2. i[p] = sz[p]
    BY <1>1, <2>1
  <2>3. \A v \in Pages : /\ v >= sz[p] => pte[kp["d"][p]][v] = NotPresent
                         /\ pte[kp["d"][p]][v] # Frame0
    BY <1>1, <2>2 DEF Inv2, Filled, FillOn
  <2> QED
    BY <1>2, <1>3, <1>5, <1>6, <1>7, <2>3 DEF FillOn, SharedOn, Map
<1> QED
  BY <1>9, <1>10, <1>11, <1>12 DEF Inv2, Filled, Shared

LEMMA ExecCommitOwn ==
  ASSUME Inv1, Inv1', Inv2, OneCPU, NEW p \in Procs, ExecCommit(p)
  PROVE  Inv2'
<1>1. /\ pc[p] = "load" /\ state[p] = "RUNNING" /\ (\E k \in CPUs : cpu[k] \in {p, NoProc})
  BY AtIs DEF ExecCommit
<1>2. /\ UNCHANGED <<free, free_pages, ref_cnt, pte, writable, tables, dropped, state, i>>
      /\ kp' = [kp EXCEPT !["pgdir"][p] = kp["d"][p], !["d"][p] = kp["pgdir"][p]]
      /\ sz'[p] = newsz[p] /\ \A q \in Procs : q # p => sz'[q] = sz[q]
      /\ pc'[p] = "free" /\ \A q \in Procs : q # p => pc'[q] = pc[q]
  BY DEF ExecCommit, kmem, procs, locals, Goto, Inv1, CtlInv, ProcTypes
<1>3. Swaps(kp, kp', "pgdir", p, "d", p)
  <2>1. kp \in [Fields -> [Procs -> Ptr]]
    BY DEF Inv1, CtlInv, ProcTypes
  <2> QED
    BY <1>2, <2>1 DEF Swaps, Fields, Ptr
<1>4. /\ kp'["pgdir"][p] = kp["d"][p]
      /\ \A q \in Procs : q # p => kp'["d"][q] = kp["d"][q] /\ kp'["pgdir"][q] = kp["pgdir"][q]
  BY <1>3 DEF Swaps, Fields
<1>5. Uncounted' = Uncounted
  BY <1>1, <1>2, <1>4, UncountedKept
<1>6. Owners' /\ Entries'
  BY <1>2, <1>3, <1>5, MovePointer
<1>7. \A q \in Procs : q # p => Untouched(p, q)
  BY <1>2, <1>4 DEF Untouched
<1>8. FillOn(p)' /\ SharedOn(p)'
  <2>1. i[p] \in Int /\ newsz[p] \in Int /\ i[p] <= newsz[p]
    BY <1>1, SizeAssumption DEF Inv1, CtlInv, ProcTypes, Loops
  <2>2. i[p] = newsz[p]
    BY <2>1 DEF ExecCommit, More
  <2>3. \A v \in Pages : (v >= newsz[p] => pte[kp["d"][p]][v] = NotPresent) /\ pte[kp["d"][p]][v] # Frame0
    BY <1>1, <2>2 DEF Inv2, Filled, FillOn
  <2>4. \A v \in Pages : (v >= sz'[p] => Map(p)'[v] = NotPresent) /\ Map(p)'[v] # Frame0
    BY <1>2, <1>4, <2>3 DEF Map
  <2> QED
    BY <1>2, <2>4 DEF FillOn, SharedOn
<1>9. Filled' /\ Shared'
  BY <1>1, <1>2, <1>7, <1>8, FilledNext
<1> QED
  BY <1>6, <1>9 DEF Inv2

(* wait() reaps: the stack of the zombie is given back and its directory   *)
(* passes to the parent, which tears it down.                              *)
LEMMA WaitOwn ==
  ASSUME Inv1, Inv1', Inv2, OneCPU, NEW p \in Procs, Wait(p)
  PROVE  Inv2'
<1>1. /\ pc[p] \in {"user", "wait"} /\ state[p] = "RUNNING"
      /\ (\E k \in CPUs : cpu[k] \in {p, NoProc}) /\ kp["d"][p] = NoFrame
  <2>1. pc[p] \in {"user", "wait"} /\ state[p] = "RUNNING" /\ \E k \in CPUs : cpu[k] \in {p, NoProc}
    BY AtIs DEF Wait
  <2>2. kp["d"][p] = NoFrame
    BY <2>1 DEF Inv1, CtlInv, Pointers, HasDir
  <2> QED
    BY <2>1, <2>2
<1>2. ptlock = NoProc /\ UNCHANGED <<pte, writable, tables, dropped, sz, i>>
  BY DEF Wait, vm
<1>3. CASE UNCHANGED <<kmem, data, kp, np>> /\ (\E l \in {"user", "wait"} : Goto(p, l))
           /\ (state' = [state EXCEPT ![p] = "SLEEPING"] \/ state' = state)
  <2>1. pc'[p] \in {"user", "wait"} /\ \A q \in Procs : q # p => pc'[q] = pc[q] /\ state'[q] = state[q]
    BY <1>3 DEF Goto, Inv1, CtlInv, ProcTypes
  <2>2. state'[p] \in Living => state[p] \in Living
    BY <1>1 DEF Living
  <2>3. \A q \in Procs : q # p => Untouched(p, q)
    BY <1>2, <1>3, <2>1 DEF Untouched
  <2>4. FillOn(p)' /\ SharedOn(p)'
    BY <1>1, <1>2, <1>3, <2>1, <2>2 DEF FillOn, SharedOn, Inv2, Filled, Map
  <2> QED
    BY <1>1, <1>2, <1>3, <2>1, <2>3, <2>4, NeutralStep DEF kmem
<1>4. ASSUME NEW z \in Procs, state[z] = "ZOMBIE", KFree(kp["kstack"][z]),
             kp' = [kp EXCEPT !["kstack"][z] = NoFrame, !["d"][p] = kp["pgdir"][z], !["pgdir"][z] = NoFrame],
             Goto(p, "free"), UNCHANGED <<state, cpu>>
      PROVE  Inv2'
  <2>1. kp["kstack"][z] \in Frames /\ z # p /\ pc[z] = "user"
    BY <1>1, <1>2, <1>4, PointerFrames DEF Inv1, CtlInv, Control, Living
  <2>2. PICK s \in Frames : s = kp["kstack"][z]
    BY <2>1
  <2>3. PICK k : k = [kp EXCEPT !["kstack"][z] = NoFrame]
    OBVIOUS
  <2>4. kp \in [Fields -> [Procs -> Ptr]]
    BY DEF Inv1, CtlInv, ProcTypes
  <2>5. Sets(kp, k, "kstack", z, NoFrame) /\ "kstack" \in Fields
    BY <2>3, <2>4 DEF Sets, Fields, Ptr
  <2>6. /\ \A x \in Fields, q \in Procs :
             kp'[x][q] = IF x = "kstack" /\ q = z THEN NoFrame
                         ELSE IF x = "d" /\ q = p THEN kp["pgdir"][z]
                         ELSE IF x = "pgdir" /\ q = z THEN NoFrame ELSE kp[x][q]
        /\ kp' \in [Fields -> [Procs -> Ptr]]
    BY <1>4, <2>4 DEF Fields, Ptr
  <2>7. Swaps(k, kp', "d", p, "pgdir", z)
    BY <1>1, <2>1, <2>5, <2>6 DEF Swaps, Sets, Fields
  <2>8. OnceIn(k) /\ \A g \in Frames : PointedIn(k, g) <=> PointedIn(kp, g) /\ g # s
    <3>1. OnceIn(kp)
      BY DEF Inv2, Owners, PtrOnce
    <3> QED
      BY ONLY <2>2, <2>5, <3>1, z \in Procs, PointLess
  <2>9. OnceIn(kp') /\ \A g : PointedIn(kp', g) <=> PointedIn(k, g)
    <3>1. "d" \in Fields /\ "pgdir" \in Fields /\ "d" # "pgdir"
      BY DEF Fields
    <3> QED
      BY ONLY <2>7, <2>8, <3>1, z \in Procs, p \in Procs, PointSwap
  <2>10. PtrOnce' /\ \A g \in Frames : Pointed(g)' <=> Pointed(g) /\ g # s
    BY <2>8, <2>9 DEF PtrOnce, Pointed
  <2>11. Pointed(s)
    BY <2>2 DEF Pointed, PointedIn, Fields
  <2>12. /\ s \notin free /\ free' = free \cup {s} /\ free_pages' = Cardinality(free')
         /\ ref_cnt' = ref_cnt /\ Users(s) = {}
    BY <1>4, <2>2, <2>11, KfreeOwned
  <2>13. \A g \in Frames : (Tabled(g)' <=> Tabled(g)) /\ Users(g)' = Users(g)
    BY <1>2, UsersKept DEF Tabled
  <2>14. TblOnce'
    BY <1>2 DEF Inv2, Owners, TblOnce
  <2>15. Kinds'
    BY <2>10, <2>11, <2>12, <2>13 DEF Inv2, Owners, Kinds
  <2>16. Conserved'
    BY <1>2, <2>10, <2>12, <2>13 DEF Inv2, Owners, Conserved
  <2>17. /\ kp'["d"][p] = kp["pgdir"][z]
         /\ \A q \in Procs : q # p => kp'["d"][q] = kp["d"][q]
         /\ \A q \in Procs : q # z => kp'["pgdir"][q] = kp["pgdir"][q]
    BY <2>1, <2>6 DEF Fields
  <2>18. DirHeld'
    <3>1. \A d \in Frames : d # NoFrame
      BY NameAssumption
    <3>2. ASSUME NEW d \in Frames, NEW q \in Procs, kp["pgdir"][q] = d \/ kp["d"][q] = d
          PROVE  \E r \in Procs : kp'["pgdir"][r] = d \/ kp'["d"][r] = d
      BY <1>1, <2>17, <3>1, <3>2
    <3> QED
      BY <1>2, <3>2 DEF Inv2, Owners, DirHeld
  <2>19. pc'[p] = "free" /\ \A q \in Procs : q # p => pc'[q] = pc[q]
    BY <1>4 DEF Goto, Inv1, CtlInv, ProcTypes
  <2>20. Uncounted' = Uncounted
    BY <1>1, <1>2, <2>1, <2>17, <2>19, UncountedKept
  <2>21. Entries'
    BY <1>2, <2>12, <2>20, EntriesKept DEF Inv2
  <2>22. \A q \in Procs : q # p => Untouched(p, q)
    BY <1>2, <1>4, <2>17, <2>19 DEF Untouched, Living
  <2>23. FillOn(p)' /\ SharedOn(p)'
    <3>1. kp'["pgdir"][p] = kp["pgdir"][p] /\ pc'[p] = "free" /\ UNCHANGED <<pte, state, sz>>
      BY <1>2, <1>4, <2>1, <2>17, <2>19
    <3> QED
      BY <1>1, <3>1 DEF FillOn, SharedOn, Inv2, Filled, Map
  <2>24. Filled' /\ Shared'
    BY <1>1, <1>2, <2>22, <2>23, FilledNext
  <2> QED
    BY <2>10, <2>14, <2>15, <2>16, <2>18, <2>21, <2>24 DEF Inv2, Owners
<1> QED
  BY <1>3, <1>4 DEF Wait

-----------------------------------------------------------------------------
(* cowuvm(), a page at a time.                                             *)

LEMMA CowPageOwn ==
  ASSUME Inv1, Inv1', Inv2, OneCPU, NEW p \in Procs, CowPage(p)
  PROVE  Inv2'
<1>0. PICK d, e, v : d = kp["pgdir"][p] /\ e = kp["d"][p] /\ v = i[p]
  OBVIOUS
<1>1. /\ pc[p] = "cow" /\ state[p] = "RUNNING" /\ (\E k \in CPUs : cpu[k] \in {p, NoProc})
      /\ d \in Frames /\ v < sz[p]
  BY <1>0, AtIs DEF CowPage
<1>2. e \in Frames /\ v \in Pages /\ d # e
  <2>1. e \in Frames /\ v \in Pages
    BY <1>0, <1>1, PointerFrames, PageAt DEF HasDir
  <2> QED
    BY <1>0, <1>1, <2>1, NameAssumption, OwnDirs DEF Inv2, Owners
<1>3. UNCHANGED <<free, free_pages, ref_cnt, tables, kp, state, sz, i, dropped>>
  BY DEF CowPage, kmem, procs, locals
<1>4. CASE UNCHANGED <<pte, writable, pc>>
  <2>1. \A q \in Procs : q # p => Untouched(p, q)
    BY <1>3, <1>4 DEF Untouched
  <2>2. FillOn(p)' /\ SharedOn(p)'
    BY <1>1, <1>3, <1>4 DEF FillOn, SharedOn, Inv2, Filled, Map
  <2> QED
    BY <1>1, <1>3, <1>4, <2>1, <2>2, NeutralStep
<1>5. CASE /\ pte[d][v] # NotPresent /\ pte' = [pte EXCEPT ![e][v] = pte[d][v]]
           /\ ClearW(d, v) /\ Goto(p, "inc")
  <2>1. PICK f : f = pte[d][v]
    OBVIOUS
  <2>2. f \in Frames
    <3>1. f \in Entry
      BY <1>1, <1>2, <2>1 DEF Inv1, PageTypes
    <3>2. f # Frame0
      BY <1>0, <1>1, <1>2, <2>1 DEF Inv2, Filled, FillOn, Map, Living
    <3> QED
      BY <1>5, <2>1, <3>1, <3>2 DEF Entry
  <2>3. pte[e][v] = NotPresent
    BY <1>0, <1>1, <1>2, SizeAssumption DEF Inv2, Filled, FillOn, Pages
  <2>4. PageTypes /\ Enter(e, v, f)
    BY <1>5, <2>1 DEF Inv1, Enter
  <2>5. /\ \A g : Users(g)' = IF g = f THEN Users(g) \cup {<<e, v>>} ELSE Users(g) \ {<<e, v>>}
        /\ pte'[e][v] = f
        /\ \A u \in Pages : u # v => pte'[e][u] = pte[e][u]
        /\ \A c \in Frames : c # e => pte'[c] = pte[c]
    BY <1>2, <2>4, UsersAfter
  <2>6. \A g \in Frames : <<e, v>> \notin Users(g)
    BY <1>2, <2>3, <2>4, UsersIs, NameAssumption
  <2>7. /\ Users(f)' = Users(f) \cup {<<e, v>>}
        /\ \A g \in Frames : g # f => Users(g)' = Users(g)
    BY <2>2, <2>5, <2>6
  <2>8. <<d, v>> \in Users(f)
    BY <1>1, <1>2, <2>1, <2>4, UsersIs
  <2>9. /\ pc'[p] = "inc" /\ \A q \in Procs : q # p => pc'[q] = pc[q]
    BY <1>5 DEF Goto, Inv1, CtlInv, ProcTypes
  <2>10. Uncounted' = Uncounted \cup {<<e, v>>}
    <3>1. ASSUME NEW s PROVE s \in Uncounted' <=> s \in Uncounted \/ s = <<e, v>>
      BY <1>0, <1>1, <1>3, <2>9, UncountedIs, UncountedNext
    <3> QED
      BY <3>1
  <2>11. \A g \in Frames : Counted(g)' = Counted(g)
    BY <2>6, <2>7, <2>10 DEF Counted
  <2>12. RefOn'
    BY <1>3, <2>7, <2>8, <2>11 DEF Inv2, Entries, RefOn
  <2>13. writable'[d] = writable[d] \ {v} /\ \A c \in Frames : c # d => writable'[c] = writable[c]
    BY <1>1, <1>5 DEF ClearW, Inv1, PageTypes
  <2>14. WrPresent'
    <3> SUFFICES ASSUME NEW c \in Frames, NEW u \in writable'[c] PROVE u \in Pages /\ pte'[c][u] # NotPresent
      BY DEF WrPresent, Present
    <3>1. u \in writable[c] /\ u \in Pages /\ pte[c][u] # NotPresent
      BY <2>13 DEF Inv2, Entries, WrPresent, Present
    <3>2. pte'[c][u] = pte[c][u] \/ pte'[c][u] = f
      BY <1>2, <2>5, <3>1
    <3> QED
      BY <2>2, <3>1, <3>2, NameAssumption
  <2>15. WritableExclusive'
    <3> SUFFICES ASSUME NEW c \in Frames, NEW u \in writable'[c], pte'[c][u] \in Frames
                 PROVE  Users(pte[c][u])' = {<<c, u>>}
      BY DEF WritableExclusive
    <3>1. u \in writable[c] /\ u \in Pages /\ pte[c][u] # NotPresent
      BY <2>13 DEF Inv2, Entries, WrPresent, Present
    <3>2. pte'[c][u] = pte[c][u]
      BY <1>2, <2>3, <2>5, <3>1
    <3>3. Users(pte[c][u]) = {<<c, u>>}
      BY <3>1, <3>2 DEF Inv2, Entries, WritableExclusive
    <3>4. pte[c][u] # f
      BY <1>1, <2>8, <2>13, <3>3
    <3>5. \A g \in Frames : g # f => Users(g)' = Users(g)
      BY <2>7
    <3> QED
      BY <3>2, <3>3, <3>4, <3>5
  <2>16. DirHeld'
    BY <1>0, <1>3, <2>5 DEF Inv2, Owners, DirHeld
  <2>17. Owners'
    <3>1. \A g \in Frames : Users(g)' # {} <=> Users(g) # {}
      BY <2>7, <2>8
    <3> QED
      BY <1>3, <2>16, <3>1, OwnersKept DEF Inv2
  <2>18. FillOn(p)'
    <3>1. Map(p)' = Map(p) /\ Map(p) = pte[d]
      BY <1>0, <1>1, <1>2, <1>3, <2>5 DEF Map
    <3>2. Map(p)'[v] = f /\ pte'[e][v] = f
      BY <2>1, <2>5, <3>1
    <3>3. \A u \in Pages : (u > v => pte'[e][u] = NotPresent) /\ pte'[e][u] # Frame0
      <4>1. \A u \in Pages : u \in Int /\ v \in Int
        BY <1>2 DEF Pages
      <4>2. \A u \in Pages : (u >= v => pte[e][u] = NotPresent) /\ pte[e][u] # Frame0
        BY <1>0, <1>1 DEF Inv2, Filled, FillOn
      <4> QED
        BY <1>2, <2>2, <2>5, <4>1, <4>2, NameAssumption
    <3> QED
      BY <1>0, <1>1, <1>3, <2>2, <2>9, <3>1, <3>2, <3>3 DEF FillOn, Inv2, Filled
  <2>19. SharedOn(p)'
    BY <2>9 DEF SharedOn
  <2>20. Filled' /\ Shared'
    <3>1. \A q \in Procs : q # p => Untouched(p, q)
      BY <1>3, <2>9 DEF Untouched
    <3>2. \A c \in Frames \ DirsOf(p) : pte'[c] = pte[c]
      BY <1>0, <2>5 DEF DirsOf
    <3> QED
      BY <1>1, <2>18, <2>19, <3>1, <3>2, FilledNext
  <2> QED
    BY <2>12, <2>14, <2>15, <2>17, <2>20 DEF Inv2, Entries
<1> QED
  BY <1>0, <1>4, <1>5 DEF CowPage

LEMMA CowIncOwn ==
  ASSUME Inv1, Inv1', Inv2, OneCPU, NEW p \in Procs, CowInc(p)
  PROVE  Inv2'
<1>0. PICK d, e, v : d = kp["pgdir"][p] /\ e = kp["d"][p] /\ v = i[p]
  OBVIOUS
<1>1. /\ pc[p] = "inc" /\ state[p] = "RUNNING" /\ (\E k \in CPUs : cpu[k] \in {p, NoProc})
      /\ d \in Frames
  BY <1>0, AtIs DEF CowInc
<1>2. e \in Frames /\ v \in Pages /\ PageTypes /\ PtrOnce
  BY <1>0, <1>1, PointerFrames, PageAt DEF HasDir, Inv1, Inv2, Owners
<1>3. /\ UNCHANGED <<free, free_pages, pte, writable, tables, kp, state, sz, dropped>>
      /\ i'[p] = v + 1 /\ \A q \in Procs : q # p => i'[q] = i[q]
      /\ pc'[p] = "cow" /\ \A q \in Procs : q # p => pc'[q] = pc[q]
  BY <1>0 DEF CowInc, vm, procs, Goto, Inv1, CtlInv, ProcTypes
<1>4. PICK f \in Frames : f = pte[d][v]
  BY <1>0, <1>1 DEF Inv2, Filled, FillOn, Map
<1>5. pte[e][v] = f
  BY <1>0, <1>1, <1>4 DEF Inv2, Filled, FillOn, Map
<1>6. /\ ref_cnt'[f] = ref_cnt[f] + 1 /\ \A g \in Frames : g # f => ref_cnt'[g] = ref_cnt[g]
  BY <1>0, <1>4 DEF CowInc, IncPageRef, Map, Inv1, MemTypes
<1>7. <<e, v>> \in Users(f) /\ IsFiniteSet(Users(f)) /\ \A g \in Frames : g # f => <<e, v>> \notin Users(g)
  BY <1>2, <1>5, UsersIs
<1>8. <<e, v>> \in Uncounted
  BY <1>0, <1>1, UncountedIs
<1>9. Uncounted' = Uncounted \ {<<e, v>>}
  <2>1. ASSUME NEW q \in Procs, q # p, e \in {kp["pgdir"][q], kp["d"][q]} PROVE FALSE
    BY <1>0, <1>2, <2>1, NameAssumption, OwnDirs
  <2>2. ASSUME NEW s PROVE s \in Uncounted' <=> s \in Uncounted /\ s # <<e, v>>
    <3>1. s \in Uncounted' => s \in Uncounted
      BY <1>3, UncountedIs, UncountedNext
    <3>2. <<e, v>> \notin Uncounted'
      BY <1>3, <2>1, UncountedNext
    <3>3. s \in Uncounted /\ s # <<e, v>> => s \in Uncounted'
      BY <1>0, <1>1, <1>3, UncountedIs, UncountedNext
    <3> QED
      BY <3>1, <3>2, <3>3
  <2> QED
    BY <2>2
<1>10. \A g : Users(g)' = Users(g)
  BY <1>3, UsersKept
<1>11. /\ Counted(f)' = Counted(f) \cup {<<e, v>>}
       /\ \A g \in Frames : g # f => Counted(g)' = Counted(g)
  BY <1>7, <1>8, <1>9, <1>10 DEF Counted
<1>12. RefOn'
  <2>1. IsFiniteSet(Counted(f)) /\ <<e, v>> \notin Counted(f)
    BY <1>7, <1>8, FS_Subset DEF Counted
  <2>2. Cardinality(Counted(f) \cup {<<e, v>>}) = Cardinality(Counted(f)) + 1
    BY <2>1, FS_AddElement
  <2> QED
    BY <1>6, <1>7, <1>10, <1>11, <2>2 DEF Inv2, Entries, RefOn
<1>13. WritableExclusive' /\ WrPresent'
  BY <1>3, <1>10 DEF Inv2, Entries, WrPresent, Present, WritableExclusive
<1>14. Owners'
  <2>1. \A g \in Frames : Pointed(g) \/ Tabled(g) => ref_cnt'[g] = ref_cnt[g]
    BY <1>6, <1>7 DEF Inv2, Owners, Kinds
  <2>2. DirHeld'
    BY <1>3, DirHeldKept DEF Inv2, Owners
  <2> QED
    BY <1>3, <1>10, <2>1, <2>2, OwnersKept DEF Inv2
<1>15. FillOn(p)' /\ SharedOn(p)'
  <2>1. \A u \in Pages : u \in Int /\ v \in Int
    BY <1>2 DEF Pages
  <2>2. \A u \in Pages : (u > v => pte[e][u] = NotPresent) /\ pte[e][u] # Frame0
    BY <1>0, <1>1 DEF Inv2, Filled, FillOn
  <2>3. \A u \in Pages : u >= i'[p] => pte'[e][u] = NotPresent
    BY <1>3, <2>1, <2>2
  <2> QED
    BY <1>0, <1>1, <1>3, <2>2, <2>3 DEF FillOn, SharedOn, Inv2, Filled, Map
<1>16. Filled' /\ Shared'
  <2>1. \A q \in Procs : q # p => Untouched(p, q)
    BY <1>3 DEF Untouched
  <2> QED
    BY <1>1, <1>3, <1>15, <2>1, FilledNext
<1> QED
  BY <1>12, <1>13, <1>14, <1>16 DEF Inv2, Entries

-----------------------------------------------------------------------------
(* cowHandler().                                                           *)

LEMMA ReadRefOwn ==
  ASSUME Inv1, Inv1', Inv2, OneCPU, NEW p \in Procs, ReadRef(p)
  PROVE  Inv2'
<1>0. PICK d, v : d = kp["pgdir"][p] /\ v = i[p]
  OBVIOUS
<1>1. /\ pc[p] = "ref" /\ state[p] = "RUNNING" /\ (\E k \in CPUs : cpu[k] \in {p, NoProc})
      /\ d \in Frames /\ d \in DirsOf(p)
  BY <1>0, AtIs DEF ReadRef, DirsOf
<1>2. v \in Pages
  BY <1>0, <1>1, PageAt
<1>3. UNCHANGED <<free, free_pages, ref_cnt, pte, tables, kp, state, sz, dropped>>
  BY DEF ReadRef, kmem, procs
<1>4. PICK f \in Frames : f = pte[d][v]
  BY <1>0, <1>1 DEF Inv2, Filled, FillOn, Map
<1>5. CASE ~LastRef(f) /\ Goto(p, "dup") /\ UNCHANGED <<writable, locals>>
  <2>1. pc'[p] = "dup" /\ UNCHANGED i /\ \A q \in Procs : q # p => pc'[q] = pc[q]
    BY <1>5 DEF Goto, locals, Inv1, CtlInv, ProcTypes
  <2>2. \A q \in Procs : q # p => Untouched(p, q)
    BY <1>3, <2>1 DEF Untouched
  <2>3. ref_cnt[f] > 1 /\ Map(p)' = Map(p) /\ Map(p)[i[p]] = f
    BY <1>0, <1>3, <1>4, <1>5 DEF LastRef, Map, Inv1, MemTypes
  <2>4. FillOn(p)' /\ SharedOn(p)'
    BY <1>1, <1>3, <2>1, <2>3 DEF FillOn, SharedOn, Inv2, Filled
  <2> QED
    BY <1>1, <1>3, <1>5, <2>1, <2>2, <2>4, NeutralStep
<1>6. CASE LastRef(f) /\ writable' = [writable EXCEPT ![d] = @ \cup {v}] /\ Return(p)
  <2>1. pc'[p] = "user" /\ \A q \in Procs : q # p => pc'[q] = pc[q] /\ i'[q] = i[q]
    BY <1>6, ReturnIs
  <2>2. \A q \in Procs : q # p => Untouched(p, q)
    BY <1>3, <2>1 DEF Untouched
  <2>3. FillOn(p)' /\ SharedOn(p)'
    BY <1>1, <1>3, <2>1 DEF FillOn, SharedOn, Inv2, Filled, Map
  <2>4. Uncounted' = Uncounted
    BY <1>1, <1>3, <2>1, UncountedKept
  <2>5. \A g : Users(g)' = Users(g) /\ Counted(g)' = Counted(g)
    BY <1>3, <2>4, UsersKept DEF Counted
  <2>6. RefOn'
    BY <1>3, <2>5 DEF Inv2, Entries, RefOn
  <2>7. Users(f) = {<<d, v>>}
    BY <1>1, <1>2, <1>4, <1>6, LastUser
  <2>8. \A c \in Frames : \A u \in writable'[c] : u \in writable[c] \/ (c = d /\ u = v)
    BY <1>1, <1>6 DEF Inv1, PageTypes
  <2>9. WrPresent'
    BY <1>2, <1>3, <1>4, <2>8, NameAssumption DEF Inv2, Entries, WrPresent, Present
  <2>10. WritableExclusive'
    BY <1>3, <1>4, <2>5, <2>7, <2>8 DEF Inv2, Entries, WritableExclusive
  <2>11. Owners'
    BY <1>3, <2>5, OwnersKept, DirHeldKept DEF Inv2, Owners
  <2>12. Filled' /\ Shared'
    BY <1>1, <1>3, <2>2, <2>3, FilledNext
  <2> QED
    BY <2>6, <2>9, <2>10, <2>11, <2>12 DEF Inv2, Entries
<1> QED
  BY <1>0, <1>4, <1>5, <1>6 DEF ReadRef, Map

LEMMA DecRefOwn ==
  ASSUME Inv1, Inv1', Inv2, OneCPU, NEW p \in Procs, DecRef(p)
  PROVE  Inv2'
<1>0. PICK d, v : d = kp["pgdir"][p] /\ v = i[p]
  OBVIOUS
<1>1. /\ pc[p] = "dec" /\ state[p] = "RUNNING" /\ (\E k \in CPUs : cpu[k] \in {p, NoProc})
      /\ d \in Frames /\ d \in DirsOf(p)
  BY <1>0, AtIs DEF DecRef, DirsOf
<1>2. v \in Pages
  BY <1>0, <1>1, PageAt
<1>3. /\ UNCHANGED <<free, free_pages, pte, writable, tables, kp, state, sz, dropped, i>>
      /\ pc'[p] = "copy" /\ \A q \in Procs : q # p => pc'[q] = pc[q]
  BY DEF DecRef, vm, procs, locals, Goto, Inv1, CtlInv, ProcTypes
<1>4. PICK f \in Frames : f = pte[d][v]
  BY <1>0, <1>1 DEF Inv2, Filled, FillOn, Map
<1>5. ref_cnt'[f] = ref_cnt[f] - 1 /\ \A g \in Frames : g # f => ref_cnt'[g] = ref_cnt[g]
  BY <1>0, <1>4 DEF DecRef, DecPageRef, Map, Inv1, MemTypes
<1>6. /\ <<d, v>> \in Users(f) /\ <<d, v>> \in Counted(f)
      /\ IsFiniteSet(Counted(f)) /\ Cardinality(Counted(f)) \in Nat
      /\ ref_cnt[f] = Cardinality(Counted(f))
  BY <1>1, <1>2, <1>4, LastUser
<1>7. \A g : Users(g)' = Users(g)
  BY <1>3, UsersKept
<1>8. Uncounted' = Uncounted \cup {<<d, v>>}
  <2>1. ASSUME NEW s PROVE s \in Uncounted' <=> s \in Uncounted \/ s = <<d, v>>
    BY <1>0, <1>1, <1>3, UncountedIs, UncountedNext
  <2> QED
    BY <2>1
<1>9. /\ Counted(f)' = Counted(f) \ {<<d, v>>}
      /\ \A g \in Frames : g # f => Counted(g)' = Counted(g)
  <2>1. \A g \in Frames : g # f => <<d, v>> \notin Users(g)
    BY <1>1, <1>2, <1>4, UsersIs DEF Inv1
  <2> QED
    BY <1>7, <1>8, <2>1 DEF Counted
<1>10. RefOn'
  <2>1. Cardinality(Counted(f) \ {<<d, v>>}) = Cardinality(Counted(f)) - 1
    BY <1>6, FS_RemoveElement
  <2> QED
    BY <1>5, <1>6, <1>7, <1>9, <2>1 DEF Inv2, Entries, RefOn
<1>11. WritableExclusive' /\ WrPresent'
  BY <1>3, <1>7 DEF Inv2, Entries, WrPresent, Present, WritableExclusive
<1>12. Owners'
  <2>1. \A g \in Frames : Pointed(g) \/ Tabled(g) => ref_cnt'[g] = ref_cnt[g]
    BY <1>5, <1>6 DEF Inv2, Owners, Kinds
  <2>2. DirHeld'
    BY <1>3, DirHeldKept DEF Inv2, Owners
  <2> QED
    BY <1>3, <1>7, <2>1, <2>2, OwnersKept DEF Inv2
<1>13. FillOn(p)'
  BY <1>1, <1>3 DEF FillOn, Inv2, Filled, Map
<1>14. SharedOn(p)'
  <2>1. ref_cnt[f] > 1 /\ Map(p)'[i'[p]] = f
    BY <1>0, <1>1, <1>3, <1>4 DEF Inv2, Shared, SharedOn, Map
  <2>2. ref_cnt[f] \in Int
    BY DEF Inv1, MemTypes
  <2> QED
    BY <1>3, <1>5, <2>1, <2>2 DEF SharedOn
<1>15. Filled' /\ Shared'
  <2>1. \A q \in Procs : q # p => Untouched(p, q)
    BY <1>3 DEF Untouched
  <2> QED
    BY <1>1, <1>3, <1>13, <1>14, <2>1, FilledNext
<1> QED
  BY <1>10, <1>11, <1>12, <1>15 DEF Inv2, Entries

(* The entry at fault gets another frame, or address 0.                    *)
Remaps(p, m) ==
  /\ m = Frame0 \/ (m \in Frames /\ Users(m) = {} /\ ref_cnt[m] = 1)
  /\ UNCHANGED ref_cnt /\ pc'[p] \notin {"inc", "copy"}
  /\ \A q \in Procs : /\ q # p => pc'[q] = pc[q] /\ i'[q] = i[q]
                      /\ kp'["d"][q] = kp["d"][q] /\ kp'["pgdir"][q] = kp["pgdir"][q]

(* The entry v of the directory d is for m now and no longer for f.        *)
Remapped(d, v, f, m) ==
  /\ Entries'
  /\ Users(f)' # {} /\ Users(f) # {} /\ Users(m)' # {} /\ m # f
  /\ \A g \in Frames : g # m => (Users(g)' # {} <=> Users(g) # {})
  /\ pte'[d][v] = m /\ \A u \in Pages : u # v => pte'[d][u] = pte[d][u]
  /\ \A c \in Frames : c # d => pte'[c] = pte[c]

LEMMA Remap ==
  ASSUME Inv1, Inv2, NEW p \in Procs, pc[p] = "copy",
         NEW d \in Frames, d = kp["pgdir"][p], NEW v \in Pages, v = i[p],
         NEW f \in Frames, pte[d][v] = f, NEW m, MapPage(d, v, m), Remaps(p, m)
  PROVE  Remapped(d, v, f, m)
<1>0. /\ m = Frame0 \/ (m \in Frames /\ Users(m) = {} /\ ref_cnt[m] = 1)
      /\ UNCHANGED ref_cnt /\ pc'[p] \notin {"inc", "copy"}
      /\ \A q \in Procs : /\ q # p => pc'[q] = pc[q] /\ i'[q] = i[q]
                          /\ kp'["d"][q] = kp["d"][q] /\ kp'["pgdir"][q] = kp["pgdir"][q]
  BY DEF Remaps
<1>1. PageTypes /\ Enter(d, v, m) /\ m # NotPresent /\ PtrOnce
  BY <1>0, NameAssumption DEF Inv1, MapPage, Enter, Inv2, Owners
<1>2. /\ \A g : Users(g)' = IF g = m THEN Users(g) \cup {<<d, v>>} ELSE Users(g) \ {<<d, v>>}
      /\ pte'[d][v] = m
      /\ \A u \in Pages : u # v => pte'[d][u] = pte[d][u]
      /\ \A c \in Frames : c # d => pte'[c] = pte[c]
  BY <1>1, UsersAfter
<1>3. <<d, v>> \in Users(f) /\ IsFiniteSet(Users(f)) /\ \A g \in Frames : g # f => <<d, v>> \notin Users(g)
  BY <1>1, UsersIs
<1>4. m # f
  BY <1>0, <1>3, NameAssumption
<1>5. /\ Users(f)' = Users(f) \ {<<d, v>>}
      /\ \A g \in Frames : g # f /\ g # m => Users(g)' = Users(g)
      /\ <<d, v>> \in Users(m)'
      /\ m \in Frames => Users(m)' = {<<d, v>>}
  BY <1>0, <1>2, <1>3, <1>4, NameAssumption
<1>6. <<d, v>> \in Uncounted
  BY UncountedIs
<1>7. Uncounted' = Uncounted \ {<<d, v>>}
  <2>1. ASSUME NEW q \in Procs, q # p, d \in {kp["pgdir"][q], kp["d"][q]} PROVE FALSE
    BY <1>0, <1>1, <2>1, NameAssumption, OwnDirs
  <2>2. ASSUME NEW s PROVE s \in Uncounted' <=> s \in Uncounted /\ s # <<d, v>>
    <3>1. s \in Uncounted' => s \in Uncounted
      BY <1>0, UncountedIs, UncountedNext
    <3>2. <<d, v>> \notin Uncounted'
      BY <1>0, <2>1, UncountedNext
    <3>3. s \in Uncounted /\ s # <<d, v>> => s \in Uncounted'
      BY <1>0, UncountedIs, UncountedNext
    <3> QED
      BY <3>1, <3>2, <3>3
  <2> QED
    BY <2>2
<1>8. /\ \A g \in Frames : g # m => Counted(g)' = Counted(g)
      /\ m \in Frames => Counted(m)' = {<<d, v>>}
  <2>1. Counted(f)' = Counted(f)
    BY <1>5, <1>6, <1>7 DEF Counted
  <2>2. \A g \in Frames : g # m /\ g # f => Counted(g)' = Counted(g)
    BY <1>3, <1>5, <1>7 DEF Counted
  <2>3. m \in Frames => Counted(m)' = {<<d, v>>}
    BY <1>5, <1>7 DEF Counted
  <2> QED
    BY <2>1, <2>2, <2>3
<1>9. Users(f)' # {}
  <2>1. Map(p)[i[p]] = f
    BY DEF Map
  <2>2. ref_cnt[f] > 0
    BY <2>1 DEF Inv2, Shared, SharedOn
  <2>3. Cardinality(Counted(f)) # 0
    BY <1>3, <2>2 DEF Inv2, Entries, RefOn
  <2>4. Counted(f) # {}
    BY <2>3, FS_EmptySet
  <2> QED
    BY <1>5, <1>6, <2>4 DEF Counted
<1>10. RefOn'
  <2>1. Cardinality({<<d, v>>}) = 1
    BY FS_Singleton
  <2>2. \A g \in Frames : g # m /\ Users(g)' # {} => Users(g) # {}
    BY <1>3, <1>5
  <2> QED
    <3> SUFFICES ASSUME NEW g \in Frames, Users(g)' # {}
                 PROVE  ref_cnt'[g] = Cardinality(Counted(g)')
      BY DEF RefOn
    <3>1. CASE g = m
      <4>1. Counted(g)' = Counted(m)' /\ m \in Frames
        BY <3>1 DEF Counted, Users
      <4>2. Cardinality(Counted(g)') = 1
        BY <1>8, <2>1, <4>1
      <4> QED
        BY <1>0, <3>1, <4>1, <4>2, NameAssumption
    <3>2. CASE g # m
      BY <1>0, <1>8, <2>2, <3>2 DEF Inv2, Entries, RefOn
    <3> QED
      BY <3>1, <3>2
<1>11. /\ writable'[d] = writable[d] \cup {v}
       /\ \A c \in Frames : c # d => writable'[c] = writable[c]
  BY DEF MapPage, Inv1, PageTypes
<1>12. WrPresent'
  BY <1>0, <1>1, <1>2, <1>11 DEF Inv2, Entries, WrPresent, Present
<1>13. WritableExclusive'
  <2> SUFFICES ASSUME NEW c \in Frames, NEW u \in writable'[c], pte'[c][u] \in Frames
               PROVE  Users(pte[c][u])' = {<<c, u>>}
    BY DEF WritableExclusive
  <2>1. u \in Pages
    BY <1>11 DEF Inv1, PageTypes
  <2>2. CASE c = d /\ u = v
    BY <1>2, <1>5, <2>2
  <2>3. CASE ~(c = d /\ u = v)
    <3>1. pte'[c][u] = pte[c][u] /\ u \in writable[c]
      BY <1>2, <1>11, <2>1, <2>3
    <3>2. Users(pte[c][u]) = {<<c, u>>}
      BY <3>1 DEF Inv2, Entries, WritableExclusive
    <3>3. pte[c][u] # f
      BY <1>3, <2>3, <3>2
    <3>4. pte[c][u] # m
      BY <1>0, <3>1, <3>2, NameAssumption
    <3> QED
      BY <1>5, <3>1, <3>2, <3>3, <3>4
  <2> QED
    BY <2>2, <2>3
<1> QED
  BY <1>0, <1>2, <1>3, <1>4, <1>5, <1>9, <1>10, <1>12, <1>13 DEF Entries, Remapped

LEMMA CopyPageOwn ==
  ASSUME Inv1, Inv1', Inv2, OneCPU, NEW p \in Procs, CopyPage(p)
  PROVE  Inv2'
<1>0. PICK d, v, m : d = kp["pgdir"][p] /\ v = i[p] /\ m = kp["mem"][p]
  OBVIOUS
<1>1. /\ pc[p] = "copy" /\ state[p] = "RUNNING" /\ (\E k \in CPUs : cpu[k] \in {p, NoProc})
      /\ d \in Frames
  BY <1>0, AtIs DEF CopyPage
<1>2. v \in Pages /\ m \in Ptr
  BY <1>0, <1>1, PageAt, PointerFrames DEF Fields
<1>3. UNCHANGED <<free, free_pages, ref_cnt, tables, state, sz, dropped>>
  BY DEF CopyPage, kmem, procs
<1>4. PICK f \in Frames : f = pte[d][v]
  BY <1>0, <1>1 DEF Inv2, Filled, FillOn, Map
<1>5. CASE m # NoFrame /\ MapPage(d, v, m) /\ kp' = [kp EXCEPT !["mem"][p] = NoFrame] /\ Return(p)
  <2>1. m \in Frames /\ Pointed(m)
    BY <1>0, <1>2, <1>5 DEF Ptr, Pointed, PointedIn, Fields
  <2>2. m \notin free /\ ref_cnt[m] = 1 /\ Users(m) = {} /\ ~Tabled(m)
    BY <2>1 DEF Inv2, Owners, Kinds
  <2>3. Sets(kp, kp', "mem", p, NoFrame) /\ "mem" \in Fields
    BY <1>5 DEF Sets, Inv1, CtlInv, ProcTypes, Fields, Ptr
  <2>4. \A q \in Procs : kp'["d"][q] = kp["d"][q] /\ kp'["pgdir"][q] = kp["pgdir"][q]
    BY <2>3 DEF Sets, Fields
  <2>5. pc'[p] = "user" /\ \A q \in Procs : q # p => pc'[q] = pc[q] /\ i'[q] = i[q]
    BY <1>5, ReturnIs
  <2>6. /\ Entries' /\ Users(f)' # {} /\ Users(f) # {} /\ Users(m)' # {} /\ m # f
        /\ \A g \in Frames : g # m => (Users(g)' # {} <=> Users(g) # {})
        /\ pte'[d][v] = m /\ \A u \in Pages : u # v => pte'[d][u] = pte[d][u]
        /\ \A c \in Frames : c # d => pte'[c] = pte[c]
    <3>1. Remaps(p, m)
      BY <1>3, <2>1, <2>2, <2>4, <2>5 DEF Remaps
    <3>2. Remapped(d, v, f, m)
      BY ONLY <1>0, <1>1, <1>2, <1>4, <1>5, <3>1, Remap, Inv1, Inv2, p \in Procs
    <3> QED
      BY ONLY <3>2 DEF Remapped
  <2>7. OnceIn(kp') /\ \A g \in Frames : PointedIn(kp', g) <=> PointedIn(kp, g) /\ g # m
    <3>1. OnceIn(kp) /\ kp["mem"][p] = m
      BY <1>0 DEF Inv2, Owners, PtrOnce
    <3> QED
      BY ONLY <2>1, <2>3, <3>1, p \in Procs, PointLess
  <2>8. PtrOnce' /\ \A g \in Frames : Pointed(g)' <=> Pointed(g) /\ g # m
    BY <2>7 DEF PtrOnce, Pointed
  <2>9. TblOnce' /\ \A g \in Frames : Tabled(g)' <=> Tabled(g)
    BY <1>3 DEF Inv2, Owners, TblOnce, Tabled
  <2>10. Kinds'
    BY <1>3, <2>2, <2>6, <2>8, <2>9 DEF Inv2, Owners, Kinds
  <2>11. Conserved'
    BY <1>3, <2>6, <2>8, <2>9 DEF Inv2, Owners, Conserved
  <2>12. DirHeld'
    BY <1>0, <1>3, <2>4, <2>6 DEF Inv2, Owners, DirHeld
  <2>13. FillOn(p)' /\ SharedOn(p)'
    <3>1. \A u \in Pages : Map(p)'[u] = IF u = v THEN m ELSE Map(p)[u]
      BY <1>0, <1>1, <2>4, <2>6 DEF Map
    <3>2. Map(p)[v] # NotPresent /\ m # Frame0
      BY <1>0, <1>4, <2>1, NameAssumption DEF Map
    <3> QED
      BY <1>1, <1>2, <1>3, <2>5, <3>1, <3>2 DEF FillOn, SharedOn, Inv2, Filled
  <2>14. Filled' /\ Shared'
    <3>1. \A q \in Procs : q # p => Untouched(p, q)
      BY <1>3, <2>4, <2>5 DEF Untouched
    <3>2. \A c \in Frames \ DirsOf(p) : pte'[c] = pte[c]
      BY <1>0, <2>6 DEF DirsOf
    <3> QED
      BY <1>1, <2>13, <3>1, <3>2, FilledNext
  <2> QED
    BY <2>6, <2>8, <2>9, <2>10, <2>11, <2>12, <2>14 DEF Inv2, Owners
<1>6. CASE MapPage(d, v, Frame0) /\ Goto(p, "exit") /\ UNCHANGED <<kp, locals>>
  <2>1. UNCHANGED i /\ pc'[p] = "exit" /\ \A q \in Procs : q # p => pc'[q] = pc[q]
    BY <1>6 DEF Goto, locals, Inv1, CtlInv, ProcTypes
  <2>2. /\ Entries' /\ Users(f)' # {} /\ Users(f) # {}
        /\ \A g \in Frames : g # Frame0 => (Users(g)' # {} <=> Users(g) # {})
        /\ pte'[d][v] = Frame0 /\ \A u \in Pages : u # v => pte'[d][u] = pte[d][u]
        /\ \A c \in Frames : c # d => pte'[c] = pte[c]
    <3>1. Remaps(p, Frame0)
      BY <1>3, <1>6, <2>1 DEF Remaps, locals
    <3>2. Remapped(d, v, f, Frame0)
      BY ONLY <1>0, <1>1, <1>2, <1>4, <1>6, <3>1, Remap, Inv1, Inv2, p \in Procs
    <3> QED
      BY ONLY <3>2 DEF Remapped
  <2>3. DirHeld'
    BY <1>0, <1>3, <1>6, <2>2 DEF Inv2, Owners, DirHeld
  <2>4. Owners'
    BY <1>3, <1>6, <2>2, <2>3, OwnersKept, NameAssumption DEF Inv2
  <2>5. FillOn(p)' /\ SharedOn(p)'
    <3>1. \A u \in Pages : Map(p)'[u] = IF u = v THEN Frame0 ELSE Map(p)[u]
      BY <1>0, <1>1, <1>6, <2>2 DEF Map
    <3>2. Map(p)[v] # NotPresent
      BY <1>0, <1>4, NameAssumption DEF Map
    <3> QED
      BY <1>1, <1>2, <1>3, <2>1, <3>1, <3>2 DEF FillOn, SharedOn, Inv2, Filled
  <2>6. Filled' /\ Shared'
    <3>1. \A q \in Procs : q # p => Untouched(p, q)
      BY <1>3, <1>6, <2>1 DEF Untouched
    <3>2. \A c \in Frames \ DirsOf(p) : pte'[c] = pte[c]
      BY <1>0, <2>2 DEF DirsOf
    <3> QED
      BY <1>1, <2>5, <3>1, <3>2, FilledNext
  <2> QED
    BY <2>2, <2>4, <2>6 DEF Inv2
<1> QED
  BY <1>0, <1>5, <1>6 DEF CopyPage

-----------------------------------------------------------------------------
(* The invariant holds in the initial states ...                           *)

LEMMA Inv2Init == Init => Inv2
<1> SUFFICES ASSUME Init PROVE Inv2
  OBVIOUS
<1> DEFINE stk == Boot.kstack
           dir == Boot.pgdir
           pg == Boot.page
           tbs == Boot.tables
<1>1. /\ stk \in Frames /\ dir \in Frames /\ pg \in Frames /\ tbs \in SUBSET Frames
      /\ stk # dir /\ stk # pg /\ dir # pg /\ stk \notin tbs /\ dir \notin tbs /\ pg \notin tbs
  BY BootAssumption
<1>2. /\ free = Frames \ ({stk, dir, pg} \cup tbs) /\ free_pages = Cardinality(free)
      /\ ref_cnt = [f \in Frames |-> IF f \in {stk, dir, pg} \cup tbs THEN 1 ELSE 0]
  BY DEF Init
<1>3. /\ \A d \in Frames, v \in Pages :
           pte[d][v] = IF d = dir /\ v = 0 THEN pg ELSE NotPresent
      /\ \A d \in Frames : writable[d] = IF d = dir THEN {0} ELSE {}
      /\ \A d \in Frames : tables[d] = IF d = dir THEN tbs ELSE {}
  BY DEF Init
<1>4. /\ kp["kstack"][InitProc] = stk /\ kp["pgdir"][InitProc] = dir
      /\ \A x \in Fields, p \in Procs :
           ~(p = InitProc /\ x \in {"kstack", "pgdir"}) => kp[x][p] = NoFrame
  BY NameAssumption DEF Init, Fields
<1>5. /\ \A p \in Procs : pc[p] = "user"
      /\ \A p \in Procs : sz[p] = IF p = InitProc THEN 1 ELSE 0
      /\ \A p \in Procs : state[p] = IF p = InitProc THEN "RUNNABLE" ELSE "UNUSED"
  BY DEF Init
<1>6. 0 \in Pages /\ InitProc \in Procs /\ PageTypes
  BY SizeAssumption, NameAssumption, Inv1Init DEF Pages, Inv1
<1> HIDE DEF stk, dir, pg, tbs
<1>7. /\ Users(pg) = {<<dir, 0>>} /\ \A f \in Frames : f # pg => Users(f) = {}
  <2>1. ASSUME NEW f \in Frames, NEW s PROVE s \in Users(f) <=> f = pg /\ s = <<dir, 0>>
    BY <1>1, <1>3, <1>6, NameAssumption DEF Users
  <2> QED
    BY <1>1, <2>1
<1>8. Uncounted = {}
  BY <1>5 DEF Uncounted
<1>9. \A f \in Frames : Pointed(f) <=> f \in {stk, dir}
  BY <1>1, <1>4, <1>6, NameAssumption DEF Pointed, PointedIn, Fields
<1>10. \A f \in Frames : Tabled(f) <=> f \in tbs
  BY <1>1, <1>3 DEF Tabled
<1>11. PtrOnce
  <2>1. \A x \in Fields, p \in Procs :
           kp[x][p] # NoFrame => p = InitProc /\ \/ x = "kstack" /\ kp[x][p] = stk
                                                 \/ x = "pgdir" /\ kp[x][p] = dir
    BY <1>4
  <2> QED
    BY <1>1, <2>1 DEF PtrOnce, OnceIn
<1>12. TblOnce /\ DirHeld
  BY <1>3, <1>4, <1>6 DEF TblOnce, DirHeld
<1>13. Kinds
  BY <1>1, <1>2, <1>7, <1>9, <1>10 DEF Kinds
<1>14. Conserved
  BY <1>2, <1>7, <1>9, <1>10 DEF Conserved
<1>15. RefOn
  <2>1. Counted(pg) = {<<dir, 0>>} /\ Cardinality({<<dir, 0>>}) = 1
    BY <1>7, <1>8, FS_Singleton DEF Counted
  <2>2. ref_cnt[pg] = 1
    BY <1>1, <1>2
  <2> QED
    BY <1>7, <2>1, <2>2 DEF RefOn
<1>16. WrPresent /\ WritableExclusive
  BY <1>1, <1>3, <1>6, <1>7, NameAssumption DEF WrPresent, Present, WritableExclusive
<1>17. Filled
  <2>1. Map(InitProc) = pte[dir]
    BY <1>4 DEF Map
  <2> SUFFICES ASSUME NEW p \in Procs PROVE FillOn(p)
    BY DEF Filled
  <2>2. CASE p = InitProc
    <3>1. \A v \in Pages : v >= sz[p] => v # 0
      BY <1>5, <2>2 DEF Pages
    <3>2. \A v \in Pages : v # 0 => Map(p)[v] = NotPresent
      BY <1>1, <1>3, <2>1, <2>2
    <3>3. \A v \in Pages : Map(p)[v] # Frame0
      BY <1>1, <1>3, <2>1, <2>2, NameAssumption
    <3> QED
      BY <1>5, <3>1, <3>2, <3>3 DEF FillOn
  <2>3. CASE p # InitProc
    BY <1>5, <2>3 DEF FillOn, Living
  <2> QED
    BY <2>2, <2>3
<1>18. Shared
  BY <1>5 DEF Shared, SharedOn
<1> QED
  BY <1>11, <1>12, <1>13, <1>14, <1>15, <1>16, <1>17, <1>18 DEF Inv2, Owners, Entries

(* ... and every step keeps it.                                            *)
LEMMA Inv2Next == Inv1 /\ Inv2 /\ OneCPU /\ [Next]_vars => Inv2'
<1> SUFFICES ASSUME Inv1, Inv2, OneCPU, [Next]_vars PROVE Inv2'
  OBVIOUS
<1>1. Inv1'
  BY Inv1Next
<1>2. CASE UNCHANGED vars
  BY <1>1, <1>2, KeepOwn
<1>3. ASSUME NEW p \in Procs, ForkStep(p) PROVE Inv2'
  BY <1>1, <1>3, ForkOwn, AllocKstackOwn, KvmDirOwn, KvmTableOwn, CowPageOwn, CowIncOwn,
     ForkDoneOwn DEF ForkStep
<1>4. ASSUME NEW p \in Procs, ExecStep(p) PROVE Inv2'
  BY <1>1, <1>4, ExecOwn, LoadPageOwn, ExecCommitOwn DEF ExecStep
<1>5. ASSUME NEW p \in Procs, FreeStep(p) PROVE Inv2'
  BY <1>1, <1>5, FreePageOwn, FreeTableOwn, FreeDirOwn DEF FreeStep
<1>6. ASSUME NEW p \in Procs, SbrkStep(p) PROVE Inv2'
  BY <1>1, <1>6, SbrkOwn, GrowPageOwn, GrowDoneOwn, DeallocPageOwn, ShrinkDoneOwn,
     GrowFailedOwn DEF SbrkStep
<1>7. ASSUME NEW p \in Procs, UserStep(p) PROVE Inv2'
  BY <1>1, <1>7, UserOwn DEF UserStep
<1>8. ASSUME NEW p \in Procs, FaultStep(p) PROVE Inv2'
  BY <1>1, <1>8, ReadRefOwn, AllocCopyOwn, DecRefOwn, CopyPageOwn DEF FaultStep
<1>9. ASSUME NEW p \in Procs, ExitStep(p) PROVE Inv2'
  BY <1>1, <1>9, ExitOwn, WaitOwn DEF ExitStep
<1>10. ASSUME NEW p \in Procs, NEW c \in CPUs, SchedStep(c, p) PROVE Inv2'
  BY <1>1, <1>10, DispatchOwn, PreemptOwn DEF SchedStep
<1> QED
  BY <1>2, <1>3, <1>4, <1>5, <1>6, <1>7, <1>8, <1>9, <1>10 DEF Next

(* What Inv2 says of the properties of Cow.                                *)
LEMMA OwnIsSafe ==
  ASSUME Inv1, Inv2
  PROVE  RefExact /\ FreeUnreachable /\ WritableExclusive /\ PagesConserved
<1>1. \A f \in Frames : f \in Mapped <=> Users(f) # {}
  BY UsersIs DEF Mapped, Inv1
<1>2. Mapped \in SUBSET Frames
  BY DEF Mapped
<1>3. \A f \in Frames : f \in KernelFrames <=> Pointed(f) \/ Tabled(f)
  BY NameAssumption DEF KernelFrames, Pointed, PointedIn, Tabled
<1>4. KernelFrames \in SUBSET Frames
  <2>1. \A x \in Fields, p \in Procs : kp[x][p] \in Frames \cup {NoFrame}
    BY DEF Inv1, CtlInv, ProcTypes, Ptr
  <2>2. \A d \in Frames : tables[d] \in SUBSET Frames
    BY DEF Inv1, PageTypes
  <2> QED
    BY <2>1, <2>2 DEF KernelFrames
<1>5. RefExact
  BY <1>1, <1>2 DEF RefExact, Inv2, Entries, RefOn, Counted
<1>6. FreeUnreachable
  BY <1>1, <1>2, <1>3, <1>4 DEF FreeUnreachable, Inv2, Owners, Kinds
<1>7. free \in SUBSET Frames /\ dropped \in SUBSET Frames
  BY DEF Inv1, MemTypes, PageTypes
<1>8. PagesConserved
  BY <1>1, <1>2, <1>3, <1>4, <1>7 DEF PagesConserved, Inv2, Owners, Conserved
<1> QED
  BY <1>5, <1>6, <1>8 DEF Inv2, Entries

LEMMA OwnAlways ==
  ASSUME OneCPU
  PROVE  Spec => [](Inv1 /\ Inv2)
<1>1. OneCPU
  OBVIOUS
<1>2. Init => Inv1 /\ Inv2
  BY Inv1Init, Inv2Init
<1>3. Inv1 /\ Inv2 /\ [Next]_vars => (Inv1 /\ Inv2)'
  BY <1>1, Inv1Next, Inv2Next
<1> QED
  BY <1>2, <1>3, PTL DEF Spec

(* On one CPU, whatever fork, exec, sbrk, exit and page faults interleave, *)
(* the reference count of a mapped frame is the number of page table       *)
(* entries that refer to it (kalloc.c:57-66, 97-107), save those that a    *)
(* system call has written and not yet counted.                            *)
THEOREM CountsAreUsers ==
  ASSUME OneCPU
  PROVE  Spec => []RefExact
<1>1. Inv1 /\ Inv2 => RefExact
  BY OwnIsSafe
<1> QED
  BY <1>1, OwnAlways, PTL

(* On one CPU no frame on the freelist can still be reached: not through a *)
(* page table, nor as stack, directory, table or copy buffer.              *)
THEOREM NoDanglingFrame ==
  ASSUME OneCPU
  PROVE  Spec => []FreeUnreachable
<1>1. Inv1 /\ Inv2 => FreeUnreachable
  BY OwnIsSafe
<1> QED
  BY <1>1, OwnAlways, PTL

(* On one CPU a frame that some process can write through its page table   *)
(* is mapped nowhere else.                                                 *)
THEOREM WritersAreAlone ==
  ASSUME OneCPU
  PROVE  Spec => []WritableExclusive
<1>1. Inv1 /\ Inv2 => WritableExclusive
  BY OwnIsSafe
<1> QED
  BY <1>1, OwnAlways, PTL

(* On one CPU getFreePagesCount() is right, and a frame that is neither    *)
(* free nor in use was forgotten by setupkvm().                            *)
THEOREM NoFrameIsLost ==
  ASSUME OneCPU
  PROVE  Spec => []PagesConserved
<1>1. Inv1 /\ Inv2 => PagesConserved
  BY OwnIsSafe
<1> QED
  BY <1>1, OwnAlways, PTL

-----------------------------------------------------------------------------
(* The translations the CPU keeps.                                         *)

(* Where a process may have changed entries since the last flush.          *)
StaleAt ==
  \A p \in Procs :
    /\ stale[p] # {} => pc[p] \in {"cow", "inc", "shrink"}
    /\ pc[p] = "shrink" => newsz[p] # 0

LEMMA StaleNext ==
  ASSUME 0 \notin SbrkSizes, Inv1, StaleAt, [Next]_vars
  PROVE  StaleAt'
<1> USE DEF StaleAt
<1>0. /\ pc \in [Procs -> Interruptible \cup InHandler] /\ newsz \in [Procs -> 0 .. NPages]
      /\ stale \in [Procs -> SUBSET Pages] /\ np \in [Procs -> Procs \cup {NoProc}]
      /\ i \in [Procs -> 0 .. NPages]
  BY DEF Inv1, CtlInv, ProcTypes, PageTypes
<1>1. CASE UNCHANGED vars
  BY <1>1 DEF vars
<1>2. ASSUME NEW p \in Procs, ForkStep(p) PROVE StaleAt'
  <2>1. CASE Fork(p)
    BY <1>0, <2>1 DEF Fork, Goto, vm, At
  <2>2. CASE AllocKstack(p)
    BY <1>0, <2>2 DEF AllocKstack, Goto, Return, vm, locals, At
  <2>3. CASE KvmDir(p)
    BY <1>0, <2>3 DEF KvmDir, KvmFailed, Goto, Return, vm, locals, At
  <2>4. CASE KvmTable(p)
    BY <1>0, <2>4 DEF KvmTable, KvmFailed, Goto, Return, locals, At
  <2>5. CASE CowPage(p)
    BY <1>0, <2>5 DEF CowPage, Goto, locals, At
  <2>6. CASE CowInc(p)
    BY <1>0, <2>6 DEF CowInc, Goto, vm, At
  <2>7. CASE ForkDone(p)
    BY <1>0, <2>7 DEF ForkDone, Flush, Goto, Return
  <2> QED
    BY <1>2, <2>1, <2>2, <2>3, <2>4, <2>5, <2>6, <2>7 DEF ForkStep
<1>3. ASSUME NEW p \in Procs, ExecStep(p) PROVE StaleAt'
  <2>1. ASSUME NEW n \in ExecSizes, Exec(p, n) PROVE StaleAt'
    BY <1>0, <2>1 DEF Exec, Goto, vm, At
  <2>2. CASE LoadPage(p)
    BY <1>0, <2>2 DEF LoadPage, Goto, At
  <2>3. CASE ExecCommit(p)
    BY <1>0, <2>3 DEF ExecCommit, Flush, Goto, locals
  <2> QED
    BY <1>3, <2>1, <2>2, <2>3 DEF ExecStep
<1>4. ASSUME NEW p \in Procs, FreeStep(p) PROVE StaleAt'
  BY <1>0, <1>4 DEF FreeStep, FreePage, FreeTable, FreeDir, Goto, Return, vm, locals, At
<1>5. ASSUME NEW p \in Procs, SbrkStep(p) PROVE StaleAt'
  <2>1. ASSUME NEW n \in SbrkSizes, Sbrk(p, n) PROVE StaleAt'
    BY <1>0, <2>1 DEF Sbrk, Goto, vm, At
  <2>2. CASE GrowPage(p)
    BY <1>0, <2>2 DEF GrowPage, Goto, At
  <2>3. CASE GrowDone(p)
    BY <1>0, <2>3 DEF GrowDone, Flush, Goto, Return
  <2>4. CASE DeallocPage(p)
    <3>1. pc[p] = "shrink" \/ pc[p] = "undo"
      BY <2>4 DEF DeallocPage, At
    <3>2. pc[p] = "undo" => stale'[p] = stale[p]
      <4>1. PICK v \in Pages : /\ v >= IF pc[p] = "shrink" THEN newsz[p] ELSE sz[p]
                               /\ stale' = [stale EXCEPT ![p] = IF v < sz[p] THEN @ \cup {v} ELSE @]
        BY <2>4 DEF DeallocPage, Present
      <4>2. pc[p] = "undo" => ~(v < sz[p])
        BY <4>1 DEF Pages, Inv1, CtlInv, ProcTypes
      <4> QED
        BY <1>0, <4>1, <4>2
    <3> QED
      BY <1>0, <2>4, <3>1, <3>2 DEF DeallocPage, locals
  <2>5. CASE ShrinkDone(p)
    BY <1>0, <2>5 DEF ShrinkDone, Flush, Goto, Return, At
  <2>6. CASE GrowFailed(p)
    BY <1>0, <2>6 DEF GrowFailed, Goto, Return, vm, At
  <2> QED
    BY <1>5, <2>1, <2>2, <2>3, <2>4, <2>5, <2>6 DEF SbrkStep
<1>6. ASSUME NEW p \in Procs, UserStep(p) PROVE StaleAt'
  BY <1>0, <1>6 DEF UserStep, UserWrite, KernelWrite, WriteFault, BadAccess, Goto, vm, locals, At
<1>7. ASSUME NEW p \in Procs, FaultStep(p) PROVE StaleAt'
  BY <1>0, <1>7 DEF FaultStep, ReadRef, AllocCopy, DecRef, CopyPage, Flush, Goto, Return, vm,
     locals, At
<1>8. ASSUME NEW p \in Procs, ExitStep(p) PROVE StaleAt'
  BY <1>0, <1>8 DEF ExitStep, Exit, Wait, Goto, vm, At
<1>9. ASSUME NEW p \in Procs, NEW c \in CPUs, SchedStep(c, p) PROVE StaleAt'
  BY <1>0, <1>9 DEF SchedStep, Dispatch, Preempt, Flush, vm, locals
<1> QED
  BY <1>1, <1>2, <1>3, <1>4, <1>5, <1>6, <1>7, <1>8, <1>9 DEF Next

(* As long as nobody gives all of its memory back with sbrk, a process in  *)
(* user mode never translates by an entry that fork, sbrk, exec or a page  *)
(* fault has changed (vm.c: the lcr3() of cowuvm, cowHandler, switchuvm).  *)
THEOREM TlbIsFresh ==
  ASSUME 0 \notin SbrkSizes
  PROVE  Spec => []TlbFresh
<1>1. 0 \notin SbrkSizes
  OBVIOUS
<1>2. Init => StaleAt
  BY DEF Init, StaleAt
<1>3. Inv1 /\ StaleAt /\ [Next]_vars => StaleAt'
  BY <1>1, StaleNext
<1>4. StaleAt => TlbFresh
  BY DEF StaleAt, TlbFresh, At
<1> QED
  BY <1>2, <1>3, <1>4, Inv1Init, Inv1Next, PTL DEF Spec

-----------------------------------------------------------------------------
(* The contents of the memories, and the refinement of ForkMemory.         *)

(* How far fork() has copied its parent's entries.                         *)
CopyOn(p) ==
  pc[p] \in {"cow", "inc"} =>
    \A v \in Pages : v < i[p] => pte[kp["d"][p]][v] = Map(p)[v]

(* A page that only directory d maps and that contains x.                  *)
Own(d, v, x) == v \in writable[d] /\ pte[d][v] \in Frames /\ data[pte[d][v]] = x

(* The image exec() loads, and the heap sbrk() grows.                      *)
ImageOn(p) ==
  /\ pc[p] \in {"kvm", "tables"} /\ np[p] = NoProc => newsz[p] # 0
  /\ pc[p] = "load" => /\ newsz[p] # 0
                       /\ \A v \in Pages : v < i[p] => Own(kp["d"][p], v, Image)
HeapOn(p) ==
  /\ pc[p] = "grow" =>
       /\ sz[p] < newsz[p]
       /\ \A v \in Pages : sz[p] <= v /\ v < i[p] => Own(kp["pgdir"][p], v, Zero)
  /\ pc[p] = "shrink" => newsz[p] < sz[p] /\ newsz[p] # 0

(* Every page below the size of a process is mapped.                       *)
FullOn(p) ==
  state[p] \in Living /\ pc[p] # "exit" =>
    \A v \in Pages : v < (IF pc[p] = "shrink" THEN newsz[p] ELSE sz[p]) => Map(p)[v] \in Frames
GotMem(p) == pc[p] \in {"dec", "copy"} => kp["mem"][p] # NoFrame

MemOn(p) == CopyOn(p) /\ ImageOn(p) /\ HeapOn(p) /\ FullOn(p) /\ GotMem(p)
Contents == \A f \in Frames : data[f] \in Values \cup {Junk}
Inv3 == Contents /\ \A p \in Procs : MemOn(p)

(* The page fault handler finds a frame for its copy.                      *)
CopyFound == \A p \in Procs : At(p, "dup") => free # {}

(* What the step of one process leaves alone of another.                   *)
Still(p, q) ==
  /\ Untouched(p, q) /\ (state[q] \in Living => state'[q] \in Living)
  /\ UNCHANGED <<newsz[q], np[q], kp["mem"][q]>>
Same(d) ==
  /\ pte'[d] = pte[d]
  /\ \A v \in Pages : pte[d][v] \in Frames => data'[pte[d][v]] = data[pte[d][v]]
Apart(p) == \A d \in Frames \ DirsOf(p) : Same(d) /\ writable'[d] = writable[d]

View(p) == [v \in Pages |-> IF v < sz[p] /\ Map(p)[v] \in Frames THEN data[Map(p)[v]] ELSE NotPresent]

LEMMA MemIs ==
  ASSUME Inv1, NEW p \in Procs
  PROVE  Mem[p] = IF state[p] \in Living THEN View(p) ELSE NoProc
  BY DEF Mem, View, Living, Inv1, CtlInv, ProcTypes

LEMMA MemNext ==
  ASSUME Inv1', NEW p \in Procs
  PROVE  Mem'[p] = IF state'[p] \in Living THEN View(p)' ELSE NoProc
  BY DEF Mem, View, Living, Inv1, CtlInv, ProcTypes

LEMMA MemFun ==
  Mem = [p \in Procs |-> Mem[p]] /\ Mem' = [p \in Procs |-> Mem'[p]]
  BY DEF Mem

LEMMA MemSame ==
  ASSUME \A p \in Procs : Mem'[p] = Mem[p]
  PROVE  Mem' = Mem
  BY DEF Mem

(* The directories of a process are its own.                               *)
LEMMA DirIs ==
  ASSUME Inv1, Inv2, NEW q \in Procs
  PROVE  /\ pc[q] \in HasDir => kp["d"][q] \in Frames
         /\ state[q] \in Living => kp["pgdir"][q] \in Frames /\ kp["pgdir"][q] # kp["d"][q]
         /\ \A p \in Procs, d \in Frames :
              p # q /\ d \in DirsOf(q) => d \notin DirsOf(p)
<1>1. kp["d"][q] \in Ptr /\ kp["pgdir"][q] \in Ptr
  BY PointerFrames DEF Fields
<1>2. PtrOnce /\ Pointers
  BY DEF Inv2, Owners, Inv1, CtlInv
<1>3. pc[q] \in HasDir => kp["d"][q] \in Frames
  BY <1>1, <1>2 DEF Pointers, Ptr
<1>4. state[q] \in Living => kp["pgdir"][q] \in Frames
  BY <1>1, <1>2 DEF Pointers, Ptr
<1>5. \A p \in Procs, d \in Frames : d \in DirsOf(q) /\ d \in DirsOf(p) => p = q
  BY <1>2, NameAssumption, OwnDirs DEF DirsOf
<1>6. kp["pgdir"][q] \in Frames => kp["pgdir"][q] # kp["d"][q]
  BY <1>2, NameAssumption, OwnDirs
<1> QED
  BY <1>3, <1>4, <1>5, <1>6

LEMMA OtherKept ==
  ASSUME Inv1, Inv1', Inv2, NEW p \in Procs, NEW q \in Procs, q # p,
         Still(p, q), Apart(p), MemOn(q)
  PROVE  MemOn(q)' /\ Mem'[q] = Mem[q]
<1>1. /\ UNCHANGED <<pc[q], i[q], sz[q], newsz[q], np[q]>>
      /\ kp'["d"][q] = kp["d"][q] /\ kp'["mem"][q] = kp["mem"][q]
      /\ state'[q] \in Living <=> state[q] \in Living
      /\ state[q] \in Living => kp'["pgdir"][q] = kp["pgdir"][q]
  BY DEF Still, Untouched
<1>2. pc[q] # "user" => state[q] \in Living
  BY DEF Inv1, CtlInv, Control
<1>3. pc[q] \in HasDir => Same(kp["d"][q]) /\ writable'[kp["d"][q]] = writable[kp["d"][q]]
  BY DirIs DEF Apart, DirsOf
<1>4. state[q] \in Living => Same(kp["pgdir"][q]) /\ writable'[kp["pgdir"][q]] = writable[kp["pgdir"][q]]
  BY DirIs DEF Apart, DirsOf
<1>5. state[q] \in Living => /\ Map(q)' = Map(q)
                             /\ \A v \in Pages : Map(q)[v] \in Frames => data'[Map(q)[v]] = data[Map(q)[v]]
  BY <1>1, <1>4 DEF Map, Same
<1>6. CopyOn(q)'
  BY <1>1, <1>2, <1>3, <1>5 DEF MemOn, CopyOn, HasDir, Same
<1>7. ImageOn(q)'
  BY <1>1, <1>3 DEF MemOn, ImageOn, HasDir, Same, Own
<1>8. HeapOn(q)'
  BY <1>1, <1>2, <1>4 DEF MemOn, HeapOn, Same, Own
<1>9. FullOn(q)' /\ GotMem(q)'
  BY <1>1, <1>5 DEF MemOn, FullOn, GotMem
<1>10. Mem'[q] = Mem[q]
  <2>1. state[q] \in Living => View(q)' = View(q)
    BY <1>1, <1>5 DEF View
  <2> QED
    BY <1>1, <2>1, MemIs, MemNext
<1> QED
  BY <1>6, <1>7, <1>8, <1>9, <1>10 DEF MemOn

LEMMA OthersKept ==
  ASSUME Inv1, Inv1', Inv2, Inv3, NEW p \in Procs, \A q \in Procs : q # p => Still(p, q),
         Apart(p), Contents', MemOn(p)'
  PROVE  Inv3' /\ \A q \in Procs : q # p => Mem'[q] = Mem[q]
<1>1. \A q \in Procs : q # p => MemOn(q)' /\ Mem'[q] = Mem[q]
  BY OtherKept DEF Inv3
<1> QED
  BY <1>1 DEF Inv3

(* Steps that change nobody's memory: p works at most on the directory     *)
(* that it builds or tears down.                                           *)
Hidden(p) ==
  /\ \A d \in Frames : d # kp["d"][p] => Same(d)
  /\ \A d \in Frames \ DirsOf(p) : writable'[d] = writable[d]
  /\ kp'["pgdir"][p] = kp["pgdir"][p] /\ sz'[p] = sz[p]
  /\ state'[p] \in Living <=> state[p] \in Living
  /\ \A q \in Procs : q # p => Still(p, q)

LEMMA HiddenStep ==
  ASSUME Inv1, Inv1', Inv2, Inv3, NEW p \in Procs, Hidden(p), Contents', MemOn(p)'
  PROVE  Inv3' /\ Mem' = Mem
<1>1. Apart(p)
  BY DEF Hidden, Apart, DirsOf
<1>2. Inv3' /\ \A q \in Procs : q # p => Mem'[q] = Mem[q]
  BY <1>1, OthersKept DEF Hidden
<1>3. Mem'[p] = Mem[p]
  <2>1. state[p] \in Living => Same(kp["pgdir"][p])
    BY DirIs DEF Hidden
  <2>2. state[p] \in Living => View(p)' = View(p)
    BY <2>1 DEF View, Same, Map, Hidden
  <2> QED
    BY <2>2, MemIs, MemNext DEF Hidden
<1> QED
  BY <1>2, <1>3, MemSame

LEMMA FullKept ==
  ASSUME Inv1, Inv2, Inv3, NEW p \in Procs, Hidden(p), state[p] \in Living,
         pc[p] # "exit" \/ pc'[p] = "exit",
         pc[p] = "shrink" => pc'[p] = "exit"
  PROVE  Map(p)' = Map(p) /\ (pc'[p] # "shrink" => FullOn(p)')
<1>1. Same(kp["pgdir"][p])
  BY DirIs DEF Hidden
<1>2. Map(p)' = Map(p)
  BY <1>1 DEF Map, Same, Hidden
<1> QED
  BY <1>2 DEF FullOn, Inv3, MemOn, Hidden

Plain == {"user", "kstack", "free", "undo", "wait", "exit", "ref", "dup"}

(* Such a step that ends where the invariant asks for nothing but the      *)
(* pages of the process.                                                   *)
LEMMA PlainStep ==
  ASSUME Inv1, Inv1', Inv2, Inv3, NEW p \in Procs, Hidden(p), Contents',
         state[p] \in Living, pc'[p] \in Plain, pc[p] \notin {"exit", "shrink"}
  PROVE  Inv3' /\ Mem' = Mem
<1>1. FullOn(p)'
  BY FullKept DEF Plain
<1>2. MemOn(p)'
  BY <1>1 DEF MemOn, CopyOn, ImageOn, HeapOn, GotMem, Plain
<1> QED
  BY <1>2, HiddenStep

(* What kfree() overwrites is nobody's, if the frame was pointed to.       *)
LEMMA CalmFree ==
  ASSUME Inv1, Inv2, Inv3, NEW f \in Frames, Pointed(f) \/ Tabled(f), KFree(f)
  PROVE  /\ Contents'
         /\ \A d \in Frames, v \in Pages : pte[d][v] \in Frames => data'[pte[d][v]] = data[pte[d][v]]
<1>1. Users(f) = {}
  BY DEF Inv2, Owners, Kinds
<1>2. \A d \in Frames, v \in Pages : pte[d][v] # f
  BY <1>1, UsersIs DEF Inv1
<1>3. \A g \in Frames : data'[g] = IF g = f THEN data'[g] ELSE data[g]
  BY DEF KFree, Inv1, MemTypes
<1>4. data'[f] \in Values \cup {Junk}
  BY DEF KFree, Inv1, MemTypes, Inv3, Contents
<1> QED
  BY <1>2, <1>3, <1>4 DEF Inv3, Contents

-----------------------------------------------------------------------------
(* The steps of fork().                                                    *)

(* Nothing of the address spaces changes at all.                           *)
LEMMA Untouching ==
  ASSUME NEW p \in Procs, UNCHANGED <<data, pte, writable>>,
         kp'["pgdir"][p] = kp["pgdir"][p], sz'[p] = sz[p],
         state'[p] \in Living <=> state[p] \in Living,
         \A q \in Procs : q # p => Still(p, q)
  PROVE  Hidden(p) /\ (Contents => Contents')
  BY DEF Hidden, Same, Contents

LEMMA RunnerIs ==
  ASSUME Inv1, NEW p \in Procs, NEW l, At(p, l)
  PROVE  pc[p] = l /\ state[p] = "RUNNING" /\ state[p] \in Living
  BY AtIs DEF Living

LEMMA ForkMem ==
  ASSUME Inv1, Inv1', Inv2, Inv3, NEW p \in Procs, Fork(p)
  PROVE  Inv3' /\ Mem' = Mem
<1>1. pc[p] = "user" /\ state[p] \in Living
  BY RunnerIs DEF Fork
<1>2. PICK c \in Procs : /\ state[c] = "UNUSED" /\ state' = [state EXCEPT ![c] = "EMBRYO"]
                         /\ np' = [np EXCEPT ![p] = c]
  BY DEF Fork
<1>3. pc'[p] = "kstack" /\ UNCHANGED <<data, pte, writable, kp, sz, i, newsz>>
      /\ \A q \in Procs : q # p => pc'[q] = pc[q]
  BY DEF Fork, vm, Goto, Inv1, CtlInv, ProcTypes
<1>4. \A q \in Procs : /\ state'[q] \in Living <=> state[q] \in Living
                       /\ q # p => np'[q] = np[q]
  BY <1>2 DEF Living, Inv1, CtlInv, ProcTypes
<1>5. Hidden(p) /\ Contents'
  BY <1>3, <1>4, Untouching DEF Still, Untouched, Inv3
<1> QED
  BY <1>1, <1>3, <1>5, PlainStep DEF Plain

LEMMA AllocKstackMem ==
  ASSUME Inv1, Inv1', Inv2, Inv3, NEW p \in Procs, AllocKstack(p)
  PROVE  Inv3' /\ Mem' = Mem
<1>1. /\ pc[p] = "kstack" /\ state[p] \in Living /\ np[p] \in Procs /\ np[p] # p
      /\ state[np[p]] = "EMBRYO"
  <2>1. pc[p] = "kstack" /\ state[p] \in Living
    BY RunnerIs DEF AllocKstack
  <2> QED
    BY <2>1 DEF Inv1, CtlInv, ProcTypes, Control, Slot, ForkPcs, Living
<1>2. UNCHANGED <<data, pte, writable, sz>>
  BY DEF AllocKstack, vm
<1>3. CASE state' = [state EXCEPT ![np[p]] = "UNUSED"] /\ Return(p) /\ UNCHANGED kp
  <2>1. pc'[p] = "user" /\ \A q \in Procs : q # p =>
           pc'[q] = pc[q] /\ np'[q] = np[q] /\ newsz'[q] = newsz[q] /\ i'[q] = i[q]
    BY <1>3 DEF Return, Goto, Inv1, CtlInv, ProcTypes
  <2>2. \A q \in Procs : state'[q] \in Living <=> state[q] \in Living
    BY <1>1, <1>3 DEF Living, Inv1, CtlInv, ProcTypes
  <2>3. Hidden(p) /\ Contents'
    BY <1>2, <1>3, <2>1, <2>2, Untouching DEF Still, Untouched, Inv3
  <2> QED
    BY <1>1, <2>1, <2>3, PlainStep DEF Plain
<1>4. CASE /\ \E f \in free : kp' = [kp EXCEPT !["kstack"][np[p]] = f]
           /\ Goto(p, "kvm") /\ UNCHANGED <<state, locals>>
  <2>1. /\ pc'[p] = "kvm" /\ np'[p] = np[p] /\ UNCHANGED state
        /\ \A q \in Procs : q # p =>
             pc'[q] = pc[q] /\ np'[q] = np[q] /\ newsz'[q] = newsz[q] /\ i'[q] = i[q]
    BY <1>4 DEF Goto, locals, Inv1, CtlInv, ProcTypes
  <2>2. \A q \in Procs, x \in {"d", "pgdir", "mem"} : kp'[x][q] = kp[x][q]
    BY <1>4 DEF Inv1, CtlInv, ProcTypes, Fields
  <2>3. Hidden(p) /\ Contents'
    BY <1>2, <2>1, <2>2, Untouching DEF Still, Untouched, Inv3
  <2>4. FullOn(p)'
    BY <1>1, <2>1, <2>3, FullKept
  <2>5. MemOn(p)'
    BY <1>1, <2>1, <2>4, NameAssumption DEF MemOn, CopyOn, ImageOn, HeapOn, GotMem
  <2> QED
    BY <2>3, <2>5, HiddenStep
<1> QED
  BY <1>3, <1>4 DEF AllocKstack

(* setupkvm() fails: the stack of the child goes.                          *)
LEMMA FailedMem ==
  ASSUME Inv1, Inv1', Inv2, Inv3, NEW p \in Procs, pc[p] \in {"kvm", "tables"},
         state[p] \in Living, NEW k, k \in {kp, [kp EXCEPT !["d"][p] = NoFrame]},
         KvmFailed(p, k), UNCHANGED <<pte, writable, sz>>
  PROVE  Inv3' /\ Mem' = Mem
<1>1. pc'[p] = "user" /\ \A q \in Procs : q # p =>
         pc'[q] = pc[q] /\ np'[q] = np[q] /\ newsz'[q] = newsz[q] /\ i'[q] = i[q]
  BY DEF KvmFailed, Return, Goto, Inv1, CtlInv, ProcTypes
<1>2. /\ k \in [Fields -> [Procs -> Ptr]]
      /\ \A q \in Procs, x \in {"pgdir", "mem", "kstack"} : k[x][q] = kp[x][q]
      /\ \A q \in Procs : q # p => k["d"][q] = kp["d"][q]
  BY DEF Inv1, CtlInv, ProcTypes, Fields, Ptr
<1>3. CASE ~Forking(p) /\ kp' = k /\ UNCHANGED <<kmem, data, state>>
  <2>1. Hidden(p) /\ Contents'
    BY <1>1, <1>2, <1>3, Untouching DEF Still, Untouched, Inv3
  <2> QED
    BY <1>1, <2>1, PlainStep DEF Plain
<1>4. CASE /\ Forking(p) /\ KFree(kp["kstack"][np[p]])
           /\ kp' = [k EXCEPT !["kstack"][np[p]] = NoFrame]
           /\ state' = [state EXCEPT ![np[p]] = "UNUSED"]
  <2>1. np[p] \in Procs /\ state[np[p]] = "EMBRYO" /\ kp["kstack"][np[p]] # NoFrame
    BY <1>4 DEF Forking, Inv1, CtlInv, ProcTypes, Slot, ForkPcs
  <2>2. PICK f \in Frames : f = kp["kstack"][np[p]]
    BY <2>1, PointerFrames DEF Fields, Ptr
  <2>3. Pointed(f)
    BY <2>1, <2>2 DEF Pointed, PointedIn, Fields
  <2>4. /\ Contents'
        /\ \A d \in Frames, v \in Pages : pte[d][v] \in Frames => data'[pte[d][v]] = data[pte[d][v]]
    BY <1>4, <2>2, <2>3, CalmFree
  <2>5. \A q \in Procs : state'[q] \in Living <=> state[q] \in Living
    BY <1>4, <2>1 DEF Living, Inv1, CtlInv, ProcTypes
  <2>6. /\ \A q \in Procs, x \in {"pgdir", "mem"} : kp'[x][q] = kp[x][q]
        /\ \A q \in Procs : q # p => kp'["d"][q] = kp["d"][q]
    BY <1>2, <1>4 DEF Fields
  <2>7. Hidden(p)
    BY <1>1, <2>4, <2>5, <2>6 DEF Hidden, Same, Still, Untouched
  <2> QED
    BY <1>1, <2>4, <2>7, PlainStep DEF Plain
<1> QED
  BY <1>3, <1>4 DEF KvmFailed

LEMMA KvmDirMem ==
  ASSUME Inv1, Inv1', Inv2, Inv3, NEW p \in Procs, KvmDir(p)
  PROVE  Inv3' /\ Mem' = Mem
<1>1. pc[p] = "kvm" /\ state[p] \in Living
  BY RunnerIs DEF KvmDir
<1>2. UNCHANGED <<pte, writable, sz>>
  BY DEF KvmDir, vm
<1>3. CASE KvmFailed(p, kp)
  BY <1>1, <1>2, <1>3, FailedMem
<1>4. CASE /\ \E f \in free : kp' = [kp EXCEPT !["d"][p] = f]
           /\ Goto(p, "tables") /\ UNCHANGED <<data, state, locals>>
  <2>1. /\ pc'[p] = "tables" /\ UNCHANGED <<data, state, np, newsz, i>>
        /\ \A q \in Procs : q # p => pc'[q] = pc[q]
    BY <1>4 DEF Goto, locals, Inv1, CtlInv, ProcTypes
  <2>2. /\ \A q \in Procs, x \in {"pgdir", "mem"} : kp'[x][q] = kp[x][q]
        /\ \A q \in Procs : q # p => kp'["d"][q] = kp["d"][q]
    BY <1>4 DEF Inv1, CtlInv, ProcTypes, Fields
  <2>3. Hidden(p) /\ Contents'
    BY <1>2, <2>1, <2>2, Untouching DEF Still, Untouched, Inv3
  <2>4. FullOn(p)'
    BY <1>1, <2>1, <2>3, FullKept
  <2>5. MemOn(p)'
    BY <1>1, <2>1, <2>4 DEF MemOn, CopyOn, ImageOn, HeapOn, GotMem, Inv3
  <2> QED
    BY <2>3, <2>5, HiddenStep
<1> QED
  BY <1>3, <1>4 DEF KvmDir

LEMMA KvmTableMem ==
  ASSUME Inv1, Inv1', Inv2, Inv3, NEW p \in Procs, KvmTable(p)
  PROVE  Inv3' /\ Mem' = Mem
<1>1. pc[p] = "tables" /\ state[p] \in Living /\ i[p] = 0
  <2>1. pc[p] = "tables" /\ state[p] \in Living
    BY RunnerIs DEF KvmTable
  <2> QED
    BY <2>1 DEF Inv1, CtlInv, Loops
<1>2. UNCHANGED <<pte, writable, sz>>
  BY DEF KvmTable
<1>3. CASE KvmFailed(p, [kp EXCEPT !["d"][p] = NoFrame])
  BY <1>1, <1>2, <1>3, FailedMem
<1>4. CASE /\ Goto(p, IF Forking(p) THEN "cow" ELSE "load") \/ UNCHANGED pc
           /\ UNCHANGED <<data, state, kp, locals>>
  <2>1. /\ pc'[p] \in {"tables", IF np[p] # NoProc THEN "cow" ELSE "load"}
        /\ UNCHANGED <<data, state, np, newsz, i, kp>>
        /\ \A q \in Procs : q # p => pc'[q] = pc[q]
    BY <1>1, <1>4 DEF Goto, locals, Inv1, CtlInv, ProcTypes, Forking
  <2>2. Hidden(p) /\ Contents'
    BY <1>2, <2>1, Untouching DEF Still, Untouched, Inv3
  <2>3. FullOn(p)'
    BY <1>1, <2>1, <2>2, FullKept
  <2>4. \A v \in Pages : ~(v < i'[p])
    BY <1>1, <2>1 DEF Pages
  <2>5. MemOn(p)'
    BY <1>1, <2>1, <2>3, <2>4 DEF MemOn, CopyOn, ImageOn, HeapOn, GotMem, Inv3
  <2> QED
    BY <2>2, <2>5, HiddenStep
<1> QED
  BY <1>3, <1>4 DEF KvmTable

LEMMA CowIncMem ==
  ASSUME Inv1, Inv1', Inv2, Inv3, NEW p \in Procs, CowInc(p)
  PROVE  Inv3' /\ Mem' = Mem
<1>1. pc[p] = "inc" /\ state[p] \in Living
  BY RunnerIs DEF CowInc
<1>2. /\ pc'[p] = "cow" /\ i'[p] = i[p] + 1 /\ UNCHANGED <<data, pte, writable, state, sz, np, newsz, kp>>
      /\ \A q \in Procs : q # p => pc'[q] = pc[q] /\ i'[q] = i[q]
  BY DEF CowInc, vm, procs, Goto, Inv1, CtlInv, ProcTypes
<1>3. Hidden(p) /\ Contents'
  BY <1>2, Untouching DEF Still, Untouched, Inv3
<1>4. Map(p)' = Map(p) /\ FullOn(p)'
  BY <1>1, <1>2, <1>3, FullKept
<1>5. CopyOn(p)'
  <2>1. pte[kp["d"][p]][i[p]] = Map(p)[i[p]] /\ i[p] \in Int
    BY <1>1 DEF Inv2, Filled, FillOn, Inv1, CtlInv, ProcTypes
  <2>2. \A v \in Pages : v < i'[p] => v < i[p] \/ v = i[p]
    BY <1>2, <2>1 DEF Pages
  <2> QED
    BY <1>1, <1>2, <1>4, <2>1, <2>2 DEF CopyOn, Inv3, MemOn
<1>6. MemOn(p)'
  BY <1>2, <1>4, <1>5 DEF MemOn, ImageOn, HeapOn, GotMem
<1> QED
  BY <1>3, <1>6, HiddenStep

LEMMA CowPageMem ==
  ASSUME Inv1, Inv1', Inv2, Inv3, NEW p \in Procs, CowPage(p)
  PROVE  Inv3' /\ Mem' = Mem
<1> DEFINE d == kp["pgdir"][p]
           e == kp["d"][p]
<1>1. pc[p] = "cow" /\ state[p] \in Living /\ e \in Frames /\ d \in Frames /\ d # e
  <2>1. pc[p] = "cow" /\ state[p] \in Living
    BY RunnerIs DEF CowPage
  <2> QED
    BY <2>1, DirIs DEF HasDir
<1>2. UNCHANGED <<data, state, sz, np, newsz, i, kp>>
  BY DEF CowPage, procs, locals
<1>3. CASE UNCHANGED <<pte, writable, pc>>
  <2>1. Hidden(p) /\ Contents'
    BY <1>2, <1>3, Untouching DEF Still, Untouched, Inv3
  <2>2. Map(p)' = Map(p) /\ FullOn(p)'
    BY <1>1, <1>3, <2>1, FullKept
  <2>3. MemOn(p)'
    BY <1>1, <1>2, <1>3, <2>2 DEF MemOn, CopyOn, ImageOn, HeapOn, GotMem, Inv3
  <2> QED
    BY <2>1, <2>3, HiddenStep
<1>4. CASE pte' = [pte EXCEPT ![e][i[p]] = pte[d][i[p]]] /\ ClearW(d, i[p]) /\ Goto(p, "inc")
  <2>1. pc'[p] = "inc" /\ \A q \in Procs : q # p => pc'[q] = pc[q]
    BY <1>4 DEF Goto, Inv1, CtlInv, ProcTypes
  <2>2. /\ \A c \in Frames : c # e => pte'[c] = pte[c]
        /\ \A c \in Frames : c # d => writable'[c] = writable[c]
        /\ \A v \in Pages : v # i[p] => pte'[e][v] = pte[e][v]
    BY <1>1, <1>4 DEF ClearW, Inv1, PageTypes
  <2>3. Hidden(p) /\ Contents'
    BY <1>2, <2>1, <2>2 DEF Hidden, Same, Still, Untouched, DirsOf, Inv3, Contents
  <2>4. Map(p)' = Map(p) /\ FullOn(p)'
    BY <1>1, <2>1, <2>3, FullKept
  <2>5. \A v \in Pages : v < i[p] => v # i[p]
    BY DEF Pages, Inv1, CtlInv, ProcTypes
  <2>6. CopyOn(p)'
    BY <1>1, <1>2, <2>2, <2>4, <2>5 DEF CopyOn, Inv3, MemOn
  <2>7. MemOn(p)'
    BY <2>1, <2>4, <2>6 DEF MemOn, ImageOn, HeapOn, GotMem
  <2> QED
    BY <2>3, <2>7, HiddenStep
<1> QED
  BY <1>3, <1>4 DEF CowPage

(* A living process has a memory, another has none.                        *)
LEMMA AliveIs ==
  ASSUME Inv1, Inv3, NEW p \in Procs
  PROVE  /\ state[p] \in Living => Mem[p] = View(p) /\ Private!Alive(p)
         /\ state[p] \notin Living => Mem[p] = NoProc /\ ~Private!Alive(p)
<1>1. View(p) \in [Pages -> Values \cup {Junk, NotPresent}]
  BY DEF View, Inv3, Contents
<1>2. View(p) # NoProc
  BY <1>1, ContentAssumption
<1> QED
  BY <1>2, MemIs DEF Private!Alive

LEMMA ForkDoneMem ==
  ASSUME Inv1, Inv1', Inv2, Inv3, NEW p \in Procs, ForkDone(p)
  PROVE  Inv3' /\ Private!Fork(p, np[p])
<1>0. PICK c : c = np[p]
  OBVIOUS
<1>1. /\ pc[p] = "cow" /\ state[p] \in Living /\ c \in Procs /\ c # p
      /\ state[c] = "EMBRYO" /\ pc[c] = "user"
  <2>1. pc[p] = "cow" /\ state[p] \in Living
    BY RunnerIs DEF ForkDone
  <2>2. c \in Procs /\ state[c] = "EMBRYO"
    BY <1>0, <2>1 DEF Inv1, CtlInv, ProcTypes, Control, Slot, ForkPcs
  <2> QED
    BY <2>1, <2>2 DEF Inv1, CtlInv, Control, Living
<1>2. /\ UNCHANGED <<data, pte, writable>>
      /\ state'[c] = "RUNNABLE" /\ \A q \in Procs : q # c => state'[q] = state[q]
      /\ sz'[c] = sz[p] /\ \A q \in Procs : q # c => sz'[q] = sz[q]
      /\ pc'[p] = "user"
      /\ \A q \in Procs : q # p => pc'[q] = pc[q] /\ i'[q] = i[q] /\ np'[q] = np[q] /\ newsz'[q] = newsz[q]
  BY <1>0, <1>1 DEF ForkDone, Return, Goto, Inv1, CtlInv, ProcTypes
<1>3. /\ kp'["pgdir"][c] = kp["d"][p]
      /\ \A q \in Procs : q # c => kp'["pgdir"][q] = kp["pgdir"][q]
      /\ \A q \in Procs : q # p => kp'["d"][q] = kp["d"][q]
      /\ \A q \in Procs : kp'["mem"][q] = kp["mem"][q]
  BY <1>0, <1>1 DEF ForkDone, Inv1, CtlInv, ProcTypes, Fields
<1>4. Apart(p) /\ Contents'
  BY <1>2 DEF Apart, Same, Inv3, Contents
<1>5. ASSUME NEW q \in Procs, q # p, q # c PROVE MemOn(q)' /\ Mem'[q] = Mem[q]
  <2>1. Still(p, q)
    BY <1>2, <1>3, <1>5 DEF Still, Untouched
  <2> QED
    BY <1>4, <1>5, <2>1, OtherKept DEF Inv3
<1>6. /\ Map(p)' = Map(p) /\ \A v \in Pages : v < sz[p] => Map(c)'[v] = Map(p)[v]
      /\ \A v \in Pages : v < sz[p] => Map(p)[v] \in Frames
  <2>1. \A v \in Pages : v < sz[p] => v < i[p]
    BY DEF ForkDone, Pages, Inv1, CtlInv, ProcTypes
  <2>2. \A v \in Pages : v < i[p] => pte[kp["d"][p]][v] = Map(p)[v]
    BY <1>1 DEF Inv3, MemOn, CopyOn
  <2>3. \A v \in Pages : v < sz[p] => Map(p)[v] \in Frames
    BY <1>1 DEF Inv3, MemOn, FullOn
  <2> QED
    BY <1>1, <1>2, <1>3, <2>1, <2>2, <2>3 DEF Map
<1>7. FullOn(p)' /\ FullOn(c)'
  BY <1>1, <1>2, <1>6 DEF FullOn
<1>8. MemOn(p)' /\ MemOn(c)'
  BY <1>1, <1>2, <1>7 DEF MemOn, CopyOn, ImageOn, HeapOn, GotMem
<1>9. Mem'[p] = Mem[p] /\ Mem'[c] = Mem[p]
  <2>1. Mem'[p] = View(p)' /\ Mem'[c] = View(c)' /\ Mem[p] = View(p)
    BY <1>1, <1>2, MemIs, MemNext DEF Living
  <2>2. View(p)' = View(p) /\ View(c)' = View(p)
    BY <1>1, <1>2, <1>6 DEF View
  <2> QED
    BY <2>1, <2>2
<1>10. Mem' = [Mem EXCEPT ![c] = Mem[p]]
  BY <1>1, <1>5, <1>9, MemFun
<1>11. Private!Alive(p) /\ ~Private!Alive(c)
  BY <1>1, AliveIs DEF Living
<1> QED
  BY <1>0, <1>4, <1>5, <1>8, <1>10, <1>11 DEF Inv3, Private!Fork

-----------------------------------------------------------------------------
(* The steps of exec() and freevm().                                       *)

LEMMA ExecMem ==
  ASSUME Inv1, Inv1', Inv2, Inv3, NEW p \in Procs, NEW n \in ExecSizes, Exec(p, n)
  PROVE  Inv3' /\ Mem' = Mem
<1>1. pc[p] = "user" /\ state[p] \in Living
  BY RunnerIs DEF Exec
<1>2. /\ pc'[p] = "kvm" /\ newsz'[p] = n /\ n # 0
      /\ UNCHANGED <<data, pte, writable, state, sz, np, i, kp>>
      /\ \A q \in Procs : q # p => pc'[q] = pc[q] /\ newsz'[q] = newsz[q]
  BY SizeAssumption DEF Exec, vm, procs, Goto, Inv1, CtlInv, ProcTypes
<1>3. Hidden(p) /\ Contents'
  BY <1>2, Untouching DEF Still, Untouched, Inv3
<1>4. FullOn(p)'
  BY <1>1, <1>2, <1>3, FullKept
<1>5. MemOn(p)'
  BY <1>2, <1>4 DEF MemOn, CopyOn, ImageOn, HeapOn, GotMem
<1> QED
  BY <1>3, <1>5, HiddenStep

(* A page of memory nobody has gets its first contents.                    *)
LEMMA FreshPage ==
  ASSUME Inv1, Inv2, Inv3, NEW d \in Frames, NEW v \in Pages, NEW f \in free, KAlloc(f),
         NEW x \in Values, MapPage(d, v, f), data' = [data EXCEPT ![f] = x]
  PROVE  /\ Contents' /\ Own(d, v, x)'
         /\ \A c \in Frames : c # d => Same(c) /\ writable'[c] = writable[c]
         /\ \A u \in Pages : u # v => pte'[d][u] = pte[d][u]
         /\ \A u \in Pages : pte[d][u] \in Frames => data'[pte[d][u]] = data[pte[d][u]]
         /\ \A u \in Pages : u # v /\ Own(d, u, x) => Own(d, u, x)'
<1>1. f \in Frames /\ Users(f) = {}
  BY AllocIs
<1>2. \A c \in Frames, u \in Pages : pte[c][u] # f
  BY <1>1, UsersIs DEF Inv1
<1>3. data'[f] = x /\ \A g \in Frames : g # f => data'[g] = data[g]
  BY <1>1 DEF Inv1, MemTypes
<1>4. /\ pte'[d][v] = f /\ \A u \in Pages : u # v => pte'[d][u] = pte[d][u]
      /\ \A c \in Frames : c # d => pte'[c] = pte[c] /\ writable'[c] = writable[c]
      /\ writable'[d] = writable[d] \cup {v}
  BY DEF MapPage, Inv1, PageTypes
<1>5. \A c \in Frames, u \in Pages : pte[c][u] \in Frames => data'[pte[c][u]] = data[pte[c][u]]
  BY <1>2, <1>3
<1>6. Contents'
  BY <1>3 DEF Inv3, Contents
<1>7. \A u \in Pages : u # v /\ Own(d, u, x) => Own(d, u, x)'
  BY <1>4, <1>5 DEF Own
<1> QED
  BY <1>1, <1>3, <1>4, <1>5, <1>6, <1>7 DEF Own, Same

LEMMA LoadPageMem ==
  ASSUME Inv1, Inv1', Inv2, Inv3, NEW p \in Procs, LoadPage(p)
  PROVE  Inv3' /\ Mem' = Mem
<1>0. PICK d, v : d = kp["d"][p] /\ v = i[p]
  OBVIOUS
<1>1. /\ pc[p] = "load" /\ state[p] \in Living /\ d \in Frames /\ kp["pgdir"][p] # d
      /\ v \in Pages
  <2>1. pc[p] = "load" /\ state[p] \in Living
    BY RunnerIs DEF LoadPage
  <2> QED
    BY <1>0, <2>1, DirIs, PageAt DEF HasDir, LoadPage, More
<1>2. UNCHANGED <<state, sz, np, newsz, kp>>
  BY DEF LoadPage, procs
<1>3. CASE Goto(p, "free") /\ UNCHANGED <<data, pte, writable, i>>
  <2>1. pc'[p] = "free" /\ \A q \in Procs : q # p => pc'[q] = pc[q]
    BY <1>3 DEF Goto, Inv1, CtlInv, ProcTypes
  <2>2. Hidden(p) /\ Contents'
    BY <1>2, <1>3, <2>1, Untouching DEF Still, Untouched, Inv3
  <2> QED
    BY <1>1, <2>1, <2>2, PlainStep DEF Plain
<1>4. CASE \E f \in free : /\ KAlloc(f) /\ MapPage(d, v, f)
                           /\ data' = [data EXCEPT ![f] = Image]
                           /\ i' = [i EXCEPT ![p] = @ + 1] /\ UNCHANGED pc
  <2>1. PICK f \in free : KAlloc(f) /\ MapPage(d, v, f) /\ data' = [data EXCEPT ![f] = Image]
    BY <1>4
  <2>2. UNCHANGED pc /\ i'[p] = v + 1 /\ \A q \in Procs : q # p => i'[q] = i[q]
    BY <1>0, <1>4 DEF Inv1, CtlInv, ProcTypes
  <2>3. /\ Contents' /\ Own(d, v, Image)'
        /\ \A c \in Frames : c # d => Same(c) /\ writable'[c] = writable[c]
        /\ \A u \in Pages : u # v /\ Own(d, u, Image) => Own(d, u, Image)'
    BY <1>1, <2>1, NameAssumption, FreshPage
  <2>4. Hidden(p)
    BY <1>0, <1>2, <2>2, <2>3 DEF Hidden, Still, Untouched, DirsOf
  <2>5. FullOn(p)'
    BY <1>1, <2>2, <2>4, FullKept
  <2>6. \A u \in Pages : u < i'[p] => Own(d, u, Image)'
    <3>1. \A u \in Pages : u < i'[p] => u < v \/ u = v
      BY <1>1, <2>2 DEF Pages
    <3>2. \A u \in Pages : u < v => u # v /\ Own(d, u, Image)
      BY <1>0, <1>1 DEF Inv3, MemOn, ImageOn, Pages
    <3> SUFFICES ASSUME NEW u \in Pages, u < i'[p] PROVE Own(d, u, Image)'
      OBVIOUS
    <3>3. CASE u = v
      BY <2>3, <3>3 DEF Own
    <3>4. CASE u # v
      BY <2>3, <3>1, <3>2, <3>4 DEF Own
    <3> QED
      BY <3>3, <3>4
  <2>7. newsz'[p] # 0 /\ \A u \in Pages : u < i'[p] => Own(kp["d"][p], u, Image)'
    BY <1>0, <1>1, <1>2, <2>6 DEF Inv3, MemOn, ImageOn, Own
  <2>8. MemOn(p)'
    BY <1>1, <2>2, <2>5, <2>7 DEF MemOn, CopyOn, ImageOn, HeapOn, GotMem
  <2> QED
    BY <2>3, <2>4, <2>8, HiddenStep
<1> QED
  BY <1>0, <1>3, <1>4 DEF LoadPage

LEMMA ExecCommitMem ==
  ASSUME Inv1, Inv1', Inv2, Inv3, NEW p \in Procs, ExecCommit(p)
  PROVE  Inv3' /\ \E v \in Pages : Private!Exec(p, v + 1)
<1>0. PICK d : d = kp["d"][p]
  OBVIOUS
<1>1. pc[p] = "load" /\ state[p] \in Living /\ d \in Frames
  <2>1. pc[p] = "load" /\ state[p] \in Living
    BY RunnerIs DEF ExecCommit
  <2> QED
    BY <1>0, <2>1, DirIs DEF HasDir
<1>2. /\ UNCHANGED <<data, pte, writable, state, newsz, np, i>>
      /\ sz'[p] = newsz[p] /\ pc'[p] = "free"
      /\ \A q \in Procs : q # p => sz'[q] = sz[q] /\ pc'[q] = pc[q]
  BY DEF ExecCommit, procs, locals, Goto, Inv1, CtlInv, ProcTypes
<1>3. /\ kp'["pgdir"][p] = d
      /\ \A q \in Procs : /\ q # p => kp'["pgdir"][q] = kp["pgdir"][q] /\ kp'["d"][q] = kp["d"][q]
                          /\ kp'["mem"][q] = kp["mem"][q]
  BY <1>0 DEF ExecCommit, Inv1, CtlInv, ProcTypes, Fields
<1>4. \A v \in Pages : v < newsz[p] => pte[d][v] \in Frames /\ data[pte[d][v]] = Image
  <2>1. \A v \in Pages : v < newsz[p] => v < i[p]
    BY DEF ExecCommit, More, Pages, Inv1, CtlInv, ProcTypes
  <2> QED
    BY <1>0, <1>1, <2>1 DEF Inv3, MemOn, ImageOn, Own
<1>5. Apart(p) /\ Contents'
  BY <1>2 DEF Apart, Same, Inv3, Contents
<1>6. MemOn(p)'
  BY <1>2, <1>3, <1>4 DEF MemOn, CopyOn, ImageOn, HeapOn, FullOn, GotMem, Map
<1>7. \A q \in Procs : q # p => Still(p, q)
  BY <1>2, <1>3 DEF Still, Untouched
<1>8. Inv3' /\ \A q \in Procs : q # p => Mem'[q] = Mem[q]
  BY <1>5, <1>6, <1>7, OthersKept
<1>9. Mem'[p] = Private!Fresh(newsz[p])
  <2>1. Mem'[p] = View(p)'
    BY <1>1, <1>2, MemNext
  <2>2. View(p)' = Private!Fresh(newsz[p])
    BY <1>2, <1>3, <1>4 DEF View, Map, Private!Fresh
  <2> QED
    BY <2>1, <2>2
<1>10. Mem' = [Mem EXCEPT ![p] = Private!Fresh(newsz[p])]
  BY <1>8, <1>9, MemFun
<1>11. newsz[p] - 1 \in Pages /\ newsz[p] = (newsz[p] - 1) + 1
  BY <1>1, SizeAssumption DEF Inv3, MemOn, ImageOn, Inv1, CtlInv, ProcTypes, Pages
<1>12. Private!Alive(p)
  BY <1>1, AliveIs
<1>13. Private!Exec(p, newsz[p])
  BY <1>10, <1>12 DEF Private!Exec
<1> QED
  BY <1>8, <1>11, <1>13

(* The last reference to a frame is given up: only the entry that goes has *)
(* mapped it.                                                              *)
LEMMA GonePage ==
  ASSUME Inv1, Inv2, Inv3, OneCPU, NEW p \in Procs, \E c \in CPUs : cpu[c] \in {p, NoProc},
         pc[p] \notin {"inc", "copy"}, NEW d \in DirsOf(p), d \in Frames, NEW v \in Pages,
         NEW f \in Frames, pte[d][v] = f, KFree(f), Unmap(d, v)
  PROVE  /\ Contents'
         /\ \A c \in Frames : c # d => Same(c) /\ writable'[c] = writable[c]
         /\ pte'[d][v] = NotPresent
         /\ \A u \in Pages : u # v => /\ pte'[d][u] = pte[d][u]
                                      /\ pte[d][u] \in Frames => data'[pte[d][u]] = data[pte[d][u]]
<1>1. /\ \A g \in Frames : g # f => data'[g] = data[g]
      /\ data'[f] # data[f] => LastRef(f)
      /\ data'[f] \in Values \cup {Junk}
  BY DEF KFree, Inv1, MemTypes, Inv3, Contents
<1>2. LastRef(f) => Users(f) = {<<d, v>>}
  BY LastUser
<1>3. ASSUME NEW c \in Frames, NEW u \in Pages, <<c, u>> # <<d, v>>, pte[c][u] \in Frames
      PROVE  data'[pte[c][u]] = data[pte[c][u]]
  <2>1. CASE pte[c][u] = f
    <3>1. <<c, u>> \in Users(f)
      BY <2>1, UsersIs DEF Inv1
    <3> QED
      BY <1>1, <1>2, <1>3, <2>1, <3>1
  <2>2. CASE pte[c][u] # f
    BY <1>1, <1>3, <2>2
  <2> QED
    BY <2>1, <2>2
<1>4. /\ pte'[d][v] = NotPresent /\ \A u \in Pages : u # v => pte'[d][u] = pte[d][u]
      /\ \A c \in Frames : c # d => pte'[c] = pte[c] /\ writable'[c] = writable[c]
  BY DEF Unmap, Inv1, PageTypes
<1>5. Contents'
  BY <1>1 DEF Inv3, Contents
<1>6. \A c \in Frames : c # d => \A u \in Pages : pte[c][u] \in Frames => data'[pte[c][u]] = data[pte[c][u]]
  BY <1>3
<1>7. \A u \in Pages : u # v /\ pte[d][u] \in Frames => data'[pte[d][u]] = data[pte[d][u]]
  BY <1>3
<1> QED
  BY <1>4, <1>5, <1>6, <1>7 DEF Same

LEMMA FreePageMem ==
  ASSUME Inv1, Inv1', Inv2, Inv3, OneCPU, NEW p \in Procs, FreePage(p)
  PROVE  Inv3' /\ Mem' = Mem
<1>0. PICK d : d = kp["d"][p]
  OBVIOUS
<1>1. /\ pc[p] = "free" /\ state[p] \in Living /\ (\E c \in CPUs : cpu[c] \in {p, NoProc})
      /\ d \in Frames /\ d \in DirsOf(p)
  <2>1. pc[p] = "free" /\ state[p] \in Living /\ \E c \in CPUs : cpu[c] \in {p, NoProc}
    BY RunnerIs, AtIs DEF FreePage
  <2> QED
    BY <1>0, <2>1, DirIs DEF HasDir, DirsOf
<1>2. UNCHANGED <<kp, sz, state, pc, np, newsz, i>>
  BY DEF FreePage, procs, locals
<1>3. PICK v \in Present(d) : FreeEntry(d, v)
  BY <1>0 DEF FreePage
<1>4. v \in Pages /\ pte[d][v] \in Entry /\ pte[d][v] # NotPresent
  BY <1>1 DEF Present, Inv1, PageTypes
<1>5. CASE UNCHANGED <<kmem, data, pte, writable>>
  <2>1. Hidden(p) /\ Contents'
    BY <1>2, <1>5, Untouching DEF Still, Untouched, Inv3
  <2> QED
    BY <1>1, <1>2, <2>1, PlainStep DEF Plain
<1>6. CASE pte[d][v] # Frame0 /\ KFree(pte[d][v]) /\ Unmap(d, v)
  <2>1. PICK f \in Frames : f = pte[d][v]
    BY <1>4, <1>6 DEF Entry
  <2>2. Contents' /\ \A c \in Frames : c # d => Same(c) /\ writable'[c] = writable[c]
    BY <1>1, <1>4, <1>6, <2>1, GonePage
  <2>3. Hidden(p)
    BY <1>0, <1>1, <1>2, <2>2 DEF Hidden, Still, Untouched
  <2> QED
    BY <1>1, <1>2, <2>2, <2>3, PlainStep DEF Plain
<1> QED
  BY <1>3, <1>5, <1>6 DEF FreeEntry

LEMMA FreeTableMem ==
  ASSUME Inv1, Inv1', Inv2, Inv3, NEW p \in Procs, FreeTable(p)
  PROVE  Inv3' /\ Mem' = Mem
<1>1. pc[p] = "free" /\ state[p] \in Living /\ kp["d"][p] \in Frames
  <2>1. pc[p] = "free" /\ state[p] \in Living
    BY RunnerIs DEF FreeTable
  <2> QED
    BY <2>1, DirIs DEF HasDir
<1>2. UNCHANGED <<pte, writable, kp, sz, state, pc, np, newsz, i>>
  BY DEF FreeTable, procs, locals
<1>3. PICK t \in tables[kp["d"][p]] : KFree(t)
  BY DEF FreeTable
<1>4. t \in Frames /\ Tabled(t)
  BY <1>1, <1>3 DEF Tabled, Inv1, PageTypes
<1>5. /\ Contents'
      /\ \A d \in Frames, v \in Pages : pte[d][v] \in Frames => data'[pte[d][v]] = data[pte[d][v]]
  BY <1>3, <1>4, CalmFree
<1>6. Hidden(p)
  BY <1>2, <1>5 DEF Hidden, Same, Still, Untouched
<1> QED
  BY <1>1, <1>2, <1>5, <1>6, PlainStep DEF Plain

LEMMA FreeDirMem ==
  ASSUME Inv1, Inv1', Inv2, Inv3, NEW p \in Procs, FreeDir(p)
  PROVE  Inv3' /\ Mem' = Mem
<1>0. PICK d : d = kp["d"][p]
  OBVIOUS
<1>1. pc[p] = "free" /\ state[p] \in Living /\ d \in Frames
  <2>1. pc[p] = "free" /\ state[p] \in Living
    BY RunnerIs DEF FreeDir
  <2> QED
    BY <1>0, <2>1, DirIs DEF HasDir
<1>2. /\ KFree(d) /\ UNCHANGED <<pte, writable, sz>> /\ pc'[p] = "user"
      /\ \A q \in Procs : q # p =>
           pc'[q] = pc[q] /\ np'[q] = np[q] /\ newsz'[q] = newsz[q] /\ i'[q] = i[q]
  BY <1>0 DEF FreeDir, vm, Return, Goto, Inv1, CtlInv, ProcTypes
<1>3. /\ \A q \in Procs, x \in {"pgdir", "mem"} : kp'[x][q] = kp[x][q]
      /\ \A q \in Procs : q # p => kp'["d"][q] = kp["d"][q]
  BY DEF FreeDir, Inv1, CtlInv, ProcTypes, Fields
<1>4. \A q \in Procs : state'[q] \in Living <=> state[q] \in Living
  <2>1. np[p] # NoProc => state[np[p]] = "ZOMBIE"
    BY <1>1 DEF Inv1, CtlInv, Slot
  <2> QED
    BY <2>1 DEF FreeDir, Inv1, CtlInv, ProcTypes, Living
<1>5. Pointed(d)
  BY <1>0 DEF Pointed, PointedIn, Fields
<1>6. /\ Contents'
      /\ \A c \in Frames, v \in Pages : pte[c][v] \in Frames => data'[pte[c][v]] = data[pte[c][v]]
  BY <1>1, <1>2, <1>5, CalmFree
<1>7. Hidden(p)
  BY <1>2, <1>3, <1>4, <1>6 DEF Hidden, Same, Still, Untouched
<1> QED
  BY <1>1, <1>2, <1>6, <1>7, PlainStep DEF Plain

-----------------------------------------------------------------------------
(* The steps of sbrk().                                                    *)

LEMMA SbrkMem ==
  ASSUME Inv1, Inv1', Inv2, Inv3, 0 \notin SbrkSizes,
         NEW p \in Procs, NEW n \in SbrkSizes, Sbrk(p, n)
  PROVE  Inv3' /\ Mem' = Mem
<1>1. /\ pc[p] = "user" /\ state[p] \in Living /\ n # 0 /\ n \in Int /\ sz[p] \in Int
  BY RunnerIs, SizeAssumption DEF Sbrk, Inv1, CtlInv, ProcTypes
<1>2. /\ pc'[p] = IF n > sz[p] THEN "grow" ELSE "shrink"
      /\ newsz'[p] = n /\ n # sz[p]
      /\ pc'[p] = "grow" => i'[p] = sz[p]
      /\ UNCHANGED <<data, pte, writable, state, sz, np, kp>>
      /\ \A q \in Procs : q # p => pc'[q] = pc[q] /\ newsz'[q] = newsz[q] /\ i'[q] = i[q]
  BY <1>1 DEF Sbrk, vm, procs, Goto, Inv1, CtlInv, ProcTypes
<1>3. Hidden(p) /\ Contents'
  BY <1>2, Untouching DEF Still, Untouched, Inv3
<1>4. Map(p)' = Map(p)
  BY <1>1, <1>2, <1>3, FullKept
<1>5. HeapOn(p)'
  <2>1. \A v \in Pages : ~(sz'[p] <= v /\ v < sz[p])
    BY <1>1, <1>2 DEF Pages
  <2> QED
    BY <1>1, <1>2, <2>1 DEF HeapOn
<1>6. FullOn(p)'
  <2>1. \A v \in Pages : v < sz[p] => Map(p)[v] \in Frames
    BY <1>1 DEF Inv3, MemOn, FullOn
  <2>2. pc'[p] = "shrink" => n < sz[p]
    BY <1>1, <1>2
  <2>3. \A v \in Pages : v < (IF pc'[p] = "shrink" THEN newsz'[p] ELSE sz'[p]) => v < sz[p]
    BY <1>1, <1>2, <2>2 DEF Pages
  <2> QED
    BY <1>4, <2>1, <2>3 DEF FullOn
<1>7. MemOn(p)'
  BY <1>2, <1>5, <1>6 DEF MemOn, CopyOn, ImageOn, GotMem
<1> QED
  BY <1>3, <1>7, HiddenStep

LEMMA GrowPageMem ==
  ASSUME Inv1, Inv1', Inv2, Inv3, NEW p \in Procs, GrowPage(p)
  PROVE  Inv3' /\ Mem' = Mem
<1>0. PICK d, v : d = kp["pgdir"][p] /\ v = i[p]
  OBVIOUS
<1>1. /\ pc[p] = "grow" /\ state[p] \in Living /\ d \in Frames /\ v \in Pages
      /\ sz[p] <= v /\ sz[p] \in Int
  <2>1. pc[p] = "grow" /\ state[p] \in Living
    BY RunnerIs DEF GrowPage
  <2> QED
    BY <1>0, <2>1, DirIs, PageAt DEF GrowPage, More, Inv1, CtlInv, ProcTypes, Loops
<1>2. UNCHANGED <<state, sz, np, newsz, kp>>
  BY DEF GrowPage, procs
<1>3. CASE Goto(p, "undo") /\ UNCHANGED <<data, pte, writable, i>>
  <2>1. pc'[p] = "undo" /\ \A q \in Procs : q # p => pc'[q] = pc[q]
    BY <1>3 DEF Goto, Inv1, CtlInv, ProcTypes
  <2>2. Hidden(p) /\ Contents'
    BY <1>2, <1>3, <2>1, Untouching DEF Still, Untouched, Inv3
  <2> QED
    BY <1>1, <2>1, <2>2, PlainStep DEF Plain
<1>4. CASE \E f \in free : /\ KAlloc(f) /\ MapPage(d, v, f)
                           /\ data' = [data EXCEPT ![f] = Zero]
                           /\ i' = [i EXCEPT ![p] = @ + 1] /\ UNCHANGED pc
  <2>1. PICK f \in free : KAlloc(f) /\ MapPage(d, v, f) /\ data' = [data EXCEPT ![f] = Zero]
    BY <1>4
  <2>2. UNCHANGED pc /\ i'[p] = v + 1 /\ \A q \in Procs : q # p => i'[q] = i[q]
    BY <1>0, <1>4 DEF Inv1, CtlInv, ProcTypes
  <2>3. /\ Contents' /\ Own(d, v, Zero)'
        /\ \A c \in Frames : c # d => Same(c) /\ writable'[c] = writable[c]
        /\ \A u \in Pages : u # v => pte'[d][u] = pte[d][u]
        /\ \A u \in Pages : pte[d][u] \in Frames => data'[pte[d][u]] = data[pte[d][u]]
        /\ \A u \in Pages : u # v /\ Own(d, u, Zero) => Own(d, u, Zero)'
    BY <1>1, <2>1, NameAssumption, FreshPage
  <2>4. \A u \in Pages : u < sz[p] => /\ Map(p)[u] \in Frames /\ Map(p)'[u] = Map(p)[u]
                                      /\ data'[Map(p)[u]] = data[Map(p)[u]]
    <3>1. \A u \in Pages : u < sz[p] => u # v /\ Map(p)[u] \in Frames
      BY <1>1 DEF Inv3, MemOn, FullOn, Pages
    <3> QED
      BY <1>0, <1>2, <2>3, <3>1 DEF Map
  <2>5. \A u \in Pages : sz[p] <= u /\ u < i'[p] => Own(d, u, Zero)'
    <3>1. \A u \in Pages : u < i'[p] => u < v \/ u = v
      BY <1>1, <2>2 DEF Pages
    <3>2. \A u \in Pages : sz[p] <= u /\ u < v => u # v /\ Own(d, u, Zero)
      BY <1>0, <1>1 DEF Inv3, MemOn, HeapOn, Pages
    <3> SUFFICES ASSUME NEW u \in Pages, sz[p] <= u, u < i'[p] PROVE Own(d, u, Zero)'
      OBVIOUS
    <3>3. CASE u = v
      BY <2>3, <3>3 DEF Own
    <3>4. CASE u # v
      BY <2>3, <3>1, <3>2, <3>4 DEF Own
    <3> QED
      BY <3>3, <3>4
  <2>6. HeapOn(p)'
    BY <1>0, <1>1, <1>2, <2>2, <2>5 DEF Inv3, MemOn, HeapOn, Own
  <2>7. FullOn(p)'
    BY <1>1, <1>2, <2>2, <2>4 DEF FullOn
  <2>8. MemOn(p)'
    BY <1>1, <2>2, <2>6, <2>7 DEF MemOn, CopyOn, ImageOn, GotMem
  <2>9. \A q \in Procs : q # p => Still(p, q)
    BY <1>2, <2>2 DEF Still, Untouched
  <2>10. Apart(p)
    BY <1>0, <2>3 DEF Apart, DirsOf
  <2>11. Inv3' /\ \A q \in Procs : q # p => Mem'[q] = Mem[q]
    BY <2>3, <2>8, <2>9, <2>10, OthersKept
  <2>12. Mem'[p] = Mem[p]
    <3>1. View(p)' = View(p)
      BY <1>2, <2>4 DEF View
    <3> QED
      BY <1>1, <1>2, <3>1, MemIs, MemNext
  <2> QED
    BY <2>11, <2>12, MemSame
<1> QED
  BY <1>0, <1>3, <1>4 DEF GrowPage

LEMMA GrowFailedMem ==
  ASSUME Inv1, Inv1', Inv2, Inv3, NEW p \in Procs, GrowFailed(p)
  PROVE  Inv3' /\ Mem' = Mem
<1>1. pc[p] = "undo" /\ state[p] \in Living
  BY RunnerIs DEF GrowFailed
<1>2. /\ pc'[p] = "user" /\ UNCHANGED <<data, pte, writable, state, sz, kp>>
      /\ \A q \in Procs : q # p =>
           pc'[q] = pc[q] /\ np'[q] = np[q] /\ newsz'[q] = newsz[q] /\ i'[q] = i[q]
  BY DEF GrowFailed, vm, procs, Return, Goto, Inv1, CtlInv, ProcTypes
<1>3. Hidden(p) /\ Contents'
  BY <1>2, Untouching DEF Still, Untouched, Inv3
<1> QED
  BY <1>1, <1>2, <1>3, PlainStep DEF Plain

(* sbrk() returns: the new pages are there, with zeros in them.            *)
LEMMA GrowDoneMem ==
  ASSUME Inv1, Inv1', Inv2, Inv3, NEW p \in Procs, GrowDone(p)
  PROVE  Inv3' /\ \E v \in Pages : Private!Grow(p, v + 1)
<1>0. PICK n, s : n = newsz[p] /\ s = sz[p]
  OBVIOUS
<1>1. /\ pc[p] = "grow" /\ state[p] \in Living /\ n \in 1 .. NPages /\ s \in 0 .. NPages /\ s < n
      /\ i[p] \in Int /\ n <= i[p]
  <2>1. pc[p] = "grow" /\ state[p] \in Living
    BY RunnerIs DEF GrowDone
  <2>2. n \in 0 .. NPages /\ s \in 0 .. NPages /\ i[p] \in Int /\ NPages \in Nat
    BY <1>0, SizeAssumption DEF Inv1, CtlInv, ProcTypes
  <2>3. s < n /\ ~(i[p] < n)
    BY <1>0, <2>1 DEF Inv3, MemOn, HeapOn, GrowDone, More
  <2> QED
    BY <2>1, <2>2, <2>3
<1>2. /\ pc'[p] = "user" /\ sz'[p] = n /\ UNCHANGED <<data, pte, writable, state, kp>>
      /\ \A q \in Procs : q # p =>
           pc'[q] = pc[q] /\ np'[q] = np[q] /\ newsz'[q] = newsz[q] /\ i'[q] = i[q] /\ sz'[q] = sz[q]
  BY <1>0 DEF GrowDone, procs, Return, Goto, Inv1, CtlInv, ProcTypes
<1>3. Map(p)' = Map(p)
  BY <1>2 DEF Map
<1>4. \A v \in Pages : v < n => Map(p)[v] \in Frames /\ (s <= v => data[Map(p)[v]] = Zero)
  <2>1. \A v \in Pages : v < s => Map(p)[v] \in Frames
    BY <1>0, <1>1 DEF Inv3, MemOn, FullOn
  <2>2. \A v \in Pages : s <= v /\ v < i[p] => Map(p)[v] \in Frames /\ data[Map(p)[v]] = Zero
    BY <1>0, <1>1 DEF Inv3, MemOn, HeapOn, Own, Map
  <2>3. \A v \in Pages : v < n => v < i[p] /\ (v < s \/ s <= v)
    BY <1>1 DEF Pages
  <2> QED
    BY <1>1, <2>1, <2>2, <2>3 DEF Pages
<1>5. MemOn(p)'
  BY <1>2, <1>3, <1>4 DEF MemOn, CopyOn, ImageOn, HeapOn, FullOn, GotMem
<1>6. Apart(p) /\ Contents'
  BY <1>2 DEF Apart, Same, Inv3, Contents
<1>7. \A q \in Procs : q # p => Still(p, q)
  BY <1>2 DEF Still, Untouched
<1>8. Inv3' /\ \A q \in Procs : q # p => Mem'[q] = Mem[q]
  BY <1>5, <1>6, <1>7, OthersKept
<1>9. Mem[p] = View(p) /\ Mem'[p] = View(p)' /\ Private!Alive(p)
  BY <1>1, <1>2, MemIs, MemNext, AliveIs
<1>10. View(p)' = [v \in Pages |-> IF v < n /\ View(p)[v] = NotPresent THEN Zero ELSE View(p)[v]]
  <2>1. View(p)' = [v \in Pages |-> IF v < n /\ Map(p)[v] \in Frames THEN data[Map(p)[v]] ELSE NotPresent]
    BY <1>2, <1>3 DEF View
  <2>2. \A f \in Frames : data[f] # NotPresent
    BY ContentAssumption DEF Inv3, Contents
  <2>3. ASSUME NEW v \in Pages
        PROVE  (IF v < n /\ Map(p)[v] \in Frames THEN data[Map(p)[v]] ELSE NotPresent)
             = IF v < n /\ View(p)[v] = NotPresent THEN Zero ELSE View(p)[v]
    <3>1. View(p)[v] = IF v < s /\ Map(p)[v] \in Frames THEN data[Map(p)[v]] ELSE NotPresent
      BY <1>0 DEF View
    <3>2. v \in Int /\ s \in Int /\ n \in Int
      BY <1>1 DEF Pages
    <3>3. CASE v < s
      BY <1>1, <1>4, <2>2, <3>1, <3>2, <3>3
    <3>4. CASE ~(v < s)
      BY <1>4, <3>1, <3>2, <3>4
    <3> QED
      BY <3>3, <3>4
  <2> QED
    BY <2>1, <2>3
<1>11. Private!Grow(p, n)
  BY <1>8, <1>9, <1>10, MemFun DEF Private!Grow
<1>12. n - 1 \in Pages /\ (n - 1) + 1 = n
  BY <1>1, SizeAssumption DEF Pages
<1> QED
  BY <1>8, <1>11, <1>12

(* Steps of the scheduler, and panics, change no memory.                   *)
LEMMA IdleStep ==
  ASSUME Inv1, Inv1', Inv3, UNCHANGED <<data, pte, writable, kp, sz, pc, i, np, newsz>>,
         \A q \in Procs : state'[q] \in Living <=> state[q] \in Living
  PROVE  Inv3' /\ Mem' = Mem
<1>1. ASSUME NEW q \in Procs PROVE MemOn(q)' /\ Mem'[q] = Mem[q]
  <2>1. Map(q)' = Map(q) /\ View(q)' = View(q)
    BY DEF Map, View
  <2>2. CopyOn(q)' /\ ImageOn(q)' /\ HeapOn(q)'
    BY <2>1 DEF Inv3, MemOn, CopyOn, ImageOn, HeapOn, Own
  <2>3. FullOn(q)' /\ GotMem(q)'
    BY <2>1 DEF Inv3, MemOn, FullOn, GotMem
  <2> QED
    BY <2>1, <2>2, <2>3, MemIs, MemNext DEF MemOn
<1> QED
  BY <1>1, MemSame DEF Inv3, Contents

LEMMA DeallocPageMem ==
  ASSUME Inv1, Inv1', Inv2, Inv3, OneCPU, NEW p \in Procs, DeallocPage(p)
  PROVE  Inv3' /\ (Mem' = Mem \/ \E v \in Pages : Private!Drop(p, v))
<1>0. PICK d : d = kp["pgdir"][p]
  OBVIOUS
<1>1. /\ pc[p] \in {"shrink", "undo"} /\ state[p] \in Living
      /\ (\E c \in CPUs : cpu[c] \in {p, NoProc})
      /\ d \in Frames /\ d \in DirsOf(p)
  <2>1. pc[p] \in {"shrink", "undo"} /\ state[p] \in Living /\ \E c \in CPUs : cpu[c] \in {p, NoProc}
    BY RunnerIs, AtIs DEF DeallocPage
  <2> QED
    BY <1>0, <2>1, DirIs DEF DirsOf
<1>2. UNCHANGED <<kp, sz, state, pc, np, newsz, i>>
  BY DEF DeallocPage, procs, locals
<1>3. PICK v \in Present(d) : /\ v >= IF pc[p] = "shrink" THEN newsz[p] ELSE sz[p]
                              /\ FreeEntry(d, v)
  BY <1>0 DEF DeallocPage
<1>4. v \in Pages /\ pte[d][v] \in Entry /\ pte[d][v] # NotPresent
  BY <1>1 DEF Present, Inv1, PageTypes
<1>5. CASE UNCHANGED <<kmem, data, pte, writable>>
  BY <1>2, <1>5, IdleStep
<1>6. CASE pte[d][v] # Frame0 /\ KFree(pte[d][v]) /\ Unmap(d, v)
  <2>1. PICK f \in Frames : f = pte[d][v]
    BY <1>4, <1>6 DEF Entry
  <2>2. /\ Contents'
        /\ \A c \in Frames : c # d => Same(c) /\ writable'[c] = writable[c]
        /\ pte'[d][v] = NotPresent
        /\ \A u \in Pages : u # v => /\ pte'[d][u] = pte[d][u]
                                     /\ pte[d][u] \in Frames => data'[pte[d][u]] = data[pte[d][u]]
    BY <1>1, <1>4, <1>6, <2>1, GonePage
  <2>3. \A q \in Procs : q # p => Still(p, q)
    BY <1>2 DEF Still, Untouched
  <2>4. Apart(p)
    BY <1>1, <2>2 DEF Apart
  <2>5. /\ Map(p)'[v] = NotPresent
        /\ \A u \in Pages : u # v => /\ Map(p)'[u] = Map(p)[u]
                                     /\ Map(p)[u] \in Frames => data'[Map(p)[u]] = data[Map(p)[u]]
    BY <1>0, <1>2, <2>2 DEF Map
  <2>6. FullOn(p)'
    <3>1. \A u \in Pages : u < (IF pc[p] = "shrink" THEN newsz[p] ELSE sz[p]) => u # v
      BY <1>3, <1>4 DEF Pages, Inv1, CtlInv, ProcTypes
    <3> QED
      BY <1>1, <1>2, <2>5, <3>1 DEF FullOn, Inv3, MemOn
  <2>7. MemOn(p)'
    BY <1>1, <1>2, <2>6 DEF Inv3, MemOn, CopyOn, ImageOn, HeapOn, GotMem
  <2>8. Inv3' /\ \A q \in Procs : q # p => Mem'[q] = Mem[q]
    BY <2>2, <2>3, <2>4, <2>7, OthersKept
  <2>9. Mem[p] = View(p) /\ Mem'[p] = View(p)' /\ Private!Alive(p)
    BY <1>1, <1>2, MemIs, MemNext, AliveIs
  <2>10. CASE pc[p] = "shrink"
    <3>1. View(p)' = [View(p) EXCEPT ![v] = NotPresent]
      BY <1>2, <1>4, <2>5, NameAssumption DEF View
    <3>2. Private!Drop(p, v)
      BY <2>8, <2>9, <3>1, MemFun DEF Private!Drop
    <3> QED
      BY <1>4, <2>8, <3>2
  <2>11. CASE pc[p] # "shrink"
    <3>1. \A u \in Pages : u < sz[p] => u # v
      BY <1>3, <1>4, <2>11 DEF Pages, Inv1, CtlInv, ProcTypes
    <3>2. View(p)' = View(p)
      BY <1>2, <2>5, <3>1 DEF View
    <3> QED
      BY <2>8, <2>9, <3>2, MemSame
  <2> QED
    BY <2>10, <2>11
<1> QED
  BY <1>3, <1>5, <1>6 DEF FreeEntry

LEMMA ShrinkDoneMem ==
  ASSUME Inv1, Inv1', Inv2, Inv3, NEW p \in Procs, ShrinkDone(p)
  PROVE  Inv3' /\ Mem' = Mem
<1>0. PICK n : n = newsz[p]
  OBVIOUS
<1>1. pc[p] = "shrink" /\ state[p] \in Living /\ n # 0 /\ n < sz[p] /\ n \in Int /\ sz[p] \in Int
  <2>1. pc[p] = "shrink" /\ state[p] \in Living
    BY RunnerIs DEF ShrinkDone
  <2> QED
    BY <1>0, <2>1 DEF Inv3, MemOn, HeapOn, Inv1, CtlInv, ProcTypes
<1>2. /\ pc'[p] = "user" /\ sz'[p] = n /\ UNCHANGED <<data, pte, writable, state, kp>>
      /\ \A q \in Procs : q # p =>
           pc'[q] = pc[q] /\ np'[q] = np[q] /\ newsz'[q] = newsz[q] /\ i'[q] = i[q] /\ sz'[q] = sz[q]
  BY <1>0, <1>1 DEF ShrinkDone, procs, Return, Goto, Inv1, CtlInv, ProcTypes
<1>3. Map(p)' = Map(p) /\ \A v \in Pages : v < n => Map(p)[v] \in Frames
  BY <1>0, <1>1, <1>2 DEF Map, Inv3, MemOn, FullOn
<1>4. \A v \in Pages : Map(p)[v] \in Frames => v < n /\ v < sz[p]
  <2>1. \A v \in Pages : Map(p)[v] # NotPresent => v < n
    BY <1>0 DEF ShrinkDone, Present, Map
  <2> QED
    BY <1>1, <2>1, NameAssumption DEF Pages
<1>5. MemOn(p)'
  BY <1>2, <1>3 DEF MemOn, CopyOn, ImageOn, HeapOn, FullOn, GotMem
<1>6. Apart(p) /\ Contents'
  BY <1>2 DEF Apart, Same, Inv3, Contents
<1>7. \A q \in Procs : q # p => Still(p, q)
  BY <1>2 DEF Still, Untouched
<1>8. Inv3' /\ \A q \in Procs : q # p => Mem'[q] = Mem[q]
  BY <1>5, <1>6, <1>7, OthersKept
<1>9. View(p)' = View(p)
  BY <1>2, <1>3, <1>4 DEF View
<1> QED
  BY <1>1, <1>2, <1>8, <1>9, MemIs, MemNext, MemSame

-----------------------------------------------------------------------------
(* Stores and page faults.                                                 *)

LEMMA UserWriteMem ==
  ASSUME Inv1, Inv1', Inv2, Inv3, NEW p \in Procs, NEW v \in Pages, NEW x \in Values,
         UserWrite(p, v, x)
  PROVE  Inv3' /\ Private!Store(p, v, x)
<1>0. PICK d, f : d = kp["pgdir"][p] /\ f = Map(p)[v]
  OBVIOUS
<1>1. /\ pc[p] = "user" /\ state[p] \in Living /\ d \in Frames /\ f \in Frames
      /\ v \in writable[d] /\ pte[d][v] = f
  <2>1. pc[p] = "user" /\ state[p] \in Living
    BY RunnerIs DEF UserWrite
  <2> QED
    BY <1>0, <2>1, DirIs DEF UserWrite, Map
<1>2. Users(f) = {<<d, v>>}
  BY <1>1 DEF Inv2, Entries, WritableExclusive
<1>3. \A c \in Frames, u \in Pages : pte[c][u] = f => c = d /\ u = v
  <2>1. ASSUME NEW c \in Frames, NEW u \in Pages, pte[c][u] = f PROVE c = d /\ u = v
    <3>1. <<c, u>> \in Users(f)
      BY <2>1, UsersIs DEF Inv1
    <3> QED
      BY <1>2, <3>1
  <2> QED
    BY <2>1
<1>4. /\ data'[f] = x /\ \A g \in Frames : g # f => data'[g] = data[g]
      /\ UNCHANGED <<pte, writable, kp, sz, state, pc, np, newsz, i>>
  BY <1>0, <1>1 DEF UserWrite, vm, procs, locals, Inv1, MemTypes
<1>5. Contents'
  BY <1>4 DEF Inv3, Contents
<1>6. Apart(p)
  <2>1. \A c \in Frames : c # d => Same(c)
    BY <1>3, <1>4 DEF Same
  <2> QED
    BY <1>0, <1>4, <2>1 DEF Apart, DirsOf
<1>7. Map(p)' = Map(p)
  BY <1>4 DEF Map
<1>8. MemOn(p)'
  BY <1>1, <1>4, <1>7 DEF Inv3, MemOn, CopyOn, ImageOn, HeapOn, FullOn, GotMem
<1>9. \A q \in Procs : q # p => Still(p, q)
  BY <1>4 DEF Still, Untouched
<1>10. Inv3' /\ \A q \in Procs : q # p => Mem'[q] = Mem[q]
  BY <1>5, <1>6, <1>8, <1>9, OthersKept
<1>11. Mem[p] = View(p) /\ Mem'[p] = View(p)' /\ Private!Alive(p)
  BY <1>1, <1>4, MemIs, MemNext, AliveIs
<1>12. v < sz[p]
  <2>1. ~(v >= sz[p])
    BY <1>0, <1>1, NameAssumption DEF Inv2, Filled, FillOn
  <2> QED
    BY <2>1 DEF Pages, Inv1, CtlInv, ProcTypes
<1>13. View(p)' = [View(p) EXCEPT ![v] = x]
  <2>1. \A u \in Pages : u # v => Map(p)[u] # f
    BY <1>0, <1>1, <1>3 DEF Map
  <2>2. \A u \in Pages : u # v /\ Map(p)[u] \in Frames => data'[Map(p)[u]] = data[Map(p)[u]]
    BY <1>4, <2>1
  <2>3. data'[Map(p)[v]] = x /\ Map(p)[v] \in Frames
    BY <1>0, <1>1, <1>4
  <2> QED
    BY <1>4, <1>7, <1>12, <2>2, <2>3 DEF View
<1>14. View(p)[v] # NotPresent
  BY <1>0, <1>1, <1>12, ContentAssumption DEF View, Inv3, Contents
<1> QED
  BY <1>10, <1>11, <1>13, <1>14, MemFun DEF Private!Store

LEMMA WriteFaultMem ==
  ASSUME Inv1, Inv1', Inv2, Inv3, NEW p \in Procs, NEW v \in Pages, WriteFault(p, v)
  PROVE  Inv3' /\ Mem' = Mem
<1>1. pc[p] = "user" /\ state[p] \in Living
  BY RunnerIs DEF WriteFault
<1>2. /\ pc'[p] = "ref" /\ UNCHANGED <<data, pte, writable, state, sz, np, newsz, kp>>
      /\ \A q \in Procs : q # p => pc'[q] = pc[q] /\ i'[q] = i[q]
  BY DEF WriteFault, vm, procs, Goto, Inv1, CtlInv, ProcTypes
<1>3. Hidden(p) /\ Contents'
  BY <1>2, Untouching DEF Still, Untouched, Inv3
<1> QED
  BY <1>1, <1>2, <1>3, PlainStep DEF Plain

LEMMA BadAccessMem ==
  ASSUME Inv1, Inv1', Inv2, Inv3, NEW p \in Procs, NEW v \in Pages, BadAccess(p, v)
  PROVE  Inv3' /\ Mem' = Mem
<1>1. pc[p] = "user" /\ state[p] \in Living
  BY RunnerIs DEF BadAccess
<1>2. /\ pc'[p] = "exit" /\ UNCHANGED <<data, pte, writable, state, sz, np, newsz, i, kp>>
      /\ \A q \in Procs : q # p => pc'[q] = pc[q]
  BY DEF BadAccess, vm, procs, locals, Goto, Inv1, CtlInv, ProcTypes
<1>3. Hidden(p) /\ Contents'
  BY <1>2, Untouching DEF Still, Untouched, Inv3
<1> QED
  BY <1>1, <1>2, <1>3, PlainStep DEF Plain

LEMMA ReadRefMem ==
  ASSUME Inv1, Inv1', Inv2, Inv3, NEW p \in Procs, ReadRef(p)
  PROVE  Inv3' /\ Mem' = Mem
<1>1. pc[p] = "ref" /\ state[p] \in Living /\ kp["pgdir"][p] \in Frames
  <2>1. pc[p] = "ref" /\ state[p] \in Living
    BY RunnerIs DEF ReadRef
  <2> QED
    BY <2>1, DirIs
<1>2. /\ pc'[p] \in {"user", "dup"} /\ UNCHANGED <<data, pte, state, sz, kp>>
      /\ \A q \in Procs : q # p =>
           pc'[q] = pc[q] /\ np'[q] = np[q] /\ newsz'[q] = newsz[q] /\ i'[q] = i[q]
  BY DEF ReadRef, procs, locals, Return, Goto, Inv1, CtlInv, ProcTypes
<1>3. \A d \in Frames \ DirsOf(p) : writable'[d] = writable[d]
  BY <1>1 DEF ReadRef, DirsOf, Inv1, PageTypes
<1>4. Hidden(p) /\ Contents'
  BY <1>2, <1>3 DEF Hidden, Same, Still, Untouched, Inv3, Contents
<1> QED
  BY <1>1, <1>2, <1>4, PlainStep DEF Plain

LEMMA AllocCopyMem ==
  ASSUME Inv1, Inv1', Inv2, Inv3, CopyFound, NEW p \in Procs, AllocCopy(p)
  PROVE  Inv3' /\ Mem' = Mem
<1>1. pc[p] = "dup" /\ state[p] \in Living /\ free # {}
  BY RunnerIs DEF AllocCopy, CopyFound
<1>2. PICK f \in free : kp' = [kp EXCEPT !["mem"][p] = f]
  BY <1>1 DEF AllocCopy
<1>3. /\ pc'[p] = "dec" /\ UNCHANGED <<data, pte, writable, state, sz, np, newsz, i>>
      /\ \A q \in Procs : q # p => pc'[q] = pc[q]
  BY DEF AllocCopy, vm, procs, locals, Goto, Inv1, CtlInv, ProcTypes
<1>4. /\ kp'["mem"][p] = f /\ f # NoFrame
      /\ \A q \in Procs : /\ kp'["d"][q] = kp["d"][q] /\ kp'["pgdir"][q] = kp["pgdir"][q]
                          /\ q # p => kp'["mem"][q] = kp["mem"][q]
  BY <1>2, NameAssumption DEF Inv1, MemTypes, CtlInv, ProcTypes, Fields
<1>5. Hidden(p) /\ Contents'
  BY <1>3, <1>4, Untouching DEF Still, Untouched, Inv3
<1>6. FullOn(p)'
  BY <1>1, <1>3, <1>5, FullKept
<1>7. MemOn(p)'
  BY <1>3, <1>4, <1>6 DEF MemOn, CopyOn, ImageOn, HeapOn, GotMem
<1> QED
  BY <1>5, <1>7, HiddenStep

LEMMA DecRefMem ==
  ASSUME Inv1, Inv1', Inv2, Inv3, NEW p \in Procs, DecRef(p)
  PROVE  Inv3' /\ Mem' = Mem
<1>1. pc[p] = "dec" /\ state[p] \in Living
  BY RunnerIs DEF DecRef
<1>2. /\ pc'[p] = "copy" /\ UNCHANGED <<data, pte, writable, state, sz, np, newsz, i, kp>>
      /\ \A q \in Procs : q # p => pc'[q] = pc[q]
  BY DEF DecRef, vm, procs, locals, Goto, Inv1, CtlInv, ProcTypes
<1>3. Hidden(p) /\ Contents'
  BY <1>2, Untouching DEF Still, Untouched, Inv3
<1>4. FullOn(p)'
  BY <1>1, <1>2, <1>3, FullKept
<1>5. MemOn(p)'
  BY <1>1, <1>2, <1>4 DEF Inv3, MemOn, CopyOn, ImageOn, HeapOn, GotMem
<1> QED
  BY <1>3, <1>5, HiddenStep

(* The copy takes the place of the shared frame.                           *)
LEMMA CopyPageMem ==
  ASSUME Inv1, Inv1', Inv2, Inv3, NEW p \in Procs, CopyPage(p)
  PROVE  Inv3' /\ Mem' = Mem
<1>0. PICK d, v, m : d = kp["pgdir"][p] /\ v = i[p] /\ m = kp["mem"][p]
  OBVIOUS
<1>1. pc[p] = "copy" /\ state[p] \in Living /\ d \in Frames /\ v \in Pages /\ m \in Frames
  <2>1. pc[p] = "copy" /\ state[p] \in Living
    BY RunnerIs DEF CopyPage
  <2> QED
    BY <1>0, <2>1, DirIs, PageAt, PointerFrames DEF Inv3, MemOn, GotMem, Fields, Ptr
<1>2. PICK f \in Frames : f = pte[d][v]
  BY <1>0, <1>1 DEF Inv2, Filled, FillOn, Map
<1>3. /\ data' = [data EXCEPT ![m] = data[f]] /\ MapPage(d, v, m)
      /\ kp' = [kp EXCEPT !["mem"][p] = NoFrame] /\ Return(p) /\ UNCHANGED <<state, sz>>
  BY <1>0, <1>1, <1>2, NameAssumption DEF CopyPage, Map, procs
<1>4. \A c \in Frames, u \in Pages : pte[c][u] # m
  <2>1. Users(m) = {}
    BY <1>0, <1>1 DEF Inv2, Owners, Kinds, Pointed, PointedIn, Fields
  <2> QED
    BY <2>1, UsersIs DEF Inv1
<1>5. data'[m] = data[f] /\ \A g \in Frames : g # m => data'[g] = data[g]
  BY <1>1, <1>3 DEF Inv1, MemTypes
<1>6. /\ pte'[d][v] = m /\ \A u \in Pages : u # v => pte'[d][u] = pte[d][u]
      /\ \A c \in Frames : c # d => pte'[c] = pte[c] /\ writable'[c] = writable[c]
  BY <1>1, <1>3 DEF MapPage, Inv1, PageTypes
<1>7. /\ pc'[p] = "user"
      /\ \A q \in Procs : q # p =>
           pc'[q] = pc[q] /\ np'[q] = np[q] /\ newsz'[q] = newsz[q] /\ i'[q] = i[q]
  BY <1>3 DEF Return, Goto, Inv1, CtlInv, ProcTypes
<1>8. \A q \in Procs : /\ kp'["d"][q] = kp["d"][q] /\ kp'["pgdir"][q] = kp["pgdir"][q]
                       /\ q # p => kp'["mem"][q] = kp["mem"][q]
  BY <1>3 DEF Inv1, CtlInv, ProcTypes, Fields
<1>9. Apart(p) /\ Contents'
  BY <1>0, <1>1, <1>2, <1>4, <1>5, <1>6 DEF Apart, Same, DirsOf, Inv3, Contents
<1>10. \A u \in Pages : /\ Map(p)'[u] \in Frames <=> Map(p)[u] \in Frames
                        /\ Map(p)[u] \in Frames => data'[Map(p)'[u]] = data[Map(p)[u]]
  <2>1. ASSUME NEW u \in Pages
        PROVE  /\ pte'[d][u] \in Frames <=> pte[d][u] \in Frames
               /\ pte[d][u] \in Frames => data'[pte'[d][u]] = data[pte[d][u]]
    <3>1. CASE u = v
      BY <1>1, <1>2, <1>5, <1>6, <3>1
    <3>2. CASE u # v
      BY <1>1, <1>4, <1>5, <1>6, <3>2
    <3> QED
      BY <3>1, <3>2
  <2> QED
    BY <1>0, <1>8, <2>1 DEF Map
<1>11. MemOn(p)'
  <2>1. FullOn(p)'
    BY <1>1, <1>3, <1>7, <1>10 DEF FullOn, Inv3, MemOn
  <2> QED
    BY <1>7, <2>1 DEF MemOn, CopyOn, ImageOn, HeapOn, GotMem
<1>12. \A q \in Procs : q # p => Still(p, q)
  BY <1>3, <1>7, <1>8 DEF Still, Untouched
<1>13. Inv3' /\ \A q \in Procs : q # p => Mem'[q] = Mem[q]
  BY <1>9, <1>11, <1>12, OthersKept
<1>14. View(p)' = View(p)
  BY <1>3, <1>10 DEF View
<1> QED
  BY <1>1, <1>3, <1>13, <1>14, MemIs, MemNext, MemSame

-----------------------------------------------------------------------------
(* exit(), wait() and the scheduler.                                       *)

LEMMA ExitMem ==
  ASSUME Inv1, Inv1', Inv2, Inv3, NEW p \in Procs, Exit(p)
  PROVE  Inv3' /\ (Mem' = Mem \/ Private!Exit(p))
<1>1. state[p] \in Living
  BY RunnerIs DEF Exit
<1>2. UNCHANGED <<data, pte, writable, kp, sz, np, newsz>>
  BY DEF Exit, vm
<1>3. CASE p = InitProc
  <2>1. UNCHANGED <<pc, i, state>>
    BY <1>3 DEF Exit
  <2> QED
    BY <1>2, <2>1, IdleStep
<1>4. CASE p # InitProc
  <2>1. state' = [q \in Procs |->
             CASE q = p -> "ZOMBIE"
               [] q # p /\ state[q] = "SLEEPING"
                    /\ \/ q = parent[p]
                       \/ /\ q = InitProc
                          /\ \E z \in Procs : parent[z] = p /\ state[z] = "ZOMBIE"
                    -> "RUNNABLE"
               [] OTHER -> state[q]]
    BY <1>4 DEF Exit
  <2>2. /\ state'[p] = "ZOMBIE"
        /\ \A q \in Procs : q # p => (state'[q] = state[q] \/ (state[q] = "SLEEPING" /\ state'[q] = "RUNNABLE"))
    BY <2>1
  <2>3. pc'[p] = "user" /\ \A q \in Procs : q # p => pc'[q] = pc[q] /\ i'[q] = i[q]
    BY <1>4 DEF Exit, Goto, Inv1, CtlInv, ProcTypes
  <2>4. \A q \in Procs : q # p => Still(p, q)
    BY <1>2, <2>2, <2>3 DEF Still, Untouched, Living
  <2>5. Apart(p) /\ Contents'
    BY <1>2 DEF Apart, Same, Inv3, Contents
  <2>6. MemOn(p)'
    BY <2>2, <2>3 DEF MemOn, CopyOn, ImageOn, HeapOn, FullOn, GotMem, Living
  <2>7. Inv3' /\ \A q \in Procs : q # p => Mem'[q] = Mem[q]
    BY <2>4, <2>5, <2>6, OthersKept
  <2>8. Mem'[p] = NoProc /\ Private!Alive(p)
    BY <1>1, <2>2, MemNext, AliveIs DEF Living
  <2>9. Mem' = [Mem EXCEPT ![p] = NoProc]
    BY <2>7, <2>8, MemFun
  <2> QED
    BY <2>7, <2>8, <2>9 DEF Private!Exit
<1> QED
  BY <1>3, <1>4

LEMMA WaitMem ==
  ASSUME Inv1, Inv1', Inv2, Inv3, NEW p \in Procs, Wait(p)
  PROVE  Inv3' /\ Mem' = Mem
<1>1. pc[p] \in {"user", "wait"} /\ state[p] \in Living
  BY RunnerIs DEF Wait
<1>2. UNCHANGED <<pte, writable, sz, newsz, i>>
  BY DEF Wait, vm
<1>3. CASE UNCHANGED <<kmem, data, kp, np>> /\ (\E l \in {"user", "wait"} : Goto(p, l))
           /\ (state' = [state EXCEPT ![p] = "SLEEPING"] \/ state' = state)
  <2>1. pc'[p] \in {"user", "wait"} /\ \A q \in Procs : q # p => pc'[q] = pc[q] /\ state'[q] = state[q]
    BY <1>3 DEF Goto, Inv1, CtlInv, ProcTypes
  <2>2. state'[p] \in Living
    BY <1>1, <1>3 DEF Living, Inv1, CtlInv, ProcTypes
  <2>3. Hidden(p) /\ Contents'
    BY <1>1, <1>2, <1>3, <2>1, <2>2, Untouching DEF Still, Untouched, Inv3
  <2> QED
    BY <1>1, <2>1, <2>3, PlainStep DEF Plain
<1>4. ASSUME NEW z \in Procs, state[z] = "ZOMBIE", ptlock = NoProc, KFree(kp["kstack"][z]),
             kp' = [kp EXCEPT !["kstack"][z] = NoFrame, !["d"][p] = kp["pgdir"][z], !["pgdir"][z] = NoFrame],
             np' = [np EXCEPT ![p] = z], Goto(p, "free"), UNCHANGED state
      PROVE  Inv3' /\ Mem' = Mem
  <2>1. kp["kstack"][z] \in Frames /\ z # p
    BY <1>1, <1>4, PointerFrames DEF Inv1, CtlInv, Control, Living
  <2>2. PICK s \in Frames : s = kp["kstack"][z]
    BY <2>1
  <2>3. Pointed(s)
    BY <2>2 DEF Pointed, PointedIn, Fields
  <2>4. /\ Contents'
        /\ \A d \in Frames, v \in Pages : pte[d][v] \in Frames => data'[pte[d][v]] = data[pte[d][v]]
    BY <1>4, <2>2, <2>3, CalmFree
  <2>5. /\ \A q \in Procs : q # z => kp'["pgdir"][q] = kp["pgdir"][q]
        /\ \A q \in Procs : q # p => kp'["d"][q] = kp["d"][q]
        /\ \A q \in Procs : kp'["mem"][q] = kp["mem"][q]
    BY <1>4, <2>1 DEF Inv1, CtlInv, ProcTypes, Fields
  <2>6. pc'[p] = "free" /\ \A q \in Procs : q # p => pc'[q] = pc[q] /\ np'[q] = np[q]
    BY <1>4 DEF Goto, Inv1, CtlInv, ProcTypes
  <2>7. \A q \in Procs : q # p => Still(p, q)
    BY <1>2, <1>4, <2>5, <2>6 DEF Still, Untouched, Living
  <2>8. Hidden(p)
    BY <1>2, <1>4, <2>1, <2>4, <2>5, <2>7 DEF Hidden, Same
  <2> QED
    BY <1>1, <2>4, <2>6, <2>8, PlainStep DEF Plain
<1> QED
  BY <1>3, <1>4 DEF Wait

LEMMA SchedMem ==
  ASSUME Inv1, Inv1', Inv3, NEW p \in Procs, NEW c \in CPUs, SchedStep(c, p)
  PROVE  Inv3' /\ Mem' = Mem
<1>1. CASE Dispatch(c, p)
  <2>1. \A q \in Procs : state'[q] \in Living <=> state[q] \in Living
    BY <1>1 DEF Dispatch, Living, Inv1, CtlInv, ProcTypes
  <2>2. UNCHANGED <<data, pte, writable, kp, sz, pc, i, np, newsz>>
    BY <1>1 DEF Dispatch, locals
  <2> QED
    BY <2>1, <2>2, IdleStep
<1>2. CASE Preempt(c, p)
  <2>1. \A q \in Procs : state'[q] \in Living <=> state[q] \in Living
    BY <1>2, NameAssumption DEF Preempt, Living, Inv1, CtlInv, ProcTypes, Control
  <2>2. UNCHANGED <<data, pte, writable, kp, sz, pc, i, np, newsz>>
    BY <1>2 DEF Preempt, vm, locals
  <2> QED
    BY <2>1, <2>2, IdleStep
<1> QED
  BY <1>1, <1>2 DEF SchedStep

-----------------------------------------------------------------------------
(* Copy-on-write fork implements private memories.                         *)

LEMMA Inv3Init == Init => Inv3 /\ Private!Init
<1> SUFFICES ASSUME Init PROVE Inv3 /\ Private!Init
  OBVIOUS
<1>1. Inv1
  BY Inv1Init
<1>2. 0 \in Pages /\ \A v \in Pages : v < 1 <=> v = 0
  BY SizeAssumption DEF Pages
<1>3. Contents
  BY NameAssumption DEF Init, Contents
<1>4. /\ state = [p \in Procs |-> IF p = InitProc THEN "RUNNABLE" ELSE "UNUSED"]
      /\ sz = [p \in Procs |-> IF p = InitProc THEN 1 ELSE 0]
      /\ pc = [p \in Procs |-> "user"]
  BY DEF Init
<1>5. Map(InitProc) = [v \in Pages |-> IF v = 0 THEN Boot.page ELSE NotPresent]
  <2>1. kp["pgdir"][InitProc] = Boot.pgdir
    BY NameAssumption DEF Init, Fields
  <2>2. Boot.pgdir \in Frames
    BY BootAssumption
  <2> QED
    BY <2>1, <2>2 DEF Init, Map
<1>6. Boot.page \in Frames /\ data[Boot.page] = Image
  BY BootAssumption DEF Init
<1>7. \A p \in Procs : MemOn(p)
  <2>1. \A p \in Procs : FullOn(p)
    BY <1>2, <1>4, <1>5, <1>6, NameAssumption DEF FullOn, Living
  <2> QED
    BY <1>4, <2>1 DEF MemOn, CopyOn, ImageOn, HeapOn, GotMem
<1>8. Private!Init
  <2>1. View(InitProc) = Private!Fresh(1)
    BY <1>2, <1>4, <1>5, <1>6, NameAssumption DEF View, Private!Fresh
  <2>2. \A p \in Procs : Mem[p] = IF p = InitProc THEN Private!Fresh(1) ELSE NoProc
    BY <1>1, <1>4, <2>1, MemIs DEF Living
  <2>3. Mem = [p \in Procs |-> IF p = InitProc THEN Private!Fresh(1) ELSE NoProc]
    BY <2>2, MemFun
  <2> QED
    BY <2>3 DEF Private!Init
<1> QED
  BY <1>3, <1>7, <1>8 DEF Inv3

LEMMA Inv3Next ==
  ASSUME OneCPU, ~KernelWrites, 0 \notin SbrkSizes, Inv1, Inv2, Inv3, CopyFound, [Next]_vars
  PROVE  Inv3' /\ [Private!Next]_Mem
<1>1. Inv1'
  BY Inv1Next
<1>2. CASE UNCHANGED vars
  BY <1>1, <1>2, IdleStep DEF vars
<1>3. ASSUME NEW p \in Procs, ForkStep(p) PROVE Inv3' /\ [Private!Next]_Mem
  <2>1. CASE ForkDone(p)
    <3>1. np[p] \in Procs
      <4>1. pc[p] = "cow"
        BY <2>1, RunnerIs DEF ForkDone
      <4> QED
        BY <4>1 DEF Inv1, CtlInv, ProcTypes, Control
    <3> QED
      BY <1>1, <2>1, <3>1, ForkDoneMem DEF Private!Next
  <2> QED
    BY <1>1, <1>3, <2>1, ForkMem, AllocKstackMem, KvmDirMem, KvmTableMem, CowPageMem, CowIncMem
       DEF ForkStep
<1>4. ASSUME NEW p \in Procs, ExecStep(p) PROVE Inv3' /\ [Private!Next]_Mem
  <2>1. CASE ExecCommit(p)
    BY <1>1, <2>1, ExecCommitMem DEF Private!Next
  <2> QED
    BY <1>1, <1>4, <2>1, ExecMem, LoadPageMem DEF ExecStep
<1>5. ASSUME NEW p \in Procs, FreeStep(p) PROVE Inv3' /\ [Private!Next]_Mem
  BY <1>1, <1>5, FreePageMem, FreeTableMem, FreeDirMem DEF FreeStep
<1>6. ASSUME NEW p \in Procs, SbrkStep(p) PROVE Inv3' /\ [Private!Next]_Mem
  <2>1. CASE GrowDone(p)
    BY <1>1, <2>1, GrowDoneMem DEF Private!Next
  <2>2. CASE DeallocPage(p)
    BY <1>1, <2>2, DeallocPageMem DEF Private!Next
  <2> QED
    BY <1>1, <1>6, <2>1, <2>2, SbrkMem, GrowPageMem, ShrinkDoneMem, GrowFailedMem DEF SbrkStep
<1>7. ASSUME NEW p \in Procs, UserStep(p) PROVE Inv3' /\ [Private!Next]_Mem
  <2>1. PICK v \in Pages : \/ \E x \in Values : UserWrite(p, v, x) \/ KernelWrite(p, v, x)
                           \/ WriteFault(p, v) \/ BadAccess(p, v)
    BY <1>7 DEF UserStep
  <2>2. CASE \E x \in Values : UserWrite(p, v, x)
    BY <1>1, <2>2, UserWriteMem DEF Private!Next
  <2> QED
    BY <1>1, <2>1, <2>2, WriteFaultMem, BadAccessMem DEF KernelWrite
<1>8. ASSUME NEW p \in Procs, FaultStep(p) PROVE Inv3' /\ [Private!Next]_Mem
  BY <1>1, <1>8, ReadRefMem, AllocCopyMem, DecRefMem, CopyPageMem DEF FaultStep
<1>9. ASSUME NEW p \in Procs, ExitStep(p) PROVE Inv3' /\ [Private!Next]_Mem
  <2>1. CASE Exit(p)
    BY <1>1, <2>1, ExitMem DEF Private!Next
  <2>2. CASE Wait(p)
    BY <1>1, <2>2, WaitMem
  <2> QED
    BY <1>9, <2>1, <2>2 DEF ExitStep
<1>10. ASSUME NEW p \in Procs, NEW c \in CPUs, SchedStep(c, p) PROVE Inv3' /\ [Private!Next]_Mem
  BY <1>1, <1>10, SchedMem
<1> QED
  BY <1>2, <1>3, <1>4, <1>5, <1>6, <1>7, <1>8, <1>9, <1>10 DEF Next

(* On one CPU the pages that fork() shares behave as the private copies    *)
(* that copyuvm() made (ForkMemory): no process sees a store of another,   *)
(* a child starts with its parent's contents, and sbrk, exec and exit      *)
(* touch the caller's memory alone.  The hypotheses name what the code     *)
(* does not guarantee: no system call stores into a user buffer (run       *)
(* kernelwrite shows what happens otherwise), no program asks sbrk() for   *)
(* its whole memory back, and the page fault handler is never without a    *)
(* frame for its copy (it would go on with a null pointer).                *)
THEOREM CowIsPrivate ==
  ASSUME OneCPU, ~KernelWrites, 0 \notin SbrkSizes
  PROVE  Spec /\ []CopyFound => PrivateMemory
<1>1. Init => Inv3 /\ Private!Init
  BY Inv3Init
<1>2. Inv1 /\ Inv2 /\ Inv3 /\ CopyFound /\ [Next]_vars => Inv3' /\ [Private!Next]_Mem
  BY OneCPU, ~KernelWrites, 0 \notin SbrkSizes, Inv3Next
<1>3. Spec => [](Inv1 /\ Inv2)
  BY OneCPU, OwnAlways
<1> QED
  BY <1>1, <1>2, <1>3, PTL DEF Spec, PrivateMemory, Private!Spec
=============================================================================
