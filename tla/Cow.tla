--------------------------------- MODULE Cow ---------------------------------
(***************************************************************************)
(* Copy-on-write memory of the p5 kernel: the page allocator with its      *)
(* reference counts (kalloc.c), the page directories (vm.c), the page      *)
(* fault handler (vm.c, trap.c) and the system calls that build, share,    *)
(* resize and tear down address spaces (proc.c, exec.c).                   *)
(*                                                                         *)
(* A kernel path is cut where another process can see or change what it    *)
(* uses: at every kalloc, kfree and change of a reference count, which     *)
(* take kmem.lock.  pc[p] names the place reached.  System calls enter     *)
(* through a trap gate and can be preempted; the page fault handler enters *)
(* through an interrupt gate and code under ptable.lock runs with          *)
(* interrupts off, so on one CPU nothing runs between their steps.         *)
(*                                                                         *)
(* Sizes are in pages.  Frames are interchangeable: the freelist is a set  *)
(* and its head an arbitrary element.                                      *)
(***************************************************************************)
EXTENDS Integers, FiniteSets

CONSTANTS CPUs, Procs, InitProc, Frames,
          NPages,        \* pages below USERTOP
          KvmTables,     \* page tables setupkvm() needs for the kernel part
          ExecSizes,     \* sizes of the program images, stack included
          Values, Zero, Image,   \* contents of a page
          Junk,          \* contents after the memset() of kfree()
          Boot,          \* frames userinit() got: [kstack, pgdir, tables, page]
          KernelWrites,  \* may system calls store into user buffers?
          SbrkSizes,     \* sizes programs ask sbrk() for; 0 is sbrk(-size)
          NoProc, NoFrame,
          NotPresent,    \* a page table entry without PTE_P
          Frame0         \* an entry with PTE_P and physical address 0

Pages == 0 .. NPages - 1

ASSUME SizeAssumption ==
  /\ NPages \in Nat \ {0} /\ KvmTables \in Nat
  /\ ExecSizes \subseteq 1 .. NPages
  /\ SbrkSizes \subseteq 0 .. NPages
  /\ KernelWrites \in BOOLEAN

ASSUME NameAssumption ==
  /\ IsFiniteSet(Frames) /\ InitProc \in Procs /\ NoProc \notin Procs
  /\ NoFrame \notin Frames /\ NotPresent \notin Frames /\ Frame0 \notin Frames
  /\ NotPresent # Frame0
  /\ Zero \in Values /\ Image \in Values

ASSUME ContentAssumption ==
  /\ NotPresent \notin Values \cup {Junk}
  /\ NoProc \notin [Pages -> Values \cup {Junk, NotPresent}]

ASSUME BootAssumption ==
  /\ Boot \in [kstack : Frames, pgdir : Frames, page : Frames,
               tables : SUBSET Frames]
  /\ Boot.kstack # Boot.pgdir /\ Boot.kstack # Boot.page
  /\ Boot.pgdir # Boot.page
  /\ {Boot.kstack, Boot.pgdir, Boot.page} \cap Boot.tables = {}

VARIABLES
  free,        \* kmem.freelist
  free_pages,  \* kmem.free_pages
  ref_cnt,     \* kmem.ref_cnt
  data,        \* contents of the frames that hold user pages
  pte,         \* pte[d][v] : what directory d maps page v to
  writable,    \* writable[d] : the pages whose entry has PTE_W
  tables,      \* tables[d] : the page tables directory d points to
  stale,       \* stale[p] : pages of p the CPU may translate by an old entry
  kp,          \* frames held by pointers, field by field and process by process
  state, sz, parent,  \* struct proc
  np,          \* the child fork() builds or the zombie wait() reaps
  newsz,       \* the size sbrk or exec works towards
  i,           \* the page a loop or the fault handler is at
  pc,          \* where in the kernel a process is; "user" outside it
  cpu,         \* cpu[c] : the process CPU c runs (proc)
  ptlock,      \* the process that holds ptable.lock across steps
  dropped,     \* frames whose last pointer was forgotten
  panicked     \* the message of the panic that stopped the kernel

kmem   == <<free, free_pages, ref_cnt>>
vm     == <<pte, writable, tables, stale>>
procs  == <<state, parent, cpu, ptlock>>
locals == <<np, newsz, i>>
vars   == <<free, free_pages, ref_cnt, data, pte, writable, tables, stale, kp,
            state, sz, parent, np, newsz, i, pc, cpu, ptlock, dropped, panicked>>

(* kp.kstack and kp.pgdir are fields of struct proc; kp.d is the directory *)
(* a process is building (setupkvm, cowuvm) or tearing down (freevm), and  *)
(* kp.mem the frame the fault handler copies into.                         *)
Fields == {"kstack", "pgdir", "d", "mem"}

Interruptible == {"user", "kstack", "kvm", "tables", "cow", "inc", "load",
                  "grow", "undo", "shrink", "free", "wait"}
InHandler == {"ref", "dup", "dec", "copy", "exit"}

Init ==
  LET used == {Boot.kstack, Boot.pgdir, Boot.page} \cup Boot.tables IN
  /\ free = Frames \ used
  /\ free_pages = Cardinality(free)
  /\ ref_cnt = [f \in Frames |-> IF f \in used THEN 1 ELSE 0]
  /\ data = [f \in Frames |-> IF f = Boot.page THEN Image ELSE Junk]
  /\ pte = [d \in Frames |-> [v \in Pages |->
              IF d = Boot.pgdir /\ v = 0 THEN Boot.page ELSE NotPresent]]
  /\ writable = [d \in Frames |-> IF d = Boot.pgdir THEN {0} ELSE {}]
  /\ tables = [d \in Frames |-> IF d = Boot.pgdir THEN Boot.tables ELSE {}]
  /\ stale = [p \in Procs |-> {}]
  /\ kp = [x \in Fields |-> [p \in Procs |->
             IF p = InitProc /\ x \in {"kstack", "pgdir"} THEN Boot[x]
             ELSE NoFrame]]
  /\ state = [p \in Procs |-> IF p = InitProc THEN "RUNNABLE" ELSE "UNUSED"]
  /\ sz = [p \in Procs |-> IF p = InitProc THEN 1 ELSE 0]
  /\ parent = [p \in Procs |-> NoProc]
  /\ np = [p \in Procs |-> NoProc]
  /\ newsz = [p \in Procs |-> 0]
  /\ i = [p \in Procs |-> 0]
  /\ pc = [p \in Procs |-> "user"]
  /\ cpu = [c \in CPUs |-> NoProc]
  /\ ptlock = NoProc
  /\ dropped = {}
  /\ panicked = "no"

-----------------------------------------------------------------------------
(* kalloc.c *)

KAlloc(f) ==
  /\ free # {} /\ f = CHOOSE x \in free : TRUE
  /\ free' = free \ {f}
  /\ free_pages' = free_pages - 1
  /\ ref_cnt' = [ref_cnt EXCEPT ![f] = 1]

(* Is the caller the last holder of f? *)
LastRef_at_zero(f) == ref_cnt[f] < 1
LastRef_early(f) == ref_cnt[f] <= 2
LastRef(f) == ref_cnt[f] <= 1

KFree(f) ==
  \/ /\ LastRef(f)
     /\ data' = [data EXCEPT ![f] = Junk]
     /\ free' = free \cup {f}
     /\ free_pages' = free_pages + 1
     /\ UNCHANGED ref_cnt
  \/ /\ ~LastRef(f)
     /\ ref_cnt' = [ref_cnt EXCEPT ![f] = @ - 1]
     /\ UNCHANGED <<data, free, free_pages>>

IncPageRef_missing(f) == UNCHANGED ref_cnt
IncPageRef(f) == ref_cnt' = [ref_cnt EXCEPT ![f] = @ + 1]

DecPageRef_missing(f) == UNCHANGED ref_cnt
DecPageRef(f) == ref_cnt' = [ref_cnt EXCEPT ![f] = @ - 1]

-----------------------------------------------------------------------------
(* Shorthand *)

Running(p) == panicked = "no" /\ \E c \in CPUs : cpu[c] = p
At(p, l) == Running(p) /\ pc[p] = l
Goto(p, l) == pc' = [pc EXCEPT ![p] = l]
Panic(msg) == panicked' = msg

(* The map of p's own address space and the pages present in directory d. *)
Map(p) == pte[kp.pgdir[p]]
Present(d) == {v \in Pages : pte[d][v] # NotPresent}
Forking(p) == np[p] # NoProc

(* Back to user mode: the locals of the system call are gone. *)
Return(p) ==
  /\ Goto(p, "user")
  /\ np' = [np EXCEPT ![p] = NoProc]
  /\ newsz' = [newsz EXCEPT ![p] = 0]
  /\ i' = [i EXCEPT ![p] = 0]

(* mappages() of one user page with PTE_W, the loss of PTE_W, and *pte = 0. *)
MapPage(d, v, f) ==
  /\ pte' = [pte EXCEPT ![d][v] = f]
  /\ writable' = [writable EXCEPT ![d] = @ \cup {v}]

ClearW_missing(d, v) == UNCHANGED writable
ClearW(d, v) == writable' = [writable EXCEPT ![d] = @ \ {v}]

Unmap_missing(d, v) == UNCHANGED <<pte, writable>>
Unmap(d, v) ==
  /\ pte' = [pte EXCEPT ![d][v] = NotPresent]
  /\ writable' = [writable EXCEPT ![d] = @ \ {v}]

(* lcr3() of p's directory on the CPU that runs p. *)
Flush_missing(p) == UNCHANGED stale
Flush(p) == stale' = [stale EXCEPT ![p] = {}]

(* Does the loop of allocuvm() go on? *)
More_past_end(p) == i[p] <= newsz[p]
More(p) == i[p] < newsz[p]

-----------------------------------------------------------------------------
(* fork(), proc.c *)

(* The first half of allocproc(): claim a slot. *)
Fork(p) ==
  /\ At(p, "user") /\ ptlock = NoProc
  /\ \E c \in Procs :
       /\ state[c] = "UNUSED"
       /\ state' = [state EXCEPT ![c] = "EMBRYO"]
       /\ np' = [np EXCEPT ![p] = c]
  /\ Goto(p, "kstack")
  /\ UNCHANGED <<kmem, data, vm, kp, sz, parent, cpu, ptlock, newsz, i,
                 dropped, panicked>>

(* The second half: a kernel stack, or the slot is given back. *)
AllocKstack(p) ==
  /\ At(p, "kstack")
  /\ \/ /\ free = {}
        /\ state' = [state EXCEPT ![np[p]] = "UNUSED"]
        /\ Return(p)
        /\ UNCHANGED <<kmem, kp>>
     \/ \E f \in free :
        /\ KAlloc(f)
        /\ kp' = [kp EXCEPT !["kstack"][np[p]] = f]
        /\ Goto(p, "kvm")
        /\ UNCHANGED <<state, locals>>
  /\ UNCHANGED <<data, vm, sz, parent, cpu, ptlock, dropped, panicked>>

(* setupkvm() returned 0: fork() gives the stack and the slot back, exec() *)
(* has nothing to free because its pgdir is still 0.                       *)
KvmFailed(p, k) ==
  /\ Return(p)
  /\ \/ /\ Forking(p)
        /\ KFree(kp["kstack"][np[p]])
        /\ kp' = [k EXCEPT !["kstack"][np[p]] = NoFrame]
        /\ state' = [state EXCEPT ![np[p]] = "UNUSED"]
     \/ /\ ~Forking(p)
        /\ kp' = k
        /\ UNCHANGED <<kmem, data, state>>

(* setupkvm(): the directory ... *)
KvmDir(p) ==
  /\ At(p, "kvm")
  /\ \/ free = {} /\ KvmFailed(p, kp)
     \/ \E f \in free :
        /\ KAlloc(f)
        /\ kp' = [kp EXCEPT !["d"][p] = f]
        /\ Goto(p, "tables")
        /\ UNCHANGED <<data, state, locals>>
  /\ UNCHANGED <<vm, sz, parent, cpu, ptlock, dropped, panicked>>

(* ... and the page tables that mappages() needs.  When one cannot be had  *)
(* setupkvm() returns 0 and forgets the directory and the tables so far.   *)
(* User pages need no further table: they share the first one with the     *)
(* I/O space mapping.                                                      *)
KvmTable(p) ==
  LET d == kp["d"][p] IN
  /\ At(p, "tables")
  /\ \/ /\ Cardinality(tables[d]) >= KvmTables
        /\ Goto(p, IF Forking(p) THEN "cow" ELSE "load")
        /\ UNCHANGED <<kmem, data, state, kp, tables, locals, dropped>>
     \/ /\ Cardinality(tables[d]) < KvmTables
        /\ \E f \in free :
             /\ KAlloc(f)
             /\ tables' = [tables EXCEPT ![d] = @ \cup {f}]
        /\ UNCHANGED <<data, state, kp, pc, locals, dropped>>
     \/ /\ Cardinality(tables[d]) < KvmTables
        /\ free = {}
        /\ KvmFailed(p, [kp EXCEPT !["d"][p] = NoFrame])
        /\ tables' = [tables EXCEPT ![d] = {}]
        /\ dropped' = dropped \cup {d} \cup tables[d]
  /\ UNCHANGED <<pte, writable, stale, sz, parent, cpu, ptlock, panicked>>

(* One round of the loop of cowuvm(): the entry loses PTE_W in the parent  *)
(* and is copied to the child ...                                          *)
CowPage(p) ==
  LET d == kp["pgdir"][p]
      v == i[p] IN
  /\ At(p, "cow") /\ v < sz[p]
  /\ \/ /\ pte[d][v] = NotPresent
        /\ Panic("page_not_present")
        /\ UNCHANGED <<pte, writable, stale, pc>>
     \/ /\ pte[d][v] # NotPresent
        /\ pte' = [pte EXCEPT ![kp["d"][p]][v] = pte[d][v]]
        /\ ClearW(d, v)
        /\ stale' = [stale EXCEPT ![p] = @ \cup {v}]
        /\ Goto(p, "inc")
        /\ UNCHANGED panicked
  /\ UNCHANGED <<kmem, data, tables, kp, procs, sz, locals, dropped>>

(* ... and only then the frame's reference count goes up. *)
CowInc(p) ==
  LET f == Map(p)[i[p]] IN
  /\ At(p, "inc")
  /\ IncPageRef(f)
  /\ i' = [i EXCEPT ![p] = @ + 1]
  /\ Goto(p, "cow")
  /\ UNCHANGED <<free, free_pages, data, vm, kp, procs, sz, np, newsz,
                 dropped, panicked>>

(* The end of cowuvm(), with its lcr3(), and of fork(). *)
ForkDone(p) ==
  LET c == np[p] IN
  /\ At(p, "cow") /\ i[p] >= sz[p]
  /\ Flush(p)
  /\ kp' = [kp EXCEPT !["pgdir"][c] = kp["d"][p], !["d"][p] = NoFrame]
  /\ sz' = [sz EXCEPT ![c] = sz[p]]
  /\ parent' = [parent EXCEPT ![c] = p]
  /\ state' = [state EXCEPT ![c] = "RUNNABLE"]
  /\ Return(p)
  /\ UNCHANGED <<kmem, data, pte, writable, tables, cpu, ptlock, dropped,
                 panicked>>

-----------------------------------------------------------------------------
(* exec(), exec.c *)

Exec(p, n) ==
  /\ At(p, "user")
  /\ newsz' = [newsz EXCEPT ![p] = n]
  /\ Goto(p, "kvm")
  /\ UNCHANGED <<kmem, data, vm, kp, procs, sz, np, i, dropped, panicked>>

(* allocuvm(), loaduvm() and the copyout() of the arguments, a page at a   *)
(* time; without memory, or when the file is not a good program, the new   *)
(* directory is torn down again.                                           *)
LoadPage(p) ==
  LET d == kp["d"][p] IN
  /\ At(p, "load") /\ More(p)
  /\ \/ /\ Goto(p, "free")
        /\ UNCHANGED <<kmem, data, pte, writable, i>>
     \/ \E f \in free :
        /\ KAlloc(f)
        /\ MapPage(d, i[p], f)
        /\ data' = [data EXCEPT ![f] = Image]
        /\ i' = [i EXCEPT ![p] = @ + 1]
        /\ UNCHANGED pc
  /\ UNCHANGED <<tables, stale, kp, procs, sz, np, newsz, dropped, panicked>>

(* Commit to the new image: switchuvm() comes before freevm(oldpgdir). *)
ExecCommit(p) ==
  /\ At(p, "load") /\ ~More(p)
  /\ kp' = [kp EXCEPT !["pgdir"][p] = kp["d"][p], !["d"][p] = kp["pgdir"][p]]
  /\ sz' = [sz EXCEPT ![p] = newsz[p]]
  /\ Flush(p)
  /\ Goto(p, "free")
  /\ UNCHANGED <<kmem, data, pte, writable, tables, procs, locals, dropped,
                 panicked>>

-----------------------------------------------------------------------------
(* freevm(kp.d), vm.c: the user pages in ascending order, the page tables, *)
(* the directory.                                                          *)

(* One round of deallocuvm().  The entry is cleared after the kfree(), by  *)
(* a process that is in the kernel: nobody can look in between.            *)
FreeEntry(d, v) ==
  \/ /\ pte[d][v] = Frame0
     /\ Panic("kfree")
     /\ UNCHANGED <<kmem, data, pte, writable>>
  \/ /\ pte[d][v] # Frame0
     /\ KFree(pte[d][v])
     /\ Unmap(d, v)
     /\ UNCHANGED panicked

FreePage(p) ==
  LET d == kp["d"][p] IN
  /\ At(p, "free")
  /\ \E v \in Present(d) :
       /\ \A u \in Present(d) : v <= u
       /\ FreeEntry(d, v)
  /\ UNCHANGED <<tables, stale, kp, procs, sz, pc, locals, dropped>>

FreeTable(p) ==
  LET d == kp["d"][p] IN
  /\ At(p, "free") /\ Present(d) = {}
  /\ \E t \in tables[d] :
       /\ KFree(t)
       /\ tables' = [tables EXCEPT ![d] = @ \ {t}]
  /\ UNCHANGED <<pte, writable, stale, kp, procs, sz, pc, locals, dropped,
                 panicked>>

(* The directory goes last.  exec() then returns; wait() also makes the    *)
(* slot UNUSED and releases ptable.lock.                                   *)
FreeDir(p) ==
  LET d == kp["d"][p]
      z == np[p] IN
  /\ At(p, "free") /\ Present(d) = {} /\ tables[d] = {}
  /\ KFree(d)
  /\ kp' = [kp EXCEPT !["d"][p] = NoFrame]
  /\ \/ /\ z = NoProc
        /\ UNCHANGED <<state, parent, ptlock>>
     \/ /\ z # NoProc
        /\ state' = [state EXCEPT ![z] = "UNUSED"]
        /\ parent' = [parent EXCEPT ![z] = NoProc]
        /\ ptlock' = NoProc
  /\ Return(p)
  /\ UNCHANGED <<vm, sz, cpu, dropped, panicked>>

-----------------------------------------------------------------------------
(* sbrk() : growproc(), proc.c; allocuvm() and deallocuvm(), vm.c *)

Sbrk(p, n) ==
  /\ At(p, "user") /\ n # sz[p]
  /\ newsz' = [newsz EXCEPT ![p] = n]
  /\ i' = [i EXCEPT ![p] = IF n > sz[p] THEN sz[p] ELSE 0]
  /\ Goto(p, IF n > sz[p] THEN "grow" ELSE "shrink")
  /\ UNCHANGED <<kmem, data, vm, kp, procs, sz, np, dropped, panicked>>

(* One round of allocuvm(); without memory its pages are given back. *)
GrowPage(p) ==
  /\ At(p, "grow") /\ More(p)
  /\ \/ /\ free = {}
        /\ Goto(p, "undo")
        /\ UNCHANGED <<kmem, data, pte, writable, i>>
     \/ \E f \in free :
        /\ KAlloc(f)
        /\ MapPage(kp["pgdir"][p], i[p], f)
        /\ data' = [data EXCEPT ![f] = Zero]
        /\ i' = [i EXCEPT ![p] = @ + 1]
        /\ UNCHANGED pc
  /\ UNCHANGED <<tables, stale, kp, procs, sz, np, newsz, dropped, panicked>>

(* growproc() succeeds: the new size and switchuvm(). *)
GrowDone(p) ==
  /\ At(p, "grow") /\ ~More(p)
  /\ sz' = [sz EXCEPT ![p] = newsz[p]]
  /\ Flush(p)
  /\ Return(p)
  /\ UNCHANGED <<kmem, data, pte, writable, tables, kp, procs, dropped,
                 panicked>>

(* deallocuvm() for a shrink or to undo a failed growth.  The CPU may hold *)
(* a translation of a page below sz, which the process could use, never of *)
(* one above it.                                                           *)
DeallocPage(p) ==
  LET d == kp["pgdir"][p]
      top == {v \in Present(d) :
                v >= IF pc[p] = "shrink" THEN newsz[p] ELSE sz[p]} IN
  /\ At(p, "shrink") \/ At(p, "undo")
  /\ \E v \in top :
       /\ \A u \in top : v <= u
       /\ FreeEntry(d, v)
       /\ stale' = [stale EXCEPT ![p] = IF v < sz[p] THEN @ \cup {v} ELSE @]
  /\ UNCHANGED <<tables, kp, procs, sz, pc, locals, dropped>>

(* deallocuvm() returns the new size, and growproc() takes 0 for a         *)
(* failure: it returns before it stores the size and calls switchuvm().    *)
ShrinkDone(p) ==
  /\ At(p, "shrink")
  /\ \A v \in Present(kp["pgdir"][p]) : v < newsz[p]
  /\ \/ /\ newsz[p] = 0
        /\ UNCHANGED <<sz, stale>>
     \/ /\ newsz[p] # 0
        /\ sz' = [sz EXCEPT ![p] = newsz[p]]
        /\ Flush(p)
  /\ Return(p)
  /\ UNCHANGED <<kmem, data, pte, writable, tables, kp, procs, dropped,
                 panicked>>

GrowFailed(p) ==
  /\ At(p, "undo")
  /\ \A v \in Present(kp["pgdir"][p]) : v < sz[p]
  /\ Return(p)
  /\ UNCHANGED <<kmem, data, vm, kp, procs, sz, dropped, panicked>>

-----------------------------------------------------------------------------
(* User mode, and the page fault handler *)

(* A store to a page the hardware lets the process write. *)
UserWrite(p, v, x) ==
  /\ At(p, "user") /\ v \in writable[kp["pgdir"][p]] /\ Map(p)[v] \in Frames
  /\ data' = [data EXCEPT ![Map(p)[v]] = x]
  /\ UNCHANGED <<kmem, vm, kp, procs, sz, locals, pc, dropped, panicked>>

(* A system call that fills a user buffer (read, fstat, pipe).  CR0.WP is  *)
(* never set, so in kernel mode the store ignores PTE_W.                   *)
KernelWrite(p, v, x) ==
  /\ KernelWrites
  /\ At(p, "user") /\ v < sz[p] /\ Map(p)[v] \in Frames
  /\ data' = [data EXCEPT ![Map(p)[v]] = x]
  /\ UNCHANGED <<kmem, vm, kp, procs, sz, locals, pc, dropped, panicked>>

(* A store to a page without PTE_W traps into cowHandler(). *)
WriteFault(p, v) ==
  /\ At(p, "user") /\ Map(p)[v] # NotPresent
  /\ v \notin writable[kp["pgdir"][p]]
  /\ i' = [i EXCEPT ![p] = v]
  /\ Goto(p, "ref")
  /\ UNCHANGED <<kmem, data, vm, kp, procs, sz, np, newsz, dropped, panicked>>

(* An access to a page that is not mapped kills the process. *)
BadAccess(p, v) ==
  /\ At(p, "user") /\ Map(p)[v] = NotPresent /\ v \notin stale[p]
  /\ Goto(p, "exit")
  /\ UNCHANGED <<kmem, data, vm, kp, procs, sz, locals, dropped, panicked>>

(* refCount(): the last sharer takes the frame as it is. *)
ReadRef(p) ==
  LET d == kp["pgdir"][p] IN
  /\ At(p, "ref")
  /\ \/ /\ LastRef(Map(p)[i[p]])
        /\ writable' = [writable EXCEPT ![d] = @ \cup {i[p]}]
        /\ Flush(p)
        /\ Return(p)
     \/ /\ ~LastRef(Map(p)[i[p]])
        /\ Goto(p, "dup")
        /\ UNCHANGED <<writable, stale, locals>>
  /\ UNCHANGED <<kmem, data, pte, tables, kp, procs, sz, dropped, panicked>>

(* A frame for the private copy.  Without memory the handler marks the     *)
(* process killed and goes on with the null pointer.                       *)
AllocCopy(p) ==
  /\ At(p, "dup")
  /\ \/ free = {} /\ UNCHANGED <<kmem, kp>>
     \/ \E f \in free :
        /\ KAlloc(f)
        /\ kp' = [kp EXCEPT !["mem"][p] = f]
  /\ Goto(p, "dec")
  /\ UNCHANGED <<data, vm, procs, sz, locals, dropped, panicked>>

(* The shared frame loses its reference before it has been copied. *)
DecRef(p) ==
  /\ At(p, "dec")
  /\ DecPageRef(Map(p)[i[p]])
  /\ Goto(p, "copy")
  /\ UNCHANGED <<free, free_pages, data, vm, kp, procs, sz, locals, dropped,
                 panicked>>

(* Copy, remap and flush.  A null mem is address 0: the copy overwrites    *)
(* the frame of the process's page 0, and the entry gets physical          *)
(* address 0; on its way out of trap() the process exits.                  *)
CopyPage(p) ==
  LET v == i[p]
      f == kp["mem"][p] IN
  /\ At(p, "copy")
  /\ Flush(p)
  /\ \/ /\ f # NoFrame
        /\ data' = [data EXCEPT ![f] = data[Map(p)[v]]]
        /\ MapPage(kp["pgdir"][p], v, f)
        /\ kp' = [kp EXCEPT !["mem"][p] = NoFrame]
        /\ Return(p)
     \/ /\ f = NoFrame
        /\ data' = IF Map(p)[0] \in Frames
                   THEN [data EXCEPT ![Map(p)[0]] = data[Map(p)[v]]]
                   ELSE data
        /\ MapPage(kp["pgdir"][p], v, Frame0)
        /\ Goto(p, "exit")
        /\ UNCHANGED <<kp, locals>>
  /\ UNCHANGED <<kmem, tables, procs, sz, dropped, panicked>>

-----------------------------------------------------------------------------
(* exit() and wait(), proc.c *)

(* exit(), called by the program or, for a killed process, by trap().      *)
(* Children pass to init, and whoever may have to reap is woken.           *)
Exit(p) ==
  /\ At(p, "exit") \/ (At(p, "user") /\ p # InitProc)
  /\ ptlock = NoProc
  /\ \/ /\ p = InitProc
        /\ Panic("init_exiting")
        /\ UNCHANGED <<state, parent, cpu, pc, i>>
     \/ /\ p # InitProc
        /\ state' = [q \in Procs |->
             CASE q = p -> "ZOMBIE"
               [] q # p /\ state[q] = "SLEEPING"
                    /\ \/ q = parent[p]
                       \/ /\ q = InitProc
                          /\ \E z \in Procs : parent[z] = p /\ state[z] = "ZOMBIE"
                    -> "RUNNABLE"
               [] OTHER -> state[q]]
        /\ parent' = [q \in Procs |->
                        IF parent[q] = p THEN InitProc ELSE parent[q]]
        /\ cpu' = [c \in CPUs |-> IF cpu[c] = p THEN NoProc ELSE cpu[c]]
        /\ Goto(p, "user")
        /\ i' = [i EXCEPT ![p] = 0]
        /\ UNCHANGED panicked
  /\ UNCHANGED <<kmem, data, vm, kp, sz, ptlock, np, newsz, dropped>>

(* A pass of the loop of wait() over the table: reap a zombie child, sleep *)
(* while there are children, or return -1.  Interrupts stay off and        *)
(* ptable.lock is held while freevm() runs.                                *)
Wait(p) ==
  LET kids == {z \in Procs : parent[z] = p} IN
  /\ At(p, "user") \/ At(p, "wait")
  /\ ptlock = NoProc
  /\ \/ \E z \in kids :
        /\ state[z] = "ZOMBIE"
        /\ KFree(kp["kstack"][z])
        /\ kp' = [kp EXCEPT !["kstack"][z] = NoFrame,
                            !["d"][p] = kp["pgdir"][z],
                            !["pgdir"][z] = NoFrame]
        /\ np' = [np EXCEPT ![p] = z]
        /\ ptlock' = p
        /\ Goto(p, "free")
        /\ UNCHANGED <<state, cpu>>
     \/ /\ kids # {} /\ \A z \in kids : state[z] # "ZOMBIE"
        /\ state' = [state EXCEPT ![p] = "SLEEPING"]
        /\ cpu' = [c \in CPUs |-> IF cpu[c] = p THEN NoProc ELSE cpu[c]]
        /\ Goto(p, "wait")
        /\ UNCHANGED <<kmem, data, kp, np, ptlock>>
     \/ /\ kids = {}
        /\ Goto(p, "user")
        /\ UNCHANGED <<kmem, data, kp, np, state, cpu, ptlock>>
  /\ UNCHANGED <<vm, sz, parent, newsz, i, dropped, panicked>>

-----------------------------------------------------------------------------
(* scheduler() and yield(), proc.c; switchuvm() flushes the CPU's          *)
(* translations.                                                           *)

Dispatch(c, p) ==
  /\ panicked = "no" /\ ptlock = NoProc
  /\ cpu[c] = NoProc /\ state[p] = "RUNNABLE"
  /\ cpu' = [cpu EXCEPT ![c] = p]
  /\ state' = [state EXCEPT ![p] = "RUNNING"]
  /\ Flush(p)
  /\ UNCHANGED <<kmem, data, pte, writable, tables, kp, sz, parent, ptlock,
                 locals, pc, dropped, panicked>>

(* The timer interrupt, wherever interrupts are on. *)
Preempt(c, p) ==
  /\ panicked = "no" /\ ptlock = NoProc
  /\ cpu[c] = p /\ pc[p] \in Interruptible
  /\ cpu' = [cpu EXCEPT ![c] = NoProc]
  /\ state' = [state EXCEPT ![p] = "RUNNABLE"]
  /\ UNCHANGED <<kmem, data, vm, kp, sz, parent, ptlock, locals, pc, dropped,
                 panicked>>

-----------------------------------------------------------------------------
ForkStep(p) == \/ Fork(p) \/ AllocKstack(p) \/ KvmDir(p) \/ KvmTable(p)
               \/ CowPage(p) \/ CowInc(p) \/ ForkDone(p)
ExecStep(p) == \/ \E n \in ExecSizes : Exec(p, n)
               \/ LoadPage(p) \/ ExecCommit(p)
FreeStep(p) == FreePage(p) \/ FreeTable(p) \/ FreeDir(p)
SbrkStep(p) == \/ \E n \in SbrkSizes : Sbrk(p, n)
               \/ GrowPage(p) \/ GrowDone(p)
               \/ DeallocPage(p) \/ ShrinkDone(p) \/ GrowFailed(p)
UserStep(p) == \E v \in Pages :
                 \/ \E x \in Values : UserWrite(p, v, x) \/ KernelWrite(p, v, x)
                 \/ WriteFault(p, v) \/ BadAccess(p, v)
FaultStep(p) == ReadRef(p) \/ AllocCopy(p) \/ DecRef(p) \/ CopyPage(p)
ExitStep(p) == Exit(p) \/ Wait(p)
SchedStep(c, p) == Dispatch(c, p) \/ Preempt(c, p)

Next == \E p \in Procs :
          \/ ForkStep(p) \/ ExecStep(p) \/ FreeStep(p) \/ SbrkStep(p)
          \/ UserStep(p) \/ FaultStep(p) \/ ExitStep(p)
          \/ \E c \in CPUs : SchedStep(c, p)

Spec == Init /\ [][Next]_vars

-----------------------------------------------------------------------------
(* Properties *)

Ptr == Frames \cup {NoFrame}
Entry == Frames \cup {NotPresent, Frame0}

(* Every variable has its type; of the contents of the frames only that    *)
(* every frame has some.                                                   *)
TypeOK ==
  /\ free \in SUBSET Frames /\ free_pages \in Int
  /\ ref_cnt \in [Frames -> Int] /\ DOMAIN data = Frames
  /\ pte \in [Frames -> [Pages -> Entry]]
  /\ writable \in [Frames -> SUBSET Pages]
  /\ tables \in [Frames -> SUBSET Frames]
  /\ stale \in [Procs -> SUBSET Pages]
  /\ kp \in [Fields -> [Procs -> Ptr]]
  /\ state \in [Procs -> {"UNUSED", "EMBRYO", "SLEEPING", "RUNNABLE",
                          "RUNNING", "ZOMBIE"}]
  /\ sz \in [Procs -> 0 .. NPages]
  /\ parent \in [Procs -> Procs \cup {NoProc}]
  /\ np \in [Procs -> Procs \cup {NoProc}]
  /\ newsz \in [Procs -> 0 .. NPages]
  /\ i \in [Procs -> 0 .. NPages]
  /\ pc \in [Procs -> Interruptible \cup InHandler]
  /\ cpu \in [CPUs -> Procs \cup {NoProc}]
  /\ ptlock \in Procs \cup {NoProc}
  /\ dropped \in SUBSET Frames
  /\ panicked \in {"no", "kfree", "page_not_present", "init_exiting"}

(* The entries that map frame f, and those of them a reference count does  *)
(* not count: cowuvm() enters a page before incPageRef(), cowHandler()     *)
(* calls decPageRef() before it replaces the entry.                        *)
Users(f) == {s \in Frames \X Pages : pte[s[1]][s[2]] = f}
Uncounted == {<<kp["d"][p], i[p]>> : p \in {q \in Procs : pc[q] = "inc"}}
     \cup {<<kp["pgdir"][p], i[p]>> : p \in {q \in Procs : pc[q] = "copy"}}
Mapped == {pte[d][v] : d \in Frames, v \in Pages} \cap Frames
KernelFrames == ({kp[x][p] : x \in Fields, p \in Procs} \ {NoFrame})
                  \cup UNION {tables[d] : d \in Frames}

(* The reference count of a mapped frame is the number of page table       *)
(* entries that refer to it, whatever fork, exec, sbrk, exit and faults    *)
(* interleave (kalloc.c:57-66, 97-107).                                    *)
RefExact ==
  LET uncounted == Uncounted IN
  \A f \in Mapped : ref_cnt[f] = Cardinality(Users(f) \ uncounted)

(* No frame on the freelist can still be reached: not through a page       *)
(* table, nor as stack, directory, table or copy buffer.                   *)
FreeUnreachable == free \cap (Mapped \cup KernelFrames) = {}

(* A frame some process can write through its page table is mapped nowhere *)
(* else: a store of one process cannot be seen by another.                 *)
WritableExclusive ==
  \A d \in Frames : \A v \in writable[d] :
    pte[d][v] \in Frames => Users(pte[d][v]) = {<<d, v>>}

(* getFreePagesCount() is right, and every frame that is not free can      *)
(* still be given back, unless setupkvm() forgot it.                       *)
PagesConserved ==
  /\ free_pages = Cardinality(free)
  /\ Frames = free \cup Mapped \cup KernelFrames \cup dropped

(* In user mode the CPU translates by the page table, not by an entry that *)
(* was changed since the last flush.                                       *)
TlbFresh == \A p \in Procs : At(p, "user") => stale[p] = {}

(* A frame whose contents change is not mapped twice.                      *)
SharedFrozen ==
  [][\A f \in Frames : data'[f] # data[f] => Cardinality(Users(f)) <= 1]_vars

(* The private memories the page tables stand for. *)
Mem == [p \in Procs |->
          IF state[p] \in {"UNUSED", "EMBRYO", "ZOMBIE"} THEN NoProc
          ELSE [v \in Pages |->
                 IF v < sz[p] /\ Map(p)[v] \in Frames THEN data[Map(p)[v]]
                 ELSE NotPresent]]

Private == INSTANCE ForkMemory WITH mem <- Mem, NoPage <- NotPresent,
                                    NoMem <- NoProc

(* Copy-on-write fork implements private memories. *)
PrivateMemory == Private!Spec
=============================================================================
