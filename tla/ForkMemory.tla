----------------------------- MODULE ForkMemory -----------------------------
(***************************************************************************)
(* What fork() promises to user programs: every process owns a private     *)
(* memory.  fork gives the child a copy of the parent's memory, a store of *)
(* one process is never seen by another, sbrk adds zero pages or drops     *)
(* pages at the top, exec replaces the image, exit gives the memory back.  *)
(*                                                                         *)
(* This is the contract of copyuvm() (vm.c:299-328), the eager copy that   *)
(* the copy-on-write cowuvm() replaced.  Module Cow is shown to implement  *)
(* it although there the pages are shared.                                 *)
(***************************************************************************)
EXTENDS Naturals

CONSTANTS Procs,     \* slots of the process table
          InitProc,  \* the first user process
          Pages,     \* user virtual pages, 0 .. NPages-1
          Values,    \* what a page can contain
          Zero,      \* contents of a fresh heap page
          Image,     \* contents of the pages of a program image
          NoPage,    \* a virtual page that is not mapped
          NoMem      \* the memory of a process that is not alive

VARIABLE mem         \* mem[p][v] : contents of page v of process p

Memories == [Pages -> Values \cup {NoPage}]

Fresh(n) == [v \in Pages |-> IF v < n THEN Image ELSE NoPage]

TypeOK == mem \in [Procs -> Memories \cup {NoMem}]

Init == mem = [p \in Procs |-> IF p = InitProc THEN Fresh(1) ELSE NoMem]

-----------------------------------------------------------------------------
Alive(p) == mem[p] # NoMem

(* A store instruction of p's program. *)
Store(p, v, x) ==
  /\ Alive(p) /\ mem[p][v] # NoPage
  /\ mem' = [mem EXCEPT ![p][v] = x]

(* fork(): the child starts with a copy of its parent's memory. *)
Fork(p, c) ==
  /\ Alive(p) /\ ~Alive(c)
  /\ mem' = [mem EXCEPT ![c] = mem[p]]

(* sbrk(n), n > 0: pages that were not mapped become zero pages. *)
Grow(p, n) ==
  /\ Alive(p)
  /\ mem' = [mem EXCEPT ![p] = [v \in Pages |->
                IF v < n /\ mem[p][v] = NoPage THEN Zero ELSE mem[p][v]]]

(* sbrk(n), n < 0, gives the pages above the new break back one by one. *)
Drop(p, v) ==
  /\ Alive(p)
  /\ mem' = [mem EXCEPT ![p][v] = NoPage]

(* exec(): the image of a program replaces the memory. *)
Exec(p, n) ==
  /\ Alive(p)
  /\ mem' = [mem EXCEPT ![p] = Fresh(n)]

Exit(p) ==
  /\ Alive(p)
  /\ mem' = [mem EXCEPT ![p] = NoMem]

Next ==
  \E p \in Procs :
    \/ \E v \in Pages, x \in Values : Store(p, v, x)
    \/ \E c \in Procs : Fork(p, c)
    \/ \E v \in Pages : Grow(p, v + 1) \/ Drop(p, v) \/ Exec(p, v + 1)
    \/ Exit(p)

Spec == Init /\ [][Next]_mem
=============================================================================
