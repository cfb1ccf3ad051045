------------------------------- MODULE CowTest -------------------------------
(***************************************************************************)
(* p5's test of copy-on-write, user/test.c, on module Cow's kernel.        *)
(*                                                                         *)
(* The process in slot 1 stands for the shell and forks the program, which *)
(* is its process 2; 3 and 4 are child1 and child2.  Page 0 is a program's *)
(* stack and data: it is written to before every call.  Pages 1 to ARRAY   *)
(* are the two arrays, of 11 pages in the program.                         *)
(***************************************************************************)
EXTENDS Cow, Sequences

CONSTANT ARRAY

VARIABLES
  at,       \* the instructions a process has still to execute
  counts,   \* free_after_forks and final_free of child2
  said      \* what it has printed

testVars == <<at, counts, said>>

I(op, a) == <<[op |-> op, a |-> a]>>
Call(op, a) == I("store", 0) \o I(op, a)
(* A loop over the arrays, seen by its first store to each page. *)
modify_array == [v \in 1 .. ARRAY |-> I("store", v)[1]]
Code == <<
  Call("fork", 0) \o Call("wait", 0),
  Call("sbrk", ARRAY + 1) \o modify_array \o Call("fork", 0) \o Call("wait", 0) \o Call("exit", 0),
  Call("fork", 0) \o Call("sleep", "counted") \o modify_array \o Call("wait", 0) \o Call("exit", 0),
  Call("count", "free_after_forks") \o modify_array \o Call("sleep", "modified") \o
    Call("count", "final_free") \o Call("say", 0) \o Call("exit", 0)>>

Unknown == -1
TestInit ==
  /\ Init
  /\ at = [p \in Procs |-> IF p = InitProc THEN Code[p] ELSE <<>>]
  /\ counts = [free_after_forks |-> Unknown, final_free |-> Unknown] /\ said = "nothing"

Does(p, op) == At(p, "user") /\ at[p] # <<>> /\ at[p][1].op = op
Arg(p) == at[p][1].a
Past(p) == at' = [at EXCEPT ![p] = Tail(@)]

(* A store, which may have to be repeated after a page fault. *)
Stores(p) == Does(p, "store") /\ UserWrite(p, Arg(p), Zero) /\ Past(p) /\ UNCHANGED <<counts, said>>
Faults(p) == Does(p, "store") /\ WriteFault(p, Arg(p)) /\ UNCHANGED testVars
Sbrks(p) == Does(p, "sbrk") /\ Sbrk(p, Arg(p)) /\ Past(p) /\ UNCHANGED <<counts, said>>
(* allocproc() takes the first slot that is free. *)
Forks(p) ==
  /\ Does(p, "fork") /\ Fork(p)
  /\ \A c \in Procs : state[c] = "UNUSED" => np'[p] <= c
  /\ at' = [at EXCEPT ![p] = Tail(@), ![np'[p]] = Code[np'[p]]]
  /\ UNCHANGED <<counts, said>>
Waits(p) ==
  /\ Wait(p)
  /\ \/ Does(p, "wait") /\ Past(p)
     \/ pc[p] = "wait" /\ UNCHANGED at
  /\ UNCHANGED <<counts, said>>
Exits(p) == Does(p, "exit") /\ Exit(p) /\ Past(p) /\ UNCHANGED <<counts, said>>
(* test.c:40, 49: the time is "sufficient" for the other child to have     *)
(* counted, or to have modified its arrays.                                *)
Sufficient(what) ==
  IF what = "counted" THEN counts.free_after_forks # Unknown
  ELSE \A x \in DOMAIN at[3] : at[3][x].op # "sleep" /\ (at[3][x].op = "store" => at[3][x].a = 0)
Sleeps(p) == Does(p, "sleep") /\ Sufficient(Arg(p)) /\ Past(p) /\ UNCHANGED <<vars, counts, said>>
(* getFreePagesCount() *)
Counts(p) ==
  /\ Does(p, "count") /\ counts' = [counts EXCEPT ![Arg(p)] = free_pages]
  /\ Past(p) /\ UNCHANGED <<vars, said>>
Says(p) ==
  /\ Does(p, "say") /\ Past(p) /\ UNCHANGED <<vars, counts>>
  /\ said' = IF counts.free_after_forks # counts.final_free + 2 * ARRAY THEN "FAILED" ELSE "SUCCESS"
(* Inside the calls and the page fault handler. *)
InKernel(p) ==
  /\ \/ AllocKstack(p) \/ KvmDir(p) \/ KvmTable(p) \/ CowPage(p) \/ CowInc(p) \/ ForkDone(p)
     \/ GrowPage(p) \/ GrowDone(p) \/ FreePage(p) \/ FreeDir(p)
     \/ ReadRef(p) \/ AllocCopy(p) \/ DecRef(p) \/ CopyPage(p)
  /\ UNCHANGED testVars
Scheduled(p) == (\E c \in CPUs : SchedStep(c, p)) /\ UNCHANGED testVars

TestNext ==
  \E p \in Procs :
    \/ Stores(p) \/ Faults(p) \/ Sbrks(p) \/ Forks(p) \/ Waits(p) \/ Exits(p)
    \/ Sleeps(p) \/ Counts(p) \/ Says(p) \/ InKernel(p) \/ Scheduled(p)
TestSpec == TestInit /\ [][TestNext]_<<vars, testVars>>
-----------------------------------------------------------------------------
(* test.c:55, "XV6_COW SUCCESS": the two children have cost two copies of  *)
(* the arrays and nothing else, however they are scheduled; and when the   *)
(* program has been waited for, all its memory is free again.              *)
CowTestPasses ==
  /\ said # "FAILED" /\ panicked = "no"
  /\ at[InitProc] = <<>> /\ pc[InitProc] = "user" => free_pages = Cardinality(Frames) - 3
=============================================================================
