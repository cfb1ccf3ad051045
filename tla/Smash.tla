------------------------------- MODULE Smash -------------------------------
(***************************************************************************)
(* p3: the shell smash runs a command, a pipeline of stages, once or in a  *)
(* loop.  The shell forks one child, which starts every stage but the last *)
(* as children of its own and then becomes the last.                       *)
(*                                                                         *)
(* The kernel's pipes and the programs run are external: a program reads   *)
(* its standard input to the end, or leaves without reading it, and writes *)
(* an item for each that it has read; one that reads the terminal writes   *)
(* Items.                                                                  *)
(***************************************************************************)
EXTENDS Naturals, FiniteSets

CONSTANTS MaxStages, MaxLoop, Items, Room,  \* Room: what a pipe holds
          MaxProcs, MayFail                 \* stages that may be no program

Procs == 1 .. MaxProcs
Pipes == 1 .. MaxProcs
terminal == 0

VARIABLES
  n, failing, short,    \* the command: stages, those that do not exec, those that leave early
  numLoop, my_pid,      \* main(): rounds left, the child waited for (0: none)
  at, i, in,            \* a process: where it is, the loop of fork_pipes(), its variable in
  stdin, stdout, ends,  \* its descriptors 0 and 1, and the others: <<pipe, side>>
  has,                  \* a program's items still to be written
  held, fd              \* items in each pipe; the pipe of a child being started

smashvars == <<n, failing, short, numLoop, my_pid, at, i, in, stdin, stdout, ends, has, held, fd>>
command == <<n, failing, short>>
shell == <<numLoop, my_pid>>

SmashInit ==
  /\ n \in 1 .. MaxStages /\ numLoop \in 1 .. MaxLoop
  /\ failing \in SUBSET ((1 .. n) \cap MayFail) /\ short \in SUBSET (1 .. n)
  /\ my_pid = 0 /\ at = [p \in Procs |-> "none"]
  /\ i = [p \in Procs |-> 1] /\ in = [p \in Procs |-> terminal]
  /\ stdin = [p \in Procs |-> terminal] /\ stdout = [p \in Procs |-> terminal]
  /\ ends = [p \in Procs |-> {}] /\ has = [p \in Procs |-> 0]
  /\ held = [k \in Pipes |-> 0] /\ fd = [p \in Procs |-> terminal]

Alive(p) == at[p] # "none"
Readers(k) == {p \in Procs : Alive(p) /\ (stdin[p] = k \/ <<k, "read">> \in ends[p])}
Writers(k) == {p \in Procs : Alive(p) /\ (stdout[p] = k \/ <<k, "write">> \in ends[p])}
FreeProcs == {p \in Procs : ~Alive(p)}
FreePipes == {k \in Pipes : Readers(k) = {} /\ Writers(k) = {}}
Least(S) == CHOOSE x \in S : \A y \in S : x <= y
-----------------------------------------------------------------------------
(* main(): fork(), and wait(NULL) for the child, numLoop times. *)
Fork ==
  /\ my_pid = 0 /\ numLoop > 0 /\ FreeProcs # {}
  /\ LET p == Least(FreeProcs)
     IN /\ my_pid' = p /\ at' = [at EXCEPT ![p] = "fork_pipes"]
        /\ i' = [i EXCEPT ![p] = 1] /\ in' = [in EXCEPT ![p] = terminal]
        /\ stdin' = [stdin EXCEPT ![p] = terminal] /\ stdout' = [stdout EXCEPT ![p] = terminal]
        /\ ends' = [ends EXCEPT ![p] = {}]
  /\ UNCHANGED <<command, numLoop, has, held, fd>>
Wait ==
  /\ my_pid # 0 /\ ~Alive(my_pid)
  /\ my_pid' = 0 /\ numLoop' = numLoop - 1
  /\ UNCHANGED <<command, at, i, in, stdin, stdout, ends, has, held, fd>>

(* One round of the loop: pipe(), fork(), close(fd[1]), in = fd[0]. *)
WriteEnd_kept(k) == {<<k, "write">>}
WriteEnd(k) == {}
ForkPipe(p) ==
  /\ at[p] = "fork_pipes" /\ i[p] < n /\ FreeProcs # {} /\ FreePipes # {}
  /\ LET c == Least(FreeProcs)  k == Least(FreePipes)
     IN /\ at' = [at EXCEPT ![c] = "spawn_proc"]
        /\ i' = [i EXCEPT ![c] = i[p], ![p] = @ + 1]
        /\ in' = [in EXCEPT ![c] = in[p], ![p] = k] /\ fd' = [fd EXCEPT ![c] = k]
        /\ stdin' = [stdin EXCEPT ![c] = stdin[p]] /\ stdout' = [stdout EXCEPT ![c] = stdout[p]]
        /\ ends' = [ends EXCEPT ![c] = ends[p] \cup {<<k, "read">>, <<k, "write">>},
                                ![p] = @ \cup {<<k, "read">>} \cup WriteEnd(k)]
        /\ held' = [held EXCEPT ![k] = 0]
  /\ UNCHANGED <<command, shell, has>>

(* The child of spawn_proc(): dup2() and close(), then execvp(); when that *)
(* fails it returns into the loop of fork_pipes().                         *)
Started(p, stage, input) ==
  IF stage \in failing
  THEN has' = has
  ELSE has' = [has EXCEPT ![p] = IF input = terminal THEN Items ELSE 0]
SpawnProc(p) ==
  /\ at[p] = "spawn_proc"
  /\ LET input == IF in[p] # terminal THEN in[p] ELSE stdin[p]
     IN stdin' = [stdin EXCEPT ![p] = input] /\ Started(p, i[p], input)
  /\ stdout' = [stdout EXCEPT ![p] = fd[p]]
  /\ ends' = [ends EXCEPT ![p] = @ \ {<<in[p], "read">>, <<fd[p], "write">>}]
  /\ at' = [at EXCEPT ![p] = IF i[p] \in failing THEN "fork_pipes" ELSE "program"]
  /\ i' = [i EXCEPT ![p] = IF i[p] \in failing THEN @ + 1 ELSE @]
  /\ in' = [in EXCEPT ![p] = IF i[p] \in failing THEN fd[p] ELSE @]
  /\ fd' = [fd EXCEPT ![p] = terminal]
  /\ UNCHANGED <<command, shell, held>>

(* The last stage: dup2(in, 0) and execvp(), or a message and exit(0). *)
ExecLast(p) ==
  /\ at[p] = "fork_pipes" /\ i[p] = n
  /\ LET input == IF in[p] # terminal THEN in[p] ELSE stdin[p]
     IN stdin' = [stdin EXCEPT ![p] = input] /\ Started(p, n, input)
  /\ at' = [at EXCEPT ![p] = IF n \in failing THEN "none" ELSE "program"]
  /\ UNCHANGED <<command, shell, i, in, stdout, ends, held, fd>>
-----------------------------------------------------------------------------
(* The programs: write what they have, read the next item, leave. *)
Runs(p) == at[p] = "program"
Leaves(p) == at' = [at EXCEPT ![p] = "none"]
Unchanged == UNCHANGED <<command, shell, i, in, stdin, stdout, ends, fd>>

(* A write into a pipe that nobody reads ends the program. *)
CanWrite(p) ==
  /\ Runs(p) /\ has[p] > 0
  /\ stdout[p] # terminal => held[stdout[p]] < Room \/ Readers(stdout[p]) = {}
Write(p) ==
  /\ CanWrite(p)
  /\ IF stdout[p] # terminal /\ Readers(stdout[p]) = {}
     THEN Leaves(p) /\ UNCHANGED <<has, held>>
     ELSE /\ has' = [has EXCEPT ![p] = @ - 1] /\ UNCHANGED at
          /\ held' = IF stdout[p] = terminal THEN held ELSE [held EXCEPT ![stdout[p]] = @ + 1]
  /\ Unchanged

CanRead(p) ==
  /\ Runs(p) /\ has[p] = 0
  /\ stdin[p] # terminal => held[stdin[p]] > 0 \/ Writers(stdin[p]) = {}
Read(p) ==
  /\ CanRead(p)
  /\ IF stdin[p] = terminal \/ held[stdin[p]] = 0 \/ i[p] \in short
     THEN Leaves(p) /\ UNCHANGED <<has, held>>
     ELSE /\ has' = [has EXCEPT ![p] = 1] /\ held' = [held EXCEPT ![stdin[p]] = @ - 1]
          /\ UNCHANGED at
  /\ Unchanged

SmashNext ==
  \/ Fork \/ Wait
  \/ \E p \in Procs : ForkPipe(p) \/ SpawnProc(p) \/ ExecLast(p) \/ Write(p) \/ Read(p)
SmashSpec == SmashInit /\ [][SmashNext]_smashvars
-----------------------------------------------------------------------------
CanForkPipe(p) == at[p] = "fork_pipes" /\ i[p] < n /\ FreeProcs # {} /\ FreePipes # {}
CanStep(p) ==
  \/ CanForkPipe(p) \/ at[p] = "spawn_proc" \/ (at[p] = "fork_pipes" /\ i[p] = n)
  \/ CanWrite(p) \/ CanRead(p)

(* p3/README.md, the shell continuously prompts the user: while the shell  *)
(* waits for its child some process of the pipeline can go on, and each    *)
(* step uses something up, so the wait ends: no stage keeps the write end  *)
(* of a pipe that another one reads to the end.                            *)
WaitEnds == my_pid # 0 /\ Alive(my_pid) => \E p \in Procs : CanStep(p)
=============================================================================
