--------------------------------- MODULE Sh ---------------------------------
(***************************************************************************)
(* The user shell sh.c: its parser and how runcmd() runs what was parsed.  *)
(*                                                                         *)
(* A line is a sequence of tokens, "a" a word, ">" also for ">>"; a tree   *)
(* has the places of its words in the line.  "cd" is the word at the start *)
(* of a line with a blank behind it.  The programs that are run read their *)
(* standard input to the end; those that do not read a pipe write one item. *)
(***************************************************************************)
EXTENDS Naturals, FiniteSets, SequencesExt

CONSTANTS Lines, MAXARGS, MaxProcs

Procs == 1 .. MaxProcs
Pipes == 1 .. MaxProcs
sh == 0
init == MaxProcs + 1
-----------------------------------------------------------------------------
(* The parser.  A result is a tree and the place after it; 0 is a panic. *)
EXEC(argv) == [type |-> "EXEC", argv |-> argv]
REDIR(cmd, op, file) == [type |-> "REDIR", cmd |-> cmd, op |-> op, file |-> file]
PIPE(left, right) == [type |-> "PIPE", left |-> left, right |-> right]
LIST(left, right) == [type |-> "LIST", left |-> left, right |-> right]
BACK(cmd) == [type |-> "BACK", cmd |-> cmd]
Result(cmd, at) == [cmd |-> cmd, at |-> at]
syntax == Result(EXEC(<<>>), 0)

Tok(ts, at) == IF at \in DOMAIN ts THEN ts[at] ELSE "end"
peek(ts, r, toks) == r.at > 0 /\ Tok(ts, r.at) \in toks

RECURSIVE parseredirs(_, _), parseargs(_, _, _, _), parseline(_, _), parsepipe(_, _), backs(_, _)

parseredirs(ts, r) ==
  IF ~peek(ts, r, {"<", ">"}) THEN r
  ELSE IF Tok(ts, r.at + 1) # "a" THEN syntax
  ELSE parseredirs(ts, Result(REDIR(r.cmd, Tok(ts, r.at), r.at + 1), r.at + 2))

(* The loop of parseexec(): its argv, and the redirections around it. *)
parseargs(ts, argv, redirs, at) ==
  LET found == Tok(ts, at)
  IN CASE found \in {"<", ">"} ->
            IF Tok(ts, at + 1) # "a" THEN syntax
            ELSE parseargs(ts, argv, Append(redirs, <<found, at + 1>>), at + 2)
       [] found \in {"|", ")", "&", ";", "end"} ->
            Result(FoldLeft(LAMBDA cmd, x : REDIR(cmd, x[1], x[2]), EXEC(argv), redirs), at)
       [] found = "(" -> syntax
       [] OTHER -> IF Len(argv) + 1 >= MAXARGS THEN syntax
                   ELSE parseargs(ts, Append(argv, at), redirs, at + 1)

parseblock(ts, at) ==
  LET r == parseline(ts, at + 1)
  IN IF peek(ts, r, {")"}) THEN parseredirs(ts, Result(r.cmd, r.at + 1)) ELSE syntax
parseexec(ts, at) == IF Tok(ts, at) = "(" THEN parseblock(ts, at) ELSE parseargs(ts, <<>>, <<>>, at)

parsepipe(ts, at) ==
  LET r == parseexec(ts, at)
  IN IF ~peek(ts, r, {"|"}) THEN r
     ELSE LET right == parsepipe(ts, r.at + 1) IN Result(PIPE(r.cmd, right.cmd), right.at)

backs(ts, r) == IF peek(ts, r, {"&"}) THEN backs(ts, Result(BACK(r.cmd), r.at + 1)) ELSE r
Backs_one(ts, r) == IF peek(ts, r, {"&"}) THEN Result(BACK(r.cmd), r.at + 1) ELSE r
Backs(ts, r) == backs(ts, r)
parseline(ts, at) ==
  LET r == Backs(ts, parsepipe(ts, at))
  IN IF ~peek(ts, r, {";"}) THEN r
     ELSE LET right == parseline(ts, r.at + 1) IN Result(LIST(r.cmd, right.cmd), right.at)

(* parsecmd(): what is left over is an error. *)
parsecmd(ts) ==
  LET r == parseline(ts, 1) IN IF r.at = Len(ts) + 1 THEN r ELSE syntax

(* The words that end where their token ends, by a byte put there when all *)
(* is parsed; any other goes on to the next such byte.                     *)
RECURSIVE nulterminate(_)
nulterminate(cmd) ==
  CASE cmd.type = "EXEC" -> ToSet(cmd.argv)
    [] cmd.type = "REDIR" -> nulterminate(cmd.cmd) \cup {cmd.file}
    [] cmd.type \in {"PIPE", "LIST"} -> nulterminate(cmd.left) \cup nulterminate(cmd.right)
    [] cmd.type = "BACK" -> nulterminate(cmd.cmd)
-----------------------------------------------------------------------------
VARIABLES
  line, shpc,
  at, job, parent,     \* a process: where it is, the tree it runs, its parent
  loose,               \* nobody is to wait for it: started by a BACK, or its parent panicked
  stdin, stdout, ends, \* a pipe or 0; the ends of pipes in other descriptors
  pipe, waits,         \* p of runcmd(), and the calls of wait() that are left
  has, held            \* a program's items; the items in a pipe

shvars == <<line, shpc, at, job, parent, loose, stdin, stdout, ends, pipe, waits, has, held>>

ShInit ==
  /\ line \in Lines /\ shpc = "getcmd"
  /\ at = [p \in Procs |-> "none"] /\ job = [p \in Procs |-> EXEC(<<>>)]
  /\ parent = [p \in Procs |-> init] /\ loose = [p \in Procs |-> FALSE]
  /\ stdin = [p \in Procs |-> 0] /\ stdout = [p \in Procs |-> 0]
  /\ ends = [p \in Procs |-> {}] /\ pipe = [p \in Procs |-> 0] /\ waits = [p \in Procs |-> 0]
  /\ has = [p \in Procs |-> 0] /\ held = [k \in Pipes |-> 0]

Running == {p \in Procs : at[p] \notin {"none", "zombie"}}
Readers(k) == {p \in Running : stdin[p] = k \/ <<k, "read">> \in ends[p]}
Writers(k) == {p \in Running : stdout[p] = k \/ <<k, "write">> \in ends[p]}
FreeProcs == {p \in Procs : at[p] = "none"}
Child == CHOOSE c \in FreeProcs : \A d \in FreeProcs : c <= d
NewPipe == CHOOSE k \in Pipes : Readers(k) = {} /\ Writers(k) = {}
Does(p, type) == at[p] = "runcmd" /\ job[p].type = type
Zombies(p) == {c \in Procs : at[c] = "zombie" /\ parent[c] = p}
Ends(k) == {<<k, "read">>, <<k, "write">>}

(* chdir() is the shell's own; found or not, it prompts again. *)
IsCd == line # <<>> /\ line[1] = "cd"
ShChdir ==
  /\ shpc = "getcmd" /\ IsCd /\ shpc' = "prompt"
  /\ UNCHANGED <<line, at, job, parent, loose, stdin, stdout, ends, pipe, waits, has, held>>
(* The shell's fork() and wait(): the child parses the line and runs it. *)
ShFork ==
  /\ shpc = "getcmd" /\ ~IsCd /\ shpc' = "wait"
  /\ at' = [at EXCEPT ![1] = IF parsecmd(line).at = 0 THEN "zombie" ELSE "runcmd"]
  /\ job' = [job EXCEPT ![1] = parsecmd(line).cmd] /\ parent' = [parent EXCEPT ![1] = sh]
  /\ UNCHANGED <<line, loose, stdin, stdout, ends, pipe, waits, has, held>>
ShWait ==
  /\ shpc = "wait" /\ \E c \in Zombies(sh) : at' = [at EXCEPT ![c] = "none"]
  /\ shpc' = "prompt"
  /\ UNCHANGED <<line, job, parent, loose, stdin, stdout, ends, pipe, waits, has, held>>

(* exit() of p, whose children go to init, which reaps at once. *)
Exit(p) ==
  /\ parent' = [c \in Procs |-> IF parent[c] = p THEN init ELSE parent[c]]
  /\ at' = [c \in Procs |-> IF c # p THEN IF c \in Zombies(p) THEN "none" ELSE at[c]
                            ELSE IF parent[p] = init THEN "none" ELSE "zombie"]

(* fork() of p: the child has its descriptors. *)
Fork(p, place, next, todo, more) ==
  /\ FreeProcs # {}
  /\ at' = [at EXCEPT ![Child] = place, ![p] = next]
  /\ job' = [job EXCEPT ![Child] = todo] /\ parent' = [parent EXCEPT ![Child] = p]
  /\ stdin' = [stdin EXCEPT ![Child] = stdin[p]] /\ stdout' = [stdout EXCEPT ![Child] = stdout[p]]
  /\ ends' = [ends EXCEPT ![Child] = ends[p] \cup more, ![p] = @ \cup more]
(* fork1() panics when there is no process left. *)
Fork1Fails(p) ==
  /\ FreeProcs = {} /\ Exit(p)
  /\ at[p] = "right" \/ \E type \in {"LIST", "PIPE", "BACK"} : Does(p, type)
  /\ loose' = [c \in Procs |-> loose[c] \/ (parent[c] = p /\ c \in Running)]
  /\ UNCHANGED <<line, shpc, job, stdin, stdout, ends, pipe, waits, has, held>>

RunExec(p) ==
  /\ Does(p, "EXEC")
  /\ \/ /\ job[p].argv # <<>> /\ at' = [at EXCEPT ![p] = "program"]
        /\ has' = [has EXCEPT ![p] = IF stdin[p] = 0 THEN 1 ELSE 0] /\ UNCHANGED parent
     \/ Exit(p) /\ UNCHANGED has
  /\ UNCHANGED <<line, shpc, job, loose, stdin, stdout, ends, pipe, waits, held>>
RunRedir(p) ==
  /\ Does(p, "REDIR")
  /\ IF job[p].op = "<" THEN stdin' = [stdin EXCEPT ![p] = 0] /\ UNCHANGED stdout
                        ELSE stdout' = [stdout EXCEPT ![p] = 0] /\ UNCHANGED stdin
  /\ \/ job' = [job EXCEPT ![p] = @.cmd] /\ UNCHANGED <<at, parent>>
     \/ Exit(p) /\ UNCHANGED job
  /\ UNCHANGED <<line, shpc, loose, ends, pipe, waits, has, held>>
RunBack(p) ==
  /\ Does(p, "BACK") /\ Fork(p, "runcmd", "exit", job[p].cmd, {})
  /\ loose' = [loose EXCEPT ![Child] = TRUE]
  /\ UNCHANGED <<line, shpc, pipe, waits, has, held>>
RunList(p) ==
  /\ Does(p, "LIST") /\ Fork(p, "runcmd", "wait", job[p].left, {})
  /\ loose' = [loose EXCEPT ![Child] = FALSE] /\ waits' = [waits EXCEPT ![p] = 1]
  /\ UNCHANGED <<line, shpc, pipe, has, held>>

(* PIPE: pipe(), the left child, the right child, two closes, two waits. *)
RunPipe(p) ==
  /\ Does(p, "PIPE")
  /\ LET k == NewPipe
     IN /\ Fork(p, "dup_write", "right", job[p].left, Ends(k))
        /\ pipe' = [pipe EXCEPT ![p] = k, ![Child] = k] /\ held' = [held EXCEPT ![k] = 0]
  /\ loose' = [loose EXCEPT ![Child] = FALSE]
  /\ UNCHANGED <<line, shpc, waits, has>>
RunRight(p) ==
  /\ at[p] = "right" /\ Fork(p, "dup_read", "close", job[p].right, {})
  /\ pipe' = [pipe EXCEPT ![Child] = pipe[p]] /\ loose' = [loose EXCEPT ![Child] = FALSE]
  /\ UNCHANGED <<line, shpc, waits, has, held>>
DupWrite(p) ==
  /\ at[p] = "dup_write" /\ at' = [at EXCEPT ![p] = "runcmd"]
  /\ stdout' = [stdout EXCEPT ![p] = pipe[p]] /\ ends' = [ends EXCEPT ![p] = @ \ Ends(pipe[p])]
  /\ UNCHANGED <<line, shpc, job, parent, loose, stdin, pipe, waits, has, held>>
DupRead(p) ==
  /\ at[p] = "dup_read" /\ at' = [at EXCEPT ![p] = "runcmd"]
  /\ stdin' = [stdin EXCEPT ![p] = pipe[p]] /\ ends' = [ends EXCEPT ![p] = @ \ Ends(pipe[p])]
  /\ UNCHANGED <<line, shpc, job, parent, loose, stdout, pipe, waits, has, held>>
ClosePipe_write_kept(p) ==
  /\ at[p] = "close" /\ at' = [at EXCEPT ![p] = "wait"] /\ waits' = [waits EXCEPT ![p] = 2]
  /\ ends' = [ends EXCEPT ![p] = @ \ {<<pipe[p], "read">>}]
  /\ UNCHANGED <<line, shpc, job, parent, loose, stdin, stdout, pipe, has, held>>
ClosePipe(p) ==
  /\ at[p] = "close" /\ at' = [at EXCEPT ![p] = "wait"] /\ waits' = [waits EXCEPT ![p] = 2]
  /\ ends' = [ends EXCEPT ![p] = @ \ Ends(pipe[p])]
  /\ UNCHANGED <<line, shpc, job, parent, loose, stdin, stdout, pipe, has, held>>

(* wait(), and then the right side of a LIST or exit(). *)
Wait(p) ==
  /\ at[p] = "wait" /\ waits[p] > 0
  /\ \E c \in Zombies(p) : at' = [at EXCEPT ![c] = "none"]
  /\ waits' = [waits EXCEPT ![p] = @ - 1]
  /\ UNCHANGED <<line, shpc, job, parent, loose, stdin, stdout, ends, pipe, has, held>>
Waited_once(p) == waits[p] <= 1
Waited(p) == waits[p] = 0
RunAfter(p) ==
  /\ at[p] = "wait" /\ Waited(p) /\ job[p].type = "LIST"
  /\ at' = [at EXCEPT ![p] = "runcmd"] /\ job' = [job EXCEPT ![p] = @.right]
  /\ UNCHANGED <<line, shpc, parent, loose, stdin, stdout, ends, pipe, waits, has, held>>
RunEnds(p) ==
  /\ at[p] = "exit" \/ (at[p] = "wait" /\ Waited(p) /\ job[p].type = "PIPE")
  /\ Exit(p)
  /\ UNCHANGED <<line, shpc, job, loose, stdin, stdout, ends, pipe, waits, has, held>>
-----------------------------------------------------------------------------
(* The programs: one writes the items it has and then reads on. *)
CanWrite(p) ==
  /\ at[p] = "program" /\ has[p] > 0
  /\ stdout[p] # 0 => held[stdout[p]] = 0 \/ Readers(stdout[p]) = {}
Write(p) ==
  /\ CanWrite(p)
  /\ IF stdout[p] # 0 /\ Readers(stdout[p]) = {}
     THEN Exit(p) /\ UNCHANGED <<has, held>>
     ELSE /\ has' = [has EXCEPT ![p] = 0] /\ UNCHANGED <<at, parent>>
          /\ held' = IF stdout[p] = 0 THEN held ELSE [held EXCEPT ![stdout[p]] = 1]
  /\ UNCHANGED <<line, shpc, job, loose, stdin, stdout, ends, pipe, waits>>
CanRead(p) ==
  /\ at[p] = "program" /\ has[p] = 0
  /\ stdin[p] # 0 => held[stdin[p]] > 0 \/ Writers(stdin[p]) = {}
Read(p) ==
  /\ CanRead(p)
  /\ IF stdin[p] = 0 \/ held[stdin[p]] = 0
     THEN Exit(p) /\ UNCHANGED <<has, held>>
     ELSE /\ has' = [has EXCEPT ![p] = 1] /\ held' = [held EXCEPT ![stdin[p]] = 0]
          /\ UNCHANGED <<at, parent>>
  /\ UNCHANGED <<line, shpc, job, loose, stdin, stdout, ends, pipe, waits>>

ShNext ==
  \/ ShChdir \/ ShFork \/ ShWait
  \/ \E p \in Procs :
       \/ Fork1Fails(p) \/ RunExec(p) \/ RunRedir(p) \/ RunBack(p) \/ RunList(p)
       \/ RunPipe(p) \/ RunRight(p) \/ DupWrite(p) \/ DupRead(p) \/ ClosePipe(p)
       \/ Wait(p) \/ RunAfter(p) \/ RunEnds(p) \/ Write(p) \/ Read(p)
ShSpec == ShInit /\ [][ShNext]_shvars
-----------------------------------------------------------------------------
(* The grammar that the parser reads, by the places where a stretch lo..hi *)
(* of the line is divided: no tokens are consumed from left to right.      *)
Count(ts, lo, hi, t) == Cardinality({x \in lo .. hi : ts[x] = t})
Outside(ts, lo, hi, t) ==
  {x \in lo .. hi : ts[x] = t /\ Count(ts, lo, x, "(") = Count(ts, lo, x, ")")}
First(S) == CHOOSE x \in S : \A y \in S : x <= y
Redirs(ts, lo, hi) == {x \in lo .. hi : ts[x] \in {"<", ">"}}
Words(ts, lo, hi) == {x \in lo .. hi : ts[x] = "a" /\ (x = lo \/ ts[x - 1] \notin {"<", ">"})}
Wrapped(ts, cmd, places) ==
  FoldLeft(LAMBDA c, x : REDIR(c, ts[x], x + 1), cmd, SetToSortSeq(places, <))
Followed(ts, lo, hi) == \A x \in Redirs(ts, lo, hi) : x < hi /\ ts[x + 1] = "a"

bad == EXEC(<<0>>)
RECURSIVE LineTree(_, _, _), PipeTree(_, _, _), BackTree(_, _, _)
ExecTree(ts, lo, hi) ==
  IF lo <= hi /\ ts[lo] = "("
  THEN LET close == Outside(ts, lo, hi, ")")
       IN IF close # {} /\ Followed(ts, First(close) + 1, hi) /\ Words(ts, First(close) + 1, hi) = {}
             /\ \A x \in First(close) + 1 .. hi : ts[x] \in {"a", "<", ">"}
          THEN LET inner == LineTree(ts, lo + 1, First(close) - 1)
               IN IF inner = bad THEN bad ELSE Wrapped(ts, inner, Redirs(ts, First(close) + 1, hi))
          ELSE bad
  ELSE IF /\ Followed(ts, lo, hi) /\ \A x \in lo .. hi : ts[x] \in {"a", "<", ">"}
          /\ Cardinality(Words(ts, lo, hi)) < MAXARGS
       THEN Wrapped(ts, EXEC(SetToSortSeq(Words(ts, lo, hi), <)), Redirs(ts, lo, hi))
       ELSE bad
Divided(left, right, tree) == IF bad \in {left, right} THEN bad ELSE tree
PipeTree(ts, lo, hi) ==
  LET bars == Outside(ts, lo, hi, "|")
  IN IF bars = {} THEN ExecTree(ts, lo, hi)
     ELSE LET left == ExecTree(ts, lo, First(bars) - 1)  right == PipeTree(ts, First(bars) + 1, hi)
          IN Divided(left, right, PIPE(left, right))
BackTree(ts, lo, hi) ==
  IF lo <= hi /\ ts[hi] = "&"
  THEN LET cmd == BackTree(ts, lo, hi - 1) IN Divided(cmd, cmd, BACK(cmd))
  ELSE PipeTree(ts, lo, hi)
LineTree(ts, lo, hi) ==
  LET semis == Outside(ts, lo, hi, ";")
  IN IF semis = {} THEN BackTree(ts, lo, hi)
     ELSE LET left == BackTree(ts, lo, First(semis) - 1)  right == LineTree(ts, First(semis) + 1, hi)
          IN Divided(left, right, LIST(left, right))

(* parsecmd() accepts the lines of the grammar and no other, and builds    *)
(* the grammar's tree: what & and | take, which command a redirection is   *)
(* of, and no tokens left over; every word of the line ends where it ends. *)
ParsedRight ==
  shpc = "getcmd" /\ ~IsCd =>
    LET r == parsecmd(line)  tree == LineTree(line, 1, Len(line))
    IN IF r.at = 0 THEN tree = bad
       ELSE r.cmd = tree /\ nulterminate(r.cmd) = {x \in DOMAIN line : line[x] = "a"}

(* Nobody goes on before what it waits for has ended: every running        *)
(* process has a parent that waits for it, unless it was started by & or   *)
(* left by a fork1() that failed.                                          *)
WaitedFor(c) ==
  CASE parent[c] = sh   -> shpc = "wait"
    [] parent[c] = init -> loose[c]
    [] OTHER            -> at[parent[c]] \in {"right", "close", "wait", "exit"}
ForegroundEnds == \A c \in Running : WaitedFor(c)

(* While the shell waits some process can go on: no command of a pipeline  *)
(* reads a pipe whose write end the shell's children have kept.            *)
CanStep(p) ==
  \/ at[p] \in {"runcmd", "right", "dup_write", "dup_read", "close", "exit"}
  \/ at[p] = "wait" /\ (waits[p] = 0 \/ Zombies(p) # {})
  \/ CanWrite(p) \/ CanRead(p)
PromptReturns == shpc = "wait" => Zombies(sh) # {} \/ \E p \in Procs : CanStep(p)
=============================================================================
