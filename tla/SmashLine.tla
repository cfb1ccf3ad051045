------------------------------ MODULE SmashLine ------------------------------
(***************************************************************************)
(* p3: what smash makes of a line that is typed: lexer(), the commands     *)
(* between ";", loop, the built-in commands, and in the child exec_prog(), *)
(* piping() and redirect() up to what is executed.  How the processes of a *)
(* pipeline run is module Smash's.  A line stays below the ten words a     *)
(* command has room for.                                                   *)
(***************************************************************************)
EXTENDS Naturals, Sequences, SequencesExt

CONSTANTS AnyWords,    \* words of which all lines up to
          MaxWords     \* this length are typed

VARIABLES
  line,        \* buf: the words of the line
  meant,       \* what whoever typed it means, or Anything
  lines,       \* how often main() has read
  cmds, i,     \* the commands, and the one executed
  j, numLoop,  \* the loop
  log,         \* what has been executed
  smashpc
linevars == <<line, meant, lines, cmds, i, j, numLoop, log, smashpc>>

Run(stages, out) == [op |-> "run", stages |-> stages, out |-> out]
Builtin(op, arg) == [op |-> op, stages |-> <<>>, out |-> arg]
Error == Builtin("error", "")
Anything == <<Builtin("anything", "")>>
Crash == Builtin("crash", "")     \* of the child
-----------------------------------------------------------------------------
(* The commands a user may type, with their meaning (p3/README.md).        *)
Join(parts, sep) ==
  FoldLeft(LAMBDA t, x : IF t = <<>> THEN x ELSE t \o <<sep>> \o x, <<>>, parts)
Pipelines == {<<<<"a">>>>, <<<<"a", "b">>>>, <<<<"a">>, <<"b">>>>, <<<<"a", "b">>, <<"pwd">>, <<"b", "a">>>>}
Programs ==
  {[text |-> Join(s, "|"), effect |-> Run(s, "")] : s \in Pipelines} \cup
  {[text |-> Join(s, "|") \o <<">", "f">>, effect |-> Run(s, "f")] : s \in Pipelines}
Builtins ==
  {[text |-> <<"pwd">>, effect |-> Builtin("pwd", "")],
   [text |-> <<"cd", "a">>, effect |-> Builtin("cd", "a")],
   [text |-> <<"exit">>, effect |-> Builtin("exit", "")]}
Times(n, c) == [text |-> <<"loop", IF n = 0 THEN "0" ELSE "2">> \o c.text,
                effects |-> [x \in 1 .. n |-> c.effect]]
Commands ==
  {[text |-> c.text, effects |-> <<c.effect>>] : c \in Programs \cup Builtins} \cup
  {Times(n, c) : n \in {0, 2}, c \in Programs \cup Builtins} \cup
  {[text |-> <<>>, effects |-> <<>>]}
(* Of some effects those up to the shell's exit. *)
UpToExit(s) ==
  LET ends == {x \in DOMAIN s : s[x].op = "exit"}
  IN IF ends = {} THEN s ELSE SubSeq(s, 1, CHOOSE x \in ends : \A y \in ends : x <= y)
Typed ==
  {[text |-> c.text \o <<";">> \o d.text, meant |-> UpToExit(c.effects \o d.effects)]
     : c, d \in Commands} \cup
  {[text |-> t, meant |-> Anything] : t \in UNION {[1 .. n -> AnyWords] : n \in 0 .. MaxWords}}
-----------------------------------------------------------------------------
LineInit ==
  /\ \E t \in Typed : line = t.text /\ meant = t.meant
  /\ lines = 0 /\ cmds = <<>> /\ i = 1 /\ j = 0 /\ numLoop = 0 /\ log = <<>> /\ smashpc = "prompt"

(* The words between the separators; there is one part more than those.    *)
Split(words, sep) ==
  FoldLeft(LAMBDA parts, w : IF w = sep THEN Append(parts, <<>>)
                             ELSE [parts EXCEPT ![Len(parts)] = Append(@, w)],
           <<<<>>>>, words)
GetLine ==
  /\ smashpc = "prompt" /\ lines = 0
  /\ cmds' = Split(line, ";") /\ i' = 1 /\ lines' = 1 /\ smashpc' = "command"
  /\ UNCHANGED <<line, meant, j, numLoop, log>>
(* Nobody looks at what getline() returns: at the end of the input buf is  *)
(* what strtok() has left of the last line, its first word.                *)
EndOfInput ==
  /\ smashpc = "prompt" /\ lines = 1
  /\ line' = SubSeq(line, 1, IF line = <<>> THEN 0 ELSE 1) /\ meant' = Anything
  /\ cmds' = Split(line', ";") /\ i' = 1 /\ lines' = 2 /\ smashpc' = "command"
  /\ UNCHANGED <<j, numLoop, log>>

Command == cmds[i]
Next_ == i' = i + 1 /\ UNCHANGED <<cmds, j, numLoop, smashpc>>
AtCommand == smashpc = "command" /\ i <= Len(cmds) /\ UNCHANGED <<line, meant, lines>>
Rounds(n) == numLoop' = n /\ j' = 0 /\ smashpc' = "round" /\ UNCHANGED <<i, log>>
SkipEmpty == AtCommand /\ Command = <<>> /\ Next_ /\ UNCHANGED log
Once == AtCommand /\ Command # <<>> /\ Command[1] # "loop" /\ Rounds(1) /\ UNCHANGED cmds
(* loop n: strtol() of the next word, and the rest is the command.  With   *)
(* nothing after the number "loop" is left, with no words counted.         *)
Number(w) == CASE w = "2" -> {2} [] w = "0" -> {0} [] OTHER -> {}
Shifted(c) == SubSeq(c, 3, Len(c))
Loop ==
  /\ AtCommand /\ Len(Command) >= 2 /\ Command[1] = "loop"
  /\ \/ \E n \in Number(Command[2]) : Rounds(n) /\ cmds' = [cmds EXCEPT ![i] = Shifted(@)]
     \/ Number(Command[2]) = {} /\ log' = Append(log, Error) /\ Next_
(* loop alone: what malloc() has left in the next word. *)
LoopAlone ==
  /\ AtCommand /\ Command = <<"loop">>
  /\ \/ \E n \in 0 .. 2 : Rounds(n) /\ cmds' = [cmds EXCEPT ![i] = <<>>]
     \/ log' = Append(log, Error) /\ Next_
LineEnds ==
  /\ smashpc = "command" /\ i > Len(cmds) /\ smashpc' = "prompt"
  /\ UNCHANGED <<line, meant, lines, cmds, i, j, numLoop, log>>

AtRound == smashpc = "round" /\ j < numLoop /\ UNCHANGED <<line, meant, lines, cmds, i, numLoop>>
Logs(x) == log' = Append(log, x) /\ j' = j + 1 /\ UNCHANGED smashpc
IsBuiltin == Command # <<>> /\ Command[1] \in {"exit", "cd", "pwd"}
ExecBuiltin ==
  /\ AtRound /\ IsBuiltin
  /\ \/ Command = <<"exit">> /\ log' = Append(log, Builtin("exit", "")) /\ smashpc' = "exited" /\ UNCHANGED j
     \/ Command[1] = "cd" /\ Len(Command) = 2 /\ Logs(Builtin("cd", Command[2]))
     \/ Command = <<"pwd">> /\ Logs(Builtin("pwd", ""))
     \/ Len(Command) # (IF Command[1] = "cd" THEN 2 ELSE 1) /\ Logs(Error)
RoundsEnd ==
  /\ smashpc = "round" /\ j >= numLoop /\ smashpc' = "command" /\ i' = i + 1
  /\ UNCHANGED <<line, meant, lines, cmds, j, numLoop, log>>

(* exec_prog() of the child: "|" or ">" as the first word are programs.    *)
After(a, w) == \E x \in 2 .. Len(a) : a[x] = w
ButOne(a) == a[Len(a) - 1]
First(a, w) == CHOOSE x \in DOMAIN a : a[x] = w /\ \A y \in DOMAIN a : a[y] = w => x <= y
(* The last stage with ">" as its last word but one: what is in front of   *)
(* the first ">" is run, the word behind it is the file.                   *)
LastStage(last) ==
  CASE last = <<>> -> [argv |-> <<>>, out |-> "none"]
    [] last # <<>> /\ last[1] = ">" -> [argv |-> last, out |-> last[2]]
    [] OTHER -> [argv |-> SubSeq(last, 1, First(last, ">") - 1), out |-> last[First(last, ">") + 1]]
Piping(a) ==
  LET stages == Split(a, "|")
      n == Len(stages)
      last == LastStage(stages[n])
  IN IF ButOne(a) # ">" THEN Run(stages, "")
     ELSE IF stages[n] = <<>> THEN Crash
     ELSE Run([stages EXCEPT ![n] = last.argv], last.out)
ExecProg(a) ==
  CASE After(a, "|") -> Piping(a)
    [] ~After(a, "|") /\ After(a, ">") ->
         IF ButOne(a) # ">" THEN Error ELSE Run(<<SubSeq(a, 1, Len(a) - 2)>>, a[Len(a)])
    [] OTHER -> IF a = <<>> THEN Error ELSE Run(<<a>>, "")
(* fork(), the child, and wait(). *)
RunChild == AtRound /\ ~IsBuiltin /\ Logs(ExecProg(Command))

LineNext ==
  \/ GetLine \/ EndOfInput \/ SkipEmpty \/ Once \/ Loop \/ LoopAlone \/ LineEnds
  \/ ExecBuiltin \/ RoundsEnd \/ RunChild
LineSpec == LineInit /\ [][LineNext]_linevars
-----------------------------------------------------------------------------
(* What has been typed is executed as it is meant, as often and in that    *)
(* order, and only exit ends the shell.                                    *)
LineRight ==
  /\ meant # Anything /\ smashpc \in {"prompt", "exited"} /\ lines = 1 => log = meant
  /\ smashpc = "exited" => Command = <<"exit">>
=============================================================================
