------------------------------ MODULE UserTests ------------------------------
(***************************************************************************)
(* User programs of p4, as the system calls they make: the repository's    *)
(* own test of the kernel, user/usertests.c, and some small ones.  Module  *)
(* SystemCalls runs them.  Counts are scaled down: a loop of 100 is one of *)
(* REP, a write of 500 bytes one of 2.  What is printed is left out.       *)
(*                                                                         *)
(* A program is a sequence of instructions.  An instruction names the      *)
(* register its result goes to and the results the program accepts; with   *)
(* any other it complains and stops ("oops").                              *)
(***************************************************************************)
EXTENDS Integers, Sequences, FiniteSets, SequencesExt

CONSTANTS
  REP,         \* how often a loop of the tests is run
  MAXFILE,     \* the longest file
  PGSIZE,      \* bytes of a page
  USERTOP,     \* bytes of the largest process
  Text,        \* bytes of a program's text and data
  Tests        \* the tests main() calls

OK == 0 .. 99
FAIL == {-1}
ANY == OK \cup FAIL
(* The instructions: a register for the result, arguments, what is accepted. *)
I(op, to, a, want) == [op |-> op, to |-> to, a |-> a, want |-> want]
open(fd, path, mode, want) == I("open", fd, <<path, mode>>, want)
close(fd) == I("close", "x", <<fd>>, ANY)
write(fd, data, want) == I("write", "x", <<fd, data>>, want)
read(fd, n, want) == I("read", "n", <<fd, n>>, want)
unlink(path, want) == I("unlink", "x", <<path>>, want)
link(old, new, want) == I("link", "x", <<old, new>>, want)
mkdir(path, want) == I("mkdir", "x", <<path>>, want)
chdir(path, want) == I("chdir", "x", <<path>>, want)
fork(pid, want) == I("fork", pid, <<>>, want)
wait(want) == I("wait", "x", <<>>, want)
kill(pid) == I("kill", "x", <<pid>>, ANY)
sbrk(n, want) == I("sbrk", "a", <<n>>, want)
sbrkto(n, want) == I("sbrkto", "a", <<n>>, want)
exec(path, argv, size, want) == I("exec", "x", <<path, argv, size>>, want)
exit == I("exit", "x", <<>>, ANY)
pipes(want) == I("pipe", "x", <<>>, want)
sleep == I("sleep", "x", <<>>, ANY)
forever == I("spin", "x", <<>>, ANY)
If(reg, set, then, else) == I("if", reg, <<then, else>>, set)
While(reg, set, body) == I("while", reg, <<body>>, set)
Until(reg, other, body) == I("until", reg, <<body, other>>, ANY)
Let(reg, v) == I("let", reg, <<v>>, ANY)
Add(reg, n) == I("add", reg, <<n>>, ANY)
Append_(reg, from) == I("append", reg, <<from>>, ANY)
Check(reg, set) == I("check", reg, <<>>, set)
Same(reg, other) == I("same", reg, <<other>>, ANY)
Call(test) == I("call", "x", <<test>>, ANY)
Oops == <<I("oops", "x", <<>>, ANY)>>
IfChild(pid, body) == If(pid, {0}, body, <<>>)
(* body(1) \o ... \o body(n) *)
Repeat(n, body(_)) == FlattenSeq([i \in 1 .. n |-> body(i)])
Bytes(c, n) == [i \in 1 .. n |-> c]
(* Reads a file to its end, k bytes at a time, into register "all". *)
ReadAll(fd, k) ==
  <<Let("all", <<>>), read(fd, k, OK),
    While("n", OK \ {0}, <<Append_("all", "buf"), read(fd, k, OK)>>)>>
RW == {"rw"}
CRW == {"c", "rw"}
C == {"c"}
RO == {}

-----------------------------------------------------------------------------
opentest ==
  <<open("fd", <<"echo">>, RO, OK), close("fd"), open("fd", <<"doesnotexist">>, RO, FAIL)>>

writetest ==
  <<open("fd", <<"small">>, CRW, OK)>> \o
  Repeat(REP, LAMBDA i : <<write("fd", <<"a">>, {1}), write("fd", <<"b">>, {1})>>) \o
  <<close("fd"), open("fd", <<"small">>, RO, OK), read("fd", 2 * REP, {2 * REP}),
    close("fd"), unlink(<<"small">>, OK)>>

writetest1 ==
  <<open("fd", <<"big">>, CRW, OK)>> \o
  Repeat(MAXFILE, LAMBDA i : <<write("fd", <<i>>, {1})>>) \o
  <<close("fd"), open("fd", <<"big">>, RO, OK)>> \o
  ReadAll("fd", 1) \o
  <<Check("all", {[i \in 1 .. MAXFILE |-> i]}), close("fd"), unlink(<<"big">>, OK)>>

Name(c, i) == c \o ToString(i)
createtest ==
  Repeat(REP, LAMBDA i : <<open("fd", <<Name("a", i)>>, CRW, ANY), close("fd")>>) \o
  Repeat(REP, LAMBDA i : <<unlink(<<Name("a", i)>>, ANY)>>)

dirtest ==
  <<mkdir(<<"dir0">>, OK), chdir(<<"dir0">>, OK), chdir(<<"..">>, OK), unlink(<<"dir0">>, OK)>>

exectest == <<exec(<<"echo">>, <<"ALL", "TESTS", "PASSED">>, 1, OK)>>

(* The reader's requests double, up to the size of its buffer. *)
pipe1 ==
  <<pipes({0}), fork("pid", OK),
    IfChild("pid", <<close("r")>> \o Repeat(REP, LAMBDA i : <<write("w", <<3 * i, 3 * i + 1, 3 * i + 2>>, {3})>>)
                   \o <<exit>>),
    close("w"), Let("all", <<>>),
    read("r", 1, OK), Append_("all", "buf"), read("r", 2, OK), Append_("all", "buf"),
    read("r", 4, OK), While("n", OK \ {0}, <<Append_("all", "buf"), read("r", 4, OK)>>),
    Check("all", {[i \in 1 .. 3 * REP |-> i + 2]}), close("r"), wait(ANY)>>

preempt ==
  <<fork("pid1", ANY), IfChild("pid1", <<forever>>), fork("pid2", ANY), IfChild("pid2", <<forever>>),
    pipes(ANY), fork("pid", ANY),
    IfChild("pid", <<close("r"), write("w", <<"x">>, {1}), close("w"), forever>>),
    close("w"), read("r", 2, {1}), close("r"),
    kill("pid1"), kill("pid2"), kill("pid"), wait(ANY), wait(ANY), wait(ANY)>>

exitwait ==
  Repeat(REP, LAMBDA i : <<fork("pid", OK), IfChild("pid", <<exit>>), wait(OK), Same("x", "pid")>>)

(* malloc() until it fails; free() gives nothing back to the kernel, and   *)
(* the freed chunks make one that is large enough.                         *)
memtest ==
  <<fork("pid", ANY),
    IfChild("pid", <<Let("n", 0), sbrk(PGSIZE, ANY), While("a", OK, <<Add("n", 1), sbrk(PGSIZE, ANY)>>),
                     Check("n", OK \ {0, 1}), exit>>),
    wait(ANY)>>

Mix(n) == {s \in [1 .. 2 * n -> {"c", "p"}] : Cardinality({k \in 1 .. 2 * n : s[k] = "c"}) = n}
sharedfd ==
  <<unlink(<<"sharedfd">>, ANY), open("fd", <<"sharedfd">>, CRW, OK), fork("pid", ANY),
    If("pid", {0},
       Repeat(REP, LAMBDA i : <<write("fd", <<"c">>, {1})>>) \o <<exit>>,
       Repeat(REP, LAMBDA i : <<write("fd", <<"p">>, {1})>>) \o <<wait(ANY)>>),
    close("fd"), open("fd", <<"sharedfd">>, RO, OK)>> \o
  ReadAll("fd", 1) \o
  <<close("fd"), unlink(<<"sharedfd">>, ANY), Check("all", Mix(REP))>>

Into(file, c) ==
  <<open("fd", <<file>>, CRW, OK)>> \o Repeat(REP, LAMBDA i : <<write("fd", <<c, c>>, {2})>>) \o <<close("fd")>>
twofiles ==
  <<unlink(<<"f1">>, ANY), unlink(<<"f2">>, ANY), fork("pid", OK),
    If("pid", {0}, Into("f2", "c") \o <<exit>>, Into("f1", "p") \o <<wait(ANY)>>),
    open("fd", <<"f2">>, RO, ANY)>> \o ReadAll("fd", 3) \o <<Check("all", {Bytes("c", 2 * REP)}), close("fd"),
    open("fd", <<"f1">>, RO, ANY)>> \o ReadAll("fd", 3) \o <<Check("all", {Bytes("p", 2 * REP)}), close("fd"),
    unlink(<<"f1">>, ANY), unlink(<<"f2">>, ANY)>>

(* N = 4: names 0 .. 3, of which 1 is unlinked again. *)
Half(c) ==
  Repeat(4, LAMBDA i : <<open("fd", <<Name(c, i - 1)>>, CRW, OK), close("fd")>> \o
                       (IF i - 1 = 2 THEN <<unlink(<<Name(c, 1)>>, OK)>> ELSE <<>>))
createdelete ==
  <<fork("pid", OK), If("pid", {0}, Half("c") \o <<exit>>, Half("p") \o <<wait(ANY)>>)>> \o
  Repeat(4, LAMBDA i : LET found == IF i - 1 = 1 THEN FAIL ELSE OK IN
    <<open("fd", <<Name("p", i - 1)>>, RO, found), If("fd", OK, <<close("fd")>>, <<>>),
      open("fd", <<Name("c", i - 1)>>, RO, found), If("fd", OK, <<close("fd")>>, <<>>)>>) \o
  Repeat(4, LAMBDA i : <<unlink(<<Name("p", i - 1)>>, ANY), unlink(<<Name("c", i - 1)>>, ANY)>>)

unlinkread ==
  <<open("fd", <<"unlinkread">>, CRW, OK), write("fd", <<"h", "i">>, ANY), close("fd"),
    open("fd", <<"unlinkread">>, RW, OK), unlink(<<"unlinkread">>, {0}),
    open("fd1", <<"unlinkread">>, CRW, ANY), write("fd1", <<"y">>, ANY), close("fd1"),
    read("fd", 5, {2}), Check("buf", {<<"h", "i">>}), write("fd", <<"h", "i", "x">>, {3}),
    close("fd"), unlink(<<"unlinkread">>, ANY)>>

linktest ==
  <<unlink(<<"lf1">>, ANY), unlink(<<"lf2">>, ANY),
    open("fd", <<"lf1">>, CRW, OK), write("fd", <<"h", "i">>, {2}), close("fd"),
    link(<<"lf1">>, <<"lf2">>, OK), unlink(<<"lf1">>, ANY), open("x", <<"lf1">>, RO, FAIL),
    open("fd", <<"lf2">>, RO, OK), read("fd", 5, {2}), close("fd"),
    link(<<"lf2">>, <<"lf2">>, FAIL), unlink(<<"lf2">>, ANY),
    link(<<"lf2">>, <<"lf1">>, FAIL), link(<<".">>, <<"lf1">>, FAIL)>>

(* N = 5 of the 40 files, so that both, one and neither of parent and child *)
(* link the file.                                                          *)
Opens(f) == <<open("fd", <<f>>, CRW, OK), close("fd")>>
Links(f) == <<link(<<"C0">>, <<f>>, ANY)>>
concreate ==
  Repeat(5, LAMBDA k : LET i == k - 1  f == Name("C", i) IN
    <<unlink(<<f>>, ANY), fork("pid", ANY),
      If("pid", {0}, (IF i % 5 = 1 THEN Links(f) ELSE Opens(f)) \o <<exit>>,
                     (IF i % 3 = 1 THEN Links(f) ELSE Opens(f)) \o <<wait(ANY)>>)>>) \o
  <<open("fd", <<".">>, RO, ANY), I("readdir", "names", <<"fd", {Name("C", k - 1) : k \in 1 .. 5}>>, ANY), close("fd"),
    Check("names", {{Name("C", k - 1) : k \in 1 .. 5}})>> \o
  Repeat(5, LAMBDA k : LET i == k - 1  f == Name("C", i)
                           opens == <<open("fd", <<f>>, RO, ANY), close("fd")>>
                           unlinks == <<unlink(<<f>>, ANY)>> IN
    <<fork("pid", OK),
      If("pid", {0}, (IF i % 3 = 0 THEN opens ELSE unlinks) \o <<exit>>,
                     (IF i % 3 = 1 THEN opens ELSE unlinks) \o <<wait(ANY)>>)>>)

bigdir ==
  <<unlink(<<"bd">>, ANY), open("fd", <<"bd">>, C, OK), close("fd")>> \o
  Repeat(REP, LAMBDA i : <<link(<<"bd">>, <<Name("x", i)>>, {0})>>) \o <<unlink(<<"bd">>, ANY)>> \o
  Repeat(REP, LAMBDA i : <<unlink(<<Name("x", i)>>, {0})>>)

subdirFiles ==
  <<unlink(<<"ff">>, ANY), mkdir(<<"dd">>, {0}),
    open("fd", <<"dd", "ff">>, CRW, OK), write("fd", <<"f", "f">>, ANY), close("fd"),
    unlink(<<"dd">>, FAIL), mkdir(<<"/", "dd", "dd">>, {0}),
    open("fd", <<"dd", "dd", "ff">>, CRW, OK), write("fd", <<"F", "F">>, ANY), close("fd"),
    open("fd", <<"dd", "dd", "..", "ff">>, RO, OK), read("fd", 4, {2}), Check("buf", {<<"f", "f">>}), close("fd"),
    link(<<"dd", "dd", "ff">>, <<"dd", "dd", "ffff">>, {0}), unlink(<<"dd", "dd", "ff">>, {0}),
    open("x", <<"dd", "dd", "ff">>, RO, FAIL),
    chdir(<<"dd">>, {0}), chdir(<<"dd", "..", "..", "dd">>, {0}),
    chdir(<<"dd", "..", "..", "..", "dd">>, {0}), chdir(<<".", "..">>, {0}),
    open("fd", <<"dd", "dd", "ffff">>, RO, OK), read("fd", 4, {2}), close("fd"),
    open("x", <<"dd", "dd", "ff">>, RO, FAIL)>>
subdirRefused ==
  <<open("x", <<"dd", "ff", "ff">>, CRW, FAIL), open("x", <<"dd", "xx", "ff">>, CRW, FAIL),
    open("x", <<"dd">>, C, FAIL), open("x", <<"dd">>, RW, FAIL), open("x", <<"dd">>, {"w"}, FAIL),
    link(<<"dd", "ff", "ff">>, <<"dd", "dd", "xx">>, FAIL), link(<<"dd", "xx", "ff">>, <<"dd", "dd", "xx">>, FAIL),
    link(<<"dd", "ff">>, <<"dd", "dd", "ffff">>, FAIL),
    mkdir(<<"dd", "ff", "ff">>, FAIL), mkdir(<<"dd", "xx", "ff">>, FAIL), mkdir(<<"dd", "dd", "ffff">>, FAIL),
    unlink(<<"dd", "xx", "ff">>, FAIL), unlink(<<"dd", "ff", "ff">>, FAIL),
    chdir(<<"dd", "ff">>, FAIL), chdir(<<"dd", "xx">>, FAIL),
    unlink(<<"dd", "dd", "ffff">>, {0}), unlink(<<"dd", "ff">>, {0}),
    unlink(<<"dd">>, FAIL), unlink(<<"dd", "dd">>, OK), unlink(<<"dd">>, OK)>>
subdir == subdirFiles \o subdirRefused

(* Two bytes are written at a time, one is read. *)
bigfile ==
  <<unlink(<<"bigfile">>, ANY), open("fd", <<"bigfile">>, CRW, OK)>> \o
  Repeat(REP, LAMBDA i : <<write("fd", <<i, i>>, {2})>>) \o
  <<close("fd"), open("fd", <<"bigfile">>, RO, OK)>> \o ReadAll("fd", 1) \o
  <<close("fd"), Check("all", {[k \in 1 .. 2 * REP |-> (k + 1) \div 2]}), unlink(<<"bigfile">>, ANY)>>

L14 == "fourteenletter"
L15 == "fifteen_letters"
fourteen ==
  <<mkdir(<<L14>>, {0}), mkdir(<<L14, L15>>, {0}), open("fd", <<L15, L15, L15>>, C, OK), close("fd"),
    open("fd", <<L14, L14, L14>>, RO, OK), close("fd"), mkdir(<<L14, L14>>, FAIL), mkdir(<<L15, L14>>, FAIL)>>

rmdot ==
  <<mkdir(<<"dots">>, {0}), chdir(<<"dots">>, {0}), unlink(<<".">>, FAIL), unlink(<<"..">>, FAIL),
    chdir(<<"/">>, {0}), unlink(<<"dots", ".">>, FAIL), unlink(<<"dots", "..">>, FAIL), unlink(<<"dots">>, {0})>>

dirfile ==
  <<open("fd", <<"dirfile">>, C, OK), close("fd"), chdir(<<"dirfile">>, FAIL),
    open("fd", <<"dirfile", "xx">>, RO, FAIL), open("fd", <<"dirfile", "xx">>, C, FAIL),
    mkdir(<<"dirfile", "xx">>, FAIL), unlink(<<"dirfile", "xx">>, FAIL),
    link(<<"README">>, <<"dirfile", "xx">>, FAIL), unlink(<<"dirfile">>, {0}),
    open("fd", <<".">>, RW, FAIL), open("fd", <<".">>, RO, ANY), write("fd", <<"x">>, FAIL \cup {0}), close("fd")>>

iref ==
  Repeat(2, LAMBDA i :
    <<mkdir(<<"irefd">>, {0}), chdir(<<"irefd">>, {0}), mkdir(<<>>, ANY), link(<<"README">>, <<>>, ANY),
      open("fd", <<>>, C, ANY), If("fd", OK, <<close("fd")>>, <<>>),
      open("fd", <<"xx">>, C, ANY), If("fd", OK, <<close("fd")>>, <<>>), unlink(<<"xx">>, ANY)>>) \o
  <<chdir(<<"/">>, ANY)>>

(* Forks until it fails, then waits for exactly as many. *)
forktest ==
  <<Let("n", 0), fork("pid", ANY), IfChild("pid", <<exit>>),
    While("pid", OK, <<Add("n", 1), fork("pid", ANY), IfChild("pid", <<exit>>)>>),
    While("n", OK \ {0}, <<Add("n", -1), wait(OK)>>), wait(FAIL)>>

(* A byte of the tests is one of PGSIZE / 2 here; 640K is USERTOP. *)
sbrktest ==
  <<sbrk(0, OK)>> \o
  Repeat(2, LAMBDA i : <<sbrk(1, {Text + PGSIZE + i - 1}), I("store", "x", <<Text + PGSIZE + i - 1, 1>>, ANY)>>) \o
  <<fork("pid", OK), sbrk(1, ANY), sbrk(1, {Text + PGSIZE + 3}),
    IfChild("pid", <<exit>>), wait(ANY),
    sbrkto(USERTOP, {Text + PGSIZE + 4}), I("store", "x", <<USERTOP - 1, 99>>, ANY),
    sbrk(PGSIZE, FAIL),
    sbrk(- PGSIZE, OK), sbrk(0, {USERTOP - PGSIZE}),
    sbrk(PGSIZE, {USERTOP - PGSIZE}), sbrk(0, {USERTOP}),
    I("load", "x", <<USERTOP - 1>>, OK \ {99}), sbrk(PGSIZE, FAIL),
    fork("pid", OK), IfChild("pid", <<I("load", "x", <<USERTOP>>, {}), exit>>), wait(ANY),
    sbrkto(Text + PGSIZE, OK), pipes({0})>> \o
  \* run the system out of memory
  <<fork("pid1", ANY), IfChild("pid1", <<sbrkto(USERTOP - PGSIZE, ANY), write("w", <<"x">>, ANY), forever>>),
    If("pid1", OK, <<read("r", 1, ANY)>>, <<>>),
    fork("pid2", ANY), IfChild("pid2", <<sbrkto(USERTOP - PGSIZE, ANY), write("w", <<"x">>, ANY), forever>>),
    If("pid2", OK, <<read("r", 1, ANY)>>, <<>>),
    kill("pid1"), wait(ANY),
    fork("pid1", OK), IfChild("pid1", <<sbrkto(USERTOP, ANY), write("w", <<"x">>, ANY), forever>>),
    read("r", 1, ANY),
    sbrk(PGSIZE, OK),
    If("pid1", OK, <<kill("pid1"), wait(ANY)>>, <<>>), If("pid2", OK, <<kill("pid2"), wait(ANY)>>, <<>>),
    sbrkto(Text + PGSIZE, OK)>>

(* A bad stack pointer makes fetchint() fail, a bad string fetchstr(). *)
validatetest ==
  Repeat(2, LAMBDA i :
    <<fork("pid", ANY), IfChild("pid", <<link(<<"bad">>, <<"bad">>, ANY), exit>>), sleep, sleep, kill("pid"),
      wait(ANY), link(<<"nosuchfile">>, <<"bad">>, FAIL)>>)

(* Uninitialised data starts out zero. *)
bsstest == Repeat(PGSIZE, LAMBDA i : <<I("load", "x", <<i - 1>>, {0})>>)

(* Arguments of more than a page: exec() is to fail. *)
bigargtest ==
  <<fork("pid", OK), IfChild("pid", <<exec(<<"echo">>, <<"bigargs test: failed">>, PGSIZE + 1, ANY), exit>>), wait(ANY)>>

(* By name. *)
Test(t) ==
  CASE t = "bigargtest" -> bigargtest [] t = "bsstest" -> bsstest [] t = "sbrktest" -> sbrktest
    [] t = "validatetest" -> validatetest [] t = "opentest" -> opentest [] t = "writetest" -> writetest
    [] t = "writetest1" -> writetest1 [] t = "createtest" -> createtest [] t = "dirtest" -> dirtest
    [] t = "mem" -> memtest
    [] t = "pipe1" -> pipe1 [] t = "preempt" -> preempt [] t = "exitwait" -> exitwait
    [] t = "rmdot" -> rmdot [] t = "fourteen" -> fourteen [] t = "bigfile" -> bigfile
    [] t = "subdir" -> subdir [] t = "concreate" -> concreate [] t = "linktest" -> linktest
    [] t = "unlinkread" -> unlinkread [] t = "createdelete" -> createdelete [] t = "twofiles" -> twofiles
    [] t = "sharedfd" -> sharedfd [] t = "dirfile" -> dirfile [] t = "iref" -> iref
    [] t = "forktest" -> forktest [] t = "bigdir" -> bigdir [] t = "exectest" -> exectest

(* main(): runs once on a disk, the tests one after the other. *)
Order ==
  <<"bigargtest", "bsstest", "sbrktest", "validatetest", "opentest", "writetest", "writetest1",
    "createtest", "mem", "pipe1", "preempt", "exitwait", "rmdot", "fourteen", "bigfile", "subdir",
    "concreate", "linktest", "unlinkread", "createdelete", "twofiles", "sharedfd", "dirfile", "iref",
    "forktest", "bigdir", "exectest">>
usertests ==
  <<open("fd", <<"usertests.ran">>, RO, FAIL), open("fd", <<"usertests.ran">>, C, ANY), close("fd")>> \o
  LET chosen == SelectSeq(Order, LAMBDA t : t \in Tests)
  IN [k \in DOMAIN chosen |-> Call(chosen[k])] \o <<exit>>

-----------------------------------------------------------------------------
(* The other programs. *)
StressChild(i) ==
  <<open("fd", <<Name("stressfs", i)>>, CRW, ANY)>> \o
  Repeat(REP, LAMBDA k : <<write("fd", <<k>>, ANY)>>) \o <<close("fd"), wait(ANY), exit>>
(* Each process forks the next one, 2 of the 4. *)
stressfs ==
  <<fork("pid", ANY), If("pid", OK \ {0}, StressChild(0), <<>>),
    fork("pid", ANY), If("pid", OK \ {0}, StressChild(1), <<>>)>> \o StressChild(2)
zombie == <<fork("pid", ANY), If("pid", OK \ {0}, <<sleep>>, <<>>), exit>>
(* echo prints its arguments. *)
echo(argv) == IF "bigargs test: failed" \in {argv[i] : i \in DOMAIN argv} THEN Oops ELSE <<exit>>

Program(name, argv) ==
  CASE name = "usertests" -> usertests
    [] name = "forktest" -> forktest \o <<exit>>
    [] name = "stressfs" -> stressfs
    [] name = "zombie" -> zombie
    [] name = "echo" -> echo(argv)
(* init starts a program, the shell in the code, and waits for it and for  *)
(* every orphan that ends meanwhile.                                       *)
init(name) ==
  <<fork("pid", OK), IfChild("pid", <<exec(<<name>>, <<>>, 1, ANY), exit>>),
    wait(ANY), Until("x", "pid", <<wait(ANY)>>)>>
=============================================================================
