------------------------------ MODULE SchedTests ------------------------------
(***************************************************************************)
(* The test programs of p4's scheduler (ctests/, user/test.c), run by sh   *)
(* on module Stride's process table and scheduler.                         *)
(*                                                                         *)
(* A program is a sequence of instructions: system calls, a loop that      *)
(* takes some turns of the CPU (spin), tests of what it got.  Between two  *)
(* of them, inside fork() and inside getpinfo(), which reads the table     *)
(* without ptable.lock, the timer may take the CPU.  Memory is plenty:     *)
(* fork() does not fail.                                                   *)
(***************************************************************************)
EXTENDS Stride, Sequences

CONSTANTS
  SchedTestNames,
  PROC,        \* children of test_10
  REP,         \* rounds of test_13
  SPIN,        \* turns a long loop takes, at least
  FACTOR,      \* the 100 of test_11
  LOW, HIGH,   \* the tickets of test_11
  MaxPreempts  \* bound of the model: preemptions outside the long loops

VARIABLES
  test,        \* the program sh has started
  user,        \* the program and the variables of each process
  pid, nextpid,
  acted,       \* has the running process done something in this turn?
  preempts,
  said         \* the verdicts printed

(* The instructions.  A test of the form If names what it looks at. *)
I(op, a) == <<[op |-> op, a |-> a]>>
settickets(n, else) == I("settickets", <<n, else>>)
fork(x) == I("fork", x)
getpid(x) == I("getpid", x)
IfChild(x, body) == I("if", <<<<"child", x>>, body, <<>>>>)
If(what, body, else) == I("if", <<what, body, else>>)
getpinfo(where, else) == I("getpinfo", <<where, else>>)
spin(turns) == I("spin", turns)
forever == -1
wait == I("wait", <<>>)
waitall == I("waitall", <<>>)
kill(x) == I("kill", x)
sleep == I("sleep", <<>>)
say(verdict) == I("say", verdict)
exit == I("exit", <<>>)
Failed == say("FAILED") \o exit
Verdict(what) == If(what, say("SUCCESS"), say("FAILED"))
(* A call that must succeed, or fail: what is printed is its verdict. *)
Succeeds(call) == call \o say("SUCCESS") \o exit
FlatRep(n, body) == [i \in 1 .. n * Len(body) |-> body[((i - 1) % Len(body)) + 1]]
-----------------------------------------------------------------------------
(* The programs. *)
test_1 == Succeeds(getpinfo("st", Failed))
test_2 == getpinfo("st", Failed) \o Verdict(<<"tickets", 1>>) \o exit
test_3 == Succeeds(settickets(10, Failed))
test_4 == Succeeds(settickets(100 * MAXSTRIDE, Failed))
test_5 == settickets(0, say("SUCCESS") \o exit) \o Failed
test_6 == settickets(-10, say("SUCCESS") \o exit) \o Failed
test_7 == getpinfo("null", say("SUCCESS") \o exit) \o Failed
test_8 == getpinfo("outside", say("SUCCESS") \o exit) \o Failed
test_9 ==
  settickets(10, Failed) \o fork("pid") \o
  IfChild("pid", getpinfo("st", Failed) \o Verdict(<<"tickets", 10>>) \o exit) \o
  waitall \o exit
(* As in the program, 3 more processes than children: itself, sh and init. *)
test_10 ==
  fork("pid1") \o IfChild("pid1", spin(forever) \o exit) \o
  (IF PROC = 1 THEN <<>> ELSE fork("pid2") \o IfChild("pid2", spin(forever) \o exit)) \o
  sleep \o getpinfo("st", Failed) \o
  kill("pid1") \o (IF PROC = 1 THEN <<>> ELSE kill("pid2")) \o
  waitall \o Verdict(<<"inuse", PROC + 3>>) \o exit
test_11 ==
  getpid("pid_low") \o settickets(LOW, Failed) \o fork("pid") \o
  IfChild("pid", settickets(HIGH, Failed) \o getpinfo("before", Failed) \o spin(SPIN) \o
                 getpinfo("st", Failed) \o Verdict(<<"ratio">>) \o exit) \o
  spin(SPIN) \o waitall \o exit
test_12 ==
  fork("pid1") \o IfChild("pid1", settickets(3, <<>>) \o spin(SPIN) \o getpinfo("st", <<>>) \o exit) \o
  fork("pid2") \o IfChild("pid2", settickets(2, <<>>) \o spin(SPIN) \o getpinfo("st", <<>>) \o exit) \o
  wait \o wait \o say("SUCCESS") \o exit
test_13 ==
  settickets(5, Failed) \o fork("pid") \o
  IfChild("pid", settickets(3, Failed) \o
    FlatRep(REP, getpinfo("st", Failed) \o If(<<"charged">>, <<>>, Failed) \o sleep) \o exit) \o
  waitall \o say("SUCCESS") \o exit
test_14 == getpinfo("st", Failed) \o If(<<"tickets", 1>>, <<>>, say("FAILED")) \o say("SUCCESS") \o exit
(* Two of the five calls of fork(), the first and the last. *)
test_15 ==
  fork("pid1") \o fork("pid") \o IfChild("pid", I("let", "pid1")) \o
  getpinfo("st", Failed) \o If(<<"tickets", 1>>, <<>>, Failed) \o If(<<"stride">>, <<>>, Failed) \o
  If(<<"child", "pid">>, <<>>, waitall) \o
  If(<<"child", "pid1">>, <<>>, say("SUCCESS")) \o exit
(* The child's parent_pid is its own: it asks after fork(). *)
test_16 ==
  fork("pid") \o getpid("parent_pid") \o
  If(<<"child", "pid">>, settickets(6, <<>>), settickets(1, <<>>)) \o
  spin(SPIN) \o IfChild("pid", say("SUCCESS") \o kill("parent_pid") \o exit) \o
  wait \o If(<<"reaped">>, exit, say("FAILED") \o kill("pid") \o waitall) \o exit
test_graph ==
  settickets(4, <<>>) \o
  fork("pid1") \o IfChild("pid1", settickets(3, <<>>) \o spin(SPIN) \o exit) \o
  fork("pid2") \o IfChild("pid2", settickets(2, <<>>) \o spin(SPIN) \o exit) \o
  spin(SPIN) \o wait \o wait \o exit
(* user/test.c is the same program. *)
test_c == test_graph
Programs ==
  [test_1 |-> test_1, test_2 |-> test_2, test_3 |-> test_3, test_4 |-> test_4, test_5 |-> test_5,
   test_6 |-> test_6, test_7 |-> test_7, test_8 |-> test_8, test_9 |-> test_9, test_10 |-> test_10,
   test_11 |-> test_11, test_12 |-> test_12, test_13 |-> test_13, test_14 |-> test_14,
   test_15 |-> test_15, test_16 |-> test_16, test_graph |-> test_graph, test_c |-> test_c]
(* init and sh, from where they are once the program runs. *)
init == I("waitfor", "sh") \o exit
sh == wait \o I("prompt", <<>>)
-----------------------------------------------------------------------------
(* What a process finds in its snapshot of the table, a record per slot. *)
Own(st, p) == CHOOSE s \in {st[i] : i \in DOMAIN st} : s.pid = pid[p]
Of(st, x) == CHOOSE s \in {st[i] : i \in DOMAIN st} : s.pid = x
InUse(st) == Cardinality({i \in DOMAIN st : st[i].inuse})
(* compare() of test_11: the parent is the process with few tickets. *)
Ratio(u, p) ==
  LET ran(x) == Of(u.st, x).ticks - Of(u.before, x).ticks
  IN ran(pid[p]) > ran(u.pid_low) * FACTOR
(* test_13's first snapshot becomes its init_pass. *)
Charged(u, p) ==
  LET s == Own(u.st, p) IN u.pass = -1 \/ (s.pass - u.pass) % s.stride = 0
Holds(what, u, p) ==
  CASE what[1] = "child" -> u[what[2]] = 0
    [] what[1] = "tickets" -> Own(u.st, p).tickets = what[2]
    [] what[1] = "stride" -> Own(u.st, p).stride # 0
    [] what[1] = "inuse" -> InUse(u.st) = what[2]
    [] what[1] = "ratio" -> Ratio(u, p)
    [] what[1] = "charged" -> Charged(u, p)
    [] what[1] = "reaped" -> u.x > 0

(* The tests between two calls. *)
RECURSIVE Settle(_, _)
Settle(u, p) ==
  LET i == Head(u.code)
      rest == Tail(u.code)
  IN IF u.code = <<>> \/ i.op \notin {"if", "let"} THEN u
     ELSE IF i.op = "let" THEN Settle([u EXCEPT !.code = rest, ![i.a] = 0], p)
     ELSE Settle([u EXCEPT !.code = (IF Holds(i.a[1], u, p) THEN i.a[2] ELSE i.a[3]) \o rest,
                           !.pass = IF i.a[1] = <<"charged">> /\ @ = -1 THEN Own(u.st, p).pass ELSE @], p)
Runs(p, op) == Call(p) /\ user[p].code # <<>> /\ Head(user[p].code).op = op
Arg(p) == Head(user[p].code).a
After(u, p) == Settle([u EXCEPT !.code = Tail(@)], p)
Goes(p) == user' = [user EXCEPT ![p] = After(@, p)]
Fails(p, else) == user' = [user EXCEPT ![p].code = else \o Tail(@)]
Acts == acted' = TRUE /\ UNCHANGED <<test, preempts>>
Same == UNCHANGED <<pid, nextpid, said>>
-----------------------------------------------------------------------------
shproc == 1
testproc == 2
NoUser == [code |-> <<>>, x |-> 0, pid |-> 0, pid1 |-> 0, pid2 |-> 0, pid_low |-> 0,
           parent_pid |-> 0, st |-> <<>>, before |-> <<>>, pass |-> -1]
(* init and sh are asleep in wait(), and exec() of the program has         *)
(* returned, some turns after fork().                                      *)
SchedInit ==
  /\ test \in SchedTestNames
  /\ user = [p \in Slots |-> [NoUser EXCEPT !.code =
       CASE p = initproc -> init [] p = shproc -> sh [] p = testproc -> Programs[test] [] OTHER -> <<>>]]
  /\ pid = [p \in Slots |-> IF p <= testproc THEN p + 1 ELSE 0] /\ nextpid = 4
  /\ acted = FALSE /\ preempts = 0 /\ said = <<>>
  /\ state = [p \in Slots |-> CASE p < testproc -> "SLEEPING" [] p = testproc -> "RUNNABLE"
                                [] OTHER -> "UNUSED"]
  /\ parent = [p \in Slots |-> IF p \in {shproc, testproc} THEN p - 1 ELSE NoProc]
  /\ nopid = {p \in Slots : p > testproc} /\ killed = {}
  /\ tickets = [p \in Slots |-> IF p <= testproc THEN 1 ELSE 0]
  /\ init_stride = [p \in Slots |-> IF p <= testproc THEN MAXSTRIDE ELSE 0]
  /\ \E n \in 0 .. 1 :
       /\ ticks = [p \in Slots |-> IF p = testproc THEN n ELSE 0]
       /\ passvalue = [p \in Slots |-> IF p > testproc THEN 0
                                       ELSE IF p = testproc THEN (n + 1) * MAXSTRIDE ELSE MAXSTRIDE]
  /\ pc = [p \in Slots |-> IF p < testproc THEN "wait" ELSE "user"]
  /\ np = [p \in Slots |-> NoProc] /\ ready = {}
  /\ proc = NoProc /\ k = 0 /\ lowestPV = -1 /\ chosenProc = shproc
  /\ mark = NoMark /\ panicked = FALSE

Schedules ==
  \/ Scan /\ UNCHANGED <<test, user, acted, preempts>> /\ Same
  \/ Choose /\ acted' = FALSE /\ UNCHANGED <<test, user, preempts>> /\ Same
  \/ Observe /\ UNCHANGED <<test, user, acted, preempts>> /\ Same

(* The clock takes the CPU.  A turn is longer than any call: a process in  *)
(* no long loop has done something in it.                                  *)
Preempted(p) ==
  /\ Yield(p) /\ acted /\ preempts < MaxPreempts /\ ~Runs(p, "spin")
  /\ preempts' = preempts + 1 /\ UNCHANGED <<test, user, acted>> /\ Same
(* A whole turn of a long loop is over; one that began before the loop     *)
(* may or may not count.                                                   *)
Spins(p) ==
  /\ Yield(p) /\ Runs(p, "spin")
  /\ \/ Arg(p) > 0 /\ user' = [user EXCEPT ![p].code[1].a = @ - 1]
     \/ (acted \/ Arg(p) = forever) /\ UNCHANGED user
  /\ UNCHANGED <<test, acted, preempts>> /\ Same
SpinEnds(p) ==
  /\ Runs(p, "spin") /\ Arg(p) = 0 /\ Goes(p) /\ Acts /\ UNCHANGED vars /\ Same

(* fork(): see Stride.  The child's registers are its parent's. *)
ForkStarts(p) ==
  /\ Runs(p, "fork") /\ AllocProc(p)
  /\ pid' = [pid EXCEPT ![np'[p]] = nextpid] /\ nextpid' = nextpid + 1
  /\ Acts /\ UNCHANGED <<user, said>>
ForkReturns(p) ==
  /\ ForkDone(p)
  /\ user' = [user EXCEPT ![p] = After([@ EXCEPT ![Arg(p)] = pid[np[p]]], p),
                          ![np[p]] = After([user[p] EXCEPT ![Arg(p)] = 0], np[p])]
  /\ Acts /\ Same

Getpid(p) ==
  /\ Runs(p, "getpid") /\ user' = [user EXCEPT ![p] = After([@ EXCEPT ![Arg(p)] = pid[p]], p)]
  /\ Acts /\ UNCHANGED vars /\ Same

Settickets(p) ==
  /\ Runs(p, "settickets") /\ Acts /\ Same
  /\ \/ Arg(p)[1] > 0 /\ SetTickets(p, Arg(p)[1]) /\ Goes(p)
     \/ Arg(p)[1] <= 0 /\ Fails(p, Arg(p)[2]) /\ UNCHANGED vars

(* sys_getpinfo(): the slots one after the other, without ptable.lock. *)
Row_ready(i) == [inuse |-> state[i] = "RUNNABLE", pid |-> IF i \in nopid THEN 0 ELSE pid[i],
           tickets |-> tickets[i], ticks |-> ticks[i], stride |-> init_stride[i], pass |-> passvalue[i]]
Row(i) == [inuse |-> state[i] # "UNUSED", pid |-> IF i \in nopid THEN 0 ELSE pid[i],
           tickets |-> tickets[i], ticks |-> ticks[i], stride |-> init_stride[i], pass |-> passvalue[i]]
Getpinfo(p) ==
  LET where == Arg(p)[1]
      have == IF where \in {"st", "before"} THEN Len(user[p][where]) % NPROC ELSE 0
      read(n) == SubSeq(user[p][where], 1, have) \o [i \in 1 .. n - have |-> Row(have + i - 1)]
  IN /\ Runs(p, "getpinfo") /\ Acts /\ UNCHANGED vars /\ Same
     /\ \/ where \notin {"st", "before"} /\ Fails(p, Arg(p)[2])
        \/ /\ where \in {"st", "before"} /\ user' = [user EXCEPT ![p] = After([@ EXCEPT ![where] = read(NPROC)], p)]
        \/ /\ where \in {"st", "before"} /\ have = 0 /\ preempts < MaxPreempts
           /\ \E n \in 1 .. NPROC - 1 : user' = [user EXCEPT ![p][where] = read(n)]

(* wait(), once or until there is nobody to wait for. *)
Waits(p) ==
  /\ At(p, "wait") \/ Runs(p, "wait") \/ Runs(p, "waitall") \/ Runs(p, "waitfor")
  /\ Wait(p) /\ Acts /\ Same
  /\ LET reaped == nopid' \ nopid
         got == IF reaped = {} THEN -1 ELSE pid[CHOOSE z \in reaped : TRUE]
         again == \/ Head(user[p].code).op = "waitall" /\ got > 0
                  \/ Head(user[p].code).op = "waitfor" /\ got # shproc + 1 /\ got > 0
     IN user' = IF pc'[p] = "wait" \/ again THEN user
                ELSE [user EXCEPT ![p] = After([@ EXCEPT !.x = got], p)]

Kills(p) ==
  /\ Runs(p, "kill")
  /\ \E q \in Slots \ nopid : pid[q] = user[p][Arg(p)] /\ Kill(p, q)
  /\ Goes(p) /\ Acts /\ Same
Says(p) ==
  /\ Runs(p, "say") /\ said' = Append(said, Arg(p))
  /\ Goes(p) /\ Acts /\ UNCHANGED <<vars, pid, nextpid>>
Exits(p) ==
  /\ Exit(p) /\ (p \in killed \/ Runs(p, "exit"))
  /\ Acts /\ Same /\ user' = [user EXCEPT ![p] = NoUser]

(* sleep(); and sh, back at its prompt, sleeps until something is typed. *)
Sleeps(p) ==
  /\ Runs(p, "sleep") \/ Runs(p, "prompt") \/ At(p, "event")
  /\ Sleep(p) /\ Acts /\ UNCHANGED user /\ Same
Woken_(p) ==
  /\ user[p].code # <<>> /\ Head(user[p].code).op = "sleep" /\ Wakeup({p})
  /\ UNCHANGED <<test, user, acted, preempts>> /\ Same
Returns(p) == SleepReturns(p) /\ Goes(p) /\ Acts /\ Same

SchedNext ==
  \/ Schedules
  \/ \E p \in Slots :
       \/ Preempted(p) \/ Spins(p) \/ SpinEnds(p) \/ ForkStarts(p) \/ ForkReturns(p)
       \/ Getpid(p) \/ Settickets(p) \/ Getpinfo(p) \/ Waits(p) \/ Kills(p) \/ Says(p) \/ Exits(p)
       \/ Sleeps(p) \/ Woken_(p) \/ Returns(p)
SchedSpec == SchedInit /\ [][SchedNext]_<<vars, test, user, pid, nextpid, acted, preempts, said>>
-----------------------------------------------------------------------------
(* The tests print what their authors expect: never FAILED, and SUCCESS    *)
(* once before sh prompts again, wherever the clock interrupts; then every  *)
(* process that is left has been given to init.                            *)
Graphs == {"test_graph", "test_c"}
Prompts == user[shproc].code # <<>> /\ Head(user[shproc].code).op = "prompt"
SchedTestsPass ==
  /\ ExitNeverReturns
  /\ \A i \in DOMAIN said : said[i] = "SUCCESS"
  /\ Prompts =>
       /\ Len(said) = (IF test \in Graphs THEN 0 ELSE 1)
       /\ \A p \in Slots \ {initproc, shproc} : state[p] # "UNUSED" => parent[p] = initproc
=============================================================================
