------------------------------ MODULE Console ------------------------------
(***************************************************************************)
(* console.c: the keyboard interrupt fills a circular buffer, processes    *)
(* read lines out of it.  input.lock is held by a reader from the          *)
(* beginning of its loop until it sleeps or ends; between two characters   *)
(* of it only what needs no input.lock can happen, a kill().               *)
(***************************************************************************)
EXTENDS Naturals, Sequences

CONSTANTS Readers, NoReader, Chars,
          INPUT_BUF, Wrap,  \* r, w and e are unsigned: they count modulo Wrap
          MaxRead           \* bound of the model: characters asked for

VARIABLES
  buf, r, w, e,     \* input
  lock,             \* input.lock: the reader that has it
  rpc, target, dst, \* a read: its place, what it wants, what it has
  sleeping, killed

input == <<buf, r, w, e>>
consvars == <<buf, r, w, e, lock, rpc, target, dst, sleeping, killed>>

ConsInit ==
  /\ buf = [i \in 0 .. INPUT_BUF - 1 |-> "nul"] /\ r = 0 /\ w = 0 /\ e = 0
  /\ lock = NoReader
  /\ rpc = [p \in Readers |-> "user"] /\ target = [p \in Readers |-> 0]
  /\ dst = [p \in Readers |-> <<>>]
  /\ sleeping = {} /\ killed = {}

Plus(i, n) == (i + n) % Wrap
Minus(i, n) == (i + Wrap - n) % Wrap
Cell(i) == buf[i % INPUT_BUF]
-----------------------------------------------------------------------------
(* consoleintr(): one key. *)
HasRoom_off_by_one == Minus(e, r) <= INPUT_BUF
HasRoom == Minus(e, r) < INPUT_BUF
Committed(c) == c \in {"nl", "eof"} \/ Plus(e, 1) = Plus(r, INPUT_BUF)
KeyChar(c) ==
  /\ lock = NoReader /\ HasRoom
  /\ buf' = [buf EXCEPT ![e % INPUT_BUF] = c] /\ e' = Plus(e, 1)
  /\ IF Committed(c) THEN w' = e' /\ sleeping' = {}
                     ELSE UNCHANGED <<w, sleeping>>
  /\ UNCHANGED <<r, lock, rpc, target, dst, killed>>
KeyBackspace ==
  /\ lock = NoReader /\ e # w /\ e' = Minus(e, 1)
  /\ UNCHANGED <<buf, r, w, lock, rpc, target, dst, sleeping, killed>>
(* Ctrl-U stops at w or after a newline. *)
Stops == {k \in 0 .. Minus(e, w) : k = Minus(e, w) \/ Cell(Minus(e, k + 1)) = "nl"}
KeyKill ==
  /\ lock = NoReader
  /\ e' = Minus(e, CHOOSE k \in Stops : \A j \in Stops : k <= j)
  /\ UNCHANGED <<buf, r, w, lock, rpc, target, dst, sleeping, killed>>

(* consoleread() *)
Read(p, n) ==
  /\ rpc[p] = "user" /\ lock = NoReader /\ p \notin killed
  /\ target' = [target EXCEPT ![p] = n] /\ rpc' = [rpc EXCEPT ![p] = "loop"]
  /\ lock' = p
  /\ UNCHANGED <<input, dst, sleeping, killed>>
Finish(p) ==
  /\ lock' = NoReader /\ rpc' = [rpc EXCEPT ![p] = "user"]
  /\ target' = [target EXCEPT ![p] = 0] /\ dst' = [dst EXCEPT ![p] = <<>>]
AtLoop(p) == rpc[p] = "loop" /\ lock = p
LastIn(s) == s # <<>> /\ s[Len(s)] \in {"nl", "eof"}
More(p) == Len(dst[p]) < target[p] /\ ~LastIn(dst[p])

(* A character; an end of file that comes after others is put back. *)
Given(p) == ~(Cell(r) = "eof" /\ dst[p] # <<>>)
ReadChar(p) ==
  /\ AtLoop(p) /\ More(p) /\ r # w /\ Given(p)
  /\ r' = Plus(r, 1) /\ dst' = [dst EXCEPT ![p] = Append(@, Cell(r))]
  /\ UNCHANGED <<buf, w, e, lock, rpc, target, sleeping, killed>>
ReadEnds(p) ==
  /\ AtLoop(p) /\ (~More(p) \/ (r # w /\ ~Given(p)))
  /\ Finish(p) /\ UNCHANGED <<input, sleeping, killed>>

(* Nothing to read: is the process killed?  If not, it sleeps. *)
ReadKilled(p) ==
  /\ AtLoop(p) /\ More(p) /\ r = w /\ p \in killed
  /\ Finish(p) /\ UNCHANGED <<input, sleeping, killed>>
ReadEmpty(p) ==
  /\ AtLoop(p) /\ More(p) /\ r = w /\ p \notin killed
  /\ rpc' = [rpc EXCEPT ![p] = "sleep"]
  /\ UNCHANGED <<input, lock, target, dst, sleeping, killed>>
ReadSleep(p) ==
  /\ rpc[p] = "sleep" /\ lock = p
  /\ sleeping' = sleeping \cup {p} /\ lock' = NoReader
  /\ UNCHANGED <<input, rpc, target, dst, killed>>
ReadWakes(p) ==
  /\ rpc[p] = "sleep" /\ lock = NoReader /\ p \notin sleeping
  /\ lock' = p /\ rpc' = [rpc EXCEPT ![p] = "loop"]
  /\ UNCHANGED <<input, target, dst, sleeping, killed>>

(* kill() needs ptable.lock only. *)
KillReader(p) ==
  /\ killed' = killed \cup {p} /\ sleeping' = sleeping \ {p}
  /\ UNCHANGED <<input, lock, rpc, target, dst>>

ConsNext ==
  \/ \E c \in Chars : KeyChar(c)
  \/ KeyBackspace \/ KeyKill
  \/ \E p \in Readers :
       \/ \E n \in 1 .. MaxRead : Read(p, n)
       \/ ReadChar(p) \/ ReadEnds(p) \/ ReadKilled(p) \/ ReadEmpty(p)
       \/ ReadSleep(p) \/ ReadWakes(p) \/ KillReader(p)
ConsSpec == ConsInit /\ [][ConsNext]_consvars
-----------------------------------------------------------------------------
(* Nobody sleeps while there is something to read: wakeup() wakes all that *)
(* wait, and one that gets only a part leaves the rest to who runs next.   *)
SleepsOnlyIfEmpty == sleeping # {} => r = w

(* console.c keeps the promise: the editing of the line and the reading of *)
(* lines do not disturb each other, although they share a buffer whose     *)
(* indices wrap around, at two ends.                                       *)
Between(i, j) == [k \in 1 .. Minus(j, i) |-> Cell(Plus(i, k - 1))]
Promise == INSTANCE LineInput WITH
  line <- Between(w, e), ready <- Between(r, w), Room <- INPUT_BUF,
  reading <- target, got <- dst, dead <- killed
LineDiscipline == Promise!Spec
=============================================================================
