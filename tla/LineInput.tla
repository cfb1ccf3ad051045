----------------------------- MODULE LineInput -----------------------------
(***************************************************************************)
(* What console.c promises to those who read the console: the line being   *)
(* typed can be edited and nobody reads any of it before it is ended;      *)
(* what has been ended is read once and in order, and a read takes no more *)
(* than a line and than it asked for.                                      *)
(***************************************************************************)
EXTENDS Naturals, Sequences, SequencesExt

CONSTANTS Readers, Chars,
          Room,     \* of the buffer
          MaxRead   \* what a read may ask for

VARIABLES line,    \* being edited
          ready,   \* ended, not read yet
          reading, \* what each read has asked for; 0 when there is none
          got,     \* what each read has been given
          dead     \* processes that have been killed

lineVars == <<line, ready, reading, got, dead>>

Ends(c) == c \in {"nl", "eof"}
LineFull(s) == Len(ready) + Len(s) = Room
Init == line = <<>> /\ ready = <<>> /\ reading = [p \in Readers |-> 0] /\ got = [p \in Readers |-> <<>>] /\ dead = {}

Type(c) ==
  /\ Len(ready) + Len(line) < Room
  /\ IF Ends(c) \/ LineFull(Append(line, c))
     THEN ready' = ready \o Append(line, c) /\ line' = <<>>
     ELSE line' = Append(line, c) /\ UNCHANGED ready
  /\ UNCHANGED <<reading, got, dead>>
Rub == line # <<>> /\ line' = Front(line) /\ UNCHANGED <<ready, reading, got, dead>>
KillLine == line' = <<>> /\ UNCHANGED <<ready, reading, got, dead>>

Ask(p, n) ==
  /\ reading[p] = 0 /\ n > 0 /\ reading' = [reading EXCEPT ![p] = n]
  /\ UNCHANGED <<line, ready, got, dead>>
(* An end of file is left for the next read if this one has something. *)
Complete(p) ==
  \/ Len(got[p]) = reading[p] \/ (got[p] # <<>> /\ Ends(Last(got[p])))
  \/ got[p] # <<>> /\ ready # <<>> /\ Head(ready) = "eof"
Give(p) ==
  /\ reading[p] > 0 /\ ~Complete(p) /\ ready # <<>>
  /\ got' = [got EXCEPT ![p] = Append(@, Head(ready))] /\ ready' = Tail(ready)
  /\ UNCHANGED <<line, reading, dead>>
Return(p) ==
  /\ reading[p] > 0 /\ (Complete(p) \/ p \in dead)
  /\ reading' = [reading EXCEPT ![p] = 0] /\ got' = [got EXCEPT ![p] = <<>>]
  /\ UNCHANGED <<line, ready, dead>>
Kill(p) == dead' = dead \cup {p} /\ UNCHANGED <<line, ready, reading, got>>

Next ==
  \/ \E c \in Chars : Type(c)
  \/ Rub \/ KillLine
  \/ \E p \in Readers : (\E n \in 1 .. MaxRead : Ask(p, n)) \/ Give(p) \/ Return(p) \/ Kill(p)
Spec == Init /\ [][Next]_lineVars
=============================================================================
