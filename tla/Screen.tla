-------------------------------- MODULE Screen --------------------------------
(***************************************************************************)
(* The screen of p2's console: consputc() and cgaputc() of console.c, as   *)
(* cprintf() and write() call them under cons.lock, and the keyboard       *)
(* interrupt, which echoes what is typed, under input.lock.  (The serial   *)
(* line is sent the same characters.)                                      *)
(*                                                                         *)
(* The cursor is a register of the display of two bytes, each chosen by    *)
(* writing its number to a port before it is read or written.  On one CPU  *)
(* the locks keep interrupts off, so nobody comes between; on two CPUs the *)
(* two locks do not exclude each other.                                    *)
(***************************************************************************)
EXTENDS Integers, Sequences

CONSTANTS
  ROWS, COLS,    \* 24 rows that are used, 80 columns
  BYTE,          \* values of a byte, 256
  MaxPut,        \* bound of the model: characters
  CpuCount

Writers == {"cprintf", "echo"}
Chars == {"a", "nl", "BACKSPACE"}
Last == ROWS * COLS          \* one more row exists, and is not used
Cells == 0 .. Last + COLS - 1
Blank == " "

VARIABLES
  crt,                  \* the cells of the screen
  index, hi, lo,        \* the display's register number, the two bytes of the cursor
  wpc, c, pos,          \* cgaputc() of each writer: place, argument, local variable
  crashed,              \* a cell that is none has been written
  put, text, end, top   \* what should be there: characters put so far, the lines
                        \* of an endless screen, its cursor, the first row to be seen
screenvars == <<crt, index, hi, lo, wpc, c, pos, crashed, put, text, end, top>>

ScreenInit ==
  /\ crt = [k \in Cells |-> Blank] /\ index = 14 /\ hi = 0 /\ lo = 0
  /\ wpc = [w \in Writers |-> "idle"] /\ c = [w \in Writers |-> "a"] /\ pos = [w \in Writers |-> 0]
  /\ crashed = FALSE
  /\ put = 0 /\ text = [k \in 0 .. COLS * (ROWS + MaxPut) |-> Blank] /\ end = 0 /\ top = 0

To(w, at) == wpc' = [wpc EXCEPT ![w] = at]
registers == <<index, hi, lo>>
meant == <<put, text, end, top>>

(* On one CPU a call runs through before another begins. *)
Consputc(w, ch) ==
  /\ wpc[w] = "idle" /\ put < MaxPut /\ ~crashed
  /\ CpuCount = 1 => \A v \in Writers : wpc[v] = "idle"
  /\ To(w, "select_hi") /\ c' = [c EXCEPT ![w] = ch]
  /\ put' = put + 1
  /\ LET at == CASE ch = "a" -> end + 1
                 [] ch = "nl" -> (end \div COLS + 1) * COLS
                 [] ch = "BACKSPACE" -> IF end > top * COLS THEN end - 1 ELSE end
     IN /\ end' = at
        /\ text' = [[text EXCEPT ![end] = IF ch = "a" THEN "a" ELSE @] EXCEPT ![at] = Blank]
        /\ top' = IF at \div COLS >= top + ROWS THEN top + 1 ELSE top
  /\ UNCHANGED <<crt, registers, pos, crashed>>

(* outb() of the register's number, then of or from its value. *)
Select(w, from, number, to) ==
  /\ wpc[w] = from /\ index' = number /\ To(w, to)
  /\ UNCHANGED <<crt, hi, lo, c, pos, crashed, meant>>
SelectHi(w) == Select(w, "select_hi", 14, "read_hi")
SelectLo(w) == Select(w, "select_lo", 15, "read_lo")
Register == IF index = 14 THEN hi ELSE lo
ReadHi(w) ==
  /\ wpc[w] = "read_hi" /\ To(w, "select_lo") /\ pos' = [pos EXCEPT ![w] = Register * BYTE]
  /\ UNCHANGED <<crt, registers, c, crashed, meant>>
ReadLo(w) ==
  /\ wpc[w] = "read_lo" /\ To(w, "draw") /\ pos' = [pos EXCEPT ![w] = @ + Register]
  /\ UNCHANGED <<crt, registers, c, crashed, meant>>

Moved(w) ==
  CASE c[w] = "nl" -> pos[w] + COLS - (pos[w] % COLS)
    [] c[w] = "BACKSPACE" -> IF pos[w] > 0 THEN pos[w] - 1 ELSE pos[w]
    [] OTHER -> pos[w] + 1
Drawn(w) == IF c[w] = "a" THEN [crt EXCEPT ![pos[w]] = "a"] ELSE crt
(* memmove() of all rows but the first, memset() of the rest. *)
Scrolled_unset(s, p) == [k \in Cells |-> IF k < (ROWS - 1) * COLS THEN s[k + COLS] ELSE s[k]]
Scrolled(s, p) ==
  [k \in Cells |-> IF k >= p /\ k < Last THEN Blank
                   ELSE IF k < (ROWS - 1) * COLS THEN s[k + COLS] ELSE s[k]]
Draw(w) ==
  /\ wpc[w] = "draw"
  /\ IF (c[w] = "a" /\ pos[w] \notin Cells) \/ Moved(w) - COLS > Last
     THEN crashed' = TRUE /\ UNCHANGED <<crt, pos>>
     ELSE /\ LET scrolls == Moved(w) \div COLS >= ROWS
             IN /\ pos' = [pos EXCEPT ![w] = IF scrolls THEN Moved(w) - COLS ELSE Moved(w)]
                /\ crt' = IF scrolls THEN Scrolled(Drawn(w), Moved(w) - COLS) ELSE Drawn(w)
          /\ UNCHANGED crashed
  /\ To(w, "set_hi") /\ UNCHANGED <<registers, c, meant>>

SetHi(w) == Select(w, "set_hi", 14, "write_hi")
SetLo(w) == Select(w, "set_lo", 15, "write_lo")
Sets(value) ==
  IF index = 14 THEN hi' = value /\ UNCHANGED lo ELSE lo' = value /\ UNCHANGED hi
WriteHi(w) ==
  /\ wpc[w] = "write_hi" /\ To(w, "set_lo") /\ Sets(pos[w] \div BYTE)
  /\ UNCHANGED <<crt, index, c, pos, crashed, meant>>
WriteLo(w) ==
  /\ wpc[w] = "write_lo" /\ To(w, "space") /\ Sets(pos[w] % BYTE)
  /\ UNCHANGED <<crt, index, c, pos, crashed, meant>>
Space(w) ==
  /\ wpc[w] = "space" /\ To(w, "idle")
  /\ crt' = IF pos[w] \in Cells THEN [crt EXCEPT ![pos[w]] = Blank] ELSE crt
  /\ crashed' = (crashed \/ pos[w] \notin Cells)
  /\ c' = [c EXCEPT ![w] = "a"] /\ pos' = [pos EXCEPT ![w] = 0]
  /\ UNCHANGED <<registers, meant>>

ScreenNext ==
  \E w \in Writers :
    \/ \E ch \in Chars : Consputc(w, ch)
    \/ SelectHi(w) \/ ReadHi(w) \/ SelectLo(w) \/ ReadLo(w) \/ Draw(w)
    \/ SetHi(w) \/ WriteHi(w) \/ SetLo(w) \/ WriteLo(w) \/ Space(w)
ScreenSpec == ScreenInit /\ [][ScreenNext]_screenvars
-----------------------------------------------------------------------------
(* console.c:128, "Cursor position: col + 80*row": between two calls the   *)
(* screen is the last rows of an endless one, with the cursor where the    *)
(* next character belongs, however it scrolled and whatever was rubbed     *)
(* out; no cell that is none is written.                                   *)
ScreenRight ==
  /\ ~crashed
  /\ (\A w \in Writers : wpc[w] = "idle") =>
       /\ hi * BYTE + lo = end - top * COLS
       /\ \A k \in 0 .. Last - 1 : crt[k] = text[top * COLS + k]
=============================================================================
