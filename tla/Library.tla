-------------------------------- MODULE Library --------------------------------
(***************************************************************************)
(* The library functions and filters of p2: string.c, ulib.c, printf.c,    *)
(* cprintf(), the argument checks of syscall.c, the keyboard's shift keys, *)
(* wc and grep.  The initial state chooses a function and its argument.    *)
(* What takes one call is done in one step; wc and grep go on read by      *)
(* read, the keyboard key by key.  LibraryRight compares each with what it *)
(* is for.                                                                 *)
(*                                                                         *)
(* A string in memory is a sequence that ends with, and may go on after, a *)
(* 0.                                                                      *)
(***************************************************************************)
EXTENDS Integers, Sequences, FiniteSets, SequencesExt, Folds

CONSTANTS
  Cells,       \* bytes of the memory that memmove() works on
  IntBits,     \* bits of an int
  MaxText,     \* the longest text for match() and wc
  MaxFormat,   \* the longest format
  BUF,         \* grep's buffer
  MaxFile,     \* the longest file for grep
  ShortReads,  \* whether read() may return less than there is
  MaxKeys      \* keys pressed and released

VARIABLES
  fn,      \* the function
  arg,     \* its argument
  out,     \* <<what it has returned>>, or the lines printed so far
  rest,    \* what is still to be read
  state    \* the function's variables between two steps

libVars == <<fn, arg, out, rest, state>>
Upto(S, n) == UNION {[1 .. k -> S] : k \in 0 .. n}
Lesser(a, b) == IF a < b THEN a ELSE b

-----------------------------------------------------------------------------
(* string.c.  One byte after the other is copied, backwards if the areas   *)
(* overlap so that this is needed.                                         *)
CopyByte(m, pair) == [m EXCEPT ![pair[1]] = m[pair[2]]]
Upwards(d, s, n) == [k \in 1 .. n |-> <<d + k - 1, s + k - 1>>]
Order_up(d, s, n) == Upwards(d, s, n)
Order(d, s, n) ==
  IF s < d /\ s + n > d THEN [k \in 1 .. n |-> <<d + n - k, s + n - k>>] ELSE Upwards(d, s, n)
memmove(m, d, s, n) == FoldLeft(CopyByte, m, Order(d, s, n))
user_memmove(m, d, s, n) == FoldLeft(CopyByte, m, Upwards(d, s, n))   \* ulib.c
Moved(m, d, s, n) == [k \in DOMAIN m |-> IF k \in d .. d + n - 1 THEN m[s + k - d] ELSE m[k]]

RECURSIVE strncmp(_, _, _)
strncmp(p, q, n) ==
  IF n > 0 /\ p[1] # 0 /\ p[1] = q[1] THEN strncmp(Tail(p), Tail(q), n - 1)
  ELSE IF n = 0 THEN 0 ELSE p[1] - q[1]

RECURSIVE strncpy(_, _)
strncpy(t, n) ==
  IF n = 0 THEN <<>>
  ELSE IF t[1] # 0 THEN <<t[1]>> \o strncpy(Tail(t), n - 1)
  ELSE [k \in 1 .. n |-> 0]
RECURSIVE safestrcpy(_, _)
safestrcpy(t, n) ==
  IF n <= 0 THEN <<>>
  ELSE IF n = 1 THEN <<0>>
  ELSE IF t[1] = 0 THEN <<0, 0>>
  ELSE <<t[1]>> \o safestrcpy(Tail(t), n - 1)
RECURSIVE memcmp(_, _, _)
memcmp(p, q, n) ==
  IF n = 0 THEN 0 ELSE IF p[1] # q[1] THEN p[1] - q[1] ELSE memcmp(Tail(p), Tail(q), n - 1)
strlen(s) == (CHOOSE k \in DOMAIN s : s[k] = 0 /\ \A j \in 1 .. k - 1 : s[j] # 0) - 1
Text(s) == SubSeq(s, 1, strlen(s))

(* ulib.c.  gets() takes one byte with each read() and keeps the newline.  *)
RECURSIVE strcpy(_, _), strcmp(_, _), strchr(_, _), gets(_, _), atoi(_, _)
strcpy(s, t) == <<t[1]>> \o (IF t[1] = 0 THEN Tail(s) ELSE strcpy(Tail(s), Tail(t)))
strcmp(p, q) ==
  IF p[1] # 0 /\ p[1] = q[1] THEN strcmp(Tail(p), Tail(q)) ELSE p[1] - q[1]
strchr(s, c) ==   \* the place, or 0
  IF s[1] = 0 THEN 0 ELSE IF s[1] = c THEN 1
  ELSE LET k == strchr(Tail(s), c) IN IF k = 0 THEN 0 ELSE k + 1
NL == 2
gets(max, typed) ==
  IF max <= 1 \/ typed = <<>> THEN <<0>>
  ELSE <<typed[1]>> \o (IF typed[1] = NL THEN <<0>> ELSE gets(max - 1, Tail(typed)))
IsDigit(c) == c < 10
atoi(s, n) == IF s # <<>> /\ IsDigit(s[1]) THEN atoi(Tail(s), n * 10 + s[1]) ELSE n

-----------------------------------------------------------------------------
(* printf.c and console.c: an int in some base.  -xx of the least int is   *)
(* that int again, and as an unsigned number its magnitude.                *)
Uint(x) == x % (2 ^ IntBits)
RECURSIVE Digits(_, _)
Digits(x, base) == (IF x \div base = 0 THEN <<>> ELSE Digits(x \div base, base)) \o <<x % base>>
Minus == -1   \* the sign, where a digit is 0 or more
printint(xx, base, sgn) ==
  IF sgn /\ xx < 0 THEN <<Minus>> \o Digits(Uint(-xx), base) ELSE Digits(Uint(xx), base)
Number(ds, base) == FoldLeft(LAMBDA n, d : n * base + d, 0, ds)

(* A format is printed as a sequence of characters and converted arguments,*)
(* named by their place.  printf() has a state, cprintf() looks ahead.     *)
PrintfChar(s, c) ==
  CASE s.pct /\ c \in {"d", "x", "s", "c"} -> [pct |-> FALSE, ap |-> s.ap + 1, to |-> Append(s.to, <<c, s.ap>>)]
    [] s.pct /\ c = "%" -> [s EXCEPT !.pct = FALSE, !.to = Append(@, "%")]
    [] s.pct -> [s EXCEPT !.pct = FALSE, !.to = @ \o <<"%", c>>]
    [] c = "%" -> [s EXCEPT !.pct = TRUE]
    [] OTHER -> [s EXCEPT !.to = Append(@, c)]
printf(fmt) == FoldLeft(PrintfChar, [pct |-> FALSE, ap |-> 1, to |-> <<>>], fmt).to
RECURSIVE cprintfFrom(_, _)
cprintfFrom(fmt, argp) ==
  IF fmt = <<>> \/ fmt = <<"%">> THEN <<>>
  ELSE IF fmt[1] # "%" THEN <<fmt[1]>> \o cprintfFrom(Tail(fmt), argp)
  ELSE LET c == fmt[2]  next == SubSeq(fmt, 3, Len(fmt)) IN
    CASE c \in {"d", "x", "s"} -> <<<<c, argp>>>> \o cprintfFrom(next, argp + 1)
      [] c = "%" -> <<"%">> \o cprintfFrom(next, argp)
      [] OTHER -> <<"%", c>> \o cprintfFrom(next, argp)
cprintf(fmt) == cprintfFrom(fmt, 1)

(* syscall.c: an argument of n bytes at addr, a string at addr. *)
fetchint(sz, addr) == ~(addr >= sz \/ addr + 4 > sz)
argptr(sz, i, n) == ~(i >= sz \/ i + n > sz)
fetchstr(m, addr) ==
  IF addr > Len(m) \/ \A k \in addr .. Len(m) : m[k] # 0 THEN -1
  ELSE (CHOOSE k \in addr .. Len(m) : m[k] = 0 /\ \A j \in addr .. k - 1 : m[j] # 0) - addr

-----------------------------------------------------------------------------
(* grep.c: the matcher for ^ . * $. *)
Char(re, k) == IF k <= Len(re) THEN re[k] ELSE "nul"
RECURSIVE matchhere(_, _), matchstar(_, _, _)
matchhere(re, text) ==
  IF re = <<>> THEN TRUE
  ELSE IF Char(re, 2) = "*" THEN matchstar(re[1], SubSeq(re, 3, Len(re)), text)
  ELSE IF re = <<"$">> THEN text = <<>>
  ELSE /\ text # <<>> /\ (re[1] = "." \/ re[1] = text[1])
       /\ matchhere(Tail(re), Tail(text))
matchstar(c, re, text) ==
  \/ matchhere(re, text)
  \/ text # <<>> /\ (text[1] = c \/ c = ".") /\ matchstar(c, re, Tail(text))
match(re, text) ==
  IF Char(re, 1) = "^" THEN matchhere(Tail(re), text)
  ELSE \E k \in 1 .. Len(text) + 1 : matchhere(re, SubSeq(text, k, Len(text)))

(* What the pattern means: a sequence of items, each a character or any    *)
(* number of it, and where the text may begin and end.                     *)
RECURSIVE Items(_)
Items(re) ==
  IF re = <<>> \/ re = <<"$">> THEN <<>>
  ELSE IF Char(re, 2) = "*" THEN <<<<re[1], TRUE>>>> \o Items(SubSeq(re, 3, Len(re)))
  ELSE <<<<re[1], FALSE>>>> \o Items(Tail(re))
RECURSIVE AtEnd(_)
AtEnd(re) ==
  IF re = <<>> THEN FALSE ELSE IF re = <<"$">> THEN TRUE
  ELSE AtEnd(IF Char(re, 2) = "*" THEN SubSeq(re, 3, Len(re)) ELSE Tail(re))
Fits(item, s) == (item[2] \/ Len(s) = 1) /\ \A k \in DOMAIN s : item[1] = "." \/ s[k] = item[1]
InLanguage(items, s) ==
  \E cut \in [0 .. Len(items) -> 0 .. Len(s)] :
    /\ cut[0] = 0 /\ cut[Len(items)] = Len(s)
    /\ \A i \in 1 .. Len(items) :
         cut[i - 1] <= cut[i] /\ Fits(items[i], SubSeq(s, cut[i - 1] + 1, cut[i]))
Means(re, text) ==
  LET anchored == Char(re, 1) = "^"
      body == IF anchored THEN Tail(re) ELSE re
  IN \E i \in 1 .. Len(text) + 1, j \in 0 .. Len(text) :
       /\ anchored => i = 1
       /\ AtEnd(body) => j = Len(text)
       /\ i <= j + 1 /\ InLanguage(Items(body), SubSeq(text, i, j))

-----------------------------------------------------------------------------
(* kbd.c: the shift keys, from the bytes the keyboard sends.  A key sends  *)
(* its code when pressed and the code with the top bit when released; the  *)
(* right control key sends 0xE0 first.                                     *)
Keys == {"shift", "ctl", "right_ctl", "caps", "a"}
Code == [shift |-> 42, ctl |-> 29, right_ctl |-> 29, caps |-> 58, a |-> 30]
shiftcode(data) == IF data = 42 THEN {"SHIFT"} ELSE IF data \in {29, 157} THEN {"CTL"} ELSE {}
Flipped(S, x) == IF x \in S THEN S \ {x} ELSE S \cup {x}
kbdgetc(s, data) ==
  IF data = 224 THEN [shift |-> s.shift \cup {"E0ESC"}, c |-> "none"]
  ELSE IF data >= 128
    THEN [shift |-> s.shift \ (shiftcode(IF "E0ESC" \in s.shift THEN data ELSE data - 128) \cup {"E0ESC"}),
          c |-> "none"]
  ELSE LET code == IF "E0ESC" \in s.shift THEN data + 128 ELSE data
           held == (s.shift \ {"E0ESC"}) \cup shiftcode(code)
           shift == IF code = 58 THEN Flipped(held, "CAPSLOCK") ELSE held
           key == IF code # 30 THEN "none"
                  ELSE IF "CTL" \in shift THEN "^A"
                  ELSE IF ("SHIFT" \in shift) # ("CAPSLOCK" \in shift) THEN "A" ELSE "a"
       IN [shift |-> shift, c |-> key]
Sent(k, pressed) ==
  (IF k = "right_ctl" THEN <<224>> ELSE <<>>) \o <<Code[k] + (IF pressed THEN 0 ELSE 128)>>

-----------------------------------------------------------------------------
Bytes == {0, 1, 2}
Strings == {s \in [1 .. 3 -> Bytes] : \E k \in 1 .. 3 : s[k] = 0}
PatternChars == {"a", "b", ".", "*", "^", "$"}
Files == Upto({"a", "b", "nl"}, MaxFile)
Arguments(f) ==
  CASE f = "memmove" -> {<<d, s, n>> \in (1 .. Cells) \X (1 .. Cells) \X (0 .. Cells) : d + n <= Cells + 1 /\ s + n <= Cells + 1}
    [] f = "strings" -> Strings \X Strings \X (0 .. 4)
    [] f = "ulib" -> Strings \X Strings \X (1 .. 5)
    [] f = "atoi" -> Upto({0, 7, 9, 10}, 4)
    [] f = "printint" -> (-(2 ^ (IntBits - 1)) .. 2 ^ (IntBits - 1) - 1) \X {10, 16} \X BOOLEAN
    [] f = "printf" -> Upto({"a", "%", "d", "s", "c"}, MaxFormat)
    [] f = "fetch" -> Strings \X (0 .. 8) \X (0 .. 8)
    [] f = "match" -> Upto(PatternChars, 3) \X Upto({"a", "b"}, MaxText)
    [] f = "wc" -> Upto({"a", " ", "nl"}, MaxText + 2)
    [] f = "grep" -> {<<re, file>> \in {<<"a">>, <<"^", "b">>} \X Files : Len(file) <= MaxFile}
    [] f = "kbd" -> {<<>>}
LibInit ==
  /\ fn \in {"memmove", "strings", "ulib", "atoi", "printint", "printf", "fetch", "match", "wc", "grep", "kbd"}
  /\ arg \in Arguments(fn)
  /\ out = <<>>
  /\ rest = IF fn = "wc" THEN arg ELSE IF fn = "grep" THEN arg[2] ELSE <<>>
  /\ state = IF fn = "wc" THEN [l |-> 0, w |-> 0, c |-> 0, inword |-> FALSE]
             ELSE IF fn = "grep" THEN [buf |-> [k \in 1 .. BUF |-> "nul"], m |-> 0]
             ELSE IF fn = "kbd" THEN [shift |-> {}, c |-> "none"] ELSE <<>>

Run ==
  CASE fn = "memmove" -> [kernel |-> memmove([k \in 1 .. Cells |-> k], arg[1], arg[2], arg[3]),
                          user |-> user_memmove([k \in 1 .. Cells |-> k], arg[1], arg[2], arg[3])]
    [] fn = "strings" -> [cmp |-> strncmp(arg[1], arg[2], arg[3]), cpy |-> strncpy(arg[1], arg[3]),
                          safe |-> safestrcpy(arg[1], arg[3]),
                          mem |-> memcmp(arg[1], arg[2], Lesser(arg[3], 3))]
    [] fn = "ulib" -> [cpy |-> strcpy(arg[1], arg[2]), cmp |-> strcmp(arg[1], arg[2]),
                       chr |-> strchr(arg[1], arg[3] % 3), got |-> gets(arg[3], arg[2])]
    [] fn = "atoi" -> atoi(arg, 0)
    [] fn = "printint" -> printint(arg[1], arg[2], arg[3])
    [] fn = "printf" -> <<printf(arg), cprintf(arg)>>
    [] fn = "fetch" -> [int |-> fetchint(arg[2], arg[3]), str |-> fetchstr(arg[1], arg[2] + 1),
                        ptr |-> argptr(arg[2], arg[3], 2)]
    [] fn = "match" -> match(arg[1], arg[2])
Call ==
  /\ fn \notin {"wc", "grep", "kbd"} /\ out = <<>>
  /\ out' = <<Run>>
  /\ UNCHANGED <<fn, arg, rest, state>>

(* A read of at most `room` bytes returns n of them. *)
Returned(room, n) ==
  /\ n >= 1 /\ n <= Lesser(room, Len(rest))
  /\ ~ShortReads => n = Lesser(room, Len(rest))
WcChar(s, c) ==
  [l |-> s.l + (IF c = "nl" THEN 1 ELSE 0), c |-> s.c + 1,
   w |-> s.w + (IF c \notin {" ", "nl"} /\ ~s.inword THEN 1 ELSE 0),
   inword |-> c \notin {" ", "nl"}]
WcRead(n) ==
  /\ fn = "wc" /\ n >= 1 /\ n <= Len(rest)
  /\ state' = FoldLeft(WcChar, state, SubSeq(rest, 1, n))
  /\ rest' = SubSeq(rest, n + 1, Len(rest))
  /\ UNCHANGED <<fn, arg, out>>

(* The lines of the buffer from place p on: strchr() looks for a newline   *)
(* up to the next 0, not up to what has been read, and the newline of a    *)
(* line that does not match stays overwritten by 0.                        *)
Newline(b, p) ==
  {q \in p .. BUF : b[q] = "nl" /\ \A k \in p .. q - 1 : b[k] \notin {"nl", "nul"}}
RECURSIVE GrepLines(_, _, _, _)
GrepLines(re, b, p, printed) ==
  IF Newline(b, p) = {} THEN [b |-> b, p |-> p, out |-> printed]
  ELSE LET q == CHOOSE x \in Newline(b, p) : TRUE
           line == SubSeq(b, p, q - 1)
       IN IF match(re, line) THEN GrepLines(re, b, q + 1, Append(printed, line))
          ELSE GrepLines(re, [b EXCEPT ![q] = "nul"], q + 1, printed)
GrepRead(n) ==
  /\ fn = "grep" /\ Returned(BUF - state.m, n)
  /\ LET b0 == [k \in 1 .. BUF |-> IF k > state.m /\ k <= state.m + n THEN rest[k - state.m] ELSE state.buf[k]]
         g == GrepLines(arg[1], b0, 1, out)
         m == IF g.p = 1 THEN 0 ELSE state.m + n - (g.p - 1)
     IN /\ out' = g.out
        /\ state' = [buf |-> Moved(g.b, 1, g.p, m), m |-> m]
  /\ rest' = SubSeq(rest, n + 1, Len(rest))
  /\ UNCHANGED <<fn, arg>>

(* A key is pressed, or a pressed one released. *)
HeldKeys == {k \in Keys : Cardinality({i \in DOMAIN arg : arg[i] = k}) % 2 = 1}
Key(k) ==
  /\ fn = "kbd" /\ Len(arg) < MaxKeys
  /\ state' = FoldLeft(kbdgetc, state, Sent(k, k \notin HeldKeys))
  /\ arg' = Append(arg, k)
  /\ UNCHANGED <<fn, out, rest>>

-----------------------------------------------------------------------------
(* What each function is for. *)
RECURSIVE LinesOf(_)
LinesOf(file) ==
  LET ends == {k \in DOMAIN file : file[k] = "nl"} IN
    IF ends = {} THEN <<>>
    ELSE LET q == CHOOSE k \in ends : \A j \in ends : k <= j
         IN <<SubSeq(file, 1, q - 1)>> \o LinesOf(SubSeq(file, q + 1, Len(file)))
StringsRight(r) ==
  LET p == Text(arg[1])  q == Text(arg[2])  n == arg[3]
      cut(s) == SubSeq(s, 1, Lesser(n, Len(s)))
  IN /\ (r.cmp = 0) = (cut(p) = cut(q))
     /\ Len(r.cpy) = n /\ SubSeq(r.cpy \o <<0>>, 1, Lesser(n, Len(p))) = cut(p)
     /\ \A k \in Len(p) + 1 .. n : r.cpy[k] = 0
     /\ (r.mem = 0) = (SubSeq(arg[1], 1, Lesser(n, 3)) = SubSeq(arg[2], 1, Lesser(n, 3)))
     /\ n > 0 => /\ Len(r.safe) <= n /\ Last(r.safe) = 0
                 /\ Text(r.safe) = SubSeq(p, 1, Lesser(n - 1, Len(p)))
MemmoveRight(r) ==
  LET moved == Moved([k \in 1 .. Cells |-> k], arg[1], arg[2], arg[3])
  IN /\ r.kernel = moved
     /\ arg[1] \notin arg[2] + 1 .. arg[2] + arg[3] - 1 => r.user = moved
UlibRight(r) ==
  LET p == Text(arg[1])  q == Text(arg[2])  c == arg[3] % 3
      typed == SelectInSeq(arg[2], LAMBDA x : x = NL)   \* where the line ends
  IN /\ (r.cmp = 0) = (p = q)
     /\ Text(r.cpy) = q /\ \A k \in Len(q) + 2 .. 3 : r.cpy[k] = arg[1][k]
     /\ IF c \in Range(p) /\ c # 0 THEN p[r.chr] = c /\ c \notin Range(SubSeq(p, 1, r.chr - 1)) ELSE r.chr = 0
     /\ SubSeq(r.got, 1, Len(r.got) - 1) =
          SubSeq(arg[2], 1, Lesser(arg[3] - 1, IF typed = 0 THEN 3 ELSE typed))
     /\ Last(r.got) = 0
PrintintRight(digits) ==
  LET neg == digits[1] = Minus
      value == Number(IF neg THEN Tail(digits) ELSE digits, arg[2])
  IN (IF neg THEN -value ELSE value) = (IF arg[3] THEN arg[1] ELSE Uint(arg[1]))
FetchRight(r) ==
  /\ r.int = (arg[3] .. arg[3] + 3 \subseteq 0 .. arg[2] - 1)
  /\ r.ptr = (arg[3] .. arg[3] + 1 \subseteq 0 .. arg[2] - 1)
  /\ r.str >= 0 => Text(SubSeq(arg[1], arg[2] + 1, 3)) = SubSeq(arg[1], arg[2] + 1, arg[2] + r.str)
KeysRight ==
  LET count(k) == Cardinality({i \in DOMAIN arg : arg[i] = k})
      held == HeldKeys
  IN /\ ("SHIFT" \in state.shift) = ("shift" \in held)
     /\ held \cap {"ctl", "right_ctl"} = {} => "CTL" \notin state.shift
     /\ ("CAPSLOCK" \in state.shift) = (((count("caps") + 1) \div 2) % 2 = 1)
     /\ "E0ESC" \notin state.shift
(* Memory that overlaps is moved whole (by programs' memmove() if it goes  *)
(* down), strings are cut, compared and ended where they must be, a line   *)
(* is read up to its newline, every int prints as its value, printf() and cprintf()     *)
(* agree, arguments are accepted if they lie in the process, match() means *)
(* what its operators say, wc counts words however read() cuts them, grep  *)
(* prints the lines that match, and no shift key stays on.                 *)
Answered(f) == fn = f /\ out # <<>>
LibraryRight ==
  /\ Answered("memmove") => MemmoveRight(out[1])
  /\ Answered("strings") => StringsRight(out[1])
  /\ Answered("ulib") => UlibRight(out[1])
  /\ Answered("atoi") =>
       \E k \in 0 .. Len(arg) :
         /\ \A j \in 1 .. k : IsDigit(arg[j])
         /\ k < Len(arg) => ~IsDigit(arg[k + 1])
         /\ out[1] = Number(SubSeq(arg, 1, k), 10)
  /\ Answered("printint") => PrintintRight(out[1])
  /\ Answered("printf") => ("c" \in Range(arg) \/ out[1][1] = out[1][2])
  /\ Answered("fetch") => FetchRight(out[1])
  /\ Answered("match") => out[1] = Means(arg[1], arg[2])
  /\ (fn = "wc" /\ rest = <<>>) =>
       /\ state.c = Len(arg) /\ state.l = Len(LinesOf(arg))
       /\ state.w = Cardinality({k \in DOMAIN arg : arg[k] = "a" /\ (k = 1 \/ arg[k - 1] # "a")})
  /\ (fn = "grep" /\ rest = <<>>) => out = SelectSeq(LinesOf(arg[2]), LAMBDA line : Means(arg[1], line))
  /\ fn = "kbd" => KeysRight
=============================================================================
