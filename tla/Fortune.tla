-------------------------------- MODULE Fortune --------------------------------
(***************************************************************************)
(* p1: badger_fortune.c, which prints fortunes of a file: one (-n), or     *)
(* those whose numbers are in a batch file (-b), to a file with -o.        *)
(*                                                                         *)
(* A text is a sequence of characters, "nl" its newlines; the messages are *)
(* single words.  What C leaves undefined (an argument or an element that  *)
(* is not there, a string longer than its memory) ends in the place        *)
(* "undefined".                                                            *)
(***************************************************************************)
EXTENDS Integers, Sequences, SequencesExt, FiniteSetsExt

CONSTANTS
  Fortunes,    \* how many a fortune file may say it has
  Longest,     \* and how long the longest, which is what malloc() is asked for
  Extra,       \* how many it may have more, or less
  Numbers,     \* what -n and a batch may ask for
  MaxBatch,    \* bound of the model: lines of a batch
  Dirty        \* may malloc()ed memory hold something before its first null?

VARIABLES
  argv, file, batch,     \* arguments and files
  i, flag,               \* main()'s loop over argv, and its fNum, nNum, bNum, oNum
  fortune, num,          \* the array, and the header: its length, its elements'
  line, batchCounter,
  out,                   \* what is printed, and where: [to, text]
  fpc
fortunevars == <<argv, file, batch, i, flag, fortune, num, line, batchCounter, out, fpc>>

Leftovers == IF Dirty THEN {<<>>, <<"x">>} ELSE {<<>>}
Text(n) == IF n = 2 THEN <<"b", "nl", "b", "nl">> ELSE <<"a", "nl">>
(* A line of a batch, the last of which may lack its newline. *)
Batches ==
  {s \in UNION {[1 .. m -> [n : Numbers, nl : BOOLEAN]] : m \in 0 .. MaxBatch} :
     \A x \in 1 .. Len(s) - 1 : s[x].nl}
(* The header may have no line, one or two: the texts come after the second. *)
Fortunefile(opens, header, texts) == [opens |-> opens, header |-> header, texts |-> texts]
FortuneFiles ==
  {Fortunefile(FALSE, <<>>, <<>>), Fortunefile(TRUE, <<>>, <<>>)} \cup
  {Fortunefile(TRUE, <<n>>, <<>>) : n \in Fortunes} \cup
  {Fortunefile(TRUE, <<n, m>>, [x \in 1 .. n + e |-> Text(x)])
     : n \in Fortunes, m \in Longest, e \in Extra}
Roomy(g) == g.header = <<Max(Fortunes), Max(Longest)>>

Flags == {"f", "n", "b", "o"}
FlagWord(w) == [ f |-> "-f", n |-> "-n", b |-> "-b", o |-> "-o"][w]
Ask(n) == [is |-> "number", n |-> n]
Name(x) == [is |-> x, n |-> 0]
Pairs(n) == {<<Name("-f"), Name("fortunes")>>, <<Name("-n"), Ask(n)>>, <<Name("-b"), Name("batch")>>, <<Name("-o"), Name("out")>>}
Usual(n) == {p \o q : p, q \in Pairs(n)} \cup
  {t[1] \o t[2] \o t[3] : t \in {x \in [1 .. 3 -> Pairs(n)] : Cardinality(Range(x)) = 3 \/ (x[1][1] = Name("-f") /\ x[2] = x[3])}}
Odd == UNION {[1 .. m -> {Name("-f"), Name("-n"), Name("-b"), Name("-o"), Ask(1), Name("fortunes")}] : m \in 3 .. 4}

FortuneInit ==
  /\ \/ argv \in Odd /\ file \in {g \in FortuneFiles : Roomy(g) /\ Len(g.texts) = g.header[1]} /\ batch = <<>>
     \/ /\ argv \in UNION {Usual(n) : n \in Numbers} /\ file \in FortuneFiles
        /\ batch \in (IF Name("-b") \in ToSet(argv) THEN Batches ELSE {<<>>})
        /\ Roomy(file) \/ Len(batch) <= 1
  /\ i = 1 /\ flag = [w \in Flags |-> 0] /\ fortune = <<>> /\ num = <<0, 0>> /\ line = 1 /\ batchCounter = 0
  /\ out = <<>> /\ fpc = "arguments"

Stop(why) ==
  /\ fpc' = why /\ UNCHANGED <<argv, file, batch, i, flag, fortune, num, line, batchCounter, out>>
At(pc) == fpc = pc /\ UNCHANGED <<argv, file, batch>>
-----------------------------------------------------------------------------
(* The flags, wherever they stand; a value may look like one. *)
Usage == fpc = "arguments" /\ Len(argv) < 4 /\ Stop("error")
Excludes(w) == (w = "n" /\ flag["b"] > 0) \/ (w = "b" /\ flag["n"] > 0)
ParseArg ==
  /\ At("arguments") /\ Len(argv) >= 4 /\ i <= Len(argv)
  /\ LET is == {w \in Flags : argv[i].is = FlagWord(w)}
     IN \/ (\E w \in is : Excludes(w)) /\ fpc' = "error" /\ UNCHANGED <<i, flag>>
        \/ /\ ~\E w \in is : Excludes(w)
           /\ flag' = [w \in Flags |-> IF w \in is THEN i ELSE flag[w]]
           /\ i' = i + 1 /\ UNCHANGED fpc
  /\ UNCHANGED <<fortune, num, line, batchCounter, out>>
Missing == (flag["n"] = 0 /\ flag["b"] = 0) \/ flag["f"] = 0
FlagError == fpc = "arguments" /\ i > Len(argv) /\ i > 1 /\ Missing /\ Stop("error")

(* fopen() of the word after -f: of NULL, of a name there is no file of. *)
HasValue(w) == flag[w] < Len(argv)
Value(w) == argv[flag[w] + 1]
Opens == HasValue("f") /\ Value("f").is = "fortunes" /\ file.opens
Checked == i > Len(argv) /\ i > 1 /\ ~Missing
NoFile == fpc = "arguments" /\ Checked /\ HasValue("f") /\ ~Opens /\ Stop("error")
NoName == fpc = "arguments" /\ Checked /\ ~HasValue("f") /\ Stop("undefined")
NoFortunes == fpc = "arguments" /\ Checked /\ Opens /\ file.header = <<>> /\ Stop("error")
(* The header, the array, and every text added to the element it is for.   *)
(* Where the header has one line, the size of an element is what the stack *)
(* held; malloc() has nothing as large as a negative number.               *)
Allocated(h) == h[1] >= 0 /\ (h[1] > 0 => h[2] >= 0)
Overruns(h, left) ==
  \E x \in DOMAIN file.texts : x > h[1] \/ Len(left \o file.texts[x]) >= h[2]
ReadFortunes ==
  /\ At("arguments") /\ Checked /\ Opens /\ file.header # <<>>
  /\ num' \in {<<file.header[1], m>> : m \in IF Len(file.header) = 1 THEN Longest ELSE {file.header[2]}}
  /\ \E left \in Leftovers :
       CASE ~Allocated(num') -> fpc' = "error" /\ UNCHANGED fortune
         [] Allocated(num') /\ Overruns(num', left) -> fpc' = "undefined" /\ UNCHANGED fortune
         [] OTHER ->
              /\ fortune' = [x \in 1 .. num'[1] |->
                               left \o (IF x <= Len(file.texts) THEN file.texts[x] ELSE <<>>)]
              /\ fpc' = "print"
  /\ UNCHANGED <<i, flag, line, batchCounter, out>>
(* An element of the array, whose string ends within it. *)
IsString(n) == n \in 1 .. num[1] /\ Len(fortune[n]) < num[2]
-----------------------------------------------------------------------------
Asked == IF Value("n").is = "number" THEN Value("n").n ELSE 0
Prints(to, text) == out' = Append(out, [to |-> to, text |-> text])
Still == UNCHANGED <<i, flag, fortune, num>>
Short == Len(argv) = 4
ToFile == Len(argv) > 4 /\ flag["o"] > 0
(* With -n: the number's element, 0 not being told from a valid one; with  *)
(* -o no number is.                                                        *)
Invalid(n) == n < 0 \/ n > num[1]
NumberMode ==
  /\ At("print") /\ flag["n"] > 0 /\ Short
  /\ CASE ~HasValue("n") -> fpc' = "undefined" /\ UNCHANGED out
       [] HasValue("n") /\ Invalid(Asked) -> fpc' = "error" /\ UNCHANGED out
       [] HasValue("n") /\ ~Invalid(Asked) /\ ~IsString(Asked) -> fpc' = "undefined" /\ UNCHANGED out
       [] OTHER -> Prints("stdout", fortune[Asked]) /\ fpc' = "done"
  /\ Still /\ UNCHANGED <<line, batchCounter>>
OutputNumber ==
  /\ At("print") /\ flag["n"] > 0 /\ ToFile
  /\ IF HasValue("o") /\ HasValue("n") /\ IsString(Asked)
     THEN Prints("file", fortune[Asked]) /\ fpc' = "done" ELSE fpc' = "undefined" /\ UNCHANGED out
  /\ Still /\ UNCHANGED <<line, batchCounter>>
(* Six words or so without -o: nothing is printed. *)
Silent == fpc = "print" /\ ~Short /\ ~ToFile /\ Stop("done")

(* With -b: a file for -o, the batch, line by line. *)
OpenBatch ==
  /\ At("print") /\ flag["b"] > 0 /\ (Short \/ ToFile)
  /\ fpc' = (IF ~HasValue("b") \/ (ToFile /\ ~HasValue("o")) THEN "undefined"
             ELSE IF Value("b").is # "batch" THEN "error" ELSE "batch")
  /\ Still /\ UNCHANGED <<line, batchCounter, out>>
Reads == At("batch") /\ line <= Len(batch) /\ line' = line + 1 /\ Still
Line == batch[line]
Where == IF ToFile THEN "file" ELSE "stdout"
Refused(n) == Invalid(n) \/ (ToFile /\ n = 0)
BatchInvalid ==
  /\ Reads /\ Refused(Line.n)
  /\ Prints(Where, <<"invalid", "nl", "nl">>) /\ UNCHANGED <<batchCounter, fpc>>
(* On the standard output the last line's fortune is cut by two characters. *)
Cut(text) == SubSeq(text, 1, Len(text) - 2)
BatchLine ==
  /\ Reads /\ ~Refused(Line.n)
  /\ IF ~IsString(Line.n) \/ (~ToFile /\ ~Line.nl /\ Len(fortune[Line.n]) < 2)
     THEN fpc' = "undefined" /\ UNCHANGED <<out, batchCounter>>
     ELSE /\ Prints(Where, CASE Line.nl -> fortune[Line.n] \o <<"nl", "nl">>
                             [] ~Line.nl /\ ToFile -> fortune[Line.n]
                             [] OTHER -> Cut(fortune[Line.n]))
          /\ batchCounter' = batchCounter + 1 /\ UNCHANGED fpc
BatchEnds ==
  /\ At("batch") /\ line > Len(batch)
  /\ fpc' = IF batchCounter = 0 THEN "error" ELSE "done"
  /\ Still /\ UNCHANGED <<line, batchCounter, out>>

FortuneNext ==
  \/ Usage \/ ParseArg \/ FlagError \/ NoFile \/ NoName \/ NoFortunes \/ ReadFortunes
  \/ NumberMode \/ OutputNumber \/ Silent \/ OpenBatch \/ BatchInvalid \/ BatchLine \/ BatchEnds
FortuneSpec == FortuneInit /\ [][FortuneNext]_fortunevars
-----------------------------------------------------------------------------
(* What is printed answers what was asked, one by one and in the order it  *)
(* was asked, with a message for a number that is no fortune's and the     *)
(* whole fortune, with nothing else but what malloc() left before it, for  *)
(* every other: but for the last line of a batch on the standard output,   *)
(* without a newline, whose fortune lacks its last two characters (lines   *)
(* 187-189).  Nothing is printed of a command line that is refused.  C's   *)
(* behaviour is undefined only for a flag at the end of the line, a file   *)
(* with more fortunes than it says, or longer ones with what malloc()      *)
(* left, and a number that is no fortune's where nothing looks at it: 0    *)
(* always, any with -o, and those the file says it has and has not.        *)
Asks == IF flag["n"] > 0 THEN <<[n |-> Asked, nl |-> FALSE]>> ELSE SubSeq(batch, 1, line - 1)
InFile(n) == IF n <= Len(file.texts) THEN file.texts[n] ELSE <<>>
Expected(x, left) ==
  LET n == Asks[x].n
      whole == left \o InFile(n)
  IN CASE n \notin 1 .. num[1] -> <<"invalid", "nl", "nl">>
       [] n \in 1 .. num[1] /\ Asks[x].nl -> whole \o <<"nl", "nl">>
       [] n \in 1 .. num[1] /\ ~Asks[x].nl /\ (flag["n"] > 0 \/ ToFile) -> whole
       [] OTHER -> SubSeq(whole, 1, Len(whole) - 2)
Answers(x) == \E left \in Leftovers : out[x] = [to |-> Where, text |-> Expected(x, left)]
TooLong == \E x \in DOMAIN file.texts, left \in Leftovers : Len(left \o file.texts[x]) >= num[2]
FortuneRight ==
  /\ fpc # "undefined" /\ out # <<>> => Len(out) = Len(Asks) /\ \A x \in DOMAIN out : Answers(x)
  /\ fpc = "done" /\ (Short \/ ToFile) => Len(out) = Len(Asks)
  /\ fpc = "undefined" =>
       \/ \E w \in Flags : flag[w] = Len(argv)
       \/ Len(file.texts) > num[1] \/ TooLong
       \/ \E x \in DOMAIN Asks :
            \/ Asks[x].n = 0 \/ Asks[x].n \in Len(file.texts) + 1 .. num[1]
            \/ flag["n"] > 0 /\ ToFile /\ Asks[x].n \notin 1 .. num[1]
=============================================================================
