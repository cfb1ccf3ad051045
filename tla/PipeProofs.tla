----------------------------- MODULE PipeProofs -----------------------------
(***************************************************************************)
(* Theorems about Pipe, for any number of processes, files, descriptors    *)
(* and pipes, any size of the buffer and any width of a uint.              *)
(*                                                                         *)
(* The invariant has four layers: where a process is and what it has in    *)
(* its hands (Hands), what the reference counts count (RefsExact), which   *)
(* files are open pipes (Kinds), and which pages and ends of pipes these   *)
(* keep alive (Ends1).  On top of it Waits says why a process sleeps.      *)
(***************************************************************************)
EXTENDS Pipe, FiniteSetTheorems, SequenceTheorems, WellFoundedInduction, TLAPS

InPipe == {"read", "write"}
Closing(w) == IF w THEN "closewrite" ELSE "closeread"
EndsOpen(w) == IF w THEN writeopen ELSE readopen

(* TypeOK but for the bytes, and with any int as a reference count.        *)
FileTypes ==
  /\ ref \in [Files -> Int] /\ type \in [Files -> {"none", "pipe"}]
  /\ writable \in [Files -> BOOLEAN] /\ pipe \in [Files -> Pages]
  /\ ofile \in [Procs -> [FDs -> Files \cup {NoFile}]]
RingTypes ==
  /\ free \in SUBSET Pages /\ DOMAIN data = Pages
  /\ nread \in [Pages -> 0 .. UintMod - 1]
  /\ nwrite \in [Pages -> 0 .. UintMod - 1]
  /\ readopen \in SUBSET Pages /\ writeopen \in SUBSET Pages
  /\ lock \in [Pages -> Procs \cup {NoProc}]
ProcTypes ==
  /\ state \in [Procs -> {"UNUSED", "RUNNABLE", "SLEEPING", "ZOMBIE"}]
  /\ killed \in SUBSET Procs /\ exiting \in SUBSET Procs
  /\ pc \in [Procs -> Labels] /\ xp \in [Procs -> Pages]
  /\ todo \in [Procs -> Seq(Byte)] /\ DOMAIN got = Procs
  /\ want \in [Procs -> Nat]
  /\ hand \in [Procs -> Seq(Files)]
Types == FileTypes /\ RingTypes /\ ProcTypes

(* What a process has in its hands, and where it can be.                   *)
HandOn(p) ==
  /\ Len(hand[p]) <= 2
  /\ Len(hand[p]) = 2 => hand[p][1] # hand[p][2]
  /\ pc[p] \in {"user"} \cup InPipe => hand[p] = <<>>
  /\ pc[p] = "fds" => Len(hand[p]) = 2
  /\ pc[p] \in {"closeread", "closewrite"} => Len(hand[p]) <= 1
  /\ state[p] \in {"UNUSED", "ZOMBIE"} => Open(p) = {} /\ hand[p] = <<>>
  /\ state[p] = "UNUSED" => pc[p] = "user"
  /\ state[p] = "ZOMBIE" => pc[p] = "close"
  /\ state[p] = "SLEEPING" => pc[p] \in InPipe
LockOn(x) ==
  lock[x] # NoProc =>
    pc[lock[x]] \in InPipe /\ xp[lock[x]] = x /\ state[lock[x]] = "RUNNABLE"
Hands == (\A p \in Procs : HandOn(p)) /\ (\A x \in Pages : LockOn(x))

(* An open file is a pipe; what pipealloc() has not finished is nobody     *)
(* else's.                                                                 *)
OpenKinds ==
  \A p \in Procs, fd \in FDs : ofile[p][fd] # NoFile => type[ofile[p][fd]] = "pipe"
HandKinds ==
  \A p \in Procs : \A n \in DOMAIN hand[p] :
    /\ pc[p] = "fds" => type[hand[p][n]] = "pipe"
    /\ pc[p] = "pipe" => type[hand[p][n]] = "none"
HandsApart ==
  \A p, q \in Procs : \A n \in DOMAIN hand[p], m \in DOMAIN hand[q] :
    pc[p] = "pipe" /\ hand[p][n] = hand[q][m] => p = q /\ n = m
KindRefs == \A f \in Files : type[f] = "pipe" => ref[f] # 0
Kinds == OpenKinds /\ HandKinds /\ HandsApart /\ KindRefs

(* Each end of a pipe is one file's, or somebody is closing it.            *)
EndOf(f, x, w) == type[f] = "pipe" /\ pipe[f] = x /\ writable[f] = w
EndShut(p, x, w) == pc[p] = Closing(w) /\ xp[p] = x
EndOn(x, w) ==
  /\ \A f, g \in Files : EndOf(f, x, w) /\ EndOf(g, x, w) => f = g
  /\ \A p, q \in Procs : EndShut(p, x, w) /\ EndShut(q, x, w) => p = q
  /\ \A f \in Files, p \in Procs : ~(EndOf(f, x, w) /\ EndShut(p, x, w))
  /\ x \in EndsOpen(w) <=> \/ \E f \in Files : EndOf(f, x, w)
                           \/ \E p \in Procs : EndShut(p, x, w)
Has(p, x, w) == \E fd \in FDs : ofile[p][fd] # NoFile /\ EndOf(ofile[p][fd], x, w)
Ends1 ==
  /\ \A x \in Pages : x \in free <=> x \notin readopen \cup writeopen
  /\ \A x \in Pages, w \in BOOLEAN : EndOn(x, w)
  /\ \A p \in Procs : /\ pc[p] = "read" => Has(p, xp[p], FALSE)
                      /\ pc[p] = "write" => Has(p, xp[p], TRUE)

PInv == Types /\ Hands /\ RefsExact /\ Kinds /\ Ends1

(* A process that sleeps or is about to has a reason.                      *)
WaitOn(p) ==
  state[p] = "SLEEPING" \/ lock[xp[p]] = p =>
    \/ pc[p] = "read" /\ nread[xp[p]] = nwrite[xp[p]] /\ xp[p] \in writeopen
    \/ pc[p] = "write" /\ Room(xp[p]) = 0 /\ xp[p] \in readopen
Waits == \A p \in Procs : WaitOn(p)

(* Nobody who has been killed sleeps or is about to.                       *)
Awake ==
  /\ \A p \in killed : state[p] # "SLEEPING"
  /\ \A x \in Pages : lock[x] \notin killed

-----------------------------------------------------------------------------
(* Uints.                                                                  *)

LEMMA DivMod ==
  ASSUME NEW m \in Nat \ {0}, NEW a \in Int
  PROVE  (a \div m) \in Int /\ (a % m) \in 0 .. m - 1 /\ a = m * (a \div m) + (a % m)
  OBVIOUS

LEMMA ModIs ==
  ASSUME NEW m \in Nat \ {0}, NEW a \in Int, NEW q \in Int, NEW r \in 0 .. m - 1, a = m * q + r
  PROVE  a % m = r
  OBVIOUS

LEMMA ModShift ==
  ASSUME NEW m \in Nat \ {0}, NEW a \in Int, NEW q \in Int
  PROVE  (a + m * q) % m = a % m
<1> DEFINE t == a \div m
           r == a % m
<1>1. t \in Int /\ r \in 0 .. m - 1 /\ a = m * t + r
  BY DivMod
<1> HIDE DEF t, r
<1>2. PICK b \in Int, s \in Int : b = a + m * q /\ s = t + q
  BY <1>1
<1>3. b = m * s + r
  BY <1>1, <1>2
<1>4. b % m = r
  BY <1>1, <1>2, <1>3, ModIs
<1> QED
  BY <1>2, <1>4 DEF r

LEMMA ModAdd ==
  ASSUME NEW m \in Nat \ {0}, NEW a \in Int, NEW b \in Int
  PROVE  ((a % m) + b) % m = (a + b) % m
<1> DEFINE t == a \div m
           r == a % m
<1>1. t \in Int /\ r \in 0 .. m - 1 /\ a = m * t + r
  BY DivMod
<1> HIDE DEF t, r
<1>2. r + b \in Int /\ a + b = (r + b) + m * t
  BY <1>1
<1> QED
  BY <1>1, <1>2, ModShift DEF r

LEMMA UintRange == ASSUME NEW n \in Int PROVE Uint(n) \in 0 .. UintMod - 1
  BY PipeAssumption DEF Uint

LEMMA UintSame == ASSUME NEW n \in 0 .. UintMod - 1 PROVE Uint(n) = n
  BY PipeAssumption DEF Uint

(* Adding what is missing to a gives a.                                    *)
LEMMA UintFill ==
  ASSUME NEW a \in Int, NEW b \in Int
  PROVE  Uint(a - Uint(b + Uint(a - b))) = 0
<1>1. UintMod \in Nat \ {0}
  BY PipeAssumption
<1>2. PICK c \in Int : c = a - b
  OBVIOUS
<1>3. Uint(Uint(c) + b) = Uint(a)
  <2>1. c + b = a
    BY <1>2
  <2> QED
    BY <1>1, <2>1, ModAdd DEF Uint
<1>4. PICK r \in 0 .. UintMod - 1, t \in Int : r = Uint(a) /\ a = UintMod * t + r
  BY <1>1, DivMod DEF Uint
<1>5. Uint(a - r) = 0
  <2>1. a - r = UintMod * t + 0 /\ a - r \in Int
    BY <1>1, <1>4
  <2> QED
    BY <1>1, <2>1, ModIs DEF Uint
<1>6. Uint(b + Uint(a - b)) = r
  <2>1. Uint(c) \in Int /\ b + Uint(c) = Uint(c) + b
    BY UintRange
  <2> QED
    BY <1>2, <1>3, <1>4, <2>1
<1> QED
  BY <1>5, <1>6

-----------------------------------------------------------------------------
(* Types.                                                                  *)

LEMMA TypesInit == Init => Types
<1> SUFFICES ASSUME Init PROVE Types
  OBVIOUS
<1> USE PipeAssumption
<1>1. FileTypes
  BY DEF Init, FileTypes
<1>2. RingTypes
  BY DEF Init, RingTypes
<1>3. ProcTypes
  BY DEF Init, ProcTypes, Labels
<1> QED
  BY <1>1, <1>2, <1>3 DEF Types

(* What is left of a message.                                              *)
LEMMA RestIs ==
  ASSUME NEW s \in Seq(Byte), NEW k \in Int, k >= 0
  PROVE  /\ SubSeq(s, k + 1, Len(s)) \in Seq(Byte)
         /\ SubSeq(s, k + 1, Len(s)) = <<>> <=> k >= Len(s)
<1>1. Len(s) \in Nat /\ \A j \in 1 .. Len(s) : s[j] \in Byte
  BY LenProperties, ElementOfSeq
<1>2. \A j \in k + 1 .. Len(s) : s[j] \in Byte
  BY <1>1
<1>3. /\ SubSeq(s, k + 1, Len(s)) \in Seq(Byte)
      /\ Len(SubSeq(s, k + 1, Len(s))) = IF k + 1 <= Len(s) THEN Len(s) - (k + 1) + 1 ELSE 0
  BY <1>1, <1>2, SubSeqProperties
<1>4. Len(SubSeq(s, k + 1, Len(s))) = 0 <=> k >= Len(s)
  BY <1>1, <1>3
<1>5. \A t \in Seq(Byte) : t = <<>> <=> Len(t) = 0
  BY EmptySeq
<1> QED
  BY <1>3, <1>4, <1>5

LEMMA RoomIs ==
  ASSUME Types, NEW x \in Pages
  PROVE  /\ Room(x) \in 0 .. UintMod - 1 /\ Avail(x) \in 0 .. UintMod - 1
         /\ nread[x] \in 0 .. UintMod - 1 /\ nwrite[x] \in 0 .. UintMod - 1
<1>1. nread[x] \in 0 .. UintMod - 1 /\ nwrite[x] \in 0 .. UintMod - 1
  BY DEF Types, RingTypes
<1>2. nread[x] + PIPESIZE - nwrite[x] \in Int /\ nwrite[x] - nread[x] \in Int
  BY <1>1, PipeAssumption
<1> QED
  BY <1>1, <1>2, UintRange DEF Room, Avail

LEMMA LowestIs ==
  ASSUME NEW S \in SUBSET FDs, S # {}
  PROVE  Lowest(S) \in S
<1>1. S \in SUBSET Nat
  BY PipeAssumption DEF FDs
<1>2. PICK n \in S : \A m \in S : ~(<<m, n>> \in OpToRel(<, Nat))
  BY <1>1, NatLessThanWellFounded, WFMin
<1>3. \A m \in S : ~(m < n)
  BY <1>1, <1>2 DEF OpToRel
<1>4. \A m \in S : n <= m
  BY <1>1, <1>3
<1> QED
  BY <1>4 DEF Lowest

Table == [Procs -> [FDs -> Files \cup {NoFile}]]

LEMMA SetDesc ==
  ASSUME NEW t \in Table, NEW p \in Procs, NEW fd, NEW g \in Files \cup {NoFile}
  PROVE  /\ [t EXCEPT ![p][fd] = g] \in Table
         /\ \A q \in Procs, n \in FDs :
              [t EXCEPT ![p][fd] = g][q][n] = IF q = p /\ n = fd THEN g ELSE t[q][n]
  BY DEF Table

LEMMA FileTypesNext == Types /\ Hands /\ [Next]_vars => FileTypes'
<1> SUFFICES ASSUME Types, Hands, [Next]_vars PROVE FileTypes'
  OBVIOUS
<1> USE DEF files, Types, FileTypes
<1>1. CASE UNCHANGED <<ref, type, writable, pipe, ofile>>
  BY <1>1
<1>2. ASSUME NEW p \in Procs, FileAlloc(p) PROVE FileTypes'
  BY <1>2 DEF FileAlloc
<1>3. ASSUME NEW p \in Procs, PipeAlloc(p) PROVE FileTypes'
  <2>1. CASE UNCHANGED <<type, writable, pipe>>
    BY <1>3, <2>1 DEF PipeAlloc
  <2>2. CASE \E x \in Pages : \E f, g :
               /\ type' = [type EXCEPT ![f] = "pipe", ![g] = "pipe"]
               /\ writable' = [writable EXCEPT ![f] = FALSE, ![g] = TRUE]
               /\ pipe' = [pipe EXCEPT ![f] = x, ![g] = x]
    <3>1. UNCHANGED <<ref, ofile>>
      BY <1>3 DEF PipeAlloc
    <3>2. PICK x \in Pages : \E f, g :
               /\ type' = [type EXCEPT ![f] = "pipe", ![g] = "pipe"]
               /\ writable' = [writable EXCEPT ![f] = FALSE, ![g] = TRUE]
               /\ pipe' = [pipe EXCEPT ![f] = x, ![g] = x]
      BY <2>2
    <3>3. type' \in [Files -> {"none", "pipe"}]
      BY <3>2
    <3>4. writable' \in [Files -> BOOLEAN]
      BY <3>2
    <3>5. pipe' \in [Files -> Pages]
      BY <3>2
    <3> QED
      BY <3>1, <3>3, <3>4, <3>5
  <2> QED
    BY <1>3, <2>1, <2>2 DEF PipeAlloc, RingTypes
<1>4. ASSUME NEW p \in Procs, InstallFds(p) PROVE FileTypes'
  <2>1. CASE \E m, n : ofile' = [ofile EXCEPT ![p][m] = hand[p][1], ![p][n] = hand[p][2]]
    <3>1. hand[p][1] \in Files /\ hand[p][2] \in Files
      <4>1. Len(hand[p]) = 2
        BY <1>4 DEF InstallFds, At, Hands, HandOn
      <4>2. hand[p] \in Seq(Files)
        BY DEF ProcTypes
      <4> QED
        BY <4>1, <4>2, ElementOfSeq
    <3>2. PICK m, n : ofile' = [[ofile EXCEPT ![p][m] = hand[p][1]] EXCEPT ![p][n] = hand[p][2]]
      BY <2>1
    <3>3. ofile' \in Table
      <4>1. PICK t \in Table : t = [ofile EXCEPT ![p][m] = hand[p][1]]
        BY <3>1, SetDesc DEF Table
      <4> QED
        BY <3>1, <3>2, <4>1, SetDesc
    <3> QED
      BY <1>4, <3>3 DEF InstallFds, Table
  <2> QED
    BY <1>4, <2>1 DEF InstallFds
<1>5. ASSUME NEW p \in Procs, SysDup(p) PROVE FileTypes'
  <2>1. PICK fd \in Open(p) :
             /\ ofile' = [ofile EXCEPT ![p][Lowest(Unused(p))] = ofile[p][fd]]
             /\ ref' = FileDup(ref, ofile[p][fd])
    BY <1>5 DEF SysDup
  <2>2. ofile[p][fd] \in Files
    BY <1>5 DEF Open, Unused
  <2>3. ofile' \in Table
    BY <2>1, <2>2, SetDesc DEF Table
  <2> QED
    BY <1>5, <2>1, <2>2, <2>3 DEF SysDup, FileDup, Table
<1>6. ASSUME NEW p \in Procs, SysClose(p) PROVE FileTypes'
  <2>1. PICK fd \in Open(p) : ofile' = [ofile EXCEPT ![p][fd] = NoFile]
    BY <1>6 DEF SysClose
  <2>2. ofile' \in Table
    BY <2>1, SetDesc DEF Table
  <2> QED
    BY <1>6, <2>2 DEF SysClose, Table
<1>7. ASSUME NEW p \in Procs, Fork(p) PROVE FileTypes'
  <2>1. IsFiniteSet(FDs)
    BY FS_Interval, PipeAssumption DEF FDs
  <2>2. \A f : Cardinality({fd \in FDs : ofile[p][fd] = f}) \in Nat
    BY <2>1, FS_Subset, FS_CardinalityType
  <2>3. ref' \in [Files -> Int]
    <3> DEFINE n(f) == Cardinality({fd \in FDs : ofile[p][fd] = f})
    <3>1. ref' = [f \in Files |-> ref[f] + n(f)]
      BY <1>7 DEF Fork
    <3>2. ASSUME NEW f \in Files PROVE n(f) \in Int
      <4>1. n(f) \in Nat
        BY <2>2
      <4> QED
        BY <4>1
    <3> HIDE DEF n
    <3> QED
      BY <3>1, <3>2
  <2>4. ofile' \in [Procs -> [FDs -> Files \cup {NoFile}]]
    BY <1>7 DEF Fork
  <2> QED
    BY <1>7, <2>3, <2>4 DEF Fork
<1>8. ASSUME NEW p \in Procs, FileClose(p) PROVE FileTypes'
  <2>1. Head(hand[p]) \in Files
    BY <1>8, HeadTailProperties DEF FileClose, ProcTypes
  <2>2. PICK f \in Files : f = Head(hand[p])
    BY <2>1
  <2>3. /\ UNCHANGED <<writable, pipe, ofile>>
        /\ \/ ref' = [ref EXCEPT ![f] = @ - 1] /\ UNCHANGED type
           \/ ref' = [ref EXCEPT ![f] = 0] /\ type' = [type EXCEPT ![f] = "none"]
    BY <1>8, <2>2 DEF FileClose
  <2> QED
    BY <2>3
<1>9. ASSUME NEW p \in Procs, Closed(p) PROVE FileTypes'
  <2>1. PICK fd : ofile' = [ofile EXCEPT ![p][fd] = NoFile] \/ UNCHANGED ofile
    BY <1>9 DEF Closed
  <2>2. ofile \in Table /\ [ofile EXCEPT ![p][fd] = NoFile] \in Table
    BY SetDesc DEF Table
  <2>3. ofile' \in Table
    BY <2>1, <2>2
  <2> QED
    BY <1>9, <2>3 DEF Closed, Table
<1>10. ASSUME NEW p \in Procs,
             \/ SysPipe(p) \/ PipeClose(p) \/ Exit(p) \/ Reap(p) \/ SysWrite(p) \/ Write(p)
             \/ SysRead(p) \/ Read(p) \/ Sleep(p) \/ \E q \in Procs : Kill(p, q)
       PROVE  FileTypes'
  BY <1>1, <1>10 DEF SysPipe, PipeClose, Exit, Reap, SysWrite, Write, SysRead, Read, Sleep, Kill
<1> QED
  BY <1>1, <1>2, <1>3, <1>4, <1>5, <1>6, <1>7, <1>8, <1>9, <1>10 DEF Next, vars

LEMMA SmallUints == {0, 1} \subseteq 0 .. UintMod - 1 /\ UintMod \in Nat /\ PIPESIZE \in Nat
  BY PipeAssumption

LEMMA RingTypesNext == Types /\ [Next]_vars => RingTypes'
<1> SUFFICES ASSUME Types, [Next]_vars PROVE RingTypes'
  OBVIOUS
<1> USE DEF ring, Types, RingTypes
<1>1. CASE UNCHANGED <<free, ring, readopen, writeopen, lock>>
  BY <1>1
<1>2. ASSUME NEW p \in Procs, PipeAlloc(p) PROVE RingTypes'
  BY <1>2, SmallUints DEF PipeAlloc
<1>3. ASSUME NEW p \in Procs, PipeClose(p) PROVE RingTypes'
  <2>1. PICK x \in Pages : x = xp[p]
    BY DEF ProcTypes
  <2>2. readopen' \in SUBSET Pages /\ writeopen' \in SUBSET Pages /\ UNCHANGED lock
    BY <1>3 DEF PipeClose
  <2>3. free' \in SUBSET Pages /\ DOMAIN data' = Pages
    BY <1>3, <2>1 DEF PipeClose
  <2>4. nread' \in [Pages -> 0 .. UintMod - 1] /\ nwrite' \in [Pages -> 0 .. UintMod - 1]
    BY <1>3, <2>1, SmallUints DEF PipeClose
  <2> QED
    BY <2>2, <2>3, <2>4
<1>4. ASSUME NEW p \in Procs, Write(p) PROVE RingTypes'
  <2>1. PICK x \in Pages : x = xp[p]
    BY DEF ProcTypes
  <2>2. PICK k : nwrite' = [nwrite EXCEPT ![x] = Uint(nwrite[x] + k)] /\ k = Smaller(Len(todo[p]), Room(x))
    BY <1>4, <2>1 DEF Write
  <2>3. k \in Int
    BY <2>2, RoomIs DEF Smaller, ProcTypes
  <2>4. Uint(nwrite[x] + k) \in 0 .. UintMod - 1
    BY <2>3, UintRange
  <2>5. nwrite' \in [Pages -> 0 .. UintMod - 1]
    BY <2>2, <2>4
  <2> QED
    BY <1>4, <2>1, <2>5 DEF Write
<1>5. ASSUME NEW p \in Procs, Read(p) PROVE RingTypes'
  <2>1. PICK x \in Pages : x = xp[p]
    BY DEF ProcTypes
  <2>2. nread' \in [Pages -> 0 .. UintMod - 1]
    <3>1. PICK k : k = Smaller(want[p], Avail(x))
      OBVIOUS
    <3>2. k \in Int
      BY <3>1, RoomIs DEF Smaller, ProcTypes
    <3>3. Uint(nread[x] + k) \in 0 .. UintMod - 1
      BY <3>2, UintRange
    <3>4. UNCHANGED nread \/ nread' = [nread EXCEPT ![x] = Uint(nread[x] + k)]
      BY <1>5, <2>1, <3>1 DEF Read
    <3> QED
      BY <3>3, <3>4
  <2> QED
    BY <1>5, <2>1, <2>2 DEF Read
<1>6. ASSUME NEW p \in Procs, Sleep(p) PROVE RingTypes'
  BY <1>6 DEF Sleep, ProcTypes
<1>7. ASSUME NEW p \in Procs,
             \/ SysPipe(p) \/ FileAlloc(p) \/ InstallFds(p) \/ SysDup(p) \/ SysClose(p)
             \/ FileClose(p) \/ Closed(p) \/ Fork(p) \/ Exit(p) \/ Reap(p) \/ SysWrite(p)
             \/ SysRead(p) \/ \E q \in Procs : Kill(p, q)
       PROVE  RingTypes'
  BY <1>1, <1>7 DEF SysPipe, FileAlloc, InstallFds, SysDup, SysClose, FileClose, Closed,
                    Fork, Exit, Reap, SysWrite, SysRead, Kill
<1> QED
  BY <1>1, <1>2, <1>3, <1>4, <1>5, <1>6, <1>7 DEF Next, vars

(* What a step does to the state of processes: those it puts to sleep or   *)
(* wakes up, and the one that takes it.                                    *)
LEMMA WakeupIs ==
  ASSUME ProcTypes, NEW x \in Pages, NEW l \in {"read", "write"}, Wakeup(x, l)
  PROVE  /\ state' \in [Procs -> {"UNUSED", "RUNNABLE", "SLEEPING", "ZOMBIE"}]
         /\ \A q \in Procs : state'[q] = IF state[q] = "SLEEPING" /\ pc[q] = l /\ xp[q] = x
                                         THEN "RUNNABLE" ELSE state[q]
<1>1. \A q \in Procs : q \in Sleepers(x, l) <=> state[q] = "SLEEPING" /\ pc[q] = l /\ xp[q] = x
  BY DEF Sleepers
<1>2. state' = [q \in Procs |-> IF q \in Sleepers(x, l) THEN "RUNNABLE" ELSE state[q]]
  BY DEF Wakeup
<1> QED
  BY <1>1, <1>2 DEF ProcTypes

LEMMA ProcTypesNext == Types /\ [Next]_vars => ProcTypes'
<1> SUFFICES ASSUME Types, [Next]_vars PROVE ProcTypes'
  OBVIOUS
<1> USE DEF io, Types, ProcTypes, Goto, Labels, Call
<1>1. CASE UNCHANGED <<state, killed, pc, xp, io, hand, exiting>>
  BY <1>1
<1>2. ASSUME NEW p \in Procs, FileAlloc(p) PROVE ProcTypes'
  <2>1. \A f \in Files : Append(hand[p], f) \in Seq(Files)
    BY AppendProperties
  <2>2. UNCHANGED hand \/ \E f \in Files : hand' = [hand EXCEPT ![p] = Append(hand[p], f)]
    BY <1>2 DEF FileAlloc
  <2>3. hand' \in [Procs -> Seq(Files)]
    <3>1. CASE UNCHANGED hand
      BY <3>1
    <3>2. CASE \E f \in Files : hand' = [hand EXCEPT ![p] = Append(hand[p], f)]
      <4>1. PICK s \in Seq(Files) : hand' = [hand EXCEPT ![p] = s]
        BY <2>1, <3>2
      <4> QED
        BY <4>1
    <3> QED
      BY <2>2, <3>1, <3>2
  <2> QED
    BY <1>2, <2>3 DEF FileAlloc
<1>3. ASSUME NEW p \in Procs,
             SysPipe(p) \/ PipeAlloc(p) \/ SysDup(p) \/ Exit(p) \/ Reap(p) \/ Sleep(p)
      PROVE  ProcTypes'
  BY <1>3, EmptySeq DEF SysPipe, PipeAlloc, SysDup, Exit, Reap, Sleep
<1>4. ASSUME NEW p \in Procs, InstallFds(p) PROVE ProcTypes'
  <2>1. UNCHANGED hand \/ hand' = [hand EXCEPT ![p] = <<>>]
    BY <1>4 DEF InstallFds
  <2>2. hand' \in [Procs -> Seq(Files)]
    <3>1. PICK s \in Seq(Files) : s = <<>>
      BY EmptySeq
    <3>2. [hand EXCEPT ![p] = s] \in [Procs -> Seq(Files)]
      OBVIOUS
    <3> QED
      BY <2>1, <3>1, <3>2
  <2> QED
    BY <1>4, <2>2 DEF InstallFds
<1>5. ASSUME NEW p \in Procs, SysClose(p) PROVE ProcTypes'
  <2>1. PICK f : f \in Files /\ hand' = [hand EXCEPT ![p] = <<f>>]
    <3>1. PICK fd \in Open(p) : hand' = [hand EXCEPT ![p] = <<ofile[p][fd]>>]
      BY <1>5 DEF SysClose
    <3>2. ofile[p][fd] \in Files
      BY DEF Open, Unused, FileTypes
    <3> QED
      BY <3>1, <3>2
  <2>2. <<f>> \in Seq(Files)
    BY <2>1
  <2>3. hand' \in [Procs -> Seq(Files)]
    BY <2>1, <2>2
  <2> QED
    BY <1>5, <2>3 DEF SysClose
<1>6. ASSUME NEW p \in Procs, FileClose(p) PROVE ProcTypes'
  <2>1. PICK f \in Files : f = Head(hand[p])
    BY <1>6, HeadTailProperties DEF FileClose
  <2>2. Tail(hand[p]) \in Seq(Files) /\ pipe[f] \in Pages
    BY <1>6, HeadTailProperties DEF FileClose, FileTypes
  <2>3. hand' \in [Procs -> Seq(Files)]
    BY <1>6, <2>2 DEF FileClose
  <2>4. pc' \in [Procs -> Labels] /\ xp' \in [Procs -> Pages]
    BY <1>6, <2>1, <2>2 DEF FileClose
  <2> QED
    BY <1>6, <2>3, <2>4 DEF FileClose
<1>7. ASSUME NEW p \in Procs, Closed(p) PROVE ProcTypes'
  <2>1. hand' \in [Procs -> Seq(Files)]
    <3>1. CASE UNCHANGED hand
      BY <3>1
    <3>2. CASE \E fd \in Open(p) : hand' = [hand EXCEPT ![p] = <<ofile[p][fd]>>]
      <4>1. PICK f : f \in Files /\ hand' = [hand EXCEPT ![p] = <<f>>]
        <5>1. PICK fd \in Open(p) : hand' = [hand EXCEPT ![p] = <<ofile[p][fd]>>]
          BY <3>2
        <5>2. ofile[p][fd] \in Files
          BY DEF Open, Unused, FileTypes
        <5> QED
          BY <5>1, <5>2
      <4>2. <<f>> \in Seq(Files)
        BY <4>1
      <4> QED
        BY <4>1, <4>2
    <3>3. Open(p) # {} => Lowest(Open(p)) \in Open(p)
      BY LowestIs DEF Open
    <3> QED
      BY <1>7, <3>1, <3>2, <3>3 DEF Closed
  <2>2. state' \in [Procs -> {"UNUSED", "RUNNABLE", "SLEEPING", "ZOMBIE"}]
    BY <1>7 DEF Closed
  <2> QED
    BY <1>7, <2>1, <2>2 DEF Closed
<1>8. ASSUME NEW p \in Procs, PipeClose(p) PROVE ProcTypes'
  <2>1. Wakeup(xp[p], "read") \/ Wakeup(xp[p], "write")
    BY <1>8 DEF PipeClose
  <2>2. state' \in [Procs -> {"UNUSED", "RUNNABLE", "SLEEPING", "ZOMBIE"}]
    BY <2>1, WakeupIs
  <2> QED
    BY <1>8, <2>2 DEF PipeClose
<1>9. ASSUME NEW p \in Procs, Fork(p) PROVE ProcTypes'
  BY <1>9 DEF Fork
<1>10. ASSUME NEW p \in Procs, SysWrite(p) PROVE ProcTypes'
  <2>1. PICK fd \in Open(p), m \in Messages :
             /\ xp' = [xp EXCEPT ![p] = pipe[ofile[p][fd]]]
             /\ todo' = [todo EXCEPT ![p] = m]
    BY <1>10 DEF SysWrite
  <2>2. pipe[ofile[p][fd]] \in Pages
    BY DEF Open, Unused, FileTypes
  <2>3. m \in Seq(Byte)
    BY PipeAssumption DEF Byte
  <2>4. xp' \in [Procs -> Pages] /\ todo' \in [Procs -> Seq(Byte)]
    BY <2>1, <2>2, <2>3
  <2> QED
    BY <1>10, <2>4 DEF SysWrite
<1>11. ASSUME NEW p \in Procs, SysRead(p) PROVE ProcTypes'
  <2>1. PICK fd \in Open(p), n \in ReadSizes :
             /\ xp' = [xp EXCEPT ![p] = pipe[ofile[p][fd]]]
             /\ want' = [want EXCEPT ![p] = n]
    BY <1>11 DEF SysRead
  <2>2. pipe[ofile[p][fd]] \in Pages
    BY DEF Open, Unused, FileTypes
  <2>3. n \in Nat
    BY PipeAssumption
  <2>4. xp' \in [Procs -> Pages] /\ want' \in [Procs -> Nat]
    BY <2>1, <2>2, <2>3
  <2> QED
    BY <1>11, <2>4 DEF SysRead
<1>12. ASSUME NEW p \in Procs, Write(p) PROVE ProcTypes'
  <2>1. state' \in [Procs -> {"UNUSED", "RUNNABLE", "SLEEPING", "ZOMBIE"}]
    <3>1. UNCHANGED state \/ Wakeup(xp[p], "read")
      BY <1>12 DEF Write
    <3> QED
      BY <3>1, WakeupIs
  <2>2. todo' \in [Procs -> Seq(Byte)]
    <3>1. PICK k : k = Smaller(Len(todo[p]), Room(xp[p]))
      OBVIOUS
    <3>2. k \in Int /\ k >= 0
      BY <3>1, RoomIs DEF Smaller
    <3>3. PICK s \in Seq(Byte) : s = SubSeq(todo[p], k + 1, Len(todo[p]))
      BY <3>2, RestIs
    <3>4. \E t \in Seq(Byte) : todo' = [todo EXCEPT ![p] = t]
      BY <1>12, <3>1, <3>3, EmptySeq DEF Write
    <3> QED
      BY <3>4
  <2> QED
    BY <1>12, <2>1, <2>2 DEF Write
<1>13. ASSUME NEW p \in Procs, Read(p) PROVE ProcTypes'
  <2>1. state' \in [Procs -> {"UNUSED", "RUNNABLE", "SLEEPING", "ZOMBIE"}]
    <3>1. UNCHANGED state \/ Wakeup(xp[p], "write")
      BY <1>13 DEF Read
    <3> QED
      BY <3>1, WakeupIs
  <2>2. want' \in [Procs -> Nat]
    BY <1>13 DEF Read
  <2>3. DOMAIN got' = Procs
    BY <1>13 DEF Read
  <2>4. UNCHANGED <<killed, exiting, xp, todo, hand>> /\ pc' \in [Procs -> Labels]
    BY <1>13 DEF Read
  <2> QED
    BY <2>1, <2>2, <2>3, <2>4
<1>14. ASSUME NEW p \in Procs, NEW q \in Procs, Kill(p, q) PROVE ProcTypes'
  BY <1>14 DEF Kill, Roused
<1> QED
  BY <1>1, <1>2, <1>3, <1>4, <1>5, <1>6, <1>7, <1>8, <1>9, <1>10, <1>11, <1>12, <1>13, <1>14
     DEF Next, vars

LEMMA TypesNext == Types /\ Hands /\ [Next]_vars => Types'
  BY FileTypesNext, RingTypesNext, ProcTypesNext DEF Types

-----------------------------------------------------------------------------
(* Hands.                                                                  *)

(* What a step of p leaves alone of the other processes.                   *)
Frame(p) ==
  \A q \in Procs \ {p} :
    /\ hand'[q] = hand[q] /\ pc'[q] = pc[q] /\ xp'[q] = xp[q] /\ ofile'[q] = ofile[q]
    /\ state'[q] = state[q] \/ (state[q] = "SLEEPING" /\ state'[q] = "RUNNABLE")

LEMMA FrameOf ==
  ASSUME Types, NEW p \in Procs,
         \/ SysPipe(p) \/ FileAlloc(p) \/ PipeAlloc(p) \/ InstallFds(p)
         \/ SysDup(p) \/ SysClose(p) \/ FileClose(p) \/ Closed(p) \/ PipeClose(p)
         \/ Exit(p) \/ Reap(p)
         \/ SysWrite(p) \/ Write(p) \/ SysRead(p) \/ Read(p) \/ Sleep(p)
  PROVE  Frame(p)
<1> USE DEF Types, FileTypes, ProcTypes, Goto, io, ring
<1> SUFFICES ASSUME NEW q \in Procs \ {p}
             PROVE  /\ hand'[q] = hand[q] /\ pc'[q] = pc[q] /\ xp'[q] = xp[q] /\ ofile'[q] = ofile[q]
                    /\ state'[q] = state[q] \/ (state[q] = "SLEEPING" /\ state'[q] = "RUNNABLE")
  BY DEF Frame
<1>1. CASE SysPipe(p) \/ FileAlloc(p) \/ PipeAlloc(p)
  BY <1>1 DEF SysPipe, FileAlloc, PipeAlloc
<1>2. CASE FileClose(p)
  BY <1>2 DEF FileClose
<1>3. CASE Exit(p) \/ Reap(p) \/ Sleep(p)
  BY <1>3 DEF Exit, Reap, Sleep
<1>4. CASE InstallFds(p)
  BY <1>4 DEF InstallFds
<1>5. CASE SysDup(p) \/ SysClose(p)
  BY <1>5 DEF SysDup, SysClose
<1>6. CASE Closed(p)
  BY <1>6 DEF Closed
<1>7. CASE SysWrite(p)
  BY <1>7 DEF SysWrite
<1>8. CASE SysRead(p)
  BY <1>8 DEF SysRead
<1>9. CASE PipeClose(p) \/ Write(p) \/ Read(p)
  <2>1. PICK x \in Pages : x = xp[p]
    OBVIOUS
  <2>2. UNCHANGED state \/ Wakeup(x, "read") \/ Wakeup(x, "write")
    BY <1>9, <2>1 DEF PipeClose, Write, Read
  <2>3. state'[q] = state[q] \/ (state[q] = "SLEEPING" /\ state'[q] = "RUNNABLE")
    <3>1. CASE UNCHANGED state
      BY <3>1
    <3>2. CASE Wakeup(x, "read")
      BY <3>2, WakeupIs
    <3>3. CASE Wakeup(x, "write")
      BY <3>3, WakeupIs
    <3> QED
      BY <2>2, <3>1, <3>2, <3>3
  <2>4. UNCHANGED <<ofile, hand, xp>> /\ pc'[q] = pc[q]
    BY <1>9 DEF PipeClose, Write, Read
  <2> QED
    BY <2>3, <2>4
<1> QED
  BY <1>1, <1>2, <1>3, <1>4, <1>5, <1>6, <1>7, <1>8, <1>9

(* Who is in the kernel but not in a pipe, or in a pipe nobody has locked, *)
(* has no lock.                                                            *)
LEMMA NoLock ==
  ASSUME Types, Hands, NEW p \in Procs,
         pc[p] \notin InPipe \/ state[p] # "RUNNABLE" \/ lock[xp[p]] = NoProc
  PROVE  \A x \in Pages : lock[x] # p
BY PipeAssumption DEF Types, RingTypes, Hands, LockOn

LEMMA HandsFrom ==
  ASSUME Types, Hands, NEW p \in Procs, Frame(p), HandOn(p)',
         \A x \in Pages : lock[x] # p,
         \A x \in Pages : \/ lock'[x] \in {lock[x], NoProc}
                          \/ lock'[x] = p /\ pc'[p] \in InPipe /\ xp'[p] = x /\ state'[p] = "RUNNABLE"
  PROVE  Hands'
<1>1. ASSUME NEW q \in Procs PROVE HandOn(q)'
  <2>1. CASE q = p
    BY <2>1
  <2>2. CASE q # p
    BY <2>2 DEF Frame, Hands, HandOn, Open, Unused
  <2> QED
    BY <2>1, <2>2
<1>2. ASSUME NEW x \in Pages PROVE LockOn(x)'
  <2>1. lock[x] \in Procs \cup {NoProc}
    BY DEF Types, RingTypes
  <2> QED
    BY <2>1 DEF Frame, Hands, LockOn
<1> QED
  BY <1>1, <1>2 DEF Hands

LEMMA HeldHasRef ==
  ASSUME Types, Hands, RefsExact, NEW f \in Files, ref[f] = 0
  PROVE  /\ \A p \in Procs, fd \in FDs : ofile[p][fd] # f
         /\ \A p \in Procs : \A n \in DOMAIN hand[p] : hand[p][n] # f
<1>1. IsFiniteSet(Procs \X FDs) /\ IsFiniteSet(Procs \X {1, 2})
  <2>1. IsFiniteSet(FDs)
    BY FS_Interval, PipeAssumption DEF FDs
  <2>2. IsFiniteSet({1, 2})
    <3>1. IsFiniteSet({1})
      BY FS_Singleton
    <3>2. {1, 2} = {1} \cup {2}
      OBVIOUS
    <3> QED
      BY <3>1, <3>2, FS_AddElement
  <2> QED
    BY <2>1, <2>2, FS_Product, PipeAssumption
<1>2. IsFiniteSet(Descs(f)) /\ IsFiniteSet(InHands(f))
  BY <1>1, FS_Subset DEF Descs, InHands
<1>3. Cardinality(Descs(f)) = 0 /\ Cardinality(InHands(f)) = 0
  BY <1>2, FS_CardinalityType DEF RefsExact
<1>4. Descs(f) = {} /\ InHands(f) = {}
  BY <1>2, <1>3, FS_EmptySet
<1>5. ASSUME NEW p \in Procs, NEW fd \in FDs PROVE ofile[p][fd] # f
  <2>1. <<p, fd>> \notin Descs(f)
    BY <1>4
  <2> QED
    BY <2>1 DEF Descs
<1>6. ASSUME NEW p \in Procs, NEW n \in DOMAIN hand[p] PROVE hand[p][n] # f
  <2>1. n \in {1, 2}
    BY LenProperties DEF Types, ProcTypes, Hands, HandOn
  <2>2. <<p, n>> \notin InHands(f)
    BY <1>4
  <2> QED
    BY <2>1, <2>2 DEF InHands
<1> QED
  BY <1>5, <1>6

LEMMA ShorterTail ==
  ASSUME NEW s \in Seq(Files), s # <<>>, Len(s) <= 2
  PROVE  Len(Tail(s)) <= 1 /\ Len(Tail(s)) # 2 /\ Len(Tail(s)) <= 2
<1>1. PICK n \in Nat : n = Len(s)
  BY LenProperties
<1>2. PICK m \in Nat : m = Len(Tail(s)) /\ m = n - 1
  BY <1>1, HeadTailProperties, LenProperties
<1>3. n <= 2
  BY <1>1
<1>4. m = n - 1
  BY <1>2
<1>5. m <= 1 /\ m # 2 /\ m <= 2
  BY <1>3, <1>4
<1> QED
  BY <1>2, <1>5

LEMMA HandsNext == Types /\ Hands /\ RefsExact /\ [Next]_vars => Hands'
<1> SUFFICES ASSUME Types, Hands, RefsExact, [Next]_vars PROVE Hands'
  OBVIOUS
<1> USE DEF Goto, io, ring
<1>1. CASE UNCHANGED vars
  BY <1>1 DEF vars, Hands, HandOn, LockOn, Open, Unused
<1>2. ASSUME NEW p \in Procs,
             \/ SysPipe(p) \/ FileAlloc(p) \/ PipeAlloc(p) \/ InstallFds(p)
             \/ SysDup(p) \/ SysClose(p) \/ FileClose(p) \/ Closed(p) \/ PipeClose(p)
             \/ Exit(p) \/ Reap(p)
             \/ SysWrite(p) \/ Write(p) \/ SysRead(p) \/ Read(p)
      PROVE  Hands'
  <2>1. Frame(p)
    BY <1>2, FrameOf
  <2>2. \A x \in Pages : lock[x] # p
    <3>1. pc[p] \notin InPipe \/ state[p] # "RUNNABLE" \/ lock[xp[p]] = NoProc
      BY <1>2 DEF SysPipe, FileAlloc, PipeAlloc, InstallFds, SysDup, SysClose, FileClose, Closed,
                  PipeClose, Exit, Reap, SysWrite, Write, SysRead, Read, At, Call, InPipe
    <3> QED
      BY <3>1, NoLock
  <2>3. \A x \in Pages : \/ lock'[x] \in {lock[x], NoProc}
                         \/ lock'[x] = p /\ pc'[p] \in InPipe /\ xp'[p] = x /\ state'[p] = "RUNNABLE"
    <3> USE DEF Types, RingTypes, ProcTypes
    <3>1. CASE Write(p)
      <4>1. CASE UNCHANGED lock
        BY <4>1
      <4>2. CASE Wakeup(xp[p], "read") /\ lock' = [lock EXCEPT ![xp[p]] = p] /\ UNCHANGED pc
        <5>1. state'[p] = "RUNNABLE"
          BY <3>1, <4>2, WakeupIs DEF Write, At
        <5> QED
          BY <3>1, <4>2, <5>1 DEF Write, At, InPipe
      <4> QED
        BY <3>1, <4>1, <4>2 DEF Write
    <3>2. CASE Read(p)
      BY <3>2 DEF Read, At, InPipe
    <3>3. CASE PipeAlloc(p)
      BY <3>3 DEF PipeAlloc
    <3> QED
      BY <1>2, <3>1, <3>2, <3>3
         DEF SysPipe, FileAlloc, InstallFds, SysDup, SysClose, FileClose, Closed,
             PipeClose, Exit, Reap, SysWrite, SysRead
  <2>4. HandOn(p)'
    <3> USE DEF Types, FileTypes, ProcTypes, HandOn, InPipe, Hands, At, Call, Open, Unused
    <3>1. CASE SysPipe(p)
      BY <3>1 DEF SysPipe
    <3>2. CASE FileAlloc(p)
      <4>1. CASE UNCHANGED hand
        BY <3>2, <4>1 DEF FileAlloc
      <4>2. CASE UNCHANGED pc
        <5>1. PICK f \in Files : ref[f] = 0 /\ hand' = [hand EXCEPT ![p] = Append(hand[p], f)]
          BY <3>2, <4>2 DEF FileAlloc
        <5>2. \A n \in DOMAIN hand[p] : hand[p][n] # f
          BY <5>1, HeldHasRef
        <5>3. Len(hand[p]) \in Nat /\ DOMAIN hand[p] = 1 .. Len(hand[p])
          BY LenProperties
        <5>4. /\ Len(hand'[p]) = Len(hand[p]) + 1
              /\ \A n \in 1 .. Len(hand[p]) : hand'[p][n] = hand[p][n]
              /\ hand'[p][Len(hand[p]) + 1] = f
          BY <5>1, AppendProperties
        <5>5. /\ Len(hand'[p]) <= 2
              /\ Len(hand'[p]) = 2 => hand'[p][1] # hand'[p][2]
          <6>1. PICK n \in Nat : n = Len(hand[p])
            BY <5>3
          <6>2. n < 2 /\ Len(hand'[p]) = n + 1
            BY <3>2, <5>4, <6>1 DEF FileAlloc
          <6>3. CASE n = 0
            BY <6>2, <6>3
          <6>4. CASE n = 1
            <7>1. hand'[p][1] = hand[p][1] /\ hand'[p][2] = f /\ hand[p][1] # f
              BY <5>2, <5>3, <5>4, <6>1, <6>4
            <7> QED
              BY <6>2, <6>4, <7>1
          <6> QED
            BY <6>2, <6>3, <6>4
        <5> QED
          BY <3>2, <4>2, <5>5 DEF FileAlloc
      <4> QED
        BY <3>2, <4>1, <4>2 DEF FileAlloc
    <3>3. CASE PipeAlloc(p)
      BY <3>3 DEF PipeAlloc
    <3>4. CASE InstallFds(p)
      <4>1. state'[p] = "RUNNABLE"
        BY <3>4 DEF InstallFds
      <4>2. CASE hand' = [hand EXCEPT ![p] = <<>>] /\ pc' = [pc EXCEPT ![p] = "user"]
        <5>1. hand'[p] = <<>> /\ Len(hand'[p]) = 0
          BY <4>2, EmptySeq
        <5> QED
          BY <4>1, <4>2, <5>1
      <4>3. CASE UNCHANGED hand /\ pc' = [pc EXCEPT ![p] = "close"]
        BY <4>1, <4>3
      <4> QED
        BY <3>4, <4>2, <4>3 DEF InstallFds
    <3>5. CASE SysDup(p)
      BY <3>5 DEF SysDup
    <3>6. CASE SysClose(p)
      <4>1. PICK f : hand' = [hand EXCEPT ![p] = <<f>>]
        BY <3>6 DEF SysClose
      <4>2. Len(hand'[p]) = 1 /\ state'[p] = "RUNNABLE" /\ pc'[p] = "close"
        BY <3>6, <4>1 DEF SysClose
      <4> QED
        BY <4>2
    <3>7. CASE FileClose(p)
      <4>1. hand'[p] = Tail(hand[p]) /\ hand[p] # <<>>
        BY <3>7 DEF FileClose
      <4>2. state'[p] = "RUNNABLE" /\ pc'[p] \in {"close", "closewrite", "closeread"}
        BY <3>7 DEF FileClose
      <4>3. PICK s : s = Tail(hand[p]) /\ Len(s) <= 1 /\ Len(s) # 2 /\ Len(s) <= 2
        BY <4>1, ShorterTail
      <4> QED
        BY <4>1, <4>2, <4>3
    <3>8. CASE Closed(p)
      <4>1. CASE UNCHANGED hand /\ UNCHANGED ofile
        BY <3>8, <4>1 DEF Closed
      <4>2. CASE hand' = [hand EXCEPT ![p] = <<ofile[p][Lowest(Open(p))]>>]
        <5>1. Len(hand'[p]) = 1
          BY <4>2
        <5>2. state'[p] = "RUNNABLE" /\ pc'[p] = "close"
          BY <3>8, <4>2, <5>1, EmptySeq DEF Closed
        <5> QED
          BY <5>1, <5>2
      <4>3. \/ UNCHANGED hand /\ UNCHANGED ofile
            \/ hand' = [hand EXCEPT ![p] = <<ofile[p][Lowest(Open(p))]>>]
        BY <3>8 DEF Closed
      <4> QED
        BY <4>1, <4>2, <4>3
    <3>9. CASE PipeClose(p)
      <4>1. state'[p] = "RUNNABLE"
        <5>1. PICK x \in Pages : x = xp[p]
          OBVIOUS
        <5>2. Wakeup(x, "read") \/ Wakeup(x, "write")
          BY <3>9, <5>1 DEF PipeClose
        <5>3. CASE Wakeup(x, "read")
          BY <3>9, <5>3, WakeupIs DEF PipeClose
        <5>4. CASE Wakeup(x, "write")
          BY <3>9, <5>4, WakeupIs DEF PipeClose
        <5> QED
          BY <5>2, <5>3, <5>4
      <4>2. pc'[p] = "close" /\ UNCHANGED <<hand, ofile>> /\ Len(hand[p]) <= 1
        BY <3>9 DEF PipeClose
      <4> QED
        BY <4>1, <4>2
    <3>10. CASE Exit(p)
      BY <3>10 DEF Exit
    <3>11. CASE Reap(p)
      BY <3>11 DEF Reap
    <3>12. CASE SysWrite(p)
      BY <3>12 DEF SysWrite
    <3>13. CASE SysRead(p)
      BY <3>13 DEF SysRead
    <3>14. CASE Write(p) \/ Read(p)
      <4>1. state'[p] = "RUNNABLE"
        <5>1. PICK x \in Pages : x = xp[p]
          OBVIOUS
        <5>2. UNCHANGED state \/ Wakeup(x, "read") \/ Wakeup(x, "write")
          BY <3>14, <5>1 DEF Read, Write
        <5> QED
          BY <3>14, <5>2, WakeupIs DEF Read, Write
      <4>2. pc'[p] \in {"user", "read", "write"} /\ UNCHANGED <<hand, ofile>>
        BY <3>14 DEF Read, Write
      <4> QED
        BY <3>14, <4>1, <4>2 DEF Read, Write
    <3> QED
      BY <1>2, <3>1, <3>2, <3>3, <3>4, <3>5, <3>6, <3>7, <3>8, <3>9, <3>10, <3>11, <3>12, <3>13, <3>14
  <2> QED
    BY <2>1, <2>2, <2>3, <2>4, HandsFrom
<1>3. ASSUME NEW p \in Procs, Sleep(p) PROVE Hands'
  <2>1. PICK x \in Pages : x = xp[p] /\ lock[x] = p
    BY <1>3 DEF Sleep, Types, ProcTypes
  <2>2. /\ state' = [state EXCEPT ![p] = "SLEEPING"] /\ lock' = [lock EXCEPT ![x] = NoProc]
        /\ UNCHANGED <<hand, ofile, pc, xp>>
    BY <1>3, <2>1 DEF Sleep
  <2>3. pc[p] \in InPipe /\ state[p] = "RUNNABLE"
    BY <2>1, PipeAssumption DEF Hands, LockOn
  <2>4. ASSUME NEW q \in Procs PROVE HandOn(q)'
    BY <2>2, <2>3 DEF Types, ProcTypes, Hands, HandOn, Open, Unused
  <2>5. ASSUME NEW y \in Pages PROVE LockOn(y)'
    BY <2>1, <2>2 DEF Types, ProcTypes, RingTypes, Hands, LockOn
  <2> QED
    BY <2>4, <2>5 DEF Hands
<1>4. ASSUME NEW p \in Procs, Fork(p) PROVE Hands'
  <2>1. PICK c \in Procs :
             /\ state[c] = "UNUSED"
             /\ state' = [state EXCEPT ![c] = "RUNNABLE"]
             /\ pc' = [pc EXCEPT ![c] = "user"]
             /\ ofile' = [ofile EXCEPT ![c] = ofile[p]]
    BY <1>4 DEF Fork
  <2>2. UNCHANGED <<hand, xp, lock>>
    BY <1>4 DEF Fork
  <2>3. Frame(c)
    BY <2>1, <2>2 DEF Frame, Types, FileTypes, ProcTypes
  <2>4. \A x \in Pages : lock[x] # c
    BY <2>1, NoLock
  <2>5. HandOn(c)'
    BY <2>1, <2>2 DEF Types, ProcTypes, Hands, HandOn, InPipe
  <2> QED
    BY <2>2, <2>3, <2>4, <2>5, HandsFrom
<1>5. ASSUME NEW p \in Procs, NEW q \in Procs, Kill(p, q) PROVE Hands'
  <2>1. Frame(p)
    BY <1>5 DEF Kill, Roused, Frame, Types, ProcTypes
  <2>2. \A x \in Pages : lock[x] # p
    BY <1>5, NoLock DEF Kill, Call, At, InPipe
  <2>3. HandOn(p)'
    BY <1>5 DEF Kill, Roused, Types, ProcTypes, Hands, HandOn, Call, At, InPipe, Open, Unused
  <2> QED
    BY <1>5, <2>1, <2>2, <2>3, HandsFrom DEF Kill
<1> QED
  BY <1>1, <1>2, <1>3, <1>4, <1>5 DEF Next

-----------------------------------------------------------------------------
(* Counting: cells of a table that hold f.                                 *)

One(f, g) == IF f = g THEN 1 ELSE 0
Cells(t, C, f) == {s \in Procs \X C : t[s[1]][s[2]] = f}

(* A list of at most two files as a row of two cells.                      *)
Row(s) == [n \in {1, 2} |-> IF n <= Len(s) THEN s[n] ELSE NoFile]
HandTable(h) == [p \in Procs |-> Row(h[p])]
(* How often it has f.                                                     *)
Times(s, f) == One(f, Row(s)[1]) + One(f, Row(s)[2])

LEMMA FiniteColumns == IsFiniteSet(FDs) /\ IsFiniteSet({1, 2})
<1>1. IsFiniteSet(FDs)
  BY FS_Interval, PipeAssumption DEF FDs
<1>2. IsFiniteSet({1})
  BY FS_Singleton
<1>3. {1, 2} = {1} \cup {2}
  OBVIOUS
<1> QED
  BY <1>1, <1>2, <1>3, FS_AddElement

LEMMA FiniteCells ==
  ASSUME NEW t, NEW C, IsFiniteSet(C), NEW f
  PROVE  IsFiniteSet(Cells(t, C, f)) /\ Cardinality(Cells(t, C, f)) \in Nat
<1>1. IsFiniteSet(Procs \X C)
  BY FS_Product, PipeAssumption
<1>2. Cells(t, C, f) \in SUBSET (Procs \X C)
  BY DEF Cells
<1> QED
  BY <1>1, <1>2, FS_Subset, FS_CardinalityType

(* One cell changes.                                                       *)
SameBut(t, u, C, p, c) == \A q \in Procs, d \in C : q # p \/ d # c => u[q][d] = t[q][d]
CellSteps(t, u, C, p, c, f) ==
  Cardinality(Cells(u, C, f)) = Cardinality(Cells(t, C, f)) + One(f, u[p][c]) - One(f, t[p][c])

LEMMA SetCell ==
  ASSUME NEW C, IsFiniteSet(C), NEW t, NEW u, NEW p \in Procs, NEW c \in C, NEW f,
         SameBut(t, u, C, p, c)
  PROVE  CellSteps(t, u, C, p, c, f)
<1> DEFINE D == Cells(t, C, f) \ {<<p, c>>}
<1>1. IsFiniteSet(D) /\ Cardinality(D) \in Nat /\ <<p, c>> \notin D
  BY FiniteCells, FS_Subset, FS_CardinalityType
<1>2. Cells(t, C, f) = IF f = t[p][c] THEN D \cup {<<p, c>>} ELSE D
  BY DEF Cells
<1> USE DEF SameBut
<1>3. Cells(u, C, f) = IF f = u[p][c] THEN D \cup {<<p, c>>} ELSE D
  BY DEF Cells
<1>4. Cardinality(D \cup {<<p, c>>}) = Cardinality(D) + 1
  BY <1>1, FS_AddElement
<1> HIDE DEF D
<1>5. Cardinality(Cells(t, C, f)) = Cardinality(D) + One(f, t[p][c])
  BY <1>1, <1>2, <1>4 DEF One
<1>6. Cardinality(Cells(u, C, f)) = Cardinality(D) + One(f, u[p][c])
  BY <1>1, <1>3, <1>4 DEF One
<1> QED
  BY <1>1, <1>5, <1>6 DEF One, CellSteps

(* The hands of one process change.                                        *)
HandSame(h, k, p) == \A q \in Procs \ {p} : k[q] = h[q]
HandSteps(h, k, p, f) ==
  Cardinality(Cells(HandTable(k), {1, 2}, f))
    = Cardinality(Cells(HandTable(h), {1, 2}, f)) + Times(k[p], f) - Times(h[p], f)

LEMMA SetHands ==
  ASSUME NEW h, NEW k, NEW p \in Procs, NEW f, HandSame(h, k, p)
  PROVE  HandSteps(h, k, p, f)
<1> USE DEF HandSame
<1> DEFINE u == [q \in Procs |-> [n \in {1, 2} |->
                   IF q = p /\ n = 1 THEN HandTable(k)[q][n] ELSE HandTable(h)[q][n]]]
<1>1. \A q \in Procs \ {p} : HandTable(k)[q] = HandTable(h)[q]
  BY DEF HandTable
<1>2. \A q \in Procs, n \in {1, 2} : q # p \/ n # 1 => u[q][n] = HandTable(h)[q][n]
  OBVIOUS
<1>3. \A q \in Procs, n \in {1, 2} : q # p \/ n # 2 => HandTable(k)[q][n] = u[q][n]
  BY <1>1
<1>4. /\ u[p][1] = Row(k[p])[1] /\ u[p][2] = Row(h[p])[2]
      /\ HandTable(h)[p] = Row(h[p]) /\ HandTable(k)[p] = Row(k[p])
  BY DEF HandTable
<1>5. PICK v, t, w : v = u /\ t = HandTable(h) /\ w = HandTable(k)
  OBVIOUS
<1> HIDE DEF u
<1>6. /\ \A q \in Procs, n \in {1, 2} : q # p \/ n # 1 => v[q][n] = t[q][n]
      /\ \A q \in Procs, n \in {1, 2} : q # p \/ n # 2 => w[q][n] = v[q][n]
      /\ v[p][1] = w[p][1] /\ v[p][2] = t[p][2]
      /\ t[p] = Row(h[p]) /\ w[p] = Row(k[p])
  BY <1>2, <1>3, <1>4, <1>5
<1>7. PICK C, c, d : C = {1, 2} /\ c = 1 /\ d = 2
  OBVIOUS
<1>8. IsFiniteSet(C) /\ c \in C /\ d \in C
  BY <1>7, FiniteColumns
<1>9. SameBut(t, v, C, p, c) /\ SameBut(v, w, C, p, d)
  BY <1>6, <1>7 DEF SameBut
<1>10. /\ Cardinality(Cells(v, C, f)) = Cardinality(Cells(t, C, f)) + One(f, v[p][c]) - One(f, t[p][c])
       /\ Cardinality(Cells(w, C, f)) = Cardinality(Cells(v, C, f)) + One(f, w[p][d]) - One(f, v[p][d])
  <2>1. CellSteps(t, v, C, p, c, f) /\ CellSteps(v, w, C, p, d, f)
    BY <1>8, <1>9, SetCell
  <2> QED
    BY <2>1 DEF CellSteps
<1>11. /\ Cardinality(Cells(t, C, f)) \in Nat
       /\ Cardinality(Cells(w, C, f)) \in Nat
       /\ Cardinality(Cells(v, C, f)) \in Nat
  BY <1>8, FiniteCells
<1>12. Cardinality(Cells(w, C, f))
         = Cardinality(Cells(t, C, f)) + (One(f, w[p][1]) + One(f, w[p][2]))
                                       - (One(f, t[p][1]) + One(f, t[p][2]))
  BY <1>6, <1>7, <1>10, <1>11 DEF One
<1> QED
  BY <1>5, <1>6, <1>7, <1>12 DEF Times, HandSteps

(* What RefsExact counts, in these terms.                                  *)
Counted(t, h, f) == Cardinality(Cells(t, FDs, f)) + Cardinality(Cells(HandTable(h), {1, 2}, f))

Refs == \A f \in Files : ref[f] = Counted(ofile, hand, f)

LEMMA RefsAre == Types => (RefsExact <=> Refs)
<1> SUFFICES ASSUME Types PROVE RefsExact <=> Refs
  OBVIOUS
<1>1. ASSUME NEW f \in Files PROVE Descs(f) = Cells(ofile, FDs, f)
  BY DEF Descs, Cells
<1>2. ASSUME NEW f \in Files PROVE InHands(f) = Cells(HandTable(hand), {1, 2}, f)
  <2>1. ASSUME NEW s \in Procs \X {1, 2}
        PROVE  s[2] \in DOMAIN hand[s[1]] /\ hand[s[1]][s[2]] = f <=> HandTable(hand)[s[1]][s[2]] = f
    <3>1. PICK p \in Procs, n \in {1, 2} : s = <<p, n>>
      OBVIOUS
    <3>2. hand[p] \in Seq(Files) /\ DOMAIN hand[p] = 1 .. Len(hand[p]) /\ Len(hand[p]) \in Nat
      BY LenProperties DEF Types, ProcTypes
    <3>3. n \in DOMAIN hand[p] <=> n <= Len(hand[p])
      BY <3>2
    <3>4. HandTable(hand)[p][n] = IF n <= Len(hand[p]) THEN hand[p][n] ELSE NoFile
      BY DEF HandTable, Row
    <3> QED
      BY <3>1, <3>3, <3>4, PipeAssumption
  <2> QED
    BY <2>1 DEF InHands, Cells
<1> QED
  BY <1>1, <1>2 DEF RefsExact, Refs, Counted

(* Lists of at most two files.                                             *)
LEMMA RowIs ==
  ASSUME NEW s, NEW f \in Files
  PROVE  /\ Len(s) = 0 => Times(s, f) = 0
         /\ Len(s) = 1 => Times(s, f) = One(f, s[1])
         /\ Len(s) = 2 => Times(s, f) = One(f, s[1]) + One(f, s[2])
  BY PipeAssumption DEF Times, Row, One

LEMMA TimesIs ==
  ASSUME NEW s \in Seq(Files), Len(s) <= 2, NEW f \in Files, NEW g \in Files
  PROVE  /\ Times(s, f) \in Nat /\ Times(<<>>, f) = 0 /\ Times(<<g>>, f) = One(f, g)
         /\ Len(s) < 2 => Times(Append(s, g), f) = Times(s, f) + One(f, g)
         /\ s # <<>> => Times(Tail(s), f) = Times(s, f) - One(f, Head(s))
<1>1. Times(<<>>, f) = 0
  BY RowIs
<1>2. Times(<<g>>, f) = One(f, g)
  <2>1. PICK u : u = <<g>>
    OBVIOUS
  <2>2. Len(u) = 1 /\ u[1] = g
    BY <2>1
  <2> QED
    BY <2>1, <2>2, RowIs
<1>3. Times(s, f) \in Nat
  BY DEF Times, One
<1>4. PICK n \in Nat : n = Len(s) /\ n <= 2
  BY LenProperties
<1>5. ASSUME Len(s) < 2 PROVE Times(Append(s, g), f) = Times(s, f) + One(f, g)
  <2>1. PICK u : u = Append(s, g)
    OBVIOUS
  <2>2. Len(u) = n + 1 /\ u[n + 1] = g /\ \A i \in 1 .. n : u[i] = s[i]
    BY <1>4, <2>1, AppendProperties
  <2>3. CASE n = 0
    <3>1. Len(u) = 1 /\ u[1] = g
      BY <2>2, <2>3
    <3>2. Times(u, f) = One(f, g) /\ Times(s, f) = 0
      BY <1>4, <2>3, <3>1, RowIs
    <3> QED
      BY <2>1, <3>2 DEF One
  <2>4. CASE n = 1
    <3>1. Len(u) = 2 /\ u[2] = g /\ u[1] = s[1]
      BY <2>2, <2>4
    <3>2. Times(u, f) = One(f, s[1]) + One(f, g) /\ Times(s, f) = One(f, s[1])
      BY <1>4, <2>4, <3>1, RowIs
    <3> QED
      BY <2>1, <3>2
  <2> QED
    BY <1>4, <1>5, <2>3, <2>4
<1>6. ASSUME s # <<>> PROVE Times(Tail(s), f) = Times(s, f) - One(f, Head(s))
  <2>1. PICK u : u = Tail(s)
    OBVIOUS
  <2>2. Len(u) = n - 1 /\ \A i \in 1 .. n - 1 : u[i] = s[i + 1]
    BY <1>4, <1>6, <2>1, HeadTailProperties
  <2>3. n # 0 /\ Head(s) = s[1]
    BY <1>4, <1>6, EmptySeq
  <2>4. CASE n = 1
    <3>1. Len(u) = 0
      BY <2>2, <2>4
    <3>2. Times(u, f) = 0 /\ Times(s, f) = One(f, s[1])
      BY <1>4, <2>4, <3>1, RowIs
    <3> QED
      BY <2>1, <2>3, <3>2 DEF One
  <2>5. CASE n = 2
    <3>1. Len(u) = 1 /\ u[1] = s[2]
      BY <2>2, <2>5
    <3>2. Times(u, f) = One(f, s[2]) /\ Times(s, f) = One(f, s[1]) + One(f, s[2])
      BY <1>4, <2>5, <3>1, RowIs
    <3> QED
      BY <2>1, <2>3, <3>2 DEF One
  <2> QED
    BY <1>4, <2>3, <2>4, <2>5
<1> QED
  BY <1>1, <1>2, <1>3, <1>5, <1>6

LEMMA CountedType ==
  ASSUME NEW t, NEW h, NEW f
  PROVE  /\ Cardinality(Cells(t, FDs, f)) \in Nat
         /\ Cardinality(Cells(HandTable(h), {1, 2}, f)) \in Nat
         /\ Counted(t, h, f) \in Nat
  BY FiniteColumns, FiniteCells DEF Counted

(* One descriptor and the hands of a process change.                       *)
CountSteps(t, u, p, c, h, k, f) ==
  Counted(u, k, f) = Counted(t, h, f) + One(f, u[p][c]) - One(f, t[p][c])
                       + Times(k[p], f) - Times(h[p], f)

LEMMA CountStep ==
  ASSUME NEW t, NEW u, NEW p \in Procs, NEW c \in FDs, SameBut(t, u, FDs, p, c),
         NEW h, NEW k, HandSame(h, k, p), NEW f
  PROVE  CountSteps(t, u, p, c, h, k, f)
<1>1. CellSteps(t, u, FDs, p, c, f) /\ HandSteps(h, k, p, f)
  BY SetCell, SetHands, FiniteColumns
<1>2. /\ Cardinality(Cells(t, FDs, f)) \in Nat /\ Cardinality(Cells(u, FDs, f)) \in Nat
      /\ Cardinality(Cells(HandTable(h), {1, 2}, f)) \in Nat
      /\ Cardinality(Cells(HandTable(k), {1, 2}, f)) \in Nat
  BY CountedType
<1>3. \A s : Times(s, f) \in Nat
  BY DEF Times, One
<1>4. One(f, u[p][c]) \in Nat /\ One(f, t[p][c]) \in Nat
  BY DEF One
<1> QED
  BY <1>1, <1>2, <1>3, <1>4 DEF CellSteps, HandSteps, Counted, CountSteps

(* The hands of a process change.                                          *)
HandCounts(t, h, k, p, f) ==
  Counted(t, k, f) = Counted(t, h, f) + Times(k[p], f) - Times(h[p], f)

LEMMA HandStep ==
  ASSUME NEW t, NEW p \in Procs, NEW h, NEW k, HandSame(h, k, p), NEW f
  PROVE  HandCounts(t, h, k, p, f)
<1>1. HandSteps(h, k, p, f)
  BY SetHands
<1>2. /\ Cardinality(Cells(t, FDs, f)) \in Nat
      /\ Cardinality(Cells(HandTable(h), {1, 2}, f)) \in Nat
      /\ Cardinality(Cells(HandTable(k), {1, 2}, f)) \in Nat
  BY CountedType
<1>3. \A s : Times(s, f) \in Nat
  BY DEF Times, One
<1> QED
  BY <1>1, <1>2, <1>3 DEF HandSteps, Counted, HandCounts

LEMMA RefsAreNext == Types' => (RefsExact' <=> Refs')
  BY RefsAre, PTL

LEMMA RefsFrom ==
  ASSUME Types', \A f \in Files : ref'[f] = Counted(ofile', hand', f)
  PROVE  RefsExact'
<1>1. Refs'
  BY DEF Refs
<1> QED
  BY <1>1, RefsAreNext

(* Who has something in the counts.                                        *)
LEMMA OpenIs ==
  ASSUME Types, NEW p \in Procs
  PROVE  /\ \A fd \in Open(p) : fd \in FDs /\ ofile[p][fd] \in Files
         /\ \A fd \in Unused(p) : fd \in FDs /\ ofile[p][fd] = NoFile
         /\ Open(p) # {} => Lowest(Open(p)) \in Open(p)
         /\ Unused(p) # {} => Lowest(Unused(p)) \in Unused(p)
<1>1. Open(p) \in SUBSET FDs /\ Unused(p) \in SUBSET FDs
  BY DEF Open, Unused
<1>2. \A fd \in Open(p) : fd \in FDs /\ ofile[p][fd] \in Files
  BY DEF Open, Unused, Types, FileTypes
<1>3. \A fd \in Unused(p) : fd \in FDs /\ ofile[p][fd] = NoFile
  BY DEF Unused
<1>4. /\ Open(p) # {} => Lowest(Open(p)) \in Open(p)
      /\ Unused(p) # {} => Lowest(Unused(p)) \in Unused(p)
  BY <1>1, LowestIs
<1> QED
  BY <1>2, <1>3, <1>4

(* The two descriptors of InstallFds.                                      *)
LEMMA TwoUnused ==
  ASSUME Types, NEW p \in Procs, Cardinality(Unused(p)) >= 2, NEW m, m = Lowest(Unused(p)),
         NEW n, n = Lowest(Unused(p) \ {m})
  PROVE  m \in Unused(p) /\ n \in Unused(p) /\ m # n
<1>1. IsFiniteSet(Unused(p)) /\ Unused(p) \in SUBSET FDs
  BY FiniteColumns, FS_Subset DEF Unused
<1>2. Unused(p) # {}
  BY <1>1, FS_EmptySet
<1>3. m \in Unused(p)
  BY <1>2, OpenIs
<1>4. Cardinality(Unused(p) \ {m}) >= 1
  <2>1. PICK k \in Nat : k = Cardinality(Unused(p)) /\ k >= 2
    BY <1>1, FS_CardinalityType
  <2>2. Cardinality(Unused(p) \ {m}) = k - 1
    BY <1>1, <1>3, <2>1, FS_RemoveElement
  <2> QED
    BY <2>1, <2>2
<1>5. Unused(p) \ {m} # {} /\ Unused(p) \ {m} \in SUBSET FDs
  BY <1>1, <1>4, FS_EmptySet
<1>6. n \in Unused(p) \ {m}
  BY <1>5, LowestIs
<1> QED
  BY <1>3, <1>6

LEMMA RefsNext == Types /\ Hands /\ RefsExact /\ [Next]_vars => RefsExact'
<1> SUFFICES ASSUME Types, Hands, RefsExact, [Next]_vars PROVE RefsExact'
  OBVIOUS
<1>1. Types'
  BY TypesNext
<1>2. \A f \in Files : ref[f] = Counted(ofile, hand, f)
  BY RefsAre DEF Refs
<1>3. CASE UNCHANGED <<ref, ofile, hand>>
  BY <1>1, <1>2, <1>3, RefsFrom
<1>4. ASSUME NEW p \in Procs, FileAlloc(p) PROVE RefsExact'
  <2>1. CASE UNCHANGED <<ref, hand>>
    BY <1>3, <1>4, <2>1 DEF FileAlloc
  <2>2. CASE \E f \in Files :
               /\ ref[f] = 0
               /\ ref' = [ref EXCEPT ![f] = 1]
               /\ hand' = [hand EXCEPT ![p] = Append(@, f)]
    <3>1. PICK f \in Files :
               /\ ref[f] = 0
               /\ ref' = [ref EXCEPT ![f] = 1]
               /\ hand' = [hand EXCEPT ![p] = Append(@, f)]
      BY <2>2
    <3>2. HandSame(hand, hand', p) /\ hand'[p] = Append(hand[p], f) /\ UNCHANGED ofile
      BY <1>4, <3>1 DEF HandSame, FileAlloc, Types, ProcTypes
    <3>3. hand[p] \in Seq(Files) /\ Len(hand[p]) < 2 /\ Len(hand[p]) <= 2
      BY <1>4 DEF FileAlloc, Types, ProcTypes, Hands, HandOn
    <3>4. ASSUME NEW g \in Files PROVE ref'[g] = Counted(ofile', hand', g)
      <4>1. Times(hand'[p], g) = Times(hand[p], g) + One(g, f) /\ Times(hand[p], g) \in Nat
        BY <3>2, <3>3, TimesIs
      <4>2. Counted(ofile', hand', g)
              = Counted(ofile, hand, g) + Times(hand'[p], g) - Times(hand[p], g)
        <5>1. HandCounts(ofile, hand, hand', p, g)
          BY <3>2, HandStep
        <5> QED
          BY <3>2, <5>1 DEF HandCounts
      <4>3. ref'[g] = ref[g] + One(g, f)
        BY <3>1 DEF One, Types, FileTypes
      <4> QED
        BY <1>2, <4>1, <4>2, <4>3, CountedType DEF One
    <3> QED
      BY <1>1, <3>4, RefsFrom
  <2> QED
    BY <1>4, <2>1, <2>2 DEF FileAlloc
<1>5. ASSUME NEW p \in Procs, InstallFds(p) PROVE RefsExact'
  <2>1. CASE UNCHANGED <<ofile, hand>>
    BY <1>3, <1>5, <2>1 DEF InstallFds, files
  <2>2. CASE /\ Cardinality(Unused(p)) >= 2
             /\ \E m, n :
                  /\ m = Lowest(Unused(p)) /\ n = Lowest(Unused(p) \ {m})
                  /\ ofile' = [ofile EXCEPT ![p][m] = hand[p][1], ![p][n] = hand[p][2]]
             /\ hand' = [hand EXCEPT ![p] = <<>>]
    <3>1. PICK m, n :
                  /\ m = Lowest(Unused(p)) /\ n = Lowest(Unused(p) \ {m})
                  /\ ofile' = [ofile EXCEPT ![p][m] = hand[p][1], ![p][n] = hand[p][2]]
      BY <2>2
    <3>2. m \in Unused(p) /\ n \in Unused(p) /\ m # n
      BY <2>2, <3>1, TwoUnused
    <3>3. /\ m \in FDs /\ n \in FDs /\ ofile[p][m] = NoFile /\ ofile[p][n] = NoFile
      BY <3>2, OpenIs
    <3>4. /\ ofile' = [ofile EXCEPT ![p][m] = hand[p][1], ![p][n] = hand[p][2]]
          /\ hand' = [hand EXCEPT ![p] = <<>>] /\ UNCHANGED ref
      BY <1>5, <2>2, <3>1 DEF InstallFds, files
    <3>5. PICK u : u = [ofile EXCEPT ![p][m] = hand[p][1]]
      OBVIOUS
    <3>6. SameBut(ofile, u, FDs, p, m) /\ u[p][m] = hand[p][1] /\ u[p][n] = NoFile
      BY <3>3, <3>2, <3>5 DEF SameBut, Types, FileTypes
    <3>7. SameBut(u, ofile', FDs, p, n) /\ ofile'[p][n] = hand[p][2]
      BY <3>3, <3>2, <3>4, <3>5 DEF SameBut, Types, FileTypes
    <3>8. HandSame(hand, hand', p) /\ HandSame(hand, hand, p) /\ hand'[p] = <<>>
      BY <3>4 DEF HandSame, Types, ProcTypes
    <3>9. /\ hand[p] \in Seq(Files) /\ Len(hand[p]) = 2
      BY <1>5 DEF InstallFds, At, Types, ProcTypes, Hands, HandOn
    <3>10. ASSUME NEW g \in Files PROVE ref'[g] = Counted(ofile', hand', g)
      <4>1. Counted(u, hand, g) = Counted(ofile, hand, g) + One(g, hand[p][1]) - One(g, NoFile)
                                    + Times(hand[p], g) - Times(hand[p], g)
        <5>1. CountSteps(ofile, u, p, m, hand, hand, g)
          BY <3>3, <3>6, <3>8, CountStep
        <5> QED
          BY <3>3, <3>6, <5>1 DEF CountSteps
      <4>2. Counted(ofile', hand', g) = Counted(u, hand, g) + One(g, hand[p][2]) - One(g, NoFile)
                                          + Times(<<>>, g) - Times(hand[p], g)
        <5>1. CountSteps(u, ofile', p, n, hand, hand', g)
          BY <3>3, <3>7, <3>8, CountStep
        <5> QED
          BY <3>6, <3>7, <3>8, <5>1 DEF CountSteps
      <4>3. /\ Times(hand[p], g) = One(g, hand[p][1]) + One(g, hand[p][2])
            /\ Times(<<>>, g) = 0 /\ One(g, NoFile) = 0
        BY <3>9, RowIs, TimesIs, PipeAssumption DEF One
      <4>4. One(g, hand[p][1]) \in Nat /\ One(g, hand[p][2]) \in Nat
        BY DEF One
      <4>5. /\ Counted(ofile, hand, g) \in Nat /\ Counted(u, hand, g) \in Nat
            /\ Counted(ofile', hand', g) \in Nat
        BY CountedType
      <4>6. Counted(ofile', hand', g) = Counted(ofile, hand, g)
        BY ONLY <4>1, <4>2, <4>3, <4>4, <4>5
      <4> QED
        BY <1>2, <3>4, <4>6
    <3> QED
      BY <1>1, <3>10, RefsFrom
  <2> QED
    BY <1>5, <2>1, <2>2 DEF InstallFds
<1>6. ASSUME NEW p \in Procs, SysDup(p) PROVE RefsExact'
  <2>1. PICK fd \in Open(p) :
             /\ ofile' = [ofile EXCEPT ![p][Lowest(Unused(p))] = ofile[p][fd]]
             /\ ref' = FileDup(ref, ofile[p][fd])
    BY <1>6 DEF SysDup
  <2>2. PICK m, f : m = Lowest(Unused(p)) /\ f = ofile[p][fd]
    OBVIOUS
  <2>3. m \in FDs /\ ofile[p][m] = NoFile /\ f \in Files
    BY <1>6, <2>2, OpenIs DEF SysDup
  <2>4. SameBut(ofile, ofile', FDs, p, m) /\ ofile'[p][m] = f
    BY <2>1, <2>2, <2>3 DEF SameBut, Types, FileTypes
  <2>5. HandSame(hand, hand, p) /\ UNCHANGED hand
    BY <1>6 DEF HandSame, SysDup
  <2>6. ASSUME NEW g \in Files PROVE ref'[g] = Counted(ofile', hand', g)
    <3>1. Counted(ofile', hand, g) = Counted(ofile, hand, g) + One(g, f) - One(g, NoFile)
                                       + Times(hand[p], g) - Times(hand[p], g)
      <4>1. CountSteps(ofile, ofile', p, m, hand, hand, g)
        BY <2>3, <2>4, <2>5, CountStep
      <4> QED
        BY <2>3, <2>4, <4>1 DEF CountSteps
    <3>2. ref'[g] = ref[g] + One(g, f)
      BY <2>1, <2>2, <2>3 DEF One, FileDup, Types, FileTypes
    <3>3. Times(hand[p], g) \in Nat /\ One(g, NoFile) = 0 /\ One(g, f) \in Nat
      BY PipeAssumption DEF Times, One
    <3> QED
      BY <1>2, <2>5, <3>1, <3>2, <3>3, CountedType
  <2> QED
    BY <1>1, <2>6, RefsFrom
<1>7. ASSUME NEW p \in Procs, UNCHANGED ref, hand[p] = <<>>, NEW fd \in Open(p),
             ofile' = [ofile EXCEPT ![p][fd] = NoFile],
             hand' = [hand EXCEPT ![p] = <<ofile[p][fd]>>]
      PROVE  RefsExact'
  <2>1. PICK f \in Files : f = ofile[p][fd] /\ fd \in FDs
    BY OpenIs
  <2>2. SameBut(ofile, ofile', FDs, p, fd) /\ ofile'[p][fd] = NoFile
    BY <1>7, <2>1 DEF SameBut, Types, FileTypes
  <2>3. HandSame(hand, hand', p) /\ hand'[p] = <<f>>
    BY <1>7, <2>1 DEF HandSame, Types, ProcTypes
  <2>4. ASSUME NEW g \in Files PROVE ref'[g] = Counted(ofile', hand', g)
    <3>1. Counted(ofile', hand', g) = Counted(ofile, hand, g) + One(g, NoFile) - One(g, f)
                                        + Times(<<f>>, g) - Times(<<>>, g)
      <4>1. CountSteps(ofile, ofile', p, fd, hand, hand', g)
        BY <2>1, <2>2, <2>3, CountStep
      <4> QED
        BY <1>7, <2>1, <2>2, <2>3, <4>1 DEF CountSteps
    <3>2. <<>> \in Seq(Files) /\ Len(<<>>) <= 2
      BY EmptySeq
    <3>3. Times(<<>>, g) = 0 /\ Times(<<f>>, g) = One(g, f)
      BY <3>2, TimesIs
    <3>4. One(g, NoFile) = 0 /\ One(g, f) \in Nat
      BY PipeAssumption DEF One
    <3> QED
      BY <1>2, <1>7, <3>1, <3>3, <3>4, CountedType
  <2> QED
    BY <1>1, <2>4, RefsFrom
<1>8. ASSUME NEW p \in Procs, SysClose(p) PROVE RefsExact'
  <2>1. UNCHANGED ref /\ hand[p] = <<>>
    BY <1>8 DEF SysClose, files, Call, At, Hands, HandOn
  <2> QED
    BY <1>7, <1>8, <2>1 DEF SysClose
<1>9. ASSUME NEW p \in Procs, Closed(p) PROVE RefsExact'
  <2>1. UNCHANGED ref /\ hand[p] = <<>>
    BY <1>9 DEF Closed, files
  <2>2. CASE UNCHANGED <<ofile, hand>>
    BY <1>3, <2>1, <2>2
  <2>3. CASE /\ Open(p) # {}
             /\ ofile' = [ofile EXCEPT ![p][Lowest(Open(p))] = NoFile]
             /\ hand' = [hand EXCEPT ![p] = <<ofile[p][Lowest(Open(p))]>>]
    <3>1. PICK fd : fd = Lowest(Open(p)) /\ fd \in Open(p)
      BY <2>3, OpenIs
    <3> QED
      BY <1>7, <2>1, <2>3, <3>1
  <2> QED
    BY <1>9, <2>2, <2>3 DEF Closed
<1>10. ASSUME NEW p \in Procs, FileClose(p) PROVE RefsExact'
  <2>1. hand[p] \in Seq(Files) /\ hand[p] # <<>> /\ Len(hand[p]) <= 2
    BY <1>10 DEF FileClose, Types, ProcTypes, Hands, HandOn
  <2>2. PICK f \in Files : f = Head(hand[p])
    BY <2>1, HeadTailProperties
  <2>3. HandSame(hand, hand', p) /\ hand'[p] = Tail(hand[p]) /\ UNCHANGED ofile
    BY <1>10 DEF HandSame, FileClose, Types, ProcTypes
  <2>4. ref' = [ref EXCEPT ![f] = ref[f] - 1]
    BY <1>10, <2>2 DEF FileClose, LastRef, Types, FileTypes
  <2>5. ASSUME NEW g \in Files PROVE ref'[g] = Counted(ofile', hand', g)
    <3>1. Times(hand'[p], g) = Times(hand[p], g) - One(g, f) /\ Times(hand[p], g) \in Nat
      BY <2>1, <2>2, <2>3, TimesIs
    <3>2. Counted(ofile', hand', g)
            = Counted(ofile, hand, g) + Times(hand'[p], g) - Times(hand[p], g)
      <4>1. HandCounts(ofile, hand, hand', p, g)
        BY <2>3, HandStep
      <4> QED
        BY <2>3, <4>1 DEF HandCounts
    <3>3. ref'[g] = ref[g] - One(g, f)
      BY <2>4 DEF One, Types, FileTypes
    <3> QED
      BY <1>2, <3>1, <3>2, <3>3, CountedType DEF One
  <2> QED
    BY <1>1, <2>5, RefsFrom
<1>11. ASSUME NEW p \in Procs, Fork(p) PROVE RefsExact'
  <2>1. PICK c \in Procs :
             /\ state[c] = "UNUSED"
             /\ ofile' = [ofile EXCEPT ![c] = ofile[p]]
             /\ ref' = [f \in Files |-> ref[f] + Cardinality({fd \in FDs : ofile[p][fd] = f})]
             /\ UNCHANGED hand
    BY <1>11 DEF Fork
  <2>2. Open(c) = {}
    BY <2>1 DEF Hands, HandOn
  <2>3. ASSUME NEW g \in Files PROVE ref'[g] = Counted(ofile', hand', g)
    <3> DEFINE F == {fd \in FDs : ofile[p][fd] = g}
    <3>1. ref'[g] = ref[g] + Cardinality(F)
      BY <2>1
    <3>2. IsFiniteSet(F) /\ Cardinality(F) \in Nat
      BY FiniteColumns, FS_Subset, FS_CardinalityType
    <3>3. \A fd \in FDs : ofile[c][fd] # g
      BY <2>2, PipeAssumption DEF Open, Unused
    <3>4. Cells(ofile', FDs, g) = Cells(ofile, FDs, g) \cup ({c} \X F)
      BY <2>1, <3>3 DEF Cells, Types, FileTypes
    <3>5. Cells(ofile, FDs, g) \cap ({c} \X F) = {}
      BY <3>3 DEF Cells
    <3> HIDE DEF F
    <3>6. IsFiniteSet({c} \X F) /\ Cardinality({c} \X F) = Cardinality(F)
      <4>1. IsFiniteSet({c}) /\ Cardinality({c}) = 1
        BY FS_Singleton
      <4> QED
        BY <3>2, <4>1, FS_Product
    <3>7. IsFiniteSet(Cells(ofile, FDs, g)) /\ Cardinality(Cells(ofile, FDs, g)) \in Nat
      BY FiniteCells, FiniteColumns
    <3>8. Cardinality(Cells(ofile', FDs, g)) = Cardinality(Cells(ofile, FDs, g)) + Cardinality(F)
      <4>1. PICK S, T : S = Cells(ofile, FDs, g) /\ T = {c} \X F
        OBVIOUS
      <4>2. /\ IsFiniteSet(S) /\ IsFiniteSet(T) /\ S \cap T = {}
            /\ Cardinality(S) \in Nat /\ Cardinality(T) \in Nat
        BY <3>2, <3>5, <3>6, <3>7, <4>1
      <4>3. Cardinality(S \cup T) = Cardinality(S) + Cardinality(T) - Cardinality(S \cap T)
        BY <4>2, FS_Union
      <4>4. Cardinality(S \cap T) = 0
        BY <4>2, FS_EmptySet
      <4> QED
        BY <3>4, <3>6, <4>1, <4>2, <4>3, <4>4
    <3> QED
      BY <1>2, <2>1, <3>1, <3>2, <3>8, CountedType DEF Counted
  <2> QED
    BY <1>1, <2>3, RefsFrom
<1>12. ASSUME NEW p \in Procs,
              \/ SysPipe(p) \/ PipeAlloc(p) \/ PipeClose(p) \/ Exit(p) \/ Reap(p) \/ SysWrite(p)
              \/ Write(p) \/ SysRead(p) \/ Read(p) \/ Sleep(p) \/ \E q \in Procs : Kill(p, q)
       PROVE  RefsExact'
  BY <1>3, <1>12 DEF files, SysPipe, PipeAlloc, PipeClose, Exit, Reap, SysWrite, Write,
                     SysRead, Read, Sleep, Kill
<1> QED
  BY <1>3, <1>4, <1>5, <1>6, <1>8, <1>9, <1>10, <1>11, <1>12 DEF Next, vars

-----------------------------------------------------------------------------
(* Kinds.                                                                  *)

LEMMA HandIs ==
  ASSUME Types, Hands, NEW p \in Procs
  PROVE  /\ Len(hand[p]) \in 0 .. 2 /\ DOMAIN hand[p] = 1 .. Len(hand[p])
         /\ \A n \in DOMAIN hand[p] : n \in {1, 2} /\ hand[p][n] \in Files
         /\ hand[p] = <<>> <=> Len(hand[p]) = 0
         /\ hand[p] # <<>> => 1 \in DOMAIN hand[p] /\ Head(hand[p]) = hand[p][1]
<1>1. hand[p] \in Seq(Files) /\ Len(hand[p]) \in Nat /\ Len(hand[p]) <= 2
  BY LenProperties DEF Types, ProcTypes, Hands, HandOn
<1>2. DOMAIN hand[p] = 1 .. Len(hand[p])
  BY <1>1, LenProperties
<1>3. \A n \in 1 .. Len(hand[p]) : hand[p][n] \in Files
  BY <1>1, ElementOfSeq
<1>4. hand[p] = <<>> <=> Len(hand[p]) = 0
  BY <1>1, EmptySeq
<1>5. PICK k \in Nat : k = Len(hand[p]) /\ k <= 2
  BY <1>1
<1>6. k \in 0 .. 2 /\ \A n \in 1 .. k : n \in {1, 2}
  <2>1. k <= 2
    BY <1>5
  <2> QED
    BY <2>1
<1>7. hand[p] # <<>> => 1 \in DOMAIN hand[p] /\ Head(hand[p]) = hand[p][1]
  BY <1>1, <1>2, <1>4
<1> QED
  BY <1>2, <1>3, <1>4, <1>5, <1>6, <1>7

(* Reference counts are natural numbers, and what is held is counted.      *)
LEMMA RefIs ==
  ASSUME Types, Hands, RefsExact
  PROVE  /\ \A f \in Files : ref[f] \in Nat
         /\ \A p \in Procs, fd \in FDs : ofile[p][fd] # NoFile => ref[ofile[p][fd]] # 0
         /\ \A p \in Procs : \A n \in DOMAIN hand[p] : ref[hand[p][n]] # 0
<1>1. \A f \in Files : ref[f] \in Nat
  BY RefsAre, CountedType DEF Refs
<1>2. ASSUME NEW p \in Procs, NEW fd \in FDs, ofile[p][fd] # NoFile PROVE ref[ofile[p][fd]] # 0
  <2>1. ofile[p][fd] \in Files
    BY <1>2 DEF Types, FileTypes
  <2> QED
    BY <2>1, HeldHasRef
<1>3. ASSUME NEW p \in Procs, NEW n \in DOMAIN hand[p] PROVE ref[hand[p][n]] # 0
  BY HandIs, HeldHasRef
<1> QED
  BY <1>1, <1>2, <1>3

(* The last reference is one's own.                                        *)
LEMMA LastIs ==
  ASSUME Types, Hands, RefsExact, NEW p \in Procs, hand[p] # <<>>, ref[hand[p][1]] = 1
  PROVE  /\ \A q \in Procs, fd \in FDs : ofile[q][fd] # hand[p][1]
         /\ \A q \in Procs : \A n \in DOMAIN hand[q] : hand[q][n] = hand[p][1] => q = p /\ n = 1
<1>1. PICK f \in Files : f = hand[p][1] /\ 1 \in DOMAIN hand[p]
  BY HandIs
<1>2. IsFiniteSet(Procs \X FDs) /\ IsFiniteSet(Procs \X {1, 2})
  BY FiniteColumns, FS_Product, PipeAssumption
<1>3. IsFiniteSet(Descs(f)) /\ IsFiniteSet(InHands(f))
  BY <1>2, FS_Subset DEF Descs, InHands
<1>4. PICK a \in Nat, b \in Nat : a = Cardinality(Descs(f)) /\ b = Cardinality(InHands(f))
  BY <1>3, FS_CardinalityType
<1>5. a + b = 1
  BY <1>1, <1>4 DEF RefsExact
<1>6. <<p, 1>> \in InHands(f)
  BY <1>1 DEF InHands
<1>7. b # 0
  BY <1>3, <1>4, <1>6, FS_EmptySet
<1>8. a = 0 /\ b = 1
  BY <1>5, <1>7
<1>9. Descs(f) = {} /\ \E s : InHands(f) = {s}
  BY <1>3, <1>4, <1>8, FS_EmptySet, FS_Singleton
<1>10. InHands(f) = {<<p, 1>>}
  BY <1>6, <1>9
<1>11. ASSUME NEW q \in Procs, NEW fd \in FDs PROVE ofile[q][fd] # f
  <2>1. <<q, fd>> \notin Descs(f)
    BY <1>9
  <2> QED
    BY <2>1 DEF Descs
<1>12. ASSUME NEW q \in Procs, NEW n \in DOMAIN hand[q], hand[q][n] = f PROVE q = p /\ n = 1
  <2>1. <<q, n>> \in InHands(f)
    BY <1>12, HandIs DEF InHands
  <2> QED
    BY <1>10, <2>1
<1> QED
  BY <1>1, <1>11, <1>12

(* A step that leaves the files and the hands alone.                       *)
LEMMA KindsQuiet ==
  ASSUME Kinds, UNCHANGED <<ref, type, ofile, hand>>,
         \A q \in Procs : pc'[q] \in {"pipe", "fds"} => pc'[q] = pc[q] \/ hand[q] = <<>>
  PROVE  Kinds'
<1>1. OpenKinds' /\ KindRefs'
  BY DEF Kinds, OpenKinds, KindRefs
<1>2. \A q \in Procs : \A n \in DOMAIN hand[q] : hand[q] # <<>>
  BY EmptySeq
<1>3. HandKinds'
  BY <1>2 DEF Kinds, HandKinds
<1>4. HandsApart'
  BY <1>2 DEF Kinds, HandsApart
<1> QED
  BY <1>1, <1>3, <1>4 DEF Kinds

(* A descriptor is closed: the file goes into the hands.                   *)
LEMMA KindsClose ==
  ASSUME Types, Types', Hands, Kinds, NEW p \in Procs, NEW fd \in Open(p), UNCHANGED <<ref, type>>,
         ofile' = [ofile EXCEPT ![p][fd] = NoFile],
         hand' = [hand EXCEPT ![p] = <<ofile[p][fd]>>],
         pc'[p] = "close", \A q \in Procs \ {p} : pc'[q] = pc[q]
  PROVE  Kinds'
<1>1. PICK f \in Files : f = ofile[p][fd] /\ fd \in FDs /\ type[f] = "pipe"
  <2>1. fd \in FDs /\ ofile[p][fd] \in Files /\ ofile[p][fd] # NoFile
    BY OpenIs, PipeAssumption
  <2> QED
    BY <2>1 DEF Kinds, OpenKinds
<1>2. hand'[p] = <<f>> /\ \A q \in Procs \ {p} : hand'[q] = hand[q]
  BY <1>1 DEF Types, ProcTypes
<1>3. OpenKinds'
  <2>1. \A q \in Procs, n \in FDs : ofile'[q][n] = IF q = p /\ n = fd THEN NoFile ELSE ofile[q][n]
    BY DEF Types, FileTypes
  <2> QED
    BY <2>1 DEF Kinds, OpenKinds
<1>4. HandKinds'
  BY <1>2 DEF Kinds, HandKinds
<1>5. HandsApart'
  <2> SUFFICES ASSUME NEW q \in Procs, NEW r \in Procs, NEW n \in DOMAIN hand'[q],
                      NEW m \in DOMAIN hand'[r], pc'[q] = "pipe", hand'[q][n] = hand'[r][m]
               PROVE  q = r /\ n = m
    BY DEF HandsApart
  <2>1. q # p /\ hand'[q] = hand[q] /\ pc[q] = "pipe"
    BY <1>2
  <2>2. type[hand[q][n]] = "none"
    BY <2>1 DEF Kinds, HandKinds
  <2>3. CASE r = p
    <3>1. hand'[r][m] = f
      BY <1>2, <2>3
    <3> QED
      BY <1>1, <2>1, <2>2, <3>1
  <2>4. CASE r # p
    BY <1>2, <2>1, <2>4 DEF Kinds, HandsApart
  <2> QED
    BY <2>3, <2>4
<1>6. KindRefs'
  BY DEF Kinds, KindRefs
<1> QED
  BY <1>3, <1>4, <1>5, <1>6 DEF Kinds

LEMMA KindsNext == Types /\ Hands /\ RefsExact /\ Kinds /\ [Next]_vars => Kinds'
<1> SUFFICES ASSUME Types, Hands, RefsExact, Kinds, [Next]_vars PROVE Kinds'
  OBVIOUS
<1>1. Types' /\ Hands' /\ RefsExact'
  BY TypesNext, HandsNext, RefsNext
<1> USE DEF Goto
<1>2. CASE UNCHANGED vars
  BY <1>2, KindsQuiet DEF vars
<1>3. ASSUME NEW p \in Procs,
             \/ SysPipe(p) \/ Exit(p) \/ Reap(p) \/ PipeClose(p) \/ SysWrite(p) \/ Write(p)
             \/ SysRead(p) \/ Read(p) \/ Sleep(p) \/ \E q \in Procs : Kill(p, q)
      PROVE  Kinds'
  <2>1. UNCHANGED <<ref, type, ofile, hand>>
    BY <1>3 DEF files, SysPipe, PipeClose, Exit, Reap, SysWrite, Write, SysRead, Read, Sleep, Kill
  <2>2. /\ \A q \in Procs \ {p} : pc'[q] = pc[q]
        /\ pc'[p] \notin {"pipe", "fds"} \/ pc'[p] = pc[p] \/ hand[p] = <<>>
    BY <1>3 DEF SysPipe, PipeClose, Exit, Reap, SysWrite, Write, SysRead, Read, Sleep, Kill,
                Call, At, Hands, HandOn, Types, ProcTypes
  <2> QED
    BY <2>1, <2>2, KindsQuiet
<1>4. ASSUME NEW p \in Procs, UNCHANGED <<ref, type, ofile, hand>>, pc'[p] \notin {"pipe", "fds"},
             \A q \in Procs \ {p} : pc'[q] = pc[q]
      PROVE  Kinds'
  BY <1>4, KindsQuiet
<1>5. ASSUME NEW p \in Procs, FileAlloc(p) PROVE Kinds'
  <2>1. CASE UNCHANGED <<ref, hand>> /\ pc' = [pc EXCEPT ![p] = "close"]
    BY <1>4, <1>5, <2>1 DEF FileAlloc, Types, ProcTypes
  <2>2. CASE \E f \in Files :
               /\ ref[f] = 0
               /\ ref' = [ref EXCEPT ![f] = 1]
               /\ hand' = [hand EXCEPT ![p] = Append(@, f)]
               /\ UNCHANGED pc
    <3>1. PICK f \in Files :
               /\ ref[f] = 0
               /\ ref' = [ref EXCEPT ![f] = 1]
               /\ hand' = [hand EXCEPT ![p] = Append(@, f)]
      BY <2>2
    <3>2. UNCHANGED <<type, ofile, pc>> /\ pc[p] = "pipe"
      BY <1>5, <2>2 DEF FileAlloc, At
    <3>3. /\ \A q \in Procs : \A n \in DOMAIN hand[q] : hand[q][n] # f
          /\ type[f] = "none"
      BY <3>1, HeldHasRef DEF Kinds, KindRefs, Types, FileTypes
    <3>4. PICK k \in Nat : k = Len(hand[p]) /\ DOMAIN hand[p] = 1 .. k
      BY HandIs
    <3>5. /\ DOMAIN hand'[p] = 1 .. k + 1 /\ hand'[p][k + 1] = f
          /\ \A n \in 1 .. k : hand'[p][n] = hand[p][n]
          /\ \A q \in Procs \ {p} : hand'[q] = hand[q]
      BY <3>1, <3>4, AppendProperties DEF Types, ProcTypes
    <3>6. \A n \in 1 .. k + 1 : n = k + 1 \/ n \in 1 .. k
      OBVIOUS
    <3>7. OpenKinds' /\ KindRefs'
      BY <3>1, <3>2 DEF Kinds, OpenKinds, KindRefs, Types, FileTypes
    <3>8. HandKinds'
      <4> SUFFICES ASSUME NEW q \in Procs, NEW n \in DOMAIN hand'[q]
                   PROVE  /\ pc[q] = "fds" => type[hand'[q][n]] = "pipe"
                          /\ pc[q] = "pipe" => type[hand'[q][n]] = "none"
        BY <3>2 DEF HandKinds
      <4>1. CASE q = p
        BY <3>2, <3>3, <3>4, <3>5, <3>6, <4>1 DEF Kinds, HandKinds
      <4>2. CASE q # p
        BY <3>5, <4>2 DEF Kinds, HandKinds
      <4> QED
        BY <4>1, <4>2
    <3>9. HandsApart'
      <4> SUFFICES ASSUME NEW q \in Procs, NEW r \in Procs, NEW n \in DOMAIN hand'[q],
                          NEW m \in DOMAIN hand'[r], pc[q] = "pipe", hand'[q][n] = hand'[r][m]
                   PROVE  q = r /\ n = m
        BY <3>2 DEF HandsApart
      <4>1. (q = p /\ n = k + 1) \/ (n \in DOMAIN hand[q] /\ hand'[q][n] = hand[q][n])
        BY <3>4, <3>5, <3>6
      <4>2. (r = p /\ m = k + 1) \/ (m \in DOMAIN hand[r] /\ hand'[r][m] = hand[r][m])
        BY <3>4, <3>5, <3>6
      <4> QED
        BY <3>3, <3>5, <4>1, <4>2 DEF Kinds, HandsApart
    <3> QED
      BY <3>7, <3>8, <3>9 DEF Kinds
  <2> QED
    BY <1>5, <2>1, <2>2 DEF FileAlloc
<1>6. ASSUME NEW p \in Procs, PipeAlloc(p) PROVE Kinds'
  <2>1. CASE UNCHANGED type /\ pc' = [pc EXCEPT ![p] = "close"]
    BY <1>4, <1>6, <2>1 DEF PipeAlloc, Types, ProcTypes
  <2>2. CASE /\ type' = [type EXCEPT ![hand[p][1]] = "pipe", ![hand[p][2]] = "pipe"]
             /\ pc' = [pc EXCEPT ![p] = "fds"]
    <3>1. Len(hand[p]) = 2 /\ pc[p] = "pipe" /\ UNCHANGED <<ref, ofile, hand>>
      BY <1>6 DEF PipeAlloc, At
    <3>2. 1 \in DOMAIN hand[p] /\ 2 \in DOMAIN hand[p] /\ \A n \in DOMAIN hand[p] : n \in {1, 2}
      BY <3>1, HandIs
    <3>3. PICK f \in Files, g \in Files : f = hand[p][1] /\ g = hand[p][2]
      BY <3>2, HandIs
    <3>4. \A e \in Files : type'[e] = IF e \in {f, g} THEN "pipe" ELSE type[e]
      BY <2>2, <3>3 DEF Types, FileTypes
    <3>5. pc'[p] = "fds" /\ \A q \in Procs \ {p} : pc'[q] = pc[q]
      BY <2>2 DEF Types, ProcTypes
    <3>6. OpenKinds'
      BY <3>1, <3>4 DEF Kinds, OpenKinds, Types, FileTypes
    <3>7. HandKinds'
      <4> SUFFICES ASSUME NEW q \in Procs, NEW n \in DOMAIN hand[q]
                   PROVE  /\ pc'[q] = "fds" => type'[hand[q][n]] = "pipe"
                          /\ pc'[q] = "pipe" => type'[hand[q][n]] = "none"
        BY <3>1 DEF HandKinds
      <4>1. hand[q][n] \in Files
        BY HandIs
      <4>2. CASE q = p
        BY <3>2, <3>3, <3>4, <3>5, <4>1, <4>2
      <4>3. CASE q # p
        <5>1. pc[q] = "pipe" => hand[q][n] # f /\ hand[q][n] # g
          BY <3>2, <3>3, <4>3 DEF Kinds, HandsApart
        <5> QED
          BY <3>4, <3>5, <4>1, <4>3, <5>1 DEF Kinds, HandKinds
      <4> QED
        BY <4>2, <4>3
    <3>8. HandsApart'
      BY <3>1, <3>5 DEF Kinds, HandsApart
    <3>9. KindRefs'
      BY <3>1, <3>2, <3>3, <3>4, RefIs DEF Kinds, KindRefs
    <3> QED
      BY <3>6, <3>7, <3>8, <3>9 DEF Kinds
  <2> QED
    BY <1>6, <2>1, <2>2 DEF PipeAlloc
<1>7. ASSUME NEW p \in Procs, InstallFds(p) PROVE Kinds'
  <2>1. CASE UNCHANGED <<ofile, hand>> /\ pc' = [pc EXCEPT ![p] = "close"]
    BY <1>4, <1>7, <2>1 DEF InstallFds, files, Types, ProcTypes
  <2>2. CASE /\ \E m, n : ofile' = [ofile EXCEPT ![p][m] = hand[p][1], ![p][n] = hand[p][2]]
             /\ hand' = [hand EXCEPT ![p] = <<>>]
             /\ pc' = [pc EXCEPT ![p] = "user"]
    <3>1. UNCHANGED <<ref, type>> /\ pc[p] = "fds" /\ Len(hand[p]) = 2
      BY <1>7 DEF InstallFds, files, At, Hands, HandOn
    <3>2. type[hand[p][1]] = "pipe" /\ type[hand[p][2]] = "pipe"
      <4>1. 1 \in DOMAIN hand[p] /\ 2 \in DOMAIN hand[p]
        BY <3>1, HandIs
      <4> QED
        BY <3>1, <4>1 DEF Kinds, HandKinds
    <3>3. ASSUME NEW q \in Procs, NEW fd \in FDs
          PROVE  ofile'[q][fd] \in {ofile[q][fd], hand[p][1], hand[p][2]}
      BY <2>2 DEF Types, FileTypes
    <3>4. pc'[p] = "user" /\ \A q \in Procs \ {p} : pc'[q] = pc[q] /\ hand'[q] = hand[q]
      BY <2>2 DEF Types, ProcTypes
    <3>5. \A n \in DOMAIN hand'[p] : FALSE
      <4>1. hand'[p] = <<>>
        BY <2>2 DEF Types, ProcTypes
      <4> QED
        BY <4>1
    <3>6. OpenKinds'
      BY <3>1, <3>2, <3>3 DEF Kinds, OpenKinds
    <3>7. HandKinds' /\ KindRefs'
      BY <3>1, <3>4, <3>5 DEF Kinds, HandKinds, KindRefs
    <3>8. HandsApart'
      BY <3>4, <3>5 DEF Kinds, HandsApart
    <3> QED
      BY <3>6, <3>7, <3>8 DEF Kinds
  <2> QED
    BY <1>7, <2>1, <2>2 DEF InstallFds
<1>8. ASSUME NEW p \in Procs, SysDup(p) PROVE Kinds'
  <2>1. PICK fd \in Open(p) :
             /\ ofile' = [ofile EXCEPT ![p][Lowest(Unused(p))] = ofile[p][fd]]
             /\ ref' = FileDup(ref, ofile[p][fd])
    BY <1>8 DEF SysDup
  <2>2. UNCHANGED <<type, hand, pc>>
    BY <1>8 DEF SysDup
  <2>3. type[ofile[p][fd]] = "pipe" /\ ofile[p][fd] \in Files
    BY OpenIs DEF Open, Unused, Kinds, OpenKinds
  <2>4. ASSUME NEW q \in Procs, NEW d \in FDs PROVE ofile'[q][d] \in {ofile[q][d], ofile[p][fd]}
    BY <2>1 DEF Types, FileTypes
  <2>5. OpenKinds'
    BY <2>2, <2>3, <2>4 DEF Kinds, OpenKinds
  <2>6. HandKinds' /\ HandsApart'
    BY <2>2 DEF Kinds, HandKinds, HandsApart
  <2>7. KindRefs'
    <3> SUFFICES ASSUME NEW f \in Files, type[f] = "pipe" PROVE ref'[f] # 0
      BY <2>2 DEF KindRefs
    <3>1. ref[f] \in Nat /\ ref[f] # 0
      BY RefIs DEF Kinds, KindRefs
    <3>2. ref'[f] \in {ref[f], ref[f] + 1}
      BY <2>1, <2>3 DEF FileDup, Types, FileTypes
    <3> QED
      BY <3>1, <3>2
  <2> QED
    BY <2>5, <2>6, <2>7 DEF Kinds
<1>9. ASSUME NEW p \in Procs, SysClose(p) PROVE Kinds'
  <2>1. PICK fd \in Open(p) : /\ ofile' = [ofile EXCEPT ![p][fd] = NoFile]
                              /\ hand' = [hand EXCEPT ![p] = <<ofile[p][fd]>>]
    BY <1>9 DEF SysClose
  <2>2. UNCHANGED <<ref, type>> /\ pc'[p] = "close" /\ \A q \in Procs \ {p} : pc'[q] = pc[q]
    BY <1>9 DEF SysClose, files, Types, ProcTypes
  <2> QED
    BY <1>1, <2>1, <2>2, KindsClose
<1>10. ASSUME NEW p \in Procs, Closed(p) PROVE Kinds'
  <2>1. UNCHANGED <<ref, type>> /\ pc[p] = "close" /\ \A q \in Procs \ {p} : pc'[q] = pc[q]
    BY <1>10 DEF Closed, files, At, Types, ProcTypes
  <2>2. CASE UNCHANGED <<ofile, hand>>
    <3>1. pc'[p] \in {"user", "close"}
      BY <1>10, <2>1 DEF Closed, Types, ProcTypes
    <3> QED
      BY <1>4, <2>1, <2>2, <3>1
  <2>3. CASE /\ Open(p) # {} /\ UNCHANGED pc
             /\ ofile' = [ofile EXCEPT ![p][Lowest(Open(p))] = NoFile]
             /\ hand' = [hand EXCEPT ![p] = <<ofile[p][Lowest(Open(p))]>>]
    <3>1. PICK fd : fd = Lowest(Open(p)) /\ fd \in Open(p)
      BY <2>3, OpenIs
    <3> QED
      BY <1>1, <2>1, <2>3, <3>1, KindsClose
  <2> QED
    BY <1>10, <2>2, <2>3 DEF Closed
<1>11. ASSUME NEW p \in Procs, FileClose(p) PROVE Kinds'
  <2>1. hand[p] # <<>> /\ pc[p] = "close" /\ UNCHANGED ofile
    BY <1>11 DEF FileClose, At
  <2>2. PICK f \in Files : f = Head(hand[p]) /\ f = hand[p][1] /\ 1 \in DOMAIN hand[p]
    BY <2>1, HandIs
  <2>3. /\ \A q \in Procs \ {p} : hand'[q] = hand[q] /\ pc'[q] = pc[q]
        /\ hand'[p] = Tail(hand[p]) /\ pc'[p] \in {"close", "closewrite", "closeread"}
    BY <1>11, <2>1 DEF FileClose, Types, ProcTypes
  <2>4. \A n \in DOMAIN hand'[p] : n + 1 \in DOMAIN hand[p] /\ hand'[p][n] = hand[p][n + 1]
    <3>1. hand[p] \in Seq(Files)
      BY DEF Types, ProcTypes
    <3>2. PICK s \in Seq(Files) :
               s = Tail(hand[p]) /\ Len(s) = Len(hand[p]) - 1 /\ \A n \in 1 .. Len(s) : s[n] = hand[p][n + 1]
      <4>1. PICK s : s = Tail(hand[p])
        OBVIOUS
      <4>2. s \in Seq(Files) /\ Len(s) = Len(hand[p]) - 1 /\ \A n \in 1 .. Len(s) : s[n] = hand[p][n + 1]
        BY <2>1, <3>1, <4>1, HeadTailProperties
      <4> QED
        BY <4>1, <4>2
    <3>3. PICK k \in Nat : k = Len(hand[p]) /\ DOMAIN hand[p] = 1 .. k
      BY HandIs
    <3>4. DOMAIN s = 1 .. k - 1 /\ Len(s) = k - 1
      BY <3>2, <3>3, LenProperties
    <3> QED
      BY <2>3, <3>2, <3>3, <3>4
  <2>5. HandsApart'
    <3> SUFFICES ASSUME NEW q \in Procs, NEW r \in Procs, NEW n \in DOMAIN hand'[q],
                        NEW m \in DOMAIN hand'[r], pc'[q] = "pipe", hand'[q][n] = hand'[r][m]
                 PROVE  q = r /\ n = m
      BY DEF HandsApart
    <3>1. q # p /\ pc[q] = "pipe" /\ hand'[q] = hand[q]
      BY <2>3
    <3>2. CASE r = p
      BY <2>4, <3>1, <3>2 DEF Kinds, HandsApart
    <3>3. CASE r # p
      BY <2>3, <3>1, <3>3 DEF Kinds, HandsApart
    <3> QED
      BY <3>2, <3>3
  <2>6. CASE ref[f] # 1
    <3>1. ref' = [ref EXCEPT ![f] = @ - 1] /\ UNCHANGED type
      BY <1>11, <2>2, <2>6 DEF FileClose, LastRef
    <3>2. OpenKinds'
      BY <2>1, <3>1 DEF Kinds, OpenKinds
    <3>3. HandKinds'
      BY <2>3, <3>1 DEF Kinds, HandKinds
    <3>4. KindRefs'
      BY <2>6, <3>1, RefIs DEF Kinds, KindRefs, Types, FileTypes
    <3> QED
      BY <2>5, <3>2, <3>3, <3>4 DEF Kinds
  <2>7. CASE ref[f] = 1
    <3>1. ref' = [ref EXCEPT ![f] = 0] /\ type' = [type EXCEPT ![f] = "none"]
      BY <1>11, <2>2, <2>7 DEF FileClose, LastRef
    <3>2. /\ \A q \in Procs, fd \in FDs : ofile[q][fd] # f
          /\ \A q \in Procs : \A n \in DOMAIN hand[q] : hand[q][n] = f => q = p /\ n = 1
      BY <2>1, <2>2, <2>7, LastIs
    <3>3. OpenKinds'
      BY <2>1, <3>1, <3>2 DEF Kinds, OpenKinds, Types, FileTypes
    <3>4. HandKinds'
      <4> SUFFICES ASSUME NEW q \in Procs, NEW n \in DOMAIN hand'[q]
                   PROVE  /\ pc'[q] = "fds" => type'[hand'[q][n]] = "pipe"
                          /\ pc'[q] = "pipe" => type'[hand'[q][n]] = "none"
        BY DEF HandKinds
      <4>1. CASE q = p
        BY <2>3, <4>1
      <4>2. CASE q # p
        <5>1. hand'[q] = hand[q] /\ pc'[q] = pc[q] /\ hand[q][n] # f /\ hand[q][n] \in Files
          BY <2>3, <3>2, <4>2, HandIs
        <5>2. type'[hand[q][n]] = type[hand[q][n]]
          BY <3>1, <5>1 DEF Types, FileTypes
        <5> QED
          BY <5>1, <5>2 DEF Kinds, HandKinds
      <4> QED
        BY <4>1, <4>2
    <3>5. KindRefs'
      BY <3>1 DEF Kinds, KindRefs, Types, FileTypes
    <3> QED
      BY <2>5, <3>3, <3>4, <3>5 DEF Kinds
  <2> QED
    BY <2>6, <2>7
<1>12. ASSUME NEW p \in Procs, Fork(p) PROVE Kinds'
  <2>1. PICK c \in Procs :
             /\ state[c] = "UNUSED"
             /\ pc' = [pc EXCEPT ![c] = "user"]
             /\ ofile' = [ofile EXCEPT ![c] = ofile[p]]
             /\ ref' = [f \in Files |-> ref[f] + Cardinality({fd \in FDs : ofile[p][fd] = f})]
             /\ UNCHANGED <<type, hand>>
    BY <1>12 DEF Fork
  <2>2. OpenKinds'
    BY <2>1 DEF Kinds, OpenKinds, Types, FileTypes
  <2>3. HandKinds' /\ HandsApart'
    BY <2>1 DEF Kinds, HandKinds, HandsApart, Types, ProcTypes
  <2>4. KindRefs'
    <3> SUFFICES ASSUME NEW f \in Files, type[f] = "pipe" PROVE ref'[f] # 0
      BY <2>1 DEF KindRefs
    <3>1. ref[f] \in Nat /\ ref[f] # 0
      BY RefIs DEF Kinds, KindRefs
    <3>2. PICK n \in Nat : n = Cardinality({fd \in FDs : ofile[p][fd] = f})
      BY FiniteColumns, FS_Subset, FS_CardinalityType
    <3>3. ref'[f] = ref[f] + n
      BY <2>1, <3>2
    <3> QED
      BY <3>1, <3>3
  <2> QED
    BY <2>2, <2>3, <2>4 DEF Kinds
<1> QED
  BY <1>2, <1>3, <1>5, <1>6, <1>7, <1>8, <1>9, <1>10, <1>11, <1>12 DEF Next

-----------------------------------------------------------------------------
(* Ends.                                                                   *)

Closings == {"closeread", "closewrite"}
(* A process in piperead() or pipewrite() has the end open it works on.    *)
InPipeHas(p) ==
  /\ pc[p] = "read" => Has(p, xp[p], FALSE)
  /\ pc[p] = "write" => Has(p, xp[p], TRUE)

(* A step that neither opens nor closes an end.                            *)
EndsSame == UNCHANGED <<type, writable, pipe, free, readopen, writeopen>>
ClosersSame ==
  \A q \in Procs : pc'[q] \in Closings \/ pc[q] \in Closings => pc'[q] = pc[q] /\ xp'[q] = xp[q]

LEMMA EndsQuiet ==
  ASSUME Ends1, EndsSame, ClosersSame, NEW p \in Procs, InPipeHas(p)',
         \A q \in Procs \ {p} : pc'[q] \in InPipe =>
                                  pc'[q] = pc[q] /\ xp'[q] = xp[q] /\ ofile'[q] = ofile[q]
  PROVE  Ends1'
<1>1. \A f \in Files, x \in Pages, w \in BOOLEAN : EndOf(f, x, w)' <=> EndOf(f, x, w)
  BY DEF EndsSame, EndOf
<1>2. \A q \in Procs, x \in Pages, w \in BOOLEAN : EndShut(q, x, w)' <=> EndShut(q, x, w)
  BY DEF ClosersSame, EndShut, Closing, Closings
<1>3. ASSUME NEW x \in Pages, NEW w \in BOOLEAN PROVE EndOn(x, w)'
  BY <1>1, <1>2 DEF Ends1, EndOn, EndsOpen, EndsSame
<1>4. ASSUME NEW q \in Procs PROVE InPipeHas(q)'
  <2>1. CASE q = p
    BY <2>1
  <2>2. CASE q # p
    BY <2>2 DEF InPipeHas, InPipe, Ends1, Has, EndOf, EndsSame
  <2> QED
    BY <2>1, <2>2
<1>5. \A x \in Pages : (x \in free <=> x \notin readopen \cup writeopen)'
  BY DEF Ends1, EndsSame
<1> QED
  BY <1>3, <1>4, <1>5 DEF Ends1, InPipeHas

(* Files that are open keep what they are.                                 *)
LEMMA HasKept ==
  ASSUME NEW q \in Procs, InPipeHas(q), pc'[q] = pc[q], xp'[q] = xp[q], ofile'[q] = ofile[q],
         \A fd \in FDs : ofile[q][fd] # NoFile =>
           /\ type'[ofile[q][fd]] = type[ofile[q][fd]]
           /\ pipe'[ofile[q][fd]] = pipe[ofile[q][fd]]
           /\ writable'[ofile[q][fd]] = writable[ofile[q][fd]]
  PROVE  InPipeHas(q)'
  BY DEF InPipeHas, Has, EndOf

(* pipealloc() opens both ends of a page that has none.                    *)
LEMMA EndsAlloc ==
  ASSUME Types, Hands, RefsExact, Kinds, Ends1, NEW p \in Procs, PipeAlloc(p), ~UNCHANGED type
  PROVE  Ends1'
<1> USE DEF Goto
<1>1. Len(hand[p]) = 2 /\ pc[p] = "pipe" /\ hand[p][1] # hand[p][2]
  BY DEF PipeAlloc, At, Hands, HandOn
<1>2. 1 \in DOMAIN hand[p] /\ 2 \in DOMAIN hand[p]
  BY <1>1, HandIs
<1>3. PICK f \in Files, g \in Files : f = hand[p][1] /\ g = hand[p][2]
  BY <1>2, HandIs
<1>4. f # g /\ type[f] = "none" /\ type[g] = "none"
  BY <1>1, <1>2, <1>3 DEF Kinds, HandKinds
<1>5. PICK x \in free :
           /\ free' = free \ {x} /\ readopen' = readopen \cup {x} /\ writeopen' = writeopen \cup {x}
           /\ type' = [type EXCEPT ![f] = "pipe", ![g] = "pipe"]
           /\ writable' = [writable EXCEPT ![f] = FALSE, ![g] = TRUE]
           /\ pipe' = [pipe EXCEPT ![f] = x, ![g] = x]
           /\ pc' = [pc EXCEPT ![p] = "fds"]
           /\ UNCHANGED <<ofile, xp>>
  BY <1>3 DEF PipeAlloc
<1>6. /\ type'[f] = "pipe" /\ type'[g] = "pipe" /\ pipe'[f] = x /\ pipe'[g] = x
      /\ writable'[f] = FALSE /\ writable'[g] = TRUE
      /\ \A e \in Files \ {f, g} : type'[e] = type[e] /\ pipe'[e] = pipe[e] /\ writable'[e] = writable[e]
      /\ pc'[p] = "fds" /\ \A q \in Procs \ {p} : pc'[q] = pc[q]
  BY <1>4, <1>5 DEF Types, FileTypes, ProcTypes
<1>7. x \in Pages /\ x \notin readopen /\ x \notin writeopen
  BY DEF Types, RingTypes, Ends1
<1>8. \A e \in Files, y \in Pages, w \in BOOLEAN : EndOf(e, y, w)' <=>
         IF e \in {f, g} THEN y = x /\ w = (e = g) ELSE EndOf(e, y, w)
  BY <1>4, <1>6 DEF EndOf
<1>9. \A q \in Procs, y \in Pages, w \in BOOLEAN : EndShut(q, y, w)' <=> EndShut(q, y, w)
  BY <1>1, <1>5, <1>6 DEF EndShut, Closing
<1>10. \A e \in Files, w \in BOOLEAN : ~EndOf(e, x, w)
  BY <1>7 DEF Ends1, EndOn, EndsOpen
<1>11. \A q \in Procs, w \in BOOLEAN : ~EndShut(q, x, w)
  BY <1>7 DEF Ends1, EndOn, EndsOpen
<1>12. \A y \in Pages, w \in BOOLEAN : ~EndOf(f, y, w) /\ ~EndOf(g, y, w)
  BY <1>4 DEF EndOf
<1>13. \A y \in Pages, w \in BOOLEAN : (y \in EndsOpen(w))' <=> y = x \/ y \in EndsOpen(w)
  BY <1>5 DEF EndsOpen
<1>14. ASSUME NEW y \in Pages, NEW w \in BOOLEAN PROVE EndOn(y, w)'
  <2>1. CASE y = x
    <3>1. \A e \in Files : EndOf(e, x, w)' <=> e = IF w THEN g ELSE f
      BY <1>4, <1>7, <1>8, <1>10
    <3>2. \A q \in Procs : ~EndShut(q, x, w)'
      BY <1>7, <1>9, <1>11
    <3>3. (x \in EndsOpen(w))'
      BY <1>7, <1>13
    <3> QED
      BY <2>1, <3>1, <3>2, <3>3 DEF EndOn
  <2>2. CASE y # x
    <3>1. \A e \in Files : EndOf(e, y, w)' <=> EndOf(e, y, w)
      BY <1>8, <1>12, <2>2
    <3>2. EndOn(y, w)
      BY DEF Ends1
    <3> QED
      BY <1>9, <1>13, <2>2, <3>1, <3>2 DEF EndOn
  <2> QED
    BY <2>1, <2>2
<1>15. ASSUME NEW q \in Procs PROVE InPipeHas(q)'
  <2>1. CASE q = p
    BY <1>6, <2>1 DEF InPipeHas
  <2>2. CASE q # p
    <3>1. InPipeHas(q) /\ pc'[q] = pc[q] /\ xp'[q] = xp[q] /\ ofile'[q] = ofile[q]
      BY <1>5, <1>6, <2>2 DEF Ends1, InPipeHas
    <3>2. ASSUME NEW fd \in FDs, ofile[q][fd] # NoFile PROVE ofile[q][fd] \in Files \ {f, g}
      BY <1>4, <3>2 DEF Kinds, OpenKinds, Types, FileTypes
    <3> QED
      BY <1>6, <3>1, <3>2, HasKept
  <2> QED
    BY <2>1, <2>2
<1>16. \A y \in Pages : (y \in free <=> y \notin readopen \cup writeopen)'
  BY <1>5, <1>7 DEF Ends1
<1> QED
  BY <1>14, <1>15, <1>16 DEF Ends1, InPipeHas

(* fileclose() of the last reference: the end is the process's to close.   *)
LEMMA EndsLast ==
  ASSUME Types, Hands, RefsExact, Kinds, Ends1, NEW p \in Procs, FileClose(p),
         ref[hand[p][1]] = 1, type[hand[p][1]] = "pipe"
  PROVE  Ends1'
<1> USE DEF Goto
<1>1. hand[p] # <<>> /\ pc[p] = "close" /\ UNCHANGED ofile
  BY DEF FileClose, At
<1>2. PICK f \in Files : f = Head(hand[p]) /\ f = hand[p][1] /\ 1 \in DOMAIN hand[p]
  BY <1>1, HandIs
<1>3. PICK x \in Pages, v \in BOOLEAN : x = pipe[f] /\ v = writable[f]
  BY DEF Types, FileTypes
<1>4. /\ type' = [type EXCEPT ![f] = "none"] /\ xp' = [xp EXCEPT ![p] = x]
      /\ pc' = [pc EXCEPT ![p] = Closing(v)]
      /\ UNCHANGED <<writable, pipe, free, readopen, writeopen>>
  BY <1>2, <1>3 DEF FileClose, LastRef, Closing
<1>5. /\ type'[f] = "none" /\ \A e \in Files \ {f} : type'[e] = type[e]
      /\ pc'[p] = Closing(v) /\ xp'[p] = x
      /\ \A q \in Procs \ {p} : pc'[q] = pc[q] /\ xp'[q] = xp[q]
  BY <1>4 DEF Types, FileTypes, ProcTypes
<1>6. \A e \in Files, y \in Pages, w \in BOOLEAN : EndOf(e, y, w)' <=> e # f /\ EndOf(e, y, w)
  BY <1>4, <1>5 DEF EndOf
<1>7. \A q \in Procs, y \in Pages, w \in BOOLEAN : EndShut(q, y, w)' <=>
         IF q = p THEN y = x /\ w = v ELSE EndShut(q, y, w)
  BY <1>5 DEF EndShut, Closing
<1>8. \A y \in Pages, w \in BOOLEAN : ~EndShut(p, y, w)
  BY <1>1 DEF EndShut, Closing
<1>9. \A y \in Pages, w \in BOOLEAN : EndOf(f, y, w) <=> y = x /\ w = v
  BY <1>2, <1>3 DEF EndOf
<1>10. ASSUME NEW y \in Pages, NEW w \in BOOLEAN PROVE EndOn(y, w)'
  <2>1. EndOn(y, w) /\ ((y \in EndsOpen(w))' <=> y \in EndsOpen(w))
    BY <1>4 DEF Ends1, EndsOpen
  <2>2. CASE y = x /\ w = v
    <3>1. EndOf(f, y, w)
      BY <1>9, <2>2
    <3>2. \A e \in Files : ~EndOf(e, y, w)'
      BY <1>6, <2>1, <3>1 DEF EndOn
    <3>3. \A q \in Procs : EndShut(q, y, w)' <=> q = p
      BY <1>7, <2>1, <2>2, <3>1 DEF EndOn
    <3>4. (y \in EndsOpen(w))'
      BY <2>1, <3>1 DEF EndOn
    <3> QED
      BY <3>2, <3>3, <3>4 DEF EndOn
  <2>3. CASE ~(y = x /\ w = v)
    <3>1. \A e \in Files : EndOf(e, y, w)' <=> EndOf(e, y, w)
      BY <1>6, <1>9, <2>3
    <3>2. \A q \in Procs : EndShut(q, y, w)' <=> EndShut(q, y, w)
      BY <1>7, <1>8, <2>3
    <3> QED
      BY <2>1, <3>1, <3>2 DEF EndOn
  <2> QED
    BY <2>2, <2>3
<1>11. ASSUME NEW q \in Procs PROVE InPipeHas(q)'
  <2>1. CASE q = p
    BY <1>5, <2>1 DEF InPipeHas, Closing
  <2>2. CASE q # p
    <3>1. InPipeHas(q) /\ pc'[q] = pc[q] /\ xp'[q] = xp[q] /\ ofile'[q] = ofile[q]
      BY <1>1, <1>5, <2>2 DEF Ends1, InPipeHas
    <3>2. ASSUME NEW fd \in FDs, ofile[q][fd] # NoFile PROVE ofile[q][fd] \in Files \ {f}
      BY <1>1, <1>2, <3>2, LastIs DEF Types, FileTypes
    <3> QED
      BY <1>4, <1>5, <3>1, <3>2, HasKept
  <2> QED
    BY <2>1, <2>2
<1>12. \A y \in Pages : (y \in free <=> y \notin readopen \cup writeopen)'
  BY <1>4 DEF Ends1
<1> QED
  BY <1>10, <1>11, <1>12 DEF Ends1, InPipeHas

(* pipeclose() closes the end, and frees the page if it was the last.      *)
LEMMA EndsShut ==
  ASSUME Types, Hands, Ends1, NEW p \in Procs, PipeClose(p)
  PROVE  Ends1'
<1> USE DEF Goto
<1>1. PICK x \in Pages, v \in BOOLEAN : x = xp[p] /\ pc[p] = Closing(v)
  BY DEF PipeClose, At, Closing, Types, ProcTypes
<1>2. /\ \A y \in Pages, w \in BOOLEAN :
           (y \in EndsOpen(w))' <=> y \in EndsOpen(w) /\ ~(y = x /\ w = v)
  BY <1>1 DEF PipeClose, At, EndsOpen, Closing
<1>3. UNCHANGED <<type, writable, pipe, ofile, xp>> /\ pc' = [pc EXCEPT ![p] = "close"]
  BY DEF PipeClose, files
<1>4. pc'[p] = "close" /\ \A q \in Procs \ {p} : pc'[q] = pc[q]
  BY <1>3 DEF Types, ProcTypes
<1>5. \A e \in Files, y \in Pages, w \in BOOLEAN : EndOf(e, y, w)' <=> EndOf(e, y, w)
  BY <1>3 DEF EndOf
<1>6. \A q \in Procs, y \in Pages, w \in BOOLEAN : EndShut(q, y, w)' <=> q # p /\ EndShut(q, y, w)
  BY <1>3, <1>4 DEF EndShut, Closing
<1>7. \A y \in Pages, w \in BOOLEAN : EndShut(p, y, w) <=> y = x /\ w = v
  BY <1>1 DEF EndShut, Closing
<1>8. ASSUME NEW y \in Pages, NEW w \in BOOLEAN PROVE EndOn(y, w)'
  <2>1. EndOn(y, w)
    BY DEF Ends1
  <2>2. CASE y = x /\ w = v
    <3>1. EndShut(p, y, w)
      BY <1>7, <2>2
    <3>2. \A e \in Files : ~EndOf(e, y, w)'
      BY <1>5, <2>1, <3>1 DEF EndOn
    <3>3. \A q \in Procs : ~EndShut(q, y, w)'
      BY <1>6, <2>1, <3>1 DEF EndOn
    <3>4. ~(y \in EndsOpen(w))'
      BY <1>2, <2>2
    <3> QED
      BY <3>2, <3>3, <3>4 DEF EndOn
  <2>3. CASE ~(y = x /\ w = v)
    <3>1. \A q \in Procs : EndShut(q, y, w)' <=> EndShut(q, y, w)
      BY <1>6, <1>7, <2>3
    <3>2. (y \in EndsOpen(w))' <=> y \in EndsOpen(w)
      BY <1>2, <2>3
    <3> QED
      BY <1>5, <2>1, <3>1, <3>2 DEF EndOn
  <2> QED
    BY <2>2, <2>3
<1>9. ASSUME NEW q \in Procs PROVE InPipeHas(q)'
  <2>1. CASE q = p
    BY <1>4, <2>1 DEF InPipeHas
  <2>2. CASE q # p
    <3>1. InPipeHas(q) /\ pc'[q] = pc[q] /\ xp'[q] = xp[q] /\ ofile'[q] = ofile[q]
      BY <1>3, <1>4, <2>2 DEF Ends1, InPipeHas
    <3> QED
      BY <1>3, <3>1, HasKept
  <2> QED
    BY <2>1, <2>2
<1>10. \A y \in Pages : (y \in free <=> y \notin readopen \cup writeopen)'
  <2>1. \A y \in Pages : y \in free <=> y \notin readopen \cup writeopen
    BY DEF Ends1
  <2>2. EndOn(x, v) /\ EndShut(p, x, v)
    BY <1>7 DEF Ends1
  <2>3. x \in readopen \cup writeopen
    BY <2>2 DEF EndOn, EndsOpen
  <2>4. /\ \A y \in Pages \ {x} : y \in readopen' \cup writeopen' <=> y \in readopen \cup writeopen
        /\ free' = IF x \in readopen' \cup writeopen' THEN free ELSE free \cup {x}
    BY <1>1 DEF PipeClose, ring
  <2> QED
    BY <2>1, <2>3, <2>4
<1> QED
  BY <1>8, <1>9, <1>10 DEF Ends1, InPipeHas

(* The new system call of a process with a file open has it open.          *)
LEMMA HasOpened ==
  ASSUME Types, Kinds, NEW p \in Procs, NEW fd \in Open(p), EndsSame, UNCHANGED ofile,
         xp' = [xp EXCEPT ![p] = pipe[ofile[p][fd]]],
         pc' = [pc EXCEPT ![p] = IF writable[ofile[p][fd]] THEN "write" ELSE "read"]
  PROVE  InPipeHas(p)'
<1>1. PICK f \in Files : f = ofile[p][fd] /\ fd \in FDs /\ f # NoFile
  BY OpenIs, PipeAssumption
<1>2. PICK x \in Pages, v \in BOOLEAN : x = pipe[f] /\ v = writable[f]
  BY DEF Types, FileTypes
<1>3. type[f] = "pipe"
  BY <1>1 DEF Kinds, OpenKinds
<1>4. /\ xp'[p] = x /\ pc'[p] = IF v THEN "write" ELSE "read"
      /\ ofile'[p][fd] = f /\ type'[f] = "pipe" /\ pipe'[f] = x /\ writable'[f] = v
  BY <1>1, <1>2, <1>3 DEF EndsSame, Types, ProcTypes
<1>5. EndOf(f, x, v)'
  BY <1>4 DEF EndOf
<1>6. Has(p, x, v)'
  BY <1>1, <1>4, <1>5 DEF Has, EndOf
<1>7. CASE v = TRUE
  <2>1. Has(p, x, TRUE)'
    BY <1>6, <1>7
  <2>2. pc'[p] = "write" /\ xp'[p] = x
    BY <1>4, <1>7
  <2> QED
    BY <2>1, <2>2 DEF InPipeHas, Has, EndOf
<1>8. CASE v = FALSE
  BY <1>4, <1>6, <1>8 DEF InPipeHas, Has, EndOf
<1> QED
  BY <1>7, <1>8

LEMMA EndsNext == Types /\ Hands /\ RefsExact /\ Kinds /\ Ends1 /\ [Next]_vars => Ends1'
<1> SUFFICES ASSUME Types, Hands, RefsExact, Kinds, Ends1, [Next]_vars PROVE Ends1'
  OBVIOUS
<1> USE DEF Goto
<1>1. \A q \in Procs : InPipeHas(q)
  BY DEF Ends1, InPipeHas
<1>2. CASE UNCHANGED vars
  <2>1. PICK p \in Procs : p = initproc
    BY PipeAssumption
  <2>2. EndsSame /\ ClosersSame
    BY <1>2 DEF vars, EndsSame, ClosersSame
  <2>3. InPipeHas(p)'
    BY <1>1, <1>2 DEF vars, InPipeHas, Has, EndOf
  <2> QED
    BY <1>2, <2>2, <2>3, EndsQuiet DEF vars
<1>3. ASSUME NEW p \in Procs,
             \/ SysPipe(p) \/ FileAlloc(p) \/ InstallFds(p) \/ SysDup(p) \/ SysClose(p)
             \/ Closed(p) \/ Exit(p) \/ Reap(p)
      PROVE  Ends1'
  <2>1. Frame(p)
    BY <1>3, FrameOf
  <2>2. EndsSame
    BY <1>3 DEF EndsSame, files, SysPipe, FileAlloc, InstallFds, SysDup, SysClose, Closed, Exit, Reap
  <2>3. /\ pc[p] \notin Closings /\ pc'[p] \notin Closings \cup InPipe
    BY <1>3 DEF SysPipe, FileAlloc, InstallFds, SysDup, SysClose, Closed, Exit, Reap, Call, At,
                Closings, InPipe, Hands, HandOn, Types, ProcTypes
  <2>4. ClosersSame
    BY <2>1, <2>3 DEF Frame, ClosersSame
  <2>5. InPipeHas(p)'
    BY <2>3 DEF InPipeHas, InPipe
  <2> QED
    BY <2>1, <2>2, <2>4, <2>5, EndsQuiet DEF Frame
<1>4. ASSUME NEW p \in Procs, Write(p) \/ Read(p) \/ Sleep(p) PROVE Ends1'
  <2>1. Frame(p)
    BY <1>4, FrameOf
  <2>2. EndsSame /\ UNCHANGED <<ofile, xp>>
    BY <1>4 DEF EndsSame, files, Write, Read, Sleep
  <2>3. pc[p] \in InPipe /\ (pc'[p] = pc[p] \/ pc'[p] = "user")
    <3>1. CASE Write(p)
      BY <3>1 DEF Write, At, InPipe, Types, ProcTypes
    <3>2. CASE Read(p)
      BY <3>2 DEF Read, At, InPipe, Types, ProcTypes
    <3>3. CASE Sleep(p)
      <4>1. PICK x \in Pages : x = xp[p] /\ lock[x] = p /\ UNCHANGED pc
        BY <3>3 DEF Sleep, Types, ProcTypes
      <4> QED
        BY <4>1, PipeAssumption DEF Hands, LockOn
    <3> QED
      BY <1>4, <3>1, <3>2, <3>3
  <2>4. ClosersSame
    BY <2>1, <2>3 DEF Frame, ClosersSame, Closings, InPipe
  <2>5. InPipeHas(p)'
    BY <1>1, <2>2, <2>3 DEF InPipeHas, Has, EndOf, EndsSame
  <2> QED
    BY <2>1, <2>2, <2>4, <2>5, EndsQuiet DEF Frame
<1>5. ASSUME NEW p \in Procs, SysWrite(p) \/ SysRead(p) PROVE Ends1'
  <2>1. Frame(p)
    BY <1>5, FrameOf
  <2>2. EndsSame /\ UNCHANGED ofile
    BY <1>5 DEF EndsSame, files, SysWrite, SysRead
  <2>3. PICK fd \in Open(p) :
             /\ xp' = [xp EXCEPT ![p] = pipe[ofile[p][fd]]]
             /\ pc' = [pc EXCEPT ![p] = IF writable[ofile[p][fd]] THEN "write" ELSE "read"]
    BY <1>5 DEF SysWrite, SysRead
  <2>4. InPipeHas(p)'
    BY <2>2, <2>3, HasOpened
  <2>5. pc[p] \notin Closings /\ pc'[p] \notin Closings
    BY <1>5, <2>3 DEF SysWrite, SysRead, Call, At, Closings, Types, ProcTypes
  <2>6. ClosersSame
    BY <2>1, <2>5 DEF Frame, ClosersSame
  <2> QED
    BY <2>1, <2>2, <2>4, <2>6, EndsQuiet DEF Frame
<1>6. ASSUME NEW p \in Procs, PipeAlloc(p) PROVE Ends1'
  <2>1. CASE ~UNCHANGED type
    BY <1>6, <2>1, EndsAlloc
  <2>2. CASE UNCHANGED <<type, writable, pipe, free, readopen, writeopen>> /\ pc' = [pc EXCEPT ![p] = "close"]
    <3>1. EndsSame
      BY <2>2 DEF EndsSame
    <3>2. Frame(p)
      BY <1>6, FrameOf
    <3>3. pc[p] = "pipe" /\ pc'[p] = "close"
      BY <1>6, <2>2 DEF PipeAlloc, At, Types, ProcTypes
    <3>4. ClosersSame
      BY <3>2, <3>3 DEF Frame, ClosersSame, Closings
    <3>5. InPipeHas(p)'
      BY <3>3 DEF InPipeHas
    <3> QED
      BY <3>1, <3>2, <3>4, <3>5, EndsQuiet DEF Frame
  <2>3. CASE UNCHANGED type /\ type' = [type EXCEPT ![hand[p][1]] = "pipe", ![hand[p][2]] = "pipe"]
    <3>1. 1 \in DOMAIN hand[p] /\ pc[p] = "pipe" /\ 2 \in DOMAIN hand[p]
      BY <1>6, HandIs DEF PipeAlloc, At
    <3>2. PICK f \in Files, g \in Files : f = hand[p][1] /\ g = hand[p][2]
      BY <3>1, HandIs
    <3>3. type[f] = "none" /\ type'[f] = "pipe"
      BY <2>3, <3>1, <3>2 DEF Kinds, HandKinds, Types, FileTypes
    <3> QED
      BY <2>3, <3>3
  <2> QED
    BY <1>6, <2>1, <2>2, <2>3 DEF PipeAlloc
<1>7. ASSUME NEW p \in Procs, FileClose(p) PROVE Ends1'
  <2>1. hand[p] # <<>> /\ pc[p] = "close"
    BY <1>7 DEF FileClose, At
  <2>2. PICK f \in Files : f = Head(hand[p]) /\ f = hand[p][1]
    BY <2>1, HandIs
  <2>3. CASE ref[f] = 1 /\ type[f] = "pipe"
    BY <1>7, <2>2, <2>3, EndsLast
  <2>4. CASE ~(ref[f] = 1 /\ type[f] = "pipe")
    <3>1. UNCHANGED <<type, pc, xp>>
      <4>1. CASE ref[f] = 1
        <5>1. type' = [type EXCEPT ![f] = "none"] /\ type[f] = "none" /\ UNCHANGED <<pc, xp>>
          BY <1>7, <2>2, <2>4, <4>1 DEF FileClose, LastRef
        <5> QED
          BY <5>1 DEF Types, FileTypes
      <4>2. CASE ref[f] # 1
        BY <1>7, <2>2, <4>2 DEF FileClose, LastRef
      <4> QED
        BY <4>1, <4>2
    <3>2. EndsSame /\ UNCHANGED ofile
      BY <1>7, <3>1 DEF FileClose, EndsSame
    <3>3. ClosersSame /\ InPipeHas(p)'
      BY <2>1, <3>1 DEF ClosersSame, InPipeHas
    <3> QED
      BY <3>1, <3>2, <3>3, EndsQuiet
  <2> QED
    BY <2>3, <2>4
<1>8. ASSUME NEW p \in Procs, PipeClose(p) PROVE Ends1'
  BY <1>8, EndsShut
<1>9. ASSUME NEW p \in Procs, Fork(p) PROVE Ends1'
  <2>1. PICK c \in Procs :
             /\ state[c] = "UNUSED"
             /\ pc' = [pc EXCEPT ![c] = "user"]
             /\ ofile' = [ofile EXCEPT ![c] = ofile[p]]
             /\ UNCHANGED <<type, writable, pipe, free, readopen, writeopen, xp>>
    BY <1>9 DEF Fork
  <2>2. EndsSame
    BY <2>1 DEF EndsSame
  <2>3. pc[c] = "user" /\ pc'[c] = "user" /\ \A q \in Procs \ {c} : pc'[q] = pc[q] /\ ofile'[q] = ofile[q]
    BY <2>1 DEF Hands, HandOn, Types, ProcTypes, FileTypes
  <2>4. ClosersSame
    BY <2>1, <2>3 DEF ClosersSame, Closings
  <2>5. InPipeHas(c)'
    BY <2>3 DEF InPipeHas
  <2> QED
    BY <2>1, <2>2, <2>3, <2>4, <2>5, EndsQuiet
<1>10. ASSUME NEW p \in Procs, NEW q \in Procs, Kill(p, q) PROVE Ends1'
  <2>1. EndsSame /\ UNCHANGED <<pc, xp, ofile>> /\ pc[p] = "user"
    BY <1>10 DEF EndsSame, Kill, files, Call, At
  <2>2. ClosersSame /\ InPipeHas(p)'
    BY <2>1 DEF ClosersSame, InPipeHas
  <2> QED
    BY <2>1, <2>2, EndsQuiet
<1> QED
  BY <1>2, <1>3, <1>4, <1>5, <1>6, <1>7, <1>8, <1>9, <1>10 DEF Next

-----------------------------------------------------------------------------
(* The invariant, and what it says.                                        *)

LEMMA PInvInit == Init => PInv
<1> SUFFICES ASSUME Init PROVE PInv
  OBVIOUS
<1>1. Types
  BY TypesInit
<1>2. Hands
  <2>1. ASSUME NEW p \in Procs PROVE HandOn(p)
    BY EmptySeq DEF Init, HandOn, Open, Unused
  <2>2. ASSUME NEW x \in Pages PROVE LockOn(x)
    BY <2>2 DEF Init, LockOn
  <2> QED
    BY <2>1, <2>2 DEF Hands
<1>3. RefsExact
  <2> SUFFICES ASSUME NEW f \in Files PROVE ref[f] = Cardinality(Descs(f)) + Cardinality(InHands(f))
    BY DEF RefsExact
  <2>1. \A p \in Procs, fd \in FDs : ofile[p][fd] # f
    BY PipeAssumption DEF Init
  <2>2. Descs(f) = {}
    BY <2>1 DEF Descs
  <2>3. InHands(f) = {}
    BY DEF Init, InHands
  <2> QED
    BY <2>2, <2>3, FS_EmptySet DEF Init
<1>4. Kinds
  BY DEF Init, Kinds, OpenKinds, HandKinds, HandsApart, KindRefs
<1>5. Ends1
  <2>1. ASSUME NEW x \in Pages, NEW w \in BOOLEAN PROVE EndOn(x, w)
    BY DEF Init, EndOn, EndOf, EndShut, Closing, EndsOpen
  <2> QED
    BY <2>1 DEF Init, Ends1
<1> QED
  BY <1>1, <1>2, <1>3, <1>4, <1>5 DEF PInv

LEMMA PInvNext == PInv /\ [Next]_vars => PInv'
  BY TypesNext, HandsNext, RefsNext, KindsNext, EndsNext DEF PInv

LEMMA Invariance == Spec => []PInv
  BY PInvInit, PInvNext, PTL DEF Spec

(* Reference counts are exact: filedup(), fileclose() and fork() never     *)
(* lose or invent one (file.c), whatever happens at the same time.         *)
THEOREM CountsExact == Spec => []RefsExact
  BY Invariance, PTL DEF PInv

LEMMA WhoIsInHas ==
  ASSUME PInv, NEW p \in Procs, pc[p] \in InPipe
  PROVE  /\ pc[p] = "read" => \E f \in Files : EndOf(f, xp[p], FALSE)
         /\ pc[p] = "write" => \E f \in Files : EndOf(f, xp[p], TRUE)
         /\ pc[p] = "read" => xp[p] \in readopen
         /\ pc[p] = "write" => xp[p] \in writeopen
         /\ xp[p] \in Pages \ free
<1>1. PICK x \in Pages : x = xp[p]
  BY DEF PInv, Types, ProcTypes
<1>2. /\ pc[p] = "read" => \E f \in Files : EndOf(f, x, FALSE)
      /\ pc[p] = "write" => \E f \in Files : EndOf(f, x, TRUE)
  <2>1. /\ pc[p] = "read" => Has(p, x, FALSE)
        /\ pc[p] = "write" => Has(p, x, TRUE)
    BY <1>1 DEF PInv, Ends1
  <2>2. \A w \in BOOLEAN : Has(p, x, w) => \E f \in Files : EndOf(f, x, w)
    BY DEF Has, PInv, Types, FileTypes
  <2> QED
    BY <2>1, <2>2
<1>3. EndOn(x, TRUE) /\ EndOn(x, FALSE)
  BY DEF PInv, Ends1
<1>4. /\ pc[p] = "read" => x \in readopen
      /\ pc[p] = "write" => x \in writeopen
  BY <1>2, <1>3 DEF EndOn, EndsOpen
<1> QED
  BY <1>1, <1>2, <1>4 DEF InPipe, PInv, Ends1

LEMMA FreedOnce == PInv => PageFreedOnce
<1> SUFFICES ASSUME PInv PROVE PageFreedOnce
  OBVIOUS
<1>1. ASSUME NEW x \in Pages
      PROVE  x \in free <=> Ends(x, TRUE) \cup Ends(x, FALSE) = {} /\ Closers(x) = {}
  <2>1. \A f \in Files, w \in BOOLEAN : f \in Ends(x, w) <=> EndOf(f, x, w)
    BY RefIs DEF Ends, EndOf, PInv, Kinds, KindRefs
  <2>2. \A p \in Procs : p \in Closers(x) <=> EndShut(p, x, TRUE) \/ EndShut(p, x, FALSE)
    BY DEF Closers, EndShut, Closing
  <2>3. x \in free <=> x \notin readopen /\ x \notin writeopen
    BY DEF PInv, Ends1
  <2>4. EndOn(x, TRUE) /\ EndOn(x, FALSE)
    BY DEF PInv, Ends1
  <2>5. /\ x \in writeopen <=> (\E f \in Files : EndOf(f, x, TRUE)) \/ (\E p \in Procs : EndShut(p, x, TRUE))
        /\ x \in readopen <=> (\E f \in Files : EndOf(f, x, FALSE)) \/ (\E p \in Procs : EndShut(p, x, FALSE))
    BY <2>4 DEF EndOn, EndsOpen
  <2>6. Ends(x, TRUE) \cup Ends(x, FALSE) = {} <=>
          \A f \in Files : ~EndOf(f, x, TRUE) /\ ~EndOf(f, x, FALSE)
    BY <2>1 DEF Ends
  <2>7. Closers(x) = {} <=> \A p \in Procs : ~EndShut(p, x, TRUE) /\ ~EndShut(p, x, FALSE)
    BY <2>2 DEF Closers
  <2> QED
    BY <2>3, <2>5, <2>6, <2>7
<1>2. ASSUME NEW p \in Procs, pc[p] \in {"read", "write"} PROVE xp[p] \notin free
  BY <1>2, WhoIsInHas DEF InPipe
<1> QED
  BY <1>1, <1>2 DEF PageFreedOnce

(* The memory of a pipe is freed once, when its last end has been closed,  *)
(* and never under somebody in piperead() or pipewrite() (pipe.c:68-72).   *)
THEOREM PageFreed == Spec => []PageFreedOnce
  BY Invariance, FreedOnce, PTL

-----------------------------------------------------------------------------
(* On one CPU nobody who has been killed sleeps.                           *)

LEMMA AwakeNext ==
  ASSUME ~SMP
  PROVE  PInv /\ Awake /\ [Next]_vars => Awake'
<1> SUFFICES ASSUME PInv, Awake, [Next]_vars PROVE Awake'
  OBVIOUS
<1> USE DEF PInv, Awake
<1>1. CASE UNCHANGED vars
  BY <1>1 DEF vars
<1>2. ASSUME NEW p \in Procs,
             \/ SysPipe(p) \/ FileAlloc(p) \/ PipeAlloc(p) \/ InstallFds(p)
             \/ SysDup(p) \/ SysClose(p) \/ FileClose(p) \/ Closed(p) \/ PipeClose(p)
             \/ Exit(p) \/ Reap(p) \/ SysWrite(p) \/ Write(p) \/ SysRead(p) \/ Read(p) \/ Sleep(p)
      PROVE  Awake'
  <2>1. Frame(p)
    BY <1>2, FrameOf
  <2>2. killed' \in {killed, killed \ {p}}
    BY <1>2 DEF SysPipe, FileAlloc, PipeAlloc, InstallFds, SysDup, SysClose, FileClose, Closed,
                PipeClose, Exit, Reap, SysWrite, Write, SysRead, Read, Sleep
  <2>3. state'[p] = "SLEEPING" => p \notin killed
    <3>1. CASE Sleep(p)
      BY <3>1, PipeAssumption DEF Sleep, Types, ProcTypes
    <3>2. CASE ~Sleep(p)
      <4>1. Hands'
        BY <1>2, HandsNext DEF Next
      <4>2. state[p] # "SLEEPING"
        BY <1>2, <3>2 DEF SysPipe, FileAlloc, PipeAlloc, InstallFds, SysDup, SysClose, FileClose, Closed,
                PipeClose, Exit, Reap, SysWrite, Write, SysRead, Read, Call, At
      <4>3. PICK x \in Pages : x = xp[p]
        BY DEF Types, ProcTypes
      <4>4. \/ UNCHANGED state \/ state' = [state EXCEPT ![p] = "ZOMBIE"]
            \/ state' = [state EXCEPT ![p] = "UNUSED"]
            \/ Wakeup(x, "read") \/ Wakeup(x, "write")
        BY <1>2, <3>2, <4>3 DEF SysPipe, FileAlloc, PipeAlloc, InstallFds, SysDup, SysClose, FileClose, Closed,
                PipeClose, Exit, Reap, SysWrite, Write, SysRead, Read
      <4>5. CASE Wakeup(x, "read")
        BY <4>2, <4>5, WakeupIs DEF Types
      <4>6. CASE Wakeup(x, "write")
        BY <4>2, <4>6, WakeupIs DEF Types
      <4> QED
        BY <4>2, <4>4, <4>5, <4>6 DEF Types, ProcTypes
    <3> QED
      BY <3>1, <3>2
  <2>4. \A x \in Pages : lock'[x] \in {lock[x], NoProc} \/ (lock'[x] = p /\ p \notin killed)
    <3>1. CASE Write(p)
      BY <3>1 DEF Write, Types, RingTypes
    <3>2. CASE Read(p)
      BY <3>2 DEF Read, Types, RingTypes
    <3>3. CASE PipeAlloc(p)
      BY <3>3 DEF PipeAlloc, Types, RingTypes
    <3>4. CASE Sleep(p)
      BY <3>4 DEF Sleep, Types, RingTypes
    <3> QED
      BY <1>2, <3>1, <3>2, <3>3, <3>4
         DEF SysPipe, FileAlloc, InstallFds, SysDup, SysClose, FileClose, Closed,
             PipeClose, Exit, Reap, SysWrite, SysRead
  <2>5. killed \in SUBSET Procs
    BY DEF Types, ProcTypes
  <2>6. \A q \in killed' : state'[q] # "SLEEPING"
    BY <2>1, <2>2, <2>3, <2>5 DEF Frame
  <2>7. \A x \in Pages : lock'[x] \notin killed'
    BY <2>2, <2>4, <2>5, PipeAssumption
  <2> QED
    BY <2>6, <2>7
<1>3. ASSUME NEW p \in Procs, Fork(p) PROVE Awake'
  BY <1>3 DEF Fork, Types, ProcTypes
<1>4. ASSUME NEW p \in Procs, NEW q \in Procs, Kill(p, q) PROVE Awake'
  <2>1. \A x \in Pages : lock[x] # p
    BY <1>4, NoLock DEF Kill, Call, At, InPipe
  <2>2. \A x \in Pages : lock[x] = NoProc
    BY <1>4, <2>1 DEF Kill, Call, At
  <2>3. \A x \in Pages : lock'[x] \notin killed'
    BY <1>4, <2>2, PipeAssumption DEF Kill, Types, ProcTypes
  <2>4. \A r \in killed' : state'[r] # "SLEEPING"
    BY <1>4 DEF Kill, Roused, Types, ProcTypes
  <2> QED
    BY <2>3, <2>4
<1> QED
  BY <1>1, <1>2, <1>3, <1>4 DEF Next

(* On one CPU a killed process never stays asleep in a pipe: kill() wakes  *)
(* it, and it looks at proc->killed before it sleeps again (proc.c:391-408,*)
(* pipe.c:83,104).  On two CPUs kill() can come in between.                *)
THEOREM KilledWakes ==
  ASSUME ~SMP
  PROVE  Spec => []KilledAwake
<1>1. Init => Awake
  BY PipeAssumption DEF Init, Awake
<1>2. Awake => KilledAwake
  BY DEF Awake, KilledAwake
<1> QED
  BY <1>1, <1>2, AwakeNext, Invariance, PTL DEF Spec

-----------------------------------------------------------------------------
(* What piperead() and pipewrite() return.                                 *)

LEMMA UintZero ==
  ASSUME NEW a \in 0 .. UintMod - 1, NEW b \in 0 .. UintMod - 1, Uint(a - b) = 0
  PROVE  a = b
<1>1. UintMod \in Nat \ {0}
  BY PipeAssumption
<1>2. CASE a >= b
  <2>1. a - b \in 0 .. UintMod - 1
    BY <1>1, <1>2
  <2>2. Uint(a - b) = a - b
    BY <2>1, UintSame
  <2> QED
    BY <2>2
<1>3. CASE a < b
  <2>1. PICK c \in Int : c = a - b
    OBVIOUS
  <2>2. c + UintMod \in 0 .. UintMod - 1 /\ c + UintMod # 0
    BY <1>1, <1>3, <2>1
  <2>3. (c + UintMod) % UintMod = c % UintMod
    <3>1. PICK q \in Int, d \in Int : q = 1 /\ d = UintMod * q /\ d = UintMod
      BY <1>1
    <3>2. (c + UintMod * q) % UintMod = c % UintMod
      BY <1>1, ModShift
    <3> QED
      BY <3>1, <3>2
  <2>4. Uint(c + UintMod) = c + UintMod
    BY <2>2, UintSame
  <2>5. Uint(c) = c + UintMod
    BY <2>2, <2>3, <2>4 DEF Uint
  <2> QED
    BY <2>1, <2>2, <2>5
<1> QED
  BY <1>2, <1>3

LEMMA HeldOpen ==
  ASSUME PInv, NEW x \in Pages, NEW w \in BOOLEAN, Held(x, w)
  PROVE  x \in EndsOpen(w)
<1>0. PICK q \in Procs : \E fd \in Open(q) : pipe[ofile[q][fd]] = x /\ writable[ofile[q][fd]] = w
  BY DEF Held
<1>1. PICK fd \in Open(q) : pipe[ofile[q][fd]] = x /\ writable[ofile[q][fd]] = w
  BY <1>0
<1>2. PICK f \in Files : f = ofile[q][fd] /\ fd \in FDs /\ f # NoFile
  BY OpenIs, PipeAssumption DEF PInv
<1>3. EndOf(f, x, w)
  BY <1>1, <1>2 DEF EndOf, PInv, Kinds, OpenKinds
<1> QED
  BY <1>3 DEF PInv, Ends1, EndOn

(* Only a process itself leaves piperead() or pipewrite().                 *)
LEMMA Leaves ==
  ASSUME PInv, [Next]_vars, NEW p \in Procs, pc[p] \in InPipe, pc'[p] = "user"
  PROVE  Read(p) \/ Write(p)
<1> USE DEF PInv
<1>1. CASE UNCHANGED vars
  BY <1>1 DEF vars, InPipe
<1>2. ASSUME NEW q \in Procs, q # p,
             \/ SysPipe(q) \/ FileAlloc(q) \/ PipeAlloc(q) \/ InstallFds(q)
             \/ SysDup(q) \/ SysClose(q) \/ FileClose(q) \/ Closed(q) \/ PipeClose(q)
             \/ Exit(q) \/ Reap(q)
             \/ SysWrite(q) \/ Write(q) \/ SysRead(q) \/ Read(q) \/ Sleep(q)
      PROVE  FALSE
  BY <1>2, FrameOf DEF Frame, InPipe
<1>3. ASSUME \/ SysPipe(p) \/ FileAlloc(p) \/ PipeAlloc(p) \/ InstallFds(p)
             \/ SysDup(p) \/ SysClose(p) \/ FileClose(p) \/ Closed(p) \/ PipeClose(p)
             \/ Exit(p) \/ SysWrite(p) \/ SysRead(p)
      PROVE  FALSE
  BY <1>3 DEF SysPipe, FileAlloc, PipeAlloc, InstallFds, SysDup, SysClose, FileClose, Closed,
              PipeClose, Exit, SysWrite, SysRead, Call, At, InPipe
<1>4. ASSUME Reap(p) \/ Sleep(p) PROVE FALSE
  BY <1>4 DEF Reap, Sleep, Hands, HandOn, InPipe
<1>5. ASSUME NEW q \in Procs, Fork(q) PROVE FALSE
  BY <1>5 DEF Fork, Hands, HandOn, InPipe, Types, ProcTypes
<1>6. ASSUME NEW q \in Procs, NEW r \in Procs, Kill(q, r) PROVE FALSE
  BY <1>6 DEF Kill, InPipe
<1> QED
  BY <1>1, <1>2, <1>3, <1>4, <1>5, <1>6 DEF Next

Honest(p) ==
  pc'[p] = "user" =>
    /\ pc[p] = "read" /\ got'[p] = <<>> /\ want[p] > 0 => ~Held(xp[p], TRUE)
    /\ pc[p] = "write" /\ Len(todo[p]) > Room(xp[p]) => ~Held(xp[p], FALSE)

LEMMA HonestStep ==
  ASSUME PInv, [Next]_vars, NEW p \in Procs \ killed
  PROVE  Honest(p)
<1> SUFFICES ASSUME pc'[p] = "user", pc[p] \in InPipe
             PROVE  /\ pc[p] = "read" /\ got'[p] = <<>> /\ want[p] > 0 => ~Held(xp[p], TRUE)
                    /\ pc[p] = "write" /\ Len(todo[p]) > Room(xp[p]) => ~Held(xp[p], FALSE)
  BY DEF Honest, InPipe
<1>1. PICK x \in Pages : x = xp[p]
  BY DEF PInv, Types, ProcTypes
<1>2. nread[x] \in 0 .. UintMod - 1 /\ nwrite[x] \in 0 .. UintMod - 1
  BY RoomIs DEF PInv
<1>3. ASSUME pc[p] = "read", got'[p] = <<>>, want[p] > 0 PROVE x \notin writeopen
  <2>1. Read(p)
    BY <1>3, Leaves DEF Write, At
  <2>2. CASE nread[x] = nwrite[x] /\ x \in writeopen
    <3>1. pc'[p] = pc[p]
      BY <1>1, <2>1, <2>2 DEF Read
    <3> QED
      BY <1>3, <3>1
  <2>3. CASE ~(nread[x] = nwrite[x] /\ x \in writeopen)
    <3>1. PICK k : k = Smaller(want[p], Avail(x))
      OBVIOUS
    <3>2. got' = [got EXCEPT ![p] = Take(x, nread[x], k)]
      BY <1>1, <2>1, <2>3, <3>1 DEF Read
    <3>3. Take(x, nread[x], k) = <<>>
      BY <1>3, <3>2 DEF PInv, Types, ProcTypes
    <3>4. want[p] \in Nat /\ Avail(x) \in Nat /\ k \in Nat
      BY <3>1, RoomIs DEF Smaller, PInv, Types, ProcTypes
    <3>5. DOMAIN Take(x, nread[x], k) = 1 .. k
      BY DEF Take
    <3>6. k = 0
      <4>1. 1 .. k = {}
        BY <3>3, <3>5
      <4> QED
        BY <3>4, <4>1
    <3>7. Avail(x) = 0
      BY <1>3, <3>1, <3>4, <3>6 DEF Smaller
    <3>8. nwrite[x] = nread[x]
      BY <1>2, <3>7, UintZero DEF Avail
    <3> QED
      BY <2>3, <3>8
  <2> QED
    BY <2>2, <2>3
<1>4. ASSUME pc[p] = "write", Len(todo[p]) > Room(x) PROVE x \notin readopen
  <2>1. Write(p)
    BY <1>4, Leaves DEF Read, At
  <2>2. PICK k \in Nat : k = Smaller(Len(todo[p]), Room(x)) /\ k < Len(todo[p])
    BY <1>4, RoomIs, LenProperties DEF Smaller, PInv, Types, ProcTypes
  <2>3. SubSeq(todo[p], k + 1, Len(todo[p])) # <<>>
    <3>1. todo[p] \in Seq(Byte) /\ Len(todo[p]) \in Nat
      BY LenProperties DEF PInv, Types, ProcTypes
    <3>2. ~(k >= Len(todo[p]))
      BY <2>2, <3>1
    <3> QED
      BY <2>2, <3>1, <3>2, RestIs
  <2> QED
    BY <1>1, <1>4, <2>1, <2>2, <2>3 DEF Write
<1>5. x \notin writeopen => ~Held(x, TRUE)
  BY HeldOpen DEF EndsOpen
<1>6. x \notin readopen => ~Held(x, FALSE)
  BY HeldOpen DEF EndsOpen
<1> QED
  BY <1>1, <1>3, <1>4, <1>5, <1>6

(* The end of the file, and a write cut short, are never reported early:   *)
(* to a living process only when nobody has the other end open (pipe.c).   *)
THEOREM ReturnsHonest == Spec => HonestReturn
<1>1. PInv /\ [Next]_vars => \A p \in Procs \ killed : Honest(p)
  BY HonestStep
<1> QED
  BY <1>1, Invariance, PTL DEF Spec, HonestReturn, Honest

-----------------------------------------------------------------------------
(* No wakeup is lost, unless a process is killed in pipewrite().           *)

WritersLive == \A p \in killed : pc[p] # "write"

(* Who waits after a step did before, and for the same reason.             *)
StaysOn(q) ==
  state'[q] = "SLEEPING" \/ lock'[xp'[q]] = q =>
    /\ state[q] = "SLEEPING" \/ lock[xp[q]] = q
    /\ pc'[q] = pc[q] /\ xp'[q] = xp[q]
    /\ nread'[xp[q]] = nread[xp[q]] /\ nwrite'[xp[q]] = nwrite[xp[q]]
    /\ xp[q] \in readopen' <=> xp[q] \in readopen
    /\ xp[q] \in writeopen' <=> xp[q] \in writeopen

LEMMA WaitKept == ASSUME NEW q \in Procs, WaitOn(q), StaysOn(q) PROVE WaitOn(q)'
<1>1. PICK x : x = xp[q]
  OBVIOUS
<1> QED
  BY <1>1 DEF WaitOn, StaysOn, Room, Uint

(* Who sleeps or is about to is in the pipe.                               *)
LEMMA WaiterIsIn ==
  ASSUME PInv, NEW q \in Procs, state[q] = "SLEEPING" \/ lock[xp[q]] = q
  PROVE  /\ pc[q] \in InPipe
         /\ pc[q] = "read" => xp[q] \in readopen
         /\ pc[q] = "write" => xp[q] \in writeopen
         /\ xp[q] \in Pages \ free
<1>1. pc[q] \in InPipe
  <2>1. PICK x \in Pages : x = xp[q]
    BY DEF PInv, Types, ProcTypes
  <2> QED
    BY <2>1, PipeAssumption DEF PInv, Hands, HandOn, LockOn
<1> QED
  BY <1>1, WhoIsInHas

(* What a writer finds full after it filled the ring.                       *)
LEMMA RingFilled ==
  ASSUME NEW r \in Int, NEW w \in Int
  PROVE  Uint(r + PIPESIZE - Uint(w + Uint(r + PIPESIZE - w))) = 0
<1>1. PIPESIZE \in Int
  BY PipeAssumption
<1>2. r + PIPESIZE \in Int
  BY <1>1
<1>3. PICK a \in Int : a = r + PIPESIZE
  BY <1>2
<1>4. Uint(a - Uint(w + Uint(a - w))) = 0
  BY UintFill
<1>5. \A n \in Int : Uint(n) \in Int
  BY UintRange, PipeAssumption
<1> QED
  BY <1>1, <1>3, <1>4, <1>5

LEMMA WaitsWrite ==
  ASSUME PInv, Waits, WritersLive, NEW p \in Procs, Write(p), Frame(p)
  PROVE  Waits'
<1> USE DEF Goto
<1>1. PICK x \in Pages : x = xp[p] /\ lock[x] = NoProc
  BY DEF PInv, Types, ProcTypes, Write
<1>2. pc[p] = "write" /\ state[p] = "RUNNABLE" /\ p \notin killed
  BY DEF Write, At, WritersLive
<1>3. PICK k \in Nat : k = Smaller(Len(todo[p]), Room(x))
  <2>1. Len(todo[p]) \in Nat
    BY LenProperties DEF PInv, Types, ProcTypes
  <2>2. Room(x) \in Nat
    BY RoomIs DEF PInv
  <2> QED
    BY <2>1, <2>2 DEF Smaller
<1>4. /\ nwrite' = [nwrite EXCEPT ![x] = Uint(nwrite[x] + k)]
      /\ UNCHANGED <<nread, readopen, writeopen, xp>>
  BY <1>1, <1>3 DEF Write
<1>5. nread[x] \in Int /\ nwrite[x] \in 0 .. UintMod - 1 /\ Room(x) \in Nat
  BY RoomIs DEF PInv
<1>6. Room(x) = 0 => UNCHANGED nwrite
  <2>1. Room(x) = 0 => k = 0
    BY <1>3, <1>5, LenProperties DEF Smaller, PInv, Types, ProcTypes
  <2>2. k = 0 => Uint(nwrite[x] + k) = nwrite[x]
    BY <1>5, UintSame
  <2> QED
    BY <1>4, <2>1, <2>2 DEF PInv, Types, RingTypes
<1>7. \A q \in Procs : state'[q] = "SLEEPING" => state[q] = "SLEEPING"
  BY <1>2 DEF Frame, Write, Wakeup, PInv, Types, ProcTypes
<1>8. PICK rest : rest = SubSeq(todo[p], k + 1, Len(todo[p]))
  OBVIOUS
<1>9. \/ rest # <<>> /\ x \notin readopen /\ UNCHANGED lock
      \/ Wakeup(x, "read") /\ (UNCHANGED lock \/ (/\ rest # <<>> /\ x \in readopen /\ UNCHANGED pc
                                                   /\ lock' = [lock EXCEPT ![x] = p]))
  BY <1>1, <1>2, <1>3, <1>8 DEF Write
(* No reader of x sleeps any more. *)
<1>10. \A q \in Procs : state'[q] = "SLEEPING" /\ xp[q] = x => pc[q] = "write"
  <2> SUFFICES ASSUME NEW q \in Procs, state'[q] = "SLEEPING", xp[q] = x PROVE pc[q] = "write"
    OBVIOUS
  <2>1. state[q] = "SLEEPING"
    BY <1>7
  <2>2. pc[q] \in InPipe /\ (pc[q] = "read" => x \in readopen)
    BY <2>1, WaiterIsIn
  <2>3. Wakeup(x, "read") => pc[q] # "read"
    BY <2>1, WakeupIs DEF PInv, Types
  <2> QED
    BY <1>9, <2>2, <2>3 DEF InPipe
<1>11. \A q \in Procs \ {p} : lock'[xp[q]] = q => lock[xp[q]] = q /\ xp[q] # x
  BY <1>1, <1>9, PipeAssumption DEF PInv, Types, RingTypes, ProcTypes
<1>12. ASSUME NEW q \in Procs \ {p} PROVE WaitOn(q)'
  <2>1. pc'[q] = pc[q] /\ xp'[q] = xp[q]
    BY DEF Frame
  <2>2. CASE xp[q] # x
    <3>1. nwrite'[xp[q]] = nwrite[xp[q]]
      BY <1>4, <2>2 DEF PInv, Types, RingTypes
    <3>2. StaysOn(q)
      BY <1>4, <1>7, <1>11, <2>1, <3>1 DEF StaysOn
    <3> QED
      BY <3>2, WaitKept DEF Waits
  <2>3. CASE xp[q] = x /\ state'[q] = "SLEEPING"
    <3>1. pc[q] = "write" /\ state[q] = "SLEEPING"
      BY <1>7, <1>10, <2>3
    <3>2. Room(x) = 0
      BY <2>3, <3>1 DEF Waits, WaitOn
    <3>3. StaysOn(q)
      BY <1>4, <1>6, <2>1, <3>1, <3>2 DEF StaysOn
    <3> QED
      BY <3>3, WaitKept DEF Waits
  <2>4. CASE xp[q] = x /\ state'[q] # "SLEEPING"
    BY <1>11, <2>1, <2>4 DEF WaitOn
  <2> QED
    BY <2>2, <2>3, <2>4
<1>13. WaitOn(p)'
  <2>1. state'[p] # "SLEEPING"
    BY <1>2, <1>7
  <2>2. CASE UNCHANGED lock
    BY <1>1, <1>4, <2>1, <2>2, PipeAssumption DEF WaitOn
  <2>3. CASE rest # <<>> /\ x \in readopen /\ UNCHANGED pc
    <3>1. k = Room(x)
      <4>1. todo[p] \in Seq(Byte) /\ Len(todo[p]) \in Nat
        BY LenProperties DEF PInv, Types, ProcTypes
      <4>2. ~(k >= Len(todo[p]))
        BY <1>8, <2>3, <4>1, RestIs
      <4> QED
        BY <1>3, <1>5, <4>1, <4>2 DEF Smaller
    <3>2. nwrite'[x] = Uint(nwrite[x] + Room(x)) /\ nread'[x] = nread[x]
      BY <1>4, <3>1 DEF PInv, Types, RingTypes
    <3>3. Room(x)' = 0
      BY <1>5, <3>2, RingFilled DEF Room
    <3> QED
      BY <1>1, <1>2, <1>4, <2>3, <3>3 DEF WaitOn
  <2> QED
    BY <1>9, <2>2, <2>3
<1> QED
  BY <1>12, <1>13 DEF Waits

LEMMA WaitsRead ==
  ASSUME PInv, Waits, NEW p \in Procs, Read(p), Frame(p)
  PROVE  Waits'
<1> USE DEF Goto
<1>1. PICK x \in Pages : x = xp[p] /\ lock[x] = NoProc
  BY DEF PInv, Types, ProcTypes, Read
<1>2. pc[p] = "read" /\ state[p] = "RUNNABLE"
  BY DEF Read, At
<1>3. UNCHANGED <<nwrite, readopen, writeopen, xp>>
  BY DEF Read
<1>4. CASE nread[x] = nwrite[x] /\ x \in writeopen
  <2>1. /\ UNCHANGED <<nread, state>>
        /\ UNCHANGED lock \/ (lock' = [lock EXCEPT ![x] = p] /\ UNCHANGED pc)
    BY <1>1, <1>4 DEF Read
  <2>2. ASSUME NEW q \in Procs \ {p} PROVE WaitOn(q)'
    <3>1. lock'[xp[q]] = q => lock[xp[q]] = q
      BY <2>1 DEF PInv, Types, RingTypes, ProcTypes
    <3>2. StaysOn(q)
      BY <1>3, <2>1, <3>1 DEF StaysOn, Frame
    <3> QED
      BY <3>2, WaitKept DEF Waits
  <2>3. WaitOn(p)'
    BY <1>1, <1>2, <1>3, <1>4, <2>1, PipeAssumption DEF WaitOn
  <2> QED
    BY <2>2, <2>3 DEF Waits
<1>5. CASE ~(nread[x] = nwrite[x] /\ x \in writeopen)
  <2>1. /\ Wakeup(x, "write") /\ UNCHANGED lock
        /\ \E k : nread' = [nread EXCEPT ![x] = k]
    BY <1>1, <1>5 DEF Read
  <2>2. \A q \in Procs : state'[q] = "SLEEPING" => state[q] = "SLEEPING" /\ xp[q] # x
    <3> SUFFICES ASSUME NEW q \in Procs, state'[q] = "SLEEPING"
                 PROVE  state[q] = "SLEEPING" /\ xp[q] # x
      OBVIOUS
    <3>1. state[q] = "SLEEPING" /\ ~(pc[q] = "write" /\ xp[q] = x)
      BY <2>1, WakeupIs DEF PInv, Types
    <3>2. ~(pc[q] = "read" /\ xp[q] = x)
      BY <1>5, <3>1 DEF Waits, WaitOn
    <3> QED
      BY <3>1, <3>2, WaiterIsIn DEF InPipe
  <2>3. ASSUME NEW q \in Procs PROVE WaitOn(q)'
    <3>1. CASE xp[q] = x
      BY <1>1, <1>3, <2>1, <2>2, <3>1, PipeAssumption DEF WaitOn
    <3>2. CASE xp[q] # x
      <4>1. nread'[xp[q]] = nread[xp[q]] /\ q # p
        BY <1>1, <2>1, <3>2 DEF PInv, Types, RingTypes
      <4>2. StaysOn(q)
        BY <1>3, <2>1, <2>2, <4>1 DEF StaysOn, Frame
      <4> QED
        BY <4>2, WaitKept DEF Waits
    <3> QED
      BY <3>1, <3>2
  <2> QED
    BY <2>3 DEF Waits
<1> QED
  BY <1>4, <1>5

LEMMA WaitsClose ==
  ASSUME PInv, Waits, NEW p \in Procs, PipeClose(p), Frame(p)
  PROVE  Waits'
<1> USE DEF Goto
<1>1. PICK x \in Pages, v \in BOOLEAN : x = xp[p] /\ lock[x] = NoProc /\ pc[p] = Closing(v)
  BY DEF PInv, Types, ProcTypes, PipeClose, At, Closing
<1>2. EndShut(p, x, v) /\ EndOn(x, v)
  BY <1>1 DEF EndShut, PInv, Ends1
<1>3. \A f \in Files : ~EndOf(f, x, v)
  BY <1>2 DEF EndOn
<1>4. /\ Wakeup(x, IF v THEN "read" ELSE "write") /\ UNCHANGED <<lock, xp>>
      /\ readopen' \in {readopen, readopen \ {x}} /\ writeopen' \in {writeopen, writeopen \ {x}}
  BY <1>1 DEF PipeClose, At, Closing
<1>5. \A y \in Pages \ {x} : nread'[y] = nread[y] /\ nwrite'[y] = nwrite[y]
  BY <1>1 DEF PipeClose, ring, PInv, Types, RingTypes
<1>6. \A q \in Procs : state'[q] = "SLEEPING" => state[q] = "SLEEPING" /\ xp[q] # x
  <2> SUFFICES ASSUME NEW q \in Procs, state'[q] = "SLEEPING"
               PROVE  state[q] = "SLEEPING" /\ xp[q] # x
    OBVIOUS
  <2>1. state[q] = "SLEEPING" /\ ~(pc[q] = (IF v THEN "read" ELSE "write") /\ xp[q] = x)
    BY <1>4, WakeupIs DEF PInv, Types
  <2>2. pc[q] \in InPipe
    BY <2>1, WaiterIsIn
  <2>3. ~(pc[q] = (IF v THEN "write" ELSE "read") /\ xp[q] = x)
    BY <1>3, <2>2, WhoIsInHas
  <2> QED
    BY <2>1, <2>2, <2>3 DEF InPipe
<1>7. ASSUME NEW q \in Procs PROVE WaitOn(q)'
  <2>1. CASE xp[q] = x
    BY <1>1, <1>4, <1>6, <2>1, PipeAssumption DEF WaitOn
  <2>2. CASE xp[q] # x
    <3>1. q # p /\ xp[q] \in Pages \ {x}
      BY <1>1, <2>2 DEF PInv, Types, ProcTypes
    <3>2. StaysOn(q)
      BY <1>4, <1>5, <1>6, <3>1 DEF StaysOn, Frame
    <3> QED
      BY <3>2, WaitKept DEF Waits
  <2> QED
    BY <2>1, <2>2
<1> QED
  BY <1>7 DEF Waits

LEMMA WaitsNext == PInv /\ Waits /\ WritersLive /\ [Next]_vars => Waits'
<1> SUFFICES ASSUME PInv, Waits, WritersLive, [Next]_vars PROVE Waits'
  OBVIOUS
<1> USE DEF Goto
<1>1. CASE UNCHANGED vars
  BY <1>1 DEF vars, Waits, WaitOn, Room
<1>2. ASSUME NEW p \in Procs, Write(p) \/ Read(p) \/ PipeClose(p) PROVE Waits'
  BY <1>2, FrameOf, WaitsWrite, WaitsRead, WaitsClose DEF PInv
<1>3. Types' /\ Hands'
  BY TypesNext, HandsNext DEF PInv
<1>4. ASSUME NEW p \in Procs, Frame(p), state'[p] # "SLEEPING", \A x \in Pages : lock[x] # p,
             \A x \in Pages : lock'[x] \in {lock[x], NoProc},
             \A x \in Pages \ free : /\ nread'[x] = nread[x] /\ nwrite'[x] = nwrite[x]
                                     /\ x \in readopen' <=> x \in readopen
                                     /\ x \in writeopen' <=> x \in writeopen
      PROVE  Waits'
  <2>1. ASSUME NEW q \in Procs \ {p} PROVE WaitOn(q)'
    <3>1. PICK x \in Pages : x = xp[q] /\ x = xp'[q]
      BY <1>4 DEF Frame, PInv, Types, ProcTypes
    <3>2. lock'[x] = q => lock[x] = q
      BY <1>4, PipeAssumption
    <3>3. CASE state[q] = "SLEEPING" \/ lock[x] = q
      <4>1. x \in Pages \ free
        BY <3>1, <3>3, WaiterIsIn
      <4>2. StaysOn(q)
        BY <1>4, <3>1, <3>3, <4>1 DEF StaysOn, Frame
      <4> QED
        BY <4>2, WaitKept DEF Waits
    <3>4. CASE ~(state[q] = "SLEEPING" \/ lock[x] = q)
      BY <1>4, <3>1, <3>2, <3>4 DEF WaitOn, Frame
    <3> QED
      BY <3>3, <3>4
  <2>2. WaitOn(p)'
    <3>1. xp'[p] \in Pages
      BY <1>3 DEF Types, ProcTypes
    <3>2. lock'[xp'[p]] # p
      BY <1>4, <3>1, PipeAssumption
    <3> QED
      BY <1>4, <3>2 DEF WaitOn
  <2> QED
    BY <2>1, <2>2 DEF Waits
<1>5. ASSUME NEW p \in Procs,
             \/ SysPipe(p) \/ FileAlloc(p) \/ PipeAlloc(p) \/ InstallFds(p) \/ SysDup(p)
             \/ SysClose(p) \/ FileClose(p) \/ Closed(p) \/ Exit(p) \/ Reap(p)
             \/ SysWrite(p) \/ SysRead(p)
      PROVE  Waits'
  <2>1. Frame(p)
    BY <1>5, FrameOf DEF PInv
  <2>2. state'[p] # "SLEEPING" /\ (pc[p] \notin InPipe \/ state[p] # "RUNNABLE")
    BY <1>5 DEF SysPipe, FileAlloc, PipeAlloc, InstallFds, SysDup, SysClose, FileClose, Closed,
                Exit, Reap, SysWrite, SysRead, Call, At, InPipe, PInv, Types, ProcTypes
  <2>3. \A x \in Pages : lock[x] # p
    BY <2>2, NoLock DEF PInv
  <2>4. CASE PipeAlloc(p)
    <3>1. \A x \in Pages : lock'[x] \in {lock[x], NoProc}
      BY <2>4 DEF PipeAlloc, PInv, Types, RingTypes
    <3>2. \A x \in Pages \ free : /\ nread'[x] = nread[x] /\ nwrite'[x] = nwrite[x]
                                  /\ x \in readopen' <=> x \in readopen
                                  /\ x \in writeopen' <=> x \in writeopen
      BY <2>4 DEF PipeAlloc, PInv, Types, RingTypes
    <3> QED
      BY <1>4, <2>1, <2>2, <2>3, <3>1, <3>2
  <2>5. CASE ~PipeAlloc(p)
    <3>1. UNCHANGED <<ring, readopen, writeopen, lock>>
      BY <1>5, <2>5 DEF SysPipe, FileAlloc, InstallFds, SysDup, SysClose, FileClose, Closed,
                Exit, Reap, SysWrite, SysRead
    <3> QED
      BY <1>4, <2>1, <2>2, <2>3, <3>1 DEF ring
  <2> QED
    BY <2>4, <2>5
<1>6. ASSUME NEW p \in Procs, Sleep(p) PROVE Waits'
  <2>1. PICK x \in Pages : x = xp[p] /\ lock[x] = p
    BY <1>6 DEF Sleep, PInv, Types, ProcTypes
  <2>2. ASSUME NEW q \in Procs PROVE StaysOn(q)
    <3>1. UNCHANGED <<nread, nwrite, readopen, writeopen, pc, xp>>
      BY <1>6 DEF Sleep, ring
    <3>2. state'[q] = "SLEEPING" => state[q] = "SLEEPING" \/ q = p
      BY <1>6 DEF Sleep, PInv, Types, ProcTypes
    <3>3. lock'[xp[q]] = q => lock[xp[q]] = q
      BY <1>6, <2>1, PipeAssumption DEF Sleep, PInv, Types, RingTypes, ProcTypes
    <3> QED
      BY <2>1, <3>1, <3>2, <3>3 DEF StaysOn
  <2> QED
    BY <2>2, WaitKept DEF Waits
<1>7. ASSUME NEW p \in Procs, Fork(p) PROVE Waits'
  <2>1. PICK c \in Procs :
             /\ state[c] = "UNUSED"
             /\ state' = [state EXCEPT ![c] = "RUNNABLE"]
             /\ pc' = [pc EXCEPT ![c] = "user"]
             /\ ofile' = [ofile EXCEPT ![c] = ofile[p]]
             /\ UNCHANGED <<ring, readopen, writeopen, lock, hand, xp>>
    BY <1>7 DEF Fork
  <2>2. Frame(c) /\ state'[c] # "SLEEPING"
    BY <2>1 DEF Frame, PInv, Types, FileTypes, ProcTypes
  <2>3. \A x \in Pages : lock[x] # c
    BY <2>1, NoLock DEF PInv
  <2> QED
    BY <1>4, <2>1, <2>2, <2>3 DEF ring
<1>8. ASSUME NEW p \in Procs, NEW q \in Procs, Kill(p, q) PROVE Waits'
  <2>1. Frame(p) /\ state'[p] # "SLEEPING" /\ pc[p] \notin InPipe
    BY <1>8 DEF Kill, Roused, Call, At, InPipe, Frame, PInv, Types, ProcTypes
  <2>2. \A x \in Pages : lock[x] # p
    BY <2>1, NoLock DEF PInv
  <2> QED
    BY <1>4, <1>8, <2>1, <2>2 DEF ring, Kill
<1> QED
  BY <1>1, <1>2, <1>5, <1>6, <1>7, <1>8 DEF Next

LEMMA NotLost == PInv /\ Waits => NoLostWakeup
<1> SUFFICES ASSUME PInv, Waits, NEW p \in Procs, NEW x, x = xp[p], state[p] = "SLEEPING"
             PROVE  \/ pc[p] = "read" /\ Avail(x) = 0 /\ x \in writeopen
                    \/ pc[p] = "write" /\ Room(x) = 0 /\ x \in readopen
  BY DEF NoLostWakeup
<1>1. x \in Pages
  BY DEF PInv, Types, ProcTypes
<1>2. nread[x] = nwrite[x] => Avail(x) = 0
  <2>1. nwrite[x] \in Int /\ 0 \in 0 .. UintMod - 1
    BY <1>1, RoomIs, SmallUints DEF PInv
  <2>2. nread[x] = nwrite[x] => nwrite[x] - nread[x] = 0
    BY <2>1
  <2> QED
    BY <2>1, <2>2, UintSame DEF Avail
<1> QED
  BY <1>2 DEF Waits, WaitOn

(* Whoever sleeps in piperead() or pipewrite() has reason to, as long as   *)
(* nobody is killed in pipewrite(): who gives up there leaves what it has  *)
(* written without a wakeup (pipe.c:83-86).                                *)
THEOREM NothingMissed == Spec /\ []WritersLive => []NoLostWakeup
<1>1. Init => Waits
  BY PipeAssumption DEF Init, Waits, WaitOn
<1> QED
  BY <1>1, WaitsNext, NotLost, Invariance, PTL DEF Spec

(* Nor is one lost where nobody is ever killed.                            *)
THEOREM NothingMissedAlive ==
  ASSUME Killable = {}
  PROVE  Spec => []NoLostWakeup
<1>1. Init => killed = {}
  BY DEF Init
<1>2. killed = {} /\ [Next]_vars => (killed = {})'
  <2> SUFFICES ASSUME killed = {}, [Next]_vars PROVE killed' = {}
    OBVIOUS
  <2>1. CASE UNCHANGED vars
    BY <2>1 DEF vars
  <2>2. ASSUME NEW p \in Procs,
               \/ SysPipe(p) \/ FileAlloc(p) \/ PipeAlloc(p) \/ InstallFds(p)
               \/ SysDup(p) \/ SysClose(p)
        PROVE  killed' = {}
    BY <2>2 DEF SysPipe, FileAlloc, PipeAlloc, InstallFds, SysDup, SysClose
  <2>3. ASSUME NEW p \in Procs, FileClose(p) \/ Closed(p) \/ PipeClose(p) \/ Exit(p)
        PROVE  killed' = {}
    BY <2>3 DEF FileClose, Closed, PipeClose, Exit
  <2>4. ASSUME NEW p \in Procs, SysWrite(p) \/ SysRead(p) \/ Sleep(p) \/ Fork(p)
        PROVE  killed' = {}
    BY <2>4 DEF SysWrite, SysRead, Sleep, Fork
  <2>5. ASSUME NEW p \in Procs, Reap(p) PROVE killed' = {}
    BY <2>5 DEF Reap
  <2>6. ASSUME NEW p \in Procs, Write(p) PROVE killed' = {}
    BY <2>6 DEF Write
  <2>7. ASSUME NEW p \in Procs, Read(p) PROVE killed' = {}
    BY <2>7 DEF Read
  <2>8. ASSUME NEW p \in Procs, NEW q \in Procs, Kill(p, q) PROVE killed' = {}
    BY <2>8 DEF Kill
  <2> QED
    BY <2>1, <2>2, <2>3, <2>4, <2>5, <2>6, <2>7, <2>8 DEF Next
<1>3. killed = {} => WritersLive
  BY DEF WritersLive
<1> QED
  BY <1>1, <1>2, <1>3, NothingMissed, PTL DEF Spec

-----------------------------------------------------------------------------
(* The ring and the stream of bytes that goes through it.                  *)

LEMMA Split ==
  ASSUME NEW m \in Nat \ {0}, NEW a \in Int
  PROVE  \E t \in Int : a = m * t + (a % m)
<1>1. (a \div m) \in Int /\ a = m * (a \div m) + (a % m)
  BY DivMod
<1> QED
  BY <1>1

(* The slot of the n-th byte of the stream.                                *)
Slot(n) == n % PIPESIZE

LEMMA SizeNat == PIPESIZE \in Nat \ {0} /\ UintMod \in Nat \ {0} /\ PIPESIZE < UintMod
  BY PipeAssumption

LEMMA UintSum ==
  ASSUME NEW a \in Int, NEW b \in Int
  PROVE  Uint(Uint(a) + b) = Uint(a + b)
  BY SizeNat, ModAdd DEF Uint

LEMMA MulAssoc ==
  ASSUME NEW a \in Int, NEW b \in Int, NEW c \in Int
  PROVE  (a * b) * c = a * (b * c)
  OBVIOUS

LEMMA MulMinus ==
  ASSUME NEW a \in Int, NEW b \in Int, NEW c \in Int
  PROVE  a * b - a * c = a * (b - c)
  OBVIOUS

LEMMA NoMultiple ==
  ASSUME NEW m \in Nat \ {0}, NEW c \in Int
  PROVE  ~(m * c > 0 /\ m * c < m)
<1>1. CASE c <= 0
  BY <1>1
<1>2. CASE c >= 1
  <2>1. PICK d \in Nat : c = d + 1
    BY <1>2
  <2>2. m * c = m * d + m /\ m * d >= 0
    BY <2>1
  <2> QED
    BY <2>2
<1> QED
  BY <1>1, <1>2

(* A uint that wraps stays in step with the ring.                          *)
LEMMA SlotUint ==
  ASSUME NEW a \in Int, NEW b \in Int
  PROVE  Slot(Uint(a) + b) = Slot(a + b)
<1>1. PICK d \in Int : UintMod = PIPESIZE * d
  <2>1. UintMod % PIPESIZE = 0
    BY PipeAssumption
  <2>2. PICK t \in Int : UintMod = PIPESIZE * t + (UintMod % PIPESIZE)
    <3>1. UintMod \in Int
      BY SizeNat
    <3> QED
      BY <3>1, SizeNat, Split
  <2>3. UintMod = PIPESIZE * t
    BY <2>1, <2>2, SizeNat
  <2> QED
    BY <2>3
<1>2. PICK t \in Int, r \in Int : r = Uint(a) /\ a = UintMod * t + r
  <2>1. PICK t \in Int : a = UintMod * t + Uint(a)
    BY SizeNat, Split DEF Uint
  <2> QED
    BY <2>1, UintRange
<1>3. PICK e \in Int : e = d * t
  OBVIOUS
<1>4. UintMod * t = PIPESIZE * e
  BY <1>1, <1>3, SizeNat, MulAssoc
<1>5. a + b = (r + b) + PIPESIZE * e /\ r + b \in Int
  BY <1>2, <1>4, SizeNat
<1> QED
  <2>1. PICK c \in Int : c = r + b
    BY <1>5
  <2>2. (c + PIPESIZE * e) % PIPESIZE = c % PIPESIZE
    BY SizeNat, ModShift
  <2>3. a + b = c + PIPESIZE * e
    BY <1>5, <2>1
  <2> QED
    BY <1>2, <2>1, <2>2, <2>3 DEF Slot

LEMMA SlotSplit ==
  ASSUME NEW a \in Int
  PROVE  Slot(a) \in Int /\ \E t \in Int : a = PIPESIZE * t + Slot(a)
<1>1. Slot(a) \in Int
  BY SizeNat, DivMod DEF Slot
<1>2. \E t \in Int : a = PIPESIZE * t + Slot(a)
  BY SizeNat, Split DEF Slot
<1> QED
  BY <1>1, <1>2

LEMMA SlotApart ==
  ASSUME NEW a \in Int, NEW b \in Int, a < b, b < a + PIPESIZE
  PROVE  Slot(a) # Slot(b)
<1> SUFFICES ASSUME Slot(a) = Slot(b) PROVE FALSE
  OBVIOUS
<1>1. PICK t \in Int, r \in Int : r = Slot(a) /\ a = PIPESIZE * t + r
  BY SizeNat, SlotSplit
<1>2. PICK u \in Int : b = PIPESIZE * u + r
  BY <1>1, SizeNat, SlotSplit
<1>3. PICK c \in Int : c = u - t
  OBVIOUS
<1>4. b - a = PIPESIZE * c
  <2>1. PICK m \in Int : m = PIPESIZE
    BY SizeNat
  <2>2. m * u - m * t = m * c
    BY <1>3, MulMinus
  <2>3. a = m * t + r /\ b = m * u + r
    BY <1>1, <1>2, <2>1
  <2>4. b - a = m * u - m * t
    BY <2>3
  <2> QED
    BY <2>1, <2>2, <2>4
<1>5. PIPESIZE * c > 0 /\ PIPESIZE * c < PIPESIZE
  BY <1>4, SizeNat
<1> QED
  BY <1>5, SizeNat, NoMultiple

LEMMA UintDiff ==
  ASSUME NEW b \in Int, NEW c \in Int
  PROVE  Uint(b - Uint(c)) = Uint(b - c)
<1>1. PICK t \in Int, r \in Int : r = Uint(c) /\ c = UintMod * t + r
  <2>1. PICK t \in Int : c = UintMod * t + Uint(c)
    BY SizeNat, Split DEF Uint
  <2> QED
    BY <2>1, UintRange
<1>2. PICK d \in Int : d = b - c
  OBVIOUS
<1>3. b - r = d + UintMod * t
  BY <1>1, <1>2, SizeNat
<1>4. Uint(d + UintMod * t) = Uint(d)
  BY SizeNat, ModShift DEF Uint
<1> QED
  BY <1>1, <1>2, <1>3, <1>4

LEMMA AfterWrite ==
  ASSUME NEW n \in Int, NEW w \in Int, NEW k \in Nat, Uint(w - n) + k <= PIPESIZE
  PROVE  Uint(Uint(w + k) - n) = Uint(w - n) + k
<1>1. PICK a \in Nat : a = Uint(w - n)
  BY UintRange, SizeNat
<1>2. PICK c \in Int, d \in Int, e \in Int : c = w - n /\ d = w + k /\ e = -n
  OBVIOUS
<1>3. Uint(Uint(d) + e) = Uint(d + e)
  BY UintSum
<1>4. Uint(Uint(c) + k) = Uint(c + k)
  BY UintSum
<1>5. a + k \in 0 .. UintMod - 1
  BY <1>1, SizeNat
<1>6. Uint(a + k) = a + k
  BY <1>5, UintSame
<1>7. d + e = c + k
  BY <1>2
<1>8. Uint(d) \in Int
  BY UintRange, SizeNat
<1>9. Uint(d) + e = Uint(d) - n
  BY <1>2, <1>8
<1> QED
  BY <1>1, <1>2, <1>3, <1>4, <1>6, <1>7, <1>9

LEMMA AfterRead ==
  ASSUME NEW n \in Int, NEW w \in Int, NEW k \in Nat, k <= Uint(w - n)
  PROVE  Uint(w - Uint(n + k)) = Uint(w - n) - k
<1>1. PICK a \in 0 .. UintMod - 1 : a = Uint(w - n)
  BY UintRange
<1>2. PICK c \in Int, d \in Int, e \in Int : c = w - n /\ d = n + k /\ e = -k
  OBVIOUS
<1>3. Uint(w - Uint(d)) = Uint(w - d)
  BY UintDiff
<1>4. Uint(Uint(c) + e) = Uint(c + e)
  BY UintSum
<1>5. a + e \in 0 .. UintMod - 1 /\ a + e = a - k
  BY <1>1, <1>2, SizeNat
<1>6. Uint(a + e) = a + e
  BY <1>5, UintSame
<1>7. w - d = c + e
  BY <1>2
<1> QED
  BY <1>1, <1>2, <1>3, <1>4, <1>5, <1>6, <1>7

(* The byte behind the last one that has not been read.                    *)
LEMMA SlotBehind ==
  ASSUME NEW n \in Int, NEW w \in Int, NEW h \in Int
  PROVE  Slot(w + h) = Slot(n + Uint(w - n) + h)
<1>1. PICK c \in Int, d \in Int : c = w - n /\ d = n + h
  OBVIOUS
<1>2. Slot(Uint(c) + d) = Slot(c + d)
  BY SlotUint
<1>3. Uint(c) \in Int
  BY UintRange, SizeNat
<1>4. c + d = w + h /\ Uint(c) + d = n + Uint(c) + h
  BY <1>1, <1>3
<1> QED
  BY <1>1, <1>2, <1>4

LEMMA RoomLeft ==
  ASSUME Types, NEW x \in Pages, Avail(x) <= PIPESIZE
  PROVE  Avail(x) \in Nat /\ Room(x) = PIPESIZE - Avail(x)
<1>1. PICK n \in Int, w \in Int : n = nread[x] /\ w = nwrite[x]
  BY RoomIs, SizeNat
<1>2. PICK c \in Int, m \in Int : c = w - n /\ m = PIPESIZE
  BY SizeNat
<1>3. PICK a \in Nat : a = Uint(c) /\ a = Avail(x)
  BY <1>1, <1>2, RoomIs, SizeNat DEF Avail
<1>4. Uint(m - Uint(c)) = Uint(m - c)
  BY UintDiff
<1>5. m - a \in 0 .. UintMod - 1
  BY <1>2, <1>3, SizeNat
<1>6. Uint(m - a) = m - a
  BY <1>5, UintSame
<1>7. n + m - w = m - c
  BY <1>2
<1>8. Room(x) = Uint(m - c)
  BY <1>1, <1>2, <1>7 DEF Room
<1> QED
  BY <1>2, <1>3, <1>4, <1>6, <1>8

TakeFrom(d, n, k) == [j \in 1 .. k |-> d[Slot(n + j - 1)]]

LEMMA SlotIn == ASSUME NEW n \in Int PROVE Slot(n) \in Slots
  BY SizeNat, DivMod DEF Slots, Slot

LEMMA SeqMono == ASSUME NEW S, NEW T, S \subseteq T, NEW s \in Seq(S) PROVE s \in Seq(T)
<1>1. Len(s) \in Nat /\ s \in [1 .. Len(s) -> S]
  BY LenProperties
<1>2. s \in [1 .. Len(s) -> T]
  BY <1>1
<1> QED
  BY <1>1, <1>2, SMTT(60)

(* What Take and Put see of the ring.                                      *)
Stored(e, d, n, s, k) ==
  /\ \A h \in 1 .. k : e[Slot(n + h - 1)] = s[h]
  /\ \A i \in Slots : (\A h \in 1 .. k : Slot(n + h - 1) # i) => e[i] = d[i]

LEMMA PutIs ==
  ASSUME NEW x \in Pages, NEW n \in Int, NEW s, NEW k \in Nat, Len(s) = k, k <= PIPESIZE
  PROVE  Stored(Put(x, n, s), data[x], n, s, k)
<1> DEFINE at(i) == {j \in 1 .. k : Slot(n + j - 1) = i}
<1>1. Put(x, n, s) = [i \in Slots |->
                        IF at(i) = {} THEN data[x][i] ELSE s[CHOOSE j \in at(i) : \A h \in at(i) : h <= j]]
  BY DEF Put, Slot
<1>2. ASSUME NEW h \in 1 .. k PROVE Put(x, n, s)[Slot(n + h - 1)] = s[h]
  <2>1. PICK i \in Slots : i = Slot(n + h - 1)
    BY SlotIn
  <2>2. \A j \in at(i) : j = h
    <3> SUFFICES ASSUME NEW j \in at(i), j # h PROVE FALSE
      OBVIOUS
    <3>1. PICK a \in Int, b \in Int : a = n + j - 1 /\ b = n + h - 1
      OBVIOUS
    <3>2. Slot(a) = Slot(b)
      BY <2>1, <3>1
    <3>3. (a < b /\ b < a + PIPESIZE) \/ (b < a /\ a < b + PIPESIZE)
      BY <3>1, SizeNat
    <3> QED
      BY <3>2, <3>3, SlotApart
  <2>3. h \in at(i)
    BY <2>1
  <2>4. at(i) = {h}
    BY <2>2, <2>3
  <2>5. (CHOOSE j \in {h} : \A g \in {h} : g <= j) = h
    OBVIOUS
  <2> HIDE DEF at
  <2>6. Put(x, n, s)[i] = s[CHOOSE j \in at(i) : \A g \in at(i) : g <= j]
    BY <1>1, <2>4
  <2> QED
    BY <2>1, <2>4, <2>5, <2>6
<1>3. ASSUME NEW i \in Slots, \A h \in 1 .. k : Slot(n + h - 1) # i
      PROVE  Put(x, n, s)[i] = data[x][i]
  <2>1. at(i) = {}
    BY <1>3
  <2> HIDE DEF at
  <2> QED
    BY <1>1, <2>1
<1> QED
  BY <1>2, <1>3 DEF Stored

Entries(d) == {d[i] : i \in Slots}
IsTake(t, d, n, k) ==
  /\ t \in Seq(Entries(d)) /\ Len(t) = k
  /\ \A j \in 1 .. k : t[j] = d[Slot(n + j - 1)]

LEMMA TakeIs ==
  ASSUME NEW d, NEW n \in Int, NEW k \in Nat
  PROVE  IsTake(TakeFrom(d, n, k), d, n, k)
<1> DEFINE t == TakeFrom(d, n, k)
<1>1. t = [j \in 1 .. k |-> d[Slot(n + j - 1)]]
  BY DEF TakeFrom
<1>2. \A j \in 1 .. k : Slot(n + j - 1) \in Slots
  BY SlotIn
<1>3. \A j \in 1 .. k : d[Slot(n + j - 1)] \in Entries(d)
  BY <1>2 DEF Entries
<1> HIDE DEF t
<1>4. t \in [1 .. k -> Entries(d)]
  BY <1>1, <1>3
<1>5. t \in Seq(Entries(d))
  BY <1>4, SMTT(60)
<1>6. Len(t) = k
  BY <1>4, <1>5, LenProperties
<1>7. IsTake(t, d, n, k)
  BY <1>1, <1>5, <1>6 DEF IsTake
<1> QED
  BY <1>7 DEF t

Joined(v, t, s) ==
  /\ Len(v) = Len(t) + Len(s)
  /\ \A i \in 1 .. Len(t) + Len(s) : v[i] = IF i <= Len(t) THEN t[i] ELSE s[i - Len(t)]

LEMMA JoinedIs ==
  ASSUME NEW S, NEW t \in Seq(S), NEW s \in Seq(S)
  PROVE  t \o s \in Seq(S) /\ Joined(t \o s, t, s)
  BY ConcatProperties DEF Joined

Agree(d, e, n, k) == \A j \in 1 .. k : e[Slot(n + j - 1)] = d[Slot(n + j - 1)]
HoldsAt(d, n, s) == \A j \in 1 .. Len(s) : d[Slot(n + j - 1)] = s[j]

Extended(e, c, n, a, b, s) == TakeFrom(e, n, b) = TakeFrom(c, n, a) \o s

(* What follows a bytes, if it is s.                                       *)
LEMMA TakeMore ==
  ASSUME NEW c, NEW e, NEW n \in Int, NEW a \in Nat, NEW T, NEW s \in Seq(T),
         NEW f \in Int, f = n + a, NEW l \in Nat, l = a + Len(s),
         Agree(c, e, n, a), HoldsAt(e, f, s)
  PROVE  Extended(e, c, n, a, l, s)
<1>1. PICK V : Entries(c) \subseteq V /\ Entries(e) \subseteq V /\ T \subseteq V
  <2>1. \E V : V = Entries(c) \cup Entries(e) \cup T
    OBVIOUS
  <2> QED
    BY <2>1
<1>2. PICK t : t = TakeFrom(c, n, a)
  OBVIOUS
<1>3. PICK k \in Nat, b \in Nat : k = Len(s) /\ b = a + k
  <2>1. Len(s) \in Nat
    BY LenProperties
  <2> QED
    BY <2>1
<1>4. PICK u : u = TakeFrom(e, n, b)
  OBVIOUS
<1>5. t \in Seq(V) /\ Len(t) = a /\ \A j \in 1 .. a : t[j] = c[Slot(n + j - 1)]
  <2>1. IsTake(t, c, n, a)
    BY <1>2, TakeIs
  <2> QED
    BY <1>1, <2>1, SeqMono DEF IsTake
<1>6. u \in Seq(V) /\ Len(u) = b /\ \A j \in 1 .. b : u[j] = e[Slot(n + j - 1)]
  <2>1. IsTake(u, e, n, b)
    BY <1>4, TakeIs
  <2> QED
    BY <1>1, <2>1, SeqMono DEF IsTake
<1>7. s \in Seq(V)
  BY <1>1, SeqMono
<1>8. PICK v \in Seq(V) : v = t \o s /\ Joined(v, t, s)
  <2>1. t \in Seq(V)
    BY <1>5
  <2> QED
    BY <1>7, <2>1, JoinedIs
<1>9. Len(v) = b /\ \A i \in 1 .. b : v[i] = IF i <= a THEN t[i] ELSE s[i - a]
  BY <1>3, <1>5, <1>8 DEF Joined
<1>10. ASSUME NEW i \in 1 .. b PROVE u[i] = v[i]
  <2>1. CASE i \in 1 .. a
    <3>1. e[Slot(n + i - 1)] = c[Slot(n + i - 1)]
      BY <2>1 DEF Agree
    <3>2. v[i] = t[i]
      BY <1>9, <2>1
    <3> QED
      BY <1>5, <1>6, <2>1, <3>1, <3>2
  <2>2. CASE ~(i \in 1 .. a)
    <3>1. PICK h \in 1 .. k : h = i - a
      BY <1>3, <2>2
    <3>2. v[i] = s[h]
      BY <1>9, <2>2, <3>1
    <3>3. e[Slot(n + a + h - 1)] = s[h]
      BY <1>3 DEF HoldsAt
    <3>4. n + a + h - 1 = n + i - 1
      BY <3>1
    <3> QED
      BY <1>6, <3>2, <3>3, <3>4
  <2> QED
    BY <2>1, <2>2
<1>11. u = v
  BY <1>6, <1>9, <1>10, SeqEqual
<1> QED
  BY <1>2, <1>3, <1>4, <1>8, <1>11 DEF Extended

Part(v, t, m, n) ==
  /\ Len(v) = IF m <= n THEN n - m + 1 ELSE 0
  /\ \A i \in 1 .. n - m + 1 : v[i] = t[m + i - 1]

LEMMA PartIs ==
  ASSUME NEW S, NEW t \in Seq(S), NEW m \in Int, NEW n \in Int, m >= 1, n <= Len(t)
  PROVE  SubSeq(t, m, n) \in Seq(S) /\ Part(SubSeq(t, m, n), t, m, n)
<1>1. \A i \in m .. n : t[i] \in S
  BY LenProperties, ElementOfSeq
<1> QED
  BY <1>1, SubSeqProperties DEF Part

LEMMA PartEqual ==
  ASSUME NEW S, NEW T, NEW v \in Seq(S), NEW w \in Seq(T), NEW t,
         NEW m \in Nat, NEW n \in Nat, m <= n + 1, Part(v, t, m, n), Part(w, t, m, n)
  PROVE  v = w
<1>1. Len(v) = n - m + 1 /\ Len(w) = n - m + 1 /\ n - m + 1 \in Nat
  BY DEF Part
<1>2. PICK k \in Nat : k = n - m + 1
  BY <1>1
<1>3. PICK V : S \subseteq V /\ T \subseteq V
  <2>1. \E V : V = S \cup T
    OBVIOUS
  <2> QED
    BY <2>1
<1>4. v \in Seq(V) /\ w \in Seq(V)
  BY <1>3, SeqMono
<1>5. \A i \in 1 .. k : v[i] = w[i]
  BY <1>2 DEF Part
<1> QED
  BY <1>1, <1>2, <1>4, <1>5, SeqEqual

LEMMA PartOf ==
  ASSUME NEW V, NEW t \in Seq(V), NEW T, NEW u \in Seq(T), NEW m \in Nat, NEW n \in Nat,
         m >= 1, n <= Len(t), m <= n + 1, Part(u, t, m, n)
  PROVE  u = SubSeq(t, m, n)
<1>1. PICK v : v = SubSeq(t, m, n)
  OBVIOUS
<1>2. v \in Seq(V) /\ Part(v, t, m, n)
  <2>1. m \in Int /\ n \in Int
    OBVIOUS
  <2> QED
    BY <1>1, <2>1, PartIs
<1>3. u = v
  BY <1>2, PartEqual
<1> QED
  BY <1>1, <1>3

(* The first k of a bytes, and the others.                                 *)
LEMMA TakeLess ==
  ASSUME NEW c, NEW n \in Int, NEW a \in Nat, NEW k \in Nat, k <= a
  PROVE  /\ TakeFrom(c, n, k) = SubSeq(TakeFrom(c, n, a), 1, k)
         /\ TakeFrom(c, n + k, a - k) = SubSeq(TakeFrom(c, n, a), k + 1, a)
<1>1. PICK t : t = TakeFrom(c, n, a)
  OBVIOUS
<1>2. IsTake(t, c, n, a)
  BY <1>1, TakeIs
<1>3. t \in Seq(Entries(c)) /\ Len(t) = a /\ \A j \in 1 .. a : t[j] = c[Slot(n + j - 1)]
  BY <1>2 DEF IsTake
<1>4. TakeFrom(c, n, k) = SubSeq(t, 1, k)
  <2>1. PICK u : u = TakeFrom(c, n, k)
    OBVIOUS
  <2>2. IsTake(u, c, n, k)
    BY <2>1, TakeIs
  <2>3. u \in Seq(Entries(c)) /\ Len(u) = k /\ \A j \in 1 .. k : u[j] = c[Slot(n + j - 1)]
    BY <2>2 DEF IsTake
  <2>4. PICK f \in Nat : f = 1
    OBVIOUS
  <2>5. \A i \in 1 .. k : u[i] = t[f + i - 1]
    BY <1>3, <2>3, <2>4
  <2>6. Part(u, t, f, k)
    <3>1. Len(u) = IF f <= k THEN k - f + 1 ELSE 0
      BY <2>3, <2>4
    <3>2. k - f + 1 = k
      BY <2>4
    <3> QED
      BY <2>5, <3>1, <3>2 DEF Part
  <2>7. f >= 1 /\ k <= Len(t) /\ f <= k + 1
    BY <1>3, <2>4
  <2>8. t \in Seq(Entries(c))
    BY <1>3
  <2>9. u = SubSeq(t, f, k)
    BY <2>3, <2>6, <2>7, <2>8, PartOf
  <2> QED
    BY <2>1, <2>4, <2>9
<1>5. TakeFrom(c, n + k, a - k) = SubSeq(t, k + 1, a)
  <2>1. PICK m \in Int, b \in Nat, f \in Nat : m = n + k /\ b = a - k /\ f = k + 1
    OBVIOUS
  <2>2. PICK u : u = TakeFrom(c, m, b)
    OBVIOUS
  <2>3. IsTake(u, c, m, b)
    BY <2>2, TakeIs
  <2>4. u \in Seq(Entries(c)) /\ Len(u) = b /\ \A j \in 1 .. b : u[j] = c[Slot(m + j - 1)]
    BY <2>3 DEF IsTake
  <2>5. \A i \in 1 .. b : u[i] = t[f + i - 1]
    <3> SUFFICES ASSUME NEW i \in 1 .. b PROVE u[i] = t[f + i - 1]
      OBVIOUS
    <3>1. PICK j \in 1 .. a : j = f + i - 1
      BY <2>1
    <3>2. n + j - 1 = m + i - 1
      BY <2>1, <3>1
    <3> QED
      BY <1>3, <2>4, <3>1, <3>2
  <2>6. Part(u, t, f, a)
    <3>1. Len(u) = IF f <= a THEN a - f + 1 ELSE 0
      BY <2>1, <2>4
    <3>2. a - f + 1 = b
      BY <2>1
    <3> QED
      BY <2>5, <3>1, <3>2 DEF Part
  <2>7. f >= 1 /\ a <= Len(t) /\ f <= a + 1
    BY <1>3, <2>1
  <2>8. t \in Seq(Entries(c))
    BY <1>3
  <2>9. u = SubSeq(t, f, a)
    BY <2>4, <2>6, <2>7, <2>8, PartOf
  <2> QED
    BY <2>1, <2>2, <2>9
<1> QED
  BY <1>1, <1>4, <1>5

LEMMA TakeUint ==
  ASSUME NEW c, NEW n \in Int, NEW k \in Nat
  PROVE  TakeFrom(c, Uint(n), k) = TakeFrom(c, n, k)
<1>1. ASSUME NEW j \in 1 .. k PROVE Slot(Uint(n) + j - 1) = Slot(n + j - 1)
  <2>1. PICK i \in Int : i = j - 1
    OBVIOUS
  <2>2. Slot(Uint(n) + i) = Slot(n + i)
    BY SlotUint
  <2>3. Uint(n) \in Int
    BY UintRange, SizeNat
  <2>4. Uint(n) + i = Uint(n) + j - 1 /\ n + i = n + j - 1
    BY <2>1, <2>3
  <2> QED
    BY <2>2, <2>4
<1> QED
  BY <1>1 DEF TakeFrom

LEMMA QueueIs == ASSUME NEW x \in Pages PROVE Queue(x) = TakeFrom(data[x], nread[x], Avail(x))
  BY DEF Queue, Take, TakeFrom, Slot

(* pipewrite() puts bytes behind those that are there, as long as they fit.*)
LEMMA Appended ==
  ASSUME Types, NEW x \in Pages, Avail(x) <= PIPESIZE,
         NEW T, NEW s \in Seq(T), Len(s) <= Room(x),
         data'[x] = Put(x, nwrite[x], s),
         nwrite'[x] = Uint(nwrite[x] + Len(s)), nread'[x] = nread[x]
  PROVE  Queue(x)' = Queue(x) \o s /\ Avail(x)' = Avail(x) + Len(s)
<1>1. PICK n \in Int, w \in Int : n = nread[x] /\ w = nwrite[x]
  BY RoomIs, SizeNat
<1>2. PICK a \in Nat : a = Avail(x) /\ Room(x) = PIPESIZE - a
  BY RoomLeft
<1>3. PICK k \in Nat : k = Len(s)
  BY LenProperties
<1>4. PICK b \in Nat : b = a + k
  OBVIOUS
<1>5. a = Uint(w - n)
  BY <1>1, <1>2 DEF Avail
<1>6. b <= PIPESIZE
  BY <1>2, <1>3, <1>4, SizeNat
<1>7. Avail(x)' = b
  <2>1. Uint(Uint(w + k) - n) = a + k
    BY <1>4, <1>5, <1>6, AfterWrite
  <2> QED
    BY <1>1, <1>3, <1>4, <2>1 DEF Avail
<1>8. PICK c : c = data[x]
  OBVIOUS
<1>9. PICK e : e = data'[x] /\ e = Put(x, w, s)
  BY <1>1
<1>10. k <= PIPESIZE
  BY <1>2, <1>4, <1>6, SizeNat
<1>11. /\ \A h \in 1 .. k : e[Slot(w + h - 1)] = s[h]
       /\ \A i \in Slots : (\A h \in 1 .. k : Slot(w + h - 1) # i) => e[i] = c[i]
  <2>1. Stored(e, c, w, s, k)
    BY <1>3, <1>8, <1>9, <1>10, PutIs
  <2> QED
    BY <2>1 DEF Stored
<1>12. \A h \in 1 .. k : Slot(w + h - 1) = Slot(n + a + h - 1)
  <2> SUFFICES ASSUME NEW h \in 1 .. k PROVE Slot(w + h - 1) = Slot(n + a + h - 1)
    OBVIOUS
  <2>1. PICK i \in Int : i = h - 1
    OBVIOUS
  <2>2. Slot(w + i) = Slot(n + Uint(w - n) + i)
    BY SlotBehind
  <2>3. w + i = w + h - 1 /\ n + a + i = n + a + h - 1
    BY <2>1
  <2> QED
    BY <1>5, <2>2, <2>3
<1>13. HoldsAt(e, n + a, s)
  <2> SUFFICES ASSUME NEW j \in 1 .. k PROVE e[Slot(n + a + j - 1)] = s[j]
    BY <1>3 DEF HoldsAt
  <2> QED
    BY <1>11, <1>12
<1>14. Agree(c, e, n, a)
  <2> SUFFICES ASSUME NEW j \in 1 .. a PROVE e[Slot(n + j - 1)] = c[Slot(n + j - 1)]
    BY DEF Agree
  <2>1. PICK i \in Slots : i = Slot(n + j - 1)
    BY SlotIn
  <2>2. ASSUME NEW h \in 1 .. k PROVE Slot(w + h - 1) # i
    <3>1. PICK f \in Int, g \in Int : f = n + j - 1 /\ g = n + a + h - 1
      OBVIOUS
    <3>2. f < g /\ g < f + PIPESIZE
      BY <1>4, <1>6, <3>1, SizeNat
    <3>3. Slot(f) # Slot(g)
      BY <3>2, SlotApart
    <3>4. Slot(w + h - 1) = Slot(n + a + h - 1)
      BY <1>12
    <3> QED
      BY <2>1, <3>1, <3>3, <3>4
  <2> QED
    BY <1>11, <2>1, <2>2
<1>15. TakeFrom(e, n, a + Len(s)) = TakeFrom(c, n, a) \o s
  <2>1. PICK f \in Int : f = n + a
    OBVIOUS
  <2>2. Agree(c, e, n, a) /\ HoldsAt(e, f, s)
    BY <1>13, <1>14, <2>1
  <2>3. b = a + Len(s)
    BY <1>3, <1>4
  <2>4. Extended(e, c, n, a, b, s)
    BY <2>1, <2>2, <2>3, TakeMore
  <2> QED
    BY <2>3, <2>4 DEF Extended
<1>16. Queue(x)' = TakeFrom(e, n, b)
  BY <1>1, <1>7, <1>9 DEF Queue, Take, TakeFrom, Slot
<1> QED
  BY <1>1, <1>2, <1>3, <1>4, <1>7, <1>8, <1>15, <1>16, QueueIs

(* piperead() takes the oldest ones.                                       *)
LEMMA Removed ==
  ASSUME Types, NEW x \in Pages, NEW k \in Nat, k <= Avail(x),
         data'[x] = data[x], nwrite'[x] = nwrite[x], nread'[x] = Uint(nread[x] + k)
  PROVE  /\ Take(x, nread[x], k) = SubSeq(Queue(x), 1, k)
         /\ Queue(x)' = SubSeq(Queue(x), k + 1, Len(Queue(x)))
         /\ Len(Queue(x)) = Avail(x)
         /\ Avail(x)' = Avail(x) - k
<1>1. PICK n \in Int, w \in Int : n = nread[x] /\ w = nwrite[x]
  BY RoomIs, SizeNat
<1>2. PICK a \in Nat : a = Avail(x)
  BY RoomIs, SizeNat
<1>3. PICK b \in Nat : b = a - k
  BY <1>2
<1>4. a = Uint(w - n)
  BY <1>1, <1>2 DEF Avail
<1>5. Avail(x)' = b
  <2>0. k <= Uint(w - n)
    BY <1>2, <1>4
  <2>1. Uint(w - Uint(n + k)) = a - k
    BY <1>4, <2>0, AfterRead
  <2> QED
    BY <1>1, <1>3, <2>1 DEF Avail
<1>6. PICK c : c = data[x]
  OBVIOUS
<1>7. /\ TakeFrom(c, n, k) = SubSeq(TakeFrom(c, n, a), 1, k)
      /\ TakeFrom(c, n + k, a - k) = SubSeq(TakeFrom(c, n, a), k + 1, a)
  <2>1. k <= a
    BY <1>2
  <2> QED
    BY <2>1, TakeLess
<1>8. Queue(x) = TakeFrom(c, n, a)
  BY <1>1, <1>2, <1>6, QueueIs
<1>9. Len(Queue(x)) = a
  BY <1>8, TakeIs DEF IsTake
<1>10. Queue(x)' = TakeFrom(c, Uint(n + k), b)
  BY <1>1, <1>5, <1>6 DEF Queue, Take, TakeFrom, Slot
<1>11. TakeFrom(c, Uint(n + k), b) = TakeFrom(c, n + k, b)
  BY TakeUint
<1>12. Take(x, n, k) = TakeFrom(c, n, k)
  BY <1>6 DEF Take, TakeFrom, Slot
<1> QED
  BY <1>1, <1>2, <1>3, <1>5, <1>7, <1>8, <1>9, <1>10, <1>11, <1>12

-----------------------------------------------------------------------------
(* Pipes implement channels.                                               *)

(* What was put fits, and a reader has nothing yet.                        *)
Flow ==
  /\ \A x \in Pages : Avail(x) <= PIPESIZE
  /\ got = [q \in Procs |-> got[q]]
  /\ \A p \in Procs : pc[p] = "read" => got[p] = <<>>

LEMMA QueueLen ==
  ASSUME Types, NEW x \in Pages
  PROVE  Len(Queue(x)) = Avail(x)
<1>1. PICK n \in Int, k \in Nat : n = nread[x] /\ k = Avail(x)
  BY RoomIs, SizeNat
<1>2. PICK c : c = data[x]
  OBVIOUS
<1>3. IsTake(TakeFrom(c, n, k), c, n, k)
  BY TakeIs
<1> QED
  BY <1>1, <1>2, <1>3, QueueIs DEF IsTake

CallsBut(p) == \A q \in Procs \ {p} : pc'[q] = pc[q]
RingBut(x) ==
  \A y \in Pages \ {x} : data'[y] = data[y] /\ nread'[y] = nread[y] /\ nwrite'[y] = nwrite[y]

LEMMA CallsAt ==
  ASSUME NEW p \in Procs, CallsBut(p)
  PROVE  Calls' = [Calls EXCEPT ![p] = CallOf(p)']
  BY DEF Calls, CallOf, CallsBut

LEMMA CallsSame ==
  ASSUME NEW p \in Procs, CallsBut(p), CallOf(p)' = CallOf(p)
  PROVE  Calls' = Calls
  BY DEF Calls, CallOf, CallsBut

LEMMA QueueKept ==
  ASSUME NEW y \in Pages, data'[y] = data[y], nread'[y] = nread[y], nwrite'[y] = nwrite[y]
  PROVE  Queue(y)' = Queue(y) /\ Avail(y)' = Avail(y)
  BY DEF Queue, Take, Avail

LEMMA QueuesAt ==
  ASSUME NEW x \in Pages, RingBut(x)
  PROVE  /\ Queues' = [Queues EXCEPT ![x] = Queue(x)']
         /\ \A y \in Pages \ {x} : Avail(y)' = Avail(y)
<1>1. \A y \in Pages \ {x} : Queue(y)' = Queue(y) /\ Avail(y)' = Avail(y)
  BY QueueKept DEF RingBut
<1> QED
  BY <1>1 DEF Queues

LEMMA QueuesSame ==
  ASSUME UNCHANGED ring
  PROVE  Queues' = Queues /\ \A y \in Pages : Avail(y)' = Avail(y)
  BY DEF Queues, Queue, Take, Avail, ring

LEMMA EndsAre ==
  ASSUME NEW x \in Pages
  PROVE  /\ OpenEnds[x] \subseteq {"r", "w"}
         /\ "r" \in OpenEnds[x] <=> x \in readopen
         /\ "w" \in OpenEnds[x] <=> x \in writeopen
  BY DEF OpenEnds

LEMMA EndsUnchanged ==
  ASSUME UNCHANGED <<readopen, writeopen>>
  PROVE  OpenEnds' = OpenEnds
  BY DEF OpenEnds

(* A step that does nothing to the channels.                               *)
LEMMA Quiet ==
  ASSUME Flow, NEW p \in Procs, CallsBut(p), CallOf(p)' = CallOf(p),
         UNCHANGED <<xp, todo, want, got>>, UNCHANGED ring, UNCHANGED <<readopen, writeopen>>
  PROVE  Flow' /\ UNCHANGED Bytes!vars
<1>1. Calls' = Calls /\ Queues' = Queues /\ OpenEnds' = OpenEnds /\ \A y \in Pages : Avail(y)' = Avail(y)
  BY CallsSame, QueuesSame, EndsUnchanged
<1>2. \A q \in Procs : pc'[q] = "read" => pc[q] = "read"
  BY DEF CallsBut, CallOf
<1> QED
  BY <1>1, <1>2 DEF Flow, Bytes!vars

(* A step that only changes what an idle process knows.                    *)
LEMMA LeaveIs ==
  ASSUME Types, Flow, NEW p \in Procs, CallsBut(p), CallOf(p) = "idle", CallOf(p)' = "idle",
         NEW x \in Pages, xp' = [xp EXCEPT ![p] = x], got' \in {got, [got EXCEPT ![p] = <<>>]},
         UNCHANGED <<todo, want>>, UNCHANGED ring, UNCHANGED <<readopen, writeopen>>
  PROVE  Flow' /\ Bytes!Leave(p, x)
<1>1. Calls' = Calls /\ Queues' = Queues /\ OpenEnds' = OpenEnds /\ \A y \in Pages : Avail(y)' = Avail(y)
  BY CallsSame, QueuesSame, EndsUnchanged
<1>2. Calls[p] = "idle"
  BY DEF Calls
<1>3. \A q \in Procs : pc'[q] = "read" => pc[q] = "read"
  BY DEF CallsBut, CallOf
<1>4. /\ got' = [q \in Procs |-> got'[q]]
      /\ \A q \in Procs : got[q] = <<>> => got'[q] = <<>>
  BY DEF Flow
<1>5. Flow'
  BY <1>1, <1>3, <1>4 DEF Flow
<1> QED
  BY <1>1, <1>2, <1>5 DEF Bytes!Leave

LEMMA FrameCalls == ASSUME NEW p \in Procs, Frame(p) PROVE CallsBut(p)
  BY DEF Frame, CallsBut

LEMMA SendIs ==
  ASSUME PInv, Flow, NEW p \in Procs, Write(p)
  PROVE  Flow' /\ \E k \in 0 .. Len(todo[p]) : Bytes!Send(p, k)
<1> USE DEF Goto
<1>1. PICK x \in Pages : x = xp[p]
  BY DEF PInv, Types, ProcTypes
<1>2. PICK t \in Seq(Byte) : t = todo[p]
  BY DEF PInv, Types, ProcTypes
<1>3. PICK l \in Nat : l = Len(t)
  BY LenProperties
<1>4. PICK a \in Nat, r \in Nat : a = Avail(x) /\ r = Room(x) /\ r = PIPESIZE - a
  <2>1. Avail(x) \in Nat /\ Room(x) = PIPESIZE - Avail(x) /\ Avail(x) <= PIPESIZE
    BY RoomLeft DEF PInv, Flow
  <2>2. Room(x) \in Nat
    BY RoomIs, SizeNat DEF PInv
  <2> QED
    BY <2>1, <2>2
<1>5. PICK k \in Nat : k = Smaller(l, r)
  BY DEF Smaller
<1>6. k <= l /\ k <= r
  BY <1>5 DEF Smaller
<1>7. PICK s \in Seq(Byte) : s = SubSeq(t, 1, k) /\ Len(s) = k
  <2>1. \A i \in 1 .. k : t[i] \in Byte
    BY <1>3, <1>6, LenProperties, ElementOfSeq
  <2>2. SubSeq(t, 1, k) \in Seq(Byte) /\ Len(SubSeq(t, 1, k)) = IF 1 <= k THEN k - 1 + 1 ELSE 0
    BY <2>1, SubSeqProperties
  <2>3. (IF 1 <= k THEN k - 1 + 1 ELSE 0) = k
    OBVIOUS
  <2>4. Len(SubSeq(t, 1, k)) = k
    BY <2>2, <2>3
  <2> QED
    BY <2>2, <2>4
<1>8. PICK rest : rest = SubSeq(t, k + 1, Len(t))
  OBVIOUS
<1>9. /\ pc[p] = "write" /\ UNCHANGED <<xp, want, got, readopen, writeopen, nread>>
      /\ data' = [data EXCEPT ![x] = Put(x, nwrite[x], s)]
      /\ nwrite' = [nwrite EXCEPT ![x] = Uint(nwrite[x] + k)]
  BY <1>1, <1>2, <1>3, <1>4, <1>5, <1>7 DEF Write, At
<1>10. \/ pc' = [pc EXCEPT ![p] = "user"] /\ todo' = [todo EXCEPT ![p] = <<>>]
       \/ rest # <<>> /\ UNCHANGED pc /\ todo' = [todo EXCEPT ![p] = rest]
  <2>1. /\ \/ pc' = [pc EXCEPT ![p] = "user"]
           \/ rest # <<>> /\ UNCHANGED pc
        /\ todo' = [todo EXCEPT ![p] = IF pc'[p] = "user" THEN <<>> ELSE rest]
    BY <1>1, <1>2, <1>3, <1>4, <1>5, <1>8 DEF Write
  <2> QED
    BY <1>9, <2>1 DEF PInv, Types, ProcTypes
<1>11. CallsBut(p)
  BY FrameOf, FrameCalls DEF PInv
<1>12. Queue(x)' = Queue(x) \o s /\ Avail(x)' = a + k
  <2>1. data'[x] = Put(x, nwrite[x], s) /\ nwrite'[x] = Uint(nwrite[x] + Len(s)) /\ nread'[x] = nread[x]
    BY <1>7, <1>9 DEF PInv, Types, RingTypes
  <2>2. Avail(x) <= PIPESIZE /\ Len(s) <= Room(x)
    BY <1>4, <1>6, <1>7 DEF Flow
  <2>3. Queue(x)' = Queue(x) \o s /\ Avail(x)' = Avail(x) + Len(s)
    BY <2>1, <2>2, Appended DEF PInv
  <2> QED
    BY <1>4, <1>7, <2>3
<1>13. RingBut(x)
  BY <1>9 DEF RingBut, PInv, Types, RingTypes
<1>14. Queues' = [Queues EXCEPT ![x] = Queue(x) \o s] /\ \A y \in Pages \ {x} : Avail(y)' = Avail(y)
  BY <1>12, <1>13, QueuesAt
<1>15. Queues[x] = Queue(x) /\ Len(Queue(x)) = a
  BY <1>4, QueueLen DEF Queues, PInv
<1>16. a + k <= PIPESIZE
  <2>1. PICK m \in Nat : m = PIPESIZE
    BY SizeNat
  <2>2. r = m - a
    BY <1>4, <2>1
  <2>3. a + k <= m
    BY <1>6, <2>2
  <2> QED
    BY <2>1, <2>3
<1>17. Flow'
  <2>1. \A y \in Pages : Avail(y)' <= PIPESIZE
    BY <1>12, <1>14, <1>16 DEF Flow
  <2>2. \A q \in Procs : pc'[q] = "read" => pc[q] = "read"
    BY <1>9, <1>10 DEF PInv, Types, ProcTypes
  <2> QED
    BY <1>9, <2>1, <2>2 DEF Flow
<1>18. \/ Calls' = [Calls EXCEPT ![p] = "idle"] /\ todo' = [todo EXCEPT ![p] = <<>>]
       \/ rest # <<>> /\ UNCHANGED Calls /\ todo' = [todo EXCEPT ![p] = rest]
  <2>1. CASE pc' = [pc EXCEPT ![p] = "user"] /\ todo' = [todo EXCEPT ![p] = <<>>]
    <3>1. CallOf(p)' = "idle"
      BY <2>1 DEF CallOf, PInv, Types, ProcTypes
    <3> QED
      BY <1>11, <2>1, <3>1, CallsAt
  <2>2. CASE rest # <<>> /\ UNCHANGED pc /\ todo' = [todo EXCEPT ![p] = rest]
    BY <2>2 DEF Calls, CallOf
  <2> QED
    BY <1>10, <2>1, <2>2
<1>19. Calls[p] = "write"
  BY <1>9 DEF Calls, CallOf
<1>20. "w" \in OpenEnds[x] /\ OpenEnds' = OpenEnds
  <2>1. x \in writeopen
    BY <1>1, <1>9, WhoIsInHas DEF InPipe
  <2> QED
    BY <1>9, <2>1, EndsAre, EndsUnchanged
<1>21. Bytes!Send(p, k)
  BY <1>1, <1>2, <1>7, <1>8, <1>9, <1>14, <1>15, <1>16, <1>18, <1>19, <1>20 DEF Bytes!Send
<1>22. k \in 0 .. Len(todo[p])
  BY <1>2, <1>3, <1>6
<1> QED
  BY <1>17, <1>21, <1>22

LEMMA ReceiveIs ==
  ASSUME PInv, Flow, NEW p \in Procs, Read(p)
  PROVE  Flow' /\ ((\E k \in 0 .. want[p] : Bytes!Receive(p, k)) \/ UNCHANGED Bytes!vars)
<1> USE DEF Goto
<1>1. PICK x \in Pages : x = xp[p]
  BY DEF PInv, Types, ProcTypes
<1>2. CallsBut(p)
  BY FrameOf, FrameCalls DEF PInv
<1>3. pc[p] = "read" /\ UNCHANGED <<xp, todo, readopen, writeopen, data, nwrite>>
  BY DEF Read, At
<1>4. Calls[p] = "read" /\ CallOf(p) = "read"
  BY <1>3 DEF Calls, CallOf
<1>5. "r" \in OpenEnds[x] /\ OpenEnds' = OpenEnds
  <2>1. x \in readopen
    BY <1>1, <1>3, WhoIsInHas DEF InPipe
  <2> QED
    BY <1>3, <2>1, EndsAre, EndsUnchanged
<1>6. PICK n \in Nat, a \in Nat : n = want[p] /\ a = Avail(x)
  BY RoomIs, SizeNat DEF PInv, Types, ProcTypes
<1>7. CASE UNCHANGED <<nread, pc, got>>
  <2>1. UNCHANGED want
    BY <1>3, <1>7 DEF Read, PInv, Types, ProcTypes
  <2>2. CallOf(p)' = CallOf(p)
    BY <1>7 DEF CallOf
  <2> QED
    BY <1>2, <1>3, <1>7, <2>1, <2>2, Quiet DEF ring
<1>8. ASSUME NEW k \in Nat, k <= n, k <= a, pc' = [pc EXCEPT ![p] = "user"],
             nread' = [nread EXCEPT ![x] = Uint(nread[x] + k)],
             got' = [got EXCEPT ![p] = Take(x, nread[x], k)]
      PROVE  Flow' /\ \E h \in 0 .. want[p] : Bytes!Receive(p, h)
  <2>1. CallOf(p)' = "idle"
    BY <1>8 DEF CallOf, PInv, Types, ProcTypes
  <2>2. Calls' = [Calls EXCEPT ![p] = "idle"]
    BY <1>2, <2>1, CallsAt
  <2>3. want' = [want EXCEPT ![p] = 0]
    BY <1>8 DEF Read, PInv, Types, ProcTypes
  <2>4. /\ Take(x, nread[x], k) = SubSeq(Queue(x), 1, k)
        /\ Queue(x)' = SubSeq(Queue(x), k + 1, Len(Queue(x)))
        /\ Len(Queue(x)) = a
        /\ Avail(x)' = a - k
    <3>1. nread'[x] = Uint(nread[x] + k) /\ data'[x] = data[x] /\ nwrite'[x] = nwrite[x]
      BY <1>3, <1>8 DEF PInv, Types, RingTypes
    <3>2. k <= Avail(x)
      BY <1>6, <1>8
    <3> QED
      BY <1>6, <3>1, <3>2, Removed DEF PInv
  <2>5. RingBut(x)
    BY <1>3, <1>8 DEF RingBut, PInv, Types, RingTypes
  <2>6. /\ Queues' = [Queues EXCEPT ![x] = SubSeq(Queue(x), k + 1, Len(Queue(x)))]
        /\ \A y \in Pages \ {x} : Avail(y)' = Avail(y)
    BY <2>4, <2>5, QueuesAt
  <2>7. Queues[x] = Queue(x)
    BY DEF Queues
  <2>8. Flow'
    <3>1. a - k <= PIPESIZE
      BY <1>6, <1>8, SizeNat DEF Flow
    <3>2. \A y \in Pages : Avail(y)' <= PIPESIZE
      BY <2>4, <2>6, <3>1 DEF Flow
    <3>3. \A q \in Procs : pc'[q] = "read" => pc[q] = "read" /\ q # p
      BY <1>8 DEF PInv, Types, ProcTypes
    <3>4. got' = [q \in Procs |-> got'[q]] /\ \A q \in Procs \ {p} : got'[q] = got[q]
      BY <1>8 DEF Flow
    <3> QED
      BY <3>2, <3>3, <3>4 DEF Flow
  <2>9. Bytes!Receive(p, k)
    BY <1>1, <1>3, <1>4, <1>5, <1>8, <2>2, <2>3, <2>4, <2>6, <2>7 DEF Bytes!Receive
  <2>10. k \in 0 .. want[p]
    BY <1>6, <1>8
  <2> QED
    BY <2>8, <2>9, <2>10
<1>9. \/ UNCHANGED <<nread, pc, got>>
      \/ pc' = [pc EXCEPT ![p] = "user"] /\ UNCHANGED <<nread, got>>
      \/ /\ pc' = [pc EXCEPT ![p] = "user"]
         /\ nread' = [nread EXCEPT ![x] = Uint(nread[x] + Smaller(n, a))]
         /\ got' = [got EXCEPT ![p] = Take(x, nread[x], Smaller(n, a))]
  BY <1>1, <1>6 DEF Read
<1>10. CASE pc' = [pc EXCEPT ![p] = "user"] /\ UNCHANGED <<nread, got>>
  <2>1. PICK k \in Nat : k = 0
    OBVIOUS
  <2>2. nread[x] \in 0 .. UintMod - 1
    BY RoomIs DEF PInv
  <2>3. Uint(nread[x] + k) = nread[x]
    BY <2>1, <2>2, UintSame
  <2>4. nread' = [nread EXCEPT ![x] = Uint(nread[x] + k)]
    BY <1>10, <2>3 DEF PInv, Types, RingTypes
  <2>5. Take(x, nread[x], k) = <<>>
    BY <2>1 DEF Take
  <2>6. got' = [got EXCEPT ![p] = Take(x, nread[x], k)]
    BY <1>3, <1>10, <2>5 DEF Flow
  <2>7. k <= n /\ k <= a
    BY <2>1
  <2> QED
    BY <1>8, <1>10, <2>4, <2>6, <2>7
<1>11. CASE /\ pc' = [pc EXCEPT ![p] = "user"]
            /\ nread' = [nread EXCEPT ![x] = Uint(nread[x] + Smaller(n, a))]
            /\ got' = [got EXCEPT ![p] = Take(x, nread[x], Smaller(n, a))]
  <2>1. PICK k \in Nat : k = Smaller(n, a) /\ k <= n /\ k <= a
    BY DEF Smaller
  <2> QED
    BY <1>8, <1>11, <2>1
<1> QED
  BY <1>7, <1>9, <1>10, <1>11

LEMMA CreateIs ==
  ASSUME PInv, Flow, NEW p \in Procs, PipeAlloc(p)
  PROVE  Flow' /\ ((\E x \in Pages : Bytes!Create(x)) \/ UNCHANGED Bytes!vars)
<1> USE DEF Goto
<1>1. CallsBut(p)
  BY FrameOf, FrameCalls DEF PInv
<1>2. UNCHANGED <<data, xp, todo, want, got>> /\ pc[p] = "pipe"
  BY DEF PipeAlloc, At, io
<1>3. \/ pc' = [pc EXCEPT ![p] = "fds"] \/ pc' = [pc EXCEPT ![p] = "close"]
  BY DEF PipeAlloc
<1>4. CallOf(p) = "idle" /\ CallOf(p)' = "idle"
  BY <1>2, <1>3 DEF CallOf, PInv, Types, ProcTypes
<1>5. Calls' = Calls
  BY <1>1, <1>4, CallsSame
<1>6. CASE UNCHANGED <<nread, nwrite, readopen, writeopen>>
  BY <1>1, <1>2, <1>4, <1>6, Quiet DEF ring
<1>7. ASSUME NEW x \in free, nread' = [nread EXCEPT ![x] = 0], nwrite' = [nwrite EXCEPT ![x] = 0],
             readopen' = readopen \cup {x}, writeopen' = writeopen \cup {x}
      PROVE  Flow' /\ \E y \in Pages : Bytes!Create(y)
  <2>1. x \in Pages /\ x \notin readopen /\ x \notin writeopen
    BY <1>7 DEF PInv, Types, RingTypes, Ends1
  <2>2. OpenEnds[x] = {}
    BY <2>1, EndsAre
  <2>3. OpenEnds' = [OpenEnds EXCEPT ![x] = {"r", "w"}]
    BY <1>7, <2>1 DEF OpenEnds
  <2>4. RingBut(x)
    BY <1>2, <1>7 DEF RingBut, PInv, Types, RingTypes
  <2>5. Avail(x)' = 0 /\ Queue(x)' = <<>>
    <3>1. nread'[x] = 0 /\ nwrite'[x] = 0
      BY <1>7, <2>1 DEF PInv, Types, RingTypes
    <3>2. Avail(x)' = 0
      BY <3>1, SmallUints, UintSame DEF Avail
    <3> QED
      BY <3>2 DEF Queue, Take
  <2>6. Queues' = [Queues EXCEPT ![x] = <<>>] /\ \A y \in Pages \ {x} : Avail(y)' = Avail(y)
    BY <2>1, <2>4, <2>5, QueuesAt
  <2>7. Flow'
    <3>1. \A y \in Pages : Avail(y)' <= PIPESIZE
      BY <2>5, <2>6, SizeNat DEF Flow
    <3>2. \A q \in Procs : pc'[q] = "read" => pc[q] = "read"
      BY <1>3 DEF PInv, Types, ProcTypes
    <3> QED
      BY <1>2, <3>1, <3>2 DEF Flow
  <2>8. Bytes!Create(x)
    BY <1>2, <1>5, <2>2, <2>3, <2>6 DEF Bytes!Create
  <2> QED
    BY <2>1, <2>7, <2>8
<1> QED
  BY <1>6, <1>7 DEF PipeAlloc

LEMMA ShutIs ==
  ASSUME PInv, Flow, NEW p \in Procs, PipeClose(p)
  PROVE  Flow' /\ \E x \in Pages, e \in {"r", "w"} : Bytes!Shut(x, e)
<1> USE DEF Goto
<1>1. PICK x \in Pages, v \in BOOLEAN : x = xp[p] /\ pc[p] = Closing(v)
  BY DEF PInv, Types, ProcTypes, PipeClose, At, Closing
<1>2. PICK e \in {"r", "w"} : e = IF v THEN "w" ELSE "r"
  OBVIOUS
<1>3. x \in EndsOpen(v)
  BY <1>1 DEF PInv, Ends1, EndOn, EndShut
<1>4. /\ readopen' = IF v THEN readopen ELSE readopen \ {x}
      /\ writeopen' = IF v THEN writeopen \ {x} ELSE writeopen
  BY <1>1 DEF PipeClose, At, Closing
<1>5. e \in OpenEnds[x]
  BY <1>2, <1>3, EndsAre DEF EndsOpen
<1>6. OpenEnds' = [OpenEnds EXCEPT ![x] = OpenEnds[x] \ {e}]
  BY <1>2, <1>4 DEF OpenEnds
<1>7. OpenEnds[x] = {e} <=> x \notin readopen' \cup writeopen'
  BY <1>2, <1>4, <1>5, EndsAre
<1>8. Calls' = Calls /\ CallsBut(p) /\ pc'[p] = "close"
  <2>1. CallsBut(p)
    BY FrameOf, FrameCalls DEF PInv
  <2>2. pc'[p] = "close"
    BY DEF PipeClose, PInv, Types, ProcTypes
  <2>3. CallOf(p) = "idle" /\ CallOf(p)' = "idle"
    BY <1>1, <2>2 DEF CallOf, Closing
  <2> QED
    BY <2>1, <2>2, <2>3, CallsSame
<1>9. UNCHANGED <<xp, todo, want, got>>
  BY DEF PipeClose, io
<1>10. /\ Queues' = IF OpenEnds[x] = {e} THEN [Queues EXCEPT ![x] = <<>>] ELSE Queues
       /\ \A y \in Pages : Avail(y)' <= PIPESIZE
  <2>1. CASE x \in readopen' \cup writeopen'
    <3>1. UNCHANGED ring
      BY <1>1, <2>1 DEF PipeClose
    <3> QED
      BY <1>7, <2>1, <3>1, QueuesSame DEF Flow
  <2>2. CASE x \notin readopen' \cup writeopen'
    <3>1. /\ data' = [data EXCEPT ![x] = [i \in Slots |-> Junk]]
          /\ nread' = [nread EXCEPT ![x] = 1] /\ nwrite' = [nwrite EXCEPT ![x] = 1]
      BY <1>1, <2>2 DEF PipeClose
    <3>2. RingBut(x)
      BY <3>1 DEF RingBut, PInv, Types, RingTypes
    <3>3. Avail(x)' = 0 /\ Queue(x)' = <<>>
      <4>1. nread'[x] = 1 /\ nwrite'[x] = 1
        BY <3>1 DEF PInv, Types, RingTypes
      <4>2. Avail(x)' = 0
        BY <4>1, SmallUints, UintSame DEF Avail
      <4> QED
        BY <4>2 DEF Queue, Take
    <3>4. Queues' = [Queues EXCEPT ![x] = <<>>] /\ \A y \in Pages \ {x} : Avail(y)' = Avail(y)
      BY <3>2, <3>3, QueuesAt
    <3>5. \A y \in Pages : Avail(y)' <= PIPESIZE
      BY <3>3, <3>4, SizeNat DEF Flow
    <3> QED
      BY <1>7, <2>2, <3>4, <3>5
  <2> QED
    BY <2>1, <2>2
<1>11. Flow'
  <2>1. \A q \in Procs : pc'[q] = "read" => pc[q] = "read"
    BY <1>8 DEF CallsBut
  <2> QED
    BY <1>9, <1>10, <2>1 DEF Flow
<1>12. Bytes!Shut(x, e)
  BY <1>5, <1>6, <1>8, <1>9, <1>10 DEF Bytes!Shut
<1> QED
  BY <1>11, <1>12

LEMMA StartIs ==
  ASSUME PInv, Flow, NEW p \in Procs, SysWrite(p) \/ SysRead(p)
  PROVE  /\ Flow'
         /\ \E x \in Pages : \/ \E m \in Messages : Bytes!StartSend(p, x, m)
                             \/ \E n \in ReadSizes : Bytes!StartReceive(p, x, n)
<1> USE DEF Goto, io
<1>1. CallsBut(p)
  BY FrameOf, FrameCalls DEF PInv
<1>2. /\ Queues' = Queues /\ OpenEnds' = OpenEnds /\ \A y \in Pages : Avail(y)' = Avail(y)
  BY QueuesSame, EndsUnchanged DEF SysWrite, SysRead
<1>3. pc[p] = "user"
  BY DEF SysWrite, SysRead, Call, At
<1>4. Calls[p] = "idle"
  BY <1>3 DEF Calls, CallOf
<1>5. ASSUME NEW fd \in Open(p)
      PROVE  \E x \in Pages : /\ x = pipe[ofile[p][fd]]
                              /\ writable[ofile[p][fd]] => "w" \in OpenEnds[x]
                              /\ ~writable[ofile[p][fd]] => "r" \in OpenEnds[x]
  <2>1. PICK f \in Files : f = ofile[p][fd] /\ fd \in FDs /\ f # NoFile
    BY OpenIs, PipeAssumption DEF PInv
  <2>2. PICK x \in Pages, v \in BOOLEAN : x = pipe[f] /\ v = writable[f]
    BY DEF PInv, Types, FileTypes
  <2>3. EndOf(f, x, v)
    BY <2>1, <2>2 DEF EndOf, PInv, Kinds, OpenKinds
  <2>4. x \in EndsOpen(v)
    BY <2>3 DEF PInv, Ends1, EndOn
  <2> QED
    BY <2>1, <2>2, <2>4, EndsAre DEF EndsOpen
<1>6. CASE SysWrite(p)
  <2>1. PICK fd \in Open(p), m \in Messages :
             /\ writable[ofile[p][fd]]
             /\ xp' = [xp EXCEPT ![p] = pipe[ofile[p][fd]]]
             /\ todo' = [todo EXCEPT ![p] = m]
    BY <1>6 DEF SysWrite
  <2>2. PICK x \in Pages : x = pipe[ofile[p][fd]] /\ "w" \in OpenEnds[x]
    BY <1>5, <2>1
  <2>3. UNCHANGED <<want, got>> /\ pc'[p] = "write"
    BY <1>6 DEF SysWrite, PInv, Types, ProcTypes
  <2>4. CallOf(p)' = "write"
    BY <2>3 DEF CallOf
  <2>5. Calls' = [Calls EXCEPT ![p] = "write"]
    BY <1>1, <2>4, CallsAt
  <2>6. Flow'
    BY <1>1, <1>2, <2>3 DEF Flow, CallsBut
  <2>7. Bytes!StartSend(p, x, m)
    BY <1>2, <1>4, <2>1, <2>2, <2>3, <2>5 DEF Bytes!StartSend
  <2> QED
    BY <2>6, <2>7
<1>7. CASE SysRead(p)
  <2>1. PICK fd \in Open(p), n \in ReadSizes :
             /\ ~writable[ofile[p][fd]]
             /\ xp' = [xp EXCEPT ![p] = pipe[ofile[p][fd]]]
             /\ want' = [want EXCEPT ![p] = n]
    BY <1>7 DEF SysRead
  <2>2. PICK x \in Pages : x = pipe[ofile[p][fd]] /\ "r" \in OpenEnds[x]
    BY <1>5, <2>1
  <2>3. UNCHANGED todo /\ got' = [got EXCEPT ![p] = <<>>] /\ pc'[p] = "read"
    BY <1>7 DEF SysRead, PInv, Types, ProcTypes
  <2>4. CallOf(p)' = "read"
    BY <2>3 DEF CallOf
  <2>5. Calls' = [Calls EXCEPT ![p] = "read"]
    BY <1>1, <2>4, CallsAt
  <2>6. Flow'
    <3>1. got' = [q \in Procs |-> got'[q]] /\ got'[p] = <<>> /\ \A q \in Procs \ {p} : got'[q] = got[q]
      BY <2>3 DEF Flow
    <3> QED
      BY <1>1, <1>2, <3>1 DEF Flow, CallsBut
  <2>7. Bytes!StartReceive(p, x, n)
    BY <1>2, <1>4, <2>1, <2>2, <2>3, <2>5 DEF Bytes!StartReceive
  <2> QED
    BY <2>6, <2>7
<1> QED
  BY <1>6, <1>7

LEMMA ChannelStep ==
  ASSUME PInv, Flow, [Next]_vars
  PROVE  Flow' /\ [Bytes!Next]_(Bytes!vars)
<1> USE DEF Goto, io
<1>1. CASE UNCHANGED vars
  <2>1. PICK p \in Procs : p = initproc
    BY PipeAssumption
  <2>2. CallsBut(p) /\ CallOf(p)' = CallOf(p)
    BY <1>1 DEF vars, CallsBut, CallOf
  <2> QED
    BY <1>1, <2>2, Quiet DEF vars, ring
<1>2. ASSUME NEW p \in Procs,
             \/ SysPipe(p) \/ FileAlloc(p) \/ InstallFds(p) \/ SysDup(p) \/ SysClose(p)
             \/ Closed(p) \/ Exit(p) \/ Sleep(p)
      PROVE  Flow' /\ UNCHANGED Bytes!vars
  <2>1. CallsBut(p)
    BY <1>2, FrameOf, FrameCalls DEF PInv
  <2>2. CallOf(p)' = CallOf(p)
    BY <1>2 DEF SysPipe, FileAlloc, InstallFds, SysDup, SysClose, Closed, Exit, Sleep, Call, At,
                CallOf, PInv, Types, ProcTypes
  <2>3. UNCHANGED <<xp, todo, want, got>> /\ UNCHANGED ring /\ UNCHANGED <<readopen, writeopen>>
    BY <1>2 DEF SysPipe, FileAlloc, InstallFds, SysDup, SysClose, Closed, Exit, Sleep
  <2> QED
    BY <2>1, <2>2, <2>3, Quiet
<1>3. ASSUME NEW p \in Procs, FileClose(p) \/ Reap(p)
      PROVE  Flow' /\ \E x \in Pages : Bytes!Leave(p, x)
  <2>1. CallsBut(p)
    BY <1>3, FrameOf, FrameCalls DEF PInv
  <2>2. CallOf(p) = "idle" /\ CallOf(p)' = "idle"
    BY <1>3 DEF FileClose, Reap, At, CallOf, PInv, Types, ProcTypes, Hands, HandOn
  <2>3. UNCHANGED <<todo, want>> /\ UNCHANGED ring /\ UNCHANGED <<readopen, writeopen>>
    BY <1>3 DEF FileClose, Reap
  <2>4. got' \in {got, [got EXCEPT ![p] = <<>>]}
    BY <1>3 DEF FileClose, Reap
  <2>5. PICK x \in Pages : xp' = [xp EXCEPT ![p] = x]
    <3>1. CASE UNCHANGED xp
      <4>1. PICK x \in Pages : x = xp[p]
        BY DEF PInv, Types, ProcTypes
      <4> QED
        BY <3>1, <4>1 DEF PInv, Types, ProcTypes
    <3>2. CASE FileClose(p) /\ ~UNCHANGED xp
      <4>1. PICK f \in Files : f = Head(hand[p])
        BY <3>2, HandIs DEF FileClose, PInv
      <4>2. xp' = [xp EXCEPT ![p] = pipe[f]]
        BY <3>2, <4>1 DEF FileClose
      <4> QED
        BY <4>1, <4>2 DEF PInv, Types, FileTypes
    <3> QED
      BY <1>3, <3>1, <3>2 DEF Reap
  <2>6. Flow' /\ Bytes!Leave(p, x)
    BY <2>1, <2>2, <2>3, <2>4, <2>5, LeaveIs DEF PInv
  <2> QED
    BY <2>6
<1>4. ASSUME NEW p \in Procs, Fork(p) PROVE Flow' /\ UNCHANGED Bytes!vars
  <2>1. PICK c \in Procs : state[c] = "UNUSED" /\ pc' = [pc EXCEPT ![c] = "user"]
    BY <1>4 DEF Fork
  <2>2. pc[c] = "user"
    BY <2>1 DEF PInv, Hands, HandOn
  <2>3. CallsBut(c) /\ CallOf(c)' = CallOf(c)
    BY <2>1, <2>2 DEF CallsBut, CallOf, PInv, Types, ProcTypes
  <2>4. UNCHANGED <<xp, todo, want, got>> /\ UNCHANGED ring /\ UNCHANGED <<readopen, writeopen>>
    BY <1>4 DEF Fork
  <2> QED
    BY <2>3, <2>4, Quiet
<1>5. ASSUME NEW p \in Procs, NEW q \in Procs, Kill(p, q) PROVE Flow' /\ UNCHANGED Bytes!vars
  <2>1. CallsBut(p) /\ CallOf(p)' = CallOf(p)
    BY <1>5 DEF Kill, CallsBut, CallOf
  <2>2. UNCHANGED <<xp, todo, want, got>> /\ UNCHANGED ring /\ UNCHANGED <<readopen, writeopen>>
    BY <1>5 DEF Kill
  <2> QED
    BY <2>1, <2>2, Quiet
<1>6. ASSUME NEW p \in Procs, PipeAlloc(p) PROVE Flow' /\ [Bytes!Next]_(Bytes!vars)
  BY <1>6, CreateIs DEF Bytes!Next
<1>7. ASSUME NEW p \in Procs, PipeClose(p) PROVE Flow' /\ Bytes!Next
  BY <1>7, ShutIs DEF Bytes!Next
<1>8. ASSUME NEW p \in Procs, SysWrite(p) \/ SysRead(p) PROVE Flow' /\ Bytes!Next
  BY <1>8, StartIs DEF Bytes!Next
<1>9. ASSUME NEW p \in Procs, Write(p) PROVE Flow' /\ Bytes!Next
  BY <1>9, SendIs DEF Bytes!Next
<1>10. ASSUME NEW p \in Procs, Read(p) PROVE Flow' /\ [Bytes!Next]_(Bytes!vars)
  BY <1>10, ReceiveIs DEF Bytes!Next
<1>11. ASSUME NEW p \in Procs, FileClose(p) \/ Reap(p) PROVE Flow' /\ Bytes!Next
  BY <1>3, <1>11 DEF Bytes!Next
<1> QED
  BY <1>1, <1>2, <1>4, <1>5, <1>6, <1>7, <1>8, <1>9, <1>10, <1>11 DEF Next

LEMMA ChannelInit == Init => Flow /\ Bytes!Init
<1> SUFFICES ASSUME Init PROVE Flow /\ Bytes!Init
  OBVIOUS
<1>1. Types
  BY TypesInit
<1>2. \A x \in Pages : Avail(x) = 0 /\ Queue(x) = <<>>
  <2> SUFFICES ASSUME NEW x \in Pages PROVE Avail(x) = 0 /\ Queue(x) = <<>>
    OBVIOUS
  <2>1. nread[x] = 1 /\ nwrite[x] = 1
    BY DEF Init
  <2>2. Avail(x) = 0
    BY <2>1, SmallUints, UintSame DEF Avail
  <2> QED
    BY <2>2 DEF Queue, Take
<1>3. Flow
  BY <1>2, SizeNat DEF Init, Flow
<1>4. Queues = [x \in Pages |-> <<>>]
  BY <1>2 DEF Queues
<1>5. OpenEnds = [x \in Pages |-> {}]
  BY DEF Init, OpenEnds
<1>6. Calls = [p \in Procs |-> "idle"]
  BY DEF Init, Calls, CallOf
<1>7. xp \in [Procs -> Pages]
  BY <1>1 DEF Types, ProcTypes
<1> QED
  BY <1>3, <1>4, <1>5, <1>6, <1>7 DEF Init, Bytes!Init

(* pipewrite() and piperead() deliver every byte once and in order, however*)
(* often nread and nwrite wrap and whoever is killed or closes an end in   *)
(* the middle of it (pipe.c:75-118).                                       *)
THEOREM PipesAreChannels == Spec => Fifo
  BY ChannelInit, ChannelStep, Invariance, PTL DEF Spec, Fifo, Bytes!Spec
=============================================================================
