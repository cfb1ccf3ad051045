------------------------------- MODULE Bootmain -------------------------------
(***************************************************************************)
(* p2's boot loader, bootmain.c: it reads the kernel from the disk, whole  *)
(* sectors at a time, to the addresses its ELF header names.               *)
(*                                                                         *)
(* The kernel is a file that starts at sector 1; its byte k is written     *)
(* File(k), and memory holds such bytes, zeros, or Other.                  *)
(***************************************************************************)
EXTENDS Integers, Sequences

CONSTANTS
  SECTSIZE,
  MEMORY,     \* addresses from 0 to MEMORY - 1, above the scratch space
  KERNEL      \* bytes of the kernel file, after its headers

VARIABLES
  elf,        \* [magic, phs]: the headers, in the scratch space once they are read
  mem,
  disk,       \* [busy, sector]: what the controller works at
  ph, va, eva, offset,  \* the loops of bootmain() and readseg()
  lpc
loadvars == <<elf, mem, disk, ph, va, eva, offset, lpc>>

Other == -2
Zero == -1
File(sector, k) == (sector - 1) * SECTSIZE + k
Segment ==
  UNION {{[va |-> a, offset |-> o, filesz |-> f, memsz |-> m] : m \in f .. f + 2} :
           a \in SECTSIZE .. MEMORY \div 2, o \in 0 .. SECTSIZE, f \in 0 .. SECTSIZE + 1}
Floor(n) == n - (n % SECTSIZE)
Ceiling(n) == Floor(n + SECTSIZE - 1)
(* Segments as the linker lays them out: in the file as in memory, seen    *)
(* from the start of a sector, and no sector shared by two.                *)
Aligned(s) == s.va % SECTSIZE = s.offset % SECTSIZE /\ s.offset + s.filesz <= KERNEL
Apart(s, t) == Ceiling(s.va + s.memsz) <= Floor(t.va)
Headers ==
  {[magic |-> TRUE, phs |-> <<s>>] : s \in {x \in Segment : Aligned(x)}} \cup
  {[magic |-> TRUE, phs |-> <<s, t>>] :
     s \in {x \in Segment : Aligned(x) /\ x.filesz > SECTSIZE}, t \in {x \in Segment : Aligned(x) /\ x.va > 2 * SECTSIZE}} \cup
  {[magic |-> FALSE, phs |-> <<>>]}

LoadInit ==
  /\ elf \in {h \in Headers : Len(h.phs) = 2 => Apart(h.phs[1], h.phs[2])}
  /\ mem = [a \in 0 .. MEMORY - 1 |-> Other]
  /\ disk = [busy |-> FALSE, sector |-> 0]
  /\ ph = 0 /\ va = 0 /\ eva = 0 /\ offset = 0 /\ lpc = "magic"
-----------------------------------------------------------------------------
(* The header has been read by the same readseg(), and is looked at.       *)
Magic ==
  /\ lpc = "magic"
  /\ IF elf.magic THEN lpc' = "phs" /\ ph' = 1 ELSE lpc' = "returned" /\ UNCHANGED ph
  /\ UNCHANGED <<elf, mem, disk, va, eva, offset>>
(* A segment: readseg() down to the start of a sector. *)
NextSegment ==
  /\ lpc = "phs" /\ ph <= Len(elf.phs)
  /\ LET s == elf.phs[ph] IN
       /\ eva' = s.va + s.filesz
       /\ va' = s.va - (s.offset % SECTSIZE)
       /\ offset' = s.offset \div SECTSIZE + 1
  /\ lpc' = "read" /\ UNCHANGED <<elf, mem, disk, ph>>
Command ==
  /\ lpc = "read" /\ va < eva /\ ~disk.busy
  /\ disk' = [busy |-> TRUE, sector |-> offset] /\ lpc' = "wait"
  /\ UNCHANGED <<elf, mem, ph, va, eva, offset>>
DiskReady == disk.busy /\ disk' = [disk EXCEPT !.busy = FALSE] /\ UNCHANGED <<elf, mem, ph, va, eva, offset, lpc>>
Insl ==
  /\ lpc = "wait" /\ ~disk.busy
  /\ mem' = [a \in DOMAIN mem |->
               IF a >= va /\ a < va + SECTSIZE THEN File(disk.sector, a - va) ELSE mem[a]]
  /\ va' = va + SECTSIZE /\ offset' = offset + 1 /\ lpc' = "read"
  /\ UNCHANGED <<elf, disk, ph, eva>>
Bss(s) == {a \in DOMAIN mem : a >= s.va + s.filesz /\ a < s.va + s.memsz}
SegmentEnds ==
  /\ lpc = "read" /\ va >= eva
  /\ mem' = [a \in DOMAIN mem |-> IF a \in Bss(elf.phs[ph]) THEN Zero ELSE mem[a]]
  /\ ph' = ph + 1 /\ lpc' = "phs" /\ UNCHANGED <<elf, disk, va, eva, offset>>
Entry ==
  /\ lpc = "phs" /\ ph > Len(elf.phs) /\ lpc' = "kernel"
  /\ UNCHANGED <<elf, mem, disk, ph, va, eva, offset>>

LoadNext == Magic \/ NextSegment \/ Command \/ DiskReady \/ Insl \/ SegmentEnds \/ Entry
LoadSpec == LoadInit /\ [][LoadNext]_loadvars
-----------------------------------------------------------------------------
(* bootmain.c:88, "We'd write more to memory than asked, but it doesn't    *)
(* matter": when the kernel is entered every segment holds its bytes of    *)
(* the file and zeros behind them; nothing is entered without the magic    *)
(* number.                                                                 *)
LoadedRight ==
  lpc = "kernel" =>
    /\ elf.magic
    /\ \A k \in DOMAIN elf.phs : LET s == elf.phs[k] IN
         \A x \in 0 .. s.memsz - 1 : mem[s.va + x] = IF x < s.filesz THEN s.offset + x ELSE Zero
=============================================================================
