----------------------------- MODULE AddressSpace -----------------------------
(***************************************************************************)
(* The address spaces of the p2 kernel: the page allocator (kalloc.c), the *)
(* page directories (vm.c), exec() (exec.c), growproc(), fork() and wait() *)
(* as far as memory goes (proc.c), the look at a system call's arguments   *)
(* (syscall.c) and the page fault (trap.c).                                *)
(*                                                                         *)
(* Memory is counted in words; a string takes whole words.  The freelist   *)
(* is a set.  The call of one process ends before another begins: how two  *)
(* interleave at kalloc() is the business of module Cow.                   *)
(***************************************************************************)
EXTENDS Integers, FiniteSets, Sequences, SequencesExt, TLC

CONSTANTS NPROC,
          FRAMES,       \* pages of physical memory
          PGSIZE,       \* words of a page
          USERTOP,      \* words of a user address space
          KvmTables,    \* page tables of a directory; the first is the user's too
          Images,       \* executable files: see File
          Argvs,        \* lengths of argument strings, null word included
          MAXARG,
          MaxCalls      \* bound of the model: system calls and stores

Frames == 1 .. FRAMES
Slots == 1 .. NPROC
initproc == 1
Pages == 0 .. (USERTOP \div PGSIZE) - 1
Offsets == 0 .. PGSIZE - 1
PageOf(a) == a \div PGSIZE
PageUp(size) == (size + PGSIZE - 1) \div PGSIZE

(* A file f has the ELF magic number or not, program headers, and all the  *)
(* words they promise or not.  Words are numbers: those of files, those of *)
(* argument strings, those stored by programs and by system calls. *)
(* Segments begin at a page, as loaduvm() wants it (vm.c:209).             *)
File == [magic : BOOLEAN, whole : BOOLEAN,
         phs : Seq([load : BOOLEAN, va : Nat, filesz : Nat, memsz : Nat])]
phs(f) == Images[f].phs
Junk == -1
FakePC == -2
FileWord(f, a) == 100 * f + a
ArgWord(i, n, len) == IF n = len THEN 0 ELSE 80 + i
Stored(p) == 90 + p
Answer == 99

VARIABLES
  kmem,     \* freelist, and the words, entries and page tables of the frames
  proc,     \* [state, parent, kstack, pgdir, sz] of each slot
  k,        \* the system call under way and its local variables
  calls, emptied, lost,
  panicked, \* "no", or what met a page that is not there
  sees      \* history: what each process put into its memory, or was given

vars == <<kmem, proc, k, calls, emptied, panicked, lost, sees>>

Unused == [state |-> "UNUSED", parent |-> 0, kstack |-> 0, pgdir |-> 0, sz |-> 0]
NoCall == [at |-> "user", p |-> 0, d |-> 0, stack |-> 0, f |-> 1, argv |-> <<>>, i |-> 0,
           sz |-> 0, sp |-> 0, ustack |-> <<>>]
NoMap == [v \in Pages |-> 0]
AllWords(x) == [o \in Offsets |-> x]
(* The element of S above n others. *)
Nth(S, n) == CHOOSE x \in S : Cardinality({y \in S : y < x}) = n
-----------------------------------------------------------------------------
(* kalloc.c: the frame kalloc() gives, memory without it, and with frames  *)
(* that kfree() has filled with junk.                                      *)
Kalloc(m) == Nth(m.free, 0)
Without(m, S) == [m EXCEPT !.free = @ \ S]
Kfree(m, S) == [m EXCEPT !.free = @ \cup S,
                         !.word = [f \in Frames |-> IF f \in S THEN AllWords(Junk) ELSE @[f]]]

(* New pages vs of directory d, from the page lo on, with what they begin  *)
(* with.  walkpgdir() finds their table: the kernel has entries in it.     *)
AddPages(m, d, lo, vs, begin) ==
  LET frame(v) == Nth(m.free, v - lo)
      new == {frame(v) : v \in vs}
  IN [Without(m, new) EXCEPT
        !.word = [f \in Frames |-> IF f \in new THEN begin[CHOOSE v \in vs : frame(v) = f] ELSE @[f]],
        !.pte[d] = [v \in Pages |-> IF v \in vs THEN frame(v) ELSE @[v]]]
Zero == [v \in Pages |-> AllWords(0)]

Cut(newsz) == PageUp(newsz)
Deallocuvm(m, d, oldsz, newsz) ==
  LET gone == {v \in Pages : Cut(newsz) <= v /\ v < PageUp(oldsz) /\ m.pte[d][v] # 0}
  IN Kfree([m EXCEPT !.pte[d] = [v \in Pages |-> IF v \in gone THEN 0 ELSE @[v]]],
           {m.pte[d][v] : v \in gone})

(* allocuvm(): the new size and memory; 0 when memory runs out, and then   *)
(* the pages it has got are given back.                                    *)
Allocuvm(m, d, oldsz, newsz) ==
  LET lo == PageUp(oldsz)
      room == lo + Cardinality(m.free)
  IN CASE newsz > USERTOP -> [m |-> m, sz |-> 0]
       [] newsz < oldsz -> [m |-> m, sz |-> oldsz]
       [] newsz \in oldsz .. USERTOP /\ PageUp(newsz) <= room ->
            [m |-> AddPages(m, d, lo, lo .. PageUp(newsz) - 1, Zero), sz |-> newsz]
       [] OTHER ->
            [m |-> Deallocuvm(AddPages(m, d, lo, lo .. room - 1, Zero), d, newsz, oldsz), sz |-> 0]

(* freevm(): the user's pages, the page tables and the directory. *)
Freevm(m, d) ==
  Kfree([Deallocuvm(m, d, USERTOP, 0) EXCEPT !.tables[d] = {}], {d} \cup m.tables[d])

(* setupkvm(): a directory and its page tables.  Short of one of them it   *)
(* returns 0 and forgets the others.                                       *)
KvmFrames(m) == {f \in m.free : Cardinality({g \in m.free : g < f}) <= KvmTables}
Setupkvm(m) ==
  IF Cardinality(KvmFrames(m)) = KvmTables + 1
  THEN [m |-> [Without(m, KvmFrames(m)) EXCEPT
                 !.pte[Kalloc(m)] = NoMap, !.tables[Kalloc(m)] = KvmFrames(m) \ {Kalloc(m)}],
        d |-> Kalloc(m), lost |-> {}]
  ELSE [m |-> Without(m, KvmFrames(m)), d |-> 0, lost |-> KvmFrames(m)]

(* uva2ka() and copyout(), and readi() into the pages in loaduvm(): words  *)
(* to addresses of a directory.  They may cross pages, which must be there. *)
Reaches(m, d, va, n) ==
  \A a \in va .. va + n - 1 : a \in 0 .. USERTOP - 1 /\ m.pte[d][PageOf(a)] # 0
Copyout(m, d, va, words) ==
  [m EXCEPT !.word = [f \in Frames |-> [o \in Offsets |->
     LET hit == {n \in DOMAIN words : /\ m.pte[d][PageOf(va + n - 1)] = f
                                      /\ (va + n - 1) % PGSIZE = o}
     IN IF hit = {} THEN @[f][o] ELSE words[Nth(hit, 0)]]]]
-----------------------------------------------------------------------------
(* What a program is to find in its memory, said of addresses only: the    *)
(* words of the segment an address is in, zero elsewhere, and at the top   *)
(* the strings and what main() is called with, if the one page of the      *)
(* stack holds them.                                                       *)
Code(f, a) ==
  IF \E i \in DOMAIN phs(f) : /\ phs(f)[i].load
                              /\ a \in phs(f)[i].va .. phs(f)[i].va + phs(f)[i].filesz - 1
  THEN FileWord(f, a) ELSE 0
StackHolds(argv) == FoldSeq(LAMBDA len, sum : sum + len, Len(argv) + 4, argv) <= PGSIZE
Image(f, argv, top) ==
  LET n == Len(argv)
      below[i \in 0 .. n] == IF i = 0 THEN top ELSE below[i - 1] - argv[i]
      frame == below[n] - (n + 4)
      string(a) == LET i == CHOOSE i \in 1 .. n : below[i] <= a /\ a < below[i - 1]
                   IN ArgWord(i, a - below[i] + 1, argv[i])
      word(a) == CASE a < frame -> Code(f, a)
                   [] a = frame -> FakePC
                   [] a = frame + 1 -> n
                   [] a = frame + 2 -> frame + 3
                   [] a = frame + n + 3 -> 0
                   [] a \in frame + 3 .. frame + n + 2 -> below[a - frame - 2]
                   [] a >= below[n] -> string(a)
  IN [a \in 0 .. top - 1 |-> word(a)]
-----------------------------------------------------------------------------
(* userinit(): initcode in one page. *)
Init ==
  LET none == [free |-> Frames, word |-> [f \in Frames |-> AllWords(Junk)],
               pte |-> [f \in Frames |-> NoMap], tables |-> [f \in Frames |-> {}]]
      new == Setupkvm(Without(none, {1}))
      initcode == [v \in {0} |-> [o \in Offsets |-> FileWord(0, o)]]
  IN /\ kmem = AddPages(new.m, new.d, 0, {0}, initcode)
     /\ proc = [p \in Slots |->
          IF p = initproc THEN [state |-> "RUNNABLE", parent |-> 0, kstack |-> 1,
                                pgdir |-> new.d, sz |-> PGSIZE] ELSE Unused]
     /\ k = NoCall /\ lost = {} /\ calls = 0 /\ emptied = {} /\ panicked = "no"
     /\ sees = [p \in Slots |-> IF p = initproc THEN initcode[0] ELSE <<>>]

Runs(p) ==
  proc[p].state = "RUNNABLE" /\ k = NoCall /\ panicked = "no" /\ calls < MaxCalls /\ calls' = calls + 1
Doing(at) == k.at = at /\ panicked = "no" /\ UNCHANGED calls
Return == k' = NoCall
Frame(p, a) == kmem.pte[proc[p].pgdir][PageOf(a)]
Mapped(p, a) == Frame(p, a) # 0
Whole(p) == \A a \in 0 .. proc[p].sz - 1 : Mapped(p, a)
Panic(why) == panicked' = why /\ UNCHANGED <<kmem, proc, k, lost, emptied, sees>>
-----------------------------------------------------------------------------
(* exec(): the new image is built beside the old one. *)
Exec(p, f, argv) ==
  /\ Runs(p)
  /\ k' = IF Images[f].magic THEN [NoCall EXCEPT !.at = "exec", !.p = p, !.f = f, !.argv = argv] ELSE NoCall
  /\ UNCHANGED <<kmem, proc, lost, emptied, panicked, sees>>
Goes(at) == k' = [k EXCEPT !.at = at]
Old == UNCHANGED <<proc, emptied, panicked, sees>>

ExecKvm ==
  LET new == Setupkvm(kmem)
  IN /\ Doing("exec") /\ kmem' = new.m /\ lost' = lost \cup new.lost
     /\ k' = IF new.d = 0 THEN NoCall ELSE [k EXCEPT !.at = "load", !.d = new.d, !.i = 1]
     /\ Old

(* A segment: allocuvm() and loaduvm(). *)
SegmentWords(s) == [n \in 1 .. s.filesz |-> FileWord(k.f, s.va + n - 1)]
ExecLoad ==
  /\ Doing("load") /\ k.i <= Len(phs(k.f))
  /\ LET s == phs(k.f)[k.i]
         a == Allocuvm(kmem, k.d, k.sz, s.va + s.memsz)
         ends == ~Images[k.f].whole /\ k.i = Len(phs(k.f))
     IN \/ ~s.load /\ k' = [k EXCEPT !.i = @ + 1] /\ UNCHANGED kmem
        \/ s.load /\ s.memsz < s.filesz /\ Goes("bad") /\ UNCHANGED kmem
        \/ s.load /\ s.memsz >= s.filesz /\ a.sz = 0 /\ Goes("bad") /\ kmem' = a.m
        \/ /\ s.load /\ s.memsz >= s.filesz /\ a.sz > 0
           /\ kmem' = Copyout(a.m, k.d, s.va, SegmentWords(s))
           /\ k' = [k EXCEPT !.i = @ + 1, !.sz = a.sz, !.at = IF ends THEN "bad" ELSE @]
  /\ Old /\ UNCHANGED lost

ExecStack ==
  LET bottom == PageUp(k.sz) * PGSIZE
      a == Allocuvm(kmem, k.d, bottom, bottom + PGSIZE)
  IN /\ Doing("load") /\ k.i > Len(phs(k.f)) /\ kmem' = a.m
     /\ k' = IF a.sz = 0 THEN [k EXCEPT !.at = "bad"]
             ELSE [k EXCEPT !.at = "push", !.sz = a.sz, !.sp = a.sz, !.i = 1]
     /\ Old /\ UNCHANGED lost

(* The strings go on the stack one below the other, then what main() is    *)
(* called with: argc, argv and the pointers.  Nothing looks whether it is   *)
(* still the stack they go to, and not the program below.                   *)
String(i) == [n \in 1 .. k.argv[i] |-> ArgWord(i, n, k.argv[i])]
ExecPush ==
  /\ Doing("push") /\ k.i <= Len(k.argv)
  /\ LET sp == k.sp - k.argv[k.i]
         fits == k.i <= MAXARG /\ Reaches(kmem, k.d, sp, k.argv[k.i])
     IN \/ ~fits /\ Goes("bad") /\ UNCHANGED kmem
        \/ /\ fits /\ kmem' = Copyout(kmem, k.d, sp, String(k.i))
           /\ k' = [k EXCEPT !.sp = sp, !.i = @ + 1, !.ustack = Append(@, sp)]
  /\ Old /\ UNCHANGED lost
Argv(argc) == k.sp - (argc + 1)
ExecFrame ==
  LET argc == Len(k.argv)
      ustack == <<FakePC, argc, Argv(argc)>> \o k.ustack \o <<0>>
      sp == k.sp - Len(ustack)
      fits == Reaches(kmem, k.d, sp, Len(ustack))
  IN /\ Doing("push") /\ k.i > argc
     /\ \/ ~fits /\ Goes("bad") /\ UNCHANGED kmem
        \/ fits /\ kmem' = Copyout(kmem, k.d, sp, ustack) /\ Goes("commit")
     /\ Old /\ UNCHANGED lost

(* A program whose arguments are too long for its stack has what came of   *)
(* it in its memory: that is its own, but not what it was to be given.     *)
Built == [a \in 0 .. k.sz - 1 |-> kmem.word[kmem.pte[k.d][PageOf(a)]][a % PGSIZE]]
ExecCommit ==
  /\ Doing("commit") /\ Return
  /\ kmem' = Freevm(kmem, proc[k.p].pgdir)
  /\ proc' = [proc EXCEPT ![k.p].pgdir = k.d, ![k.p].sz = k.sz]
  /\ sees' = [sees EXCEPT ![k.p] = IF StackHolds(k.argv) THEN Image(k.f, k.argv, k.sz) ELSE Built]
  /\ emptied' = emptied \ {k.p} /\ UNCHANGED <<panicked, lost>>
ExecBadFrees(m) == Freevm(m, k.d)
ExecBad == Doing("bad") /\ kmem' = ExecBadFrees(kmem) /\ Return /\ Old /\ UNCHANGED lost
-----------------------------------------------------------------------------
(* growproc(): a size below 0 is a large one, and deallocuvm() does        *)
(* nothing; the size 0 it takes for a failure and leaves p->sz as it was.  *)
Below(p, size) == [a \in {x \in DOMAIN sees[p] : x < PageUp(size) * PGSIZE} |-> sees[p][a]]
Zeroed(p, from, size) ==
  sees[p] @@ [a \in PageUp(from) * PGSIZE .. PageUp(size) * PGSIZE - 1 |-> 0]
Sbrk(p, n) ==
  /\ Runs(p)
  /\ LET sz == proc[p].sz
         a == Allocuvm(kmem, proc[p].pgdir, sz, sz + n)
     IN \/ /\ n > 0 /\ kmem' = a.m
           /\ proc' = [proc EXCEPT ![p].sz = IF a.sz = 0 THEN @ ELSE a.sz]
           /\ sees' = IF a.sz = 0 THEN sees ELSE [sees EXCEPT ![p] = Zeroed(p, sz, a.sz)]
           /\ UNCHANGED emptied
        \/ /\ n < 0 /\ sz + n >= 0
           /\ kmem' = Deallocuvm(kmem, proc[p].pgdir, sz, sz + n)
           /\ proc' = [proc EXCEPT ![p].sz = IF sz + n = 0 THEN @ ELSE sz + n]
           /\ sees' = [sees EXCEPT ![p] = Below(p, sz + n)]
           /\ emptied' = IF sz + n = 0 THEN emptied \cup {p} ELSE emptied
  /\ UNCHANGED <<k, lost, panicked>>

(* fork(): the slot and the kernel stack of allocproc(), setupkvm(), and    *)
(* copyuvm()'s copy of every page, or of those there is memory for.         *)
Fork(p) ==
  LET unused == {c \in Slots : proc[c].state = "UNUSED"}
      c == Nth(unused, 0)
  IN /\ Runs(p) /\ unused # {} /\ kmem.free # {}
     /\ kmem' = Without(kmem, {Kalloc(kmem)})
     /\ proc' = [proc EXCEPT ![c].state = "EMBRYO"]
     /\ k' = [NoCall EXCEPT !.at = "fork", !.p = p, !.i = c, !.stack = Kalloc(kmem)]
     /\ UNCHANGED <<lost, emptied, panicked, sees>>
ForkFails(m) == kmem' = Kfree(m, {k.stack}) /\ proc' = [proc EXCEPT ![k.i] = Unused] /\ Return
ForkKvm ==
  LET new == Setupkvm(kmem)
  IN /\ Doing("fork") /\ lost' = lost \cup new.lost
     /\ \/ new.d = 0 /\ ForkFails(new.m)
        \/ new.d > 0 /\ kmem' = new.m /\ k' = [k EXCEPT !.at = "copy", !.d = new.d] /\ UNCHANGED proc
     /\ UNCHANGED <<emptied, panicked, sees>>
Copied(p, v) == kmem.word[kmem.pte[proc[p].pgdir][v]]
ForkCopies ==
  LET p == k.p
      n == PageUp(proc[p].sz)
      room == Cardinality(kmem.free)
      missing == {v \in 0 .. n - 1 : kmem.pte[proc[p].pgdir][v] = 0}
      begin == [v \in 0 .. n - 1 |-> Copied(p, v)]
  IN /\ Doing("copy") /\ UNCHANGED lost
     /\ \/ (\E v \in missing : v <= room) /\ Panic("checked")
        \/ /\ missing = {} /\ n <= room /\ Return
           /\ kmem' = AddPages(kmem, k.d, 0, 0 .. n - 1, begin)
           /\ proc' = [proc EXCEPT ![k.i] = [proc[p] EXCEPT !.pgdir = k.d, !.parent = p,
                                                          !.kstack = k.stack]]
           /\ sees' = [sees EXCEPT ![k.i] = sees[p]]
           /\ UNCHANGED <<emptied, panicked>>
        \/ /\ (\A v \in missing : v > room) /\ n > room
           /\ ForkFails(Freevm(AddPages(kmem, k.d, 0, 0 .. room - 1, begin), k.d))
           /\ UNCHANGED <<emptied, panicked, sees>>

(* exit(), and wait() of the parent. *)
Dead(p) == proc' = [q \in Slots |->
  IF q = p THEN [proc[p] EXCEPT !.state = "ZOMBIE"]
  ELSE IF proc[q].parent = p THEN [proc[q] EXCEPT !.parent = initproc] ELSE proc[q]]
Exit(p) ==
  /\ Runs(p) /\ p # initproc /\ Dead(p)
  /\ UNCHANGED <<kmem, k, lost, emptied, panicked, sees>>
Wait(p, z) ==
  /\ Runs(p) /\ proc[z].state = "ZOMBIE" /\ proc[z].parent = p
  /\ kmem' = Freevm(Kfree(kmem, {proc[z].kstack}), proc[z].pgdir)
  /\ proc' = [proc EXCEPT ![z] = Unused]
  /\ sees' = [sees EXCEPT ![z] = <<>>] /\ emptied' = emptied \ {z}
  /\ UNCHANGED <<k, lost, panicked>>
-----------------------------------------------------------------------------
(* Sizes and addresses around the end of a page. *)
Sizes == {1, PGSIZE + 1}
Counts == Sizes \cup {-1}
Ends == {a \in 0 .. USERTOP - 1 : a % PGSIZE = PGSIZE - 1}

(* Words put into the memory of p, a function of their addresses. *)
Write(p, words) ==
  /\ kmem' = [kmem EXCEPT !.word = [f \in Frames |-> [o \in Offsets |->
       LET hit == {a \in DOMAIN words : Frame(p, a) = f /\ a % PGSIZE = o}
       IN IF hit = {} THEN @[f][o] ELSE words[Nth(hit, 0)]]]]
  /\ sees' = [sees EXCEPT ![p] = words @@ @]

(* A store by the program: to a page it has not, a page fault, and trap()  *)
(* kills it.                                                               *)
Store(p, a) ==
  /\ Runs(p)
  /\ \/ Mapped(p, a) /\ Write(p, a :> Stored(p)) /\ UNCHANGED proc
     \/ ~Mapped(p, a) /\ p # initproc /\ Dead(p) /\ UNCHANGED <<kmem, sees>>
  /\ UNCHANGED <<k, lost, emptied, panicked>>

(* A system call puts its words where its argument says.  A page fault of  *)
(* the kernel's own is a panic, and past USERTOP it stores into what is    *)
(* its own: the model ends there too.                                      *)
Puts(p, words, why) ==
  LET there == \A x \in DOMAIN words : x < USERTOP /\ Mapped(p, x)
  IN \/ ~there /\ Panic(why)
     \/ there /\ Write(p, words) /\ UNCHANGED <<k, proc, lost, emptied, panicked>>

(* Calls that look at their argument with argptr(): at p->sz only, in      *)
(* unsigned arithmetic, which a negative count passes as well.  read() of  *)
(* so many bytes is one of the whole file, or of nothing.                  *)
Argptr(p, a, n) == a < proc[p].sz /\ a + n \in 0 .. proc[p].sz
Syscall(p, a, n) ==
  /\ Runs(p) /\ Argptr(p, a, n)
  /\ \/ n > 0 /\ Puts(p, [x \in a .. a + n - 1 |-> Answer], "checked")
     \/ n < 0 /\ \E len \in Sizes : Puts(p, [x \in a .. a + len - 1 |-> Answer], "unchecked")

(* getprocstate(): its buffer is looked at as the string it is not, from a *)
(* to a null byte below p->sz; strncpy() then stores n bytes, all but the  *)
(* first ones null.  Sizes and addresses are words with a null byte.       *)
EndsString(p, x) == kmem.word[Frame(p, x)][x % PGSIZE] \in 0 .. USERTOP
Argstr(p, a, z) ==
  a <= z /\ z < proc[p].sz /\ \A x \in a .. z : Mapped(p, x) /\ (EndsString(p, x) <=> x = z)
FaultsString(p, a, z) ==
  a <= z /\ z < proc[p].sz /\ ~Mapped(p, z) /\ \A x \in a .. z - 1 : Mapped(p, x) /\ ~EndsString(p, x)
Getprocstate(p, a, n) ==
  /\ Runs(p)
  /\ \E z \in a .. USERTOP - 1 :
       \/ FaultsString(p, a, z) /\ Panic("checked")
       \/ Argstr(p, a, z) /\ Puts(p, [x \in a .. a + n - 1 |-> IF x = a THEN Answer ELSE 0], "unchecked")

Grows(p) == Sizes \cup {-m : m \in Sizes} \cup {-proc[p].sz}

Next ==
  \/ ExecKvm \/ ExecLoad \/ ExecStack \/ ExecPush \/ ExecFrame \/ ExecCommit \/ ExecBad
  \/ ForkKvm \/ ForkCopies
  \/ \E p \in Slots :
       \/ \E f \in DOMAIN Images, argv \in Argvs : Exec(p, f, argv)
       \/ \E n \in Grows(p) : Sbrk(p, n)
       \/ \E z \in Slots : Wait(p, z)
       \/ Fork(p) \/ Exit(p)
       \/ \E a \in Ends : Store(p, a)
       \/ \E a \in Ends, n \in Counts : Syscall(p, a, n)
       \/ \E a \in Ends : Getprocstate(p, a, PGSIZE + 1)
Spec == Init /\ [][Next]_vars
-----------------------------------------------------------------------------
(* Every process finds in its memory what it and nobody else has put there, *)
(* or was to be given, through page tables that are built, copied, cut,     *)
(* replaced and given back, also when memory runs out half way; and it has  *)
(* no page besides.                                                         *)
Holders == {p \in Slots : proc[p].state \in {"RUNNABLE", "ZOMBIE"}}
MemoryExact ==
  \A p \in Holders :
    /\ \A a \in 0 .. USERTOP - 1 : Mapped(p, a) <=> a \in DOMAIN sees[p]
    /\ \A a \in DOMAIN sees[p] : kmem.word[Frame(p, a)][a % PGSIZE] = sees[p][a]

(* Every frame is free, or held by one process or the call under way, or   *)
(* one of those that setupkvm() forgets when it fails.                     *)
Under(d) == 
  IF d = 0 THEN {} ELSE ({d} \cup kmem.tables[d] \cup {kmem.pte[d][v] : v \in Pages}) \ {0}
Held == [p \in Holders \cup {0} |->
  IF p = 0 THEN ({k.stack} \ {0}) \cup Under(k.d) ELSE {proc[p].kstack} \cup Under(proc[p].pgdir)]
FramesConserved ==
  /\ Frames = kmem.free \cup lost \cup UNION {Held[p] : p \in DOMAIN Held}
  /\ kmem.free \cap lost = {}
  /\ \A p \in DOMAIN Held : Held[p] \cap (kmem.free \cup lost) = {}
  /\ \A p, q \in DOMAIN Held : p # q => Held[p] \cap Held[q] = {}

(* The kernel does not meet a page that is missing, but for a process that *)
(* has called sbrk() with minus its size, and in the two calls that do not *)
(* check how far they store: getprocstate(), and read() of a negative      *)
(* number of bytes.                                                        *)
PagesThere == panicked = "checked" => emptied # {}

=============================================================================
