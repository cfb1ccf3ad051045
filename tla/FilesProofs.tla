---------------------------- MODULE FilesProofs ----------------------------
(***************************************************************************)
(* Theorems about Files: for any numbers of processes, inodes, names and   *)
(* crashes, and for programs whose paths do not go through "..", the inode *)
(* cache is coherent, what a directory names is allocated and counts its   *)
(* links, and the kernel's assertions hold.                                *)
(***************************************************************************)
EXTENDS Files, FiniteSetTheorems, TLAPS

(* Without it the kernel does panic: a process leaves a removed directory  *)
(* through its ".." entry.                                                 *)
NoDots == \A c \in UNION Workloads :
  c.path \in Seq(Names \cup {"/"}) /\ (c.op = "link" => c.new \in Seq(Names \cup {"/"}))

Creates == {"existing", "fresh", "parent", "dots", "enter", "made"}
Unlinks == {"victim", "unparent", "unname"}
Entering == {"fresh", "parent", "dots", "enter"}
NeedsDp == Entering \cup {"victim", "unparent", "linkfail"}
NeedsIp == {"parent", "dots", "enter", "made", "unparent", "unname"}
Places == {"user", "walk", "fail", "at", "dir", "bad", "linkfail"} \cup Creates \cup Unlinks
LinkTo == [op |-> "linkto", path |-> <<>>]

(* What p is to iput(): the first and the second inode. *)
Front(q) == Put(1)[q]
Back(q) == Put(2)[q]

Values ==
  /\ TypeOK
  /\ pc \in [Procs -> Places] /\ stage \in [Procs -> {"no", "trunc", "free", "drop"}]
  /\ calls \in Workloads /\ boots \in Nat
  /\ call \in [Procs -> {NoCall, LinkTo} \cup calls]
  /\ path \in [Procs -> Seq(Names)]
  /\ dp \in [Procs -> Inodes \cup {NoInode}] /\ ip \in [Procs -> Inodes \cup {NoInode}]
  /\ puts \in [Procs -> Seq(Inodes)] /\ \A q \in Procs : Len(puts[q]) <= 2

(* What each place of a call needs of its locals. *)
Shape(q) ==
  /\ dp[q] \in Inodes <=> pc[q] \in {"walk", "fail", "at", "dir"} \cup NeedsDp
  /\ ip[q] \in Inodes <=> pc[q] \in Creates \cup Unlinks \/ call[q].op = "linkto"
  /\ pc[q] = "user" <=> call[q] = NoCall
  /\ pc[q] = "walk" => path[q] # <<>>
  /\ pc[q] \in Entering \cup {"dir", "victim", "linkfail"} => Len(path[q]) = 1
  /\ pc[q] \in {"fail", "dir"} => ForParent(call[q])
  /\ pc[q] = "at" => ~ForParent(call[q])
  /\ pc[q] \in Creates => Creating(q)
  /\ pc[q] \in {"parent", "dots"} => call[q].op = "mkdir"
  /\ pc[q] \in Unlinks => call[q].op = "unlink"
  /\ pc[q] \in {"bad", "linkfail"} => call[q].op = "linkto"
  /\ pc[q] \in NeedsDp \ {"linkfail"} => puts[q] = <<>>
  /\ pc[q] \in Entering \cup {"unparent"} => dp[q] # ip[q]
  /\ stage[q] # "no" => puts[q] # <<>>
Shapes == \A q \in Procs : Shape(q)

(* I_BUSY is set by the process that holds the inode, and by no other. *)
Holds(q, i) == \/ pc[q] \in NeedsDp /\ dp[q] = i
               \/ pc[q] \in NeedsIp /\ ip[q] = i
               \/ stage[q] # "no" /\ Front(q) = i
Locked == \A i \in Inodes, q \in Procs : busy[i] = q <=> Holds(q, i)

(* An inode that iput() is freeing has no name and no other pointer, but   *)
(* that ialloc() may have taken it when its type was 0 on the disk.        *)
Used(i) == dinode[i].type # "free"
IsFresh(i) == \E q \in Procs : pc[q] = "fresh" /\ ip[q] = i
Others(r, i) == cwd[r] = i \/ file[r] = i \/ dp[r] = i \/ Back(r) = i
Dying == \A q \in Procs : stage[q] # "no" =>
  LET i == Front(q) IN
  /\ valid[i] /\ dinode[i].nlink = 0
  /\ stage[q] \in {"trunc", "free"} => dinode[i].type # "free"
  /\ stage[q] \in {"free", "drop"} => IsEmpty(i)
  /\ stage[q] = "drop" => inode[i] = Empty /\ (Used(i) => IsFresh(i))
  /\ \A r \in Procs : /\ ~Others(r, i)
                      /\ ip[r] = i => stage[q] = "drop" /\ pc[r] = "fresh"
                      /\ Front(r) = i => r = q
Fresh == \A q \in Procs : pc[q] = "fresh" =>
  LET i == ip[q] IN
  /\ dinode[i].nlink = 0
  /\ \A r \in Procs : /\ ~Others(r, i)
                      /\ ip[r] = i => r = q
                      /\ Front(r) = i => stage[r] = "drop"

(* A valid copy is what the disk has until the inode is freed. *)
Gone(i) == \E q \in Procs : stage[q] = "drop" /\ Front(q) = i
Copies == \A i \in Inodes : valid[i] => ref[i] > 0 /\ (inode[i] = dinode[i] \/ Gone(i))

(* Who points to an inode points to one that is allocated. *)
LiveAt(q) ==
  /\ Used(cwd[q])
  /\ file[q] # NoInode => Used(file[q])
  /\ dp[q] # NoInode => Used(dp[q])
  /\ ip[q] # NoInode => Used(ip[q])
  /\ Front(q) # NoInode => Used(Front(q)) \/ stage[q] = "drop"
  /\ Back(q) # NoInode => Used(Back(q))
  /\ pc[q] \in {"dir"} \cup NeedsDp => dinode[dp[q]].type = "dir"
  /\ pc[q] \in Entering => dinode[ip[q]].type = Kind[call[q].op]
  /\ pc[q] = "unparent" => dinode[ip[q]].type = "dir"
  /\ call[q].op = "linkto" => dinode[ip[q]].type # "dir"
Live ==
  /\ dinode[Root].type = "dir"
  /\ \A i \in Inodes : ~Used(i) => dinode[i].nlink = 0
  /\ \A q \in Procs : LiveAt(q)
OnlyDirs == \A d \in Inodes : dinode[d].type # "dir" => IsEmpty(d)

(* The links an inode counts that no directory has: of a name that is to   *)
(* be entered or has been erased, and of a "..".                           *)
OwedIp == [q \in Procs |-> IF pc[q] \in {"parent", "dots", "enter", "unparent", "unname"}
                              \/ call[q].op = "linkto" THEN ip[q] ELSE NoInode]
OwedDp == [q \in Procs |-> IF pc[q] \in {"dots", "unparent"} \/ (pc[q] = "enter" /\ call[q].op = "mkdir")
                           THEN dp[q] ELSE NoInode]
Owed(i) == Count(OwedIp, i) + Count(OwedDp, i)
Clean == boots = 0 /\ ~lost
Enough == \A i \in Inodes : dinode[i].nlink >= Links(i) + Owed(i)
Exact == Clean => \A i \in Inodes : dinode[i].nlink = Links(i) + Owed(i)

(* The name a process looked up stays what it was while dp is locked. *)
FoundAt(q) == /\ pc[q] \in Entering => Lookup(q) = NoInode
              /\ pc[q] = "victim" => Lookup(q) = ip[q]
Found == \A q \in Procs : FoundAt(q)

(* Without crashes an inode of no links is in the cache, and a directory   *)
(* of no name, but the root, is empty.                                     *)
Kept == boots = 0 => \A i \in Inodes :
          Used(i) /\ dinode[i].nlink = 0 => ref[i] > 0 /\ (valid[i] \/ IsFresh(i))
Bare == Clean => \A d \in Inodes \ {Root} : NamesOf(d) = {} => IsEmpty(d)
MakesDir(q) == pc[q] = "dots" \/ (pc[q] = "enter" /\ call[q].op = "mkdir")
Named == Clean => \A q \in Procs : MakesDir(q) => dp[q] = Root \/ NamesOf(dp[q]) # {}

FilesInv ==
  /\ Values /\ Shapes /\ Counted /\ Locked /\ Dying /\ Fresh /\ Copies /\ Live /\ OnlyDirs
  /\ Enough /\ Exact /\ Found /\ Kept /\ Bare /\ Named
-----------------------------------------------------------------------------
(* Counting: how a cardinality changes with one element. *)
Is(x, y) == IF x = y THEN 1 ELSE 0

LEMMA SetStep ==
  ASSUME NEW S, NEW T, NEW e, IsFiniteSet(S), \A x : x # e => (x \in S <=> x \in T)
  PROVE  /\ IsFiniteSet(T) /\ Cardinality(S) \in Nat /\ Cardinality(T) \in Nat
         /\ Cardinality(T) = Cardinality(S) - (IF e \in S THEN 1 ELSE 0) + (IF e \in T THEN 1 ELSE 0)
<1>1. IsFiniteSet(S \ {e}) /\ Cardinality(S \ {e}) = Cardinality(S) - (IF e \in S THEN 1 ELSE 0)
  BY FS_RemoveElement, FS_CardinalityType DEF Is
<1>2. Cardinality(S) \in Nat /\ Cardinality(S \ {e}) \in Nat
  BY <1>1, FS_CardinalityType
<1>3. CASE e \in T
  <2>1. T = (S \ {e}) \cup {e}
    BY <1>3
  <2>2. e \notin S \ {e}
    OBVIOUS
  <2> QED
    BY <1>1, <1>2, <1>3, <2>1, <2>2, FS_AddElement DEF Is
<1>4. CASE e \notin T
  <2>1. T = S \ {e}
    BY <1>4
  <2> QED
    BY <1>1, <1>2, <1>4, <2>1 DEF Is
<1> QED
  BY <1>3, <1>4

LEMMA CountFinite ==
  ASSUME NEW f, NEW i
  PROVE  IsFiniteSet({p \in Procs : f[p] = i}) /\ Count(f, i) \in Nat
<1>1. {p \in Procs : f[p] = i} \in SUBSET Procs
  OBVIOUS
<1> QED
  BY <1>1, FilesAssumption, FS_Subset, FS_CardinalityType DEF Count

LEMMA CountStep ==
  ASSUME NEW f, NEW g, NEW p \in Procs, NEW i, \A q \in Procs : q # p => g[q] = f[q]
  PROVE  Count(g, i) = Count(f, i) - Is(f[p], i) + Is(g[p], i)
<1> DEFINE S == {q \in Procs : f[q] = i}
           T == {q \in Procs : g[q] = i}
<1>1. IsFiniteSet(S)
  BY CountFinite
<1>2. \A x : x # p => (x \in S <=> x \in T)
  OBVIOUS
<1>3. (p \in S <=> f[p] = i) /\ (p \in T <=> g[p] = i)
  OBVIOUS
<1>4. Cardinality(T) = Cardinality(S) - (IF p \in S THEN 1 ELSE 0) + (IF p \in T THEN 1 ELSE 0)
  <2> HIDE DEF S, T
  <2> QED BY <1>1, <1>2, SetStep
<1> QED
  BY <1>3, <1>4 DEF Count, Is

LEMMA CountPositive ==
  ASSUME NEW f, NEW i
  PROVE  /\ Count(f, i) \in Nat
         /\ Count(f, i) > 0 <=> \E p \in Procs : f[p] = i
<1>1. Count(f, i) = 0 <=> {p \in Procs : f[p] = i} = {}
  BY CountFinite, FS_EmptySet DEF Count
<1>2. {p \in Procs : f[p] = i} = {} <=> ~ \E p \in Procs : f[p] = i
  OBVIOUS
<1>3. Count(f, i) \in Nat
  BY CountFinite
<1> QED
  BY <1>1, <1>2, <1>3

LEMMA CountTwo ==
  ASSUME NEW f, NEW i, NEW p \in Procs, NEW q \in Procs, p # q
  PROVE  Count(f, i) >= Is(f[p], i) + Is(f[q], i)
<1> DEFINE S == {r \in Procs : f[r] = i}
<1>1. IsFiniteSet(S) /\ Cardinality(S) \in Nat
  BY CountFinite, FS_CardinalityType
<1>2. (p \in S <=> f[p] = i) /\ (q \in S <=> f[q] = i)
  OBVIOUS
<1>3. IsFiniteSet(S \ {p}) /\ Cardinality(S \ {p}) = IF p \in S THEN Cardinality(S) - 1 ELSE Cardinality(S)
  <2> HIDE DEF S
  <2> QED BY <1>1, FS_RemoveElement
<1>4. /\ IsFiniteSet((S \ {p}) \ {q})
      /\ Cardinality((S \ {p}) \ {q}) = IF q \in S THEN Cardinality(S \ {p}) - 1 ELSE Cardinality(S \ {p})
  <2> HIDE DEF S
  <2>1. q \in S \ {p} <=> q \in S
    OBVIOUS
  <2>2. PICK R : R = S \ {p}
    OBVIOUS
  <2> QED BY <1>3, <2>1, <2>2, FS_RemoveElement
<1>5. Cardinality((S \ {p}) \ {q}) \in Nat /\ Cardinality(S \ {p}) \in Nat
  BY <1>3, <1>4, FS_CardinalityType
<1> QED
  BY <1>1, <1>2, <1>3, <1>4, <1>5 DEF Count, Is

(* What p is to iput(), for the sequences that occur. *)
LEMMA PutValues ==
  ASSUME Values, NEW p \in Procs
  PROVE  /\ Front(p) \in Inodes \cup {NoInode} /\ Back(p) \in Inodes \cup {NoInode}
         /\ puts[p] # <<>> <=> Front(p) # NoInode
         /\ puts[p] # <<>> => Head(puts[p]) = Front(p) /\ Front(p) \in Inodes
         /\ puts[p] = <<>> => Back(p) = NoInode
         /\ puts[p] \in Seq(Inodes)
<1>1. puts[p] \in Seq(Inodes) /\ Len(puts[p]) <= 2 /\ NoInode \notin Inodes
  BY FilesAssumption DEF Values
<1> QED
  BY <1>1 DEF Front, Back, Put

LEMMA PutTail ==
  ASSUME NEW s \in Seq(Inodes), s # <<>>, Len(s) <= 2
  PROVE  /\ Tail(s) \in Seq(Inodes) /\ Len(Tail(s)) <= 2
         /\ (IF 1 \in DOMAIN Tail(s) THEN Tail(s)[1] ELSE NoInode) = (IF 2 \in DOMAIN s THEN s[2] ELSE NoInode)
         /\ 2 \notin DOMAIN Tail(s)
  OBVIOUS

LEMMA PutsAre ==
  ASSUME NEW p \in Procs, NEW a, NEW b
  PROVE  /\ puts'[p] = <<>> => Front(p)' = NoInode /\ Back(p)' = NoInode
         /\ puts'[p] = <<a>> => Front(p)' = a /\ Back(p)' = NoInode
         /\ puts'[p] = <<a, b>> => Front(p)' = a /\ Back(p)' = b
         /\ puts'[p] = puts[p] => Front(p)' = Front(p) /\ Back(p)' = Back(p)
  BY DEF Front, Back, Put
-----------------------------------------------------------------------------
(* The pointers of a process.  A step of p leaves the others' alone. *)
Points(q, i) == cwd[q] = i \/ file[q] = i \/ dp[q] = i \/ ip[q] = i \/ Front(q) = i \/ Back(q) = i
Own(q, i) == Is(cwd[q], i) + Is(file[q], i) + Is(dp[q], i) + Is(ip[q], i)
               + Is(Front(q), i) + Is(Back(q), i)
Rest(p) == \A q \in Procs \ {p} :
  /\ cwd'[q] = cwd[q] /\ file'[q] = file[q] /\ pc'[q] = pc[q] /\ call'[q] = call[q]
  /\ path'[q] = path[q] /\ dp'[q] = dp[q] /\ ip'[q] = ip[q]
  /\ puts'[q] = puts[q] /\ stage'[q] = stage[q]

LEMMA RestPuts ==
  ASSUME NEW p \in Procs, Rest(p), NEW q \in Procs \ {p}
  PROVE  Front(q)' = Front(q) /\ Back(q)' = Back(q)
  BY PutsAre DEF Rest

LEMMA Total ==
  ASSUME Counted, NEW i \in Inodes
  PROVE  ref[i] = Count(cwd, i) + Count(file, i) + Count(dp, i) + Count(ip, i)
                    + Count(Put(1), i) + Count(Put(2), i)
  BY DEF Counted

LEMMA RefSole ==
  ASSUME Counted, NEW i \in Inodes, NEW p \in Procs
  PROVE  /\ ref[i] \in Nat
         /\ Points(p, i) => ref[i] > 0
         /\ ref[i] > 0 => \E q \in Procs : Points(q, i)
         /\ ref[i] >= Own(p, i) /\ Own(p, i) \in Nat
         /\ \A q \in Procs : q # p => ref[i] >= Own(p, i) + Own(q, i)
<1>1. /\ Count(cwd, i) \in Nat /\ Count(file, i) \in Nat /\ Count(dp, i) \in Nat
      /\ Count(ip, i) \in Nat /\ Count(Put(1), i) \in Nat /\ Count(Put(2), i) \in Nat
  BY CountPositive
<1>2. /\ Count(cwd, i) > 0 <=> \E q \in Procs : cwd[q] = i
      /\ Count(file, i) > 0 <=> \E q \in Procs : file[q] = i
      /\ Count(dp, i) > 0 <=> \E q \in Procs : dp[q] = i
      /\ Count(ip, i) > 0 <=> \E q \in Procs : ip[q] = i
      /\ Count(Put(1), i) > 0 <=> \E q \in Procs : Front(q) = i
      /\ Count(Put(2), i) > 0 <=> \E q \in Procs : Back(q) = i
  BY CountPositive DEF Front, Back
<1>3. ref[i] > 0 <=> \E q \in Procs : Points(q, i)
  BY <1>1, <1>2, Total DEF Points
<1>4. ASSUME NEW q \in Procs, q # p
      PROVE  ref[i] >= Own(p, i) + Own(q, i)
  <2>1. /\ Count(cwd, i) >= Is(cwd[p], i) + Is(cwd[q], i)
        /\ Count(file, i) >= Is(file[p], i) + Is(file[q], i)
        /\ Count(dp, i) >= Is(dp[p], i) + Is(dp[q], i)
        /\ Count(ip, i) >= Is(ip[p], i) + Is(ip[q], i)
        /\ Count(Put(1), i) >= Is(Front(p), i) + Is(Front(q), i)
        /\ Count(Put(2), i) >= Is(Back(p), i) + Is(Back(q), i)
    BY <1>4, CountTwo DEF Front, Back
  <2> QED
    BY <1>1, <2>1, Total DEF Own, Is
<1>5. ref[i] >= Own(p, i)
  <2>1. /\ Count(cwd, i) >= Is(cwd[p], i) /\ Count(file, i) >= Is(file[p], i)
        /\ Count(dp, i) >= Is(dp[p], i) /\ Count(ip, i) >= Is(ip[p], i)
        /\ Count(Put(1), i) >= Is(Front(p), i) /\ Count(Put(2), i) >= Is(Back(p), i)
    BY <1>1, <1>2 DEF Is
  <2> QED
    BY <1>1, <2>1, Total DEF Own, Is
<1>6. ref[i] \in Nat /\ Own(p, i) \in Nat
  BY <1>1, Total DEF Own, Is
<1> QED
  BY <1>3, <1>4, <1>5, <1>6

(* Nobody else points to an inode whose count is one's own pointers. *)
LEMMA OnlyOwn ==
  ASSUME Counted, NEW i \in Inodes, NEW p \in Procs, NEW q \in Procs, p # q,
         ref[i] = 1, Points(p, i)
  PROVE  ~Points(q, i) /\ Own(p, i) = 1
<1>1. Own(p, i) \in Nat /\ Own(q, i) \in Nat /\ ref[i] >= Own(p, i) + Own(q, i)
  BY RefSole
<1>2. Own(p, i) >= 1 /\ (Points(q, i) => Own(q, i) >= 1)
  BY DEF Own, Points, Is
<1> QED
  BY <1>1, <1>2

LEMMA CountedKept ==
  ASSUME Counted, NEW p \in Procs, Rest(p), ref' \in [Inodes -> Int],
         \A i \in Inodes : ref'[i] = ref[i] - Own(p, i) + Own(p, i)'
  PROVE  Counted'
<1> SUFFICES ASSUME NEW i \in Inodes
             PROVE  ref'[i] = Count(cwd', i) + Count(file', i) + Count(dp', i) + Count(ip', i)
                                + Count(Put(1)', i) + Count(Put(2)', i)
  BY DEF Counted, Count
<1>1. Count(cwd', i) = Count(cwd, i) - Is(cwd[p], i) + Is(cwd'[p], i)
  BY CountStep DEF Rest
<1>2. Count(file', i) = Count(file, i) - Is(file[p], i) + Is(file'[p], i)
  BY CountStep DEF Rest
<1>3. Count(dp', i) = Count(dp, i) - Is(dp[p], i) + Is(dp'[p], i)
  BY CountStep DEF Rest
<1>4. Count(ip', i) = Count(ip, i) - Is(ip[p], i) + Is(ip'[p], i)
  BY CountStep DEF Rest
<1>5. \A q \in Procs \ {p} : Put(1)'[q] = Put(1)[q] /\ Put(2)'[q] = Put(2)[q]
  BY RestPuts DEF Front, Back
<1>6. Count(Put(1)', i) = Count(Put(1), i) - Is(Put(1)[p], i) + Is(Put(1)'[p], i)
  <2> DEFINE S == {q \in Procs : Put(1)[q] = i}
             T == {q \in Procs : Put(1)'[q] = i}
  <2>1. IsFiniteSet(S)
    BY CountFinite
  <2>2. \A x : x # p => (x \in S <=> x \in T)
    BY <1>5
  <2>3. (p \in S <=> Put(1)[p] = i) /\ (p \in T <=> Put(1)'[p] = i)
    OBVIOUS
  <2>4. Cardinality(T) = Cardinality(S) - (IF p \in S THEN 1 ELSE 0) + (IF p \in T THEN 1 ELSE 0)
    <3> HIDE DEF S, T
    <3> QED BY <2>1, <2>2, SetStep
  <2> QED
    BY <2>3, <2>4 DEF Count, Is
<1>7. Count(Put(2)', i) = Count(Put(2), i) - Is(Put(2)[p], i) + Is(Put(2)'[p], i)
  <2> DEFINE S == {q \in Procs : Put(2)[q] = i}
             T == {q \in Procs : Put(2)'[q] = i}
  <2>1. IsFiniteSet(S)
    BY CountFinite
  <2>2. \A x : x # p => (x \in S <=> x \in T)
    BY <1>5
  <2>3. (p \in S <=> Put(2)[p] = i) /\ (p \in T <=> Put(2)'[p] = i)
    OBVIOUS
  <2>4. Cardinality(T) = Cardinality(S) - (IF p \in S THEN 1 ELSE 0) + (IF p \in T THEN 1 ELSE 0)
    <3> HIDE DEF S, T
    <3> QED BY <2>1, <2>2, SetStep
  <2> QED
    BY <2>3, <2>4 DEF Count, Is
<1>8. /\ Count(cwd, i) \in Nat /\ Count(file, i) \in Nat /\ Count(dp, i) \in Nat
      /\ Count(ip, i) \in Nat /\ Count(Put(1), i) \in Nat /\ Count(Put(2), i) \in Nat
  BY CountPositive
<1>9. \A x, y : Is(x, y) \in Int
  BY DEF Is
<1>10. PICK a1, a2, a3, a4, a5, a6 \in Int :
         /\ a1 = Is(cwd[p], i) /\ a2 = Is(file[p], i) /\ a3 = Is(dp[p], i)
         /\ a4 = Is(ip[p], i) /\ a5 = Is(Put(1)[p], i) /\ a6 = Is(Put(2)[p], i)
  BY <1>9, Zenon
<1>11. PICK b1, b2, b3, b4, b5, b6 \in Int :
         /\ b1 = Is(cwd'[p], i) /\ b2 = Is(file'[p], i) /\ b3 = Is(dp'[p], i)
         /\ b4 = Is(ip'[p], i) /\ b5 = Is(Put(1)'[p], i) /\ b6 = Is(Put(2)'[p], i)
  BY <1>9, Zenon
<1>12. Own(p, i) = a1 + a2 + a3 + a4 + a5 + a6
  BY <1>10, Zenon DEF Own, Front, Back
<1>13. Own(p, i)' = b1 + b2 + b3 + b4 + b5 + b6
  BY <1>11, Zenon DEF Own, Front, Back
<1>14. ref'[i] = ref[i] - Own(p, i) + Own(p, i)' /\ ref[i] \in Int
  BY <1>8, Total
<1> QED
  BY <1>1, <1>2, <1>3, <1>4, <1>6, <1>7, <1>8, <1>10, <1>11, <1>12, <1>13, <1>14, Total
-----------------------------------------------------------------------------
(* An inode that nobody frees or has just allocated, and that is in use. *)
Safe(i) == \A q \in Procs : /\ stage[q] # "no" => Front(q) # i
                            /\ pc[q] = "fresh" => ip[q] # i
Good(i) == Safe(i) /\ Used(i)

LEMMA Constants ==
  /\ NoProc \notin Procs /\ NoInode \notin Inodes /\ Root \in Inodes
  /\ ".." \notin Names /\ Names \subseteq Entries
  BY FilesAssumption DEF Entries

LEMMA Types ==
  ASSUME Values
  PROVE  /\ \A i \in Inodes : /\ dinode[i].type \in {"free", "file", "dir", "dev"}
                              /\ dinode[i].nlink \in Nat /\ ref[i] \in Nat
                              /\ dents[i] \in [Entries -> Inodes \cup {NoInode}]
                              /\ \A n \in Names : dents[i][n] \in Inodes \cup {NoInode}
                              /\ valid[i] \in BOOLEAN /\ busy[i] \in Procs \cup {NoProc}
         /\ \A q \in Procs :
              /\ cwd[q] \in Inodes /\ file[q] \in Inodes \cup {NoInode}
              /\ dp[q] \in Inodes \cup {NoInode} /\ ip[q] \in Inodes \cup {NoInode}
              /\ path[q] \in Seq(Names) /\ pc[q] \in Places
              /\ stage[q] \in {"no", "trunc", "free", "drop"}
<1>1. Names \subseteq Entries
  BY Constants
<1> QED
  BY <1>1 DEF Values, TypeOK

LEMMA LinksFinite ==
  ASSUME NEW i
  PROVE  /\ IsFiniteSet(NamesOf(i)) /\ IsFiniteSet(Subdirs(i))
         /\ Cardinality(NamesOf(i)) \in Nat /\ Cardinality(Subdirs(i)) \in Nat
         /\ Links(i) \in Nat
         /\ NamesOf(i) # {} => Links(i) >= 1
         /\ i = Root => Links(i) >= 1
         /\ Owed(i) \in Nat
<1>1. IsFiniteSet(Inodes \X Names)
  BY FilesAssumption, FS_Product
<1>2. NamesOf(i) \in SUBSET (Inodes \X Names) /\ Subdirs(i) \in SUBSET (Inodes \X Names)
  BY DEF NamesOf, Subdirs
<1>3. IsFiniteSet(NamesOf(i)) /\ IsFiniteSet(Subdirs(i))
  BY <1>1, <1>2, FS_Subset
<1>4. Cardinality(NamesOf(i)) \in Nat /\ Cardinality(Subdirs(i)) \in Nat
  BY <1>3, FS_CardinalityType
<1>5. NamesOf(i) # {} => Cardinality(NamesOf(i)) # 0
  BY <1>3, FS_EmptySet
<1>6. Owed(i) \in Nat
  BY CountPositive DEF Owed
<1> QED
  BY <1>3, <1>4, <1>5, <1>6 DEF Links

LEMMA NameCounts ==
  ASSUME Values, Enough, NEW i \in Inodes
  PROVE  /\ NamesOf(i) # {} => dinode[i].nlink >= 1
         /\ i = Root => dinode[i].nlink >= 1
         /\ dinode[i].nlink = 0 => Links(i) = 0 /\ Owed(i) = 0
         /\ \A d \in Inodes, n \in Names : dents[d][n] = i => dinode[i].nlink >= 1
<1>1. dinode[i].nlink >= Links(i) + Owed(i) /\ dinode[i].nlink \in Nat
  BY Types DEF Enough
<1>2. ASSUME NEW d \in Inodes, NEW n \in Names, dents[d][n] = i
      PROVE  NamesOf(i) # {}
  <2>1. <<d, n>> \in NamesOf(i)
    BY <1>2 DEF NamesOf
  <2> QED
    BY <2>1
<1> QED
  BY <1>1, <1>2, LinksFinite

LEMMA LinkedSafe ==
  ASSUME Dying, Fresh, NEW i \in Inodes, dinode[i].nlink # 0
  PROVE  Safe(i)
  BY DEF Dying, Fresh, Safe

LEMMA RootGood ==
  ASSUME FilesInv
  PROVE  Good(Root)
  BY Constants, NameCounts, LinkedSafe DEF FilesInv, Good, Used, Live

LEMMA NameGood ==
  ASSUME FilesInv, NEW d \in Inodes, NEW n \in Names, NEW i \in Inodes, dents[d][n] = i
  PROVE  Good(i) /\ dinode[i].nlink >= 1
<1>1. dinode[i].nlink >= 1 /\ dinode[i].nlink \in Nat
  BY NameCounts, Types DEF FilesInv
<1> QED
  BY <1>1, LinkedSafe DEF FilesInv, Good, Live

LEMMA OwnGood ==
  ASSUME FilesInv, NEW p \in Procs, stage[p] = "no", pc[p] # "fresh",
         NEW i \in Inodes, Points(p, i)
  PROVE  Good(i)
<1>1. i # NoInode
  BY Constants
<1>2. Used(i)
  BY <1>1 DEF FilesInv, Live, LiveAt, Points
<1>3. Safe(i)
  BY DEF FilesInv, Safe, Dying, Fresh, Points, Others
<1> QED
  BY <1>2, <1>3 DEF Good

LEMMA Seen ==
  ASSUME FilesInv, NEW i \in Inodes, ~Gone(i)
  PROVE  Inode(i) = dinode[i] /\ (valid[i] => inode[i] = dinode[i])
  BY DEF FilesInv, Copies, Inode

LEMMA SafeSeen ==
  ASSUME FilesInv, NEW i \in Inodes, Safe(i)
  PROVE  Inode(i) = dinode[i] /\ (valid[i] => inode[i] = dinode[i]) /\ ~Gone(i)
<1>1. ~Gone(i)
  BY DEF Safe, Gone
<1> QED
  BY <1>1, Seen

(* A process of which a step is enabled is not in the middle of an iput(). *)
LEMMA ReadyFacts ==
  ASSUME FilesInv, NEW p \in Procs, puts[p] = <<>>
  PROVE  stage[p] = "no" /\ Front(p) = NoInode /\ Back(p) = NoInode
  BY Constants, PutValues DEF FilesInv, Shapes, Shape
-----------------------------------------------------------------------------
(* What each part of FilesInv needs of a step of p.  Calm: p is in no      *)
(* iput() that frees and allocates nothing.  Undisturbed: it leaves alone  *)
(* what others free or have just allocated.                                *)
Calm(p) == /\ Rest(p) /\ stage[p] = "no" /\ stage'[p] = "no"
           /\ pc[p] # "fresh" /\ pc'[p] # "fresh"
NewPoints(p) == \A i \in Inodes : Points(p, i)' => Good(i)
Undisturbed == \A i \in Inodes : ~Safe(i) =>
  /\ valid'[i] = valid[i] /\ inode'[i] = inode[i] /\ dinode'[i] = dinode[i]
  /\ IsEmpty(i) => IsEmpty(i)'

LEMMA ShapesKept ==
  ASSUME Shapes, NEW p \in Procs, Rest(p), Shape(p)'
  PROVE  Shapes'
<1> SUFFICES ASSUME NEW q \in Procs, q # p PROVE Shape(q)'
  BY DEF Shapes
<1>1. Shape(q)
  BY DEF Shapes
<1>2. /\ pc'[q] = pc[q] /\ call'[q] = call[q] /\ path'[q] = path[q] /\ dp'[q] = dp[q]
      /\ ip'[q] = ip[q] /\ puts'[q] = puts[q] /\ stage'[q] = stage[q]
  BY DEF Rest
<1> QED
  BY <1>1, <1>2 DEF Shape, Creating

LEMMA LockedKept ==
  ASSUME Locked, NEW p \in Procs, Rest(p),
         \A i \in Inodes : busy'[i] = p <=> Holds(p, i)',
         \A i \in Inodes, q \in Procs : q # p => (busy'[i] = q <=> busy[i] = q)
  PROVE  Locked'
<1> SUFFICES ASSUME NEW i \in Inodes, NEW q \in Procs, q # p
             PROVE  busy'[i] = q <=> Holds(q, i)'
  BY DEF Locked
<1>1. Front(q)' = Front(q)
  BY RestPuts
<1>2. Holds(q, i)' <=> Holds(q, i)
  BY <1>1 DEF Holds, Rest
<1> QED
  BY <1>2 DEF Locked

LEMMA SafeKept ==
  ASSUME NEW p \in Procs, Calm(p), NEW i \in Inodes
  PROVE  /\ Safe(i)' <=> Safe(i)
         /\ Gone(i)' <=> Gone(i)
         /\ IsFresh(i)' <=> IsFresh(i)
<1>1. \A q \in Procs : q # p => Front(q)' = Front(q)
  BY RestPuts DEF Calm
<1> QED
  BY <1>1 DEF Calm, Rest, Safe, Gone, IsFresh

LEMMA DyingKept ==
  ASSUME Values, Shapes, Dying, NEW p \in Procs, Calm(p), NewPoints(p), Undisturbed
  PROVE  Dying'
<1> SUFFICES ASSUME NEW q \in Procs, stage'[q] # "no", NEW i, i = Front(q)'
             PROVE  /\ valid'[i] /\ dinode'[i].nlink = 0
                    /\ stage'[q] \in {"trunc", "free"} => dinode'[i].type # "free"
                    /\ stage'[q] \in {"free", "drop"} => IsEmpty(i)'
                    /\ stage'[q] = "drop" => inode'[i] = Empty /\ (Used(i)' => IsFresh(i)')
                    /\ \A r \in Procs : /\ ~Others(r, i)'
                                        /\ ip'[r] = i => stage'[q] = "drop" /\ pc'[r] = "fresh"
                                        /\ Front(r)' = i => r = q
  BY DEF Dying, IsEmpty, Used, IsFresh, Others
<1>1. q # p /\ stage[q] = stage'[q] /\ Front(q)' = Front(q)
  BY RestPuts DEF Calm, Rest
<1>2. i \in Inodes /\ i = Front(q)
  BY <1>1, PutValues DEF Shapes, Shape
<1>3. ~Safe(i)
  BY <1>1, <1>2 DEF Safe
<1>4. /\ valid'[i] = valid[i] /\ inode'[i] = inode[i] /\ dinode'[i] = dinode[i]
      /\ IsEmpty(i) => IsEmpty(i)'
  BY <1>2, <1>3 DEF Undisturbed
<1>5. ~Points(p, i)'
  BY <1>2, <1>3 DEF NewPoints, Good
<1>6. \A r \in Procs : r # p => /\ Others(r, i)' <=> Others(r, i)
                                /\ Front(r)' = Front(r) /\ ip'[r] = ip[r] /\ pc'[r] = pc[r]
  BY RestPuts DEF Calm, Rest, Others
<1>7. IsFresh(i)' <=> IsFresh(i)
  BY <1>2, SafeKept
<1>8. /\ valid[i] /\ dinode[i].nlink = 0
      /\ stage[q] \in {"trunc", "free"} => dinode[i].type # "free"
      /\ stage[q] \in {"free", "drop"} => IsEmpty(i)
      /\ stage[q] = "drop" => inode[i] = Empty /\ (Used(i) => IsFresh(i))
      /\ \A r \in Procs : /\ ~Others(r, i)
                          /\ ip[r] = i => stage[q] = "drop" /\ pc[r] = "fresh"
                          /\ Front(r) = i => r = q
  BY <1>1, <1>2 DEF Dying
<1>9. /\ valid'[i] /\ dinode'[i].nlink = 0
      /\ stage'[q] \in {"trunc", "free"} => dinode'[i].type # "free"
      /\ stage'[q] \in {"free", "drop"} => IsEmpty(i)'
      /\ stage'[q] = "drop" => inode'[i] = Empty /\ (Used(i)' => IsFresh(i)')
  BY <1>1, <1>4, <1>7, <1>8 DEF Used
<1>10. \A r \in Procs : /\ ~Others(r, i)'
                        /\ ip'[r] = i => stage'[q] = "drop" /\ pc'[r] = "fresh"
                        /\ Front(r)' = i => r = q
  BY <1>1, <1>5, <1>6, <1>8 DEF Points, Others
<1> QED
  BY <1>1, <1>2, <1>9, <1>10

LEMMA FreshKept ==
  ASSUME Values, Shapes, Fresh, NEW p \in Procs, Calm(p), NewPoints(p), Undisturbed
  PROVE  Fresh'
<1> SUFFICES ASSUME NEW q \in Procs, pc'[q] = "fresh", NEW i, i = ip'[q]
             PROVE  /\ dinode'[i].nlink = 0
                    /\ \A r \in Procs : /\ ~Others(r, i)'
                                        /\ ip'[r] = i => r = q
                                        /\ Front(r)' = i => stage'[r] = "drop"
  BY DEF Fresh, Others
<1>1. q # p /\ pc[q] = "fresh" /\ ip'[q] = ip[q]
  BY DEF Calm, Rest
<1>2. i \in Inodes /\ i = ip[q]
  BY <1>1, Types DEF Shapes, Shape, Creates
<1>3. ~Safe(i)
  BY <1>1, <1>2 DEF Safe
<1>4. dinode'[i] = dinode[i] /\ ~Points(p, i)'
  BY <1>2, <1>3 DEF Undisturbed, NewPoints, Good
<1>6. \A r \in Procs : r # p => /\ Others(r, i)' <=> Others(r, i)
                                /\ Front(r)' = Front(r) /\ ip'[r] = ip[r] /\ stage'[r] = stage[r]
  BY RestPuts DEF Calm, Rest, Others
<1>8. /\ dinode[i].nlink = 0
      /\ \A r \in Procs : /\ ~Others(r, i)
                          /\ ip[r] = i => r = q
                          /\ Front(r) = i => stage[r] = "drop"
  BY <1>1, <1>2 DEF Fresh
<1>9. \A r \in Procs : /\ ~Others(r, i)'
                       /\ ip'[r] = i => r = q
                       /\ Front(r)' = i => stage'[r] = "drop"
  BY <1>1, <1>4, <1>6, <1>8 DEF Points, Others
<1> QED
  BY <1>1, <1>2, <1>4, <1>8, <1>9

(* Every inode that is in the cache is counted and, unless it is gone, a   *)
(* copy of the disk.                                                       *)
CopiedStep == \A i \in Inodes :
  valid'[i] => ref'[i] > 0 /\ (inode'[i] = dinode'[i] \/ (valid[i] /\ Gone(i)))
LEMMA CopiesKept ==
  ASSUME Copies, NEW p \in Procs, Calm(p), CopiedStep
  PROVE  Copies'
  BY SafeKept DEF Copies, CopiedStep

LEMMA LiveKept ==
  ASSUME Values, Shapes, Live, NEW p \in Procs, Rest(p), Enough',
         Values', \A i \in Inodes : dinode'[i].type = dinode[i].type,
         \A i \in Inodes : ~Used(i) => dinode'[i].nlink = dinode[i].nlink,
         LiveAt(p)'
  PROVE  Live'
<1>1. dinode'[Root].type = "dir" /\ \A i \in Inodes : ~Used(i)' => dinode'[i].nlink = 0
  BY Constants DEF Live, Used
<1>2. ASSUME NEW q \in Procs, q # p
      PROVE  LiveAt(q)'
  <2>1. /\ cwd'[q] = cwd[q] /\ file'[q] = file[q] /\ dp'[q] = dp[q] /\ ip'[q] = ip[q]
        /\ Front(q)' = Front(q) /\ Back(q)' = Back(q) /\ stage'[q] = stage[q]
        /\ pc'[q] = pc[q] /\ call'[q] = call[q]
    BY <1>2, RestPuts DEF Rest
  <2>2. /\ cwd[q] \in Inodes /\ file[q] \in Inodes \cup {NoInode}
        /\ dp[q] \in Inodes \cup {NoInode} /\ ip[q] \in Inodes \cup {NoInode}
        /\ Front(q) \in Inodes \cup {NoInode} /\ Back(q) \in Inodes \cup {NoInode}
    BY Types, PutValues
  <2>3. /\ pc[q] \in {"dir"} \cup NeedsDp => dp[q] \in Inodes
        /\ pc[q] \in Entering => ip[q] \in Inodes
        /\ pc[q] = "unparent" => ip[q] \in Inodes
        /\ call[q].op = "linkto" => ip[q] \in Inodes
    BY DEF Shapes, Shape, Creates, Unlinks, Entering
  <2>4. LiveAt(q)
    BY DEF Live
  <2> QED
    BY <2>1, <2>2, <2>3, <2>4 DEF LiveAt, Used
<1> QED
  BY <1>1, <1>2 DEF Live
-----------------------------------------------------------------------------
(* The links that p owes. *)
Credit(q, i) == Is(OwedIp[q], i) + Is(OwedDp[q], i)

LEMMA OwedFields ==
  ASSUME NEW q \in Procs
  PROVE  /\ OwedIp[q] = IF pc[q] \in {"parent", "dots", "enter", "unparent", "unname"}
                           \/ call[q].op = "linkto" THEN ip[q] ELSE NoInode
         /\ OwedDp[q] = IF pc[q] \in {"dots", "unparent"} \/ (pc[q] = "enter" /\ call[q].op = "mkdir")
                        THEN dp[q] ELSE NoInode
         /\ OwedIp'[q] = IF pc'[q] \in {"parent", "dots", "enter", "unparent", "unname"}
                            \/ call'[q].op = "linkto" THEN ip'[q] ELSE NoInode
         /\ OwedDp'[q] = IF pc'[q] \in {"dots", "unparent"} \/ (pc'[q] = "enter" /\ call'[q].op = "mkdir")
                         THEN dp'[q] ELSE NoInode
  BY DEF OwedIp, OwedDp

LEMMA OwedStep ==
  ASSUME NEW p \in Procs, Rest(p), NEW i
  PROVE  /\ Owed(i)' = Owed(i) - Credit(p, i) + Credit(p, i)'
         /\ Owed(i) \in Nat /\ Owed(i)' \in Nat /\ Credit(p, i) \in Nat /\ Credit(p, i)' \in Nat
<1>1. \A q \in Procs : q # p => OwedIp'[q] = OwedIp[q] /\ OwedDp'[q] = OwedDp[q]
  BY OwedFields DEF Rest
<1>2. Count(OwedIp', i) = Count(OwedIp, i) - Is(OwedIp[p], i) + Is(OwedIp'[p], i)
  <2> DEFINE S == {q \in Procs : OwedIp[q] = i}
             T == {q \in Procs : OwedIp'[q] = i}
  <2>1. IsFiniteSet(S)
    BY CountFinite
  <2>2. \A x : x # p => (x \in S <=> x \in T)
    BY <1>1
  <2>3. (p \in S <=> OwedIp[p] = i) /\ (p \in T <=> OwedIp'[p] = i)
    OBVIOUS
  <2>4. Cardinality(T) = Cardinality(S) - (IF p \in S THEN 1 ELSE 0) + (IF p \in T THEN 1 ELSE 0)
    <3> HIDE DEF S, T
    <3> QED BY <2>1, <2>2, SetStep
  <2> QED
    BY <2>3, <2>4 DEF Count, Is
<1>3. Count(OwedDp', i) = Count(OwedDp, i) - Is(OwedDp[p], i) + Is(OwedDp'[p], i)
  <2> DEFINE S == {q \in Procs : OwedDp[q] = i}
             T == {q \in Procs : OwedDp'[q] = i}
  <2>1. IsFiniteSet(S)
    BY CountFinite
  <2>2. \A x : x # p => (x \in S <=> x \in T)
    BY <1>1
  <2>3. (p \in S <=> OwedDp[p] = i) /\ (p \in T <=> OwedDp'[p] = i)
    OBVIOUS
  <2>4. Cardinality(T) = Cardinality(S) - (IF p \in S THEN 1 ELSE 0) + (IF p \in T THEN 1 ELSE 0)
    <3> HIDE DEF S, T
    <3> QED BY <2>1, <2>2, SetStep
  <2> QED
    BY <2>3, <2>4 DEF Count, Is
<1>4. Count(OwedIp, i) \in Nat /\ Count(OwedDp, i) \in Nat
  BY CountPositive
<1>5. Count(OwedIp', i) \in Nat /\ Count(OwedDp', i) \in Nat
  BY CountPositive
<1>6. Owed(i)' = Count(OwedIp', i) + Count(OwedDp', i)
  BY DEF Owed, Count
<1>7. Credit(p, i)' = Is(OwedIp'[p], i) + Is(OwedDp'[p], i)
  BY DEF Credit, Is
<1> QED
  BY <1>2, <1>3, <1>4, <1>5, <1>6, <1>7 DEF Owed, Credit, Is

LEMMA LinksNat == \A i \in Inodes : Links(i) \in Nat
  BY LinksFinite

LEMMA EnoughKept ==
  ASSUME Values, Values', Enough, Exact, NEW p \in Procs, Rest(p),
         boots' = boots, lost => lost',
         \A i \in Inodes :
           dinode'[i].nlink - dinode[i].nlink = Links(i)' - Links(i) + Credit(p, i)' - Credit(p, i)
  PROVE  Enough' /\ Exact'
<1>1. \A i \in Inodes : dinode[i].nlink \in Nat /\ dinode'[i].nlink \in Nat
  BY Types DEF Values, TypeOK
<1>2. (\A i \in Inodes : Links(i) \in Nat) /\ (\A i \in Inodes : Links(i) \in Nat)'
  BY LinksNat, PTL
<1>3. ASSUME NEW i \in Inodes
      PROVE  dinode'[i].nlink - (Links(i)' + Owed(i)') = dinode[i].nlink - (Links(i) + Owed(i))
  BY <1>1, <1>2, OwedStep
<1>4. Enough'
  BY <1>1, <1>2, <1>3, OwedStep DEF Enough
<1>5. Exact'
  <2> SUFFICES ASSUME Clean', NEW i \in Inodes PROVE dinode'[i].nlink = Links(i)' + Owed(i)'
    BY DEF Exact
  <2>1. dinode[i].nlink = Links(i) + Owed(i)
    BY DEF Exact, Clean
  <2> QED
    BY <2>1, <1>1, <1>2, <1>3, OwedStep
<1> QED
  BY <1>4, <1>5

(* Names and directories on a disk of which no name and no type changes. *)
LEMMA LinksSame ==
  ASSUME \A d \in Inodes, n \in Names : dents'[d][n] = dents[d][n],
         \A i \in Inodes : NamesOf(i) # {} => dinode'[i].type = dinode[i].type,
         Values
  PROVE  /\ \A i : NamesOf(i)' = NamesOf(i)
         /\ \A i \in Inodes : Links(i)' = Links(i) /\ (IsEmpty(i)' <=> IsEmpty(i))
<1>1. ASSUME NEW i PROVE NamesOf(i)' = NamesOf(i)
  BY DEF NamesOf
<1>2. ASSUME NEW i \in Inodes PROVE Subdirs(i)' = Subdirs(i)
  <2>1. ASSUME NEW n \in Names, dents[i][n] # NoInode
        PROVE  dinode'[dents[i][n]].type = dinode[dents[i][n]].type
    <3>1. dents[i][n] \in Inodes
      BY <2>1, Types
    <3>2. <<i, n>> \in NamesOf(dents[i][n])
      BY DEF NamesOf
    <3> QED
      BY <3>1, <3>2
  <2> QED
    BY <2>1 DEF Subdirs
<1>3. ASSUME NEW i \in Inodes PROVE Links(i)' = Links(i)
  BY <1>1, <1>2 DEF Links
<1>4. ASSUME NEW i \in Inodes PROVE IsEmpty(i)' <=> IsEmpty(i)
  BY DEF IsEmpty
<1> QED
  BY <1>1, <1>3, <1>4

LEMMA FoundKept ==
  ASSUME Values, Shapes, Locked, Found, NEW p \in Procs, Rest(p), FoundAt(p)',
         \A q \in Procs, d \in Inodes, n \in Names :
           q # p /\ busy[d] = q => dents'[d][n] = dents[d][n]
  PROVE  Found'
<1> SUFFICES ASSUME NEW q \in Procs, q # p PROVE FoundAt(q)'
  BY DEF Found
<1>1. pc'[q] = pc[q] /\ dp'[q] = dp[q] /\ ip'[q] = ip[q] /\ path'[q] = path[q]
  BY DEF Rest
<1>2. CASE pc[q] \in Entering \cup {"victim"}
  <2>1. Head(path[q]) \in Names
    BY <1>2, Types DEF Shapes, Shape
  <2>2. dp[q] \in Inodes /\ busy[dp[q]] = q
    BY <1>2 DEF Shapes, Shape, Locked, Holds, NeedsDp
  <2>3. Lookup(q)' = Lookup(q)
    BY <1>1, <2>1, <2>2 DEF Lookup
  <2> QED
    BY <1>1, <2>3 DEF Found, FoundAt
<1> QED
  BY <1>1, <1>2 DEF FoundAt

LEMMA NamedKept ==
  ASSUME Values, Shapes, Locked, Named, NEW p \in Procs, Rest(p), Clean' => Clean,
         Clean' /\ MakesDir(p)' => dp'[p] = Root \/ NamesOf(dp[p])' # {},
         \A q \in Procs, d \in Inodes :
           q # p /\ busy[d] = q /\ NamesOf(d) # {} => (Clean' => NamesOf(d)' # {})
  PROVE  Named'
<1> SUFFICES ASSUME Clean', NEW q \in Procs, q # p, MakesDir(q)', NEW d, d = dp'[q]
             PROVE  d = Root \/ NamesOf(d)' # {}
  BY DEF Named, NamesOf
<1>1. pc'[q] = pc[q] /\ dp'[q] = dp[q] /\ call'[q] = call[q]
  BY DEF Rest
<1>2. MakesDir(q)
  BY <1>1 DEF MakesDir
<1>3. d \in Inodes /\ busy[d] = q
  BY <1>1, <1>2 DEF MakesDir, Shapes, Shape, Locked, Holds, NeedsDp, Entering
<1>4. d = Root \/ NamesOf(d) # {}
  BY <1>1, <1>2 DEF Named
<1> QED
  BY <1>3, <1>4
-----------------------------------------------------------------------------
(* A step of p that does not change the disk, the links it owes or what    *)
(* others free or have just allocated.                                     *)
CopyKept(i) == /\ valid'[i] = valid[i] /\ inode'[i] = inode[i] /\ ref'[i] >= ref[i]
CopyRead(i) == /\ valid'[i] /\ inode'[i] = dinode[i] /\ ref'[i] >= ref[i] /\ Good(i) /\ ref[i] > 0
Counts(p) == \A i \in Inodes : ref'[i] = ref[i] - Own(p, i) + Own(p, i)'
Unlocks(p) == /\ \A i \in Inodes : busy'[i] = p <=> Holds(p, i)'
              /\ \A i \in Inodes, q \in Procs : q # p => (busy'[i] = q <=> busy[i] = q)
LiveHere(p) ==
  /\ pc'[p] \notin Entering \cup {"unparent"}
  /\ pc'[p] \in {"dir"} \cup NeedsDp => dinode[dp'[p]].type = "dir"
  /\ call'[p].op = "linkto" => dinode[ip'[p]].type # "dir"
  /\ pc'[p] = "victim" => Lookup(p)' = ip'[p]
Quiet(p) ==
  /\ Calm(p) /\ Values' /\ Shape(p)' /\ UNCHANGED <<disk, boots, lost>>
  /\ NewPoints(p) /\ Counts(p) /\ Unlocks(p) /\ LiveHere(p)
  /\ \A i \in Inodes : Credit(p, i)' = Credit(p, i)

LEMMA QuietKeeps ==
  ASSUME FilesInv, NEW p \in Procs, Quiet(p), CopiedStep, Undisturbed, Kept'
  PROVE  FilesInv'
<1> USE DEF FilesInv
<1>1. Rest(p) /\ Calm(p) /\ Values' /\ dinode' = dinode /\ dents' = dents
  BY DEF Quiet, Calm, disk
<1>2. Shapes'
  BY <1>1, ShapesKept DEF Quiet
<1>3. Counted'
  <2>1. ref' \in [Inodes -> Int]
    BY <1>1 DEF Values, TypeOK
  <2> QED
    BY <1>1, <2>1, CountedKept DEF Quiet, Counts
<1>4. Locked'
  BY <1>1, LockedKept DEF Quiet, Unlocks
<1>5. Dying' /\ Fresh'
  BY <1>1, DyingKept, FreshKept DEF Quiet
<1>6. Copies'
  BY <1>1, CopiesKept
<1>7. /\ \A i : NamesOf(i)' = NamesOf(i)
      /\ \A i \in Inodes : Links(i)' = Links(i) /\ (IsEmpty(i)' <=> IsEmpty(i))
  BY <1>1, LinksSame
<1>8. Enough' /\ Exact'
  <2>1. \A i \in Inodes : dinode'[i].nlink - dinode[i].nlink = Links(i)' - Links(i) + Credit(p, i)' - Credit(p, i)
    <3> SUFFICES ASSUME NEW i \in Inodes
                 PROVE  dinode'[i].nlink - dinode[i].nlink = Links(i)' - Links(i) + Credit(p, i)' - Credit(p, i)
      OBVIOUS
    <3>1. Links(i) \in Nat /\ Credit(p, i) \in Nat /\ dinode[i].nlink \in Nat
      BY <1>1, LinksNat, OwedStep, Types
    <3> QED
      BY <1>1, <1>7, <3>1 DEF Quiet
  <2> QED
    BY <1>1, <2>1, EnoughKept DEF Quiet
<1>9. Live'
  <2>1. LiveAt(p)'
    <3>1. \A i \in Inodes : Points(p, i)' => Used(i)
      BY DEF Quiet, NewPoints, Good
    <3>2. /\ cwd'[p] \in Inodes /\ file'[p] \in Inodes \cup {NoInode}
          /\ dp'[p] \in Inodes \cup {NoInode} /\ ip'[p] \in Inodes \cup {NoInode}
      BY <1>1 DEF Values, TypeOK
    <3>3. Front(p)' \in Inodes \cup {NoInode} /\ Back(p)' \in Inodes \cup {NoInode}
      <4>1. puts'[p] \in Seq(Inodes) /\ Len(puts'[p]) <= 2
        BY <1>1 DEF Values
      <4> QED
        BY <4>1 DEF Front, Back, Put
    <3>4. pc'[p] \notin Entering \cup {"unparent"}
      BY DEF Quiet, LiveHere
    <3> QED
      BY <1>1, <3>1, <3>2, <3>3, <3>4 DEF LiveAt, Used, Points, Quiet, LiveHere
  <2> QED
    BY <1>1, <1>8, <2>1, LiveKept
<1>10. OnlyDirs'
  BY <1>1, <1>7 DEF OnlyDirs
<1>11. Found'
  <2>1. FoundAt(p)'
    BY DEF FoundAt, Quiet, LiveHere
  <2> QED
    BY <1>1, <2>1, FoundKept
<1>12. Clean' => Clean
  BY DEF Quiet, Clean
<1>13. Bare'
  BY <1>7, <1>12 DEF Bare
<1>14. Named'
  <2>1. ~MakesDir(p)'
    BY DEF MakesDir, Quiet, LiveHere, Entering
  <2> QED
    BY <1>1, <1>7, <1>12, <2>1, NamedKept
<1> QED
  BY <1>1, <1>2, <1>3, <1>4, <1>5, <1>6, <1>8, <1>9, <1>10, <1>11, <1>13, <1>14

LEMMA QuietReads ==
  ASSUME FilesInv, NEW p \in Procs, Quiet(p),
         \A i \in Inodes : CopyKept(i) \/ CopyRead(i)
  PROVE  FilesInv'
<1> USE DEF FilesInv
<1>1. dinode' = dinode /\ dents' = dents /\ Calm(p)
  BY DEF Quiet, disk
<1>2. \A i \in Inodes : ref[i] \in Nat /\ ref'[i] \in Nat
  BY Types DEF Quiet, Values, TypeOK
<1>3. CopiedStep
  <2> SUFFICES ASSUME NEW i \in Inodes, valid'[i]
               PROVE  ref'[i] > 0 /\ (inode'[i] = dinode'[i] \/ (valid[i] /\ Gone(i)))
    BY DEF CopiedStep
  <2> QED
    BY <1>1, <1>2 DEF CopyKept, CopyRead, Copies
<1>4. Undisturbed
  BY <1>1 DEF Undisturbed, CopyKept, CopyRead, Good, IsEmpty
<1>5. Kept'
  <2> SUFFICES ASSUME boots = 0, NEW i \in Inodes, Used(i), dinode[i].nlink = 0
               PROVE  ref'[i] > 0 /\ (valid'[i] \/ IsFresh(i)')
    BY <1>1 DEF Kept, Quiet, Used
  <2>1. ref[i] > 0 /\ (valid[i] \/ IsFresh(i))
    BY DEF Kept
  <2>2. IsFresh(i)' <=> IsFresh(i)
    BY <1>1, SafeKept
  <2> QED
    BY <1>2, <2>1, <2>2 DEF CopyKept, CopyRead
<1> QED
  BY <1>3, <1>4, <1>5, QuietKeeps
-----------------------------------------------------------------------------
(* How the locals of p change, and nobody else's. *)
Becomes(p, at, c, s, d, i, u) ==
  /\ pc'[p] = at /\ call'[p] = c /\ path'[p] = s /\ dp'[p] = d /\ ip'[p] = i /\ puts'[p] = u
  /\ \A q \in Procs \ {p} :
       /\ pc'[q] = pc[q] /\ call'[q] = call[q] /\ path'[q] = path[q]
       /\ dp'[q] = dp[q] /\ ip'[q] = ip[q] /\ puts'[q] = puts[q]
  /\ pc' \in [Procs -> Places] /\ call' \in [Procs -> {NoCall, LinkTo} \cup calls]
  /\ path' \in [Procs -> Seq(Names)] /\ puts' \in [Procs -> Seq(Inodes)]
  /\ \A q \in Procs : Len(puts'[q]) <= 2
  /\ dp' \in [Procs -> Inodes \cup {NoInode}] /\ ip' \in [Procs -> Inodes \cup {NoInode}]

LEMMA NamesAreEntries ==
  ASSUME NEW s \in Seq(Names)
  PROVE  s \in Seq(Entries)
<1>1. Names \subseteq Entries
  BY Constants
<1> QED
  BY <1>1

LEMMA LocalFields ==
  ASSUME Values
  PROVE  /\ pc \in [Procs -> Places] /\ call \in [Procs -> {NoCall, LinkTo} \cup calls]
         /\ path \in [Procs -> Seq(Names)] /\ puts \in [Procs -> Seq(Inodes)]
         /\ \A q \in Procs : Len(puts[q]) <= 2
         /\ dp \in [Procs -> Inodes \cup {NoInode}] /\ ip \in [Procs -> Inodes \cup {NoInode}]
  BY DEF Values

LEMMA SharedFields ==
  ASSUME Values
  PROVE  /\ dinode \in [Inodes -> [type : {"free", "file", "dir", "dev"}, nlink : Nat]]
         /\ dents \in [Inodes -> [Entries -> Inodes \cup {NoInode}]]
         /\ ref \in [Inodes -> Nat] /\ busy \in [Inodes -> Procs \cup {NoProc}]
         /\ valid \in [Inodes -> BOOLEAN]
         /\ inode \in [Inodes -> [type : {"free", "file", "dir", "dev"}, nlink : Nat]]
         /\ cwd \in [Procs -> Inodes] /\ file \in [Procs -> Inodes \cup {NoInode}]
         /\ stage \in [Procs -> {"no", "trunc", "free", "drop"}]
         /\ panicked \in {"no", "iput", "ilock", "unlink", "ialloc"} /\ lost \in BOOLEAN
         /\ calls \in Workloads /\ boots \in Nat
  BY DEF Values, TypeOK

LEMMA ValuesKept ==
  ASSUME Values, NEW p \in Procs, NEW at, NEW c, NEW s, NEW d, NEW i, NEW u,
         Becomes(p, at, c, s, d, i, u),
         dinode' \in [Inodes -> [type : {"free", "file", "dir", "dev"}, nlink : Nat]],
         dents' \in [Inodes -> [Entries -> Inodes \cup {NoInode}]],
         ref' \in [Inodes -> Nat], busy' \in [Inodes -> Procs \cup {NoProc}],
         valid' \in [Inodes -> BOOLEAN],
         inode' \in [Inodes -> [type : {"free", "file", "dir", "dev"}, nlink : Nat]],
         cwd' \in [Procs -> Inodes], file' \in [Procs -> Inodes \cup {NoInode}],
         stage' \in [Procs -> {"no", "trunc", "free", "drop"}],
         panicked' \in {"no", "iput", "ilock", "unlink", "ialloc"}, lost' \in BOOLEAN,
         calls' = calls, boots' \in Nat
  PROVE  Values'
<1>1. calls' \in Workloads
  BY SharedFields
<1>2. \A q \in Procs : path'[q] \in Seq(Entries)
  <2>1. \A q \in Procs : path'[q] \in Seq(Names)
    BY DEF Becomes
  <2> QED
    BY <2>1, NamesAreEntries
<1>3. \A q \in Procs : /\ dp'[q] \in Inodes \cup {NoInode} /\ ip'[q] \in Inodes \cup {NoInode}
                       /\ puts'[q] \in Seq(Inodes)
  BY DEF Becomes
<1>4. TypeOK'
  BY <1>2, <1>3 DEF TypeOK
<1> QED
  BY <1>1, <1>4 DEF Values, Becomes

LEMMA ReturnBecomes ==
  ASSUME Values, NEW p \in Procs, NEW u \in Seq(Inodes), Len(u) <= 2, Return(p, u)
  PROVE  Becomes(p, "user", NoCall, <<>>, NoInode, NoInode, u)
<1>1. /\ pc' = [pc EXCEPT ![p] = "user"] /\ puts' = [puts EXCEPT ![p] = u]
      /\ call' = [call EXCEPT ![p] = NoCall] /\ path' = [path EXCEPT ![p] = <<>>]
      /\ dp' = [dp EXCEPT ![p] = NoInode] /\ ip' = [ip EXCEPT ![p] = NoInode]
  BY DEF Return, Goto, Set
<1>2. <<>> \in Seq(Names) /\ "user" \in Places
  BY DEF Places
<1> QED
  BY <1>1, <1>2, LocalFields DEF Becomes

LEMMA Nothing ==
  ASSUME NEW i \in Inodes
  PROVE  Is(NoInode, i) = 0 /\ \A x : Is(x, i) \in {0, 1} /\ (Is(x, i) = 1 <=> x = i)
  BY Constants DEF Is

LEMMA PointsOwn ==
  ASSUME NEW p \in Procs, NEW i \in Inodes
  PROVE  /\ Points(p, i) <=> Own(p, i) # 0
         /\ Points(p, i)' <=> Own(p, i)' # 0
         /\ Own(p, i) \in Nat /\ Own(p, i)' \in Nat
<1>1. /\ Points(p, i) <=> Own(p, i) # 0
      /\ Own(p, i) \in Nat
  BY DEF Points, Own, Is
<1>2. Points(p, i)' <=> /\ \/ cwd'[p] = i \/ file'[p] = i \/ dp'[p] = i \/ ip'[p] = i
                           \/ Front(p)' = i \/ Back(p)' = i
  BY DEF Points
<1>3. Own(p, i)' = Is(cwd'[p], i) + Is(file'[p], i) + Is(dp'[p], i) + Is(ip'[p], i)
                      + Is(Front(p)', i) + Is(Back(p)', i)
  BY DEF Own, Is
<1>4. Own(p, i)' # 0 <=> Points(p, i)'
  BY <1>2, <1>3 DEF Is
<1>5. Own(p, i)' \in Nat
  BY <1>3 DEF Is
<1> QED
  BY <1>1, <1>4, <1>5
-----------------------------------------------------------------------------
(* A call that returns, or link() that goes to bad:, without a change to   *)
(* the disk.                                                               *)
LEMMA ReturnQuiet ==
  ASSUME FilesInv, NEW p \in Procs, puts[p] = <<>>, pc[p] # "fresh",
         NEW u \in Seq(Inodes), Len(u) <= 2, Return(p, u),
         UNCHANGED <<disk, ref, stage, ghost>>,
         cwd' \in [Procs -> Inodes], file' \in [Procs -> Inodes \cup {NoInode}],
         \A q \in Procs \ {p} : cwd'[q] = cwd[q] /\ file'[q] = file[q],
         \A i \in Inodes : Own(p, i)' = Own(p, i) /\ Credit(p, i) = 0,
         busy' \in [Inodes -> Procs \cup {NoProc}],
         \A i \in Inodes : busy'[i] # p,
         \A i \in Inodes, q \in Procs : q # p => (busy'[i] = q <=> busy[i] = q),
         valid' \in [Inodes -> BOOLEAN],
         inode' \in [Inodes -> [type : {"free", "file", "dir", "dev"}, nlink : Nat]],
         \A i \in Inodes : CopyKept(i) \/ CopyRead(i)
  PROVE  FilesInv'
<1>1. Values /\ stage[p] = "no"
  BY ReadyFacts DEF FilesInv
<1>2. Becomes(p, "user", NoCall, <<>>, NoInode, NoInode, u)
  BY <1>1, ReturnBecomes
<1>3. /\ dinode' = dinode /\ dents' = dents /\ ref' = ref /\ stage' = stage
      /\ panicked' = panicked /\ boots' = boots /\ calls' = calls /\ lost' = lost
  BY DEF disk, ghost
<1>4. Values'
  BY <1>1, <1>2, <1>3, SharedFields, ValuesKept
<1>5. /\ pc'[p] = "user" /\ call'[p] = NoCall /\ path'[p] = <<>> /\ dp'[p] = NoInode
      /\ ip'[p] = NoInode /\ stage'[p] = "no"
  BY <1>1, <1>2, <1>3 DEF Becomes
<1>6. Calm(p)
  BY <1>1, <1>2, <1>3, <1>5 DEF Calm, Rest, Becomes
<1>7. NoCall.op = "none" /\ NoInode \notin Inodes
  BY Constants DEF NoCall
<1>8. Shape(p)'
  BY <1>5, <1>7 DEF Shape, NeedsDp, Entering, Creates, Unlinks
<1>9. NewPoints(p)
  BY <1>1, OwnGood, PointsOwn DEF NewPoints
<1>10. Counts(p)
  BY <1>1, <1>3, PointsOwn, Types DEF Counts
<1>11. Unlocks(p)
  <2>1. \A i \in Inodes : ~Holds(p, i)'
    BY <1>5 DEF Holds, NeedsDp, NeedsIp, Entering
  <2> QED
    BY <2>1 DEF Unlocks
<1>12. LiveHere(p)
  BY <1>5, <1>7 DEF LiveHere, NeedsDp, Entering
<1>13. \A i \in Inodes : Credit(p, i)' = Credit(p, i)
  <2> SUFFICES ASSUME NEW i \in Inodes PROVE Credit(p, i)' = 0
    OBVIOUS
  <2>1. OwedIp'[p] = NoInode /\ OwedDp'[p] = NoInode
    BY <1>5, <1>7, OwedFields
  <2> QED
    BY <2>1, <1>7 DEF Credit, Is
<1>14. Quiet(p)
  BY <1>3, <1>4, <1>6, <1>8, <1>9, <1>10, <1>11, <1>12, <1>13 DEF Quiet, disk
<1> QED
  BY <1>14, QuietReads

LEMMA BadQuiet ==
  ASSUME FilesInv, NEW p \in Procs, puts[p] = <<>>, pc[p] \in {"walk", "fail", "linkfail"},
         call[p].op = "linkto",
         pc' = [pc EXCEPT ![p] = "bad"], puts' = [puts EXCEPT ![p] = <<dp[p]>>],
         path' = [path EXCEPT ![p] = <<>>], dp' = [dp EXCEPT ![p] = NoInode],
         UNCHANGED <<call, ip, disk, ref, stage, ghost, cwd, file>>,
         busy' \in [Inodes -> Procs \cup {NoProc}],
         \A i \in Inodes : busy'[i] # p,
         \A i \in Inodes, q \in Procs : q # p => (busy'[i] = q <=> busy[i] = q),
         valid' \in [Inodes -> BOOLEAN],
         inode' \in [Inodes -> [type : {"free", "file", "dir", "dev"}, nlink : Nat]],
         \A i \in Inodes : CopyKept(i) \/ CopyRead(i)
  PROVE  FilesInv'
<1>1. Values /\ stage[p] = "no" /\ Front(p) = NoInode /\ Back(p) = NoInode /\ Shape(p)
  BY ReadyFacts DEF FilesInv, Shapes
<1>2. dp[p] \in Inodes /\ ip[p] \in Inodes
  BY <1>1 DEF Shape, NeedsDp
<1>3. /\ dinode' = dinode /\ dents' = dents /\ ref' = ref /\ stage' = stage
      /\ panicked' = panicked /\ boots' = boots /\ calls' = calls /\ lost' = lost
      /\ call' = call /\ ip' = ip /\ cwd' = cwd /\ file' = file
  BY DEF disk, ghost
<1>4. <<dp[p]>> \in Seq(Inodes) /\ Len(<<dp[p]>>) = 1 /\ <<>> \in Seq(Names) /\ "bad" \in Places
  BY <1>2 DEF Places
<1>5. Becomes(p, "bad", call[p], <<>>, NoInode, ip[p], <<dp[p]>>)
  BY <1>1, <1>3, <1>4, LocalFields DEF Becomes
<1>6. Values'
  BY <1>1, <1>3, <1>5, SharedFields, ValuesKept
<1>7. /\ pc'[p] = "bad" /\ call'[p] = call[p] /\ path'[p] = <<>> /\ dp'[p] = NoInode
      /\ ip'[p] = ip[p] /\ stage'[p] = "no" /\ Front(p)' = dp[p] /\ Back(p)' = NoInode
  BY <1>1, <1>3, <1>5, PutsAre DEF Becomes
<1>8. Calm(p)
  BY <1>1, <1>3, <1>5, <1>7 DEF Calm, Rest, Becomes
<1>9. Shape(p)'
  BY <1>1, <1>2, <1>7, Constants DEF Shape, NeedsDp, Entering, Creates, Unlinks, NoCall
<1>10. \A i \in Inodes : Own(p, i)' = Own(p, i)
  <2> SUFFICES ASSUME NEW i \in Inodes PROVE Own(p, i)' = Own(p, i)
    OBVIOUS
  <2>1. Own(p, i)' = Is(cwd[p], i) + Is(file[p], i) + Is(NoInode, i) + Is(ip[p], i)
                        + Is(dp[p], i) + Is(NoInode, i)
    BY <1>3, <1>7 DEF Own, Is
  <2> QED
    BY <1>1, <2>1 DEF Own, Is
<1>11. NewPoints(p)
  BY <1>1, <1>10, OwnGood, PointsOwn DEF NewPoints
<1>12. Counts(p)
  BY <1>1, <1>3, <1>10, PointsOwn, Types DEF Counts
<1>13. Unlocks(p)
  <2>1. \A i \in Inodes : ~Holds(p, i)'
    BY <1>7 DEF Holds, NeedsDp, NeedsIp, Entering
  <2> QED
    BY <2>1 DEF Unlocks
<1>14. LiveHere(p)
  BY <1>2, <1>7 DEF LiveHere, NeedsDp, Entering, FilesInv, Live, LiveAt
<1>15. \A i \in Inodes : Credit(p, i)' = Credit(p, i)
  <2>1. OwedIp'[p] = ip[p] /\ OwedDp'[p] = NoInode /\ OwedIp[p] = ip[p] /\ OwedDp[p] = NoInode
    BY <1>7, OwedFields
  <2> QED
    BY <2>1 DEF Credit, Is
<1>16. Quiet(p)
  BY <1>3, <1>6, <1>8, <1>9, <1>11, <1>12, <1>13, <1>14, <1>15 DEF Quiet, disk
<1> QED
  BY <1>16, QuietReads

(* ilock() of an inode the process may lock. *)
LEMMA ReadStep ==
  ASSUME FilesInv, NEW j \in Inodes, Good(j), ref[j] > 0, Read(j),
         ref' \in [Inodes -> Nat], \A i \in Inodes : ref'[i] >= ref[i]
  PROVE  /\ valid' \in [Inodes -> BOOLEAN]
         /\ inode' \in [Inodes -> [type : {"free", "file", "dir", "dev"}, nlink : Nat]]
         /\ \A i \in Inodes : CopyKept(i) \/ CopyRead(i)
<1>1. Inode(j) = dinode[j]
  BY SafeSeen DEF Good
<1>2. /\ inode' = [inode EXCEPT ![j] = dinode[j]] /\ valid' = [valid EXCEPT ![j] = TRUE]
  BY <1>1 DEF Read
<1>3. /\ \A i \in Inodes : inode'[i] = IF i = j THEN dinode[j] ELSE inode[i]
      /\ \A i \in Inodes : valid'[i] = IF i = j THEN TRUE ELSE valid[i]
      /\ valid' \in [Inodes -> BOOLEAN]
      /\ inode' \in [Inodes -> [type : {"free", "file", "dir", "dev"}, nlink : Nat]]
  BY <1>2, SharedFields DEF FilesInv
<1> QED
  BY <1>3 DEF CopyKept, CopyRead

(* What p points to, it may lock. *)
LEMMA OwnLock ==
  ASSUME FilesInv, NEW p \in Procs, puts[p] = <<>>, pc[p] # "fresh",
         NEW j \in Inodes, Points(p, j)
  PROVE  Good(j) /\ ref[j] > 0 /\ Inode(j) = dinode[j]
<1>1. stage[p] = "no"
  BY ReadyFacts
<1>2. Good(j) /\ ref[j] > 0
  BY <1>1, OwnGood, RefSole DEF FilesInv
<1> QED
  BY <1>2, SafeSeen DEF Good
-----------------------------------------------------------------------------
LEMMA NoCredit ==
  ASSUME NEW p \in Procs, pc[p] \notin {"parent", "dots", "enter", "unparent", "unname"},
         call[p].op # "linkto", NEW i \in Inodes
  PROVE  Credit(p, i) = 0
<1>1. OwedIp[p] = NoInode /\ OwedDp[p] = NoInode
  BY OwedFields
<1> QED
  BY <1>1, Constants DEF Credit, Is

(* The pointers of a process that returns. *)
LEMMA OwnBefore ==
  ASSUME NEW p \in Procs, puts[p] = <<>>, NEW i \in Inodes
  PROVE  Own(p, i) = Is(cwd[p], i) + Is(file[p], i) + Is(dp[p], i) + Is(ip[p], i)
<1>1. Front(p) = NoInode /\ Back(p) = NoInode
  BY DEF Front, Back, Put
<1> QED
  BY <1>1, Nothing DEF Own, Is
LEMMA OwnReturned ==
  ASSUME Values, NEW p \in Procs, NEW u, Return(p, u), NEW i \in Inodes
  PROVE  /\ u = <<>> => Own(p, i)' = Is(cwd'[p], i) + Is(file'[p], i)
         /\ \A a : u = <<a>> => Own(p, i)' = Is(cwd'[p], i) + Is(file'[p], i) + Is(a, i)
         /\ \A a, b : u = <<a, b>> => Own(p, i)' = Is(cwd'[p], i) + Is(file'[p], i) + Is(a, i) + Is(b, i)
<1>1. puts'[p] = u /\ dp'[p] = NoInode /\ ip'[p] = NoInode
  BY LocalFields DEF Return, Set
<1>2. Own(p, i)' = Is(cwd'[p], i) + Is(file'[p], i) + Is(Front(p)', i) + Is(Back(p)', i)
  <2>1. Own(p, i)' = Is(cwd'[p], i) + Is(file'[p], i) + Is(dp'[p], i) + Is(ip'[p], i)
                        + Is(Front(p)', i) + Is(Back(p)', i)
    BY DEF Own, Is
  <2> QED
    BY <1>1, <2>1, Constants DEF Is
<1>3. CASE u = <<>>
  <2>1. Front(p)' = NoInode /\ Back(p)' = NoInode
    BY <1>1, <1>3, PutsAre
  <2> QED
    BY <1>2, <1>3, <2>1, Constants DEF Is
<1>4. ASSUME NEW a, u = <<a>>
      PROVE  Own(p, i)' = Is(cwd'[p], i) + Is(file'[p], i) + Is(a, i)
  <2>1. Front(p)' = a /\ Back(p)' = NoInode
    BY <1>1, <1>4, PutsAre
  <2> QED
    BY <1>2, <2>1, Constants DEF Is
<1>5. ASSUME NEW a, NEW b, u = <<a, b>>
      PROVE  Own(p, i)' = Is(cwd'[p], i) + Is(file'[p], i) + Is(a, i) + Is(b, i)
  <2>1. Front(p)' = a /\ Back(p)' = b
    BY <1>1, <1>5, PutsAre
  <2> QED
    BY <1>2, <2>1, Constants DEF Is
<1> QED
  BY <1>3, <1>4, <1>5

(* Who holds no inode leaves I_BUSY alone. *)
LEMMA BusyKept ==
  ASSUME FilesInv, NEW p \in Procs, puts[p] = <<>>, pc[p] \notin NeedsDp \cup NeedsIp, busy' = busy
  PROVE  /\ busy' \in [Inodes -> Procs \cup {NoProc}]
         /\ \A i \in Inodes : busy'[i] # p
         /\ \A i \in Inodes, q \in Procs : q # p => (busy'[i] = q <=> busy[i] = q)
<1>1. stage[p] = "no"
  BY ReadyFacts
<1> QED
  BY <1>1, SharedFields DEF FilesInv, Locked, Holds

LEMMA IunlockStep ==
  ASSUME FilesInv, NEW p \in Procs, puts[p] = <<>>, NEW j \in Inodes, Iunlock(j),
         \A i \in Inodes : Holds(p, i) <=> i = j
  PROVE  /\ busy' \in [Inodes -> Procs \cup {NoProc}]
         /\ \A i \in Inodes : busy'[i] # p
         /\ \A i \in Inodes, q \in Procs : q # p => (busy'[i] = q <=> busy[i] = q)
<1>1. \A i \in Inodes : busy'[i] = IF i = j THEN NoProc ELSE busy[i]
  BY SharedFields DEF Iunlock, FilesInv
<1>2. busy' \in [Inodes -> Procs \cup {NoProc}]
  BY SharedFields DEF Iunlock, FilesInv
<1>3. \A i \in Inodes : busy[i] = p <=> i = j
  BY DEF FilesInv, Locked
<1> QED
  BY <1>1, <1>2, <1>3, Constants

LEMMA CloseKeeps ==
  ASSUME FilesInv, NEW p \in Procs, Close(p)
  PROVE  FilesInv'
<1>1. /\ pc[p] = "user" /\ puts[p] = <<>> /\ file[p] \in Inodes
      /\ file' = [file EXCEPT ![p] = NoInode] /\ Return(p, <<file[p]>>)
  BY Types DEF Close, Ready, Set, FilesInv
<1>2. /\ UNCHANGED <<disk, ref, stage, ghost>> /\ busy' = busy /\ valid' = valid
      /\ inode' = inode /\ cwd' = cwd
  BY DEF Close, icache
<1>3. call[p].op = "none" /\ dp[p] = NoInode /\ ip[p] = NoInode
  BY <1>1, Types DEF FilesInv, Shapes, Shape, NeedsDp, Entering, Creates, Unlinks, NoCall
<1>4. /\ \A q \in Procs : file'[q] = IF q = p THEN NoInode ELSE file[q]
      /\ file' \in [Procs -> Inodes \cup {NoInode}]
  BY <1>1, SharedFields DEF FilesInv
<1>5. \A i \in Inodes : Own(p, i)' = Own(p, i) /\ Credit(p, i) = 0
  BY <1>1, <1>2, <1>3, <1>4, OwnBefore, OwnReturned, NoCredit, Constants DEF FilesInv, Is
<1>6. \A i \in Inodes : CopyKept(i)
  BY <1>2, Types DEF CopyKept, FilesInv
<1>7. pc[p] \notin NeedsDp \cup NeedsIp
  BY <1>1 DEF NeedsDp, NeedsIp, Entering
<1>8. /\ busy' \in [Inodes -> Procs \cup {NoProc}]
      /\ \A i \in Inodes : busy'[i] # p
      /\ \A i \in Inodes, q \in Procs : q # p => (busy'[i] = q <=> busy[i] = q)
  BY <1>1, <1>2, <1>7, BusyKept
<1>9. <<file[p]>> \in Seq(Inodes) /\ Len(<<file[p]>>) = 1
  BY <1>1
<1>10. /\ cwd' \in [Procs -> Inodes] /\ valid' \in [Inodes -> BOOLEAN]
       /\ inode' \in [Inodes -> [type : {"free", "file", "dir", "dev"}, nlink : Nat]]
  BY <1>2, SharedFields DEF FilesInv
<1>11. \A q \in Procs \ {p} : cwd'[q] = cwd[q] /\ file'[q] = file[q]
  BY <1>2, <1>4
<1>12. \A i \in Inodes : CopyKept(i) \/ CopyRead(i)
  BY <1>6
<1>13. pc[p] # "fresh" /\ Len(<<file[p]>>) <= 2
  BY <1>1, <1>9
<1> QED
  BY <1>1, <1>2, <1>4, <1>5, <1>8, <1>9, <1>10, <1>11, <1>12, <1>13, ReturnQuiet
LEMMA OpenKeeps ==
  ASSUME FilesInv, NEW p \in Procs, Open(p)
  PROVE  FilesInv'
<1>1. /\ pc[p] = "at" /\ call[p].op \in {"open", "openw"} /\ puts[p] = <<>>
      /\ Read(dp[p])
  BY DEF Open, Ready
<1>2. /\ UNCHANGED <<disk, ref, stage, ghost>> /\ busy' = busy /\ cwd' = cwd
  BY DEF Open, places
<1>3. /\ dp[p] \in Inodes /\ ip[p] = NoInode
      /\ call[p].op # "linkto" /\ pc[p] \notin {"fresh", "parent", "dots", "enter", "unparent", "unname"}
  BY <1>1, Types DEF FilesInv, Shapes, Shape, NeedsDp, Entering, Creates, Unlinks, Creating, Kind, ForParent
<1>4. Values /\ cwd[p] \in Inodes /\ file[p] \in Inodes \cup {NoInode}
  BY Types DEF FilesInv
<1>5. Good(dp[p]) /\ ref[dp[p]] > 0
  BY <1>1, <1>3, OwnLock DEF Points
<1>6. ref' \in [Inodes -> Nat] /\ \A i \in Inodes : ref'[i] >= ref[i]
  BY <1>2, <1>4, SharedFields
<1>7. /\ valid' \in [Inodes -> BOOLEAN]
      /\ inode' \in [Inodes -> [type : {"free", "file", "dir", "dev"}, nlink : Nat]]
      /\ \A i \in Inodes : CopyKept(i) \/ CopyRead(i)
  BY <1>1, <1>3, <1>5, <1>6, ReadStep
<1>8. /\ busy' \in [Inodes -> Procs \cup {NoProc}]
      /\ \A i \in Inodes : busy'[i] # p
      /\ \A i \in Inodes, q \in Procs : q # p => (busy'[i] = q <=> busy[i] = q)
  <2>1. pc[p] \notin NeedsDp \cup NeedsIp
    BY <1>1 DEF NeedsDp, NeedsIp, Entering
  <2> QED
    BY <1>1, <1>2, <2>1, BusyKept
<1>9. CASE file[p] # NoInode \/ (IsDir(dp[p]) /\ call[p].op = "openw")
  <2>1. /\ Return(p, <<dp[p]>>)
        /\ file' = file
    BY <1>9, <1>3 DEF Open, GetFile, Set
  <2>2. /\ \A q \in Procs : file'[q] = file[q]
        /\ \A q \in Procs : cwd'[q] = cwd[q]
        /\ cwd' \in [Procs -> Inodes] /\ file' \in [Procs -> Inodes \cup {NoInode}]
    BY <1>2, <1>3, <1>4, <2>1, SharedFields
  <2>3. <<dp[p]>> \in Seq(Inodes) /\ Len(<<dp[p]>>) <= 2
    BY <1>3, <1>4
  <2>4. \A i \in Inodes : Own(p, i)' = Own(p, i) /\ Credit(p, i) = 0
    <3> SUFFICES ASSUME NEW i \in Inodes PROVE Own(p, i)' = Own(p, i) /\ Credit(p, i) = 0
      OBVIOUS
    <3>1. Own(p, i) = Is(cwd[p], i) + Is(file[p], i) + Is(dp[p], i) + Is(ip[p], i) /\ Credit(p, i) = 0
      BY <1>1, <1>3, OwnBefore, NoCredit
    <3>2. Own(p, i)' = Is(cwd'[p], i) + Is(file'[p], i) + Is(dp[p], i)
      BY <1>4, <2>1, OwnReturned
    <3> QED
      BY <1>9, <1>3, <1>4, <2>2, <3>1, <3>2, Constants DEF Is
  <2>5. \A q \in Procs \ {p} : cwd'[q] = cwd[q] /\ file'[q] = file[q]
    BY <2>2
  <2> QED
    BY <1>1, <1>2, <1>3, <1>7, <1>8, <2>1, <2>2, <2>3, <2>4, <2>5, ReturnQuiet
<1>10. CASE ~(file[p] # NoInode \/ (IsDir(dp[p]) /\ call[p].op = "openw"))
  <2>1. /\ Return(p, <<>>)
        /\ file' = [file EXCEPT ![p] = dp[p]]
    BY <1>10, <1>3 DEF Open, GetFile, Set
  <2>2. /\ \A q \in Procs : file'[q] = IF q = p THEN dp[p] ELSE file[q]
        /\ \A q \in Procs : cwd'[q] = cwd[q]
        /\ cwd' \in [Procs -> Inodes] /\ file' \in [Procs -> Inodes \cup {NoInode}]
    BY <1>2, <1>3, <1>4, <2>1, SharedFields
  <2>3. <<>> \in Seq(Inodes) /\ Len(<<>>) <= 2
    BY <1>3, <1>4
  <2>4. \A i \in Inodes : Own(p, i)' = Own(p, i) /\ Credit(p, i) = 0
    <3> SUFFICES ASSUME NEW i \in Inodes PROVE Own(p, i)' = Own(p, i) /\ Credit(p, i) = 0
      OBVIOUS
    <3>1. Own(p, i) = Is(cwd[p], i) + Is(file[p], i) + Is(dp[p], i) + Is(ip[p], i) /\ Credit(p, i) = 0
      BY <1>1, <1>3, OwnBefore, NoCredit
    <3>2. Own(p, i)' = Is(cwd'[p], i) + Is(file'[p], i)
      BY <1>4, <2>1, OwnReturned
    <3> QED
      BY <1>10, <1>3, <1>4, <2>2, <3>1, <3>2, Constants DEF Is
  <2>5. \A q \in Procs \ {p} : cwd'[q] = cwd[q] /\ file'[q] = file[q]
    BY <2>2
  <2> QED
    BY <1>1, <1>2, <1>3, <1>7, <1>8, <2>1, <2>2, <2>3, <2>4, <2>5, ReturnQuiet
<1> QED
  BY <1>9, <1>10

LEMMA ChdirKeeps ==
  ASSUME FilesInv, NEW p \in Procs, Chdir(p)
  PROVE  FilesInv'
<1>1. /\ pc[p] = "at" /\ call[p].op = "chdir" /\ puts[p] = <<>>
      /\ Read(dp[p])
  BY DEF Chdir, Ready
<1>2. /\ UNCHANGED <<disk, ref, stage, ghost>> /\ busy' = busy /\ file' = file
  BY DEF Chdir, places
<1>3. /\ dp[p] \in Inodes /\ ip[p] = NoInode
      /\ call[p].op # "linkto" /\ pc[p] \notin {"fresh", "parent", "dots", "enter", "unparent", "unname"}
  BY <1>1, Types DEF FilesInv, Shapes, Shape, NeedsDp, Entering, Creates, Unlinks, Creating, Kind, ForParent
<1>4. Values /\ cwd[p] \in Inodes /\ file[p] \in Inodes \cup {NoInode}
  BY Types DEF FilesInv
<1>5. Good(dp[p]) /\ ref[dp[p]] > 0
  BY <1>1, <1>3, OwnLock DEF Points
<1>6. ref' \in [Inodes -> Nat] /\ \A i \in Inodes : ref'[i] >= ref[i]
  BY <1>2, <1>4, SharedFields
<1>7. /\ valid' \in [Inodes -> BOOLEAN]
      /\ inode' \in [Inodes -> [type : {"free", "file", "dir", "dev"}, nlink : Nat]]
      /\ \A i \in Inodes : CopyKept(i) \/ CopyRead(i)
  BY <1>1, <1>3, <1>5, <1>6, ReadStep
<1>8. /\ busy' \in [Inodes -> Procs \cup {NoProc}]
      /\ \A i \in Inodes : busy'[i] # p
      /\ \A i \in Inodes, q \in Procs : q # p => (busy'[i] = q <=> busy[i] = q)
  <2>1. pc[p] \notin NeedsDp \cup NeedsIp
    BY <1>1 DEF NeedsDp, NeedsIp, Entering
  <2> QED
    BY <1>1, <1>2, <2>1, BusyKept
<1>9. CASE IsDir(dp[p])
  <2>1. /\ Return(p, <<cwd[p]>>)
        /\ cwd' = [cwd EXCEPT ![p] = dp[p]]
    BY <1>9, <1>3 DEF Chdir, GetFile, Set
  <2>2. /\ \A q \in Procs : file'[q] = file[q]
        /\ \A q \in Procs : cwd'[q] = IF q = p THEN dp[p] ELSE cwd[q]
        /\ cwd' \in [Procs -> Inodes] /\ file' \in [Procs -> Inodes \cup {NoInode}]
    BY <1>2, <1>3, <1>4, <2>1, SharedFields
  <2>3. <<cwd[p]>> \in Seq(Inodes) /\ Len(<<cwd[p]>>) <= 2
    BY <1>3, <1>4
  <2>4. \A i \in Inodes : Own(p, i)' = Own(p, i) /\ Credit(p, i) = 0
    <3> SUFFICES ASSUME NEW i \in Inodes PROVE Own(p, i)' = Own(p, i) /\ Credit(p, i) = 0
      OBVIOUS
    <3>1. Own(p, i) = Is(cwd[p], i) + Is(file[p], i) + Is(dp[p], i) + Is(ip[p], i) /\ Credit(p, i) = 0
      BY <1>1, <1>3, OwnBefore, NoCredit
    <3>2. Own(p, i)' = Is(cwd'[p], i) + Is(file'[p], i) + Is(cwd[p], i)
      BY <1>4, <2>1, OwnReturned
    <3> QED
      BY <1>9, <1>3, <1>4, <2>2, <3>1, <3>2, Constants DEF Is
  <2>5. \A q \in Procs \ {p} : cwd'[q] = cwd[q] /\ file'[q] = file[q]
    BY <2>2
  <2> QED
    BY <1>1, <1>2, <1>3, <1>7, <1>8, <2>1, <2>2, <2>3, <2>4, <2>5, ReturnQuiet
<1>10. CASE ~IsDir(dp[p])
  <2>1. /\ Return(p, <<dp[p]>>)
        /\ cwd' = cwd
    BY <1>10, <1>3 DEF Chdir, GetFile, Set
  <2>2. /\ \A q \in Procs : file'[q] = file[q]
        /\ \A q \in Procs : cwd'[q] = cwd[q]
        /\ cwd' \in [Procs -> Inodes] /\ file' \in [Procs -> Inodes \cup {NoInode}]
    BY <1>2, <1>3, <1>4, <2>1, SharedFields
  <2>3. <<dp[p]>> \in Seq(Inodes) /\ Len(<<dp[p]>>) <= 2
    BY <1>3, <1>4
  <2>4. \A i \in Inodes : Own(p, i)' = Own(p, i) /\ Credit(p, i) = 0
    <3> SUFFICES ASSUME NEW i \in Inodes PROVE Own(p, i)' = Own(p, i) /\ Credit(p, i) = 0
      OBVIOUS
    <3>1. Own(p, i) = Is(cwd[p], i) + Is(file[p], i) + Is(dp[p], i) + Is(ip[p], i) /\ Credit(p, i) = 0
      BY <1>1, <1>3, OwnBefore, NoCredit
    <3>2. Own(p, i)' = Is(cwd'[p], i) + Is(file'[p], i) + Is(dp[p], i)
      BY <1>4, <2>1, OwnReturned
    <3> QED
      BY <1>10, <1>3, <1>4, <2>2, <3>1, <3>2, Constants DEF Is
  <2>5. \A q \in Procs \ {p} : cwd'[q] = cwd[q] /\ file'[q] = file[q]
    BY <2>2
  <2> QED
    BY <1>1, <1>2, <1>3, <1>7, <1>8, <2>1, <2>2, <2>3, <2>4, <2>5, ReturnQuiet
<1> QED
  BY <1>9, <1>10

LEMMA CreateExistingKeeps ==
  ASSUME FilesInv, NEW p \in Procs, CreateExisting(p)
  PROVE  FilesInv'
<1>1. /\ pc[p] = "existing" /\ puts[p] = <<>>
      /\ Read(ip[p])
  BY DEF CreateExisting, Ready
<1>2. /\ UNCHANGED <<disk, ref, stage, ghost>> /\ busy' = busy /\ cwd' = cwd
  BY DEF CreateExisting, places
<1>3. /\ dp[p] = NoInode /\ ip[p] \in Inodes
      /\ call[p].op # "linkto" /\ pc[p] \notin {"fresh", "parent", "dots", "enter", "unparent", "unname"}
  BY <1>1, Types DEF FilesInv, Shapes, Shape, NeedsDp, Entering, Creates, Unlinks, Creating, Kind, ForParent
<1>4. Values /\ cwd[p] \in Inodes /\ file[p] \in Inodes \cup {NoInode}
  BY Types DEF FilesInv
<1>5. Good(ip[p]) /\ ref[ip[p]] > 0
  BY <1>1, <1>3, OwnLock DEF Points
<1>6. ref' \in [Inodes -> Nat] /\ \A i \in Inodes : ref'[i] >= ref[i]
  BY <1>2, <1>4, SharedFields
<1>7. /\ valid' \in [Inodes -> BOOLEAN]
      /\ inode' \in [Inodes -> [type : {"free", "file", "dir", "dev"}, nlink : Nat]]
      /\ \A i \in Inodes : CopyKept(i) \/ CopyRead(i)
  BY <1>1, <1>3, <1>5, <1>6, ReadStep
<1>8. /\ busy' \in [Inodes -> Procs \cup {NoProc}]
      /\ \A i \in Inodes : busy'[i] # p
      /\ \A i \in Inodes, q \in Procs : q # p => (busy'[i] = q <=> busy[i] = q)
  <2>1. pc[p] \notin NeedsDp \cup NeedsIp
    BY <1>1 DEF NeedsDp, NeedsIp, Entering
  <2> QED
    BY <1>1, <1>2, <2>1, BusyKept
<1>9. CASE call[p].op = "creat" /\ Inode(ip[p]).type = "file" /\ file[p] = NoInode
  <2>1. /\ Return(p, <<>>)
        /\ file' = [file EXCEPT ![p] = ip[p]]
    BY <1>9, <1>3 DEF CreateExisting, GetFile, Set
  <2>2. /\ \A q \in Procs : file'[q] = IF q = p THEN ip[p] ELSE file[q]
        /\ \A q \in Procs : cwd'[q] = cwd[q]
        /\ cwd' \in [Procs -> Inodes] /\ file' \in [Procs -> Inodes \cup {NoInode}]
    BY <1>2, <1>3, <1>4, <2>1, SharedFields
  <2>3. <<>> \in Seq(Inodes) /\ Len(<<>>) <= 2
    BY <1>3, <1>4
  <2>4. \A i \in Inodes : Own(p, i)' = Own(p, i) /\ Credit(p, i) = 0
    <3> SUFFICES ASSUME NEW i \in Inodes PROVE Own(p, i)' = Own(p, i) /\ Credit(p, i) = 0
      OBVIOUS
    <3>1. Own(p, i) = Is(cwd[p], i) + Is(file[p], i) + Is(dp[p], i) + Is(ip[p], i) /\ Credit(p, i) = 0
      BY <1>1, <1>3, OwnBefore, NoCredit
    <3>2. Own(p, i)' = Is(cwd'[p], i) + Is(file'[p], i)
      BY <1>4, <2>1, OwnReturned
    <3> QED
      BY <1>9, <1>3, <1>4, <2>2, <3>1, <3>2, Constants DEF Is
  <2>5. \A q \in Procs \ {p} : cwd'[q] = cwd[q] /\ file'[q] = file[q]
    BY <2>2
  <2> QED
    BY <1>1, <1>2, <1>3, <1>7, <1>8, <2>1, <2>2, <2>3, <2>4, <2>5, ReturnQuiet
<1>10. CASE ~(call[p].op = "creat" /\ Inode(ip[p]).type = "file" /\ file[p] = NoInode)
  <2>1. /\ Return(p, <<ip[p]>>)
        /\ file' = file
    BY <1>10, <1>3 DEF CreateExisting, GetFile, Set
  <2>2. /\ \A q \in Procs : file'[q] = file[q]
        /\ \A q \in Procs : cwd'[q] = cwd[q]
        /\ cwd' \in [Procs -> Inodes] /\ file' \in [Procs -> Inodes \cup {NoInode}]
    BY <1>2, <1>3, <1>4, <2>1, SharedFields
  <2>3. <<ip[p]>> \in Seq(Inodes) /\ Len(<<ip[p]>>) <= 2
    BY <1>3, <1>4
  <2>4. \A i \in Inodes : Own(p, i)' = Own(p, i) /\ Credit(p, i) = 0
    <3> SUFFICES ASSUME NEW i \in Inodes PROVE Own(p, i)' = Own(p, i) /\ Credit(p, i) = 0
      OBVIOUS
    <3>1. Own(p, i) = Is(cwd[p], i) + Is(file[p], i) + Is(dp[p], i) + Is(ip[p], i) /\ Credit(p, i) = 0
      BY <1>1, <1>3, OwnBefore, NoCredit
    <3>2. Own(p, i)' = Is(cwd'[p], i) + Is(file'[p], i) + Is(ip[p], i)
      BY <1>4, <2>1, OwnReturned
    <3> QED
      BY <1>10, <1>3, <1>4, <2>2, <3>1, <3>2, Constants DEF Is
  <2>5. \A q \in Procs \ {p} : cwd'[q] = cwd[q] /\ file'[q] = file[q]
    BY <2>2
  <2> QED
    BY <1>1, <1>2, <1>3, <1>7, <1>8, <2>1, <2>2, <2>3, <2>4, <2>5, ReturnQuiet
<1> QED
  BY <1>9, <1>10

LEMMA MadeKeeps ==
  ASSUME FilesInv, NEW p \in Procs, Made(p)
  PROVE  FilesInv'
<1>1. /\ pc[p] = "made" /\ puts[p] = <<>>
      /\ Iunlock(ip[p])
  BY DEF Made, Ready
<1>2. /\ UNCHANGED <<disk, ref, stage, ghost>> /\ valid' = valid /\ inode' = inode /\ cwd' = cwd
  BY DEF Made, places
<1>3. /\ dp[p] = NoInode /\ ip[p] \in Inodes
      /\ call[p].op # "linkto" /\ pc[p] \notin {"fresh", "parent", "dots", "enter", "unparent", "unname"}
  BY <1>1, Types DEF FilesInv, Shapes, Shape, NeedsDp, Entering, Creates, Unlinks, Creating, Kind, ForParent
<1>4. Values /\ cwd[p] \in Inodes /\ file[p] \in Inodes \cup {NoInode}
  BY Types DEF FilesInv
<1>7. /\ valid' \in [Inodes -> BOOLEAN]
      /\ inode' \in [Inodes -> [type : {"free", "file", "dir", "dev"}, nlink : Nat]]
      /\ \A i \in Inodes : CopyKept(i) \/ CopyRead(i)
  BY <1>2, <1>4, SharedFields DEF CopyKept
<1>8. /\ busy' \in [Inodes -> Procs \cup {NoProc}]
      /\ \A i \in Inodes : busy'[i] # p
      /\ \A i \in Inodes, q \in Procs : q # p => (busy'[i] = q <=> busy[i] = q)
  <2>1. \A i \in Inodes : Holds(p, i) <=> i = ip[p]
    BY <1>1, ReadyFacts DEF Holds, NeedsDp, NeedsIp, Entering
  <2> QED
    BY <1>1, <1>3, <2>1, IunlockStep
<1>9. CASE call[p].op = "creat" /\ file[p] = NoInode
  <2>1. /\ Return(p, <<>>)
        /\ file' = [file EXCEPT ![p] = ip[p]]
    BY <1>9, <1>3 DEF Made, GetFile, Set
  <2>2. /\ \A q \in Procs : file'[q] = IF q = p THEN ip[p] ELSE file[q]
        /\ \A q \in Procs : cwd'[q] = cwd[q]
        /\ cwd' \in [Procs -> Inodes] /\ file' \in [Procs -> Inodes \cup {NoInode}]
    BY <1>2, <1>3, <1>4, <2>1, SharedFields
  <2>3. <<>> \in Seq(Inodes) /\ Len(<<>>) <= 2
    BY <1>3, <1>4
  <2>4. \A i \in Inodes : Own(p, i)' = Own(p, i) /\ Credit(p, i) = 0
    <3> SUFFICES ASSUME NEW i \in Inodes PROVE Own(p, i)' = Own(p, i) /\ Credit(p, i) = 0
      OBVIOUS
    <3>1. Own(p, i) = Is(cwd[p], i) + Is(file[p], i) + Is(dp[p], i) + Is(ip[p], i) /\ Credit(p, i) = 0
      BY <1>1, <1>3, OwnBefore, NoCredit
    <3>2. Own(p, i)' = Is(cwd'[p], i) + Is(file'[p], i)
      BY <1>4, <2>1, OwnReturned
    <3> QED
      BY <1>9, <1>3, <1>4, <2>2, <3>1, <3>2, Constants DEF Is
  <2>5. \A q \in Procs \ {p} : cwd'[q] = cwd[q] /\ file'[q] = file[q]
    BY <2>2
  <2> QED
    BY <1>1, <1>2, <1>3, <1>7, <1>8, <2>1, <2>2, <2>3, <2>4, <2>5, ReturnQuiet
<1>10. CASE ~(call[p].op = "creat" /\ file[p] = NoInode)
  <2>1. /\ Return(p, <<ip[p]>>)
        /\ file' = file
    BY <1>10, <1>3 DEF Made, GetFile, Set
  <2>2. /\ \A q \in Procs : file'[q] = file[q]
        /\ \A q \in Procs : cwd'[q] = cwd[q]
        /\ cwd' \in [Procs -> Inodes] /\ file' \in [Procs -> Inodes \cup {NoInode}]
    BY <1>2, <1>3, <1>4, <2>1, SharedFields
  <2>3. <<ip[p]>> \in Seq(Inodes) /\ Len(<<ip[p]>>) <= 2
    BY <1>3, <1>4
  <2>4. \A i \in Inodes : Own(p, i)' = Own(p, i) /\ Credit(p, i) = 0
    <3> SUFFICES ASSUME NEW i \in Inodes PROVE Own(p, i)' = Own(p, i) /\ Credit(p, i) = 0
      OBVIOUS
    <3>1. Own(p, i) = Is(cwd[p], i) + Is(file[p], i) + Is(dp[p], i) + Is(ip[p], i) /\ Credit(p, i) = 0
      BY <1>1, <1>3, OwnBefore, NoCredit
    <3>2. Own(p, i)' = Is(cwd'[p], i) + Is(file'[p], i) + Is(ip[p], i)
      BY <1>4, <2>1, OwnReturned
    <3> QED
      BY <1>10, <1>3, <1>4, <2>2, <3>1, <3>2, Constants DEF Is
  <2>5. \A q \in Procs \ {p} : cwd'[q] = cwd[q] /\ file'[q] = file[q]
    BY <2>2
  <2> QED
    BY <1>1, <1>2, <1>3, <1>7, <1>8, <2>1, <2>2, <2>3, <2>4, <2>5, ReturnQuiet
<1> QED
  BY <1>9, <1>10

LEMMA UnlinkNoneKeeps ==
  ASSUME FilesInv, NEW p \in Procs, UnlinkNone(p)
  PROVE  FilesInv'
<1>1. /\ pc[p] = "dir" /\ call[p].op = "unlink" /\ puts[p] = <<>>
      /\ Read(dp[p])
  BY DEF UnlinkNone, Ready
<1>2. /\ UNCHANGED <<disk, ref, stage, ghost>> /\ busy' = busy /\ cwd' = cwd /\ file' = file
  BY DEF UnlinkNone, places
<1>3. /\ dp[p] \in Inodes /\ ip[p] = NoInode
      /\ call[p].op # "linkto" /\ pc[p] \notin {"fresh", "parent", "dots", "enter", "unparent", "unname"}
  BY <1>1, Types DEF FilesInv, Shapes, Shape, NeedsDp, Entering, Creates, Unlinks, Creating, Kind, ForParent
<1>4. Values /\ cwd[p] \in Inodes /\ file[p] \in Inodes \cup {NoInode}
  BY Types DEF FilesInv
<1>5. Good(dp[p]) /\ ref[dp[p]] > 0
  BY <1>1, <1>3, OwnLock DEF Points
<1>6. ref' \in [Inodes -> Nat] /\ \A i \in Inodes : ref'[i] >= ref[i]
  BY <1>2, <1>4, SharedFields
<1>7. /\ valid' \in [Inodes -> BOOLEAN]
      /\ inode' \in [Inodes -> [type : {"free", "file", "dir", "dev"}, nlink : Nat]]
      /\ \A i \in Inodes : CopyKept(i) \/ CopyRead(i)
  BY <1>1, <1>3, <1>5, <1>6, ReadStep
<1>8. /\ busy' \in [Inodes -> Procs \cup {NoProc}]
      /\ \A i \in Inodes : busy'[i] # p
      /\ \A i \in Inodes, q \in Procs : q # p => (busy'[i] = q <=> busy[i] = q)
  <2>1. pc[p] \notin NeedsDp \cup NeedsIp
    BY <1>1 DEF NeedsDp, NeedsIp, Entering
  <2> QED
    BY <1>1, <1>2, <2>1, BusyKept
<1> QED
  <2>1. Return(p, <<dp[p]>>)
    BY DEF UnlinkNone
  <2>2. /\ \A q \in Procs : file'[q] = file[q]
        /\ \A q \in Procs : cwd'[q] = cwd[q]
        /\ cwd' \in [Procs -> Inodes] /\ file' \in [Procs -> Inodes \cup {NoInode}]
    BY <1>2, <1>3, <1>4, <2>1, SharedFields
  <2>3. <<dp[p]>> \in Seq(Inodes) /\ Len(<<dp[p]>>) <= 2
    BY <1>3, <1>4
  <2>4. \A i \in Inodes : Own(p, i)' = Own(p, i) /\ Credit(p, i) = 0
    <3> SUFFICES ASSUME NEW i \in Inodes PROVE Own(p, i)' = Own(p, i) /\ Credit(p, i) = 0
      OBVIOUS
    <3>1. Own(p, i) = Is(cwd[p], i) + Is(file[p], i) + Is(dp[p], i) + Is(ip[p], i) /\ Credit(p, i) = 0
      BY <1>1, <1>3, OwnBefore, NoCredit
    <3>2. Own(p, i)' = Is(cwd'[p], i) + Is(file'[p], i) + Is(dp[p], i)
      BY <1>4, <2>1, OwnReturned
    <3> QED
      BY <1>3, <1>4, <2>2, <3>1, <3>2, Constants DEF Is
  <2>5. \A q \in Procs \ {p} : cwd'[q] = cwd[q] /\ file'[q] = file[q]
    BY <2>2
  <2> QED
    BY <1>1, <1>2, <1>3, <1>7, <1>8, <2>1, <2>2, <2>3, <2>4, <2>5, ReturnQuiet

LEMMA UnlinkFullKeeps ==
  ASSUME FilesInv, NEW p \in Procs, UnlinkFull(p)
  PROVE  FilesInv'
<1>1. /\ pc[p] = "victim" /\ puts[p] = <<>>
      /\ Read(ip[p]) /\ Iunlock(dp[p])
  BY DEF UnlinkFull, Ready
<1>2. /\ UNCHANGED <<disk, ref, stage, ghost>> /\ cwd' = cwd /\ file' = file
  BY DEF UnlinkFull, places
<1>3. /\ dp[p] \in Inodes /\ ip[p] \in Inodes
      /\ call[p].op # "linkto" /\ pc[p] \notin {"fresh", "parent", "dots", "enter", "unparent", "unname"}
  BY <1>1, Types DEF FilesInv, Shapes, Shape, NeedsDp, Entering, Creates, Unlinks, Creating, Kind, ForParent
<1>4. Values /\ cwd[p] \in Inodes /\ file[p] \in Inodes \cup {NoInode}
  BY Types DEF FilesInv
<1>5. Good(ip[p]) /\ ref[ip[p]] > 0
  BY <1>1, <1>3, OwnLock DEF Points
<1>6. ref' \in [Inodes -> Nat] /\ \A i \in Inodes : ref'[i] >= ref[i]
  BY <1>2, <1>4, SharedFields
<1>7. /\ valid' \in [Inodes -> BOOLEAN]
      /\ inode' \in [Inodes -> [type : {"free", "file", "dir", "dev"}, nlink : Nat]]
      /\ \A i \in Inodes : CopyKept(i) \/ CopyRead(i)
  BY <1>1, <1>3, <1>5, <1>6, ReadStep
<1>8. /\ busy' \in [Inodes -> Procs \cup {NoProc}]
      /\ \A i \in Inodes : busy'[i] # p
      /\ \A i \in Inodes, q \in Procs : q # p => (busy'[i] = q <=> busy[i] = q)
  <2>1. \A i \in Inodes : Holds(p, i) <=> i = dp[p]
    BY <1>1, ReadyFacts DEF Holds, NeedsDp, NeedsIp, Entering
  <2> QED
    BY <1>1, <1>3, <2>1, IunlockStep
<1> QED
  <2>1. Return(p, <<ip[p], dp[p]>>)
    BY DEF UnlinkFull
  <2>2. /\ \A q \in Procs : file'[q] = file[q]
        /\ \A q \in Procs : cwd'[q] = cwd[q]
        /\ cwd' \in [Procs -> Inodes] /\ file' \in [Procs -> Inodes \cup {NoInode}]
    BY <1>2, <1>3, <1>4, <2>1, SharedFields
  <2>3. <<ip[p], dp[p]>> \in Seq(Inodes) /\ Len(<<ip[p], dp[p]>>) <= 2
    BY <1>3, <1>4
  <2>4. \A i \in Inodes : Own(p, i)' = Own(p, i) /\ Credit(p, i) = 0
    <3> SUFFICES ASSUME NEW i \in Inodes PROVE Own(p, i)' = Own(p, i) /\ Credit(p, i) = 0
      OBVIOUS
    <3>1. Own(p, i) = Is(cwd[p], i) + Is(file[p], i) + Is(dp[p], i) + Is(ip[p], i) /\ Credit(p, i) = 0
      BY <1>1, <1>3, OwnBefore, NoCredit
    <3>2. Own(p, i)' = Is(cwd'[p], i) + Is(file'[p], i) + Is(ip[p], i) + Is(dp[p], i)
      BY <1>4, <2>1, OwnReturned
    <3> QED
      BY <1>3, <1>4, <2>2, <3>1, <3>2, Constants DEF Is
  <2>5. \A q \in Procs \ {p} : cwd'[q] = cwd[q] /\ file'[q] = file[q]
    BY <2>2
  <2> QED
    BY <1>1, <1>2, <1>3, <1>7, <1>8, <2>1, <2>2, <2>3, <2>4, <2>5, ReturnQuiet

LEMMA LinkDirKeeps ==
  ASSUME FilesInv, NEW p \in Procs, LinkDir(p)
  PROVE  FilesInv'
<1>1. /\ pc[p] = "at" /\ call[p].op = "link" /\ puts[p] = <<>>
      /\ Read(dp[p])
  BY DEF LinkDir, Ready
<1>2. /\ UNCHANGED <<disk, ref, stage, ghost>> /\ busy' = busy /\ cwd' = cwd /\ file' = file
  BY DEF LinkDir, places
<1>3. /\ dp[p] \in Inodes /\ ip[p] = NoInode
      /\ call[p].op # "linkto" /\ pc[p] \notin {"fresh", "parent", "dots", "enter", "unparent", "unname"}
  BY <1>1, Types DEF FilesInv, Shapes, Shape, NeedsDp, Entering, Creates, Unlinks, Creating, Kind, ForParent
<1>4. Values /\ cwd[p] \in Inodes /\ file[p] \in Inodes \cup {NoInode}
  BY Types DEF FilesInv
<1>5. Good(dp[p]) /\ ref[dp[p]] > 0
  BY <1>1, <1>3, OwnLock DEF Points
<1>6. ref' \in [Inodes -> Nat] /\ \A i \in Inodes : ref'[i] >= ref[i]
  BY <1>2, <1>4, SharedFields
<1>7. /\ valid' \in [Inodes -> BOOLEAN]
      /\ inode' \in [Inodes -> [type : {"free", "file", "dir", "dev"}, nlink : Nat]]
      /\ \A i \in Inodes : CopyKept(i) \/ CopyRead(i)
  BY <1>1, <1>3, <1>5, <1>6, ReadStep
<1>8. /\ busy' \in [Inodes -> Procs \cup {NoProc}]
      /\ \A i \in Inodes : busy'[i] # p
      /\ \A i \in Inodes, q \in Procs : q # p => (busy'[i] = q <=> busy[i] = q)
  <2>1. pc[p] \notin NeedsDp \cup NeedsIp
    BY <1>1 DEF NeedsDp, NeedsIp, Entering
  <2> QED
    BY <1>1, <1>2, <2>1, BusyKept
<1> QED
  <2>1. Return(p, <<dp[p]>>)
    BY DEF LinkDir
  <2>2. /\ \A q \in Procs : file'[q] = file[q]
        /\ \A q \in Procs : cwd'[q] = cwd[q]
        /\ cwd' \in [Procs -> Inodes] /\ file' \in [Procs -> Inodes \cup {NoInode}]
    BY <1>2, <1>3, <1>4, <2>1, SharedFields
  <2>3. <<dp[p]>> \in Seq(Inodes) /\ Len(<<dp[p]>>) <= 2
    BY <1>3, <1>4
  <2>4. \A i \in Inodes : Own(p, i)' = Own(p, i) /\ Credit(p, i) = 0
    <3> SUFFICES ASSUME NEW i \in Inodes PROVE Own(p, i)' = Own(p, i) /\ Credit(p, i) = 0
      OBVIOUS
    <3>1. Own(p, i) = Is(cwd[p], i) + Is(file[p], i) + Is(dp[p], i) + Is(ip[p], i) /\ Credit(p, i) = 0
      BY <1>1, <1>3, OwnBefore, NoCredit
    <3>2. Own(p, i)' = Is(cwd'[p], i) + Is(file'[p], i) + Is(dp[p], i)
      BY <1>4, <2>1, OwnReturned
    <3> QED
      BY <1>3, <1>4, <2>2, <3>1, <3>2, Constants DEF Is
  <2>5. \A q \in Procs \ {p} : cwd'[q] = cwd[q] /\ file'[q] = file[q]
    BY <2>2
  <2> QED
    BY <1>1, <1>2, <1>3, <1>7, <1>8, <2>1, <2>2, <2>3, <2>4, <2>5, ReturnQuiet
LEMMA FailedKeeps ==
  ASSUME FilesInv, NEW p \in Procs, puts[p] = <<>>, pc[p] \in {"walk", "fail", "linkfail"},
         Failed(p, <<dp[p]>>), UNCHANGED <<disk, ref, stage, ghost, cwd, file>>,
         busy' \in [Inodes -> Procs \cup {NoProc}],
         \A i \in Inodes : busy'[i] # p,
         \A i \in Inodes, q \in Procs : q # p => (busy'[i] = q <=> busy[i] = q),
         valid' \in [Inodes -> BOOLEAN],
         inode' \in [Inodes -> [type : {"free", "file", "dir", "dev"}, nlink : Nat]],
         \A i \in Inodes : CopyKept(i) \/ CopyRead(i)
  PROVE  FilesInv'
<1>1. CASE call[p].op = "linkto"
  <2>1. /\ pc' = [pc EXCEPT ![p] = "bad"] /\ puts' = [puts EXCEPT ![p] = <<dp[p]>>]
        /\ path' = [path EXCEPT ![p] = <<>>] /\ dp' = [dp EXCEPT ![p] = NoInode]
        /\ UNCHANGED <<call, ip, disk, ref, stage, ghost, cwd, file>>
    BY <1>1 DEF Failed, Goto, Set
  <2> QED
    BY <1>1, <2>1, BadQuiet
<1>2. CASE call[p].op # "linkto"
  <2>1. Return(p, <<dp[p]>>) /\ UNCHANGED <<disk, ref, stage, ghost>> /\ cwd' = cwd /\ file' = file
    BY <1>2 DEF Failed
  <2>2. Values /\ dp[p] \in Inodes /\ ip[p] = NoInode
    BY <1>2, Types DEF FilesInv, Shapes, Shape, NeedsDp, Creates, Unlinks, Entering
  <2>3. <<dp[p]>> \in Seq(Inodes) /\ Len(<<dp[p]>>) <= 2
    BY <2>2
  <2>4. \A i \in Inodes : Own(p, i)' = Own(p, i) /\ Credit(p, i) = 0
    <3> SUFFICES ASSUME NEW i \in Inodes PROVE Own(p, i)' = Own(p, i) /\ Credit(p, i) = 0
      OBVIOUS
    <3>1. Own(p, i) = Is(cwd[p], i) + Is(file[p], i) + Is(dp[p], i) + Is(ip[p], i) /\ Credit(p, i) = 0
      BY <1>2, OwnBefore, NoCredit
    <3>2. Own(p, i)' = Is(cwd'[p], i) + Is(file'[p], i) + Is(dp[p], i)
      BY <2>1, <2>2, OwnReturned
    <3> QED
      BY <2>1, <2>2, <3>1, <3>2, Constants DEF Is
  <2>5. /\ cwd' \in [Procs -> Inodes] /\ file' \in [Procs -> Inodes \cup {NoInode}]
        /\ \A q \in Procs \ {p} : cwd'[q] = cwd[q] /\ file'[q] = file[q]
    BY <2>1, <2>2, SharedFields
  <2> QED
    BY <2>1, <2>3, <2>4, <2>5, ReturnQuiet
<1> QED
  BY <1>1, <1>2

LEMMA NoParentKeeps ==
  ASSUME FilesInv, NEW p \in Procs, NoParent(p)
  PROVE  FilesInv'
<1>1. pc[p] = "fail" /\ puts[p] = <<>> /\ Failed(p, <<dp[p]>>)
  BY DEF NoParent, Ready
<1>2. /\ UNCHANGED <<disk, ref, stage, ghost, cwd, file>>
      /\ busy' = busy /\ valid' = valid /\ inode' = inode
  BY DEF NoParent, places, icache
<1>3. /\ valid' \in [Inodes -> BOOLEAN] /\ \A i \in Inodes : CopyKept(i) \/ CopyRead(i)
      /\ inode' \in [Inodes -> [type : {"free", "file", "dir", "dev"}, nlink : Nat]]
  BY <1>2, SharedFields DEF CopyKept, FilesInv
<1>4. pc[p] \notin NeedsDp \cup NeedsIp
  BY <1>1 DEF NeedsDp, NeedsIp, Entering
<1>5. /\ busy' \in [Inodes -> Procs \cup {NoProc}]
      /\ \A i \in Inodes : busy'[i] # p
      /\ \A i \in Inodes, q \in Procs : q # p => (busy'[i] = q <=> busy[i] = q)
  BY <1>1, <1>2, <1>4, BusyKept
<1> QED
  BY <1>1, <1>2, <1>3, <1>5, FailedKeeps

LEMMA LinkFailKeeps ==
  ASSUME FilesInv, NEW p \in Procs, LinkFail(p)
  PROVE  FilesInv'
<1>1. pc[p] = "linkfail" /\ puts[p] = <<>> /\ Failed(p, <<dp[p]>>) /\ Iunlock(dp[p])
  BY DEF LinkFail, Ready
<1>2. /\ UNCHANGED <<disk, ref, stage, ghost, cwd, file>>
      /\ valid' = valid /\ inode' = inode
  BY DEF LinkFail, places
<1>3. /\ valid' \in [Inodes -> BOOLEAN] /\ \A i \in Inodes : CopyKept(i) \/ CopyRead(i)
      /\ inode' \in [Inodes -> [type : {"free", "file", "dir", "dev"}, nlink : Nat]]
  BY <1>2, SharedFields DEF CopyKept, FilesInv
<1>4. dp[p] \in Inodes /\ \A i \in Inodes : Holds(p, i) <=> i = dp[p]
  BY <1>1, ReadyFacts DEF Holds, NeedsDp, NeedsIp, Entering, FilesInv, Shapes, Shape
<1>5. /\ busy' \in [Inodes -> Procs \cup {NoProc}]
      /\ \A i \in Inodes : busy'[i] # p
      /\ \A i \in Inodes, q \in Procs : q # p => (busy'[i] = q <=> busy[i] = q)
  BY <1>1, <1>4, IunlockStep
<1> QED
  BY <1>1, <1>2, <1>3, <1>5, FailedKeeps
-----------------------------------------------------------------------------
(* A step that gets an inode, or none, and goes on with the call. *)
LEMMA GetQuiet ==
  ASSUME FilesInv, NEW p \in Procs, puts[p] = <<>>, pc[p] # "fresh",
         NEW at, NEW c, NEW s, NEW d, NEW k, NEW u, Becomes(p, at, c, s, d, k, u), at # "fresh",
         UNCHANGED <<disk, places, stage, ghost>>,
         NEW j \in Inodes \cup {NoInode}, j # NoInode => Good(j),
         ref' \in [Inodes -> Nat], \A i \in Inodes : ref'[i] = ref[i] + Is(j, i),
         \A i \in Inodes : Own(p, i)' = Own(p, i) + Is(j, i) /\ Credit(p, i)' = Credit(p, i),
         Shape(p)', LiveHere(p), Unlocks(p), busy' \in [Inodes -> Procs \cup {NoProc}],
         valid' \in [Inodes -> BOOLEAN],
         inode' \in [Inodes -> [type : {"free", "file", "dir", "dev"}, nlink : Nat]],
         \A i \in Inodes : CopyKept(i) \/ CopyRead(i)
  PROVE  FilesInv'
<1>1. Values /\ stage[p] = "no"
  BY ReadyFacts DEF FilesInv
<1>2. /\ dinode' = dinode /\ dents' = dents /\ stage' = stage /\ cwd' = cwd /\ file' = file
      /\ panicked' = panicked /\ boots' = boots /\ calls' = calls /\ lost' = lost
  BY DEF disk, ghost, places
<1>3. Values'
  BY <1>1, <1>2, SharedFields, ValuesKept
<1>4. Calm(p)
  BY <1>1, <1>2 DEF Calm, Rest, Becomes
<1>5. \A i \in Inodes : Is(j, i) \in {0, 1} /\ (Is(j, i) = 1 <=> j = i)
  BY Nothing
<1>6. NewPoints(p)
  <2> SUFFICES ASSUME NEW i \in Inodes, Points(p, i)' PROVE Good(i)
    BY DEF NewPoints
  <2>1. Own(p, i) # 0 \/ j = i
    BY <1>5, PointsOwn
  <2> QED
    BY <1>1, <2>1, OwnGood, PointsOwn, Constants
<1>7. Counts(p)
  <2> SUFFICES ASSUME NEW i \in Inodes PROVE ref'[i] = ref[i] - Own(p, i) + Own(p, i)'
    BY DEF Counts
  <2>1. Own(p, i) \in Nat /\ ref[i] \in Nat /\ Is(j, i) \in {0, 1}
    BY <1>1, <1>5, PointsOwn, Types
  <2> QED
    BY <2>1
<1>8. Quiet(p)
  BY <1>2, <1>3, <1>4, <1>6, <1>7 DEF Quiet, disk
<1> QED
  BY <1>8, QuietReads

LEMMA IgetStep ==
  ASSUME Values, NEW j \in Inodes, Iget(j)
  PROVE  /\ ref' \in [Inodes -> Nat]
         /\ \A i \in Inodes : ref'[i] = ref[i] + Is(j, i) /\ ref'[i] >= ref[i]
<1>1. ref' = [ref EXCEPT ![j] = ref[j] + 1] /\ ref \in [Inodes -> Nat]
  BY SharedFields DEF Iget
<1> QED
  BY <1>1 DEF Is

LEMMA RefSame ==
  ASSUME Values, ref' = ref
  PROVE  /\ ref' \in [Inodes -> Nat]
         /\ \A i \in Inodes : ref'[i] = ref[i] + Is(NoInode, i) /\ ref'[i] >= ref[i]
  BY SharedFields, Nothing

(* The pointers of a process in the middle of a call. *)
LEMMA OwnAfter ==
  ASSUME NEW p \in Procs, NEW i \in Inodes, cwd' = cwd, file' = file
  PROVE  /\ puts'[p] = <<>> => Own(p, i)' = Is(cwd[p], i) + Is(file[p], i) + Is(dp'[p], i) + Is(ip'[p], i)
         /\ \A a : puts'[p] = <<a>> =>
              Own(p, i)' = Is(cwd[p], i) + Is(file[p], i) + Is(dp'[p], i) + Is(ip'[p], i) + Is(a, i)
<1>1. Own(p, i)' = Is(cwd[p], i) + Is(file[p], i) + Is(dp'[p], i) + Is(ip'[p], i)
                      + Is(Front(p)', i) + Is(Back(p)', i)
  BY DEF Own, Is
<1>2. CASE puts'[p] = <<>>
  <2>1. Front(p)' = NoInode /\ Back(p)' = NoInode
    BY <1>2, PutsAre
  <2> QED
    BY <1>1, <1>2, <2>1, Constants DEF Is
<1>3. ASSUME NEW a, puts'[p] = <<a>>
      PROVE  Own(p, i)' = Is(cwd[p], i) + Is(file[p], i) + Is(dp'[p], i) + Is(ip'[p], i) + Is(a, i)
  <2>1. Front(p)' = a /\ Back(p)' = NoInode
    BY <1>3, PutsAre
  <2> QED
    BY <1>1, <2>1, Constants DEF Is
<1> QED
  BY <1>2, <1>3

(* A program of NoDots names no ".." in a path. *)
LEMMA SeqOf ==
  ASSUME NEW S, NEW T, NEW t \in Seq(S), \A k \in 1 .. Len(t) : t[k] \in T
  PROVE  t \in Seq(T)
  OBVIOUS
LEMMA TailOf ==
  ASSUME NEW S, NEW t \in Seq(S), t # <<>>
  PROVE  /\ Tail(t) \in Seq(S) /\ Len(Tail(t)) = Len(t) - 1 /\ Len(t) \in Nat \ {0}
         /\ Head(t) \in S
         /\ \A k \in 1 .. Len(t) - 1 : Tail(t)[k] = t[k + 1]
  OBVIOUS

LEMMA PathNames ==
  ASSUME NEW s \in Seq(Names \cup {"/"}), IsPath(s)
  PROVE  Relative(s) \in Seq(Names)
<1> DEFINE S == Names \cup {"/"}
<1>1. s # <<>> /\ \A k \in 2 .. Len(s) : s[k] \in Names
  BY DEF IsPath
<1>2. CASE s[1] = "/"
  <2>1. s \in Seq(S)
    OBVIOUS
  <2> HIDE DEF S
  <2>2. /\ Tail(s) \in Seq(S) /\ Len(Tail(s)) = Len(s) - 1 /\ Len(s) \in Nat \ {0}
        /\ \A k \in 1 .. Len(s) - 1 : Tail(s)[k] = s[k + 1]
    BY <1>1, <2>1, TailOf
  <2>3. \A k \in 1 .. Len(Tail(s)) : Tail(s)[k] \in Names
    BY <1>1, <2>2
  <2>4. Tail(s) \in Seq(Names)
    BY <2>2, <2>3, SeqOf
  <2> QED
    BY <1>2, <2>4 DEF Relative
<1>3. CASE s[1] # "/"
  <2>1. Relative(s) = s /\ \A k \in 1 .. Len(s) : s[k] \in Names
    BY <1>1, <1>3 DEF Relative
  <2> QED
    BY <2>1
<1> QED
  BY <1>2, <1>3

LEMMA StartGood ==
  ASSUME FilesInv, NEW p \in Procs, puts[p] = <<>>, pc[p] # "fresh", NEW s
  PROVE  Start(p, s) \in Inodes /\ Good(Start(p, s))
<1>1. cwd[p] \in Inodes /\ Good(cwd[p])
  BY OwnLock, Types DEF FilesInv, Points
<1> QED
  BY <1>1, RootGood, Constants DEF Start
-----------------------------------------------------------------------------
LEMMA CallKeeps ==
  ASSUME NoDots, FilesInv, NEW p \in Procs, NEW c \in calls, Call(p, c)
  PROVE  FilesInv'
<1> DEFINE s == Relative(c.path)
           j == Start(p, c.path)
           at == Next_place(c, s)
<1>1. /\ pc[p] = "user" /\ puts[p] = <<>> /\ Iget(j)
      /\ call' = [call EXCEPT ![p] = c] /\ path' = [path EXCEPT ![p] = s]
      /\ dp' = [dp EXCEPT ![p] = j] /\ pc' = [pc EXCEPT ![p] = at]
  BY DEF Call, Ready, Begin, Goto, Set
<1>2. /\ UNCHANGED <<disk, places, stage, ghost>> /\ busy' = busy /\ valid' = valid
      /\ inode' = inode /\ ip' = ip /\ puts' = puts /\ cwd' = cwd /\ file' = file
  BY DEF Call, places, putting
<1>3. Values /\ Shape(p)
  BY DEF FilesInv, Shapes
<1>4. /\ c.op \in {"creat", "mkdir", "mknod", "unlink", "link", "open", "openw", "chdir"}
      /\ s \in Seq(Names)
  <2>1. c \in UNION Workloads
    BY <1>3, SharedFields
  <2>2. IsPath(c.path) /\ c.path \in Seq(Names \cup {"/"})
    BY <2>1, FilesAssumption DEF NoDots
  <2> QED
    BY <2>1, <2>2, PathNames, FilesAssumption
<1>5. j \in Inodes /\ Good(j) /\ stage[p] = "no"
  BY <1>1, StartGood, ReadyFacts
<1>6. /\ at \in {"walk", "fail", "at"} /\ at \in Places
      /\ at = "walk" => s # <<>>
      /\ at = "fail" => ForParent(c)
      /\ at = "at" => ~ForParent(c)
  <2> HIDE DEF s
  <2> QED BY DEF Next_place, Places
<1>7. ip[p] = NoInode /\ dp[p] = NoInode /\ call[p].op = "none" /\ NoCall.op = "none"
  BY <1>1, <1>3, Types DEF Shape, NeedsDp, Entering, Creates, Unlinks, NoCall
<1> HIDE DEF s, j, at
<1>8. Becomes(p, at, c, s, j, NoInode, <<>>)
  BY <1>1, <1>2, <1>3, <1>4, <1>5, <1>6, <1>7, LocalFields DEF Becomes
<1>9. /\ pc'[p] = at /\ call'[p] = c /\ path'[p] = s /\ dp'[p] = j /\ ip'[p] = NoInode
      /\ puts'[p] = <<>> /\ stage'[p] = "no"
  BY <1>2, <1>5, <1>8 DEF Becomes
<1>10. ref' \in [Inodes -> Nat] /\ \A i \in Inodes : ref'[i] = ref[i] + Is(j, i) /\ ref'[i] >= ref[i]
  BY <1>1, <1>3, <1>5, IgetStep
<1>11. \A i \in Inodes : Own(p, i)' = Own(p, i) + Is(j, i) /\ Credit(p, i)' = Credit(p, i)
  <2> SUFFICES ASSUME NEW i \in Inodes
               PROVE  Own(p, i)' = Own(p, i) + Is(j, i) /\ Credit(p, i)' = Credit(p, i)
    OBVIOUS
  <2>1. Own(p, i) = Is(cwd[p], i) + Is(file[p], i) + Is(dp[p], i) + Is(ip[p], i)
    BY <1>1, OwnBefore
  <2>2. Own(p, i)' = Is(cwd[p], i) + Is(file[p], i) + Is(j, i) + Is(NoInode, i)
    BY <1>2, <1>9, OwnAfter
  <2>3. Credit(p, i) = 0
    BY <1>1, <1>7, NoCredit
  <2>4. OwedIp'[p] = NoInode /\ OwedDp'[p] = NoInode
    BY <1>4, <1>6, <1>9, OwedFields
  <2> QED
    BY <1>7, <2>1, <2>2, <2>3, <2>4, Constants DEF Credit, Is
<1>12. Shape(p)'
  BY <1>4, <1>5, <1>6, <1>7, <1>9, Constants DEF Shape, NeedsDp, Entering, Creates, Unlinks
<1>13. LiveHere(p)
  BY <1>4, <1>6, <1>9 DEF LiveHere, NeedsDp, Entering
<1>14. Unlocks(p) /\ busy' \in [Inodes -> Procs \cup {NoProc}]
  <2>1. pc[p] \notin NeedsDp \cup NeedsIp
    BY <1>1 DEF NeedsDp, NeedsIp, Entering
  <2>2. \A i \in Inodes : ~Holds(p, i)'
    BY <1>6, <1>9 DEF Holds, NeedsDp, NeedsIp, Entering
  <2> QED
    BY <1>1, <1>2, <2>1, <2>2, BusyKept DEF Unlocks
<1>15. /\ valid' \in [Inodes -> BOOLEAN]
       /\ inode' \in [Inodes -> [type : {"free", "file", "dir", "dev"}, nlink : Nat]]
       /\ \A i \in Inodes : CopyKept(i) \/ CopyRead(i)
  BY <1>2, <1>3, <1>10, SharedFields DEF CopyKept
<1>16. pc[p] # "fresh" /\ at # "fresh" /\ (j # NoInode => Good(j)) /\ j \in Inodes \cup {NoInode}
  BY <1>1, <1>5, <1>6
<1> QED
  BY <1>1, <1>2, <1>8, <1>10, <1>11, <1>12, <1>13, <1>14, <1>15, <1>16, GetQuiet
LEMMA WalkKeeps ==
  ASSUME FilesInv, NEW p \in Procs, Walk(p)
  PROVE  FilesInv'
<1> DEFINE next == Lookup(p)
           last == ForParent(call[p]) /\ Len(path[p]) = 1
<1>1. pc[p] = "walk" /\ puts[p] = <<>> /\ Read(dp[p]) /\ busy' = busy
  BY DEF Walk, Ready
<1>2. UNCHANGED <<disk, places, stage, ghost>> /\ cwd' = cwd /\ file' = file
  BY DEF Walk, places
<1>3. Values /\ Shape(p) /\ LiveAt(p)
  BY DEF FilesInv, Shapes, Live
<1>4. /\ dp[p] \in Inodes /\ path[p] \in Seq(Names) /\ path[p] # <<>>
      /\ call[p].op = "linkto" => ip[p] \in Inodes
      /\ call[p].op # "linkto" => ip[p] = NoInode
      /\ call[p] # NoCall
  BY <1>1, <1>3, Types DEF Shape, NeedsDp, Entering, Creates, Unlinks
<1>5. /\ Head(path[p]) \in Names /\ Tail(path[p]) \in Seq(Names)
      /\ Len(path[p]) \in Nat \ {0} /\ next \in Inodes \cup {NoInode}
      /\ next # NoInode => Good(next)
  <2>1. Head(path[p]) \in Names /\ Tail(path[p]) \in Seq(Names) /\ Len(path[p]) \in Nat \ {0}
    BY <1>4, TailOf
  <2> QED
    BY <1>3, <1>4, <2>1, NameGood, Types DEF Lookup
<1>6. Good(dp[p]) /\ ref[dp[p]] > 0 /\ Inode(dp[p]) = dinode[dp[p]] /\ stage[p] = "no"
  BY <1>1, <1>4, OwnLock, ReadyFacts DEF Points
<1>8. pc[p] \notin NeedsDp \cup NeedsIp
  BY <1>1 DEF NeedsDp, NeedsIp, Entering
<1>9. /\ busy' \in [Inodes -> Procs \cup {NoProc}]
      /\ \A i \in Inodes : busy'[i] # p
      /\ \A i \in Inodes, q \in Procs : q # p => (busy'[i] = q <=> busy[i] = q)
  BY <1>1, <1>8, BusyKept
<1>10. CASE IsDir(dp[p]) /\ last /\ Goto(p, "dir") /\ UNCHANGED <<ref, locals, puts>>
  <2>1. /\ pc' = [pc EXCEPT ![p] = "dir"] /\ ref' = ref /\ puts' = puts
        /\ call' = call /\ path' = path /\ dp' = dp /\ ip' = ip
    BY <1>10 DEF Goto, locals
  <2>2. "dir" \in Places
    BY DEF Places
  <2>3. Becomes(p, "dir", call[p], path[p], dp[p], ip[p], <<>>)
    BY <1>1, <1>3, <2>1, <2>2, LocalFields DEF Becomes
  <2>4. /\ pc'[p] = "dir" /\ call'[p] = call[p] /\ path'[p] = path[p] /\ dp'[p] = dp[p]
        /\ ip'[p] = ip[p] /\ puts'[p] = <<>> /\ stage'[p] = "no"
    BY <1>2, <1>6, <2>3 DEF Becomes
  <2>5. /\ ref' \in [Inodes -> Nat]
        /\ \A i \in Inodes : ref'[i] = ref[i] + Is(NoInode, i) /\ ref'[i] >= ref[i]
    BY <1>3, <2>1, RefSame
  <2>6. \A i \in Inodes : Own(p, i)' = Own(p, i) + Is(NoInode, i) /\ Credit(p, i)' = Credit(p, i)
    <3> SUFFICES ASSUME NEW i \in Inodes
                 PROVE  Own(p, i)' = Own(p, i) + Is(NoInode, i) /\ Credit(p, i)' = Credit(p, i)
      OBVIOUS
    <3>1. Own(p, i) = Is(cwd[p], i) + Is(file[p], i) + Is(dp[p], i) + Is(ip[p], i)
      BY <1>1, OwnBefore
    <3>2. Own(p, i)' = Is(cwd[p], i) + Is(file[p], i) + Is(dp[p], i) + Is(ip[p], i)
      BY <1>2, <2>4, OwnAfter
    <3>3. OwedIp'[p] = OwedIp[p] /\ OwedDp'[p] = OwedDp[p]
      BY <1>1, <2>4, OwedFields
    <3> QED
      BY <3>1, <3>2, <3>3, Constants DEF Credit, Is
  <2>7. Shape(p)'
    BY <1>3, <1>4, <1>6, <1>10, <2>4, Constants DEF Shape, NeedsDp, Entering, Creates, Unlinks
  <2>8. LiveHere(p)
    BY <1>3, <1>4, <1>6, <1>10, <2>4, Constants DEF LiveHere, LiveAt, IsDir, NeedsDp, Entering
  <2>9. Unlocks(p)
    <3>1. \A i \in Inodes : ~Holds(p, i)'
      BY <2>4 DEF Holds, NeedsDp, NeedsIp, Entering
    <3> QED
      BY <1>9, <3>1 DEF Unlocks
  <2>10. /\ valid' \in [Inodes -> BOOLEAN]
         /\ inode' \in [Inodes -> [type : {"free", "file", "dir", "dev"}, nlink : Nat]]
         /\ \A i \in Inodes : CopyKept(i) \/ CopyRead(i)
    BY <1>1, <1>4, <1>6, <2>5, ReadStep
  <2> QED
    BY <1>1, <1>2, <1>9, <2>3, <2>5, <2>6, <2>7, <2>8, <2>9, <2>10, GetQuiet
<1>11. CASE /\ IsDir(dp[p]) /\ ~last /\ next # NoInode
            /\ Iget(next) /\ puts' = Set(puts, p, <<dp[p]>>)
            /\ dp' = Set(dp, p, next) /\ path' = Set(path, p, Tail(path[p]))
            /\ Goto(p, Next_place(call[p], Tail(path[p]))) /\ UNCHANGED <<call, ip>>
  <2> DEFINE at == Next_place(call[p], Tail(path[p]))
  <2>1. /\ pc' = [pc EXCEPT ![p] = at] /\ puts' = [puts EXCEPT ![p] = <<dp[p]>>]
        /\ call' = call /\ path' = [path EXCEPT ![p] = Tail(path[p])]
        /\ dp' = [dp EXCEPT ![p] = next] /\ ip' = ip
    BY <1>11 DEF Goto, Set
  <2>2. /\ at \in {"walk", "fail", "at"} /\ at \in Places
        /\ at = "walk" => Tail(path[p]) # <<>>
        /\ at = "fail" => ForParent(call[p])
        /\ at = "at" => ~ForParent(call[p])
    BY DEF Next_place, Places
  <2>3. next \in Inodes /\ Good(next) /\ <<dp[p]>> \in Seq(Inodes) /\ Len(<<dp[p]>>) = 1
    BY <1>4, <1>5, <1>11
  <2> HIDE DEF at, next
  <2>4. Becomes(p, at, call[p], Tail(path[p]), next, ip[p], <<dp[p]>>)
    BY <1>3, <1>5, <2>1, <2>2, <2>3, LocalFields DEF Becomes
  <2>5. /\ pc'[p] = at /\ call'[p] = call[p] /\ path'[p] = Tail(path[p]) /\ dp'[p] = next
        /\ ip'[p] = ip[p] /\ puts'[p] = <<dp[p]>> /\ stage'[p] = "no"
    BY <1>2, <1>6, <2>4 DEF Becomes
  <2>6. ref' \in [Inodes -> Nat] /\ \A i \in Inodes : ref'[i] = ref[i] + Is(next, i) /\ ref'[i] >= ref[i]
    BY <1>3, <1>11, <2>3, IgetStep
  <2>7. \A i \in Inodes : Own(p, i)' = Own(p, i) + Is(next, i) /\ Credit(p, i)' = Credit(p, i)
    <3> SUFFICES ASSUME NEW i \in Inodes
                 PROVE  Own(p, i)' = Own(p, i) + Is(next, i) /\ Credit(p, i)' = Credit(p, i)
      OBVIOUS
    <3>1. Own(p, i) = Is(cwd[p], i) + Is(file[p], i) + Is(dp[p], i) + Is(ip[p], i)
      BY <1>1, OwnBefore
    <3>2. Own(p, i)' = Is(cwd[p], i) + Is(file[p], i) + Is(next, i) + Is(ip[p], i) + Is(dp[p], i)
      BY <1>2, <2>5, OwnAfter
    <3>3. OwedIp'[p] = OwedIp[p] /\ OwedDp'[p] = OwedDp[p]
      BY <1>1, <2>2, <2>5, OwedFields
    <3> QED
      BY <3>1, <3>2, <3>3, Constants DEF Credit, Is
  <2>8. Shape(p)'
    BY <1>3, <1>4, <1>6, <2>2, <2>3, <2>5, Constants DEF Shape, NeedsDp, Entering, Creates, Unlinks
  <2>9. LiveHere(p)
    BY <1>3, <1>4, <2>2, <2>5, Constants DEF LiveHere, LiveAt, NeedsDp, Entering
  <2>10. Unlocks(p)
    <3>1. \A i \in Inodes : ~Holds(p, i)'
      BY <2>2, <2>5 DEF Holds, NeedsDp, NeedsIp, Entering
    <3> QED
      BY <1>9, <3>1 DEF Unlocks
  <2>11. /\ valid' \in [Inodes -> BOOLEAN]
         /\ inode' \in [Inodes -> [type : {"free", "file", "dir", "dev"}, nlink : Nat]]
         /\ \A i \in Inodes : CopyKept(i) \/ CopyRead(i)
    BY <1>1, <1>4, <1>6, <2>6, ReadStep
  <2>12. pc[p] # "fresh" /\ at # "fresh" /\ (next # NoInode => Good(next)) /\ next \in Inodes \cup {NoInode}
    BY <1>1, <2>2, <2>3
  <2> QED
    BY <1>1, <1>2, <1>9, <2>4, <2>6, <2>7, <2>8, <2>9, <2>10, <2>11, <2>12, GetQuiet
<1>12. CASE Failed(p, <<dp[p]>>) /\ UNCHANGED ref
  <2>1. ref' \in [Inodes -> Nat] /\ \A i \in Inodes : ref'[i] >= ref[i]
    BY <1>3, <1>12, RefSame
  <2>2. /\ valid' \in [Inodes -> BOOLEAN]
        /\ inode' \in [Inodes -> [type : {"free", "file", "dir", "dev"}, nlink : Nat]]
        /\ \A i \in Inodes : CopyKept(i) \/ CopyRead(i)
    BY <1>1, <1>4, <1>6, <2>1, ReadStep
  <2>3. UNCHANGED <<disk, ref, stage, ghost, cwd, file>>
    BY <1>2, <1>12
  <2> QED
    BY <1>1, <1>9, <1>12, <2>2, <2>3, FailedKeeps
<1> QED
  BY <1>10, <1>11, <1>12 DEF Walk
LEMMA LockStep ==
  ASSUME FilesInv, NEW p \in Procs, puts[p] = <<>>, pc[p] \notin NeedsDp \cup NeedsIp,
         NEW j \in Inodes, busy[j] = NoProc, busy' = [busy EXCEPT ![j] = p],
         \A i \in Inodes : Holds(p, i)' <=> i = j
  PROVE  Unlocks(p) /\ busy' \in [Inodes -> Procs \cup {NoProc}]
<1>1. \A i \in Inodes : busy'[i] = IF i = j THEN p ELSE busy[i]
  BY SharedFields DEF FilesInv
<1>2. stage[p] = "no" /\ \A i \in Inodes : busy[i] # p
  BY ReadyFacts DEF FilesInv, Locked, Holds
<1>3. busy' \in [Inodes -> Procs \cup {NoProc}]
  BY SharedFields DEF FilesInv
<1> QED
  BY <1>1, <1>2, <1>3, Constants DEF Unlocks

LEMMA CreateFoundKeeps ==
  ASSUME FilesInv, NEW p \in Procs, CreateFound(p)
  PROVE  FilesInv'
<1> DEFINE j == Lookup(p)
<1>1. /\ pc[p] = "dir" /\ puts[p] = <<>> /\ call[p].op \in DOMAIN Kind /\ Read(dp[p]) /\ Iget(j)
      /\ busy[dp[p]] = NoProc /\ busy' = busy /\ j # NoInode
      /\ pc' = [pc EXCEPT ![p] = "existing"]
      /\ ip' = [ip EXCEPT ![p] = j] /\ puts' = [puts EXCEPT ![p] = <<dp[p]>>]
      /\ dp' = [dp EXCEPT ![p] = NoInode] /\ path' = [path EXCEPT ![p] = <<>>] /\ call' = call
  BY DEF CreateFound, Ready, Creating, CanLock, Goto, Set, locals, putting
<1>2. UNCHANGED <<disk, places, stage, ghost>> /\ cwd' = cwd /\ file' = file
  BY DEF CreateFound, places, putting
<1>3. Values /\ Shape(p) /\ LiveAt(p)
  BY DEF FilesInv, Shapes, Live
<1>4. /\ dp[p] \in Inodes /\ ip[p] = NoInode /\ path[p] \in Seq(Names) /\ Len(path[p]) = 1
      /\ call[p] # NoCall /\ dinode[dp[p]].type = "dir"
  BY <1>1, <1>3, Types, Constants DEF Shape, LiveAt, NeedsDp, Entering, Creates, Unlinks, Kind
<1>5. /\ Head(path[p]) \in Names /\ j \in Inodes /\ Good(j)
  <2>1. Head(path[p]) \in Names
    BY <1>4
  <2> QED
    BY <1>1, <1>3, <1>4, <2>1, NameGood, Types DEF Lookup
<1>6. Good(dp[p]) /\ ref[dp[p]] > 0 /\ stage[p] = "no" /\ Front(p) = NoInode
  BY <1>1, <1>4, OwnLock, ReadyFacts DEF Points
<1>7. <<dp[p]>> \in Seq(Inodes) /\ Len(<<dp[p]>>) <= 2 /\ "existing" \in Places /\ <<>> \in Seq(Names)
  BY <1>4, <1>5 DEF Places, Creates, Unlinks
<1> HIDE DEF j
<1>8. Becomes(p, "existing", call[p], <<>>, NoInode, j, <<dp[p]>>)
  BY <1>1, <1>3, <1>4, <1>5, <1>7, LocalFields DEF Becomes
<1>9. /\ pc'[p] = "existing" /\ call'[p] = call[p] /\ path'[p] = <<>> /\ dp'[p] = NoInode
      /\ ip'[p] = j /\ puts'[p] = <<dp[p]>> /\ stage'[p] = "no"
  BY <1>2, <1>6, <1>8 DEF Becomes
<1>10. ref' \in [Inodes -> Nat] /\ \A i \in Inodes : ref'[i] = ref[i] + Is(j, i) /\ ref'[i] >= ref[i]
  BY <1>1, <1>3, <1>5, IgetStep
<1>11. \A i \in Inodes : Own(p, i)' = Own(p, i) + Is(j, i) /\ Credit(p, i)' = Credit(p, i)
  <2> SUFFICES ASSUME NEW i \in Inodes
               PROVE  Own(p, i)' = Own(p, i) + Is(j, i) /\ Credit(p, i)' = Credit(p, i)
    OBVIOUS
  <2>1. Own(p, i) = Is(cwd[p], i) + Is(file[p], i) + Is(dp[p], i) + Is(ip[p], i)
    BY <1>1, OwnBefore
  <2>2. Own(p, i)' = Is(cwd[p], i) + Is(file[p], i) + Is(NoInode, i) + Is(j, i) + Is(dp[p], i)
    BY <1>2, <1>9, OwnAfter
  <2>3. OwedIp'[p] = OwedIp[p] /\ OwedDp'[p] = OwedDp[p]
    BY <1>1, <1>9, OwedFields DEF Kind
  <2> QED
    BY <1>4, <2>1, <2>2, <2>3, Constants DEF Credit, Is
<1>12. Shape(p)'
  BY <1>1, <1>3, <1>4, <1>5, <1>6, <1>9, Constants DEF Shape, NeedsDp, Entering, Creates, Unlinks, Creating, Kind
<1>13. LiveHere(p)
  <2>1. "existing" = "victim" => Lookup(p)' = ip'[p]
    BY <1>2, <1>9 DEF Lookup, disk, j
  <2> QED
    BY <1>1, <1>3, <1>4, <1>9, <2>1 DEF LiveHere, LiveAt, NeedsDp, Entering, Kind
<1>14. Unlocks(p) /\ busy' \in [Inodes -> Procs \cup {NoProc}]
  <2>1. pc[p] \notin NeedsDp \cup NeedsIp
    BY <1>1 DEF NeedsDp, NeedsIp, Entering
  <2>2. \A i \in Inodes : ~Holds(p, i)'
    BY <1>9 DEF Holds, NeedsDp, NeedsIp, Entering
  <2> QED
    BY <1>1, <1>4, <2>1, <2>2, BusyKept DEF Unlocks
<1>15. /\ valid' \in [Inodes -> BOOLEAN]
       /\ inode' \in [Inodes -> [type : {"free", "file", "dir", "dev"}, nlink : Nat]]
       /\ \A i \in Inodes : CopyKept(i) \/ CopyRead(i)
  BY <1>1, <1>4, <1>6, <1>10, ReadStep
<1>16. pc[p] # "fresh" /\ "existing" # "fresh" /\ (j # NoInode => Good(j)) /\ j \in Inodes \cup {NoInode}
  BY <1>1, <1>5
<1> QED
  BY <1>1, <1>2, <1>8, <1>10, <1>11, <1>12, <1>13, <1>14, <1>15, <1>16, GetQuiet

LEMMA UnlinkFoundKeeps ==
  ASSUME FilesInv, NEW p \in Procs, UnlinkFound(p)
  PROVE  FilesInv'
<1> DEFINE j == Lookup(p)
<1>1. /\ pc[p] = "dir" /\ puts[p] = <<>> /\ call[p].op = "unlink" /\ Read(dp[p]) /\ Iget(j)
      /\ busy[dp[p]] = NoProc /\ busy' = [busy EXCEPT ![dp[p]] = p] /\ j # NoInode
      /\ pc' = [pc EXCEPT ![p] = "victim"]
      /\ ip' = [ip EXCEPT ![p] = j] /\ puts' = puts /\ dp' = dp /\ path' = path /\ call' = call
  BY DEF UnlinkFound, Ready, Creating, CanLock, Goto, Set, locals, putting
<1>2. UNCHANGED <<disk, places, stage, ghost>> /\ cwd' = cwd /\ file' = file
  BY DEF UnlinkFound, places, putting
<1>3. Values /\ Shape(p) /\ LiveAt(p)
  BY DEF FilesInv, Shapes, Live
<1>4. /\ dp[p] \in Inodes /\ ip[p] = NoInode /\ path[p] \in Seq(Names) /\ Len(path[p]) = 1
      /\ call[p] # NoCall /\ dinode[dp[p]].type = "dir"
  BY <1>1, <1>3, Types, Constants DEF Shape, LiveAt, NeedsDp, Entering, Creates, Unlinks, Kind
<1>5. /\ Head(path[p]) \in Names /\ j \in Inodes /\ Good(j)
  <2>1. Head(path[p]) \in Names
    BY <1>4
  <2> QED
    BY <1>1, <1>3, <1>4, <2>1, NameGood, Types DEF Lookup
<1>6. Good(dp[p]) /\ ref[dp[p]] > 0 /\ stage[p] = "no" /\ Front(p) = NoInode
  BY <1>1, <1>4, OwnLock, ReadyFacts DEF Points
<1>7. <<>> \in Seq(Inodes) /\ Len(<<>>) <= 2 /\ "victim" \in Places /\ <<>> \in Seq(Names)
  BY <1>4, <1>5 DEF Places, Creates, Unlinks
<1> HIDE DEF j
<1>8. Becomes(p, "victim", call[p], path[p], dp[p], j, <<>>)
  BY <1>1, <1>3, <1>4, <1>5, <1>7, LocalFields DEF Becomes
<1>9. /\ pc'[p] = "victim" /\ call'[p] = call[p] /\ path'[p] = path[p] /\ dp'[p] = dp[p]
      /\ ip'[p] = j /\ puts'[p] = <<>> /\ stage'[p] = "no"
  BY <1>2, <1>6, <1>8 DEF Becomes
<1>10. ref' \in [Inodes -> Nat] /\ \A i \in Inodes : ref'[i] = ref[i] + Is(j, i) /\ ref'[i] >= ref[i]
  BY <1>1, <1>3, <1>5, IgetStep
<1>11. \A i \in Inodes : Own(p, i)' = Own(p, i) + Is(j, i) /\ Credit(p, i)' = Credit(p, i)
  <2> SUFFICES ASSUME NEW i \in Inodes
               PROVE  Own(p, i)' = Own(p, i) + Is(j, i) /\ Credit(p, i)' = Credit(p, i)
    OBVIOUS
  <2>1. Own(p, i) = Is(cwd[p], i) + Is(file[p], i) + Is(dp[p], i) + Is(ip[p], i)
    BY <1>1, OwnBefore
  <2>2. Own(p, i)' = Is(cwd[p], i) + Is(file[p], i) + Is(dp[p], i) + Is(j, i)
    BY <1>2, <1>9, OwnAfter
  <2>3. OwedIp'[p] = OwedIp[p] /\ OwedDp'[p] = OwedDp[p]
    BY <1>1, <1>9, OwedFields DEF Kind
  <2> QED
    BY <1>4, <2>1, <2>2, <2>3, Constants DEF Credit, Is
<1>12. Shape(p)'
  BY <1>1, <1>3, <1>4, <1>5, <1>6, <1>9, Constants DEF Shape, NeedsDp, Entering, Creates, Unlinks, Creating, Kind
<1>13. LiveHere(p)
  <2>1. "victim" = "victim" => Lookup(p)' = ip'[p]
    BY <1>2, <1>9 DEF Lookup, disk, j
  <2> QED
    BY <1>1, <1>3, <1>4, <1>9, <2>1 DEF LiveHere, LiveAt, NeedsDp, Entering, Kind
<1>14. Unlocks(p) /\ busy' \in [Inodes -> Procs \cup {NoProc}]
  <2>1. pc[p] \notin NeedsDp \cup NeedsIp
    BY <1>1 DEF NeedsDp, NeedsIp, Entering
  <2>2. \A i \in Inodes : Holds(p, i)' <=> i = dp[p]
    BY <1>9 DEF Holds, NeedsDp, NeedsIp, Entering
  <2> QED
    BY <1>1, <1>4, <2>1, <2>2, LockStep
<1>15. /\ valid' \in [Inodes -> BOOLEAN]
       /\ inode' \in [Inodes -> [type : {"free", "file", "dir", "dev"}, nlink : Nat]]
       /\ \A i \in Inodes : CopyKept(i) \/ CopyRead(i)
  BY <1>1, <1>4, <1>6, <1>10, ReadStep
<1>16. pc[p] # "fresh" /\ "victim" # "fresh" /\ (j # NoInode => Good(j)) /\ j \in Inodes \cup {NoInode}
  BY <1>1, <1>5
<1> QED
  BY <1>1, <1>2, <1>8, <1>10, <1>11, <1>12, <1>13, <1>14, <1>15, <1>16, GetQuiet

LEMMA LinkFoundKeeps ==
  ASSUME FilesInv, NEW p \in Procs, LinkFound(p)
  PROVE  FilesInv'
<1> DEFINE j == Lookup(p)
<1>1. /\ pc[p] = "dir" /\ puts[p] = <<>> /\ call[p].op = "linkto" /\ Read(dp[p]) /\ Iget(j)
      /\ busy[dp[p]] = NoProc /\ busy' = [busy EXCEPT ![dp[p]] = p] /\ j # NoInode
      /\ pc' = [pc EXCEPT ![p] = "linkfail"]
      /\ puts' = [puts EXCEPT ![p] = <<j>>]
      /\ ip' = ip /\ dp' = dp /\ path' = path /\ call' = call
  BY DEF LinkFound, Ready, Creating, CanLock, Goto, Set, locals, putting
<1>2. UNCHANGED <<disk, places, stage, ghost>> /\ cwd' = cwd /\ file' = file
  BY DEF LinkFound, places, putting
<1>3. Values /\ Shape(p) /\ LiveAt(p)
  BY DEF FilesInv, Shapes, Live
<1>4. /\ dp[p] \in Inodes /\ ip[p] \in Inodes /\ path[p] \in Seq(Names) /\ Len(path[p]) = 1
      /\ call[p] # NoCall /\ dinode[dp[p]].type = "dir"
  BY <1>1, <1>3, Types, Constants DEF Shape, LiveAt, NeedsDp, Entering, Creates, Unlinks, Kind
<1>5. /\ Head(path[p]) \in Names /\ j \in Inodes /\ Good(j)
  <2>1. Head(path[p]) \in Names
    BY <1>4
  <2> QED
    BY <1>1, <1>3, <1>4, <2>1, NameGood, Types DEF Lookup
<1>6. Good(dp[p]) /\ ref[dp[p]] > 0 /\ stage[p] = "no" /\ Front(p) = NoInode
  BY <1>1, <1>4, OwnLock, ReadyFacts DEF Points
<1>7. <<j>> \in Seq(Inodes) /\ Len(<<j>>) <= 2 /\ "linkfail" \in Places /\ <<>> \in Seq(Names)
  BY <1>4, <1>5 DEF Places, Creates, Unlinks
<1> HIDE DEF j
<1>8. Becomes(p, "linkfail", call[p], path[p], dp[p], ip[p], <<j>>)
  BY <1>1, <1>3, <1>4, <1>5, <1>7, LocalFields DEF Becomes
<1>9. /\ pc'[p] = "linkfail" /\ call'[p] = call[p] /\ path'[p] = path[p] /\ dp'[p] = dp[p]
      /\ ip'[p] = ip[p] /\ puts'[p] = <<j>> /\ stage'[p] = "no"
  BY <1>2, <1>6, <1>8 DEF Becomes
<1>10. ref' \in [Inodes -> Nat] /\ \A i \in Inodes : ref'[i] = ref[i] + Is(j, i) /\ ref'[i] >= ref[i]
  BY <1>1, <1>3, <1>5, IgetStep
<1>11. \A i \in Inodes : Own(p, i)' = Own(p, i) + Is(j, i) /\ Credit(p, i)' = Credit(p, i)
  <2> SUFFICES ASSUME NEW i \in Inodes
               PROVE  Own(p, i)' = Own(p, i) + Is(j, i) /\ Credit(p, i)' = Credit(p, i)
    OBVIOUS
  <2>1. Own(p, i) = Is(cwd[p], i) + Is(file[p], i) + Is(dp[p], i) + Is(ip[p], i)
    BY <1>1, OwnBefore
  <2>2. Own(p, i)' = Is(cwd[p], i) + Is(file[p], i) + Is(dp[p], i) + Is(ip[p], i) + Is(j, i)
    BY <1>2, <1>9, OwnAfter
  <2>3. OwedIp'[p] = OwedIp[p] /\ OwedDp'[p] = OwedDp[p]
    BY <1>1, <1>9, OwedFields DEF Kind
  <2> QED
    BY <1>4, <2>1, <2>2, <2>3, Constants DEF Credit, Is
<1>12. Shape(p)'
  BY <1>1, <1>3, <1>4, <1>5, <1>6, <1>9, Constants DEF Shape, NeedsDp, Entering, Creates, Unlinks, Creating, Kind
<1>13. LiveHere(p)
  <2>1. "linkfail" = "victim" => Lookup(p)' = ip'[p]
    BY <1>2, <1>9 DEF Lookup, disk, j
  <2> QED
    BY <1>1, <1>3, <1>4, <1>9, <2>1 DEF LiveHere, LiveAt, NeedsDp, Entering, Kind
<1>14. Unlocks(p) /\ busy' \in [Inodes -> Procs \cup {NoProc}]
  <2>1. pc[p] \notin NeedsDp \cup NeedsIp
    BY <1>1 DEF NeedsDp, NeedsIp, Entering
  <2>2. \A i \in Inodes : Holds(p, i)' <=> i = dp[p]
    BY <1>9 DEF Holds, NeedsDp, NeedsIp, Entering
  <2> QED
    BY <1>1, <1>4, <2>1, <2>2, LockStep
<1>15. /\ valid' \in [Inodes -> BOOLEAN]
       /\ inode' \in [Inodes -> [type : {"free", "file", "dir", "dev"}, nlink : Nat]]
       /\ \A i \in Inodes : CopyKept(i) \/ CopyRead(i)
  BY <1>1, <1>4, <1>6, <1>10, ReadStep
<1>16. pc[p] # "fresh" /\ "linkfail" # "fresh" /\ (j # NoInode => Good(j)) /\ j \in Inodes \cup {NoInode}
  BY <1>1, <1>5
<1> QED
  BY <1>1, <1>2, <1>8, <1>10, <1>11, <1>12, <1>13, <1>14, <1>15, <1>16, GetQuiet
-----------------------------------------------------------------------------
(* iput() *)
LEMMA PuttingFacts ==
  ASSUME FilesInv, NEW p \in Procs, puts[p] # <<>>
  PROVE  /\ Head(puts[p]) = Front(p) /\ Front(p) \in Inodes /\ Values /\ Shape(p)
         /\ pc[p] \notin Entering \cup {"victim", "unparent"}
         /\ stage[p] = "no" => Good(Front(p)) /\ ref[Front(p)] > 0
<1>1. Values /\ Shape(p) /\ Head(puts[p]) = Front(p) /\ Front(p) \in Inodes
  BY PutValues DEF FilesInv, Shapes
<1>2. pc[p] \notin Entering \cup {"victim", "unparent"}
  BY <1>1 DEF Shape, NeedsDp, Entering
<1>3. stage[p] = "no" => Good(Front(p)) /\ ref[Front(p)] > 0
  BY <1>1, <1>2, OwnGood, RefSole DEF Points, Entering, FilesInv
<1> QED
  BY <1>1, <1>2, <1>3

LEMMA PutDropped ==
  ASSUME Values, NEW p \in Procs, puts[p] # <<>>, puts' = [puts EXCEPT ![p] = Tail(puts[p])]
  PROVE  /\ puts' \in [Procs -> Seq(Inodes)] /\ \A q \in Procs : Len(puts'[q]) <= 2
         /\ \A q \in Procs : q # p => puts'[q] = puts[q]
         /\ Front(p)' = Back(p) /\ Back(p)' = NoInode
<1>1. puts[p] \in Seq(Inodes) /\ Len(puts[p]) <= 2 /\ puts'[p] = Tail(puts[p])
  BY LocalFields
<1>2. /\ Tail(puts[p]) \in Seq(Inodes) /\ Len(Tail(puts[p])) <= 2
      /\ (IF 1 \in DOMAIN Tail(puts[p]) THEN Tail(puts[p])[1] ELSE NoInode)
           = (IF 2 \in DOMAIN puts[p] THEN puts[p][2] ELSE NoInode)
      /\ 2 \notin DOMAIN Tail(puts[p])
  <2>1. PICK s \in Seq(Inodes) : s = puts[p] /\ s # <<>> /\ Len(s) <= 2
    BY <1>1
  <2> QED
    BY <2>1, PutTail
<1>3. Front(p)' = Back(p) /\ Back(p)' = NoInode
  BY <1>1, <1>2 DEF Front, Back, Put
<1>4. \A q \in Procs : puts'[q] = IF q = p THEN Tail(puts[p]) ELSE puts[q]
  BY LocalFields
<1>5. puts' \in [Procs -> Seq(Inodes)] /\ \A q \in Procs : Len(puts'[q]) <= 2
  BY <1>2, <1>4, LocalFields
<1> QED
  BY <1>3, <1>4, <1>5

LEMMA IputKeeps ==
  ASSUME FilesInv, NEW p \in Procs, Iput(p)
  PROVE  FilesInv'
<1> DEFINE j == Head(puts[p])
<1>1. /\ puts[p] # <<>> /\ stage[p] = "no" /\ ~LastPut(j) /\ ref' = [ref EXCEPT ![j] = ref[j] - 1]
      /\ valid' = (IF ref[j] = 1 THEN [valid EXCEPT ![j] = FALSE] ELSE valid)
      /\ inode' = (IF ref[j] = 1 THEN [inode EXCEPT ![j] = Empty] ELSE inode)
      /\ puts' = [puts EXCEPT ![p] = Tail(puts[p])]
  BY DEF Iput, Putting, Unref, Dead, Set
<1>2. /\ UNCHANGED <<disk, boots, lost>> /\ busy' = busy /\ pc' = pc /\ call' = call /\ path' = path
      /\ dp' = dp /\ ip' = ip /\ stage' = stage /\ cwd' = cwd /\ file' = file /\ calls' = calls
      /\ panicked' = panicked
  BY DEF Iput, places, locals, ghost
<1>3. dinode' = dinode /\ dents' = dents
  BY <1>2 DEF disk
<1>4. /\ j = Front(p) /\ j \in Inodes /\ Values /\ Shape(p) /\ Good(j) /\ ref[j] > 0
      /\ pc[p] \notin Entering \cup {"victim", "unparent"}
  BY <1>1, PuttingFacts
<1> HIDE DEF j
<1>5. /\ puts' \in [Procs -> Seq(Inodes)] /\ \A q \in Procs : Len(puts'[q]) <= 2
      /\ \A q \in Procs : q # p => puts'[q] = puts[q]
      /\ Front(p)' = Back(p) /\ Back(p)' = NoInode
  BY <1>1, <1>4, PutDropped
<1>6. \A i \in Inodes : ref[i] \in Nat /\ ref'[i] = ref[i] - Is(j, i)
  BY <1>1, <1>4, SharedFields DEF Is
<1>7. Values'
  <2>1. Becomes(p, pc[p], call[p], path[p], dp[p], ip[p], puts'[p])
    BY <1>2, <1>4, <1>5, LocalFields DEF Becomes
  <2>2. ref' \in [Inodes -> Nat]
    BY <1>1, <1>4, SharedFields
  <2>3. /\ valid' \in [Inodes -> BOOLEAN]
        /\ inode' \in [Inodes -> [type : {"free", "file", "dir", "dev"}, nlink : Nat]]
    BY <1>1, <1>4, SharedFields DEF Empty
  <2> QED
    BY <1>2, <1>3, <1>4, <2>1, <2>2, <2>3, SharedFields, ValuesKept
<1>8. Calm(p)
  BY <1>1, <1>2, <1>4, <1>5 DEF Calm, Rest, Entering
<1>9. Shape(p)'
  BY <1>1, <1>2, <1>4 DEF Shape, NeedsDp, Entering, Creating, Creates, Unlinks
<1>10. \A i \in Inodes : Own(p, i)' = Own(p, i) - Is(j, i) /\ Own(p, i) \in Nat
  <2> SUFFICES ASSUME NEW i \in Inodes PROVE Own(p, i)' = Own(p, i) - Is(j, i)
    BY PointsOwn
  <2>1. Own(p, i)' = Is(cwd[p], i) + Is(file[p], i) + Is(dp[p], i) + Is(ip[p], i) + Is(Back(p), i) + Is(NoInode, i)
    BY <1>2, <1>5 DEF Own, Is
  <2>2. Own(p, i) = Is(cwd[p], i) + Is(file[p], i) + Is(dp[p], i) + Is(ip[p], i) + Is(j, i) + Is(Back(p), i)
    BY <1>4 DEF Own
  <2> QED
    BY <2>1, <2>2, Constants DEF Is
<1>11. NewPoints(p)
  <2> SUFFICES ASSUME NEW i \in Inodes, Points(p, i)' PROVE Good(i)
    BY DEF NewPoints
  <2>1. Points(p, i)
    BY <1>2, <1>5, Constants DEF Points
  <2> QED
    BY <1>1, <1>4, <2>1, OwnGood DEF Entering
<1>12. Counts(p)
  <2> SUFFICES ASSUME NEW i \in Inodes PROVE ref'[i] = ref[i] - Own(p, i) + Own(p, i)'
    BY DEF Counts
  <2>1. Is(j, i) \in {0, 1}
    BY Nothing
  <2> QED
    BY <1>6, <1>10, <2>1
<1>13. Unlocks(p)
  <2>1. \A i \in Inodes : Holds(p, i)' <=> Holds(p, i)
    BY <1>1, <1>2 DEF Holds
  <2> QED
    BY <1>2, <2>1 DEF Unlocks, FilesInv, Locked
<1>14. LiveHere(p)
  BY <1>2, <1>3, <1>4 DEF LiveHere, FilesInv, Live, LiveAt, NeedsDp
<1>15. \A i \in Inodes : Credit(p, i)' = Credit(p, i)
  <2>1. OwedIp'[p] = OwedIp[p] /\ OwedDp'[p] = OwedDp[p]
    BY <1>2, OwedFields
  <2> QED
    BY <2>1 DEF Credit, Is
<1>16. Quiet(p)
  BY <1>2, <1>7, <1>8, <1>9, <1>11, <1>12, <1>13, <1>14, <1>15 DEF Quiet
<1>17. /\ \A i \in Inodes : i # j => valid'[i] = valid[i] /\ inode'[i] = inode[i] /\ ref'[i] = ref[i]
       /\ ref'[j] = ref[j] - 1
       /\ ref[j] = 1 => ~valid'[j]
       /\ ref[j] # 1 => valid' = valid /\ inode' = inode
  BY <1>1, <1>4, SharedFields
<1>18. CopiedStep
  <2> SUFFICES ASSUME NEW i \in Inodes, valid'[i]
               PROVE  ref'[i] > 0 /\ (inode'[i] = dinode'[i] \/ (valid[i] /\ Gone(i)))
    BY DEF CopiedStep
  <2> QED
    BY <1>3, <1>4, <1>6, <1>17 DEF FilesInv, Copies
<1>19. Undisturbed
  BY <1>3, <1>4, <1>17 DEF Undisturbed, Good, IsEmpty
<1>20. Kept'
  <2> SUFFICES ASSUME boots = 0, NEW i \in Inodes, Used(i), dinode[i].nlink = 0
               PROVE  ref'[i] > 0 /\ (valid'[i] \/ IsFresh(i)')
    BY <1>2, <1>3 DEF Kept, Used
  <2>1. ref[i] > 0 /\ (valid[i] \/ IsFresh(i)) /\ ref[i] \in Nat
    BY <1>6 DEF Kept, FilesInv
  <2>2. IsFresh(i)' <=> IsFresh(i)
    BY <1>8, SafeKept
  <2>3. CASE i # j
    BY <1>17, <2>1, <2>2, <2>3
  <2>4. CASE i = j
    <3>1. ~IsFresh(i) /\ inode[i] = dinode[i]
      BY <1>4, <2>1, <2>4, SafeSeen DEF Good, Safe, IsFresh
    <3>2. ref[i] # 1
      BY <1>1, <2>1, <2>4, <3>1 DEF LastPut
    <3> QED
      BY <1>17, <2>1, <2>4, <3>1, <3>2
  <2> QED
    BY <2>3, <2>4
<1> QED
  BY <1>16, <1>18, <1>19, <1>20, QuietKeeps
-----------------------------------------------------------------------------
(* What is left to show of a step of p that changes the disk. *)
LEMMA StepKeeps ==
  ASSUME FilesInv, NEW p \in Procs, Rest(p), Values', Shape(p)', Counts(p), Unlocks(p),
         Dying', Fresh', Copies', Live', OnlyDirs', Enough', Exact', Kept', Bare', Named', FoundAt(p)',
         \A q \in Procs, d \in Inodes, n \in Names :
           q # p /\ busy[d] = q => dents'[d][n] = dents[d][n]
  PROVE  FilesInv'
<1>1. Shapes'
  BY ShapesKept DEF FilesInv
<1>2. Counted'
  <2>1. ref' \in [Inodes -> Int]
    BY DEF Values, TypeOK
  <2> QED
    BY <2>1, CountedKept DEF FilesInv, Counts
<1>3. Locked'
  BY LockedKept DEF FilesInv, Unlocks
<1>4. Found'
  BY FoundKept DEF FilesInv
<1> QED
  BY <1>1, <1>2, <1>3, <1>4 DEF FilesInv

(* A step of p that changes names or links, of inodes that are in use and  *)
(* stay so.                                                                *)
LEMMA WriteKeeps ==
  ASSUME FilesInv, NEW p \in Procs, Calm(p), Values', Shape(p)', Counts(p), Unlocks(p),
         NewPoints(p), Undisturbed, CopiedStep, LiveAt(p)', FoundAt(p)',
         \A i \in Inodes : dinode'[i].type = dinode[i].type,
         \A i \in Inodes : ~Used(i) => dinode'[i].nlink = dinode[i].nlink,
         boots' = boots, lost => lost',
         \A i \in Inodes :
           dinode'[i].nlink - dinode[i].nlink = Links(i)' - Links(i) + Credit(p, i)' - Credit(p, i),
         OnlyDirs', Kept', Bare', Named',
         \A q \in Procs, d \in Inodes, n \in Names :
           q # p /\ busy[d] = q => dents'[d][n] = dents[d][n]
  PROVE  FilesInv'
<1>1. Rest(p)
  BY DEF Calm
<1>2. Dying' /\ Fresh' /\ Copies'
  BY DyingKept, FreshKept, CopiesKept DEF FilesInv
<1>3. Enough' /\ Exact'
  BY <1>1, EnoughKept DEF FilesInv
<1>4. Live'
  BY <1>1, <1>3, LiveKept DEF FilesInv
<1> QED
  BY <1>1, <1>2, <1>3, <1>4, StepKeeps

(* The links that change with one entry of a directory. *)
DirHere(x) == x # NoInode /\ dinode[x].type = "dir"
LEMMA EntryStep ==
  ASSUME Values, Values', NEW d \in Inodes, NEW n \in Names,
         \A e \in Inodes, m \in Names : <<e, m>> # <<d, n>> => dents'[e][m] = dents[e][m],
         \A i \in Inodes : dinode'[i].type = dinode[i].type
  PROVE  /\ \A i \in Inodes :
              /\ Links(i)' = Links(i) - Is(dents[d][n], i) + Is(dents'[d][n], i)
                               - (IF i = d /\ DirHere(dents[d][n]) THEN 1 ELSE 0)
                               + (IF i = d /\ DirHere(dents'[d][n]) THEN 1 ELSE 0)
              /\ i # dents[d][n] => (NamesOf(i) # {} => NamesOf(i)' # {})
              /\ i # dents'[d][n] => (NamesOf(i)' # {} => NamesOf(i) # {})
              /\ i = dents'[d][n] => NamesOf(i)' # {}
              /\ i # d => (IsEmpty(i)' <=> IsEmpty(i))
<1> SUFFICES ASSUME NEW i \in Inodes
    PROVE  /\ Links(i)' = Links(i) - Is(dents[d][n], i) + Is(dents'[d][n], i)
                               - (IF i = d /\ DirHere(dents[d][n]) THEN 1 ELSE 0)
                               + (IF i = d /\ DirHere(dents'[d][n]) THEN 1 ELSE 0)
           /\ i # dents[d][n] => (NamesOf(i) # {} => NamesOf(i)' # {})
           /\ i # dents'[d][n] => (NamesOf(i)' # {} => NamesOf(i) # {})
           /\ i = dents'[d][n] => NamesOf(i)' # {}
           /\ i # d => (IsEmpty(i)' <=> IsEmpty(i))
  OBVIOUS
<1> DEFINE e == <<d, n>>
           N == NamesOf(i)
           M == {x \in Inodes \X Names : dents'[x[1]][x[2]] = i}
           S == Subdirs(i)
           T == {x \in Inodes \X Names : x[1] = i /\ dents'[i][x[2]] # NoInode
                                          /\ dinode'[dents'[i][x[2]]].type = "dir"}
<1>1. NamesOf(i)' = M /\ Subdirs(i)' = T
  BY DEF NamesOf, Subdirs
<1>2. IsFiniteSet(N) /\ IsFiniteSet(S)
  BY LinksFinite
<1>3. \A x \in Inodes \X Names : x # e => dents'[x[1]][x[2]] = dents[x[1]][x[2]]
  OBVIOUS
<1>4. \A x : x # e => (x \in N <=> x \in M)
  BY <1>3 DEF NamesOf
<1>5. e \in Inodes \X Names /\ (e \in N <=> dents[d][n] = i) /\ (e \in M <=> dents'[d][n] = i)
  BY DEF NamesOf
<1>6. \A x : x # e => (x \in S <=> x \in T)
  <2> SUFFICES ASSUME NEW x \in Inodes \X Names, x # e, x[1] = i
               PROVE  x \in S <=> x \in T
    BY DEF Subdirs
  <2>1. dents'[i][x[2]] = dents[i][x[2]] /\ x[2] \in Names
    BY <1>3
  <2>2. dents[i][x[2]] \in Inodes \cup {NoInode}
    BY <2>1, Types
  <2>3. x \in S <=> dents[i][x[2]] # NoInode /\ dinode[dents[i][x[2]]].type = "dir"
    BY DEF Subdirs
  <2>4. x \in T <=> dents'[i][x[2]] # NoInode /\ dinode'[dents'[i][x[2]]].type = "dir"
    OBVIOUS
  <2> QED
    BY <2>1, <2>2, <2>3, <2>4
<1>7. /\ e \in S <=> i = d /\ DirHere(dents[d][n])
      /\ e \in T <=> i = d /\ DirHere(dents'[d][n])
  <2>1. dents'[d][n] \in Inodes \cup {NoInode}
    <3>1. dents'[d] \in [Entries -> Inodes \cup {NoInode}]
      BY DEF Values, TypeOK
    <3> QED
      BY <3>1, Constants
  <2> QED
    BY <1>5, <2>1 DEF Subdirs, DirHere
<1>8. Cardinality(M) = Cardinality(N) - (IF e \in N THEN 1 ELSE 0) + (IF e \in M THEN 1 ELSE 0)
      /\ Cardinality(N) \in Nat /\ Cardinality(M) \in Nat
  <2> HIDE DEF N, M
  <2> QED BY <1>2, <1>4, SetStep
<1>9. Cardinality(T) = Cardinality(S) - (IF e \in S THEN 1 ELSE 0) + (IF e \in T THEN 1 ELSE 0)
      /\ Cardinality(S) \in Nat /\ Cardinality(T) \in Nat
  <2> HIDE DEF S, T
  <2> QED BY <1>2, <1>6, SetStep
<1>10. Links(i)' = Cardinality(M) + Cardinality(T) + (IF i = Root THEN 1 ELSE 0)
  BY <1>1 DEF Links
<1>11. Links(i) = Cardinality(N) + Cardinality(S) + (IF i = Root THEN 1 ELSE 0)
  BY DEF Links
<1>12. /\ (e \in N <=> dents[d][n] = i) /\ (e \in M <=> dents'[d][n] = i)
  BY <1>5
<1>13. \A x : x # e => (x \in N <=> x \in M)
  BY <1>4
<1>14. NamesOf(i) = N
  OBVIOUS
<1>15. i # d => (IsEmpty(i)' <=> IsEmpty(i))
  BY DEF IsEmpty
<1> HIDE DEF e, N, M, S, T
<1>16. Links(i)' = Links(i) - Is(dents[d][n], i) + Is(dents'[d][n], i)
                               - (IF i = d /\ DirHere(dents[d][n]) THEN 1 ELSE 0)
                               + (IF i = d /\ DirHere(dents'[d][n]) THEN 1 ELSE 0)
  BY <1>7, <1>8, <1>9, <1>10, <1>11, <1>12 DEF Is
<1> QED
  BY <1>1, <1>12, <1>13, <1>14, <1>15, <1>16

(* A directory of links that only p may hold has a name, if no crash and   *)
(* no removed directory left it links of nobody.                           *)
LEMMA HasName ==
  ASSUME FilesInv, Clean, NEW d \in Inodes, dinode[d].type = "dir", dinode[d].nlink # 0,
         \A q \in Procs : busy[d] = q => OwedIp[q] # d /\ OwedDp[q] # d
  PROVE  d = Root \/ NamesOf(d) # {}
<1> SUFFICES ASSUME d # Root, NamesOf(d) = {}
             PROVE  FALSE
  OBVIOUS
<1>1. IsEmpty(d)
  BY DEF FilesInv, Bare
<1>2. Subdirs(d) = {}
  BY <1>1 DEF Subdirs, IsEmpty
<1>3. Links(d) = 0
  BY <1>2, FS_EmptySet DEF Links
<1>4. Owed(d) # 0
  <2>1. dinode[d].nlink = Links(d) + Owed(d)
    BY DEF FilesInv, Exact
  <2>2. Owed(d) \in Nat
    BY LinksFinite
  <2> QED
    BY <1>3, <2>1, <2>2
<1>5. \E q \in Procs : OwedIp[q] = d \/ OwedDp[q] = d
  BY <1>4, CountPositive DEF Owed
<1>6. PICK q \in Procs : OwedIp[q] = d \/ OwedDp[q] = d
  BY <1>5
<1>7. Shape(q) /\ LiveAt(q) /\ d # NoInode
  BY Constants DEF FilesInv, Shapes, Live
<1>8. CASE OwedDp[q] = d
  <2>1. pc[q] \in NeedsDp /\ dp[q] = d
    BY <1>7, <1>8, OwedFields DEF NeedsDp, Entering
  <2> QED
    BY <1>8, <2>1 DEF FilesInv, Locked, Holds
<1>9. CASE OwedIp[q] = d
  <2>1. ip[q] = d /\ (pc[q] \in NeedsIp \/ call[q].op = "linkto")
    BY <1>7, <1>9, OwedFields DEF NeedsIp
  <2>2. call[q].op # "linkto"
    BY <1>7, <2>1 DEF LiveAt
  <2> QED
    BY <1>9, <2>1, <2>2 DEF FilesInv, Locked, Holds
<1> QED
  BY <1>6, <1>8, <1>9
-----------------------------------------------------------------------------
(* itrunc(), type = 0 and flags = 0 change what p puts and how far it is. *)
LEMMA StageFacts ==
  ASSUME FilesInv, NEW p \in Procs, stage[p] # "no"
  PROVE  /\ puts[p] # <<>> /\ Head(puts[p]) = Front(p) /\ Front(p) \in Inodes /\ Values /\ Shape(p)
         /\ pc[p] \notin Entering \cup {"victim", "unparent"}
         /\ valid[Front(p)] /\ dinode[Front(p)].nlink = 0 /\ busy[Front(p)] = p
         /\ ref[Front(p)] > 0 /\ NamesOf(Front(p)) = {} /\ Front(p) # Root
         /\ Front(p) # NoInode
<1>1. puts[p] # <<>>
  BY DEF FilesInv, Shapes, Shape
<1>2. /\ Head(puts[p]) = Front(p) /\ Front(p) \in Inodes /\ Values /\ Shape(p)
      /\ pc[p] \notin Entering \cup {"victim", "unparent"}
  BY <1>1, PuttingFacts
<1>3. valid[Front(p)] /\ dinode[Front(p)].nlink = 0
  BY DEF FilesInv, Dying
<1>4. ref[Front(p)] > 0 /\ busy[Front(p)] = p
  BY <1>2, <1>3 DEF FilesInv, Copies, Locked, Holds
<1>5. NamesOf(Front(p)) = {} /\ Front(p) # Root
  BY <1>2, <1>3, NameCounts DEF FilesInv
<1> QED
  BY <1>1, <1>2, <1>3, <1>4, <1>5, Constants

(* What a step leaves alone that only changes how far an iput() is. *)
StageStep(p) ==
  /\ UNCHANGED <<ref, places, pc, locals, puts, boots, calls, lost>>
  /\ \A q \in Procs : q # p => stage'[q] = stage[q]
  /\ stage'[p] # "no" /\ puts[p] # <<>>
  /\ \A n \in Names, d \in Inodes : busy[d] # p => dents'[d][n] = dents[d][n]
LEMMA StageKeeps ==
  ASSUME FilesInv, NEW p \in Procs, StageStep(p), Values', Unlocks(p),
         Dying', Fresh', Copies', Live', OnlyDirs', Enough', Exact', Kept',
         Clean => \A i : NamesOf(i)' = NamesOf(i),
         Clean => \A i \in Inodes : IsEmpty(i) => IsEmpty(i)'
  PROVE  FilesInv'
<1>1. /\ ref' = ref /\ cwd' = cwd /\ file' = file /\ pc' = pc /\ call' = call /\ path' = path
      /\ dp' = dp /\ ip' = ip /\ puts' = puts /\ boots' = boots /\ lost' = lost
  BY DEF StageStep, places, locals
<1>2. Rest(p)
  BY <1>1 DEF Rest, StageStep
<1>3. Shape(p)
  BY DEF FilesInv, Shapes
<1>4. Shape(p)'
  BY <1>1, <1>3 DEF Shape, StageStep, Creating
<1>5. pc[p] \notin Entering \cup {"victim", "unparent"}
  BY PuttingFacts DEF StageStep
<1>6. Counts(p)
  <2>1. \A i \in Inodes : Own(p, i)' = Own(p, i)
    BY <1>1, PutsAre DEF Own, Is
  <2>2. \A i \in Inodes : ref[i] \in Nat /\ Own(p, i) \in Nat
    BY Types, PointsOwn DEF FilesInv
  <2> QED
    BY <1>1, <2>1, <2>2 DEF Counts
<1>7. FoundAt(p)' /\ ~MakesDir(p)'
  BY <1>1, <1>5 DEF FoundAt, MakesDir, Entering
<1>8. Clean' <=> Clean
  BY <1>1 DEF Clean
<1>9. Bare'
  BY <1>8 DEF Bare, FilesInv
<1>10. Named'
  BY <1>2, <1>7, <1>8, NamedKept DEF FilesInv
<1>11. \A q \in Procs, d \in Inodes, n \in Names :
         q # p /\ busy[d] = q => dents'[d][n] = dents[d][n]
  BY DEF StageStep
<1> QED
  BY <1>2, <1>4, <1>6, <1>7, <1>9, <1>10, <1>11, StepKeeps

LEMMA IputLastKeeps ==
  ASSUME FilesInv, NEW p \in Procs, IputLast(p)
  PROVE  FilesInv' /\ panicked' = "no"
<1> DEFINE j == Front(p)
<1>1. /\ puts[p] # <<>> /\ stage[p] = "no" /\ LastPut(Head(puts[p]))
      /\ busy' = [busy EXCEPT ![Head(puts[p])] = p] /\ stage' = [stage EXCEPT ![p] = "trunc"]
      /\ panicked' = IF busy[Head(puts[p])] = NoProc THEN "no" ELSE "iput"
  BY DEF IputLast, Putting, Set
<1>2. /\ UNCHANGED <<ref, places, pc, locals, puts, boots, calls, lost>>
      /\ dinode' = dinode /\ dents' = dents /\ valid' = valid /\ inode' = inode
      /\ cwd' = cwd /\ file' = file /\ call' = call /\ path' = path /\ dp' = dp /\ ip' = ip
  BY DEF IputLast, disk, places, locals
<1>3. /\ Head(puts[p]) = j /\ j \in Inodes /\ Values /\ Shape(p) /\ Good(j)
      /\ pc[p] \notin Entering \cup {"victim", "unparent"}
  BY <1>1, PuttingFacts
<1>4. /\ ref[j] = 1 /\ valid[j] /\ dinode[j].nlink = 0 /\ Used(j) /\ Safe(j)
  BY <1>1, <1>3, SafeSeen DEF LastPut, Good
<1>5. Points(p, j) /\ Own(p, j) = 1 /\ \A q \in Procs : q # p => ~Points(q, j)
  <2>1. Points(p, j)
    BY DEF Points
  <2>2. \A q \in Procs : q # p => ~Points(q, j) /\ Own(p, j) = 1
    BY <1>3, <1>4, <2>1, OnlyOwn DEF FilesInv
  <2>3. Own(p, j) = 1
    <3>1. ref[j] >= Own(p, j) /\ Own(p, j) \in Nat
      BY <1>3, RefSole DEF FilesInv
    <3>2. Own(p, j) # 0
      BY <1>3, <2>1, PointsOwn
    <3> QED
      BY <1>4, <3>1, <3>2
  <2> QED
    BY <2>1, <2>2, <2>3
<1>6. ~Others(p, j) /\ ip[p] # j
  <2>1. Own(p, j) = Is(cwd[p], j) + Is(file[p], j) + Is(dp[p], j) + Is(ip[p], j) + 1 + Is(Back(p), j)
    BY DEF Own, Is
  <2> QED
    BY <1>5, <2>1 DEF Is, Others
<1>7. busy[j] = NoProc
  <2> SUFFICES ASSUME NEW q \in Procs, Holds(q, j) PROVE FALSE
    BY <1>3, Types DEF FilesInv, Locked
  <2>1. q = p
    BY <1>5 DEF Holds, Points
  <2> QED
    BY <1>1, <1>6, <2>1 DEF Holds, Others
<1>8. \A q \in Procs : stage'[q] = IF q = p THEN "trunc" ELSE stage[q]
  BY <1>1, <1>3, SharedFields
<1>9. \A i \in Inodes : busy'[i] = IF i = j THEN p ELSE busy[i]
  BY <1>1, <1>3, SharedFields
<1>10. \A q \in Procs : Front(q)' = Front(q) /\ Back(q)' = Back(q)
  BY <1>2, PutsAre
<1>11. Values'
  <2>1. Becomes(p, pc[p], call[p], path[p], dp[p], ip[p], puts[p])
    BY <1>2, <1>3, LocalFields DEF Becomes
  <2>2. /\ busy' \in [Inodes -> Procs \cup {NoProc}] /\ panicked' = "no"
        /\ stage' \in [Procs -> {"no", "trunc", "free", "drop"}]
    BY <1>1, <1>3, <1>7, SharedFields
  <2> QED
    BY <1>2, <1>3, <2>1, <2>2, SharedFields, ValuesKept
<1> HIDE DEF j
<1>12. StageStep(p)
  BY <1>1, <1>2, <1>8 DEF StageStep
<1>13. Unlocks(p)
  <2>1. \A i \in Inodes : Holds(p, i)' <=> Holds(p, i) \/ i = j
    BY <1>1, <1>2, <1>8, <1>10 DEF Holds, j
  <2>2. \A i \in Inodes : busy[i] = p <=> Holds(p, i)
    BY DEF FilesInv, Locked
  <2> QED
    BY <1>7, <1>9, <2>1, <2>2, Constants DEF Unlocks
<1>14. /\ \A i : NamesOf(i)' = NamesOf(i)
       /\ \A i \in Inodes : Links(i)' = Links(i) /\ (IsEmpty(i)' <=> IsEmpty(i))
       /\ \A i \in Inodes : (Used(i)' <=> Used(i)) /\ (IsFresh(i)' <=> IsFresh(i)) /\ (Gone(i)' <=> Gone(i))
  <2>1. \A i \in Inodes : Gone(i)' <=> Gone(i)
    BY <1>1, <1>8, <1>10 DEF Gone
  <2>2. \A i \in Inodes : (Used(i)' <=> Used(i)) /\ (IsFresh(i)' <=> IsFresh(i))
    BY <1>2 DEF Used, IsFresh
  <2> QED
    BY <1>2, <1>3, <2>1, <2>2, LinksSame
<1>15. \A q \in Procs, i \in Inodes : Others(q, i)' <=> Others(q, i)
  BY <1>2, <1>10 DEF Others
<1>16. Dying'
  <2> SUFFICES ASSUME NEW q \in Procs, stage'[q] # "no", NEW i, i = Front(q)'
               PROVE  /\ valid'[i] /\ dinode'[i].nlink = 0
                      /\ stage'[q] \in {"trunc", "free"} => dinode'[i].type # "free"
                      /\ stage'[q] \in {"free", "drop"} => IsEmpty(i)'
                      /\ stage'[q] = "drop" => inode'[i] = Empty /\ (Used(i)' => IsFresh(i)')
                      /\ \A r \in Procs : /\ ~Others(r, i)'
                                          /\ ip'[r] = i => stage'[q] = "drop" /\ pc'[r] = "fresh"
                                          /\ Front(r)' = i => r = q
    BY DEF Dying, IsEmpty, Used, IsFresh, Others
  <2>1. CASE q = p
    <3>1. i = j /\ stage'[q] = "trunc"
      BY <1>8, <1>10, <2>1 DEF j
    <3>2. \A r \in Procs : ~Others(r, j) /\ ip[r] # j /\ (Front(r) = j => r = p)
      BY <1>5, <1>6 DEF Points, Others
    <3> QED
      BY <1>2, <1>3, <1>4, <1>10, <1>15, <2>1, <3>1, <3>2 DEF Used
  <2>2. CASE q # p
    <3>1. stage[q] # "no" /\ stage'[q] = stage[q] /\ i = Front(q)
      BY <1>8, <1>10, <2>2
    <3>2. i \in Inodes
      BY <3>1, StageFacts
    <3>3. /\ valid[i] /\ dinode[i].nlink = 0
          /\ stage[q] \in {"trunc", "free"} => dinode[i].type # "free"
          /\ stage[q] \in {"free", "drop"} => IsEmpty(i)
          /\ stage[q] = "drop" => inode[i] = Empty /\ (Used(i) => IsFresh(i))
          /\ \A r \in Procs : /\ ~Others(r, i)
                              /\ ip[r] = i => stage[q] = "drop" /\ pc[r] = "fresh"
                              /\ Front(r) = i => r = q
      BY <3>1 DEF FilesInv, Dying
    <3> QED
      BY <1>2, <1>10, <1>14, <1>15, <3>1, <3>2, <3>3
  <2> QED
    BY <2>1, <2>2
<1>17. Fresh'
  <2> SUFFICES ASSUME NEW q \in Procs, pc'[q] = "fresh", NEW i, i = ip'[q]
               PROVE  /\ dinode'[i].nlink = 0
                      /\ \A r \in Procs : /\ ~Others(r, i)'
                                          /\ ip'[r] = i => r = q
                                          /\ Front(r)' = i => stage'[r] = "drop"
    BY DEF Fresh, Others
  <2>1. pc[q] = "fresh" /\ i = ip[q]
    BY <1>2
  <2>2. i \in Inodes /\ i # j
    BY <1>4, <2>1, Types DEF Safe, FilesInv, Shapes, Shape, Creates
  <2>3. /\ dinode[i].nlink = 0
        /\ \A r \in Procs : ~Others(r, i) /\ (ip[r] = i => r = q) /\ (Front(r) = i => stage[r] = "drop")
    BY <2>1 DEF FilesInv, Fresh
  <2> QED
    BY <1>2, <1>8, <1>10, <1>15, <2>2, <2>3 DEF j
<1>18. Copies' /\ OnlyDirs' /\ Kept'
  <2>1. Copies'
    BY <1>2, <1>14 DEF FilesInv, Copies
  <2>2. OnlyDirs'
    BY <1>2, <1>14 DEF FilesInv, OnlyDirs
  <2>3. Kept'
    BY <1>2, <1>14 DEF FilesInv, Kept
  <2> QED
    BY <2>1, <2>2, <2>3
<1>19. Rest(p)
  BY <1>2, <1>8 DEF Rest
<1>20. Enough' /\ Exact'
  <2>1. \A i \in Inodes : Credit(p, i)' = Credit(p, i)
    <3>1. OwedIp'[p] = OwedIp[p] /\ OwedDp'[p] = OwedDp[p]
      BY <1>2, OwedFields
    <3> QED
      BY <3>1 DEF Credit, Is
  <2>2. \A i \in Inodes : dinode'[i].nlink - dinode[i].nlink = Links(i)' - Links(i) + Credit(p, i)' - Credit(p, i)
    <3> SUFFICES ASSUME NEW i \in Inodes
                 PROVE  dinode'[i].nlink - dinode[i].nlink = Links(i)' - Links(i) + Credit(p, i)' - Credit(p, i)
      OBVIOUS
    <3>1. Links(i) \in Nat /\ Credit(p, i) \in Nat /\ dinode[i].nlink \in Nat
      BY <1>3, <1>19, LinksNat, OwedStep, Types
    <3> QED
      BY <1>2, <1>14, <2>1, <3>1
  <2> QED
    BY <1>2, <1>3, <1>11, <1>19, <2>2, EnoughKept DEF FilesInv
<1>21. Live'
  <2>1. LiveAt(p)'
    <3>1. LiveAt(p)
      BY DEF FilesInv, Live
    <3> QED
      BY <1>1, <1>2, <1>8, <1>10, <3>1 DEF LiveAt, Used
  <2> QED
    BY <1>2, <1>3, <1>11, <1>19, <1>20, <2>1, LiveKept DEF FilesInv
<1>22. FilesInv'
  BY <1>11, <1>12, <1>13, <1>14, <1>16, <1>17, <1>18, <1>20, <1>21, StageKeeps
<1> QED
  BY <1>1, <1>3, <1>7, <1>22

LEMMA StageSame ==
  ASSUME FilesInv, NEW p \in Procs, StageStep(p)
  PROVE  /\ ref' = ref /\ cwd' = cwd /\ file' = file /\ pc' = pc /\ call' = call /\ path' = path
         /\ dp' = dp /\ ip' = ip /\ puts' = puts /\ boots' = boots /\ lost' = lost /\ calls' = calls
         /\ \A q \in Procs : Front(q)' = Front(q) /\ Back(q)' = Back(q)
         /\ \A q \in Procs, i \in Inodes : Others(q, i)' <=> Others(q, i)
         /\ \A i \in Inodes : IsFresh(i)' <=> IsFresh(i)
         /\ \A i \in Inodes : Credit(p, i)' = Credit(p, i) /\ Owed(i)' = Owed(i)
         /\ Rest(p)
         /\ Becomes(p, pc[p], call[p], path[p], dp[p], ip[p], puts[p])
<1>1. /\ ref' = ref /\ cwd' = cwd /\ file' = file /\ pc' = pc /\ call' = call /\ path' = path
      /\ dp' = dp /\ ip' = ip /\ puts' = puts /\ boots' = boots /\ lost' = lost /\ calls' = calls
  BY DEF StageStep, places, locals
<1>2. \A q \in Procs : Front(q)' = Front(q) /\ Back(q)' = Back(q)
  BY <1>1, PutsAre
<1>3. \A q \in Procs, i \in Inodes : Others(q, i)' <=> Others(q, i)
  BY <1>1, <1>2 DEF Others
<1>4. \A i \in Inodes : IsFresh(i)' <=> IsFresh(i)
  BY <1>1 DEF IsFresh
<1>5. Rest(p)
  BY <1>1 DEF Rest, StageStep
<1>6. \A i \in Inodes : Credit(p, i)' = Credit(p, i)
  <2>1. OwedIp'[p] = OwedIp[p] /\ OwedDp'[p] = OwedDp[p]
    BY <1>1, OwedFields
  <2> QED
    BY <2>1 DEF Credit, Is
<1>7. \A i \in Inodes : Owed(i)' = Owed(i)
  <2> SUFFICES ASSUME NEW i \in Inodes PROVE Owed(i)' = Owed(i)
    OBVIOUS
  <2>1. Owed(i)' = Owed(i) - Credit(p, i) + Credit(p, i)' /\ Owed(i) \in Nat /\ Credit(p, i) \in Nat
    BY <1>5, OwedStep
  <2> QED
    BY <1>6, <2>1
<1>8. Becomes(p, pc[p], call[p], path[p], dp[p], ip[p], puts[p])
  BY <1>1, LocalFields DEF Becomes, FilesInv
<1> QED
  BY <1>1, <1>2, <1>3, <1>4, <1>5, <1>6, <1>7, <1>8

(* Dying of the inodes that others free, when p frees j. *)
LEMMA DyingOther ==
  ASSUME FilesInv, NEW p \in Procs, StageStep(p), NEW q \in Procs, q # p, stage[q] # "no",
         \A i \in Inodes : i # Front(p) =>
           valid'[i] = valid[i] /\ inode'[i] = inode[i] /\ dinode'[i] = dinode[i] /\ (IsEmpty(i) => IsEmpty(i)'),
         NEW i, i = Front(q)
  PROVE  /\ valid'[i] /\ dinode'[i].nlink = 0
         /\ stage'[q] \in {"trunc", "free"} => dinode'[i].type # "free"
         /\ stage'[q] \in {"free", "drop"} => IsEmpty(i)'
         /\ stage'[q] = "drop" => inode'[i] = Empty /\ (Used(i)' => IsFresh(i)')
         /\ \A r \in Procs : /\ ~Others(r, i)'
                             /\ ip'[r] = i => stage'[q] = "drop" /\ pc'[r] = "fresh"
                             /\ Front(r)' = i => r = q
<1>1. stage'[q] = stage[q]
  BY DEF StageStep
<1>2. /\ valid[i] /\ dinode[i].nlink = 0
      /\ stage[q] \in {"trunc", "free"} => dinode[i].type # "free"
      /\ stage[q] \in {"free", "drop"} => IsEmpty(i)
      /\ stage[q] = "drop" => inode[i] = Empty /\ (Used(i) => IsFresh(i))
      /\ \A r \in Procs : /\ ~Others(r, i)
                          /\ ip[r] = i => stage[q] = "drop" /\ pc[r] = "fresh"
                          /\ Front(r) = i => r = q
  BY DEF FilesInv, Dying
<1>3. i \in Inodes /\ i # Front(p)
  BY <1>2, StageFacts
<1>4. /\ valid'[i] = valid[i] /\ inode'[i] = inode[i] /\ dinode'[i] = dinode[i]
      /\ IsEmpty(i) => IsEmpty(i)'
  BY <1>3
<1>5. /\ pc' = pc /\ ip' = ip /\ \A r \in Procs : Front(r)' = Front(r)
      /\ \A r \in Procs : Others(r, i)' <=> Others(r, i)
      /\ IsFresh(i)' <=> IsFresh(i)
  BY <1>3, StageSame
<1>6. Used(i)' <=> Used(i)
  BY <1>4 DEF Used
<1> QED
  BY <1>1, <1>2, <1>4, <1>5, <1>6

LEMMA FreshOther ==
  ASSUME FilesInv, NEW p \in Procs, StageStep(p), stage'[p] = "drop" \/ stage[p] # "drop",
         \A i \in Inodes : dinode'[i].nlink = dinode[i].nlink
  PROVE  Fresh'
<1> SUFFICES ASSUME NEW q \in Procs, pc'[q] = "fresh", NEW i, i = ip'[q]
             PROVE  /\ dinode'[i].nlink = 0
                    /\ \A r \in Procs : /\ ~Others(r, i)'
                                        /\ ip'[r] = i => r = q
                                        /\ Front(r)' = i => stage'[r] = "drop"
  BY DEF Fresh, Others
<1>1. pc' = pc /\ ip' = ip
  BY StageSame
<1>2. pc[q] = "fresh" /\ i = ip[q]
  BY <1>1
<1>3. i \in Inodes
  BY <1>2, Types DEF FilesInv, Shapes, Shape, Creates
<1>4. /\ \A r \in Procs : Front(r)' = Front(r)
      /\ \A r \in Procs : Others(r, i)' <=> Others(r, i)
  BY <1>3, StageSame
<1>5. /\ dinode[i].nlink = 0
      /\ \A r \in Procs : ~Others(r, i) /\ (ip[r] = i => r = q) /\ (Front(r) = i => stage[r] = "drop")
  BY <1>2 DEF FilesInv, Fresh
<1>6. \A r \in Procs : stage[r] = "drop" => stage'[r] = "drop"
  BY DEF StageStep
<1> QED
  BY <1>1, <1>3, <1>4, <1>5, <1>6

LEMMA ItruncKeeps ==
  ASSUME FilesInv, NEW p \in Procs, Itrunc(p)
  PROVE  FilesInv'
<1> DEFINE j == Front(p)
<1>1. /\ puts[p] # <<>> /\ stage[p] = "trunc"
      /\ dents' = [dents EXCEPT ![Head(puts[p])] = None] /\ stage' = [stage EXCEPT ![p] = "free"]
  BY DEF Itrunc, Putting, Set
<1>2. /\ UNCHANGED <<ref, places, pc, locals, puts, boots, calls, lost>>
      /\ dinode' = dinode /\ valid' = valid /\ inode' = inode /\ busy' = busy /\ panicked' = panicked
  BY DEF Itrunc, icache, ghost
<1>3. /\ Head(puts[p]) = j /\ j \in Inodes /\ Values /\ valid[j] /\ dinode[j].nlink = 0 /\ busy[j] = p
      /\ ref[j] > 0 /\ NamesOf(j) = {} /\ j # Root
  BY <1>1, StageFacts
<1> HIDE DEF j
<1>4. /\ \A d \in Inodes : dents'[d] = IF d = j THEN None ELSE dents[d]
      /\ dents' \in [Inodes -> [Entries -> Inodes \cup {NoInode}]]
      /\ \A n \in Names : dents'[j][n] = NoInode
  <2>1. None \in [Entries -> Inodes \cup {NoInode}] /\ \A n \in Names : None[n] = NoInode
    BY Constants DEF None
  <2> QED
    BY <1>1, <1>3, <2>1, SharedFields
<1>5. \A q \in Procs : stage'[q] = IF q = p THEN "free" ELSE stage[q]
  BY <1>1, <1>3, SharedFields
<1>6. StageStep(p)
  BY <1>1, <1>2, <1>3, <1>4, <1>5 DEF StageStep
<1>7. \A i \in Inodes : (IsEmpty(i) => IsEmpty(i)') /\ (i = j => IsEmpty(i)')
  BY <1>3, <1>4 DEF IsEmpty
<1>8. Values'
  <2>1. stage' \in [Procs -> {"no", "trunc", "free", "drop"}]
    BY <1>1, <1>3, SharedFields
  <2>2. Becomes(p, pc[p], call[p], path[p], dp[p], ip[p], puts[p])
    BY <1>6, StageSame
  <2>3. cwd' = cwd /\ file' = file /\ boots' = boots /\ lost' = lost /\ calls' = calls /\ ref' = ref
    BY <1>6, StageSame
  <2>4. /\ dinode' \in [Inodes -> [type : {"free", "file", "dir", "dev"}, nlink : Nat]]
        /\ inode' \in [Inodes -> [type : {"free", "file", "dir", "dev"}, nlink : Nat]]
        /\ ref' \in [Inodes -> Nat] /\ busy' \in [Inodes -> Procs \cup {NoProc}]
        /\ valid' \in [Inodes -> BOOLEAN] /\ cwd' \in [Procs -> Inodes]
        /\ file' \in [Procs -> Inodes \cup {NoInode}] /\ lost' \in BOOLEAN /\ boots' \in Nat
        /\ panicked' \in {"no", "iput", "ilock", "unlink", "ialloc"}
    BY <1>2, <1>3, <2>3, SharedFields
  <2> QED
    BY <1>3, <1>4, <2>1, <2>2, <2>3, <2>4, ValuesKept
<1>9. Unlocks(p)
  <2>1. \A i \in Inodes : Holds(p, i)' <=> Holds(p, i)
    BY <1>1, <1>5, <1>6, StageSame DEF Holds
  <2> QED
    BY <1>2, <2>1 DEF Unlocks, FilesInv, Locked
<1>10. Dying'
  <2> SUFFICES ASSUME NEW q \in Procs, stage'[q] # "no", NEW i, i = Front(q)'
               PROVE  /\ valid'[i] /\ dinode'[i].nlink = 0
                      /\ stage'[q] \in {"trunc", "free"} => dinode'[i].type # "free"
                      /\ stage'[q] \in {"free", "drop"} => IsEmpty(i)'
                      /\ stage'[q] = "drop" => inode'[i] = Empty /\ (Used(i)' => IsFresh(i)')
                      /\ \A r \in Procs : /\ ~Others(r, i)'
                                          /\ ip'[r] = i => stage'[q] = "drop" /\ pc'[r] = "fresh"
                                          /\ Front(r)' = i => r = q
    BY DEF Dying, IsEmpty, Used, IsFresh, Others
  <2>1. i = Front(q)
    BY <1>6, StageSame
  <2>2. CASE q = p
    <3>1. i = j /\ stage'[q] = "free"
      BY <1>5, <2>1, <2>2 DEF j
    <3>2. dinode[j].type # "free" /\ \A r \in Procs : ~Others(r, j) /\ ip[r] # j /\ (Front(r) = j => r = p)
      BY <1>1 DEF FilesInv, Dying, j
    <3>3. ip' = ip /\ \A r \in Procs : Front(r)' = Front(r) /\ (Others(r, i)' <=> Others(r, i))
      BY <3>1, <1>3, <1>6, StageSame
    <3> QED
      BY <1>2, <1>3, <1>7, <2>2, <3>1, <3>2, <3>3
  <2>3. CASE q # p
    <3>1. stage[q] # "no"
      BY <1>5, <2>3
    <3> QED
      BY <1>2, <1>6, <1>7, <2>1, <2>3, <3>1, DyingOther DEF j
  <2> QED
    BY <2>2, <2>3
<1>11. Fresh'
  BY <1>1, <1>2, <1>6, FreshOther
<1>12. Copies' /\ Kept'
  <2>1. \A i \in Inodes : Gone(i) => Gone(i)'
    BY <1>1, <1>5, <1>6, StageSame DEF Gone
  <2>2. ref' = ref /\ boots' = boots /\ \A i \in Inodes : IsFresh(i)' <=> IsFresh(i)
    BY <1>6, StageSame
  <2>3. Copies'
    BY <1>2, <2>1, <2>2 DEF FilesInv, Copies
  <2>4. Kept'
    BY <1>2, <2>2 DEF FilesInv, Kept, Used
  <2> QED
    BY <2>3, <2>4
<1>13. OnlyDirs'
  BY <1>2, <1>7 DEF OnlyDirs, FilesInv
<1>14. IsEmpty(j) => /\ \A i : NamesOf(i)' = NamesOf(i)
                     /\ \A i \in Inodes : Links(i)' = Links(i)
  <2> SUFFICES ASSUME IsEmpty(j)
               PROVE  (\A i : NamesOf(i)' = NamesOf(i)) /\ \A i \in Inodes : Links(i)' = Links(i)
    OBVIOUS
  <2>1. \A d \in Inodes, n \in Names : dents'[d][n] = dents[d][n]
    BY <1>4 DEF IsEmpty
  <2> QED
    BY <1>2, <1>3, <2>1, LinksSame
<1>15. Clean => IsEmpty(j)
  BY <1>3 DEF FilesInv, Bare
<1>16. \A i \in Inodes : Links(i)' <= Links(i) /\ Links(i)' \in Nat /\ Links(i) \in Nat
  <2> SUFFICES ASSUME NEW i \in Inodes
               PROVE  Links(i)' <= Links(i) /\ Links(i)' \in Nat /\ Links(i) \in Nat
    OBVIOUS
  <2> DEFINE M == {x \in Inodes \X Names : dents'[x[1]][x[2]] = i}
             T == {x \in Inodes \X Names : x[1] = i /\ dents'[i][x[2]] # NoInode
                                            /\ dinode'[dents'[i][x[2]]].type = "dir"}
  <2>1. Links(i)' = Cardinality(M) + Cardinality(T) + (IF i = Root THEN 1 ELSE 0)
    BY DEF Links, NamesOf, Subdirs
  <2>2. M \in SUBSET NamesOf(i)
    BY <1>3, <1>4, Constants DEF NamesOf
  <2>3. T \in SUBSET Subdirs(i)
    BY <1>2, <1>3, <1>4 DEF Subdirs
  <2> HIDE DEF M, T
  <2>4. Cardinality(M) <= Cardinality(NamesOf(i)) /\ IsFiniteSet(M)
    BY <2>2, LinksFinite, FS_Subset
  <2>5. Cardinality(T) <= Cardinality(Subdirs(i)) /\ IsFiniteSet(T)
    BY <2>3, LinksFinite, FS_Subset
  <2>6. Cardinality(M) \in Nat /\ Cardinality(T) \in Nat
    BY <2>4, <2>5, FS_CardinalityType
  <2> QED
    BY <2>1, <2>4, <2>5, <2>6, LinksFinite DEF Links
<1>17. Enough' /\ Exact'
  <2>1. \A i \in Inodes : Owed(i)' = Owed(i) /\ Owed(i) \in Nat /\ dinode[i].nlink \in Nat
    BY <1>3, <1>6, StageSame, LinksFinite, Types
  <2>2. Enough'
    BY <1>2, <1>16, <2>1 DEF FilesInv, Enough
  <2>3. Clean' => Clean
    BY <1>6, StageSame DEF Clean
  <2>4. Exact'
    BY <1>2, <1>14, <1>15, <2>1, <2>3 DEF FilesInv, Exact
  <2> QED
    BY <2>2, <2>4
<1>18. Live'
  <2>1. LiveAt(p)'
    <3>1. LiveAt(p)
      BY DEF FilesInv, Live
    <3> QED
      BY <1>1, <1>2, <1>5, <1>6, <3>1, StageSame DEF LiveAt, Used
  <2>2. Rest(p)
    BY <1>6, StageSame
  <2> QED
    BY <1>2, <1>3, <1>8, <1>17, <2>1, <2>2, LiveKept DEF FilesInv
<1>19. Clean => (\A i : NamesOf(i)' = NamesOf(i)) /\ \A i \in Inodes : IsEmpty(i) => IsEmpty(i)'
  BY <1>7, <1>14, <1>15
<1> QED
  BY <1>6, <1>8, <1>9, <1>10, <1>11, <1>12, <1>13, <1>17, <1>18, <1>19, StageKeeps

LEMMA IfreeKeeps ==
  ASSUME FilesInv, NEW p \in Procs, Ifree(p)
  PROVE  FilesInv'
<1> DEFINE j == Front(p)
<1>1. /\ puts[p] # <<>> /\ stage[p] = "free" /\ Write(Head(puts[p]), Empty)
      /\ stage' = [stage EXCEPT ![p] = "drop"]
  BY DEF Ifree, Putting, Set
<1>2. /\ UNCHANGED <<ref, places, pc, locals, puts, boots, calls, lost>>
      /\ dents' = dents /\ busy' = busy /\ panicked' = panicked
  BY DEF Ifree, ghost
<1>3. /\ Head(puts[p]) = j /\ j \in Inodes /\ Values /\ valid[j] /\ dinode[j].nlink = 0 /\ busy[j] = p
      /\ ref[j] > 0 /\ NamesOf(j) = {} /\ j # Root
  BY <1>1, StageFacts
<1>4. /\ IsEmpty(j) /\ Used(j) /\ \A r \in Procs : ~Others(r, j) /\ ip[r] # j /\ (Front(r) = j => r = p)
  BY <1>1 DEF FilesInv, Dying, Used
<1> HIDE DEF j
<1>5. /\ \A i \in Inodes : inode'[i] = IF i = j THEN Empty ELSE inode[i]
      /\ \A i \in Inodes : valid'[i] = IF i = j THEN TRUE ELSE valid[i]
      /\ \A i \in Inodes : dinode'[i] = IF i = j THEN Empty ELSE dinode[i]
      /\ valid' \in [Inodes -> BOOLEAN]
      /\ inode' \in [Inodes -> [type : {"free", "file", "dir", "dev"}, nlink : Nat]]
      /\ dinode' \in [Inodes -> [type : {"free", "file", "dir", "dev"}, nlink : Nat]]
  BY <1>1, <1>3, SharedFields DEF Write, Empty
<1>6. \A q \in Procs : stage'[q] = IF q = p THEN "drop" ELSE stage[q]
  BY <1>1, <1>3, SharedFields
<1>7. StageStep(p)
  BY <1>1, <1>2, <1>3, <1>6 DEF StageStep
<1>8. Empty.type = "free" /\ Empty.nlink = 0
  BY DEF Empty
<1>9. Values'
  <2>1. stage' \in [Procs -> {"no", "trunc", "free", "drop"}]
    BY <1>1, <1>3, SharedFields
  <2>2. Becomes(p, pc[p], call[p], path[p], dp[p], ip[p], puts[p])
    BY <1>7, StageSame
  <2>3. cwd' = cwd /\ file' = file /\ boots' = boots /\ lost' = lost /\ calls' = calls /\ ref' = ref
    BY <1>7, StageSame
  <2>4. /\ dents' \in [Inodes -> [Entries -> Inodes \cup {NoInode}]]
        /\ ref' \in [Inodes -> Nat] /\ busy' \in [Inodes -> Procs \cup {NoProc}]
        /\ cwd' \in [Procs -> Inodes]
        /\ file' \in [Procs -> Inodes \cup {NoInode}] /\ lost' \in BOOLEAN /\ boots' \in Nat
        /\ panicked' \in {"no", "iput", "ilock", "unlink", "ialloc"}
    BY <1>2, <1>3, <2>3, SharedFields
  <2> QED
    BY <1>3, <1>5, <2>1, <2>2, <2>3, <2>4, ValuesKept
<1>10. Unlocks(p)
  <2>1. \A i \in Inodes : Holds(p, i)' <=> Holds(p, i)
    BY <1>1, <1>6, <1>7, StageSame DEF Holds
  <2> QED
    BY <1>2, <2>1 DEF Unlocks, FilesInv, Locked
<1>11. /\ \A i : NamesOf(i)' = NamesOf(i)
       /\ \A i \in Inodes : Links(i)' = Links(i) /\ (IsEmpty(i)' <=> IsEmpty(i))
  <2>1. \A i \in Inodes : NamesOf(i) # {} => dinode'[i].type = dinode[i].type
    BY <1>3, <1>5
  <2> QED
    BY <1>2, <1>3, <2>1, LinksSame
<1>12. Dying'
  <2> SUFFICES ASSUME NEW q \in Procs, stage'[q] # "no", NEW i, i = Front(q)'
               PROVE  /\ valid'[i] /\ dinode'[i].nlink = 0
                      /\ stage'[q] \in {"trunc", "free"} => dinode'[i].type # "free"
                      /\ stage'[q] \in {"free", "drop"} => IsEmpty(i)'
                      /\ stage'[q] = "drop" => inode'[i] = Empty /\ (Used(i)' => IsFresh(i)')
                      /\ \A r \in Procs : /\ ~Others(r, i)'
                                          /\ ip'[r] = i => stage'[q] = "drop" /\ pc'[r] = "fresh"
                                          /\ Front(r)' = i => r = q
    BY DEF Dying, IsEmpty, Used, IsFresh, Others
  <2>1. i = Front(q)
    BY <1>7, StageSame
  <2>2. CASE q = p
    <3>1. i = j /\ stage'[q] = "drop"
      BY <1>6, <2>1, <2>2 DEF j
    <3>2. ip' = ip /\ \A r \in Procs : Front(r)' = Front(r) /\ (Others(r, i)' <=> Others(r, i))
      BY <3>1, <1>3, <1>7, StageSame
    <3>3. ~Used(i)'
      BY <3>1, <1>3, <1>5, <1>8 DEF Used
    <3>4. valid'[i] /\ dinode'[i].nlink = 0 /\ inode'[i] = Empty
      BY <1>3, <1>5, <1>8, <3>1
    <3>5. IsEmpty(i)'
      BY <1>3, <1>4, <1>11, <3>1
    <3>6. \A r \in Procs : ~Others(r, i)' /\ ip'[r] # i /\ (Front(r)' = i => r = q)
      BY <1>3, <1>4, <2>2, <3>1, <3>2
    <3> QED
      BY <3>1, <3>3, <3>4, <3>5, <3>6
  <2>3. CASE q # p
    <3>1. stage[q] # "no"
      BY <1>6, <2>3
    <3>2. \A k \in Inodes : k # Front(p) =>
            valid'[k] = valid[k] /\ inode'[k] = inode[k] /\ dinode'[k] = dinode[k] /\ (IsEmpty(k) => IsEmpty(k)')
      BY <1>5, <1>11 DEF j
    <3> QED
      BY <1>7, <2>1, <2>3, <3>1, <3>2, DyingOther
  <2> QED
    BY <2>2, <2>3
<1>13. Fresh'
  BY <1>1, <1>3, <1>5, <1>7, <1>8, FreshOther
<1>14. Copies' /\ Kept'
  <2>1. \A i \in Inodes : (Gone(i) => Gone(i)') /\ (i = j => Gone(i)')
    BY <1>6, <1>7, StageSame DEF Gone, j
  <2>2. ref' = ref /\ boots' = boots /\ \A i \in Inodes : IsFresh(i)' <=> IsFresh(i)
    BY <1>7, StageSame
  <2>3. Copies'
    BY <1>3, <1>5, <2>1, <2>2 DEF FilesInv, Copies
  <2>4. Kept'
    BY <1>5, <1>8, <2>2 DEF FilesInv, Kept, Used
  <2> QED
    BY <2>3, <2>4
<1>15. OnlyDirs'
  BY <1>4, <1>5, <1>11 DEF OnlyDirs, FilesInv
<1>16. Enough' /\ Exact'
  <2>1. \A i \in Inodes : Owed(i)' = Owed(i) /\ dinode'[i].nlink = dinode[i].nlink
    BY <1>3, <1>5, <1>7, <1>8, StageSame
  <2>2. Clean' => Clean
    BY <1>7, StageSame DEF Clean
  <2> QED
    BY <1>11, <2>1, <2>2 DEF FilesInv, Enough, Exact
<1>17. Live'
  <2>1. /\ cwd' = cwd /\ file' = file /\ pc' = pc /\ call' = call /\ dp' = dp /\ ip' = ip
        /\ \A q \in Procs : Front(q)' = Front(q) /\ Back(q)' = Back(q)
    BY <1>7, StageSame
  <2>2. dinode'[Root].type = "dir" /\ \A i \in Inodes : ~Used(i)' => dinode'[i].nlink = 0
    BY <1>3, <1>5, <1>8, Constants DEF FilesInv, Live, Used
  <2>3. ASSUME NEW q \in Procs
        PROVE  LiveAt(q)'
    <3>1. LiveAt(q) /\ Shape(q)
      BY DEF FilesInv, Live, Shapes
    <3>2. /\ cwd[q] \in Inodes \ {j} /\ file[q] \in (Inodes \ {j}) \cup {NoInode}
          /\ dp[q] \in (Inodes \ {j}) \cup {NoInode} /\ ip[q] \in (Inodes \ {j}) \cup {NoInode}
          /\ Back(q) \in (Inodes \ {j}) \cup {NoInode} /\ Front(q) \in Inodes \cup {NoInode}
          /\ Front(q) = j => stage'[q] = "drop"
      BY <1>3, <1>4, <1>6, Types, PutValues DEF Others
    <3>3. \A i \in Inodes \ {j} : dinode'[i] = dinode[i]
      BY <1>5
    <3>4. /\ pc[q] \in {"dir"} \cup NeedsDp => dp[q] # NoInode
          /\ pc[q] \in Entering \cup {"unparent"} => ip[q] # NoInode
          /\ call[q].op = "linkto" => ip[q] # NoInode
      BY <3>1, Constants DEF Shape, Creates, Unlinks, Entering
    <3>5. stage[q] = "drop" => stage'[q] = "drop"
      BY <1>6
    <3> QED
      BY <2>1, <3>1, <3>2, <3>3, <3>4, <3>5 DEF LiveAt, Used
  <2> QED
    BY <2>2, <2>3 DEF Live
<1> QED
  BY <1>7, <1>9, <1>10, <1>11, <1>12, <1>13, <1>14, <1>15, <1>16, <1>17, StageKeeps

LEMMA IdropKeeps ==
  ASSUME FilesInv, NEW p \in Procs, Idrop(p)
  PROVE  FilesInv'
<1> DEFINE j == Front(p)
<1>1. /\ puts[p] # <<>> /\ stage[p] = "drop" /\ stage' = [stage EXCEPT ![p] = "no"]
      /\ puts' = [puts EXCEPT ![p] = Tail(puts[p])]
      /\ valid' = [valid EXCEPT ![Head(puts[p])] = FALSE]
      /\ inode' = [inode EXCEPT ![Head(puts[p])] =
                     IF valid'[Head(puts[p])] THEN inode[Head(puts[p])] ELSE Empty]
      /\ busy' = [busy EXCEPT ![Head(puts[p])] = NoProc]
      /\ ref' = [ref EXCEPT ![Head(puts[p])] = ref[Head(puts[p])] - 1]
  BY DEF Idrop, Putting, Set, Cleared, Unref
<1>2. /\ dinode' = dinode /\ dents' = dents /\ cwd' = cwd /\ file' = file /\ pc' = pc
      /\ call' = call /\ path' = path /\ dp' = dp /\ ip' = ip
      /\ panicked' = panicked /\ boots' = boots /\ calls' = calls /\ lost' = lost
  BY DEF Idrop, disk, places, locals, ghost
<1>3. /\ Head(puts[p]) = j /\ j \in Inodes /\ j # NoInode /\ Values /\ Shape(p) /\ valid[j] /\ busy[j] = p
      /\ dinode[j].nlink = 0 /\ ref[j] > 0 /\ pc[p] \notin Entering \cup {"victim", "unparent"}
  BY <1>1, StageFacts
<1>4. /\ inode[j] = Empty /\ (Used(j) => IsFresh(j))
      /\ \A r \in Procs : /\ ~Others(r, j) /\ (Front(r) = j => r = p)
                          /\ ip[r] = j => pc[r] = "fresh"
  BY <1>1 DEF FilesInv, Dying
<1>5. ip[p] # j
  BY <1>3, <1>4 DEF Entering
<1> HIDE DEF j
<1>6. /\ puts' \in [Procs -> Seq(Inodes)] /\ \A q \in Procs : Len(puts'[q]) <= 2
      /\ \A q \in Procs : q # p => puts'[q] = puts[q]
      /\ Front(p)' = Back(p) /\ Back(p)' = NoInode
  BY <1>1, <1>3, PutDropped
<1>7. /\ \A i \in Inodes : valid'[i] = IF i = j THEN FALSE ELSE valid[i]
      /\ \A i \in Inodes : i # j => inode'[i] = inode[i]
      /\ \A i \in Inodes : busy'[i] = IF i = j THEN NoProc ELSE busy[i]
      /\ \A i \in Inodes : ref'[i] = ref[i] - Is(j, i) /\ ref[i] \in Nat
      /\ \A q \in Procs : stage'[q] = IF q = p THEN "no" ELSE stage[q]
  <2>1. /\ \A i \in Inodes : valid'[i] = IF i = j THEN FALSE ELSE valid[i]
        /\ \A i \in Inodes : i # j => inode'[i] = inode[i]
        /\ \A i \in Inodes : busy'[i] = IF i = j THEN NoProc ELSE busy[i]
    BY <1>1, <1>3, SharedFields
  <2>2. \A i \in Inodes : ref'[i] = ref[i] - Is(j, i) /\ ref[i] \in Nat
    <3>1. ref' = [ref EXCEPT ![j] = ref[j] - 1] /\ ref \in [Inodes -> Nat]
      BY <1>1, <1>3, SharedFields
    <3> QED
      BY <1>3, <3>1 DEF Is
  <2>3. \A q \in Procs : stage'[q] = IF q = p THEN "no" ELSE stage[q]
    BY <1>1, <1>3, SharedFields
  <2> QED
    BY <2>1, <2>2, <2>3
<1>8. Values'
  <2>1. Becomes(p, pc[p], call[p], path[p], dp[p], ip[p], puts'[p])
    BY <1>2, <1>3, <1>6, LocalFields DEF Becomes
  <2>2. ref' \in [Inodes -> Nat]
    BY <1>1, <1>3, SharedFields
  <2>3. /\ valid' \in [Inodes -> BOOLEAN] /\ busy' \in [Inodes -> Procs \cup {NoProc}]
        /\ stage' \in [Procs -> {"no", "trunc", "free", "drop"}]
    BY <1>1, <1>3, SharedFields
  <2>4. inode' \in [Inodes -> [type : {"free", "file", "dir", "dev"}, nlink : Nat]]
    BY <1>1, <1>3, SharedFields DEF Empty
  <2> QED
    BY <1>2, <1>3, <2>1, <2>2, <2>3, <2>4, SharedFields, ValuesKept
<1>9. Rest(p)
  BY <1>2, <1>6, <1>7 DEF Rest
<1>10. \A q \in Procs : q # p => Front(q)' = Front(q) /\ Back(q)' = Back(q)
  BY <1>9, RestPuts
<1>11. Shape(p)'
  BY <1>2, <1>3, <1>7 DEF Shape, NeedsDp, Entering, Creating, Creates, Unlinks
<1>12. Counts(p)
  <2> SUFFICES ASSUME NEW i \in Inodes PROVE ref'[i] = ref[i] - Own(p, i) + Own(p, i)'
    BY DEF Counts
  <2>1. Own(p, i)' = Is(cwd[p], i) + Is(file[p], i) + Is(dp[p], i) + Is(ip[p], i) + Is(Back(p), i) + Is(NoInode, i)
    BY <1>2, <1>6 DEF Own, Is
  <2>2. Own(p, i) = Is(cwd[p], i) + Is(file[p], i) + Is(dp[p], i) + Is(ip[p], i) + Is(j, i) + Is(Back(p), i)
    BY DEF Own, j
  <2> QED
    BY <1>7, <2>1, <2>2, Constants DEF Is
<1>13. Unlocks(p)
  <2>1. \A i \in Inodes : Holds(p, i)' <=> Holds(p, i) /\ i # j
    <3>1. \A i \in Inodes : Holds(p, i) <=> \/ pc[p] \in NeedsDp /\ dp[p] = i
                                            \/ pc[p] \in NeedsIp /\ ip[p] = i
                                            \/ i = j
      BY <1>1 DEF Holds, j
    <3>2. \A i \in Inodes : Holds(p, i)' <=> \/ pc[p] \in NeedsDp /\ dp[p] = i
                                             \/ pc[p] \in NeedsIp /\ ip[p] = i
      BY <1>2, <1>7 DEF Holds
    <3>3. dp[p] # j
      BY <1>4 DEF Others
    <3> QED
      BY <1>5, <3>1, <3>2, <3>3
  <2>2. \A i \in Inodes : busy[i] = p <=> Holds(p, i)
    BY DEF FilesInv, Locked
  <2> QED
    BY <1>3, <1>7, <2>1, <2>2, Constants DEF Unlocks
<1>14. /\ \A i : NamesOf(i)' = NamesOf(i)
       /\ \A i \in Inodes : Links(i)' = Links(i) /\ (IsEmpty(i)' <=> IsEmpty(i))
  BY <1>2, <1>3, LinksSame
<1>15. /\ \A i \in Inodes : (Used(i)' <=> Used(i)) /\ (IsFresh(i)' <=> IsFresh(i))
       /\ \A i \in Inodes : i # j => (Gone(i) => Gone(i)')
  <2>1. \A i \in Inodes : (Used(i)' <=> Used(i)) /\ (IsFresh(i)' <=> IsFresh(i))
    BY <1>2 DEF Used, IsFresh
  <2>2. ASSUME NEW i \in Inodes, i # j, Gone(i) PROVE Gone(i)'
    <3>1. PICK q \in Procs : stage[q] = "drop" /\ Front(q) = i
      BY <2>2 DEF Gone
    <3>2. q # p
      BY <2>2, <3>1 DEF j
    <3> QED
      BY <1>7, <1>10, <3>1, <3>2 DEF Gone
  <2> QED
    BY <2>1, <2>2
<1>16. \A q \in Procs, i \in Inodes : /\ Others(q, i)' => Others(q, i)
                                      /\ Front(q)' = i => Front(q) = i \/ Others(q, i)
  BY <1>2, <1>6, <1>10, Constants DEF Others
<1>17. Dying'
  <2> SUFFICES ASSUME NEW q \in Procs, stage'[q] # "no", NEW i, i = Front(q)'
               PROVE  /\ valid'[i] /\ dinode'[i].nlink = 0
                      /\ stage'[q] \in {"trunc", "free"} => dinode'[i].type # "free"
                      /\ stage'[q] \in {"free", "drop"} => IsEmpty(i)'
                      /\ stage'[q] = "drop" => inode'[i] = Empty /\ (Used(i)' => IsFresh(i)')
                      /\ \A r \in Procs : /\ ~Others(r, i)'
                                          /\ ip'[r] = i => stage'[q] = "drop" /\ pc'[r] = "fresh"
                                          /\ Front(r)' = i => r = q
    BY DEF Dying, IsEmpty, Used, IsFresh, Others
  <2>1. q # p /\ stage'[q] = stage[q] /\ i = Front(q)
    BY <1>7, <1>10
  <2>2. i \in Inodes /\ i # j
    BY <1>4, <2>1, StageFacts
  <2>3. /\ valid[i] /\ dinode[i].nlink = 0
        /\ stage[q] \in {"trunc", "free"} => dinode[i].type # "free"
        /\ stage[q] \in {"free", "drop"} => IsEmpty(i)
        /\ stage[q] = "drop" => inode[i] = Empty /\ (Used(i) => IsFresh(i))
        /\ \A r \in Procs : /\ ~Others(r, i)
                            /\ ip[r] = i => stage[q] = "drop" /\ pc[r] = "fresh"
                            /\ Front(r) = i => r = q
    BY <2>1 DEF FilesInv, Dying
  <2> QED
    BY <1>2, <1>7, <1>14, <1>15, <1>16, <2>1, <2>2, <2>3
<1>18. Fresh'
  <2> SUFFICES ASSUME NEW q \in Procs, pc'[q] = "fresh", NEW i, i = ip'[q]
               PROVE  /\ dinode'[i].nlink = 0
                      /\ \A r \in Procs : /\ ~Others(r, i)'
                                          /\ ip'[r] = i => r = q
                                          /\ Front(r)' = i => stage'[r] = "drop"
    BY DEF Fresh, Others
  <2>1. pc[q] = "fresh" /\ i = ip[q]
    BY <1>2
  <2>2. i \in Inodes
    BY <2>1, Types DEF FilesInv, Shapes, Shape, Creates
  <2>3. /\ dinode[i].nlink = 0
        /\ \A r \in Procs : ~Others(r, i) /\ (ip[r] = i => r = q) /\ (Front(r) = i => stage[r] = "drop")
    BY <2>1 DEF FilesInv, Fresh
  <2>4. ASSUME NEW r \in Procs, Front(r)' = i PROVE stage'[r] = "drop"
    <3>1. r # p
      BY <1>6, <2>2, <2>3, <2>4 DEF Others
    <3> QED
      BY <1>7, <1>10, <2>3, <2>4, <3>1
  <2> QED
    BY <1>2, <1>16, <2>2, <2>3, <2>4
<1>19. Copies'
  <2> SUFFICES ASSUME NEW i \in Inodes, valid'[i]
               PROVE  ref'[i] > 0 /\ (inode'[i] = dinode'[i] \/ Gone(i)')
    BY DEF Copies
  <2>1. i # j /\ valid[i]
    BY <1>7
  <2>2. ref[i] > 0 /\ (inode[i] = dinode[i] \/ Gone(i))
    BY <2>1 DEF FilesInv, Copies
  <2>3. ref'[i] = ref[i]
    BY <1>7, <2>1 DEF Is
  <2> QED
    BY <1>2, <1>7, <1>15, <2>1, <2>2, <2>3
<1>20. OnlyDirs'
  BY <1>2, <1>14 DEF FilesInv, OnlyDirs
<1>21. Kept'
  <2> SUFFICES ASSUME boots = 0, NEW i \in Inodes, Used(i), dinode[i].nlink = 0
               PROVE  ref'[i] > 0 /\ (valid'[i] \/ IsFresh(i)')
    BY <1>2 DEF Kept, Used
  <2>1. ref[i] > 0 /\ (valid[i] \/ IsFresh(i))
    BY DEF FilesInv, Kept
  <2>2. CASE i # j
    <3>1. ref'[i] = ref[i] /\ valid'[i] = valid[i]
      <4>1. Is(j, i) = 0
        BY <2>2 DEF Is
      <4>2. ref'[i] = ref[i] - Is(j, i) /\ ref[i] \in Nat
        BY <1>7
      <4>3. ref'[i] = ref[i]
        BY <4>1, <4>2
      <4>4. valid'[i] = valid[i]
        BY <1>7, <2>2, Zenon
      <4> QED
        BY <4>3, <4>4
    <3> QED
      BY <1>15, <2>1, <3>1
  <2>3. CASE i = j
    <3>1. IsFresh(j)
      BY <1>4, <2>3
    <3>2. PICK q \in Procs : pc[q] = "fresh" /\ ip[q] = j
      BY <3>1 DEF IsFresh
    <3>3. q # p
      BY <1>5, <3>2
    <3>4. ref[j] >= Own(p, j) + Own(q, j) /\ Own(p, j) \in Nat /\ Own(q, j) \in Nat
      BY <1>3, <3>3, RefSole, PointsOwn DEF FilesInv
    <3>5. Own(p, j) # 0 /\ Own(q, j) # 0
      <4>1. Points(p, j) /\ Points(q, j)
        BY <3>2 DEF Points, j
      <4> QED
        BY <1>3, <4>1, PointsOwn
    <3>6. ref'[i] = ref[j] - 1 /\ ref[j] \in Nat
      BY <1>3, <1>7, <2>3 DEF Is
    <3> QED
      BY <1>15, <2>3, <3>1, <3>4, <3>5, <3>6
  <2> QED
    BY <2>2, <2>3
<1>22. Clean' <=> Clean
  BY <1>2 DEF Clean
<1>23. Enough' /\ Exact'
  <2>1. \A i \in Inodes : Credit(p, i)' = Credit(p, i)
    <3>1. OwedIp'[p] = OwedIp[p] /\ OwedDp'[p] = OwedDp[p]
      BY <1>2, OwedFields
    <3> QED
      BY <3>1 DEF Credit, Is
  <2>2. \A i \in Inodes : dinode'[i].nlink - dinode[i].nlink = Links(i)' - Links(i) + Credit(p, i)' - Credit(p, i)
    <3> SUFFICES ASSUME NEW i \in Inodes
                 PROVE  dinode'[i].nlink - dinode[i].nlink = Links(i)' - Links(i) + Credit(p, i)' - Credit(p, i)
      OBVIOUS
    <3>1. Links(i) \in Nat /\ Credit(p, i) \in Nat /\ dinode[i].nlink \in Nat
      BY <1>3, <1>9, LinksNat, OwedStep, Types
    <3> QED
      BY <1>2, <1>14, <2>1, <3>1
  <2> QED
    BY <1>2, <1>3, <1>8, <1>9, <2>2, EnoughKept DEF FilesInv
<1>24. Live'
  <2>1. LiveAt(p)'
    <3>1. LiveAt(p)
      BY DEF FilesInv, Live
    <3> QED
      BY <1>2, <1>6, <3>1, Constants DEF LiveAt, Used
  <2> QED
    BY <1>2, <1>3, <1>8, <1>9, <1>23, <2>1, LiveKept DEF FilesInv
<1>25. Bare'
  BY <1>14, <1>22 DEF FilesInv, Bare
<1>26. FoundAt(p)' /\ ~MakesDir(p)'
  BY <1>2, <1>3 DEF FoundAt, MakesDir, Entering
<1>27. Named'
  BY <1>3, <1>9, <1>14, <1>22, <1>26, NamedKept DEF FilesInv
<1>28. \A q \in Procs, d \in Inodes, n \in Names :
         q # p /\ busy[d] = q => dents'[d][n] = dents[d][n]
  BY <1>2
<1> QED
  BY <1>8, <1>9, <1>11, <1>12, <1>13, <1>17, <1>18, <1>19, <1>20, <1>21, <1>23, <1>24, <1>25,
     <1>26, <1>27, <1>28, StepKeeps
-----------------------------------------------------------------------------
(* A new inode.                                                            *)
(* Nobody points to a free inode but who has just freed it. *)
LEMMA FreeFacts ==
  ASSUME FilesInv, NEW i \in Inodes, ~Used(i)
  PROVE  /\ \A q \in Procs : ~Others(q, i) /\ ip[q] # i /\ (Front(q) = i => stage[q] = "drop")
         /\ NamesOf(i) = {} /\ IsEmpty(i) /\ dinode[i].nlink = 0 /\ i # Root
         /\ valid[i] => Gone(i)
<1>1. i # NoInode
  BY Constants
<1>2. ASSUME NEW q \in Procs
      PROVE  ~Others(q, i) /\ ip[q] # i /\ (Front(q) = i => stage[q] = "drop")
  <2>1. LiveAt(q)
    BY DEF FilesInv, Live
  <2> QED
    BY <1>1, <2>1 DEF LiveAt, Others
<1>3. NamesOf(i) = {}
  <2> SUFFICES ASSUME NEW e \in Inodes \X Names, dents[e[1]][e[2]] = i PROVE FALSE
    BY DEF NamesOf
  <2>1. e[1] \in Inodes /\ e[2] \in Names
    OBVIOUS
  <2> QED
    BY <2>1, NameGood DEF Good
<1>4. IsEmpty(i) /\ dinode[i].nlink = 0 /\ i # Root
  BY DEF FilesInv, OnlyDirs, Live, Used
<1>5. ASSUME valid[i] PROVE Gone(i)
  <2>1. ref[i] > 0
    BY <1>5 DEF FilesInv, Copies
  <2>2. PICK q \in Procs : Points(q, i)
    <3>1. Procs # {}
      <4>1. ref[i] = Count(cwd, i) + Count(file, i) + Count(dp, i) + Count(ip, i)
                        + Count(Put(1), i) + Count(Put(2), i)
        BY Total DEF FilesInv
      <4>2. /\ Count(cwd, i) \in Nat /\ Count(file, i) \in Nat /\ Count(dp, i) \in Nat
            /\ Count(ip, i) \in Nat /\ Count(Put(1), i) \in Nat /\ Count(Put(2), i) \in Nat
        BY CountPositive
      <4>3. Procs = {} => /\ ~(Count(cwd, i) > 0) /\ ~(Count(file, i) > 0) /\ ~(Count(dp, i) > 0)
                          /\ ~(Count(ip, i) > 0) /\ ~(Count(Put(1), i) > 0) /\ ~(Count(Put(2), i) > 0)
        BY CountPositive
      <4> QED
        BY <2>1, <4>1, <4>2, <4>3
    <3>2. PICK p \in Procs : TRUE
      BY <3>1
    <3> QED
      BY <2>1, <3>2, RefSole DEF FilesInv
  <2>3. Front(q) = i /\ stage[q] = "drop"
    BY <1>2, <2>2 DEF Points, Others
  <2> QED
    BY <2>3 DEF Gone
<1> QED
  BY <1>2, <1>3, <1>4, <1>5

LEMMA IallocKeeps ==
  ASSUME FilesInv, NEW p \in Procs, Ialloc(p)
  PROVE  FilesInv'
<1>1. /\ pc[p] = "dir" /\ puts[p] = <<>> /\ Creating(p) /\ CanLock(dp[p]) /\ Lookup(p) = NoInode
      /\ FreeInodes # {} /\ Read(dp[p]) /\ busy' = [busy EXCEPT ![dp[p]] = p]
  BY DEF Ialloc, Ready
<1>2. PICK j \in FreeInodes :
        /\ dinode' = [dinode EXCEPT ![j] = [type |-> Kind[call[p].op], nlink |-> 0]]
        /\ Iget(j) /\ ip' = Set(ip, p, j)
  BY DEF Ialloc
<1>3. /\ dinode' = [dinode EXCEPT ![j] = [type |-> Kind[call[p].op], nlink |-> 0]]
      /\ ref' = [ref EXCEPT ![j] = ref[j] + 1] /\ ip' = [ip EXCEPT ![p] = j]
      /\ pc' = [pc EXCEPT ![p] = "fresh"]
  BY <1>2 DEF Ialloc, Iget, Set, Goto
<1>4. /\ dents' = dents /\ cwd' = cwd /\ file' = file /\ call' = call /\ path' = path
      /\ dp' = dp /\ puts' = puts /\ stage' = stage
      /\ panicked' = panicked /\ boots' = boots /\ calls' = calls /\ lost' = lost
  BY DEF Ialloc, places, putting, ghost
<1>5. j \in Inodes /\ ~Used(j)
  BY <1>2 DEF FreeInodes, Used
<1>6. /\ \A q \in Procs : ~Others(q, j) /\ ip[q] # j /\ (Front(q) = j => stage[q] = "drop")
      /\ NamesOf(j) = {} /\ IsEmpty(j) /\ dinode[j].nlink = 0 /\ j # Root /\ j # NoInode
      /\ valid[j] => Gone(j)
  BY <1>5, FreeFacts, Constants
<1>7. Values /\ Shape(p) /\ LiveAt(p) /\ stage[p] = "no" /\ Front(p) = NoInode /\ Back(p) = NoInode
  BY <1>1, ReadyFacts DEF FilesInv, Shapes, Live
<1>8. /\ dp[p] \in Inodes /\ ip[p] = NoInode /\ Len(path[p]) = 1 /\ dinode[dp[p]].type = "dir"
      /\ call[p].op \in {"creat", "mkdir", "mknod"} /\ call[p] # NoCall
  <2>1. call[p].op \in {"creat", "mkdir", "mknod"}
    BY <1>1 DEF Creating, Kind
  <2> QED
    BY <1>1, <1>7, <2>1, Types DEF Shape, LiveAt, Creates, Unlinks, NeedsDp, Entering
<1>9. Kind[call[p].op] \in {"file", "dir", "dev"}
  BY <1>8 DEF Kind
<1>10. Good(dp[p]) /\ ref[dp[p]] > 0 /\ Inode(dp[p]) = dinode[dp[p]] /\ dp[p] # j
  BY <1>1, <1>5, <1>8, OwnLock DEF Points, Good
<1>11. /\ \A i \in Inodes : inode'[i] = IF i = dp[p] THEN dinode[dp[p]] ELSE inode[i]
       /\ \A i \in Inodes : valid'[i] = IF i = dp[p] THEN TRUE ELSE valid[i]
       /\ valid' \in [Inodes -> BOOLEAN]
       /\ inode' \in [Inodes -> [type : {"free", "file", "dir", "dev"}, nlink : Nat]]
  BY <1>1, <1>7, <1>8, <1>10, SharedFields DEF Read
<1>12. /\ \A i \in Inodes : dinode'[i] = IF i = j THEN [type |-> Kind[call[p].op], nlink |-> 0] ELSE dinode[i]
       /\ dinode' \in [Inodes -> [type : {"free", "file", "dir", "dev"}, nlink : Nat]]
  BY <1>3, <1>7, <1>9, SharedFields
<1>13. /\ \A i \in Inodes : ref'[i] = ref[i] + Is(j, i)
       /\ ref' \in [Inodes -> Nat]
  BY <1>3, <1>5, <1>7, IgetStep DEF Iget
<1>14. /\ \A i \in Inodes : busy'[i] = IF i = dp[p] THEN p ELSE busy[i]
       /\ busy' \in [Inodes -> Procs \cup {NoProc}]
  BY <1>1, <1>7, SharedFields
<1>15. Becomes(p, "fresh", call[p], path[p], dp[p], j, <<>>)
  <2>1. "fresh" \in Places
    BY DEF Places, Creates
  <2> QED
    BY <1>1, <1>3, <1>4, <1>5, <1>7, <2>1, LocalFields DEF Becomes
<1>16. Values'
  <2>1. /\ dents' \in [Inodes -> [Entries -> Inodes \cup {NoInode}]]
        /\ cwd' \in [Procs -> Inodes] /\ stage' \in [Procs -> {"no", "trunc", "free", "drop"}]
        /\ file' \in [Procs -> Inodes \cup {NoInode}] /\ lost' \in BOOLEAN /\ boots' \in Nat
        /\ panicked' \in {"no", "iput", "ilock", "unlink", "ialloc"} /\ calls' = calls
    BY <1>4, <1>7, SharedFields
  <2> QED
    BY <1>7, <1>11, <1>12, <1>13, <1>14, <1>15, <2>1, ValuesKept
<1>17. /\ pc'[p] = "fresh" /\ call'[p] = call[p] /\ path'[p] = path[p] /\ dp'[p] = dp[p] /\ ip'[p] = j
       /\ puts'[p] = <<>> /\ stage'[p] = "no"
  BY <1>4, <1>7, <1>15 DEF Becomes
<1>18. Rest(p)
  BY <1>4, <1>15 DEF Rest, Becomes
<1>19. \A q \in Procs : Front(q)' = Front(q) /\ Back(q)' = Back(q)
  BY <1>4, PutsAre
<1>20. \A q \in Procs, i \in Inodes : Others(q, i)' <=> Others(q, i)
  BY <1>4, <1>19 DEF Others
<1>21. \A q \in Procs : q # p => ip'[q] = ip[q] /\ pc'[q] = pc[q]
  BY <1>18 DEF Rest
<1>22. /\ \A i \in Inodes : IsFresh(i) => IsFresh(i)'
       /\ \A i \in Inodes : i = j => IsFresh(i)'
       /\ \A i \in Inodes : Gone(i)' <=> Gone(i)
  <2>1. \A i \in Inodes : IsFresh(i) => IsFresh(i)'
    BY <1>1, <1>21 DEF IsFresh
  <2>2. \A i \in Inodes : i = j => IsFresh(i)'
    BY <1>17 DEF IsFresh
  <2>3. \A i \in Inodes : Gone(i)' <=> Gone(i)
    BY <1>4, <1>19 DEF Gone
  <2> QED
    BY <2>1, <2>2, <2>3
<1>23. Shape(p)'
  BY <1>1, <1>5, <1>7, <1>8, <1>10, <1>17, Constants
     DEF Shape, NeedsDp, Entering, Creates, Unlinks, Creating
<1>24. Counts(p)
  <2> SUFFICES ASSUME NEW i \in Inodes PROVE ref'[i] = ref[i] - Own(p, i) + Own(p, i)'
    BY DEF Counts
  <2>1. Own(p, i) = Is(cwd[p], i) + Is(file[p], i) + Is(dp[p], i) + Is(ip[p], i)
    BY <1>1, OwnBefore
  <2>2. Own(p, i)' = Is(cwd[p], i) + Is(file[p], i) + Is(dp[p], i) + Is(j, i)
    BY <1>4, <1>17, OwnAfter
  <2>3. ref[i] \in Nat /\ ref'[i] = ref[i] + Is(j, i)
    BY <1>7, <1>13, Types
  <2> QED
    BY <1>8, <2>1, <2>2, <2>3, Constants DEF Is
<1>25. Unlocks(p)
  <2>1. \A i \in Inodes : Holds(p, i)' <=> i = dp[p]
    BY <1>17 DEF Holds, NeedsDp, NeedsIp, Entering
  <2>2. \A i \in Inodes : ~Holds(p, i)
    BY <1>1, <1>7 DEF Holds, NeedsDp, NeedsIp, Entering
  <2>3. \A i \in Inodes : busy[i] # p
    BY <2>2 DEF FilesInv, Locked
  <2>4. busy[dp[p]] = NoProc
    BY <1>1 DEF CanLock
  <2> QED
    BY <1>14, <2>1, <2>3, <2>4, Constants DEF Unlocks
<1>26. /\ \A i : NamesOf(i)' = NamesOf(i)
       /\ \A i \in Inodes : Links(i)' = Links(i) /\ (IsEmpty(i)' <=> IsEmpty(i))
  <2>1. \A i \in Inodes : NamesOf(i) # {} => dinode'[i].type = dinode[i].type
    BY <1>6, <1>12
  <2> QED
    BY <1>4, <1>7, <2>1, LinksSame
<1>27. Dying'
  <2> SUFFICES ASSUME NEW q \in Procs, stage'[q] # "no", NEW i, i = Front(q)'
               PROVE  /\ valid'[i] /\ dinode'[i].nlink = 0
                      /\ stage'[q] \in {"trunc", "free"} => dinode'[i].type # "free"
                      /\ stage'[q] \in {"free", "drop"} => IsEmpty(i)'
                      /\ stage'[q] = "drop" => inode'[i] = Empty /\ (Used(i)' => IsFresh(i)')
                      /\ \A r \in Procs : /\ ~Others(r, i)'
                                          /\ ip'[r] = i => stage'[q] = "drop" /\ pc'[r] = "fresh"
                                          /\ Front(r)' = i => r = q
    BY DEF Dying, IsEmpty, Used, IsFresh, Others
  <2>1. stage[q] # "no" /\ stage'[q] = stage[q] /\ i = Front(q)
    BY <1>4, <1>19
  <2>2. i \in Inodes
    BY <2>1, StageFacts
  <2>3. /\ valid[i] /\ dinode[i].nlink = 0
        /\ stage[q] \in {"trunc", "free"} => dinode[i].type # "free"
        /\ stage[q] \in {"free", "drop"} => IsEmpty(i)
        /\ stage[q] = "drop" => inode[i] = Empty /\ (Used(i) => IsFresh(i))
        /\ \A r \in Procs : /\ ~Others(r, i)
                            /\ ip[r] = i => stage[q] = "drop" /\ pc[r] = "fresh"
                            /\ Front(r) = i => r = q
    BY <2>1 DEF FilesInv, Dying
  <2>4. i # dp[p]
    BY <2>3 DEF Others
  <2>5. valid'[i] /\ inode'[i] = inode[i] /\ dinode'[i].nlink = 0 /\ (IsEmpty(i)' <=> IsEmpty(i))
    <3>1. valid'[i] /\ inode'[i] = inode[i] /\ (IsEmpty(i)' <=> IsEmpty(i))
      BY <1>11, <1>26, <2>2, <2>3, <2>4
    <3>2. dinode'[i].nlink = 0
      BY <1>12, <2>2, <2>3
    <3> QED
      BY <3>1, <3>2
  <2>6. stage[q] \in {"trunc", "free"} => dinode'[i].type # "free"
    BY <1>6, <1>12, <2>1, <2>2, <2>3
  <2>7. stage[q] = "drop" /\ Used(i)' => IsFresh(i)'
    BY <1>12, <1>22, <2>2, <2>3 DEF Used
  <2>8. ASSUME NEW r \in Procs, ip'[r] = i PROVE stage[q] = "drop" /\ pc'[r] = "fresh"
    BY <1>6, <1>17, <1>21, <2>1, <2>3, <2>8
  <2> QED
    BY <1>19, <1>20, <2>1, <2>2, <2>3, <2>5, <2>6, <2>7, <2>8
<1>28. Fresh'
  <2> SUFFICES ASSUME NEW q \in Procs, pc'[q] = "fresh", NEW i, i = ip'[q]
               PROVE  /\ dinode'[i].nlink = 0
                      /\ \A r \in Procs : /\ ~Others(r, i)'
                                          /\ ip'[r] = i => r = q
                                          /\ Front(r)' = i => stage'[r] = "drop"
    BY DEF Fresh, Others
  <2>1. CASE q = p
    <3>1. i = j
      BY <1>17, <2>1
    <3> QED
      BY <1>4, <1>5, <1>6, <1>12, <1>19, <1>20, <1>21, <2>1, <3>1
  <2>2. CASE q # p
    <3>1. pc[q] = "fresh" /\ i = ip[q]
      BY <1>21, <2>2
    <3>2. i \in Inodes /\ i # j
      BY <1>6, <3>1, Types DEF FilesInv, Shapes, Shape, Creates
    <3>3. /\ dinode[i].nlink = 0
          /\ \A r \in Procs : ~Others(r, i) /\ (ip[r] = i => r = q) /\ (Front(r) = i => stage[r] = "drop")
      BY <3>1 DEF FilesInv, Fresh
    <3> QED
      BY <1>4, <1>12, <1>17, <1>19, <1>20, <1>21, <3>2, <3>3
  <2> QED
    BY <2>1, <2>2
<1>29. Copies'
  <2> SUFFICES ASSUME NEW i \in Inodes, valid'[i]
               PROVE  ref'[i] > 0 /\ (inode'[i] = dinode'[i] \/ Gone(i)')
    BY DEF Copies
  <2>1. ref'[i] >= ref[i] /\ ref[i] \in Nat /\ ref'[i] \in Nat
    BY <1>7, <1>13, Types DEF Is
  <2>2. CASE i = dp[p]
    BY <1>10, <1>11, <1>12, <2>1, <2>2
  <2>3. CASE i # dp[p]
    <3>1. valid[i] /\ ref[i] > 0 /\ (inode[i] = dinode[i] \/ Gone(i))
      BY <1>11, <2>3 DEF FilesInv, Copies
    <3> QED
      BY <1>6, <1>11, <1>12, <1>22, <2>1, <2>3, <3>1
  <2> QED
    BY <2>2, <2>3
<1>30. OnlyDirs'
  BY <1>6, <1>12, <1>26 DEF FilesInv, OnlyDirs
<1>31. Kept'
  <2> SUFFICES ASSUME boots = 0, NEW i \in Inodes, Used(i)', dinode'[i].nlink = 0
               PROVE  ref'[i] > 0 /\ (valid'[i] \/ IsFresh(i)')
    BY <1>4 DEF Kept
  <2>1. ref'[i] = ref[i] + Is(j, i) /\ ref[i] \in Nat
    BY <1>7, <1>13, Types
  <2>2. CASE i = j
    BY <1>22, <2>1, <2>2 DEF Is
  <2>3. CASE i # j
    <3>1. Used(i) /\ dinode[i].nlink = 0
      BY <1>12, <2>3 DEF Used
    <3>2. ref[i] > 0 /\ (valid[i] \/ IsFresh(i))
      BY <3>1 DEF FilesInv, Kept
    <3>3. ref'[i] > 0
      BY <2>1, <3>2 DEF Is
    <3> QED
      BY <1>11, <1>22, <3>2, <3>3
  <2> QED
    BY <2>2, <2>3
<1>32. Clean' <=> Clean
  BY <1>4 DEF Clean
<1>33. Enough' /\ Exact'
  <2>1. \A i \in Inodes : Credit(p, i)' = 0 /\ Credit(p, i) = 0
    <3>1. \A i \in Inodes : Credit(p, i) = 0
      BY <1>1, <1>8, NoCredit
    <3>2. OwedIp'[p] = NoInode /\ OwedDp'[p] = NoInode
      BY <1>8, <1>17, OwedFields
    <3> QED
      BY <3>1, <3>2, Constants DEF Credit, Is
  <2>2. \A i \in Inodes : dinode'[i].nlink - dinode[i].nlink = Links(i)' - Links(i) + Credit(p, i)' - Credit(p, i)
    <3> SUFFICES ASSUME NEW i \in Inodes
                 PROVE  dinode'[i].nlink - dinode[i].nlink = Links(i)' - Links(i) + Credit(p, i)' - Credit(p, i)
      OBVIOUS
    <3>1. Links(i) \in Nat /\ dinode[i].nlink \in Nat /\ dinode'[i].nlink = dinode[i].nlink
      BY <1>6, <1>7, <1>12, LinksNat, Types
    <3> QED
      BY <1>26, <2>1, <3>1
  <2> QED
    BY <1>4, <1>7, <1>16, <1>18, <2>2, EnoughKept DEF FilesInv
<1>34. Live'
  <2>1. dinode'[Root].type = "dir" /\ \A i \in Inodes : ~Used(i)' => dinode'[i].nlink = 0
    BY <1>6, <1>12, Constants DEF FilesInv, Live, Used
  <2>2. LiveAt(p)'
    <3>1. \A i \in Inodes : Used(i) \/ i = j => Used(i)'
      BY <1>9, <1>12 DEF Used
    <3>2. Front(p)' = NoInode /\ Back(p)' = NoInode
      BY <1>7, <1>19
    <3>3. dinode'[dp[p]].type = "dir" /\ dinode'[j].type = Kind[call[p].op]
      BY <1>5, <1>8, <1>10, <1>12
    <3>4. cwd[p] \in Inodes /\ file[p] \in Inodes \cup {NoInode} /\ Used(cwd[p]) /\ Used(dp[p])
          /\ (file[p] # NoInode => Used(file[p]))
      BY <1>7, <1>8, <1>10, Types DEF LiveAt, Good
    <3>5. call[p].op # "linkto"
      BY <1>8
    <3> QED
      BY <1>4, <1>5, <1>8, <1>17, <3>1, <3>2, <3>3, <3>4, <3>5 DEF LiveAt, Used
  <2>3. ASSUME NEW q \in Procs, q # p
        PROVE  LiveAt(q)'
    <3>1. LiveAt(q) /\ Shape(q)
      BY DEF FilesInv, Live, Shapes
    <3>2. /\ cwd[q] \in Inodes \ {j} /\ file[q] \in (Inodes \ {j}) \cup {NoInode}
          /\ dp[q] \in (Inodes \ {j}) \cup {NoInode} /\ ip[q] \in (Inodes \ {j}) \cup {NoInode}
          /\ Back(q) \in (Inodes \ {j}) \cup {NoInode} /\ Front(q) \in Inodes \cup {NoInode}
          /\ Front(q) = j => stage'[q] = "drop"
      BY <1>4, <1>6, <1>7, Types, PutValues DEF Others
    <3>3. \A i \in Inodes \ {j} : dinode'[i] = dinode[i]
      BY <1>12
    <3>4. /\ pc[q] \in {"dir"} \cup NeedsDp => dp[q] # NoInode
          /\ pc[q] \in Entering \cup {"unparent"} => ip[q] # NoInode
          /\ call[q].op = "linkto" => ip[q] # NoInode
      BY <3>1, Constants DEF Shape, Creates, Unlinks, Entering
    <3> QED
      BY <1>4, <1>19, <1>21, <2>3, <3>1, <3>2, <3>3, <3>4 DEF LiveAt, Used
  <2> QED
    BY <2>1, <2>2, <2>3 DEF Live
<1>35. Bare'
  BY <1>26, <1>32 DEF FilesInv, Bare
<1>36. FoundAt(p)' /\ ~MakesDir(p)'
  <2>1. Lookup(p)' = NoInode
    BY <1>1, <1>4 DEF Lookup
  <2> QED
    BY <1>17, <2>1 DEF FoundAt, MakesDir
<1>37. Named'
  BY <1>7, <1>18, <1>26, <1>32, <1>36, NamedKept DEF FilesInv
<1>38. \A q \in Procs, d \in Inodes, n \in Names :
         q # p /\ busy[d] = q => dents'[d][n] = dents[d][n]
  BY <1>4
<1> QED
  BY <1>16, <1>18, <1>23, <1>24, <1>25, <1>27, <1>28, <1>29, <1>30, <1>31, <1>33, <1>34, <1>35,
     <1>36, <1>37, <1>38, StepKeeps

(* The inode that is fresh, and that nobody frees. *)
LEMMA FreshFacts ==
  ASSUME FilesInv, NEW p \in Procs, pc[p] = "fresh", busy[ip[p]] = NoProc
  PROVE  /\ ip[p] \in Inodes /\ Used(ip[p]) /\ dinode[ip[p]].nlink = 0
         /\ Inode(ip[p]) = dinode[ip[p]] /\ ~Gone(ip[p])
         /\ \A q \in Procs : /\ ~Others(q, ip[p]) /\ Front(q) # ip[p]
                             /\ ip[q] = ip[p] => q = p
<1>1. ip[p] \in Inodes
  BY Types DEF FilesInv, Shapes, Shape, Creates
<1>2. Used(ip[p])
  BY <1>1, Constants DEF FilesInv, Live, LiveAt
<1>3. /\ dinode[ip[p]].nlink = 0
      /\ \A q \in Procs : /\ ~Others(q, ip[p]) /\ (ip[q] = ip[p] => q = p)
                          /\ Front(q) = ip[p] => stage[q] = "drop"
  BY DEF FilesInv, Fresh
<1>4. \A q \in Procs : ~(Front(q) = ip[p] /\ stage[q] = "drop")
  <2> SUFFICES ASSUME NEW q \in Procs, Front(q) = ip[p], stage[q] = "drop" PROVE FALSE
    OBVIOUS
  <2>1. busy[ip[p]] = q
    BY <1>1 DEF FilesInv, Locked, Holds
  <2> QED
    BY <2>1, Constants
<1>5. ~Gone(ip[p])
  BY <1>4 DEF Gone
<1> QED
  BY <1>1, <1>2, <1>3, <1>4, <1>5, Seen

LEMMA IfreshKeeps ==
  ASSUME FilesInv, NEW p \in Procs, Ifresh(p)
  PROVE  FilesInv'
<1>1. PICK j : j = ip[p]
  OBVIOUS
<1>2. PICK at : at = IF call[p].op = "mkdir" THEN "parent" ELSE "enter"
  OBVIOUS
<1>3. /\ pc[p] = "fresh" /\ puts[p] = <<>> /\ busy[j] = NoProc
      /\ busy' = [busy EXCEPT ![j] = p] /\ Write(j, [Inode(j) EXCEPT !.nlink = 1])
      /\ pc' = [pc EXCEPT ![p] = at]
  BY <1>1, <1>2 DEF Ifresh, Ready, Goto, First, CanLock
<1>4. /\ dents' = dents /\ ref' = ref /\ cwd' = cwd /\ file' = file /\ call' = call /\ path' = path
      /\ dp' = dp /\ ip' = ip /\ puts' = puts /\ stage' = stage
      /\ panicked' = panicked /\ boots' = boots /\ calls' = calls /\ lost' = lost
  BY DEF Ifresh, places, putting, ghost, locals
<1>5. /\ j \in Inodes /\ Used(j) /\ dinode[j].nlink = 0 /\ Inode(j) = dinode[j] /\ ~Gone(j)
      /\ \A q \in Procs : ~Others(q, j) /\ Front(q) # j /\ (ip[q] = j => q = p)
  BY <1>1, <1>3, FreshFacts
<1>6. Values /\ Shape(p) /\ LiveAt(p) /\ stage[p] = "no" /\ Front(p) = NoInode /\ Back(p) = NoInode
  BY <1>3, ReadyFacts DEF FilesInv, Shapes, Live
<1>7. /\ dp[p] \in Inodes /\ Len(path[p]) = 1 /\ dinode[dp[p]].type = "dir" /\ dp[p] # j
      /\ call[p].op \in {"creat", "mkdir", "mknod"} /\ call[p] # NoCall
      /\ dinode[j].type = Kind[call[p].op]
  <2>1. call[p].op \in {"creat", "mkdir", "mknod"}
    BY <1>3, <1>6 DEF Shape, Creates, Creating, Kind
  <2> QED
    BY <1>1, <1>3, <1>6, <2>1 DEF Shape, LiveAt, NeedsDp, Entering
<1>8. at \in {"parent", "enter"} /\ (at = "parent" <=> call[p].op = "mkdir")
  BY <1>2
<1>9. PICK new : /\ new = [Inode(j) EXCEPT !.nlink = 1]
                 /\ new \in [type : {"free", "file", "dir", "dev"}, nlink : Nat]
                 /\ new.type = dinode[j].type /\ new.nlink = 1
  <2>1. PICK r \in [type : {"free", "file", "dir", "dev"}, nlink : Nat] : r = dinode[j]
    BY <1>5, <1>6, SharedFields
  <2>2. PICK new : new = [r EXCEPT !.nlink = 1]
    OBVIOUS
  <2>3. /\ new \in [type : {"free", "file", "dir", "dev"}, nlink : Nat]
        /\ new.type = r.type /\ new.nlink = 1
    BY <2>2
  <2> QED
    BY <1>5, <2>1, <2>2, <2>3
<1>10. /\ \A i \in Inodes : inode'[i] = IF i = j THEN new ELSE inode[i]
       /\ \A i \in Inodes : valid'[i] = IF i = j THEN TRUE ELSE valid[i]
       /\ \A i \in Inodes : dinode'[i] = IF i = j THEN new ELSE dinode[i]
       /\ valid' \in [Inodes -> BOOLEAN]
       /\ inode' \in [Inodes -> [type : {"free", "file", "dir", "dev"}, nlink : Nat]]
       /\ dinode' \in [Inodes -> [type : {"free", "file", "dir", "dev"}, nlink : Nat]]
  <2>1. Write(j, new)
    BY <1>3, <1>9
  <2>2. /\ inode' = [inode EXCEPT ![j] = new] /\ valid' = [valid EXCEPT ![j] = TRUE]
        /\ dinode' = [dinode EXCEPT ![j] = new]
    BY <2>1 DEF Write
  <2>3. new \in [type : {"free", "file", "dir", "dev"}, nlink : Nat]
    BY <1>9
  <2> QED
    BY <1>5, <1>6, <2>2, <2>3, SharedFields
<1>11. /\ \A i \in Inodes : busy'[i] = IF i = j THEN p ELSE busy[i]
       /\ busy' \in [Inodes -> Procs \cup {NoProc}]
  BY <1>3, <1>5, <1>6, SharedFields
<1>12. Becomes(p, at, call[p], path[p], dp[p], ip[p], <<>>)
  <2>1. at \in Places
    BY <1>8 DEF Places, Creates
  <2> QED
    BY <1>3, <1>4, <1>6, <2>1, LocalFields DEF Becomes
<1>13. Values'
  <2>1. /\ dents' \in [Inodes -> [Entries -> Inodes \cup {NoInode}]] /\ ref' \in [Inodes -> Nat]
        /\ cwd' \in [Procs -> Inodes] /\ stage' \in [Procs -> {"no", "trunc", "free", "drop"}]
        /\ file' \in [Procs -> Inodes \cup {NoInode}] /\ lost' \in BOOLEAN /\ boots' \in Nat
        /\ panicked' \in {"no", "iput", "ilock", "unlink", "ialloc"} /\ calls' = calls
    BY <1>4, <1>6, SharedFields
  <2> QED
    BY <1>6, <1>10, <1>11, <1>12, <2>1, ValuesKept
<1>14. pc'[p] = at
  BY <1>12 DEF Becomes
<1>15. Rest(p)
  BY <1>4, <1>12 DEF Rest, Becomes
<1>16. \A q \in Procs : Front(q)' = Front(q) /\ Back(q)' = Back(q)
  BY <1>4, PutsAre
<1>17. \A q \in Procs, i \in Inodes : Others(q, i)' <=> Others(q, i)
  BY <1>4, <1>16 DEF Others
<1>18. \A q \in Procs : q # p => pc'[q] = pc[q]
  BY <1>15 DEF Rest
<1>19. /\ \A i \in Inodes : i # j /\ IsFresh(i) => IsFresh(i)'
       /\ \A i \in Inodes : Gone(i)' <=> Gone(i)
  <2>1. ASSUME NEW i \in Inodes, i # j, IsFresh(i) PROVE IsFresh(i)'
    <3>1. PICK q \in Procs : pc[q] = "fresh" /\ ip[q] = i
      BY <2>1 DEF IsFresh
    <3>2. pc'[q] = "fresh" /\ ip'[q] = i
      BY <1>1, <1>4, <1>18, <2>1, <3>1
    <3> QED
      BY <3>2 DEF IsFresh
  <2>2. \A i \in Inodes : Gone(i)' <=> Gone(i)
    BY <1>4, <1>16 DEF Gone
  <2> QED
    BY <2>1, <2>2
<1>20. Shape(p)'
  BY <1>1, <1>3, <1>4, <1>5, <1>6, <1>7, <1>8, <1>14, Constants
     DEF Shape, NeedsDp, Entering, Creates, Unlinks, Creating
<1>21. Counts(p)
  <2>1. \A i \in Inodes : Own(p, i)' = Own(p, i)
    BY <1>4, <1>16 DEF Own, Is
  <2>2. \A i \in Inodes : ref[i] \in Nat /\ Own(p, i) \in Nat
    BY <1>6, Types, PointsOwn
  <2> QED
    BY <1>4, <2>1, <2>2 DEF Counts
<1>22. Unlocks(p)
  <2>1. \A i \in Inodes : Holds(p, i)' <=> i = dp[p] \/ i = j
    BY <1>1, <1>4, <1>6, <1>8, <1>14 DEF Holds, NeedsDp, NeedsIp, Entering
  <2>2. \A i \in Inodes : Holds(p, i) <=> i = dp[p]
    BY <1>3, <1>6 DEF Holds, NeedsDp, NeedsIp, Entering
  <2>3. \A i \in Inodes : busy[i] = p <=> i = dp[p]
    BY <2>2 DEF FilesInv, Locked
  <2> QED
    BY <1>3, <1>11, <2>1, <2>3, Constants DEF Unlocks
<1>23. /\ \A i : NamesOf(i)' = NamesOf(i)
       /\ \A i \in Inodes : Links(i)' = Links(i) /\ (IsEmpty(i)' <=> IsEmpty(i))
       /\ \A i \in Inodes : dinode'[i].type = dinode[i].type
  <2>1. \A i \in Inodes : dinode'[i].type = dinode[i].type
    BY <1>9, <1>10
  <2> QED
    BY <1>4, <1>6, <2>1, LinksSame
<1>24. Dying'
  <2> SUFFICES ASSUME NEW q \in Procs, stage'[q] # "no", NEW i, i = Front(q)'
               PROVE  /\ valid'[i] /\ dinode'[i].nlink = 0
                      /\ stage'[q] \in {"trunc", "free"} => dinode'[i].type # "free"
                      /\ stage'[q] \in {"free", "drop"} => IsEmpty(i)'
                      /\ stage'[q] = "drop" => inode'[i] = Empty /\ (Used(i)' => IsFresh(i)')
                      /\ \A r \in Procs : /\ ~Others(r, i)'
                                          /\ ip'[r] = i => stage'[q] = "drop" /\ pc'[r] = "fresh"
                                          /\ Front(r)' = i => r = q
    BY DEF Dying, IsEmpty, Used, IsFresh, Others
  <2>1. stage[q] # "no" /\ stage'[q] = stage[q] /\ i = Front(q)
    BY <1>4, <1>16
  <2>2. i \in Inodes /\ i # j
    BY <1>5, <2>1, StageFacts
  <2>3. /\ valid[i] /\ dinode[i].nlink = 0
        /\ stage[q] \in {"trunc", "free"} => dinode[i].type # "free"
        /\ stage[q] \in {"free", "drop"} => IsEmpty(i)
        /\ stage[q] = "drop" => inode[i] = Empty /\ (Used(i) => IsFresh(i))
        /\ \A r \in Procs : /\ ~Others(r, i)
                            /\ ip[r] = i => stage[q] = "drop" /\ pc[r] = "fresh"
                            /\ Front(r) = i => r = q
    BY <2>1 DEF FilesInv, Dying
  <2>4. valid'[i] /\ inode'[i] = inode[i] /\ dinode'[i] = dinode[i] /\ (IsEmpty(i)' <=> IsEmpty(i))
    BY <1>10, <1>23, <2>2, <2>3
  <2>5. IsFresh(i) => IsFresh(i)'
    BY <1>19, <2>2
  <2>6. Used(i)' <=> Used(i)
    BY <2>4 DEF Used
  <2>7. ASSUME NEW r \in Procs, ip'[r] = i PROVE stage[q] = "drop" /\ pc'[r] = "fresh"
    BY <1>1, <1>4, <1>18, <2>2, <2>3, <2>7
  <2> QED
    BY <1>16, <1>17, <2>1, <2>2, <2>3, <2>4, <2>5, <2>6, <2>7
<1>25. Fresh'
  <2> SUFFICES ASSUME NEW q \in Procs, pc'[q] = "fresh", NEW i, i = ip'[q]
               PROVE  /\ dinode'[i].nlink = 0
                      /\ \A r \in Procs : /\ ~Others(r, i)'
                                          /\ ip'[r] = i => r = q
                                          /\ Front(r)' = i => stage'[r] = "drop"
    BY DEF Fresh, Others
  <2>1. q # p /\ pc[q] = "fresh" /\ i = ip[q]
    BY <1>4, <1>8, <1>14, <1>18
  <2>2. i \in Inodes /\ i # j
    BY <1>5, <2>1, Types DEF FilesInv, Shapes, Shape, Creates
  <2>3. /\ dinode[i].nlink = 0
        /\ \A r \in Procs : ~Others(r, i) /\ (ip[r] = i => r = q) /\ (Front(r) = i => stage[r] = "drop")
    BY <2>1 DEF FilesInv, Fresh
  <2> QED
    BY <1>4, <1>10, <1>16, <1>17, <2>2, <2>3
<1>26. Copies'
  <2>1. ref[j] > 0
    <3>1. Points(p, j)
      BY <1>1 DEF Points
    <3> QED
      BY <1>5, <3>1, RefSole DEF FilesInv
  <2> QED
    BY <1>4, <1>10, <1>19, <2>1 DEF FilesInv, Copies
<1>27. OnlyDirs'
  BY <1>23 DEF FilesInv, OnlyDirs
<1>28. Kept'
  <2> SUFFICES ASSUME boots = 0, NEW i \in Inodes, Used(i)', dinode'[i].nlink = 0
               PROVE  ref'[i] > 0 /\ (valid'[i] \/ IsFresh(i)')
    BY <1>4 DEF Kept
  <2>1. i # j /\ Used(i) /\ dinode[i].nlink = 0
    BY <1>9, <1>10 DEF Used
  <2>2. ref[i] > 0 /\ (valid[i] \/ IsFresh(i))
    BY <2>1 DEF FilesInv, Kept
  <2> QED
    BY <1>4, <1>10, <1>19, <2>1, <2>2
<1>29. Clean' <=> Clean
  BY <1>4 DEF Clean
<1>30. Enough' /\ Exact'
  <2>1. \A i \in Inodes : Credit(p, i) = 0
    BY <1>3, <1>7, NoCredit
  <2>2. \A i \in Inodes : Credit(p, i)' = Is(j, i)
    <3>1. OwedIp'[p] = j /\ OwedDp'[p] = NoInode
      BY <1>1, <1>4, <1>7, <1>8, <1>14, OwedFields
    <3> QED
      BY <3>1, Constants DEF Credit, Is
  <2>3. \A i \in Inodes : dinode'[i].nlink - dinode[i].nlink = Links(i)' - Links(i) + Credit(p, i)' - Credit(p, i)
    <3> SUFFICES ASSUME NEW i \in Inodes
                 PROVE  dinode'[i].nlink - dinode[i].nlink = Links(i)' - Links(i) + Credit(p, i)' - Credit(p, i)
      OBVIOUS
    <3>1. Links(i) \in Nat /\ dinode[i].nlink \in Nat
      BY <1>6, LinksNat, Types
    <3>2. dinode'[i].nlink = IF i = j THEN 1 ELSE dinode[i].nlink
      BY <1>9, <1>10
    <3> QED
      BY <1>5, <1>23, <2>1, <2>2, <3>1, <3>2 DEF Is
  <2> QED
    BY <1>4, <1>6, <1>13, <1>15, <2>3, EnoughKept DEF FilesInv
<1>31. Live'
  <2>1. \A i \in Inodes : ~Used(i) => dinode'[i].nlink = dinode[i].nlink
    BY <1>5, <1>10
  <2>2. LiveAt(p)'
    <3>1. Used(j)' /\ dinode'[j].type = Kind[call[p].op] /\ dinode'[dp[p]].type = "dir"
      BY <1>5, <1>7, <1>23 DEF Used
    <3>2. /\ cwd[p] \in Inodes /\ file[p] \in Inodes \cup {NoInode}
          /\ \A i \in Inodes : Used(i)' <=> Used(i)
      BY <1>6, <1>23, Types DEF Used
    <3>3. call[p].op # "linkto" /\ Front(p)' = NoInode /\ Back(p)' = NoInode
      BY <1>6, <1>7, <1>16
    <3> QED
      BY <1>1, <1>4, <1>6, <1>7, <1>8, <1>14, <1>23, <3>1, <3>2, <3>3 DEF LiveAt, Used
  <2> QED
    BY <1>6, <1>13, <1>15, <1>23, <1>30, <2>1, <2>2, LiveKept DEF FilesInv
<1>32. Bare'
  BY <1>23, <1>29 DEF FilesInv, Bare
<1>33. FoundAt(p)' /\ ~MakesDir(p)'
  <2>1. Lookup(p)' = NoInode
    BY <1>3, <1>4 DEF Lookup, FilesInv, Found, FoundAt, Entering
  <2> QED
    BY <1>4, <1>8, <1>14, <2>1 DEF FoundAt, MakesDir
<1>34. Named'
  BY <1>6, <1>15, <1>23, <1>29, <1>33, NamedKept DEF FilesInv
<1>35. \A q \in Procs, d \in Inodes, n \in Names :
         q # p /\ busy[d] = q => dents'[d][n] = dents[d][n]
  BY <1>4
<1> QED
  BY <1>13, <1>15, <1>20, <1>21, <1>22, <1>24, <1>25, <1>26, <1>27, <1>28, <1>30, <1>31, <1>32,
     <1>33, <1>34, <1>35, StepKeeps
-----------------------------------------------------------------------------
(* Steps that change the links of an inode. *)
Written(j, n) ==
  /\ dinode' \in [Inodes -> [type : {"free", "file", "dir", "dev"}, nlink : Nat]]
  /\ inode' \in [Inodes -> [type : {"free", "file", "dir", "dev"}, nlink : Nat]]
  /\ valid' \in [Inodes -> BOOLEAN]
  /\ \A i \in Inodes : i # j => /\ dinode'[i] = dinode[i] /\ inode'[i] = inode[i]
                                /\ valid'[i] = valid[i]
  /\ inode'[j] = dinode'[j] /\ valid'[j]
  /\ dinode'[j].type = dinode[j].type /\ dinode'[j].nlink = dinode[j].nlink + n

LEMMA LinkedStep ==
  ASSUME FilesInv, NEW j \in Inodes, Good(j), NEW n \in Int, dinode[j].nlink + n \in Nat,
         Write(j, Linked(j, n))
  PROVE  Written(j, n)
<1>1. Inode(j) = dinode[j] /\ Values
  BY SafeSeen DEF Good, FilesInv
<1>2. PICK r \in [type : {"free", "file", "dir", "dev"}, nlink : Nat] : r = dinode[j]
  BY <1>1, SharedFields
<1>3. PICK new : new = [r EXCEPT !.nlink = r.nlink + n]
  OBVIOUS
<1>4. /\ new \in [type : {"free", "file", "dir", "dev"}, nlink : Nat]
      /\ new.type = r.type /\ new.nlink = r.nlink + n
  BY <1>2, <1>3
<1>5. Linked(j, n) = new
  BY <1>1, <1>2, <1>3 DEF Linked
<1>6. /\ inode' = [inode EXCEPT ![j] = new] /\ valid' = [valid EXCEPT ![j] = TRUE]
      /\ dinode' = [dinode EXCEPT ![j] = new]
  BY <1>5 DEF Write
<1> QED
  BY <1>1, <1>2, <1>4, <1>6, SharedFields DEF Written

LEMMA LinksKeep ==
  ASSUME FilesInv, NEW p \in Procs, Calm(p), Values', Shape(p)', Counts(p), Unlocks(p),
         NewPoints(p), LiveAt(p)', FoundAt(p)',
         NEW j \in Inodes, Good(j), ref[j] > 0, NEW n \in Int, Written(j, n),
         \A i \in Inodes : ref'[i] >= ref[i],
         \A d \in Inodes, m \in Names : dents'[d][m] = dents[d][m],
         boots' = boots, lost => lost',
         \A i \in Inodes : Credit(p, i)' = Credit(p, i) + (IF i = j THEN n ELSE 0),
         Clean' /\ MakesDir(p)' => dp'[p] = Root \/ NamesOf(dp[p])' # {}
  PROVE  FilesInv'
<1>1. Values /\ Rest(p) /\ dinode[j].nlink \in Nat
  BY Types DEF FilesInv, Calm
<1>2. \A i \in Inodes : dinode'[i].type = dinode[i].type
  BY DEF Written
<1>3. /\ \A i : NamesOf(i)' = NamesOf(i)
      /\ \A i \in Inodes : Links(i)' = Links(i) /\ (IsEmpty(i)' <=> IsEmpty(i))
  BY <1>1, <1>2, LinksSame
<1>4. \A i \in Inodes : ref[i] \in Nat /\ ref'[i] \in Nat
  BY <1>1, Types DEF Values, TypeOK
<1>5. Undisturbed
  BY <1>3 DEF Undisturbed, Written, Good
<1>6. CopiedStep
  BY <1>4 DEF CopiedStep, Written, FilesInv, Copies
<1>7. \A i \in Inodes : ~Used(i) => dinode'[i].nlink = dinode[i].nlink
  BY DEF Written, Good
<1>8. \A i \in Inodes :
        dinode'[i].nlink - dinode[i].nlink = Links(i)' - Links(i) + Credit(p, i)' - Credit(p, i)
  <2> SUFFICES ASSUME NEW i \in Inodes
               PROVE  dinode'[i].nlink - dinode[i].nlink = Links(i)' - Links(i) + Credit(p, i)' - Credit(p, i)
    OBVIOUS
  <2>1. Links(i) \in Nat /\ dinode[i].nlink \in Nat /\ Credit(p, i) \in Nat
    BY <1>1, LinksNat, Types, OwedStep
  <2>2. dinode'[i].nlink = dinode[i].nlink + (IF i = j THEN n ELSE 0)
    BY <2>1 DEF Written
  <2> QED
    BY <1>3, <2>1, <2>2
<1>9. OnlyDirs'
  BY <1>2, <1>3 DEF FilesInv, OnlyDirs
<1>10. Clean' => Clean
  BY DEF Clean
<1>11. Bare'
  BY <1>3, <1>10 DEF FilesInv, Bare
<1>12. Named'
  BY <1>1, <1>3, <1>10, NamedKept DEF FilesInv
<1>13. Kept'
  <2> SUFFICES ASSUME boots = 0, NEW i \in Inodes, Used(i)', dinode'[i].nlink = 0
               PROVE  ref'[i] > 0 /\ (valid'[i] \/ IsFresh(i)')
    BY DEF Kept
  <2>1. CASE i = j
    BY <1>4, <2>1 DEF Written
  <2>2. CASE i # j
    <3>1. Used(i) /\ dinode[i].nlink = 0 /\ valid'[i] = valid[i]
      BY <2>2 DEF Written, Used
    <3>2. ref[i] > 0 /\ (valid[i] \/ IsFresh(i))
      BY <3>1 DEF FilesInv, Kept
    <3>3. IsFresh(i)' <=> IsFresh(i)
      BY SafeKept
    <3> QED
      BY <1>4, <3>1, <3>2, <3>3
  <2> QED
    BY <2>1, <2>2
<1> QED
  BY <1>2, <1>5, <1>6, <1>7, <1>8, <1>9, <1>11, <1>12, <1>13, WriteKeeps

(* What is equal in every step of a process that is not in an iput(). *)
LEMMA ReadyShape ==
  ASSUME FilesInv, NEW p \in Procs, puts[p] = <<>>, pc[p] # "fresh"
  PROVE  /\ Values /\ Shape(p) /\ LiveAt(p) /\ FoundAt(p)
         /\ stage[p] = "no" /\ Front(p) = NoInode /\ Back(p) = NoInode
         /\ dp[p] \in Inodes => Good(dp[p]) /\ ref[dp[p]] > 0 /\ Inode(dp[p]) = dinode[dp[p]]
         /\ ip[p] \in Inodes => Good(ip[p]) /\ ref[ip[p]] > 0 /\ Inode(ip[p]) = dinode[ip[p]]
<1>1. stage[p] = "no" /\ Front(p) = NoInode /\ Back(p) = NoInode
  BY ReadyFacts
<1>2. Values /\ Shape(p) /\ LiveAt(p) /\ FoundAt(p)
  BY DEF FilesInv, Shapes, Live, Found
<1>3. /\ dp[p] \in Inodes => Good(dp[p]) /\ ref[dp[p]] > 0 /\ Inode(dp[p]) = dinode[dp[p]]
      /\ ip[p] \in Inodes => Good(ip[p]) /\ ref[ip[p]] > 0 /\ Inode(ip[p]) = dinode[ip[p]]
  BY OwnLock DEF Points
<1> QED
  BY <1>1, <1>2, <1>3

(* Who owes a link of an inode finds it counted. *)
LEMMA CreditCounts ==
  ASSUME FilesInv, NEW p \in Procs, NEW i \in Inodes
  PROVE  dinode[i].nlink \in Nat /\ Credit(p, i) \in Nat /\ dinode[i].nlink >= Credit(p, i)
<1>1. dinode[i].nlink >= Links(i) + Owed(i) /\ dinode[i].nlink \in Nat
  BY Types DEF FilesInv, Enough
<1>2. Links(i) \in Nat /\ Owed(i) \in Nat
  BY LinksFinite
<1>3. Owed(i) = Count(OwedIp, i) + Count(OwedDp, i) /\ Credit(p, i) = Is(OwedIp[p], i) + Is(OwedDp[p], i)
  BY DEF Owed, Credit
<1>4. /\ Count(OwedIp, i) \in Nat /\ (OwedIp[p] = i => Count(OwedIp, i) > 0)
      /\ Count(OwedDp, i) \in Nat /\ (OwedDp[p] = i => Count(OwedDp, i) > 0)
  BY CountPositive
<1>5. Owed(i) >= Credit(p, i) /\ Credit(p, i) \in Nat
  BY <1>3, <1>4 DEF Is
<1> QED
  BY <1>1, <1>2, <1>5

LEMMA MkdirParentKeeps ==
  ASSUME FilesInv, NEW p \in Procs, MkdirParent(p)
  PROVE  FilesInv'
<1>1. PICK j : j = dp[p]
  OBVIOUS
<1>2. /\ pc[p] = "parent" /\ puts[p] = <<>> /\ Write(j, Linked(j, 1))
      /\ lost' = (lost \/ Inode(j).nlink = 0) /\ pc' = [pc EXCEPT ![p] = "dots"]
  BY <1>1 DEF MkdirParent, Ready, Goto, Orphan
<1>3. /\ dents' = dents /\ ref' = ref /\ busy' = busy /\ cwd' = cwd /\ file' = file /\ call' = call
      /\ path' = path /\ dp' = dp /\ ip' = ip /\ puts' = puts /\ stage' = stage
      /\ panicked' = panicked /\ boots' = boots /\ calls' = calls
  BY DEF MkdirParent, places, putting, locals
<1>4. /\ Values /\ Shape(p) /\ LiveAt(p) /\ FoundAt(p)
      /\ stage[p] = "no" /\ Front(p) = NoInode /\ Back(p) = NoInode
  BY <1>2, ReadyShape
<1>5. /\ j \in Inodes /\ ip[p] \in Inodes /\ j # ip[p] /\ dinode[j].type = "dir" /\ call[p].op = "mkdir"
      /\ dinode[ip[p]].type = "dir" /\ Len(path[p]) = 1 /\ Lookup(p) = NoInode
  BY <1>1, <1>2, <1>4 DEF Shape, LiveAt, FoundAt, NeedsDp, Entering, Creates, Kind
<1>6. Good(j) /\ ref[j] > 0 /\ Inode(j) = dinode[j]
  BY <1>1, <1>2, <1>5, ReadyShape
<1>7. Written(j, 1)
  <2>1. dinode[j].nlink + 1 \in Nat
    BY <1>4, <1>5, Types
  <2> QED
    BY <1>2, <1>5, <1>6, <2>1, LinkedStep
<1>8. Becomes(p, "dots", call[p], path[p], dp[p], ip[p], <<>>)
  <2>1. "dots" \in Places
    BY DEF Places, Creates
  <2> QED
    BY <1>2, <1>3, <1>4, <2>1, LocalFields DEF Becomes
<1>9. Values'
  <2>1. lost' \in BOOLEAN
    BY <1>2, <1>4, SharedFields
  <2>2. /\ dents' \in [Inodes -> [Entries -> Inodes \cup {NoInode}]] /\ ref' \in [Inodes -> Nat]
        /\ busy' \in [Inodes -> Procs \cup {NoProc}]
        /\ cwd' \in [Procs -> Inodes] /\ stage' \in [Procs -> {"no", "trunc", "free", "drop"}]
        /\ file' \in [Procs -> Inodes \cup {NoInode}] /\ boots' \in Nat
        /\ panicked' \in {"no", "iput", "ilock", "unlink", "ialloc"} /\ calls' = calls
    BY <1>3, <1>4, SharedFields
  <2> QED
    BY <1>4, <1>7, <1>8, <2>1, <2>2, ValuesKept DEF Written
<1>10. /\ pc'[p] = "dots" /\ Calm(p)
  BY <1>2, <1>3, <1>4, <1>8 DEF Calm, Rest, Becomes
<1>11. Front(p)' = Front(p) /\ Back(p)' = Back(p)
  BY <1>3, PutsAre
<1>12. Shape(p)'
  BY <1>1, <1>2, <1>3, <1>4, <1>5, <1>10, Constants
     DEF Shape, NeedsDp, Entering, Creates, Unlinks, Creating
<1>13. \A i \in Inodes : Own(p, i)' = Own(p, i)
  BY <1>3, <1>11 DEF Own, Is
<1>14. Counts(p) /\ NewPoints(p)
  <2>1. \A i \in Inodes : ref[i] \in Nat /\ Own(p, i) \in Nat
    BY <1>4, Types, PointsOwn
  <2>2. Counts(p)
    BY <1>3, <1>13, <2>1 DEF Counts
  <2>3. NewPoints(p)
    BY <1>2, <1>4, <1>13, PointsOwn, OwnGood DEF NewPoints
  <2> QED
    BY <2>2, <2>3
<1>15. Unlocks(p)
  <2>1. \A i \in Inodes : Holds(p, i)' <=> Holds(p, i)
    BY <1>2, <1>3, <1>4, <1>10 DEF Holds, NeedsDp, NeedsIp, Entering
  <2> QED
    BY <1>3, <2>1 DEF Unlocks, FilesInv, Locked
<1>16. FoundAt(p)'
  <2>1. Lookup(p)' = Lookup(p)
    BY <1>3 DEF Lookup
  <2> QED
    BY <1>5, <1>10, <2>1 DEF FoundAt
<1>17. LiveAt(p)'
  <2>1. \A i \in Inodes : dinode'[i].type = dinode[i].type
    BY <1>7 DEF Written
  <2>2. cwd[p] \in Inodes /\ file[p] \in Inodes \cup {NoInode}
    BY <1>4, Types
  <2> QED
    BY <1>1, <1>3, <1>4, <1>5, <1>10, <1>11, <2>1, <2>2 DEF LiveAt, Used, Kind
<1>18. \A i \in Inodes : Credit(p, i)' = Credit(p, i) + (IF i = j THEN 1 ELSE 0)
  <2>1. OwedIp[p] = ip[p] /\ OwedDp[p] = NoInode /\ OwedIp'[p] = ip[p] /\ OwedDp'[p] = j
    BY <1>1, <1>2, <1>3, <1>10, OwedFields
  <2> QED
    BY <2>1, Constants DEF Credit, Is
<1>19. Clean' => j = Root \/ NamesOf(j)' # {}
  <2> SUFFICES ASSUME Clean' PROVE j = Root \/ NamesOf(j) # {}
    BY <1>3 DEF NamesOf
  <2>1. Clean /\ dinode[j].nlink # 0
    BY <1>2, <1>3, <1>6 DEF Clean
  <2>2. ASSUME NEW q \in Procs, busy[j] = q PROVE OwedIp[q] # j /\ OwedDp[q] # j
    <3>1. busy[j] = p
      BY <1>1, <1>2, <1>5 DEF FilesInv, Locked, Holds, NeedsDp, Entering
    <3>2. OwedIp[p] = ip[p] /\ OwedDp[p] = NoInode
      BY <1>2, <1>5, OwedFields
    <3> QED
      BY <1>5, <2>2, <3>1, <3>2, Constants
  <2> QED
    BY <1>5, <2>1, <2>2, HasName
<1>20. /\ \A i \in Inodes : ref'[i] >= ref[i]
       /\ \A d \in Inodes, m \in Names : dents'[d][m] = dents[d][m]
       /\ Clean' /\ MakesDir(p)' => dp'[p] = Root \/ NamesOf(dp[p])' # {}
       /\ lost => lost'
  <2>1. \A i \in Inodes : ref'[i] >= ref[i]
    BY <1>3, <1>4, Types
  <2>2. Clean' => dp'[p] = Root \/ NamesOf(dp[p])' # {}
    BY <1>1, <1>3, <1>19 DEF NamesOf
  <2> QED
    BY <1>2, <1>3, <2>1, <2>2
<1> QED
  BY <1>3, <1>5, <1>6, <1>7, <1>9, <1>10, <1>12, <1>14, <1>15, <1>16, <1>17, <1>18, <1>20, LinksKeep

LEMMA UnlinkParentKeeps ==
  ASSUME FilesInv, NEW p \in Procs, UnlinkParent(p)
  PROVE  FilesInv'
<1>1. PICK j : j = dp[p]
  OBVIOUS
<1>2. /\ pc[p] = "unparent" /\ puts[p] = <<>> /\ Write(j, Linked(j, -1))
      /\ busy' = [busy EXCEPT ![j] = NoProc] /\ puts' = [puts EXCEPT ![p] = <<j>>]
      /\ dp' = [dp EXCEPT ![p] = NoInode] /\ pc' = [pc EXCEPT ![p] = "unname"]
  BY <1>1 DEF UnlinkParent, Ready, Goto, Set, Iunlock
<1>3. /\ dents' = dents /\ ref' = ref /\ cwd' = cwd /\ file' = file /\ call' = call
      /\ path' = path /\ ip' = ip /\ stage' = stage
      /\ panicked' = panicked /\ boots' = boots /\ calls' = calls /\ lost' = lost
  BY DEF UnlinkParent, places, ghost
<1>4. /\ Values /\ Shape(p) /\ LiveAt(p)
      /\ stage[p] = "no" /\ Front(p) = NoInode /\ Back(p) = NoInode
  BY <1>2, ReadyShape
<1>5. /\ j \in Inodes /\ ip[p] \in Inodes /\ j # ip[p] /\ call[p].op = "unlink"
  BY <1>1, <1>2, <1>4 DEF Shape, NeedsDp, Unlinks
<1>6. Good(j) /\ ref[j] > 0
  BY <1>1, <1>2, <1>5, ReadyShape
<1>7. OwedIp[p] = ip[p] /\ OwedDp[p] = j
  BY <1>1, <1>2, OwedFields
<1>8. Written(j, -1)
  <2>1. dinode[j].nlink >= 1 /\ dinode[j].nlink \in Nat
    <3>1. dinode[j].nlink \in Nat /\ dinode[j].nlink >= Credit(p, j)
      BY <1>5, CreditCounts
    <3>2. Credit(p, j) >= 1
      BY <1>7 DEF Credit, Is
    <3>3. Credit(p, j) \in Nat
      BY <1>5, CreditCounts
    <3> QED
      BY <3>1, <3>2, <3>3
  <2>2. dinode[j].nlink + (-1) \in Nat
    BY <2>1
  <2> QED
    BY <1>2, <1>5, <1>6, <2>2, LinkedStep
<1>9. <<j>> \in Seq(Inodes) /\ Len(<<j>>) = 1 /\ "unname" \in Places
  BY <1>5 DEF Places, Unlinks
<1>10. Becomes(p, "unname", call[p], path[p], NoInode, ip[p], <<j>>)
  BY <1>2, <1>3, <1>4, <1>9, LocalFields DEF Becomes
<1>11. /\ \A i \in Inodes : busy'[i] = IF i = j THEN NoProc ELSE busy[i]
       /\ busy' \in [Inodes -> Procs \cup {NoProc}]
  BY <1>2, <1>4, <1>5, SharedFields
<1>12. Values'
  <2>1. /\ dents' \in [Inodes -> [Entries -> Inodes \cup {NoInode}]] /\ ref' \in [Inodes -> Nat]
        /\ cwd' \in [Procs -> Inodes] /\ stage' \in [Procs -> {"no", "trunc", "free", "drop"}]
        /\ file' \in [Procs -> Inodes \cup {NoInode}] /\ lost' \in BOOLEAN /\ boots' \in Nat
        /\ panicked' \in {"no", "iput", "ilock", "unlink", "ialloc"} /\ calls' = calls
    BY <1>3, <1>4, SharedFields
  <2> QED
    BY <1>4, <1>8, <1>10, <1>11, <2>1, ValuesKept DEF Written
<1>13. /\ pc'[p] = "unname" /\ puts'[p] = <<j>> /\ dp'[p] = NoInode /\ Calm(p)
       /\ stage'[p] = "no"
  BY <1>2, <1>3, <1>4, <1>10 DEF Calm, Rest, Becomes
<1>14. Front(p)' = j /\ Back(p)' = NoInode
  BY <1>13, PutsAre
<1>15. Shape(p)'
  BY <1>2, <1>3, <1>4, <1>5, <1>13, Constants
     DEF Shape, NeedsDp, Entering, Creates, Unlinks, Creating
<1>16. \A i \in Inodes : Own(p, i)' = Own(p, i)
  <2> SUFFICES ASSUME NEW i \in Inodes PROVE Own(p, i)' = Own(p, i)
    OBVIOUS
  <2>1. Own(p, i) = Is(cwd[p], i) + Is(file[p], i) + Is(j, i) + Is(ip[p], i)
    BY <1>1, <1>2, OwnBefore
  <2>2. Own(p, i)' = Is(cwd[p], i) + Is(file[p], i) + Is(NoInode, i) + Is(ip[p], i) + Is(j, i)
    BY <1>3, <1>13, OwnAfter
  <2> QED
    BY <2>1, <2>2, Constants DEF Is
<1>17. Counts(p) /\ NewPoints(p)
  <2>1. \A i \in Inodes : ref[i] \in Nat /\ Own(p, i) \in Nat
    BY <1>4, Types, PointsOwn
  <2>2. Counts(p)
    BY <1>3, <1>16, <2>1 DEF Counts
  <2>3. NewPoints(p)
    BY <1>2, <1>4, <1>16, PointsOwn, OwnGood DEF NewPoints
  <2> QED
    BY <2>2, <2>3
<1>18. Unlocks(p)
  <2>1. \A i \in Inodes : Holds(p, i)' <=> i = ip[p]
    BY <1>3, <1>13 DEF Holds, NeedsDp, NeedsIp, Entering
  <2>2. \A i \in Inodes : Holds(p, i) <=> i = ip[p] \/ i = j
    BY <1>1, <1>2, <1>4 DEF Holds, NeedsDp, NeedsIp, Entering
  <2>3. \A i \in Inodes : busy[i] = p <=> i = ip[p] \/ i = j
    BY <2>2 DEF FilesInv, Locked
  <2> QED
    BY <1>5, <1>11, <2>1, <2>3, Constants DEF Unlocks
<1>19. FoundAt(p)' /\ ~MakesDir(p)'
  BY <1>13 DEF FoundAt, Entering, MakesDir
<1>20. LiveAt(p)'
  <2>1. \A i \in Inodes : dinode'[i].type = dinode[i].type
    BY <1>8 DEF Written
  <2>2. cwd[p] \in Inodes /\ file[p] \in Inodes \cup {NoInode}
    BY <1>4, Types
  <2>3. Used(j) /\ Used(ip[p]) /\ Used(cwd[p]) /\ (file[p] # NoInode => Used(file[p]))
    BY <1>4, <1>5, <1>6, Constants DEF LiveAt, Good
  <2> QED
    BY <1>3, <1>5, <1>13, <1>14, <2>1, <2>2, <2>3 DEF LiveAt, Used, NeedsDp, Entering
<1>21. \A i \in Inodes : Credit(p, i)' = Credit(p, i) + (IF i = j THEN -1 ELSE 0)
  <2>1. OwedIp'[p] = ip[p] /\ OwedDp'[p] = NoInode
    BY <1>3, <1>13, OwedFields
  <2> QED
    BY <1>7, <2>1, Constants DEF Credit, Is
<1>22. /\ \A i \in Inodes : ref'[i] >= ref[i]
       /\ \A d \in Inodes, m \in Names : dents'[d][m] = dents[d][m]
       /\ lost => lost'
  BY <1>3, <1>4, Types
<1>23. -1 \in Int
  OBVIOUS
<1> QED
  BY <1>3, <1>5, <1>6, <1>8, <1>12, <1>13, <1>15, <1>17, <1>18, <1>19, <1>20, <1>21, <1>22, <1>23, LinksKeep

LEMMA UnlinkNameKeeps ==
  ASSUME FilesInv, NEW p \in Procs, UnlinkName(p)
  PROVE  FilesInv'
<1>1. PICK j : j = ip[p]
  OBVIOUS
<1>2. /\ pc[p] = "unname" \/ (pc[p] = "bad" /\ busy[j] = NoProc)
      /\ puts[p] = <<>> /\ Write(j, Linked(j, -1))
      /\ busy' = [busy EXCEPT ![j] = NoProc] /\ Return(p, <<j>>)
  BY <1>1 DEF UnlinkName, Ready, Iunlock, CanLock
<1>3. /\ dents' = dents /\ ref' = ref /\ cwd' = cwd /\ file' = file /\ stage' = stage
      /\ panicked' = panicked /\ boots' = boots /\ calls' = calls /\ lost' = lost
  BY DEF UnlinkName, places, ghost
<1>4. /\ Values /\ Shape(p) /\ LiveAt(p)
      /\ stage[p] = "no" /\ Front(p) = NoInode /\ Back(p) = NoInode
  BY <1>2, ReadyShape
<1>5. /\ j \in Inodes /\ dp[p] = NoInode
      /\ pc[p] = "bad" => call[p].op = "linkto"
  BY <1>1, <1>2, <1>4, Types DEF Shape, NeedsDp, Entering, Unlinks
<1>6. Good(j) /\ ref[j] > 0
  BY <1>1, <1>2, <1>5, ReadyShape
<1>7. OwedIp[p] = j /\ OwedDp[p] = NoInode
  BY <1>1, <1>2, <1>5, OwedFields
<1>8. Written(j, -1)
  <2>1. dinode[j].nlink \in Nat /\ dinode[j].nlink >= Credit(p, j) /\ Credit(p, j) \in Nat
    BY <1>5, CreditCounts
  <2>2. Credit(p, j) >= 1
    BY <1>7 DEF Credit, Is
  <2>3. dinode[j].nlink + (-1) \in Nat
    BY <2>1, <2>2
  <2> QED
    BY <1>2, <1>5, <1>6, <2>3, LinkedStep
<1>9. <<j>> \in Seq(Inodes) /\ Len(<<j>>) <= 2
  BY <1>5
<1>10. Becomes(p, "user", NoCall, <<>>, NoInode, NoInode, <<j>>)
  BY <1>2, <1>4, <1>9, ReturnBecomes
<1>11. /\ \A i \in Inodes : busy'[i] = IF i = j THEN NoProc ELSE busy[i]
       /\ busy' \in [Inodes -> Procs \cup {NoProc}]
  BY <1>2, <1>4, <1>5, SharedFields
<1>12. Values'
  <2>1. /\ dents' \in [Inodes -> [Entries -> Inodes \cup {NoInode}]] /\ ref' \in [Inodes -> Nat]
        /\ cwd' \in [Procs -> Inodes] /\ stage' \in [Procs -> {"no", "trunc", "free", "drop"}]
        /\ file' \in [Procs -> Inodes \cup {NoInode}] /\ lost' \in BOOLEAN /\ boots' \in Nat
        /\ panicked' \in {"no", "iput", "ilock", "unlink", "ialloc"} /\ calls' = calls
    BY <1>3, <1>4, SharedFields
  <2> QED
    BY <1>4, <1>8, <1>10, <1>11, <2>1, ValuesKept DEF Written
<1>13. /\ pc'[p] = "user" /\ puts'[p] = <<j>> /\ dp'[p] = NoInode /\ ip'[p] = NoInode /\ path'[p] = <<>>
       /\ call'[p] = NoCall /\ stage'[p] = "no" /\ Calm(p)
  BY <1>2, <1>3, <1>4, <1>10 DEF Calm, Rest, Becomes
<1>14. Front(p)' = j /\ Back(p)' = NoInode
  BY <1>13, PutsAre
<1>15. NoCall.op = "none"
  BY DEF NoCall
<1>16. Shape(p)'
  BY <1>13, <1>15, Constants DEF Shape, NeedsDp, Entering, Creates, Unlinks, Creating
<1>17. \A i \in Inodes : Own(p, i)' = Own(p, i)
  <2> SUFFICES ASSUME NEW i \in Inodes PROVE Own(p, i)' = Own(p, i)
    OBVIOUS
  <2>1. Own(p, i) = Is(cwd[p], i) + Is(file[p], i) + Is(dp[p], i) + Is(j, i)
    BY <1>1, <1>2, OwnBefore
  <2>2. Own(p, i)' = Is(cwd[p], i) + Is(file[p], i) + Is(j, i)
    BY <1>2, <1>3, <1>4, OwnReturned
  <2> QED
    BY <1>5, <2>1, <2>2, Constants DEF Is
<1>18. Counts(p) /\ NewPoints(p)
  <2>1. \A i \in Inodes : ref[i] \in Nat /\ Own(p, i) \in Nat
    BY <1>4, Types, PointsOwn
  <2>2. Counts(p)
    BY <1>3, <1>17, <2>1 DEF Counts
  <2>3. NewPoints(p)
    BY <1>2, <1>4, <1>17, PointsOwn, OwnGood DEF NewPoints
  <2> QED
    BY <2>2, <2>3
<1>19. Unlocks(p)
  <2>1. \A i \in Inodes : ~Holds(p, i)'
    BY <1>13 DEF Holds, NeedsDp, NeedsIp, Entering
  <2>2. \A i \in Inodes : Holds(p, i) => i = j
    BY <1>1, <1>2, <1>4 DEF Holds, NeedsDp, NeedsIp, Entering
  <2>3. \A i \in Inodes : busy[i] = p => i = j
    BY <2>2 DEF FilesInv, Locked
  <2>4. busy[j] = p \/ busy[j] = NoProc
    BY <1>1, <1>2, <1>5 DEF FilesInv, Locked, Holds, NeedsIp
  <2> QED
    BY <1>5, <1>11, <2>1, <2>3, <2>4, Constants DEF Unlocks
<1>20. FoundAt(p)' /\ ~MakesDir(p)'
  BY <1>13 DEF FoundAt, Entering, MakesDir
<1>21. LiveAt(p)'
  <2>1. \A i \in Inodes : dinode'[i].type = dinode[i].type
    BY <1>8 DEF Written
  <2>2. cwd[p] \in Inodes /\ file[p] \in Inodes \cup {NoInode}
    BY <1>4, Types
  <2>3. Used(j) /\ Used(cwd[p]) /\ (file[p] # NoInode => Used(file[p]))
    BY <1>4, <1>6 DEF LiveAt, Good
  <2> QED
    BY <1>3, <1>5, <1>13, <1>14, <1>15, <2>1, <2>2, <2>3 DEF LiveAt, Used, NeedsDp, Entering
<1>22. \A i \in Inodes : Credit(p, i)' = Credit(p, i) + (IF i = j THEN -1 ELSE 0)
  <2>1. OwedIp'[p] = NoInode /\ OwedDp'[p] = NoInode
    BY <1>13, <1>15, OwedFields
  <2> QED
    BY <1>7, <2>1, Constants DEF Credit, Is
<1>23. /\ \A i \in Inodes : ref'[i] >= ref[i]
       /\ \A d \in Inodes, m \in Names : dents'[d][m] = dents[d][m]
       /\ lost => lost'
  BY <1>3, <1>4, Types
<1>24. -1 \in Int
  OBVIOUS
<1> QED
  BY <1>3, <1>5, <1>6, <1>8, <1>12, <1>13, <1>16, <1>18, <1>19, <1>20, <1>21, <1>22, <1>23, <1>24, LinksKeep

LEMMA LinkOldKeeps ==
  ASSUME NoDots, FilesInv, NEW p \in Procs, LinkOld(p)
  PROVE  FilesInv'
<1>1. PICK j : j = dp[p]
  OBVIOUS
<1>2. PICK s : s = Relative(call[p].new)
  OBVIOUS
<1>3. PICK k : k = Start(p, call[p].new)
  OBVIOUS
<1>4. PICK at : at = Next_place(LinkTo, s)
  OBVIOUS
<1>5. /\ pc[p] = "at" /\ puts[p] = <<>> /\ call[p].op = "link" /\ ~IsDir(j) /\ Write(j, Linked(j, 1))
      /\ ip' = [ip EXCEPT ![p] = j] /\ call' = [call EXCEPT ![p] = LinkTo]
      /\ path' = [path EXCEPT ![p] = s] /\ dp' = [dp EXCEPT ![p] = k]
      /\ Iget(k) /\ pc' = [pc EXCEPT ![p] = at]
  BY <1>1, <1>2, <1>3, <1>4 DEF LinkOld, Ready, Goto, Set, Begin, LinkTo
<1>6. /\ dents' = dents /\ busy' = busy /\ cwd' = cwd /\ file' = file
      /\ puts' = puts /\ stage' = stage
      /\ panicked' = panicked /\ boots' = boots /\ calls' = calls /\ lost' = lost
  BY DEF LinkOld, places, ghost, putting
<1>7. /\ Values /\ Shape(p) /\ LiveAt(p)
      /\ stage[p] = "no" /\ Front(p) = NoInode /\ Back(p) = NoInode
  BY <1>5, ReadyShape
<1>8. /\ j \in Inodes /\ ip[p] = NoInode
  BY <1>1, <1>5, <1>7, Types DEF Shape, NeedsDp, Entering, Creates, Unlinks
<1>9. Good(j) /\ ref[j] > 0 /\ dinode[j].type # "dir"
  BY <1>1, <1>5, <1>8, ReadyShape DEF IsDir
<1>10. /\ s \in Seq(Names) /\ k \in Inodes /\ Good(k)
  <2>1. call[p] \in calls
    <3>1. call[p] \in {NoCall, LinkTo} \cup calls
      BY <1>7, LocalFields
    <3>2. NoCall.op = "none" /\ LinkTo.op = "linkto" /\ call[p].op = "link"
      BY <1>5 DEF NoCall, LinkTo
    <3> QED
      BY <3>1, <3>2
  <2>2. call[p] \in UNION Workloads
    BY <1>7, <2>1, SharedFields
  <2>3. IsPath(call[p].new) /\ call[p].new \in Seq(Names \cup {"/"})
    BY <1>5, <2>2, FilesAssumption DEF NoDots
  <2>4. s \in Seq(Names)
    BY <1>2, <2>3, PathNames
  <2> QED
    BY <1>3, <1>5, <2>4, StartGood
<1>11. /\ at \in {"walk", "fail"} /\ at \in Places
       /\ at = "walk" => s # <<>>
       /\ LinkTo.op = "linkto" /\ LinkTo # NoCall /\ ForParent(LinkTo)
  BY <1>4 DEF Next_place, Places, LinkTo, NoCall, ForParent
<1>12. Written(j, 1)
  <2>1. dinode[j].nlink + 1 \in Nat
    BY <1>7, <1>8, Types
  <2> QED
    BY <1>5, <1>8, <1>9, <2>1, LinkedStep
<1>13. Becomes(p, at, LinkTo, s, k, j, <<>>)
  BY <1>5, <1>6, <1>7, <1>8, <1>10, <1>11, LocalFields DEF Becomes
<1>14. /\ ref' \in [Inodes -> Nat]
       /\ \A i \in Inodes : ref'[i] = ref[i] + Is(k, i) /\ ref'[i] >= ref[i]
  BY <1>5, <1>7, <1>10, IgetStep
<1>15. Values'
  <2>1. /\ dents' \in [Inodes -> [Entries -> Inodes \cup {NoInode}]]
        /\ busy' \in [Inodes -> Procs \cup {NoProc}]
        /\ cwd' \in [Procs -> Inodes] /\ stage' \in [Procs -> {"no", "trunc", "free", "drop"}]
        /\ file' \in [Procs -> Inodes \cup {NoInode}] /\ lost' \in BOOLEAN /\ boots' \in Nat
        /\ panicked' \in {"no", "iput", "ilock", "unlink", "ialloc"} /\ calls' = calls
    BY <1>6, <1>7, SharedFields
  <2> QED
    BY <1>7, <1>12, <1>13, <1>14, <2>1, ValuesKept DEF Written
<1>16. /\ pc'[p] = at /\ puts'[p] = <<>> /\ dp'[p] = k /\ ip'[p] = j /\ path'[p] = s
       /\ call'[p] = LinkTo /\ stage'[p] = "no" /\ Calm(p)
  BY <1>5, <1>6, <1>7, <1>11, <1>13 DEF Calm, Rest, Becomes
<1>17. Front(p)' = NoInode /\ Back(p)' = NoInode
  BY <1>16, PutsAre
<1>18. Shape(p)'
  BY <1>8, <1>10, <1>11, <1>16, Constants DEF Shape, NeedsDp, Entering, Creates, Unlinks, Creating
<1>19. \A i \in Inodes : Own(p, i)' = Own(p, i) + Is(k, i)
  <2> SUFFICES ASSUME NEW i \in Inodes PROVE Own(p, i)' = Own(p, i) + Is(k, i)
    OBVIOUS
  <2>1. Own(p, i) = Is(cwd[p], i) + Is(file[p], i) + Is(j, i) + Is(ip[p], i)
    BY <1>1, <1>5, OwnBefore
  <2>2. Own(p, i)' = Is(cwd[p], i) + Is(file[p], i) + Is(k, i) + Is(j, i)
    BY <1>6, <1>16, OwnAfter
  <2> QED
    BY <1>8, <2>1, <2>2, Constants DEF Is
<1>20. Counts(p) /\ NewPoints(p)
  <2>1. \A i \in Inodes : ref[i] \in Nat /\ Own(p, i) \in Nat /\ Is(k, i) \in {0, 1} /\ (Is(k, i) = 1 <=> k = i)
    BY <1>7, Types, PointsOwn, Nothing
  <2>2. Counts(p)
    BY <1>14, <1>19, <2>1 DEF Counts
  <2>3. NewPoints(p)
    <3> SUFFICES ASSUME NEW i \in Inodes, Points(p, i)' PROVE Good(i)
      BY DEF NewPoints
    <3>1. Own(p, i) # 0 \/ k = i
      BY <1>19, <2>1, PointsOwn
    <3> QED
      BY <1>5, <1>7, <1>10, <3>1, OwnGood, PointsOwn
  <2> QED
    BY <2>2, <2>3
<1>21. Unlocks(p)
  <2>1. \A i \in Inodes : ~Holds(p, i)'
    BY <1>11, <1>16 DEF Holds, NeedsDp, NeedsIp, Entering
  <2>2. pc[p] \notin NeedsDp \cup NeedsIp
    BY <1>5 DEF NeedsDp, NeedsIp, Entering
  <2> QED
    BY <1>5, <1>6, <2>1, <2>2, BusyKept DEF Unlocks
<1>22. FoundAt(p)' /\ ~MakesDir(p)'
  BY <1>11, <1>16 DEF FoundAt, Entering, MakesDir
<1>23. LiveAt(p)'
  <2>1. \A i \in Inodes : dinode'[i].type = dinode[i].type
    BY <1>12 DEF Written
  <2>2. cwd[p] \in Inodes /\ file[p] \in Inodes \cup {NoInode}
    BY <1>7, Types
  <2>3. Used(j) /\ Used(k) /\ Used(cwd[p]) /\ (file[p] # NoInode => Used(file[p]))
    BY <1>7, <1>9, <1>10 DEF LiveAt, Good
  <2> QED
    BY <1>6, <1>8, <1>9, <1>10, <1>11, <1>16, <1>17, <2>1, <2>2, <2>3
       DEF LiveAt, Used, NeedsDp, Entering
<1>24. \A i \in Inodes : Credit(p, i)' = Credit(p, i) + (IF i = j THEN 1 ELSE 0)
  <2>1. OwedIp'[p] = j /\ OwedDp'[p] = NoInode
    BY <1>11, <1>16, OwedFields
  <2>2. \A i \in Inodes : Credit(p, i) = 0
    BY <1>5, NoCredit
  <2> QED
    BY <2>1, <2>2, Constants DEF Credit, Is
<1>25. /\ \A i \in Inodes : ref'[i] >= ref[i]
       /\ \A d \in Inodes, m \in Names : dents'[d][m] = dents[d][m]
       /\ lost => lost'
  BY <1>6, <1>14
<1> QED
  BY <1>6, <1>8, <1>9, <1>12, <1>15, <1>16, <1>18, <1>20, <1>21, <1>22, <1>23, <1>24, <1>25, LinksKeep

LEMMA OneName ==
  ASSUME NEW s \in Seq(Names), Len(s) = 1
  PROVE  s # <<>> /\ Head(s) \in Names
<1>1. s # <<>>
  <2> SUFFICES ASSUME s = <<>> PROVE FALSE
    OBVIOUS
  <2>1. Len(<<>>) = 0
    OBVIOUS
  <2> QED
    BY <2>1
<1> QED
  BY <1>1, TailOf

(* A step that changes one entry, from x to y, of a directory that no      *)
(* other process has locked.                                               *)
LEMMA EntryKeeps ==
  ASSUME FilesInv, NEW p \in Procs, Calm(p), Values', Shape(p)', Counts(p), Unlocks(p),
         NewPoints(p), LiveAt(p)', FoundAt(p)', ~MakesDir(p)',
         dinode' = dinode, boots' = boots, lost => lost',
         \A i \in Inodes : CopyKept(i) \/ CopyRead(i),
         NEW d \in Inodes, NEW n \in Names, Good(d), dinode[d].type = "dir",
         busy[d] = p \/ busy[d] = NoProc,
         NEW x, x = dents[d][n], NEW y, y = dents'[d][n],
         \A e \in Inodes, m \in Names : <<e, m>> # <<d, n>> => dents'[e][m] = dents[e][m],
         \A i \in Inodes :
           Credit(p, i)' = Credit(p, i) + Is(x, i) + (IF i = d /\ DirHere(x) THEN 1 ELSE 0)
                             - Is(y, i) - (IF i = d /\ DirHere(y) THEN 1 ELSE 0),
         Clean' /\ y # NoInode => d = Root \/ NamesOf(d) # {},
         x # NoInode => x # d /\ IsEmpty(x) /\ busy[x] = NoProc
  PROVE  FilesInv'
<1>1. Values /\ Rest(p) /\ (Clean' => Clean) /\ \A i \in Inodes : dinode'[i].type = dinode[i].type
  BY DEF FilesInv, Calm, Clean
<1>2. \A i \in Inodes :
        /\ Links(i)' = Links(i) - Is(x, i) + Is(y, i)
                         - (IF i = d /\ DirHere(x) THEN 1 ELSE 0)
                         + (IF i = d /\ DirHere(y) THEN 1 ELSE 0)
        /\ i # x => (NamesOf(i) # {} => NamesOf(i)' # {})
        /\ i # y => (NamesOf(i)' # {} => NamesOf(i) # {})
        /\ i # d => (IsEmpty(i)' <=> IsEmpty(i))
  BY <1>1, EntryStep
<1>3. \A i \in Inodes : ref[i] \in Nat /\ ref'[i] \in Nat
  BY <1>1, Types DEF Values, TypeOK
<1>4. CopiedStep
  <2> SUFFICES ASSUME NEW i \in Inodes, valid'[i]
               PROVE  ref'[i] > 0 /\ (inode'[i] = dinode'[i] \/ (valid[i] /\ Gone(i)))
    BY DEF CopiedStep
  <2> QED
    BY <1>3 DEF CopyKept, CopyRead, FilesInv, Copies
<1>5. Undisturbed
  <2> SUFFICES ASSUME NEW i \in Inodes, ~Safe(i)
               PROVE  valid'[i] = valid[i] /\ inode'[i] = inode[i] /\ (IsEmpty(i) => IsEmpty(i)')
    BY DEF Undisturbed
  <2>1. i # d /\ CopyKept(i)
    BY DEF Good, CopyRead
  <2> QED
    BY <1>2, <2>1 DEF CopyKept
<1>6. Kept'
  <2> SUFFICES ASSUME boots = 0, NEW i \in Inodes, Used(i), dinode[i].nlink = 0
               PROVE  ref'[i] > 0 /\ (valid'[i] \/ IsFresh(i)')
    BY DEF Kept, Used
  <2>1. ref[i] > 0 /\ (valid[i] \/ IsFresh(i))
    BY DEF FilesInv, Kept
  <2>2. IsFresh(i)' <=> IsFresh(i)
    BY SafeKept
  <2> QED
    BY <1>3, <2>1, <2>2 DEF CopyKept, CopyRead
<1>7. \A i \in Inodes :
        dinode'[i].nlink - dinode[i].nlink = Links(i)' - Links(i) + Credit(p, i)' - Credit(p, i)
  <2> SUFFICES ASSUME NEW i \in Inodes
               PROVE  dinode'[i].nlink - dinode[i].nlink = Links(i)' - Links(i) + Credit(p, i)' - Credit(p, i)
    OBVIOUS
  <2>1. Links(i) \in Nat /\ dinode[i].nlink \in Nat /\ Credit(p, i) \in Nat
    BY <1>1, LinksNat, Types, OwedStep
  <2>2. PICK a \in {0, 1}, b \in {0, 1} :
          /\ a = (IF i = d /\ DirHere(x) THEN 1 ELSE 0)
          /\ b = (IF i = d /\ DirHere(y) THEN 1 ELSE 0)
    OBVIOUS
  <2>3. Is(x, i) \in {0, 1} /\ Is(y, i) \in {0, 1}
    BY DEF Is
  <2>4. Links(i)' = Links(i) - Is(x, i) + Is(y, i) - a + b
    BY <1>2, <2>2
  <2>5. Credit(p, i)' = Credit(p, i) + Is(x, i) + a - Is(y, i) - b
    BY <2>2
  <2> QED
    BY <2>1, <2>2, <2>3, <2>4, <2>5
<1>8. OnlyDirs'
  BY <1>1, <1>2 DEF FilesInv, OnlyDirs
<1>9. Bare'
  <2> SUFFICES ASSUME Clean', NEW i \in Inodes, i # Root, ~(NamesOf(i)' # {})
               PROVE  IsEmpty(i)'
    BY DEF Bare
  <2>1. CASE i = x
    <3>1. x # NoInode
      BY <2>1, Constants
    <3> QED
      BY <1>2, <2>1, <3>1
  <2>2. CASE i # x
    <3>1. NamesOf(i) = {}
      BY <1>2, <2>2
    <3>2. IsEmpty(i)
      BY <1>1, <3>1 DEF FilesInv, Bare
    <3>3. CASE i # d
      BY <1>2, <3>2, <3>3
    <3>4. CASE i = d
      <4>1. y = NoInode
        BY <3>1, <3>4
      <4> QED
        BY <3>2, <3>4, <4>1 DEF IsEmpty
    <3> QED
      BY <3>3, <3>4
  <2> QED
    BY <2>1, <2>2
<1>10. Named'
  <2>1. ASSUME NEW q \in Procs, NEW e \in Inodes, q # p, busy[e] = q, NamesOf(e) # {}
        PROVE  NamesOf(e)' # {}
    <3>1. e # x
      BY <2>1, Constants
    <3> QED
      BY <1>2, <2>1, <3>1
  <2>2. Shapes /\ Locked /\ Named
    BY DEF FilesInv
  <2> QED
    BY <1>1, <2>1, <2>2, NamedKept
<1>11. \A q \in Procs, e \in Inodes, m \in Names :
         q # p /\ busy[e] = q => dents'[e][m] = dents[e][m]
  <2> SUFFICES ASSUME NEW q \in Procs, NEW e \in Inodes, NEW m \in Names, q # p, busy[e] = q
               PROVE  dents'[e][m] = dents[e][m]
    OBVIOUS
  <2>1. e # d
    BY Constants
  <2> QED
    BY <2>1
<1>12. \A i \in Inodes : ~Used(i) => dinode'[i].nlink = dinode[i].nlink
  OBVIOUS
<1> QED
  BY <1>1, <1>4, <1>5, <1>6, <1>7, <1>8, <1>9, <1>10, <1>11, <1>12, WriteKeeps

LEMMA MkdirDotsKeeps ==
  ASSUME FilesInv, NEW p \in Procs, MkdirDots(p)
  PROVE  FilesInv'
<1>1. PICK j : j = ip[p]
  OBVIOUS
<1>2. /\ pc[p] = "dots" /\ puts[p] = <<>> /\ pc' = [pc EXCEPT ![p] = "enter"]
      /\ dents' = [dents EXCEPT ![j][".."] = dp[p]]
  BY <1>1 DEF MkdirDots, Ready, Goto
<1>3. /\ dinode' = dinode /\ ref' = ref /\ busy' = busy /\ valid' = valid /\ inode' = inode
      /\ cwd' = cwd /\ file' = file /\ call' = call
      /\ path' = path /\ dp' = dp /\ ip' = ip /\ puts' = puts /\ stage' = stage
      /\ panicked' = panicked /\ boots' = boots /\ calls' = calls /\ lost' = lost
  BY DEF MkdirDots, places, putting, locals, icache, ghost
<1>4. /\ Values /\ Shape(p) /\ LiveAt(p) /\ FoundAt(p)
      /\ stage[p] = "no" /\ Front(p) = NoInode /\ Back(p) = NoInode
  BY <1>2, ReadyShape
<1>5. /\ dp[p] \in Inodes /\ j \in Inodes /\ dp[p] # j /\ dinode[dp[p]].type = "dir" /\ call[p].op = "mkdir"
      /\ dinode[j].type = "dir" /\ Len(path[p]) = 1 /\ Lookup(p) = NoInode
  BY <1>1, <1>2, <1>4 DEF Shape, LiveAt, FoundAt, NeedsDp, Entering, Creates, Kind
<1>6. /\ dents' \in [Inodes -> [Entries -> Inodes \cup {NoInode}]]
      /\ \A e \in Inodes, m \in Names : dents'[e][m] = dents[e][m]
  <2>1. dents \in [Inodes -> [Entries -> Inodes \cup {NoInode}]] /\ ".." \in Entries
    BY <1>4, SharedFields DEF Entries
  <2> QED
    BY <1>2, <1>5, <2>1, Constants
<1>7. Becomes(p, "enter", call[p], path[p], dp[p], ip[p], <<>>)
  <2>1. "enter" \in Places
    BY DEF Places, Creates
  <2> QED
    BY <1>2, <1>3, <1>4, <2>1, LocalFields DEF Becomes
<1>8. Values'
  <2>1. /\ dinode' \in [Inodes -> [type : {"free", "file", "dir", "dev"}, nlink : Nat]]
        /\ ref' \in [Inodes -> Nat] /\ valid' \in [Inodes -> BOOLEAN]
        /\ inode' \in [Inodes -> [type : {"free", "file", "dir", "dev"}, nlink : Nat]]
        /\ busy' \in [Inodes -> Procs \cup {NoProc}]
        /\ cwd' \in [Procs -> Inodes] /\ stage' \in [Procs -> {"no", "trunc", "free", "drop"}]
        /\ file' \in [Procs -> Inodes \cup {NoInode}] /\ boots' \in Nat /\ lost' \in BOOLEAN
        /\ panicked' \in {"no", "iput", "ilock", "unlink", "ialloc"} /\ calls' = calls
    BY <1>3, <1>4, SharedFields
  <2> QED
    BY <1>4, <1>6, <1>7, <2>1, ValuesKept
<1>9. /\ pc'[p] = "enter" /\ Calm(p)
  BY <1>2, <1>3, <1>4, <1>7 DEF Calm, Rest, Becomes
<1>10. Front(p)' = Front(p) /\ Back(p)' = Back(p)
  BY <1>3, PutsAre
<1>11. Shape(p)'
  BY <1>1, <1>2, <1>3, <1>4, <1>5, <1>9, Constants
     DEF Shape, NeedsDp, Entering, Creates, Unlinks, Creating
<1>12. \A i \in Inodes : Own(p, i)' = Own(p, i)
  BY <1>3, <1>10 DEF Own, Is
<1>13. Counts(p) /\ NewPoints(p)
  <2>1. \A i \in Inodes : ref[i] \in Nat /\ Own(p, i) \in Nat
    BY <1>4, Types, PointsOwn
  <2>2. Counts(p)
    BY <1>3, <1>12, <2>1 DEF Counts
  <2>3. NewPoints(p)
    BY <1>2, <1>4, <1>12, PointsOwn, OwnGood DEF NewPoints
  <2> QED
    BY <2>2, <2>3
<1>14. Unlocks(p)
  <2>1. \A i \in Inodes : Holds(p, i)' <=> Holds(p, i)
    BY <1>2, <1>3, <1>4, <1>9 DEF Holds, NeedsDp, NeedsIp, Entering
  <2> QED
    BY <1>3, <2>1 DEF Unlocks, FilesInv, Locked
<1>15. FoundAt(p)'
  <2>1. Head(path[p]) \in Names
    <3>1. path[p] \in Seq(Names)
      BY <1>4, Types
    <3> QED
      BY <1>5, <3>1, OneName
  <2>2. Lookup(p)' = Lookup(p)
    BY <1>3, <1>5, <1>6, <2>1 DEF Lookup
  <2> QED
    BY <1>5, <1>9, <2>2 DEF FoundAt
<1>16. LiveAt(p)'
  BY <1>1, <1>3, <1>4, <1>5, <1>9, <1>10 DEF LiveAt, Used, Kind
<1>17. \A i \in Inodes : Credit(p, i)' = Credit(p, i)
  <2>1. OwedIp[p] = ip[p] /\ OwedDp[p] = dp[p] /\ OwedIp'[p] = ip[p] /\ OwedDp'[p] = dp[p]
    BY <1>2, <1>3, <1>5, <1>9, OwedFields
  <2> QED
    BY <2>1 DEF Credit, Is
<1>18. /\ \A i : NamesOf(i)' = NamesOf(i)
       /\ \A i \in Inodes : Links(i)' = Links(i) /\ (IsEmpty(i)' <=> IsEmpty(i))
  BY <1>3, <1>4, <1>6, LinksSame
<1>19. CopiedStep
  <2>1. Copies
    BY DEF FilesInv
  <2> QED
    BY <1>3, <2>1 DEF CopiedStep, Copies
<1>20. Undisturbed
  BY <1>3, <1>18 DEF Undisturbed
<1>21. \A i \in Inodes : dinode'[i].type = dinode[i].type /\ dinode'[i].nlink = dinode[i].nlink
  BY <1>3
<1>22. \A i \in Inodes :
         dinode'[i].nlink - dinode[i].nlink = Links(i)' - Links(i) + Credit(p, i)' - Credit(p, i)
  <2> SUFFICES ASSUME NEW i \in Inodes
               PROVE  dinode'[i].nlink - dinode[i].nlink = Links(i)' - Links(i) + Credit(p, i)' - Credit(p, i)
    OBVIOUS
  <2>1. Links(i) \in Nat /\ dinode[i].nlink \in Nat /\ Credit(p, i) \in Nat
    BY <1>4, LinksNat, Types, OwedStep, <1>9 DEF Calm
  <2> QED
    BY <1>17, <1>18, <1>21, <2>1
<1>23. Clean' => Clean
  BY <1>3 DEF Clean
<1>24. OnlyDirs' /\ Bare'
  <2>1. OnlyDirs'
    BY <1>18, <1>21 DEF FilesInv, OnlyDirs
  <2>2. Bare'
    BY <1>18, <1>23 DEF FilesInv, Bare
  <2> QED
    BY <2>1, <2>2
<1>25. Kept'
  <2> SUFFICES ASSUME boots = 0, NEW i \in Inodes, Used(i), dinode[i].nlink = 0
               PROVE  ref[i] > 0 /\ (valid[i] \/ IsFresh(i)')
    BY <1>3 DEF Kept, Used
  <2>1. ref[i] > 0 /\ (valid[i] \/ IsFresh(i))
    BY DEF FilesInv, Kept
  <2>2. IsFresh(i)' <=> IsFresh(i)
    BY <1>9, SafeKept
  <2> QED
    BY <2>1, <2>2
<1>26. Named'
  <2>1. Clean' => dp'[p] = Root \/ NamesOf(dp[p])' # {}
    <3>1. Clean => dp[p] = Root \/ NamesOf(dp[p]) # {}
      BY <1>2 DEF FilesInv, Named, MakesDir
    <3>2. PICK d : d = dp[p]
      OBVIOUS
    <3>3. NamesOf(d)' = NamesOf(d) /\ dp'[p] = d
      BY <1>3, <1>18, <3>2
    <3> QED
      BY <1>23, <3>1, <3>2, <3>3
  <2>2. Shapes /\ Locked /\ Named /\ Rest(p)
    BY <1>9 DEF FilesInv, Calm
  <2> QED
    BY <1>4, <1>18, <1>23, <2>1, <2>2, NamedKept
<1>27. \A q \in Procs, e \in Inodes, m \in Names :
         q # p /\ busy[e] = q => dents'[e][m] = dents[e][m]
  BY <1>6
<1>28. \A i \in Inodes : ~Used(i) => dinode'[i].nlink = dinode[i].nlink
  BY <1>21
<1>29. boots' = boots /\ (lost => lost')
  BY <1>3
<1> QED
  BY <1>8, <1>9, <1>11, <1>13, <1>14, <1>15, <1>16, <1>19, <1>20, <1>21, <1>22, <1>24, <1>25, <1>26,
     <1>27, <1>28, <1>29, WriteKeeps

(* dirlink() of a new inode: its name is counted before and after. *)
LEMMA EnterKeeps ==
  ASSUME FilesInv, NEW p \in Procs, Enter(p)
  PROVE  FilesInv'
<1>1. PICK d, j, n : d = dp[p] /\ j = ip[p] /\ n = Head(path[p])
  OBVIOUS
<1>2. /\ pc[p] = "enter" /\ puts[p] = <<>> /\ pc' = [pc EXCEPT ![p] = "made"]
      /\ dents' = [dents EXCEPT ![d][n] = j] /\ lost' = (lost \/ Inode(d).nlink = 0)
      /\ busy' = [busy EXCEPT ![d] = NoProc] /\ puts' = [puts EXCEPT ![p] = <<d>>]
      /\ dp' = [dp EXCEPT ![p] = NoInode] /\ path' = [path EXCEPT ![p] = <<>>]
  BY <1>1 DEF Enter, Entered, Orphan, Iunlock, Ready, Goto, Set
<1>3. /\ dinode' = dinode /\ ref' = ref /\ valid' = valid /\ inode' = inode
      /\ cwd' = cwd /\ file' = file /\ call' = call /\ ip' = ip /\ stage' = stage
      /\ panicked' = panicked /\ boots' = boots /\ calls' = calls
  BY DEF Enter, places
<1>4. /\ Values /\ Shape(p) /\ LiveAt(p) /\ FoundAt(p)
      /\ stage[p] = "no" /\ Front(p) = NoInode /\ Back(p) = NoInode
  BY <1>2, ReadyShape
<1>5. /\ d \in Inodes /\ j \in Inodes /\ d # j /\ dinode[d].type = "dir"
      /\ dinode[j].type = Kind[call[p].op] /\ call[p].op \in DOMAIN Kind
      /\ path[p] \in Seq(Names) /\ path[p] # <<>> /\ dents[d][n] = NoInode
  <2>1. path[p] \in Seq(Names) /\ Len(path[p]) = 1
    BY <1>2, <1>4, Types DEF Shape, Entering
  <2>2. path[p] # <<>>
    BY <2>1, OneName
  <2> QED
    BY <1>1, <1>2, <1>4, <2>1, <2>2
       DEF Shape, LiveAt, FoundAt, NeedsDp, Entering, Creates, Creating, Lookup
<1>6. Good(d) /\ ref[d] > 0 /\ Inode(d) = dinode[d] /\ Good(j) /\ dinode[j].type # "free"
  BY <1>1, <1>2, <1>5, ReadyShape DEF Good, Used
<1>7. n \in Names /\ n \in Entries
  BY <1>1, <1>5, TailOf, Constants
<1>8. DirHere(j) <=> call[p].op = "mkdir"
  BY <1>5, Constants DEF DirHere, Kind
<1>9. /\ dents' \in [Inodes -> [Entries -> Inodes \cup {NoInode}]]
      /\ dents'[d][n] = j
      /\ \A e \in Inodes, m \in Names : <<e, m>> # <<d, n>> => dents'[e][m] = dents[e][m]
  <2>1. dents \in [Inodes -> [Entries -> Inodes \cup {NoInode}]]
    BY <1>4, SharedFields
  <2> QED
    BY <1>2, <1>5, <1>7, <2>1, Constants
<1>10. <<d>> \in Seq(Inodes) /\ Len(<<d>>) = 1 /\ "made" \in Places
  BY <1>5 DEF Places, Creates
<1>11. Becomes(p, "made", call[p], <<>>, NoInode, ip[p], <<d>>)
  BY <1>2, <1>3, <1>4, <1>10, LocalFields DEF Becomes
<1>12. /\ \A i \in Inodes : busy'[i] = IF i = d THEN NoProc ELSE busy[i]
       /\ busy' \in [Inodes -> Procs \cup {NoProc}] /\ busy[d] = p
  BY <1>1, <1>2, <1>4, <1>5, SharedFields DEF FilesInv, Locked, Holds, NeedsDp, Entering
<1>13. Values'
  <2>1. /\ dinode' \in [Inodes -> [type : {"free", "file", "dir", "dev"}, nlink : Nat]]
        /\ ref' \in [Inodes -> Nat] /\ valid' \in [Inodes -> BOOLEAN]
        /\ inode' \in [Inodes -> [type : {"free", "file", "dir", "dev"}, nlink : Nat]]
        /\ cwd' \in [Procs -> Inodes] /\ stage' \in [Procs -> {"no", "trunc", "free", "drop"}]
        /\ file' \in [Procs -> Inodes \cup {NoInode}] /\ boots' \in Nat
        /\ panicked' \in {"no", "iput", "ilock", "unlink", "ialloc"} /\ calls' = calls
    BY <1>3, <1>4, SharedFields
  <2>2. lost' \in BOOLEAN
    BY <1>2, <1>4, SharedFields
  <2> QED
    BY <1>4, <1>9, <1>11, <1>12, <2>1, <2>2, ValuesKept
<1>14. /\ pc'[p] = "made" /\ puts'[p] = <<d>> /\ dp'[p] = NoInode /\ path'[p] = <<>> /\ Calm(p)
       /\ stage'[p] = "no" /\ ip'[p] = j /\ call'[p] = call[p]
  BY <1>1, <1>2, <1>3, <1>4, <1>11 DEF Calm, Rest, Becomes
<1>15. Front(p)' = d /\ Back(p)' = NoInode
  BY <1>14, PutsAre
<1>16. Shape(p)'
  BY <1>2, <1>3, <1>4, <1>5, <1>14, Constants
     DEF Shape, NeedsDp, Entering, Creates, Unlinks, Creating
<1>17. \A i \in Inodes : Own(p, i)' = Own(p, i)
  <2> SUFFICES ASSUME NEW i \in Inodes PROVE Own(p, i)' = Own(p, i)
    OBVIOUS
  <2>1. Own(p, i) = Is(cwd[p], i) + Is(file[p], i) + Is(d, i) + Is(j, i)
    BY <1>1, <1>2, OwnBefore
  <2>2. Own(p, i)' = Is(cwd[p], i) + Is(file[p], i) + Is(NoInode, i) + Is(j, i) + Is(d, i)
    BY <1>3, <1>14, OwnAfter
  <2> QED
    BY <2>1, <2>2, Constants DEF Is
<1>18. Counts(p) /\ NewPoints(p)
  <2>1. \A i \in Inodes : ref[i] \in Nat /\ Own(p, i) \in Nat
    BY <1>4, Types, PointsOwn
  <2>2. Counts(p)
    BY <1>3, <1>17, <2>1 DEF Counts
  <2>3. NewPoints(p)
    BY <1>2, <1>4, <1>17, PointsOwn, OwnGood DEF NewPoints
  <2> QED
    BY <2>2, <2>3
<1>19. Unlocks(p)
  <2>1. \A i \in Inodes : Holds(p, i) <=> i = d \/ i = j
    BY <1>1, <1>2, <1>4 DEF Holds, NeedsDp, NeedsIp, Entering
  <2>2. \A i \in Inodes : Holds(p, i)' <=> i = j
    BY <1>14 DEF Holds, NeedsDp, NeedsIp, Entering
  <2>3. \A i \in Inodes : busy[i] = p <=> i = d \/ i = j
    BY <2>1 DEF FilesInv, Locked
  <2> QED
    BY <1>5, <1>12, <2>2, <2>3, Constants DEF Unlocks
<1>20. FoundAt(p)' /\ ~MakesDir(p)'
  BY <1>14 DEF FoundAt, Entering, MakesDir
<1>21. LiveAt(p)'
  <2>1. call[p].op # "linkto"
    BY <1>5 DEF Kind
  <2> QED
    BY <1>3, <1>4, <1>5, <1>6, <1>14, <1>15, <2>1 DEF LiveAt, Used, NeedsDp, Entering
<1>22. \A i \in Inodes :
         Credit(p, i)' = Credit(p, i) + Is(NoInode, i) + (IF i = d /\ DirHere(NoInode) THEN 1 ELSE 0)
                           - Is(j, i) - (IF i = d /\ DirHere(j) THEN 1 ELSE 0)
  <2>1. /\ OwedIp[p] = j /\ OwedDp[p] = IF call[p].op = "mkdir" THEN d ELSE NoInode
        /\ OwedIp'[p] = NoInode /\ OwedDp'[p] = NoInode
    <3>1. call[p].op # "linkto"
      BY <1>5 DEF Kind
    <3> QED
      BY <1>1, <1>2, <1>14, <3>1, OwedFields
  <2> SUFFICES ASSUME NEW i \in Inodes
               PROVE  Credit(p, i)' = Credit(p, i) + Is(NoInode, i)
                        + (IF i = d /\ DirHere(NoInode) THEN 1 ELSE 0)
                        - Is(j, i) - (IF i = d /\ DirHere(j) THEN 1 ELSE 0)
    OBVIOUS
  <2>2. Is(NoInode, i) = 0 /\ ~DirHere(NoInode)
    BY Nothing DEF DirHere
  <2>3. Credit(p, i)' = 0
    BY <2>1, <2>2 DEF Credit
  <2>4. Credit(p, i) = Is(j, i) + (IF i = d /\ DirHere(j) THEN 1 ELSE 0)
    BY <1>8, <2>1, <2>2 DEF Credit, Is
  <2> QED
    BY <2>2, <2>3, <2>4 DEF Is
<1>23. Clean' => d = Root \/ NamesOf(d) # {}
  <2> SUFFICES ASSUME Clean' PROVE d = Root \/ NamesOf(d) # {}
    OBVIOUS
  <2>1. Clean /\ dinode[d].nlink # 0
    BY <1>2, <1>3, <1>6 DEF Clean
  <2>2. CASE call[p].op = "mkdir"
    BY <1>1, <1>2, <2>1, <2>2 DEF FilesInv, Named, MakesDir
  <2>3. CASE call[p].op # "mkdir"
    <3>1. OwedIp[p] = j /\ OwedDp[p] = NoInode
      BY <1>1, <1>2, <2>3, OwedFields
    <3>2. ASSUME NEW q \in Procs, busy[d] = q PROVE OwedIp[q] # d /\ OwedDp[q] # d
      BY <1>5, <1>12, <3>1, <3>2, Constants
    <3> QED
      BY <1>5, <2>1, <3>2, HasName
  <2> QED
    BY <2>2, <2>3
<1>24. \A i \in Inodes : CopyKept(i) \/ CopyRead(i)
  <2>1. \A i \in Inodes : ref[i] \in Nat
    BY <1>4, Types
  <2> QED
    BY <1>3, <2>1 DEF CopyKept
<1>25. PICK x : x = NoInode
  OBVIOUS
<1>26. boots' = boots /\ (lost => lost')
  BY <1>2, <1>3
<1>27. x = dents[d][n] /\ j = dents'[d][n] /\ (x # NoInode => x # d /\ IsEmpty(x) /\ busy[x] = NoProc)
  BY <1>5, <1>9, <1>25
<1>28. \A i \in Inodes :
         Credit(p, i)' = Credit(p, i) + Is(x, i) + (IF i = d /\ DirHere(x) THEN 1 ELSE 0)
                           - Is(j, i) - (IF i = d /\ DirHere(j) THEN 1 ELSE 0)
  BY <1>22, <1>25
<1> QED
  BY <1>3, <1>5, <1>6, <1>7, <1>9, <1>12, <1>13, <1>14, <1>16, <1>18, <1>19, <1>20, <1>21,
     <1>23, <1>24, <1>26, <1>27, <1>28, EntryKeeps

(* dirlink() of link(): the link that was counted first gets its name. *)
LEMMA LinkNewKeeps ==
  ASSUME FilesInv, NEW p \in Procs, LinkNew(p)
  PROVE  FilesInv'
<1>1. PICK d, j, n : d = dp[p] /\ j = ip[p] /\ n = Head(path[p])
  OBVIOUS
<1>2. /\ pc[p] = "dir" /\ puts[p] = <<>> /\ call[p].op = "linkto" /\ CanLock(d)
      /\ dents[d][n] = NoInode /\ Read(d) /\ Return(p, <<d, j>>)
      /\ dents' = [dents EXCEPT ![d][n] = j] /\ lost' = (lost \/ Inode(d).nlink = 0)
  BY <1>1 DEF LinkNew, Entered, Orphan, Ready, Lookup
<1>3. /\ dinode' = dinode /\ ref' = ref /\ busy' = busy
      /\ cwd' = cwd /\ file' = file /\ stage' = stage
      /\ panicked' = panicked /\ boots' = boots /\ calls' = calls
  BY DEF LinkNew, places
<1>4. /\ Values /\ Shape(p) /\ LiveAt(p)
      /\ stage[p] = "no" /\ Front(p) = NoInode /\ Back(p) = NoInode
  BY <1>2, ReadyShape
<1>5. /\ d \in Inodes /\ j \in Inodes /\ dinode[d].type = "dir" /\ dinode[j].type # "dir" /\ d # j
      /\ path[p] \in Seq(Names) /\ path[p] # <<>>
  <2>1. path[p] \in Seq(Names) /\ Len(path[p]) = 1
    BY <1>2, <1>4, Types DEF Shape, Entering
  <2>2. path[p] # <<>>
    BY <2>1, OneName
  <2> QED
    BY <1>1, <1>2, <1>4, <2>1, <2>2 DEF Shape, LiveAt
<1>6. Good(d) /\ ref[d] > 0 /\ Inode(d) = dinode[d] /\ Good(j)
  BY <1>1, <1>2, <1>5, ReadyShape
<1>7. n \in Names /\ n \in Entries
  BY <1>1, <1>5, TailOf, Constants
<1>8. /\ dents' \in [Inodes -> [Entries -> Inodes \cup {NoInode}]]
      /\ dents'[d][n] = j
      /\ \A e \in Inodes, m \in Names : <<e, m>> # <<d, n>> => dents'[e][m] = dents[e][m]
  <2>1. dents \in [Inodes -> [Entries -> Inodes \cup {NoInode}]]
    BY <1>4, SharedFields
  <2> QED
    BY <1>2, <1>5, <1>7, <2>1, Constants
<1>9. <<d, j>> \in Seq(Inodes) /\ Len(<<d, j>>) <= 2
  BY <1>5
<1>10. Becomes(p, "user", NoCall, <<>>, NoInode, NoInode, <<d, j>>)
  BY <1>2, <1>4, <1>9, ReturnBecomes
<1>11. /\ ref' \in [Inodes -> Nat] /\ \A i \in Inodes : ref'[i] >= ref[i]
  BY <1>3, <1>4, RefSame
<1>12. /\ valid' \in [Inodes -> BOOLEAN]
       /\ inode' \in [Inodes -> [type : {"free", "file", "dir", "dev"}, nlink : Nat]]
       /\ \A i \in Inodes : CopyKept(i) \/ CopyRead(i)
  BY <1>2, <1>5, <1>6, <1>11, ReadStep
<1>13. Values'
  <2>1. /\ dinode' \in [Inodes -> [type : {"free", "file", "dir", "dev"}, nlink : Nat]]
        /\ busy' \in [Inodes -> Procs \cup {NoProc}]
        /\ cwd' \in [Procs -> Inodes] /\ stage' \in [Procs -> {"no", "trunc", "free", "drop"}]
        /\ file' \in [Procs -> Inodes \cup {NoInode}] /\ boots' \in Nat
        /\ panicked' \in {"no", "iput", "ilock", "unlink", "ialloc"} /\ calls' = calls
    BY <1>3, <1>4, SharedFields
  <2>2. lost' \in BOOLEAN
    BY <1>2, <1>4, SharedFields
  <2> QED
    BY <1>4, <1>8, <1>10, <1>11, <1>12, <2>1, <2>2, ValuesKept
<1>14. /\ pc'[p] = "user" /\ puts'[p] = <<d, j>> /\ dp'[p] = NoInode /\ path'[p] = <<>> /\ Calm(p)
       /\ stage'[p] = "no" /\ ip'[p] = NoInode /\ call'[p] = NoCall
  BY <1>2, <1>3, <1>4, <1>10 DEF Calm, Rest, Becomes
<1>15. Front(p)' = d /\ Back(p)' = j
  BY <1>14, PutsAre
<1>16. Shape(p)'
  BY <1>14, Constants DEF Shape, NeedsDp, Entering, Creates, Unlinks, Creating, NoCall
<1>17. \A i \in Inodes : Own(p, i)' = Own(p, i)
  <2> SUFFICES ASSUME NEW i \in Inodes PROVE Own(p, i)' = Own(p, i)
    OBVIOUS
  <2>1. Own(p, i) = Is(cwd[p], i) + Is(file[p], i) + Is(d, i) + Is(j, i)
    BY <1>1, <1>2, OwnBefore
  <2>2. Own(p, i)' = Is(cwd[p], i) + Is(file[p], i) + Is(d, i) + Is(j, i)
    BY <1>2, <1>3, <1>4, OwnReturned
  <2> QED
    BY <2>1, <2>2
<1>18. Counts(p) /\ NewPoints(p)
  <2>1. \A i \in Inodes : ref[i] \in Nat /\ Own(p, i) \in Nat
    BY <1>4, Types, PointsOwn
  <2>2. Counts(p)
    BY <1>3, <1>17, <2>1 DEF Counts
  <2>3. NewPoints(p)
    BY <1>2, <1>4, <1>17, PointsOwn, OwnGood DEF NewPoints
  <2> QED
    BY <2>2, <2>3
<1>19. Unlocks(p)
  <2>1. \A i \in Inodes : ~Holds(p, i)'
    BY <1>14 DEF Holds, NeedsDp, NeedsIp, Entering
  <2>2. pc[p] \notin NeedsDp \cup NeedsIp
    BY <1>2 DEF NeedsDp, NeedsIp, Entering
  <2> QED
    BY <1>2, <1>3, <2>1, <2>2, BusyKept DEF Unlocks
<1>20. FoundAt(p)' /\ ~MakesDir(p)'
  BY <1>14 DEF FoundAt, Entering, MakesDir, NoCall
<1>21. LiveAt(p)'
  BY <1>3, <1>4, <1>6, <1>14, <1>15 DEF LiveAt, Used, NeedsDp, Entering, NoCall, Good
<1>22. PICK x : x = NoInode
  OBVIOUS
<1>23. \A i \in Inodes :
         Credit(p, i)' = Credit(p, i) + Is(x, i) + (IF i = d /\ DirHere(x) THEN 1 ELSE 0)
                           - Is(j, i) - (IF i = d /\ DirHere(j) THEN 1 ELSE 0)
  <2>1. /\ OwedIp[p] = j /\ OwedDp[p] = NoInode
        /\ OwedIp'[p] = NoInode /\ OwedDp'[p] = NoInode
    BY <1>1, <1>2, <1>14, OwedFields DEF NoCall
  <2> SUFFICES ASSUME NEW i \in Inodes
               PROVE  Credit(p, i)' = Credit(p, i) + Is(x, i)
                        + (IF i = d /\ DirHere(x) THEN 1 ELSE 0)
                        - Is(j, i) - (IF i = d /\ DirHere(j) THEN 1 ELSE 0)
    OBVIOUS
  <2>2. Is(x, i) = 0 /\ ~DirHere(x) /\ ~DirHere(j) /\ Is(NoInode, i) = 0
    BY <1>5, <1>22, Nothing DEF DirHere
  <2>3. Credit(p, i)' = 0 /\ Credit(p, i) = Is(j, i)
    BY <2>1, <2>2 DEF Credit, Is
  <2> QED
    BY <2>2, <2>3 DEF Is
<1>24. Clean' /\ j # NoInode => d = Root \/ NamesOf(d) # {}
  <2> SUFFICES ASSUME Clean' PROVE d = Root \/ NamesOf(d) # {}
    OBVIOUS
  <2>1. Clean /\ dinode[d].nlink # 0
    BY <1>2, <1>3, <1>6 DEF Clean
  <2>2. \A q \in Procs : busy[d] = q => OwedIp[q] # d /\ OwedDp[q] # d
    BY <1>2, Constants DEF CanLock
  <2> QED
    BY <1>5, <2>1, <2>2, HasName
<1>25. boots' = boots /\ (lost => lost')
  BY <1>2, <1>3
<1>26. x = dents[d][n] /\ j = dents'[d][n] /\ (x # NoInode => x # d /\ IsEmpty(x) /\ busy[x] = NoProc)
  BY <1>2, <1>8, <1>22
<1>27. busy[d] = p \/ busy[d] = NoProc
  BY <1>2 DEF CanLock
<1>28. \A i \in Inodes : CopyKept(i) \/ CopyRead(i)
  BY <1>12
<1>29. dinode' = dinode /\ dinode[d].type = "dir" /\ Good(d) /\ d \in Inodes /\ n \in Names /\ Calm(p)
  BY <1>3, <1>5, <1>6, <1>7, <1>14
<1>30. \A e \in Inodes, m \in Names : <<e, m>> # <<d, n>> => dents'[e][m] = dents[e][m]
  BY <1>8
<1> QED
  BY <1>13, <1>16, <1>18, <1>19, <1>20, <1>21, <1>23, <1>24, <1>25, <1>26, <1>27, <1>28, <1>29,
     <1>30, EntryKeeps

(* The erased name stays counted until the inode, which p has locked, is   *)
(* updated; so does the ".." of a directory.                               *)
LEMMA UnlinkEraseKeeps ==
  ASSUME FilesInv, NEW p \in Procs, UnlinkErase(p)
  PROVE  FilesInv'
<1>1. PICK d, j, n : d = dp[p] /\ j = ip[p] /\ n = Head(path[p])
  OBVIOUS
<1>2. /\ pc[p] = "victim" /\ puts[p] = <<>> /\ CanLock(j) /\ Read(j) /\ CanRemove(j)
      /\ dents' = [dents EXCEPT ![d][n] = NoInode] /\ path' = [path EXCEPT ![p] = <<>>]
  BY <1>1 DEF UnlinkErase, Ready, Set
<1>3. /\ dinode' = dinode /\ ref' = ref /\ cwd' = cwd /\ file' = file /\ call' = call /\ ip' = ip
      /\ stage' = stage /\ panicked' = panicked /\ boots' = boots /\ calls' = calls /\ lost' = lost
  BY DEF UnlinkErase, places, ghost
<1>4. /\ Values /\ Shape(p) /\ LiveAt(p) /\ FoundAt(p)
      /\ stage[p] = "no" /\ Front(p) = NoInode /\ Back(p) = NoInode
  BY <1>2, ReadyShape
<1>5. /\ d \in Inodes /\ j \in Inodes /\ dinode[d].type = "dir" /\ call[p].op = "unlink"
      /\ path[p] \in Seq(Names) /\ path[p] # <<>> /\ dents[d][n] = j
  <2>1. path[p] \in Seq(Names) /\ Len(path[p]) = 1
    BY <1>2, <1>4, Types DEF Shape, Entering
  <2>2. path[p] # <<>>
    BY <2>1, OneName
  <2> QED
    BY <1>1, <1>2, <1>4, <2>1, <2>2
       DEF Shape, LiveAt, FoundAt, NeedsDp, Entering, Unlinks, Lookup
<1>6. Good(d) /\ Good(j) /\ ref[j] > 0 /\ Inode(j) = dinode[j]
  BY <1>1, <1>2, <1>5, ReadyShape
<1>7. n \in Names /\ n \in Entries
  BY <1>1, <1>5, TailOf, Constants
<1>8. /\ \A i \in Inodes : busy[i] = p <=> i = d
      /\ busy[j] = NoProc /\ d # j /\ busy \in [Inodes -> Procs \cup {NoProc}]
  <2>1. \A i \in Inodes : Holds(p, i) <=> i = d
    BY <1>1, <1>2, <1>4 DEF Holds, NeedsDp, NeedsIp, Entering
  <2>2. \A i \in Inodes : busy[i] = p <=> i = d
    BY <2>1 DEF FilesInv, Locked
  <2> QED
    BY <1>2, <1>4, <1>5, <2>2, SharedFields, Constants DEF CanLock
<1>9. IsEmpty(j)
  BY <1>2, <1>5, <1>6 DEF CanRemove, IsDir, FilesInv, OnlyDirs
<1>10. /\ dents' \in [Inodes -> [Entries -> Inodes \cup {NoInode}]]
       /\ dents'[d][n] = NoInode
       /\ \A e \in Inodes, m \in Names : <<e, m>> # <<d, n>> => dents'[e][m] = dents[e][m]
  <2>1. dents \in [Inodes -> [Entries -> Inodes \cup {NoInode}]]
    BY <1>4, SharedFields
  <2> QED
    BY <1>2, <1>5, <1>7, <2>1, Constants
<1>11. /\ ref' \in [Inodes -> Nat] /\ \A i \in Inodes : ref'[i] >= ref[i]
  BY <1>3, <1>4, RefSame
<1>12. /\ valid' \in [Inodes -> BOOLEAN]
       /\ inode' \in [Inodes -> [type : {"free", "file", "dir", "dev"}, nlink : Nat]]
       /\ \A i \in Inodes : CopyKept(i) \/ CopyRead(i)
  BY <1>2, <1>5, <1>6, <1>11, ReadStep
<1>13. /\ dinode' \in [Inodes -> [type : {"free", "file", "dir", "dev"}, nlink : Nat]]
       /\ cwd' \in [Procs -> Inodes] /\ stage' \in [Procs -> {"no", "trunc", "free", "drop"}]
       /\ file' \in [Procs -> Inodes \cup {NoInode}] /\ boots' \in Nat /\ lost' \in BOOLEAN
       /\ panicked' \in {"no", "iput", "ilock", "unlink", "ialloc"} /\ calls' = calls
  BY <1>3, <1>4, SharedFields
<1>14. \A i \in Inodes : ref[i] \in Nat /\ Own(p, i) \in Nat
  BY <1>4, Types, PointsOwn
<1>15. PICK y : y = NoInode
  OBVIOUS
<1>16. /\ boots' = boots /\ (lost => lost')
       /\ (Clean' /\ y # NoInode => d = Root \/ NamesOf(d) # {})
       /\ (busy[d] = p \/ busy[d] = NoProc)
       /\ j = dents[d][n] /\ y = dents'[d][n]
       /\ (j # NoInode => j # d /\ IsEmpty(j) /\ busy[j] = NoProc)
  BY <1>3, <1>5, <1>8, <1>9, <1>10, <1>15
<1>17. \A i \in Inodes : Is(y, i) = 0 /\ ~DirHere(y) /\ Is(NoInode, i) = 0
  BY <1>15, Nothing DEF DirHere
<1>18. /\ OwedIp[p] = NoInode /\ OwedDp[p] = NoInode
  BY <1>2, <1>5, OwedFields
<1>19. \A i \in Inodes : Own(p, i) = Is(cwd[p], i) + Is(file[p], i) + Is(d, i) + Is(j, i)
  BY <1>1, <1>2, OwnBefore
<1>20. \A i \in Inodes : CopyKept(i) \/ CopyRead(i)
  BY <1>12
<1>21. dinode' = dinode /\ dinode[d].type = "dir" /\ Good(d) /\ d \in Inodes /\ n \in Names
  BY <1>3, <1>5, <1>6, <1>7
<1>22. \A e \in Inodes, m \in Names : <<e, m>> # <<d, n>> => dents'[e][m] = dents[e][m]
  BY <1>10
<1>23. CASE dinode[j].type = "dir"
  <2>1. /\ busy' = [busy EXCEPT ![j] = p] /\ pc' = [pc EXCEPT ![p] = "unparent"]
        /\ dp' = dp /\ puts' = puts
    BY <1>1, <1>6, <1>23 DEF UnlinkErase, IsDir, Goto
  <2>2. Becomes(p, "unparent", call[p], <<>>, dp[p], ip[p], <<>>)
    <3>1. "unparent" \in Places
      BY DEF Places, Unlinks
    <3> QED
      BY <1>2, <1>3, <1>4, <2>1, <3>1, LocalFields DEF Becomes
  <2>3. /\ \A i \in Inodes : busy'[i] = IF i = j THEN p ELSE busy[i]
        /\ busy' \in [Inodes -> Procs \cup {NoProc}]
    BY <1>5, <1>8, <2>1
  <2>4. Values'
    BY <1>4, <1>10, <1>11, <1>12, <1>13, <2>2, <2>3, ValuesKept
  <2>5. /\ pc'[p] = "unparent" /\ puts'[p] = <<>> /\ dp'[p] = d /\ path'[p] = <<>> /\ Calm(p)
        /\ stage'[p] = "no" /\ ip'[p] = j /\ call'[p] = call[p]
    BY <1>1, <1>2, <1>3, <1>4, <2>1, <2>2 DEF Calm, Rest, Becomes
  <2>6. Front(p)' = NoInode /\ Back(p)' = NoInode
    BY <2>5, PutsAre
  <2>7. Shape(p)'
    BY <1>2, <1>4, <1>5, <1>8, <2>5, Constants
       DEF Shape, NeedsDp, Entering, Creates, Unlinks, Creating, NoCall
  <2>8. \A i \in Inodes : Own(p, i)' = Own(p, i)
    <3> SUFFICES ASSUME NEW i \in Inodes PROVE Own(p, i)' = Own(p, i)
      OBVIOUS
    <3>1. Own(p, i)' = Is(cwd[p], i) + Is(file[p], i) + Is(d, i) + Is(j, i)
      BY <1>3, <2>5, OwnAfter
    <3> QED
      BY <1>19, <3>1
  <2>9. Counts(p)
    BY <1>3, <1>14, <2>8 DEF Counts
  <2>10. NewPoints(p)
    BY <1>2, <1>4, <2>8, PointsOwn, OwnGood DEF NewPoints
  <2>11. Unlocks(p)
    <3>1. \A i \in Inodes : Holds(p, i)' <=> i = d \/ i = j
      BY <2>5 DEF Holds, NeedsDp, NeedsIp, Entering
    <3> QED
      BY <1>5, <1>8, <2>3, <3>1, Constants DEF Unlocks
  <2>12. FoundAt(p)' /\ ~MakesDir(p)'
    BY <2>5 DEF FoundAt, Entering, MakesDir
  <2>13. LiveAt(p)'
    BY <1>3, <1>4, <1>5, <1>6, <1>23, <2>5, <2>6 DEF LiveAt, Used, NeedsDp, Entering, Good
  <2>14. \A i \in Inodes :
           Credit(p, i)' = Credit(p, i) + Is(j, i) + (IF i = d /\ DirHere(j) THEN 1 ELSE 0)
                             - Is(y, i) - (IF i = d /\ DirHere(y) THEN 1 ELSE 0)
    <3>1. OwedIp'[p] = j /\ OwedDp'[p] = d
      BY <2>5, OwedFields
    <3>2. DirHere(j)
      BY <1>5, <1>23, Constants DEF DirHere
    <3> QED
      BY <1>17, <1>18, <3>1, <3>2 DEF Credit, Is
  <2>15. Calm(p)
    BY <2>5
  <2> QED
    BY <1>16, <1>20, <1>21, <1>22, <2>4, <2>7, <2>9, <2>10, <2>11, <2>12, <2>13, <2>14, <2>15,
       EntryKeeps
<1>24. CASE dinode[j].type # "dir"
  <2>1. /\ busy' = [busy EXCEPT ![j] = p, ![d] = NoProc] /\ pc' = [pc EXCEPT ![p] = "unname"]
        /\ dp' = [dp EXCEPT ![p] = NoInode] /\ puts' = [puts EXCEPT ![p] = <<d>>]
    BY <1>1, <1>6, <1>24 DEF UnlinkErase, IsDir, Goto, Set
  <2>2. Becomes(p, "unname", call[p], <<>>, NoInode, ip[p], <<d>>)
    <3>1. "unname" \in Places /\ <<d>> \in Seq(Inodes) /\ Len(<<d>>) = 1
      BY <1>5 DEF Places, Unlinks
    <3> QED
      BY <1>2, <1>3, <1>4, <2>1, <3>1, LocalFields DEF Becomes
  <2>3. /\ \A i \in Inodes : busy'[i] = IF i = j THEN p ELSE IF i = d THEN NoProc ELSE busy[i]
        /\ busy' \in [Inodes -> Procs \cup {NoProc}]
    BY <1>5, <1>8, <2>1
  <2>4. Values'
    BY <1>4, <1>10, <1>11, <1>12, <1>13, <2>2, <2>3, ValuesKept
  <2>5. /\ pc'[p] = "unname" /\ puts'[p] = <<d>> /\ dp'[p] = NoInode /\ path'[p] = <<>> /\ Calm(p)
        /\ stage'[p] = "no" /\ ip'[p] = j /\ call'[p] = call[p]
    BY <1>1, <1>2, <1>3, <1>4, <2>1, <2>2 DEF Calm, Rest, Becomes
  <2>6. Front(p)' = d /\ Back(p)' = NoInode
    BY <2>5, PutsAre
  <2>7. Shape(p)'
    BY <1>2, <1>4, <1>5, <1>8, <2>5, Constants
       DEF Shape, NeedsDp, Entering, Creates, Unlinks, Creating, NoCall
  <2>8. \A i \in Inodes : Own(p, i)' = Own(p, i)
    <3> SUFFICES ASSUME NEW i \in Inodes PROVE Own(p, i)' = Own(p, i)
      OBVIOUS
    <3>1. Own(p, i)' = Is(cwd[p], i) + Is(file[p], i) + Is(NoInode, i) + Is(j, i) + Is(d, i)
      BY <1>3, <2>5, OwnAfter
    <3> QED
      BY <1>17, <1>19, <3>1 DEF Is
  <2>9. Counts(p)
    BY <1>3, <1>14, <2>8 DEF Counts
  <2>10. NewPoints(p)
    BY <1>2, <1>4, <2>8, PointsOwn, OwnGood DEF NewPoints
  <2>11. Unlocks(p)
    <3>1. \A i \in Inodes : Holds(p, i)' <=> i = j
      BY <2>5 DEF Holds, NeedsDp, NeedsIp, Entering
    <3> QED
      BY <1>5, <1>8, <2>3, <3>1, Constants DEF Unlocks
  <2>12. FoundAt(p)' /\ ~MakesDir(p)'
    BY <2>5 DEF FoundAt, Entering, MakesDir
  <2>13. LiveAt(p)'
    BY <1>3, <1>4, <1>5, <1>6, <1>24, <2>5, <2>6 DEF LiveAt, Used, NeedsDp, Entering, Good
  <2>14. \A i \in Inodes :
           Credit(p, i)' = Credit(p, i) + Is(j, i) + (IF i = d /\ DirHere(j) THEN 1 ELSE 0)
                             - Is(y, i) - (IF i = d /\ DirHere(y) THEN 1 ELSE 0)
    <3>1. OwedIp'[p] = j /\ OwedDp'[p] = NoInode
      BY <1>5, <2>5, OwedFields
    <3>2. ~DirHere(j)
      BY <1>24 DEF DirHere
    <3> QED
      BY <1>17, <1>18, <3>1, <3>2 DEF Credit, Is
  <2>15. Calm(p)
    BY <2>5
  <2> QED
    BY <1>16, <1>20, <1>21, <1>22, <2>4, <2>7, <2>9, <2>10, <2>11, <2>12, <2>13, <2>14, <2>15,
       EntryKeeps
<1> QED
  BY <1>23, <1>24
-----------------------------------------------------------------------------
(* The other steps: an assertion that fails, a crash, and no step at all. *)
LEMMA SameKeeps ==
  ASSUME FilesInv, UNCHANGED <<disk, icache, places, pc, locals, putting, boots, calls, lost>>,
         panicked' \in {"no", "iput", "ilock", "unlink", "ialloc"}
  PROVE  FilesInv'
<1>1. /\ dinode' = dinode /\ dents' = dents /\ ref' = ref /\ busy' = busy /\ valid' = valid
      /\ inode' = inode /\ cwd' = cwd /\ file' = file /\ pc' = pc /\ call' = call /\ path' = path
      /\ dp' = dp /\ ip' = ip /\ puts' = puts /\ stage' = stage /\ boots' = boots
      /\ calls' = calls /\ lost' = lost
  BY DEF disk, icache, places, locals, putting
<1>2. Values'
  BY <1>1 DEF FilesInv, Values, TypeOK
<1>3. Shapes'
  BY <1>1 DEF FilesInv, Shapes, Shape, Creating
<1>4. Counted'
  BY <1>1 DEF FilesInv, Counted, Count, Put
<1>5. /\ \A q \in Procs : Front(q)' = Front(q) /\ Back(q)' = Back(q)
      /\ \A q \in Procs, i \in Inodes : Others(q, i)' <=> Others(q, i)
      /\ \A i \in Inodes : (IsFresh(i)' <=> IsFresh(i)) /\ (IsEmpty(i)' <=> IsEmpty(i))
  <2>1. \A q \in Procs : Front(q)' = Front(q) /\ Back(q)' = Back(q)
    BY <1>1, PutsAre
  <2>2. \A q \in Procs, i \in Inodes : Others(q, i)' <=> Others(q, i)
    BY <1>1, <2>1 DEF Others
  <2>3. \A i \in Inodes : IsFresh(i)' <=> IsFresh(i)
    BY <1>1 DEF IsFresh
  <2>4. \A i \in Inodes : IsEmpty(i)' <=> IsEmpty(i)
    BY <1>1 DEF IsEmpty
  <2> QED
    BY <2>1, <2>2, <2>3, <2>4
<1>6. Locked'
  BY <1>1, <1>5 DEF FilesInv, Locked, Holds
<1>7. Dying'
  <2> SUFFICES ASSUME NEW q \in Procs, stage[q] # "no", NEW i, i = Front(q)
               PROVE  /\ valid[i] /\ dinode[i].nlink = 0
                      /\ stage[q] \in {"trunc", "free"} => dinode[i].type # "free"
                      /\ stage[q] \in {"free", "drop"} => IsEmpty(i)'
                      /\ stage[q] = "drop" => inode[i] = Empty /\ (Used(i) => IsFresh(i)')
                      /\ \A r \in Procs : /\ ~Others(r, i)'
                                          /\ ip[r] = i => stage[q] = "drop" /\ pc[r] = "fresh"
                                          /\ Front(r)' = i => r = q
    BY <1>1, <1>5 DEF Dying, Used
  <2>1. i \in Inodes
    BY StageFacts
  <2> QED
    BY <1>5, <2>1 DEF FilesInv, Dying
<1>8. Fresh'
  <2> SUFFICES ASSUME NEW q \in Procs, pc[q] = "fresh", NEW i, i = ip[q]
               PROVE  /\ dinode[i].nlink = 0
                      /\ \A r \in Procs : /\ ~Others(r, i)'
                                          /\ ip[r] = i => r = q
                                          /\ Front(r)' = i => stage[r] = "drop"
    BY <1>1 DEF Fresh
  <2>1. i \in Inodes
    BY DEF FilesInv, Shapes, Shape, Creates
  <2> QED
    BY <1>5, <2>1 DEF FilesInv, Fresh
<1>9. Copies'
  <2>1. \A i \in Inodes : Gone(i)' <=> Gone(i)
    BY <1>1, <1>5 DEF Gone
  <2> QED
    BY <1>1, <2>1 DEF FilesInv, Copies
<1>10. Live'
  <2>1. \A q \in Procs : LiveAt(q)
    BY DEF FilesInv, Live
  <2>2. \A q \in Procs : LiveAt(q)'
    BY <1>1, <1>5, <2>1 DEF LiveAt, Used
  <2> QED
    BY <1>1, <2>2 DEF FilesInv, Live, Used
<1>11. OnlyDirs'
  BY <1>1, <1>5 DEF FilesInv, OnlyDirs
<1>12. /\ \A i : NamesOf(i)' = NamesOf(i)
       /\ \A i \in Inodes : Links(i)' = Links(i) /\ (IsEmpty(i)' <=> IsEmpty(i))
  BY <1>1, LinksSame DEF FilesInv
<1>13. \A i \in Inodes : Owed(i)' = Owed(i)
  <2>1. OwedIp' = OwedIp /\ OwedDp' = OwedDp
    BY <1>1 DEF OwedIp, OwedDp
  <2> QED
    BY <2>1 DEF Owed, Count
<1>14. Enough'
  BY <1>1, <1>12, <1>13 DEF FilesInv, Enough
<1>15. Exact'
  BY <1>1, <1>12, <1>13 DEF FilesInv, Exact, Clean
<1>16. Found'
  BY <1>1 DEF FilesInv, Found, FoundAt, Lookup
<1>17. Kept'
  BY <1>1, <1>5 DEF FilesInv, Kept, Used
<1>18. Bare'
  BY <1>1, <1>12 DEF FilesInv, Bare, Clean
<1>19. Named'
  BY <1>1 DEF FilesInv, Named, Clean, MakesDir, NamesOf
<1> QED
  BY <1>2, <1>3, <1>4, <1>6, <1>7, <1>8, <1>9, <1>10, <1>11, <1>14, <1>15, <1>16, <1>17, <1>18,
     <1>19 DEF FilesInv

(* A process that is not held up finds an allocated inode, and unlink() a  *)
(* counted name: only ialloc() panics, when no inode is free.              *)
LEMMA PanicKeeps ==
  ASSUME FilesInv, NEW p \in Procs, Panic(p)
  PROVE  FilesInv' /\ panicked' = "ialloc"
<1>1. /\ puts[p] = <<>> /\ Locks(p) # NoInode /\ busy[Locks(p)] = NoProc
      /\ Assertion(p) # "no" /\ panicked' = Assertion(p)
  BY DEF Panic, Ready
<1>2. Values /\ Shape(p) /\ FoundAt(p)
  BY DEF FilesInv, Shapes, Found
<1>3. Inode(Locks(p)).type # "free"
  <2>1. CASE pc[p] = "fresh"
    <3>1. Locks(p) = ip[p]
      BY <2>1 DEF Locks
    <3>2. Used(ip[p]) /\ Inode(ip[p]) = dinode[ip[p]]
      BY <1>1, <2>1, <3>1, FreshFacts
    <3> QED
      BY <3>1, <3>2 DEF Used
  <2>2. CASE pc[p] # "fresh"
    <3>1. /\ dp[p] \in Inodes => Good(dp[p]) /\ Inode(dp[p]) = dinode[dp[p]]
          /\ ip[p] \in Inodes => Good(ip[p]) /\ Inode(ip[p]) = dinode[ip[p]]
      BY <1>1, <2>2, ReadyShape
    <3>2. Locks(p) = dp[p] \/ Locks(p) = ip[p]
      BY <1>1 DEF Locks
    <3>3. dp[p] \in Inodes \cup {NoInode} /\ ip[p] \in Inodes \cup {NoInode}
      BY <1>2, Types
    <3> QED
      BY <1>1, <3>1, <3>2, <3>3 DEF Good, Used
  <2> QED
    BY <2>1, <2>2
<1>4. pc[p] = "victim" => ~(Inode(ip[p]).nlink < 1)
  <2> SUFFICES ASSUME pc[p] = "victim" PROVE ~(Inode(ip[p]).nlink < 1)
    OBVIOUS
  <2>1. /\ dp[p] \in Inodes /\ ip[p] \in Inodes /\ Len(path[p]) = 1 /\ Lookup(p) = ip[p]
        /\ path[p] \in Seq(Names)
    BY <1>2, Types DEF Shape, FoundAt, NeedsDp, Unlinks
  <2>2. Head(path[p]) \in Names
    BY <2>1, OneName
  <2>3. dinode[ip[p]].nlink >= 1 /\ dinode[ip[p]].nlink \in Nat
    BY <1>2, <2>1, <2>2, NameGood, Types DEF Lookup
  <2>4. Inode(ip[p]) = dinode[ip[p]]
    BY <1>1, <2>1, ReadyShape
  <2> QED
    BY <2>3, <2>4
<1>5. Assertion(p) = "ialloc"
  BY <1>1, <1>3, <1>4 DEF Assertion
<1>6. UNCHANGED <<disk, icache, places, pc, locals, putting, boots, calls, lost>>
  BY DEF Panic
<1>7. panicked' \in {"no", "iput", "ilock", "unlink", "ialloc"} /\ panicked' = "ialloc"
  BY <1>1, <1>5
<1> QED
  BY <1>6, <1>7, SameKeeps

(* The inode cache and the processes of a machine that has just started,   *)
(* with a disk on which what has no type counts no links.                  *)
Booted ==
  /\ ref = Ref0 /\ busy = Every(NoProc) /\ valid = Every(FALSE) /\ inode = Every(Empty)
  /\ cwd = All(Root) /\ file = All(NoInode)
  /\ pc = All("user") /\ call = All(NoCall) /\ path = All(<<>>)
  /\ dp = All(NoInode) /\ ip = All(NoInode) /\ puts = All(<<>>) /\ stage = All("no")
  /\ panicked = "no" /\ calls \in Workloads /\ boots \in Nat /\ lost \in BOOLEAN
  /\ dinode \in [Inodes -> [type : {"free", "file", "dir", "dev"}, nlink : Nat]]
  /\ dents \in [Inodes -> [Entries -> Inodes \cup {NoInode}]]
  /\ dinode[Root].type = "dir" /\ \A i \in Inodes : ~Used(i) => dinode[i].nlink = 0
Idle ==
  /\ Values /\ Shapes /\ Counted /\ Locked /\ Dying /\ Fresh /\ Copies /\ Live /\ Found
  /\ \A i \in Inodes : Owed(i) = 0
  /\ \A q \in Procs : ~MakesDir(q)

LEMMA Boots == Booted => Idle
<1> SUFFICES ASSUME Booted PROVE Idle
  OBVIOUS
<1>1. \A q \in Procs :
        /\ cwd[q] = Root /\ file[q] = NoInode /\ pc[q] = "user" /\ call[q] = NoCall
        /\ path[q] = <<>> /\ dp[q] = NoInode /\ ip[q] = NoInode /\ puts[q] = <<>> /\ stage[q] = "no"
  BY DEF Booted, All
<1>2. \A i \in Inodes : busy[i] = NoProc /\ valid[i] = FALSE /\ inode[i] = Empty
  BY DEF Booted, Every
<1>3. \A q \in Procs : Front(q) = NoInode /\ Back(q) = NoInode
  BY <1>1 DEF Front, Back, Put
<1>4. IsFiniteSet(Procs) /\ Cardinality(Procs) \in Nat
  BY FilesAssumption, FS_CardinalityType
<1>5. ref \in [Inodes -> Nat] /\ \A i \in Inodes : ref[i] = IF i = Root THEN Cardinality(Procs) ELSE 0
  BY <1>4, Constants DEF Booted, Ref0, Every
<1>6. Empty \in [type : {"free", "file", "dir", "dev"}, nlink : Nat]
  BY DEF Empty
<1>7. <<>> \in Seq(Names) /\ <<>> \in Seq(Entries) /\ <<>> \in Seq(Inodes) /\ Len(<<>>) = 0
  OBVIOUS
<1>8. Values
  <2>1. TypeOK
    BY <1>1, <1>2, <1>5, <1>6, <1>7, Constants DEF Booted, TypeOK, All, Every
  <2>2. /\ pc \in [Procs -> Places] /\ stage \in [Procs -> {"no", "trunc", "free", "drop"}]
        /\ calls \in Workloads /\ boots \in Nat
        /\ call \in [Procs -> {NoCall, LinkTo} \cup calls]
    BY DEF Booted, All, Places
  <2>3. /\ path \in [Procs -> Seq(Names)]
        /\ dp \in [Procs -> Inodes \cup {NoInode}] /\ ip \in [Procs -> Inodes \cup {NoInode}]
        /\ puts \in [Procs -> Seq(Inodes)]
    BY <1>7 DEF Booted, All
  <2>4. \A q \in Procs : Len(puts[q]) <= 2
    BY <1>1, <1>7
  <2> QED
    BY <2>1, <2>2, <2>3, <2>4 DEF Values
<1>9. Shapes
  BY <1>1, Constants DEF Shapes, Shape, NeedsDp, Entering, Creates, Unlinks, NoCall
<1>10. Counted
  <2> SUFFICES ASSUME NEW i \in Inodes
               PROVE  ref[i] = Count(cwd, i) + Count(file, i) + Count(dp, i) + Count(ip, i)
                                 + Count(Put(1), i) + Count(Put(2), i)
    BY DEF Counted
  <2>1. Count(cwd, i) = IF i = Root THEN Cardinality(Procs) ELSE 0
    <3>1. {p \in Procs : cwd[p] = i} = IF i = Root THEN Procs ELSE {}
      BY <1>1
    <3> QED
      BY <3>1, FS_EmptySet DEF Count
  <2>2. \A f : (\A p \in Procs : f[p] = NoInode) => Count(f, i) = 0
    <3> SUFFICES ASSUME NEW f, \A p \in Procs : f[p] = NoInode PROVE Count(f, i) = 0
      OBVIOUS
    <3>1. {p \in Procs : f[p] = i} = {}
      BY Constants
    <3> QED
      BY <3>1, FS_EmptySet DEF Count
  <2>3. Count(file, i) = 0 /\ Count(dp, i) = 0 /\ Count(ip, i) = 0
    BY <1>1, <2>2
  <2>4. Count(Put(1), i) = 0 /\ Count(Put(2), i) = 0
    BY <1>3, <2>2 DEF Front, Back
  <2> QED
    BY <1>4, <1>5, <2>1, <2>3, <2>4
<1>11. Locked
  BY <1>1, <1>2, Constants DEF Locked, Holds, NeedsDp, NeedsIp, Entering
<1>12. Dying /\ Fresh /\ Copies /\ Found
  BY <1>1, <1>2 DEF Dying, Fresh, Copies, Found, FoundAt, Entering
<1>13. Live
  <2>1. Used(Root)
    BY DEF Booted, Used
  <2>2. \A q \in Procs : LiveAt(q)
    BY <1>1, <1>3, <2>1 DEF LiveAt, NeedsDp, Entering, NoCall
  <2> QED
    BY <2>2 DEF Booted, Live
<1>14. \A q \in Procs : OwedIp[q] = NoInode /\ OwedDp[q] = NoInode /\ ~MakesDir(q)
  BY <1>1, OwedFields DEF NoCall, MakesDir
<1>15. ASSUME NEW i \in Inodes PROVE Owed(i) = 0
  <2>1. Count(OwedIp, i) \in Nat /\ Count(OwedDp, i) \in Nat
    BY CountPositive
  <2>2. ~(Count(OwedIp, i) > 0) /\ ~(Count(OwedDp, i) > 0)
    BY <1>14, CountPositive, Constants
  <2> QED
    BY <2>1, <2>2 DEF Owed
<1> QED
  BY <1>8, <1>9, <1>10, <1>11, <1>12, <1>13, <1>14, <1>15 DEF Idle

LEMMA CrashKeeps ==
  ASSUME FilesInv, Crash
  PROVE  FilesInv' /\ panicked' = "no"
<1>1. dinode' = dinode /\ dents' = dents /\ boots' = boots + 1 /\ boots \in Nat /\ panicked' = "no"
  BY DEF Crash, disk, FilesInv, Values
<1>2. Values /\ Live
  BY DEF FilesInv
<1>3. Booted'
  <2>1. calls' \in Workloads /\ boots' \in Nat /\ lost' \in BOOLEAN
    BY <1>1, <1>2, SharedFields DEF Crash
  <2>2. /\ dinode' \in [Inodes -> [type : {"free", "file", "dir", "dev"}, nlink : Nat]]
        /\ dents' \in [Inodes -> [Entries -> Inodes \cup {NoInode}]]
    BY <1>1, <1>2, SharedFields
  <2>3. dinode'[Root].type = "dir" /\ \A i \in Inodes : ~Used(i)' => dinode'[i].nlink = 0
    BY <1>1, <1>2 DEF Live, Used
  <2> QED
    BY <2>1, <2>2, <2>3 DEF Crash, Booted, Ref0, Every, All
<1>4. Idle'
  BY <1>3, Boots, PTL
<1>5. ~Clean' /\ boots' # 0
  BY <1>1 DEF Clean
<1>6. /\ \A i : NamesOf(i)' = NamesOf(i)
      /\ \A i \in Inodes : Links(i)' = Links(i) /\ (IsEmpty(i)' <=> IsEmpty(i))
  BY <1>1, <1>2, LinksSame
<1>7. Enough'
  <2> SUFFICES ASSUME NEW i \in Inodes PROVE dinode'[i].nlink >= Links(i)' + Owed(i)'
    BY DEF Enough
  <2>1. dinode[i].nlink >= Links(i) + Owed(i) /\ dinode[i].nlink \in Nat
    BY <1>2, Types DEF FilesInv, Enough
  <2>2. Links(i) \in Nat /\ Owed(i) \in Nat
    BY LinksFinite
  <2>3. Owed(i)' = 0
    BY <1>4 DEF Idle
  <2> QED
    BY <1>1, <1>6, <2>1, <2>2, <2>3
<1>8. Exact' /\ Kept' /\ Bare' /\ Named'
  BY <1>5 DEF Exact, Kept, Bare, Named
<1>9. OnlyDirs'
  BY <1>1, <1>6 DEF FilesInv, OnlyDirs
<1> QED
  BY <1>1, <1>4, <1>7, <1>8, <1>9 DEF Idle, FilesInv

LEMMA InitHolds ==
  ASSUME Init
  PROVE  FilesInv /\ panicked = "no"
<1>1. /\ \A i \in Inodes : dinode[i] = IF i = Root THEN [type |-> "dir", nlink |-> 1] ELSE Empty
      /\ dinode \in [Inodes -> [type : {"free", "file", "dir", "dev"}, nlink : Nat]]
  <2>1. /\ Empty \in [type : {"free", "file", "dir", "dev"}, nlink : Nat]
        /\ [type |-> "dir", nlink |-> 1] \in [type : {"free", "file", "dir", "dev"}, nlink : Nat]
    BY DEF Empty
  <2>2. dinode = [Every(Empty) EXCEPT ![Root] = [type |-> "dir", nlink |-> 1]]
    BY DEF Init
  <2>3. Every(Empty) \in [Inodes -> [type : {"free", "file", "dir", "dev"}, nlink : Nat]]
    BY <2>1 DEF Every
  <2> QED
    BY <2>1, <2>2, <2>3, Constants DEF Every
<1>2. /\ dents \in [Inodes -> [Entries -> Inodes \cup {NoInode}]]
      /\ \A i \in Inodes, n \in Names : dents[i][n] = NoInode
  <2>1. dents = [Every(None) EXCEPT ![Root][".."] = Root] /\ ".." \in Entries
    BY DEF Init, Entries
  <2>2. Every(None) \in [Inodes -> [Entries -> Inodes \cup {NoInode}]]
    BY DEF Every, None
  <2>3. \A i \in Inodes, n \in Names : Every(None)[i][n] = NoInode
    BY Constants DEF Every, None
  <2> QED
    BY <2>1, <2>2, <2>3, Constants
<1>3. Booted
  <2>1. dinode[Root].type = "dir"
    BY <1>1, Constants
  <2>2. \A i \in Inodes : ~Used(i) => dinode[i].nlink = 0
    BY <1>1 DEF Used, Empty
  <2> QED
    BY <1>1, <1>2, <2>1, <2>2 DEF Init, Booted
<1>4. Idle
  BY <1>3, Boots
<1>5. \A i \in Inodes : IsEmpty(i) /\ NamesOf(i) = {} /\ Subdirs(i) = {}
  BY <1>2, Constants DEF IsEmpty, NamesOf, Subdirs
<1>6. \A i \in Inodes : dinode[i].nlink = Links(i) + Owed(i)
  <2> SUFFICES ASSUME NEW i \in Inodes PROVE dinode[i].nlink = Links(i) + Owed(i)
    OBVIOUS
  <2>1. Owed(i) = 0
    BY <1>4 DEF Idle
  <2>2. Links(i) = IF i = Root THEN 1 ELSE 0
    BY <1>5, FS_EmptySet DEF Links
  <2>3. dinode[i].nlink = IF i = Root THEN 1 ELSE 0
    BY <1>1 DEF Empty
  <2> QED
    BY <2>1, <2>2, <2>3
<1>7. Enough /\ Exact
  <2>1. \A i \in Inodes : dinode[i].nlink \in Nat
    BY <1>4, Types DEF Idle
  <2> QED
    BY <1>6, <2>1 DEF Enough, Exact
<1>8. OnlyDirs /\ Bare
  BY <1>5 DEF OnlyDirs, Bare
<1>9. Kept
  BY <1>1 DEF Kept, Used, Empty
<1>10. Named
  BY <1>4 DEF Idle, Named
<1> QED
  BY <1>4, <1>7, <1>8, <1>9, <1>10 DEF Idle, FilesInv, Init

(* Every step keeps the invariant, and only ialloc() panics. *)
OnlyIalloc == panicked \in {"no", "ialloc"}
LEMMA ProcKeeps ==
  ASSUME NoDots, FilesInv, OnlyIalloc, NEW p \in Procs,
         \/ \E c \in calls : Call(p, c)
         \/ Iput(p) \/ IputLast(p) \/ Itrunc(p) \/ Ifree(p) \/ Idrop(p)
         \/ Walk(p) \/ NoParent(p) \/ Open(p) \/ Close(p) \/ Chdir(p)
         \/ CreateFound(p) \/ CreateExisting(p) \/ Ialloc(p) \/ Ifresh(p)
         \/ MkdirParent(p) \/ MkdirDots(p) \/ Enter(p) \/ Made(p)
         \/ UnlinkNone(p) \/ UnlinkFound(p) \/ UnlinkFull(p) \/ UnlinkErase(p)
         \/ UnlinkParent(p) \/ UnlinkName(p)
         \/ LinkDir(p) \/ LinkOld(p) \/ LinkFound(p) \/ LinkFail(p) \/ LinkNew(p)
         \/ Panic(p)
  PROVE  FilesInv' /\ OnlyIalloc'
<1>1. CASE \E c \in calls : Call(p, c)
  BY <1>1, CallKeeps DEF Call, OnlyIalloc, ghost
<1>2. CASE Iput(p) \/ Itrunc(p) \/ Ifree(p) \/ Idrop(p)
  <2>1. FilesInv'
    BY <1>2, IputKeeps, ItruncKeeps, IfreeKeeps, IdropKeeps
  <2>2. panicked' = panicked
    BY <1>2 DEF Iput, Itrunc, Ifree, Idrop, ghost
  <2> QED
    BY <2>1, <2>2 DEF OnlyIalloc
<1>3. CASE IputLast(p)
  BY <1>3, IputLastKeeps DEF OnlyIalloc
<1>4. CASE Walk(p) \/ NoParent(p) \/ Open(p) \/ Close(p) \/ Chdir(p)
  <2>1. FilesInv'
    BY <1>4, WalkKeeps, NoParentKeeps, OpenKeeps, CloseKeeps, ChdirKeeps
  <2>2. panicked' = panicked
    BY <1>4 DEF Walk, NoParent, Open, Close, Chdir, ghost
  <2> QED
    BY <2>1, <2>2 DEF OnlyIalloc
<1>5. CASE CreateFound(p) \/ CreateExisting(p) \/ Ialloc(p) \/ Ifresh(p)
  <2>1. FilesInv'
    BY <1>5, CreateFoundKeeps, CreateExistingKeeps, IallocKeeps, IfreshKeeps
  <2>2. panicked' = panicked
    BY <1>5 DEF CreateFound, CreateExisting, Ialloc, Ifresh, ghost
  <2> QED
    BY <2>1, <2>2 DEF OnlyIalloc
<1>6. CASE MkdirParent(p) \/ MkdirDots(p) \/ Enter(p) \/ Made(p)
  <2>1. FilesInv'
    BY <1>6, MkdirParentKeeps, MkdirDotsKeeps, EnterKeeps, MadeKeeps
  <2>2. panicked' = panicked
    BY <1>6 DEF MkdirParent, MkdirDots, Enter, Made, ghost
  <2> QED
    BY <2>1, <2>2 DEF OnlyIalloc
<1>7. CASE UnlinkNone(p) \/ UnlinkFound(p) \/ UnlinkFull(p) \/ UnlinkErase(p) \/ UnlinkParent(p)
           \/ UnlinkName(p)
  <2>1. FilesInv'
    BY <1>7, UnlinkNoneKeeps, UnlinkFoundKeeps, UnlinkFullKeeps, UnlinkEraseKeeps, UnlinkParentKeeps,
       UnlinkNameKeeps
  <2>2. panicked' = panicked
    BY <1>7 DEF UnlinkNone, UnlinkFound, UnlinkFull, UnlinkErase, UnlinkParent, UnlinkName, ghost
  <2> QED
    BY <2>1, <2>2 DEF OnlyIalloc
<1>8. CASE LinkDir(p) \/ LinkOld(p) \/ LinkFound(p) \/ LinkFail(p) \/ LinkNew(p)
  <2>1. FilesInv'
    BY <1>8, LinkDirKeeps, LinkOldKeeps, LinkFoundKeeps, LinkFailKeeps, LinkNewKeeps
  <2>2. panicked' = panicked
    BY <1>8 DEF LinkDir, LinkOld, LinkFound, LinkFail, LinkNew, ghost
  <2> QED
    BY <2>1, <2>2 DEF OnlyIalloc
<1>9. CASE Panic(p)
  BY <1>9, PanicKeeps DEF OnlyIalloc
<1> QED
  BY <1>1, <1>2, <1>3, <1>4, <1>5, <1>6, <1>7, <1>8, <1>9

(* The inductive invariant, for programs whose paths do not have "..".     *)
LEMMA FilesInvariant ==
  ASSUME NoDots
  PROVE  Spec => [](FilesInv /\ OnlyIalloc)
<1>1. Init => FilesInv /\ OnlyIalloc
  BY InitHolds DEF OnlyIalloc
<1>2. FilesInv /\ OnlyIalloc /\ [Next]_vars => (FilesInv /\ OnlyIalloc)'
  <2> SUFFICES ASSUME FilesInv, OnlyIalloc, [Next]_vars PROVE FilesInv' /\ OnlyIalloc'
    OBVIOUS
  <2>1. CASE Crash
    BY <2>1, CrashKeeps DEF OnlyIalloc
  <2>2. CASE Next /\ ~Crash
    BY <2>2, ProcKeeps DEF Next
  <2>3. CASE UNCHANGED vars
    <3>1. /\ UNCHANGED <<disk, icache, places, pc, locals, putting, boots, calls, lost>>
          /\ panicked' = panicked
      BY <2>3 DEF vars, disk, icache, places, locals, putting
    <3>2. panicked' \in {"no", "iput", "ilock", "unlink", "ialloc"}
      BY <3>1 DEF OnlyIalloc
    <3> QED
      BY <3>1, <3>2, SameKeeps DEF OnlyIalloc
  <2> QED
    BY <2>1, <2>2, <2>3
<1> QED
  BY <1>1, <1>2, PTL DEF Spec
-----------------------------------------------------------------------------
(* fs.c:118-121: at every moment ref is the number of pointers that the    *)
(* processes, their files and the calls under way have to the inode, and   *)
(* an unlocked valid copy is what the disk has.                            *)
THEOREM InodesCoherent == NoDots => (Spec => []CacheCoherent)
<1> SUFFICES ASSUME NoDots PROVE Spec => []CacheCoherent
  OBVIOUS
<1>1. FilesInv => CacheCoherent
  <2> SUFFICES ASSUME FilesInv PROVE Counted /\ CopyFresh
    BY DEF CacheCoherent
  <2>1. ASSUME NEW i \in Inodes, valid[i], busy[i] = NoProc PROVE inode[i] = dinode[i]
    <3>1. ~Gone(i)
      BY <2>1, Constants DEF FilesInv, Gone, Locked, Holds
    <3> QED
      BY <2>1, <3>1, Seen
  <2> QED
    BY <2>1 DEF FilesInv, CopyFresh
<1> QED
  BY <1>1, FilesInvariant, PTL

LEMMA NameEntry ==
  ASSUME NEW i \in Inodes, NamesOf(i) # {}
  PROVE  \E d \in Inodes, n \in Names : dents[d][n] = i
  BY DEF NamesOf

(* fs.c:351-352: at every moment, and so after a crash at any moment, what *)
(* a directory on the disk names is allocated and counts that many links.  *)
THEOREM NamesLeadToInodes == NoDots => (Spec => []NamesSound)
<1> SUFFICES ASSUME NoDots PROVE Spec => []NamesSound
  OBVIOUS
<1>1. FilesInv => NamesSound
  <2> SUFFICES ASSUME FilesInv, NEW i \in Inodes, NamesOf(i) # {}
               PROVE  dinode[i].type # "free" /\ dinode[i].nlink >= Links(i)
    BY DEF NamesSound
  <2>1. dinode[i].nlink >= Links(i) + Owed(i) /\ dinode[i].nlink \in Nat
    BY Types DEF FilesInv, Enough
  <2>2. Links(i) \in Nat /\ Owed(i) \in Nat
    BY LinksFinite
  <2>3. Used(i)
    BY NameEntry, NameGood DEF Good
  <2> QED
    BY <2>1, <2>2, <2>3 DEF Used
<1> QED
  BY <1>1, FilesInvariant, PTL

(* The assertions of ilock(), iput() and unlink() hold in every state.     *)
THEOREM AssertionsHold == NoDots => (Spec => []NeverPanics)
<1> SUFFICES ASSUME NoDots PROVE Spec => []NeverPanics
  OBVIOUS
<1>1. OnlyIalloc => NeverPanics
  BY DEF OnlyIalloc, NeverPanics
<1> QED
  BY <1>1, FilesInvariant, PTL

(* fs.h:40: while nothing has crashed and nobody has made a name in a      *)
(* removed directory, nlink is the number of names when no call is under   *)
(* way, and what has no name is open or somebody's directory.              *)
THEOREM LinksCounted == NoDots => (Spec => []LinksExact)
<1> SUFFICES ASSUME NoDots PROVE Spec => []LinksExact
  OBVIOUS
<1>1. FilesInv => LinksExact
  <2> SUFFICES ASSUME FilesInv, boots = 0, ~lost, \A p \in Procs : Ready(p, "user"),
                      NEW i \in Inodes, Used(i)
               PROVE  dinode[i].nlink = Links(i) /\ (dinode[i].nlink > 0 \/ ref[i] > 0)
    BY DEF LinksExact, Used
  <2>1. Values /\ dinode[i].nlink \in Nat /\ Links(i) \in Nat
    BY Types, LinksFinite DEF FilesInv
  <2>2. \A q \in Procs : OwedIp[q] = NoInode /\ OwedDp[q] = NoInode
    <3> SUFFICES ASSUME NEW q \in Procs PROVE OwedIp[q] = NoInode /\ OwedDp[q] = NoInode
      OBVIOUS
    <3>1. pc[q] = "user" /\ call[q] = NoCall
      BY DEF Ready, FilesInv, Shapes, Shape
    <3> QED
      BY <3>1, OwedFields DEF NoCall
  <2>3. Owed(i) = 0
    <3>1. Count(OwedIp, i) \in Nat /\ Count(OwedDp, i) \in Nat
      BY CountPositive
    <3>2. ~(Count(OwedIp, i) > 0) /\ ~(Count(OwedDp, i) > 0)
      BY <2>2, CountPositive, Constants
    <3> QED
      BY <3>1, <3>2 DEF Owed
  <2>4. dinode[i].nlink = Links(i)
    BY <2>1, <2>3 DEF FilesInv, Exact, Clean
  <2>5. dinode[i].nlink = 0 => ref[i] > 0
    BY DEF FilesInv, Kept
  <2> QED
    BY <2>1, <2>4, <2>5
<1> QED
  BY <1>1, FilesInvariant, PTL
-----------------------------------------------------------------------------
(* The order of locks.  Without links to directories their names form a    *)
(* graph without a cycle: a new name leads to an inode that has no names.  *)
NoCycle == \A S \in SUBSET Inodes : S # {} => \E d \in S : \A n \in Names : dents[d][n] \notin S
NewEmpty == \A q \in Procs : pc[q] \in Entering => IsEmpty(ip[q])
Tree == NoCycle /\ NewEmpty

LEMMA TreeShrinks ==
  ASSUME Tree, \A d \in Inodes, n \in Names : dents'[d][n] = dents[d][n] \/ dents'[d][n] = NoInode,
         \A q \in Procs : pc'[q] \in Entering => \E j \in Inodes : ip'[q] = j /\ IsEmpty(j)
  PROVE  Tree'
<1>1. NoCycle'
  <2> SUFFICES ASSUME NEW S \in SUBSET Inodes, S # {}
               PROVE  \E d \in S : \A n \in Names : dents'[d][n] \notin S
    BY DEF NoCycle
  <2>1. PICK d \in S : \A n \in Names : dents[d][n] \notin S
    BY DEF Tree, NoCycle
  <2> QED
    BY <2>1, Constants
<1>2. NewEmpty'
  <2> SUFFICES ASSUME NEW q \in Procs, pc'[q] \in Entering, NEW n \in Names
               PROVE  dents'[ip'[q]][n] = NoInode
    BY DEF NewEmpty, IsEmpty, Entering
  <2>1. PICK j \in Inodes : ip'[q] = j /\ IsEmpty(j)
    OBVIOUS
  <2> QED
    BY <2>1 DEF IsEmpty
<1> QED
  BY <1>1, <1>2 DEF Tree

LEMMA TreeGrows ==
  ASSUME Tree, NEW d \in Inodes, NEW j \in Inodes, d # j, IsEmpty(j), NEW n \in Names,
         dents'[d][n] = j,
         \A e \in Inodes, m \in Names : <<e, m>> # <<d, n>> => dents'[e][m] = dents[e][m],
         \A q \in Procs : pc'[q] \in Entering =>
           \E k \in Inodes : ip'[q] = k /\ IsEmpty(k) /\ k # d
  PROVE  Tree'
<1>1. NoCycle'
  <2> SUFFICES ASSUME NEW S \in SUBSET Inodes, S # {}
               PROVE  \E e \in S : \A m \in Names : dents'[e][m] \notin S
    BY DEF NoCycle
  <2>1. CASE j \in S
    BY <2>1, Constants DEF IsEmpty
  <2>2. CASE j \notin S
    <3>1. PICK e \in S : \A m \in Names : dents[e][m] \notin S
      BY DEF Tree, NoCycle
    <3> QED
      BY <2>2, <3>1
  <2> QED
    BY <2>1, <2>2
<1>2. NewEmpty'
  <2> SUFFICES ASSUME NEW q \in Procs, pc'[q] \in Entering, NEW m \in Names
               PROVE  dents'[ip'[q]][m] = NoInode
    BY DEF NewEmpty, IsEmpty, Entering
  <2>1. PICK k \in Inodes : ip'[q] = k /\ IsEmpty(k) /\ k # d
    OBVIOUS
  <2> QED
    BY <2>1 DEF IsEmpty
<1> QED
  BY <1>1, <1>2 DEF Tree

LEMMA NewIs ==
  ASSUME FilesInv, Tree, NEW q \in Procs, pc[q] \in Entering
  PROVE  ip[q] \in Inodes /\ IsEmpty(ip[q])
  BY DEF Tree, NewEmpty, FilesInv, Shapes, Shape, Creates, Entering

(* Steps after which a process that is making an inode was making it. *)
SameMakers == \A q \in Procs : pc'[q] \in Entering => pc[q] \in Entering /\ ip'[q] = ip[q]
LEMMA NamesStay ==
  ASSUME FilesInv, Tree, SameMakers,
         \A d \in Inodes, n \in Names : dents'[d][n] = dents[d][n] \/ dents'[d][n] = NoInode
  PROVE  Tree'
<1>1. \A q \in Procs : pc'[q] \in Entering => \E j \in Inodes : ip'[q] = j /\ IsEmpty(j)
  BY NewIs DEF SameMakers
<1> QED
  BY <1>1, TreeShrinks

LEMMA PuttingTree ==
  ASSUME FilesInv, Tree, NEW p \in Procs,
         Iput(p) \/ IputLast(p) \/ Itrunc(p) \/ Ifree(p) \/ Idrop(p) \/ Panic(p)
  PROVE  Tree'
<1>1. pc' = pc /\ ip' = ip
  BY DEF Iput, IputLast, Itrunc, Ifree, Idrop, Panic, locals
<1>2. SameMakers
  BY <1>1 DEF SameMakers
<1>3. \A d \in Inodes, n \in Names : dents'[d][n] = dents[d][n] \/ dents'[d][n] = NoInode
  <2>1. CASE Itrunc(p)
    <3>1. PICK k : k = Head(puts[p])
      OBVIOUS
    <3>2. dents' = [dents EXCEPT ![k] = None] /\ dents \in [Inodes -> [Entries -> Inodes \cup {NoInode}]]
      BY <2>1, <3>1, SharedFields DEF Itrunc, FilesInv
    <3> QED
      BY <3>2, Constants DEF None
  <2>2. CASE ~Itrunc(p)
    <3>1. dents' = dents
      BY <2>2 DEF Iput, IputLast, Ifree, Idrop, Panic, disk
    <3> QED
      BY <3>1
  <2> QED
    BY <2>1, <2>2
<1> QED
  BY <1>2, <1>3, NamesStay

LEMMA LookingTree ==
  ASSUME FilesInv, Tree, NEW p \in Procs,
         \/ \E c \in calls : Call(p, c)
         \/ Walk(p) \/ NoParent(p) \/ Open(p) \/ Close(p) \/ Chdir(p)
         \/ CreateFound(p) \/ CreateExisting(p) \/ Made(p)
         \/ UnlinkNone(p) \/ UnlinkFound(p) \/ UnlinkFull(p) \/ UnlinkParent(p) \/ UnlinkName(p)
         \/ LinkDir(p) \/ LinkOld(p) \/ LinkFound(p) \/ LinkFail(p)
  PROVE  Tree'
<1>1. dents' = dents
  BY DEF Call, Walk, NoParent, Open, Close, Chdir, CreateFound, CreateExisting, Made, UnlinkNone,
         UnlinkFound, UnlinkFull, UnlinkParent, UnlinkName, LinkDir, LinkOld, LinkFound, LinkFail, disk
<1>2. \A c, s : Next_place(c, s) \notin Entering
  BY DEF Next_place, Entering
<1>3. pc \in [Procs -> Places] /\ ip \in [Procs -> Inodes \cup {NoInode}]
  BY LocalFields DEF FilesInv
<1>4. SameMakers
  <2>1. ASSUME NEW at, at \notin Entering, pc' = [pc EXCEPT ![p] = at],
               \A q \in Procs : q # p => ip'[q] = ip[q]
        PROVE  SameMakers
    BY <1>3, <2>1 DEF SameMakers
  <2>2. ASSUME NEW u, Return(p, u) PROVE SameMakers
    <3>1. pc' = [pc EXCEPT ![p] = "user"] /\ \A q \in Procs : q # p => ip'[q] = ip[q]
      BY <1>3, <2>2 DEF Return, Goto, Set
    <3> QED
      BY <2>1, <3>1 DEF Entering
  <2>3. ASSUME NEW u, Failed(p, u) PROVE SameMakers
    <3>1. CASE call[p].op = "linkto"
      <4>1. pc' = [pc EXCEPT ![p] = "bad"] /\ \A q \in Procs : q # p => ip'[q] = ip[q]
        BY <2>3, <3>1 DEF Failed, Goto
      <4> QED
        BY <2>1, <4>1 DEF Entering
    <3>2. CASE call[p].op # "linkto"
      BY <2>2, <2>3, <3>2 DEF Failed
    <3> QED
      BY <3>1, <3>2
  <2>4. CASE \E c \in calls : Call(p, c)
    <3>1. PICK c \in calls : Call(p, c)
      BY <2>4
    <3>2. /\ pc' = [pc EXCEPT ![p] = Next_place(c, Relative(c.path))]
          /\ \A q \in Procs : q # p => ip'[q] = ip[q]
      BY <3>1 DEF Call, Begin, Goto
    <3>3. PICK at : at = Next_place(c, Relative(c.path))
      OBVIOUS
    <3> QED
      BY <1>2, <2>1, <3>2, <3>3
  <2>5. CASE LinkOld(p)
    <3>1. PICK at : at = Next_place([op |-> "linkto", path |-> <<>>], Relative(call[p].new))
      OBVIOUS
    <3>2. pc' = [pc EXCEPT ![p] = at] /\ \A q \in Procs : q # p => ip'[q] = ip[q]
      BY <1>3, <2>5, <3>1 DEF LinkOld, Begin, Goto, Set
    <3> QED
      BY <1>2, <2>1, <3>1, <3>2
  <2>6. CASE Walk(p)
    <3>1. CASE Goto(p, "dir") /\ ip' = ip
      BY <2>1, <3>1 DEF Goto, Entering
    <3>2. CASE Goto(p, Next_place(call[p], Tail(path[p]))) /\ ip' = ip
      <4>1. PICK at : at = Next_place(call[p], Tail(path[p]))
        OBVIOUS
      <4> QED
        BY <1>2, <2>1, <3>2, <4>1 DEF Goto
    <3>3. CASE Failed(p, <<dp[p]>>)
      <4>1. PICK u : u = <<dp[p]>>
        OBVIOUS
      <4> QED
        BY <2>3, <3>3, <4>1
    <3>4. \/ Goto(p, "dir") /\ ip' = ip
          \/ Goto(p, Next_place(call[p], Tail(path[p]))) /\ ip' = ip
          \/ Failed(p, <<dp[p]>>)
      BY <2>6 DEF Walk, locals
    <3> QED
      BY <3>1, <3>2, <3>3, <3>4
  <2>7. CASE NoParent(p) \/ LinkFail(p)
    <3>1. PICK u : u = <<dp[p]>>
      OBVIOUS
    <3>2. Failed(p, u)
      BY <2>7, <3>1 DEF NoParent, LinkFail
    <3> QED
      BY <2>3, <3>2
  <2>8. CASE CreateFound(p)
    <3>1. pc' = [pc EXCEPT ![p] = "existing"] /\ \A q \in Procs : q # p => ip'[q] = ip[q]
      BY <1>3, <2>8 DEF CreateFound, Goto, Set
    <3> QED
      BY <2>1, <3>1 DEF Entering
  <2>9. CASE UnlinkFound(p)
    <3>1. pc' = [pc EXCEPT ![p] = "victim"] /\ \A q \in Procs : q # p => ip'[q] = ip[q]
      BY <1>3, <2>9 DEF UnlinkFound, Goto, Set
    <3> QED
      BY <2>1, <3>1 DEF Entering
  <2>10. CASE UnlinkParent(p)
    <3>1. pc' = [pc EXCEPT ![p] = "unname"] /\ \A q \in Procs : q # p => ip'[q] = ip[q]
      BY <2>10 DEF UnlinkParent, Goto
    <3> QED
      BY <2>1, <3>1 DEF Entering
  <2>11. CASE LinkFound(p)
    <3>1. pc' = [pc EXCEPT ![p] = "linkfail"] /\ \A q \in Procs : q # p => ip'[q] = ip[q]
      BY <2>11 DEF LinkFound, Goto, locals
    <3> QED
      BY <2>1, <3>1 DEF Entering
  <2>12. CASE Open(p) \/ Close(p) \/ Chdir(p) \/ CreateExisting(p) \/ Made(p)
    <3>1. \E u : Return(p, u)
      BY <2>12 DEF Open, Close, Chdir, CreateExisting, Made, GetFile
    <3> QED
      BY <2>2, <3>1
  <2>13. CASE UnlinkNone(p) \/ UnlinkFull(p) \/ UnlinkName(p) \/ LinkDir(p)
    <3>1. \E u : Return(p, u)
      BY <2>13 DEF UnlinkNone, UnlinkFull, UnlinkName, LinkDir
    <3> QED
      BY <2>2, <3>1
  <2> QED
    BY <2>4, <2>5, <2>6, <2>7, <2>8, <2>9, <2>10, <2>11, <2>12, <2>13
<1> QED
  BY <1>1, <1>4, NamesStay

LEMMA MakingTree ==
  ASSUME FilesInv, Tree, NEW p \in Procs,
         Ialloc(p) \/ Ifresh(p) \/ MkdirParent(p) \/ MkdirDots(p) \/ UnlinkErase(p)
  PROVE  Tree'
<1>1. /\ pc \in [Procs -> Places] /\ ip \in [Procs -> Inodes \cup {NoInode}]
      /\ dents \in [Inodes -> [Entries -> Inodes \cup {NoInode}]] /\ Values
  BY LocalFields, SharedFields DEF FilesInv
<1>2. CASE Ialloc(p)
  <2>1. PICK j \in FreeInodes : ip' = Set(ip, p, j)
    BY <1>2 DEF Ialloc
  <2>2. /\ pc' = [pc EXCEPT ![p] = "fresh"] /\ ip' = [ip EXCEPT ![p] = j] /\ dents' = dents
    BY <1>2, <2>1 DEF Ialloc, Goto, Set
  <2>3. j \in Inodes /\ IsEmpty(j)
    BY <2>1, FreeFacts DEF FreeInodes, Used
  <2>4. \A q \in Procs : pc'[q] \in Entering => \E k \in Inodes : ip'[q] = k /\ IsEmpty(k)
    BY <1>1, <2>2, <2>3, NewIs
  <2> QED
    BY <2>2, <2>4, TreeShrinks
<1>3. CASE Ifresh(p) \/ MkdirParent(p)
  <2>1. pc[p] \in Entering /\ ip' = ip /\ dents' = dents
    BY <1>3 DEF Ifresh, MkdirParent, Ready, locals, Entering
  <2>2. \A q \in Procs : q # p => pc'[q] = pc[q]
    BY <1>1, <1>3 DEF Ifresh, MkdirParent, Goto
  <2>3. SameMakers
    BY <2>1, <2>2 DEF SameMakers
  <2> QED
    BY <2>1, <2>3, NamesStay
<1>4. CASE MkdirDots(p)
  <2>1. /\ pc[p] \in Entering /\ ip' = ip /\ dents' = [dents EXCEPT ![ip[p]][".."] = dp[p]]
        /\ \A q \in Procs : q # p => pc'[q] = pc[q]
    BY <1>1, <1>4 DEF MkdirDots, Ready, locals, Entering, Goto
  <2>2. \A d \in Inodes, n \in Names : dents'[d][n] = dents[d][n]
    BY <1>1, <2>1, Constants
  <2>3. SameMakers
    BY <2>1 DEF SameMakers
  <2> QED
    BY <2>2, <2>3, NamesStay
<1>5. CASE UnlinkErase(p)
  <2>1. PICK d, n : d = dp[p] /\ n = Head(path[p])
    OBVIOUS
  <2>2. ip' = ip /\ dents' = [dents EXCEPT ![d][n] = NoInode]
    BY <1>5, <2>1 DEF UnlinkErase
  <2>3. /\ \A q \in Procs : q # p => pc'[q] = pc[q]
        /\ pc'[p] \notin Entering
    BY <1>1, <1>5 DEF UnlinkErase, Goto, Entering
  <2>4. \A e \in Inodes, m \in Names : dents'[e][m] = dents[e][m] \/ dents'[e][m] = NoInode
    BY <1>1, <2>2, Constants
  <2>5. SameMakers
    BY <2>2, <2>3 DEF SameMakers
  <2> QED
    BY <2>4, <2>5, NamesStay
<1> QED
  BY <1>2, <1>3, <1>4, <1>5

LEMMA NamingTree ==
  ASSUME FilesInv, Tree, NEW p \in Procs, Enter(p) \/ LinkNew(p)
  PROVE  Tree'
<1>1. PICK d, j, n : d = dp[p] /\ j = ip[p] /\ n = Head(path[p])
  OBVIOUS
<1>2. /\ Values /\ Shape(p) /\ LiveAt(p) /\ pc \in [Procs -> Places] /\ ip \in [Procs -> Inodes \cup {NoInode}]
      /\ dents \in [Inodes -> [Entries -> Inodes \cup {NoInode}]]
  BY LocalFields, SharedFields DEF FilesInv, Shapes, Live
<1>3. dents' = [dents EXCEPT ![d][n] = j]
  BY <1>1 DEF Enter, LinkNew, Entered
<1>4. /\ d \in Inodes /\ j \in Inodes /\ d # j /\ path[p] \in Seq(Names) /\ Len(path[p]) = 1
      /\ IsEmpty(j)
      /\ \A q \in Procs : q # p => pc'[q] = pc[q] /\ ip'[q] = ip[q]
      /\ pc'[p] \notin Entering /\ (busy[d] = p \/ busy[d] = NoProc)
  <2>1. path[p] \in Seq(Names)
    BY <1>2, Types
  <2>2. CASE Enter(p)
    <3>1. pc[p] = "enter" /\ pc' = [pc EXCEPT ![p] = "made"] /\ ip' = ip
      BY <2>2 DEF Enter, Ready, Goto
    <3>2. d \in Inodes /\ j \in Inodes /\ d # j /\ Len(path[p]) = 1
      BY <1>1, <1>2, <3>1 DEF Shape, NeedsDp, Entering, Creates
    <3>3. IsEmpty(j)
      BY <1>1, <3>1, NewIs DEF Entering
    <3>4. busy[d] = p
      BY <1>1, <3>1, <3>2 DEF FilesInv, Locked, Holds, NeedsDp, Entering
    <3> QED
      BY <1>2, <2>1, <3>1, <3>2, <3>3, <3>4 DEF Entering
  <2>3. CASE LinkNew(p)
    <3>1. /\ pc[p] = "dir" /\ call[p].op = "linkto" /\ busy[d] = NoProc
          /\ pc' = [pc EXCEPT ![p] = "user"] /\ ip' = [ip EXCEPT ![p] = NoInode]
      BY <1>1, <2>3 DEF LinkNew, Ready, CanLock, Return, Goto, Set
    <3>2. /\ d \in Inodes /\ j \in Inodes /\ Len(path[p]) = 1
          /\ dinode[d].type = "dir" /\ dinode[j].type # "dir"
      BY <1>1, <1>2, <3>1 DEF Shape, LiveAt, Entering
    <3>3. IsEmpty(j) /\ d # j
      BY <3>2 DEF FilesInv, OnlyDirs
    <3> QED
      BY <1>2, <2>1, <3>1, <3>2, <3>3 DEF Entering
  <2> QED
    BY <2>2, <2>3
<1>5. n \in Names /\ n \in Entries
  BY <1>1, <1>4, OneName, Constants
<1>6. /\ dents'[d][n] = j
      /\ \A e \in Inodes, m \in Names : <<e, m>> # <<d, n>> => dents'[e][m] = dents[e][m]
  BY <1>2, <1>3, <1>4, <1>5, Constants
<1>7. \A q \in Procs : pc'[q] \in Entering => \E k \in Inodes : ip'[q] = k /\ IsEmpty(k) /\ k # d
  <2> SUFFICES ASSUME NEW q \in Procs, pc'[q] \in Entering
               PROVE  \E k \in Inodes : ip'[q] = k /\ IsEmpty(k) /\ k # d
    OBVIOUS
  <2>1. q # p /\ pc[q] \in Entering /\ ip'[q] = ip[q]
    BY <1>4
  <2>2. ip[q] \in Inodes /\ IsEmpty(ip[q])
    BY <2>1, NewIs
  <2>3. ip[q] # d
    <3>1. CASE pc[q] = "fresh"
      <4>1. ~Others(p, ip[q])
        BY <3>1 DEF FilesInv, Fresh
      <4> QED
        BY <1>1, <4>1 DEF Others
    <3>2. CASE pc[q] # "fresh"
      <4>1. busy[ip[q]] = q
        BY <2>1, <2>2, <3>2 DEF FilesInv, Locked, Holds, NeedsIp, Entering
      <4> QED
        BY <1>4, <2>1, <4>1, Constants
    <3> QED
      BY <3>1, <3>2
  <2> QED
    BY <2>1, <2>2, <2>3
<1> QED
  BY <1>4, <1>5, <1>6, <1>7, TreeGrows

LEMMA TreeInvariant ==
  ASSUME NoDots
  PROVE  Spec => []Tree
<1>1. Init => Tree
  <2> SUFFICES ASSUME Init PROVE Tree
    OBVIOUS
  <2>1. \A i \in Inodes, n \in Names : dents[i][n] = NoInode
    BY Constants DEF Init, Every, None
  <2>2. \A q \in Procs : pc[q] \notin Entering
    BY DEF Init, All, Entering
  <2> QED
    BY <2>1, <2>2, Constants DEF Tree, NoCycle, NewEmpty
<1>2. FilesInv /\ Tree /\ [Next]_vars => Tree'
  <2> SUFFICES ASSUME FilesInv, Tree, [Next]_vars PROVE Tree'
    OBVIOUS
  <2>1. CASE Crash
    <3>1. dents' = dents /\ \A q \in Procs : pc'[q] \notin Entering
      BY <2>1 DEF Crash, disk, All, Entering
    <3>2. SameMakers
      BY <3>1 DEF SameMakers
    <3> QED
      BY <3>1, <3>2, NamesStay
  <2>2. CASE Next /\ ~Crash
    <3>1. PICK p \in Procs :
       \/ \E c \in calls : Call(p, c)
       \/ Iput(p) \/ IputLast(p) \/ Itrunc(p) \/ Ifree(p) \/ Idrop(p)
       \/ Walk(p) \/ NoParent(p) \/ Open(p) \/ Close(p) \/ Chdir(p)
       \/ CreateFound(p) \/ CreateExisting(p) \/ Ialloc(p) \/ Ifresh(p)
       \/ MkdirParent(p) \/ MkdirDots(p) \/ Enter(p) \/ Made(p)
       \/ UnlinkNone(p) \/ UnlinkFound(p) \/ UnlinkFull(p) \/ UnlinkErase(p)
       \/ UnlinkParent(p) \/ UnlinkName(p)
       \/ LinkDir(p) \/ LinkOld(p) \/ LinkFound(p) \/ LinkFail(p) \/ LinkNew(p)
       \/ Panic(p)
      BY <2>2 DEF Next
    <3> QED
      BY <3>1, PuttingTree, LookingTree, MakingTree, NamingTree
  <2>3. CASE UNCHANGED vars
    <3>1. dents' = dents /\ pc' = pc /\ ip' = ip
      BY <2>3 DEF vars
    <3>2. SameMakers
      BY <3>1 DEF SameMakers
    <3> QED
      BY <3>1, <3>2, NamesStay
  <2> QED
    BY <2>1, <2>2, <2>3
<1> QED
  BY <1>1, <1>2, FilesInvariant, PTL DEF Spec

(* Who waits for an inode waits for somebody who can go on, or for an      *)
(* unlink() that holds it as a directory and waits for what it names.      *)
Active(q) == pc[q] # "user" \/ puts[q] # <<>>
LEMMA Holder ==
  ASSUME FilesInv, \A q \in Procs : Active(q) => Waits(q), NEW p \in Procs, Waits(p)
  PROVE  \E q \in Procs : Waits(q) /\ pc[q] \in {"fresh", "victim"} /\ dp[q] = Locks(p)
<1>1. Locks(p) # NoInode /\ busy[Locks(p)] # NoProc /\ Values
  BY DEF Waits, FilesInv
<1>2. Locks(p) \in Inodes
  <2>1. Locks(p) = dp[p] \/ Locks(p) = ip[p]
    BY <1>1 DEF Locks
  <2> QED
    BY <1>1, <2>1, Types
<1>3. PICK q \in Procs : Holds(q, Locks(p))
  <2>1. busy[Locks(p)] \in Procs
    BY <1>1, <1>2, Types
  <2>2. Locked
    BY DEF FilesInv
  <2> QED
    BY <1>2, <2>1, <2>2 DEF Locked
<1>4. Active(q)
  BY <1>3 DEF Active, Holds, NeedsDp, NeedsIp, Entering, FilesInv, Shapes, Shape
<1>5. Waits(q)
  BY <1>4
<1>6. stage[q] = "no"
  BY <1>5, ReadyFacts DEF Waits
<1>7. Locks(q) # NoInode
  BY <1>5 DEF Waits
<1>8. pc[q] \in {"walk", "dir", "at", "existing", "fresh", "victim", "bad"}
  BY <1>7 DEF Locks
<1> QED
  BY <1>3, <1>5, <1>6, <1>8 DEF Holds, NeedsDp, NeedsIp, Entering

LEMMA VictimHolds ==
  ASSUME FilesInv, \A q \in Procs : Active(q) => Waits(q), NEW p \in Procs, Waits(p)
  PROVE  \E q \in Procs : Waits(q) /\ pc[q] = "victim" /\ dp[q] = Locks(p)
<1>1. PICK q \in Procs : Waits(q) /\ pc[q] \in {"fresh", "victim"} /\ dp[q] = Locks(p)
  BY Holder
<1>2. pc[q] # "fresh"
  <2> SUFFICES ASSUME pc[q] = "fresh" PROVE FALSE
    OBVIOUS
  <2>1. Locks(q) = ip[q]
    BY DEF Locks
  <2>2. PICK r \in Procs : dp[r] = Locks(q)
    BY <1>1, Holder
  <2> QED
    BY <2>1, <2>2 DEF FilesInv, Fresh, Others
<1> QED
  BY <1>1, <1>2

(* sysfile.c:195, unlink() locks a directory and then what it names, and   *)
(* all the others lock downwards: whenever a process waits for an inode    *)
(* some process in a call can go on.                                       *)
THEOREM LocksFollowTree == NoDots => (Spec => []NoCircularWait)
<1> SUFFICES ASSUME NoDots PROVE Spec => []NoCircularWait
  OBVIOUS
<1>1. FilesInv /\ Tree => NoCircularWait
  <2> SUFFICES ASSUME FilesInv, Tree, NEW p \in Procs, Waits(p),
                      \A q \in Procs : Active(q) => Waits(q)
               PROVE  FALSE
    BY DEF NoCircularWait, Active
  <2> DEFINE V == {q \in Procs : Waits(q) /\ pc[q] = "victim"}
             S == {dp[q] : q \in V}
  <2>1. \A q \in V : /\ dp[q] \in Inodes /\ Locks(q) = ip[q] /\ Head(path[q]) \in Names
                     /\ dents[dp[q]][Head(path[q])] = ip[q]
    <3> SUFFICES ASSUME NEW q \in V
                 PROVE  /\ dp[q] \in Inodes /\ Locks(q) = ip[q] /\ Head(path[q]) \in Names
                        /\ dents[dp[q]][Head(path[q])] = ip[q]
      OBVIOUS
    <3>1. q \in Procs /\ pc[q] = "victim" /\ Shape(q) /\ FoundAt(q) /\ Values
      BY DEF FilesInv, Shapes, Found
    <3>2. dp[q] \in Inodes /\ Len(path[q]) = 1 /\ path[q] \in Seq(Names)
      BY <3>1, Types DEF Shape, NeedsDp
    <3> QED
      BY <3>1, <3>2, OneName DEF Locks, FoundAt, Lookup
  <2>2. S \in SUBSET Inodes
    BY <2>1
  <2>3. S # {}
    BY VictimHolds
  <2>4. PICK d \in S : \A n \in Names : dents[d][n] \notin S
    BY <2>2, <2>3 DEF Tree, NoCycle
  <2>5. PICK q \in V : d = dp[q]
    BY <2>4
  <2>6. PICK r \in Procs : Waits(r) /\ pc[r] = "victim" /\ dp[r] = Locks(q)
    BY VictimHolds
  <2> QED
    BY <2>1, <2>4, <2>5, <2>6
<1> QED
  BY <1>1, FilesInvariant, TreeInvariant, PTL
=============================================================================
