---------------------------------- MODULE Mkfs ----------------------------------
(***************************************************************************)
(* tools/mkfs.c of p2's xv6: the image of a file system that the kernel    *)
(* starts from, made of a directory of the host.                           *)
(*                                                                         *)
(* Contents are counted in words, a word being a directory entry, a piece  *)
(* of a file or the number of a block; a block has BSIZE of them.  Names   *)
(* are numbers, a directory's are 1, 2, ... in readdir()'s order.          *)
(***************************************************************************)
EXTENDS Naturals, Sequences, SequencesExt, FiniteSets

CONSTANTS SIZE,          \* sectors of the image
          META,          \* the first sector behind inodes and bitmap
          NINODES,
          NDIRECT, BSIZE,
          FileLens       \* lengths of the host's files

(* The host's directory: files and directories of files. *)
unreadable == 99
HostFile(len) == [dir |-> FALSE, len |-> len, has |-> <<>>]
HostDir(has) == [dir |-> TRUE, len |-> 0, has |-> has]
HostFiles == {HostFile(n) : n \in FileLens \cup {unreadable}}
UpTo(n, S) == UNION {[1 .. m -> S] : m \in 0 .. n}
HostTrees == UpTo(2, HostFiles \cup {HostDir(s) : s \in UpTo(2, HostFiles)})

VARIABLES
  host,                                 \* the directory mkfs is called with
  img,                                  \* [inode, block, bitmap] of the image
  freeblock, usedblocks, freeinode,
  stack,                                \* add_dir()'s calls: [cur, parent, name, rest]
  mkpc
mkvars == <<host, img, freeblock, usedblocks, freeinode, stack, mkpc>>

Inodes == 1 .. NINODES - 1
Offsets == 0 .. BSIZE - 1
NINDIRECT == BSIZE
MAXFILE == NDIRECT + NINDIRECT
rootino == 1
Word(of, n) == [of |-> of, n |-> n]
NoWord == Word("none", 0)
Dot == 0
DotDot == -1
Dirent(name, inum) == Word(name, inum)

MkInit ==
  /\ host \in HostTrees
  /\ img = [inode |-> [n \in Inodes |-> [type |-> "free", nlink |-> 0, size |-> 0,
                                         addrs |-> [b \in 0 .. NDIRECT |-> 0]]],
            block |-> [b \in META .. 2 * SIZE |-> [o \in Offsets |-> NoWord]],
            bitmap |-> {}]
  /\ freeblock = 0 /\ usedblocks = 0 /\ freeinode = rootino /\ stack = <<>> /\ mkpc = "mkfs"
-----------------------------------------------------------------------------
(* iappend(), word by word, on what it works with.                         *)
Image == [inode |-> img.inode, block |-> img.block, free |-> freeblock, used |-> usedblocks, ok |-> TRUE]
Allocated(d) == [d EXCEPT !.free = @ + 1, !.used = @ + 1]
(* The block of inode i in its slot n, and the image that has it.          *)
Slot(d, i, n) ==
  LET b == d.inode[i].addrs[n]
  IN IF b # 0 THEN [d |-> d, at |-> b]
     ELSE [d |-> [Allocated(d) EXCEPT !.inode[i].addrs[n] = d.free], at |-> d.free]
Indirect(d, i, n) ==
  LET table == Slot(d, i, NDIRECT)
      e == table.d
      b == e.block[table.at][n].n
  IN IF b # 0 THEN [d |-> e, at |-> b]
     ELSE [d |-> [Allocated(e) EXCEPT !.block[table.at][n] = Word("block", e.free)], at |-> e.free]
AppendWord(d, i, x) ==
  LET off == d.inode[i].size
      fbn == off \div BSIZE
      to == IF fbn < NDIRECT THEN Slot(d, i, fbn) ELSE Indirect(d, i, fbn - NDIRECT)
  IN IF ~d.ok \/ fbn >= MAXFILE THEN [d EXCEPT !.ok = FALSE]
     ELSE [to.d EXCEPT !.block[to.at][off % BSIZE] = x, !.inode[i].size = off + 1]
Iappend(d, i, words) == FoldLeft(LAMBDA e, x : AppendWord(e, i, x), d, words)

Ialloc(d, type) == [d EXCEPT !.inode[freeinode].type = type, !.inode[freeinode].nlink = 1,
                             !.inode[freeinode].size = 0]

(* What is written, or an assertion fails and the image is left as it is.  *)
Saves(d, s) ==
  IF d.ok THEN /\ img' = [img EXCEPT !.inode = d.inode, !.block = d.block]
               /\ freeblock' = d.free /\ usedblocks' = d.used /\ stack' = s /\ UNCHANGED mkpc
  ELSE mkpc' = "aborted" /\ UNCHANGED <<img, freeblock, usedblocks, stack>>
-----------------------------------------------------------------------------
(* mkfs() and the root's inode. *)
Format ==
  /\ mkpc = "mkfs" /\ mkpc' = "add"
  /\ freeblock' = META /\ usedblocks' = META
  /\ img' = [img EXCEPT !.inode = Ialloc(img, "dir").inode]
  /\ freeinode' = freeinode + 1
  /\ stack' = <<[cur |-> rootino, parent |-> rootino, name |-> 0, rest |-> host, dots |-> FALSE]>>
  /\ UNCHANGED host

(* add_dir(): the entries . and .., *)
Top == Last(stack)
Below == Front(stack)
Adding == mkpc = "add" /\ stack # <<>> /\ UNCHANGED host
Dots ==
  /\ Adding /\ ~Top.dots /\ UNCHANGED freeinode
  /\ Saves(Iappend(Image, Top.cur, <<Dirent(Dot, Top.cur), Dirent(DotDot, Top.parent)>>),
           Append(Below, [Top EXCEPT !.dots = TRUE]))
(* then one for each the host has, *)
HasNext == Adding /\ Top.dots /\ Top.rest # <<>>
Entry == Head(Top.rest)
Rest(t) == [t EXCEPT !.rest = Tail(@), !.name = @ + 1]
AddFile ==
  LET words == [n \in 1 .. Entry.len |-> Word(100 + Top.name, n)]
      d == Iappend(Ialloc(Image, "file"), freeinode, words)
  IN /\ HasNext /\ ~Entry.dir /\ Entry.len # unreadable
     /\ freeinode' = freeinode + 1
     /\ Saves(Iappend(d, Top.cur, <<Dirent(Top.name + 1, freeinode)>>), Append(Below, Rest(Top)))
AddDir ==
  /\ HasNext /\ Entry.dir
  /\ freeinode' = freeinode + 1
  /\ Saves(Ialloc(Image, "dir"),
           Append(stack, [cur |-> freeinode, parent |-> Top.cur, name |-> 0, rest |-> Entry.has, dots |-> FALSE]))
AddFails ==
  /\ HasNext /\ ~Entry.dir /\ Entry.len = unreadable /\ mkpc' = "failed"
  /\ UNCHANGED <<img, freeblock, usedblocks, freeinode, stack>>
(* and a size of whole blocks; the caller enters the directory's name.     *)
Rounded(off) == ((off \div BSIZE) + 1) * BSIZE
EndDir ==
  LET d == [Image EXCEPT !.inode[Top.cur].size = Rounded(@)]
      caller == Last(Below)
  IN /\ Adding /\ Top.dots /\ Top.rest = <<>> /\ UNCHANGED freeinode
     /\ IF Below = <<>> THEN Saves(d, <<>>)
        ELSE Saves(Iappend(d, caller.cur, <<Dirent(caller.name + 1, Top.cur)>>), Append(Front(Below), Rest(caller)))

(* balloc(): the bitmap. *)
Marked(used) == 0 .. used - 1
Balloc ==
  /\ mkpc = "add" /\ stack = <<>> /\ mkpc' = "done"
  /\ img' = [img EXCEPT !.bitmap = Marked(usedblocks)]
  /\ UNCHANGED <<host, freeblock, usedblocks, freeinode, stack>>

MkNext == Format \/ Dots \/ AddFile \/ AddDir \/ AddFails \/ EndDir \/ Balloc
MkSpec == MkInit /\ [][MkNext]_mkvars
-----------------------------------------------------------------------------
(* The image, read by the kernel's rules (fs.c), has the host's files and  *)
(* directories, each block in one place and marked, each count of links as *)
(* unlink() and mkdir() will change it.  Not so the links of a directory   *)
(* with directories in it, whose ".." are not counted.                     *)
Used == {n \in Inodes : img.inode[n].type # "free"}
BlockOf(i, n) ==
  LET a == img.inode[i].addrs
  IN IF n < NDIRECT THEN a[n] ELSE IF a[NDIRECT] = 0 THEN 0 ELSE img.block[a[NDIRECT]][n - NDIRECT].n
WordAt(i, off) ==
  LET b == BlockOf(i, off \div BSIZE) IN IF b = 0 THEN NoWord ELSE img.block[b][off % BSIZE]
(* A hole is not a directory entry, but the kernel fills it. *)
RECURSIVE Holds(_, _, _)
Holds(i, parent, has) ==
  /\ img.inode[i].type = "dir" /\ img.inode[i].size >= Len(has) + 2
  /\ WordAt(i, 0) = Dirent(Dot, i) /\ WordAt(i, 1) = Dirent(DotDot, parent)
  /\ \A off \in Len(has) + 2 .. img.inode[i].size - 1 : WordAt(i, off) = NoWord
  /\ \A e \in DOMAIN has :
       LET x == WordAt(i, e + 1)
       IN /\ x.of = e /\ x.n \in Inodes
          /\ has[e].dir => Holds(x.n, i, has[e].has)
          /\ ~has[e].dir => /\ img.inode[x.n].type = "file" /\ img.inode[x.n].size = has[e].len
                            /\ \A off \in 0 .. has[e].len - 1 : WordAt(x.n, off) = Word(99 + e, off + 1)

Places == {<<i, n>> \in Used \X (0 .. MAXFILE) :
             (IF n = MAXFILE THEN img.inode[i].addrs[NDIRECT] ELSE BlockOf(i, n)) # 0}
Place(x) == IF x[2] = MAXFILE THEN img.inode[x[1]].addrs[NDIRECT] ELSE BlockOf(x[1], x[2])
BlocksExact ==
  /\ {Place(x) : x \in Places} = META .. usedblocks - 1
  /\ \A x, y \in Places : Place(x) = Place(y) => x = y
  /\ img.bitmap = 0 .. usedblocks - 1

NamesOf(i) == {x \in Used \X (2 .. MAXFILE * BSIZE - 1) :
  img.inode[x[1]].type = "dir" /\ x[2] < img.inode[x[1]].size /\ WordAt(x[1], x[2]) # NoWord /\ WordAt(x[1], x[2]).n = i}
LinksRight == \A i \in Used \ {rootino} : img.inode[i].nlink = Cardinality(NamesOf(i))

Long(h) == h.len > MAXFILE * BSIZE /\ h.len # unreadable
TooLong == \E e \in DOMAIN host : Long(host[e]) \/ \E f \in DOMAIN host[e].has : Long(host[e].has[f])
ImageSound ==
  /\ mkpc = "done" /\ usedblocks <= SIZE => Holds(rootino, rootino, host) /\ BlocksExact /\ LinksRight
  /\ mkpc = "aborted" => TooLong
=============================================================================
