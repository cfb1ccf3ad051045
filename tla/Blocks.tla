------------------------------- MODULE Blocks -------------------------------
(***************************************************************************)
(* The blocks of files: the allocator and the contents of inodes in fs.c,  *)
(* with the machine stopping between any two writes to the disk.           *)
(*                                                                         *)
(* A step ends at every bwrite().  The inode is locked (I_BUSY) from the   *)
(* beginning of a call to its end; what a file is opened and named by is   *)
(* the business of module Files.  A block has Words words: data, or block  *)
(* numbers when it is the indirect block.  What is written to file f is f: *)
(* the properties ask whose data a word is.                                *)
(***************************************************************************)
EXTENDS Naturals

CONSTANTS Procs, NoProc,
          Files,      \* inode numbers
          NBLOCKS,    \* data blocks; 0 is no block
          NDIRECT,
          Words,      \* of a block: NINDIRECT of them are block numbers
          MaxWrite,   \* bound of the model: words of one write
          MaxBoots    \* bound of the model: crashes

BlockNos == 1 .. NBLOCKS
NINDIRECT == Words
MAXFILE == NDIRECT + NINDIRECT
Pieces == 0 .. MAXFILE       \* what itrunc() frees, the indirect block last

(* 0 is no inode and no block; a block has room for something. *)
ASSUME BlocksAssumption ==
  /\ NoProc \notin Procs /\ Files \subseteq Nat \ {0}
  /\ NBLOCKS \in Nat /\ NDIRECT \in Nat /\ Words \in Nat \ {0} /\ MaxWrite \in Nat

VARIABLES
  bits, block, dinode,  \* the disk: blocks in use, their words, the inodes
  inode, busy,          \* the copies of the inodes, and who has locked them
  pc, cur,              \* a call: its place and its inode
  off, left,            \* writei(): where it is and how much is to be written
  got,                  \* balloc()'s or bfree()'s block
  piece,                \* itrunc(): the piece it is at
  boots,
  size                  \* history: how far each file has been written

ondisk == <<bits, block, dinode>>
args == <<cur, off, left>>
vars == <<bits, block, dinode, inode, busy, pc, cur, off, left, got, piece, boots, size>>

Zeroes == [w \in 0 .. Words - 1 |-> 0]
FreeInode == [state |-> "free", addrs |-> [n \in 0 .. NDIRECT |-> 0], size |-> 0]
All(v) == [p \in Procs |-> v]
Init ==
  /\ bits = {} /\ block = [b \in BlockNos |-> Zeroes]
  /\ dinode = [f \in Files |-> FreeInode] /\ inode = dinode
  /\ busy = [f \in Files |-> NoProc]
  /\ pc = All("user") /\ cur = All(0) /\ off = All(0) /\ left = All(0)
  /\ got = All(0) /\ piece = All(0)
  /\ boots = 0 /\ size = [f \in Files |-> 0]

Smaller(a, b) == IF a < b THEN a ELSE b
At(p, at) == pc[p] = at
Goto(p, at) == pc' = [pc EXCEPT ![p] = at]
Me(p) == inode[cur[p]]
Done(p) ==
  /\ Goto(p, "user") /\ busy' = [busy EXCEPT ![cur[p]] = NoProc]
  /\ cur' = [cur EXCEPT ![p] = 0] /\ off' = [off EXCEPT ![p] = 0]
  /\ left' = [left EXCEPT ![p] = 0]
-----------------------------------------------------------------------------
(* ialloc() of a new file: memset() of the inode. *)
Create(f) ==
  /\ dinode[f].state = "free" /\ busy[f] = NoProc
  /\ dinode' = [dinode EXCEPT ![f] = [FreeInode EXCEPT !.state = "named"]]
  /\ inode' = [inode EXCEPT ![f] = dinode'[f]]
  /\ size' = [size EXCEPT ![f] = 0]
  /\ UNCHANGED <<bits, block, busy, pc, args, got, piece, boots>>

(* writei(): past the end it fails; what does not fit is left out. *)
Writei(p, f) ==
  /\ At(p, "user") /\ busy[f] = NoProc /\ inode[f].state = "named"
  /\ \E o \in 0 .. inode[f].size, n \in 1 .. MaxWrite :
       /\ off' = [off EXCEPT ![p] = o]
       /\ left' = [left EXCEPT ![p] = Smaller(n, MAXFILE * Words - o)]
  /\ busy' = [busy EXCEPT ![f] = p] /\ Goto(p, "write")
  /\ cur' = [cur EXCEPT ![p] = f]
  /\ UNCHANGED <<ondisk, inode, got, piece, boots, size>>

(* bmap(): where the block bn of an inode is, 0 if it has to be allocated. *)
Bmap(node, bn) ==
  IF bn < NDIRECT THEN node.addrs[bn]
  ELSE IF node.addrs[NDIRECT] = 0 THEN 0 ELSE block[node.addrs[NDIRECT]][bn - NDIRECT]
Bn(p) == off[p] \div Words
Missing(p) == left[p] > 0 /\ Bmap(Me(p), Bn(p)) = 0

(* balloc(): the first free block is marked on the disk.  It is not zeroed. *)
(* When there is none it panics, and the call stays where it is.            *)
FreeBlocks == BlockNos \ bits
Lowest(S) == CHOOSE b \in S : \A c \in S : b <= c
Balloc == bits' = bits \cup {Lowest(FreeBlocks)}

(* bmap() of a direct block or of the indirect one: the copy has it. *)
BmapInode(p) ==
  /\ At(p, "write") /\ Missing(p) /\ FreeBlocks # {} /\ Balloc
  /\ LET n == Smaller(Bn(p), NDIRECT)
     IN /\ inode[cur[p]].addrs[n] = 0
        /\ inode' = [inode EXCEPT ![cur[p]].addrs[n] = Lowest(FreeBlocks)]
  /\ UNCHANGED <<block, dinode, busy, pc, args, got, piece, boots, size>>

(* bmap() of a block the indirect block points to: balloc(), then bwrite(). *)
BmapIndirect(p) ==
  /\ At(p, "write") /\ Missing(p) /\ FreeBlocks # {} /\ Balloc
  /\ Bn(p) >= NDIRECT /\ Me(p).addrs[NDIRECT] # 0
  /\ got' = [got EXCEPT ![p] = Lowest(FreeBlocks)] /\ Goto(p, "bwrite")
  /\ UNCHANGED <<block, dinode, inode, busy, args, piece, boots, size>>
BwriteIndirect(p) ==
  /\ At(p, "bwrite")
  /\ block' = [block EXCEPT ![Me(p).addrs[NDIRECT]][Bn(p) - NDIRECT] = got[p]]
  /\ got' = [got EXCEPT ![p] = 0] /\ Goto(p, "write")
  /\ UNCHANGED <<bits, dinode, inode, busy, args, piece, boots, size>>

(* One block of data is written. *)
Chunk(p) == Smaller(left[p], Words - (off[p] % Words))
WriteData(p) ==
  /\ At(p, "write") /\ left[p] > 0 /\ ~Missing(p)
  /\ block' = [block EXCEPT ![Bmap(Me(p), Bn(p))] =
       [w \in DOMAIN @ |-> IF w \in (off[p] % Words) .. (off[p] % Words) + Chunk(p) - 1
                           THEN cur[p] ELSE @[w]]]
  /\ off' = [off EXCEPT ![p] = @ + Chunk(p)] /\ left' = [left EXCEPT ![p] = @ - Chunk(p)]
  /\ UNCHANGED <<bits, dinode, inode, busy, pc, cur, got, piece, boots, size>>

(* The inode goes to the disk if the file has grown. *)
Grown_kept(p) == dinode
Grown(p) == [dinode EXCEPT ![cur[p]] = [Me(p) EXCEPT !.size = off[p]]]
WriteEnds(p) ==
  /\ At(p, "write") /\ left[p] = 0
  /\ IF off[p] > Me(p).size
     THEN /\ inode' = [inode EXCEPT ![cur[p]].size = off[p]]
          /\ dinode' = Grown(p)
          /\ size' = [size EXCEPT ![cur[p]] = off[p]]
     ELSE UNCHANGED <<inode, dinode, size>>
  /\ Done(p) /\ UNCHANGED <<bits, block, got, piece, boots>>
-----------------------------------------------------------------------------
(* The last name and the last reference go: nlink is 0 on the disk before  *)
(* iput() calls itrunc().                                                  *)
Unnamed_later(f) == dinode
Unnamed(f) == [dinode EXCEPT ![f].state = "dying"]
Unlink(p, f) ==
  /\ At(p, "user") /\ busy[f] = NoProc /\ inode[f].state = "named"
  /\ inode' = [inode EXCEPT ![f].state = "dying"]
  /\ dinode' = Unnamed(f)
  /\ busy' = [busy EXCEPT ![f] = p] /\ Goto(p, "itrunc")
  /\ cur' = [cur EXCEPT ![p] = f] /\ piece' = [piece EXCEPT ![p] = 0]
  /\ UNCHANGED <<bits, block, off, left, got, boots, size>>

(* The direct blocks, then those of the indirect block, then that one. *)
PieceAt(p) == IF piece[p] < MAXFILE THEN Bmap(Me(p), piece[p]) ELSE Me(p).addrs[NDIRECT]
Skip(p) ==
  /\ At(p, "itrunc") /\ piece[p] \in Pieces /\ PieceAt(p) = 0
  /\ piece' = [piece EXCEPT ![p] = @ + 1]
  /\ UNCHANGED <<ondisk, inode, busy, pc, args, got, boots, size>>

(* bfree(): the block is zeroed on the disk before its bit is cleared. *)
Bzeroed_not(b) == block
Bzeroed(b) == [block EXCEPT ![b] = Zeroes]
Bzero(p) ==
  /\ At(p, "itrunc") /\ piece[p] \in Pieces /\ PieceAt(p) # 0
  /\ got' = [got EXCEPT ![p] = PieceAt(p)]
  /\ block' = Bzeroed(PieceAt(p))
  /\ Goto(p, "bfree")
  /\ UNCHANGED <<bits, dinode, inode, busy, args, piece, boots, size>>

Direct(n) == IF n < NDIRECT THEN n ELSE NDIRECT
FreeingFree(p) == At(p, "bfree") /\ got[p] \notin bits
Bfree(p) ==
  /\ At(p, "bfree") /\ ~FreeingFree(p)
  /\ bits' = bits \ {got[p]}
  /\ inode' = IF piece[p] < NDIRECT \/ piece[p] = MAXFILE
              THEN [inode EXCEPT ![cur[p]].addrs[Direct(piece[p])] = 0] ELSE inode
  /\ got' = [got EXCEPT ![p] = 0] /\ piece' = [piece EXCEPT ![p] = @ + 1]
  /\ Goto(p, "itrunc")
  /\ UNCHANGED <<block, dinode, busy, args, boots, size>>

(* size = 0 and iupdate() in itrunc(), then type = 0 and iupdate() in iput(). *)
Truncated(p) ==
  /\ At(p, "itrunc") /\ piece[p] > MAXFILE
  /\ inode' = [inode EXCEPT ![cur[p]].size = 0]
  /\ dinode' = [dinode EXCEPT ![cur[p]] = inode'[cur[p]]]
  /\ Goto(p, "ifree") /\ piece' = [piece EXCEPT ![p] = 0]
  /\ UNCHANGED <<bits, block, busy, args, got, boots, size>>
Ifree(p) ==
  /\ At(p, "ifree")
  /\ inode' = [inode EXCEPT ![cur[p]].state = "free"]
  /\ dinode' = [dinode EXCEPT ![cur[p]] = inode'[cur[p]]]
  /\ Done(p) /\ UNCHANGED <<bits, block, got, piece, boots, size>>
-----------------------------------------------------------------------------
(* The machine stops and starts again; an inode that was being written has *)
(* the size the disk knows of.                                             *)
Crash ==
  /\ boots < MaxBoots /\ boots' = boots + 1
  /\ inode' = dinode /\ busy' = [f \in Files |-> NoProc]
  /\ pc' = All("user") /\ cur' = All(0) /\ off' = All(0) /\ left' = All(0)
  /\ got' = All(0) /\ piece' = All(0)
  /\ UNCHANGED <<ondisk, size>>

Next ==
  \/ Crash
  \/ \E f \in Files : Create(f)
  \/ \E p \in Procs :
       \/ \E f \in Files : Writei(p, f) \/ Unlink(p, f)
       \/ BmapInode(p) \/ BmapIndirect(p) \/ BwriteIndirect(p) \/ WriteData(p) \/ WriteEnds(p)
       \/ Skip(p) \/ Bzero(p) \/ Bfree(p) \/ Truncated(p) \/ Ifree(p)
Spec == Init /\ [][Next]_vars
-----------------------------------------------------------------------------
Node == [state : {"free", "named", "dying"}, addrs : [0 .. NDIRECT -> 0 .. NBLOCKS],
         size : 0 .. MAXFILE * Words]
TypeOK ==
  /\ bits \subseteq BlockNos
  /\ block \in [BlockNos -> [0 .. Words - 1 -> Nat]]
  /\ dinode \in [Files -> Node] /\ inode \in [Files -> Node]
  /\ busy \in [Files -> Procs \cup {NoProc}] /\ cur \in [Procs -> Files \cup {0}]
  /\ off \in [Procs -> Nat] /\ left \in [Procs -> Nat] /\ size \in [Files -> Nat] /\ boots \in Nat
  /\ pc \in [Procs -> {"user", "write", "bwrite", "itrunc", "bfree", "ifree"}]
  /\ got \in [Procs -> 0 .. NBLOCKS] /\ piece \in [Procs -> 0 .. MAXFILE + 1]

(* balloc() does not zero a block and bmap() takes what is in a new        *)
(* indirect block for block numbers: a free block is zero on the disk,     *)
(* whenever the machine stops.                                             *)
FreeZeroed == \A b \in FreeBlocks : block[b] = Zeroes

(* The blocks an inode has, by what it and its indirect block say. *)
Named == {f \in Files : dinode[f].state = "named"}
Owns(node, n) == IF n < MAXFILE THEN Bmap(node, n) ELSE node.addrs[NDIRECT]
Uses(node) == {Owns(node, n) : n \in Pieces} \ {0}

(* On the disk, whenever the machine stops, the blocks of a file that has  *)
(* a name are marked in use (bfree() would panic "freeing free block"), no *)
(* two of its pieces are the same block and no block is in two files.      *)
(* Without a crash none is lost: a marked block is in a file, or has just  *)
(* been taken or is about to be given back by a call.                      *)
Distinct(node) ==
  \A n, m \in Pieces : Owns(node, n) # 0 /\ Owns(node, n) = Owns(node, m) => n = m
NoneLost == bits \subseteq (UNION {Uses(inode[f]) : f \in Files}) \cup {got[p] : p \in Procs}
BlocksOwned ==
  /\ \A f \in Named : Uses(dinode[f]) \subseteq bits /\ Distinct(dinode[f])
  /\ \A f, g \in Named : f # g => Uses(dinode[f]) \cap Uses(dinode[g]) = {}
  /\ \A p \in Procs : ~FreeingFree(p)
  /\ boots = 0 => NoneLost

(* Whatever write() has returned for is on the disk, and nobody else's:    *)
(* there is no write-behind, so a crash loses only the call under way.     *)
Word(node, w) == block[Bmap(node, w \div Words)][w % Words]
WrittenIsDurable ==
  \A f \in Named : /\ dinode[f].size = size[f]
                   /\ \A w \in 0 .. size[f] - 1 : /\ Bmap(dinode[f], w \div Words) # 0
                                                  /\ Word(dinode[f], w) = f

(* The blocks of files are right, whenever the machine stops. *)
BlocksSound == FreeZeroed /\ BlocksOwned /\ WrittenIsDurable
=============================================================================
