---------------------------- MODULE BlocksProofs ----------------------------
(***************************************************************************)
(* Theorems about Blocks: for any number of processes, files and blocks of *)
(* any size, and however often the machine stops, no block is in two       *)
(* files, a free block is zero, and what write() has returned for is       *)
(* there.                                                                  *)
(***************************************************************************)
EXTENDS Blocks, WellFoundedInduction, TLAPS

(* The pieces an inode still has: all while it has a name; once it is cut, *)
(* those that itrunc() has not come to; none when nobody cuts it, after a  *)
(* crash.                                                                  *)
Cutting(p, f) == pc[p] \in {"itrunc", "bfree"} /\ cur[p] = f
Keeps(f, n) ==
  \/ inode[f].state = "named"
  \/ \E p \in Procs : Cutting(p, f) /\ n >= piece[p]
Has(f, n) == IF Keeps(f, n) THEN Owns(inode[f], n) ELSE 0

(* Calls: an inode is locked by the one call that is at it.  bfree() frees *)
(* the piece that itrunc() is at; bmap() has a new block for a piece that  *)
(* the indirect block does not have.                                       *)
Writing(p) == pc[p] \in {"write", "bwrite"}
CallOf(p) ==
  /\ pc[p] # "user" => cur[p] \in Files
  /\ \A f \in Files : pc[p] # "user" /\ cur[p] = f =>
       /\ busy[f] = p
       /\ Writing(p) => inode[f].state = "named" /\ off[p] + left[p] <= MAXFILE * Words
       /\ ~Writing(p) => inode[f].state = "dying"
       /\ pc[p] = "bwrite" =>
            /\ left[p] > 0 /\ Bn(p) >= NDIRECT /\ inode[f].addrs[NDIRECT] # 0
            /\ \A n \in Pieces : n = Bn(p) => Has(f, n) = 0
       /\ pc[p] = "bfree" =>
            /\ piece[p] \in Pieces /\ got[p] # 0 /\ block[got[p]] = Zeroes
            /\ \A n \in Pieces : n = piece[p] => got[p] = Has(f, n)
LockOf(f) == busy[f] # NoProc => pc[busy[f]] # "user" /\ cur[busy[f]] = f

(* The copy of an inode is the disk's, but for blocks that a write adds: a *)
(* write that adds some makes the file longer, and so ends with iupdate(). *)
CopyOf(f) ==
  /\ dinode[f].state = inode[f].state
  /\ inode[f].state = "named" =>
       /\ dinode[f].size = size[f] /\ inode[f].size = size[f]
       /\ \A n \in 0 .. NDIRECT : dinode[f].addrs[n] \in {0, inode[f].addrs[n]}
       /\ \/ inode[f] = dinode[f]
          \/ \E p \in Procs : Writing(p) /\ cur[p] = f /\ off[p] + left[p] > size[f]

(* What is in a file is in a piece of its own, which the disk's inode      *)
(* leads to; what a write has come past is in one that the copy leads to.  *)
Holds(f, w) ==
  /\ w \div Words < MAXFILE /\ Has(f, w \div Words) # 0
  /\ block[Has(f, w \div Words)][w % Words] = f
Leads(f, w) == dinode[f].addrs[Smaller(w \div Words, NDIRECT)] # 0
DataOf(f) ==
  \A w \in Nat : inode[f].state = "named" /\ w < size[f] => Holds(f, w) /\ Leads(f, w)
PassedOf(p) ==
  \A f \in Files, w \in Nat : Writing(p) /\ cur[p] = f /\ w < off[p] => Holds(f, w)

(* A block in use is one piece of one file, or balloc() has just given it  *)
(* to a call.                                                              *)
Apart ==
  /\ \A f \in Files, n \in Pieces : Has(f, n) # 0 => Has(f, n) \in bits
  /\ \A f, g \in Files, n, m \in Pieces : Has(f, n) # 0 /\ Has(f, n) = Has(g, m) => f = g /\ n = m
  /\ \A p \in Procs : pc[p] = "bwrite" =>
       /\ got[p] \in bits
       /\ \A f \in Files, n \in Pieces : Has(f, n) # got[p]
       /\ \A q \in Procs : pc[q] = "bwrite" /\ got[q] = got[p] => p = q
Kept ==
  boots = 0 => \A b \in bits : \/ \E f \in Files, n \in Pieces : Has(f, n) = b
                               \/ \E p \in Procs : pc[p] = "bwrite" /\ got[p] = b

BlocksInv ==
  /\ TypeOK /\ Apart /\ Kept /\ FreeZeroed
  /\ \A p \in Procs : CallOf(p) /\ PassedOf(p)
  /\ \A f \in Files : LockOf(f) /\ CopyOf(f) /\ DataOf(f)
-----------------------------------------------------------------------------
(* Words, blocks and pieces in numbers. *)
LEMMA Division ==
  ASSUME NEW w \in Nat
  PROVE  /\ w \div Words \in Nat /\ w % Words \in 0 .. Words - 1
         /\ w = Words * (w \div Words) + (w % Words)
  BY BlocksAssumption, SMT

LEMMA Quotients ==
  ASSUME NEW W \in Nat \ {0}, NEW a \in Nat, NEW b \in Nat, NEW r \in 0 .. W - 1, NEW s \in 0 .. W - 1,
         W * a + r <= W * b + s
  PROVE  a <= b
<1>1. SUFFICES ASSUME a >= b + 1 PROVE FALSE
  OBVIOUS
<1>2. PICK d \in Nat : a = b + 1 + d
  <2>1. a - b - 1 \in Nat /\ a = b + 1 + (a - b - 1)
    BY <1>1
  <2> QED BY <2>1
<1>3. W * a = W * b + W + W * d
  BY <1>2
<1>4. W * d \in Nat
  BY <1>2
<1> QED BY <1>3, <1>4

(* The words that one chunk of a write covers are words of one block. *)
LEMMA ChunkInBlock ==
  ASSUME NEW o \in Nat, NEW c \in Nat, c <= Words - (o % Words),
         NEW w \in Nat, o <= w, w < o + c
  PROVE  w \div Words = o \div Words /\ w % Words = (o % Words) + (w - o)
<1>1. /\ o \div Words \in Nat /\ o % Words \in 0 .. Words - 1 /\ o = Words * (o \div Words) + (o % Words)
      /\ w \div Words \in Nat /\ w % Words \in 0 .. Words - 1 /\ w = Words * (w \div Words) + (w % Words)
      /\ Words \in Nat \ {0}
  BY Division, BlocksAssumption
<1>2. DEFINE r == (o % Words) + (w - o)
<1>3. r \in 0 .. Words - 1 /\ w = Words * (o \div Words) + r
  BY <1>1
<1>4. o \div Words <= w \div Words
  <2>1. Words * (o \div Words) + r <= Words * (w \div Words) + (w % Words)
    BY <1>1, <1>3
  <2> HIDE DEF r
  <2> QED BY <2>1, <1>1, <1>3, Quotients
<1>5. w \div Words <= o \div Words
  <2>1. Words * (w \div Words) + (w % Words) <= Words * (o \div Words) + r
    BY <1>1, <1>3
  <2> HIDE DEF r
  <2> QED BY <2>1, <1>1, <1>3, Quotients
<1>6. w \div Words = o \div Words
  BY <1>1, <1>4, <1>5
<1>7. w % Words = r
  <2>1. Words * (w \div Words) = Words * (o \div Words) /\ Words * (o \div Words) \in Nat
    BY <1>1, <1>6
  <2> HIDE DEF r
  <2> QED BY <2>1, <1>1, <1>3
<1> QED BY <1>6, <1>7

(* Words of a file of the greatest length are in its pieces. *)
LEMMA InPieces ==
  ASSUME NEW w \in Nat, w < MAXFILE * Words
  PROVE  w \div Words < MAXFILE /\ w \div Words \in Pieces /\ w \div Words \in Nat
<1>1. /\ w \div Words \in Nat /\ w % Words \in 0 .. Words - 1 /\ w = Words * (w \div Words) + (w % Words)
      /\ Words \in Nat \ {0} /\ MAXFILE \in Nat
  BY Division, BlocksAssumption DEF MAXFILE, NINDIRECT
<1>2. ~(w \div Words >= MAXFILE)
  <2>1. SUFFICES ASSUME w \div Words >= MAXFILE PROVE FALSE
    OBVIOUS
  <2>2. PICK d \in Nat : w \div Words = MAXFILE + d
    <3>1. (w \div Words) - MAXFILE \in Nat /\ w \div Words = MAXFILE + ((w \div Words) - MAXFILE)
      BY <1>1, <2>1
    <3> QED BY <3>1
  <2>3. Words * (w \div Words) = MAXFILE * Words + Words * d
    BY <2>2, <1>1
  <2>4. Words * d \in Nat
    BY <1>1, <2>2
  <2> QED BY <1>1, <2>3, <2>4
<1>3. w \div Words \in 0 .. MAXFILE
  BY <1>1, <1>2
<1> QED BY <1>1, <1>2, <1>3 DEF Pieces
-----------------------------------------------------------------------------
(* Blocks and inodes. *)
LEMMA LowestIsFree ==
  ASSUME FreeBlocks # {}
  PROVE  /\ Lowest(FreeBlocks) \in BlockNos /\ Lowest(FreeBlocks) \notin bits
         /\ Lowest(FreeBlocks) \in Nat \ {0}
<1>1. FreeBlocks \in SUBSET Nat
  BY DEF FreeBlocks, BlockNos
<1>2. PICK n \in FreeBlocks : \A m \in FreeBlocks : ~(<<m, n>> \in OpToRel(<, Nat))
  BY <1>1, NatLessThanWellFounded, WFMin
<1>3. \A m \in FreeBlocks : ~(m < n)
  BY <1>1, <1>2 DEF OpToRel
<1>4. \A m \in FreeBlocks : n <= m
  BY <1>1, <1>3
<1>5. Lowest(FreeBlocks) \in FreeBlocks
  BY <1>4 DEF Lowest
<1> QED BY <1>5 DEF FreeBlocks, BlockNos

LEMMA Numbers ==
  /\ MAXFILE \in Nat /\ NINDIRECT = Words /\ MAXFILE = NDIRECT + Words
  /\ Pieces = 0 .. MAXFILE /\ NDIRECT \in Nat /\ NBLOCKS \in Nat /\ Words \in Nat \ {0}
  /\ MAXFILE \in Pieces /\ NDIRECT < MAXFILE
  BY BlocksAssumption DEF MAXFILE, NINDIRECT, Pieces

(* What a piece of an inode is. *)
LEMMA PieceOf ==
  ASSUME NEW node, NEW n
  PROVE  /\ n < MAXFILE /\ n < NDIRECT => Owns(node, n) = node.addrs[n]
         /\ n < MAXFILE /\ ~(n < NDIRECT) /\ node.addrs[NDIRECT] = 0 => Owns(node, n) = 0
         /\ n < MAXFILE /\ ~(n < NDIRECT) /\ node.addrs[NDIRECT] # 0
            => Owns(node, n) = block[node.addrs[NDIRECT]][n - NDIRECT]
         /\ ~(n < MAXFILE) => Owns(node, n) = node.addrs[NDIRECT]
         /\ n < MAXFILE => Owns(node, n) = Bmap(node, n)
  BY DEF Owns, Bmap

LEMMA PieceType ==
  ASSUME TypeOK, NEW node \in Node, NEW n \in Pieces
  PROVE  Owns(node, n) \in Nat
<1>1. /\ node.addrs \in [0 .. NDIRECT -> 0 .. NBLOCKS]
      /\ block \in [BlockNos -> [0 .. Words - 1 -> Nat]]
  BY DEF Node, TypeOK
<1>2. n \in Nat /\ n <= NDIRECT + Words
  BY Numbers
<1>3. CASE n < MAXFILE /\ n < NDIRECT
  <2>1. n \in 0 .. NDIRECT
    BY <1>2, <1>3, Numbers
  <2> QED BY <2>1, <1>1, <1>3, PieceOf, Numbers
<1>4. CASE n < MAXFILE /\ ~(n < NDIRECT)
  <2>1. n - NDIRECT \in 0 .. Words - 1
    BY <1>2, <1>4, Numbers
  <2>2. node.addrs[NDIRECT] \in 0 .. NBLOCKS
    BY <1>1, Numbers
  <2>3. node.addrs[NDIRECT] # 0 => node.addrs[NDIRECT] \in BlockNos
    BY <2>2, Numbers DEF BlockNos
  <2>4. node.addrs[NDIRECT] # 0 => block[node.addrs[NDIRECT]][n - NDIRECT] \in Nat
    BY <1>1, <2>1, <2>3
  <2> QED BY <2>4, <1>4, PieceOf
<1>5. CASE ~(n < MAXFILE)
  <2>1. node.addrs[NDIRECT] \in 0 .. NBLOCKS
    BY <1>1, Numbers
  <2> QED BY <2>1, <1>5, PieceOf, Numbers
<1> QED BY <1>3, <1>4, <1>5

LEMMA HasType ==
  ASSUME TypeOK, NEW f \in Files, NEW n \in Pieces
  PROVE  Has(f, n) \in Nat
<1>1. inode[f] \in Node
  BY DEF TypeOK
<1>2. Owns(inode[f], n) \in Nat
  BY <1>1, PieceType
<1> QED BY <1>2 DEF Has

(* Who has a piece of the indirect block has the indirect block. *)
LEMMA HasIndirect ==
  ASSUME TypeOK, NEW f \in Files, NEW n \in Pieces, Keeps(f, n)
  PROVE  Keeps(f, MAXFILE) /\ Has(f, MAXFILE) = inode[f].addrs[NDIRECT]
<1>1. n \in Nat /\ n <= MAXFILE /\ MAXFILE \in Nat
  BY Numbers
<1>2. \A p \in Procs : piece[p] \in Nat
  BY Numbers DEF TypeOK
<1>3. Keeps(f, MAXFILE)
  BY <1>1, <1>2 DEF Keeps
<1>4. ~(MAXFILE < MAXFILE)
  BY <1>1
<1> QED BY <1>3, <1>4, PieceOf DEF Has

(* What the copy of an inode holds it leads to. *)
LEMMA HoldsLeads ==
  ASSUME NEW f, NEW w \in Nat, Holds(f, w)
  PROVE  inode[f].addrs[Smaller(w \div Words, NDIRECT)] # 0
<1>1. w \div Words \in Nat /\ w \div Words < MAXFILE
  BY Division DEF Holds
<1>2. Owns(inode[f], w \div Words) # 0
  BY DEF Holds, Has
<1>3. CASE w \div Words < NDIRECT
  <2>1. Smaller(w \div Words, NDIRECT) = w \div Words
    BY <1>3 DEF Smaller
  <2> QED BY <2>1, <1>1, <1>2, <1>3, PieceOf
<1>4. CASE ~(w \div Words < NDIRECT)
  <2>1. Smaller(w \div Words, NDIRECT) = NDIRECT
    BY <1>4 DEF Smaller
  <2> QED BY <2>1, <1>1, <1>2, <1>4, PieceOf
<1> QED BY <1>3, <1>4
-----------------------------------------------------------------------------
(* Steps that change no block and no inode, and calls only so far as       *)
(* nobody notices.                                                         *)
SameHas == \A f \in Files, n \in Pieces : Has(f, n)' = Has(f, n)
SameTaken ==
  \A p \in Procs : /\ pc'[p] = "bwrite" <=> pc[p] = "bwrite"
                   /\ pc[p] = "bwrite" => got'[p] = got[p]

(* One owner each, as long as the pieces are the same. *)
LEMMA ApartSame ==
  ASSUME Apart, SameHas, bits \subseteq bits', SameTaken
  PROVE  Apart'
<1>1. \A f \in Files, n \in Pieces : Has(f, n)' = Has(f, n)
  BY DEF SameHas
<1>2. ASSUME NEW f \in Files, NEW n \in Pieces, Has(f, n)' # 0
      PROVE  Has(f, n)' \in bits'
  BY <1>1, <1>2 DEF Apart
<1>3. ASSUME NEW f \in Files, NEW g \in Files, NEW n \in Pieces, NEW m \in Pieces,
             Has(f, n)' # 0, Has(f, n)' = Has(g, m)'
      PROVE  f = g /\ n = m
  <2>1. Has(f, n)' = Has(f, n) /\ Has(g, m)' = Has(g, m)
    BY <1>1
  <2>2. Has(f, n) # 0 /\ Has(f, n) = Has(g, m)
    BY <2>1, <1>3
  <2> QED BY <2>2 DEF Apart
<1>4. ASSUME NEW p \in Procs, pc'[p] = "bwrite"
      PROVE  /\ got'[p] \in bits'
             /\ \A f \in Files, n \in Pieces : Has(f, n)' # got'[p]
             /\ \A q \in Procs : pc'[q] = "bwrite" /\ got'[q] = got'[p] => p = q
  <2>1. pc[p] = "bwrite" /\ got'[p] = got[p]
    BY <1>4 DEF SameTaken
  <2>2. \A f \in Files, n \in Pieces : Has(f, n)' # got'[p]
    BY <1>1, <2>1 DEF Apart
  <2>3. \A q \in Procs : pc'[q] = "bwrite" /\ got'[q] = got'[p] => p = q
    BY <2>1 DEF Apart, SameTaken
  <2>4. got'[p] \in bits'
    BY <2>1 DEF Apart
  <2> QED BY <2>2, <2>3, <2>4
<1> QED BY <1>2, <1>3, <1>4 DEF Apart

LEMMA KeptSame ==
  ASSUME Kept, SameHas, bits' \subseteq bits, SameTaken, boots' = boots
  PROVE  Kept'
<1>1. SUFFICES ASSUME boots = 0, NEW b \in bits'
               PROVE  \/ \E f \in Files, n \in Pieces : Has(f, n)' = b
                      \/ \E p \in Procs : pc'[p] = "bwrite" /\ got'[p] = b
  BY DEF Kept
<1>2. CASE \E f \in Files, n \in Pieces : Has(f, n) = b
  BY <1>2 DEF SameHas
<1>3. CASE \E p \in Procs : pc[p] = "bwrite" /\ got[p] = b
  BY <1>3 DEF SameTaken
<1> QED BY <1>1, <1>2, <1>3 DEF Kept

(* What is in files stays, as long as the pieces and the blocks do. *)
LEMMA HoldsSame ==
  ASSUME NEW f \in Files, NEW w \in Nat, SameHas, block' = block, Holds(f, w)
  PROVE  Holds(f, w)'
<1>1. w \div Words \in Nat /\ w \div Words < MAXFILE
  BY Division DEF Holds
<1>2. w \div Words \in Pieces
  BY <1>1, Numbers
<1>3. Has(f, w \div Words)' = Has(f, w \div Words)
  BY <1>2 DEF SameHas
<1> QED BY <1>3 DEF Holds
-----------------------------------------------------------------------------
(* The types of the variables. *)
LEMMA FreeNode ==
  /\ FreeInode \in Node /\ [FreeInode EXCEPT !.state = "named"] \in Node
  /\ [FreeInode EXCEPT !.state = "named"].state = "named"
  /\ [FreeInode EXCEPT !.state = "named"].size = 0
  /\ \A n \in 0 .. NDIRECT : [FreeInode EXCEPT !.state = "named"].addrs[n] = 0
<1>1. 0 \in 0 .. NBLOCKS /\ 0 \in 0 .. MAXFILE * Words
  <2>1. MAXFILE * Words \in Nat
    BY Numbers
  <2> QED BY <2>1, Numbers
<1>2. [n \in 0 .. NDIRECT |-> 0] \in [0 .. NDIRECT -> 0 .. NBLOCKS]
  BY <1>1
<1> QED BY <1>1, <1>2 DEF FreeInode, Node

LEMMA AddrNode ==
  ASSUME NEW node \in Node, NEW n, NEW b \in 0 .. NBLOCKS
  PROVE  /\ [node EXCEPT !.addrs[n] = b] \in Node
         /\ [node EXCEPT !.addrs[n] = b].state = node.state
         /\ [node EXCEPT !.addrs[n] = b].size = node.size
         /\ [node EXCEPT !.addrs[n] = b].addrs = [node.addrs EXCEPT ![n] = b]
<1>1. node.addrs \in [0 .. NDIRECT -> 0 .. NBLOCKS]
  BY DEF Node
<1>2. [node.addrs EXCEPT ![n] = b] \in [0 .. NDIRECT -> 0 .. NBLOCKS]
  BY <1>1
<1> QED BY <1>2 DEF Node

LEMMA AddrInode ==
  ASSUME TypeOK, NEW f \in Files, NEW n, NEW b \in 0 .. NBLOCKS,
         inode' = [inode EXCEPT ![f].addrs[n] = b]
  PROVE  /\ inode' \in [Files -> Node]
         /\ \A g \in Files : /\ inode'[g].state = inode[g].state
                             /\ inode'[g].size = inode[g].size
                             /\ g # f => inode'[g] = inode[g]
         /\ n \in 0 .. NDIRECT => inode'[f].addrs[n] = b
         /\ \A k \in 0 .. NDIRECT : k # n => inode'[f].addrs[k] = inode[f].addrs[k]
<1>1. inode \in [Files -> Node]
  BY DEF TypeOK
<1>2. PICK m \in Node : m = [inode[f] EXCEPT !.addrs[n] = b]
  BY <1>1, AddrNode
<1>3. m.state = inode[f].state /\ m.size = inode[f].size /\ m.addrs = [inode[f].addrs EXCEPT ![n] = b]
  BY <1>1, <1>2, AddrNode
<1>4. inode' = [inode EXCEPT ![f] = m]
  BY <1>2, <1>1
<1>5. inode[f].addrs \in [0 .. NDIRECT -> 0 .. NBLOCKS]
  BY <1>1 DEF Node
<1>6. /\ n \in 0 .. NDIRECT => m.addrs[n] = b
      /\ \A k \in 0 .. NDIRECT : k # n => m.addrs[k] = inode[f].addrs[k]
  BY <1>3, <1>5
<1> QED BY <1>1, <1>3, <1>4, <1>6

LEMMA StateInode ==
  ASSUME TypeOK, NEW f \in Files, NEW x \in {"free", "named", "dying"},
         inode' = [inode EXCEPT ![f].state = x]
  PROVE  /\ inode' \in [Files -> Node]
         /\ \A g \in Files : /\ g # f => inode'[g] = inode[g]
                             /\ inode'[g].addrs = inode[g].addrs
                             /\ inode'[g].size = inode[g].size
         /\ inode'[f].state = x
<1>1. inode \in [Files -> Node]
  BY DEF TypeOK
<1>2. PICK m \in Node : m = [inode[f] EXCEPT !.state = x]
  BY <1>1 DEF Node
<1>3. m.addrs = inode[f].addrs /\ m.size = inode[f].size /\ m.state = x
  BY <1>1, <1>2 DEF Node
<1>4. inode' = [inode EXCEPT ![f] = m]
  BY <1>2, <1>1
<1> QED BY <1>1, <1>3, <1>4

LEMMA SizeInode ==
  ASSUME TypeOK, NEW f \in Files, NEW x \in 0 .. MAXFILE * Words,
         inode' = [inode EXCEPT ![f].size = x]
  PROVE  /\ inode' \in [Files -> Node]
         /\ \A g \in Files : /\ g # f => inode'[g] = inode[g]
                             /\ inode'[g].addrs = inode[g].addrs
                             /\ inode'[g].state = inode[g].state
         /\ inode'[f].size = x
<1>1. inode \in [Files -> Node]
  BY DEF TypeOK
<1>2. PICK m \in Node : m = [inode[f] EXCEPT !.size = x]
  BY <1>1 DEF Node
<1>3. m.addrs = inode[f].addrs /\ m.state = inode[f].state /\ m.size = x
  BY <1>1, <1>2 DEF Node
<1>4. inode' = [inode EXCEPT ![f] = m]
  BY <1>2, <1>1
<1> QED BY <1>1, <1>3, <1>4

LEMMA InitTypes ==
  ASSUME Init
  PROVE  TypeOK
<1>1. FreeInode \in Node
  BY FreeNode
<1>2. Zeroes \in [0 .. Words - 1 -> Nat]
  BY DEF Zeroes
<1>3. 0 \in 0 .. NBLOCKS /\ 0 \in 0 .. MAXFILE + 1
  BY Numbers
<1> QED BY <1>1, <1>2, <1>3 DEF Init, TypeOK, All

LEMMA CreateTypes ==
  ASSUME TypeOK, NEW f \in Files, Create(f)
  PROVE  TypeOK'
<1>1. dinode' \in [Files -> Node] /\ inode' \in [Files -> Node]
  BY FreeNode DEF Create, TypeOK
<1>2. size' \in [Files -> Nat]
  BY DEF Create, TypeOK
<1> QED BY <1>1, <1>2 DEF Create, TypeOK, args

LEMMA WriteiTypes ==
  ASSUME TypeOK, NEW p \in Procs, NEW f \in Files, Writei(p, f)
  PROVE  TypeOK'
<1>1. PICK o \in 0 .. inode[f].size, n \in 1 .. MaxWrite :
        /\ off' = [off EXCEPT ![p] = o]
        /\ left' = [left EXCEPT ![p] = Smaller(n, MAXFILE * Words - o)]
  BY DEF Writei
<1>2. inode[f].size \in 0 .. MAXFILE * Words /\ MAXFILE * Words \in Nat
  BY Numbers DEF TypeOK, Node
<1>3. o \in Nat /\ Smaller(n, MAXFILE * Words - o) \in Nat
  BY <1>2, BlocksAssumption DEF Smaller
<1>4. off' \in [Procs -> Nat] /\ left' \in [Procs -> Nat]
  BY <1>1, <1>3 DEF TypeOK
<1>5. busy' \in [Files -> Procs \cup {NoProc}] /\ cur' \in [Procs -> Files \cup {0}]
      /\ pc' \in [Procs -> {"user", "write", "bwrite", "itrunc", "bfree", "ifree"}]
  BY DEF Writei, TypeOK, Goto
<1> QED BY <1>4, <1>5 DEF Writei, TypeOK, ondisk

LEMMA BmapInodeTypes ==
  ASSUME TypeOK, NEW p \in Procs, NEW c \in Files, cur[p] = c, BmapInode(p)
  PROVE  TypeOK'
<1>1. DEFINE b == Lowest(FreeBlocks)
<1>2. b \in BlockNos
  BY LowestIsFree DEF BmapInode
<1>3. bits' \subseteq BlockNos
  BY <1>2 DEF BmapInode, TypeOK, Balloc
<1>4. inode' = [inode EXCEPT ![cur[p]].addrs[Smaller(Bn(p), NDIRECT)] = b]
  BY DEF BmapInode
<1>5. b \in 0 .. NBLOCKS
  BY <1>2 DEF BlockNos
<1>6. inode' \in [Files -> Node]
  <2> HIDE DEF b
  <2> QED BY <1>4, <1>5, AddrInode
<1> QED BY <1>3, <1>6 DEF BmapInode, TypeOK, args

LEMMA BmapIndirectTypes ==
  ASSUME TypeOK, NEW p \in Procs, BmapIndirect(p)
  PROVE  TypeOK'
<1>1. Lowest(FreeBlocks) \in BlockNos /\ Lowest(FreeBlocks) \in 0 .. NBLOCKS
  BY LowestIsFree DEF BmapIndirect, BlockNos
<1>2. bits' \subseteq BlockNos
  BY <1>1 DEF BmapIndirect, TypeOK, Balloc
<1> QED BY <1>1, <1>2 DEF BmapIndirect, TypeOK, args, Goto

LEMMA BwriteIndirectTypes ==
  ASSUME TypeOK, NEW p \in Procs, BwriteIndirect(p)
  PROVE  TypeOK'
<1>1. got[p] \in Nat
  BY Numbers DEF TypeOK
<1>2. block' = [block EXCEPT ![Me(p).addrs[NDIRECT]][Bn(p) - NDIRECT] = got[p]]
  BY DEF BwriteIndirect
<1>3. block' \in [BlockNos -> [0 .. Words - 1 -> Nat]]
  BY <1>1, <1>2 DEF TypeOK
<1>4. got' \in [Procs -> 0 .. NBLOCKS]
  BY Numbers DEF BwriteIndirect, TypeOK
<1> QED BY <1>3, <1>4 DEF BwriteIndirect, TypeOK, args, Goto

LEMMA WriteDataTypes ==
  ASSUME TypeOK, NEW p \in Procs, NEW c \in Files, cur[p] = c, WriteData(p)
  PROVE  TypeOK' /\ Chunk(p) \in Nat \ {0} /\ Chunk(p) <= left[p]
         /\ Chunk(p) <= Words - (off[p] % Words)
<1>1. off[p] \in Nat /\ left[p] \in Nat /\ left[p] > 0
  BY DEF TypeOK, WriteData
<1>2. Chunk(p) \in Nat \ {0} /\ Chunk(p) <= left[p] /\ Chunk(p) <= Words - (off[p] % Words)
  <2>1. off[p] % Words \in 0 .. Words - 1
    BY <1>1, Division
  <2>2. Words - (off[p] % Words) \in Nat \ {0}
    BY <2>1, Numbers
  <2>3. Chunk(p) \in {left[p], Words - (off[p] % Words)} /\ Chunk(p) <= left[p]
        /\ Chunk(p) <= Words - (off[p] % Words)
    BY <1>1, <2>2 DEF Chunk, Smaller
  <2> QED BY <1>1, <2>2, <2>3
<1>3. off' \in [Procs -> Nat] /\ left' \in [Procs -> Nat]
  <2>1. off[p] + Chunk(p) \in Nat /\ left[p] - Chunk(p) \in Nat
    BY <1>1, <1>2
  <2> QED BY <2>1 DEF WriteData, TypeOK
<1>4. block' \in [BlockNos -> [0 .. Words - 1 -> Nat]]
  <2>1. c \in Nat
    BY BlocksAssumption
  <2>2. \A b \in BlockNos : block'[b] \in [0 .. Words - 1 -> Nat]
    BY <2>1 DEF WriteData, TypeOK
  <2>3. DOMAIN block' = BlockNos /\ block' = [b \in BlockNos |-> block'[b]]
    BY DEF WriteData, TypeOK
  <2> QED BY <2>2, <2>3
<1> QED BY <1>2, <1>3, <1>4 DEF WriteData, TypeOK

LEMMA WriteEndsTypes ==
  ASSUME TypeOK, NEW p \in Procs, NEW c \in Files, cur[p] = c,
         off[p] <= MAXFILE * Words, WriteEnds(p)
  PROVE  TypeOK'
<1>1. busy' \in [Files -> Procs \cup {NoProc}] /\ cur' \in [Procs -> Files \cup {0}]
      /\ off' \in [Procs -> Nat] /\ left' \in [Procs -> Nat]
      /\ pc' \in [Procs -> {"user", "write", "bwrite", "itrunc", "bfree", "ifree"}]
  BY DEF WriteEnds, Done, Goto, TypeOK
<1>2. CASE ~(off[p] > Me(p).size)
  BY <1>1, <1>2 DEF WriteEnds, TypeOK
<1>3. CASE off[p] > Me(p).size
  <2>1. off[p] \in 0 .. MAXFILE * Words
    BY Numbers DEF TypeOK
  <2>2. inode' \in [Files -> Node]
    BY <1>3, <2>1, SizeInode DEF WriteEnds
  <2>3. dinode' \in [Files -> Node]
    <3>0. inode[c] \in Node
      BY DEF TypeOK
    <3>1. PICK m \in Node : m = [inode[c] EXCEPT !.size = off[p]]
      BY <2>1, <3>0 DEF Node
    <3>2. dinode' = [dinode EXCEPT ![c] = m]
      BY <1>3, <3>1 DEF WriteEnds, Grown, Me
    <3> QED BY <3>2 DEF TypeOK
  <2>4. size' \in [Files -> Nat]
    BY <1>3 DEF WriteEnds, TypeOK
  <2> QED BY <1>1, <2>2, <2>3, <2>4 DEF WriteEnds, TypeOK
<1> QED BY <1>2, <1>3

LEMMA UnlinkTypes ==
  ASSUME TypeOK, NEW p \in Procs, NEW f \in Files, Unlink(p, f)
  PROVE  TypeOK'
<1>1. inode' \in [Files -> Node] /\ dinode' \in [Files -> Node]
  <2>1. inode' \in [Files -> Node]
    BY StateInode DEF Unlink
  <2>0. dinode[f] \in Node
    BY DEF TypeOK
  <2>2. PICK m \in Node : m = [dinode[f] EXCEPT !.state = "dying"]
    BY <2>0 DEF Node
  <2>3. dinode' = [dinode EXCEPT ![f] = m]
    BY <2>2 DEF Unlink, Unnamed, TypeOK
  <2> QED BY <2>1, <2>3 DEF TypeOK
<1>2. piece' \in [Procs -> 0 .. MAXFILE + 1]
  BY Numbers DEF Unlink, TypeOK
<1>3. busy' \in [Files -> Procs \cup {NoProc}] /\ cur' \in [Procs -> Files \cup {0}]
      /\ pc' \in [Procs -> {"user", "write", "bwrite", "itrunc", "bfree", "ifree"}]
  BY DEF Unlink, Goto, TypeOK
<1> QED BY <1>1, <1>2, <1>3 DEF Unlink, TypeOK

LEMMA SkipTypes ==
  ASSUME TypeOK, NEW p \in Procs, Skip(p)
  PROVE  TypeOK'
<1>1. piece' \in [Procs -> 0 .. MAXFILE + 1]
  BY Numbers DEF Skip, TypeOK
<1> QED BY <1>1 DEF Skip, TypeOK, ondisk, args

LEMMA BzeroTypes ==
  ASSUME TypeOK, NEW p \in Procs, PieceAt(p) \in BlockNos, Bzero(p)
  PROVE  TypeOK'
<1>1. got' \in [Procs -> 0 .. NBLOCKS]
  BY DEF Bzero, TypeOK, BlockNos
<1>2. block' \in [BlockNos -> [0 .. Words - 1 -> Nat]]
  BY DEF Bzero, Bzeroed, TypeOK, Zeroes
<1> QED BY <1>1, <1>2 DEF Bzero, TypeOK, args, Goto

LEMMA BfreeTypes ==
  ASSUME TypeOK, NEW p \in Procs, NEW c \in Files, cur[p] = c,
         piece[p] \in Pieces, Bfree(p)
  PROVE  TypeOK'
<1>1. piece' \in [Procs -> 0 .. MAXFILE + 1] /\ got' \in [Procs -> 0 .. NBLOCKS]
  BY Numbers DEF Bfree, TypeOK
<1>2. inode' \in [Files -> Node]
  <2>1. 0 \in 0 .. NBLOCKS
    BY Numbers
  <2>2. CASE piece[p] < NDIRECT \/ piece[p] = MAXFILE
    BY <2>1, <2>2, AddrInode DEF Bfree
  <2>3. CASE ~(piece[p] < NDIRECT \/ piece[p] = MAXFILE)
    BY <2>3 DEF Bfree, TypeOK
  <2> QED BY <2>2, <2>3
<1> QED BY <1>1, <1>2 DEF Bfree, TypeOK, args, Goto

LEMMA TruncatedTypes ==
  ASSUME TypeOK, NEW p \in Procs, NEW c \in Files, cur[p] = c, Truncated(p)
  PROVE  TypeOK'
<1>1. 0 \in 0 .. MAXFILE * Words
  BY Numbers
<1>2. inode' \in [Files -> Node]
  BY <1>1, SizeInode DEF Truncated
<1>3. dinode' \in [Files -> Node]
  BY <1>2 DEF Truncated, TypeOK
<1>4. piece' \in [Procs -> 0 .. MAXFILE + 1]
  BY Numbers DEF Truncated, TypeOK
<1> QED BY <1>2, <1>3, <1>4 DEF Truncated, TypeOK, args, Goto

LEMMA IfreeTypes ==
  ASSUME TypeOK, NEW p \in Procs, NEW c \in Files, cur[p] = c, Ifree(p)
  PROVE  TypeOK'
<1>1. inode' \in [Files -> Node]
  BY StateInode DEF Ifree
<1>2. dinode' \in [Files -> Node]
  BY <1>1 DEF Ifree, TypeOK
<1> QED BY <1>1, <1>2 DEF Ifree, TypeOK, Done, Goto

LEMMA CrashTypes ==
  ASSUME TypeOK, Crash
  PROVE  TypeOK'
<1>1. 0 \in 0 .. NBLOCKS /\ 0 \in 0 .. MAXFILE + 1
  BY Numbers
<1> QED BY <1>1 DEF Crash, TypeOK, All, ondisk
-----------------------------------------------------------------------------
(* A step of one call, at one inode, and what it leaves alone. *)
Mine(p, c) ==
  /\ p \in Procs /\ pc[p] # "user" => cur[p] = c
  /\ \A q \in Procs \ {p} : pc[q] # "user" => cur[q] # c
Local(p, c) ==
  /\ \A q \in Procs \ {p} :
       /\ pc'[q] = pc[q] /\ cur'[q] = cur[q] /\ off'[q] = off[q] /\ left'[q] = left[q]
       /\ got'[q] = got[q] /\ piece'[q] = piece[q]
  /\ \A f \in Files \ {c} :
       /\ inode'[f] = inode[f] /\ dinode'[f] = dinode[f]
       /\ busy'[f] = busy[f] /\ size'[f] = size[f]
  /\ p \in Procs /\ pc'[p] # "user" => cur'[p] = c
OtherBlocks(c) ==
  \A f \in Files \ {c}, n \in Pieces :
    /\ Has(f, n)' = Has(f, n)
    /\ Has(f, n) # 0 => block'[Has(f, n)] = block[Has(f, n)]

LEMMA MineActive ==
  ASSUME \A q \in Procs : CallOf(q), NEW p \in Procs, pc[p] # "user"
  PROVE  cur[p] \in Files /\ busy[cur[p]] = p /\ Mine(p, cur[p])
<1>1. cur[p] \in Files /\ busy[cur[p]] = p
  BY DEF CallOf
<1>2. ASSUME NEW q \in Procs \ {p}, pc[q] # "user", cur[q] = cur[p]
      PROVE  FALSE
  <2>1. busy[cur[q]] = q
    BY <1>1, <1>2 DEF CallOf
  <2> QED BY <1>1, <1>2, <2>1
<1> QED BY <1>1, <1>2 DEF Mine

LEMMA MineIdle ==
  ASSUME \A q \in Procs : CallOf(q), NEW c \in Files, busy[c] = NoProc,
         NEW p, p \in Procs => pc[p] = "user"
  PROVE  Mine(p, c)
<1>1. ASSUME NEW q \in Procs, pc[q] # "user", cur[q] = c
      PROVE  FALSE
  <2>1. busy[c] = q
    BY <1>1 DEF CallOf
  <2> QED BY <2>1, BlocksAssumption
<1> QED BY <1>1 DEF Mine

LEMMA KeepsOthers ==
  ASSUME NEW p, NEW c, Mine(p, c), Local(p, c), NEW f \in Files \ {c}, NEW n \in Pieces
  PROVE  Keeps(f, n)' <=> Keeps(f, n)
<1>1. inode'[f].state = inode[f].state
  BY DEF Local
<1>2. ASSUME NEW q \in Procs
      PROVE  Cutting(q, f)' /\ n >= piece'[q] <=> Cutting(q, f) /\ n >= piece[q]
  <2>1. CASE q = p
    BY <2>1 DEF Mine, Local, Cutting
  <2>2. CASE q # p
    BY <2>2 DEF Local, Cutting
  <2> QED BY <2>1, <2>2
<1> QED BY <1>1, <1>2 DEF Keeps

LEMMA SameBlocks ==
  ASSUME NEW p, NEW c, Mine(p, c), Local(p, c), block' = block
  PROVE  OtherBlocks(c)
<1>1. SUFFICES ASSUME NEW f \in Files \ {c}, NEW n \in Pieces
               PROVE  Has(f, n)' = Has(f, n)
  BY DEF OtherBlocks
<1>2. Keeps(f, n)' <=> Keeps(f, n)
  BY KeepsOthers
<1>3. inode'[f] = inode[f]
  BY DEF Local
<1>4. Owns(inode[f], n)' = Owns(inode[f], n)
  BY <1>3 DEF Owns, Bmap
<1> QED BY <1>2, <1>4 DEF Has

(* One block is written: it is a piece of c. *)
LEMMA OneBlock ==
  ASSUME TypeOK, Apart, NEW p, NEW c \in Files, Mine(p, c), Local(p, c),
         NEW m \in Pieces, Has(c, m) # 0,
         \A x \in BlockNos : x # Has(c, m) => block'[x] = block[x]
  PROVE  OtherBlocks(c)
<1>1. SUFFICES ASSUME NEW f \in Files \ {c}, NEW n \in Pieces
               PROVE  /\ Has(f, n)' = Has(f, n)
                      /\ Has(f, n) # 0 => block'[Has(f, n)] = block[Has(f, n)]
  BY DEF OtherBlocks
<1>2. Keeps(f, n)' <=> Keeps(f, n)
  BY KeepsOthers
<1>3. inode'[f] = inode[f]
  BY DEF Local
<1>4. \A k \in Pieces : Has(f, k) # 0 => Has(f, k) \in BlockNos /\ Has(f, k) # Has(c, m)
  BY DEF Apart, TypeOK
<1>5. CASE Keeps(f, n)
  <2>1. Has(f, MAXFILE) = inode[f].addrs[NDIRECT] /\ MAXFILE \in Pieces
    BY <1>5, HasIndirect, Numbers
  <2>2. inode[f].addrs[NDIRECT] # 0 => block'[inode[f].addrs[NDIRECT]] = block[inode[f].addrs[NDIRECT]]
    BY <2>1, <1>4
  <2>3. Owns(inode[f], n)' = Owns(inode[f], n)
    BY <1>3, <2>2 DEF Owns, Bmap
  <2> QED BY <1>2, <1>4, <1>5, <2>3 DEF Has
<1>6. CASE ~Keeps(f, n)
  BY <1>2, <1>6 DEF Has
<1> QED BY <1>5, <1>6

(* The calls and files that the step is not about. *)
LEMMA HoldsOther ==
  ASSUME NEW c, NEW f \in Files \ {c}, NEW w \in Nat, OtherBlocks(c), Holds(f, w)
  PROVE  Holds(f, w)'
<1>1. w \div Words \in Pieces
  BY Division, Numbers DEF Holds
<1>2. Has(f, w \div Words)' = Has(f, w \div Words) /\ Has(f, w \div Words) # 0
  BY <1>1 DEF OtherBlocks, Holds
<1>3. block'[Has(f, w \div Words)] = block[Has(f, w \div Words)]
  BY <1>1, <1>2 DEF OtherBlocks
<1> QED BY <1>2, <1>3 DEF Holds

LEMMA OtherCall ==
  ASSUME NEW p, NEW c, Mine(p, c), Local(p, c), OtherBlocks(c),
         NEW q \in Procs \ {p}, CallOf(q)
  PROVE  CallOf(q)'
<1>1. /\ pc'[q] = pc[q] /\ cur'[q] = cur[q] /\ off'[q] = off[q] /\ left'[q] = left[q]
      /\ got'[q] = got[q] /\ piece'[q] = piece[q]
  BY DEF Local
<1>2. pc'[q] # "user" => cur'[q] \in Files
  BY <1>1 DEF CallOf
<1>3. SUFFICES ASSUME NEW f \in Files, pc'[q] # "user", cur'[q] = f
      PROVE  (/\ busy[f] = q
              /\ Writing(q) => inode[f].state = "named" /\ off[q] + left[q] <= MAXFILE * Words
              /\ ~Writing(q) => inode[f].state = "dying"
              /\ pc[q] = "bwrite" =>
                   /\ left[q] > 0 /\ Bn(q) >= NDIRECT /\ inode[f].addrs[NDIRECT] # 0
                   /\ \A n \in Pieces : n = Bn(q) => Has(f, n) = 0
              /\ pc[q] = "bfree" =>
                   /\ piece[q] \in Pieces /\ got[q] # 0 /\ block[got[q]] = Zeroes
                   /\ \A n \in Pieces : n = piece[q] => got[q] = Has(f, n))'
  BY <1>2 DEF CallOf
<1>4. f \in Files \ {c} /\ pc[q] # "user" /\ cur[q] = f
  BY <1>1, <1>3 DEF Mine
<1>5. inode'[f] = inode[f] /\ busy'[f] = busy[f]
  BY <1>4 DEF Local
<1>6. \A n \in Pieces : Has(f, n)' = Has(f, n)
  BY <1>4 DEF OtherBlocks
<1>7. Bn(q)' = Bn(q) /\ (Writing(q)' <=> Writing(q))
  BY <1>1 DEF Bn, Writing
<1>8. pc[q] = "bfree" => block'[got[q]] = block[got[q]]
  BY <1>4 DEF CallOf, OtherBlocks
<1> QED BY <1>1, <1>4, <1>5, <1>6, <1>7, <1>8 DEF CallOf

LEMMA OtherPassed ==
  ASSUME NEW p, NEW c, Mine(p, c), Local(p, c), OtherBlocks(c),
         NEW q \in Procs \ {p}, PassedOf(q)
  PROVE  PassedOf(q)'
<1>1. pc'[q] = pc[q] /\ cur'[q] = cur[q] /\ off'[q] = off[q]
  BY DEF Local
<1>2. SUFFICES ASSUME NEW f \in Files, NEW w \in Nat, Writing(q)', cur'[q] = f, w < off'[q]
               PROVE  Holds(f, w)'
  BY DEF PassedOf
<1>3. Writing(q) /\ cur[q] = f /\ w < off[q]
  BY <1>1, <1>2 DEF Writing
<1>4. Holds(f, w)
  BY <1>3 DEF PassedOf
<1>5. f \in Files \ {c}
  BY <1>3 DEF Mine, Writing
<1> QED BY <1>4, <1>5, HoldsOther

LEMMA OtherFile ==
  ASSUME NEW p, NEW c, Mine(p, c), Local(p, c), OtherBlocks(c), TypeOK,
         NEW f \in Files \ {c}, LockOf(f), CopyOf(f), DataOf(f)
  PROVE  LockOf(f)' /\ CopyOf(f)' /\ DataOf(f)'
<1>1. inode'[f] = inode[f] /\ dinode'[f] = dinode[f] /\ busy'[f] = busy[f] /\ size'[f] = size[f]
  BY DEF Local
<1>2. LockOf(f)'
  <2>1. SUFFICES ASSUME busy[f] # NoProc PROVE pc'[busy[f]] # "user" /\ cur'[busy[f]] = f
    BY <1>1 DEF LockOf
  <2>2. busy[f] \in Procs /\ pc[busy[f]] # "user" /\ cur[busy[f]] = f
    BY <2>1 DEF LockOf, TypeOK
  <2>3. busy[f] \in Procs \ {p}
    BY <2>2 DEF Mine
  <2> QED BY <2>2, <2>3 DEF Local
<1>3. CopyOf(f)'
  <2>1. ASSUME NEW q \in Procs, Writing(q), cur[q] = f, off[q] + left[q] > size[f]
        PROVE  Writing(q)' /\ cur'[q] = f /\ off'[q] + left'[q] > size'[f]
    <3>1. q \in Procs \ {p}
      BY <2>1 DEF Mine, Writing
    <3> QED BY <3>1, <2>1, <1>1 DEF Local, Writing
  <2> QED BY <1>1, <2>1 DEF CopyOf
<1>4. DataOf(f)'
  <2>1. SUFFICES ASSUME NEW w \in Nat, inode'[f].state = "named", w < size'[f]
                 PROVE  Holds(f, w)' /\ Leads(f, w)'
    BY DEF DataOf
  <2>2. Holds(f, w) /\ Leads(f, w)
    BY <1>1, <2>1 DEF DataOf
  <2> QED BY <1>1, <2>2, HoldsOther DEF Leads
<1> QED BY <1>2, <1>3, <1>4
-----------------------------------------------------------------------------
(* A step at one inode keeps the invariant if it does for this inode and   *)
(* this call, and for what is said of all blocks.                          *)
LEMMA Assembled ==
  ASSUME BlocksInv, NEW p, NEW c \in Files,
         Mine(p, c), Local(p, c), OtherBlocks(c),
         TypeOK', Apart', Kept', FreeZeroed', p \in Procs => CallOf(p)' /\ PassedOf(p)',
         LockOf(c)', CopyOf(c)', DataOf(c)'
  PROVE  BlocksInv'
<1>1. ASSUME NEW q \in Procs PROVE CallOf(q)' /\ PassedOf(q)'
  <2>1. CASE q = p
    BY <2>1
  <2>2. CASE q # p
    <3>1. CallOf(q) /\ PassedOf(q)
      BY DEF BlocksInv
    <3>2. q \in Procs \ {p}
      BY <2>2
    <3> QED BY <3>1, <3>2, OtherCall, OtherPassed
  <2> QED BY <2>1, <2>2
<1>2. ASSUME NEW f \in Files PROVE LockOf(f)' /\ CopyOf(f)' /\ DataOf(f)'
  <2>1. CASE f = c
    BY <2>1
  <2>2. CASE f # c
    <3>1. LockOf(f) /\ CopyOf(f) /\ DataOf(f) /\ TypeOK
      BY DEF BlocksInv
    <3>2. f \in Files \ {c}
      BY <2>2
    <3> QED BY <3>1, <3>2, OtherFile
  <2> QED BY <2>1, <2>2
<1> QED BY <1>1, <1>2 DEF BlocksInv

(* A free block, or one that balloc() has given to a call, becomes a piece. *)
Gains(c, m, b) ==
  \A f \in Files, n \in Pieces : Has(f, n)' = IF f = c /\ n = m THEN b ELSE Has(f, n)
LEMMA ApartGains ==
  ASSUME Apart, NEW c \in Files, NEW m \in Pieces, NEW b, Gains(c, m, b), b \in bits', bits \subseteq bits',
         \A f \in Files, n \in Pieces : Has(f, n) # b,
         \A q \in Procs : pc'[q] = "bwrite" => pc[q] = "bwrite" /\ got'[q] = got[q] /\ got[q] # b
  PROVE  Apart'
<1>1. ASSUME NEW f \in Files, NEW n \in Pieces
      PROVE  /\ f = c /\ n = m => Has(f, n)' = b
             /\ ~(f = c /\ n = m) => Has(f, n)' = Has(f, n) /\ Has(f, n)' # b
  BY DEF Gains
<1>2. ASSUME NEW f \in Files, NEW n \in Pieces, Has(f, n)' # 0
      PROVE  Has(f, n)' \in bits'
  <2>1. CASE f = c /\ n = m
    BY <1>1, <2>1
  <2>2. CASE ~(f = c /\ n = m)
    <3>1. Has(f, n)' = Has(f, n)
      BY <1>1, <2>2
    <3> QED BY <3>1, <1>2 DEF Apart
  <2> QED BY <2>1, <2>2
<1>3. ASSUME NEW f \in Files, NEW g \in Files, NEW n \in Pieces, NEW k \in Pieces,
             Has(f, n)' # 0, Has(f, n)' = Has(g, k)'
      PROVE  f = g /\ n = k
  <2>1. CASE f = c /\ n = m
    BY <1>1, <1>3, <2>1
  <2>2. CASE ~(f = c /\ n = m)
    <3>1. Has(f, n)' = Has(f, n) /\ Has(f, n)' # b
      BY <1>1, <2>2
    <3>2. ~(g = c /\ k = m)
      BY <1>1, <1>3, <3>1
    <3>3. Has(g, k)' = Has(g, k)
      BY <1>1, <3>2
    <3>4. Has(f, n) # 0 /\ Has(f, n) = Has(g, k)
      BY <1>3, <3>1, <3>3
    <3> QED BY <3>4 DEF Apart
  <2> QED BY <2>1, <2>2
<1>4. ASSUME NEW q \in Procs, pc'[q] = "bwrite"
      PROVE  /\ got'[q] \in bits'
             /\ \A f \in Files, n \in Pieces : Has(f, n)' # got'[q]
             /\ \A r \in Procs : pc'[r] = "bwrite" /\ got'[r] = got'[q] => q = r
  <2>1. pc[q] = "bwrite" /\ got'[q] = got[q] /\ got[q] # b
    BY <1>4
  <2>2. got[q] \in bits /\ \A f \in Files, n \in Pieces : Has(f, n) # got[q]
    BY <2>1 DEF Apart
  <2>3. ASSUME NEW f \in Files, NEW n \in Pieces PROVE Has(f, n)' # got[q]
    BY <1>1, <2>1, <2>2
  <2>4. \A r \in Procs : pc'[r] = "bwrite" /\ got'[r] = got'[q] => q = r
    BY <2>1 DEF Apart
  <2> QED BY <2>1, <2>2, <2>3, <2>4
<1> QED BY <1>2, <1>3, <1>4 DEF Apart

LEMMA KeptGains ==
  ASSUME Kept, NEW c \in Files, NEW m \in Pieces, NEW b, Gains(c, m, b), Has(c, m) = 0,
         bits' \subseteq bits \cup {b}, bits \subseteq Nat \ {0}, boots' = boots,
         \A q \in Procs : pc[q] = "bwrite" => (pc'[q] = "bwrite" /\ got'[q] = got[q]) \/ got[q] = b
  PROVE  Kept'
<1>1. SUFFICES ASSUME boots = 0, NEW x \in bits'
               PROVE  \/ \E f \in Files, n \in Pieces : Has(f, n)' = x
                      \/ \E q \in Procs : pc'[q] = "bwrite" /\ got'[q] = x
  BY DEF Kept
<1>2. CASE x = b
  BY <1>2 DEF Gains
<1>3. CASE x # b
  <2>1. x \in bits /\ x # 0
    BY <1>3
  <2>2. ASSUME NEW f \in Files, NEW n \in Pieces, Has(f, n) = x
        PROVE  Has(f, n)' = x
    BY <2>1, <2>2 DEF Gains
  <2>3. ASSUME NEW q \in Procs, pc[q] = "bwrite", got[q] = x
        PROVE  pc'[q] = "bwrite" /\ got'[q] = x
    BY <1>3, <2>3
  <2> QED BY <1>1, <2>1, <2>2, <2>3 DEF Kept
<1> QED BY <1>2, <1>3

(* A piece is freed. *)
Loses(c, m) ==
  \A f \in Files, n \in Pieces : Has(f, n)' = IF f = c /\ n = m THEN 0 ELSE Has(f, n)
LEMMA ApartLoses ==
  ASSUME Apart, NEW c \in Files, NEW m \in Pieces, Has(c, m) # 0, Loses(c, m),
         bits' = bits \ {Has(c, m)}, 0 \notin bits, SameTaken
  PROVE  Apart'
<1>1. ASSUME NEW f \in Files, NEW n \in Pieces, Has(f, n)' # 0
      PROVE  Has(f, n)' = Has(f, n) /\ Has(f, n) # Has(c, m)
  <2>1. ~(f = c /\ n = m) /\ Has(f, n)' = Has(f, n)
    BY <1>1 DEF Loses
  <2> QED BY <2>1 DEF Apart
<1>2. ASSUME NEW f \in Files, NEW n \in Pieces, Has(f, n)' # 0
      PROVE  Has(f, n)' \in bits'
  BY <1>1, <1>2 DEF Apart
<1>3. ASSUME NEW f \in Files, NEW g \in Files, NEW n \in Pieces, NEW k \in Pieces,
             Has(f, n)' # 0, Has(f, n)' = Has(g, k)'
      PROVE  f = g /\ n = k
  <2>1. Has(f, n) # 0 /\ Has(f, n) = Has(g, k)
    BY <1>1, <1>3
  <2> QED BY <2>1 DEF Apart
<1>4. ASSUME NEW q \in Procs, pc'[q] = "bwrite"
      PROVE  /\ got'[q] \in bits'
             /\ \A f \in Files, n \in Pieces : Has(f, n)' # got'[q]
             /\ \A r \in Procs : pc'[r] = "bwrite" /\ got'[r] = got'[q] => q = r
  <2>1. pc[q] = "bwrite" /\ got'[q] = got[q]
    BY <1>4 DEF SameTaken
  <2>2. got[q] \in bits /\ \A f \in Files, n \in Pieces : Has(f, n) # got[q]
    BY <2>1 DEF Apart
  <2>3. \A f \in Files, n \in Pieces : Has(f, n)' # got'[q]
    BY <2>1, <2>2 DEF Loses
  <2>4. \A r \in Procs : pc'[r] = "bwrite" /\ got'[r] = got'[q] => q = r
    BY <2>1 DEF Apart, SameTaken
  <2>5. got'[q] \in bits'
    BY <2>1, <2>2
  <2> QED BY <2>3, <2>4, <2>5
<1> QED BY <1>2, <1>3, <1>4 DEF Apart

LEMMA KeptLoses ==
  ASSUME Kept, NEW c \in Files, NEW m \in Pieces, Loses(c, m),
         bits' = bits \ {Has(c, m)}, SameTaken, boots' = boots
  PROVE  Kept'
<1>1. SUFFICES ASSUME boots = 0, NEW x \in bits'
               PROVE  \/ \E f \in Files, n \in Pieces : Has(f, n)' = x
                      \/ \E q \in Procs : pc'[q] = "bwrite" /\ got'[q] = x
  BY DEF Kept
<1>2. x \in bits /\ x # Has(c, m)
  OBVIOUS
<1>3. ASSUME NEW f \in Files, NEW n \in Pieces, Has(f, n) = x
      PROVE  Has(f, n)' = x
  BY <1>2, <1>3 DEF Loses
<1>4. ASSUME NEW q \in Procs, pc[q] = "bwrite", got[q] = x
      PROVE  pc'[q] = "bwrite" /\ got'[q] = x
  BY <1>4 DEF SameTaken
<1> QED BY <1>1, <1>2, <1>3, <1>4 DEF Kept

(* balloc() gives a block to a call. *)
LEMMA ApartTaken ==
  ASSUME Apart, SameHas, NEW p \in Procs, NEW b, b \notin bits, bits' = bits \cup {b}, b # 0,
         got'[p] = b, pc[p] # "bwrite",
         \A q \in Procs \ {p} : pc'[q] = pc[q] /\ got'[q] = got[q]
  PROVE  Apart'
<1>1. ASSUME NEW f \in Files, NEW n \in Pieces
      PROVE  Has(f, n)' = Has(f, n) /\ Has(f, n) # b
  BY DEF SameHas, Apart
<1>2. ASSUME NEW f \in Files, NEW n \in Pieces, Has(f, n)' # 0
      PROVE  Has(f, n)' \in bits'
  BY <1>1, <1>2 DEF Apart
<1>3. ASSUME NEW f \in Files, NEW g \in Files, NEW n \in Pieces, NEW k \in Pieces,
             Has(f, n)' # 0, Has(f, n)' = Has(g, k)'
      PROVE  f = g /\ n = k
  <2>1. Has(f, n) # 0 /\ Has(f, n) = Has(g, k)
    BY <1>1, <1>3
  <2> QED BY <2>1 DEF Apart
<1>4. ASSUME NEW q \in Procs, pc'[q] = "bwrite"
      PROVE  /\ got'[q] \in bits'
             /\ \A f \in Files, n \in Pieces : Has(f, n)' # got'[q]
             /\ \A r \in Procs : pc'[r] = "bwrite" /\ got'[r] = got'[q] => q = r
  <2>1. ASSUME NEW r \in Procs, pc'[r] = "bwrite", r # p
        PROVE  pc[r] = "bwrite" /\ got'[r] = got[r] /\ got[r] \in bits
    BY <2>1 DEF Apart
  <2>2. CASE q = p
    <3>1. got'[q] = b
      BY <2>2
    <3>2. \A f \in Files, n \in Pieces : Has(f, n)' # b
      BY <1>1
    <3>3. \A r \in Procs : pc'[r] = "bwrite" /\ got'[r] = b => q = r
      BY <2>1, <2>2
    <3> QED BY <3>1, <3>2, <3>3
  <2>3. CASE q # p
    <3>1. pc[q] = "bwrite" /\ got'[q] = got[q] /\ got[q] \in bits
      BY <2>1, <2>3, <1>4
    <3>2. \A f \in Files, n \in Pieces : Has(f, n)' # got'[q]
      BY <1>1, <3>1 DEF Apart
    <3>3. \A r \in Procs : pc'[r] = "bwrite" /\ got'[r] = got'[q] => q = r
      <4>1. SUFFICES ASSUME NEW r \in Procs, pc'[r] = "bwrite", got'[r] = got'[q] PROVE q = r
        OBVIOUS
      <4>2. r # p
        BY <3>1, <4>1
      <4>3. pc[r] = "bwrite" /\ got[r] = got[q]
        BY <2>1, <3>1, <4>1, <4>2
      <4> QED BY <3>1, <4>3 DEF Apart
    <3> QED BY <3>1, <3>2, <3>3
  <2> QED BY <2>2, <2>3
<1> QED BY <1>2, <1>3, <1>4 DEF Apart

LEMMA KeptTaken ==
  ASSUME Kept, SameHas, NEW p \in Procs, NEW b, bits' = bits \cup {b}, boots' = boots,
         pc'[p] = "bwrite", got'[p] = b, pc[p] # "bwrite",
         \A q \in Procs \ {p} : pc'[q] = pc[q] /\ got'[q] = got[q]
  PROVE  Kept'
<1>1. SUFFICES ASSUME boots = 0, NEW x \in bits'
               PROVE  \/ \E f \in Files, n \in Pieces : Has(f, n)' = x
                      \/ \E q \in Procs : pc'[q] = "bwrite" /\ got'[q] = x
  BY DEF Kept
<1>2. CASE x = b
  BY <1>2
<1>3. CASE x # b
  <2>1. ASSUME NEW f \in Files, NEW n \in Pieces, Has(f, n) = x
        PROVE  Has(f, n)' = x
    BY <2>1 DEF SameHas
  <2>2. ASSUME NEW q \in Procs, pc[q] = "bwrite", got[q] = x
        PROVE  pc'[q] = "bwrite" /\ got'[q] = x
    BY <2>2
  <2> QED BY <1>1, <1>3, <2>1, <2>2 DEF Kept
<1> QED BY <1>2, <1>3

(* A free block is zero: who writes a block writes one in use. *)
LEMMA ZeroedSame ==
  ASSUME FreeZeroed, block' = block, bits \subseteq bits'
  PROVE  FreeZeroed'
  BY DEF FreeZeroed, FreeBlocks

LEMMA ZeroedWrite ==
  ASSUME FreeZeroed, NEW b, b \in bits, \A x \in BlockNos : x # b => block'[x] = block[x], bits' = bits
  PROVE  FreeZeroed'
  BY DEF FreeZeroed, FreeBlocks
-----------------------------------------------------------------------------
(* The actions. *)
LEMMA Together ==
  ASSUME NEW c \in Files, OtherBlocks(c), \A n \in Pieces : Has(c, n)' = Has(c, n)
  PROVE  SameHas
<1>1. SUFFICES ASSUME NEW f \in Files, NEW n \in Pieces PROVE Has(f, n)' = Has(f, n)
  BY DEF SameHas
<1>2. CASE f = c
  BY <1>2
<1>3. CASE f # c
  BY <1>3 DEF OtherBlocks
<1> QED BY <1>2, <1>3

LEMMA CreateStep ==
  ASSUME BlocksInv, NEW f \in Files, Create(f)
  PROVE  BlocksInv'
<1>1. /\ TypeOK /\ Apart /\ Kept /\ FreeZeroed
      /\ \A q \in Procs : CallOf(q)
      /\ CopyOf(f)
  BY DEF BlocksInv
<1>2. /\ dinode[f].state = "free" /\ busy[f] = NoProc /\ busy' = busy /\ block' = block /\ bits' = bits
      /\ pc' = pc /\ got' = got /\ boots' = boots
      /\ dinode' = [dinode EXCEPT ![f] = [FreeInode EXCEPT !.state = "named"]]
      /\ inode' = [inode EXCEPT ![f] = dinode'[f]]
      /\ size' = [size EXCEPT ![f] = 0]
  BY DEF Create
<1>3. TypeOK'
  BY <1>1, CreateTypes
<1>4. NoProc \notin Procs
  BY BlocksAssumption
<1>5. Mine(NoProc, f)
  BY <1>1, <1>2, <1>4, MineIdle
<1>6. Local(NoProc, f)
  <2>1. \A g \in Files \ {f} : dinode'[g] = dinode[g] /\ inode'[g] = inode[g] /\ size'[g] = size[g]
    BY <1>1, <1>2 DEF TypeOK
  <2> QED BY <1>2, <1>4, <2>1 DEF Local, Create, args
<1>7. OtherBlocks(f)
  BY <1>2, <1>5, <1>6, SameBlocks
<1>8. inode'[f] = [FreeInode EXCEPT !.state = "named"] /\ dinode'[f] = inode'[f] /\ size'[f] = 0
  BY <1>1, <1>2 DEF TypeOK
<1>9. ASSUME NEW n \in Pieces PROVE Has(f, n)' = Has(f, n)
  <2>1. \A k \in 0 .. NDIRECT : inode'[f].addrs[k] = 0
    BY <1>8, FreeNode
  <2>2. Owns(inode[f], n)' = 0
    <3>1. n \in Nat /\ NDIRECT \in Nat /\ inode'[f].addrs[NDIRECT] = 0
      BY <2>1, Numbers
    <3>2. n < NDIRECT => inode'[f].addrs[n] = 0
      BY <2>1, <3>1
    <3> QED BY <3>1, <3>2 DEF Owns, Bmap
  <2>3. Has(f, n)' = 0
    BY <2>2 DEF Has
  <2>4. ~Keeps(f, n)
    BY <1>1, <1>2 DEF CopyOf, CallOf, Keeps, Cutting, Writing
  <2> QED BY <2>3, <2>4 DEF Has
<1>10. SameHas /\ SameTaken
  BY <1>2, <1>7, <1>9, Together DEF SameTaken
<1>11. Apart' /\ Kept' /\ FreeZeroed'
  <2>1. Apart'
    BY <1>1, <1>2, <1>10, ApartSame
  <2>2. Kept'
    BY <1>1, <1>2, <1>10, KeptSame
  <2>3. FreeZeroed'
    BY <1>1, <1>2, ZeroedSame
  <2> QED BY <2>1, <2>2, <2>3
<1>12. LockOf(f)'
  BY <1>2 DEF LockOf
<1>13. CopyOf(f)'
  <2>1. inode'[f].size = 0
    BY <1>8, FreeNode
  <2> QED BY <1>8, <2>1 DEF CopyOf
<1>14. DataOf(f)'
  BY <1>8 DEF DataOf
<1> QED BY <1>3, <1>4, <1>5, <1>6, <1>7, <1>11, <1>12, <1>13, <1>14, Assembled

LEMMA WriteiStep ==
  ASSUME BlocksInv, NEW p \in Procs, NEW c \in Files, Writei(p, c)
  PROVE  BlocksInv'
<1>1. /\ TypeOK /\ Apart /\ Kept /\ FreeZeroed
      /\ \A q \in Procs : CallOf(q)
      /\ CopyOf(c) /\ DataOf(c)
  BY DEF BlocksInv
<1>2. /\ pc[p] = "user" /\ busy[c] = NoProc /\ inode[c].state = "named"
      /\ busy' = [busy EXCEPT ![c] = p] /\ pc' = [pc EXCEPT ![p] = "write"]
      /\ cur' = [cur EXCEPT ![p] = c]
      /\ bits' = bits /\ block' = block /\ dinode' = dinode /\ inode' = inode
      /\ got' = got /\ piece' = piece /\ boots' = boots /\ size' = size
  BY DEF Writei, At, Goto, ondisk
<1>3. PICK o \in 0 .. inode[c].size, n \in 1 .. MaxWrite :
        /\ off' = [off EXCEPT ![p] = o]
        /\ left' = [left EXCEPT ![p] = Smaller(n, MAXFILE * Words - o)]
  BY DEF Writei
<1>4. TypeOK'
  BY <1>1, WriteiTypes
<1>5. /\ pc'[p] = "write" /\ cur'[p] = c /\ off'[p] = o /\ busy'[c] = p
      /\ left'[p] = Smaller(n, MAXFILE * Words - o)
  BY <1>1, <1>2, <1>3 DEF TypeOK
<1>6. o \in Nat /\ o <= inode[c].size /\ o + left'[p] <= MAXFILE * Words
  <2>1. inode[c].size \in 0 .. MAXFILE * Words /\ MAXFILE * Words \in Nat
    BY <1>1, Numbers DEF TypeOK, Node
  <2>2. n \in Nat
    BY BlocksAssumption
  <2> QED BY <1>3, <1>5, <2>1, <2>2 DEF Smaller
<1>7. Mine(p, c)
  BY <1>1, <1>2, MineIdle
<1>8. Local(p, c)
  <2>1. \A q \in Procs \ {p} : pc'[q] = pc[q] /\ cur'[q] = cur[q] /\ off'[q] = off[q] /\ left'[q] = left[q]
    BY <1>1, <1>2, <1>3 DEF TypeOK
  <2>2. \A f \in Files \ {c} : busy'[f] = busy[f]
    BY <1>1, <1>2 DEF TypeOK
  <2> QED BY <1>2, <1>5, <2>1, <2>2 DEF Local
<1>9. OtherBlocks(c)
  BY <1>2, <1>7, <1>8, SameBlocks
<1>10. ASSUME NEW k \in Pieces PROVE Has(c, k)' = Has(c, k)
  <2>1. Owns(inode[c], k)' = Owns(inode[c], k)
    BY <1>2 DEF Owns, Bmap
  <2> QED BY <1>2, <2>1 DEF Has, Keeps
<1>11. SameHas /\ SameTaken
  <2>1. SameHas
    BY <1>9, <1>10, Together
  <2>2. SameTaken
    BY <1>2, <1>5, <1>8 DEF SameTaken, Local
  <2> QED BY <2>1, <2>2
<1>12. Apart' /\ Kept' /\ FreeZeroed'
  <2>1. Apart'
    BY <1>1, <1>2, <1>11, ApartSame
  <2>2. Kept'
    BY <1>1, <1>2, <1>11, KeptSame
  <2>3. FreeZeroed'
    BY <1>1, <1>2, ZeroedSame
  <2> QED BY <2>1, <2>2, <2>3
<1>13. ASSUME NEW w \in Nat, Holds(c, w) PROVE Holds(c, w)'
  BY <1>2, <1>11, <1>13, HoldsSame
<1>14. CallOf(p)'
  BY <1>2, <1>5, <1>6 DEF CallOf, Writing
<1>15. PassedOf(p)'
  <2>1. SUFFICES ASSUME NEW w \in Nat, w < o PROVE Holds(c, w)'
    BY <1>5 DEF PassedOf
  <2>2. inode[c].size = size[c] /\ size[c] \in Nat
    BY <1>1, <1>2 DEF CopyOf, TypeOK
  <2>3. w < size[c]
    BY <2>1, <2>2, <1>6
  <2>4. Holds(c, w)
    BY <1>1, <1>2, <2>3 DEF DataOf
  <2> QED BY <2>4, <1>13
<1>16. LockOf(c)'
  BY <1>5 DEF LockOf
<1>17. CopyOf(c)'
  <2>1. ASSUME NEW q \in Procs, Writing(q), cur[q] = c PROVE FALSE
    BY <1>7, <1>2, <2>1 DEF Mine, Writing
  <2>2. inode[c] = dinode[c]
    BY <1>1, <1>2, <2>1 DEF CopyOf
  <2> QED BY <1>1, <1>2, <2>2 DEF CopyOf
<1>18. DataOf(c)'
  BY <1>1, <1>2, <1>13 DEF DataOf, Leads
<1> QED BY <1>1, <1>4, <1>7, <1>8, <1>9, <1>12, <1>14, <1>15, <1>16, <1>17, <1>18, Assembled

LEMMA WriteEndsStep ==
  ASSUME BlocksInv, NEW p \in Procs, WriteEnds(p)
  PROVE  BlocksInv'
<1>1. /\ TypeOK /\ Apart /\ Kept /\ FreeZeroed
      /\ \A q \in Procs : CallOf(q)
      /\ \A f \in Files : CopyOf(f) /\ DataOf(f)
      /\ PassedOf(p)
  BY DEF BlocksInv
<1>2. PICK c : c = cur[p]
  OBVIOUS
<1>3. /\ pc[p] = "write" /\ left[p] = 0
      /\ busy' = [busy EXCEPT ![c] = NoProc] /\ pc' = [pc EXCEPT ![p] = "user"]
      /\ cur' = [cur EXCEPT ![p] = 0] /\ off' = [off EXCEPT ![p] = 0] /\ left' = [left EXCEPT ![p] = 0]
      /\ bits' = bits /\ block' = block /\ got' = got /\ piece' = piece /\ boots' = boots
  BY <1>2 DEF WriteEnds, At, Goto, Done
<1>4. /\ c \in Files /\ Mine(p, c) /\ inode[c].state = "named" /\ off[p] + left[p] <= MAXFILE * Words
      /\ off[p] \in Nat /\ left[p] \in Nat /\ CopyOf(c) /\ DataOf(c) /\ busy[c] = p
  <2>1. c \in Files /\ Mine(p, c) /\ busy[c] = p
    BY <1>1, <1>2, <1>3, MineActive
  <2> QED BY <1>1, <1>2, <1>3, <2>1 DEF CallOf, Writing, TypeOK
<1>5. TypeOK'
  BY <1>1, <1>2, <1>3, <1>4, WriteEndsTypes
<1>6. pc'[p] = "user" /\ busy'[c] = NoProc
  BY <1>1, <1>3, <1>4 DEF TypeOK
<1>7. /\ \A f \in Files \ {c} : inode'[f] = inode[f] /\ dinode'[f] = dinode[f] /\ size'[f] = size[f]
      /\ IF off[p] > inode[c].size
         THEN /\ dinode'[c] = inode'[c] /\ inode'[c].state = "named" /\ inode'[c].addrs = inode[c].addrs
              /\ inode'[c].size = off[p] /\ size'[c] = off[p]
         ELSE inode' = inode /\ dinode' = dinode /\ size' = size
  <2>1. CASE off[p] > inode[c].size
    <3>1. /\ inode' = [inode EXCEPT ![c].size = off[p]]
          /\ dinode' = [dinode EXCEPT ![c] = [inode[c] EXCEPT !.size = off[p]]]
          /\ size' = [size EXCEPT ![c] = off[p]]
      BY <1>2, <2>1 DEF WriteEnds, Grown, Me
    <3>2. off[p] \in 0 .. MAXFILE * Words
      BY <1>4, <1>3, Numbers
    <3>3. /\ \A g \in Files \ {c} : inode'[g] = inode[g]
          /\ inode'[c].addrs = inode[c].addrs /\ inode'[c].state = inode[c].state /\ inode'[c].size = off[p]
      BY <1>1, <1>4, <3>1, <3>2, SizeInode
    <3>4. dinode'[c] = inode'[c]
      BY <1>1, <1>4, <3>1 DEF TypeOK
    <3>5. \A g \in Files \ {c} : dinode'[g] = dinode[g] /\ size'[g] = size[g]
      BY <1>1, <3>1 DEF TypeOK
    <3>6. size'[c] = off[p]
      BY <1>1, <1>4, <3>1 DEF TypeOK
    <3> QED BY <1>4, <2>1, <3>3, <3>4, <3>5, <3>6
  <2>2. CASE ~(off[p] > inode[c].size)
    BY <1>2, <2>2 DEF WriteEnds, Me
  <2> QED BY <2>1, <2>2
<1>8. Local(p, c)
  <2>1. \A q \in Procs \ {p} : pc'[q] = pc[q] /\ cur'[q] = cur[q] /\ off'[q] = off[q] /\ left'[q] = left[q]
    BY <1>1, <1>3 DEF TypeOK
  <2>2. \A f \in Files \ {c} : busy'[f] = busy[f]
    BY <1>1, <1>3 DEF TypeOK
  <2> QED BY <1>3, <1>6, <1>7, <2>1, <2>2 DEF Local
<1>9. OtherBlocks(c)
  BY <1>3, <1>4, <1>8, SameBlocks
<1>10. inode'[c].state = "named" /\ inode'[c].addrs = inode[c].addrs
  BY <1>4, <1>7
<1>11. ASSUME NEW k \in Pieces PROVE Has(c, k)' = Has(c, k)
  <2>1. Owns(inode[c], k)' = Owns(inode[c], k)
    BY <1>3, <1>10 DEF Owns, Bmap
  <2> QED BY <1>4, <1>10, <2>1 DEF Has, Keeps
<1>12. SameHas /\ SameTaken
  <2>1. SameHas
    BY <1>4, <1>9, <1>11, Together
  <2>2. SameTaken
    BY <1>3, <1>6, <1>8 DEF SameTaken, Local
  <2> QED BY <2>1, <2>2
<1>13. Apart' /\ Kept' /\ FreeZeroed'
  <2>1. Apart'
    BY <1>1, <1>3, <1>12, ApartSame
  <2>2. Kept'
    BY <1>1, <1>3, <1>12, KeptSame
  <2>3. FreeZeroed'
    BY <1>1, <1>3, ZeroedSame
  <2> QED BY <2>1, <2>2, <2>3
<1>14. ASSUME NEW w \in Nat, Holds(c, w) PROVE Holds(c, w)'
  BY <1>3, <1>4, <1>12, <1>14, HoldsSame
<1>15. CallOf(p)' /\ PassedOf(p)'
  BY <1>6 DEF CallOf, PassedOf, Writing
<1>16. LockOf(c)'
  BY <1>6 DEF LockOf
<1>17. CopyOf(c)'
  <2>1. CASE off[p] > inode[c].size
    <3>1. /\ dinode'[c] = inode'[c] /\ inode'[c].size = size'[c]
      BY <1>7, <2>1
    <3>2. \A k \in 0 .. NDIRECT : dinode'[c].addrs[k] \in {0, inode'[c].addrs[k]}
      BY <3>1
    <3> QED BY <3>1, <3>2 DEF CopyOf
  <2>2. CASE ~(off[p] > inode[c].size)
    <3>1. inode' = inode /\ dinode' = dinode /\ size' = size
      BY <1>7, <2>2
    <3>2. ASSUME NEW q \in Procs, Writing(q), cur[q] = c, off[q] + left[q] > size[c] PROVE FALSE
      <4>1. q = p
        BY <1>4, <3>2 DEF Mine, Writing
      <4>2. inode[c].size = size[c] /\ size[c] \in Nat
        BY <1>1, <1>4 DEF CopyOf, TypeOK
      <4> QED BY <4>1, <4>2, <2>2, <3>2, <1>3, <1>4
    <3>3. inode[c] = dinode[c]
      BY <1>4, <3>2 DEF CopyOf
    <3> QED BY <1>4, <3>1, <3>3 DEF CopyOf
  <2> QED BY <2>1, <2>2
<1>18. DataOf(c)'
  <2>1. SUFFICES ASSUME NEW w \in Nat, w < size'[c] PROVE Holds(c, w)' /\ Leads(c, w)'
    BY DEF DataOf
  <2>2. CASE off[p] > inode[c].size
    <3>1. w < off[p] /\ dinode'[c].addrs = inode[c].addrs
      BY <1>7, <2>1, <2>2
    <3>2. Holds(c, w)
      BY <1>1, <1>2, <1>3, <1>4, <3>1 DEF PassedOf, Writing
    <3>3. inode[c].addrs[Smaller(w \div Words, NDIRECT)] # 0
      BY <1>4, <3>2, HoldsLeads
    <3> QED BY <1>14, <3>1, <3>2, <3>3 DEF Leads
  <2>3. CASE ~(off[p] > inode[c].size)
    <3>1. dinode' = dinode /\ size' = size
      BY <1>7, <2>3
    <3>2. Holds(c, w) /\ Leads(c, w)
      BY <1>4, <2>1, <3>1 DEF DataOf
    <3> QED BY <1>14, <3>1, <3>2 DEF Leads
  <2> QED BY <2>2, <2>3
<1> QED BY <1>4, <1>5, <1>8, <1>9, <1>13, <1>15, <1>16, <1>17, <1>18, Assembled

LEMMA UnlinkStep ==
  ASSUME BlocksInv, NEW p \in Procs, NEW c \in Files, Unlink(p, c)
  PROVE  BlocksInv'
<1>1. /\ TypeOK /\ Apart /\ Kept /\ FreeZeroed
      /\ \A q \in Procs : CallOf(q)
      /\ CopyOf(c)
  BY DEF BlocksInv
<1>2. /\ pc[p] = "user" /\ busy[c] = NoProc /\ inode[c].state = "named"
      /\ inode' = [inode EXCEPT ![c].state = "dying"]
      /\ dinode' = [dinode EXCEPT ![c].state = "dying"]
      /\ busy' = [busy EXCEPT ![c] = p] /\ pc' = [pc EXCEPT ![p] = "itrunc"]
      /\ cur' = [cur EXCEPT ![p] = c] /\ piece' = [piece EXCEPT ![p] = 0]
      /\ bits' = bits /\ block' = block /\ off' = off /\ left' = left
      /\ got' = got /\ boots' = boots /\ size' = size
  BY DEF Unlink, Unnamed, At, Goto
<1>3. TypeOK'
  BY <1>1, UnlinkTypes
<1>4. /\ pc'[p] = "itrunc" /\ cur'[p] = c /\ piece'[p] = 0 /\ busy'[c] = p
  BY <1>1, <1>2 DEF TypeOK
<1>5. /\ \A g \in Files \ {c} : inode'[g] = inode[g] /\ dinode'[g] = dinode[g]
      /\ inode'[c].state = "dying" /\ inode'[c].addrs = inode[c].addrs
      /\ dinode'[c].state = "dying"
  <2>1. /\ \A g \in Files \ {c} : inode'[g] = inode[g]
        /\ inode'[c].state = "dying" /\ inode'[c].addrs = inode[c].addrs
    BY <1>1, <1>2, StateInode
  <2>2. dinode[c] \in Node /\ dinode \in [Files -> Node]
    BY <1>1 DEF TypeOK
  <2>3. /\ \A g \in Files \ {c} : dinode'[g] = dinode[g]
        /\ dinode'[c].state = "dying"
    BY <1>2, <2>2 DEF Node
  <2> QED BY <2>1, <2>3
<1>6. Mine(p, c)
  BY <1>1, <1>2, MineIdle
<1>7. Local(p, c)
  <2>1. \A q \in Procs \ {p} : pc'[q] = pc[q] /\ cur'[q] = cur[q] /\ piece'[q] = piece[q]
    BY <1>1, <1>2 DEF TypeOK
  <2>2. \A f \in Files \ {c} : busy'[f] = busy[f]
    BY <1>1, <1>2 DEF TypeOK
  <2> QED BY <1>2, <1>4, <1>5, <2>1, <2>2 DEF Local
<1>8. OtherBlocks(c)
  BY <1>2, <1>6, <1>7, SameBlocks
<1>9. ASSUME NEW k \in Pieces PROVE Has(c, k)' = Has(c, k)
  <2>1. Owns(inode[c], k)' = Owns(inode[c], k)
    BY <1>2, <1>5 DEF Owns, Bmap
  <2>2. Keeps(c, k) /\ Keeps(c, k)'
    <3>1. k >= piece'[p]
      BY <1>4, Numbers
    <3> QED BY <1>2, <1>4, <3>1 DEF Keeps, Cutting
  <2> QED BY <2>1, <2>2 DEF Has
<1>10. SameHas /\ SameTaken
  <2>1. SameHas
    BY <1>8, <1>9, Together
  <2>2. SameTaken
    BY <1>2, <1>4, <1>7 DEF SameTaken, Local
  <2> QED BY <2>1, <2>2
<1>11. Apart' /\ Kept' /\ FreeZeroed'
  <2>1. Apart'
    BY <1>1, <1>2, <1>10, ApartSame
  <2>2. Kept'
    BY <1>1, <1>2, <1>10, KeptSame
  <2>3. FreeZeroed'
    BY <1>1, <1>2, ZeroedSame
  <2> QED BY <2>1, <2>2, <2>3
<1>12. CallOf(p)' /\ PassedOf(p)' /\ LockOf(c)'
  <2>1. CallOf(p)'
    BY <1>4, <1>5 DEF CallOf, Writing
  <2>2. PassedOf(p)' /\ LockOf(c)'
    BY <1>4 DEF PassedOf, Writing, LockOf
  <2> QED BY <2>1, <2>2
<1>13. CopyOf(c)' /\ DataOf(c)'
  BY <1>5 DEF CopyOf, DataOf
<1> QED BY <1>3, <1>6, <1>7, <1>8, <1>11, <1>12, <1>13, Assembled

(* What is common to the steps of itrunc() and iput(). *)
LEMMA CutFacts ==
  ASSUME BlocksInv, NEW p \in Procs, pc[p] \in {"itrunc", "bfree", "ifree"}
  PROVE  /\ cur[p] \in Files /\ Mine(p, cur[p]) /\ busy[cur[p]] = p
         /\ inode[cur[p]].state = "dying" /\ dinode[cur[p]].state = "dying"
         /\ piece[p] \in Nat
         /\ \A n \in Pieces : Keeps(cur[p], n) <=> (pc[p] # "ifree" /\ n >= piece[p])
<1>1. TypeOK /\ \A q \in Procs : CallOf(q)
  BY DEF BlocksInv
<1>2. cur[p] \in Files /\ Mine(p, cur[p]) /\ busy[cur[p]] = p
  BY <1>1, MineActive
<1>3. CopyOf(cur[p])
  BY <1>2 DEF BlocksInv
<1>4. inode[cur[p]].state = "dying" /\ dinode[cur[p]].state = "dying"
  BY <1>1, <1>2, <1>3 DEF CallOf, Writing, CopyOf
<1>5. piece[p] \in Nat
  BY <1>1, Numbers DEF TypeOK
<1>6. \A n \in Pieces : Keeps(cur[p], n) <=> (pc[p] # "ifree" /\ n >= piece[p])
  BY <1>2, <1>4 DEF Keeps, Cutting, Mine
<1> QED BY <1>2, <1>4, <1>5, <1>6

LEMMA SkipStep ==
  ASSUME BlocksInv, NEW p \in Procs, Skip(p)
  PROVE  BlocksInv'
<1>1. /\ TypeOK /\ Apart /\ Kept /\ FreeZeroed
      /\ \A q \in Procs : CallOf(q)
      /\ \A f \in Files : CopyOf(f) /\ LockOf(f)
  BY DEF BlocksInv
<1>2. PICK c : c = cur[p]
  OBVIOUS
<1>3. /\ pc[p] = "itrunc" /\ piece[p] \in Pieces /\ PieceAt(p) = 0
      /\ piece' = [piece EXCEPT ![p] = piece[p] + 1]
      /\ bits' = bits /\ block' = block /\ dinode' = dinode /\ inode' = inode /\ busy' = busy
      /\ pc' = pc /\ cur' = cur /\ off' = off /\ left' = left /\ got' = got /\ boots' = boots
      /\ size' = size
  BY DEF Skip, At, ondisk, args
<1>4. /\ c \in Files /\ Mine(p, c) /\ busy[c] = p
      /\ inode[c].state = "dying" /\ dinode[c].state = "dying" /\ piece[p] \in Nat
      /\ \A n \in Pieces : Keeps(c, n) <=> n >= piece[p]
  BY <1>2, <1>3, CutFacts
<1>5. TypeOK'
  BY <1>1, SkipTypes
<1>6. piece'[p] = piece[p] + 1
  BY <1>1, <1>3 DEF TypeOK
<1>7. Local(p, c)
  <2>1. \A q \in Procs \ {p} : piece'[q] = piece[q]
    BY <1>1, <1>3 DEF TypeOK
  <2> QED BY <1>2, <1>3, <2>1 DEF Local
<1>8. OtherBlocks(c)
  BY <1>3, <1>4, <1>7, SameBlocks
<1>9. ASSUME NEW k \in Pieces PROVE Has(c, k)' = Has(c, k)
  <2>1. Owns(inode[c], k)' = Owns(inode[c], k)
    BY <1>3 DEF Owns, Bmap
  <2>2. k \in Nat
    BY Numbers
  <2>3. Keeps(c, k)' <=> k >= piece[p] + 1
    BY <1>2, <1>3, <1>4, <1>6 DEF Keeps, Cutting, Mine
  <2>4. CASE k = piece[p]
    <3>1. Owns(inode[c], k) = 0
      BY <1>2, <1>3, <2>4, Numbers DEF PieceAt, Me, Owns
    <3> QED BY <2>1, <3>1 DEF Has
  <2>5. CASE k # piece[p]
    <3>1. Keeps(c, k)' <=> Keeps(c, k)
      BY <1>4, <2>2, <2>3, <2>5
    <3> QED BY <2>1, <3>1 DEF Has
  <2> QED BY <2>4, <2>5
<1>10. SameHas /\ SameTaken
  BY <1>3, <1>4, <1>8, <1>9, Together DEF SameTaken
<1>11. Apart' /\ Kept' /\ FreeZeroed'
  <2>1. Apart'
    BY <1>1, <1>3, <1>10, ApartSame
  <2>2. Kept'
    BY <1>1, <1>3, <1>10, KeptSame
  <2>3. FreeZeroed'
    BY <1>1, <1>3, ZeroedSame
  <2> QED BY <2>1, <2>2, <2>3
<1>12. CallOf(p)' /\ PassedOf(p)' /\ LockOf(c)'
  <2>1. CallOf(p)'
    BY <1>2, <1>3, <1>4 DEF CallOf, Writing
  <2>2. PassedOf(p)'
    BY <1>3 DEF PassedOf, Writing
  <2>3. LockOf(c)'
    BY <1>2, <1>3, <1>4 DEF LockOf
  <2> QED BY <2>1, <2>2, <2>3
<1>13. CopyOf(c)' /\ DataOf(c)'
  BY <1>3, <1>4 DEF CopyOf, DataOf
<1> QED BY <1>4, <1>5, <1>7, <1>8, <1>11, <1>12, <1>13, Assembled

LEMMA TruncatedStep ==
  ASSUME BlocksInv, NEW p \in Procs, Truncated(p)
  PROVE  BlocksInv'
<1>1. /\ TypeOK /\ Apart /\ Kept /\ FreeZeroed
      /\ \A q \in Procs : CallOf(q)
  BY DEF BlocksInv
<1>2. PICK c : c = cur[p]
  OBVIOUS
<1>3. /\ pc[p] = "itrunc" /\ piece[p] > MAXFILE
      /\ inode' = [inode EXCEPT ![c].size = 0] /\ dinode' = [dinode EXCEPT ![c] = inode'[c]]
      /\ pc' = [pc EXCEPT ![p] = "ifree"] /\ piece' = [piece EXCEPT ![p] = 0]
      /\ bits' = bits /\ block' = block /\ busy' = busy
      /\ cur' = cur /\ off' = off /\ left' = left /\ got' = got /\ boots' = boots /\ size' = size
  BY <1>2 DEF Truncated, At, Goto, args
<1>4. /\ c \in Files /\ Mine(p, c) /\ busy[c] = p
      /\ inode[c].state = "dying" /\ dinode[c].state = "dying" /\ piece[p] \in Nat
      /\ \A n \in Pieces : Keeps(c, n) <=> n >= piece[p]
  BY <1>2, <1>3, CutFacts
<1>5. TypeOK'
  BY <1>1, <1>2, <1>4, TruncatedTypes
<1>6. pc'[p] = "ifree"
  BY <1>1, <1>3 DEF TypeOK
<1>7. /\ \A g \in Files \ {c} : inode'[g] = inode[g] /\ dinode'[g] = dinode[g]
      /\ inode'[c].state = "dying" /\ dinode'[c].state = "dying"
  <2>1. 0 \in 0 .. MAXFILE * Words
    BY Numbers
  <2>2. /\ \A g \in Files \ {c} : inode'[g] = inode[g]
        /\ inode'[c].state = "dying"
    BY <1>1, <1>3, <1>4, <2>1, SizeInode
  <2>3. dinode'[c] = inode'[c] /\ \A g \in Files \ {c} : dinode'[g] = dinode[g]
    BY <1>1, <1>3, <1>4 DEF TypeOK
  <2> QED BY <2>2, <2>3
<1>8. Local(p, c)
  <2>1. \A q \in Procs \ {p} : piece'[q] = piece[q] /\ pc'[q] = pc[q]
    BY <1>1, <1>3 DEF TypeOK
  <2> QED BY <1>2, <1>3, <1>7, <2>1 DEF Local
<1>9. OtherBlocks(c)
  BY <1>3, <1>4, <1>8, SameBlocks
<1>10. ASSUME NEW k \in Pieces PROVE Has(c, k)' = Has(c, k)
  <2>1. k \in Nat /\ k <= MAXFILE /\ MAXFILE \in Nat
    BY Numbers
  <2>2. ~Keeps(c, k)
    BY <1>3, <1>4, <2>1
  <2>3. ~(Keeps(c, k)')
    BY <1>2, <1>3, <1>4, <1>6, <1>7, <1>8 DEF Keeps, Cutting, Mine, Local
  <2> QED BY <2>2, <2>3 DEF Has
<1>11. SameHas /\ SameTaken
  <2>1. SameHas
    BY <1>4, <1>9, <1>10, Together
  <2>2. SameTaken
    BY <1>3, <1>6, <1>8 DEF SameTaken, Local
  <2> QED BY <2>1, <2>2
<1>12. Apart' /\ Kept' /\ FreeZeroed'
  <2>1. Apart'
    BY <1>1, <1>3, <1>11, ApartSame
  <2>2. Kept'
    BY <1>1, <1>3, <1>11, KeptSame
  <2>3. FreeZeroed'
    BY <1>1, <1>3, ZeroedSame
  <2> QED BY <2>1, <2>2, <2>3
<1>13. CallOf(p)' /\ PassedOf(p)' /\ LockOf(c)'
  <2>1. CallOf(p)'
    BY <1>2, <1>3, <1>4, <1>6, <1>7 DEF CallOf, Writing
  <2>2. PassedOf(p)'
    BY <1>6 DEF PassedOf, Writing
  <2>3. LockOf(c)'
    BY <1>2, <1>3, <1>4, <1>6 DEF LockOf
  <2> QED BY <2>1, <2>2, <2>3
<1>14. CopyOf(c)' /\ DataOf(c)'
  BY <1>7 DEF CopyOf, DataOf
<1> QED BY <1>4, <1>5, <1>8, <1>9, <1>12, <1>13, <1>14, Assembled

LEMMA IfreeStep ==
  ASSUME BlocksInv, NEW p \in Procs, Ifree(p)
  PROVE  BlocksInv'
<1>1. /\ TypeOK /\ Apart /\ Kept /\ FreeZeroed
      /\ \A q \in Procs : CallOf(q)
  BY DEF BlocksInv
<1>2. PICK c : c = cur[p]
  OBVIOUS
<1>3. /\ pc[p] = "ifree"
      /\ inode' = [inode EXCEPT ![c].state = "free"] /\ dinode' = [dinode EXCEPT ![c] = inode'[c]]
      /\ pc' = [pc EXCEPT ![p] = "user"] /\ busy' = [busy EXCEPT ![c] = NoProc]
      /\ cur' = [cur EXCEPT ![p] = 0] /\ off' = [off EXCEPT ![p] = 0] /\ left' = [left EXCEPT ![p] = 0]
      /\ bits' = bits /\ block' = block /\ got' = got /\ piece' = piece /\ boots' = boots /\ size' = size
  BY <1>2 DEF Ifree, At, Goto, Done
<1>4. /\ c \in Files /\ Mine(p, c) /\ busy[c] = p
      /\ inode[c].state = "dying" /\ \A n \in Pieces : ~Keeps(c, n)
  BY <1>2, <1>3, CutFacts
<1>5. TypeOK'
  BY <1>1, <1>2, <1>4, IfreeTypes
<1>6. pc'[p] = "user" /\ busy'[c] = NoProc
  BY <1>1, <1>3, <1>4 DEF TypeOK
<1>7. /\ \A g \in Files \ {c} : inode'[g] = inode[g] /\ dinode'[g] = dinode[g]
      /\ inode'[c].state = "free" /\ dinode'[c].state = "free"
  <2>1. /\ \A g \in Files \ {c} : inode'[g] = inode[g]
        /\ inode'[c].state = "free"
    BY <1>1, <1>3, <1>4, StateInode
  <2>2. dinode'[c] = inode'[c] /\ \A g \in Files \ {c} : dinode'[g] = dinode[g]
    BY <1>1, <1>3, <1>4 DEF TypeOK
  <2> QED BY <2>1, <2>2
<1>8. Local(p, c)
  <2>1. \A q \in Procs \ {p} : pc'[q] = pc[q] /\ cur'[q] = cur[q] /\ off'[q] = off[q] /\ left'[q] = left[q]
    BY <1>1, <1>3 DEF TypeOK
  <2>2. \A f \in Files \ {c} : busy'[f] = busy[f]
    BY <1>1, <1>3 DEF TypeOK
  <2> QED BY <1>3, <1>6, <1>7, <2>1, <2>2 DEF Local
<1>9. OtherBlocks(c)
  BY <1>3, <1>4, <1>8, SameBlocks
<1>10. ASSUME NEW k \in Pieces PROVE Has(c, k)' = Has(c, k)
  <2>1. ~(Keeps(c, k)')
    BY <1>4, <1>6, <1>7, <1>8 DEF Keeps, Cutting, Mine, Local
  <2> QED BY <1>4, <2>1 DEF Has
<1>11. SameHas /\ SameTaken
  <2>1. SameHas
    BY <1>4, <1>9, <1>10, Together
  <2>2. SameTaken
    BY <1>3, <1>6, <1>8 DEF SameTaken, Local
  <2> QED BY <2>1, <2>2
<1>12. Apart' /\ Kept' /\ FreeZeroed'
  <2>1. Apart'
    BY <1>1, <1>3, <1>11, ApartSame
  <2>2. Kept'
    BY <1>1, <1>3, <1>11, KeptSame
  <2>3. FreeZeroed'
    BY <1>1, <1>3, ZeroedSame
  <2> QED BY <2>1, <2>2, <2>3
<1>13. CallOf(p)' /\ PassedOf(p)' /\ LockOf(c)'
  BY <1>6 DEF CallOf, PassedOf, Writing, LockOf
<1>14. CopyOf(c)' /\ DataOf(c)'
  BY <1>7 DEF CopyOf, DataOf
<1> QED BY <1>4, <1>5, <1>8, <1>9, <1>12, <1>13, <1>14, Assembled

(* What is common to the steps of writei(). *)
LEMMA WriteFacts ==
  ASSUME BlocksInv, NEW p \in Procs, Writing(p)
  PROVE  /\ cur[p] \in Files /\ Mine(p, cur[p]) /\ busy[cur[p]] = p
         /\ inode[cur[p]].state = "named" /\ dinode[cur[p]].state = "named"
         /\ off[p] \in Nat /\ left[p] \in Nat /\ off[p] + left[p] <= MAXFILE * Words
         /\ \A n \in Pieces : Has(cur[p], n) = Owns(inode[cur[p]], n)
         /\ left[p] > 0 => Bn(p) \in Nat /\ Bn(p) \in Pieces /\ Bn(p) < MAXFILE
<1>1. TypeOK /\ \A q \in Procs : CallOf(q)
  BY DEF BlocksInv
<1>2. cur[p] \in Files /\ Mine(p, cur[p]) /\ busy[cur[p]] = p
  BY <1>1, MineActive DEF Writing
<1>3. CopyOf(cur[p])
  BY <1>2 DEF BlocksInv
<1>4. /\ inode[cur[p]].state = "named" /\ dinode[cur[p]].state = "named"
      /\ off[p] \in Nat /\ left[p] \in Nat /\ off[p] + left[p] <= MAXFILE * Words
  <2>1. inode[cur[p]].state = "named" /\ off[p] + left[p] <= MAXFILE * Words
    BY <1>1, <1>2 DEF CallOf, Writing
  <2>2. off[p] \in Nat /\ left[p] \in Nat
    BY <1>1 DEF TypeOK
  <2> QED BY <1>3, <2>1, <2>2 DEF CopyOf
<1>5. \A n \in Pieces : Has(cur[p], n) = Owns(inode[cur[p]], n)
  BY <1>4 DEF Has, Keeps
<1>6. left[p] > 0 => off[p] < MAXFILE * Words
  <2>1. MAXFILE * Words \in Nat
    BY Numbers
  <2> QED BY <1>4, <2>1
<1>7. left[p] > 0 => Bn(p) \in Nat /\ Bn(p) \in Pieces /\ Bn(p) < MAXFILE
  BY <1>4, <1>6, InPieces DEF Bn
<1> QED BY <1>2, <1>4, <1>5, <1>7

(* bmap() misses a piece only behind what the file holds. *)
LEMMA MissingBehind ==
  ASSUME BlocksInv, NEW p \in Procs, Writing(p), Missing(p)
  PROVE  off[p] + left[p] > size[cur[p]] /\ Has(cur[p], Bn(p)) = 0 /\ left[p] > 0
<1>1. /\ cur[p] \in Files /\ inode[cur[p]].state = "named" /\ off[p] \in Nat /\ left[p] \in Nat
      /\ \A n \in Pieces : Has(cur[p], n) = Owns(inode[cur[p]], n)
      /\ left[p] > 0 => Bn(p) \in Nat /\ Bn(p) \in Pieces /\ Bn(p) < MAXFILE
  BY WriteFacts
<1>2. left[p] > 0 /\ Bmap(inode[cur[p]], Bn(p)) = 0
  BY DEF Missing, Me
<1>3. Has(cur[p], Bn(p)) = 0
  BY <1>1, <1>2, PieceOf
<1>4. DataOf(cur[p]) /\ size[cur[p]] \in Nat
  BY <1>1 DEF BlocksInv, TypeOK
<1>5. ~(off[p] < size[cur[p]])
  <2>1. SUFFICES ASSUME off[p] < size[cur[p]] PROVE FALSE
    OBVIOUS
  <2>2. Holds(cur[p], off[p])
    BY <1>1, <1>4, <2>1 DEF DataOf
  <2> QED BY <1>3, <2>2 DEF Holds, Bn
<1> QED BY <1>1, <1>2, <1>3, <1>4, <1>5

LEMMA HoldsGains ==
  ASSUME NEW c \in Files, NEW m, NEW b, Gains(c, m, b), Has(c, m) = 0,
         NEW w \in Nat, Holds(c, w), block'[Has(c, w \div Words)] = block[Has(c, w \div Words)]
  PROVE  Holds(c, w)'
<1>1. w \div Words \in Pieces /\ w \div Words # m
  <2>1. w \div Words < MAXFILE /\ Has(c, w \div Words) # 0
    BY DEF Holds
  <2>2. w \div Words \in Nat
    BY Division
  <2>3. w \div Words # m
    BY <2>1
  <2> QED BY <2>1, <2>2, <2>3, Numbers
<1>2. Has(c, w \div Words)' = Has(c, w \div Words)
  BY <1>1 DEF Gains
<1> QED BY <1>2 DEF Holds

LEMMA BmapInodeStep ==
  ASSUME BlocksInv, NEW p \in Procs, BmapInode(p)
  PROVE  BlocksInv'
<1>1. /\ TypeOK /\ Apart /\ Kept /\ FreeZeroed
      /\ \A q \in Procs : CallOf(q)
      /\ \A f \in Files : CopyOf(f) /\ DataOf(f) /\ LockOf(f)
      /\ PassedOf(p)
  BY DEF BlocksInv
<1>2. PICK c : c = cur[p]
  OBVIOUS
<1>3. PICK b : b = Lowest(FreeBlocks)
  OBVIOUS
<1>4. PICK n0 : n0 = Smaller(Bn(p), NDIRECT)
  OBVIOUS
<1>5. /\ pc[p] = "write" /\ Missing(p) /\ FreeBlocks # {} /\ bits' = bits \cup {b}
      /\ inode[c].addrs[n0] = 0 /\ inode' = [inode EXCEPT ![c].addrs[n0] = b]
      /\ block' = block /\ dinode' = dinode /\ busy' = busy /\ pc' = pc
      /\ cur' = cur /\ off' = off /\ left' = left /\ got' = got /\ piece' = piece
      /\ boots' = boots /\ size' = size
  BY <1>2, <1>3, <1>4 DEF BmapInode, At, Balloc, args
<1>6. /\ c \in Files /\ Mine(p, c) /\ busy[c] = p
      /\ inode[c].state = "named" /\ dinode[c].state = "named"
      /\ off[p] \in Nat /\ left[p] \in Nat /\ off[p] + left[p] <= MAXFILE * Words
      /\ \A n \in Pieces : Has(c, n) = Owns(inode[c], n)
      /\ Bn(p) \in Nat /\ Bn(p) \in Pieces /\ Bn(p) < MAXFILE
      /\ off[p] + left[p] > size[c] /\ Has(c, Bn(p)) = 0
  BY <1>2, <1>5, WriteFacts, MissingBehind DEF Writing
<1>7. b \in BlockNos /\ b \notin bits /\ b \in Nat \ {0} /\ block[b] = Zeroes /\ b \in 0 .. NBLOCKS
  BY <1>1, <1>3, <1>5, LowestIsFree DEF FreeZeroed, FreeBlocks, BlockNos
<1>8. TypeOK'
  BY <1>1, <1>2, <1>6, BmapInodeTypes
<1>9. n0 \in 0 .. NDIRECT /\ (Bn(p) < NDIRECT => n0 = Bn(p)) /\ (~(Bn(p) < NDIRECT) => n0 = NDIRECT)
  BY <1>4, <1>6, Numbers DEF Smaller
<1>10. \A g \in Files : /\ inode'[g].state = inode[g].state
                        /\ inode'[g].size = inode[g].size
                        /\ g # c => inode'[g] = inode[g]
  BY <1>1, <1>5, <1>6, <1>7, AddrInode
<1>11. /\ inode'[c].addrs[n0] = b
       /\ \A k \in 0 .. NDIRECT : k # n0 => inode'[c].addrs[k] = inode[c].addrs[k]
  BY <1>1, <1>5, <1>6, <1>7, <1>9, AddrInode
<1>12. Local(p, c)
  BY <1>2, <1>5, <1>10 DEF Local
<1>13. OtherBlocks(c)
  BY <1>5, <1>6, <1>12, SameBlocks
<1>14. PICK m \in Pieces : m = IF Bn(p) < NDIRECT THEN Bn(p) ELSE MAXFILE
  BY <1>6, Numbers
<1>15. ASSUME NEW k \in Pieces PROVE Has(c, k)' = IF k = m THEN b ELSE Has(c, k)
  <2>1. Has(c, k)' = Owns(inode[c], k)'
    BY <1>6, <1>10 DEF Has, Keeps
  <2>2. Has(c, k) = Owns(inode[c], k)
    BY <1>6
  <2>3. k \in Nat /\ k <= MAXFILE /\ MAXFILE = NDIRECT + Words /\ NDIRECT \in Nat /\ Words \in Nat \ {0}
    BY Numbers
  <2>4. CASE Bn(p) < NDIRECT
    <3>1. n0 = Bn(p) /\ m = Bn(p) /\ n0 < NDIRECT
      BY <1>9, <1>14, <2>4
    <3>2. inode'[c].addrs[NDIRECT] = inode[c].addrs[NDIRECT]
      BY <1>11, <2>3, <3>1
    <3>3. CASE k < NDIRECT
      <4>1. Owns(inode[c], k)' = inode'[c].addrs[k] /\ Owns(inode[c], k) = inode[c].addrs[k]
        BY <2>3, <3>3 DEF Owns, Bmap
      <4> QED BY <1>11, <2>1, <2>2, <2>3, <3>1, <3>3, <4>1
    <3>4. CASE ~(k < NDIRECT)
      <4>1. Owns(inode[c], k)' = Owns(inode[c], k)
        BY <1>5, <3>2, <3>4 DEF Owns, Bmap
      <4> QED BY <2>1, <2>2, <2>3, <3>1, <3>4, <4>1
    <3> QED BY <3>3, <3>4
  <2>5. CASE ~(Bn(p) < NDIRECT)
    <3>1. n0 = NDIRECT /\ m = MAXFILE
      BY <1>9, <1>14, <2>5
    <3>2. inode[c].addrs[NDIRECT] = 0 /\ inode'[c].addrs[NDIRECT] = b
      BY <1>5, <1>11, <3>1
    <3>3. CASE k < NDIRECT
      <4>1. Owns(inode[c], k)' = inode'[c].addrs[k] /\ Owns(inode[c], k) = inode[c].addrs[k]
        BY <2>3, <3>3 DEF Owns, Bmap
      <4> QED BY <1>11, <2>1, <2>2, <2>3, <3>1, <3>3, <4>1
    <3>4. CASE ~(k < NDIRECT) /\ k < MAXFILE
      <4>1. Owns(inode[c], k)' = block[b][k - NDIRECT] /\ Owns(inode[c], k) = 0
        BY <1>5, <1>7, <3>2, <3>4 DEF Owns, Bmap
      <4>2. k - NDIRECT \in 0 .. Words - 1
        BY <2>3, <3>4
      <4>3. block[b][k - NDIRECT] = 0
        BY <1>7, <4>2 DEF Zeroes
      <4> QED BY <2>1, <2>2, <2>3, <3>1, <3>4, <4>1, <4>3
    <3>5. CASE k = MAXFILE
      <4>1. Owns(inode[c], k)' = b
        BY <2>3, <3>2, <3>5 DEF Owns
      <4> QED BY <2>1, <3>1, <3>5, <4>1
    <3> QED BY <2>3, <3>3, <3>4, <3>5
  <2> QED BY <2>4, <2>5
<1>16. Gains(c, m, b)
  BY <1>13, <1>15 DEF Gains, OtherBlocks
<1>17. Has(c, m) = 0
  <2>1. CASE Bn(p) < NDIRECT
    BY <1>6, <1>14, <2>1
  <2>2. CASE ~(Bn(p) < NDIRECT)
    <3>1. m = MAXFILE /\ ~(MAXFILE < MAXFILE) /\ inode[c].addrs[NDIRECT] = 0
      BY <1>5, <1>9, <1>14, <2>2, Numbers
    <3> QED BY <1>6, <3>1, PieceOf
  <2> QED BY <2>1, <2>2
<1>18. Apart' /\ Kept' /\ FreeZeroed'
  <2>1. Apart'
    <3>1. b \in bits' /\ bits \subseteq bits'
      BY <1>5
    <3>2. \A f \in Files, n \in Pieces : Has(f, n) # b
      BY <1>1, <1>7 DEF Apart
    <3>3. \A q \in Procs : pc'[q] = "bwrite" => pc[q] = "bwrite" /\ got'[q] = got[q] /\ got[q] # b
      BY <1>1, <1>5, <1>7 DEF Apart
    <3> QED BY <1>1, <1>6, <1>16, <3>1, <3>2, <3>3, ApartGains
  <2>2. Kept'
    <3>1. bits' \subseteq bits \cup {b} /\ bits \subseteq Nat \ {0}
      BY <1>1, <1>5 DEF TypeOK, BlockNos
    <3>2. \A q \in Procs : pc[q] = "bwrite" => (pc'[q] = "bwrite" /\ got'[q] = got[q]) \/ got[q] = b
      BY <1>5
    <3> QED BY <1>1, <1>5, <1>6, <1>16, <1>17, <3>1, <3>2, KeptGains
  <2>3. FreeZeroed'
    BY <1>1, <1>5, ZeroedSame
  <2> QED BY <2>1, <2>2, <2>3
<1>19. ASSUME NEW w \in Nat, Holds(c, w) PROVE Holds(c, w)'
  BY <1>5, <1>6, <1>16, <1>17, <1>19, HoldsGains
<1>20. CallOf(p)' /\ PassedOf(p)' /\ LockOf(c)'
  <2>1. CallOf(p)'
    BY <1>2, <1>5, <1>6, <1>10 DEF CallOf, Writing
  <2>2. PassedOf(p)'
    BY <1>1, <1>2, <1>5, <1>19 DEF PassedOf, Writing
  <2>3. LockOf(c)'
    BY <1>1, <1>5, <1>6 DEF LockOf
  <2> QED BY <2>1, <2>2, <2>3
<1>21. CopyOf(c)'
  <2>1. CopyOf(c)
    BY <1>1, <1>6
  <2>2. \A k \in 0 .. NDIRECT : dinode'[c].addrs[k] \in {0, inode'[c].addrs[k]}
    BY <1>5, <1>6, <1>11, <2>1 DEF CopyOf
  <2>3. Writing(p)' /\ cur'[p] = c /\ off'[p] + left'[p] > size'[c]
    BY <1>2, <1>5, <1>6 DEF Writing
  <2> QED BY <1>5, <1>6, <1>10, <2>1, <2>2, <2>3 DEF CopyOf
<1>22. DataOf(c)'
  <2>1. DataOf(c)
    BY <1>1, <1>6
  <2> QED BY <1>5, <1>6, <1>19, <2>1 DEF DataOf, Leads
<1> QED BY <1>6, <1>8, <1>12, <1>13, <1>18, <1>20, <1>21, <1>22, Assembled

LEMMA BmapIndirectStep ==
  ASSUME BlocksInv, NEW p \in Procs, BmapIndirect(p)
  PROVE  BlocksInv'
<1>1. /\ TypeOK /\ Apart /\ Kept /\ FreeZeroed
      /\ \A q \in Procs : CallOf(q)
      /\ \A f \in Files : CopyOf(f) /\ DataOf(f) /\ LockOf(f)
      /\ PassedOf(p)
  BY DEF BlocksInv
<1>2. PICK c : c = cur[p]
  OBVIOUS
<1>3. PICK b : b = Lowest(FreeBlocks)
  OBVIOUS
<1>4. /\ pc[p] = "write" /\ Missing(p) /\ FreeBlocks # {} /\ bits' = bits \cup {b}
      /\ Bn(p) >= NDIRECT /\ inode[c].addrs[NDIRECT] # 0
      /\ got' = [got EXCEPT ![p] = b] /\ pc' = [pc EXCEPT ![p] = "bwrite"]
      /\ block' = block /\ dinode' = dinode /\ inode' = inode /\ busy' = busy
      /\ cur' = cur /\ off' = off /\ left' = left /\ piece' = piece
      /\ boots' = boots /\ size' = size
  BY <1>2, <1>3 DEF BmapIndirect, At, Goto, Balloc, args, Me
<1>5. /\ c \in Files /\ Mine(p, c) /\ busy[c] = p
      /\ inode[c].state = "named" /\ dinode[c].state = "named"
      /\ off[p] \in Nat /\ left[p] \in Nat /\ off[p] + left[p] <= MAXFILE * Words
      /\ left[p] > 0 /\ Has(c, Bn(p)) = 0
  BY <1>2, <1>4, WriteFacts, MissingBehind DEF Writing
<1>6. b \notin bits /\ b # 0
  BY <1>3, <1>4, LowestIsFree
<1>7. TypeOK'
  BY <1>1, BmapIndirectTypes
<1>8. pc'[p] = "bwrite" /\ got'[p] = b
  BY <1>1, <1>4 DEF TypeOK
<1>9. \A q \in Procs \ {p} : pc'[q] = pc[q] /\ got'[q] = got[q]
  BY <1>1, <1>4 DEF TypeOK
<1>10. Local(p, c)
  BY <1>2, <1>4, <1>9 DEF Local
<1>11. OtherBlocks(c)
  BY <1>4, <1>5, <1>10, SameBlocks
<1>12. ASSUME NEW k \in Pieces PROVE Has(c, k)' = Has(c, k)
  <2>1. Owns(inode[c], k)' = Owns(inode[c], k)
    BY <1>4 DEF Owns, Bmap
  <2> QED BY <1>4, <1>5, <2>1 DEF Has, Keeps
<1>13. SameHas
  BY <1>5, <1>11, <1>12, Together
<1>14. Apart' /\ Kept' /\ FreeZeroed'
  <2>1. pc[p] # "bwrite"
    BY <1>4
  <2>2. Apart'
    BY <1>1, <1>4, <1>6, <1>8, <1>9, <1>13, <2>1, ApartTaken
  <2>3. Kept'
    BY <1>1, <1>4, <1>8, <1>9, <1>13, <2>1, KeptTaken
  <2>4. FreeZeroed'
    BY <1>1, <1>4, ZeroedSame
  <2> QED BY <2>2, <2>3, <2>4
<1>15. ASSUME NEW w \in Nat, Holds(c, w) PROVE Holds(c, w)'
  BY <1>4, <1>5, <1>13, <1>15, HoldsSame
<1>16. CallOf(p)' /\ PassedOf(p)' /\ LockOf(c)'
  <2>1. Bn(p)' = Bn(p)
    BY <1>4 DEF Bn
  <2>2. \A n \in Pieces : n = Bn(p) => Has(c, n)' = 0
    BY <1>5, <1>12
  <2>3. CallOf(p)'
    BY <1>2, <1>4, <1>5, <1>8, <2>1, <2>2 DEF CallOf, Writing
  <2>4. PassedOf(p)'
    BY <1>1, <1>2, <1>4, <1>8, <1>15 DEF PassedOf, Writing
  <2>5. LockOf(c)'
    BY <1>2, <1>4, <1>5, <1>8 DEF LockOf
  <2> QED BY <2>3, <2>4, <2>5
<1>17. CopyOf(c)'
  <2>1. CopyOf(c)
    BY <1>1, <1>5
  <2>2. \A q \in Procs : Writing(q) => Writing(q)'
    BY <1>8, <1>9 DEF Writing
  <2> QED BY <1>4, <2>1, <2>2 DEF CopyOf
<1>18. DataOf(c)'
  <2>1. DataOf(c)
    BY <1>1, <1>5
  <2> QED BY <1>4, <1>15, <2>1 DEF DataOf, Leads
<1> QED BY <1>5, <1>7, <1>10, <1>11, <1>14, <1>16, <1>17, <1>18, Assembled

LEMMA BwriteIndirectStep ==
  ASSUME BlocksInv, NEW p \in Procs, BwriteIndirect(p)
  PROVE  BlocksInv'
<1>1. /\ TypeOK /\ Apart /\ Kept /\ FreeZeroed
      /\ \A q \in Procs : CallOf(q)
      /\ \A f \in Files : CopyOf(f) /\ DataOf(f) /\ LockOf(f)
      /\ PassedOf(p)
  BY DEF BlocksInv
<1>2. PICK c : c = cur[p]
  OBVIOUS
<1>3. PICK a : a = inode[c].addrs[NDIRECT]
  OBVIOUS
<1>4. /\ pc[p] = "bwrite"
      /\ block' = [block EXCEPT ![a][Bn(p) - NDIRECT] = got[p]]
      /\ got' = [got EXCEPT ![p] = 0] /\ pc' = [pc EXCEPT ![p] = "write"]
      /\ bits' = bits /\ dinode' = dinode /\ inode' = inode /\ busy' = busy
      /\ cur' = cur /\ off' = off /\ left' = left /\ piece' = piece
      /\ boots' = boots /\ size' = size
  BY <1>2, <1>3 DEF BwriteIndirect, At, Goto, args, Me
<1>5. /\ c \in Files /\ Mine(p, c) /\ busy[c] = p
      /\ inode[c].state = "named" /\ dinode[c].state = "named"
      /\ off[p] \in Nat /\ left[p] \in Nat /\ off[p] + left[p] <= MAXFILE * Words
      /\ \A n \in Pieces : Has(c, n) = Owns(inode[c], n)
      /\ left[p] > 0 => Bn(p) \in Nat /\ Bn(p) \in Pieces /\ Bn(p) < MAXFILE
  BY <1>2, <1>4, WriteFacts DEF Writing
<1>6. /\ left[p] > 0 /\ Bn(p) >= NDIRECT /\ a # 0
      /\ \A n \in Pieces : n = Bn(p) => Has(c, n) = 0
  BY <1>1, <1>2, <1>3, <1>4, <1>5 DEF CallOf
<1>7. Bn(p) \in Nat /\ Bn(p) \in Pieces /\ Bn(p) < MAXFILE /\ Has(c, Bn(p)) = 0
  BY <1>5, <1>6
<1>8. TypeOK'
  BY <1>1, BwriteIndirectTypes
<1>9. pc'[p] = "write" /\ \A q \in Procs \ {p} : pc'[q] = pc[q] /\ got'[q] = got[q]
  BY <1>1, <1>4 DEF TypeOK
<1>10. Local(p, c)
  BY <1>2, <1>4, <1>9 DEF Local
<1>11. MAXFILE \in Pieces /\ Has(c, MAXFILE) = a /\ MAXFILE \in Nat
  <2>1. MAXFILE \in Pieces /\ ~(MAXFILE < MAXFILE) /\ MAXFILE \in Nat
    BY Numbers
  <2> QED BY <1>3, <1>5, <2>1, PieceOf
<1>12. /\ a \in bits /\ a \in BlockNos
       /\ \A f \in Files, n \in Pieces : Has(f, n) = a => f = c /\ n = MAXFILE
  BY <1>1, <1>5, <1>6, <1>11 DEF Apart, TypeOK
<1>13. /\ \A x \in BlockNos : x # a => block'[x] = block[x]
       /\ \A k \in 0 .. Words - 1 : block'[a][k] = IF k = Bn(p) - NDIRECT THEN got[p] ELSE block[a][k]
  BY <1>1, <1>4, <1>12 DEF TypeOK
<1>14. OtherBlocks(c)
  BY <1>1, <1>5, <1>6, <1>10, <1>11, <1>13, OneBlock
<1>15. ASSUME NEW k \in Pieces PROVE Has(c, k)' = IF k = Bn(p) THEN got[p] ELSE Has(c, k)
  <2>1. Has(c, k)' = Owns(inode[c], k)'
    BY <1>4, <1>5 DEF Has, Keeps
  <2>2. Has(c, k) = Owns(inode[c], k)
    BY <1>5
  <2>3. k \in Nat /\ k <= MAXFILE /\ MAXFILE = NDIRECT + Words /\ NDIRECT \in Nat /\ Words \in Nat \ {0}
    BY Numbers
  <2>4. CASE k < NDIRECT \/ ~(k < MAXFILE)
    <3>1. Owns(inode[c], k)' = Owns(inode[c], k)
      BY <1>4, <2>4 DEF Owns, Bmap
    <3> QED BY <1>6, <1>7, <2>1, <2>2, <2>3, <2>4, <3>1
  <2>5. CASE ~(k < NDIRECT) /\ k < MAXFILE
    <3>1. Owns(inode[c], k)' = block'[a][k - NDIRECT] /\ Owns(inode[c], k) = block[a][k - NDIRECT]
      BY <1>3, <1>4, <1>6, <2>5 DEF Owns, Bmap
    <3>2. k - NDIRECT \in 0 .. Words - 1 /\ (k - NDIRECT = Bn(p) - NDIRECT <=> k = Bn(p))
      BY <1>7, <2>3, <2>5
    <3> QED BY <1>13, <2>1, <2>2, <3>1, <3>2
  <2> QED BY <2>4, <2>5
<1>16. PICK b : b = got[p]
  OBVIOUS
<1>17. Gains(c, Bn(p), b)
  BY <1>14, <1>15, <1>16 DEF Gains, OtherBlocks
<1>18. b \in bits /\ \A f \in Files, n \in Pieces : Has(f, n) # b
  BY <1>1, <1>4, <1>16 DEF Apart
<1>19. Apart' /\ Kept' /\ FreeZeroed'
  <2>1. Apart'
    <3>1. b \in bits' /\ bits \subseteq bits'
      BY <1>4, <1>18
    <3>2. \A q \in Procs : pc'[q] = "bwrite" => pc[q] = "bwrite" /\ got'[q] = got[q] /\ got[q] # b
      BY <1>1, <1>4, <1>9, <1>16 DEF Apart
    <3> QED BY <1>1, <1>5, <1>7, <1>17, <1>18, <3>1, <3>2, ApartGains
  <2>2. Kept'
    <3>1. bits' \subseteq bits \cup {b} /\ bits \subseteq Nat \ {0}
      BY <1>1, <1>4 DEF TypeOK, BlockNos
    <3>2. \A q \in Procs : pc[q] = "bwrite" => (pc'[q] = "bwrite" /\ got'[q] = got[q]) \/ got[q] = b
      BY <1>9, <1>16
    <3> QED BY <1>1, <1>4, <1>5, <1>7, <1>17, <3>1, <3>2, KeptGains
  <2>3. FreeZeroed'
    BY <1>1, <1>4, <1>12, <1>13, ZeroedWrite
  <2> QED BY <2>1, <2>2, <2>3
<1>20. ASSUME NEW w \in Nat, Holds(c, w) PROVE Holds(c, w)'
  <2>1. w \div Words \in Nat /\ w \div Words < MAXFILE /\ Has(c, w \div Words) # 0
    BY <1>20, Division DEF Holds
  <2>2. w \div Words \in Pieces /\ w \div Words # MAXFILE
    BY <2>1, <1>11, Numbers
  <2>3. Has(c, w \div Words) # a /\ Has(c, w \div Words) \in BlockNos
    BY <1>1, <1>5, <1>12, <2>1, <2>2 DEF Apart, TypeOK
  <2>4. block'[Has(c, w \div Words)] = block[Has(c, w \div Words)]
    BY <1>13, <2>3
  <2> QED BY <1>5, <1>7, <1>17, <1>20, <2>4, HoldsGains
<1>21. CallOf(p)' /\ PassedOf(p)' /\ LockOf(c)'
  <2>1. CallOf(p)'
    BY <1>2, <1>4, <1>5, <1>9 DEF CallOf, Writing
  <2>2. PassedOf(p)'
    BY <1>1, <1>2, <1>4, <1>9, <1>20 DEF PassedOf, Writing
  <2>3. LockOf(c)'
    BY <1>2, <1>4, <1>5, <1>9 DEF LockOf
  <2> QED BY <2>1, <2>2, <2>3
<1>22. CopyOf(c)'
  <2>1. CopyOf(c)
    BY <1>1, <1>5
  <2>2. \A q \in Procs : Writing(q) => Writing(q)'
    BY <1>9 DEF Writing
  <2> QED BY <1>4, <2>1, <2>2 DEF CopyOf
<1>23. DataOf(c)'
  <2>1. DataOf(c)
    BY <1>1, <1>5
  <2> QED BY <1>4, <1>20, <2>1 DEF DataOf, Leads
<1> QED BY <1>5, <1>8, <1>10, <1>14, <1>19, <1>21, <1>22, <1>23, Assembled

LEMMA WriteDataStep ==
  ASSUME BlocksInv, NEW p \in Procs, WriteData(p)
  PROVE  BlocksInv'
<1>1. /\ TypeOK /\ Apart /\ Kept /\ FreeZeroed
      /\ \A q \in Procs : CallOf(q)
      /\ \A f \in Files : CopyOf(f) /\ DataOf(f) /\ LockOf(f)
      /\ PassedOf(p)
  BY DEF BlocksInv
<1>2. PICK c : c = cur[p]
  OBVIOUS
<1>3. PICK b : b = Bmap(inode[c], Bn(p))
  OBVIOUS
<1>4. /\ pc[p] = "write" /\ left[p] > 0 /\ ~Missing(p)
      /\ block' = [block EXCEPT ![b] =
           [w \in DOMAIN block[b] |-> IF w \in (off[p] % Words) .. (off[p] % Words) + Chunk(p) - 1
                                      THEN c ELSE block[b][w]]]
      /\ off' = [off EXCEPT ![p] = off[p] + Chunk(p)] /\ left' = [left EXCEPT ![p] = left[p] - Chunk(p)]
      /\ bits' = bits /\ dinode' = dinode /\ inode' = inode /\ busy' = busy /\ pc' = pc
      /\ cur' = cur /\ got' = got /\ piece' = piece /\ boots' = boots /\ size' = size
  BY <1>2, <1>3 DEF WriteData, At, Me
<1>5. /\ c \in Files /\ Mine(p, c) /\ busy[c] = p
      /\ inode[c].state = "named" /\ dinode[c].state = "named"
      /\ off[p] \in Nat /\ left[p] \in Nat /\ off[p] + left[p] <= MAXFILE * Words
      /\ \A n \in Pieces : Has(c, n) = Owns(inode[c], n)
      /\ Bn(p) \in Nat /\ Bn(p) \in Pieces /\ Bn(p) < MAXFILE
  BY <1>2, <1>4, WriteFacts DEF Writing
<1>6. /\ TypeOK' /\ Chunk(p) \in Nat \ {0} /\ Chunk(p) <= left[p]
      /\ Chunk(p) <= Words - (off[p] % Words)
  BY <1>1, <1>2, <1>5, WriteDataTypes
<1>7. Has(c, Bn(p)) = b /\ b # 0
  <2>1. b # 0
    BY <1>2, <1>3, <1>4 DEF Missing, Me
  <2> QED BY <1>3, <1>5, <2>1, PieceOf
<1>8. /\ b \in bits /\ b \in BlockNos
      /\ \A f \in Files, n \in Pieces : Has(f, n) = b => f = c /\ n = Bn(p)
  BY <1>1, <1>5, <1>7 DEF Apart, TypeOK
<1>9. /\ \A x \in BlockNos : x # b => block'[x] = block[x]
      /\ \A k \in 0 .. Words - 1 :
           block'[b][k] = IF k \in (off[p] % Words) .. (off[p] % Words) + Chunk(p) - 1
                          THEN c ELSE block[b][k]
  BY <1>1, <1>4, <1>8 DEF TypeOK
<1>10. /\ off'[p] = off[p] + Chunk(p) /\ left'[p] = left[p] - Chunk(p)
       /\ \A q \in Procs \ {p} : off'[q] = off[q] /\ left'[q] = left[q]
  BY <1>1, <1>4 DEF TypeOK
<1>11. Local(p, c)
  BY <1>2, <1>4, <1>10 DEF Local
<1>12. OtherBlocks(c)
  BY <1>1, <1>5, <1>7, <1>9, <1>11, OneBlock
<1>13. ASSUME NEW k \in Pieces PROVE Has(c, k)' = Has(c, k)
  <2>1. MAXFILE \in Pieces /\ ~(MAXFILE < MAXFILE) /\ MAXFILE # Bn(p)
    <3>1. MAXFILE \in Pieces /\ ~(MAXFILE < MAXFILE)
      BY Numbers
    <3> QED BY <1>5, <3>1
  <2>2. Has(c, MAXFILE) = inode[c].addrs[NDIRECT] /\ Has(c, MAXFILE) # b
    BY <1>5, <1>8, <2>1, PieceOf
  <2>3. inode[c].addrs[NDIRECT] # 0 => block'[inode[c].addrs[NDIRECT]] = block[inode[c].addrs[NDIRECT]]
    <3>1. inode[c].addrs[NDIRECT] # 0 => inode[c].addrs[NDIRECT] \in BlockNos
      BY <1>1, <1>5, <2>1, <2>2 DEF Apart, TypeOK
    <3> QED BY <1>9, <2>2, <3>1
  <2>4. Owns(inode[c], k)' = Owns(inode[c], k)
    BY <1>4, <2>3 DEF Owns, Bmap
  <2> QED BY <1>4, <1>5, <2>4 DEF Has, Keeps
<1>14. SameHas /\ SameTaken
  BY <1>4, <1>5, <1>12, <1>13, Together DEF SameTaken
<1>15. Apart' /\ Kept' /\ FreeZeroed'
  <2>1. Apart'
    BY <1>1, <1>4, <1>14, ApartSame
  <2>2. Kept'
    BY <1>1, <1>4, <1>14, KeptSame
  <2>3. FreeZeroed'
    BY <1>1, <1>4, <1>8, <1>9, ZeroedWrite
  <2> QED BY <2>1, <2>2, <2>3
<1>16. ASSUME NEW w \in Nat, Holds(c, w) PROVE Holds(c, w)'
  <2>1. w \div Words \in Nat /\ w \div Words < MAXFILE /\ Has(c, w \div Words) # 0
        /\ w % Words \in 0 .. Words - 1 /\ block[Has(c, w \div Words)][w % Words] = c
    BY <1>16, Division DEF Holds
  <2>2. w \div Words \in Pieces
    BY <2>1, Numbers
  <2>3. Has(c, w \div Words)' = Has(c, w \div Words) /\ Has(c, w \div Words) \in BlockNos
    BY <1>1, <1>5, <1>13, <2>1, <2>2 DEF Apart, TypeOK
  <2>4. block'[Has(c, w \div Words)][w % Words] = c
    <3>1. CASE Has(c, w \div Words) = b
      BY <1>9, <2>1, <3>1
    <3>2. CASE Has(c, w \div Words) # b
      BY <1>9, <2>1, <2>3, <3>2
    <3> QED BY <3>1, <3>2
  <2> QED BY <2>1, <2>3, <2>4 DEF Holds
<1>17. ASSUME NEW w \in Nat, off[p] <= w, w < off[p] + Chunk(p) PROVE Holds(c, w)'
  <2>1. w \div Words = Bn(p) /\ w % Words = (off[p] % Words) + (w - off[p])
    BY <1>5, <1>6, <1>17, ChunkInBlock DEF Bn
  <2>2. off[p] % Words \in Nat /\ w % Words \in 0 .. Words - 1
    <3>1. off[p] % Words \in 0 .. Words - 1 /\ Words \in Nat
      BY <1>5, Division, BlocksAssumption
    <3>2. w % Words \in 0 .. Words - 1
      BY Division
    <3> QED BY <3>1, <3>2
  <2>3. w % Words \in (off[p] % Words) .. (off[p] % Words) + Chunk(p) - 1
    BY <1>5, <1>6, <1>17, <2>1, <2>2
  <2>4. block'[b][w % Words] = c
    BY <1>9, <2>2, <2>3
  <2>5. PICK m \in Pieces : m = Bn(p)
    BY <1>5
  <2>6. Has(c, m)' = b
    <3>1. Has(c, m)' = Has(c, m)
      BY <1>13
    <3> QED BY <1>7, <2>5, <3>1
  <2>7. w \div Words = m /\ m < MAXFILE
    BY <1>5, <2>1, <2>5
  <2> QED BY <1>7, <2>4, <2>6, <2>7 DEF Holds
<1>18. CallOf(p)' /\ PassedOf(p)' /\ LockOf(c)'
  <2>1. off'[p] + left'[p] = off[p] + left[p]
    BY <1>5, <1>6, <1>10
  <2>2. CallOf(p)'
    BY <1>2, <1>4, <1>5, <2>1 DEF CallOf, Writing
  <2>3. PassedOf(p)'
    <3>1. SUFFICES ASSUME NEW w \in Nat, w < off[p] + Chunk(p) PROVE Holds(c, w)'
      BY <1>2, <1>4, <1>10 DEF PassedOf
    <3>2. CASE w < off[p]
      <4>1. Holds(c, w)
        BY <1>1, <1>2, <1>4, <1>5, <3>2 DEF PassedOf, Writing
      <4> QED BY <1>16, <4>1
    <3>3. CASE off[p] <= w
      BY <1>17, <3>1, <3>3
    <3> QED BY <1>5, <3>2, <3>3
  <2>4. LockOf(c)'
    BY <1>2, <1>4, <1>5 DEF LockOf
  <2> QED BY <2>2, <2>3, <2>4
<1>19. CopyOf(c)'
  <2>1. CopyOf(c)
    BY <1>1, <1>5
  <2>2. \A q \in Procs : off'[q] + left'[q] = off[q] + left[q]
    BY <1>5, <1>6, <1>10
  <2>3. \A q \in Procs : Writing(q)' <=> Writing(q)
    BY <1>4 DEF Writing
  <2> QED BY <1>4, <2>1, <2>2, <2>3 DEF CopyOf
<1>20. DataOf(c)'
  <2>1. DataOf(c)
    BY <1>1, <1>5
  <2> QED BY <1>4, <1>16, <2>1 DEF DataOf, Leads
<1> QED BY <1>5, <1>6, <1>11, <1>12, <1>15, <1>18, <1>19, <1>20, Assembled

LEMMA BzeroStep ==
  ASSUME BlocksInv, NEW p \in Procs, Bzero(p)
  PROVE  BlocksInv'
<1>1. /\ TypeOK /\ Apart /\ Kept /\ FreeZeroed
      /\ \A q \in Procs : CallOf(q)
      /\ \A f \in Files : CopyOf(f) /\ LockOf(f)
  BY DEF BlocksInv
<1>2. PICK c : c = cur[p]
  OBVIOUS
<1>3. PICK b : b = PieceAt(p)
  OBVIOUS
<1>4. /\ pc[p] = "itrunc" /\ piece[p] \in Pieces /\ b # 0
      /\ got' = [got EXCEPT ![p] = b] /\ block' = [block EXCEPT ![b] = Zeroes]
      /\ pc' = [pc EXCEPT ![p] = "bfree"]
      /\ bits' = bits /\ dinode' = dinode /\ inode' = inode /\ busy' = busy /\ piece' = piece
      /\ cur' = cur /\ off' = off /\ left' = left /\ boots' = boots /\ size' = size
  BY <1>3 DEF Bzero, Bzeroed, At, Goto, args
<1>5. /\ c \in Files /\ Mine(p, c) /\ busy[c] = p
      /\ inode[c].state = "dying" /\ dinode[c].state = "dying" /\ piece[p] \in Nat
      /\ \A n \in Pieces : Keeps(c, n) <=> n >= piece[p]
  BY <1>2, <1>4, CutFacts
<1>6. PICK m \in Pieces : m = piece[p]
  BY <1>4
<1>7. Has(c, m) = b
  <2>1. Owns(inode[c], m) = b
    BY <1>2, <1>3, <1>6 DEF PieceAt, Me, Owns
  <2>2. Keeps(c, m)
    BY <1>5, <1>6
  <2> QED BY <2>1, <2>2 DEF Has
<1>8. /\ b \in bits /\ b \in BlockNos
      /\ \A f \in Files, n \in Pieces : Has(f, n) = b => f = c /\ n = m
  BY <1>1, <1>4, <1>5, <1>7 DEF Apart, TypeOK
<1>9. TypeOK'
  <2>1. PieceAt(p) \in BlockNos
    BY <1>3, <1>8
  <2> QED BY <1>1, <2>1, BzeroTypes
<1>10. pc'[p] = "bfree" /\ got'[p] = b /\ block'[b] = Zeroes
       /\ \A x \in BlockNos : x # b => block'[x] = block[x]
  BY <1>1, <1>4, <1>8 DEF TypeOK
<1>11. Local(p, c)
  <2>1. \A q \in Procs \ {p} : pc'[q] = pc[q] /\ got'[q] = got[q]
    BY <1>1, <1>4 DEF TypeOK
  <2> QED BY <1>2, <1>4, <2>1 DEF Local
<1>12. OtherBlocks(c)
  BY <1>1, <1>4, <1>5, <1>7, <1>10, <1>11, OneBlock
<1>13. ASSUME NEW k \in Pieces PROVE Has(c, k)' = Has(c, k)
  <2>1. Keeps(c, k)' <=> Keeps(c, k)
    <3>1. \A q \in Procs : Cutting(q, c)' <=> Cutting(q, c)
      BY <1>2, <1>4, <1>5, <1>10, <1>11 DEF Cutting, Mine, Local
    <3> QED BY <1>4, <3>1 DEF Keeps
  <2>2. CASE ~Keeps(c, k)
    BY <2>1, <2>2 DEF Has
  <2>3. CASE Keeps(c, k)
    <3>1. k \in Nat /\ k <= MAXFILE /\ MAXFILE \in Nat /\ MAXFILE \in Pieces /\ k >= m /\ m \in Nat
      BY <1>5, <1>6, <2>3, Numbers
    <3>2. Has(c, MAXFILE) = inode[c].addrs[NDIRECT]
      BY <1>1, <1>5, <2>3, HasIndirect
    <3>3. CASE k = MAXFILE
      <4>1. Owns(inode[c], k)' = Owns(inode[c], k)
        BY <1>4, <3>1, <3>3 DEF Owns
      <4> QED BY <2>1, <4>1 DEF Has
    <3>4. CASE k # MAXFILE
      <4>1. inode[c].addrs[NDIRECT] # b
        BY <1>5, <1>8, <3>1, <3>2, <3>4
      <4>2. inode[c].addrs[NDIRECT] # 0 => inode[c].addrs[NDIRECT] \in BlockNos
        BY <1>1, <1>5, <3>1, <3>2 DEF Apart, TypeOK
      <4>3. inode[c].addrs[NDIRECT] # 0
            => block'[inode[c].addrs[NDIRECT]] = block[inode[c].addrs[NDIRECT]]
        BY <1>10, <4>1, <4>2
      <4>4. Owns(inode[c], k)' = Owns(inode[c], k)
        BY <1>4, <4>3 DEF Owns, Bmap
      <4> QED BY <2>1, <4>4 DEF Has
    <3> QED BY <3>3, <3>4
  <2> QED BY <2>2, <2>3
<1>14. SameHas /\ SameTaken
  <2>1. SameHas
    BY <1>5, <1>12, <1>13, Together
  <2>2. SameTaken
    BY <1>4, <1>10, <1>11 DEF SameTaken, Local
  <2> QED BY <2>1, <2>2
<1>15. Apart' /\ Kept' /\ FreeZeroed'
  <2>1. Apart'
    BY <1>1, <1>4, <1>14, ApartSame
  <2>2. Kept'
    BY <1>1, <1>4, <1>14, KeptSame
  <2>3. FreeZeroed'
    BY <1>1, <1>4, <1>8, <1>10, ZeroedWrite
  <2> QED BY <2>1, <2>2, <2>3
<1>16. CallOf(p)' /\ PassedOf(p)' /\ LockOf(c)'
  <2>1. \A n \in Pieces : n = piece[p] => Has(c, n)' = b
    BY <1>6, <1>7, <1>13
  <2>2. block'[got'[p]] = Zeroes
    BY <1>10
  <2>3. CallOf(p)'
    BY <1>2, <1>4, <1>5, <1>10, <2>1, <2>2 DEF CallOf, Writing
  <2>4. PassedOf(p)'
    BY <1>10 DEF PassedOf, Writing
  <2>5. LockOf(c)'
    BY <1>2, <1>4, <1>5, <1>10 DEF LockOf
  <2> QED BY <2>3, <2>4, <2>5
<1>17. CopyOf(c)' /\ DataOf(c)'
  BY <1>4, <1>5 DEF CopyOf, DataOf
<1> QED BY <1>5, <1>9, <1>11, <1>12, <1>15, <1>16, <1>17, Assembled

LEMMA BfreeStep ==
  ASSUME BlocksInv, NEW p \in Procs, Bfree(p)
  PROVE  BlocksInv'
<1>1. /\ TypeOK /\ Apart /\ Kept /\ FreeZeroed
      /\ \A q \in Procs : CallOf(q)
      /\ \A f \in Files : CopyOf(f) /\ LockOf(f)
  BY DEF BlocksInv
<1>2. PICK c : c = cur[p]
  OBVIOUS
<1>3. PICK b : b = got[p]
  OBVIOUS
<1>4. PICK m : m = piece[p]
  OBVIOUS
<1>5. /\ pc[p] = "bfree" /\ bits' = bits \ {b}
      /\ inode' = IF m < NDIRECT \/ m = MAXFILE
                  THEN [inode EXCEPT ![c].addrs[Direct(m)] = 0] ELSE inode
      /\ got' = [got EXCEPT ![p] = 0] /\ piece' = [piece EXCEPT ![p] = m + 1]
      /\ pc' = [pc EXCEPT ![p] = "itrunc"]
      /\ block' = block /\ dinode' = dinode /\ busy' = busy
      /\ cur' = cur /\ off' = off /\ left' = left /\ boots' = boots /\ size' = size
  BY <1>2, <1>3, <1>4 DEF Bfree, At, Goto, args
<1>6. /\ c \in Files /\ Mine(p, c) /\ busy[c] = p
      /\ inode[c].state = "dying" /\ dinode[c].state = "dying" /\ m \in Nat
      /\ \A n \in Pieces : Keeps(c, n) <=> n >= m
  BY <1>2, <1>4, <1>5, CutFacts
<1>7. m \in Pieces /\ b # 0 /\ block[b] = Zeroes /\ b = Has(c, m)
  BY <1>1, <1>2, <1>3, <1>4, <1>5, <1>6 DEF CallOf
<1>8. TypeOK'
  BY <1>1, <1>2, <1>4, <1>6, <1>7, BfreeTypes
<1>9. pc'[p] = "itrunc" /\ piece'[p] = m + 1
  BY <1>1, <1>5 DEF TypeOK
<1>10. /\ \A g \in Files : /\ inode'[g].state = inode[g].state
                           /\ g # c => inode'[g] = inode[g]
       /\ \A k \in 0 .. NDIRECT :
            ~((m < NDIRECT \/ m = MAXFILE) /\ k = Direct(m)) => inode'[c].addrs[k] = inode[c].addrs[k]
  <2>1. CASE m < NDIRECT \/ m = MAXFILE
    <3>1. PICK k0 : k0 = Direct(m)
      OBVIOUS
    <3>2. 0 \in 0 .. NBLOCKS /\ inode' = [inode EXCEPT ![c].addrs[k0] = 0]
      BY <1>5, <2>1, <3>1, Numbers
    <3>3. \A g \in Files : inode'[g].state = inode[g].state /\ (g # c => inode'[g] = inode[g])
      BY <1>1, <1>6, <3>2, AddrInode
    <3>4. \A k \in 0 .. NDIRECT : k # k0 => inode'[c].addrs[k] = inode[c].addrs[k]
      BY <1>1, <1>6, <3>2, AddrInode
    <3> QED BY <2>1, <3>1, <3>3, <3>4
  <2>2. CASE ~(m < NDIRECT \/ m = MAXFILE)
    BY <1>5, <2>2
  <2> QED BY <2>1, <2>2
<1>11. Local(p, c)
  <2>1. \A q \in Procs \ {p} : pc'[q] = pc[q] /\ got'[q] = got[q] /\ piece'[q] = piece[q]
    BY <1>1, <1>5 DEF TypeOK
  <2> QED BY <1>2, <1>5, <1>10, <2>1 DEF Local
<1>12. OtherBlocks(c)
  BY <1>5, <1>6, <1>11, SameBlocks
<1>13. ASSUME NEW k \in Pieces PROVE Has(c, k)' = IF k = m THEN 0 ELSE Has(c, k)
  <2>1. Keeps(c, k)' <=> k >= m + 1
    <3>1. inode'[c].state = "dying"
      BY <1>6, <1>10
    <3>2. \A q \in Procs : Cutting(q, c)' <=> q = p
      BY <1>2, <1>5, <1>6, <1>9, <1>11 DEF Cutting, Mine, Local
    <3> QED BY <1>9, <3>1, <3>2 DEF Keeps
  <2>2. /\ k \in Nat /\ k <= MAXFILE /\ MAXFILE = NDIRECT + Words /\ NDIRECT \in Nat /\ Words \in Nat \ {0}
    BY Numbers
  <2>3. CASE k <= m
    <3>1. ~(Keeps(c, k)') /\ (k # m => ~Keeps(c, k))
      BY <1>6, <2>1, <2>2, <2>3
    <3> QED BY <3>1 DEF Has
  <2>4. CASE ~(k <= m)
    <3>1. Keeps(c, k)' /\ Keeps(c, k) /\ m < MAXFILE
      BY <1>6, <2>1, <2>2, <2>4
    <3>2. m < NDIRECT => Direct(m) = m
      BY DEF Direct
    <3>3. inode'[c].addrs[NDIRECT] = inode[c].addrs[NDIRECT]
      BY <1>6, <1>10, <2>2, <3>1, <3>2
    <3>4. k < NDIRECT => inode'[c].addrs[k] = inode[c].addrs[k]
      BY <1>6, <1>10, <2>2, <2>4, <3>1, <3>2
    <3>5. Owns(inode[c], k)' = Owns(inode[c], k)
      BY <1>5, <3>3, <3>4 DEF Owns, Bmap
    <3> QED BY <1>6, <2>2, <2>4, <3>1, <3>5 DEF Has
  <2> QED BY <1>6, <2>2, <2>3, <2>4
<1>14. Loses(c, m)
  BY <1>12, <1>13 DEF Loses, OtherBlocks
<1>15. SameTaken
  BY <1>5, <1>9, <1>11 DEF SameTaken, Local
<1>16. Apart' /\ Kept' /\ FreeZeroed'
  <2>1. 0 \notin bits
    BY <1>1 DEF TypeOK, BlockNos
  <2>2. Apart'
    BY <1>1, <1>5, <1>6, <1>7, <1>14, <1>15, <2>1, ApartLoses
  <2>3. Kept'
    BY <1>1, <1>5, <1>6, <1>7, <1>14, <1>15, KeptLoses
  <2>4. FreeZeroed'
    BY <1>1, <1>5, <1>7 DEF FreeZeroed, FreeBlocks
  <2> QED BY <2>2, <2>3, <2>4
<1>17. CallOf(p)' /\ PassedOf(p)' /\ LockOf(c)'
  <2>1. inode'[c].state = "dying"
    BY <1>6, <1>10
  <2>2. CallOf(p)'
    BY <1>2, <1>5, <1>6, <1>9, <2>1 DEF CallOf, Writing
  <2>3. PassedOf(p)'
    BY <1>9 DEF PassedOf, Writing
  <2>4. LockOf(c)'
    BY <1>2, <1>5, <1>6, <1>9 DEF LockOf
  <2> QED BY <2>2, <2>3, <2>4
<1>18. CopyOf(c)' /\ DataOf(c)'
  BY <1>5, <1>6, <1>10 DEF CopyOf, DataOf
<1> QED BY <1>6, <1>8, <1>11, <1>12, <1>16, <1>17, <1>18, Assembled

(* The disk's inode of a file that has a name leads to pieces of the file, *)
(* to none that another has.                                               *)
LEMMA OnDisk ==
  ASSUME NEW f \in Files, CopyOf(f), inode[f].state = "named", NEW n \in Pieces
  PROVE  /\ Owns(dinode[f], n) \in {0, Has(f, n)}
         /\ n < MAXFILE /\ dinode[f].addrs[Smaller(n, NDIRECT)] # 0 => Owns(dinode[f], n) = Has(f, n)
<1>1. Has(f, n) = Owns(inode[f], n)
  BY DEF Has, Keeps
<1>2. \A k \in 0 .. NDIRECT : dinode[f].addrs[k] \in {0, inode[f].addrs[k]}
  BY DEF CopyOf
<1>3. n \in Nat /\ NDIRECT \in Nat /\ NDIRECT \in 0 .. NDIRECT
  BY Numbers
<1>4. CASE n < MAXFILE /\ n < NDIRECT
  <2>1. n \in 0 .. NDIRECT /\ Smaller(n, NDIRECT) = n
    BY <1>3, <1>4 DEF Smaller
  <2>2. Owns(inode[f], n) = inode[f].addrs[n] /\ Owns(dinode[f], n) = dinode[f].addrs[n]
    BY <1>4, PieceOf
  <2> QED BY <1>1, <1>2, <2>1, <2>2
<1>5. CASE n < MAXFILE /\ ~(n < NDIRECT)
  <2>1. Smaller(n, NDIRECT) = NDIRECT
    BY <1>5 DEF Smaller
  <2>2. dinode[f].addrs[NDIRECT] = 0 => Owns(dinode[f], n) = 0
    BY <1>5, PieceOf
  <2>3. dinode[f].addrs[NDIRECT] # 0 => Owns(dinode[f], n) = Owns(inode[f], n)
    <3>1. dinode[f].addrs[NDIRECT] # 0 => dinode[f].addrs[NDIRECT] = inode[f].addrs[NDIRECT]
      BY <1>2, <1>3
    <3> QED BY <1>5, <3>1 DEF Owns, Bmap
  <2> QED BY <1>1, <2>1, <2>2, <2>3
<1>6. CASE ~(n < MAXFILE)
  <2>1. Owns(inode[f], n) = inode[f].addrs[NDIRECT] /\ Owns(dinode[f], n) = dinode[f].addrs[NDIRECT]
    BY <1>6, PieceOf
  <2> QED BY <1>1, <1>2, <1>3, <1>6, <2>1
<1> QED BY <1>4, <1>5, <1>6

LEMMA CrashStep ==
  ASSUME BlocksInv, Crash
  PROVE  BlocksInv'
<1>1. /\ TypeOK /\ Apart /\ FreeZeroed
      /\ \A f \in Files : CopyOf(f) /\ DataOf(f)
  BY DEF BlocksInv
<1>2. /\ boots' = boots + 1 /\ inode' = dinode /\ busy' = [f \in Files |-> NoProc]
      /\ bits' = bits /\ block' = block /\ dinode' = dinode /\ size' = size
      /\ \A p \in Procs : pc'[p] = "user"
  BY DEF Crash, All, ondisk
<1>3. TypeOK'
  BY <1>1, CrashTypes
<1>4. ASSUME NEW f \in Files, NEW n \in Pieces
      PROVE  /\ Has(f, n)' \in {0, Has(f, n)}
             /\ inode[f].state = "named" => Has(f, n)' = Owns(dinode[f], n)
  <2>1. Keeps(f, n)' <=> dinode[f].state = "named"
    BY <1>2 DEF Keeps, Cutting
  <2>2. dinode[f].state = inode[f].state
    BY <1>1 DEF CopyOf
  <2>3. Owns(inode[f], n)' = Owns(dinode[f], n)
    BY <1>2 DEF Owns, Bmap
  <2>4. CASE inode[f].state = "named"
    <3>1. Has(f, n)' = Owns(dinode[f], n)
      BY <2>1, <2>2, <2>3, <2>4 DEF Has
    <3> QED BY <1>1, <2>4, <3>1, OnDisk
  <2>5. CASE inode[f].state # "named"
    BY <2>1, <2>2, <2>5 DEF Has
  <2> QED BY <2>4, <2>5
<1>5. Apart'
  <2>1. ASSUME NEW f \in Files, NEW n \in Pieces, Has(f, n)' # 0
        PROVE  Has(f, n)' \in bits'
    BY <1>1, <1>2, <1>4, <2>1 DEF Apart
  <2>2. ASSUME NEW f \in Files, NEW g \in Files, NEW n \in Pieces, NEW m \in Pieces,
               Has(f, n)' # 0, Has(f, n)' = Has(g, m)'
        PROVE  f = g /\ n = m
    <3>1. Has(f, n) # 0 /\ Has(f, n) = Has(g, m)
      BY <1>4, <2>2
    <3> QED BY <1>1, <3>1 DEF Apart
  <2> QED BY <1>2, <2>1, <2>2 DEF Apart
<1>6. Kept'
  BY <1>1, <1>2 DEF Kept, TypeOK
<1>7. FreeZeroed'
  BY <1>1, <1>2, ZeroedSame
<1>8. ASSUME NEW p \in Procs PROVE CallOf(p)' /\ PassedOf(p)'
  BY <1>2 DEF CallOf, PassedOf, Writing
<1>9. ASSUME NEW f \in Files PROVE LockOf(f)' /\ CopyOf(f)'
  <2>1. CopyOf(f)
    BY <1>1
  <2>2. LockOf(f)'
    BY <1>2 DEF LockOf
  <2>3. CopyOf(f)'
    BY <1>2, <2>1 DEF CopyOf
  <2> QED BY <2>2, <2>3
<1>10. ASSUME NEW f \in Files PROVE DataOf(f)'
  <2>1. SUFFICES ASSUME NEW w \in Nat, dinode[f].state = "named", w < size[f]
                 PROVE  Holds(f, w)' /\ Leads(f, w)'
    BY <1>2 DEF DataOf
  <2>2. CopyOf(f) /\ DataOf(f) /\ inode[f].state = "named"
    BY <1>1, <2>1 DEF CopyOf
  <2>3. Holds(f, w) /\ Leads(f, w)
    BY <2>1, <2>2 DEF DataOf
  <2>4. PICK k \in Pieces : k = w \div Words /\ k < MAXFILE
    <3>1. w \div Words \in Nat /\ w \div Words < MAXFILE
      BY <2>3, Division DEF Holds
    <3>2. w \div Words \in Pieces
      BY <3>1, Numbers
    <3> QED BY <3>1, <3>2
  <2>5. Has(f, k)' = Has(f, k)
    <3>1. Owns(dinode[f], k) = Has(f, k)
      BY <2>2, <2>3, <2>4, OnDisk DEF Leads
    <3> QED BY <1>4, <2>2, <3>1
  <2>6. Holds(f, w)'
    BY <1>2, <2>3, <2>4, <2>5 DEF Holds
  <2>7. Leads(f, w)'
    BY <1>2, <2>3 DEF Leads
  <2> QED BY <2>6, <2>7
<1> QED BY <1>3, <1>5, <1>6, <1>7, <1>8, <1>9, <1>10 DEF BlocksInv
-----------------------------------------------------------------------------
(* The invariant. *)
LEMMA InitInv ==
  ASSUME Init
  PROVE  BlocksInv
<1>1. /\ bits = {} /\ inode = dinode
      /\ \A b \in BlockNos : block[b] = Zeroes
      /\ \A f \in Files : inode[f].state = "free" /\ busy[f] = NoProc
      /\ \A p \in Procs : pc[p] = "user"
  BY DEF Init, FreeInode, All
<1>2. TypeOK
  BY InitTypes
<1>3. \A f \in Files, n \in Pieces : Has(f, n) = 0
  BY <1>1 DEF Has, Keeps, Cutting
<1>4. Apart /\ Kept /\ FreeZeroed
  BY <1>1, <1>3 DEF Apart, Kept, FreeZeroed, FreeBlocks
<1>5. ASSUME NEW p \in Procs PROVE CallOf(p) /\ PassedOf(p)
  <2>1. pc[p] = "user" /\ ~Writing(p)
    BY <1>1 DEF Writing
  <2>2. CallOf(p)
    BY <2>1 DEF CallOf
  <2>3. PassedOf(p)
    BY <2>1 DEF PassedOf
  <2> QED BY <2>2, <2>3
<1>6. \A f \in Files : LockOf(f) /\ CopyOf(f) /\ DataOf(f)
  BY <1>1 DEF LockOf, CopyOf, DataOf
<1> QED BY <1>2, <1>4, <1>5, <1>6 DEF BlocksInv

LEMMA BlocksStutter ==
  ASSUME BlocksInv, UNCHANGED vars
  PROVE  BlocksInv'
<1>1. /\ bits' = bits /\ block' = block /\ dinode' = dinode /\ inode' = inode /\ busy' = busy
      /\ pc' = pc /\ cur' = cur /\ off' = off /\ left' = left /\ got' = got /\ piece' = piece
      /\ boots' = boots /\ size' = size
  BY DEF vars
<1>2. ASSUME NEW f, NEW n PROVE Has(f, n)' = Has(f, n)
  BY <1>1 DEF Has, Keeps, Cutting, Owns, Bmap
<1>3. ASSUME NEW f, NEW w PROVE (Holds(f, w)' <=> Holds(f, w)) /\ (Leads(f, w)' <=> Leads(f, w))
  BY <1>1, <1>2 DEF Holds, Leads
<1>4. TypeOK'
  BY <1>1 DEF BlocksInv, TypeOK
<1>5. Apart' /\ Kept' /\ FreeZeroed'
  <2>1. Apart'
    BY <1>1, <1>2 DEF BlocksInv, Apart
  <2>2. Kept'
    BY <1>1, <1>2 DEF BlocksInv, Kept
  <2>3. FreeZeroed'
    BY <1>1 DEF BlocksInv, FreeZeroed, FreeBlocks
  <2> QED BY <2>1, <2>2, <2>3
<1>6. ASSUME NEW p \in Procs PROVE CallOf(p)' /\ PassedOf(p)'
  <2>1. CallOf(p) /\ PassedOf(p)
    BY DEF BlocksInv
  <2>2. CallOf(p)'
    BY <1>1, <1>2, <2>1 DEF CallOf, Writing, Bn
  <2>3. PassedOf(p)'
    BY <1>1, <1>3, <2>1 DEF PassedOf, Writing
  <2> QED BY <2>2, <2>3
<1>7. ASSUME NEW f \in Files PROVE LockOf(f)' /\ CopyOf(f)' /\ DataOf(f)'
  <2>1. LockOf(f) /\ CopyOf(f) /\ DataOf(f)
    BY DEF BlocksInv
  <2>2. LockOf(f)' /\ CopyOf(f)'
    BY <1>1, <2>1 DEF LockOf, CopyOf, Writing
  <2>3. DataOf(f)'
    BY <1>1, <1>3, <2>1 DEF DataOf
  <2> QED BY <2>2, <2>3
<1> QED BY <1>4, <1>5, <1>6, <1>7 DEF BlocksInv

LEMMA BlocksStep ==
  ASSUME BlocksInv, [Next]_vars
  PROVE  BlocksInv'
<1>1. CASE Crash
  BY <1>1, CrashStep
<1>2. ASSUME NEW f \in Files, Create(f) PROVE BlocksInv'
  BY <1>2, CreateStep
<1>3. ASSUME NEW p \in Procs, NEW f \in Files, Writei(p, f) PROVE BlocksInv'
  BY <1>3, WriteiStep
<1>4. ASSUME NEW p \in Procs, NEW f \in Files, Unlink(p, f) PROVE BlocksInv'
  BY <1>4, UnlinkStep
<1>5. ASSUME NEW p \in Procs, BmapInode(p) PROVE BlocksInv'
  BY <1>5, BmapInodeStep
<1>6. ASSUME NEW p \in Procs, BmapIndirect(p) PROVE BlocksInv'
  BY <1>6, BmapIndirectStep
<1>7. ASSUME NEW p \in Procs, BwriteIndirect(p) PROVE BlocksInv'
  BY <1>7, BwriteIndirectStep
<1>8. ASSUME NEW p \in Procs, WriteData(p) PROVE BlocksInv'
  BY <1>8, WriteDataStep
<1>9. ASSUME NEW p \in Procs, WriteEnds(p) PROVE BlocksInv'
  BY <1>9, WriteEndsStep
<1>10. ASSUME NEW p \in Procs, Skip(p) PROVE BlocksInv'
  BY <1>10, SkipStep
<1>11. ASSUME NEW p \in Procs, Bzero(p) PROVE BlocksInv'
  BY <1>11, BzeroStep
<1>12. ASSUME NEW p \in Procs, Bfree(p) PROVE BlocksInv'
  BY <1>12, BfreeStep
<1>13. ASSUME NEW p \in Procs, Truncated(p) PROVE BlocksInv'
  BY <1>13, TruncatedStep
<1>14. ASSUME NEW p \in Procs, Ifree(p) PROVE BlocksInv'
  BY <1>14, IfreeStep
<1>15. CASE UNCHANGED vars
  BY <1>15, BlocksStutter
<1> QED BY <1>1, <1>2, <1>3, <1>4, <1>5, <1>6, <1>7, <1>8, <1>9, <1>10, <1>11, <1>12, <1>13, <1>14,
           <1>15 DEF Next

LEMMA BlocksInvariant == Spec => []BlocksInv
<1>1. Init => BlocksInv
  BY InitInv
<1>2. BlocksInv /\ [Next]_vars => BlocksInv'
  BY BlocksStep
<1> QED BY <1>1, <1>2, PTL DEF Spec
-----------------------------------------------------------------------------
(* What the invariant says of the disk. *)
LEMMA OwnedFollows ==
  ASSUME BlocksInv
  PROVE  BlocksOwned
<1>1. TypeOK /\ Apart /\ Kept /\ \A p \in Procs : CallOf(p)
  BY DEF BlocksInv
<1>2. ASSUME NEW f \in Named, NEW n \in Pieces, Owns(dinode[f], n) # 0
      PROVE  /\ f \in Files /\ Owns(dinode[f], n) = Has(f, n)
             /\ Has(f, n) # 0 /\ Has(f, n) \in bits
  <2>1. f \in Files /\ dinode[f].state = "named"
    BY DEF Named
  <2>2. CopyOf(f) /\ inode[f].state = "named"
    BY <2>1 DEF BlocksInv, CopyOf
  <2>3. Owns(dinode[f], n) = Has(f, n)
    BY <1>2, <2>1, <2>2, OnDisk
  <2> QED BY <1>1, <1>2, <2>1, <2>3 DEF Apart
<1>3. ASSUME NEW f \in Named PROVE Uses(dinode[f]) \subseteq bits /\ Distinct(dinode[f])
  <2>1. Uses(dinode[f]) \subseteq bits
    BY <1>2 DEF Uses
  <2>2. ASSUME NEW n \in Pieces, NEW m \in Pieces,
               Owns(dinode[f], n) # 0, Owns(dinode[f], n) = Owns(dinode[f], m)
        PROVE  n = m
    <3>1. f \in Files /\ Has(f, n) # 0 /\ Has(f, n) = Has(f, m)
      BY <1>2, <2>2
    <3> QED BY <1>1, <3>1 DEF Apart
  <2> QED BY <2>1, <2>2 DEF Distinct
<1>4. ASSUME NEW f \in Named, NEW g \in Named, f # g
      PROVE  Uses(dinode[f]) \cap Uses(dinode[g]) = {}
  <2>1. ASSUME NEW n \in Pieces, NEW m \in Pieces,
               Owns(dinode[f], n) # 0, Owns(dinode[f], n) = Owns(dinode[g], m)
        PROVE  FALSE
    <3>1. f \in Files /\ g \in Files /\ Has(f, n) # 0 /\ Has(f, n) = Has(g, m)
      BY <1>2, <2>1
    <3> QED BY <1>1, <1>4, <3>1 DEF Apart
  <2> QED BY <2>1 DEF Uses
<1>5. ASSUME NEW p \in Procs PROVE ~FreeingFree(p)
  <2>1. SUFFICES ASSUME pc[p] = "bfree" PROVE got[p] \in bits
    BY DEF FreeingFree, At
  <2>2. PICK f \in Files : f = cur[p]
    BY <1>1, <2>1 DEF CallOf
  <2>3. PICK n \in Pieces : n = piece[p]
    BY <1>1, <2>1, <2>2 DEF CallOf
  <2>4. got[p] # 0 /\ got[p] = Has(f, n)
    BY <1>1, <2>1, <2>2, <2>3 DEF CallOf
  <2> QED BY <1>1, <2>4 DEF Apart
<1>6. ASSUME boots = 0 PROVE NoneLost
  <2>1. SUFFICES ASSUME NEW b \in bits
                 PROVE  b \in (UNION {Uses(inode[f]) : f \in Files}) \cup {got[p] : p \in Procs}
    BY DEF NoneLost
  <2>2. ASSUME NEW f \in Files, NEW n \in Pieces, Has(f, n) = b
        PROVE  b \in Uses(inode[f])
    <3>1. b # 0
      BY <1>1 DEF TypeOK, BlockNos
    <3>2. Owns(inode[f], n) = b
      BY <2>2, <3>1 DEF Has
    <3> QED BY <3>1, <3>2 DEF Uses
  <2>3. CASE \E f \in Files, n \in Pieces : Has(f, n) = b
    <3>1. \E f \in Files : b \in Uses(inode[f])
      BY <2>2, <2>3
    <3>2. b \in UNION {Uses(inode[f]) : f \in Files}
      BY <3>1
    <3> QED BY <3>2
  <2>4. ASSUME NEW p \in Procs, got[p] = b
        PROVE  b \in {got[q] : q \in Procs}
    BY <2>4
  <2>5. \/ \E f \in Files, n \in Pieces : Has(f, n) = b
        \/ \E p \in Procs : got[p] = b
    BY <1>1, <1>6 DEF Kept
  <2>6. CASE \E p \in Procs : got[p] = b
    BY <2>4, <2>6
  <2> QED BY <2>3, <2>5, <2>6
<1> QED BY <1>3, <1>4, <1>5, <1>6 DEF BlocksOwned

LEMMA DurableFollows ==
  ASSUME BlocksInv
  PROVE  WrittenIsDurable
<1>1. SUFFICES ASSUME NEW f \in Named
      PROVE  /\ dinode[f].size = size[f]
             /\ \A w \in 0 .. size[f] - 1 : /\ Bmap(dinode[f], w \div Words) # 0
                                            /\ Word(dinode[f], w) = f
  BY DEF WrittenIsDurable
<1>2. /\ f \in Files /\ inode[f].state = "named" /\ CopyOf(f) /\ DataOf(f)
      /\ dinode[f].size = size[f] /\ size[f] \in Nat
  BY DEF Named, BlocksInv, CopyOf, TypeOK
<1>3. ASSUME NEW w \in 0 .. size[f] - 1
      PROVE  Bmap(dinode[f], w \div Words) # 0 /\ Word(dinode[f], w) = f
  <2>1. w \in Nat /\ w < size[f]
    BY <1>2
  <2>2. Holds(f, w) /\ Leads(f, w)
    BY <1>2, <2>1 DEF DataOf
  <2>3. PICK k : k = w \div Words
    OBVIOUS
  <2>4. k \in Pieces /\ k < MAXFILE
    <3>1. k \in Nat /\ k < MAXFILE
      BY <2>1, <2>2, <2>3, Division DEF Holds
    <3> QED BY <3>1, Numbers
  <2>5. Bmap(dinode[f], k) = Has(f, k)
    <3>1. Owns(dinode[f], k) = Has(f, k)
      BY <1>2, <2>2, <2>3, <2>4, OnDisk DEF Leads
    <3> QED BY <2>4, <3>1, PieceOf
  <2> QED BY <2>2, <2>3, <2>5 DEF Holds, Word
<1> QED BY <1>2, <1>3

(* The types of the disk, of the copies of the inodes and of the calls.    *)
THEOREM BlocksTypes == Spec => []TypeOK
<1>1. BlocksInv => TypeOK
  BY DEF BlocksInv
<1> QED BY <1>1, BlocksInvariant, PTL

(* Whenever the machine stops: a free block is zero (balloc() hands it out *)
(* as it is, and bmap() reads the numbers in a new indirect block); no     *)
(* block is in two files or twice in one, each is marked in use, bfree()   *)
(* never panics "freeing free block", and before the first crash no block  *)
(* is lost; what write() has returned for is on the disk, in the file's    *)
(* own blocks, and the inode there has its size.                           *)
THEOREM BlocksCorrect == Spec => []BlocksSound
<1>1. BlocksInv => BlocksSound
  <2>1. BlocksInv => FreeZeroed
    BY DEF BlocksInv
  <2> QED BY <2>1, OwnedFollows, DurableFollows DEF BlocksSound
<1> QED BY <1>1, BlocksInvariant, PTL
=============================================================================
