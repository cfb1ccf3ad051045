------------------------------ MODULE RunScan ------------------------------
(***************************************************************************)
(* p7: runscan.c finds the JPEGs of an ext2 image and copies them.  Two    *)
(* machines with variables of their own, for two questions.                *)
(*                                                                         *)
(* data_copy() copies one file, through the direct, the indirect and the   *)
(* double indirect blocks.  A block has BLOCK units; the unit at offset o  *)
(* of the image is o itself, so a copy shows what was read.  The file lies *)
(* in the image as mkfs and debugfs put it, in one piece with its indirect *)
(* blocks in between: ext2 itself is external.                             *)
(*                                                                         *)
(* main() walks over the inodes, and for each JPEG name_search() walks     *)
(* over the entries of the directories for its name.  The image is two     *)
(* directories, the root and one below it, each of one block, with the     *)
(* entries of files, deleted ones among them.  A block is read by words of *)
(* 4 bytes; what name_search() takes for the inode and the length of an    *)
(* entry need not be one.                                                  *)
(***************************************************************************)
EXTENDS Integers, Sequences, SequencesExt

CONSTANTS BLOCK, DIRECT, PER,   \* 1024 bytes, 12 and 256 in the code
          MaxSize,              \* bound of the model: no triple indirect block
          GROUPS, PER_GROUP,   \* groups of the image, inodes of a group
          JPEGS, Lengths,      \* inodes of files, and the lengths their names may have
          DirBytes,            \* bytes of a block, 1024 in the code
          LETTER               \* the code of a letter

VARIABLES
  size,      \* i_size
  offset,    \* where the image is read next
  copied,    \* what is in the new file
  group,     \* double_ind_cnt
  scanpc

scanvars == <<size, offset, copied, group, scanpc>>

FirstBlock == 1
Indirect == FirstBlock + DIRECT
DoubleIndirect == Indirect + PER + 1
(* What the pointers in the image say; a pointer that ext2 never set is 0. *)
Blocks == (size + BLOCK - 1) \div BLOCK
i_block(i) == FirstBlock + i
OfIndirect == Indirect + 1
HasGroup(g) == Blocks > DIRECT + PER + g * PER
OfGroup(g) == IF HasGroup(g) THEN DoubleIndirect + g * (PER + 1) + 2 ELSE 0

Units(from, n) == [u \in 1 .. n |-> from + u - 1]
DataBlock(b) ==
  IF b < DIRECT THEN i_block(b)
  ELSE IF b < DIRECT + PER THEN OfIndirect + b - DIRECT
  ELSE OfGroup((b - DIRECT - PER) \div PER) + ((b - DIRECT - PER) % PER)
Content == [u \in 1 .. size |-> DataBlock((u - 1) \div BLOCK) * BLOCK + ((u - 1) % BLOCK)]

ScanInit ==
  /\ size \in 0 .. MaxSize /\ offset = 0 /\ copied = <<>> /\ group = 0
  /\ scanpc = "direct"
-----------------------------------------------------------------------------
blocks_needed == size \div BLOCK
last_block == size % BLOCK
AtMost(n, most) == IF n > most THEN most ELSE n

(* read() and fwrite() of n units from where the image is at. *)
Read(from, n) == copied' = copied \o Units(from, n) /\ offset' = from + n

(* Each direct block is looked up; with none the image is at the first. *)
DirectBlocks ==
  /\ scanpc = "direct" /\ scanpc' = "directTail"
  /\ LET n == AtMost(blocks_needed, DIRECT)
     IN Read(i_block(0) * BLOCK, n * BLOCK)
  /\ UNCHANGED <<size, group>>
DirectTail ==
  /\ scanpc = "directTail" /\ scanpc' = "indirect"
  /\ Read(offset, IF blocks_needed < DIRECT THEN last_block ELSE 0)
  /\ UNCHANGED <<size, group>>

(* The indirect block's first pointer; what it leads to is read on. *)
FromIndirect_not(n) == n
FromIndirect(n) == AtMost(n - DIRECT, PER)
IndirectBlocks ==
  /\ scanpc = "indirect" /\ scanpc' = "double"
  /\ IF blocks_needed > DIRECT
     THEN LET n == FromIndirect(blocks_needed)
          IN Read(OfIndirect * BLOCK, n * BLOCK + (IF n < PER THEN last_block ELSE 0))
     ELSE UNCHANGED <<copied, offset>>
  /\ UNCHANGED <<size, group>>

(* Of the double indirect block one pointer after the other. *)
InDouble == blocks_needed - DIRECT - PER
GroupBlocks ==
  /\ scanpc = "double" /\ blocks_needed > DIRECT + PER /\ group < InDouble \div PER
  /\ Read(OfGroup(group) * BLOCK, PER * BLOCK)
  /\ group' = group + 1
  /\ UNCHANGED <<size, scanpc>>
LeftOvers ==
  /\ scanpc = "double" /\ blocks_needed > DIRECT + PER /\ group = InDouble \div PER
  /\ Read(OfGroup(group) * BLOCK, (InDouble % PER) * BLOCK + last_block)
  /\ scanpc' = "copied" /\ UNCHANGED <<size, group>>
NoDouble ==
  /\ scanpc = "double" /\ blocks_needed <= DIRECT + PER /\ scanpc' = "copied"
  /\ UNCHANGED <<size, offset, copied, group>>

ScanNext ==
  DirectBlocks \/ DirectTail \/ IndirectBlocks \/ GroupBlocks \/ LeftOvers \/ NoDouble
ScanSpec == ScanInit /\ [][ScanNext]_scanvars
-----------------------------------------------------------------------------
(* p7/README.md, the copy is the file, wherever in the levels of blocks it *)
(* ends: no part of it twice, none left out, no block of pointers in it.   *)
(* The code keeps this but for the last, partial block of a file whose     *)
(* whole blocks end a level, 12 or 268 of them: that block is not copied.  *)
EndsALevel == blocks_needed \in {DIRECT, DIRECT + PER}
CopyWhole ==
  scanpc = "copied" =>
    copied = IF EndsALevel THEN SubSeq(Content, 1, blocks_needed * BLOCK) ELSE Content
-----------------------------------------------------------------------------
(* main() and name_search(). *)
VARIABLES
  kind, entries,        \* the image: [inode |-> ...], [directory |-> ...]
  inode_no,             \* main()'s place
  ngroup, idx,          \* name_search()'s, 0 from
  byte_count,
  out,                  \* the files it has written: <<inode, its name or 0>>
  namepc

namevars == <<kind, entries, inode_no, ngroup, idx, byte_count, out, namepc>>

Inodes == 1 .. GROUPS * PER_GROUP
root == 2
sub == PER_GROUP + 1
Entry(ino, len) == [ino |-> ino, len |-> len]
NameInit ==
  /\ \E where \in [JPEGS -> {root, sub}], len \in [JPEGS -> Lengths], other \in SUBSET JPEGS :
       LET files(d) == SelectSeq(SetToSeq(JPEGS), LAMBDA f : where[f] = d)
           of(d) == [x \in DOMAIN files(d) |-> Entry(files(d)[x], len[files(d)[x]])]
       IN /\ entries = [d \in {root, sub} |->
               <<Entry(d, 1), Entry(root, 2)>> \o (IF d = root THEN <<Entry(sub, 3)>> ELSE <<>>) \o of(d)]
          /\ kind = [n \in Inodes |-> CASE n \in {root, sub} -> "dir" [] n \in other -> "other"
                                        [] n \in JPEGS \ other -> "jpeg" [] OTHER -> "none"]
  /\ inode_no = 1 /\ ngroup = 0 /\ idx = 0 /\ byte_count = 0 /\ out = {} /\ namepc = "main"

(* A block of entries, word by word: the inode, the length, the name. *)
NameWords(len) == (len + 3) \div 4
WordsOf(e) ==
  <<[inode |-> e.ino, len |-> 0], [inode |-> -1, len |-> e.len]>> \o
  [w \in 1 .. NameWords(e.len) |-> [inode |-> -1, len |-> IF 4 * w - 1 <= e.len THEN LETTER ELSE 0]]
Block(d) == FoldLeft(LAMBDA s, e : s \o WordsOf(e), <<>>, entries[d])
Word(d, at) ==
  LET w == (at \div 4) + 1
  IN IF w <= Len(Block(d)) THEN Block(d)[w] ELSE [inode |-> 0, len |-> 0]
-----------------------------------------------------------------------------
(* main(): the next inode, by groups; a regular file that begins with the  *)
(* magic number of a JPEG has its name looked for.                         *)
NextInode ==
  /\ namepc = "main" /\ inode_no \in Inodes /\ kind[inode_no] # "jpeg"
  /\ inode_no' = inode_no + 1
  /\ UNCHANGED <<kind, entries, ngroup, idx, byte_count, out, namepc>>
FindName ==
  /\ namepc = "main" /\ inode_no \in Inodes /\ kind[inode_no] = "jpeg"
  /\ namepc' = "search" /\ ngroup' = 0 /\ idx' = 0
  /\ UNCHANGED <<kind, entries, inode_no, byte_count, out>>
MainEnds ==
  /\ namepc = "main" /\ inode_no \notin Inodes /\ namepc' = "done"
  /\ UNCHANGED <<kind, entries, inode_no, ngroup, idx, byte_count, out>>

(* The inodes of each group, and one behind them that is none: the table   *)
(* is followed by data.                                                    *)
Inode == ngroup * PER_GROUP + idx + 1
IsDir == idx < PER_GROUP /\ kind[Inode] = "dir"
Advances == idx' = (IF idx = PER_GROUP THEN 0 ELSE idx + 1) /\ ngroup' = ngroup + (IF idx = PER_GROUP THEN 1 ELSE 0)
SearchInode ==
  /\ namepc = "search" /\ ngroup < GROUPS
  /\ IF IsDir THEN namepc' = "entries" /\ byte_count' = 0 /\ UNCHANGED <<ngroup, idx>>
     ELSE Advances /\ UNCHANGED <<namepc, byte_count>>
  /\ UNCHANGED <<kind, entries, inode_no, out>>
(* One entry.  The length of its name is rounded up to words, but for 4    *)
(* every multiple of 4 to the next one.                                    *)
Aligned(len) == IF len = 4 THEN 4 ELSE len + 4 - (len % 4)
Skips ==
  /\ namepc = "entries" /\ byte_count < DirBytes /\ Word(Inode, byte_count).inode # inode_no
  /\ byte_count' = byte_count + 8 + Aligned(Word(Inode, byte_count + 4).len)
  /\ UNCHANGED <<kind, entries, inode_no, ngroup, idx, out, namepc>>
(* main() goes on with the three files: the data twice, and the details.   *)
Found ==
  /\ namepc = "entries" /\ byte_count < DirBytes /\ Word(Inode, byte_count).inode = inode_no
  /\ out' = out \cup {<<inode_no, Word(Inode, byte_count + 4).len>>}
  /\ namepc' = "main" /\ inode_no' = inode_no + 1
  /\ UNCHANGED <<kind, entries, ngroup, idx, byte_count>>
EntriesEnd ==
  /\ namepc = "entries" /\ byte_count >= DirBytes /\ namepc' = "search" /\ Advances
  /\ UNCHANGED <<kind, entries, inode_no, byte_count, out>>
(* No name: fopen() of the directory itself fails, and main() returns.     *)
NotFound ==
  /\ namepc = "search" /\ ngroup = GROUPS /\ namepc' = "failed"
  /\ out' = out \cup {<<inode_no, 0>>}
  /\ UNCHANGED <<kind, entries, inode_no, ngroup, idx, byte_count>>

NameNext ==
  NextInode \/ FindName \/ MainEnds \/ SearchInode \/ Skips \/ Found \/ EntriesEnd \/ NotFound
NameSpec == NameInit /\ [][NameNext]_namevars
-----------------------------------------------------------------------------
(* p7/README.md: each JPEG is copied under the name a directory has for    *)
(* it, never under another one.  The code keeps this for images in which   *)
(* no name of 8, 12, ... letters comes before another entry.               *)
NamedIn(d, f) == {x \in DOMAIN entries[d] : entries[d][x].ino = f}
NameOf(f) == UNION {{entries[d][x].len : x \in NamedIn(d, f)} : d \in {root, sub}}
Upset ==
  \E d \in {root, sub} : \E x \in 1 .. Len(entries[d]) - 1 :
    entries[d][x].len % 4 = 0 /\ entries[d][x].len # 4
NamesRight ==
  /\ \A o \in out : o[2] \in NameOf(o[1]) \/ (o[2] = 0 /\ namepc = "failed")
  /\ namepc = "failed" => Upset
  /\ namepc = "done" => {o[1] : o \in out} = {n \in Inodes : kind[n] = "jpeg"}
=============================================================================
