------------------------------- MODULE Files -------------------------------
(***************************************************************************)
(* Names and inodes of the kernels' file system: the inode cache and the   *)
(* directories of fs.c and the calls of sysfile.c that use them.  There is *)
(* no log: a crash keeps what has been written, block by block.            *)
(*                                                                         *)
(* A step ends at every write to the disk, and wherever a process gives up *)
(* or waits for the lock of an inode (I_BUSY).  What is read under such a  *)
(* lock cannot change meanwhile and belongs to the step that takes it.     *)
(***************************************************************************)
EXTENDS Integers, Sequences, FiniteSets

CONSTANTS Procs, NoProc,
          Inodes, NoInode,  \* inode numbers; the root is 1 (ROOTINO)
          Names,            \* names but "." and ".."
          Workloads,        \* sets of calls programs make: [op, path], [op, path, new]
          MaxBoots          \* bound of the model: crashes

Root == 1
Entries == Names \cup {".."}
Kind == [creat |-> "file", mkdir |-> "dir", mknod |-> "dev"]
(* "/" is the root when it comes first. *)
IsPath(s) == /\ s \in Seq(Entries \cup {"/"}) /\ s # <<>>
             /\ \A k \in 2 .. Len(s) : s[k] # "/"
ASSUME FilesAssumption ==
  /\ NoProc \notin Procs /\ NoInode \notin Inodes /\ ".." \notin Names /\ "/" \notin Names
  /\ Inodes \subseteq Nat \ {0} /\ Root \in Inodes /\ MaxBoots \in Nat
  /\ IsFiniteSet(Procs) /\ IsFiniteSet(Inodes) /\ IsFiniteSet(Names)
  /\ \A c \in UNION Workloads :
       /\ c.op \in {"creat", "mkdir", "mknod", "unlink", "link", "open", "openw", "chdir"}
       /\ IsPath(c.path) /\ (c.op = "link" => IsPath(c.new))

VARIABLES
  dinode, dents,      \* the disk: struct dinode; the entries of a directory
  ref, busy, valid,   \* the inode cache: ref, who set I_BUSY, I_VALID
  inode,              \* and its copy of the dinode
  cwd, file,          \* proc->cwd; an open file (a table of one)
  pc, call, path,     \* a call: its place and what is left of the path
  dp, ip,             \* its locals
  puts, stage,        \* inodes it is to iput(), and how far the first is
  panicked, boots,
  calls,              \* the workload of this machine
  lost                \* history: has a name been put into a removed directory?

disk == <<dinode, dents>>
icache == <<ref, busy, valid, inode>>
places == <<cwd, file>>
locals == <<call, path, dp, ip>>
putting == <<puts, stage>>
ghost == <<panicked, boots, calls, lost>>
vars == <<dinode, dents, ref, busy, valid, inode, cwd, file, pc, call, path, dp,
          ip, puts, stage, panicked, boots, calls, lost>>

None == [n \in Entries |-> NoInode]
Empty == [type |-> "free", nlink |-> 0]
NoCall == [op |-> "none", path |-> <<>>]

(* After a boot every process is in the root and no other inode is cached. *)
All(v) == [p \in Procs |-> v]
Every(v) == [i \in Inodes |-> v]
Ref0 == [Every(0) EXCEPT ![Root] = Cardinality(Procs)]
Init ==
  /\ dinode = [Every(Empty) EXCEPT ![Root] = [type |-> "dir", nlink |-> 1]]
  /\ dents = [Every(None) EXCEPT ![Root][".."] = Root]
  /\ ref = Ref0 /\ busy = Every(NoProc) /\ valid = Every(FALSE) /\ inode = Every(Empty)
  /\ cwd = All(Root) /\ file = All(NoInode)
  /\ pc = All("user") /\ call = All(NoCall) /\ path = All(<<>>)
  /\ dp = All(NoInode) /\ ip = All(NoInode) /\ puts = All(<<>>) /\ stage = All("no")
  /\ panicked = "no" /\ boots = 0 /\ calls \in Workloads /\ lost = FALSE
-----------------------------------------------------------------------------
(* What ilock() makes of an inode: it is read unless the copy is valid. *)
Inode(i) == IF valid[i] THEN inode[i] ELSE dinode[i]
IsDir(i) == Inode(i).type = "dir"
Ready(p, at) == pc[p] = at /\ puts[p] = <<>> /\ panicked = "no"
CanLock(i) == busy[i] = NoProc /\ Inode(i).type # "free"
Read(i) == inode' = [inode EXCEPT ![i] = Inode(i)] /\ valid' = [valid EXCEPT ![i] = TRUE]
(* ilock(), a change to the inode, iupdate(). *)
Write(i, new) ==
  /\ inode' = [inode EXCEPT ![i] = new] /\ valid' = [valid EXCEPT ![i] = TRUE]
  /\ dinode' = [dinode EXCEPT ![i] = new]
Linked(i, n) == [Inode(i) EXCEPT !.nlink = @ + n]
Iunlock(i) == busy' = [busy EXCEPT ![i] = NoProc]
Iget_uncounted(i) == UNCHANGED ref
Iget(i) == ref' = [ref EXCEPT ![i] = @ + 1]

Goto(p, at) == pc' = [pc EXCEPT ![p] = at]
Set(x, p, v) == [x EXCEPT ![p] = v]
(* A call returns when what it has got has been put; s: what that is. *)
Return(p, s) ==
  /\ Goto(p, "user") /\ puts' = Set(puts, p, s)
  /\ call' = Set(call, p, NoCall) /\ path' = Set(path, p, <<>>)
  /\ dp' = Set(dp, p, NoInode) /\ ip' = Set(ip, p, NoInode)
-----------------------------------------------------------------------------
(* iput(), as the last step of a call or of one iteration of namex().  An  *)
(* entry nobody refers to is dead: iget() resets its flags.                *)
LastPut_any(i) == valid[i] /\ inode[i].nlink = 0
LastPut(i) == ref[i] = 1 /\ valid[i] /\ inode[i].nlink = 0
Putting(p, s) == puts[p] # <<>> /\ stage[p] = s /\ panicked = "no"
Unref(i) == ref' = [ref EXCEPT ![i] = @ - 1]
Dead(f, i, none) == IF ref[i] = 1 THEN [f EXCEPT ![i] = none] ELSE f

Iput(p) ==
  /\ Putting(p, "no") /\ ~LastPut(Head(puts[p]))
  /\ Unref(Head(puts[p]))
  /\ valid' = Dead(valid, Head(puts[p]), FALSE)
  /\ inode' = Dead(inode, Head(puts[p]), Empty)
  /\ puts' = Set(puts, p, Tail(puts[p]))
  /\ UNCHANGED <<disk, busy, places, pc, locals, stage, ghost>>

IputLast(p) ==
  /\ Putting(p, "no") /\ LastPut(Head(puts[p]))
  /\ panicked' = IF busy[Head(puts[p])] = NoProc THEN "no" ELSE "iput"
  /\ busy' = [busy EXCEPT ![Head(puts[p])] = p]
  /\ stage' = Set(stage, p, "trunc")
  /\ UNCHANGED <<disk, ref, valid, inode, places, pc, locals, puts, boots, calls, lost>>

(* itrunc(): the blocks of a directory are zeroed. *)
Itrunc(p) ==
  /\ Putting(p, "trunc")
  /\ dents' = [dents EXCEPT ![Head(puts[p])] = None]
  /\ stage' = Set(stage, p, "free")
  /\ UNCHANGED <<dinode, icache, places, pc, locals, puts, ghost>>

(* type = 0; iupdate() *)
Ifree(p) ==
  /\ Putting(p, "free")
  /\ Write(Head(puts[p]), Empty)
  /\ stage' = Set(stage, p, "drop")
  /\ UNCHANGED <<dents, ref, busy, places, pc, locals, puts, ghost>>

(* flags = 0; ref--.  ialloc() may have taken the free inode meanwhile. *)
Cleared_only_busy(i) == Dead(valid, i, FALSE)
Cleared(i) == [valid EXCEPT ![i] = FALSE]
Idrop(p) ==
  /\ Putting(p, "drop")
  /\ LET i == Head(puts[p])
     IN /\ valid' = Cleared(i)
        /\ inode' = [inode EXCEPT ![i] = IF valid'[i] THEN @ ELSE Empty]
        /\ busy' = [busy EXCEPT ![i] = NoProc]
        /\ Unref(i)
  /\ stage' = Set(stage, p, "no") /\ puts' = Set(puts, p, Tail(puts[p]))
  /\ UNCHANGED <<disk, places, pc, locals, ghost>>
-----------------------------------------------------------------------------
(* namex(): nameiparent() stops at the last element. *)
ForParent(c) == c.op \in {"creat", "mkdir", "mknod", "unlink", "linkto"}
Start(p, s) == IF s[1] = "/" THEN Root ELSE cwd[p]
Relative(s) == IF s[1] = "/" THEN Tail(s) ELSE s
Next_place(c, s) == IF s # <<>> THEN "walk" ELSE IF ForParent(c) THEN "fail" ELSE "at"

(* A call begins: iget() of the root or idup() of the current directory. *)
Begin(p, c, s) ==
  /\ call' = Set(call, p, c) /\ path' = Set(path, p, Relative(s))
  /\ dp' = Set(dp, p, Start(p, s)) /\ Iget(Start(p, s))
  /\ Goto(p, Next_place(c, Relative(s)))

Call(p, c) ==
  /\ Ready(p, "user") /\ Begin(p, c, c.path)
  /\ UNCHANGED <<disk, busy, valid, inode, places, ip, putting, ghost>>

(* Nothing was found: the directory is put and the call ends; link() takes *)
(* back the link it counted first.                                         *)
Failed(p, s) ==
  IF call[p].op = "linkto"
  THEN /\ Goto(p, "bad") /\ puts' = Set(puts, p, s)
       /\ path' = Set(path, p, <<>>) /\ dp' = Set(dp, p, NoInode) /\ UNCHANGED <<call, ip>>
  ELSE Return(p, s)

(* One iteration: ilock, dirlookup, iget of what it found, iunlock.  The   *)
(* iput() follows.                                                         *)
Lookup(p) == dents[dp[p]][Head(path[p])]
Walk(p) ==
  /\ Ready(p, "walk") /\ CanLock(dp[p]) /\ Read(dp[p])
  /\ LET last == ForParent(call[p]) /\ Len(path[p]) = 1
         next == Lookup(p)
     IN \/ /\ IsDir(dp[p]) /\ last
           /\ Goto(p, "dir") /\ UNCHANGED <<ref, locals, puts>>
        \/ /\ IsDir(dp[p]) /\ ~last /\ next # NoInode
           /\ Iget(next) /\ puts' = Set(puts, p, <<dp[p]>>)
           /\ dp' = Set(dp, p, next) /\ path' = Set(path, p, Tail(path[p]))
           /\ Goto(p, Next_place(call[p], Tail(path[p]))) /\ UNCHANGED <<call, ip>>
        \/ /\ ~IsDir(dp[p]) \/ (~last /\ next = NoInode)
           /\ Failed(p, <<dp[p]>>) /\ UNCHANGED ref
  /\ UNCHANGED <<disk, busy, places, stage, ghost>>

(* nameiparent("/") *)
NoParent(p) ==
  /\ Ready(p, "fail") /\ Failed(p, <<dp[p]>>)
  /\ UNCHANGED <<disk, icache, places, stage, ghost>>

(* open() and chdir() of an inode, which they lock. *)
Open(p) ==
  /\ Ready(p, "at") /\ call[p].op \in {"open", "openw"} /\ CanLock(dp[p]) /\ Read(dp[p])
  /\ IF file[p] # NoInode \/ (IsDir(dp[p]) /\ call[p].op = "openw")
     THEN Return(p, <<dp[p]>>) /\ UNCHANGED file
     ELSE file' = Set(file, p, dp[p]) /\ Return(p, <<>>)
  /\ UNCHANGED <<disk, ref, busy, cwd, stage, ghost>>

Close(p) ==
  /\ Ready(p, "user") /\ file[p] # NoInode
  /\ file' = Set(file, p, NoInode) /\ Return(p, <<file[p]>>)
  /\ UNCHANGED <<disk, icache, cwd, stage, ghost>>

Chdir_forgets(p) ==
  /\ Ready(p, "at") /\ call[p].op = "chdir" /\ CanLock(dp[p]) /\ Read(dp[p])
  /\ IF IsDir(dp[p]) THEN cwd' = Set(cwd, p, dp[p]) /\ Return(p, <<>>)
                     ELSE Return(p, <<dp[p]>>) /\ UNCHANGED cwd
  /\ UNCHANGED <<disk, ref, busy, file, stage, ghost>>
Chdir(p) ==
  /\ Ready(p, "at") /\ call[p].op = "chdir" /\ CanLock(dp[p]) /\ Read(dp[p])
  /\ IF IsDir(dp[p]) THEN cwd' = Set(cwd, p, dp[p]) /\ Return(p, <<cwd[p]>>)
                     ELSE Return(p, <<dp[p]>>) /\ UNCHANGED cwd
  /\ UNCHANGED <<disk, ref, busy, file, stage, ghost>>
-----------------------------------------------------------------------------
(* create(): dp is locked from here on and the name is looked up.  A name  *)
(* that exists is locked in turn when dp has been put.                     *)
Creating(p) == call[p].op \in DOMAIN Kind
CreateFound(p) ==
  /\ Ready(p, "dir") /\ Creating(p) /\ CanLock(dp[p]) /\ Lookup(p) # NoInode
  /\ Read(dp[p]) /\ Iget(Lookup(p))
  /\ ip' = Set(ip, p, Lookup(p)) /\ puts' = Set(puts, p, <<dp[p]>>)
  /\ dp' = Set(dp, p, NoInode) /\ path' = Set(path, p, <<>>) /\ Goto(p, "existing")
  /\ UNCHANGED <<disk, busy, places, call, stage, ghost>>

(* A new file is opened; one more than the table holds is not. *)
GetFile(p, opens) ==
  IF opens /\ file[p] = NoInode THEN file' = Set(file, p, ip[p]) /\ Return(p, <<>>)
                                ELSE Return(p, <<ip[p]>>) /\ UNCHANGED file
CreateExisting(p) ==
  /\ Ready(p, "existing") /\ CanLock(ip[p]) /\ Read(ip[p])
  /\ GetFile(p, call[p].op = "creat" /\ Inode(ip[p]).type = "file")
  /\ UNCHANGED <<disk, ref, busy, cwd, stage, ghost>>

(* ialloc(): a free inode gets a type on the disk.  The scan reads a block *)
(* for each inode and may have passed one that is freed behind it, so it   *)
(* need not be the first.                                                  *)
FreeInodes == {i \in Inodes : dinode[i].type = "free"}
Ialloc(p) ==
  /\ Ready(p, "dir") /\ Creating(p) /\ CanLock(dp[p]) /\ Lookup(p) = NoInode
  /\ FreeInodes # {} /\ Read(dp[p])
  /\ busy' = [busy EXCEPT ![dp[p]] = p]
  /\ \E i \in FreeInodes :
       /\ dinode' = [dinode EXCEPT ![i] = [type |-> Kind[call[p].op], nlink |-> 0]]
       /\ Iget(i) /\ ip' = Set(ip, p, i)
  /\ Goto(p, "fresh")
  /\ UNCHANGED <<dents, places, call, path, dp, putting, ghost>>

(* nlink = 1; iupdate(): before any directory names the inode. *)
First_later == 0
First == 1
Ifresh(p) ==
  /\ Ready(p, "fresh") /\ CanLock(ip[p])
  /\ busy' = [busy EXCEPT ![ip[p]] = p]
  /\ Write(ip[p], [Inode(ip[p]) EXCEPT !.nlink = First])
  /\ Goto(p, IF call[p].op = "mkdir" THEN "parent" ELSE "enter")
  /\ UNCHANGED <<dents, ref, places, locals, putting, ghost>>

(* dp->nlink++ for "..", also of a directory that has been removed. *)
Orphan(p) == lost' = (lost \/ Inode(dp[p]).nlink = 0)
MkdirParent(p) ==
  /\ Ready(p, "parent") /\ Write(dp[p], Linked(dp[p], 1)) /\ Orphan(p)
  /\ Goto(p, "dots")
  /\ UNCHANGED <<dents, ref, busy, places, locals, putting, panicked, boots, calls>>
MkdirDots(p) ==
  /\ Ready(p, "dots")
  /\ dents' = [dents EXCEPT ![ip[p]][".."] = dp[p]]
  /\ Goto(p, "enter")
  /\ UNCHANGED <<dinode, icache, places, locals, putting, ghost>>

(* dirlink(dp, name, ip->inum); iunlockput(dp) *)
Entered(p) == dents' = [dents EXCEPT ![dp[p]][Head(path[p])] = ip[p]]
Enter(p) ==
  /\ Ready(p, "enter") /\ Entered(p) /\ Orphan(p)
  /\ Iunlock(dp[p]) /\ puts' = Set(puts, p, <<dp[p]>>)
  /\ dp' = Set(dp, p, NoInode) /\ path' = Set(path, p, <<>>) /\ Goto(p, "made")
  /\ UNCHANGED <<dinode, ref, valid, inode, places, call, ip, stage, panicked, boots, calls>>

Made(p) ==
  /\ Ready(p, "made") /\ Iunlock(ip[p])
  /\ GetFile(p, call[p].op = "creat")
  /\ UNCHANGED <<disk, ref, valid, inode, cwd, stage, ghost>>
-----------------------------------------------------------------------------
(* unlink(): dp stays locked while the inode it names is locked. *)
UnlinkNone(p) ==
  /\ Ready(p, "dir") /\ call[p].op = "unlink" /\ CanLock(dp[p])
  /\ Head(path[p]) = ".." \/ Lookup(p) = NoInode
  /\ Read(dp[p]) /\ Return(p, <<dp[p]>>)
  /\ UNCHANGED <<disk, ref, busy, places, stage, ghost>>

UnlinkFound(p) ==
  /\ Ready(p, "dir") /\ call[p].op = "unlink" /\ CanLock(dp[p])
  /\ Head(path[p]) # ".." /\ Lookup(p) # NoInode
  /\ Read(dp[p]) /\ busy' = [busy EXCEPT ![dp[p]] = p]
  /\ Iget(Lookup(p)) /\ ip' = Set(ip, p, Lookup(p)) /\ Goto(p, "victim")
  /\ UNCHANGED <<disk, places, call, path, dp, putting, ghost>>

IsEmpty_unchecked(i) == TRUE
IsEmpty(i) == \A n \in Names : dents[i][n] = NoInode
CanRemove(i) == IsDir(i) => IsEmpty(i)
(* It fails for a directory that is not empty, with both inodes unlocked. *)
UnlinkFull_locked(p) ==
  /\ Ready(p, "victim") /\ CanLock(ip[p]) /\ Inode(ip[p]).nlink >= 1 /\ ~CanRemove(ip[p])
  /\ Read(ip[p]) /\ Return(p, <<ip[p], dp[p]>>)
  /\ UNCHANGED <<disk, ref, busy, places, stage, ghost>>
UnlinkFull(p) ==
  /\ Ready(p, "victim") /\ CanLock(ip[p]) /\ Inode(ip[p]).nlink >= 1 /\ ~CanRemove(ip[p])
  /\ Read(ip[p]) /\ Iunlock(dp[p])
  /\ Return(p, <<ip[p], dp[p]>>)
  /\ UNCHANGED <<disk, ref, places, stage, ghost>>

(* The entry is erased on the disk. *)
UnlinkErase(p) ==
  /\ Ready(p, "victim") /\ CanLock(ip[p]) /\ Inode(ip[p]).nlink >= 1 /\ CanRemove(ip[p])
  /\ Read(ip[p])
  /\ dents' = [dents EXCEPT ![dp[p]][Head(path[p])] = NoInode]
  /\ path' = Set(path, p, <<>>)
  /\ IF IsDir(ip[p])
     THEN /\ busy' = [busy EXCEPT ![ip[p]] = p]
          /\ Goto(p, "unparent") /\ UNCHANGED <<dp, puts>>
     ELSE /\ busy' = [busy EXCEPT ![ip[p]] = p, ![dp[p]] = NoProc]
          /\ puts' = Set(puts, p, <<dp[p]>>) /\ dp' = Set(dp, p, NoInode) /\ Goto(p, "unname")
  /\ UNCHANGED <<dinode, ref, places, call, ip, stage, ghost>>

(* dp->nlink--; iunlockput(dp) *)
UnlinkParent(p) ==
  /\ Ready(p, "unparent") /\ Write(dp[p], Linked(dp[p], -1))
  /\ Iunlock(dp[p]) /\ puts' = Set(puts, p, <<dp[p]>>)
  /\ dp' = Set(dp, p, NoInode) /\ Goto(p, "unname")
  /\ UNCHANGED <<dents, ref, places, call, path, ip, stage, ghost>>

(* ip->nlink--; iunlockput(ip), also at bad: in link(). *)
UnlinkName(p) ==
  /\ \/ Ready(p, "unname")
     \/ Ready(p, "bad") /\ CanLock(ip[p])
  /\ Write(ip[p], Linked(ip[p], -1))
  /\ Iunlock(ip[p]) /\ Return(p, <<ip[p]>>)
  /\ UNCHANGED <<dents, ref, places, stage, ghost>>
-----------------------------------------------------------------------------
(* link(): the link is counted before it is made. *)
LinkDir(p) ==
  /\ Ready(p, "at") /\ call[p].op = "link" /\ CanLock(dp[p]) /\ IsDir(dp[p])
  /\ Read(dp[p]) /\ Return(p, <<dp[p]>>)
  /\ UNCHANGED <<disk, ref, busy, places, stage, ghost>>

LinkOld(p) ==
  /\ Ready(p, "at") /\ call[p].op = "link" /\ CanLock(dp[p]) /\ ~IsDir(dp[p])
  /\ Write(dp[p], Linked(dp[p], 1))
  /\ ip' = Set(ip, p, dp[p])
  /\ Begin(p, [op |-> "linkto", path |-> <<>>], call[p].new)
  /\ UNCHANGED <<dents, busy, places, putting, ghost>>

(* dirlink() finds the name: it puts what it found while dp is locked. *)
LinkFound(p) ==
  /\ Ready(p, "dir") /\ call[p].op = "linkto" /\ CanLock(dp[p]) /\ Lookup(p) # NoInode
  /\ Read(dp[p]) /\ busy' = [busy EXCEPT ![dp[p]] = p]
  /\ Iget(Lookup(p)) /\ puts' = Set(puts, p, <<Lookup(p)>>) /\ Goto(p, "linkfail")
  /\ UNCHANGED <<disk, places, locals, stage, ghost>>
LinkFail(p) ==
  /\ Ready(p, "linkfail") /\ Iunlock(dp[p])
  /\ Failed(p, <<dp[p]>>)
  /\ UNCHANGED <<disk, ref, valid, inode, places, stage, ghost>>

LinkNew(p) ==
  /\ Ready(p, "dir") /\ call[p].op = "linkto" /\ CanLock(dp[p]) /\ Lookup(p) = NoInode
  /\ Read(dp[p]) /\ Entered(p) /\ Orphan(p)
  /\ Return(p, <<dp[p], ip[p]>>)
  /\ UNCHANGED <<dinode, ref, busy, places, stage, panicked, boots, calls>>
-----------------------------------------------------------------------------
(* The inode p is about to lock, for the panics of ilock() and unlink(). *)
Locks(p) ==
  CASE pc[p] \in {"walk", "dir", "at"} -> dp[p]
    [] pc[p] \in {"existing", "fresh", "victim", "bad"} -> ip[p]
    [] OTHER -> NoInode
Assertion(p) ==
  IF Inode(Locks(p)).type = "free" THEN "ilock"
  ELSE IF pc[p] = "victim" /\ Inode(ip[p]).nlink < 1 THEN "unlink"
  ELSE IF pc[p] = "dir" /\ Creating(p) /\ Lookup(p) = NoInode /\ FreeInodes = {} THEN "ialloc"
  ELSE "no"
Panic(p) ==
  /\ Ready(p, pc[p]) /\ Locks(p) # NoInode /\ busy[Locks(p)] = NoProc
  /\ Assertion(p) # "no" /\ panicked' = Assertion(p)
  /\ UNCHANGED <<disk, icache, places, pc, locals, putting, boots, calls, lost>>

(* The machine stops at any moment and is started again. *)
Crash ==
  /\ boots < MaxBoots /\ boots' = boots + 1
  /\ ref' = Ref0 /\ busy' = Every(NoProc) /\ valid' = Every(FALSE) /\ inode' = Every(Empty)
  /\ cwd' = All(Root) /\ file' = All(NoInode)
  /\ pc' = All("user") /\ call' = All(NoCall) /\ path' = All(<<>>)
  /\ dp' = All(NoInode) /\ ip' = All(NoInode) /\ puts' = All(<<>>) /\ stage' = All("no")
  /\ panicked' = "no"
  /\ UNCHANGED <<disk, calls, lost>>

Next ==
  \/ Crash
  \/ \E p \in Procs :
       \/ \E c \in calls : Call(p, c)
       \/ Iput(p) \/ IputLast(p) \/ Itrunc(p) \/ Ifree(p) \/ Idrop(p)
       \/ Walk(p) \/ NoParent(p) \/ Open(p) \/ Close(p) \/ Chdir(p)
       \/ CreateFound(p) \/ CreateExisting(p) \/ Ialloc(p) \/ Ifresh(p)
       \/ MkdirParent(p) \/ MkdirDots(p) \/ Enter(p) \/ Made(p)
       \/ UnlinkNone(p) \/ UnlinkFound(p) \/ UnlinkFull(p) \/ UnlinkErase(p)
       \/ UnlinkParent(p) \/ UnlinkName(p)
       \/ LinkDir(p) \/ LinkOld(p) \/ LinkFound(p) \/ LinkFail(p) \/ LinkNew(p)
       \/ Panic(p)
Spec == Init /\ [][Next]_vars
-----------------------------------------------------------------------------
TypeOK ==
  /\ dinode \in [Inodes -> [type : {"free", "file", "dir", "dev"}, nlink : Nat]]
  /\ dents \in [Inodes -> [Entries -> Inodes \cup {NoInode}]]
  /\ ref \in [Inodes -> Nat] /\ busy \in [Inodes -> Procs \cup {NoProc}]
  /\ valid \in [Inodes -> BOOLEAN]
  /\ inode \in [Inodes -> [type : {"free", "file", "dir", "dev"}, nlink : Nat]]
  /\ cwd \in [Procs -> Inodes] /\ file \in [Procs -> Inodes \cup {NoInode}]
  /\ \A p \in Procs : /\ dp[p] \in Inodes \cup {NoInode} /\ ip[p] \in Inodes \cup {NoInode}
                      /\ path[p] \in Seq(Entries) /\ puts[p] \in Seq(Inodes)
  /\ panicked \in {"no", "iput", "ilock", "unlink", "ialloc"} /\ lost \in BOOLEAN

(* The names of an inode on the disk, and the ".." its nlink counts. *)
NamesOf(i) == {e \in Inodes \X Names : dents[e[1]][e[2]] = i}
Subdirs(i) == {e \in Inodes \X Names : e[1] = i /\ dents[i][e[2]] # NoInode
                                       /\ dinode[dents[i][e[2]]].type = "dir"}
Links(i) == Cardinality(NamesOf(i)) + Cardinality(Subdirs(i)) + IF i = Root THEN 1 ELSE 0

(* fs.c:351-352, "only called after the last dirent referring to this      *)
(* inode has been erased on disk": at every moment, hence after a crash    *)
(* too, what a directory on the disk names is allocated and counts at      *)
(* least that many links, so unlinking the others does not free it.        *)
NamesSound ==
  \A i \in Inodes : NamesOf(i) # {} => dinode[i].type # "free" /\ dinode[i].nlink >= Links(i)

(* fs.h:40, nlink is the "number of links to inode in file system": when   *)
(* no call is under way it is exactly that, and what has no name is open   *)
(* or somebody's directory.  A crash leaves more links than names, and so  *)
(* does a name created in a directory that another process has removed.    *)
LinksExact ==
  boots = 0 /\ ~lost /\ (\A p \in Procs : Ready(p, "user"))
  => \A i \in Inodes : dinode[i].type # "free" =>
       /\ dinode[i].nlink = Links(i)
       /\ dinode[i].nlink > 0 \/ ref[i] > 0

(* fs.c:118-121, ref counts the pointers to the inode: from the processes, *)
(* the open file and the calls under way.                                  *)
Count(f, i) == Cardinality({p \in Procs : f[p] = i})
Put(k) == [p \in Procs |-> IF k \in DOMAIN puts[p] THEN puts[p][k] ELSE NoInode]
Counted ==
  \A i \in Inodes : ref[i] = Count(cwd, i) + Count(file, i) + Count(dp, i) + Count(ip, i)
                              + Count(Put(1), i) + Count(Put(2), i)

(* An unlocked valid copy is what the disk has: also of an inode that was  *)
(* freed and allocated again while somebody kept its entry in the cache.   *)
CopyFresh == \A i \in Inodes : ref[i] > 0 /\ valid[i] /\ busy[i] = NoProc => inode[i] = dinode[i]

(* The inode cache is right about what the processes and the disk have:    *)
(* an entry is given to another inode only when nobody points to it, and   *)
(* who points to it sees the disk.                                         *)
CacheCoherent == Counted /\ CopyFresh

(* The assertions of ilock(), iput() and unlink() hold: a name never leads *)
(* to a free inode and an inode is not freed while it is locked.           *)
NeverPanics == panicked \notin {"iput", "ilock", "unlink"}

(* A process that holds one inode and waits for another never waits for    *)
(* itself through others: the order of locks follows the tree.             *)
Waits(p) == pc[p] # "user" /\ puts[p] = <<>> /\ Locks(p) # NoInode /\ busy[Locks(p)] # NoProc
NoCircularWait == (\E p \in Procs : Waits(p)) => \E p \in Procs : ~Waits(p) /\ (pc[p] # "user" \/ puts[p] # <<>>)
=============================================================================
