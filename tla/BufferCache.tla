---------------------------- MODULE BufferCache ----------------------------
(***************************************************************************)
(* The buffer cache and the disk driver of the kernels: bio.c and ide.c.   *)
(*                                                                         *)
(* What bcache.lock or idelock protects is one step.  Between two steps    *)
(* another process, the other CPU or the disk can run.                     *)
(***************************************************************************)
EXTENDS Naturals, Sequences, FiniteSets

CONSTANTS Procs, NoProc,
          Bufs, NoBuf,          \* bcache.buf; NBUF is their number
          SectorNos, NoSector,
          Outer,                \* sectors held while another one is read
          Contents,
          ReadErrors            \* may the disk fail to read?

ASSUME CacheAssumption ==
  /\ IsFiniteSet(Bufs) /\ NoBuf \notin Bufs
  /\ NoSector \notin SectorNos /\ NoProc \notin Procs
  /\ Contents # {} /\ ReadErrors \in BOOLEAN

VARIABLES
  lru,                  \* the buffers from head.next to head.prev
  sector, flags, data,  \* struct buf
  idequeue,
  disk,
  command, irq,         \* what the controller is doing; has it interrupted?
  pc, want, held,       \* a process: place, sector it reads, buffers it has
  asleep                \* the channel it sleeps on, a buffer

cache == <<lru, sector>>
device == <<disk, command, irq>>
vars == <<lru, sector, flags, data, idequeue, disk, command, irq, pc, want,
          held, asleep>>

Zero == CHOOSE v \in Contents : TRUE
Idle == [op |-> "none", sector |-> NoSector, data |-> Zero, err |-> FALSE]
Init ==
  /\ lru = CHOOSE l \in [1 .. Cardinality(Bufs) -> Bufs] : \A i, j \in DOMAIN l : l[i] = l[j] => i = j
  /\ sector = [b \in Bufs |-> NoSector] /\ flags = [b \in Bufs |-> {}]
  /\ disk \in [SectorNos -> Contents]
  /\ data = [b \in Bufs |-> Zero]
  /\ idequeue = <<>> /\ command = Idle /\ irq = FALSE
  /\ pc = [p \in Procs |-> "run"] /\ want = [p \in Procs |-> NoSector]
  /\ held = [p \in Procs |-> <<>>] /\ asleep = [p \in Procs |-> NoBuf]

Top(p) == held[p][Len(held[p])]
Holds(p, s) == \E i \in DOMAIN held[p] : sector[held[p][i]] = s
Holding == {p \in Procs : held[p] # <<>>}
Wakeup(b) == [p \in Procs |-> IF asleep[p] = b THEN NoBuf ELSE asleep[p]]
Awake(p, at) == pc[p] = at /\ asleep[p] = NoBuf
-----------------------------------------------------------------------------
(* bread(): a process of the file system asks for a sector.  It may have   *)
(* one already: bmap() and itrunc() keep an indirect block while balloc()  *)
(* and bfree() read the bitmap.                                            *)
Bread(p, s) ==
  /\ pc[p] = "run" /\ Len(held[p]) < 2 /\ ~Holds(p, s)
  /\ held[p] # <<>> => sector[Top(p)] \in Outer /\ s \notin Outer
  /\ pc' = [pc EXCEPT ![p] = "bget"] /\ want' = [want EXCEPT ![p] = s]
  /\ UNCHANGED <<cache, flags, data, idequeue, device, held, asleep>>

(* bget() gives b to p; bread() reads it unless it is valid. *)
Take(p, b) ==
  /\ held' = [held EXCEPT ![p] = Append(@, b)]
  /\ pc' = [pc EXCEPT ![p] = IF "valid" \in flags'[b] THEN "run" ELSE "iderw"]
  /\ want' = [want EXCEPT ![p] = NoSector]
  /\ UNCHANGED <<lru, data, idequeue, device, asleep>>

(* Places in the list; the scan for a cached sector goes from the head, the *)
(* one for a buffer to reuse from the tail.                                 *)
First(S) == CHOOSE i \in S : \A j \in S : i <= j
Last(S) == CHOOSE i \in S : \A j \in S : i >= j
Cached(s) == {i \in DOMAIN lru : sector[lru[i]] = s}
Unused_never_read == {i \in DOMAIN lru : flags[lru[i]] = {}}
Unused == {i \in DOMAIN lru : "busy" \notin flags[lru[i]]}
Recycled_still_valid(b) == flags[b] \cup {"busy"}
Recycled(b) == {"busy"}

BgetHit(p) ==
  /\ Awake(p, "bget") /\ Cached(want[p]) # {}
  /\ LET b == lru[First(Cached(want[p]))]
     IN /\ "busy" \notin flags[b]
        /\ flags' = [flags EXCEPT ![b] = @ \cup {"busy"}]
        /\ Take(p, b) /\ UNCHANGED sector

(* After it wakes the process looks through the list again. *)
BgetBusy(p) ==
  /\ Awake(p, "bget") /\ Cached(want[p]) # {}
  /\ LET b == lru[First(Cached(want[p]))]
     IN /\ "busy" \in flags[b]
        /\ asleep' = [asleep EXCEPT ![p] = b]
  /\ UNCHANGED <<cache, flags, data, idequeue, device, pc, want, held>>

BgetFresh(p) ==
  /\ Awake(p, "bget") /\ Cached(want[p]) = {} /\ Unused # {}
  /\ LET b == lru[Last(Unused)]
     IN /\ sector' = [sector EXCEPT ![b] = want[p]]
        /\ flags' = [flags EXCEPT ![b] = Recycled(b)]
        /\ Take(p, b)

(* panic("bget: no buffers"): nothing runs any more.  Here p does not; what *)
(* the others may still do is more than the code can.                      *)
OutOfBuffers(p) == Awake(p, "bget") /\ Cached(want[p]) = {} /\ Unused = {}
-----------------------------------------------------------------------------
(* idestart(): the controller gets the sector and, for a write, the data.  *)
Start(b, fl, d) ==
  [op |-> IF "dirty" \in fl THEN "write" ELSE "read", sector |-> sector[b],
   data |-> IF "dirty" \in fl THEN d ELSE Zero, err |-> FALSE]

(* iderw() up to the sleep: the request is queued, and started if it is the *)
(* only one.                                                                *)
StartsNow_always(queue) == TRUE
StartsNow(queue) == queue = <<>>
Enqueue(p, b) ==
  /\ idequeue' = Append(idequeue, b)
  /\ command' = IF StartsNow(idequeue) THEN Start(b, flags'[b], data'[b]) ELSE command
  /\ asleep' = [asleep EXCEPT ![p] = b]
  /\ pc' = [pc EXCEPT ![p] = "idewait"]
  /\ UNCHANGED <<cache, disk, irq, want, held>>

IdeRead(p) ==
  /\ Awake(p, "iderw")
  /\ UNCHANGED <<flags, data>> /\ Enqueue(p, Top(p))

(* A process changes the sector it holds and calls bwrite(). *)
Bwrite(p) ==
  /\ pc[p] = "run" /\ held[p] # <<>>
  /\ \E v \in Contents : data' = [data EXCEPT ![Top(p)] = v]
  /\ flags' = [flags EXCEPT ![Top(p)] = @ \cup {"dirty"}]
  /\ Enqueue(p, Top(p))

(* The loop around sleep(b, &idelock) in iderw(). *)
Finished(b) == "valid" \in flags[b] /\ "dirty" \notin flags[b]
IdeReturn(p) ==
  /\ Awake(p, "idewait")
  /\ IF Finished(Top(p)) THEN pc' = [pc EXCEPT ![p] = "run"] /\ UNCHANGED asleep
                         ELSE asleep' = [asleep EXCEPT ![p] = Top(p)] /\ UNCHANGED pc
  /\ UNCHANGED <<cache, flags, data, idequeue, device, want, held>>

(* The controller ends what it was told to do and interrupts. *)
DiskDone ==
  /\ command.op # "none" /\ ~irq
  /\ irq' = TRUE
  /\ \/ /\ command.op = "write"
        /\ disk' = [disk EXCEPT ![command.sector] = command.data] /\ UNCHANGED command
     \/ /\ command.op = "read"
        /\ command' = [command EXCEPT !.data = disk[command.sector]] /\ UNCHANGED disk
     \/ /\ command.op = "read" /\ ReadErrors
        /\ command' = [command EXCEPT !.err = TRUE] /\ UNCHANGED disk
  /\ UNCHANGED <<cache, flags, data, idequeue, pc, want, held, asleep>>

(* ideintr(): the head of the queue is done; a read whose status is an     *)
(* error leaves the data as it was.                                        *)
Served(b) == (flags[b] \cup {"valid"}) \ {"dirty"}
Ideintr ==
  /\ irq /\ idequeue # <<>>
  /\ LET b == Head(idequeue)  rest == Tail(idequeue)
     IN /\ data' = IF "dirty" \notin flags[b] /\ ~command.err
                   THEN [data EXCEPT ![b] = command.data] ELSE data
        /\ flags' = [flags EXCEPT ![b] = Served(b)]
        /\ asleep' = Wakeup(b)
        /\ idequeue' = rest
        /\ command' = IF rest = <<>> THEN Idle ELSE Start(Head(rest), flags[Head(rest)], data[Head(rest)])
  /\ irq' = FALSE
  /\ UNCHANGED <<cache, disk, pc, want, held>>

(* brelse() *)
Place(b) == CHOOSE k \in DOMAIN lru : lru[k] = b
MovedToFront(b) ==
  [k \in DOMAIN lru |-> IF k = 1 THEN b
                        ELSE IF k <= Place(b) THEN lru[k - 1] ELSE lru[k]]
Brelse(p) ==
  /\ pc[p] = "run" /\ held[p] # <<>>
  /\ LET b == Top(p)
     IN /\ lru' = MovedToFront(b)
        /\ flags' = [flags EXCEPT ![b] = @ \ {"busy"}]
        /\ asleep' = Wakeup(b)
  /\ held' = [held EXCEPT ![p] = SubSeq(@, 1, Len(@) - 1)]
  /\ UNCHANGED <<sector, data, idequeue, device, pc, want>>

Next ==
  \/ DiskDone \/ Ideintr
  \/ \E p \in Procs :
       \/ \E s \in SectorNos : Bread(p, s)
       \/ BgetHit(p) \/ BgetBusy(p) \/ BgetFresh(p)
       \/ IdeRead(p) \/ Bwrite(p) \/ IdeReturn(p) \/ Brelse(p)

Spec == Init /\ [][Next]_vars

(* The disk answers, interrupts are taken, a process that can run is run,  *)
(* and the loops that keep a sector end (bmap, itrunc, balloc, ...).       *)
BrelseAt(p, n) == Brelse(p) /\ Len(held[p]) = n
Fairness ==
  /\ WF_vars(DiskDone) /\ WF_vars(Ideintr)
  /\ \A p \in Procs : /\ WF_vars(BgetHit(p) \/ BgetBusy(p) \/ BgetFresh(p))
                      /\ WF_vars(IdeRead(p)) /\ WF_vars(IdeReturn(p))
                      /\ SF_vars(BrelseAt(p, 1)) /\ SF_vars(BrelseAt(p, 2))
FairSpec == Spec /\ Fairness
-----------------------------------------------------------------------------
TypeOK ==
  /\ lru \in [1 .. Cardinality(Bufs) -> Bufs]
  /\ sector \in [Bufs -> SectorNos \cup {NoSector}]
  /\ flags \in [Bufs -> SUBSET {"busy", "valid", "dirty"}]
  /\ data \in [Bufs -> Contents] /\ disk \in [SectorNos -> Contents]
  /\ idequeue \in Seq(Bufs)
  /\ command \in [op : {"none", "read", "write"}, sector : SectorNos \cup {NoSector},
                   data : Contents, err : BOOLEAN]
  /\ irq \in BOOLEAN
  /\ pc \in [Procs -> {"run", "bget", "iderw", "idewait"}]
  /\ want \in [Procs -> SectorNos \cup {NoSector}]
  /\ held \in [Procs -> Seq(Bufs)] /\ asleep \in [Procs -> Bufs \cup {NoBuf}]

(* bio.c:4-7: the cache synchronises the use of a sector: it is in one     *)
(* buffer at most, although two processes may miss it at the same time and *)
(* a buffer may be given to another sector while somebody sleeps on it.    *)
OneCopy == \A b, c \in Bufs : sector[b] = sector[c] /\ sector[b] # NoSector => b = c

(* bio.c:18-20, B_VALID "has been initialized with the associated disk     *)
(* block contents": a valid buffer that nobody is writing is what the disk *)
(* has, so what bget() throws away is never lost.                          *)
ValidIsDisk ==
  \A b \in Bufs : "valid" \in flags[b] /\ "dirty" \notin flags[b] => data[b] = disk[sector[b]]

(* ide.c:21-23: the queue holds each request once, for a buffer somebody   *)
(* holds and waits for, and the controller works on its head, whoever is   *)
(* waiting and whatever was queued while the interrupt was under way.      *)
QueueServed ==
  /\ \A i, j \in DOMAIN idequeue : idequeue[i] = idequeue[j] => i = j
  /\ \A i \in DOMAIN idequeue :
       \E p \in Procs : pc[p] = "idewait" /\ Top(p) = idequeue[i] /\ asleep[p] = idequeue[i]
  /\ (command.op = "none") = (idequeue = <<>>)
  /\ idequeue # <<>> => /\ command.sector = sector[Head(idequeue)]
                        /\ (command.op = "write") = ("dirty" \in flags[Head(idequeue)])

(* bio.c:18, B_BUSY "buffer is locked by some process": a buffer is busy   *)
(* while one process holds it, and no longer, whatever becomes of sleepers *)
(* and requests.  So bget() panics only if all buffers are in use by those *)
(* in the file system, and one of them uses two only while it keeps an     *)
(* indirect block; NBUF is 10 and NPROC 64, and it can happen.             *)
Doubly == {p \in Procs : Len(held[p]) = 2}
BuffersHeld ==
  /\ \A b \in Bufs :
       "busy" \in flags[b] <=> \E p \in Procs : \E i \in DOMAIN held[p] : held[p][i] = b
  /\ \A p, q \in Procs : p # q =>
       \A i \in DOMAIN held[p], j \in DOMAIN held[q] : held[p][i] # held[q][j]
  /\ \A p \in Procs : OutOfBuffers(p) => Cardinality(Bufs) <= Cardinality(Holding) + Cardinality(Doubly)

(* Whoever sleeps for a sector or for the disk is woken again, although    *)
(* both kinds sleep on the same channel.                                   *)
WokenAgain == \A p \in Procs : asleep[p] # NoBuf ~> asleep[p] = NoBuf

(* A request to the disk is answered and iderw() returns. *)
Answered == \A p \in Procs : pc[p] \in {"iderw", "idewait"} ~> pc[p] = "run"

(* A sector is held by one process at a time, shows what was last written  *)
(* and is on the disk before it is let go.                                 *)
Atomic == INSTANCE Sectors WITH
  holder <- [s \in SectorNos |-> IF \E p \in Procs : Holds(p, s)
                                 THEN CHOOSE p \in Procs : Holds(p, s) ELSE NoProc],
  store <- [s \in SectorNos |->
              IF \E b \in Bufs : sector[b] = s /\ "valid" \in flags[b]
              THEN data[CHOOSE b \in Bufs : sector[b] = s /\ "valid" \in flags[b]] ELSE disk[s]],
  durable <- disk
AtomicSectors == Atomic!Spec
=============================================================================
