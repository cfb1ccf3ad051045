-------------------------- MODULE BufferCacheProofs --------------------------
(***************************************************************************)
(* Theorems about BufferCache: for any number of processes, buffers and    *)
(* sectors the disk queue is served in order, a sector is held, changed    *)
(* and written back as Sectors says, and a buffer is busy only while a     *)
(* process holds it.                                                       *)
(***************************************************************************)
EXTENDS BufferCache, FiniteSetTheorems, SequenceTheorems, WellFoundedInduction, TLAPS

Own(p) == {held[p][i] : i \in DOMAIN held[p]}

(* The list has every buffer, so the scan for a cached sector misses none. *)
Listed == \A b \in Bufs : \E i \in DOMAIN lru : lru[i] = b

(* A buffer that was ever used belongs to a sector. *)
Named == \A b \in Bufs : flags[b] # {} => sector[b] \in SectorNos

(* B_BUSY is set exactly while one process has the buffer. *)
Exclusive == \A p, q \in Procs : p # q => Own(p) \cap Own(q) = {}
Busy == \A b \in Bufs : "busy" \in flags[b] <=> \E p \in Procs : b \in Own(p)

(* Two buffers at most, the second above one of an outer sector. *)
Stacked ==
  \A p \in Procs :
    /\ Len(held[p]) <= 2
    /\ Len(held[p]) = 2 => /\ held[p][1] # held[p][2]
                           /\ sector[held[p][1]] \in Outer /\ sector[held[p][2]] \notin Outer

(* A change waits for the disk only while its process is in iderw(). *)
Clean ==
  \A b \in Bufs : "dirty" \in flags[b] => {"busy", "valid"} \subseteq flags[b]

(* What a process has at each place. *)
Queued(b) == \E i \in DOMAIN idequeue : idequeue[i] = b
PlaceOn(p) ==
  /\ pc[p] \in {"run", "iderw"} => asleep[p] = NoBuf
  /\ pc[p] \in {"run", "bget"} => \A b \in Own(p) : Finished(b)
  /\ pc[p] = "bget" =>
       /\ want[p] \in SectorNos /\ \A b \in Own(p) : sector[b] # want[p]
       /\ held[p] # <<>> => Len(held[p]) = 1 /\ sector[held[p][1]] \in Outer /\ want[p] \notin Outer
  /\ pc[p] \in {"iderw", "idewait"} =>
       held[p] # <<>> /\ \A b \in Own(p) : b # Top(p) => Finished(b)
  /\ pc[p] = "iderw" => flags[Top(p)] = {"busy"}
  /\ pc[p] = "idewait" =>
       \/ asleep[p] = NoBuf /\ Finished(Top(p))
       \/ asleep[p] = Top(p) /\ ~Finished(Top(p)) /\ Queued(Top(p))
Places == \A p \in Procs : PlaceOn(p)

(* Each request is queued once, for a process that sleeps for it. *)
QOnce == \A i, j \in DOMAIN idequeue : idequeue[i] = idequeue[j] => i = j
QWaits ==
  \A i \in DOMAIN idequeue :
    \E p \in Procs : pc[p] = "idewait" /\ Top(p) = idequeue[i] /\ asleep[p] = idequeue[i]

(* The controller works on the head of the queue. *)
Working(b) ==
  /\ command.op # "none" /\ command.sector = sector[b]
  /\ command.op = "write" <=> "dirty" \in flags[b]
  /\ command.op = "write" => command.data = data[b]
Controller ==
  /\ command.op = "none" <=> idequeue = <<>>
  /\ idequeue # <<>> => Working(Head(idequeue))
  /\ irq => /\ idequeue # <<>>
            /\ command.op = "write" => disk[command.sector] = command.data
            /\ command.op = "read" /\ ~command.err => disk[command.sector] = command.data

(* Unless reads fail, what is valid and not being written is on the disk. *)
Faithful == ~ReadErrors => ValidIsDisk /\ ~command.err

CInv ==
  /\ TypeOK /\ Listed /\ OneCopy /\ Named
  /\ Exclusive /\ Busy /\ Stacked /\ Clean
  /\ Places /\ QOnce /\ QWaits /\ Controller /\ Faithful
-----------------------------------------------------------------------------
(* Facts about the buffers of a process. *)
LEMMA OwnIs ==
  ASSUME TypeOK, NEW p \in Procs
  PROVE  /\ Own(p) \subseteq Bufs /\ Len(held[p]) \in Nat /\ DOMAIN held[p] = 1 .. Len(held[p])
         /\ held[p] # <<>> => Top(p) \in Own(p) /\ Len(held[p]) > 0
         /\ held[p] = <<>> => Own(p) = {}
<1>1. held[p] \in Seq(Bufs)
  BY DEF TypeOK
<1>2. Len(held[p]) \in Nat /\ DOMAIN held[p] = 1 .. Len(held[p])
  BY <1>1, LenProperties
<1>3. held[p] # <<>> => Len(held[p]) > 0
  BY <1>1, EmptySeq
<1> QED
  BY <1>1, <1>2, <1>3, ElementOfSeq DEF Own, Top

LEMMA OwnKept ==
  ASSUME UNCHANGED held
  PROVE  \A p \in Procs : Own(p)' = Own(p) /\ Top(p)' = Top(p)
  BY DEF Own, Top

LEMMA OwnMore ==
  ASSUME TypeOK, NEW p \in Procs, NEW b \in Bufs, held' = [held EXCEPT ![p] = Append(@, b)]
  PROVE  /\ held' \in [Procs -> Seq(Bufs)]
         /\ Own(p)' = Own(p) \cup {b} /\ Top(p)' = b /\ held'[p] # <<>>
         /\ Len(held'[p]) = Len(held[p]) + 1 /\ held'[p][Len(held[p]) + 1] = b
         /\ \A i \in 1 .. Len(held[p]) : held'[p][i] = held[p][i]
         /\ \A q \in Procs : q # p => held'[q] = held[q] /\ Own(q)' = Own(q) /\ Top(q)' = Top(q)
<1>1. held \in [Procs -> Seq(Bufs)] /\ held[p] \in Seq(Bufs)
  BY DEF TypeOK
<1>2. held'[p] = Append(held[p], b)
  BY <1>1
<1>3. /\ held'[p] \in Seq(Bufs) /\ held'[p] # <<>> /\ Len(held'[p]) = Len(held[p]) + 1
      /\ \A i \in 1 .. Len(held[p]) : held'[p][i] = held[p][i]
      /\ held'[p][Len(held[p]) + 1] = b
  BY <1>1, <1>2, AppendProperties
<1>4. /\ DOMAIN held[p] = 1 .. Len(held[p]) /\ DOMAIN held'[p] = 1 .. Len(held[p]) + 1
      /\ Len(held[p]) \in Nat
  BY <1>1, <1>3, LenProperties
<1>5. Own(p)' = Own(p) \cup {b}
  <2>1. \A i \in 1 .. Len(held[p]) + 1 : i \in 1 .. Len(held[p]) \/ i = Len(held[p]) + 1
    BY <1>4
  <2>2. Len(held[p]) + 1 \in 1 .. Len(held[p]) + 1 /\ 1 .. Len(held[p]) \subseteq 1 .. Len(held[p]) + 1
    BY <1>4
  <2>3. Own(p)' = {held'[p][i] : i \in 1 .. Len(held[p]) + 1} /\ Own(p) = {held[p][i] : i \in 1 .. Len(held[p])}
    BY <1>4 DEF Own
  <2> QED
    BY <2>1, <2>2, <2>3, <1>3
<1> QED
  BY <1>1, <1>3, <1>5 DEF Own, Top

LEMMA OwnLess ==
  ASSUME TypeOK, Stacked, NEW p \in Procs, held[p] # <<>>,
         held' = [held EXCEPT ![p] = SubSeq(@, 1, Len(@) - 1)]
  PROVE  /\ held' \in [Procs -> Seq(Bufs)]
         /\ Own(p)' = Own(p) \ {Top(p)}
         /\ Len(held'[p]) = Len(held[p]) - 1
         /\ \A i \in 1 .. Len(held[p]) - 1 : held'[p][i] = held[p][i]
         /\ \A q \in Procs : q # p => held'[q] = held[q] /\ Own(q)' = Own(q) /\ Top(q)' = Top(q)
<1> DEFINE n == Len(held[p])
<1>1. held \in [Procs -> Seq(Bufs)] /\ held[p] \in Seq(Bufs)
  BY DEF TypeOK
<1>2. held'[p] = SubSeq(held[p], 1, n - 1)
  BY <1>1
<1>3. n \in 1 .. 2 /\ DOMAIN held[p] = 1 .. n /\ \A i \in 1 .. n : held[p][i] \in Bufs
  <2>1. n \in Nat /\ n > 0 /\ DOMAIN held[p] = 1 .. n
    BY OwnIs
  <2>2. n <= 2
    BY DEF Stacked
  <2> QED
    BY <1>1, <2>1, <2>2, ElementOfSeq
<1>4. /\ held'[p] \in Seq(Bufs) /\ Len(held'[p]) = n - 1
      /\ \A i \in 1 .. n - 1 : held'[p][i] = held[p][i]
  <2>1. \A i \in 1 .. n - 1 : held[p][i] \in Bufs
    BY <1>3
  <2> HIDE DEF n
  <2>2. /\ SubSeq(held[p], 1, n - 1) \in Seq(Bufs)
        /\ Len(SubSeq(held[p], 1, n - 1)) = IF 1 <= n - 1 THEN (n - 1) - 1 + 1 ELSE 0
        /\ \A i \in 1 .. (n - 1) - 1 + 1 : SubSeq(held[p], 1, n - 1)[i] = held[p][1 + i - 1]
    BY <1>3, <2>1, SubSeqProperties
  <2> QED
    BY <1>2, <1>3, <2>2
<1>5. DOMAIN held'[p] = 1 .. n - 1
  BY <1>4, LenProperties
<1>6. Own(p)' = Own(p) \ {Top(p)}
  <2>1. Own(p)' = {held'[p][i] : i \in 1 .. n - 1} /\ Own(p) = {held[p][i] : i \in 1 .. n}
    BY <1>3, <1>5 DEF Own
  <2>2. Own(p)' = {held[p][i] : i \in 1 .. n - 1}
    BY <2>1, <1>4
  <2>3. CASE n = 1
    <3>1. 1 .. n = {1} /\ 1 .. n - 1 = {}
      BY <2>3
    <3> QED
      BY <3>1, <2>1, <2>2, <2>3 DEF Top
  <2>4. CASE n = 2
    <3>1. 1 .. n = {1, 2} /\ 1 .. n - 1 = {1} /\ held[p][1] # held[p][2]
      BY <2>4 DEF Stacked
    <3>2. Own(p) = {held[p][1], held[p][2]} /\ Own(p)' = {held[p][1]} /\ Top(p) = held[p][2]
      BY <3>1, <2>1, <2>2, <2>4 DEF Top
    <3> QED
      BY <3>1, <3>2
  <2> QED
    BY <1>3, <2>3, <2>4
<1>7. \A q \in Procs : q # p => held'[q] = held[q]
  BY <1>1
<1>8. held' \in [Procs -> Seq(Bufs)]
  BY <1>1, <1>2, <1>4
<1>9. \A q \in Procs : q # p => Own(q)' = Own(q) /\ Top(q)' = Top(q)
  BY <1>7 DEF Own, Top
<1> HIDE DEF n
<1> QED
  BY <1>4, <1>6, <1>7, <1>8, <1>9 DEF n
-----------------------------------------------------------------------------
LEMMA CInvInit == Init => CInv
<1> SUFFICES ASSUME Init
             PROVE  CInv
  OBVIOUS
<1> DEFINE n == Cardinality(Bufs)
           once(l) == \A i, j \in DOMAIN l : l[i] = l[j] => i = j
<1>1. n \in Nat /\ ExistsBijection(1 .. n, Bufs)
  BY CacheAssumption, FS_CardinalityType
<1>2. PICK f : f \in Bijection(1 .. n, Bufs)
  BY <1>1 DEF ExistsBijection
<1>3. f \in [1 .. n -> Bufs] /\ \A i, j \in 1 .. n : f[i] = f[j] => i = j
  BY <1>2 DEF Bijection, Injection, IsInjective
<1>4. lru \in [1 .. n -> Bufs] /\ \A i, j \in 1 .. n : lru[i] = lru[j] => i = j
  <2>1. f \in [1 .. n -> Bufs] /\ once(f)
    BY <1>3
  <2>2. lru = CHOOSE l \in [1 .. n -> Bufs] : once(l)
    BY DEF Init
  <2> HIDE DEF once
  <2>3. lru \in [1 .. n -> Bufs] /\ once(lru)
    BY <2>1, <2>2, Zenon
  <2>4. DOMAIN lru = 1 .. n
    BY <2>3
  <2> QED
    BY <2>3, <2>4 DEF once
<1>5. lru \in Injection(1 .. n, Bufs)
  BY <1>4 DEF Injection, IsInjective
<1>6. IsFiniteSet(1 .. n) /\ Cardinality(1 .. n) = n
  BY <1>1, FS_Interval
<1>7. lru \in Surjection(1 .. n, Bufs)
  BY <1>5, <1>6, CacheAssumption, FS_Injection
<1>8. Listed
  BY <1>4, <1>7 DEF Listed, Surjection
<1>9. Zero \in Contents
  BY CacheAssumption DEF Zero
<1>10. TypeOK
  <2>1. command = Idle
    BY DEF Init
  <2>2. command \in [op : {"none", "read", "write"}, sector : SectorNos \cup {NoSector},
                     data : Contents, err : BOOLEAN]
    BY <1>9, <2>1 DEF Idle
  <2>3. lru \in [1 .. Cardinality(Bufs) -> Bufs]
    BY <1>4
  <2>4. \A p \in Procs : held[p] \in Seq(Bufs)
    BY DEF Init
  <2>5. held \in [Procs -> Seq(Bufs)] /\ idequeue \in Seq(Bufs)
    BY <2>4 DEF Init
  <2> QED
    BY <1>9, <2>2, <2>3, <2>5 DEF Init, TypeOK
<1>11. \A p \in Procs : Own(p) = {} /\ Len(held[p]) = 0
  BY DEF Init, Own
<1>12. OneCopy /\ Named /\ Clean /\ QOnce /\ QWaits
  BY DEF Init, OneCopy, Named, Clean, QOnce, QWaits
<1>13. Exclusive /\ Busy /\ Stacked
  BY <1>11 DEF Init, Exclusive, Busy, Stacked
<1>14. Places
  BY <1>11 DEF Init, Places, PlaceOn
<1>15. Controller /\ Faithful
  BY DEF Init, Controller, Faithful, ValidIsDisk, Idle
<1> QED
  BY <1>8, <1>10, <1>12, <1>13, <1>14, <1>15 DEF CInv

(* What no step of a process that takes or leaves no buffer can change. *)
LEMMA SameBuffers ==
  ASSUME CInv, UNCHANGED <<lru, sector, flags, held>>
  PROVE  Listed' /\ OneCopy' /\ Named' /\ Exclusive' /\ Busy' /\ Stacked' /\ Clean'
<1>1. Exclusive' /\ Busy'
  BY OwnKept DEF CInv, Exclusive, Busy
<1> QED
  BY <1>1 DEF CInv, Listed, OneCopy, Named, Stacked, Clean

LEMMA SameRequests ==
  ASSUME CInv, UNCHANGED <<sector, flags, data, idequeue, disk, command, irq>>
  PROVE  QOnce' /\ Controller' /\ Faithful'
  BY DEF CInv, QOnce, Controller, Working, Faithful, ValidIsDisk

(* What is said of a process that takes no part in the step. *)
LEMMA PlaceKept ==
  ASSUME NEW q \in Procs, PlaceOn(q), pc'[q] = pc[q], want'[q] = want[q],
         held'[q] = held[q], pc[q] = "bget" \/ asleep'[q] = asleep[q],
         \A b \in Own(q) : flags'[b] = flags[b] /\ sector'[b] = sector[b],
         \A b \in Own(q) : Queued(b) => Queued(b)',
         held[q] # <<>> => Top(q) \in Own(q) /\ held[q][1] \in Own(q)
  PROVE  PlaceOn(q)'
<1>1. Own(q)' = Own(q) /\ Top(q)' = Top(q)
  BY DEF Own, Top
<1>2. \A b \in Own(q) : Finished(b)' = Finished(b)
  BY DEF Finished
<1> QED
  BY <1>1, <1>2 DEF PlaceOn

LEMMA WaitsKept ==
  ASSUME QWaits, UNCHANGED idequeue, \A i \in DOMAIN idequeue : idequeue[i] # NoBuf,
         \A q \in Procs : pc[q] = "idewait" /\ asleep[q] # NoBuf =>
           pc'[q] = pc[q] /\ asleep'[q] = asleep[q] /\ held'[q] = held[q]
  PROVE  QWaits'
<1>1. ASSUME NEW i \in DOMAIN idequeue
      PROVE  \E q \in Procs : pc'[q] = "idewait" /\ Top(q)' = idequeue[i] /\ asleep'[q] = idequeue[i]
  <2>1. PICK q \in Procs : pc[q] = "idewait" /\ Top(q) = idequeue[i] /\ asleep[q] = idequeue[i]
    BY DEF QWaits
  <2>2. pc'[q] = "idewait" /\ asleep'[q] = idequeue[i] /\ held'[q] = held[q]
    BY <2>1
  <2> QED
    BY <2>1, <2>2 DEF Top
<1> QED
  BY <1>1 DEF QWaits

LEMMA ControllerKept ==
  ASSUME Controller, UNCHANGED <<idequeue, disk, command, irq>>,
         idequeue # <<>> => LET b == Head(idequeue)
                            IN  sector'[b] = sector[b] /\ flags'[b] = flags[b] /\ data'[b] = data[b]
  PROVE  Controller'
  BY DEF Controller, Working

(* A process at "run" or "bget" has finished with the buffers it has. *)
LEMMA QueueIs ==
  ASSUME TypeOK
  PROVE  /\ \A i \in DOMAIN idequeue : idequeue[i] \in Bufs /\ idequeue[i] # NoBuf
         /\ Len(idequeue) \in Nat /\ DOMAIN idequeue = 1 .. Len(idequeue)
         /\ idequeue # <<>> => Len(idequeue) > 0 /\ Head(idequeue) = idequeue[1]
<1>1. idequeue \in Seq(Bufs)
  BY DEF TypeOK
<1> QED
  BY <1>1, LenProperties, ElementOfSeq, EmptySeq, CacheAssumption

LEMMA FirstOwn ==
  ASSUME TypeOK, NEW q \in Procs, held[q] # <<>>
  PROVE  Top(q) \in Own(q) /\ held[q][1] \in Own(q) /\ held[q][1] \in Bufs
<1>1. 1 \in DOMAIN held[q] /\ Top(q) \in Own(q)
  BY OwnIs
<1> QED
  BY <1>1, OwnIs DEF Own

LEMMA BreadKeeps ==
  ASSUME CInv, NEW p \in Procs, NEW s \in SectorNos, Bread(p, s)
  PROVE  CInv'
<1>1. TypeOK'
  BY DEF CInv, TypeOK, Bread, cache, device
<1>2. UNCHANGED <<lru, sector, flags, data, idequeue, disk, command, irq, held, asleep>>
  BY DEF Bread, cache, device
<1>3. \A q \in Procs : PlaceOn(q)'
  <2> TAKE q \in Procs
  <2>1. CASE q # p
    <3>1. pc'[q] = pc[q] /\ want'[q] = want[q]
      BY <2>1 DEF Bread, CInv, TypeOK
    <3>2. PlaceOn(q) /\ (held[q] # <<>> => Top(q) \in Own(q) /\ held[q][1] \in Own(q))
      BY FirstOwn DEF CInv, Places
    <3> QED
      BY <1>2, <3>1, <3>2, PlaceKept DEF Queued
  <2>2. CASE q = p
    <3>1. pc[p] = "run" /\ pc'[p] = "bget" /\ want'[p] = s
      BY DEF Bread, CInv, TypeOK
    <3>2. Own(p)' = Own(p) /\ \A b \in Own(p) : Finished(b)'
      BY <1>2, <3>1 DEF CInv, Places, PlaceOn, Finished, Own
    <3>3. \A b \in Own(p) : sector[b] # s
      BY DEF Bread, Holds, Own
    <3>4. held[p] # <<>> => Len(held[p]) = 1 /\ sector[held[p][1]] \in Outer /\ s \notin Outer
      <4>1. TypeOK /\ Len(held[p]) < 2
        BY DEF CInv, Bread
      <4>2. Len(held[p]) \in Nat /\ (held[p] # <<>> => Len(held[p]) > 0)
        BY <4>1, OwnIs
      <4>3. \A n \in Nat : n > 0 /\ n < 2 => n = 1
        OBVIOUS
      <4>4. held[p] # <<>> => Len(held[p]) = 1
        BY <4>1, <4>2, <4>3, Zenon
      <4> QED
        BY <4>4 DEF Bread, Top
    <3> QED
      BY <1>2, <2>2, <3>1, <3>2, <3>3, <3>4 DEF PlaceOn
  <2> QED
    BY <2>1, <2>2
<1>4. QWaits'
  <2>1. \A q \in Procs : pc[q] = "idewait" /\ asleep[q] # NoBuf => pc'[q] = pc[q]
    BY DEF Bread, CInv, TypeOK
  <2> QED
    BY <1>2, <2>1, WaitsKept, QueueIs DEF CInv
<1> QED
  BY <1>1, <1>2, <1>3, <1>4, SameBuffers, SameRequests DEF CInv, Places

(* The scans of the list find a place in it. *)
LEMMA LeastOf ==
  ASSUME NEW S \in SUBSET Nat, S # {}
  PROVE  \E i \in S : \A j \in S : i <= j
<1>1. PICK i \in S : \A j \in S : ~(<<j, i>> \in OpToRel(<, Nat))
  BY NatLessThanWellFounded, WFMin
<1>2. \A j \in S : ~(j < i)
  BY <1>1 DEF OpToRel
<1> QED
  BY <1>2

LEMMA GreatestOf ==
  ASSUME NEW n \in Nat, NEW S \in SUBSET (1 .. n), S # {}
  PROVE  \E i \in S : \A j \in S : i >= j
<1> DEFINE D == {d \in Nat : \E i \in S : d = n - i}
<1>1. D \in SUBSET Nat /\ D # {}
  <2>1. PICK i \in S : TRUE
    OBVIOUS
  <2>2. i \in 1 .. n /\ n - i \in Nat
    OBVIOUS
  <2> QED
    BY <2>2
<1>2. PICK d \in D : \A e \in D : d <= e
  <2> HIDE DEF D
  <2> QED
    BY <1>1, LeastOf
<1>3. PICK i \in S : d = n - i
  OBVIOUS
<1>4. ASSUME NEW j \in S
      PROVE  i >= j
  <2>1. i \in 1 .. n /\ j \in 1 .. n /\ n - j \in Nat
    OBVIOUS
  <2>2. d <= n - j
    BY <1>2, <2>1
  <2> QED
    BY <1>3, <2>1, <2>2
<1> QED
  BY <1>4

(* Looking for a cached sector and for a buffer to reuse. *)
LEMMA ScanIs ==
  ASSUME TypeOK, Listed, OneCopy, NEW s \in SectorNos
  PROVE  /\ Cached(s) # {} => /\ lru[First(Cached(s))] \in Bufs
                              /\ sector[lru[First(Cached(s))]] = s
         /\ Cached(s) = {} => \A b \in Bufs : sector[b] # s
         /\ Unused # {} => /\ lru[Last(Unused)] \in Bufs
                           /\ "busy" \notin flags[lru[Last(Unused)]]
         /\ Unused = {} => \A b \in Bufs : "busy" \in flags[b]
<1>1. Cardinality(Bufs) \in Nat
  BY CacheAssumption, FS_CardinalityType
<1>2. lru \in [1 .. Cardinality(Bufs) -> Bufs]
  BY DEF TypeOK
<1>3. Cached(s) \in SUBSET Nat /\ Unused \in SUBSET (1 .. Cardinality(Bufs))
  BY <1>1, <1>2 DEF Cached, Unused
<1>4. ASSUME Cached(s) # {}
      PROVE  First(Cached(s)) \in Cached(s)
  <2>1. \E i \in Cached(s) : \A j \in Cached(s) : i <= j
    BY <1>3, <1>4, LeastOf
  <2> QED
    BY <2>1 DEF First
<1>5. ASSUME Unused # {}
      PROVE  Last(Unused) \in Unused
  <2>1. \E i \in Unused : \A j \in Unused : i >= j
    BY <1>1, <1>3, <1>5, GreatestOf
  <2> QED
    BY <2>1 DEF Last
<1>6. Cached(s) = {} => \A b \in Bufs : sector[b] # s
  BY DEF Cached, Listed
<1>7. Unused = {} => \A b \in Bufs : "busy" \in flags[b]
  BY DEF Unused, Listed
<1>8. Cached(s) # {} => lru[First(Cached(s))] \in Bufs /\ sector[lru[First(Cached(s))]] = s
  BY <1>2, <1>4 DEF Cached
<1>9. Unused # {} => lru[Last(Unused)] \in Bufs /\ "busy" \notin flags[lru[Last(Unused)]]
  BY <1>2, <1>5 DEF Unused
<1> QED
  BY <1>6, <1>7, <1>8, <1>9

LEMMA BgetBusyKeeps ==
  ASSUME CInv, NEW p \in Procs, BgetBusy(p)
  PROVE  CInv'
<1>1. UNCHANGED <<lru, sector, flags, data, idequeue, disk, command, irq, pc, want, held>>
  BY DEF BgetBusy, cache, device
<1>2. pc[p] = "bget" /\ want[p] \in SectorNos /\ Cached(want[p]) # {}
  BY DEF BgetBusy, Awake, CInv, Places, PlaceOn
<1>3. PICK b \in Bufs : asleep' = [asleep EXCEPT ![p] = b]
  BY <1>2, ScanIs DEF BgetBusy, CInv
<1>4. TypeOK'
  BY <1>1, <1>3 DEF CInv, TypeOK
<1>5. \A q \in Procs : PlaceOn(q)'
  <2> TAKE q \in Procs
  <2>1. CASE q # p
    <3>1. asleep'[q] = asleep[q]
      BY <2>1, <1>3 DEF CInv, TypeOK
    <3>2. PlaceOn(q) /\ (held[q] # <<>> => Top(q) \in Own(q) /\ held[q][1] \in Own(q))
      BY FirstOwn DEF CInv, Places
    <3> QED
      BY <1>1, <3>1, <3>2, PlaceKept DEF Queued
  <2>2. CASE q = p
    <3>1. PlaceOn(p) /\ Own(p)' = Own(p) /\ \A b1 \in Own(p) : Finished(b1)' = Finished(b1)
      BY <1>1 DEF CInv, Places, Finished, Own
    <3> QED
      BY <1>1, <1>2, <2>2, <3>1 DEF PlaceOn
  <2> QED
    BY <2>1, <2>2
<1>6. QWaits'
  <2>1. \A q \in Procs : pc[q] = "idewait" => asleep'[q] = asleep[q]
    BY <1>2, <1>3 DEF CInv, TypeOK
  <2> QED
    BY <1>1, <2>1, WaitsKept, QueueIs DEF CInv
<1> QED
  BY <1>1, <1>4, <1>5, <1>6, SameBuffers, SameRequests DEF CInv, Places

(* A buffer in the queue belongs to the process that sleeps for it, and    *)
(* nobody has a buffer that is not busy.                                   *)
LEMMA QueuedOwned ==
  ASSUME CInv, NEW i \in DOMAIN idequeue
  PROVE  \E p \in Procs : /\ pc[p] = "idewait" /\ Top(p) = idequeue[i] /\ asleep[p] = idequeue[i]
                          /\ idequeue[i] \in Own(p) /\ ~Finished(idequeue[i])
<1>1. TypeOK /\ QWaits /\ Places
  BY DEF CInv
<1>2. PICK p \in Procs : pc[p] = "idewait" /\ Top(p) = idequeue[i] /\ asleep[p] = idequeue[i]
  BY <1>1 DEF QWaits
<1>3. held[p] # <<>> /\ asleep[p] # NoBuf
  BY <1>1, <1>2, QueueIs DEF Places, PlaceOn
<1>4. Top(p) \in Own(p) /\ ~Finished(Top(p))
  BY <1>1, <1>2, <1>3, OwnIs DEF Places, PlaceOn
<1> QED
  BY <1>2, <1>4

LEMMA HeadQueued ==
  ASSUME CInv, idequeue # <<>>
  PROVE  /\ 1 \in DOMAIN idequeue /\ Head(idequeue) = idequeue[1] /\ Head(idequeue) \in Bufs
  BY QueueIs DEF CInv

LEMMA IdleBuffer ==
  ASSUME CInv, NEW b \in Bufs, "busy" \notin flags[b]
  PROVE  /\ \A p \in Procs : b \notin Own(p)
         /\ \A i \in DOMAIN idequeue : idequeue[i] # b
         /\ "dirty" \notin flags[b]
<1>1. \A p \in Procs : b \notin Own(p)
  BY DEF CInv, Busy
<1> QED
  BY <1>1, QueuedOwned DEF CInv, Clean

LEMMA TakeKeeps ==
  ASSUME CInv, NEW p \in Procs, NEW b \in Bufs, Awake(p, "bget"), "busy" \notin flags[b],
         Take(p, b), sector' = [sector EXCEPT ![b] = want[p]],
         \/ sector[b] = want[p] /\ flags' = [flags EXCEPT ![b] = @ \cup {"busy"}]
         \/ /\ \A c \in Bufs : sector[c] # want[p]
            /\ flags' = [flags EXCEPT ![b] = {"busy"}]
  PROVE  CInv'
<1>1. UNCHANGED <<lru, data, idequeue, disk, command, irq, asleep>>
  BY DEF Take, device
<1>2. /\ held' = [held EXCEPT ![p] = Append(@, b)]
      /\ pc' = [pc EXCEPT ![p] = IF "valid" \in flags'[b] THEN "run" ELSE "iderw"]
      /\ want' = [want EXCEPT ![p] = NoSector]
  BY DEF Take
<1>3. /\ pc[p] = "bget" /\ asleep[p] = NoBuf /\ want[p] \in SectorNos /\ PlaceOn(p)
      /\ TypeOK
  BY DEF Awake, CInv, Places, PlaceOn
<1>4. /\ \A q \in Procs : b \notin Own(q)
      /\ \A i \in DOMAIN idequeue : idequeue[i] # b
      /\ flags[b] \in {{}, {"valid"}}
  <2>1. flags[b] \subseteq {"busy", "valid", "dirty"} /\ "dirty" \notin flags[b]
    BY IdleBuffer, <1>3 DEF TypeOK
  <2>2. flags[b] \in {{}, {"valid"}}
    BY <2>1
  <2> QED
    BY <2>2, IdleBuffer
<1>5. /\ \A c \in Bufs \ {b} : flags'[c] = flags[c] /\ sector'[c] = sector[c]
      /\ flags'[b] \in {{"busy"}, {"busy", "valid"}} /\ sector'[b] = want[p]
      /\ "valid" \in flags'[b] => "valid" \in flags[b] /\ sector[b] = want[p]
      /\ flags' \in [Bufs -> SUBSET {"busy", "valid", "dirty"}]
  <2>1. flags \in [Bufs -> SUBSET {"busy", "valid", "dirty"}] /\ DOMAIN sector = Bufs
    BY <1>3 DEF TypeOK
  <2>2. CASE sector[b] = want[p] /\ flags' = [flags EXCEPT ![b] = @ \cup {"busy"}]
    <3>1. flags'[b] = flags[b] \cup {"busy"}
      BY <2>1, <2>2
    <3>2. flags'[b] \in {{"busy"}, {"busy", "valid"}}
      BY <1>4, <3>1
    <3> QED
      BY <1>4, <2>1, <2>2, <3>1, <3>2
  <2>3. CASE flags' = [flags EXCEPT ![b] = {"busy"}]
    BY <2>1, <2>3
  <2> QED
    BY <2>2, <2>3
<1>6. TypeOK'
  <2>1. held' \in [Procs -> Seq(Bufs)]
    BY <1>2, <1>3, OwnMore
  <2> QED
    BY <1>1, <1>2, <1>3, <1>5, <2>1 DEF TypeOK
<1>7. Listed' /\ Named' /\ Clean'
  BY <1>1, <1>3, <1>5 DEF CInv, Listed, Named, Clean
<1>8. OneCopy'
  BY <1>3, <1>5 DEF CInv, OneCopy
<1>9. /\ Own(p)' = Own(p) \cup {b} /\ Top(p)' = b /\ held'[p] # <<>>
      /\ \A q \in Procs : q # p => held'[q] = held[q] /\ Own(q)' = Own(q) /\ Top(q)' = Top(q)
  BY <1>2, <1>3, OwnMore
<1>10. Exclusive' /\ Busy'
  <2>1. Exclusive'
    BY <1>4, <1>9 DEF CInv, Exclusive
  <2>2. ASSUME NEW c \in Bufs
        PROVE  "busy" \in flags'[c] <=> \E q \in Procs : c \in Own(q)'
    <3>1. CASE c = b
      BY <3>1, <1>5, <1>9
    <3>2. CASE c # b
      BY <3>2, <1>5, <1>9 DEF CInv, Busy
    <3> QED
      BY <3>1, <3>2
  <2> QED
    BY <2>1, <2>2 DEF Busy
<1>11. Stacked'
  <2> SUFFICES ASSUME NEW q \in Procs
               PROVE  /\ Len(held'[q]) <= 2
                      /\ Len(held'[q]) = 2 => /\ held'[q][1] # held'[q][2]
                                              /\ sector'[held'[q][1]] \in Outer
                                              /\ sector'[held'[q][2]] \notin Outer
    BY DEF Stacked
  <2>1. CASE q # p
    <3>1. Len(held[q]) = 2 => held[q][1] \in Own(q) /\ held[q][2] \in Own(q)
      <4>1. DOMAIN held[q] = 1 .. Len(held[q])
        BY <1>3, OwnIs
      <4> QED
        BY <4>1 DEF Own
    <3>2. \A c \in Own(q) : c \in Bufs \ {b}
      BY <1>3, <1>4, OwnIs
    <3> QED
      BY <2>1, <3>1, <3>2, <1>5, <1>9 DEF CInv, Stacked
  <2>2. CASE q = p
    <3>1. Len(held'[p]) = Len(held[p]) + 1 /\ held'[p][Len(held[p]) + 1] = b
          /\ \A i \in 1 .. Len(held[p]) : held'[p][i] = held[p][i]
      BY <1>2, <1>3, OwnMore
    <3>2. CASE held[p] = <<>>
      BY <2>2, <3>1, <3>2
    <3>3. CASE held[p] # <<>>
      <4>1. Len(held[p]) = 1 /\ sector[held[p][1]] \in Outer /\ want[p] \notin Outer
        BY <1>3, <3>3 DEF PlaceOn
      <4>2. held[p][1] \in Own(p) /\ held[p][1] \in Bufs
        BY <1>3, <3>3, FirstOwn
      <4>3. held'[p][1] = held[p][1] /\ held'[p][2] = b /\ Len(held'[p]) = 2
        BY <3>1, <4>1
      <4> QED
        BY <2>2, <4>1, <4>2, <4>3, <1>4, <1>5
    <3> QED
      BY <3>2, <3>3
  <2> QED
    BY <2>1, <2>2
<1>12. Places'
  <2> SUFFICES ASSUME NEW q \in Procs
               PROVE  PlaceOn(q)'
    BY DEF Places
  <2>1. CASE q # p
    <3>1. PlaceOn(q) /\ (held[q] # <<>> => Top(q) \in Own(q) /\ held[q][1] \in Own(q))
      BY FirstOwn DEF CInv, Places
    <3>2. pc'[q] = pc[q] /\ want'[q] = want[q] /\ asleep'[q] = asleep[q] /\ held'[q] = held[q]
      BY <2>1, <1>1, <1>2, <1>3, <1>9 DEF TypeOK
    <3>3. \A c \in Own(q) : flags'[c] = flags[c] /\ sector'[c] = sector[c]
      BY <1>3, <1>4, <1>5, OwnIs
    <3>4. \A c \in Own(q) : Queued(c) => Queued(c)'
      BY <1>1 DEF Queued
    <3> QED
      BY <3>1, <3>2, <3>3, <3>4, PlaceKept
  <2>2. CASE q = p
    <3>1. pc'[p] = IF "valid" \in flags'[b] THEN "run" ELSE "iderw"
      BY <1>2, <1>3 DEF TypeOK
    <3>2. \A c \in Own(p) : Finished(c)'
      <4>1. \A c \in Own(p) : Finished(c) /\ flags'[c] = flags[c]
        BY <1>3, <1>4, <1>5, OwnIs DEF PlaceOn
      <4> QED
        BY <4>1 DEF Finished
    <3>3. "valid" \in flags'[b] => Finished(b)'
      BY <1>5 DEF Finished
    <3>4. "valid" \notin flags'[b] => flags'[b] = {"busy"}
      BY <1>5
    <3> QED
      BY <1>1, <1>3, <1>9, <2>2, <3>1, <3>2, <3>3, <3>4 DEF PlaceOn
  <2> QED
    BY <2>1, <2>2
<1>13. QOnce' /\ QWaits'
  <2>1. \A q \in Procs : pc[q] = "idewait" =>
          pc'[q] = pc[q] /\ asleep'[q] = asleep[q] /\ held'[q] = held[q]
    BY <1>1, <1>2, <1>3 DEF TypeOK
  <2>2. QWaits'
    BY <1>1, <1>3, <2>1, WaitsKept, QueueIs DEF CInv
  <2> QED
    BY <1>1, <2>2 DEF CInv, QOnce
<1>14. Controller'
  <2>1. idequeue # <<>> => Head(idequeue) \in Bufs \ {b}
    BY <1>4, HeadQueued
  <2> QED
    BY <1>1, <1>5, <2>1, ControllerKept DEF CInv
<1>15. Faithful'
  <2>1. ASSUME ~ReadErrors, NEW c \in Bufs, "valid" \in flags'[c], "dirty" \notin flags'[c]
        PROVE  data'[c] = disk'[sector'[c]]
    <3>1. "valid" \in flags[c] /\ "dirty" \notin flags[c] /\ sector'[c] = sector[c]
      BY <2>1, <1>4, <1>5
    <3> QED
      BY <1>1, <2>1, <3>1 DEF CInv, Faithful, ValidIsDisk
  <2> QED
    BY <1>1, <2>1 DEF CInv, Faithful, ValidIsDisk
<1> QED
  BY <1>6, <1>7, <1>8, <1>10, <1>11, <1>12, <1>13, <1>14, <1>15 DEF CInv

LEMMA BgetHitKeeps ==
  ASSUME CInv, NEW p \in Procs, BgetHit(p)
  PROVE  CInv'
<1> DEFINE b == lru[First(Cached(want[p]))]
<1>1. Awake(p, "bget") /\ Cached(want[p]) # {} /\ want[p] \in SectorNos
  BY DEF BgetHit, Awake, CInv, Places, PlaceOn
<1>2. /\ "busy" \notin flags[b] /\ flags' = [flags EXCEPT ![b] = @ \cup {"busy"}]
      /\ Take(p, b) /\ UNCHANGED sector
  BY DEF BgetHit
<1>3. b \in Bufs /\ sector[b] = want[p]
  BY <1>1, ScanIs DEF CInv
<1>4. sector' = [sector EXCEPT ![b] = want[p]]
  BY <1>2, <1>3 DEF CInv, TypeOK
<1> HIDE DEF b
<1> QED
  BY <1>1, <1>2, <1>3, <1>4, TakeKeeps

LEMMA BgetFreshKeeps ==
  ASSUME CInv, NEW p \in Procs, BgetFresh(p)
  PROVE  CInv'
<1> DEFINE b == lru[Last(Unused)]
<1>1. Awake(p, "bget") /\ Cached(want[p]) = {} /\ Unused # {} /\ want[p] \in SectorNos
  BY DEF BgetFresh, Awake, CInv, Places, PlaceOn
<1>2. /\ sector' = [sector EXCEPT ![b] = want[p]] /\ flags' = [flags EXCEPT ![b] = {"busy"}]
      /\ Take(p, b)
  BY DEF BgetFresh, Recycled
<1>3. b \in Bufs /\ "busy" \notin flags[b] /\ \A c \in Bufs : sector[c] # want[p]
  BY <1>1, ScanIs DEF CInv
<1> HIDE DEF b
<1> QED
  BY <1>1, <1>2, <1>3, TakeKeeps

LEMMA EnqueueKeeps ==
  ASSUME CInv, NEW p \in Procs, held[p] # <<>>, NEW b, b = Top(p), Enqueue(p, b),
         \/ pc[p] = "iderw" /\ UNCHANGED <<flags, data>>
         \/ /\ pc[p] = "run"
            /\ flags' = [flags EXCEPT ![b] = @ \cup {"dirty"}]
            /\ \E v \in Contents : data' = [data EXCEPT ![b] = v]
  PROVE  CInv'
<1> DEFINE n == Len(idequeue)
<1>1. /\ UNCHANGED <<lru, sector, disk, irq, want, held>>
      /\ idequeue' = Append(idequeue, b)
      /\ command' = IF idequeue = <<>> THEN Start(b, flags'[b], data'[b]) ELSE command
      /\ asleep' = [asleep EXCEPT ![p] = b] /\ pc' = [pc EXCEPT ![p] = "idewait"]
  BY DEF Enqueue, cache, device, StartsNow
<1>2. TypeOK /\ PlaceOn(p) /\ Busy /\ Exclusive /\ pc[p] \in {"run", "iderw"}
  BY DEF CInv, Places
<1>3. b \in Own(p) /\ b \in Bufs /\ b # NoBuf /\ sector[b] \in SectorNos /\ "busy" \in flags[b]
  BY <1>2, FirstOwn, OwnIs, CacheAssumption DEF CInv, Named, Busy
<1>4. \A i \in DOMAIN idequeue : idequeue[i] # b
  BY <1>2, <1>3, QueuedOwned DEF Exclusive
<1>5. /\ flags'[b] \in {{"busy"}, {"busy", "valid", "dirty"}}
      /\ flags' \in [Bufs -> SUBSET {"busy", "valid", "dirty"}] /\ data' \in [Bufs -> Contents]
      /\ \A c \in Bufs \ {b} : flags'[c] = flags[c] /\ data'[c] = data[c]
  <2>1. flags \in [Bufs -> SUBSET {"busy", "valid", "dirty"}] /\ data \in [Bufs -> Contents]
    BY <1>2 DEF TypeOK
  <2>2. CASE pc[p] = "iderw"
    <3>1. flags[b] = {"busy"} /\ UNCHANGED <<flags, data>>
      BY <1>2, <2>2 DEF PlaceOn
    <3> QED
      BY <2>1, <3>1
  <2>3. CASE pc[p] = "run"
    <3>1. "valid" \in flags[b] /\ flags[b] \subseteq {"busy", "valid", "dirty"}
      BY <1>2, <1>3, <2>1, <2>3 DEF PlaceOn, Finished
    <3>2. flags' = [flags EXCEPT ![b] = @ \cup {"dirty"}] /\ flags'[b] = {"busy", "valid", "dirty"}
      BY <1>3, <2>1, <2>3, <3>1
    <3>3. PICK v \in Contents : data' = [data EXCEPT ![b] = v]
      BY <2>3
    <3> QED
      BY <1>3, <2>1, <3>2, <3>3
  <2> QED
    BY <1>2, <2>2, <2>3
<1>6. ~Finished(b)'
  BY <1>5 DEF Finished
<1>7. /\ idequeue' \in Seq(Bufs) /\ n \in Nat /\ DOMAIN idequeue = 1 .. n
      /\ DOMAIN idequeue' = 1 .. n + 1 /\ idequeue' # <<>>
      /\ \A i \in 1 .. n : idequeue'[i] = idequeue[i]
      /\ idequeue'[n + 1] = b
  <2>1. idequeue \in Seq(Bufs)
    BY <1>2 DEF TypeOK
  <2>2. /\ idequeue' \in Seq(Bufs) /\ Len(idequeue') = n + 1 /\ idequeue' # <<>>
        /\ \A i \in 1 .. n : idequeue'[i] = idequeue[i]
        /\ idequeue'[n + 1] = b
    BY <1>1, <1>3, <2>1, AppendProperties
  <2> QED
    BY <2>1, <2>2, LenProperties
<1>8. TypeOK'
  <2>1. command' \in [op : {"none", "read", "write"}, sector : SectorNos \cup {NoSector},
                       data : Contents, err : BOOLEAN]
    <3>1. Zero \in Contents /\ data'[b] \in Contents
      BY <1>3, <1>5, CacheAssumption DEF Zero
    <3>2. Start(b, flags'[b], data'[b]) \in [op : {"none", "read", "write"},
             sector : SectorNos \cup {NoSector}, data : Contents, err : BOOLEAN]
      BY <1>3, <3>1 DEF Start
    <3> QED
      BY <1>1, <1>2, <3>2 DEF TypeOK
  <2> QED
    BY <1>1, <1>2, <1>3, <1>5, <1>7, <2>1 DEF TypeOK
<1>9. Listed' /\ OneCopy' /\ Stacked' /\ Exclusive'
  BY <1>1, OwnKept DEF CInv, Listed, OneCopy, Stacked, Exclusive
<1>10. Named' /\ Clean'
  BY <1>1, <1>3, <1>5 DEF CInv, Named, Clean
<1>11. Busy'
  <2>1. \A c \in Bufs : "busy" \in flags'[c] <=> "busy" \in flags[c]
    BY <1>3, <1>5
  <2> QED
    BY <1>1, <1>2, <2>1, OwnKept DEF Busy
<1>12. Places'
  <2> SUFFICES ASSUME NEW q \in Procs
               PROVE  PlaceOn(q)'
    BY DEF Places
  <2>1. \A c : Queued(c) => Queued(c)'
    BY <1>7 DEF Queued
  <2>2. Queued(b)'
    <3>1. n + 1 \in 1 .. n + 1
      BY <1>7
    <3> QED
      BY <1>7, <3>1 DEF Queued
  <2>3. CASE q # p
    <3>1. PlaceOn(q) /\ (held[q] # <<>> => Top(q) \in Own(q) /\ held[q][1] \in Own(q))
      BY FirstOwn DEF CInv, Places
    <3>2. pc'[q] = pc[q] /\ asleep'[q] = asleep[q]
      BY <2>3, <1>1, <1>2 DEF TypeOK
    <3>3. \A c \in Own(q) : c \in Bufs \ {b}
      BY <1>2, <1>3, <2>3, OwnIs DEF Exclusive
    <3> QED
      BY <1>1, <1>5, <2>1, <3>1, <3>2, <3>3, PlaceKept
  <2>4. CASE q = p
    <3>1. pc'[p] = "idewait" /\ asleep'[p] = b
      BY <1>1, <1>2 DEF TypeOK
    <3>2. Own(p)' = Own(p) /\ Top(p)' = b
      BY <1>1, OwnKept
    <3>3. \A c \in Own(p) : c # b => Finished(c)'
      <4>1. \A c \in Own(p) : c # b => Finished(c) /\ flags'[c] = flags[c]
        BY <1>2, <1>5, OwnIs DEF PlaceOn
      <4> QED
        BY <4>1 DEF Finished
    <3> QED
      BY <1>1, <1>6, <2>2, <2>4, <3>1, <3>2, <3>3 DEF PlaceOn
  <2> QED
    BY <2>3, <2>4
<1>13. QOnce'
  <2> SUFFICES ASSUME NEW i \in 1 .. n + 1, NEW j \in 1 .. n + 1, idequeue'[i] = idequeue'[j]
               PROVE  i = j
    BY <1>7 DEF QOnce
  <2>1. (i \in 1 .. n \/ i = n + 1) /\ (j \in 1 .. n \/ j = n + 1)
    BY <1>7
  <2> QED
    BY <1>4, <1>7, <2>1 DEF CInv, QOnce
<1>14. QWaits'
  <2> SUFFICES ASSUME NEW i \in 1 .. n + 1
               PROVE  \E q \in Procs : pc'[q] = "idewait" /\ Top(q)' = idequeue'[i]
                                       /\ asleep'[q] = idequeue'[i]
    BY <1>7 DEF QWaits
  <2>1. CASE i \in 1 .. n
    <3>1. PICK q \in Procs : pc[q] = "idewait" /\ Top(q) = idequeue[i] /\ asleep[q] = idequeue[i]
      BY <1>7, <2>1, QueuedOwned
    <3>2. pc'[q] = pc[q] /\ asleep'[q] = asleep[q] /\ Top(q)' = Top(q)
      BY <1>1, <1>2, <3>1, OwnKept DEF TypeOK
    <3> QED
      BY <1>7, <2>1, <3>1, <3>2
  <2>2. CASE i = n + 1
    <3>1. pc'[p] = "idewait" /\ asleep'[p] = b /\ Top(p)' = b
      BY <1>1, <1>2, OwnKept DEF TypeOK
    <3> QED
      BY <1>7, <2>2, <3>1
  <2> QED
    BY <1>7, <2>1, <2>2
<1>15. Controller'
  <2>1. CASE idequeue = <<>>
    <3>1. n = 0 /\ Head(idequeue') = b /\ ~irq
      BY <1>7, <1>8, <2>1, QueueIs DEF CInv, Controller
    <3>2. command' = Start(b, flags'[b], data'[b])
      BY <1>1, <2>1
    <3>3. Working(b)'
      BY <1>1, <3>2 DEF Working, Start
    <3>4. command'.op # "none"
      BY <3>2 DEF Start
    <3> QED
      BY <1>1, <1>7, <3>1, <3>3, <3>4 DEF Controller
  <2>2. CASE idequeue # <<>>
    <3>1. 1 \in 1 .. n /\ Head(idequeue) = idequeue[1] /\ Head(idequeue) \in Bufs \ {b}
      BY <1>4, <1>7, <2>2, HeadQueued
    <3>2. Head(idequeue') = Head(idequeue)
      BY <1>7, <3>1
    <3>3. Working(Head(idequeue))'
      BY <1>1, <1>5, <2>2, <3>1 DEF CInv, Controller, Working
    <3> QED
      BY <1>1, <1>7, <2>2, <3>2, <3>3 DEF CInv, Controller
  <2> QED
    BY <2>1, <2>2
<1>16. Faithful'
  <2>1. ASSUME ~ReadErrors, NEW c \in Bufs, "valid" \in flags'[c], "dirty" \notin flags'[c]
        PROVE  data'[c] = disk'[sector'[c]]
    <3>1. c \in Bufs \ {b}
      BY <2>1, <1>5
    <3> QED
      BY <1>1, <1>5, <2>1, <3>1 DEF CInv, Faithful, ValidIsDisk
  <2>2. ~ReadErrors => ~command'.err
    BY <1>1 DEF CInv, Faithful, Start
  <2> QED
    BY <2>1, <2>2 DEF Faithful, ValidIsDisk
<1> QED
  BY <1>8, <1>9, <1>10, <1>11, <1>12, <1>13, <1>14, <1>15, <1>16 DEF CInv

LEMMA IdeReadKeeps ==
  ASSUME CInv, NEW p \in Procs, IdeRead(p)
  PROVE  CInv'
<1>1. PICK b : b = Top(p)
  OBVIOUS
<1>2. pc[p] = "iderw" /\ held[p] # <<>> /\ Enqueue(p, b) /\ UNCHANGED <<flags, data>>
  BY <1>1 DEF IdeRead, Awake, CInv, Places, PlaceOn
<1> QED
  BY <1>1, <1>2, EnqueueKeeps

LEMMA BwriteKeeps ==
  ASSUME CInv, NEW p \in Procs, Bwrite(p)
  PROVE  CInv'
<1>1. PICK b : b = Top(p)
  OBVIOUS
<1>2. /\ pc[p] = "run" /\ held[p] # <<>> /\ Enqueue(p, b)
      /\ flags' = [flags EXCEPT ![b] = @ \cup {"dirty"}]
      /\ \E v \in Contents : data' = [data EXCEPT ![b] = v]
  BY <1>1 DEF Bwrite
<1> QED
  BY <1>1, <1>2, EnqueueKeeps

LEMMA IdeReturnKeeps ==
  ASSUME CInv, NEW p \in Procs, IdeReturn(p)
  PROVE  CInv'
<1>1. PICK b : b = Top(p)
  OBVIOUS
<1>2. /\ TypeOK /\ PlaceOn(p) /\ pc[p] = "idewait" /\ asleep[p] = NoBuf /\ Finished(b)
      /\ held[p] # <<>>
  <2>1. TypeOK /\ PlaceOn(p) /\ pc[p] = "idewait" /\ asleep[p] = NoBuf
    BY DEF IdeReturn, Awake, CInv, Places
  <2>2. held[p] # <<>>
    BY <2>1 DEF PlaceOn
  <2>3. Top(p) \in Bufs
    BY <2>1, <2>2, OwnIs
  <2>4. Finished(Top(p))
    BY <2>1, <2>3, CacheAssumption DEF PlaceOn
  <2> QED
    BY <1>1, <2>1, <2>2, <2>4
<1>3. /\ UNCHANGED <<lru, sector, flags, data, idequeue, disk, command, irq, want, held, asleep>>
      /\ pc' = [pc EXCEPT ![p] = "run"]
  BY <1>1, <1>2 DEF IdeReturn, cache, device
<1>4. TypeOK'
  BY <1>2, <1>3 DEF TypeOK
<1>5. \A q \in Procs : PlaceOn(q)'
  <2> TAKE q \in Procs
  <2>1. CASE q # p
    <3>1. pc'[q] = pc[q]
      BY <2>1, <1>2, <1>3 DEF TypeOK
    <3>2. PlaceOn(q) /\ (held[q] # <<>> => Top(q) \in Own(q) /\ held[q][1] \in Own(q))
      BY FirstOwn DEF CInv, Places
    <3> QED
      BY <1>3, <3>1, <3>2, PlaceKept DEF Queued
  <2>2. CASE q = p
    <3>1. pc'[p] = "run" /\ asleep'[p] = NoBuf
      BY <1>2, <1>3 DEF TypeOK
    <3>2. Own(p)' = Own(p) /\ \A c \in Own(p) : Finished(c)
      BY <1>1, <1>2, <1>3, OwnKept DEF PlaceOn
    <3>3. \A c \in Own(p) : Finished(c)'
      BY <1>3, <3>2 DEF Finished
    <3> QED
      BY <2>2, <3>1, <3>2, <3>3 DEF PlaceOn
  <2> QED
    BY <2>1, <2>2
<1>6. QWaits'
  <2>1. \A q \in Procs : asleep[q] # NoBuf => pc'[q] = pc[q]
    BY <1>2, <1>3 DEF TypeOK
  <2> QED
    BY <1>2, <1>3, <2>1, WaitsKept, QueueIs DEF CInv
<1> QED
  BY <1>3, <1>4, <1>5, <1>6, SameBuffers, SameRequests DEF CInv, Places

LEMMA DiskDoneKeeps ==
  ASSUME CInv, DiskDone
  PROVE  CInv'
<1>1. PICK b : b = Head(idequeue)
  OBVIOUS
<1>2. /\ command.op # "none" /\ idequeue # <<>> /\ irq' = TRUE
      /\ UNCHANGED <<lru, sector, flags, data, idequeue, pc, want, held, asleep>>
  BY DEF DiskDone, cache, CInv, Controller
<1>3. TypeOK /\ Working(b) /\ b \in Bufs /\ "busy" \in flags[b] /\ sector[b] \in SectorNos
  <2>1. TypeOK /\ Working(b) /\ Busy /\ Named
    BY <1>1, <1>2 DEF CInv, Controller
  <2>2. 1 \in DOMAIN idequeue /\ b = idequeue[1] /\ b \in Bufs
    BY <1>1, <1>2, HeadQueued
  <2>3. PICK p \in Procs : b \in Own(p)
    BY <2>2, QueuedOwned
  <2> QED
    BY <2>1, <2>2, <2>3 DEF Busy, Named
<1>4. CASE command.op = "write" /\ disk' = [disk EXCEPT ![command.sector] = command.data]
           /\ UNCHANGED command
  <2>1. command.sector = sector[b] /\ "dirty" \in flags[b] /\ command.data \in Contents
    BY <1>3, <1>4 DEF Working, TypeOK
  <2>2. TypeOK'
    BY <1>2, <1>3, <1>4, <2>1 DEF TypeOK
  <2>3. disk'[command.sector] = command.data
    BY <1>3, <1>4, <2>1 DEF TypeOK
  <2>4. Controller'
    BY <1>2, <1>4, <2>3 DEF CInv, Controller, Working
  <2>5. Faithful'
    <3>1. ASSUME ~ReadErrors, NEW c \in Bufs, "valid" \in flags[c], "dirty" \notin flags[c]
          PROVE  data[c] = disk'[sector[c]]
      <4>1. sector[c] \in SectorNos /\ data[c] = disk[sector[c]] /\ sector[c] # sector[b]
        BY <1>3, <2>1, <3>1, CacheAssumption DEF CInv, Faithful, ValidIsDisk, Named, OneCopy
      <4> QED
        BY <1>3, <1>4, <2>1, <4>1 DEF TypeOK
    <3> QED
      BY <1>2, <1>4, <3>1 DEF CInv, Faithful, ValidIsDisk
  <2> QED
    BY <1>2, <2>2, <2>4, <2>5, OwnKept DEF CInv, Listed, OneCopy, Named, Exclusive, Busy, Stacked,
       Clean, Places, PlaceOn, Queued, Finished, QOnce, QWaits
<1>5. CASE /\ command.op = "read" /\ UNCHANGED disk
           /\ \/ command' = [command EXCEPT !.data = disk[command.sector]]
              \/ ReadErrors /\ command' = [command EXCEPT !.err = TRUE]
  <2>1. command.sector = sector[b] /\ disk[sector[b]] \in Contents
    BY <1>3 DEF Working, TypeOK
  <2>2. /\ command' \in [op : {"none", "read", "write"}, sector : SectorNos \cup {NoSector},
                          data : Contents, err : BOOLEAN]
        /\ command'.op = "read" /\ command'.sector = command.sector
        /\ ~command'.err => command'.data = disk[command.sector]
        /\ ~ReadErrors => command'.err = command.err
    BY <1>3, <1>5, <2>1 DEF TypeOK
  <2>3. TypeOK'
    BY <1>2, <1>3, <1>5, <2>2 DEF TypeOK
  <2>4. Controller'
    BY <1>2, <1>5, <2>2 DEF CInv, Controller, Working
  <2>5. Faithful'
    BY <1>2, <1>5, <2>2 DEF CInv, Faithful, ValidIsDisk
  <2> QED
    BY <1>2, <2>3, <2>4, <2>5, OwnKept DEF CInv, Listed, OneCopy, Named, Exclusive, Busy, Stacked,
       Clean, Places, PlaceOn, Queued, Finished, QOnce, QWaits
<1> QED
  BY <1>4, <1>5 DEF DiskDone

LEMMA IdeintrKeeps ==
  ASSUME CInv, Ideintr
  PROVE  CInv'
<1>1. PICK b : b = Head(idequeue)
  OBVIOUS
<1>2. PICK rest : rest = Tail(idequeue)
  OBVIOUS
<1>3. /\ irq /\ idequeue # <<>> /\ idequeue' = rest /\ irq' = FALSE
      /\ data' = IF "dirty" \notin flags[b] /\ ~command.err THEN [data EXCEPT ![b] = command.data] ELSE data
      /\ flags' = [flags EXCEPT ![b] = (flags[b] \cup {"valid"}) \ {"dirty"}]
      /\ asleep' = [q \in Procs |-> IF asleep[q] = b THEN NoBuf ELSE asleep[q]]
      /\ command' = IF rest = <<>> THEN Idle ELSE Start(Head(rest), flags[Head(rest)], data[Head(rest)])
      /\ UNCHANGED <<lru, sector, disk, pc, want, held>>
  BY <1>1, <1>2 DEF Ideintr, Served, Wakeup, cache
<1>4. TypeOK /\ Busy /\ Exclusive /\ Working(b) /\ Faithful /\ OneCopy
  BY <1>1, <1>3 DEF CInv, Controller
<1>5. b \in Bufs /\ 1 \in DOMAIN idequeue /\ b = idequeue[1]
  BY <1>1, <1>3, HeadQueued
<1>6. PICK p \in Procs : pc[p] = "idewait" /\ Top(p) = b /\ asleep[p] = b /\ b \in Own(p)
  BY <1>5, QueuedOwned
<1>7. "busy" \in flags[b] /\ sector[b] \in SectorNos
  BY <1>4, <1>5, <1>6 DEF Busy, CInv, Named
<1>8. /\ flags' \in [Bufs -> SUBSET {"busy", "valid", "dirty"}] /\ data' \in [Bufs -> Contents]
      /\ flags'[b] = {"busy", "valid"}
      /\ \A c \in Bufs \ {b} : flags'[c] = flags[c] /\ data'[c] = data[c]
  <2>1. /\ flags \in [Bufs -> SUBSET {"busy", "valid", "dirty"}] /\ data \in [Bufs -> Contents]
        /\ command.data \in Contents
    BY <1>4 DEF TypeOK
  <2>2. (flags[b] \cup {"valid"}) \ {"dirty"} = {"busy", "valid"}
    BY <1>5, <1>7, <2>1
  <2> QED
    BY <1>3, <1>5, <2>1, <2>2
<1>9. PICK n \in Nat : n = Len(idequeue) /\ n > 0 /\ DOMAIN idequeue = 1 .. n
  BY <1>3, <1>4, QueueIs
<1>10. /\ rest \in Seq(Bufs) /\ Len(rest) = n - 1 /\ DOMAIN rest = 1 .. n - 1
       /\ \A i \in 1 .. n - 1 : i + 1 \in 1 .. n /\ rest[i] = idequeue[i + 1]
       /\ \A i \in 1 .. n - 1 : rest[i] \in Bufs \ {b}
  <2>1. idequeue \in Seq(Bufs)
    BY <1>4 DEF TypeOK
  <2>2. /\ rest \in Seq(Bufs) /\ Len(rest) = n - 1
        /\ \A i \in 1 .. n - 1 : rest[i] = idequeue[i + 1]
    BY <1>2, <1>3, <1>9, <2>1, HeadTailProperties
  <2>3. DOMAIN rest = 1 .. n - 1
    BY <2>2, LenProperties
  <2>4. \A i \in 1 .. n - 1 : i + 1 \in 1 .. n /\ i + 1 # 1
    BY <1>9
  <2>5. \A i \in 1 .. n - 1 : idequeue[i + 1] # b /\ idequeue[i + 1] \in Bufs
    BY <1>4, <1>5, <1>9, <2>4, QueueIs DEF CInv, QOnce
  <2> QED
    BY <2>2, <2>3, <2>4, <2>5
<1>11. rest # <<>> => 1 \in 1 .. n - 1 /\ Head(rest) = rest[1] /\ Head(rest) \in Bufs \ {b}
  <2>1. rest # <<>> => Len(rest) > 0 /\ Head(rest) = rest[1]
    BY <1>10, EmptySeq
  <2> QED
    BY <1>9, <1>10, <2>1
<1>12. TypeOK'
  <2>1. command' \in [op : {"none", "read", "write"}, sector : SectorNos \cup {NoSector},
                       data : Contents, err : BOOLEAN]
    <3>1. Zero \in Contents
      BY CacheAssumption DEF Zero
    <3>2. Idle \in [op : {"none", "read", "write"}, sector : SectorNos \cup {NoSector},
                     data : Contents, err : BOOLEAN]
      BY <3>1 DEF Idle
    <3>3. \A c \in Bufs : Start(c, flags[c], data[c]) \in
            [op : {"none", "read", "write"}, sector : SectorNos \cup {NoSector},
             data : Contents, err : BOOLEAN]
      BY <1>4, <3>1 DEF Start, TypeOK
    <3> QED
      BY <1>3, <1>11, <3>2, <3>3
  <2> QED
    BY <1>3, <1>4, <1>8, <1>10, <2>1 DEF TypeOK
<1>13. Listed' /\ OneCopy' /\ Stacked' /\ Exclusive'
  BY <1>3, OwnKept DEF CInv, Listed, OneCopy, Stacked, Exclusive
<1>14. Named' /\ Clean'
  BY <1>3, <1>7, <1>8 DEF CInv, Named, Clean
<1>15. Busy'
  <2>1. \A c \in Bufs : "busy" \in flags'[c] <=> "busy" \in flags[c]
    BY <1>7, <1>8
  <2> QED
    BY <1>3, <1>4, <2>1, OwnKept DEF Busy
<1>16. \A q \in Procs : q # p => b \notin Own(q)
  BY <1>4, <1>6 DEF Exclusive
<1>17. \A q \in Procs : q # p /\ pc[q] # "bget" => asleep'[q] = asleep[q]
  <2> SUFFICES ASSUME NEW q \in Procs, q # p, pc[q] # "bget", asleep[q] = b
               PROVE  FALSE
    BY <1>3, <1>4 DEF TypeOK
  <2>1. pc[q] = "idewait" /\ asleep[q] = Top(q) /\ held[q] # <<>>
    BY <1>4, <1>5, CacheAssumption DEF CInv, Places, PlaceOn, TypeOK
  <2> QED
    BY <1>4, <1>16, <2>1, OwnIs
<1>18. Places'
  <2> SUFFICES ASSUME NEW q \in Procs
               PROVE  PlaceOn(q)'
    BY DEF Places
  <2>1. CASE q # p
    <3>1. PlaceOn(q) /\ (held[q] # <<>> => Top(q) \in Own(q) /\ held[q][1] \in Own(q))
      BY FirstOwn DEF CInv, Places
    <3>2. \A c \in Own(q) : c \in Bufs \ {b}
      BY <1>4, <1>16, <2>1, OwnIs
    <3>3. \A c \in Own(q) : Queued(c) => Queued(c)'
      <4> SUFFICES ASSUME NEW c \in Own(q), NEW i \in 1 .. n, idequeue[i] = c
                   PROVE  \E j \in 1 .. n - 1 : rest[j] = c
        BY <1>3, <1>9, <1>10 DEF Queued
      <4>1. i # 1
        BY <1>5, <3>2
      <4>2. i - 1 \in 1 .. n - 1 /\ (i - 1) + 1 = i
        BY <1>9, <4>1
      <4> QED
        BY <1>10, <4>2
    <3> QED
      BY <1>3, <1>8, <1>17, <2>1, <3>1, <3>2, <3>3, PlaceKept
  <2>2. CASE q = p
    <3>1. asleep'[p] = NoBuf /\ pc'[p] = "idewait" /\ Top(p)' = b /\ Own(p)' = Own(p)
      BY <1>3, <1>6, OwnKept
    <3>2. Finished(b)'
      BY <1>8 DEF Finished
    <3>3. PlaceOn(p) /\ Own(p) \subseteq Bufs
      BY <1>4, OwnIs DEF CInv, Places
    <3>4. \A c \in Own(p) : c # b => Finished(c) /\ flags'[c] = flags[c]
      BY <1>6, <1>8, <3>3 DEF PlaceOn
    <3>5. \A c \in Own(p) : Finished(c)'
      BY <3>2, <3>4 DEF Finished
    <3> QED
      BY <1>3, <1>6, <2>2, <3>1, <3>2, <3>3, <3>5 DEF PlaceOn
  <2> QED
    BY <2>1, <2>2
<1>19. QOnce'
  <2> SUFFICES ASSUME NEW i \in 1 .. n - 1, NEW j \in 1 .. n - 1, rest[i] = rest[j]
               PROVE  i = j
    BY <1>3, <1>10 DEF QOnce
  <2>1. i + 1 = j + 1
    BY <1>9, <1>10 DEF CInv, QOnce
  <2> QED
    BY <2>1
<1>20. QWaits'
  <2> SUFFICES ASSUME NEW i \in 1 .. n - 1
               PROVE  \E q \in Procs : pc'[q] = "idewait" /\ Top(q)' = rest[i] /\ asleep'[q] = rest[i]
    BY <1>3, <1>10 DEF QWaits
  <2>1. PICK q \in Procs : /\ pc[q] = "idewait" /\ Top(q) = idequeue[i + 1]
                           /\ asleep[q] = idequeue[i + 1]
    BY <1>9, <1>10, QueuedOwned
  <2>2. asleep'[q] = asleep[q]
    BY <1>3, <1>10, <2>1
  <2> QED
    BY <1>3, <1>10, <2>1, <2>2, OwnKept
<1>21. Controller'
  <2>1. CASE rest = <<>>
    BY <1>3, <2>1 DEF Controller, Idle
  <2>2. CASE rest # <<>>
    <3>1. PICK h : h = Head(rest)
      OBVIOUS
    <3>2. h \in Bufs /\ flags'[h] = flags[h] /\ data'[h] = data[h]
      BY <1>8, <1>11, <2>2, <3>1
    <3>3. command' = Start(h, flags[h], data[h])
      BY <1>3, <2>2, <3>1
    <3>4. Working(h)'
      BY <1>3, <3>2, <3>3 DEF Working, Start
    <3> QED
      BY <1>3, <2>2, <3>1, <3>4 DEF Controller, Working
  <2> QED
    BY <2>1, <2>2
<1>22. Faithful'
  <2>1. ASSUME ~ReadErrors
        PROVE  data'[b] = disk[sector[b]]
    <3>1. ~command.err /\ command.op \in {"read", "write"}
      BY <1>4, <2>1 DEF Faithful, Working, TypeOK
    <3>2. command.data = disk[sector[b]]
      BY <1>3, <1>4, <3>1 DEF CInv, Controller, Working
    <3>3. CASE "dirty" \in flags[b]
      <4>1. data' = data /\ command.op = "write"
        BY <1>3, <1>4, <3>3 DEF Working
      <4> QED
        BY <1>4, <3>2, <4>1 DEF Working
    <3>4. CASE "dirty" \notin flags[b]
      BY <1>3, <1>4, <1>5, <3>1, <3>2, <3>4 DEF TypeOK
    <3> QED
      BY <3>3, <3>4
  <2>2. ASSUME ~ReadErrors, NEW c \in Bufs, "valid" \in flags'[c], "dirty" \notin flags'[c]
        PROVE  data'[c] = disk'[sector'[c]]
    <3>1. CASE c = b
      BY <1>3, <2>1, <2>2, <3>1
    <3>2. CASE c # b
      BY <1>3, <1>4, <1>8, <2>2, <3>2 DEF Faithful, ValidIsDisk
    <3> QED
      BY <3>1, <3>2
  <2>3. ~command'.err
    BY <1>3 DEF Idle, Start
  <2> QED
    BY <2>2, <2>3 DEF Faithful, ValidIsDisk
<1> QED
  BY <1>12, <1>13, <1>14, <1>15, <1>18, <1>19, <1>20, <1>21, <1>22 DEF CInv

LEMMA BrelseKeeps ==
  ASSUME CInv, NEW p \in Procs, Brelse(p)
  PROVE  CInv'
<1>1. PICK b : b = Top(p)
  OBVIOUS
<1>2. /\ pc[p] = "run" /\ held[p] # <<>> /\ lru' = MovedToFront(b)
      /\ flags' = [flags EXCEPT ![b] = @ \ {"busy"}]
      /\ asleep' = [q \in Procs |-> IF asleep[q] = b THEN NoBuf ELSE asleep[q]]
      /\ held' = [held EXCEPT ![p] = SubSeq(@, 1, Len(@) - 1)]
      /\ UNCHANGED <<sector, data, idequeue, disk, command, irq, pc, want>>
  BY <1>1 DEF Brelse, Wakeup, device
<1>3. TypeOK /\ PlaceOn(p) /\ Busy /\ Exclusive /\ Stacked /\ Listed
  BY DEF CInv, Places
<1>4. b \in Own(p) /\ b \in Bufs /\ b # NoBuf /\ Finished(b)
  BY <1>1, <1>2, <1>3, OwnIs, CacheAssumption DEF PlaceOn
<1>5. /\ flags' \in [Bufs -> SUBSET {"busy", "valid", "dirty"}]
      /\ \A c \in Bufs \ {b} : flags'[c] = flags[c]
      /\ flags'[b] = flags[b] \ {"busy"} /\ "dirty" \notin flags[b]
  BY <1>2, <1>3, <1>4 DEF TypeOK, Finished
<1>6. /\ held' \in [Procs -> Seq(Bufs)] /\ Own(p)' = Own(p) \ {b} /\ Len(held'[p]) = Len(held[p]) - 1
      /\ \A q \in Procs : q # p => held'[q] = held[q] /\ Own(q)' = Own(q) /\ Top(q)' = Top(q)
  BY <1>1, <1>2, <1>3, OwnLess
<1>7. \A q \in Procs : q # p => b \notin Own(q)
  BY <1>3, <1>4 DEF Exclusive
<1>8. lru' \in [1 .. Cardinality(Bufs) -> Bufs] /\ Listed'
  <2>1. PICK m \in Nat : m = Cardinality(Bufs)
    BY CacheAssumption, FS_CardinalityType
  <2>2. PICK k : k = Place(b)
    OBVIOUS
  <2>3. lru \in [1 .. m -> Bufs] /\ DOMAIN lru = 1 .. m
    BY <1>3, <2>1 DEF TypeOK
  <2>4. k \in 1 .. m /\ lru[k] = b
    <3>1. \E i \in DOMAIN lru : lru[i] = b
      BY <1>3, <1>4 DEF Listed
    <3> QED
      BY <2>2, <2>3, <3>1 DEF Place
  <2>5. lru' = [i \in 1 .. m |-> IF i = 1 THEN b ELSE IF i <= k THEN lru[i - 1] ELSE lru[i]]
    BY <1>2, <2>2, <2>3 DEF MovedToFront
  <2>6. lru' \in [1 .. m -> Bufs]
    <3>1. ASSUME NEW i \in 1 .. m
          PROVE  (IF i = 1 THEN b ELSE IF i <= k THEN lru[i - 1] ELSE lru[i]) \in Bufs
      <4>1. i # 1 => i - 1 \in 1 .. m
        BY <2>1
      <4> QED
        BY <1>4, <2>3, <4>1
    <3> QED
      BY <2>5, <3>1
  <2>7. ASSUME NEW c \in Bufs
        PROVE  \E i \in 1 .. m : lru'[i] = c
    <3>1. PICK i \in 1 .. m : lru[i] = c
      BY <1>3, <2>3 DEF Listed
    <3>2. CASE i = k
      <4>1. 1 \in 1 .. m
        BY <2>1, <2>4
      <4> QED
        BY <2>4, <2>5, <3>1, <3>2, <4>1
    <3>3. CASE i < k
      <4>1. i + 1 \in 1 .. m /\ i + 1 # 1 /\ i + 1 <= k /\ (i + 1) - 1 = i
        BY <2>1, <2>4, <3>3
      <4>2. lru'[i + 1] = lru[i]
        BY <2>5, <4>1
      <4> QED
        BY <3>1, <4>1, <4>2
    <3>4. CASE i > k
      <4>1. i # 1 /\ ~(i <= k)
        BY <2>1, <2>4, <3>4
      <4>2. lru'[i] = lru[i]
        BY <2>5, <4>1
      <4> QED
        BY <3>1, <4>2
    <3> QED
      BY <2>1, <2>4, <3>2, <3>3, <3>4
  <2> QED
    BY <2>1, <2>6, <2>7 DEF Listed
<1>9. TypeOK'
  <2>1. asleep' \in [Procs -> Bufs \cup {NoBuf}]
    BY <1>2, <1>3 DEF TypeOK
  <2> QED
    BY <1>2, <1>3, <1>5, <1>6, <1>8, <2>1 DEF TypeOK
<1>10. OneCopy' /\ Named' /\ Clean'
  BY <1>2, <1>5 DEF CInv, OneCopy, Named, Clean
<1>11. Exclusive'
  BY <1>3, <1>6 DEF Exclusive
<1>12. Busy'
  <2> SUFFICES ASSUME NEW c \in Bufs
               PROVE  "busy" \in flags'[c] <=> \E q \in Procs : c \in Own(q)'
    BY DEF Busy
  <2>1. CASE c = b
    BY <1>5, <1>6, <1>7, <2>1
  <2>2. CASE c # b
    <3>1. \A q \in Procs : c \in Own(q)' <=> c \in Own(q)
      BY <1>6, <2>2
    <3>2. flags'[c] = flags[c]
      BY <1>5, <2>2
    <3> QED
      BY <1>3, <3>1, <3>2 DEF Busy
  <2> QED
    BY <2>1, <2>2
<1>13. Stacked'
  <2> SUFFICES ASSUME NEW q \in Procs
               PROVE  /\ Len(held'[q]) <= 2
                      /\ Len(held'[q]) = 2 => /\ held'[q][1] # held'[q][2]
                                              /\ sector[held'[q][1]] \in Outer
                                              /\ sector[held'[q][2]] \notin Outer
    BY <1>2 DEF Stacked
  <2>1. CASE q = p
    <3>1. Len(held[p]) \in Nat /\ Len(held[p]) <= 2
      BY <1>3, OwnIs DEF Stacked
    <3> QED
      BY <1>6, <2>1, <3>1
  <2>2. CASE q # p
    BY <1>3, <1>6, <2>2 DEF Stacked
  <2> QED
    BY <2>1, <2>2
<1>14. \A q \in Procs : pc[q] # "bget" => asleep'[q] = asleep[q]
  <2> SUFFICES ASSUME NEW q \in Procs, pc[q] # "bget", asleep[q] = b
               PROVE  FALSE
    BY <1>2, <1>3 DEF TypeOK
  <2>1. pc[q] = "idewait" /\ asleep[q] = Top(q) /\ held[q] # <<>>
    BY <1>3, <1>4 DEF CInv, Places, PlaceOn, TypeOK
  <2>2. q # p
    BY <1>2, <2>1
  <2> QED
    BY <1>3, <1>7, <2>1, <2>2, OwnIs
<1>15. Places'
  <2> SUFFICES ASSUME NEW q \in Procs
               PROVE  PlaceOn(q)'
    BY DEF Places
  <2>1. CASE q # p
    <3>1. PlaceOn(q) /\ (held[q] # <<>> => Top(q) \in Own(q) /\ held[q][1] \in Own(q))
      BY FirstOwn DEF CInv, Places
    <3>2. \A c \in Own(q) : c \in Bufs \ {b}
      BY <1>3, <1>7, <2>1, OwnIs
    <3> QED
      BY <1>2, <1>5, <1>6, <1>14, <2>1, <3>1, <3>2, PlaceKept DEF Queued
  <2>2. CASE q = p
    <3>1. pc'[p] = "run" /\ asleep'[p] = NoBuf
      BY <1>2, <1>3, <1>14 DEF PlaceOn
    <3>2. \A c \in Own(p) \ {b} : Finished(c) /\ flags'[c] = flags[c]
      BY <1>2, <1>3, <1>5, OwnIs DEF PlaceOn
    <3>3. \A c \in Own(p)' : Finished(c)'
      BY <1>6, <3>2 DEF Finished
    <3> QED
      BY <2>2, <3>1, <3>3 DEF PlaceOn
  <2> QED
    BY <2>1, <2>2
<1>16. QOnce' /\ QWaits'
  <2>1. \A q \in Procs : pc[q] = "idewait" => asleep'[q] = asleep[q] /\ held'[q] = held[q]
    BY <1>2, <1>6, <1>14
  <2>2. QWaits'
    BY <1>2, <1>3, <2>1, WaitsKept, QueueIs DEF CInv
  <2> QED
    BY <1>2, <2>2 DEF CInv, QOnce
<1>17. Controller'
  <2>1. idequeue # <<>> => Head(idequeue) \in Bufs \ {b}
    <3> SUFFICES ASSUME idequeue # <<>>, Head(idequeue) = b
                 PROVE  FALSE
      BY HeadQueued
    <3>1. ~Finished(b)
      BY HeadQueued, QueuedOwned
    <3> QED
      BY <1>4, <3>1
  <2> QED
    BY <1>2, <1>5, <2>1, ControllerKept DEF CInv
<1>18. Faithful'
  <2>1. \A c \in Bufs : /\ "valid" \in flags'[c] <=> "valid" \in flags[c]
                        /\ "dirty" \in flags'[c] <=> "dirty" \in flags[c]
    BY <1>4, <1>5
  <2> QED
    BY <1>2, <2>1 DEF CInv, Faithful, ValidIsDisk
<1> QED
  BY <1>8, <1>9, <1>10, <1>11, <1>12, <1>13, <1>15, <1>16, <1>17, <1>18 DEF CInv

LEMMA CInvNext == CInv /\ [Next]_vars => CInv'
<1> SUFFICES ASSUME CInv, [Next]_vars
             PROVE  CInv'
  OBVIOUS
<1>1. CASE DiskDone
  BY <1>1, DiskDoneKeeps
<1>2. CASE Ideintr
  BY <1>2, IdeintrKeeps
<1>3. ASSUME NEW p \in Procs, NEW s \in SectorNos, Bread(p, s)
      PROVE  CInv'
  BY <1>3, BreadKeeps
<1>4. ASSUME NEW p \in Procs, BgetHit(p)
      PROVE  CInv'
  BY <1>4, BgetHitKeeps
<1>5. ASSUME NEW p \in Procs, BgetBusy(p)
      PROVE  CInv'
  BY <1>5, BgetBusyKeeps
<1>6. ASSUME NEW p \in Procs, BgetFresh(p)
      PROVE  CInv'
  BY <1>6, BgetFreshKeeps
<1>7. ASSUME NEW p \in Procs, IdeRead(p)
      PROVE  CInv'
  BY <1>7, IdeReadKeeps
<1>8. ASSUME NEW p \in Procs, Bwrite(p)
      PROVE  CInv'
  BY <1>8, BwriteKeeps
<1>9. ASSUME NEW p \in Procs, IdeReturn(p)
      PROVE  CInv'
  BY <1>9, IdeReturnKeeps
<1>10. ASSUME NEW p \in Procs, Brelse(p)
       PROVE  CInv'
  BY <1>10, BrelseKeeps
<1>11. CASE UNCHANGED vars
  <2>1. UNCHANGED <<lru, sector, flags, data, idequeue, disk, command, irq, pc, want, held, asleep>>
    BY <1>11 DEF vars
  <2>2. TypeOK' /\ Places' /\ QWaits'
    BY <2>1, OwnKept DEF CInv, TypeOK, Places, PlaceOn, Queued, Finished, QWaits
  <2> QED
    BY <2>1, <2>2, SameBuffers, SameRequests DEF CInv
<1> QED
  BY <1>1, <1>2, <1>3, <1>4, <1>5, <1>6, <1>7, <1>8, <1>9, <1>10, <1>11 DEF Next
-----------------------------------------------------------------------------
(* Every variable keeps its type and the cache its invariant, whether      *)
(* reads fail or not.                                                      *)
THEOREM CacheInvariant == Spec => []CInv
BY CInvInit, CInvNext, PTL DEF Spec

(* ide.c:21-23: each request is queued once, for the process that sleeps   *)
(* for it, and the controller works on the first.                          *)
THEOREM DiskQueue == Spec => []QueueServed
<1>1. CInv => QueueServed
  <2> SUFFICES ASSUME CInv
               PROVE  QueueServed
    OBVIOUS
  <2>1. (command.op = "none") = (idequeue = <<>>)
    BY DEF CInv, Controller
  <2>2. idequeue # <<>> => /\ command.sector = sector[Head(idequeue)]
                           /\ (command.op = "write") = ("dirty" \in flags[Head(idequeue)])
    BY DEF CInv, Controller, Working
  <2> QED
    BY <2>1, <2>2 DEF CInv, QueueServed, QOnce, QWaits
<1> QED
  BY CacheInvariant, <1>1, PTL

(* bio.c:4-7 and 18-20: a sector is in one buffer at most, and a valid     *)
(* buffer nobody writes is what the disk has, unless reads fail.           *)
THEOREM CacheIsDisk == Spec => [](OneCopy /\ (~ReadErrors => ValidIsDisk))
<1>1. CInv => OneCopy /\ (~ReadErrors => ValidIsDisk)
  BY DEF CInv, Faithful
<1> QED
  BY CacheInvariant, <1>1, PTL
-----------------------------------------------------------------------------
(* The buffers in use are the last ones that processes took, one for each  *)
(* process that holds any, and the first ones of those that hold two.      *)
LEMMA InHand ==
  ASSUME CInv, \A b \in Bufs : "busy" \in flags[b]
  PROVE  Cardinality(Bufs) <= Cardinality(Holding) + Cardinality(Doubly)
<1> DEFINE Tops == {b \in Bufs : \E q \in Holding : b = Top(q)}
           Firsts == Bufs \ Tops
           holder == [b \in Bufs |-> CHOOSE q \in Procs : b \in Own(q)]
<1>1. TypeOK /\ Busy /\ Stacked
  BY DEF CInv
<1>2. IsFiniteSet(Tops) /\ IsFiniteSet(Firsts) /\ IsFiniteSet(Holding) /\ IsFiniteSet(Doubly)
  <2> DEFINE f == [q \in Holding |-> Top(q)]
  <2>1. ASSUME NEW q \in Holding
        PROVE  q \in Procs /\ Top(q) \in Own(q) /\ Top(q) \in Bufs
    BY <1>1, OwnIs DEF Holding, Top, Own, Stacked
  <2>2. f \in Injection(Holding, Bufs)
    BY <2>1 DEF Injection, IsInjective, CInv, Exclusive
  <2>3. IsFiniteSet(Holding)
    <3> HIDE DEF f
    <3> QED
      BY <2>2, CacheAssumption, FS_Injection
  <2>4. Doubly \subseteq Holding
    BY <1>1, OwnIs DEF Holding, Doubly
  <2> QED
    BY <2>3, <2>4, CacheAssumption, FS_Subset
<1>3. \A b \in Bufs : holder[b] \in Procs /\ b \in Own(holder[b])
  <2> SUFFICES ASSUME NEW b \in Bufs
               PROVE  holder[b] \in Procs /\ b \in Own(holder[b])
    OBVIOUS
  <2>1. \E q \in Procs : b \in Own(q)
    BY <1>1 DEF Busy
  <2> QED
    BY <2>1
<1>4. ASSUME NEW q \in Procs, NEW b \in Own(q)
      PROVE  q \in Holding /\ (b = Top(q) \/ (q \in Doubly /\ b = held[q][1]))
  <2>1. /\ Len(held[q]) \in Nat /\ DOMAIN held[q] = 1 .. Len(held[q])
        /\ Len(held[q]) <= 2
    BY <1>1, OwnIs DEF Stacked
  <2>2. PICK i \in 1 .. Len(held[q]) : held[q][i] = b
    BY <2>1 DEF Own
  <2>3. q \in Holding
    BY <1>1, OwnIs DEF Holding
  <2>4. \A m \in Nat : m <= 2 => \A j \in 1 .. m : j = m \/ (j = 1 /\ m = 2)
    OBVIOUS
  <2>5. i = Len(held[q]) \/ (i = 1 /\ Len(held[q]) = 2)
    BY <2>1, <2>4, Zenon
  <2> QED
    BY <2>2, <2>3, <2>5 DEF Top, Doubly
<1>5. Cardinality(Tops) <= Cardinality(Holding)
  <2> DEFINE f == [b \in Tops |-> CHOOSE q \in Holding : b = Top(q)]
  <2>1. ASSUME NEW b \in Tops
        PROVE  f[b] \in Holding /\ b = Top(f[b])
    <3>1. \E q \in Holding : b = Top(q)
      OBVIOUS
    <3> HIDE DEF Tops
    <3> QED
      BY <3>1
  <2>2. f \in Injection(Tops, Holding)
    <3>1. f \in [Tops -> Holding]
      BY <2>1
    <3> HIDE DEF f, Tops
    <3> QED
      BY <2>1, <3>1 DEF Injection, IsInjective
  <2> HIDE DEF f, Tops
  <2> QED
    BY <1>2, <2>2, FS_Injection
<1>6. Cardinality(Firsts) <= Cardinality(Doubly)
  <2> DEFINE f == [b \in Firsts |-> holder[b]]
  <2>1. ASSUME NEW b \in Firsts
        PROVE  holder[b] \in Doubly /\ b = held[holder[b]][1]
    BY <1>3, <1>4
  <2>2. f \in Injection(Firsts, Doubly)
    <3> HIDE DEF holder, Firsts
    <3> QED
      BY <2>1 DEF Injection, IsInjective
  <2> HIDE DEF f, Firsts
  <2> QED
    BY <1>2, <2>2, FS_Injection
<1>7. Cardinality(Bufs) = Cardinality(Tops) + Cardinality(Firsts)
  <2>1. Tops \cup Firsts = Bufs /\ Tops \cap Firsts = {}
    OBVIOUS
  <2>2. Cardinality(Tops \cap Firsts) = 0
    BY <2>1, FS_EmptySet
  <2>3. Cardinality(Tops \cup Firsts) = Cardinality(Tops) + Cardinality(Firsts) - Cardinality(Tops \cap Firsts)
    BY <1>2, FS_Union
  <2>4. Cardinality(Tops) \in Nat /\ Cardinality(Firsts) \in Nat
    BY <1>2, FS_CardinalityType
  <2>5. \A m, n \in Nat : m + n - 0 = m + n
    OBVIOUS
  <2> HIDE DEF Tops, Firsts
  <2> QED
    BY <2>1, <2>2, <2>3, <2>4, <2>5
<1>8. /\ Cardinality(Tops) \in Nat /\ Cardinality(Firsts) \in Nat
      /\ Cardinality(Holding) \in Nat /\ Cardinality(Doubly) \in Nat
  BY <1>2, FS_CardinalityType
<1> HIDE DEF Tops, Firsts
<1> QED
  BY <1>5, <1>6, <1>7, <1>8

(* bio.c:18: a buffer is busy while exactly one process holds it, so       *)
(* bget() panics only when the processes in the file system hold all of    *)
(* them, however many there are of either.                                 *)
THEOREM BusyAreHeld == Spec => []BuffersHeld
<1>1. ASSUME CInv
      PROVE  BuffersHeld
  <2>1. \A p \in Procs, b \in Bufs : b \in Own(p) <=> \E i \in DOMAIN held[p] : held[p][i] = b
    BY DEF Own
  <2>2. \A b \in Bufs :
          "busy" \in flags[b] <=> \E p \in Procs : \E i \in DOMAIN held[p] : held[p][i] = b
    BY <1>1, <2>1 DEF CInv, Busy
  <2>3. ASSUME NEW p \in Procs, NEW q \in Procs, p # q,
               NEW i \in DOMAIN held[p], NEW j \in DOMAIN held[q]
        PROVE  held[p][i] # held[q][j]
    <3>1. held[p][i] \in Own(p) /\ held[q][j] \in Own(q)
      BY DEF Own
    <3> QED
      BY <1>1, <2>3, <3>1 DEF CInv, Exclusive
  <2>4. ASSUME NEW p \in Procs, OutOfBuffers(p)
        PROVE  Cardinality(Bufs) <= Cardinality(Holding) + Cardinality(Doubly)
    <3>1. TypeOK /\ Unused = {}
      BY <1>1, <2>4 DEF CInv, OutOfBuffers
    <3>2. \A b \in Bufs : "busy" \in flags[b]
      BY <1>1, <3>1 DEF CInv, Unused, Listed
    <3> QED
      BY <1>1, <3>2, InHand
  <2> QED
    BY <2>2, <2>3, <2>4 DEF BuffersHeld
<1> QED
  BY CacheInvariant, <1>1, PTL
-----------------------------------------------------------------------------
(* The refinement of Sectors: who holds a sector and what its reader sees. *)
HolderOf(s) == IF \E p \in Procs : Holds(p, s) THEN CHOOSE p \in Procs : Holds(p, s) ELSE NoProc
Shows(b, s) == sector[b] = s /\ "valid" \in flags[b]
StoreOf(s) == IF \E b \in Bufs : Shows(b, s) THEN data[CHOOSE b \in Bufs : Shows(b, s)] ELSE disk[s]

LEMMA HolderIs ==
  CInv => \A s \in SectorNos :
    /\ \A p \in Procs : Holds(p, s) <=> \E b \in Own(p) : sector[b] = s
    /\ \A p \in Procs : Holds(p, s) => HolderOf(s) = p
    /\ (\A p \in Procs : ~Holds(p, s)) => HolderOf(s) = NoProc
<1> SUFFICES ASSUME CInv, NEW s \in SectorNos
             PROVE  /\ \A p \in Procs : Holds(p, s) <=> \E b \in Own(p) : sector[b] = s
                    /\ \A p \in Procs : Holds(p, s) => HolderOf(s) = p
                    /\ (\A p \in Procs : ~Holds(p, s)) => HolderOf(s) = NoProc
  OBVIOUS
<1>1. \A p \in Procs : Holds(p, s) <=> \E b \in Own(p) : sector[b] = s
  BY DEF Holds, Own
<1>2. \A p, q \in Procs : Holds(p, s) /\ Holds(q, s) => p = q
  <2> SUFFICES ASSUME NEW p \in Procs, NEW q \in Procs, Holds(p, s), Holds(q, s)
               PROVE  p = q
    OBVIOUS
  <2>1. PICK b \in Own(p), c \in Own(q) : sector[b] = s /\ sector[c] = s
    BY <1>1
  <2>2. b \in Bufs /\ c \in Bufs /\ s # NoSector
    BY OwnIs, CacheAssumption DEF CInv
  <2>3. b = c
    BY <2>1, <2>2 DEF CInv, OneCopy
  <2> QED
    BY <2>1, <2>3 DEF CInv, Exclusive
<1>3. ASSUME NEW p \in Procs, Holds(p, s)
      PROVE  HolderOf(s) = p
  <2>1. HolderOf(s) \in Procs /\ Holds(HolderOf(s), s)
    BY <1>3 DEF HolderOf
  <2> QED
    BY <1>2, <1>3, <2>1
<1>4. (\A p \in Procs : ~Holds(p, s)) => HolderOf(s) = NoProc
  BY DEF HolderOf
<1> QED
  BY <1>1, <1>3, <1>4

LEMMA StoreIs ==
  CInv => \A s \in SectorNos :
    /\ \A b \in Bufs : Shows(b, s) => StoreOf(s) = data[b]
    /\ (\A b \in Bufs : ~Shows(b, s)) => StoreOf(s) = disk[s]
<1> SUFFICES ASSUME CInv, NEW s \in SectorNos
             PROVE  /\ \A b \in Bufs : Shows(b, s) => StoreOf(s) = data[b]
                    /\ (\A b \in Bufs : ~Shows(b, s)) => StoreOf(s) = disk[s]
  OBVIOUS
<1>1. \A b, c \in Bufs : Shows(b, s) /\ Shows(c, s) => b = c
  BY CacheAssumption DEF CInv, OneCopy, Shows
<1>2. ASSUME NEW b \in Bufs, Shows(b, s)
      PROVE  StoreOf(s) = data[b]
  <2>1. PICK c \in Bufs : c = CHOOSE x \in Bufs : Shows(x, s)
    BY <1>2
  <2>2. Shows(c, s) /\ StoreOf(s) = data[c]
    BY <1>2, <2>1 DEF StoreOf
  <2> QED
    BY <1>1, <1>2, <2>2
<1>3. (\A b \in Bufs : ~Shows(b, s)) => StoreOf(s) = disk[s]
  BY DEF StoreOf
<1> QED
  BY <1>2, <1>3

(* The steps of Sectors, in terms of the two. *)
LEMMA SectorStutter ==
  ASSUME \A s \in SectorNos : HolderOf(s)' = HolderOf(s) /\ StoreOf(s)' = StoreOf(s), disk' = disk
  PROVE  UNCHANGED Atomic!sVars
  BY DEF Atomic!sVars, HolderOf, StoreOf, Shows

LEMMA SectorLock ==
  ASSUME NEW p \in Procs, NEW s \in SectorNos, HolderOf(s) = NoProc,
         \A t \in SectorNos : HolderOf(t)' = (IF t = s THEN p ELSE HolderOf(t)),
         \A t \in SectorNos : StoreOf(t)' = StoreOf(t), disk' = disk
  PROVE  Atomic!Next
<1>1. Atomic!Lock(p, s)
  BY DEF Atomic!Lock, HolderOf, StoreOf, Shows
<1> QED
  BY <1>1 DEF Atomic!Next

LEMMA SectorUnlock ==
  ASSUME NEW p \in Procs, NEW s \in SectorNos, HolderOf(s) = p, disk[s] = StoreOf(s),
         \A t \in SectorNos : HolderOf(t)' = (IF t = s THEN NoProc ELSE HolderOf(t)),
         \A t \in SectorNos : StoreOf(t)' = StoreOf(t), disk' = disk
  PROVE  Atomic!Next
<1>1. Atomic!Unlock(p, s)
  BY DEF Atomic!Unlock, HolderOf, StoreOf, Shows
<1> QED
  BY <1>1 DEF Atomic!Next

LEMMA SectorModify ==
  ASSUME NEW p \in Procs, NEW s \in SectorNos, NEW v \in Contents, HolderOf(s) = p,
         \A t \in SectorNos : StoreOf(t)' = (IF t = s THEN v ELSE StoreOf(t)),
         \A t \in SectorNos : HolderOf(t)' = HolderOf(t), disk' = disk
  PROVE  Atomic!Next
<1> DEFINE store == [t \in SectorNos |-> StoreOf(t)]
<1>1. store' = [store EXCEPT ![s] = v]
  OBVIOUS
<1>2. \E w \in Contents : store' = [store EXCEPT ![s] = w]
  BY <1>1
<1>3. Atomic!Modify(p, s)
  BY <1>2 DEF Atomic!Modify, HolderOf, StoreOf, Shows
<1> QED
  BY <1>3 DEF Atomic!Next

LEMMA SectorFlush ==
  ASSUME NEW s \in SectorNos, HolderOf(s) # NoProc,
         \A t \in SectorNos : HolderOf(t)' = HolderOf(t) /\ StoreOf(t)' = StoreOf(t),
         disk' = [disk EXCEPT ![s] = StoreOf(s)]
  PROVE  Atomic!Next
<1>1. Atomic!Flush(s)
  BY DEF Atomic!Flush, HolderOf, StoreOf, Shows
<1> QED
  BY <1>1 DEF Atomic!Next

LEMMA NextIs ==
  ASSUME CInv, CInv'
  PROVE  /\ \A s \in SectorNos :
              /\ \A p \in Procs : Holds(p, s)' <=> \E b \in Own(p)' : sector'[b] = s
              /\ \A p \in Procs : Holds(p, s)' => HolderOf(s)' = p
              /\ (\A p \in Procs : ~Holds(p, s)') => HolderOf(s)' = NoProc
         /\ \A s \in SectorNos :
              /\ \A b \in Bufs : Shows(b, s)' => StoreOf(s)' = data'[b]
              /\ (\A b \in Bufs : ~Shows(b, s)') => StoreOf(s)' = disk'[s]
<1>1. (CInv => \A s \in SectorNos :
         /\ \A p \in Procs : Holds(p, s) <=> \E b \in Own(p) : sector[b] = s
         /\ \A p \in Procs : Holds(p, s) => HolderOf(s) = p
         /\ (\A p \in Procs : ~Holds(p, s)) => HolderOf(s) = NoProc)'
  BY HolderIs, PTL
<1>2. (CInv => \A s \in SectorNos :
         /\ \A b \in Bufs : Shows(b, s) => StoreOf(s) = data[b]
         /\ (\A b \in Bufs : ~Shows(b, s)) => StoreOf(s) = disk[s])'
  BY StoreIs, PTL
<1> QED
  BY <1>1, <1>2

(* bget() gives the buffer of a sector nobody holds: a sector is locked. *)
LEMMA TakeLocks ==
  ASSUME CInv, CInv', ~ReadErrors, NEW p \in Procs, NEW b \in Bufs, Awake(p, "bget"),
         "busy" \notin flags[b], Take(p, b), sector' = [sector EXCEPT ![b] = want[p]],
         \/ sector[b] = want[p] /\ flags' = [flags EXCEPT ![b] = @ \cup {"busy"}]
         \/ /\ \A c \in Bufs : sector[c] # want[p]
            /\ flags' = [flags EXCEPT ![b] = {"busy"}]
  PROVE  Atomic!Next
<1>1. PICK s : s = want[p]
  OBVIOUS
<1>2. /\ UNCHANGED <<data, disk>> /\ held' = [held EXCEPT ![p] = Append(@, b)]
      /\ TypeOK /\ s \in SectorNos /\ s # NoSector
  BY <1>1, CacheAssumption DEF Take, device, Awake, CInv, Places, PlaceOn
<1>3. /\ Own(p)' = Own(p) \cup {b}
      /\ \A q \in Procs : q # p => Own(q)' = Own(q)
      /\ \A q \in Procs : b \notin Own(q) /\ Own(q) \subseteq Bufs
  BY <1>2, OwnMore, IdleBuffer, OwnIs
<1>4. /\ sector'[b] = s /\ \A c \in Bufs \ {b} : sector'[c] = sector[c] /\ flags'[c] = flags[c]
      /\ \A c \in Bufs \ {b} : sector[c] # s
  <2>1. /\ sector'[b] = s /\ \A c \in Bufs \ {b} : sector'[c] = sector[c] /\ flags'[c] = flags[c]
    BY <1>1, <1>2 DEF TypeOK
  <2>2. \A c \in Bufs \ {b} : sector'[c] # s
    BY <1>2, <2>1 DEF CInv, OneCopy
  <2> QED
    BY <2>1, <2>2
<1>5. \A q \in Procs : ~Holds(q, s)
  BY <1>2, <1>3, <1>4, HolderIs
<1>6. HolderOf(s) = NoProc
  BY <1>2, <1>5, HolderIs
<1>7. ASSUME NEW t \in SectorNos
      PROVE  HolderOf(t)' = (IF t = s THEN p ELSE HolderOf(t))
  <2>1. CASE t = s
    <3>1. Holds(p, s)'
      BY <1>2, <1>3, <1>4, NextIs
    <3> QED
      BY <1>2, <2>1, <3>1, NextIs
  <2>2. CASE t # s
    <3>1. ASSUME NEW q \in Procs
          PROVE  Holds(q, t)' <=> Holds(q, t)
      <4>1. Holds(q, t)' <=> \E c \in Own(q)' : sector'[c] = t
        BY NextIs
      <4>2. Holds(q, t) <=> \E c \in Own(q) : sector[c] = t
        BY HolderIs
      <4>3. \A c \in Own(q) : sector'[c] = sector[c] /\ c \in Own(q)'
        BY <1>3, <1>4
      <4>4. \A c \in Own(q)' : sector'[c] = t => c \in Own(q)
        BY <1>3, <1>4, <2>2
      <4> QED
        BY <4>1, <4>2, <4>3, <4>4
    <3>2. CASE \E q \in Procs : Holds(q, t)
      BY <2>2, <3>1, <3>2, HolderIs, NextIs
    <3>3. CASE \A q \in Procs : ~Holds(q, t)
      BY <2>2, <3>1, <3>3, HolderIs, NextIs
    <3> QED
      BY <3>2, <3>3
  <2> QED
    BY <2>1, <2>2
<1>8. "valid" \in flags'[b] <=> "valid" \in flags[b] /\ sector[b] = s
  BY <1>1, <1>2 DEF TypeOK
<1>9. ASSUME NEW t \in SectorNos
      PROVE  StoreOf(t)' = StoreOf(t)
  <2>1. \A c \in Bufs \ {b} : Shows(c, t)' <=> Shows(c, t)
    BY <1>4 DEF Shows
  <2>2. CASE \E c \in Bufs \ {b} : Shows(c, t)
    BY <1>2, <2>1, <2>2, StoreIs, NextIs
  <2>3. CASE (\A c \in Bufs \ {b} : ~Shows(c, t)) /\ ~Shows(b, t)
    <3>1. ~Shows(b, t)'
      BY <1>4, <1>8, <2>3 DEF Shows
    <3>2. \A c \in Bufs : ~Shows(c, t) /\ ~Shows(c, t)'
      BY <2>1, <2>3, <3>1
    <3> QED
      BY <1>2, <3>2, StoreIs, NextIs
  <2>4. CASE (\A c \in Bufs \ {b} : ~Shows(c, t)) /\ Shows(b, t)
    <3>1. StoreOf(t) = data[b] /\ data[b] = disk[t]
      <4>1. "dirty" \notin flags[b]
        BY IdleBuffer
      <4> QED
        BY <2>4, <4>1, StoreIs DEF CInv, Faithful, ValidIsDisk, Shows
    <3>2. CASE t = s
      <4>1. Shows(b, t)'
        BY <1>4, <1>8, <2>4, <3>2 DEF Shows
      <4> QED
        BY <1>2, <3>1, <4>1, NextIs
    <3>3. CASE t # s
      <4>1. \A c \in Bufs : ~Shows(c, t)'
        BY <1>4, <2>1, <2>4, <3>3 DEF Shows
      <4> QED
        BY <1>2, <3>1, <4>1, NextIs
    <3> QED
      BY <3>2, <3>3
  <2> QED
    BY <2>2, <2>3, <2>4
<1> QED
  BY <1>2, <1>6, <1>7, <1>9, SectorLock

(* Steps that change neither who has a buffer nor what is in the valid ones. *)
LEMMA SameHolders ==
  ASSUME UNCHANGED <<sector, held>>
  PROVE  \A s \in SectorNos : HolderOf(s)' = HolderOf(s)
  BY DEF HolderOf, Holds

LEMMA SameStore ==
  ASSUME UNCHANGED <<sector, flags, data, disk>>
  PROVE  \A s \in SectorNos : StoreOf(s)' = StoreOf(s)
  BY DEF StoreOf, Shows

LEMMA BwriteModifies ==
  ASSUME CInv, CInv', NEW p \in Procs, Bwrite(p)
  PROVE  Atomic!Next
<1>1. PICK b : b = Top(p)
  OBVIOUS
<1>2. PICK v \in Contents : data' = [data EXCEPT ![b] = v]
  BY <1>1 DEF Bwrite
<1>3. /\ pc[p] = "run" /\ held[p] # <<>> /\ flags' = [flags EXCEPT ![b] = @ \cup {"dirty"}]
      /\ UNCHANGED <<sector, held, disk>> /\ TypeOK
  BY <1>1 DEF Bwrite, Enqueue, cache, CInv
<1>4. b \in Own(p) /\ b \in Bufs /\ "valid" \in flags[b]
  BY <1>1, <1>3, OwnIs DEF CInv, Places, PlaceOn, Finished
<1>5. PICK s \in SectorNos : s = sector[b]
  BY <1>4 DEF CInv, Named
<1>6. HolderOf(s) = p
  BY <1>4, <1>5, HolderIs
<1>7. \A t \in SectorNos : HolderOf(t)' = HolderOf(t)
  BY <1>3, SameHolders
<1>8. ASSUME NEW t \in SectorNos
      PROVE  StoreOf(t)' = (IF t = s THEN v ELSE StoreOf(t))
  <2>1. \A c \in Bufs : "valid" \in flags'[c] <=> "valid" \in flags[c]
    BY <1>3, <1>4 DEF TypeOK
  <2>2. \A c \in Bufs : Shows(c, t)' <=> Shows(c, t)
    BY <1>3, <2>1 DEF Shows
  <2>3. CASE t = s
    <3>1. Shows(b, t)' /\ data'[b] = v
      BY <1>2, <1>3, <1>4, <1>5, <2>2, <2>3 DEF Shows, TypeOK
    <3> QED
      BY <1>4, <2>3, <3>1, NextIs
  <2>4. CASE t # s
    <3>1. \A c \in Bufs : Shows(c, t) => data'[c] = data[c]
      BY <1>2, <1>3, <1>5, <2>4 DEF Shows, TypeOK
    <3>2. CASE \E c \in Bufs : Shows(c, t)
      BY <2>2, <2>4, <3>1, <3>2, StoreIs, NextIs
    <3>3. CASE \A c \in Bufs : ~Shows(c, t)
      BY <1>3, <2>2, <2>4, <3>3, StoreIs, NextIs
    <3> QED
      BY <3>2, <3>3
  <2> QED
    BY <2>3, <2>4
<1> QED
  BY <1>3, <1>6, <1>7, <1>8, SectorModify

LEMMA DiskDoneFlushes ==
  ASSUME CInv, CInv', DiskDone
  PROVE  Atomic!Next \/ UNCHANGED Atomic!sVars
<1>1. PICK b : b = Head(idequeue)
  OBVIOUS
<1>2. idequeue # <<>> /\ UNCHANGED <<sector, flags, data, held>> /\ Working(b) /\ TypeOK
  BY <1>1 DEF DiskDone, cache, CInv, Controller
<1>3. PICK p \in Procs : b \in Own(p) /\ b \in Bufs
  BY <1>1, <1>2, HeadQueued, QueuedOwned
<1>4. PICK s \in SectorNos : s = sector[b]
  <2>1. "busy" \in flags[b]
    BY <1>3 DEF CInv, Busy
  <2> QED
    BY <1>3, <2>1 DEF CInv, Named
<1>5. HolderOf(s) = p /\ p # NoProc
  BY <1>3, <1>4, HolderIs, CacheAssumption
<1>6. \A t \in SectorNos : HolderOf(t)' = HolderOf(t)
  BY <1>2, SameHolders
<1>7. CASE command.op = "write"
  <2>1. disk' = [disk EXCEPT ![command.sector] = command.data]
    BY <1>7 DEF DiskDone
  <2>2. command.sector = s /\ command.data = data[b] /\ "valid" \in flags[b]
    BY <1>2, <1>3, <1>4, <1>7 DEF Working, CInv, Clean
  <2>3. StoreOf(s) = data[b]
    BY <1>3, <1>4, <2>2, StoreIs DEF Shows
  <2>4. ASSUME NEW t \in SectorNos
        PROVE  StoreOf(t)' = StoreOf(t)
    <3>1. \A c \in Bufs : Shows(c, t)' <=> Shows(c, t)
      BY <1>2 DEF Shows
    <3>2. CASE \E c \in Bufs : Shows(c, t)
      BY <1>2, <3>1, <3>2, StoreIs, NextIs
    <3>3. CASE \A c \in Bufs : ~Shows(c, t)
      <4>1. t # s
        BY <1>3, <1>4, <2>2, <3>3 DEF Shows
      <4>2. disk'[t] = disk[t]
        BY <1>2, <2>1, <2>2, <4>1 DEF TypeOK
      <4> QED
        BY <3>1, <3>3, <4>2, StoreIs, NextIs
    <3> QED
      BY <3>2, <3>3
  <2> QED
    BY <1>5, <1>6, <2>1, <2>2, <2>3, <2>4, SectorFlush
<1>8. CASE command.op # "write"
  <2>1. disk' = disk
    BY <1>8 DEF DiskDone
  <2> QED
    BY <1>2, <1>6, <2>1, SameStore, SectorStutter
<1> QED
  BY <1>7, <1>8

(* What the interrupt puts into a buffer is what the disk has. *)
LEMMA IdeintrStutters ==
  ASSUME CInv, CInv', ~ReadErrors, Ideintr
  PROVE  UNCHANGED Atomic!sVars
<1>1. PICK b : b = Head(idequeue)
  OBVIOUS
<1>2. /\ idequeue # <<>> /\ irq /\ UNCHANGED <<sector, held, disk>> /\ Working(b) /\ TypeOK
      /\ data' = IF "dirty" \notin flags[b] /\ ~command.err THEN [data EXCEPT ![b] = command.data] ELSE data
      /\ flags' = [flags EXCEPT ![b] = (flags[b] \cup {"valid"}) \ {"dirty"}]
  BY <1>1 DEF Ideintr, Served, cache, CInv, Controller
<1>3. b \in Bufs /\ ~Finished(b)
  BY <1>1, <1>2, HeadQueued, QueuedOwned
<1>4. \A s \in SectorNos : HolderOf(s)' = HolderOf(s)
  BY <1>2, SameHolders
<1>5. ASSUME NEW s \in SectorNos
      PROVE  StoreOf(s)' = StoreOf(s)
  <2>1. \A c \in Bufs \ {b} : (Shows(c, s)' <=> Shows(c, s)) /\ data'[c] = data[c]
    BY <1>2 DEF Shows, TypeOK
  <2>2. CASE \E c \in Bufs \ {b} : Shows(c, s)
    BY <2>1, <2>2, StoreIs, NextIs
  <2>3. CASE (\A c \in Bufs \ {b} : ~Shows(c, s)) /\ sector[b] # s
    <3>1. \A c \in Bufs : ~Shows(c, s) /\ ~Shows(c, s)'
      BY <1>2, <2>1, <2>3 DEF Shows
    <3> QED
      BY <1>2, <3>1, StoreIs, NextIs
  <2>4. CASE (\A c \in Bufs \ {b} : ~Shows(c, s)) /\ sector[b] = s
    <3>1. "valid" \in flags'[b] /\ "dirty" \notin flags'[b]
      BY <1>2, <1>3 DEF TypeOK
    <3>2. Shows(b, s)' /\ data'[b] = disk[s]
      BY <1>2, <1>3, <2>4, <3>1 DEF Shows, CInv, Faithful, ValidIsDisk
    <3>3. StoreOf(s)' = data'[b]
      BY <1>3, <3>2, NextIs
    <3>4. CASE "dirty" \in flags[b]
      <4>1. "valid" \in flags[b] /\ data'[b] = data[b]
        BY <1>2, <1>3, <3>4 DEF CInv, Clean
      <4>2. Shows(b, s)
        BY <2>4, <4>1 DEF Shows
      <4> QED
        BY <1>3, <3>3, <4>1, <4>2, StoreIs
    <3>5. CASE "dirty" \notin flags[b]
      <4>1. \A c \in Bufs : ~Shows(c, s)
        BY <1>3, <2>4, <3>5 DEF Shows, Finished
      <4> QED
        BY <3>2, <3>3, <4>1, StoreIs
    <3> QED
      BY <3>4, <3>5
  <2> QED
    BY <2>2, <2>3, <2>4
<1> QED
  BY <1>2, <1>4, <1>5, SectorStutter

(* A process lets a sector go when the disk has it. *)
LEMMA BrelseUnlocks ==
  ASSUME CInv, CInv', ~ReadErrors, NEW p \in Procs, Brelse(p)
  PROVE  Atomic!Next
<1>1. PICK b : b = Top(p)
  OBVIOUS
<1>2. /\ pc[p] = "run" /\ held[p] # <<>> /\ flags' = [flags EXCEPT ![b] = @ \ {"busy"}]
      /\ held' = [held EXCEPT ![p] = SubSeq(@, 1, Len(@) - 1)]
      /\ UNCHANGED <<sector, data, disk>> /\ TypeOK
  BY <1>1 DEF Brelse, device, CInv
<1>3. b \in Own(p) /\ b \in Bufs /\ Finished(b)
  BY <1>1, <1>2, OwnIs DEF CInv, Places, PlaceOn
<1>4. /\ Own(p)' = Own(p) \ {b}
      /\ \A q \in Procs : q # p => Own(q)' = Own(q) /\ b \notin Own(q)
  BY <1>1, <1>2, <1>3, OwnLess DEF CInv, Exclusive
<1>5. PICK s \in SectorNos : s = sector[b]
  BY <1>3 DEF CInv, Named, Finished
<1>6. HolderOf(s) = p
  BY <1>3, <1>5, HolderIs
<1>7. \A c \in Bufs \ {b} : sector[c] # s
  BY <1>3, <1>5, CacheAssumption DEF CInv, OneCopy
<1>8. StoreOf(s) = disk[s]
  <2>1. StoreOf(s) = data[b]
    BY <1>3, <1>5, StoreIs DEF Shows, Finished
  <2> QED
    BY <1>3, <1>5, <2>1 DEF CInv, Faithful, ValidIsDisk, Finished
<1>9. ASSUME NEW t \in SectorNos
      PROVE  HolderOf(t)' = (IF t = s THEN NoProc ELSE HolderOf(t))
  <2>1. ASSUME NEW q \in Procs
        PROVE  Holds(q, t)' <=> Holds(q, t) /\ t # s
    <3>1. Holds(q, t)' <=> \E c \in Own(q)' : sector[c] = t
      BY <1>2, NextIs
    <3>2. Holds(q, t) <=> \E c \in Own(q) : sector[c] = t
      BY HolderIs
    <3>3. \A c : c \in Own(q)' <=> c \in Own(q) /\ c # b
      BY <1>4
    <3>4. \A c \in Own(q) : c \in Bufs
      BY <1>2, OwnIs
    <3>5. \A c \in Own(q) : sector[c] = s => c = b
      BY <1>7, <3>4
    <3> QED
      BY <1>5, <3>1, <3>2, <3>3, <3>5
  <2>2. CASE \E q \in Procs : Holds(q, t)'
    BY <2>1, <2>2, HolderIs, NextIs
  <2>3. CASE \A q \in Procs : ~Holds(q, t)'
    BY <2>1, <2>3, HolderIs, NextIs
  <2> QED
    BY <2>2, <2>3
<1>10. ASSUME NEW t \in SectorNos
       PROVE  StoreOf(t)' = StoreOf(t)
  <2>1. \A c \in Bufs : Shows(c, t)' <=> Shows(c, t)
    BY <1>2, <1>3 DEF Shows, TypeOK
  <2>2. CASE \E c \in Bufs : Shows(c, t)
    BY <1>2, <2>1, <2>2, StoreIs, NextIs
  <2>3. CASE \A c \in Bufs : ~Shows(c, t)
    BY <1>2, <2>1, <2>3, StoreIs, NextIs
  <2> QED
    BY <2>2, <2>3
<1> QED
  BY <1>2, <1>6, <1>8, <1>9, <1>10, SectorUnlock

LEMMA SectorsInit == Init => Atomic!Init
<1> SUFFICES ASSUME Init
             PROVE  Atomic!Init
  OBVIOUS
<1>1. \A s \in SectorNos : HolderOf(s) = NoProc
  BY DEF Init, HolderOf, Holds
<1>2. \A s \in SectorNos : StoreOf(s) = disk[s]
  BY DEF Init, StoreOf, Shows
<1>3. disk \in [SectorNos -> Contents]
  BY DEF Init
<1> QED
  BY <1>1, <1>2, <1>3 DEF Atomic!Init, HolderOf, StoreOf, Shows

LEMMA SectorsNext ==
  ASSUME ~ReadErrors, CInv, CInv', [Next]_vars
  PROVE  Atomic!Next \/ UNCHANGED Atomic!sVars
<1>1. ASSUME UNCHANGED <<sector, flags, data, disk, held>>
      PROVE  UNCHANGED Atomic!sVars
  BY <1>1, SameHolders, SameStore, SectorStutter
<1>2. ASSUME NEW p \in Procs, BgetHit(p)
      PROVE  Atomic!Next
  <2> DEFINE b == lru[First(Cached(want[p]))]
  <2>1. Awake(p, "bget") /\ Cached(want[p]) # {} /\ want[p] \in SectorNos
    BY <1>2 DEF BgetHit, Awake, CInv, Places, PlaceOn
  <2>2. /\ "busy" \notin flags[b] /\ flags' = [flags EXCEPT ![b] = @ \cup {"busy"}]
        /\ Take(p, b) /\ UNCHANGED sector
    BY <1>2 DEF BgetHit
  <2>3. b \in Bufs /\ sector[b] = want[p]
    BY <2>1, ScanIs DEF CInv
  <2>4. sector' = [sector EXCEPT ![b] = want[p]]
    BY <2>2, <2>3 DEF CInv, TypeOK
  <2> HIDE DEF b
  <2> QED
    BY <2>1, <2>2, <2>3, <2>4, TakeLocks
<1>3. ASSUME NEW p \in Procs, BgetFresh(p)
      PROVE  Atomic!Next
  <2> DEFINE b == lru[Last(Unused)]
  <2>1. Awake(p, "bget") /\ Cached(want[p]) = {} /\ Unused # {} /\ want[p] \in SectorNos
    BY <1>3 DEF BgetFresh, Awake, CInv, Places, PlaceOn
  <2>2. /\ sector' = [sector EXCEPT ![b] = want[p]] /\ flags' = [flags EXCEPT ![b] = {"busy"}]
        /\ Take(p, b)
    BY <1>3 DEF BgetFresh, Recycled
  <2>3. b \in Bufs /\ "busy" \notin flags[b] /\ \A c \in Bufs : sector[c] # want[p]
    BY <2>1, ScanIs DEF CInv
  <2> HIDE DEF b
  <2> QED
    BY <2>1, <2>2, <2>3, TakeLocks
<1>4. CASE DiskDone
  BY <1>4, DiskDoneFlushes
<1>5. CASE Ideintr
  BY <1>5, IdeintrStutters
<1>6. ASSUME NEW p \in Procs, Bwrite(p)
      PROVE  Atomic!Next
  BY <1>6, BwriteModifies
<1>7. ASSUME NEW p \in Procs, Brelse(p)
      PROVE  Atomic!Next
  BY <1>7, BrelseUnlocks
<1>8. ASSUME NEW p \in Procs, NEW s \in SectorNos, Bread(p, s)
      PROVE  UNCHANGED Atomic!sVars
  BY <1>1, <1>8 DEF Bread, cache, device
<1>9. ASSUME NEW p \in Procs, BgetBusy(p) \/ IdeReturn(p)
      PROVE  UNCHANGED Atomic!sVars
  BY <1>1, <1>9 DEF BgetBusy, IdeReturn, cache, device
<1>10. ASSUME NEW p \in Procs, IdeRead(p)
       PROVE  UNCHANGED Atomic!sVars
  BY <1>1, <1>10 DEF IdeRead, Enqueue, cache
<1>11. CASE UNCHANGED vars
  BY <1>1, <1>11 DEF vars
<1> QED
  BY <1>2, <1>3, <1>4, <1>5, <1>6, <1>7, <1>8, <1>9, <1>10, <1>11 DEF Next

(* Unless reads fail, the buffer cache implements Sectors: whoever has a   *)
(* sector has it alone, sees what was last put there, whichever buffer it  *)
(* is in, and lets it go when the disk has it.                             *)
THEOREM CacheImplementsSectors == ~ReadErrors => (Spec => AtomicSectors)
<1>1. SUFFICES ASSUME ~ReadErrors
               PROVE  Spec => AtomicSectors
  OBVIOUS
<1>2. CInv /\ CInv' /\ [Next]_vars => [Atomic!Next]_(Atomic!sVars)
  BY <1>1, SectorsNext
<1> QED
  BY <1>2, CacheInvariant, SectorsInit, PTL DEF Spec, AtomicSectors, Atomic!Spec
=============================================================================
