------------------------------ MODULE Umalloc ------------------------------
(***************************************************************************)
(* The user programs' memory allocator, umalloc.c.  A program is one       *)
(* thread, so a call of malloc() or free() is one step; addresses count    *)
(* headers, the header base is at 0 and the heap starts above it.          *)
(***************************************************************************)
EXTENDS Naturals

CONSTANTS MaxUnits,     \* the memory a program can get from sbrk()
          MinUnits,     \* 4096 in morecore()
          Requests      \* sizes asked for, in headers, their own included

Addresses == 0 .. MaxUnits
base == 0

VARIABLES
  ptr, size,     \* the fields of the headers
  freep, inited, \* the static variables; freep = 0 until the first malloc()
  sz,            \* the program's size: the heap's end
  live,          \* headers of the blocks the program has
  own            \* memory that the program got by an sbrk() of its own

mallocvars == <<ptr, size, freep, inited, sz, live, own>>

MallocInit ==
  /\ ptr = [a \in Addresses |-> base] /\ size = [a \in Addresses |-> 0]
  /\ freep = base /\ inited = FALSE /\ sz = 0 /\ live = {} /\ own = {}

(* A heap: what malloc() and free() work on. *)
Heap(p, s, f) == [ptr |-> p, size |-> s, freep |-> f]
Now == Heap(ptr, size, freep)

(* Walk(h)[n] is n steps along the circular list from freep. *)
Walk(h) == LET w[n \in Addresses] == IF n = 0 THEN h.freep ELSE h.ptr[w[n - 1]] IN w
FreeList(h) == {Walk(h)[n] : n \in Addresses}

(* A field of what is no header any more is the program's data: it is 0. *)
Becomes(h, blocks) ==
  /\ ptr' = [a \in Addresses |-> IF a \in FreeList(h) THEN h.ptr[a] ELSE 0]
  /\ size' = [a \in Addresses |-> IF a \in FreeList(h) \cup blocks THEN h.size[a] ELSE 0]
  /\ freep' = h.freep /\ live' = blocks

Least(S) == CHOOSE n \in S : \A m \in S : n <= m
-----------------------------------------------------------------------------
(* free(): the loop stops at the block that bp comes after: between two    *)
(* neighbours, or at the end where the list wraps around.                  *)
Between(h, p, bp) ==
  \/ bp > p /\ bp < h.ptr[p]
  \/ p >= h.ptr[p] /\ (bp > p \/ bp < h.ptr[p])
Before(h, bp) == Walk(h)[Least({n \in Addresses : Between(h, Walk(h)[n], bp)})]

JoinNext_apart(h, p, bp) == [h EXCEPT !.ptr[bp] = h.ptr[p]]
JoinNext(h, p, bp) ==
  IF bp + h.size[bp] = h.ptr[p]
  THEN [h EXCEPT !.size[bp] = @ + h.size[h.ptr[p]], !.ptr[bp] = h.ptr[h.ptr[p]]]
  ELSE [h EXCEPT !.ptr[bp] = h.ptr[p]]
JoinPrevious(h, p, bp) ==
  IF p + h.size[p] = bp
  THEN [h EXCEPT !.size[p] = @ + h.size[bp], !.ptr[p] = h.ptr[bp]]
  ELSE [h EXCEPT !.ptr[p] = bp]
Freed(h, bp) ==
  LET p == Before(h, bp)
  IN [JoinPrevious(JoinNext(h, p, bp), p, bp) EXCEPT !.freep = p]

Free(bp) ==
  /\ bp \in live
  /\ Becomes(Freed(Now, bp), live \ {bp})
  /\ UNCHANGED <<inited, sz, own>>
-----------------------------------------------------------------------------
(* morecore(): sbrk() gives memory at the heap's end, or fails. *)
More(nunits) == IF nunits < MinUnits THEN MinUnits ELSE nunits
HasMore(nunits) == sz + More(nunits) <= MaxUnits
Morecore(h, nunits) == Freed([h EXCEPT !.size[sz + 1] = More(nunits)], sz + 1)

(* The search goes from the block after freep round to freep. *)
Fits(h, nunits) == {n \in Addresses \ {0} : h.size[Walk(h)[n]] >= nunits}

Taken_whole(h, prevp, p, nunits) == [h EXCEPT !.ptr[prevp] = h.ptr[p], !.freep = prevp]
Taken(h, prevp, p, nunits) ==
  IF h.size[p] = nunits
  THEN [h EXCEPT !.ptr[prevp] = h.ptr[p], !.freep = prevp]
  ELSE [h EXCEPT !.size[p] = @ - nunits, !.freep = prevp,
                 !.size[p + h.size[p] - nunits] = nunits]
Given(h, p, nunits) == p + h.size[p] - nunits

Give(h, nunits) ==
  LET n == Least(Fits(h, nunits))
      prevp == Walk(h)[n - 1]
      p == Walk(h)[n]
  IN Becomes(Taken(h, prevp, p, nunits), live \cup {Given(h, p, nunits)})

MallocFits(nunits) ==
  /\ Fits(Now, nunits) # {} /\ Give(Now, nunits)
  /\ UNCHANGED <<inited, sz, own>>
MallocGrows(nunits) ==
  /\ Fits(Now, nunits) = {} /\ HasMore(nunits)
  /\ Give(Morecore(Now, nunits), nunits)
  /\ sz' = sz + More(nunits) /\ inited' = TRUE /\ UNCHANGED own
(* sbrk() fails: malloc() returns 0. *)
MallocFails(nunits) ==
  /\ Fits(Now, nunits) = {} /\ inited' = TRUE
  /\ UNCHANGED <<ptr, size, freep, sz, live, own>>

(* The program grows itself: the next block from sbrk() is not adjacent. *)
Sbrk ==
  /\ sz < MaxUnits /\ own = {}
  /\ sz' = sz + 1 /\ own' = {sz + 1}
  /\ UNCHANGED <<ptr, size, freep, inited, live>>

MallocNext ==
  \/ Sbrk
  \/ \E bp \in live : Free(bp)
  \/ \E nunits \in Requests : MallocFits(nunits) \/ MallocGrows(nunits) \/ MallocFails(nunits)
MallocSpec == MallocInit /\ [][MallocNext]_mallocvars
-----------------------------------------------------------------------------
Block(bp) == bp .. bp + size[bp] - 1

(* umalloc.c:5, the heap is at any time cut into the free list's blocks    *)
(* and the program's: none is lost, none given twice, whatever the order   *)
(* of the calls and wherever freep has got to; and the list is in address  *)
(* order with no two free blocks side by side, or a large request could    *)
(* fail with the memory there.                                             *)
HeapSound ==
  LET heap == FreeList(Now) \ {base}
      all == heap \cup live
  IN /\ base \in FreeList(Now)
     /\ \A a, b \in all : a # b => Block(a) \cap Block(b) = {}
     /\ heap \cap live = {} /\ UNION {Block(a) : a \in all} = (1 .. sz) \ own
     /\ \A a \in heap : a + size[a] \notin heap
     /\ \A a \in FreeList(Now) : ptr[a] = base \/ ptr[a] > a
=============================================================================
