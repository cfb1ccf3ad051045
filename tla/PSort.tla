------------------------------- MODULE PSort -------------------------------
(***************************************************************************)
(* p6: psort, and rcheck, which judges it.  Two machines with variables of *)
(* their own.                                                              *)
(*                                                                         *)
(* psort.c sorts the records of a file with num_thread threads.  A         *)
(* thread's merge() copies the two halves and puts the records back one by *)
(* one.  A record is its key and its place in the file.                    *)
(*                                                                         *)
(* rcheck.c decides whether one file is another one sorted: it sorts the   *)
(* keys of the first by quicksort and compares them one by one with the    *)
(* keys of the second.  A file is its length in bytes and the keys of its  *)
(* whole records.                                                          *)
(***************************************************************************)
EXTENDS Integers, Sequences, SequencesExt, FiniteSets

CONSTANTS Keys, MaxLines, MaxThreads,  \* argv[3] is 1 .. MaxThreads
          RecordKeys, RECORD, MaxRecords   \* rcheck's

VARIABLES
  lines,        \* the records read
  asked,        \* argv[3]
  arrays,       \* parent_array: the records of each thread; empty before Split
  todo,         \* the calls of merge() that a thread has not ended
  put,          \* the records that its merge() has still to put back
  final,        \* final_array
  finalTodo,
  sortpc

sortvars == <<lines, asked, arrays, todo, put, final, finalTodo, sortpc>>

Inputs == UNION {[1 .. n -> Keys] : n \in 0 .. MaxLines}
Record(key, at) == [key |-> key, at |-> at]

SortInit ==
  /\ \E f \in Inputs : lines = [i \in DOMAIN f |-> Record(f[i], i)]
  /\ asked \in 1 .. MaxThreads
  /\ arrays = <<>> /\ todo = <<>> /\ put = <<>> /\ final = <<>> /\ finalTodo = <<>>
  /\ sortpc = "split"
-----------------------------------------------------------------------------
(* mergeSort(l, r): the calls of merge() in its order. *)
Merges ==
  LET order[l \in 1 .. MaxLines, r \in 0 .. MaxLines] ==
        IF l < r
        THEN LET m == l + (r - l) \div 2
             IN order[l, m] \o order[m + 1, r] \o << <<l, m, r>> >>
        ELSE <<>>
  IN order
mergeSort(n) == IF n = 0 THEN <<>> ELSE Merges[1, n]

(* merge(): the least of the two heads, the left one of equal ones. *)
TakesLeft_if_less(a, b) == a.key < b.key
TakesLeft(a, b) == a.key <= b.key
Merged(left, right) ==
  LET k[i \in 0 .. Len(left), j \in 0 .. Len(right)] ==
        IF i = Len(left) THEN SubSeq(right, j + 1, Len(right))
        ELSE IF j = Len(right) THEN SubSeq(left, i + 1, Len(left))
        ELSE IF TakesLeft(left[i + 1], right[j + 1]) THEN <<left[i + 1]>> \o k[i + 1, j]
        ELSE <<right[j + 1]>> \o k[i, j + 1]
  IN k[0, 0]
MergedIn(arr, call) == Merged(SubSeq(arr, call[1], call[2]), SubSeq(arr, call[2] + 1, call[3]))
merge(arr, call) ==
  SubSeq(arr, 1, call[1] - 1) \o MergedIn(arr, call) \o SubSeq(arr, call[3] + 1, Len(arr))
-----------------------------------------------------------------------------
(* Fewer lines than threads: two threads, and the lines that are left over *)
(* are sorted with the result.                                             *)
NumThread == IF Len(lines) \div asked = 0 THEN 2 ELSE asked
LinesEachThread == Len(lines) \div NumThread
Remainder == Len(lines) % NumThread

Split ==
  /\ sortpc = "split" /\ sortpc' = "threads"
  /\ arrays' = [t \in 1 .. NumThread |->
                  SubSeq(lines, (t - 1) * LinesEachThread + 1, t * LinesEachThread)]
  /\ todo' = [t \in 1 .. NumThread |-> mergeSort(LinesEachThread)]
  /\ put' = [t \in 1 .. NumThread |-> <<>>]
  /\ UNCHANGED <<lines, asked, final, finalTodo>>

ThreadCopies(t) ==
  /\ t \in DOMAIN todo /\ todo[t] # <<>> /\ put[t] = <<>>
  /\ put' = [put EXCEPT ![t] = MergedIn(arrays[t], Head(todo[t]))]
  /\ UNCHANGED <<lines, asked, arrays, todo, final, finalTodo, sortpc>>
ThreadPuts(t) ==
  /\ t \in DOMAIN put /\ put[t] # <<>>
  /\ LET r == Head(todo[t])[3]
     IN arrays' = [arrays EXCEPT ![t][r - Len(put[t]) + 1] = Head(put[t])]
  /\ put' = [put EXCEPT ![t] = Tail(@)]
  /\ todo' = [todo EXCEPT ![t] = IF Len(put[t]) = 1 THEN Tail(@) ELSE @]
  /\ UNCHANGED <<lines, asked, final, finalTodo, sortpc>>

(* pthread_join() of them all, and the remainder put back at the end. *)
Rest_forgotten == <<>>
Rest == SubSeq(lines, Len(lines) - Remainder + 1, Len(lines))
Joined_first == todo[1] = <<>>
Joined == \A t \in DOMAIN todo : todo[t] = <<>>
Join ==
  /\ sortpc = "threads" /\ Joined /\ sortpc' = "final"
  /\ final' = FlattenSeq(arrays) \o Rest
  /\ finalTodo' = mergeSort(Len(lines))
  /\ UNCHANGED <<lines, asked, arrays, todo, put>>
FinalMerges ==
  /\ sortpc = "final" /\ finalTodo # <<>>
  /\ final' = merge(final, Head(finalTodo)) /\ finalTodo' = Tail(finalTodo)
  /\ UNCHANGED <<lines, asked, arrays, todo, put, sortpc>>
Write ==
  /\ sortpc = "final" /\ finalTodo = <<>> /\ sortpc' = "written"
  /\ UNCHANGED <<lines, asked, arrays, todo, put, final, finalTodo>>

SortNext ==
  \/ Split \/ Join \/ FinalMerges \/ Write
  \/ \E t \in 1 .. MaxThreads + 1 : ThreadCopies(t) \/ ThreadPuts(t)
SortSpec == SortInit /\ [][SortNext]_sortvars
-----------------------------------------------------------------------------
Precedes(a, b) == a.key < b.key \/ (a.key = b.key /\ a.at < b.at)

(* p6/README.md, the file is sorted by key: whatever the number of lines   *)
(* and of threads, the records written are those read, each once, and      *)
(* records with equal keys stay in the order they had in the file, though  *)
(* threads sort the parts and the remainder is put last.                   *)
SortedWhole ==
  sortpc = "written" =>
    /\ ToSet(final) = ToSet(lines) /\ Len(final) = Len(lines)
    /\ \A i \in 1 .. Len(final) - 1 : Precedes(final[i], final[i + 1])
-----------------------------------------------------------------------------
(* rcheck. *)
VARIABLES
  rec, sort,         \* the two files
  key_pointer_map,
  calls,             \* the calls of qs() to come, <<lower, upper>>
  ret, rpc
checkvars == <<rec, sort, key_pointer_map, calls, ret, rpc>>

File == UNION {[there : {TRUE}, len : {n}, keys : [1 .. n \div RECORD -> RecordKeys]] :
                 n \in 0 .. MaxRecords * RECORD}
NoFile == [there |-> FALSE, len |-> 0, keys |-> <<>>]
EXIT_FAILURE == 1

RCheckInit ==
  /\ rec \in File \cup {NoFile}
  /\ sort \in {f \in File : f.len = rec.len \/ f.keys = <<>>} \cup {NoFile}
  /\ key_pointer_map = <<>> /\ calls = <<>> /\ ret = 0 /\ rpc = "open"

(* mmap() of nothing fails. *)
Refuses == ~rec.there \/ ~sort.there \/ rec.len # sort.len \/ rec.len = 0
Fails ==
  /\ rpc = "open" /\ Refuses
  /\ ret' = EXIT_FAILURE /\ rpc' = "exit" /\ UNCHANGED <<rec, sort, key_pointer_map, calls>>
Maps ==
  /\ rpc = "open" /\ ~Refuses
  /\ key_pointer_map' = rec.keys /\ calls' = <<<<1, Len(rec.keys)>>>>
  /\ rpc' = "qs" /\ UNCHANGED <<rec, sort, ret>>

Swap(s, a, b) == [s EXCEPT ![a] = s[b], ![b] = s[a]]
(* The map and l after the loop of part() has looked at all before c. *)
Part(s, lower, upper) ==
  LET seen[c \in lower .. upper] ==
        IF c = lower THEN [map |-> s, l |-> lower]
        ELSE LET was == seen[c - 1] IN
             IF was.map[c - 1] < was.map[upper]
             THEN [map |-> Swap(was.map, c - 1, was.l), l |-> was.l + 1] ELSE was
  IN [seen[upper] EXCEPT !.map = Swap(@, seen[upper].l, upper)]
Qs ==
  /\ rpc = "qs" /\ calls # <<>>
  /\ LET lower == calls[1][1]
         upper == calls[1][2]
     IN IF lower < upper
        THEN LET pivot == Part(key_pointer_map, lower, upper) IN
             /\ key_pointer_map' = pivot.map
             /\ calls' = <<<<lower, pivot.l - 1>>, <<pivot.l + 1, upper>>>> \o Tail(calls)
        ELSE calls' = Tail(calls) /\ UNCHANGED key_pointer_map
  /\ UNCHANGED <<rec, sort, ret, rpc>>
(* munmap() is given the number of records as its length, and fails for 0. *)
NothingToUnmap == key_pointer_map = <<>>
Compares ==
  /\ rpc = "qs" /\ calls = <<>>
  /\ ret' = IF \/ \E k \in DOMAIN key_pointer_map : key_pointer_map[k] # sort.keys[k]
               \/ NothingToUnmap
            THEN EXIT_FAILURE ELSE 0
  /\ rpc' = "exit" /\ UNCHANGED <<rec, sort, key_pointer_map, calls>>

RCheckNext == Fails \/ Maps \/ Qs \/ Compares
RCheckSpec == RCheckInit /\ [][RCheckNext]_checkvars
-----------------------------------------------------------------------------
(* rcheck.c:8, "files may differ but are still sorted correctly": it is    *)
(* content with the second file just when its keys are those of the first  *)
(* in order, and what it sorts never leaves the map.  Of files without a   *)
(* whole record it says no (rcheck.c:110: munmap() of nothing).            *)
Many(s, x) == Cardinality({k \in DOMAIN s : s[k] = x})
InOrder(s) == \A k \in 1 .. Len(s) - 1 : s[k] <= s[k + 1]
RCheckRight ==
  /\ \A k \in DOMAIN calls : calls[k][1] < calls[k][2] => calls[k][1] >= 1 /\ calls[k][2] <= Len(key_pointer_map)
  /\ rpc = "exit" =>
       (ret = 0 <=> /\ rec.there /\ sort.there /\ rec.len = sort.len /\ rec.keys # <<>>
                    /\ InOrder(sort.keys)
                    /\ \A x \in RecordKeys : Many(sort.keys, x) = Many(rec.keys, x))
=============================================================================
