----------------------------- MODULE StrideProofs -----------------------------
(***************************************************************************)
(* Theorems about Stride: for any number of slots, any tickets and any     *)
(* width of int, CPU time is shared in proportion to the tickets, and the  *)
(* family relations of the processes are sound.                            *)
(***************************************************************************)
EXTENDS Stride, TLAPS

(* Who runs, who may be chosen, and the slots that fork() is filling. *)
Table ==
  /\ \A p \in Slots : state[p] = "RUNNING" <=> proc = p
  /\ proc # NoProc => chosenProc = proc
  /\ proc = NoProc /\ chosenProc # NoProc =>
       state[chosenProc] \in {"RUNNABLE", "SLEEPING", "ZOMBIE"}
  /\ \A p \in Slots : pc[p] = "fork" => np[p] # NoProc
  /\ \A p \in Slots : np[p] # NoProc => state[np[p]] = "EMBRYO"
  /\ \A p, q \in Slots : np[p] # NoProc /\ np[p] = np[q] => p = q

(* What the scan has found so far. *)
Candidate ==
  /\ proc # NoProc => k = 0
  /\ k = 0 => lowestPV = -1
  /\ lowestPV # -1 => /\ chosenProc # NoProc
                      /\ state[chosenProc] = "RUNNABLE"
                      /\ lowestPV = passvalue[chosenProc]
  /\ steady # {} => \A q \in Slots : q < k /\ state[q] = "RUNNABLE" =>
       lowestPV # -1 /\ lowestPV <= passvalue[q]

(* The accounts of the processes under comparison. *)
Accounts ==
  /\ \A p \in steady : state[p] \in {"RUNNABLE", "RUNNING"}
  /\ steady # {} => \A p \in Slots : passvalue[p] >= 0
  /\ \A p \in steady :
       /\ ticks[p] >= mark[p].ticks
       /\ passvalue[p] = mark[p].passvalue + Turns(p) * init_stride[p]
  /\ \A p, q \in steady :
       Turns(p) > 0 => passvalue[p] - init_stride[p] <= passvalue[q]

(* TypeOK in two parts: the snapshot and the rest. *)
MarkOK ==
  /\ steady \subseteq Slots
  /\ mark \in [steady -> [ticks : 0 .. MaxTicks,
                          passvalue : -IntMax - 1 .. IntMax]]

Types ==
  /\ state \in [Slots -> States]
  /\ parent \in [Slots -> Slots \cup {NoProc}]
  /\ nopid \in SUBSET Slots /\ killed \in SUBSET Slots
  /\ tickets \in [Slots -> 0 .. IntMax]
  /\ init_stride \in [Slots -> 0 .. MAXSTRIDE]
  /\ passvalue \in [Slots -> -IntMax - 1 .. IntMax]
  /\ ticks \in [Slots -> 0 .. MaxTicks]
  /\ pc \in [Slots -> {"user", "fork", "wait", "event", "zombie"}]
  /\ np \in [Slots -> Slots \cup {NoProc}]
  /\ ready \in SUBSET Slots
  /\ proc \in Slots \cup {NoProc}
  /\ k \in 0 .. NPROC
  /\ lowestPV \in -IntMax - 1 .. IntMax
  /\ chosenProc \in Slots \cup {NoProc}
  /\ panicked \in BOOLEAN

IndInv == Types /\ MarkOK /\ Table /\ Candidate /\ Accounts

-----------------------------------------------------------------------------
(* An integer quotient of naturals does not exceed the dividend. *)
LEMMA QuotientBound ==
  ASSUME NEW a \in Nat, NEW n \in Nat \ {0}
  PROVE  a \div n \in 0 .. a
<1> DEFINE d == a \div n
<1>1. d \in Int /\ n * d <= a /\ a < n * (d + 1)
  OBVIOUS
<1>2. d >= 0
  BY <1>1
<1>3. d <= n * d
  BY <1>2
<1> QED
  BY <1>1, <1>2, <1>3

(* A share of one process against another, from the two accounts. *)
LEMMA Share ==
  ASSUME NEW v \in Int, NEW w \in Int, NEW t \in Int, NEW u \in Int,
         NEW s \in Int, NEW r \in Int,
         (v + t * s) - s <= w + u * r
  PROVE  v + (t - 1) * s <= w + u * r
<1>1. (t - 1) * s = t * s - s
  OBVIOUS
<1> QED
  BY <1>1


-----------------------------------------------------------------------------
(* What happens to the snapshot. *)
LEMMA MarkSame ==
  ASSUME MarkOK, UNCHANGED mark
  PROVE  MarkOK' /\ steady' = steady
BY DEF MarkOK, steady

LEMMA MarkForget ==
  ASSUME MarkOK, NEW p, Forget(p)
  PROVE  /\ MarkOK' /\ steady' = steady \ {p}
         /\ \A q \in steady' : mark'[q] = mark[q]
BY DEF MarkOK, steady, Forget

LEMMA MarkEmpty ==
  ASSUME mark' = NoMark
  PROVE  MarkOK' /\ steady' = {}
BY DEF MarkOK, steady, NoMark

(* A step that leaves the accounts of the compared processes alone. *)
LEMMA AccountsKept ==
  ASSUME Accounts, steady' \subseteq steady,
         \A p \in steady' :
           /\ mark'[p] = mark[p] /\ ticks'[p] = ticks[p]
           /\ passvalue'[p] = passvalue[p] /\ init_stride'[p] = init_stride[p]
           /\ state'[p] \in {"RUNNABLE", "RUNNING"},
         \A p \in Slots : passvalue[p] >= 0 => passvalue'[p] >= 0
  PROVE  Accounts'
BY DEF Accounts, Turns

LEMMA SlotFacts ==
  /\ Slots \subseteq Int /\ initproc \in Slots /\ NoProc \notin Slots
  /\ \A x \in 0 .. NPROC : x < NPROC => x \in Slots /\ x + 1 \in 0 .. NPROC
  /\ \A x \in Slots : x < NPROC /\ 0 <= x
BY StrideAssumption DEF Slots, NoProc, initproc

LEMMA IndInvInit == Init => IndInv
<1> SUFFICES ASSUME Init PROVE IndInv
  OBVIOUS
<1> USE StrideAssumption, SlotFacts DEF Init
<1>1. Types
  <2>1. init_stride \in [Slots -> 0 .. MAXSTRIDE] /\ passvalue = init_stride
    OBVIOUS
  <2>2. passvalue \in [Slots -> -IntMax - 1 .. IntMax]
    BY <2>1
  <2>3. tickets \in [Slots -> 0 .. IntMax] /\ ticks \in [Slots -> 0 .. MaxTicks]
    OBVIOUS
  <2>4. /\ state \in [Slots -> States] /\ parent \in [Slots -> Slots \cup {NoProc}]
        /\ pc \in [Slots -> {"user", "fork", "wait", "event", "zombie"}]
        /\ np \in [Slots -> Slots \cup {NoProc}]
    BY DEF States
  <2>5. k \in 0 .. NPROC /\ lowestPV \in -IntMax - 1 .. IntMax
    OBVIOUS
  <2> QED
    BY <2>1, <2>2, <2>3, <2>4, <2>5 DEF Types
<1>2. MarkOK /\ steady = {}
  BY DEF MarkOK, steady, NoMark
<1>3. Table /\ Candidate
  BY <1>2 DEF Table, Candidate
<1>4. Accounts
  BY <1>2 DEF Accounts
<1> QED
  BY <1>1, <1>2, <1>3, <1>4 DEF IndInv

LEMMA IndInvNext == IndInv /\ [Next]_vars => IndInv'
<1> SUFFICES ASSUME IndInv, [Next]_vars PROVE IndInv'
  OBVIOUS
<1> USE SlotFacts DEF IndInv, table, strides, scan, Goto, At, Call
<1>1. ASSUME Scan
      PROVE  IndInv'
  <2>1. MarkOK' /\ steady' = steady /\ mark' = mark
    BY <1>1, MarkSame DEF Scan
  <2>2. Types'
    BY <1>1, StrideAssumption DEF Scan, Types, States, Table, Better
  <2>3. Table'
    BY <1>1 DEF Scan, Types, Table
  <2>4. Candidate'
    BY <1>1, <2>1 DEF Scan, Types, Table, Candidate, MarkOK, Better, Accounts
  <2>5. Accounts'
    BY <1>1, <2>1, AccountsKept DEF Scan, Types, MarkOK, Table, Accounts
  <2> QED
    BY <2>1, <2>2, <2>3, <2>4, <2>5
<1>2. ASSUME Choose
      PROVE  IndInv'
  <2> DEFINE p == chosenProc
             sum == passvalue[p] + init_stride[p]
  <2>1. /\ p \in Slots /\ passvalue[p] \in Int /\ init_stride[p] \in 0 .. MAXSTRIDE
        /\ -IntMax - 1 <= passvalue[p] /\ passvalue[p] <= IntMax
        /\ ticks[p] \in 0 .. MaxTicks /\ ticks[p] < MaxTicks
    BY <1>2, StrideAssumption DEF Choose, Types
  <2>2. Wrap(sum) \in -IntMax - 1 .. IntMax
    BY <2>1, StrideAssumption DEF Wrap
  <2>3. Types'
    BY <1>2, <2>1, <2>2, StrideAssumption DEF Choose, Types, States
  <2>4. Table'
    BY <1>2, <2>1 DEF Choose, Types, Table
  <2>5. CASE sum > IntMax
    <3>1. MarkOK' /\ steady' = {}
      BY <1>2, <2>5, MarkEmpty DEF Choose
    <3>2. Candidate' /\ Accounts'
      BY <1>2, <3>1 DEF Choose, Candidate, Accounts
    <3> QED
      BY <2>3, <2>4, <3>1, <3>2
  <2>6. CASE ~(sum > IntMax)
    <3>1. MarkOK' /\ steady' = steady /\ mark' = mark
      BY <1>2, <2>6, MarkSame DEF Choose
    <3>2. Candidate'
      BY <1>2 DEF Choose, Candidate
    <3>3. /\ passvalue' = [passvalue EXCEPT ![p] = sum]
          /\ ticks' = [ticks EXCEPT ![p] = @ + 1]
          /\ UNCHANGED <<mark, init_stride>>
      BY <1>2, <2>6, <3>1 DEF Choose, Wrap
    <3>4. steady \subseteq Slots /\ \A q \in steady : state[q] = "RUNNABLE"
      BY <1>2 DEF Choose, Table, Accounts, MarkOK
    <3>5. \A q \in steady : passvalue[p] <= passvalue[q]
      BY <1>2, <3>4 DEF Choose, Candidate
    <3>6. \A q \in steady' : state'[q] \in {"RUNNABLE", "RUNNING"}
      BY <1>2, <2>1, <3>1, <3>4 DEF Choose, Types
    <3>7. steady' # {} => \A q \in Slots : passvalue'[q] >= 0
      BY <2>1, <3>1, <3>3, StrideAssumption DEF Accounts, Types
    <3>8. ASSUME NEW q \in steady
          PROVE  /\ ticks'[q] >= mark'[q].ticks
                 /\ passvalue'[q] = mark'[q].passvalue + Turns(q)' * init_stride'[q]
      <4>1. /\ mark[q].ticks \in Int /\ mark[q].passvalue \in Int
            /\ ticks[q] \in Int /\ init_stride[q] \in Int /\ q \in Slots
        BY <3>4, StrideAssumption DEF MarkOK, Types
      <4>2. /\ ticks[q] >= mark[q].ticks
            /\ passvalue[q] = mark[q].passvalue
                                + (ticks[q] - mark[q].ticks) * init_stride[q]
        BY DEF Accounts, Turns
      <4>3. CASE q = p
        <5>1. ((ticks[q] + 1) - mark[q].ticks) * init_stride[q]
                = (ticks[q] - mark[q].ticks) * init_stride[q] + init_stride[q]
          BY <4>1
        <5> QED
          BY <2>1, <3>3, <4>1, <4>2, <4>3, <5>1 DEF Types, Turns
      <4>4. CASE q # p
        BY <3>3, <4>1, <4>2, <4>4 DEF Types, Turns
      <4> QED
        BY <4>3, <4>4
    <3>9. ASSUME NEW q \in steady, NEW r \in steady, Turns(q)' > 0
          PROVE  passvalue'[q] - init_stride'[q] <= passvalue'[r]
      <4>1. /\ passvalue[q] \in Int /\ passvalue[r] \in Int /\ passvalue[p] \in Int
            /\ init_stride[q] \in Nat /\ init_stride[p] \in Nat /\ q \in Slots /\ r \in Slots
        BY <2>1, <3>4, StrideAssumption DEF Types
      <4>2. passvalue'[r] >= passvalue[r]
        BY <2>1, <3>3, <4>1 DEF Types
      <4>3. CASE q = p
        BY <2>1, <3>3, <3>5, <4>1, <4>2, <4>3 DEF Types
      <4>4. CASE q # p
        <5>1. Turns(q) > 0
          BY <3>3, <3>9, <4>1, <4>4 DEF Turns, Types
        <5>2. passvalue[q] - init_stride[q] <= passvalue[r]
          BY <5>1 DEF Accounts
        <5>3. passvalue'[q] = passvalue[q] /\ init_stride'[q] = init_stride[q]
          BY <3>3, <4>1, <4>4 DEF Types
        <5>4. passvalue'[r] \in Int
          BY <2>1, <3>3, <4>1 DEF Types
        <5> QED
          BY <4>1, <4>2, <5>2, <5>3, <5>4
      <4> QED
        BY <4>3, <4>4
    <3>10. Accounts'
      BY <3>1, <3>6, <3>7, <3>8, <3>9 DEF Accounts
    <3> QED
      BY <2>3, <2>4, <3>1, <3>2, <3>10
  <2> QED
    BY <2>5, <2>6
<1>3. ASSUME Observe
      PROVE  IndInv'
  <2>1. /\ steady' = {q \in Slots : state[q] = "RUNNABLE"}
        /\ \A q \in steady' : mark'[q] = [ticks |-> ticks[q], passvalue |-> passvalue[q]]
    BY <1>3 DEF Observe, steady
  <2>2. MarkOK'
    BY <1>3, <2>1 DEF Observe, MarkOK, Types, steady
  <2>3. Types' /\ Table'
    BY <1>3 DEF Observe, Types, Table
  <2>4. Candidate'
    BY <1>3 DEF Observe, Candidate
  <2>5. Accounts'
    <3>1. \A q \in steady' : Turns(q)' = 0 /\ mark'[q].passvalue = passvalue'[q]
                               /\ mark'[q].ticks = ticks'[q] /\ init_stride'[q] \in Int
                               /\ ticks'[q] \in Int /\ passvalue'[q] \in Int
      BY <1>3, <2>1 DEF Observe, Types, Turns
    <3>2. \A q \in steady' : 0 * init_stride'[q] = 0
      BY <3>1
    <3> QED
      <4>1. \A q \in steady' : state'[q] \in {"RUNNABLE", "RUNNING"}
        BY <1>3, <2>1 DEF Observe
      <4>2. \A q \in Slots : passvalue'[q] >= 0
        BY <1>3 DEF Observe
      <4>3. \A q \in steady' : /\ ticks'[q] >= mark'[q].ticks
                               /\ passvalue'[q] = mark'[q].passvalue
                                    + Turns(q)' * init_stride'[q]
        BY <3>1, <3>2
      <4>4. \A q, r \in steady' :
              Turns(q)' > 0 => passvalue'[q] - init_stride'[q] <= passvalue'[r]
        BY <3>1
      <4> QED
        BY <4>1, <4>2, <4>3, <4>4 DEF Accounts
  <2> QED
    BY <2>2, <2>3, <2>4, <2>5
<1>4. ASSUME NEW S \in SUBSET Slots, Wakeup(S)
      PROVE  IndInv'
  <2>1. MarkOK' /\ steady' = steady /\ mark' = mark
    BY <1>4, MarkSame DEF Wakeup
  <2>2. /\ state' \in [Slots -> States]
        /\ \A q \in Slots : \/ state'[q] = state[q]
                            \/ state[q] = "SLEEPING" /\ state'[q] = "RUNNABLE"
    BY <1>4 DEF Wakeup, Types, States
  <2>3. Types'
    BY <1>4, <2>2 DEF Wakeup, Types
  <2>4. UNCHANGED <<np, pc, proc, k, lowestPV, chosenProc, passvalue, ticks,
                    init_stride>> /\ k = 0
    BY <1>4 DEF Wakeup, Candidate
  <2>5. Table'
    <3>1. \A q \in Slots : state'[q] = "RUNNING" <=> proc' = q
      BY <2>2, <2>4 DEF Table
    <3>2. \A q \in Slots : state[q] = "EMBRYO" => state'[q] = "EMBRYO"
      BY <2>2
    <3>3. proc' = NoProc /\ chosenProc' # NoProc =>
            state'[chosenProc'] \in {"RUNNABLE", "SLEEPING", "ZOMBIE"}
      BY <2>2, <2>4 DEF Table, Types
    <3>4. \A q \in Slots : np'[q] # NoProc => state'[np'[q]] = "EMBRYO"
      BY <2>4, <3>2 DEF Table, Types
    <3> QED
      BY <2>4, <3>1, <3>3, <3>4 DEF Table
  <2>6. Candidate'
    BY <2>2, <2>4 DEF Candidate, Types
  <2>7. Accounts'
    BY <2>1, <2>2, <2>4, AccountsKept DEF MarkOK, Types, Accounts
  <2> QED
    BY <2>1, <2>3, <2>5, <2>6, <2>7
<1>5. ASSUME NEW p \in Slots, Yield(p)
      PROVE  IndInv'
  <2>1. MarkOK' /\ steady' = steady /\ mark' = mark
    BY <1>5, MarkSame DEF Yield
  <2>2. Types'
    BY <1>5 DEF Yield, Types, States, Table
  <2>3. Table'
    BY <1>5 DEF Yield, Types, Table
  <2>4. Candidate'
    BY <1>5, <2>1 DEF Yield, Types, Table, Candidate, MarkOK
  <2>5. Accounts'
    BY <1>5, <2>1, AccountsKept DEF Yield, Types, MarkOK, Table, Accounts
  <2> QED
    BY <2>1, <2>2, <2>3, <2>4, <2>5
<1>6. ASSUME NEW p \in Slots, AllocProc(p)
      PROVE  IndInv'
  <2>1. MarkOK' /\ steady' = steady /\ mark' = mark
    BY <1>6, MarkSame DEF AllocProc
  <2>2. Types'
    BY <1>6, StrideAssumption DEF AllocProc, Types, States, Table
  <2>3. Table'
    BY <1>6 DEF AllocProc, Types, Table
  <2>4. Candidate'
    BY <1>6, <2>1 DEF AllocProc, Types, Table, Candidate, MarkOK
  <2>5. Accounts'
    BY <1>6, <2>1, AccountsKept, StrideAssumption DEF AllocProc, Types, MarkOK, Table, Accounts
  <2> QED
    BY <2>1, <2>2, <2>3, <2>4, <2>5
<1>7. ASSUME NEW p \in Slots, ForkFailed(p)
      PROVE  IndInv'
  <2>1. MarkOK' /\ steady' = steady /\ mark' = mark
    BY <1>7, MarkSame DEF ForkFailed
  <2>2. Types'
    BY <1>7 DEF ForkFailed, Types, States, Table
  <2>3. Table'
    BY <1>7 DEF ForkFailed, Types, Table
  <2>4. Candidate'
    BY <1>7, <2>1 DEF ForkFailed, Types, Table, Candidate, MarkOK
  <2>5. Accounts'
    BY <1>7, <2>1, AccountsKept DEF ForkFailed, Types, MarkOK, Table, Accounts
  <2> QED
    BY <2>1, <2>2, <2>3, <2>4, <2>5
<1>8. ASSUME NEW p \in Slots, ForkDone(p)
      PROVE  IndInv'
  <2> DEFINE c == np[p]
  <2>1. MarkOK' /\ steady' = steady /\ mark' = mark
    BY <1>8, MarkSame DEF ForkDone
  <2>2. /\ c \in Slots /\ state[c] = "EMBRYO" /\ state[p] = "RUNNING" /\ c # p
        /\ proc = p
    BY <1>8 DEF ForkDone, Types, Table
  <2>3. /\ state' = [state EXCEPT ![c] = "RUNNABLE"]
        /\ pc' = [pc EXCEPT ![p] = "user", ![c] = "user"]
        /\ np' = [np EXCEPT ![p] = NoProc]
        /\ init_stride' = [init_stride EXCEPT ![c] = init_stride[p]]
        /\ passvalue' = [passvalue EXCEPT ![c] = init_stride[p]]
        /\ ticks' = [ticks EXCEPT ![c] = 0]
        /\ UNCHANGED <<proc, k, lowestPV, chosenProc>>
    BY <1>8 DEF ForkDone
  <2>4. Types'
    <3>1. /\ state' \in [Slots -> States]
          /\ pc' \in [Slots -> {"user", "fork", "wait", "event", "zombie"}]
          /\ np' \in [Slots -> Slots \cup {NoProc}]
      BY <2>2, <2>3 DEF Types, States
    <3>2. /\ init_stride' \in [Slots -> 0 .. MAXSTRIDE]
          /\ passvalue' \in [Slots -> -IntMax - 1 .. IntMax]
          /\ ticks' \in [Slots -> 0 .. MaxTicks]
      BY <2>2, <2>3, StrideAssumption DEF Types
    <3> QED
      BY <1>8, <2>2, <2>3, <3>1, <3>2 DEF ForkDone, Types
  <2>5. Table'
    BY <2>2, <2>3 DEF Types, Table
  <2>6. Candidate'
    BY <2>2, <2>3 DEF Types, Candidate
  <2>7. Accounts'
    BY <2>1, <2>2, <2>3, AccountsKept DEF MarkOK, Types, Accounts
  <2> QED
    BY <2>1, <2>4, <2>5, <2>6, <2>7
<1>9. ASSUME NEW p \in Slots, NEW n \in TicketArgs, SetTickets(p, n)
      PROVE  IndInv'
  <2>1. /\ MarkOK' /\ steady' = steady \ {p}
        /\ \A q \in steady' : mark'[q] = mark[q]
    BY <1>9, MarkForget DEF SetTickets
  <2>2. Types'
    BY <1>9, StrideAssumption, QuotientBound DEF SetTickets, Types, States, Table
  <2>3. Table'
    BY <1>9 DEF SetTickets, Types, Table
  <2>4. Candidate'
    BY <1>9, <2>1 DEF SetTickets, Types, Table, Candidate, MarkOK
  <2>5. Accounts'
    BY <1>9, <2>1, AccountsKept, StrideAssumption, QuotientBound DEF SetTickets, Types, MarkOK, Table, Accounts
  <2> QED
    BY <2>1, <2>2, <2>3, <2>4, <2>5
<1>10. ASSUME NEW p \in Slots, Exit(p)
      PROVE  IndInv'
  <2>1. CASE p = initproc
    <3>1. MarkOK' /\ steady' = steady /\ mark' = mark
      BY <1>10, <2>1, MarkSame DEF Exit
    <3> QED
      BY <1>10, <2>1, <3>1, AccountsKept DEF Exit, Types, Table, Candidate, Accounts
  <2>2. CASE p # initproc
    <3>1. /\ MarkOK' /\ steady' = steady \ {p}
          /\ \A q \in steady' : mark'[q] = mark[q]
      BY <1>10, <2>2, MarkForget DEF Exit
    <3>2. /\ state' \in [Slots -> States]
          /\ state'[p] = "ZOMBIE" /\ state[p] = "RUNNING"
          /\ \A q \in Slots \ {p} : \/ state'[q] = state[q]
                                    \/ state[q] = "SLEEPING" /\ state'[q] = "RUNNABLE"
      BY <1>10, <2>2 DEF Exit, Types, Table, Woken, States
    <3>3. Types'
      BY <1>10, <2>2, <3>2 DEF Exit, Adopt, Types
    <3>4. /\ proc = p /\ proc' = NoProc /\ k' = k /\ lowestPV' = lowestPV
          /\ chosenProc' = chosenProc
          /\ UNCHANGED <<np, passvalue, ticks, init_stride>>
          /\ pc' = [pc EXCEPT ![p] = "zombie"]
      BY <1>10, <2>2 DEF Exit
    <3>5. Table'
      <4>1. \A q \in Slots : state'[q] = "RUNNING" <=> proc' = q
        BY <3>2, <3>4 DEF Types, Table
      <4>2. chosenProc = p
        BY <3>4 DEF Table
      <4>3. \A q \in Slots : state[q] = "EMBRYO" => state'[q] = "EMBRYO"
        BY <3>2
      <4>4. \A q \in Slots : np'[q] # NoProc => state'[np'[q]] = "EMBRYO"
        BY <3>4, <4>3 DEF Table, Types
      <4>5. \A q \in Slots : pc'[q] = "fork" => np'[q] # NoProc
        BY <3>4 DEF Table, Types
      <4> QED
        BY <3>2, <3>4, <4>1, <4>2, <4>4, <4>5 DEF Table
    <3>6. Candidate'
      BY <3>2, <3>4 DEF Types, Candidate
    <3>7. Accounts'
      BY <3>1, <3>2, <3>4, AccountsKept DEF MarkOK, Types, Accounts
    <3> QED
      BY <3>1, <3>3, <3>5, <3>6, <3>7
  <2> QED
    BY <2>1, <2>2
<1>11. ASSUME NEW p \in Slots, ZombieExit(p)
      PROVE  IndInv'
  <2>1. MarkOK' /\ steady' = steady /\ mark' = mark
    BY <1>11, MarkSame DEF ZombieExit
  <2>2. Types'
    BY <1>11 DEF ZombieExit, Types, States, Table
  <2>3. Table'
    BY <1>11 DEF ZombieExit, Types, Table
  <2>4. Candidate'
    BY <1>11, <2>1 DEF ZombieExit, Types, Table, Candidate, MarkOK
  <2>5. Accounts'
    BY <1>11, <2>1, AccountsKept DEF ZombieExit, Types, MarkOK, Table, Accounts
  <2> QED
    BY <2>1, <2>2, <2>3, <2>4, <2>5
<1>12. ASSUME NEW p \in Slots, Wait(p)
      PROVE  IndInv'
  <2>1. p \in Slots /\ proc = p /\ state[p] = "RUNNING"
    BY <1>12 DEF Wait, Table
  <2>0. \/ UNCHANGED <<parent, nopid, killed>>
        \/ \E z \in Slots : /\ nopid' = nopid \cup {z} /\ killed' = killed \ {z}
                           /\ parent' = [parent EXCEPT ![z] = NoProc]
    BY <1>12 DEF Wait
  <2>2. CASE UNCHANGED <<state, proc, mark>>
    <3>1. MarkOK' /\ steady' = steady /\ mark' = mark
      BY <2>2, MarkSame
    <3>2. Types'
      <4>1. /\ UNCHANGED <<tickets, init_stride, passvalue, ticks, np, ready, k,
                           lowestPV, chosenProc, panicked>>
            /\ pc' = [pc EXCEPT ![p] = "user"] \/ pc' = [pc EXCEPT ![p] = "wait"]
        BY <1>12 DEF Wait
      <4>2. /\ nopid' \in SUBSET Slots /\ killed' \in SUBSET Slots
            /\ parent' \in [Slots -> Slots \cup {NoProc}]
        BY <2>0 DEF Types
      <4> QED
        BY <2>1, <2>2, <4>1, <4>2 DEF Types
    <3>3. Table' /\ Candidate'
      BY <1>12, <2>2, <3>1 DEF Wait, Types, Table, Candidate
    <3>4. Accounts'
      BY <1>12, <2>2, <3>1, AccountsKept DEF Wait, Accounts
    <3> QED
      BY <3>1, <3>2, <3>3, <3>4
  <2>3. ASSUME NEW z \in Slots, state[z] = "ZOMBIE",
               state' = [state EXCEPT ![z] = "UNUSED"], UNCHANGED <<proc, mark>>
        PROVE  IndInv'
    <3>1. MarkOK' /\ steady' = steady /\ mark' = mark
      BY <2>3, MarkSame
    <3>2. Types'
      <4>1. /\ UNCHANGED <<tickets, init_stride, passvalue, ticks, np, ready, k,
                           lowestPV, chosenProc, panicked>>
            /\ pc' = [pc EXCEPT ![p] = "user"] \/ pc' = [pc EXCEPT ![p] = "wait"]
        BY <1>12 DEF Wait
      <4>2. /\ nopid' \in SUBSET Slots /\ killed' \in SUBSET Slots
            /\ parent' \in [Slots -> Slots \cup {NoProc}]
        BY <2>0 DEF Types
      <4>3. state' \in [Slots -> States]
        BY <2>3 DEF Types, States
      <4> QED
        BY <2>1, <2>3, <4>1, <4>2, <4>3 DEF Types
    <3>3. /\ UNCHANGED <<np, k, lowestPV, chosenProc, passvalue, ticks, init_stride>>
          /\ pc' = [pc EXCEPT ![p] = "user"]
      BY <1>12, <2>1, <2>3 DEF Wait, Types
    <3>4. Table' /\ Candidate'
      BY <2>1, <2>3, <3>1, <3>3 DEF Types, Table, Candidate
    <3>5. Accounts'
      BY <2>3, <3>1, <3>3, AccountsKept DEF MarkOK, Types, Accounts
    <3> QED
      BY <3>1, <3>2, <3>4, <3>5
  <2>4. CASE /\ state' = [state EXCEPT ![p] = "SLEEPING"]
             /\ proc' = NoProc /\ Forget(p) /\ Goto(p, "wait")
             /\ UNCHANGED <<parent, nopid, killed>>
    <3>1. /\ MarkOK' /\ steady' = steady \ {p}
          /\ \A q \in steady' : mark'[q] = mark[q]
      BY <2>4, MarkForget
    <3>2. UNCHANGED <<tickets, np, k, lowestPV, chosenProc, passvalue, ticks,
                      init_stride, ready, panicked>>
      BY <1>12 DEF Wait
    <3>3. Types'
      BY <2>4, <3>2 DEF Types, States
    <3>4. Table' /\ Candidate'
      BY <2>1, <2>4, <3>1, <3>2 DEF Types, Table, Candidate
    <3>5. Accounts'
      BY <2>4, <3>1, <3>2, AccountsKept DEF MarkOK, Types, Accounts
    <3> QED
      BY <3>1, <3>3, <3>4, <3>5
  <2> QED
    BY <1>12, <2>2, <2>3, <2>4 DEF Wait
<1>13. ASSUME NEW p \in Slots, Sleep(p)
      PROVE  IndInv'
  <2>1. /\ MarkOK' /\ steady' = steady \ {p}
        /\ \A q \in steady' : mark'[q] = mark[q]
    BY <1>13, MarkForget DEF Sleep
  <2>2. Types'
    BY <1>13 DEF Sleep, Types, States, Table
  <2>3. Table'
    BY <1>13 DEF Sleep, Types, Table
  <2>4. Candidate'
    BY <1>13, <2>1 DEF Sleep, Types, Table, Candidate, MarkOK
  <2>5. Accounts'
    BY <1>13, <2>1, AccountsKept DEF Sleep, Types, MarkOK, Table, Accounts
  <2> QED
    BY <2>1, <2>2, <2>3, <2>4, <2>5
<1>14. ASSUME NEW p \in Slots, SleepReturns(p)
      PROVE  IndInv'
  <2>1. MarkOK' /\ steady' = steady /\ mark' = mark
    BY <1>14, MarkSame DEF SleepReturns
  <2>2. Types'
    BY <1>14 DEF SleepReturns, Types, States, Table
  <2>3. Table'
    BY <1>14 DEF SleepReturns, Types, Table
  <2>4. Candidate'
    BY <1>14, <2>1 DEF SleepReturns, Types, Table, Candidate, MarkOK
  <2>5. Accounts'
    BY <1>14, <2>1, AccountsKept DEF SleepReturns, Types, MarkOK, Table, Accounts
  <2> QED
    BY <2>1, <2>2, <2>3, <2>4, <2>5
<1>15. ASSUME NEW p \in Slots, NEW q \in Slots, Kill(p, q)
      PROVE  IndInv'
  <2>1. MarkOK' /\ steady' = steady /\ mark' = mark
    BY <1>15, MarkSame DEF Kill
  <2>2. Types'
    BY <1>15 DEF Kill, Types, States, Table
  <2>3. Table'
    BY <1>15 DEF Kill, Types, Table
  <2>4. Candidate'
    BY <1>15, <2>1 DEF Kill, Types, Table, Candidate, MarkOK
  <2>5. Accounts'
    BY <1>15, <2>1, AccountsKept DEF Kill, Types, MarkOK, Table, Accounts
  <2> QED
    BY <2>1, <2>2, <2>3, <2>4, <2>5
<1>16. CASE UNCHANGED vars
  <2>1. MarkOK' /\ steady' = steady
    BY <1>16, MarkSame DEF vars
  <2> QED
    BY <1>16, <2>1 DEF vars, Types, Table, Candidate, Accounts, Turns
<1> QED
  BY <1>1, <1>2, <1>3, <1>4, <1>5, <1>6, <1>7, <1>8, <1>9, <1>10, <1>11, <1>12, <1>13, <1>14, <1>15, <1>16 DEF Next

(* Every variable keeps its type; no addition leaves the range of an int. *)
THEOREM TypeCorrect == Spec => []TypeOK
<1>1. IndInv => TypeOK
  BY DEF IndInv, Types, MarkOK, TypeOK
<1> QED
  BY IndInvInit, IndInvNext, <1>1, PTL DEF Spec

(* CPU time in proportion to the tickets, until a passvalue overflows. *)
THEOREM Fairness == Spec => []FairShare
<1>1. IndInv => FairShare
  <2> SUFFICES ASSUME IndInv, NEW p \in steady, NEW q \in steady, Turns(p) > 0
               PROVE  mark[p].passvalue + (Turns(p) - 1) * init_stride[p]
                        <= mark[q].passvalue + Turns(q) * init_stride[q]
    BY DEF FairShare
  <2>1. p \in Slots /\ q \in Slots
    BY DEF IndInv, MarkOK
  <2>2. /\ mark[p].passvalue \in Int /\ mark[q].passvalue \in Int
        /\ mark[p].ticks \in Int /\ mark[q].ticks \in Int
    BY StrideAssumption DEF IndInv, MarkOK
  <2>3. /\ Turns(p) \in Int /\ Turns(q) \in Int
        /\ init_stride[p] \in Int /\ init_stride[q] \in Int
    BY <2>1, <2>2, StrideAssumption DEF IndInv, Types, Turns
  <2>4. (mark[p].passvalue + Turns(p) * init_stride[p]) - init_stride[p]
          <= mark[q].passvalue + Turns(q) * init_stride[q]
    BY DEF IndInv, Accounts
  <2> QED
    BY <2>2, <2>3, <2>4, Share
<1> QED
  BY IndInvInit, IndInvNext, <1>1, PTL DEF Spec
-----------------------------------------------------------------------------
(***************************************************************************)
(* The family relations of the process table: for any number of slots      *)
(* every process can be reaped, and no parent sleeps in wait() on a child  *)
(* that has exited.                                                        *)
(***************************************************************************)

(* Slots that hold no process yet, or no longer. *)
Vacant == {"UNUSED", "EMBRYO"}

(* init lives for ever and has no parent; nobody is his own parent, and a  *)
(* vacant slot has none.                                                   *)
Tree ==
  /\ state[initproc] \in Living /\ parent[initproc] = NoProc
  /\ \A p \in Slots : parent[p] # p
  /\ \A p \in Slots : state[p] \in Vacant => parent[p] = NoProc

Family == Tree /\ SomebodyReaps /\ NoSleepOnZombie

(* The part of the invariant above that is needed here. *)
Known == IndInv /\ Family

-----------------------------------------------------------------------------
LEMMA StateSplit ==
  ASSUME Types, NEW p \in Slots
  PROVE  /\ state[p] \in Living \cup Vacant \cup {"ZOMBIE"}
         /\ parent[p] \in Slots \cup {NoProc}
         /\ state[p] \in Living => state[p] \notin Vacant
         /\ state[p] \in Living => state[p] # "ZOMBIE"
         /\ state[p] \in Vacant => state[p] # "ZOMBIE"
BY DEF Types, States, Living, Vacant

(* Nobody's parent is a zombie or a vacant slot. *)
LEMMA ParentLives ==
  ASSUME Types, Family, NEW p \in Slots, parent[p] \in Slots
  PROVE  state[parent[p]] \in Living
<1>1. p # initproc /\ state[p] \notin Vacant
  BY SlotFacts DEF Family, Tree
<1> QED
  BY <1>1, StateSplit DEF Family, SomebodyReaps

(* A step in which nobody is born, exits, is reaped or begins to wait. *)
LEMMA FamilyKept ==
  ASSUME Types, Family, parent' = parent,
         \A q \in Slots :
           /\ state[q] \in Living => state'[q] \in Living
           /\ state[q] \in Vacant <=> state'[q] \in Vacant
           /\ state'[q] = "ZOMBIE" => state[q] = "ZOMBIE"
           /\ state'[q] = "SLEEPING" /\ pc'[q] = "wait"
                => state[q] = "SLEEPING" /\ pc[q] = "wait"
  PROVE  Family'
<1>1. Tree'
  BY SlotFacts DEF Family, Tree
<1>2. SomebodyReaps'
  <2> SUFFICES ASSUME NEW z \in Slots \ {initproc},
                      state'[z] \in Living \cup {"ZOMBIE"}
               PROVE  parent[z] \in Slots /\ state'[parent[z]] \in Living
    BY DEF SomebodyReaps
  <2>1. state'[z] \notin Vacant
    BY DEF Living, Vacant
  <2>2. state[z] \in Living \cup {"ZOMBIE"}
    BY <2>1, StateSplit
  <2> QED
    BY <2>2 DEF Family, SomebodyReaps
<1>3. NoSleepOnZombie'
  BY DEF Family, NoSleepOnZombie
<1> QED
  BY <1>1, <1>2, <1>3 DEF Family

LEMMA FamilyInit == Init => Family
BY SlotFacts DEF Init, Family, Tree, SomebodyReaps, NoSleepOnZombie, Living,
   Vacant, Slots, initproc, NoProc

-----------------------------------------------------------------------------
(* The four steps that change the tree or begin to wait. *)

LEMMA FamilyForkDone ==
  ASSUME Known, NEW p \in Slots, ForkDone(p)
  PROVE  Family'
<1> DEFINE c == np[p]
<1>1. /\ c \in Slots /\ c # p /\ c # initproc
      /\ state[c] = "EMBRYO" /\ state[p] = "RUNNING"
  BY SlotFacts DEF Known, IndInv, Types, Table, Family, Tree, ForkDone, At, Living
<1>2. /\ state' = [state EXCEPT ![c] = "RUNNABLE"]
      /\ parent' = [parent EXCEPT ![c] = p]
      /\ pc' = [pc EXCEPT ![p] = "user", ![c] = "user"]
  BY DEF ForkDone, Goto
<1>3. /\ state'[c] = "RUNNABLE" /\ parent'[c] = p /\ state'[p] = "RUNNING"
      /\ pc'[p] = "user"
      /\ \A q \in Slots \ {c} : state'[q] = state[q] /\ parent'[q] = parent[q]
      /\ \A q \in Slots \ {c, p} : pc'[q] = pc[q]
  BY <1>1, <1>2 DEF Known, IndInv, Types
<1>4. \A q \in Slots : parent[q] # c
  BY <1>1, ParentLives DEF Known, IndInv, Living
<1>5. Tree'
  BY <1>1, <1>3, SlotFacts DEF Known, Family, Tree, Living, Vacant
<1>6. SomebodyReaps'
  BY <1>1, <1>3, <1>4 DEF Known, Family, SomebodyReaps, Living
<1>7. NoSleepOnZombie'
  BY <1>1, <1>3 DEF Known, Family, NoSleepOnZombie
<1> QED
  BY <1>5, <1>6, <1>7 DEF Family

LEMMA FamilyExit ==
  ASSUME Known, NEW p \in Slots, p # initproc, Exit(p)
  PROVE  Family'
<1>1. /\ \A q \in Slots :
           /\ state'[q] = IF q = p THEN "ZOMBIE"
                          ELSE IF q \in Woken(p) THEN "RUNNABLE"
                          ELSE state[q]
           /\ parent'[q] = IF parent[q] = p THEN initproc ELSE parent[q]
      /\ pc' = [pc EXCEPT ![p] = "zombie"] /\ state[p] = "RUNNING"
  BY DEF Exit, Adopt, Goto, At, Known, IndInv, Table
<1>2. \A q \in Slots \ {p} :
        /\ state[q] \in Living => state'[q] \in Living
        /\ state[q] \in Vacant <=> state'[q] \in Vacant
        /\ state'[q] = "ZOMBIE" <=> state[q] = "ZOMBIE"
        /\ state'[q] = "SLEEPING" =>
             state[q] = "SLEEPING" /\ q \notin Woken(p)
        /\ pc'[q] = pc[q]
  BY <1>1 DEF Woken, Living, Vacant, Known, IndInv, Types
<1>3. Tree'
  BY <1>1, <1>2, SlotFacts DEF Known, Family, Tree, Vacant
<1>4. SomebodyReaps'
  <2> SUFFICES ASSUME NEW z \in Slots \ {initproc},
                      state'[z] \in Living \cup {"ZOMBIE"}
               PROVE  parent'[z] \in Slots /\ state'[parent'[z]] \in Living
    BY DEF SomebodyReaps
  <2>1. state'[initproc] \in Living
    BY <1>3 DEF Tree
  <2>2. CASE parent[z] = p
    BY <1>1, <2>1, <2>2, SlotFacts
  <2>3. CASE parent[z] # p
    <3>1. state[z] \in Living \cup {"ZOMBIE"}
      BY <1>1, <1>2, StateSplit DEF Known, IndInv, Living, Vacant
    <3>2. parent[z] \in Slots /\ state[parent[z]] \in Living
      BY <3>1 DEF Known, Family, SomebodyReaps
    <3> QED
      BY <1>1, <1>2, <2>3, <3>2
  <2> QED
    BY <2>2, <2>3
<1>5. NoSleepOnZombie'
  <2> SUFFICES ASSUME NEW q \in Slots, NEW z \in Slots,
                      state'[q] = "SLEEPING", pc'[q] = "wait",
                      parent'[z] = q, state'[z] = "ZOMBIE"
               PROVE  FALSE
    BY DEF NoSleepOnZombie
  <2>1. q # p /\ state[q] = "SLEEPING" /\ pc[q] = "wait" /\ q \notin Woken(p)
    BY <1>1, <1>2
  <2>2. CASE z = p
    <3>1. parent[z] # p
      BY <2>2 DEF Known, Family, Tree
    <3> QED
      BY <1>1, <2>1, <2>2, <3>1 DEF Woken
  <2>3. CASE z # p /\ parent[z] = p
    BY <1>1, <1>2, <2>1, <2>3 DEF Woken
  <2>4. CASE z # p /\ parent[z] # p
    BY <1>1, <1>2, <2>1, <2>4 DEF Known, Family, NoSleepOnZombie
  <2> QED
    BY <2>2, <2>3, <2>4
<1> QED
  BY <1>3, <1>4, <1>5 DEF Family

(* wait() frees the slot of a zombie. *)
LEMMA FamilyReap ==
  ASSUME Known, NEW z \in Slots, state[z] = "ZOMBIE",
         state' = [state EXCEPT ![z] = "UNUSED"],
         parent' = [parent EXCEPT ![z] = NoProc],
         NEW p \in Slots, state[p] = "RUNNING",
         pc' = [pc EXCEPT ![p] = "user"]
  PROVE  Family'
<1>1. /\ state'[z] = "UNUSED" /\ parent'[z] = NoProc /\ z # initproc
      /\ \A q \in Slots \ {z} : state'[q] = state[q] /\ parent'[q] = parent[q]
      /\ \A q \in Slots : state[q] = "SLEEPING" => pc'[q] = pc[q]
  BY DEF Known, IndInv, Types, Family, Tree, Living
<1>2. \A q \in Slots : parent[q] # z
  BY ParentLives DEF Known, IndInv, Living
<1>3. Tree'
  BY <1>1, SlotFacts DEF Known, Family, Tree
<1>4. SomebodyReaps'
  BY <1>1, <1>2 DEF Known, Family, SomebodyReaps, Living
<1>5. NoSleepOnZombie'
  BY <1>1, SlotFacts DEF Known, Family, NoSleepOnZombie
<1> QED
  BY <1>3, <1>4, <1>5 DEF Family

(* wait() sleeps when no child is a zombie. *)
LEMMA FamilyWait ==
  ASSUME Known, NEW p \in Slots, state[p] = "RUNNING",
         \A z \in Slots : parent[z] = p => state[z] # "ZOMBIE",
         state' = [state EXCEPT ![p] = "SLEEPING"],
         pc' = [pc EXCEPT ![p] = "wait"], parent' = parent
  PROVE  Family'
<1>1. /\ state'[p] = "SLEEPING"
      /\ \A q \in Slots \ {p} : state'[q] = state[q] /\ pc'[q] = pc[q]
  BY DEF Known, IndInv, Types
<1>2. Tree'
  BY <1>1, SlotFacts DEF Known, Family, Tree, Living, Vacant
<1>3. SomebodyReaps'
  BY <1>1 DEF Known, Family, SomebodyReaps, Living
<1>4. NoSleepOnZombie'
  BY <1>1 DEF Known, Family, NoSleepOnZombie
<1> QED
  BY <1>2, <1>3, <1>4 DEF Family

-----------------------------------------------------------------------------
LEMMA FamilyNext == Known /\ [Next]_vars => Family'
<1> SUFFICES ASSUME Known, [Next]_vars PROVE Family'
  OBVIOUS
<1> USE DEF table, strides, scan
<1>0. Types /\ Table /\ Family
  BY DEF Known, IndInv
<1>1. CASE Scan \/ Observe \/ UNCHANGED vars
  BY <1>0, <1>1, FamilyKept DEF Scan, Observe, vars
<1>2. CASE Choose
  <2>1. /\ chosenProc \in Slots
        /\ state[chosenProc] \in {"RUNNABLE", "SLEEPING", "ZOMBIE"}
    BY <1>0, <1>2 DEF Choose, Table, Types
  <2>2. /\ state' = [state EXCEPT ![chosenProc] = "RUNNING"]
        /\ UNCHANGED <<parent, pc>>
    BY <1>2 DEF Choose
  <2> QED
    BY <1>0, <2>1, <2>2, FamilyKept DEF Types, Living, Vacant
<1>3. ASSUME NEW S \in SUBSET Slots, Wakeup(S)
      PROVE  Family'
  BY <1>0, <1>3, FamilyKept DEF Wakeup, Living, Vacant
<1>4. ASSUME NEW p \in Slots, Yield(p)
      PROVE  Family'
  <2>1. state[p] = "RUNNING"
    BY <1>0, <1>4 DEF Yield, Call, At, Table
  <2> QED
    BY <1>0, <1>4, <2>1, FamilyKept DEF Yield, Types, Living, Vacant
<1>5. ASSUME NEW p \in Slots, AllocProc(p)
      PROVE  Family'
  <2>1. PICK c \in Slots : /\ state[c] = "UNUSED"
                           /\ state' = [state EXCEPT ![c] = "EMBRYO"]
    BY <1>5 DEF AllocProc
  <2>2. parent' = parent /\ pc' = [pc EXCEPT ![p] = "fork"]
    BY <1>5 DEF AllocProc, Goto
  <2> QED
    BY <1>0, <2>1, <2>2, FamilyKept DEF Types, Living, Vacant
<1>6. ASSUME NEW p \in Slots, ForkFailed(p)
      PROVE  Family'
  <2>1. np[p] \in Slots /\ state[np[p]] = "EMBRYO"
    BY <1>0, <1>6 DEF ForkFailed, At, Table, Types
  <2> QED
    BY <1>0, <1>6, <2>1, FamilyKept DEF ForkFailed, Goto, Types, Living, Vacant
<1>7. ASSUME NEW p \in Slots, ForkDone(p)
      PROVE  Family'
  BY <1>7, FamilyForkDone
<1>8. ASSUME NEW p \in Slots, NEW n \in TicketArgs, SetTickets(p, n)
      PROVE  Family'
  BY <1>0, <1>8, FamilyKept DEF SetTickets
<1>9. ASSUME NEW p \in Slots, Exit(p)
      PROVE  Family'
  <2>1. CASE p = initproc
    BY <1>0, <1>9, <2>1, FamilyKept DEF Exit
  <2> QED
    BY <1>9, <2>1, FamilyExit
<1>10. ASSUME NEW p \in Slots, ZombieExit(p)
       PROVE  Family'
  BY <1>0, <1>10, FamilyKept DEF ZombieExit
<1>11. ASSUME NEW p \in Slots, Wait(p)
       PROVE  Family'
  <2>1. state[p] = "RUNNING"
    BY <1>0, <1>11 DEF Wait, Call, At, Table
  <2>2. CASE /\ pc' = [pc EXCEPT ![p] = "user"] /\ UNCHANGED <<state, parent>>
    BY <1>0, <2>2, FamilyKept DEF Types
  <2>3. CASE \E z \in Slots : /\ state[z] = "ZOMBIE"
                              /\ state' = [state EXCEPT ![z] = "UNUSED"]
                              /\ parent' = [parent EXCEPT ![z] = NoProc]
                              /\ pc' = [pc EXCEPT ![p] = "user"]
    BY <2>1, <2>3, FamilyReap
  <2>4. CASE /\ \A z \in Slots : parent[z] = p => state[z] # "ZOMBIE"
             /\ state' = [state EXCEPT ![p] = "SLEEPING"]
             /\ pc' = [pc EXCEPT ![p] = "wait"] /\ parent' = parent
    BY <2>1, <2>4, FamilyWait
  <2> QED
    BY <1>11, <2>2, <2>3, <2>4 DEF Wait, Goto
<1>12. ASSUME NEW p \in Slots, Sleep(p)
       PROVE  Family'
  <2>1. state[p] = "RUNNING"
    BY <1>0, <1>12 DEF Sleep, Call, At, Table
  <2> QED
    BY <1>0, <1>12, <2>1, FamilyKept DEF Sleep, Goto, Types, Living, Vacant
<1>13. ASSUME NEW p \in Slots, SleepReturns(p)
       PROVE  Family'
  BY <1>0, <1>13, FamilyKept DEF SleepReturns, Goto, Types
<1>14. ASSUME NEW p \in Slots, NEW q \in Slots, Kill(p, q)
       PROVE  Family'
  BY <1>0, <1>14, FamilyKept DEF Kill, Types, Living, Vacant
<1> QED
  BY <1>1, <1>2, <1>3, <1>4, <1>5, <1>6, <1>7, <1>8, <1>9, <1>10, <1>11,
     <1>12, <1>13, <1>14 DEF Next

LEMMA KnownAlways == Spec => []Known
<1>1. Init => Known
  BY IndInvInit, FamilyInit DEF Known
<1>2. Known /\ [Next]_vars => Known'
  BY IndInvNext, FamilyNext DEF Known
<1> QED
  BY <1>1, <1>2, PTL DEF Spec

(* Every process but init has a living parent who can reap it, whoever     *)
(* exits or is killed, and whenever.                                       *)
THEOREM Reaped == Spec => []SomebodyReaps
<1>1. Known => SomebodyReaps
  BY DEF Known, Family
<1> QED
  BY KnownAlways, <1>1, PTL

(* No wakeup of wait() is lost: no parent sleeps on a child that has       *)
(* exited.                                                                 *)
THEOREM NoLostWakeup == Spec => []NoSleepOnZombie
<1>1. Known => NoSleepOnZombie
  BY DEF Known, Family
<1> QED
  BY KnownAlways, <1>1, PTL
=============================================================================
