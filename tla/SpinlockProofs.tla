---------------------------- MODULE SpinlockProofs ----------------------------
(***************************************************************************)
(* Theorems about Spinlock: for any number of CPUs and locks no lock has   *)
(* two owners, no assertion of spinlock.c fails, and interrupts are off    *)
(* exactly while a CPU has a lock or is on its way to or from one.         *)
(***************************************************************************)
EXTENDS Spinlock, FiniteSetTheorems, TLAPS

(* A lock is taken if and only if some CPU has it, and only one has. *)
Held ==
  /\ \A c, d \in Cpus : c # d => Mine(c) \cap Mine(d) = {}
  /\ \A l \in Locks : locked[l] = (\E c \in Cpus : l \in Mine(c))

(* What want is at each place; only the level that runs has locks. *)
Places ==
  \A c \in Cpus :
    /\ spc[c] \in {"spin", "acquired", "unlock"} => want[c] \in Locks
    /\ spc[c] \in {"acquired", "unlock"} => want[c] \in Mine(c)
    /\ \A x \in Levels : x # level[c] => has[c][x] = {}

(* lk->cpu is set a step after the lock is taken, and reset one before it  *)
(* is let go.                                                              *)
Changing(c, l) == spc[c] \in {"acquired", "unlock"} /\ want[c] = l
Owned ==
  \A c \in Cpus, l \in Locks : (owner[l] = c) = (l \in Mine(c) /\ ~Changing(c, l))

(* ncli counts the locks of a CPU, and the one it has no more or not yet;  *)
(* intena says whether interrupts were on before the first.                *)
Pending(c) == IF spc[c] \in {"spin", "popcli"} THEN 1 ELSE 0
NestedOn(c) ==
  /\ IsFiniteSet(Mine(c)) /\ ncli[c] = Cardinality(Mine(c)) + Pending(c)
  /\ fl[c] => spc[c] = "run" /\ Mine(c) = {} /\ level[c] = "process"
  /\ spc[c] = "run" /\ Mine(c) = {} => fl[c] = (level[c] = "process")
  /\ ncli[c] > 0 => intena[c] = (level[c] = "process")
Nested == \A c \in Cpus : NestedOn(c)

LockInv == SpinTypeOK /\ Held /\ Places /\ Owned /\ Nested /\ panics = {}
-----------------------------------------------------------------------------
(* A CPU's locks are those of the level that runs. *)
LEMMA MineIs ==
  ASSUME SpinTypeOK, Places, NEW c \in Cpus
  PROVE  /\ Mine(c) = has[c][level[c]] /\ Mine(c) \subseteq Locks
         /\ level[c] = "process" => has[c]["handler"] = {}
         /\ level[c] = "handler" => has[c]["process"] = {}
  BY DEF SpinTypeOK, Places, Mine, Levels

(* Steps that change neither the locks nor who has them. *)
LEMMA HeldKept ==
  ASSUME Held, UNCHANGED <<locked, has>>
  PROVE  Held'
  BY DEF Held, Mine

(* A step of c does not change what Nested says of another CPU. *)
LEMMA NestedKept ==
  ASSUME NEW c \in Cpus, NEW d \in Cpus, d # c, SpinTypeOK, NestedOn(d),
         spc' = [spc EXCEPT ![c] = spc'[c]], ncli' = [ncli EXCEPT ![c] = ncli'[c]],
         fl' = [fl EXCEPT ![c] = fl'[c]], level' = [level EXCEPT ![c] = level'[c]],
         intena' = [intena EXCEPT ![c] = intena'[c]], Mine(d)' = Mine(d)
  PROVE  NestedOn(d)'
  BY DEF SpinTypeOK, NestedOn, Pending

(* ncli counts the locks exactly where nothing is pending. *)
LEMMA NoLockNoCli ==
  ASSUME SpinTypeOK, NEW c \in Cpus, NestedOn(c), spc[c] \notin {"spin", "popcli"}
  PROVE  (ncli[c] = 0) = (Mine(c) = {})
  BY FS_CardinalityType, FS_EmptySet DEF NestedOn, Pending

(* The actions, one by one. *)
LEMMA PushcliKeeps ==
  ASSUME LockInv, NEW c \in Cpus, NEW l \in Locks, Pushcli(c, l)
  PROVE  LockInv'
<1> USE DEF LockInv, lockvars, cpuvars
<1>1. SpinTypeOK'
  BY DEF SpinTypeOK, Pushcli, Running, Cli, Go, Check
<1>2. \A d \in Cpus : Mine(d)' = Mine(d)
  BY DEF Mine, Pushcli
<1>3. l \notin Mine(c)
  BY MineIs, LockAssumption DEF Pushcli
<1>4. ~holding(c, l)
  BY <1>3 DEF Owned, holding
<1>5. panics' = {}
  BY <1>4 DEF Pushcli, Check
<1>6. Held'
  BY HeldKept DEF Pushcli
<1>7. Places'
  BY <1>2 DEF SpinTypeOK, Places, Pushcli, Running, Go
<1>8. Owned'
  BY <1>2 DEF SpinTypeOK, Owned, Changing, Pushcli, Running, Go
<1>9. Nested'
  <2> SUFFICES ASSUME NEW d \in Cpus
               PROVE  NestedOn(d)'
    BY DEF Nested
  <2>1. CASE d # c
    BY <1>2, <2>1, NestedKept DEF SpinTypeOK, Nested, Pushcli, Go, Cli
  <2>2. CASE d = c
    <3>1. /\ spc[c] = "run" /\ spc'[c] = "spin" /\ ~fl'[c] /\ level' = level
          /\ ncli'[c] = ncli[c] + 1 /\ Mine(c)' = Mine(c)
          /\ intena' = IF ncli[c] = 0 THEN [intena EXCEPT ![c] = fl[c]] ELSE intena
      BY <1>2 DEF SpinTypeOK, Pushcli, Running, Go, Cli
    <3>2. NestedOn(c) /\ (ncli[c] = 0) = (Mine(c) = {})
      BY <3>1, NoLockNoCli DEF Nested
    <3>3. intena'[c] = (level[c] = "process")
      BY <3>1, <3>2 DEF SpinTypeOK, NestedOn
    <3> QED BY <2>2, <3>1, <3>2, <3>3, FS_CardinalityType DEF NestedOn, Pending
  <2> QED BY <2>1, <2>2
<1> QED BY <1>1, <1>5, <1>6, <1>7, <1>8, <1>9

LEMMA XchgKeeps ==
  ASSUME LockInv, NEW c \in Cpus, Xchg(c)
  PROVE  LockInv'
<1> USE DEF LockInv, cpuvars
<1> DEFINE l == want[c]
<1>1. l \in Locks /\ ~locked[l] /\ \A d \in Cpus : l \notin Mine(d)
  BY DEF Xchg, Running, Free, Places, Held
<1>2. SpinTypeOK'
  BY <1>1 DEF SpinTypeOK, Xchg, Running, Go
<1>3. Mine(c)' = Mine(c) \cup {l} /\ \A d \in Cpus : d # c => Mine(d)' = Mine(d)
  BY DEF SpinTypeOK, Mine, Xchg, Levels
<1>4. Held'
  <2>1. \A d, e \in Cpus : d # e => Mine(d)' \cap Mine(e)' = {}
    BY <1>1, <1>3 DEF Held
  <2>2. \A m \in Locks : locked'[m] = (m = l \/ locked[m])
    BY <1>1 DEF SpinTypeOK, Xchg
  <2>3. ASSUME NEW m \in Locks
        PROVE  (\E d \in Cpus : m \in Mine(d)') = (m = l \/ \E d \in Cpus : m \in Mine(d))
    BY <1>3
  <2> QED BY <2>1, <2>2, <2>3 DEF Held
<1>5. Places'
  BY <1>1, <1>3 DEF SpinTypeOK, Places, Xchg, Running, Go, Levels
<1>6. Owned'
  <2> SUFFICES ASSUME NEW d \in Cpus, NEW m \in Locks
               PROVE  (owner'[m] = d) = (m \in Mine(d)' /\ ~Changing(d, m)')
    BY DEF Owned
  <2>1. owner'[m] = owner[m] /\ (owner[m] = d) = (m \in Mine(d) /\ ~Changing(d, m))
    BY DEF Owned, Xchg
  <2>2. CASE d # c
    BY <1>3, <2>1, <2>2 DEF SpinTypeOK, Changing, Xchg, Go
  <2>3. CASE d = c
    BY <1>1, <1>3, <2>1, <2>3 DEF SpinTypeOK, Changing, Xchg, Running, Go
  <2> QED BY <2>2, <2>3
<1>7. Nested'
  <2> SUFFICES ASSUME NEW d \in Cpus
               PROVE  NestedOn(d)'
    BY DEF Nested
  <2>1. CASE d # c
    BY <1>3, <2>1, NestedKept DEF SpinTypeOK, Nested, Xchg, Go
  <2>2. CASE d = c
    <3>1. /\ IsFiniteSet(Mine(c)')
          /\ Cardinality(Mine(c)') = Cardinality(Mine(c)) + 1
      <4>1. IsFiniteSet(Mine(c)) /\ l \notin Mine(c)
        BY <1>1 DEF Nested, NestedOn
      <4>2. /\ IsFiniteSet(Mine(c) \cup {l})
            /\ Cardinality(Mine(c) \cup {l}) = Cardinality(Mine(c)) + 1
        BY <4>1, FS_AddElement
      <4> QED BY <1>3, <4>2
    <3>2. spc[c] = "spin" /\ spc'[c] = "acquired" /\ UNCHANGED <<ncli, fl, intena, level>>
      BY DEF SpinTypeOK, Xchg, Running, Go
    <3> QED BY <2>2, <3>1, <3>2, FS_CardinalityType DEF Nested, NestedOn, Pending
  <2> QED BY <2>1, <2>2
<1> QED BY <1>2, <1>4, <1>5, <1>6, <1>7 DEF Xchg

LEMMA AcquiredKeeps ==
  ASSUME LockInv, NEW c \in Cpus, Acquired(c)
  PROVE  LockInv'
<1> USE DEF LockInv, cpuvars
<1> DEFINE l == want[c]
<1>1. l \in Mine(c) /\ l \in Locks /\ spc[c] = "acquired" /\ spc'[c] = "run"
  BY DEF SpinTypeOK, Acquired, Running, Places, Go
<1>2. SpinTypeOK'
  BY <1>1 DEF SpinTypeOK, Acquired, Go
<1>3. \A d \in Cpus : Mine(d)' = Mine(d)
  BY DEF Mine, Acquired
<1>4. Held'
  BY HeldKept DEF Acquired
<1>5. Places'
  BY <1>1, <1>3 DEF SpinTypeOK, Places, Acquired, Go
<1>6. Owned'
  <2> SUFFICES ASSUME NEW d \in Cpus, NEW m \in Locks
               PROVE  (owner'[m] = d) = (m \in Mine(d)' /\ ~Changing(d, m)')
    BY DEF Owned
  <2>1. (owner[m] = d) = (m \in Mine(d) /\ ~Changing(d, m)) /\ (l \in Mine(d) => d = c)
    BY <1>1 DEF Owned, Held
  <2>2. CASE d # c
    BY <1>1, <1>3, <2>1, <2>2 DEF SpinTypeOK, Changing, Acquired, Go
  <2>3. CASE d = c
    BY <1>1, <1>3, <2>1, <2>3 DEF SpinTypeOK, Changing, Acquired, Go
  <2> QED BY <2>2, <2>3
<1>7. Nested'
  <2> SUFFICES ASSUME NEW d \in Cpus
               PROVE  NestedOn(d)'
    BY DEF Nested
  <2>1. CASE d # c
    BY <1>3, <2>1, NestedKept DEF SpinTypeOK, Nested, Acquired, Go
  <2>2. CASE d = c
    BY <1>1, <1>3, <2>2 DEF Nested, NestedOn, Pending, Acquired
  <2> QED BY <2>1, <2>2
<1> QED BY <1>2, <1>4, <1>5, <1>6, <1>7 DEF Acquired

LEMMA ReleaseKeeps ==
  ASSUME LockInv, NEW c \in Cpus, NEW l \in Locks, Release(c, l)
  PROVE  LockInv'
<1> USE DEF LockInv, cpuvars
<1>1. l \in Mine(c) /\ spc[c] = "run" /\ spc'[c] = "unlock" /\ want'[c] = l
  BY MineIs DEF SpinTypeOK, Release, Running, Go
<1>2. SpinTypeOK'
  BY <1>1 DEF SpinTypeOK, Release, Go, Check
<1>3. \A d \in Cpus : Mine(d)' = Mine(d)
  BY DEF Mine, Release
<1>4. holding(c, l) /\ panics' = {}
  BY <1>1 DEF Owned, Held, Changing, holding, Release, Check
<1>5. Held'
  BY HeldKept DEF Release
<1>6. Places'
  BY <1>1, <1>3 DEF SpinTypeOK, Places, Release, Go
<1>7. Owned'
  <2> SUFFICES ASSUME NEW d \in Cpus, NEW m \in Locks
               PROVE  (owner'[m] = d) = (m \in Mine(d)' /\ ~Changing(d, m)')
    BY DEF Owned
  <2>1. (owner[m] = d) = (m \in Mine(d) /\ ~Changing(d, m)) /\ (l \in Mine(d) => d = c)
    BY <1>1 DEF Owned, Held
  <2>2. owner'[m] = (IF m = l THEN NoCpu ELSE owner[m]) /\ d # NoCpu
    BY LockAssumption DEF SpinTypeOK, Release
  <2>3. CASE d # c
    BY <1>1, <1>3, <2>1, <2>2, <2>3 DEF SpinTypeOK, Changing, Release, Go
  <2>4. CASE d = c
    BY <1>1, <1>3, <2>1, <2>2, <2>4 DEF SpinTypeOK, Changing, Release, Go
  <2> QED BY <2>3, <2>4
<1>8. Nested'
  <2> SUFFICES ASSUME NEW d \in Cpus
               PROVE  NestedOn(d)'
    BY DEF Nested
  <2>1. CASE d # c
    BY <1>3, <2>1, NestedKept DEF SpinTypeOK, Nested, Release, Go
  <2>2. CASE d = c
    BY <1>1, <1>3, <2>2 DEF Nested, NestedOn, Pending, Release
  <2> QED BY <2>1, <2>2
<1> QED BY <1>2, <1>4, <1>5, <1>6, <1>7, <1>8

LEMMA UnlockKeeps ==
  ASSUME LockInv, NEW c \in Cpus, Unlock(c)
  PROVE  LockInv'
<1> USE DEF LockInv, cpuvars
<1> DEFINE l == want[c]
<1>1. /\ l \in Mine(c) /\ l \in Locks /\ spc[c] = "unlock" /\ spc'[c] = "popcli"
      /\ \A d \in Cpus : d # c => l \notin Mine(d)
  BY DEF SpinTypeOK, Unlock, Running, Places, Go, Held
<1>2. SpinTypeOK'
  BY <1>1 DEF SpinTypeOK, Unlock, Go
<1>3. Mine(c)' = Mine(c) \ {l} /\ \A d \in Cpus : d # c => Mine(d)' = Mine(d)
  <2>1. \A d \in Cpus : d # c => Mine(d)' = Mine(d)
    BY DEF SpinTypeOK, Mine, Unlock
  <2>2. /\ Mine(c) = has[c][level[c]] /\ has'[c][level[c]] = has[c][level[c]] \ {l}
        /\ \A x \in Levels : x # level[c] => has'[c][x] = {}
    BY MineIs DEF SpinTypeOK, Unlock, Places, Levels
  <2> QED BY <2>1, <2>2 DEF SpinTypeOK, Mine, Levels
<1>4. Held'
  <2>1. \A d, e \in Cpus : d # e => Mine(d)' \cap Mine(e)' = {}
    BY <1>3 DEF Held
  <2>2. \A m \in Locks : locked'[m] = (m # l /\ locked[m])
    BY <1>1 DEF SpinTypeOK, Unlock
  <2>3. ASSUME NEW m \in Locks
        PROVE  (\E d \in Cpus : m \in Mine(d)') = (m # l /\ \E d \in Cpus : m \in Mine(d))
    BY <1>1, <1>3
  <2> QED BY <2>1, <2>2, <2>3 DEF Held
<1>5. Places'
  BY <1>1, <1>3 DEF SpinTypeOK, Places, Unlock, Go, Levels
<1>6. Owned'
  <2> SUFFICES ASSUME NEW d \in Cpus, NEW m \in Locks
               PROVE  (owner'[m] = d) = (m \in Mine(d)' /\ ~Changing(d, m)')
    BY DEF Owned
  <2>1. owner'[m] = owner[m] /\ (owner[m] = d) = (m \in Mine(d) /\ ~Changing(d, m))
    BY DEF Owned, Unlock
  <2>2. CASE d # c
    BY <1>1, <1>3, <2>1, <2>2 DEF SpinTypeOK, Changing, Unlock, Go
  <2>3. CASE d = c
    BY <1>1, <1>3, <2>1, <2>3 DEF SpinTypeOK, Changing, Unlock, Go
  <2> QED BY <2>2, <2>3
<1>7. Nested'
  <2> SUFFICES ASSUME NEW d \in Cpus
               PROVE  NestedOn(d)'
    BY DEF Nested
  <2>1. CASE d # c
    BY <1>3, <2>1, NestedKept DEF SpinTypeOK, Nested, Unlock, Go
  <2>2. CASE d = c
    <3>1. IsFiniteSet(Mine(c)')
          /\ Cardinality(Mine(c)') = Cardinality(Mine(c)) - 1
      <4>1. IsFiniteSet(Mine(c)) /\ l \in Mine(c)
        BY <1>1 DEF Nested, NestedOn
      <4>2. /\ IsFiniteSet(Mine(c) \ {l})
            /\ Cardinality(Mine(c) \ {l}) = Cardinality(Mine(c)) - 1
        BY <4>1, FS_RemoveElement
      <4> QED BY <1>3, <4>2
    <3>2. Cardinality(Mine(c)) \in Nat
      BY FS_CardinalityType DEF Nested, NestedOn
    <3>3. ~fl[c] /\ UNCHANGED <<ncli, fl, intena, level>>
      BY <1>1 DEF Nested, NestedOn, Unlock
    <3> QED BY <1>1, <2>2, <3>1, <3>2, <3>3 DEF Nested, NestedOn, Pending
  <2> QED BY <2>1, <2>2
<1> QED BY <1>2, <1>4, <1>5, <1>6, <1>7 DEF Unlock

LEMMA PopcliKeeps ==
  ASSUME LockInv, NEW c \in Cpus, Popcli(c)
  PROVE  LockInv'
<1> USE DEF LockInv, lockvars, cpuvars
<1>1. /\ spc[c] = "popcli" /\ spc'[c] = "run" /\ ~fl[c]
      /\ UNCHANGED <<locked, owner, intena, want, level, has>>
  BY DEF SpinTypeOK, Popcli, Running, Go, Nested, NestedOn
<1>2. ncli[c] = Cardinality(Mine(c)) + 1 /\ Cardinality(Mine(c)) \in Nat
      /\ (Cardinality(Mine(c)) = 0) = (Mine(c) = {})
  BY <1>1, FS_CardinalityType, FS_EmptySet DEF Nested, NestedOn, Pending
<1>3. /\ panics' = {} /\ ncli'[c] = Cardinality(Mine(c))
      /\ ncli' = [ncli EXCEPT ![c] = ncli'[c]] /\ spc' = [spc EXCEPT ![c] = "run"]
  <2>1. ncli[c] > 0 /\ ncli[c] - 1 = Cardinality(Mine(c))
    BY <1>2
  <2>2. panics' = {}
    BY <1>1, <2>1 DEF Popcli, Check
  <2>3. ncli'[c] = ncli[c] - 1 /\ ncli' = [ncli EXCEPT ![c] = ncli'[c]]
    BY <2>1 DEF SpinTypeOK, Popcli
  <2> QED BY <2>1, <2>2, <2>3 DEF Popcli, Go
<1>4. fl' = [fl EXCEPT ![c] = fl'[c]] /\ fl'[c] = (ncli[c] = 1 /\ intena[c])
  BY <1>1 DEF SpinTypeOK, Popcli
<1>5. SpinTypeOK'
  BY <1>1, <1>2, <1>3 DEF SpinTypeOK, Popcli, Go
<1>6. \A d \in Cpus : Mine(d)' = Mine(d)
  BY <1>1 DEF Mine
<1>7. Held'
  BY <1>1, HeldKept
<1>8. Places'
  BY <1>1, <1>6 DEF SpinTypeOK, Places, Popcli, Go
<1>9. Owned'
  BY <1>1, <1>6 DEF SpinTypeOK, Owned, Changing, Popcli, Go
<1>10. Nested'
  <2> SUFFICES ASSUME NEW d \in Cpus
               PROVE  NestedOn(d)'
    BY DEF Nested
  <2>1. CASE d # c
    <3>1. /\ spc' = [spc EXCEPT ![c] = spc'[c]] /\ level' = [level EXCEPT ![c] = level'[c]]
          /\ intena' = [intena EXCEPT ![c] = intena'[c]]
      BY <1>1, <1>3 DEF SpinTypeOK
    <3> QED BY <1>3, <1>4, <1>6, <2>1, <3>1, NestedKept DEF Nested
  <2>2. CASE d = c
    <3>1. intena[c] = (level[c] = "process") /\ IsFiniteSet(Mine(c))
      BY <1>2 DEF Nested, NestedOn
    <3>2. fl'[c] \in BOOLEAN /\ (fl'[c] <=> Mine(c) = {} /\ intena[c])
      <4>1. ncli[c] = 1 <=> Mine(c) = {}
        BY <1>2
      <4>2. fl'[c] \in BOOLEAN
        BY <1>5 DEF SpinTypeOK
      <4>3. fl'[c] <=> ncli[c] = 1 /\ intena[c]
        BY <1>4, Zenon
      <4> QED BY <4>1, <4>2, <4>3
    <3>3. intena[c] <=> level[c] = "process"
      BY <3>1, Zenon
    <3>4. /\ fl'[c] => Mine(c) = {} /\ level[c] = "process"
          /\ Mine(c) = {} => fl'[c] = (level[c] = "process")
      BY <3>2, <3>3
    <3>5. ncli'[c] = Cardinality(Mine(c)') + Pending(c)'
      BY <1>1, <1>2, <1>3, <1>6 DEF Pending
    <3>6. spc'[c] = "run" /\ level' = level /\ intena' = intena /\ Mine(c)' = Mine(c)
      BY <1>1, <1>6
    <3> QED BY <2>2, <3>1, <3>4, <3>5, <3>6 DEF NestedOn
  <2> QED BY <2>1, <2>2
<1> QED BY <1>3, <1>5, <1>7, <1>8, <1>9, <1>10

LEMMA InterruptKeeps ==
  ASSUME LockInv, NEW c \in Cpus, Interrupt(c)
  PROVE  LockInv'
<1> USE DEF LockInv, lockvars
<1>1. /\ spc[c] = "run" /\ Mine(c) = {} /\ level[c] = "process" /\ ncli[c] = 0
      /\ level'[c] = "handler" /\ fl'[c] = FALSE
      /\ UNCHANGED <<locked, owner, ncli, intena, spc, want, has, panics>>
  BY NoLockNoCli DEF SpinTypeOK, Interrupt, Running, Nested, NestedOn
<1>2. SpinTypeOK'
  BY <1>1 DEF SpinTypeOK, Interrupt, Levels
<1>3. \A d \in Cpus : Mine(d)' = Mine(d)
  BY <1>1 DEF Mine
<1>4. Held'
  BY <1>1, HeldKept
<1>5. Places'
  BY <1>1, <1>3 DEF SpinTypeOK, Places, Mine, Levels, Interrupt
<1>6. Owned'
  BY <1>1, <1>3 DEF Owned, Changing
<1>7. Nested'
  <2> SUFFICES ASSUME NEW d \in Cpus
               PROVE  NestedOn(d)'
    BY DEF Nested
  <2>1. CASE d # c
    BY <1>1, <1>3, <2>1, NestedKept DEF SpinTypeOK, Nested, Interrupt
  <2>2. CASE d = c
    <3>1. IsFiniteSet({}) /\ Cardinality({}) = 0
      BY FS_EmptySet
    <3>2. Mine(c)' = {} /\ IsFiniteSet(Mine(c)') /\ Cardinality(Mine(c)') = 0
      BY <1>1, <1>3, <3>1, Zenon
    <3>3. ncli'[c] = Cardinality(Mine(c)') + Pending(c)'
      BY <1>1, <3>2 DEF Pending
    <3>4. fl'[c] = (level'[c] = "process")
      BY <1>1, Zenon
    <3> QED BY <1>1, <2>2, <3>2, <3>3, <3>4 DEF NestedOn
  <2> QED BY <2>1, <2>2
<1> QED BY <1>1, <1>2, <1>4, <1>5, <1>6, <1>7

LEMMA IretKeeps ==
  ASSUME LockInv, NEW c \in Cpus, Iret(c)
  PROVE  LockInv'
<1> USE DEF LockInv, lockvars
<1>1. /\ spc[c] = "run" /\ Mine(c) = {} /\ ncli[c] = 0
      /\ level'[c] = "process" /\ fl'[c] = TRUE
      /\ UNCHANGED <<locked, owner, ncli, intena, spc, want, has, panics>>
  BY MineIs, NoLockNoCli DEF SpinTypeOK, Iret, Running, Nested
<1>2. SpinTypeOK'
  BY <1>1 DEF SpinTypeOK, Iret, Levels
<1>3. \A d \in Cpus : Mine(d)' = Mine(d)
  BY <1>1 DEF Mine
<1>4. Held'
  BY <1>1, HeldKept
<1>5. Places'
  BY <1>1, <1>3 DEF SpinTypeOK, Places, Mine, Levels, Iret
<1>6. Owned'
  BY <1>1, <1>3 DEF Owned, Changing
<1>7. Nested'
  <2> SUFFICES ASSUME NEW d \in Cpus
               PROVE  NestedOn(d)'
    BY DEF Nested
  <2>1. CASE d # c
    BY <1>1, <1>3, <2>1, NestedKept DEF SpinTypeOK, Nested, Iret
  <2>2. CASE d = c
    <3>1. IsFiniteSet({}) /\ Cardinality({}) = 0
      BY FS_EmptySet
    <3>2. Mine(c)' = {} /\ IsFiniteSet(Mine(c)') /\ Cardinality(Mine(c)') = 0
      BY <1>1, <1>3, <3>1, Zenon
    <3>3. ncli'[c] = Cardinality(Mine(c)') + Pending(c)'
      BY <1>1, <3>2 DEF Pending
    <3>4. fl'[c] = (level'[c] = "process")
      BY <1>1, Zenon
    <3> QED BY <1>1, <2>2, <3>2, <3>3, <3>4 DEF NestedOn
  <2> QED BY <2>1, <2>2
<1> QED BY <1>1, <1>2, <1>4, <1>5, <1>6, <1>7

(* Every step, and the initial states. *)
LEMMA SpinStep ==
  ASSUME LockInv, [SpinNext]_spinvars
  PROVE  LockInv'
<1>1. CASE SpinNext
  <2> SUFFICES ASSUME NEW c \in Cpus,
                      \/ \E l \in Locks : Pushcli(c, l) \/ Release(c, l)
                      \/ Xchg(c) \/ Acquired(c) \/ Unlock(c) \/ Popcli(c)
                      \/ Interrupt(c) \/ Iret(c)
               PROVE  LockInv'
    BY <1>1 DEF SpinNext
  <2> QED BY PushcliKeeps, ReleaseKeeps, XchgKeeps, AcquiredKeeps, UnlockKeeps, PopcliKeeps,
             InterruptKeeps, IretKeeps
<1>2. CASE UNCHANGED spinvars
  <2>1. SpinTypeOK' /\ Places' /\ panics' = {}
    BY <1>2 DEF spinvars, LockInv, SpinTypeOK, Places, Mine
  <2>2. Held'
    BY <1>2, HeldKept DEF spinvars, LockInv
  <2>3. Owned'
    BY <1>2 DEF spinvars, LockInv, Owned, Changing, Mine
  <2>4. Nested'
    BY <1>2 DEF spinvars, LockInv, Nested, NestedOn, Pending, Mine
  <2> QED BY <2>1, <2>2, <2>3, <2>4 DEF LockInv
<1> QED BY <1>1, <1>2

LEMMA SpinStart ==
  ASSUME SpinInit
  PROVE  LockInv
<1>1. SpinTypeOK /\ \A c \in Cpus : Mine(c) = {}
  BY DEF SpinInit, SpinTypeOK, Mine, Levels
<1>2. Held /\ Places /\ Owned
  BY <1>1, LockAssumption DEF SpinInit, Held, Places, Owned, Levels
<1>3. Nested
  <2> SUFFICES ASSUME NEW c \in Cpus
               PROVE  NestedOn(c)
    BY DEF Nested
  <2>1. IsFiniteSet({}) /\ Cardinality({}) = 0
    BY FS_EmptySet
  <2>2. IsFiniteSet(Mine(c)) /\ Cardinality(Mine(c)) = 0
    BY <1>1, <2>1, Zenon
  <2>3. ncli[c] = Cardinality(Mine(c)) + Pending(c)
    BY <2>2 DEF SpinInit, Pending
  <2>4. ncli[c] = 0 /\ fl[c] = TRUE /\ spc[c] = "run" /\ level[c] = "process" /\ Mine(c) = {}
    BY <1>1 DEF SpinInit
  <2>5. fl[c] = (level[c] = "process")
    BY <2>4, Zenon
  <2> QED BY <2>2, <2>3, <2>4, <2>5 DEF NestedOn
<1> QED BY <1>1, <1>2, <1>3 DEF LockInv, SpinInit

(* spinlock.c: one owner of a lock at a time, interrupts off exactly where *)
(* they must be, and no assertion fails, on any number of CPUs.            *)
THEOREM LocksCorrect == SpinSpec => []LocksSafe
<1>1. LockInv => LocksSafe
  <2> SUFFICES ASSUME LockInv
               PROVE  LocksSafe
    OBVIOUS
  <2>1. MutualExclusion
    <3>1. ASSUME NEW c \in Cpus, NEW l \in Locks, spc[c] = "run"
          PROVE  holding(c, l) = (l \in Mine(c))
      <4>1. (owner[l] = c) <=> l \in Mine(c)
        BY <3>1 DEF LockInv, Owned, Changing
      <4>3. l \in Mine(c) => locked[l]
        BY DEF LockInv, Held
      <4>2. locked[l] \in BOOLEAN
        BY DEF LockInv, SpinTypeOK
      <4> QED BY <4>1, <4>2, <4>3 DEF holding
    <3> QED BY <3>1 DEF LockInv, MutualExclusion, Held, Running
  <2>2. InterruptsMatched
    <3> SUFFICES ASSUME NEW c \in Cpus
                 PROVE  /\ fl[c] => spc[c] = "run" /\ Mine(c) = {} /\ ncli[c] = 0
                        /\ level[c] = "handler" => has[c]["process"] = {} /\ ~fl[c]
                        /\ spc[c] = "run" /\ Mine(c) = {} =>
                             ncli[c] = 0 /\ fl[c] = (level[c] = "process")
      BY DEF InterruptsMatched
    <3>1. NestedOn(c)
      BY DEF LockInv, Nested
    <3>2. spc[c] = "run" => (ncli[c] = 0) = (Mine(c) = {})
      BY <3>1, NoLockNoCli DEF LockInv
    <3>3. level[c] = "handler" => has[c]["process"] = {}
      BY MineIs DEF LockInv
    <3> QED BY <3>1, <3>2, <3>3 DEF NestedOn
  <2> QED BY <2>1, <2>2 DEF LocksSafe, LockInv
<1>2. SpinInit => LockInv
  BY SpinStart
<1>3. LockInv /\ [SpinNext]_spinvars => LockInv'
  BY SpinStep
<1> QED BY <1>1, <1>2, <1>3, PTL DEF SpinSpec
=============================================================================
