------------------------------- MODULE Channel -------------------------------
(***************************************************************************)
(* What the pipes of the kernel promise: channels of bounded capacity that *)
(* deliver every byte once and in the order in which it was sent.  A call  *)
(* may be given up, but what it has taken or sent is accounted for.        *)
(***************************************************************************)
EXTENDS Naturals, Sequences

CONSTANTS Procs, Channels, Capacity, Messages, ReadSizes

VARIABLES
  call, xp,    \* what a process does, and with which channel
  todo,        \* what a writer has not sent yet
  want, got,   \* what a reader asks for, and what it gets
  q,           \* the bytes in a channel
  ends         \* the ends of it that are open

vars == <<call, xp, todo, want, got, q, ends>>

Init ==
  /\ call = [p \in Procs |-> "idle"] /\ xp \in [Procs -> Channels]
  /\ todo = [p \in Procs |-> <<>>]
  /\ want = [p \in Procs |-> 0] /\ got = [p \in Procs |-> <<>>]
  /\ q = [x \in Channels |-> <<>>] /\ ends = [x \in Channels |-> {}]

Create(x) ==
  /\ ends[x] = {}
  /\ ends' = [ends EXCEPT ![x] = {"r", "w"}]
  /\ q' = [q EXCEPT ![x] = <<>>]
  /\ UNCHANGED <<call, xp, todo, want, got>>

Shut(x, e) ==
  /\ e \in ends[x]
  /\ ends' = [ends EXCEPT ![x] = @ \ {e}]
  /\ q' = IF ends[x] = {e} THEN [q EXCEPT ![x] = <<>>] ELSE q
  /\ UNCHANGED <<call, xp, todo, want, got>>

StartSend(p, x, m) ==
  /\ call[p] = "idle" /\ "w" \in ends[x]
  /\ call' = [call EXCEPT ![p] = "write"]
  /\ xp' = [xp EXCEPT ![p] = x] /\ todo' = [todo EXCEPT ![p] = m]
  /\ UNCHANGED <<want, got, q, ends>>

(* The next k bytes; the call goes on, is complete, or is given up. *)
Send(p, k) ==
  LET x == xp[p]
      rest == SubSeq(todo[p], k + 1, Len(todo[p])) IN
  /\ call[p] = "write" /\ "w" \in ends[x]
  /\ Len(q[x]) + k <= Capacity
  /\ q' = [q EXCEPT ![x] = @ \o SubSeq(todo[p], 1, k)]
  /\ \/ call' = [call EXCEPT ![p] = "idle"] /\ todo' = [todo EXCEPT ![p] = <<>>]
     \/ rest # <<>> /\ UNCHANGED call /\ todo' = [todo EXCEPT ![p] = rest]
  /\ UNCHANGED <<xp, want, got, ends>>

StartReceive(p, x, n) ==
  /\ call[p] = "idle" /\ "r" \in ends[x]
  /\ call' = [call EXCEPT ![p] = "read"]
  /\ xp' = [xp EXCEPT ![p] = x] /\ want' = [want EXCEPT ![p] = n]
  /\ got' = [got EXCEPT ![p] = <<>>]
  /\ UNCHANGED <<todo, q, ends>>

Receive(p, k) ==
  LET x == xp[p] IN
  /\ call[p] = "read" /\ "r" \in ends[x] /\ k <= Len(q[x])
  /\ call' = [call EXCEPT ![p] = "idle"]
  /\ got' = [got EXCEPT ![p] = SubSeq(q[x], 1, k)]
  /\ q' = [q EXCEPT ![x] = SubSeq(@, k + 1, Len(@))]
  /\ want' = [want EXCEPT ![p] = 0]
  /\ UNCHANGED <<xp, todo, ends>>

(* A process without a call forgets its channel, or what it has got. *)
Leave(p, x) ==
  /\ call[p] = "idle"
  /\ xp' = [xp EXCEPT ![p] = x]
  /\ got' \in {got, [got EXCEPT ![p] = <<>>]}
  /\ UNCHANGED <<call, todo, want, q, ends>>

Next ==
  \/ \E x \in Channels : Create(x) \/ \E e \in {"r", "w"} : Shut(x, e)
  \/ \E p \in Procs :
       \/ \E x \in Channels : \/ \E m \in Messages : StartSend(p, x, m)
                              \/ \E n \in ReadSizes : StartReceive(p, x, n)
                              \/ Leave(p, x)
       \/ \E k \in 0 .. Len(todo[p]) : Send(p, k)
       \/ \E k \in 0 .. want[p] : Receive(p, k)

Spec == Init /\ [][Next]_vars
=============================================================================
