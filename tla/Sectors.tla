------------------------------ MODULE Sectors ------------------------------
(***************************************************************************)
(* What the buffer cache and the disk driver promise the file system: a    *)
(* process holds a sector alone, sees what was last put there, and lets it *)
(* go only when the disk has it.                                           *)
(***************************************************************************)
CONSTANTS Procs, SectorNos, Contents, NoProc
VARIABLES holder,   \* who has the sector locked
          store,    \* what a reader of the sector sees
          durable   \* what a crash would leave of it
sVars == <<holder, store, durable>>

Init == /\ holder = [s \in SectorNos |-> NoProc]
        /\ store \in [SectorNos -> Contents]
        /\ durable = store

Lock(p, s) == /\ holder[s] = NoProc
              /\ holder' = [holder EXCEPT ![s] = p]
              /\ UNCHANGED <<store, durable>>

Modify(p, s) == /\ holder[s] = p
                /\ \E v \in Contents : store' = [store EXCEPT ![s] = v]
                /\ UNCHANGED <<holder, durable>>

Flush(s) == /\ holder[s] # NoProc
            /\ durable' = [durable EXCEPT ![s] = store[s]]
            /\ UNCHANGED <<holder, store>>

Unlock(p, s) == /\ holder[s] = p
                /\ durable[s] = store[s]
                /\ holder' = [holder EXCEPT ![s] = NoProc]
                /\ UNCHANGED <<store, durable>>

Next == \E s \in SectorNos : Flush(s) \/ \E p \in Procs : Lock(p, s) \/ Modify(p, s) \/ Unlock(p, s)
Spec == Init /\ [][Next]_sVars
=============================================================================
