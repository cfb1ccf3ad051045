------------------------------- MODULE MCCow --------------------------------
(* Small instances of Cow for TLC. *)
EXTENDS Cow, TLC

CONSTANTS f1, f2, f3, f4, Others

MCBoot == [kstack |-> f1, pgdir |-> f2, page |-> f3, tables |-> {}]
MCBootTable == [kstack |-> f1, pgdir |-> f2, page |-> f3, tables |-> {f4}]
MCFrames == {f1, f2, f3, f4} \cup Others

(* The slots but for init's are interchangeable. *)
Slots == Permutations(Procs \ {InitProc})
=============================================================================
