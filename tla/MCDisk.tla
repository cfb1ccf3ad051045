------------------------------- MODULE MCDisk -------------------------------
(* Small instances of BufferCache for TLC. *)
EXTENDS BufferCache, TLC

(* Processes are interchangeable, and so are the sectors somebody nests in *)
(* and those nobody does.                                                  *)
Symmetry ==
  Permutations(Procs) \cup Permutations(Outer) \cup Permutations(SectorNos \ Outer)
=============================================================================
