------------------------------- MODULE MCPipe -------------------------------
(* Small instances of Pipe for TLC. *)
EXTENDS Pipe, TLC

(* A message that does not fit, of two kinds of bytes. *)
Letters == {<<"a", "b", "a">>}
(* A message that does not fit a pipe of one byte. *)
Blank == {<<"a", "a">>}

Symmetry == Permutations(Files)
=============================================================================
