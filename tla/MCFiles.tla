------------------------------ MODULE MCFiles ------------------------------
(* Small instances of Files for TLC. *)
EXTENDS Files, TLC

Does(o, s) == [op |-> o, path |-> s]
DoesLink(s, n) == [op |-> "link", path |-> s, new |-> n]

(* A directory, a file in it and links to the file, which are removed. *)
Tree == {Does("mkdir", <<"a">>), Does("creat", <<"a", "b">>), Does("unlink", <<"a">>),
         Does("unlink", <<"b">>), Does("unlink", <<"a", "b">>),
         DoesLink(<<"a", "b">>, <<"b">>)}
(* A current directory that another process removes. *)
Current == {Does("mkdir", <<"/", "a">>), Does("chdir", <<"/", "a">>), Does("unlink", <<"/", "a">>),
            Does("mkdir", <<"b">>), Does("unlink", <<"b">>)}
(* Devices, and calls that fail in the middle. *)
Failing == {Does("mknod", <<"a">>), Does("mkdir", <<"a">>), Does("mkdir", <<"/">>),
            DoesLink(<<"a">>, <<"/">>), Does("openw", <<"a">>), Does("unlink", <<"a">>)}
All_workloads == {Tree, Current, Failing}

(* A process leaves a removed directory through its ".." entry. *)
Dots == {{Does("mkdir", <<"a">>), Does("chdir", <<"a">>), Does("unlink", <<"..", "a">>),
          Does("open", <<"..">>)}}
Symmetry == Permutations(Procs)
=============================================================================
