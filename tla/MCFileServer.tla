---------------------------- MODULE MCFileServer ----------------------------
(* A small instance of FileServer for TLC: two request paths that name the *)
(* same file, and one that leads out of the root.                          *)
EXTENDS FileServer, TLC

CONSTANTS k1, k2, up, file

MCKeys == {k1, k2, up}
MCTarget == k1 :> file @@ k2 :> file @@ up :> Outside

Symmetry == Permutations(Threads) \cup Permutations({k1, k2})
=============================================================================
