---------------------------- MODULE MCAcceptLoop ----------------------------
(* Small instances of AcceptLoop for TLC. *)
EXTENDS AcceptLoop, TLC

Symmetry == Permutations(Fds) \cup Permutations(Stoppers)
=============================================================================
