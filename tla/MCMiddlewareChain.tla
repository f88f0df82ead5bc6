------------------------- MODULE MCMiddlewareChain -------------------------
(* Small instances of MiddlewareChain for TLC: all chains of up to two     *)
(* middlewares, and the longer ones in which a throwing middleware sits    *)
(* inside, outside and on both sides of Recovery.                          *)
EXTENDS MiddlewareChain, TLC

Short == UNION {[1 .. n -> Middlewares]: n \in 0 .. 2}
Long == {<<"cors", "recovery", "user">>, <<"logger", "recovery", "user">>,
         <<"recovery", "user", "logger">>, <<"user", "recovery", "user">>}
MCChains == Short \cup Long

Symmetry == Permutations(Conns) \cup Permutations(Threads)
=============================================================================
