------------------------------ MODULE MCRouter ------------------------------
(* Small instances of Router for TLC: patterns that overlap in a literal,  *)
(* a parameter and a repeated parameter, and paths on each side of them.   *)
EXTENDS Router

Lit(name) == [lead |-> "/", param |-> FALSE, name |-> name]
Par(name) == [lead |-> "/", param |-> TRUE, name |-> name]
Seg(name) == [lead |-> "/", name |-> name]

MCPatterns == {<<Lit("a")>>, <<Par("id")>>, <<Par("id"), Lit("a")>>, <<Lit("a"), Par("key")>>,
               <<Par("id"), Par("id")>>}
MCPaths == {<<>>, <<Seg("a")>>, <<Seg("")>>, <<[lead |-> "x", name |-> "a"]>>,
            <<Seg("a"), Seg("a")>>, <<Seg("a"), Seg("")>>, <<Seg("b"), Seg("a")>>,
            <<Seg("a"), Seg("b")>>, <<Seg("a"), Seg("b"), Seg("a")>>}
=============================================================================
