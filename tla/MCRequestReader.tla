--------------------------- MODULE MCRequestReader ---------------------------
(* Small instances of RequestReader for TLC: requests that reach past each *)
(* of the caps, cut in every way into chunks.                              *)
EXTENDS RequestReader

MCHeadSizes == 4 .. 10
MCFieldLists == {<<>>, <<0>>, <<1>>, <<2>>, <<3>>, <<Malformed>>, <<2, 1>>, <<3, 0>>,
                 <<1, Malformed>>, <<Malformed, 1>>}
MCSentSizes == 0 .. 14
=============================================================================
