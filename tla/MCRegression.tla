----------------------------- MODULE MCRegression -----------------------------
(* The command-line tools over small folders of snapshots, and commands    *)
(* one after the other.                                                    *)
EXTENDS DeveloperTools

MCAlphabet == <<" ", "-", ".", "/", "0", "1", "2", "9", "10", "A", "B", "V", "_", "a", "b", "u", "v", "e-acute">>
MCUpperOf == [c \in {"a", "b", "u", "v"} |->
                CASE c = "a" -> "A" [] c = "b" -> "B" [] c = "u" -> "U" [] c = "v" -> "V"]
MCUtf8Length == [c \in {"e-acute"} |-> 2]

Entry(s, o, n, t) == [suite |-> s, operation |-> o, iterations |-> n, ns |-> t]
Long == [i \in 1 .. 30 |-> IF i % 2 = 1 THEN "a" ELSE "e-acute"]
S1 == <<"S">>
S2 == <<"b">>

Snapshot1 == <<Entry(S1, <<"b", " ", "a">>, 10000, 100), Entry(S1, <<"b", " ", "a">>, 1000000, 1000),
               Entry(S1, <<"A", "b">>, 10000, 999996), Entry(S2, Long, 10000, 50),
               Entry(S1, <<"a", "u">>, 100000, 0)>>
Snapshot2 == <<Entry(S1, <<"a", "u">>, 100000, 30), Entry(S1, <<"b", " ", "a">>, 10000, 101),
               Entry(S1, <<"b", " ", "a">>, 1000000, 1300), Entry(S2, <<"A", "b">>, 10000, 25)>>
Whole(entries) == [wellFormed |-> TRUE, entries |-> entries]
Torn == [wellFormed |-> FALSE, entries |-> <<>>]

V9 == <<"v", "1", ".", "9", ".", "0">>
V10 == <<"v", "1", ".", "10", ".", "0">>
V10rc == V10 \o <<"-", "b">>
Broken == <<"v", "b">>
Other == <<"a">>
Dir(name) == [name |-> name, isDirectory |-> TRUE]
File(name) == [name |-> name, isDirectory |-> FALSE]

Bench(name, t) == [name |-> name, real_time |-> t]
Google1 == <<Bench(<<"b", "_", "a">>, 100), Bench(<<"b", "_", "b">>, 2000), Bench(<<"A", "/", "10">>, 999996),
             Bench(<<"a", "_", "b", "/", "1">>, 7), Bench(Long \o <<"_", "u">>, 40), Bench(<<"b", "_", "u">>, 0)>>
Google2 == <<Bench(<<"A", "/", "10">>, 25), Bench(<<"b", "_", "b">>, 2010), Bench(<<"b", "_", "a">>, 30),
             Bench(<<"b", "_", "b">>, 1)>>

(* The paths of the tools, which are not named here: TLC's coverage would  *)
(* follow Custom!Folders to this definition and back.                      *)
Snap(name, contents) == [folder |-> name, file |-> name \o <<".json">>] :> contents
Goog(name, contents) == [folder |-> name, file |-> <<"g">> \o name \o <<".json">>] :> contents
Live(custom, google) == [folder |-> <<"results">>, file |-> <<"live">>] :> custom
                        @@ [folder |-> <<"results">>, file |-> <<"google live">>] :> google
MCFolders == {
    [entries |-> {Dir(V9), Dir(V10), Dir(Other), File(Broken)},
     files |-> Snap(V9, Whole(Snapshot1)) @@ Snap(V10, Whole(Snapshot2)) @@ Goog(V9, Whole(Google1))
               @@ Live(Whole(Snapshot1), Whole(Google2))],
    [entries |-> {Dir(V10), Dir(V10rc)},
     files |-> Snap(V10, Whole(Snapshot1)) @@ Snap(V10rc, Whole(Snapshot2))
               @@ Goog(V10, Whole(Google2)) @@ Goog(V10rc, Whole(Google1))
               @@ Live(Whole(Snapshot2), Whole(Google2))],
    [entries |-> {Dir(V9), Dir(V10)},
     files |-> Snap(V9, Whole(Snapshot1)) @@ Goog(V10, Whole(Google1)) @@ Goog(V9, Torn)
               @@ Live(Torn, Whole(Google1))],
    [entries |-> {Dir(V9), Dir(Broken)},
     files |-> Snap(V9, Whole(<<>>)) @@ Goog(V9, Whole(<<>>)) @@ Goog(Broken, Whole(<<>>))
               @@ Live(Whole(<<>>), Whole(<<>>))],
    [entries |-> {Dir(V9), Dir(V10)},
     files |-> Snap(V9, Whole(<<>>)) @@ Snap(V10, Whole(<<>>)) @@ Goog(V9, Whole(<<>>)) @@ Goog(V10, Whole(<<>>))
               @@ Live(Whole(<<>>), Whole(<<>>))],
    [entries |-> {}, files |-> Live(Whole(Snapshot1), Whole(Google1))]}
MCSessions == {
    <<<<<<"list">>>>, <<<<"methods">>>>, <<<<"a", "2">>>>, <<>>>>,
    <<<<<<"help">>>>, <<<<"methods">>, V9>>, <<V9, <<"A", "1">>>>>>,
    <<<<V9, V10, <<"b">>, <<"a">>>>, <<V10, V9>>, <<<<"b", "_", "b">>>>>>,
    <<<<<<"a">>>>, <<<<"b", "9">>>>, <<V10rc, <<"u">>>>>>}

MCFiles == <<[category |-> <<"a", "v">>, stem |-> <<"b", "_", "a">>], [category |-> <<"a", "v">>, stem |-> <<"u">>],
             [category |-> <<"b">>, stem |-> <<"a", "_", "b", "_", "u">>],
             [category |-> <<"u", "a", "b", "u", "a", "b", "u", "a", "b">>, stem |-> <<"v", "a">>]>>
MCExampleSessions == {<<<<<<"list">>>>, <<text>>>>: text \in
                          {<<"A", "2">>, <<"b", "1">>, <<"a", "v">>, <<"B">>, <<"B", "_", "A">>,
                           <<"u", "9">>, <<"a", "_", "b", "_", "u">>}}
                     \cup {<<<<<<"-h">>>>, <<>>>>}
===============================================================================
