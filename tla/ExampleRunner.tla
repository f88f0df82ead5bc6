----------------------------- MODULE ExampleRunner -----------------------------
(***************************************************************************)
(* examples: runs the programs under examples/suite. Each file adds itself *)
(* to the registry before main(), in the order the files were linked;      *)
(* main() then runs all of them, those of a category, or one.              *)
(***************************************************************************)
EXTENDS RegressionTables

CONSTANTS
    Sessions,   \* sequences of commands, each a sequence of at most one text
    Files       \* [category, stem] of each file, in the order of linking

VARIABLES
    registry,   \* example_registry()
    counters,   \* category_counters()
    todo,       \* the commands still to be given, the running one first
    pc,
    chosen,     \* the suites to run
    spans,      \* the categories the summary will name; 0 without a summary
    at,         \* the next of them
    screen,     \* the lines of the boxes on stdout
    listed,     \* the lines of the lists the user has been shown
    exit        \* the exit status

vars == <<registry, counters, todo, pc, chosen, spans, at, screen, listed, exit>>

NoCounters == [c \in {f.category: f \in Range(Files)} |-> 0]

Init ==
    /\ registry = <<>> /\ counters = NoCounters /\ todo \in Sessions /\ pc = "static"
    /\ chosen = <<>> /\ spans = 0 /\ at = 1 /\ screen = <<>> /\ listed = {} /\ exit = 0

args == Head(todo)

(* Title Case: the first letter, and an underscore as a space and the      *)
(* letter after it. An underscore where a letter is due stays.             *)
Prettify(text) ==
    LET Spaced[i \in 0 .. Len(text)] == i > 1 /\ text[i] = "_" /\ ~Spaced[i - 1]
    IN [i \in DOMAIN text |-> IF i = 1 \/ Spaced[i - 1] THEN ToUpper(text[i])
                              ELSE IF Spaced[i] THEN " " ELSE text[i]]
SameFolded(a, b) == Len(a) = Len(b) /\ \A i \in DOMAIN a: ToUpper(a[i]) = ToUpper(b[i])

Distinct(suites) == {suites[i].category: i \in DOMAIN suites}

-----------------------------------------------------------------------------

(* The constructor of one file's registrar. *)
Register ==
    /\ pc = "static" /\ Len(registry) < Len(Files)
    /\ LET file == Files[Len(registry) + 1]
           number == counters[file.category] + 1
       IN /\ counters' = [counters EXCEPT ![file.category] = number]
          /\ registry' = Append(registry, [id |-> <<ToUpper(file.category[1]), ToString(number)>>,
                                           category |-> file.category, name |-> Prettify(file.stem)])
    /\ UNCHANGED <<todo, pc, chosen, spans, at, screen, listed, exit>>

EnterMain ==
    /\ pc = "static" /\ Len(registry) = Len(Files) /\ pc' = "main"
    /\ UNCHANGED <<registry, counters, todo, chosen, spans, at, screen, listed, exit>>

-----------------------------------------------------------------------------
(* Boxes. *)

Wider(a, b) == IF a > b THEN a ELSE b
Widest(texts) == CHOOSE w \in {DisplayWidth(Bytes(t)): t \in texts}:
                     \A t \in texts: DisplayWidth(Bytes(t)) <= w

ExampleHeader(suite) ==
    LET prefix == Bytes(<<"[">> \o suite.id \o <<"]", " ">>)
        width == Wider(DisplayWidth(prefix \o Bytes(suite.name)), DisplayWidth(Bytes(suite.category))) + 2
        name == PadCell(Bytes(suite.name), width - 2 - DisplayWidth(prefix))
    IN <<Border("top", <<width>>),
         CellLine("header", <<Blank \o prefix \o name \o Blank>>) @@ [suite |-> suite],
         CellLine("row", <<Blank \o PadCell(Bytes(suite.category), width - 2) \o Blank>>),
         Border("bottom", <<width>>)>>

(* Labels to the left, values to the right. *)
CountBox(labels, values) ==
    LET labelWidth == Widest(Range(labels))
        valueWidth == Widest(Range(values))
        Value(i) == Repeat(Blank, valueWidth - DisplayWidth(Bytes(values[i]))) \o Bytes(values[i])
    IN <<Border("top", <<labelWidth + valueWidth + 3>>)>>
       \o [i \in DOMAIN labels |->
              CellLine(IF i = 1 THEN "header" ELSE "row",
                       <<Blank \o PadCell(Bytes(labels[i]), labelWidth) \o Blank \o Value(i) \o Blank>>)
              @@ [value |-> values[i]]]
       \o <<Border("bottom", <<labelWidth + valueWidth + 3>>)>>

ExamplesLabel == [i \in 1 .. 8 |-> "a"]
CategoriesLabel == [i \in 1 .. 10 |-> "a"]
SuitesLabel == [i \in 1 .. 6 |-> "a"]
TimeLabel == [i \in 1 .. 4 |-> "a"]
Elapsed == {<<"0", ".", "1", "u", "a">>, <<"1", "2", "9", ".", "0", "u", "a">>}

-----------------------------------------------------------------------------
(* main(). *)

(* A category is opened whenever it is not that of the suite before.       *)
Grouped ==
    LET starts == {i \in DOMAIN registry: i = 1 \/ registry[i].category # registry[i - 1].category}
    IN [i \in starts |-> {j \in DOMAIN registry:
                             j >= i /\ ~\E k \in starts: i < k /\ k <= j}]

PrintExampleSuiteList ==
    /\ pc = "main" /\ args = <<<<"list">>>> /\ pc' = "exit"
    /\ listed' = listed \cup UNION {{[heading |-> registry[i].category, count |-> Cardinality(Grouped[i]),
                                      suite |-> registry[j]]: j \in Grouped[i]}: i \in DOMAIN Grouped}
    /\ screen' = CountBox(<<SuitesLabel, CategoriesLabel>>,
                          <<<<ToString(Len(registry))>>, <<ToString(Cardinality(DOMAIN Grouped))>>>>)
    /\ UNCHANGED <<registry, counters, todo, chosen, spans, at, exit>>

PrintUsage ==
    /\ pc = "main" /\ args \in {<<<<"-h">>>>, <<<<"--help">>>>} /\ pc' = "exit"
    /\ UNCHANGED <<registry, counters, todo, chosen, spans, at, screen, listed, exit>>

(* Faulty variant: the summary takes every suite for a category. *)
PrintAllSpansSuites ==
    /\ pc = "main" /\ args = <<>>
    /\ chosen' = registry /\ spans' = Len(registry) /\ pc' = "run"
    /\ UNCHANGED <<registry, counters, todo, at, screen, listed, exit>>

PrintAllExampleSuite ==
    /\ pc = "main" /\ args = <<>>
    /\ chosen' = registry /\ spans' = Cardinality(Distinct(registry)) /\ pc' = "run"
    /\ UNCHANGED <<registry, counters, todo, at, screen, listed, exit>>

(* The first suite of that name or id, or else all of that category.       *)
Find ==
    /\ pc = "main" /\ Len(args) = 1
    /\ args[1] \notin {<<"list">>, <<"-h">>, <<"--help">>}
    /\ LET requested == Prettify(args[1])
           exact == SelectInSeq(registry, LAMBDA s: \/ SameFolded(s.name, requested)
                                                    \/ SameFolded(s.id, requested))
           categoryMatches == SelectSeq(registry, LAMBDA s: SameFolded(s.category, requested))
       IN \/ exact # 0 /\ chosen' = <<registry[exact]>> /\ pc' = "run" /\ UNCHANGED <<spans, exit>>
          \/ /\ exact = 0 /\ categoryMatches # <<>>
             /\ chosen' = categoryMatches /\ spans' = 1 /\ pc' = "run" /\ UNCHANGED exit
          \/ /\ exact = 0 /\ categoryMatches = <<>>
             /\ pc' = "exit" /\ exit' = 1 /\ UNCHANGED <<chosen, spans>>
    /\ UNCHANGED <<registry, counters, todo, at, screen, listed>>

(* The header, then the suite's own run(). *)
RunSuite ==
    /\ pc = "run" /\ at <= Len(chosen)
    /\ screen' = screen \o ExampleHeader(chosen[at]) /\ at' = at + 1
    /\ UNCHANGED <<registry, counters, todo, pc, chosen, spans, listed, exit>>

PrintRunSummary ==
    /\ pc = "run" /\ at > Len(chosen) /\ pc' = "exit"
    /\ \/ /\ spans > 0
          /\ \E time \in Elapsed:
                screen' = screen \o CountBox(<<ExamplesLabel, CategoriesLabel, TimeLabel>>,
                                             <<<<ToString(Len(chosen))>>, <<ToString(spans)>>, time>>)
       \/ spans = 0 /\ UNCHANGED screen
    /\ UNCHANGED <<registry, counters, todo, chosen, spans, at, listed, exit>>

(* The user gives the next command: a new process.                         *)
NextCommand ==
    /\ pc = "exit" /\ Len(todo) > 1 /\ todo' = Tail(todo)
    /\ registry' = <<>> /\ counters' = NoCounters /\ pc' = "static" /\ chosen' = <<>>
    /\ spans' = 0 /\ at' = 1 /\ screen' = <<>> /\ exit' = 0 /\ UNCHANGED listed

Next ==
    \/ Register \/ EnterMain \/ PrintExampleSuiteList \/ PrintUsage \/ PrintAllExampleSuite
    \/ Find \/ RunSuite \/ PrintRunSummary \/ NextCommand

Spec == Init /\ [][Next]_vars
-----------------------------------------------------------------------------
(* What the tool promises. *)

InCategory(category) == SelectSeq(Files, LAMBDA f: f.category = category)
Shown(file, suite) == suite.category = file.category /\ suite.name = Prettify(file.stem)
Headers == SelectSeq(screen, LAMBDA l: "suite" \in DOMAIN l)

(* A command that names a file, an id once listed or a category runs that  *)
(* file, that suite or that whole category in order, and nothing else; the *)
(* summary counts what ran.                                                *)
RunsRight ==
    pc = "exit" /\ exit = 0 /\ args \notin {<<<<"list">>>>, <<<<"-h">>>>, <<<<"--help">>>>} =>
        LET ran == [i \in DOMAIN Headers |-> Headers[i].suite]
            AreRun(files) == /\ Len(ran) = Len(files)
                             /\ \A i \in DOMAIN files: Shown(files[i], ran[i])
            values == SelectSeq(screen, LAMBDA l: "value" \in DOMAIN l)
        IN /\ args = <<>> => AreRun(Files)
           /\ args # <<>> =>
                 /\ \A f \in Range(Files): /\ SameFolded(f.stem, args[1]) => AreRun(<<f>>)
                                           /\ SameFolded(f.category, args[1]) => AreRun(InCategory(f.category))
                 /\ \A line \in listed: SameFolded(line.suite.id, args[1]) => ran = <<line.suite>>
           /\ values = <<>> \/ /\ values[1].value = <<ToString(Len(ran))>>
                               /\ values[2].value = <<ToString(Cardinality(Distinct(ran)))>>

(* The list shows every file once, under its category and with the number  *)
(* of its files, each id once, and counts from 1 in each category.         *)
ListedRight ==
    listed # {} =>
        /\ \A f \in Range(Files): \E line \in listed: Shown(f, line.suite)
        /\ Cardinality(listed) = Len(Files) /\ Cardinality({line.suite.id: line \in listed}) = Len(Files)
        /\ \A line \in listed:
              LET listedWith == {l \in listed: l.heading = line.heading}
              IN /\ line.heading = line.suite.category /\ line.count = Len(InCategory(line.heading))
                 /\ {l.suite.id[2]: l \in listedWith} = {ToString(n): n \in 1 .. line.count}

===============================================================================
