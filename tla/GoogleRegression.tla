--------------------------- MODULE GoogleRegression ---------------------------
(***************************************************************************)
(* google_regression: the same comparison for the snapshots that Google    *)
(* Benchmark writes, which lie beside the others under the tagged folders. *)
(* Entries have a name and nothing else to match by, tables are grouped by *)
(* the part of the name that is not the library's, and a folder counts only*)
(* when it holds this tool's file.                                         *)
(***************************************************************************)
EXTENDS RegressionTables

CONSTANTS
    Sessions,   \* sequences of commands, each a sequence of texts
    Folders     \* what may be in benchmarks/baselines, and the snapshots

VARIABLES
    disk,       \* [entries, files]: the folder's entries, and path :> snapshot
    todo,       \* the commands still to be given, the running one first
    pc,
    unseen,     \* the directory iterator's remaining entries
    newest,     \* latestBaseline()'s candidate
    sides,      \* [current, baseline]: the paths of the two snapshots
    filter,     \* the names asked for; none means all
    results,    \* [current, baseline]: what was loaded
    at,         \* the next baseline entry to print
    suite,      \* currentGroup
    screen,     \* stdout, as lines of cells
    rows,       \* regression_results()
    markdown,   \* markdown_buffer()
    listed,     \* the ids the developer has been shown
    reports,    \* the two files under regression/results
    exit        \* the exit status

vars == <<disk, todo, pc, unseen, newest, sides, filter, results, at, suite,
          screen, rows, markdown, listed, reports, exit>>

NoPath == [folder |-> <<>>, file |-> <<>>]
LiveResultsFile == [folder |-> <<"results">>, file |-> <<"google live">>]
Earlier == <<[earlier |-> TRUE]>>    \* reports of the runs before
NoVersion == [number |-> <<0, 0, 0>>, name |-> <<>>]

(* The state of a process that starts. *)
Started ==
    [pc |-> "main", unseen |-> {}, newest |-> NoVersion,
     sides |-> [current |-> NoPath, baseline |-> NoPath], filter |-> {},
     results |-> [current |-> <<>>, baseline |-> <<>>], at |-> 1,
     suite |-> <<" ">>, screen |-> <<>>, rows |-> <<>>,
     markdown |-> <<>>, exit |-> 0]

Init ==
    /\ disk \in Folders /\ todo \in Sessions
    /\ pc = Started.pc /\ unseen = Started.unseen /\ newest = Started.newest
    /\ sides = Started.sides /\ filter = Started.filter /\ results = Started.results
    /\ at = Started.at /\ suite = Started.suite /\ screen = Started.screen
    /\ rows = Started.rows /\ markdown = Started.markdown /\ exit = Started.exit
    /\ listed = {} /\ reports = [json |-> Earlier, md |-> Earlier]

args == Head(todo)
Fail == pc' = "exit" /\ exit' = 1

-----------------------------------------------------------------------------
(* Snapshots. *)

Loadable(path) == path \in DOMAIN disk.files /\ disk.files[path].wellFormed
LoadResults(path) == disk.files[path].entries

BaselinePath(name) == [folder |-> name, file |-> <<"g">> \o name \o <<".json">>]
LabelFor(path) == IF path = LiveResultsFile THEN <<"Current">> ELSE path.folder

GetCns(entries, name) ==
    LET i == SelectInSeq(entries, LAMBDA e: e.name = name) IN IF i = 0 THEN 0 ELSE entries[i].real_time

(* The name up to its first '/', without what follows the last '_' in it.  *)
BaseName(name) ==
    LET slash == SelectInSeq(name, LAMBDA t: t = "/")
        base == IF slash = 0 THEN name ELSE SubSeq(name, 1, slash - 1)
        underscore == SelectLastInSeq(base, LAMBDA t: t = "_")
    IN IF underscore = 0 THEN base ELSE SubSeq(base, 1, underscore - 1)

UniqueNames(entries) == {entries[i].name: i \in DOMAIN entries}
FilterByNames(entries, names) ==
    FlattenSeq([i \in DOMAIN entries |->
        IF entries[i].name \in names THEN <<entries[i]>> ELSE <<>>])

(* Faulty variant: capitals and small letters are kept apart. *)
InitialAsWritten(name) == IF name = <<>> THEN "?" ELSE name[1]

InitialOf(name) == IF name = <<>> THEN "?" ELSE ToUpper(name[1])

(* Sorted by spelling, a new group wherever the initial changes.           *)
GroupMethodsByLetter(names) ==
    FoldLeft(LAMBDA groups, name:
                 IF groups # <<>> /\ Last(groups).letter = InitialOf(name)
                 THEN [groups EXCEPT ![Len(groups)].members = Append(@, name)]
                 ELSE Append(groups, [letter |-> InitialOf(name), members |-> <<name>>]),
             <<>>, SetToSortSeq(names, ListedBefore))

Groups(path) == GroupMethodsByLetter(UniqueNames(LoadResults(path)))
GroupOf(letter, path) == {g \in Range(Groups(path)): g.letter = ToUpper(letter)}

LooksLikeMethodId(s) == Len(s) = 2 /\ s[1] \in Letters /\ IsNumeral(s[2])
LooksLikeLetterGroup(s) == Len(s) = 1 /\ s[1] \in Letters

ResolveMethodId(id, path) ==
    {g.members[Numeral(id[2])]: g \in {h \in GroupOf(id[1], path): Numeral(id[2]) \in DOMAIN h.members}}
ResolveLetterGroup(letter, path) == UNION {Range(g.members): g \in GroupOf(letter[1], path)}

-----------------------------------------------------------------------------
(* The folder of baselines. *)

(* The folder must hold this tool's own snapshot, well-formed or not.      *)
IsGoogleBaselineName(name) == StartsWithV(name) /\ BaselinePath(name) \in DOMAIN disk.files
ParsesAsBaseline(name) == IsVersion(WithoutV(name))
ParseBaseline(name) == Version(name, WithoutV(name))
TryParseVersionArg(arg) == StartsWithV(arg) /\ IsVersion(Tail(arg)) /\ Len(arg) = 6

Candidates == {n \in {e.name: e \in {x \in disk.entries: x.isDirectory}}: IsGoogleBaselineName(n)}
Baselines == OldestFirst({ParseBaseline(n): n \in Candidates})

-----------------------------------------------------------------------------
(* main(): list, methods, help. *)

PrintList ==
    /\ pc = "main" /\ args = <<<<"list">>>>
    /\ IF \A n \in Candidates: ParsesAsBaseline(n)
       THEN screen' = [i \in DOMAIN Baselines |-> [kind |-> "version", name |-> Baselines[i].name]]
            /\ pc' = "exit" /\ exit' = 0
       ELSE Fail /\ UNCHANGED screen
    /\ UNCHANGED <<disk, todo, unseen, newest, sides, filter, results, at, suite, rows, markdown,
                   listed, reports>>

(* The tree of one baseline: a line for each id. *)
Tree(baseline) ==
    LET groups == Groups(BaselinePath(baseline.name))
    IN FlattenSeq([g \in DOMAIN groups |->
           [j \in DOMAIN groups[g].members |->
               [kind |-> "method", version |-> baseline.name,
                id |-> <<groups[g].letter, ToString(j)>>, name |-> groups[g].members[j]]]])

PrintMethods ==
    /\ pc = "main"
    /\ args = <<<<"methods">>>> \/ (Len(args) = 2 /\ args[1] = <<"methods">>)
    /\ LET wanted == SelectSeq(Baselines, LAMBDA b: Len(args) = 2 => b.name = args[2])
           broken == SelectInSeq(wanted, LAMBDA b: ~Loadable(BaselinePath(b.name)))
           shown == IF broken = 0 THEN wanted ELSE SubSeq(wanted, 1, broken - 1)
       IN IF /\ \A n \in Candidates: ParsesAsBaseline(n)
             /\ Len(args) = 2 => wanted # <<>>
          THEN /\ screen' = FlattenSeq([i \in DOMAIN shown |-> Tree(shown[i])])
               /\ listed' = listed \cup Range(screen')
               /\ pc' = "exit" /\ exit' = (IF broken = 0 THEN 0 ELSE 1)
          ELSE Fail /\ UNCHANGED <<screen, listed>>
    /\ UNCHANGED <<disk, todo, unseen, newest, sides, filter, results, at, suite, rows, markdown,
                   reports>>

PrintUsage ==
    /\ pc = "main" /\ args \in {<<<<"help">>>>, <<<<"-h">>>>, <<<<"--help">>>>}
    /\ pc' = "exit" /\ exit' = 0
    /\ UNCHANGED <<disk, todo, unseen, newest, sides, filter, results, at, suite, screen, rows,
                   markdown, listed, reports>>

IsComparison ==
    /\ args \notin {<<<<"list">>>>, <<<<"methods">>>>, <<<<"help">>>>, <<<<"-h">>>>, <<<<"--help">>>>}
    /\ ~(Len(args) = 2 /\ args[1] = <<"methods">>)

VersionCount ==
    IF args = <<>> \/ ~TryParseVersionArg(args[1]) THEN 0
    ELSE IF Len(args) = 1 \/ ~TryParseVersionArg(args[2]) THEN 1 ELSE 2

(* The remaining words, joined with spaces. *)
MethodFilter ==
    LET words == SubSeq(args, VersionCount + 1, Len(args))
    IN FlattenSeq([i \in DOMAIN words |-> IF i = 1 THEN words[i] ELSE <<" ">> \o words[i]])

ReadArguments ==
    /\ pc = "main" /\ IsComparison
    /\ sides' = CASE VersionCount = 2 -> [current |-> BaselinePath(args[1]), baseline |-> BaselinePath(args[2])]
                  [] VersionCount = 1 -> [current |-> LiveResultsFile, baseline |-> BaselinePath(args[1])]
                  [] OTHER -> [current |-> LiveResultsFile, baseline |-> NoPath]
    /\ pc' = IF VersionCount = 0 THEN "latest" ELSE "resolve"
    /\ unseen' = IF VersionCount = 0 THEN disk.entries ELSE {}
    /\ UNCHANGED <<disk, todo, newest, filter, results, at, suite, screen, rows, markdown, listed,
                   reports, exit>>

Latest(version) == IF newest = NoVersion \/ Older(newest, version) THEN version ELSE newest

(* latestBaseline(): the iterator yields the entries in any order.         *)
LatestBaseline ==
    /\ pc = "latest" /\ unseen # {}
    /\ \E e \in unseen:
          /\ unseen' = unseen \ {e}
          /\ IF ~e.isDirectory \/ ~IsGoogleBaselineName(e.name)
             THEN UNCHANGED <<pc, exit, newest>>
             ELSE IF ~ParsesAsBaseline(e.name)
             THEN Fail /\ UNCHANGED newest
             ELSE newest' = Latest(ParseBaseline(e.name)) /\ UNCHANGED <<pc, exit>>
    /\ UNCHANGED <<disk, todo, sides, filter, results, at, suite, screen, rows, markdown, listed, reports>>

LatestFound ==
    /\ pc = "latest" /\ unseen = {}
    /\ \/ /\ newest # NoVersion
          /\ sides' = [sides EXCEPT !.baseline = BaselinePath(newest.name)]
          /\ pc' = "resolve" /\ UNCHANGED exit
       \/ newest = NoVersion /\ Fail /\ UNCHANGED sides
    /\ UNCHANGED <<disk, todo, unseen, newest, filter, results, at, suite, screen, rows, markdown,
                   listed, reports>>

(* An id or a letter is looked up in the baseline's own listing.           *)
Resolve ==
    /\ pc = "resolve"
    /\ LET short == LooksLikeMethodId(MethodFilter) \/ LooksLikeLetterGroup(MethodFilter)
           meant == IF LooksLikeMethodId(MethodFilter)
                    THEN ResolveMethodId(MethodFilter, sides.baseline)
                    ELSE ResolveLetterGroup(MethodFilter, sides.baseline)
       IN IF ~short
          THEN pc' = "load" /\ filter' = {MethodFilter} \ {<<>>} /\ UNCHANGED exit
          ELSE IF Loadable(sides.baseline) /\ meant # {}
          THEN pc' = "load" /\ filter' = meant /\ UNCHANGED exit
          ELSE Fail /\ UNCHANGED filter
    /\ UNCHANGED <<disk, todo, unseen, newest, sides, results, at, suite, screen, rows, markdown,
                   listed, reports>>

ApplyMethodFilter(entries) == IF filter = {} THEN entries ELSE FilterByNames(entries, filter)

Load ==
    /\ pc = "load"
    /\ IF /\ Loadable(sides.baseline) /\ Loadable(sides.current)
          /\ filter # {} => /\ ApplyMethodFilter(LoadResults(sides.baseline)) # <<>>
                            /\ ApplyMethodFilter(LoadResults(sides.current)) # <<>>
       THEN /\ results' = [baseline |-> ApplyMethodFilter(LoadResults(sides.baseline)),
                           current |-> ApplyMethodFilter(LoadResults(sides.current))]
            /\ pc' = "print" /\ UNCHANGED exit
       ELSE Fail /\ UNCHANGED results
    /\ UNCHANGED <<disk, todo, unseen, newest, sides, filter, at, suite, screen, rows, markdown,
                   listed, reports>>

-----------------------------------------------------------------------------
(* printRegression(): one table for each run of names with one base.       *)

Widths == <<32, 24, 24, 14>>
NameCell(text) == PadCell(Blank \o TruncateCell(Bytes(text), Widths[1] - 1), Widths[1])

SetHeader(header) ==
    <<Border("top", Widths),
      CellLine("header", <<NameCell(header), PadCell(Blank \o Bytes(LabelFor(sides.current)), Widths[2]),
                           PadCell(Blank \o Bytes(LabelFor(sides.baseline)), Widths[3]),
                           PadCell(Blank \o <<2, 0>>, Widths[4])>>),
      Border("middle", Widths)>>
EndTable == <<Border("bottom", Widths)>>

PrintComparisonRow(name, b, c) ==
    LET maxNs == IF b > c THEN b ELSE c
    IN CellLine("row", <<NameCell(name), PadCell(ValueCell(c, maxNs), Widths[2]),
                         PadCell(ValueCell(b, maxNs), Widths[3]),
                         PadCell(Blank \o Arrow \o DeltaText(b, c), Widths[4])>>)
       @@ [name |-> name]

Row ==
    /\ pc = "print" /\ at <= Len(results.baseline)
    /\ LET entry == results.baseline[at]
           group == BaseName(entry.name)
           c == GetCns(results.current, entry.name)
           record == [name |-> entry.name, baseline_ns |-> entry.real_time, current_ns |-> c]
       IN /\ screen' = screen \o (IF suite \notin {group, <<" ">>} THEN EndTable ELSE <<>>)
                              \o (IF suite # group THEN SetHeader(group) ELSE <<>>)
                              \o <<PrintComparisonRow(entry.name, entry.real_time, c)>>
          /\ markdown' = markdown \o (IF suite # group THEN <<[heading |-> group]>> ELSE <<>>)
                                  \o <<[row |-> record]>>
          /\ rows' = Append(rows, record)
          /\ suite' = group
    /\ at' = at + 1
    /\ UNCHANGED <<disk, todo, pc, unseen, newest, sides, filter, results, listed, reports, exit>>

LastTable ==
    /\ pc = "print" /\ at > Len(results.baseline)
    /\ screen' = IF suite # <<" ">> THEN screen \o EndTable ELSE screen
    /\ pc' = "summary"
    /\ UNCHANGED <<disk, todo, unseen, newest, sides, filter, results, at, suite, rows, markdown,
                   listed, reports, exit>>

Count(verdict) ==
    Cardinality({i \in DOMAIN rows: Verdict(rows[i].baseline_ns, rows[i].current_ns) = verdict})
SummaryWidths == <<20, 26>>

(* printSummary(): nothing at all when there are no rows. *)
PrintSummary ==
    /\ pc = "summary" /\ pc' = "json"
    /\ LET counts == [faster |-> Count("faster"), slower |-> Count("slower"), tie |-> Count("tie")]
           total == counts.faster + counts.slower + counts.tie
       IN IF total = 0 THEN UNCHANGED <<screen, markdown>>
          ELSE /\ screen' = screen \o <<Border("top", SummaryWidths), Border("header", SummaryWidths),
                                        Border("middle", SummaryWidths)>>
                            \o [k \in 1 .. 3 |-> Border("row", SummaryWidths) @@ [name |-> <<"count">>]]
                            \o <<Border("bottom", SummaryWidths)>>
               /\ markdown' = Append(markdown, [summary |-> counts])
    /\ UNCHANGED <<disk, todo, unseen, newest, sides, filter, results, at, suite, rows, listed,
                   reports, exit>>

(* A report whose file cannot be opened is left out in silence.            *)
ExportJson ==
    /\ pc = "json" /\ pc' = "md"
    /\ reports' \in {reports, [reports EXCEPT !.json = rows]}
    /\ UNCHANGED <<disk, todo, unseen, newest, sides, filter, results, at, suite, screen, rows,
                   markdown, listed, exit>>

ExportMarkdown ==
    /\ pc = "md" /\ pc' = "exit" /\ exit' = 0
    /\ reports' \in {reports, [reports EXCEPT !.md = markdown]}
    /\ UNCHANGED <<disk, todo, unseen, newest, sides, filter, results, at, suite, screen, rows,
                   markdown, listed>>

(* The developer gives the next command: a new process, the same disk.     *)
NextCommand ==
    /\ pc = "exit" /\ Len(todo) > 1 /\ todo' = Tail(todo)
    /\ pc' = Started.pc /\ unseen' = Started.unseen /\ newest' = Started.newest
    /\ sides' = Started.sides /\ filter' = Started.filter /\ results' = Started.results
    /\ at' = Started.at /\ suite' = Started.suite /\ screen' = Started.screen
    /\ rows' = Started.rows /\ markdown' = Started.markdown /\ exit' = Started.exit
    /\ UNCHANGED <<disk, listed, reports>>

Next ==
    \/ PrintList \/ PrintMethods \/ PrintUsage \/ ReadArguments \/ LatestBaseline \/ LatestFound
    \/ Resolve \/ Load \/ Row \/ LastTable \/ PrintSummary \/ ExportJson \/ ExportMarkdown
    \/ NextCommand

Spec == Init /\ [][Next]_vars
-----------------------------------------------------------------------------
(* What the tool promises. *)

Compared == pc \in {"json", "md"}

(* Without a version, the newest folder with a snapshot of this tool is    *)
(* compared, in whatever order the folders were iterated.                  *)
NewestCompared ==
    Compared /\ VersionCount = 0 =>
        \E n \in Candidates:
            /\ sides.baseline = BaselinePath(n)
            /\ \A m \in Candidates \ {n}: Older(ParseBaseline(m), ParseBaseline(n))

(* The benchmarks that are compared are those that the command denotes.    *)
FilterRight ==
    Compared => filter = IF MethodFilter = <<>> THEN {}
                         ELSE Denoted(MethodFilter, UniqueNames(LoadResults(sides.baseline)))

(* A finished comparison has one row for each of the baseline's entries    *)
(* that are wanted, in their order, with the time of the current side's    *)
(* first entry of that name, or nothing.                                   *)
RowsRight ==
    Compared =>
        LET chosen == LoadResults(sides.baseline)
            current == LoadResults(sides.current)
            wanted == {i \in DOMAIN chosen: filter = {} \/ chosen[i].name \in filter}
            RowOf(i) == rows[Cardinality({j \in wanted: j <= i})]
        IN /\ Len(rows) = Cardinality(wanted)
           /\ \A i \in wanted:
                 /\ RowOf(i).name = chosen[i].name /\ RowOf(i).baseline_ns = chosen[i].real_time
                 /\ \/ \E j \in DOMAIN current:
                          /\ current[j].name = RowOf(i).name /\ RowOf(i).current_ns = current[j].real_time
                          /\ \A k \in 1 .. j - 1: current[k].name # RowOf(i).name
                    \/ RowOf(i).current_ns = 0 /\ \A j \in DOMAIN current: current[j].name # RowOf(i).name

(* An id that `methods` has shown stands for the benchmark shown with it,  *)
(* and a listing that succeeds shows every benchmark of its baselines.     *)
ListedRight ==
    /\ \A line \in listed:
          {line.name} = Denoted(line.id, UniqueNames(LoadResults(BaselinePath(line.version))))
    /\ pc = "exit" /\ exit = 0 /\ ~IsComparison /\ args[1] = <<"methods">> =>
          \A n \in {c \in Candidates: Len(args) = 2 => c = args[2]}:
              UniqueNames(LoadResults(BaselinePath(n)))
                  = {line.name: line \in {l \in Range(screen): l.version = n}}


(* A report is written of a whole comparison only: the two agree, and the  *)
(* summary counts every row once. A command that fails leaves both.        *)
ReportsWhole ==
    [][reports' # reports =>
        /\ Copied(rows, markdown) /\ Len(rows) = Len(results.baseline)
        /\ \A i \in DOMAIN markdown: "summary" \in DOMAIN markdown[i] =>
              LET counts == markdown[i].summary
              IN counts.faster + counts.slower + counts.tie = Len(rows)
        /\ exit' = 0]_vars
===============================================================================
