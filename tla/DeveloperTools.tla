----------------------------- MODULE DeveloperTools -----------------------------
(* One of the three command-line tools: the two that compare snapshots     *)
(* work over small folders that hold the snapshots of both.                *)
EXTENDS RegressionTables

CONSTANTS Sessions, Folders, ExampleSessions, Files

(* The names in a folder are different texts; a snapshot is a list.        *)
ASSUME FoldersAssumption ==
    /\ Alphabet \in Seq(Range(Alphabet))
    /\ \A folder \in Folders:
          /\ \A e \in folder.entries: e.name \in Seq(Range(Alphabet))
          /\ \A e, f \in folder.entries: e.name = f.name => e = f
          /\ \A path \in DOMAIN folder.files:
                folder.files[path].entries \in Seq(Range(folder.files[path].entries))

VARIABLES tool, disk, todo, pc, unseen, newest, sides, filter, results, at, suite,
          screen, rows, markdown, listed, reports, exit, registry, counters, chosen, spans

Custom == INSTANCE CustomRegression
Google == INSTANCE GoogleRegression
Examples == INSTANCE ExampleRunner WITH Sessions <- ExampleSessions

examplesVars == <<registry, counters, chosen, spans>>
regressionVars == <<disk, unseen, newest, sides, filter, results, suite, rows, markdown, reports>>

Init ==
    \/ /\ (tool = "custom" /\ Custom!Init) \/ (tool = "google" /\ Google!Init)
       /\ registry = <<>> /\ counters = Examples!NoCounters /\ chosen = <<>> /\ spans = 0
    \/ /\ tool = "examples" /\ Examples!Init
       /\ disk = [entries |-> {}, files |-> <<>>] /\ unseen = {} /\ newest = Custom!NoVersion
       /\ sides = Custom!Started.sides /\ filter = {} /\ results = Custom!Started.results
       /\ suite = Custom!Started.suite /\ rows = <<>> /\ markdown = <<>> /\ reports = <<>>
Next ==
    \/ tool = "custom" /\ Custom!Next /\ UNCHANGED <<tool, examplesVars>>
    \/ tool = "google" /\ Google!Next /\ UNCHANGED <<tool, examplesVars>>
    \/ tool = "examples" /\ Examples!Next /\ UNCHANGED <<tool, regressionVars>>
Spec == Init /\ [][Next]_<<tool, todo, pc, at, screen, listed, exit, examplesVars, regressionVars>>

(* A regression tool that is given no version compares the newest baseline.*)
NewestCompared ==
    /\ tool = "custom" => Custom!NewestCompared
    /\ tool = "google" => Google!NewestCompared

(* What is compared is compared row by row and side by side.               *)
RowsRight ==
    /\ tool = "custom" => Custom!RowsRight
    /\ tool = "google" => Google!RowsRight

(* A finished comparison has the right baseline and the right rows.        *)
ComparedRight == NewestCompared /\ RowsRight

(* A command denotes what the listings say: `methods` and `list` show all, *)
(* each with the id that stands for it, and what is compared or run is     *)
(* what the id, the letter or the name stands for.                         *)
ListedRight ==
    /\ tool = "custom" => Custom!ListedRight /\ Custom!FilterRight
    /\ tool = "google" => Google!ListedRight /\ Google!FilterRight
    /\ tool = "examples" => Examples!ListedRight /\ Examples!RunsRight


(* The reports of a comparison are of a whole one, and agree.              *)
ReportsWhole == Custom!ReportsWhole
=================================================================================
