--------------------------- MODULE RegressionTables ---------------------------
(***************************************************************************)
(* What the two regression tools share by copy: names of versions and of   *)
(* benchmarks, the order in which they are listed, the classes of a change *)
(* and the cells of a table. A text is a sequence of tokens, one for each  *)
(* character, except that a run of digits is a single token.               *)
(***************************************************************************)
EXTENDS Integers, SequencesExt, TLC

CONSTANTS
    Alphabet,       \* the tokens in the order of their bytes
    UpperOf,        \* the lower-case letters and their capitals
    Utf8Length,     \* the characters of several bytes and their number
    MaxNumeral      \* numbers a text may hold

ASSUME TablesAssumption == MaxNumeral \in Nat

Letters == DOMAIN UpperOf \cup Range(UpperOf)
ToUpper(c) == IF c \in DOMAIN UpperOf THEN UpperOf[c] ELSE c
Rank(c) == IF c \in Range(Alphabet) THEN SelectInSeq(Alphabet, LAMBDA x: x = c) ELSE 0

IsNumeral(token) == \E n \in 0 .. MaxNumeral: token = ToString(n)
Numeral(token) == CHOOSE n \in 0 .. MaxNumeral: token = ToString(n)

(* lexicographical_compare() of two texts, and of their capitals.          *)
Precedes(a, b) ==
    \E k \in 1 .. Len(b):
        /\ k <= Len(a) + 1 /\ \A i \in 1 .. k - 1: a[i] = b[i]
        /\ k <= Len(a) => Rank(a[k]) < Rank(b[k])
Capitals(text) == [i \in DOMAIN text |-> ToUpper(text[i])]
ListedBefore(a, b) == Precedes(Capitals(a), Capitals(b))

-----------------------------------------------------------------------------
(* Versions: major '.' minor '.' patch and whatever follows.               *)

IsVersion(text) ==
    /\ Len(text) >= 5 /\ text[2] = "." /\ text[4] = "."
    /\ IsNumeral(text[1]) /\ IsNumeral(text[3]) /\ IsNumeral(text[5])
Version(name, text) ==
    [number |-> <<Numeral(text[1]), Numeral(text[3]), Numeral(text[5])>>, name |-> name]
StartsWithV(name) == name # <<>> /\ name[1] \in {"v", "V"}
WithoutV(name) == IF StartsWithV(name) THEN Tail(name) ELSE name

(* Baseline's operator<=>: the numbers, then the name. *)
Older(a, b) ==
    \/ \E k \in 1 .. 3: /\ \A i \in 1 .. k - 1: a.number[i] = b.number[i]
                        /\ a.number[k] < b.number[k]
    \/ a.number = b.number /\ Precedes(a.name, b.name)

OldestFirst(baselines) == SetToSortSeq(baselines, Older)

-----------------------------------------------------------------------------
(* A change. The quotient (b - c) / c is infinite when the current side    *)
(* has nothing, which the code counts as a gain.                           *)

Noise(b, c) == b = 0 \/ (c # 0 /\ 100 * (IF b > c THEN b - c ELSE c - b) < c)
Verdict(b, c) == IF Noise(b, c) THEN "tie" ELSE IF b > c THEN "faster" ELSE "slower"

-----------------------------------------------------------------------------
(* Cells. The bytes of a text: how many bytes a character that starts here *)
(* has, 0 for a continuation byte.                                         *)

Repeat(glyph, n) == FlattenSeq([i \in 1 .. n |-> glyph])
Bytes(text) ==
    FlattenSeq([i \in DOMAIN text |->
        LET n == IF text[i] \in DOMAIN Utf8Length THEN Utf8Length[text[i]] ELSE 1
        IN <<n>> \o [k \in 1 .. n - 1 |-> 0]])
Blank == <<1>>
Ellipsis == <<3, 0, 0>>

DisplayWidth(bytes) == Len(SelectSeq(bytes, LAMBDA b: b # 0))


PadCell(bytes, width) ==
    bytes \o Repeat(Blank, IF DisplayWidth(bytes) >= width THEN 0 ELSE width - DisplayWidth(bytes))

TruncateCell(bytes, width) ==
    LET taken[i \in 1 .. Len(bytes) + 1, cols \in 0 .. Len(bytes)] ==
            IF i > Len(bytes) \/ cols >= width - 1 THEN <<>>
            ELSE SubSeq(bytes, i, i + bytes[i] - 1) \o taken[i + bytes[i], cols + 1]
    IN IF width <= 0 THEN <<>>
       ELSE IF DisplayWidth(bytes) <= width THEN bytes
       ELSE taken[1, 0] \o Ellipsis

(* The bar of a value: tenths of the larger one, rounded, shaded or not.   *)
BarW == 10
Bar(ns, maxNs) ==
    LET filled == IF maxNs <= 0 THEN 0 ELSE (2 * ns * BarW + maxNs) \div (2 * maxNs)
    IN Repeat(<<3, 0, 0>>, IF filled > BarW THEN BarW ELSE filled)
       \o Repeat(<<3, 0, 0>>, IF filled > BarW THEN 0 ELSE BarW - filled)

Digits(n) == Len(ToString(n))
RoundedTo(n, unit) == (2 * n + unit) \div (2 * unit)

(* formatMagnitude() of ns / unit: two decimals as long as that makes at   *)
(* most five digits before rounding.                                       *)
FormatMagnitude(ns, unit) ==
    LET digits == Digits(ns \div unit)
        decimals == IF digits <= 3 THEN 2 ELSE IF digits = 4 THEN 1 ELSE 0
        coarse == IF digits > 5 THEN 10 ^ (digits - 5) ELSE 1
    IN [value |-> RoundedTo(ns * 10 ^ decimals, unit * coarse) * coarse, decimals |-> decimals]

FormatDuration(ns) ==
    CASE ns < 1000 -> [value |-> ns, decimals |-> 0, unit |-> "ns"]
      [] ns \in 1000 .. 999999 -> FormatMagnitude(ns, 1000) @@ [unit |-> "us"]
      [] ns \in 1000000 .. 999999999 -> FormatMagnitude(ns, 1000000) @@ [unit |-> "ms"]
      [] OTHER -> FormatMagnitude(ns, 1000000000) @@ [unit |-> "s"]

DurationText(ns) ==
    LET shown == FormatDuration(ns)
        whole == Digits(shown.value \div 10 ^ shown.decimals)
        width == whole + (IF shown.decimals = 0 THEN 0 ELSE 1 + shown.decimals) + 1 + Len(shown.unit)
    IN Repeat(Blank, width)

(* "+12.5%": sign, whole percents, one decimal; or "+inf%". *)
DeltaText(b, c) ==
    LET gap == IF b > c THEN b - c ELSE c - b
        tenths == IF c = 0 THEN 0 ELSE RoundedTo(1000 * gap, c)
    IN Repeat(Blank, IF b # 0 /\ c = 0 THEN 5 ELSE Digits(IF b = 0 THEN 0 ELSE tenths \div 10) + 4)
Arrow == <<3, 0, 0>> \o Blank

Border(kind, widths) == [kind |-> kind, widths |-> widths]
CellLine(kind, cells) == [kind |-> kind, widths |-> [i \in DOMAIN cells |-> DisplayWidth(cells[i])]]
ValueCell(ns, maxNs) == Blank \o PadCell(DurationText(ns), 10) \o Blank \o Bar(ns, maxNs)
-----------------------------------------------------------------------------
(* What the properties of the tools are stated with.                       *)

(* The names that an id, a letter or a whole name stands for: the Nth of   *)
(* its initial in the order of the listing, all of it, or itself.          *)
Denoted(typed, names) ==
    LET Initial(n) == ToUpper(n[1]) = ToUpper(typed[1])
    IN IF Len(typed) = 2 /\ typed[1] \in Letters /\ IsNumeral(typed[2])
       THEN {n \in names: Initial(n) /\ Numeral(typed[2]) =
                 1 + Cardinality({m \in names: Initial(m) /\ ListedBefore(m, n)})}
       ELSE IF Len(typed) = 1 /\ typed[1] \in Letters THEN {n \in names: Initial(n)}
       ELSE {n \in names: n = typed}

(* The lines of a report that hold a row are all the rows, in their order. *)
Copied(rows, markdown) ==
    LET lines == {i \in DOMAIN markdown: "row" \in DOMAIN markdown[i]}
    IN /\ Cardinality(lines) = Len(rows)
       /\ \A i \in lines: markdown[i].row = rows[Cardinality({j \in lines: j <= i})]

(* Tables one after the other, each closed, and all of its lines as wide.  *)
WellDrawn(lines) ==
    \A i \in DOMAIN lines:
        /\ lines[i].kind = "top" <=> (i = 1 \/ lines[i - 1].kind = "bottom")
        /\ lines[i].kind # "top" => lines[i].widths = lines[i - 1].widths
        /\ lines[i].kind = "header" <=> (i > 1 /\ lines[i - 1].kind = "top")
        /\ lines[i].kind \in {"middle", "bottom"} => lines[i - 1].kind \in {"header", "row"}
===============================================================================
