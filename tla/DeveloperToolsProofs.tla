------------------------- MODULE DeveloperToolsProofs -------------------------
(***************************************************************************)
(* What holds of the comparisons of the two regression tools, for          *)
(* snapshots of any number of entries, any folder and any commands.        *)
(*                                                                         *)
(* The reports: nothing is written before the two sides are loaded, then   *)
(* as many rows as entries were passed, each of them once in the Markdown; *)
(* the summary is added when all are there (ReportInv).                    *)
(*                                                                         *)
(* What is compared: the candidate is the newest of the versions the       *)
(* iterator has yielded, in an order that is total on names (NewestInv).   *)
(*                                                                         *)
(* The rows: a filter keeps entries in their order, so that the first      *)
(* match among what it keeps is the first of all (RowsInv).                *)
(***************************************************************************)
EXTENDS DeveloperTools, FiniteSetTheorems, SequenceTheorems, WellFoundedInduction, TLAPS

-----------------------------------------------------------------------------
(* Sequences. *)

IsList(s) == \E S: s \in Seq(S)

LEMMA ListElements ==
  ASSUME NEW s, IsList(s)
  PROVE  Len(s) \in Nat /\ DOMAIN s = 1 .. Len(s)
  BY DEF IsList

LEMMA Appended ==
  ASSUME NEW s, IsList(s), NEW x
  PROVE  /\ IsList(Append(s, x)) /\ Append(s, x) = s \o <<x>>
         /\ Len(Append(s, x)) = Len(s) + 1 /\ DOMAIN Append(s, x) = DOMAIN s \cup {Len(s) + 1}
         /\ \A i \in DOMAIN s: Append(s, x)[i] = s[i]
         /\ Append(s, x)[Len(s) + 1] = x
  <1>1. PICK S: s \in Seq(S)
    BY DEF IsList
  <1> DEFINE T == S \cup {x}
  <1>2. s \in Seq(T) /\ x \in T
    BY <1>1
  <1> HIDE DEF T
  <1>3. Append(s, x) \in Seq(T) /\ Append(s, x) = s \o <<x>>
    BY <1>2
  <1>4. Len(Append(s, x)) = Len(s) + 1 /\ DOMAIN s = 1 .. Len(s) /\ Len(s) \in Nat
    BY <1>2
  <1>5. DOMAIN Append(s, x) = 1 .. Len(s) + 1
    BY <1>3, <1>4
  <1>6. 1 .. Len(s) + 1 = (1 .. Len(s)) \cup {Len(s) + 1}
    BY <1>4
  <1>7. \A i \in DOMAIN s: Append(s, x)[i] = s[i]
    BY <1>2, <1>4
  <1>8. Append(s, x)[Len(s) + 1] = x
    BY <1>2
  <1>9. QED
    BY <1>3, <1>4, <1>5, <1>6, <1>7, <1>8 DEF IsList

LEMMA NothingAppended ==
  ASSUME NEW s, IsList(s)
  PROVE  s \o <<>> = s
  <1>1. PICK S: s \in Seq(S)
    BY DEF IsList
  <1>2. QED
    BY <1>1

Below == {pair \in Nat \X Nat: pair[1] < pair[2]}

LEMMA BelowWellFounded == IsWellFoundedOn(Below, Nat)
  BY NatLessThanWellFounded DEF OpToRel, Below

LEMMA Least ==
  ASSUME NEW S, S \subseteq Nat, S # {}
  PROVE  Min(S) \in S /\ \A n \in S: Min(S) <= n
  <1>1. PICK m \in S: \A n \in S: <<n, m>> \notin Below
    BY BelowWellFounded, WFMin
  <1>2. \A n \in S: <<n, m>> \in Nat \X Nat /\ <<n, m>>[1] = n /\ <<n, m>>[2] = m
    OBVIOUS
  <1>3. \A n \in S: ~(n < m)
    BY <1>1, <1>2 DEF Below
  <1>4. \A n \in S: m <= n
    BY <1>3
  <1>5. QED
    BY <1>4 DEF Min

(* Texts are put one after the other. *)
LEMMA FlattenedBySteps ==
  ASSUME NEW s, Len(s) \in Nat, Len(s) # 0
  PROVE  \E f: /\ \A i \in 1 .. Len(s): f[i] = IF i = 1 THEN s[i] ELSE f[i - 1] \o s[i]
              /\ FlattenSeq(s) = f[Len(s)]
  <1> DEFINE n == Len(s)
             Upto(f, m) == f = [i \in 1 .. m |-> IF i = 1 THEN s[i] ELSE f[i - 1] \o s[i]]
             Bad == {m \in 1 .. n: \A f: ~Upto(f, m)}
  <1>1. n \in Nat /\ n # 0
    OBVIOUS
  <1> HIDE DEF n
  <1>2. Bad = {}
    <2>1. SUFFICES ASSUME Bad # {} PROVE FALSE
      OBVIOUS
    <2> DEFINE m == Min(Bad)
    <2>2. m \in Bad /\ \A k \in Bad: m <= k
      <3> HIDE DEF Upto
      <3>1. Bad \subseteq Nat
        BY <1>1
      <3> HIDE DEF Bad
      <3>2. QED
        BY <2>1, <3>1, Least
    <2> HIDE DEF m
    <2>3. m \in 1 .. n /\ \A f: ~Upto(f, m)
      BY <2>2
    <2>4. CASE m = 1
      <3> DEFINE g == [i \in 1 .. m |-> s[1]]
      <3>1. \A i \in 1 .. m: i = 1
        BY <2>4
      <3>2. g = [i \in 1 .. m |-> IF i = 1 THEN s[i] ELSE g[i - 1] \o s[i]]
        BY <3>1
      <3>3. QED
        BY <2>3, <3>2
    <2>5. CASE m # 1
      <3>1. m - 1 \in 1 .. n /\ ~(m <= m - 1)
        BY <1>1, <2>3, <2>5
      <3>2. \E f: Upto(f, m - 1)
        <4> HIDE DEF Upto
        <4>1. QED
          BY <2>2, <3>1
      <3>3. PICK f: Upto(f, m - 1)
        BY <3>2
      <3> DEFINE g == [i \in 1 .. m |-> IF i = 1 THEN s[i] ELSE f[i - 1] \o s[i]]
      <3>4. \A i \in 1 .. m - 1: f[i] = IF i = 1 THEN s[i] ELSE f[i - 1] \o s[i]
        BY <3>3
      <3>5. \A i \in 1 .. m - 1: i \in 1 .. m
        BY <2>3
      <3>6. \A i \in 1 .. m - 1: g[i] = f[i]
        BY <3>4, <3>5
      <3>7. \A i \in 1 .. m: i # 1 => i - 1 \in 1 .. m - 1
        BY <2>3
      <3>8. g = [i \in 1 .. m |-> IF i = 1 THEN s[i] ELSE g[i - 1] \o s[i]]
        BY <3>6, <3>7
      <3>9. QED
        BY <2>3, <3>8
    <2>6. QED
      BY <2>4, <2>5
  <1>3. n \in 1 .. n
    BY <1>1
  <1>4. \E f: Upto(f, n)
    <2> HIDE DEF Upto
    <2>1. QED
      BY <1>2, <1>3
  <1> DEFINE flatten == CHOOSE f: Upto(f, n)
  <1>5. Upto(flatten, n)
    BY <1>4, Zenon
  <1>6. FlattenSeq(s) = flatten[n]
    BY <1>1 DEF FlattenSeq, n
  <1> HIDE DEF flatten
  <1>7. \A i \in 1 .. n: flatten[i] = IF i = 1 THEN s[i] ELSE flatten[i - 1] \o s[i]
    BY <1>5
  <1>8. QED
    BY <1>6, <1>7 DEF n

LEMMA Flattened ==
  ASSUME NEW T, NEW s \in Seq(Seq(T))
  PROVE  FlattenSeq(s) \in Seq(T)
  <1> DEFINE n == Len(s)
  <1>1. n \in Nat /\ \A i \in 1 .. n: s[i] \in Seq(T)
    OBVIOUS
  <1>2. CASE n = 0
    <2>1. FlattenSeq(s) = <<>>
      BY <1>2, EmptySeq DEF FlattenSeq
    <2>2. QED
      BY <2>1
  <1>3. CASE n # 0
    <2>1. PICK flatten: /\ \A i \in 1 .. n: flatten[i] = IF i = 1 THEN s[i] ELSE flatten[i - 1] \o s[i]
                        /\ FlattenSeq(s) = flatten[n]
      BY <1>1, <1>3, FlattenedBySteps
    <2> HIDE DEF n
    <2> DEFINE Wrong == {i \in 1 .. n: flatten[i] \notin Seq(T)}
    <2>2. Wrong = {}
      <3>1. SUFFICES ASSUME Wrong # {} PROVE FALSE
        OBVIOUS
      <3> DEFINE m == Min(Wrong)
      <3>2. m \in Wrong /\ \A k \in Wrong: m <= k
        <4>1. Wrong \subseteq Nat
          BY <1>1
        <4> HIDE DEF Wrong
        <4>2. QED
          BY <3>1, <4>1, Least
      <3> HIDE DEF m
      <3>3. m \in 1 .. n /\ flatten[m] \notin Seq(T)
        BY <3>2
      <3>4. m # 1 => m - 1 \in 1 .. n /\ ~(m <= m - 1)
        BY <1>1, <3>3
      <3>5. m # 1 => flatten[m - 1] \in Seq(T)
        BY <3>2, <3>4
      <3>6. m # 1 => flatten[m - 1] \o s[m] \in Seq(T)
        BY <1>1, <3>3, <3>5, ConcatProperties
      <3>7. QED
        BY <1>1, <2>1, <3>3, <3>6
    <2>3. n \in 1 .. n
      BY <1>1, <1>3
    <2>4. QED
      BY <2>1, <2>2, <2>3
  <1>4. QED
    BY <1>2, <1>3

(* What a filter lets through. *)
LEMMA Filtered ==
  ASSUME NEW entries, entries \in Seq(Range(entries)), NEW wanted
  PROVE  IsList(Custom!FilterByOperations(entries, wanted))
         /\ IsList(Google!FilterByNames(entries, wanted))
  <1>1. \A s: Custom!FlattenSeq(s) = FlattenSeq(s) /\ Google!FlattenSeq(s) = FlattenSeq(s)
    BY DEF FlattenSeq, Custom!FlattenSeq, Google!FlattenSeq
  <1> DEFINE E == Range(entries)
  <1>3. entries \in Seq(E)
    OBVIOUS
  <1> HIDE DEF E
  <1>2. /\ Len(entries) \in Nat /\ DOMAIN entries = 1 .. Len(entries)
        /\ \A i \in DOMAIN entries: entries[i] \in E
    BY <1>3
  <1>4. ASSUME NEW picked
        PROVE  IsList(FlattenSeq([i \in DOMAIN entries |->
                                     IF i \in picked THEN <<entries[i]>> ELSE <<>>]))
    <2> DEFINE pieces == [i \in DOMAIN entries |-> IF i \in picked THEN <<entries[i]>> ELSE <<>>]
    <2>1. \A i \in DOMAIN entries: pieces[i] \in Seq(E)
      BY <1>2
    <2>2. pieces = [i \in 1 .. Len(entries) |-> pieces[i]]
      BY <1>2
    <2>3. pieces \in Seq(Seq(E))
      <3> HIDE DEF pieces
      <3>1. QED
        BY <1>2, <2>1, <2>2
    <2>4. FlattenSeq(pieces) \in Seq(E)
      BY <2>3, Flattened
    <2>5. QED
      BY <2>4 DEF IsList
  <1>5. IsList(Custom!FilterByOperations(entries, wanted))
    <2> DEFINE picked == {i \in DOMAIN entries: entries[i].operation \in wanted}
    <2>1. [i \in DOMAIN entries |-> IF entries[i].operation \in wanted THEN <<entries[i]>> ELSE <<>>]
          = [i \in DOMAIN entries |-> IF i \in picked THEN <<entries[i]>> ELSE <<>>]
      OBVIOUS
    <2> HIDE DEF picked
    <2>2. QED
      BY <1>1, <1>4, <2>1 DEF Custom!FilterByOperations
  <1>7. IsList(Google!FilterByNames(entries, wanted))
    <2> DEFINE picked == {i \in DOMAIN entries: entries[i].name \in wanted}
    <2>1. [i \in DOMAIN entries |-> IF entries[i].name \in wanted THEN <<entries[i]>> ELSE <<>>]
          = [i \in DOMAIN entries |-> IF i \in picked THEN <<entries[i]>> ELSE <<>>]
      OBVIOUS
    <2> HIDE DEF picked
    <2>2. QED
      BY <1>1, <1>4, <2>1 DEF Google!FilterByNames
  <1>8. QED
    BY <1>5, <1>7

-----------------------------------------------------------------------------
(* Rows and the lines that hold them. *)

LinesOf(text) == {i \in DOMAIN text: "row" \in DOMAIN text[i]}
Place(lines, i) == Cardinality({j \in lines: j <= i})

LEMMA LinesFinite ==
  ASSUME NEW text, IsList(text)
  PROVE  /\ IsFiniteSet(LinesOf(text)) /\ LinesOf(text) \subseteq 1 .. Len(text)
         /\ \A i: IsFiniteSet({j \in LinesOf(text): j <= i})
                  /\ Place(LinesOf(text), i) \in Nat
                  /\ Place(LinesOf(text), i) <= Cardinality(LinesOf(text))
  <1>1. LinesOf(text) \subseteq 1 .. Len(text) /\ Len(text) \in Nat
    BY ListElements DEF LinesOf
  <1>2. IsFiniteSet(LinesOf(text))
    <2>1. IsFiniteSet(1 .. Len(text))
      BY <1>1, FS_Interval
    <2>2. QED
      BY <1>1, <2>1, FS_Subset
  <1>3. ASSUME NEW i
        PROVE  IsFiniteSet({j \in LinesOf(text): j <= i})
               /\ Place(LinesOf(text), i) \in Nat
               /\ Place(LinesOf(text), i) <= Cardinality(LinesOf(text))
    <2>1. {j \in LinesOf(text): j <= i} \subseteq LinesOf(text)
      OBVIOUS
    <2>2. QED
      BY <1>2, <2>1, FS_Subset, FS_CardinalityType DEF Place
  <1>4. QED
    BY <1>1, <1>2, <1>3

(* A row and its line are added together. *)
LEMMA RowCopied ==
  ASSUME NEW text, NEW list, IsList(text), IsList(list), Copied(list, text), NEW r
  PROVE  Copied(Append(list, r), Append(text, [row |-> r]))
  <1> DEFINE more == Append(text, [row |-> r])
             old == LinesOf(text)
             new == LinesOf(more)
             n == Len(text) + 1
  <1>1. /\ Len(text) \in Nat /\ DOMAIN text = 1 .. Len(text)
        /\ Len(list) \in Nat /\ DOMAIN list = 1 .. Len(list)
    BY ListElements
  <1>2. /\ DOMAIN more = DOMAIN text \cup {n}
        /\ \A i \in DOMAIN text: more[i] = text[i]
        /\ more[n] = [row |-> r]
    BY Appended
  <1>3. /\ Len(Append(list, r)) = Len(list) + 1
        /\ \A i \in DOMAIN list: Append(list, r)[i] = list[i]
        /\ Append(list, r)[Len(list) + 1] = r
    BY Appended
  <1>4. IsList(more)
    BY Appended
  <1>5. Cardinality(old) = Len(list) /\ \A i \in old: text[i].row = list[Place(old, i)]
    BY DEF Copied, LinesOf, Place
  <1> HIDE DEF more
  <1>6. new = old \cup {n} /\ n \notin old
    BY <1>1, <1>2 DEF LinesOf
  <1>7. IsFiniteSet(old) /\ old \subseteq 1 .. Len(text)
    BY LinesFinite
  <1> HIDE DEF old, new
  <1>8. Cardinality(new) = Len(list) + 1
    BY <1>5, <1>6, <1>7, FS_AddElement
  <1>9. ASSUME NEW i \in new
        PROVE  more[i].row = Append(list, r)[Place(new, i)]
    <2>1. CASE i = n
      <3>1. \A j \in new: j <= i
        BY <1>1, <1>6, <1>7, <2>1
      <3>2. QED
        <4>1. {j \in new: j <= i} = new
          BY <3>1
        <4>2. Place(new, i) = Len(list) + 1
          BY <1>8, <4>1 DEF Place
        <4>3. QED
          BY <1>2, <1>3, <2>1, <4>2
    <2>2. CASE i # n
      <3>1. i \in old /\ i \in 1 .. Len(text)
        BY <1>6, <1>7, <2>2
      <3>2. {j \in new: j <= i} = {j \in old: j <= i}
        BY <1>1, <1>6, <1>7, <3>1
      <3>3. i \in {j \in old: j <= i} /\ IsFiniteSet({j \in old: j <= i})
            /\ Place(old, i) \in Nat /\ Place(old, i) <= Len(list)
        BY <1>5, <3>1, LinesFinite DEF old
      <3>4. Place(old, i) # 0
        BY <3>3, FS_EmptySet DEF Place
      <3>5. Place(old, i) \in DOMAIN list
        BY <1>1, <3>3, <3>4
      <3>6. QED
        BY <1>1, <1>2, <1>3, <1>5, <3>1, <3>2, <3>5 DEF Place
    <2>3. QED
      BY <2>1, <2>2
  <1>10. QED
    BY <1>3, <1>8, <1>9 DEF Copied, LinesOf, Place, new, more

(* Any other line leaves the copies as they are. *)
LEMMA OtherLineAdded ==
  ASSUME NEW text, NEW list, IsList(text), Copied(list, text), NEW x, "row" \notin DOMAIN x
  PROVE  Copied(list, Append(text, x))
  <1> DEFINE more == Append(text, x)
  <1>1. Len(text) \in Nat /\ DOMAIN text = 1 .. Len(text)
    BY ListElements
  <1>2. /\ DOMAIN more = DOMAIN text \cup {Len(text) + 1}
        /\ \A i \in DOMAIN text: more[i] = text[i]
        /\ more[Len(text) + 1] = x
    BY Appended
  <1> HIDE DEF more
  <1>3. {i \in DOMAIN more: "row" \in DOMAIN more[i]} = {i \in DOMAIN text: "row" \in DOMAIN text[i]}
    BY <1>1, <1>2
  <1>4. \A i \in {i \in DOMAIN text: "row" \in DOMAIN text[i]}: more[i] = text[i]
    BY <1>2
  <1> DEFINE lines == {i \in DOMAIN text: "row" \in DOMAIN text[i]}
  <1>5. /\ Cardinality(lines) = Len(list)
        /\ \A i \in lines: text[i].row = list[Cardinality({j \in lines: j <= i})]
    BY DEF Copied
  <1>6. {i \in DOMAIN more: "row" \in DOMAIN more[i]} = lines /\ \A i \in lines: more[i] = text[i]
    BY <1>3, <1>4
  <1> HIDE DEF lines
  <1>7. Copied(list, more)
    BY <1>5, <1>6 DEF Copied
  <1>8. QED
    BY <1>7 DEF more

(* Every row has one of three verdicts, so that the counts of them add up. *)
LEMMA ThreeParts ==
  ASSUME NEW n \in Nat, NEW a, NEW b, NEW c,
         a \cup b \cup c = 1 .. n, a \cap b = {}, a \cap c = {}, b \cap c = {}
  PROVE  /\ Cardinality(a) \in Nat /\ Cardinality(b) \in Nat /\ Cardinality(c) \in Nat
         /\ Cardinality(a) + Cardinality(b) + Cardinality(c) = n
  <1>1. IsFiniteSet(1 .. n) /\ Cardinality(1 .. n) = n
    BY FS_Interval
  <1>2. IsFiniteSet(a) /\ IsFiniteSet(b) /\ IsFiniteSet(c)
    <2>1. a \subseteq 1 .. n /\ b \subseteq 1 .. n /\ c \subseteq 1 .. n
      OBVIOUS
    <2>2. QED
      BY <1>1, <2>1, FS_Subset
  <1>3. IsFiniteSet(a \cup b) /\ Cardinality(a \cup b) = Cardinality(a) + Cardinality(b)
    <2>1. Cardinality(a \cap b) = 0
      BY FS_EmptySet
    <2>2. Cardinality(a) \in Nat /\ Cardinality(b) \in Nat
      BY <1>2, FS_CardinalityType
    <2>3. /\ IsFiniteSet(a \cup b)
          /\ Cardinality(a \cup b) = Cardinality(a) + Cardinality(b) - Cardinality(a \cap b)
      BY <1>2, FS_Union
    <2>4. QED
      BY <2>1, <2>2, <2>3
  <1>4. Cardinality((a \cup b) \cup c) = Cardinality(a \cup b) + Cardinality(c)
    <2>1. (a \cup b) \cap c = {}
      OBVIOUS
    <2>2. Cardinality((a \cup b) \cap c) = 0
      BY <2>1, FS_EmptySet
    <2>3. Cardinality(a \cup b) \in Nat /\ Cardinality(c) \in Nat
      BY <1>2, <1>3, FS_CardinalityType
    <2>4. Cardinality((a \cup b) \cup c)
              = Cardinality(a \cup b) + Cardinality(c) - Cardinality((a \cup b) \cap c)
      BY <1>2, <1>3, FS_Union
    <2>5. QED
      BY <2>2, <2>3, <2>4
  <1>5. QED
    BY <1>1, <1>2, <1>3, <1>4, FS_CardinalityType

CountOf(verdict) ==
    Cardinality({i \in DOMAIN rows: Verdict(rows[i].baseline_ns, rows[i].current_ns) = verdict})

LEMMA CountsAddUp ==
  ASSUME IsList(rows)
  PROVE  /\ CountOf("faster") \in Nat /\ CountOf("slower") \in Nat /\ CountOf("tie") \in Nat
         /\ CountOf("faster") + CountOf("slower") + CountOf("tie") = Len(rows)
         /\ Custom!Count("faster") = CountOf("faster") /\ Custom!Count("slower") = CountOf("slower")
         /\ Custom!Count("tie") = CountOf("tie")
         /\ Google!Count("faster") = CountOf("faster") /\ Google!Count("slower") = CountOf("slower")
         /\ Google!Count("tie") = CountOf("tie")
  <1> DEFINE V(i) == Verdict(rows[i].baseline_ns, rows[i].current_ns)
             Having(verdict) == {i \in DOMAIN rows: V(i) = verdict}
  <1>1. Len(rows) \in Nat /\ DOMAIN rows = 1 .. Len(rows)
    BY ListElements
  <1>2. \A i: V(i) \in {"faster", "slower", "tie"}
    BY DEF Verdict
  <1> HIDE DEF V
  <1>3. /\ Having("faster") \cup Having("slower") \cup Having("tie") = 1 .. Len(rows)
        /\ Having("faster") \cap Having("slower") = {} /\ Having("faster") \cap Having("tie") = {}
        /\ Having("slower") \cap Having("tie") = {}
    BY <1>1, <1>2
  <1> HIDE DEF Having
  <1>4. /\ Cardinality(Having("faster")) \in Nat /\ Cardinality(Having("slower")) \in Nat
        /\ Cardinality(Having("tie")) \in Nat
        /\ Cardinality(Having("faster")) + Cardinality(Having("slower")) + Cardinality(Having("tie"))
               = Len(rows)
    <2> DEFINE n == Len(rows)
               a == Having("faster")
               b == Having("slower")
               c == Having("tie")
    <2>1. /\ n \in Nat /\ (a \cup b) \cup c = 1 .. n
          /\ a \cap b = {} /\ a \cap c = {} /\ b \cap c = {}
      BY <1>1, <1>3
    <2> HIDE DEF n, a, b, c
    <2>2. /\ Cardinality(a) \in Nat /\ Cardinality(b) \in Nat /\ Cardinality(c) \in Nat
          /\ Cardinality(a) + Cardinality(b) + Cardinality(c) = n
      BY <2>1, ThreeParts
    <2>3. QED
      BY <2>2 DEF n, a, b, c
  <1>5. \A v: CountOf(v) = Cardinality(Having(v))
    BY DEF CountOf, Having, V
  <1>6. \A v: Custom!Count(v) = CountOf(v)
    BY DEF CountOf, Custom!Count, Custom!Verdict, Custom!Noise, Verdict, Noise,
           Cardinality, Custom!Cardinality, Custom!IsFiniteSet, IsFiniteSet
  <1>7. \A v: Google!Count(v) = CountOf(v)
    BY DEF CountOf, Google!Count, Google!Verdict, Google!Noise, Verdict, Noise,
           Cardinality, Google!Cardinality, Google!IsFiniteSet, IsFiniteSet
  <1>8. QED
    BY <1>4, <1>5, <1>6, <1>7

-----------------------------------------------------------------------------
(* How far a comparison is, for the two tools alike.                       *)

Starting == {"main", "latest", "resolve", "load"}
Reporting == {"summary", "json", "md"}
HasSummary(line) == "summary" \in DOMAIN line

Begun ==
    /\ pc \in Starting \cup {"print"} \cup Reporting \cup {"exit"}
    /\ pc # "exit" => exit = 0
    /\ pc \in Starting => rows = <<>> /\ markdown = <<>> /\ at = 1
Copying ==
    pc \in {"print"} \cup Reporting =>
        IsList(rows) /\ IsList(markdown) /\ IsList(results.baseline) /\ Copied(rows, markdown)
Covered ==
    /\ pc = "print" => Len(rows) = at - 1 /\ at \in 1 .. Len(results.baseline) + 1
    /\ pc \in Reporting => Len(rows) = Len(results.baseline)
Summed ==
    /\ pc \in {"print", "summary"} => \A i \in DOMAIN markdown: ~HasSummary(markdown[i])
    /\ pc \in {"json", "md"} => \A i \in DOMAIN markdown: HasSummary(markdown[i]) =>
          LET counts == markdown[i].summary IN counts.faster + counts.slower + counts.tie = Len(rows)

ReportInv ==
    tool \in {"custom", "google"} =>
        disk \in Folders /\ Begun /\ Copying /\ Covered /\ Summed

(* What a step may do to the reports. *)
WholeStep ==
    reports' # reports =>
        /\ Custom!Copied(rows, markdown) /\ Len(rows) = Len(results.baseline)
        /\ \A i \in DOMAIN markdown: "summary" \in DOMAIN markdown[i] =>
              LET counts == markdown[i].summary
              IN counts.faster + counts.slower + counts.tie = Len(rows)
        /\ exit' = 0

LEMMA SameCopied == \A list, text: Custom!Copied(list, text) = Copied(list, text)
  BY DEF Copied, Custom!Copied, Cardinality, Custom!Cardinality, IsFiniteSet, Custom!IsFiniteSet

LEMMA NothingCopied == Copied(<<>>, <<>>)
  <1>1. {i \in DOMAIN <<>>: "row" \in DOMAIN <<>>[i]} = {}
    OBVIOUS
  <1>2. QED
    BY <1>1, FS_EmptySet DEF Copied

(* The steps that the two tools share: up to the load, ... *)
LEMMA StillStarting ==
  ASSUME ReportInv, tool \in {"custom", "google"}, pc \in Starting,
         UNCHANGED <<tool, disk, rows, markdown, at, reports>>,
         (pc' \in Starting /\ exit' = exit) \/ pc' = "exit"
  PROVE  ReportInv' /\ WholeStep
  BY DEF ReportInv, Begun, Copying, Covered, Summed, WholeStep, Starting, Reporting

(* ... the load itself, ... *)
LEMMA Loaded ==
  ASSUME ReportInv, tool \in {"custom", "google"}, pc \in Starting,
         UNCHANGED <<tool, disk, rows, markdown, at, reports, exit>>,
         pc' = "print", IsList(results'.baseline)
  PROVE  ReportInv' /\ WholeStep
  <1>1. rows = <<>> /\ markdown = <<>> /\ at = 1 /\ disk \in Folders /\ exit = 0
    BY DEF ReportInv, Begun, Starting
  <1>2. IsList(<<>>) /\ Len(<<>>) = 0 /\ DOMAIN <<>> = {}
    <2>1. <<>> \in Seq({})
      OBVIOUS
    <2>2. QED
      BY <2>1 DEF IsList
  <1>3. Len(results'.baseline) \in Nat
    BY ListElements
  <1>4. Begun'
    BY <1>1 DEF Begun, Starting, Reporting
  <1>5. Copying'
    BY <1>1, <1>2, NothingCopied DEF Copying
  <1>6. Covered'
    BY <1>1, <1>2, <1>3 DEF Covered, Reporting
  <1>7. Summed'
    BY <1>1, <1>2 DEF Summed
  <1>8. QED
    BY <1>1, <1>4, <1>5, <1>6, <1>7 DEF ReportInv, WholeStep

(* ... a row, with a heading before it or not, ... *)
LEMMA RowAdded ==
  ASSUME ReportInv, tool \in {"custom", "google"}, pc = "print", at <= Len(results.baseline),
         UNCHANGED <<tool, disk, pc, results, reports, exit>>, at' = at + 1,
         NEW r, rows' = Append(rows, r),
         NEW heading, heading \in {<<>>} \/ \E h: heading = <<[heading |-> h]>>,
         markdown' = markdown \o heading \o <<[row |-> r]>>
  PROVE  ReportInv' /\ WholeStep
  <1>1. /\ IsList(rows) /\ IsList(markdown) /\ IsList(results.baseline) /\ Copied(rows, markdown)
        /\ Len(rows) = at - 1 /\ at \in 1 .. Len(results.baseline) + 1
        /\ disk \in Folders /\ exit = 0
        /\ \A i \in DOMAIN markdown: ~HasSummary(markdown[i])
    BY DEF ReportInv, Begun, Copying, Covered, Summed
  <1> DEFINE above == markdown \o heading
  <1>2. IsList(above) /\ Copied(rows, above) /\ \A i \in DOMAIN above: ~HasSummary(above[i])
    <2>1. CASE heading = <<>>
      BY <1>1, <2>1, NothingAppended
    <2>2. CASE \E h: heading = <<[heading |-> h]>>
      <3>1. PICK h: heading = <<[heading |-> h]>>
        BY <2>2
      <3> DEFINE line == [heading |-> h]
      <3>2. "row" \notin DOMAIN line /\ ~HasSummary(line)
        BY DEF HasSummary
      <3>3. heading = <<line>>
        BY <3>1
      <3> HIDE DEF line
      <3>4. above = Append(markdown, line)
        BY <1>1, <3>3, Appended
      <3>5. /\ IsList(above) /\ DOMAIN above = DOMAIN markdown \cup {Len(markdown) + 1}
            /\ \A i \in DOMAIN markdown: above[i] = markdown[i]
            /\ above[Len(markdown) + 1] = line
        <4> DEFINE more == Append(markdown, line)
        <4>1. /\ IsList(more) /\ DOMAIN more = DOMAIN markdown \cup {Len(markdown) + 1}
              /\ \A i \in DOMAIN markdown: more[i] = markdown[i]
              /\ more[Len(markdown) + 1] = line
          BY <1>1, Appended, Zenon
        <4>2. above = more
          BY <3>4
        <4> HIDE DEF above, more
        <4>3. QED
          BY <4>1, <4>2
      <3>6. Copied(rows, above)
        BY <1>1, <3>2, <3>4, OtherLineAdded
      <3>7. QED
        BY <1>1, <3>2, <3>5, <3>6
    <2>3. QED
      BY <2>1, <2>2
  <1> HIDE DEF above
  <1>3. markdown' = Append(above, [row |-> r])
    BY <1>2, Appended DEF above
  <1>4. /\ IsList(markdown') /\ IsList(rows') /\ Len(rows') = Len(rows) + 1
        /\ DOMAIN markdown' = DOMAIN above \cup {Len(above) + 1}
        /\ \A i \in DOMAIN above: markdown'[i] = above[i]
        /\ markdown'[Len(above) + 1] = [row |-> r]
    <2>1. IsList(rows') /\ Len(rows') = Len(rows) + 1
      BY <1>1, Appended
    <2> DEFINE more == Append(above, [row |-> r])
    <2>2. /\ IsList(more) /\ DOMAIN more = DOMAIN above \cup {Len(above) + 1}
          /\ \A i \in DOMAIN above: more[i] = above[i]
          /\ more[Len(above) + 1] = [row |-> r]
      BY <1>2, Appended
    <2>3. markdown' = more
      BY <1>3
    <2> HIDE DEF more
    <2>4. QED
      BY <2>1, <2>2, <2>3
  <1>5. Copied(rows', markdown')
    BY <1>1, <1>2, <1>3, RowCopied
  <1>6. ~HasSummary([row |-> r])
    BY DEF HasSummary
  <1>7. \A i \in DOMAIN markdown': ~HasSummary(markdown'[i])
    BY <1>2, <1>4, <1>6
  <1>8. Len(results.baseline) \in Nat
    BY <1>1, ListElements
  <1>9. Len(rows') = at' - 1 /\ at' \in 1 .. Len(results'.baseline) + 1
    BY <1>1, <1>4, <1>8
  <1>10. QED
    BY <1>1, <1>4, <1>5, <1>7, <1>9
       DEF ReportInv, Begun, Copying, Covered, Summed, WholeStep, Starting, Reporting

(* ... the end of the rows, ... *)
LEMMA RowsEnded ==
  ASSUME ReportInv, tool \in {"custom", "google"}, pc = "print", at > Len(results.baseline),
         UNCHANGED <<tool, disk, rows, markdown, results, reports, exit>>, pc' = "summary"
  PROVE  ReportInv' /\ WholeStep
  <1>1. IsList(results.baseline) /\ Len(rows) = at - 1 /\ at \in 1 .. Len(results.baseline) + 1
    BY DEF ReportInv, Copying, Covered
  <1>2. Len(rows) = Len(results.baseline)
    BY <1>1, ListElements
  <1>3. QED
    BY <1>2 DEF ReportInv, Begun, Copying, Covered, Summed, WholeStep, Starting, Reporting

(* ... the summary, ... *)
LEMMA SummaryAdded ==
  ASSUME ReportInv, tool \in {"custom", "google"}, pc = "summary", pc' = "json",
         UNCHANGED <<tool, disk, rows, results, reports, exit>>,
         \/ UNCHANGED markdown
         \/ markdown' = Append(markdown, [summary |-> [faster |-> CountOf("faster"),
                                  slower |-> CountOf("slower"), tie |-> CountOf("tie")]])
  PROVE  ReportInv' /\ WholeStep
  <1>1. /\ IsList(rows) /\ IsList(markdown) /\ IsList(results.baseline) /\ Copied(rows, markdown)
        /\ Len(rows) = Len(results.baseline) /\ disk \in Folders /\ exit = 0
        /\ \A i \in DOMAIN markdown: ~HasSummary(markdown[i])
    BY DEF ReportInv, Begun, Copying, Covered, Summed, Reporting
  <1> DEFINE line == [summary |-> [faster |-> CountOf("faster"),
                                   slower |-> CountOf("slower"), tie |-> CountOf("tie")]]
             counts == line.summary
  <1>2. counts.faster + counts.slower + counts.tie = Len(rows)
    BY <1>1, CountsAddUp
  <1>3. /\ IsList(markdown') /\ Copied(rows, markdown')
        /\ \A i \in DOMAIN markdown': HasSummary(markdown'[i]) => markdown'[i] = line
    <2>1. CASE UNCHANGED markdown
      BY <1>1, <2>1
    <2>2. CASE markdown' = Append(markdown, line)
      <3>1. "row" \notin DOMAIN line
        OBVIOUS
      <3> HIDE DEF line
      <3>2. IsList(markdown') /\ Copied(rows, markdown')
        BY <1>1, <2>2, <3>1, Appended, OtherLineAdded
      <3>3. /\ DOMAIN markdown' = DOMAIN markdown \cup {Len(markdown) + 1}
            /\ \A i \in DOMAIN markdown: markdown'[i] = markdown[i]
            /\ markdown'[Len(markdown) + 1] = line
        BY <1>1, <2>2, Appended
      <3>4. QED
        BY <1>1, <3>2, <3>3
    <2>3. QED
      BY <2>1, <2>2
  <1> HIDE DEF line
  <1>4. QED
    BY <1>1, <1>2, <1>3 DEF ReportInv, Begun, Copying, Covered, Summed, WholeStep, Starting, Reporting

(* ... the two reports, ... *)
LEMMA ReportWritten ==
  ASSUME ReportInv, tool \in {"custom", "google"}, pc \in {"json", "md"},
         UNCHANGED <<tool, disk, rows, markdown, results>>, exit' = 0, pc' \in {"md", "exit"}
  PROVE  ReportInv' /\ WholeStep
  <1>1. WholeStep
    BY SameCopied DEF ReportInv, Copying, Covered, Summed, Reporting, HasSummary, WholeStep
  <1>2. ReportInv'
    BY DEF ReportInv, Begun, Copying, Covered, Summed, Starting, Reporting, HasSummary
  <1>3. QED
    BY <1>1, <1>2

(* ... and the end of a command, or the start of the next.                 *)
LEMMA CommandEnded ==
  ASSUME ReportInv, tool \in {"custom", "google"}, UNCHANGED <<tool, disk, reports>>,
         \/ pc' = "exit"
         \/ pc' = "main" /\ rows' = <<>> /\ markdown' = <<>> /\ at' = 1 /\ exit' = 0
  PROVE  ReportInv' /\ WholeStep
  BY DEF ReportInv, Begun, Copying, Covered, Summed, WholeStep, Starting, Reporting

-----------------------------------------------------------------------------
(* Each step of a tool is one of these.                                    *)

LEMMA CustomSteps ==
  ASSUME ReportInv, tool = "custom", Custom!Next, tool' = tool
  PROVE  ReportInv' /\ WholeStep
  <1>1. CASE Custom!PrintList
    BY <1>1, CommandEnded DEF Custom!PrintList, Custom!Fail
  <1>2. CASE Custom!PrintMethods
    BY <1>2, CommandEnded DEF Custom!PrintMethods, Custom!Fail
  <1>3. CASE Custom!PrintUsage
    BY <1>3, CommandEnded DEF Custom!PrintUsage
  <1>4. CASE Custom!ReadArguments
    BY <1>4, StillStarting DEF Custom!ReadArguments, Starting
  <1>5. CASE Custom!LatestBaseline
    BY <1>5, StillStarting DEF Custom!LatestBaseline, Custom!Fail, Starting
  <1>6. CASE Custom!LatestFound
    BY <1>6, StillStarting DEF Custom!LatestFound, Custom!Fail, Starting
  <1>7. CASE Custom!Resolve
    BY <1>7, StillStarting DEF Custom!Resolve, Custom!Fail, Starting
  <1>8. CASE Custom!Load
    <2>1. CASE pc' = "exit"
      BY <1>8, <2>1, CommandEnded DEF Custom!Load
    <2>2. CASE pc' # "exit"
      <3>1. /\ Custom!Loadable(sides.baseline)
            /\ results'.baseline = Custom!ApplyMethodFilter(Custom!LoadResults(sides.baseline))
            /\ pc' = "print" /\ exit' = exit /\ pc = "load"
            /\ UNCHANGED <<disk, rows, markdown, at, reports>>
        BY <1>8, <2>2 DEF Custom!Load, Custom!Fail
      <3> DEFINE entries == disk.files[sides.baseline].entries
      <3>2. disk \in Folders
        BY DEF ReportInv
      <3>3. entries \in Seq(Range(entries))
        BY <3>1, <3>2, FoldersAssumption DEF Custom!Loadable
      <3>4. IsList(entries)
        BY <3>3 DEF IsList
      <3>5. results'.baseline = entries \/ results'.baseline = Custom!FilterByOperations(entries, filter)
        BY <3>1 DEF Custom!ApplyMethodFilter, Custom!LoadResults
      <3> HIDE DEF entries
      <3>6. IsList(results'.baseline)
        BY <3>3, <3>4, <3>5, Filtered
      <3>7. QED
        BY <3>1, <3>6, Loaded DEF Starting
    <2>3. QED
      BY <2>1, <2>2
  <1>9. CASE Custom!Row
    <2> DEFINE entry == results.baseline[at]
               opens == suite.current # entry.suite
               c == Custom!GetCns(results.current, entry.operation, entry.iterations)
               record == [suite |-> entry.suite, operation |-> entry.operation,
                          iteration |-> entry.iterations, baseline_ns |-> entry.ns,
                          current_ns |-> c]
               heading == IF opens THEN <<[heading |-> entry.suite]>> ELSE <<>>
    <2>1. /\ pc = "print" /\ at <= Len(results.baseline) /\ at' = at + 1
          /\ rows' = Append(rows, record) /\ markdown' = markdown \o heading \o <<[row |-> record]>>
          /\ UNCHANGED <<disk, pc, results, reports, exit>>
      BY <1>9, Zenon DEF Custom!Row
    <2>2. heading \in {<<>>} \/ \E h: heading = <<[heading |-> h]>>
      OBVIOUS
    <2> HIDE DEF record, heading
    <2>3. QED
      BY <2>1, <2>2, RowAdded
  <1>10. CASE Custom!LastTable
    BY <1>10, RowsEnded, Zenon DEF Custom!LastTable
  <1>11. CASE Custom!PrintSummary
    <2>1. \/ UNCHANGED markdown
          \/ markdown' = Append(markdown, [summary |-> [faster |-> Custom!Count("faster"),
                                  slower |-> Custom!Count("slower"), tie |-> Custom!Count("tie")]])
      BY <1>11 DEF Custom!PrintSummary
    <2>2. IsList(rows)
      BY <1>11 DEF Custom!PrintSummary, ReportInv, Copying, Reporting
    <2>3. UNCHANGED <<disk, rows, results, reports, exit>> /\ pc = "summary" /\ pc' = "json"
      BY <1>11 DEF Custom!PrintSummary
    <2>4. QED
      BY <2>1, <2>2, <2>3, CountsAddUp, SummaryAdded
  <1>12. CASE Custom!ExportJson
    <2>1. exit = 0
      BY <1>12 DEF Custom!ExportJson, ReportInv, Begun
    <2>2. QED
      BY <1>12, <2>1, ReportWritten DEF Custom!ExportJson
  <1>13. CASE Custom!ExportMarkdown
    BY <1>13, ReportWritten DEF Custom!ExportMarkdown
  <1>14. CASE Custom!NextCommand
    BY <1>14, CommandEnded, Zenon DEF Custom!NextCommand, Custom!Started
  <1>15. QED
    BY <1>1, <1>2, <1>3, <1>4, <1>5, <1>6, <1>7, <1>8, <1>9, <1>10, <1>11, <1>12, <1>13, <1>14
       DEF Custom!Next

LEMMA GoogleSteps ==
  ASSUME ReportInv, tool = "google", Google!Next, tool' = tool
  PROVE  ReportInv' /\ WholeStep
  <1>1. CASE Google!PrintList
    BY <1>1, CommandEnded DEF Google!PrintList, Google!Fail
  <1>2. CASE Google!PrintMethods
    BY <1>2, CommandEnded DEF Google!PrintMethods, Google!Fail
  <1>3. CASE Google!PrintUsage
    BY <1>3, CommandEnded DEF Google!PrintUsage
  <1>4. CASE Google!ReadArguments
    BY <1>4, StillStarting DEF Google!ReadArguments, Starting
  <1>5. CASE Google!LatestBaseline
    BY <1>5, StillStarting DEF Google!LatestBaseline, Google!Fail, Starting
  <1>6. CASE Google!LatestFound
    BY <1>6, StillStarting DEF Google!LatestFound, Google!Fail, Starting
  <1>7. CASE Google!Resolve
    BY <1>7, StillStarting DEF Google!Resolve, Google!Fail, Starting
  <1>8. CASE Google!Load
    <2>1. CASE pc' = "exit"
      BY <1>8, <2>1, CommandEnded DEF Google!Load
    <2>2. CASE pc' # "exit"
      <3>1. /\ Google!Loadable(sides.baseline)
            /\ results'.baseline = Google!ApplyMethodFilter(Google!LoadResults(sides.baseline))
            /\ pc' = "print" /\ exit' = exit /\ pc = "load"
            /\ UNCHANGED <<disk, rows, markdown, at, reports>>
        BY <1>8, <2>2 DEF Google!Load, Google!Fail
      <3> DEFINE entries == disk.files[sides.baseline].entries
      <3>2. disk \in Folders
        BY DEF ReportInv
      <3>3. entries \in Seq(Range(entries))
        BY <3>1, <3>2, FoldersAssumption DEF Google!Loadable
      <3>4. IsList(entries)
        BY <3>3 DEF IsList
      <3>5. results'.baseline = entries \/ results'.baseline = Google!FilterByNames(entries, filter)
        BY <3>1 DEF Google!ApplyMethodFilter, Google!LoadResults
      <3> HIDE DEF entries
      <3>6. IsList(results'.baseline)
        BY <3>3, <3>4, <3>5, Filtered
      <3>7. QED
        BY <3>1, <3>6, Loaded DEF Starting
    <2>3. QED
      BY <2>1, <2>2
  <1>9. CASE Google!Row
    <2> DEFINE entry == results.baseline[at]
               group == Google!BaseName(entry.name)
               c == Google!GetCns(results.current, entry.name)
               record == [name |-> entry.name, baseline_ns |-> entry.real_time, current_ns |-> c]
               heading == IF suite # group THEN <<[heading |-> group]>> ELSE <<>>
    <2>1. /\ pc = "print" /\ at <= Len(results.baseline) /\ at' = at + 1
          /\ rows' = Append(rows, record) /\ markdown' = markdown \o heading \o <<[row |-> record]>>
          /\ UNCHANGED <<disk, pc, results, reports, exit>>
      BY <1>9, Zenon DEF Google!Row
    <2>2. heading \in {<<>>} \/ \E h: heading = <<[heading |-> h]>>
      OBVIOUS
    <2> HIDE DEF record, heading
    <2>3. QED
      BY <2>1, <2>2, RowAdded
  <1>10. CASE Google!LastTable
    BY <1>10, RowsEnded, Zenon DEF Google!LastTable
  <1>11. CASE Google!PrintSummary
    <2>1. \/ UNCHANGED markdown
          \/ markdown' = Append(markdown, [summary |-> [faster |-> Google!Count("faster"),
                                  slower |-> Google!Count("slower"), tie |-> Google!Count("tie")]])
      BY <1>11 DEF Google!PrintSummary
    <2>2. IsList(rows)
      BY <1>11 DEF Google!PrintSummary, ReportInv, Copying, Reporting
    <2>3. UNCHANGED <<disk, rows, results, reports, exit>> /\ pc = "summary" /\ pc' = "json"
      BY <1>11 DEF Google!PrintSummary
    <2>4. QED
      BY <2>1, <2>2, <2>3, CountsAddUp, SummaryAdded
  <1>12. CASE Google!ExportJson
    <2>1. exit = 0
      BY <1>12 DEF Google!ExportJson, ReportInv, Begun
    <2>2. QED
      BY <1>12, <2>1, ReportWritten DEF Google!ExportJson
  <1>13. CASE Google!ExportMarkdown
    BY <1>13, ReportWritten DEF Google!ExportMarkdown
  <1>14. CASE Google!NextCommand
    BY <1>14, CommandEnded, Zenon DEF Google!NextCommand, Google!Started
  <1>15. QED
    BY <1>1, <1>2, <1>3, <1>4, <1>5, <1>6, <1>7, <1>8, <1>9, <1>10, <1>11, <1>12, <1>13, <1>14
       DEF Google!Next

-----------------------------------------------------------------------------
(* The order of names and versions, for names in the alphabet.             *)

Names == Seq(Range(Alphabet))

LEMMA NameFacts ==
  ASSUME NEW a \in Names
  PROVE  Len(a) \in Nat /\ DOMAIN a = 1 .. Len(a) /\ \A i \in 1 .. Len(a): a[i] \in Range(Alphabet)
  BY DEF Names

LEMMA RankIsPlace ==
  ASSUME NEW x \in Range(Alphabet)
  PROVE  Rank(x) \in DOMAIN Alphabet /\ Rank(x) \in Nat /\ Alphabet[Rank(x)] = x
  <1> DEFINE places == {i \in 1 .. Len(Alphabet): Alphabet[i] = x}
  <1>1. Len(Alphabet) \in Nat /\ DOMAIN Alphabet = 1 .. Len(Alphabet)
    BY FoldersAssumption
  <1>2. places \subseteq Nat /\ places # {}
    BY <1>1 DEF Range
  <1>3. Min(places) \in places
    BY <1>2, Least
  <1>4. Rank(x) = Min(places)
    BY <1>2 DEF Rank, SelectInSeq
  <1>5. QED
    BY <1>1, <1>3, <1>4

LEMMA RanksDiffer ==
  ASSUME NEW x \in Range(Alphabet), NEW y \in Range(Alphabet), x # y
  PROVE  Rank(x) \in Nat /\ Rank(y) \in Nat /\ (Rank(x) < Rank(y) \/ Rank(y) < Rank(x))
  <1>1. Rank(x) \in Nat /\ Rank(y) \in Nat /\ Rank(x) # Rank(y)
    BY RankIsPlace
  <1>2. QED
    BY <1>1

(* Of two different names one precedes the other. *)
LEMMA NamesOrdered ==
  ASSUME NEW a \in Names, NEW b \in Names, a # b
  PROVE  Precedes(a, b) \/ Precedes(b, a)
  <1>1. /\ Len(a) \in Nat /\ DOMAIN a = 1 .. Len(a) /\ \A i \in 1 .. Len(a): a[i] \in Range(Alphabet)
        /\ Len(b) \in Nat /\ DOMAIN b = 1 .. Len(b) /\ \A i \in 1 .. Len(b): b[i] \in Range(Alphabet)
    BY NameFacts
  <1> DEFINE n == Len(a)
             m == Len(b)
             Differs(i) == (i <= n \/ i <= m) /\ (i > n \/ i > m \/ a[i] # b[i])
             places == {i \in Nat \ {0}: Differs(i)}
  <1>0. n \in Nat /\ m \in Nat
    BY <1>1
  <1>2. places # {}
    <2>1. SUFFICES ASSUME places = {} PROVE FALSE
      OBVIOUS
    <2> HIDE DEF n, m
    <2>2. \A i \in Nat \ {0}: ~Differs(i)
      BY <2>1
    <2>3. ~(n > m)
      <3>1. n > m => n \in Nat \ {0} /\ Differs(n)
        BY <1>0
      <3>2. QED
        BY <2>2, <3>1
    <2>4. ~(m > n)
      <3>1. m > n => m \in Nat \ {0} /\ Differs(m)
        BY <1>0
      <3>2. QED
        BY <2>2, <3>1
    <2>5. n = m
      BY <1>0, <2>3, <2>4
    <2>6. \A i \in 1 .. n: a[i] = b[i]
      BY <1>0, <2>2, <2>5
    <2>7. a = b
      BY <2>5, <2>6 DEF Names, n, m
    <2>8. QED
      BY <2>7
  <1> DEFINE k == Min(places)
  <1>3. k \in places /\ \A i \in places: k <= i
    <2>1. places \subseteq Nat
      OBVIOUS
    <2> HIDE DEF places
    <2>2. QED
      BY <1>2, <2>1, Least
  <1> HIDE DEF k
  <1>4. k \in Nat /\ k >= 1 /\ (k <= Len(a) \/ k <= Len(b)) /\ Differs(k)
    BY <1>3
  <1>5. \A i \in 1 .. k - 1: i <= Len(a) /\ i <= Len(b) /\ a[i] = b[i]
    <2>1. ASSUME NEW i \in 1 .. k - 1 PROVE i <= Len(a) /\ i <= Len(b) /\ a[i] = b[i]
      <3>1. i \in Nat /\ i >= 1 /\ ~(k <= i) /\ (i <= Len(a) \/ i <= Len(b))
        BY <1>1, <1>4
      <3>2. ~Differs(i)
        BY <1>3, <3>1
      <3>3. QED
        BY <1>1, <3>1, <3>2
    <2>2. QED
      BY <2>1
  <1> HIDE DEF places
  <1>6. k <= Len(a) + 1 /\ k <= Len(b) + 1
    <2>1. CASE k = 1
      BY <1>1, <2>1
    <2>2. CASE k # 1
      <3>1. k - 1 \in 1 .. k - 1
        BY <1>4, <2>2
      <3>2. k - 1 <= Len(a) /\ k - 1 <= Len(b)
        BY <1>5, <3>1
      <3>3. QED
        BY <1>1, <1>4, <3>2
    <2>3. QED
      BY <2>1, <2>2
  <1>7. CASE k > Len(a)
    <2>1. k \in 1 .. Len(b) /\ ~(k <= Len(a))
      BY <1>1, <1>4, <1>7
    <2>2. QED
      BY <1>5, <1>6, <2>1 DEF Precedes
  <1>8. CASE k > Len(b)
    <2>1. k \in 1 .. Len(a) /\ ~(k <= Len(b))
      BY <1>1, <1>4, <1>8
    <2>2. QED
      BY <1>5, <1>6, <2>1 DEF Precedes
  <1>9. CASE ~(k > Len(a)) /\ ~(k > Len(b))
    <2>1. k \in 1 .. Len(a) /\ k \in 1 .. Len(b) /\ a[k] # b[k]
      BY <1>1, <1>4, <1>9
    <2>2. Rank(a[k]) < Rank(b[k]) \/ Rank(b[k]) < Rank(a[k])
      BY <1>1, <2>1, RanksDiffer
    <2>3. QED
      BY <1>5, <1>6, <2>1, <2>2 DEF Precedes
  <1>10. QED
    BY <1>7, <1>8, <1>9

LEMMA PrecedesTransitive ==
  ASSUME NEW a \in Names, NEW b \in Names, NEW c \in Names, Precedes(a, b), Precedes(b, c)
  PROVE  Precedes(a, c)
  <1>1. /\ Len(a) \in Nat /\ \A i \in 1 .. Len(a): Rank(a[i]) \in Nat
        /\ Len(b) \in Nat /\ \A i \in 1 .. Len(b): Rank(b[i]) \in Nat
        /\ Len(c) \in Nat /\ \A i \in 1 .. Len(c): Rank(c[i]) \in Nat
    BY NameFacts, RankIsPlace
  <1>2. PICK k \in 1 .. Len(b): /\ k <= Len(a) + 1 /\ \A i \in 1 .. k - 1: a[i] = b[i]
                                /\ k <= Len(a) => Rank(a[k]) < Rank(b[k])
    BY DEF Precedes
  <1>3. PICK l \in 1 .. Len(c): /\ l <= Len(b) + 1 /\ \A i \in 1 .. l - 1: b[i] = c[i]
                                /\ l <= Len(b) => Rank(b[l]) < Rank(c[l])
    BY DEF Precedes
  <1>4. CASE k < l
    <2>1. k \in 1 .. Len(c) /\ k \in 1 .. l - 1 /\ \A i \in 1 .. k - 1: i \in 1 .. l - 1
      BY <1>1, <1>4
    <2>2. \A i \in 1 .. k - 1: a[i] = c[i]
      BY <1>2, <1>3, <2>1
    <2>3. k <= Len(a) => Rank(a[k]) < Rank(c[k])
      BY <1>2, <1>3, <2>1
    <2>4. QED
      BY <1>2, <2>1, <2>2, <2>3 DEF Precedes
  <1>5. CASE l <= k
    <2>1. l \in 1 .. Len(b) /\ l <= Len(a) + 1 /\ \A i \in 1 .. l - 1: i \in 1 .. k - 1
      BY <1>1, <1>2, <1>5
    <2>2. \A i \in 1 .. l - 1: a[i] = c[i]
      BY <1>2, <1>3, <2>1
    <2>3. l <= Len(a) => Rank(a[l]) < Rank(c[l])
      <3>1. SUFFICES ASSUME l <= Len(a) PROVE Rank(a[l]) < Rank(c[l])
        OBVIOUS
      <3>2. Rank(a[l]) \in Nat /\ Rank(b[l]) \in Nat /\ Rank(c[l]) \in Nat
        BY <1>1, <2>1, <3>1
      <3>3. Rank(b[l]) < Rank(c[l])
        BY <1>1, <1>3, <2>1
      <3>4. CASE l = k
        <4>1. Rank(a[l]) < Rank(b[l])
          BY <1>2, <3>1, <3>4
        <4>2. QED
          BY <3>2, <3>3, <4>1
      <3>5. CASE l # k
        <4>1. l \in 1 .. k - 1
          BY <1>1, <1>5, <3>5
        <4>2. QED
          BY <1>2, <3>3, <4>1
      <3>6. QED
        BY <3>4, <3>5
    <2>4. QED
      BY <2>1, <2>2, <2>3 DEF Precedes
  <1>6. QED
    BY <1>4, <1>5

Versions == [number: {<<i, j, k>>: i \in Nat, j \in Nat, k \in Nat}, name: Names]

(* Older, number by number. *)
LEMMA OlderIs ==
  ASSUME NEW a \in Versions, NEW b \in Versions
  PROVE  /\ \A k \in 1 .. 3: a.number[k] \in Nat /\ b.number[k] \in Nat
         /\ a.name \in Names /\ b.name \in Names
         /\ a.number = b.number <=> \A k \in 1 .. 3: a.number[k] = b.number[k]
         /\ Older(a, b) <=>
              \/ a.number[1] < b.number[1]
              \/ a.number[1] = b.number[1] /\ a.number[2] < b.number[2]
              \/ a.number[1] = b.number[1] /\ a.number[2] = b.number[2] /\ a.number[3] < b.number[3]
              \/ /\ a.number[1] = b.number[1] /\ a.number[2] = b.number[2]
                 /\ a.number[3] = b.number[3] /\ Precedes(a.name, b.name)
  <1>1. PICK a1 \in Nat, a2 \in Nat, a3 \in Nat: a.number = <<a1, a2, a3>>
    BY DEF Versions
  <1>2. PICK b1 \in Nat, b2 \in Nat, b3 \in Nat: b.number = <<b1, b2, b3>>
    BY DEF Versions
  <1>3. /\ \A k \in 1 .. 3: a.number[k] \in Nat /\ b.number[k] \in Nat
        /\ a.name \in Names /\ b.name \in Names
        /\ a.number = b.number <=> \A k \in 1 .. 3: a.number[k] = b.number[k]
    BY <1>1, <1>2 DEF Versions
  <1> DEFINE Before(k) == (\A i \in 1 .. k - 1: a.number[i] = b.number[i]) /\ a.number[k] < b.number[k]
  <1>4. (\E k \in 1 .. 3: Before(k)) <=> Before(1) \/ Before(2) \/ Before(3)
    <2>1. \A k: k \in 1 .. 3 <=> k = 1 \/ k = 2 \/ k = 3
      OBVIOUS
    <2> HIDE DEF Before
    <2>2. QED
      BY <2>1
  <1>5. /\ Before(1) <=> a.number[1] < b.number[1]
        /\ Before(2) <=> a.number[1] = b.number[1] /\ a.number[2] < b.number[2]
        /\ Before(3) <=> /\ a.number[1] = b.number[1] /\ a.number[2] = b.number[2]
                         /\ a.number[3] < b.number[3]
    <2>1. 1 .. 1 - 1 = {} /\ 1 .. 2 - 1 = {1} /\ 1 .. 3 - 1 = {1, 2}
      OBVIOUS
    <2>2. QED
      BY <2>1
  <1>6. a.number = b.number
          <=> a.number[1] = b.number[1] /\ a.number[2] = b.number[2] /\ a.number[3] = b.number[3]
    BY <1>1, <1>2
  <1>7. Older(a, b) <=> \/ \E k \in 1 .. 3: Before(k)
                        \/ a.number = b.number /\ Precedes(a.name, b.name)
    <2> DEFINE After == a.number = b.number /\ Precedes(a.name, b.name)
    <2>1. Older(a, b) = ((\E k \in 1 .. 3: Before(k)) \/ After)
      BY DEF Older
    <2>2. QED
      BY <2>1
  <1> HIDE DEF Before
  <1>8. QED
    BY <1>3, <1>4, <1>5, <1>6, <1>7

LEMMA VersionsOrdered ==
  ASSUME NEW a \in Versions, NEW b \in Versions, a.name # b.name
  PROVE  Older(a, b) \/ Older(b, a)
  <1>1. a.name \in Names /\ b.name \in Names /\ \A k \in 1 .. 3: a.number[k] \in Nat /\ b.number[k] \in Nat
    BY OlderIs
  <1>2. Precedes(a.name, b.name) \/ Precedes(b.name, a.name)
    BY <1>1, NamesOrdered
  <1>3. QED
    BY <1>1, <1>2, OlderIs

LEMMA OlderTransitive ==
  ASSUME NEW a \in Versions, NEW b \in Versions, NEW c \in Versions, Older(a, b), Older(b, c)
  PROVE  Older(a, c)
  <1>1. /\ a.name \in Names /\ b.name \in Names /\ c.name \in Names
        /\ \A k \in 1 .. 3: a.number[k] \in Nat /\ b.number[k] \in Nat /\ c.number[k] \in Nat
    BY OlderIs
  <1>2. Precedes(a.name, b.name) /\ Precedes(b.name, c.name) => Precedes(a.name, c.name)
    BY <1>1, PrecedesTransitive
  <1>3. QED
    BY <1>1, <1>2, OlderIs

-----------------------------------------------------------------------------
(* The newest of the versions that were seen; none, if there is none.      *)

Nothing == [number |-> <<0, 0, 0>>, name |-> <<>>]
NewestOf(seen, version) ==
    \/ seen = {} /\ version = Nothing
    \/ version \in seen /\ \A other \in seen \ {version}: Older(other, version)

LEMMA NewestGrows ==
  ASSUME NEW seen, seen \subseteq Versions, NEW version, NewestOf(seen, version),
         NEW x \in Versions, \A y \in seen \cup {x}: y # Nothing, \A y \in seen: y.name # x.name
  PROVE  NewestOf(seen \cup {x}, IF version = Nothing \/ Older(version, x) THEN x ELSE version)
  <1>1. CASE seen = {} /\ version = Nothing
    BY <1>1 DEF NewestOf
  <1>2. CASE version \in seen /\ \A other \in seen \ {version}: Older(other, version)
    <2>1. version # Nothing /\ version \in Versions /\ version.name # x.name
      BY <1>2
    <2>2. CASE Older(version, x)
      <3>1. \A other \in seen: Older(other, x)
        BY <1>2, <2>1, <2>2, OlderTransitive
      <3>2. QED
        BY <2>2, <3>1 DEF NewestOf
    <2>3. CASE ~Older(version, x)
      <3>1. Older(x, version)
        BY <2>1, <2>3, VersionsOrdered
      <3>2. QED
        BY <1>2, <2>1, <2>3, <3>1 DEF NewestOf
    <2>4. QED
      BY <2>2, <2>3
  <1>3. QED
    BY <1>1, <1>2 DEF NewestOf

Chosen == {"resolve", "load", "print"} \cup Reporting

-----------------------------------------------------------------------------
(* latestBaseline() of the custom tool.                                    *)

CustomParsed(e) == Custom!ParseBaseline(e.name)
CustomSeen == {e \in disk.entries \ unseen: e.isDirectory /\ Custom!IsCustomBaselineName(e.name)}
CustomLatest ==
    /\ pc = "main" => newest = Nothing
    /\ pc = "latest" =>
        /\ Custom!VersionCount = 0 /\ unseen \subseteq disk.entries /\ "baseline" \in DOMAIN sides
        /\ \A e \in CustomSeen: Custom!ParsesAsBaseline(e.name)
        /\ NewestOf({CustomParsed(e): e \in CustomSeen}, newest)
    /\ pc \in Chosen /\ Custom!VersionCount = 0 =>
          \E n \in Custom!Candidates:
              /\ sides.baseline = Custom!BaselinePath(n)
              /\ \A m \in Custom!Candidates \ {n}:
                    Custom!Older(Custom!ParseBaseline(m), Custom!ParseBaseline(n))

LEMMA CustomOrder == \A a, b: Custom!Older(a, b) <=> Older(a, b)
  <1>1. \A x: Custom!Rank(x) = Rank(x)
    BY DEF Rank, Custom!Rank, Range, Custom!Range, SelectInSeq, Custom!SelectInSeq, Min, Custom!Min
  <1>2. \A a, b: Custom!Precedes(a, b) <=> Precedes(a, b)
    BY <1>1 DEF Precedes, Custom!Precedes
  <1>3. QED
    BY <1>2 DEF Older, Custom!Older

LEMMA CustomVersions ==
  ASSUME NEW n \in Names, Custom!IsCustomBaselineName(n), Custom!ParsesAsBaseline(n)
  PROVE  Custom!ParseBaseline(n) \in Versions /\ Custom!ParseBaseline(n).name = n /\ n # <<>>
  <1>1. n # <<>>
    BY DEF Custom!IsCustomBaselineName, Custom!StartsWithV
  <1>2. \A t: Custom!IsNumeral(t) => Custom!Numeral(t) \in Nat
    BY TablesAssumption DEF Custom!IsNumeral, Custom!Numeral
  <1> DEFINE text == Custom!WithoutV(n)
  <1>3. Custom!IsNumeral(text[1]) /\ Custom!IsNumeral(text[3]) /\ Custom!IsNumeral(text[5])
    BY DEF Custom!ParsesAsBaseline, Custom!IsVersion
  <1>4. Custom!ParseBaseline(n) =
            [number |-> <<Custom!Numeral(text[1]), Custom!Numeral(text[3]), Custom!Numeral(text[5])>>, name |-> n]
    BY DEF Custom!ParseBaseline, Custom!Version
  <1> HIDE DEF text
  <1>5. QED
    BY <1>1, <1>2, <1>3, <1>4 DEF Versions

LEMMA CustomSame ==
  ASSUME UNCHANGED <<disk, todo>>
  PROVE  Custom!VersionCount' = Custom!VersionCount /\ Custom!Candidates' = Custom!Candidates
         /\ \A n: Custom!IsCustomBaselineName(n)' <=> Custom!IsCustomBaselineName(n)
  <1>1. Custom!VersionCount' = Custom!VersionCount
    BY DEF Custom!VersionCount, Custom!args
  <1>2. \A n: Custom!IsCustomBaselineName(n)' <=> Custom!IsCustomBaselineName(n)
    BY DEF Custom!IsCustomBaselineName
  <1>3. Custom!Candidates' = Custom!Candidates
    BY <1>2 DEF Custom!Candidates, Custom!IsCustomBaselineName
  <1>4. QED
    BY <1>1, <1>2, <1>3

(* One more entry is seen. *)
LEMMA CustomSeeing ==
  ASSUME disk \in Folders, CustomLatest, Custom!LatestBaseline
  PROVE  CustomLatest'
  <1>1. /\ pc = "latest" /\ Custom!VersionCount = 0 /\ unseen \subseteq disk.entries
        /\ \A e \in CustomSeen: Custom!ParsesAsBaseline(e.name)
        /\ NewestOf({CustomParsed(e): e \in CustomSeen}, newest)
        /\ UNCHANGED <<disk, todo, sides>> /\ "baseline" \in DOMAIN sides
    BY DEF CustomLatest, Custom!LatestBaseline
  <1>2. PICK e \in unseen:
           /\ unseen' = unseen \ {e}
           /\ IF ~e.isDirectory \/ ~Custom!IsCustomBaselineName(e.name)
              THEN UNCHANGED <<pc, exit, newest>>
              ELSE IF ~Custom!ParsesAsBaseline(e.name)
              THEN pc' = "exit"
              ELSE newest' = Custom!Latest(Custom!ParseBaseline(e.name)) /\ UNCHANGED <<pc, exit>>
    BY DEF Custom!LatestBaseline, Custom!Fail
  <1>3. unseen' \subseteq disk'.entries /\ Custom!VersionCount' = 0 /\ e \in disk.entries
    BY <1>1, <1>2, CustomSame
  <1>4. CASE pc' = "exit"
    BY <1>4 DEF CustomLatest, Chosen, Reporting
  <1>5. CASE ~e.isDirectory \/ ~Custom!IsCustomBaselineName(e.name)
    <2>1. CustomSeen' = CustomSeen
      BY <1>1, <1>2, <1>5, CustomSame DEF CustomSeen
    <2>2. {CustomParsed(x): x \in CustomSeen'} = {CustomParsed(x): x \in CustomSeen}
      BY <2>1
    <2>3. pc' = "latest" /\ newest' = newest
      BY <1>1, <1>2, <1>5
    <2>4. QED
      BY <1>1, <1>3, <2>1, <2>3 DEF CustomLatest, CustomParsed, Chosen, Reporting
  <1>6. CASE e.isDirectory /\ Custom!IsCustomBaselineName(e.name) /\ Custom!ParsesAsBaseline(e.name)
    <2> DEFINE seen == {CustomParsed(x): x \in CustomSeen}
               new == CustomParsed(e)
    <2>1. CustomSeen' = CustomSeen \cup {e}
      BY <1>1, <1>2, <1>3, <1>6, CustomSame DEF CustomSeen
    <2>2. \A x \in CustomSeen \cup {e}: /\ x.name \in Names /\ CustomParsed(x) \in Versions
                                     /\ CustomParsed(x).name = x.name /\ x.name # <<>>
      BY <1>1, <1>3, <1>6, FoldersAssumption, CustomVersions DEF CustomSeen, CustomParsed, Names
    <2>3. \A x \in CustomSeen: x.name # e.name
      BY <1>1, <1>2, <1>3, <1>6, FoldersAssumption DEF CustomSeen
    <2>4. /\ seen \subseteq Versions /\ new \in Versions /\ \A y \in seen \cup {new}: y # Nothing
          /\ \A y \in seen: y.name # new.name
      BY <2>2, <2>3 DEF Nothing
    <2>5. newest' = IF newest = Nothing \/ Older(newest, new) THEN new ELSE newest
      BY <1>2, <1>6, CustomOrder DEF Custom!Latest, Custom!NoVersion, Nothing, CustomParsed
    <2>6. NewestOf(seen \cup {new}, newest')
      <3> HIDE DEF seen, new
      <3>1. NewestOf(seen, newest)
        BY <1>1 DEF seen
      <3>2. QED
        BY <2>4, <2>5, <3>1, NewestGrows
    <2>7. {CustomParsed(x): x \in CustomSeen'} = seen \cup {new}
      BY <2>1
    <2>8. \A x \in CustomSeen': Custom!ParsesAsBaseline(x.name)
      BY <1>1, <1>6, <2>1
    <2>9. pc' = "latest"
      BY <1>1, <1>2, <1>6
    <2> HIDE DEF seen, new
    <2>10. NewestOf({CustomParsed(x): x \in CustomSeen'}, newest')
      BY <2>6, <2>7
    <2>11. QED
      BY <1>1, <1>3, <2>8, <2>9, <2>10 DEF CustomLatest, CustomParsed, Chosen, Reporting
  <1>7. QED
    BY <1>2, <1>4, <1>5, <1>6

(* All were seen. *)
LEMMA CustomFound ==
  ASSUME disk \in Folders, CustomLatest, Custom!LatestFound
  PROVE  CustomLatest'
  <1>1. CASE pc' = "exit"
    BY <1>1 DEF CustomLatest, Chosen, Reporting
  <1>2. CASE pc' # "exit"
    <2>1. /\ pc = "latest" /\ unseen = {} /\ newest # Nothing /\ pc' = "resolve"
          /\ sides' = [sides EXCEPT !.baseline = Custom!BaselinePath(newest.name)]
          /\ UNCHANGED <<disk, todo>>
      BY <1>2 DEF Custom!LatestFound, Custom!Fail, Custom!NoVersion, Nothing
    <2>2. /\ \A e \in CustomSeen: Custom!ParsesAsBaseline(e.name)
          /\ NewestOf({CustomParsed(e): e \in CustomSeen}, newest)
      BY <2>1 DEF CustomLatest
    <2>3. PICK e \in CustomSeen:
             /\ newest = CustomParsed(e)
             /\ \A x \in CustomSeen: CustomParsed(x) # newest => Older(CustomParsed(x), newest)
      BY <2>1, <2>2 DEF NewestOf
    <2>4. \A x \in CustomSeen: x.name \in Names /\ CustomParsed(x).name = x.name
      BY <2>2, FoldersAssumption, CustomVersions DEF CustomSeen, CustomParsed, Names
    <2>5. \A m: m \in Custom!Candidates <=> \E x \in CustomSeen: m = x.name
      BY <2>1 DEF Custom!Candidates, CustomSeen
    <2>6. e.name \in Custom!Candidates /\ newest.name = e.name
      BY <2>3, <2>4, <2>5
    <2>7. \A m \in Custom!Candidates \ {e.name}:
             Custom!Older(Custom!ParseBaseline(m), Custom!ParseBaseline(e.name))
      BY <2>3, <2>4, <2>5, CustomOrder DEF CustomParsed
    <2>8. sides'.baseline = Custom!BaselinePath(e.name)
      <3>1. "baseline" \in DOMAIN sides
        BY <2>1 DEF CustomLatest
      <3>2. sides'.baseline = Custom!BaselinePath(newest.name)
        BY <2>1, <3>1
      <3>3. QED
        BY <2>6, <3>2
    <2>9. Custom!Candidates' = Custom!Candidates
      BY <2>1, CustomSame
    <2>10. QED
      BY <2>1, <2>6, <2>7, <2>8, <2>9 DEF CustomLatest
  <1>3. QED
    BY <1>1, <1>2

(* What was chosen stays what it was, until the command ends. *)
LEMMA CustomEnds ==
  ASSUME CustomLatest, pc' = "exit"
  PROVE  CustomLatest'
  BY DEF CustomLatest, Chosen, Reporting

LEMMA CustomStays ==
  ASSUME CustomLatest, pc \in Chosen, pc' \in Chosen, UNCHANGED <<disk, todo, sides>>
  PROVE  CustomLatest'
  BY CustomSame DEF CustomLatest, Chosen, Reporting

LEMMA CustomLatestSteps ==
  ASSUME ReportInv, tool = "custom", CustomLatest, Custom!Next
  PROVE  CustomLatest'
  <1>1. CASE Custom!PrintList \/ Custom!PrintMethods \/ Custom!PrintUsage
    <2>1. pc' = "exit"
      BY <1>1 DEF Custom!PrintList, Custom!PrintMethods, Custom!PrintUsage, Custom!Fail
    <2>2. QED
      BY <2>1, CustomEnds
  <1>2. CASE Custom!ReadArguments
    <2>1. /\ pc = "main" /\ newest' = newest /\ UNCHANGED <<disk, todo>>
          /\ pc' = IF Custom!VersionCount = 0 THEN "latest" ELSE "resolve"
          /\ unseen' = IF Custom!VersionCount = 0 THEN disk.entries ELSE {}
          /\ \E c, b: sides' = [current |-> c, baseline |-> b]
      BY <1>2 DEF Custom!ReadArguments
    <2>2. newest' = Nothing /\ Custom!VersionCount' = Custom!VersionCount /\ "baseline" \in DOMAIN sides'
      BY <2>1, CustomSame DEF CustomLatest
    <2>3. CASE Custom!VersionCount = 0
      <3>1. CustomSeen' = {}
        BY <2>1, <2>3 DEF CustomSeen
      <3>2. {CustomParsed(e): e \in CustomSeen'} = {}
        BY <3>1
      <3>3. NewestOf({CustomParsed(e): e \in CustomSeen'}, newest')
        BY <2>2, <3>2 DEF NewestOf
      <3>4. QED
        BY <2>1, <2>2, <2>3, <3>1, <3>3 DEF CustomLatest, CustomParsed, Chosen, Reporting
    <2>4. CASE Custom!VersionCount # 0
      BY <2>1, <2>2, <2>4 DEF CustomLatest, Chosen, Reporting
    <2>5. QED
      BY <2>3, <2>4
  <1>3. CASE Custom!LatestBaseline
    BY <1>3, CustomSeeing DEF ReportInv
  <1>4. CASE Custom!LatestFound
    BY <1>4, CustomFound DEF ReportInv
  <1>5. CASE Custom!Resolve
    BY <1>5, CustomEnds, CustomStays DEF Custom!Resolve, Custom!Fail, Chosen, Reporting
  <1>6. CASE Custom!Load
    BY <1>6, CustomEnds, CustomStays DEF Custom!Load, Custom!Fail, Chosen, Reporting
  <1>7. CASE Custom!Row
    BY <1>7, CustomStays, Zenon DEF Custom!Row, Chosen, Reporting
  <1>8. CASE Custom!LastTable \/ Custom!PrintSummary
    BY <1>8, CustomStays, Zenon DEF Custom!LastTable, Custom!PrintSummary, Chosen, Reporting
  <1>9. CASE Custom!ExportJson \/ Custom!ExportMarkdown
    BY <1>9, CustomEnds, CustomStays DEF Custom!ExportJson, Custom!ExportMarkdown, Chosen, Reporting
  <1>10. CASE Custom!NextCommand
    BY <1>10, Zenon DEF Custom!NextCommand, Custom!Started, Custom!NoVersion, Nothing,
       CustomLatest, Chosen, Reporting
  <1>11. QED
    BY <1>1, <1>2, <1>3, <1>4, <1>5, <1>6, <1>7, <1>8, <1>9, <1>10 DEF Custom!Next

-----------------------------------------------------------------------------
(* The same of the tool for Google Benchmark's snapshots.                  *)

GoogleParsed(e) == Google!ParseBaseline(e.name)
GoogleSeen == {e \in disk.entries \ unseen: e.isDirectory /\ Google!IsGoogleBaselineName(e.name)}
GoogleLatest ==
    /\ pc = "main" => newest = Nothing
    /\ pc = "latest" =>
        /\ Google!VersionCount = 0 /\ unseen \subseteq disk.entries /\ "baseline" \in DOMAIN sides
        /\ \A e \in GoogleSeen: Google!ParsesAsBaseline(e.name)
        /\ NewestOf({GoogleParsed(e): e \in GoogleSeen}, newest)
    /\ pc \in Chosen /\ Google!VersionCount = 0 =>
          \E n \in Google!Candidates:
              /\ sides.baseline = Google!BaselinePath(n)
              /\ \A m \in Google!Candidates \ {n}:
                    Google!Older(Google!ParseBaseline(m), Google!ParseBaseline(n))

LEMMA GoogleOrder == \A a, b: Google!Older(a, b) <=> Older(a, b)
  <1>1. \A x: Google!Rank(x) = Rank(x)
    BY DEF Rank, Google!Rank, Range, Google!Range, SelectInSeq, Google!SelectInSeq, Min, Google!Min
  <1>2. \A a, b: Google!Precedes(a, b) <=> Precedes(a, b)
    BY <1>1 DEF Precedes, Google!Precedes
  <1>3. QED
    BY <1>2 DEF Older, Google!Older

LEMMA GoogleVersions ==
  ASSUME NEW n \in Names, Google!IsGoogleBaselineName(n), Google!ParsesAsBaseline(n)
  PROVE  Google!ParseBaseline(n) \in Versions /\ Google!ParseBaseline(n).name = n /\ n # <<>>
  <1>1. n # <<>>
    BY DEF Google!IsGoogleBaselineName, Google!StartsWithV
  <1>2. \A t: Google!IsNumeral(t) => Google!Numeral(t) \in Nat
    BY TablesAssumption DEF Google!IsNumeral, Google!Numeral
  <1> DEFINE text == Google!WithoutV(n)
  <1>3. Google!IsNumeral(text[1]) /\ Google!IsNumeral(text[3]) /\ Google!IsNumeral(text[5])
    BY DEF Google!ParsesAsBaseline, Google!IsVersion
  <1>4. Google!ParseBaseline(n) =
            [number |-> <<Google!Numeral(text[1]), Google!Numeral(text[3]), Google!Numeral(text[5])>>, name |-> n]
    BY DEF Google!ParseBaseline, Google!Version
  <1> HIDE DEF text
  <1>5. QED
    BY <1>1, <1>2, <1>3, <1>4 DEF Versions

LEMMA GoogleSame ==
  ASSUME UNCHANGED <<disk, todo>>
  PROVE  Google!VersionCount' = Google!VersionCount /\ Google!Candidates' = Google!Candidates
         /\ \A n: Google!IsGoogleBaselineName(n)' <=> Google!IsGoogleBaselineName(n)
  <1>1. Google!VersionCount' = Google!VersionCount
    BY DEF Google!VersionCount, Google!args
  <1>2. \A n: Google!IsGoogleBaselineName(n)' <=> Google!IsGoogleBaselineName(n)
    BY DEF Google!IsGoogleBaselineName
  <1>3. Google!Candidates' = Google!Candidates
    BY <1>2 DEF Google!Candidates, Google!IsGoogleBaselineName
  <1>4. QED
    BY <1>1, <1>2, <1>3

(* One more entry is seen. *)
LEMMA GoogleSeeing ==
  ASSUME disk \in Folders, GoogleLatest, Google!LatestBaseline
  PROVE  GoogleLatest'
  <1>1. /\ pc = "latest" /\ Google!VersionCount = 0 /\ unseen \subseteq disk.entries
        /\ \A e \in GoogleSeen: Google!ParsesAsBaseline(e.name)
        /\ NewestOf({GoogleParsed(e): e \in GoogleSeen}, newest)
        /\ UNCHANGED <<disk, todo, sides>> /\ "baseline" \in DOMAIN sides
    BY DEF GoogleLatest, Google!LatestBaseline
  <1>2. PICK e \in unseen:
           /\ unseen' = unseen \ {e}
           /\ IF ~e.isDirectory \/ ~Google!IsGoogleBaselineName(e.name)
              THEN UNCHANGED <<pc, exit, newest>>
              ELSE IF ~Google!ParsesAsBaseline(e.name)
              THEN pc' = "exit"
              ELSE newest' = Google!Latest(Google!ParseBaseline(e.name)) /\ UNCHANGED <<pc, exit>>
    BY DEF Google!LatestBaseline, Google!Fail
  <1>3. unseen' \subseteq disk'.entries /\ Google!VersionCount' = 0 /\ e \in disk.entries
    BY <1>1, <1>2, GoogleSame
  <1>4. CASE pc' = "exit"
    BY <1>4 DEF GoogleLatest, Chosen, Reporting
  <1>5. CASE ~e.isDirectory \/ ~Google!IsGoogleBaselineName(e.name)
    <2>1. GoogleSeen' = GoogleSeen
      BY <1>1, <1>2, <1>5, GoogleSame DEF GoogleSeen
    <2>2. {GoogleParsed(x): x \in GoogleSeen'} = {GoogleParsed(x): x \in GoogleSeen}
      BY <2>1
    <2>3. pc' = "latest" /\ newest' = newest
      BY <1>1, <1>2, <1>5
    <2>4. QED
      BY <1>1, <1>3, <2>1, <2>3 DEF GoogleLatest, GoogleParsed, Chosen, Reporting
  <1>6. CASE e.isDirectory /\ Google!IsGoogleBaselineName(e.name) /\ Google!ParsesAsBaseline(e.name)
    <2> DEFINE seen == {GoogleParsed(x): x \in GoogleSeen}
               new == GoogleParsed(e)
    <2>1. GoogleSeen' = GoogleSeen \cup {e}
      BY <1>1, <1>2, <1>3, <1>6, GoogleSame DEF GoogleSeen
    <2>2. \A x \in GoogleSeen \cup {e}: /\ x.name \in Names /\ GoogleParsed(x) \in Versions
                                     /\ GoogleParsed(x).name = x.name /\ x.name # <<>>
      BY <1>1, <1>3, <1>6, FoldersAssumption, GoogleVersions DEF GoogleSeen, GoogleParsed, Names
    <2>3. \A x \in GoogleSeen: x.name # e.name
      BY <1>1, <1>2, <1>3, <1>6, FoldersAssumption DEF GoogleSeen
    <2>4. /\ seen \subseteq Versions /\ new \in Versions /\ \A y \in seen \cup {new}: y # Nothing
          /\ \A y \in seen: y.name # new.name
      BY <2>2, <2>3 DEF Nothing
    <2>5. newest' = IF newest = Nothing \/ Older(newest, new) THEN new ELSE newest
      BY <1>2, <1>6, GoogleOrder DEF Google!Latest, Google!NoVersion, Nothing, GoogleParsed
    <2>6. NewestOf(seen \cup {new}, newest')
      <3> HIDE DEF seen, new
      <3>1. NewestOf(seen, newest)
        BY <1>1 DEF seen
      <3>2. QED
        BY <2>4, <2>5, <3>1, NewestGrows
    <2>7. {GoogleParsed(x): x \in GoogleSeen'} = seen \cup {new}
      BY <2>1
    <2>8. \A x \in GoogleSeen': Google!ParsesAsBaseline(x.name)
      BY <1>1, <1>6, <2>1
    <2>9. pc' = "latest"
      BY <1>1, <1>2, <1>6
    <2> HIDE DEF seen, new
    <2>10. NewestOf({GoogleParsed(x): x \in GoogleSeen'}, newest')
      BY <2>6, <2>7
    <2>11. QED
      BY <1>1, <1>3, <2>8, <2>9, <2>10 DEF GoogleLatest, GoogleParsed, Chosen, Reporting
  <1>7. QED
    BY <1>2, <1>4, <1>5, <1>6

(* All were seen. *)
LEMMA GoogleFound ==
  ASSUME disk \in Folders, GoogleLatest, Google!LatestFound
  PROVE  GoogleLatest'
  <1>1. CASE pc' = "exit"
    BY <1>1 DEF GoogleLatest, Chosen, Reporting
  <1>2. CASE pc' # "exit"
    <2>1. /\ pc = "latest" /\ unseen = {} /\ newest # Nothing /\ pc' = "resolve"
          /\ sides' = [sides EXCEPT !.baseline = Google!BaselinePath(newest.name)]
          /\ UNCHANGED <<disk, todo>>
      BY <1>2 DEF Google!LatestFound, Google!Fail, Google!NoVersion, Nothing
    <2>2. /\ \A e \in GoogleSeen: Google!ParsesAsBaseline(e.name)
          /\ NewestOf({GoogleParsed(e): e \in GoogleSeen}, newest)
      BY <2>1 DEF GoogleLatest
    <2>3. PICK e \in GoogleSeen:
             /\ newest = GoogleParsed(e)
             /\ \A x \in GoogleSeen: GoogleParsed(x) # newest => Older(GoogleParsed(x), newest)
      BY <2>1, <2>2 DEF NewestOf
    <2>4. \A x \in GoogleSeen: x.name \in Names /\ GoogleParsed(x).name = x.name
      BY <2>2, FoldersAssumption, GoogleVersions DEF GoogleSeen, GoogleParsed, Names
    <2>5. \A m: m \in Google!Candidates <=> \E x \in GoogleSeen: m = x.name
      BY <2>1 DEF Google!Candidates, GoogleSeen
    <2>6. e.name \in Google!Candidates /\ newest.name = e.name
      BY <2>3, <2>4, <2>5
    <2>7. \A m \in Google!Candidates \ {e.name}:
             Google!Older(Google!ParseBaseline(m), Google!ParseBaseline(e.name))
      BY <2>3, <2>4, <2>5, GoogleOrder DEF GoogleParsed
    <2>8. sides'.baseline = Google!BaselinePath(e.name)
      <3>1. "baseline" \in DOMAIN sides
        BY <2>1 DEF GoogleLatest
      <3>2. sides'.baseline = Google!BaselinePath(newest.name)
        BY <2>1, <3>1
      <3>3. QED
        BY <2>6, <3>2
    <2>9. Google!Candidates' = Google!Candidates
      BY <2>1, GoogleSame
    <2>10. QED
      BY <2>1, <2>6, <2>7, <2>8, <2>9 DEF GoogleLatest
  <1>3. QED
    BY <1>1, <1>2

(* What was chosen stays what it was, until the command ends. *)
LEMMA GoogleEnds ==
  ASSUME GoogleLatest, pc' = "exit"
  PROVE  GoogleLatest'
  BY DEF GoogleLatest, Chosen, Reporting

LEMMA GoogleStays ==
  ASSUME GoogleLatest, pc \in Chosen, pc' \in Chosen, UNCHANGED <<disk, todo, sides>>
  PROVE  GoogleLatest'
  BY GoogleSame DEF GoogleLatest, Chosen, Reporting

LEMMA GoogleLatestSteps ==
  ASSUME ReportInv, tool = "google", GoogleLatest, Google!Next
  PROVE  GoogleLatest'
  <1>1. CASE Google!PrintList \/ Google!PrintMethods \/ Google!PrintUsage
    <2>1. pc' = "exit"
      BY <1>1 DEF Google!PrintList, Google!PrintMethods, Google!PrintUsage, Google!Fail
    <2>2. QED
      BY <2>1, GoogleEnds
  <1>2. CASE Google!ReadArguments
    <2>1. /\ pc = "main" /\ newest' = newest /\ UNCHANGED <<disk, todo>>
          /\ pc' = IF Google!VersionCount = 0 THEN "latest" ELSE "resolve"
          /\ unseen' = IF Google!VersionCount = 0 THEN disk.entries ELSE {}
          /\ \E c, b: sides' = [current |-> c, baseline |-> b]
      BY <1>2 DEF Google!ReadArguments
    <2>2. newest' = Nothing /\ Google!VersionCount' = Google!VersionCount /\ "baseline" \in DOMAIN sides'
      BY <2>1, GoogleSame DEF GoogleLatest
    <2>3. CASE Google!VersionCount = 0
      <3>1. GoogleSeen' = {}
        BY <2>1, <2>3 DEF GoogleSeen
      <3>2. {GoogleParsed(e): e \in GoogleSeen'} = {}
        BY <3>1
      <3>3. NewestOf({GoogleParsed(e): e \in GoogleSeen'}, newest')
        BY <2>2, <3>2 DEF NewestOf
      <3>4. QED
        BY <2>1, <2>2, <2>3, <3>1, <3>3 DEF GoogleLatest, GoogleParsed, Chosen, Reporting
    <2>4. CASE Google!VersionCount # 0
      BY <2>1, <2>2, <2>4 DEF GoogleLatest, Chosen, Reporting
    <2>5. QED
      BY <2>3, <2>4
  <1>3. CASE Google!LatestBaseline
    BY <1>3, GoogleSeeing DEF ReportInv
  <1>4. CASE Google!LatestFound
    BY <1>4, GoogleFound DEF ReportInv
  <1>5. CASE Google!Resolve
    BY <1>5, GoogleEnds, GoogleStays DEF Google!Resolve, Google!Fail, Chosen, Reporting
  <1>6. CASE Google!Load
    BY <1>6, GoogleEnds, GoogleStays DEF Google!Load, Google!Fail, Chosen, Reporting
  <1>7. CASE Google!Row
    BY <1>7, GoogleStays, Zenon DEF Google!Row, Chosen, Reporting
  <1>8. CASE Google!LastTable \/ Google!PrintSummary
    BY <1>8, GoogleStays, Zenon DEF Google!LastTable, Google!PrintSummary, Chosen, Reporting
  <1>9. CASE Google!ExportJson \/ Google!ExportMarkdown
    BY <1>9, GoogleEnds, GoogleStays DEF Google!ExportJson, Google!ExportMarkdown, Chosen, Reporting
  <1>10. CASE Google!NextCommand
    BY <1>10, Zenon DEF Google!NextCommand, Google!Started, Google!NoVersion, Nothing,
       GoogleLatest, Chosen, Reporting
  <1>11. QED
    BY <1>1, <1>2, <1>3, <1>4, <1>5, <1>6, <1>7, <1>8, <1>9, <1>10 DEF Google!Next

-----------------------------------------------------------------------------
(* What a filter keeps of the first m entries, place by place.             *)

Picked(kept, entries, picked, m) ==
    LET upto == {i \in picked: i <= m}
    IN /\ IsList(kept) /\ Len(kept) = Cardinality(upto)
       /\ \A i \in upto: Place(picked, i) \in 1 .. Len(kept) /\ kept[Place(picked, i)] = entries[i]
       /\ \A p \in 1 .. Len(kept): \E i \in upto: Place(picked, i) = p

LEMMA PartsFinite ==
  ASSUME NEW n \in Nat, NEW picked, picked \subseteq 1 .. n, NEW m
  PROVE  IsFiniteSet({i \in picked: i <= m}) /\ Cardinality({i \in picked: i <= m}) \in Nat
  <1>1. IsFiniteSet(1 .. n)
    BY FS_Interval
  <1>2. {i \in picked: i <= m} \subseteq 1 .. n
    OBVIOUS
  <1>3. QED
    BY <1>1, <1>2, FS_Subset, FS_CardinalityType

LEMMA PickedNone ==
  ASSUME NEW entries, NEW n \in Nat, NEW picked, picked \subseteq 1 .. n
  PROVE  Picked(<<>>, entries, picked, 0)
  <1>0. \A i \in picked: ~(i <= 0)
    <2>1. \A i \in 1 .. n: ~(i <= 0)
      OBVIOUS
    <2>2. QED
      BY <2>1
  <1>1. {i \in picked: i <= 0} = {}
    BY <1>0, Zenon
  <1>2. IsList(<<>>) /\ Len(<<>>) = 0
    <2>1. <<>> \in Seq({})
      OBVIOUS
    <2>2. QED
      BY <2>1 DEF IsList
  <1>3. Cardinality({}) = 0
    BY FS_EmptySet
  <1>4. 1 .. Len(<<>>) = {}
    BY <1>2
  <1> DEFINE upto == {i \in picked: i <= 0}
  <1>5. upto = {}
    BY <1>1
  <1> HIDE DEF upto
  <1>6. /\ IsList(<<>>) /\ Len(<<>>) = Cardinality(upto)
        /\ \A i \in upto: Place(picked, i) \in 1 .. Len(<<>>) /\ <<>>[Place(picked, i)] = entries[i]
        /\ \A p \in 1 .. Len(<<>>): \E i \in upto: Place(picked, i) = p
    BY <1>2, <1>3, <1>4, <1>5, Zenon
  <1>7. QED
    BY <1>6 DEF Picked, upto

LEMMA PickedOn ==
  ASSUME NEW entries, NEW n \in Nat, NEW picked, picked \subseteq 1 .. n,
         NEW m \in 1 .. n, NEW kept, Picked(kept, entries, picked, m - 1)
  PROVE  Picked(kept \o (IF m \in picked THEN <<entries[m]>> ELSE <<>>), entries, picked, m)
  <1> DEFINE before == {i \in picked: i <= m - 1}
             upto == {i \in picked: i <= m}
  <1>1. /\ IsList(kept) /\ Len(kept) = Cardinality(before)
        /\ \A i \in before: Place(picked, i) \in 1 .. Len(kept) /\ kept[Place(picked, i)] = entries[i]
        /\ \A p \in 1 .. Len(kept): \E i \in before: Place(picked, i) = p
    BY DEF Picked
  <1>0. \A i \in picked: i <= m <=> i <= m - 1 \/ i = m
    <2>1. \A i \in 1 .. n: i <= m <=> i <= m - 1 \/ i = m
      OBVIOUS
    <2>2. QED
      BY <2>1
  <1>2. CASE m \notin picked
    <2>1. upto = before
      BY <1>0, <1>2, Zenon
    <2>2. kept \o <<>> = kept
      BY <1>1, NothingAppended
    <2> HIDE DEF before
    <2>3. QED
      BY <1>1, <1>2, <2>1, <2>2 DEF Picked
  <1>3. CASE m \in picked
    <2> DEFINE e == entries[m]
               more == Append(kept, e)
    <2>1. upto = before \cup {m} /\ m \notin before
      <3>1. m <= m /\ ~(m <= m - 1)
        OBVIOUS
      <3>2. QED
        BY <1>0, <1>3, <3>1, Zenon
    <2>2. IsFiniteSet(before) /\ Cardinality(before) \in Nat
      BY PartsFinite
    <2>3. Place(picked, m) = Cardinality(upto)
      BY DEF Place
    <2> HIDE DEF before, upto, e
    <2>4. Cardinality(upto) = Len(kept) + 1 /\ Len(kept) \in Nat
      BY <1>1, <2>1, <2>2, FS_AddElement
    <2>5. /\ IsList(more) /\ more = kept \o <<e>> /\ Len(more) = Len(kept) + 1
          /\ DOMAIN kept = 1 .. Len(kept) /\ \A p \in 1 .. Len(kept): more[p] = kept[p]
          /\ more[Len(kept) + 1] = e
      BY <1>1, Appended, ListElements
    <2> HIDE DEF more
    <2>6. \A i \in upto: Place(picked, i) \in 1 .. Len(more) /\ more[Place(picked, i)] = entries[i]
      <3>1. \A i \in before: Place(picked, i) \in 1 .. Len(more) /\ more[Place(picked, i)] = entries[i]
        BY <1>1, <2>4, <2>5
      <3>2. Place(picked, m) \in 1 .. Len(more) /\ more[Place(picked, m)] = entries[m]
        BY <2>3, <2>4, <2>5 DEF e
      <3>3. QED
        BY <2>1, <3>1, <3>2
    <2>7. \A p \in 1 .. Len(more): \E i \in upto: Place(picked, i) = p
      <3>1. \A p \in 1 .. Len(more): p \in 1 .. Len(kept) \/ p = Len(kept) + 1
        BY <2>4, <2>5
      <3>2. QED
        BY <1>1, <2>1, <2>3, <2>4, <3>1
    <2>8. Picked(more, entries, picked, m)
      BY <2>4, <2>5, <2>6, <2>7 DEF Picked, upto
    <2>9. QED
      BY <1>3, <2>5, <2>8 DEF e
  <1>4. QED
    BY <1>2, <1>3

LEMMA PickedAll ==
  ASSUME NEW entries, IsList(entries), NEW picked, picked \subseteq DOMAIN entries
  PROVE  Picked(FlattenSeq([i \in DOMAIN entries |-> IF i \in picked THEN <<entries[i]>> ELSE <<>>]),
                entries, picked, Len(entries))
  <1> DEFINE n == Len(entries)
             One(i) == IF i \in picked THEN <<entries[i]>> ELSE <<>>
             pieces == [i \in DOMAIN entries |-> One(i)]
  <1>1. n \in Nat /\ DOMAIN entries = 1 .. n
    BY ListElements
  <1> HIDE DEF One
  <1>2. Len(pieces) = n /\ \A i \in 1 .. n: pieces[i] = One(i)
    BY <1>1
  <1>3. \A i \in 1 .. n: \A kept: Picked(kept, entries, picked, i - 1) => Picked(kept \o One(i), entries, picked, i)
    <2> HIDE DEF n
    <2>1. QED
      BY <1>1, PickedOn DEF One
  <1>4. Picked(<<>>, entries, picked, 0)
    <2> HIDE DEF n
    <2>1. QED
      BY <1>1, PickedNone
  <1>5. CASE n = 0
    <2>1. FlattenSeq(pieces) = <<>>
      <3>1. pieces = <<>>
        BY <1>1, <1>5
      <3> HIDE DEF pieces
      <3>2. QED
        BY <1>2, <1>5, <3>1 DEF FlattenSeq
    <2>2. QED
      BY <1>4, <1>5, <2>1 DEF One
  <1>6. CASE n # 0
    <2>0. Len(pieces) \in Nat /\ Len(pieces) # 0
      BY <1>1, <1>2, <1>6
    <2> HIDE DEF n, pieces
    <2>1. PICK f: /\ \A i \in 1 .. n: f[i] = IF i = 1 THEN pieces[i] ELSE f[i - 1] \o pieces[i]
                  /\ FlattenSeq(pieces) = f[n]
      BY <1>2, <2>0, FlattenedBySteps
    <2> DEFINE Wrong == {i \in 1 .. n: ~Picked(f[i], entries, picked, i)}
    <2>2. Wrong = {}
      <3>1. SUFFICES ASSUME Wrong # {} PROVE FALSE
        OBVIOUS
      <3> DEFINE m == Min(Wrong)
      <3>2. m \in Wrong /\ \A k \in Wrong: m <= k
        <4>1. Wrong \subseteq Nat
          BY <1>1
        <4> HIDE DEF Wrong
        <4>2. QED
          BY <3>1, <4>1, Least
      <3> HIDE DEF m
      <3>3. m \in 1 .. n /\ ~Picked(f[m], entries, picked, m)
        BY <3>2
      <3>4. CASE m = 1
        <4>1. f[m] = One(m) /\ <<>> \o One(m) = One(m)
          BY <1>2, <2>1, <3>3, <3>4 DEF One
        <4>2. m - 1 = 0
          BY <3>4
        <4>3. Picked(<<>>, entries, picked, m - 1)
          BY <1>4, <4>2
        <4>4. Picked(<<>> \o One(m), entries, picked, m)
          BY <1>3, <3>3, <4>3
        <4>5. QED
          BY <3>3, <4>1, <4>4
      <3>5. CASE m # 1
        <4>1. m - 1 \in 1 .. n /\ ~(m <= m - 1)
          BY <1>1, <3>3, <3>5
        <4>2. Picked(f[m - 1], entries, picked, m - 1)
          BY <3>2, <4>1
        <4>3. f[m] = f[m - 1] \o One(m)
          BY <1>2, <2>1, <3>3, <3>5
        <4>4. QED
          BY <1>3, <3>3, <4>2, <4>3
      <3>6. QED
        BY <3>4, <3>5
    <2>3. n \in 1 .. n
      BY <1>1, <1>6
    <2>4. QED
      BY <2>1, <2>2, <2>3 DEF n, pieces, One
  <1>7. QED
    BY <1>5, <1>6

(* Without a filter everything is kept where it is. *)
LEMMA PickedWhole ==
  ASSUME NEW entries, IsList(entries), NEW picked, picked = DOMAIN entries
  PROVE  Picked(entries, entries, picked, Len(entries))
  <1> DEFINE n == Len(entries)
  <1>1. n \in Nat /\ picked = 1 .. n
    BY ListElements
  <1> HIDE DEF n
  <1>2. \A i \in 1 .. n: Place(picked, i) = i
    <2>1. ASSUME NEW i \in 1 .. n PROVE Place(picked, i) = i
      <3>1. {j \in picked: j <= i} = 1 .. i
        BY <1>1
      <3>2. Cardinality(1 .. i) = i
        BY <1>1, FS_Interval
      <3>3. QED
        BY <3>1, <3>2 DEF Place
    <2>2. QED
      BY <2>1
  <1>3. {i \in picked: i <= n} = 1 .. n /\ Cardinality(1 .. n) = n
    BY <1>1, FS_Interval
  <1>4. QED
    BY <1>1, <1>2, <1>3 DEF Picked, n

LEMMA PlacesOrdered ==
  ASSUME NEW n \in Nat, NEW picked, picked \subseteq 1 .. n, NEW i \in picked, NEW j \in picked, i < j
  PROVE  Place(picked, i) \in Nat /\ Place(picked, j) \in Nat /\ Place(picked, i) < Place(picked, j)
  <1> DEFINE low == {k \in picked: k <= i}
             high == {k \in picked: k <= j}
  <1>1. IsFiniteSet(low) /\ Cardinality(low) \in Nat /\ IsFiniteSet(high) /\ Cardinality(high) \in Nat
    BY PartsFinite
  <1>2. low \cup {j} \subseteq high /\ j \notin low
    <2>1. \A k \in 1 .. n: k <= i => k <= j
      OBVIOUS
    <2>2. j <= j /\ ~(j <= i)
      OBVIOUS
    <2>3. QED
      BY <2>1, <2>2, Zenon
  <1> HIDE DEF low, high
  <1>3. Cardinality(low \cup {j}) = Cardinality(low) + 1
    BY <1>1, <1>2, FS_AddElement
  <1>4. Cardinality(low \cup {j}) <= Cardinality(high)
    BY <1>1, <1>2, FS_Subset
  <1>5. QED
    BY <1>1, <1>3, <1>4 DEF Place, low, high

(* The first of some entries that are all kept is the first of them among  *)
(* what is kept.                                                           *)
LEMMA FirstOfPicked ==
  ASSUME NEW entries, IsList(entries), NEW picked, picked \subseteq DOMAIN entries,
         NEW kept, Picked(kept, entries, picked, Len(entries)),
         NEW meant, meant \subseteq picked,
         NEW p \in 1 .. Len(kept), NEW i \in meant, Place(picked, i) = p,
         \A k \in meant: Place(picked, k) \notin 1 .. p - 1
  PROVE  \A k \in 1 .. i - 1: k \notin meant
  <1>1. Len(entries) \in Nat /\ DOMAIN entries = 1 .. Len(entries)
    BY ListElements
  <1>2. SUFFICES ASSUME NEW k \in 1 .. i - 1, k \in meant PROVE FALSE
    OBVIOUS
  <1>3. i \in picked /\ k \in picked
    BY <1>2
  <1>4. i \in Nat /\ k \in Nat /\ k < i
    BY <1>1, <1>3
  <1>5. Place(picked, k) \in Nat /\ Place(picked, i) \in Nat /\ Place(picked, k) < Place(picked, i)
    BY <1>1, <1>3, <1>4, PlacesOrdered
  <1>6. Place(picked, k) # 0
    <2>1. k \in {j \in picked: j <= k}
      BY <1>3, <1>4
    <2>2. IsFiniteSet({j \in picked: j <= k})
      BY <1>1, PartsFinite
    <2>3. QED
      BY <2>1, <2>2, FS_EmptySet DEF Place
  <1>7. Place(picked, k) \notin 1 .. p - 1
    BY <1>2
  <1>8. QED
    BY <1>5, <1>6, <1>7

(* What is first among some entries that are all kept is first among them  *)
(* in what is kept, and the other way round.                               *)
SamePlaces(picked, meant, matches) == \A k \in picked: k \in meant <=> Place(picked, k) \in matches
Carried(kept, entries, matches, meant) ==
    /\ matches = {} => meant = {}
    /\ \A p \in matches: (\A q \in 1 .. p - 1: q \notin matches) =>
           \E i \in meant: kept[p] = entries[i] /\ \A k \in 1 .. i - 1: k \notin meant

LEMMA FirstCarried ==
  ASSUME NEW entries, IsList(entries), NEW picked, picked \subseteq DOMAIN entries,
         NEW kept, Picked(kept, entries, picked, Len(entries)),
         NEW meant, meant \subseteq picked, NEW matches, matches \subseteq 1 .. Len(kept),
         SamePlaces(picked, meant, matches)
  PROVE  Carried(kept, entries, matches, meant)
  <1>1. Len(entries) \in Nat /\ DOMAIN entries = 1 .. Len(entries)
    BY ListElements
  <1>2. {i \in picked: i <= Len(entries)} = picked
    BY <1>1
  <1>3. /\ \A i \in picked: Place(picked, i) \in 1 .. Len(kept) /\ kept[Place(picked, i)] = entries[i]
        /\ \A p \in 1 .. Len(kept): \E i \in picked: Place(picked, i) = p
    BY <1>2 DEF Picked
  <1>4. matches = {} => meant = {}
    BY DEF SamePlaces
  <1>5. ASSUME NEW p \in matches, \A q \in 1 .. p - 1: q \notin matches
        PROVE  \E i \in meant: kept[p] = entries[i] /\ \A k \in 1 .. i - 1: k \notin meant
    <2>1. PICK i \in picked: Place(picked, i) = p
      BY <1>3
    <2>2. i \in meant /\ kept[p] = entries[i]
      BY <1>3, <2>1 DEF SamePlaces
    <2>3. \A k \in meant: Place(picked, k) \notin 1 .. p - 1
      BY <1>5 DEF SamePlaces
    <2>4. \A k \in 1 .. i - 1: k \notin meant
      BY <2>1, <2>2, <2>3, FirstOfPicked
    <2>5. QED
      BY <2>2, <2>4
  <1>6. QED
    BY <1>4, <1>5 DEF Carried

-----------------------------------------------------------------------------
(* The rows of the custom tool.                                            *)

CustomWanted(entries) == {i \in DOMAIN entries: filter = {} \/ entries[i].operation \in filter}
CustomMatches(list, e) ==
    {i \in DOMAIN list: list[i].operation = e.operation /\ list[i].iterations = e.iterations}
CustomNow(c, list, e) ==
    \/ \E p \in CustomMatches(list, e):
          c = list[p].ns /\ \A q \in 1 .. p - 1: q \notin CustomMatches(list, e)
    \/ c = 0 /\ CustomMatches(list, e) = {}
CustomRow(e, r, list) ==
    /\ e.operation = r.operation /\ e.iterations = r.iteration /\ r.baseline_ns = e.ns
    /\ CustomNow(r.current_ns, list, e)
CustomKept(list, path) ==
    /\ IsList(Custom!LoadResults(path))
    /\ Picked(list, Custom!LoadResults(path), CustomWanted(Custom!LoadResults(path)),
              Len(Custom!LoadResults(path)))
CustomRows ==
    pc \in {"print"} \cup Reporting =>
        /\ CustomKept(results.baseline, sides.baseline) /\ CustomKept(results.current, sides.current)
        /\ \A q \in 1 .. Len(rows): CustomRow(results.baseline[q], rows[q], results.current)

LEMMA CustomApplied ==
  ASSUME NEW entries, IsList(entries)
  PROVE  Picked(Custom!ApplyMethodFilter(entries), entries, CustomWanted(entries), Len(entries))
  <1> DEFINE kept == CustomWanted(entries)
  <1>1. kept \subseteq DOMAIN entries
    BY DEF CustomWanted
  <1>2. CASE filter = {}
    <2>1. kept = DOMAIN entries
      BY <1>2 DEF CustomWanted
    <2> HIDE DEF kept
    <2>2. Picked(entries, entries, kept, Len(entries))
      BY <2>1, PickedWhole
    <2>3. QED
      BY <1>2, <2>2 DEF Custom!ApplyMethodFilter, kept
  <1>3. CASE filter # {}
    <2>1. [i \in DOMAIN entries |-> IF entries[i].operation \in filter THEN <<entries[i]>> ELSE <<>>]
          = [i \in DOMAIN entries |-> IF i \in kept THEN <<entries[i]>> ELSE <<>>]
      BY <1>3 DEF CustomWanted
    <2>2. \A list: Custom!FlattenSeq(list) = FlattenSeq(list)
      BY DEF FlattenSeq, Custom!FlattenSeq
    <2> HIDE DEF kept
    <2>3. Custom!ApplyMethodFilter(entries)
          = FlattenSeq([i \in DOMAIN entries |-> IF i \in kept THEN <<entries[i]>> ELSE <<>>])
      BY <1>3, <2>1, <2>2 DEF Custom!ApplyMethodFilter, Custom!FilterByOperations
    <2>4. Picked(FlattenSeq([i \in DOMAIN entries |-> IF i \in kept THEN <<entries[i]>> ELSE <<>>]),
                 entries, kept, Len(entries))
      BY <1>1, PickedAll
    <2>5. QED
      BY <2>3, <2>4 DEF kept
  <1>4. QED
    BY <1>2, <1>3

LEMMA CustomFirst ==
  ASSUME NEW list, IsList(list), NEW e
  PROVE  CustomNow(Custom!GetCns(list, e.operation, e.iterations), list, e)
  <1> DEFINE places == {i \in 1 .. Len(list): list[i].operation = e.operation /\ list[i].iterations = e.iterations}
             c == Custom!GetCns(list, e.operation, e.iterations)
  <1>1. Len(list) \in Nat /\ DOMAIN list = 1 .. Len(list)
    BY ListElements
  <1>2. places = CustomMatches(list, e)
    BY <1>1 DEF CustomMatches
  <1>3. places \subseteq Nat
    BY <1>1
  <1>4. Custom!Min(places) = Min(places)
    BY DEF Min, Custom!Min
  <1>5. c = IF places = {} THEN 0 ELSE IF Min(places) = 0 THEN 0 ELSE list[Min(places)].ns
    BY <1>4 DEF Custom!GetCns, Custom!SelectInSeq
  <1>6. CASE places = {}
    BY <1>2, <1>5, <1>6 DEF CustomNow
  <1>7. CASE places # {}
    <2>1. Min(places) \in places /\ \A i \in places: Min(places) <= i
      <3> HIDE DEF places
      <3>1. QED
        BY <1>3, <1>7, Least
    <2> DEFINE p == Min(places)
    <2>2. p \in 1 .. Len(list)
      BY <2>1
    <2> HIDE DEF places, p
    <2>3. p # 0 /\ \A q \in 1 .. p - 1: ~(p <= q)
      BY <1>1, <2>2
    <2>4. c = list[p].ns
      BY <1>5, <1>7, <2>3 DEF p
    <2>5. p \in places /\ \A q \in 1 .. p - 1: q \notin places
      BY <2>1, <2>3 DEF p
    <2> HIDE DEF c
    <2>6. CustomNow(c, list, e)
      BY <1>2, <2>4, <2>5 DEF CustomNow
    <2>7. QED
      BY <2>6 DEF c
  <1>8. QED
    BY <1>6, <1>7

LEMMA CustomFirstOfAll ==
  ASSUME NEW current, IsList(current), NEW list,
         Picked(list, current, CustomWanted(current), Len(current)),
         NEW e, filter = {} \/ e.operation \in filter, NEW c, CustomNow(c, list, e)
  PROVE  CustomNow(c, current, e)
  <1> DEFINE kept == CustomWanted(current)
             meant == CustomMatches(current, e)
             matches == CustomMatches(list, e)
  <1>1. kept \subseteq DOMAIN current
    BY DEF CustomWanted
  <1>2. meant \subseteq kept
    BY DEF CustomWanted, CustomMatches
  <1>3. IsList(list)
    BY DEF Picked
  <1>4. matches \subseteq 1 .. Len(list)
    BY <1>3, ListElements DEF CustomMatches
  <1>5. SamePlaces(kept, meant, matches)
    <2>1. Len(current) \in Nat /\ DOMAIN current = 1 .. Len(current) /\ DOMAIN list = 1 .. Len(list)
      BY <1>3, ListElements
    <2>2. \A k \in kept: k \in {i \in kept: i <= Len(current)}
      BY <1>1, <2>1
    <2> HIDE DEF kept
    <2>3. \A k \in kept: Place(kept, k) \in 1 .. Len(list) /\ list[Place(kept, k)] = current[k]
      BY <2>2 DEF Picked, kept
    <2>4. QED
      BY <1>1, <2>1, <2>3 DEF CustomMatches, SamePlaces
  <1> HIDE DEF kept, meant, matches
  <1>6. Picked(list, current, kept, Len(current))
    BY DEF kept
  <1>7. Carried(list, current, matches, meant)
    BY <1>1, <1>2, <1>4, <1>5, <1>6, FirstCarried
  <1>8. CASE \E p \in matches: c = list[p].ns /\ \A q \in 1 .. p - 1: q \notin matches
    <2>1. \E i \in meant: c = current[i].ns /\ \A k \in 1 .. i - 1: k \notin meant
      BY <1>7, <1>8 DEF Carried
    <2>2. QED
      BY <2>1 DEF CustomNow, meant
  <1>9. CASE c = 0 /\ matches = {}
    BY <1>7, <1>9 DEF CustomNow, meant, Carried
  <1>10. QED
    BY <1>8, <1>9 DEF CustomNow, matches

(* A comparison that has a row for each entry kept is right.               *)
LEMMA CustomCompared ==
  ASSUME CustomRows, pc \in Reporting, Len(rows) = Len(results.baseline)
  PROVE  Custom!RowsRight
  <1> DEFINE entries == Custom!LoadResults(sides.baseline)
             current == Custom!LoadResults(sides.current)
             kept == CustomWanted(entries)
  <1>1. /\ IsList(entries) /\ Picked(results.baseline, entries, kept, Len(entries))
        /\ IsList(current) /\ Picked(results.current, current, CustomWanted(current), Len(current))
        /\ \A q \in 1 .. Len(rows): CustomRow(results.baseline[q], rows[q], results.current)
    BY DEF CustomRows, CustomKept
  <1>2. kept = {i \in DOMAIN entries: filter = {} \/ entries[i].operation \in filter}
    BY DEF CustomWanted
  <1>3. \A S: Custom!Cardinality(S) = Cardinality(S)
    BY DEF Cardinality, Custom!Cardinality, IsFiniteSet, Custom!IsFiniteSet
  <1> HIDE DEF entries, current, kept
  <1>4. {i \in kept: i <= Len(entries)} = kept
    BY <1>1, <1>2, ListElements
  <1>5. Len(rows) = Cardinality(kept)
    BY <1>1, <1>4 DEF Picked
  <1>6. ASSUME NEW i \in kept
        PROVE  CustomRow(entries[i], rows[Place(kept, i)], current)
    <2>1. Place(kept, i) \in 1 .. Len(rows) /\ results.baseline[Place(kept, i)] = entries[i]
      BY <1>1, <1>4 DEF Picked
    <2> DEFINE r == rows[Place(kept, i)]
               e == entries[i]
    <2>2. CustomRow(e, r, results.current)
      BY <1>1, <2>1
    <2>3. filter = {} \/ e.operation \in filter
      BY <1>2
    <2> HIDE DEF r, e
    <2>4. CustomNow(r.current_ns, current, e)
      BY <1>1, <2>2, <2>3, CustomFirstOfAll DEF CustomRow
    <2>5. QED
      BY <2>2, <2>4 DEF CustomRow, r, e
  <1>7. DOMAIN current = 1 .. Len(current) /\ Len(current) \in Nat
    BY <1>1, ListElements
  <1>8. ASSUME NEW i \in kept
        PROVE  LET r == rows[Cardinality({j \in kept: j <= i})]
               IN /\ entries[i].operation = r.operation /\ entries[i].iterations = r.iteration
                  /\ r.baseline_ns = entries[i].ns
                  /\ \/ \E j \in DOMAIN current:
                           /\ current[j].operation = r.operation /\ current[j].iterations = r.iteration
                           /\ r.current_ns = current[j].ns
                           /\ \A k \in 1 .. j - 1: ~(/\ current[k].operation = r.operation
                                                     /\ current[k].iterations = r.iteration)
                     \/ /\ r.current_ns = 0
                        /\ \A j \in DOMAIN current: ~(/\ current[j].operation = r.operation
                                                      /\ current[j].iterations = r.iteration)
    <2> DEFINE r == rows[Place(kept, i)]
               e == entries[i]
    <2>1. CustomRow(e, r, current)
      BY <1>6
    <2>2. r = rows[Cardinality({j \in kept: j <= i})]
      BY DEF Place
    <2> HIDE DEF r, e
    <2>3. /\ e.operation = r.operation /\ e.iterations = r.iteration
          /\ r.baseline_ns = e.ns
          /\ \/ \E j \in DOMAIN current:
                   /\ current[j].operation = r.operation /\ current[j].iterations = r.iteration
                   /\ r.current_ns = current[j].ns
                   /\ \A k \in 1 .. j - 1: ~(/\ current[k].operation = r.operation
                                             /\ current[k].iterations = r.iteration)
             \/ /\ r.current_ns = 0
                /\ \A j \in DOMAIN current: ~(/\ current[j].operation = r.operation
                                              /\ current[j].iterations = r.iteration)
      BY <1>7, <2>1 DEF CustomRow, CustomNow, CustomMatches
    <2>4. QED
      BY <2>2, <2>3 DEF e
  <1>9. QED
    BY <1>2, <1>3, <1>5, <1>8 DEF Custom!RowsRight, entries, current

LEMMA CustomRowsStay ==
  ASSUME CustomRows, pc \in {"print"} \cup Reporting, UNCHANGED <<disk, sides, filter, results, rows>>
  PROVE  CustomRows'
  BY DEF CustomRows, CustomKept, CustomWanted, Custom!LoadResults

LEMMA CustomRowsSteps ==
  ASSUME ReportInv, tool = "custom", CustomRows, Custom!Next
  PROVE  CustomRows'
  <1>1. CASE pc' \notin {"print"} \cup Reporting
    BY <1>1 DEF CustomRows
  <1>2. CASE Custom!Load /\ pc' # "exit"
    <2>1. /\ Custom!Loadable(sides.baseline) /\ Custom!Loadable(sides.current)
          /\ results'.baseline = Custom!ApplyMethodFilter(Custom!LoadResults(sides.baseline))
          /\ results'.current = Custom!ApplyMethodFilter(Custom!LoadResults(sides.current))
          /\ pc = "load" /\ UNCHANGED <<disk, sides, filter, rows>>
      BY <1>2 DEF Custom!Load, Custom!Fail
    <2>2. rows = <<>> /\ disk \in Folders
      BY <2>1 DEF ReportInv, Begun, Starting
    <2>3. IsList(Custom!LoadResults(sides.baseline)) /\ IsList(Custom!LoadResults(sides.current))
      BY <2>1, <2>2, FoldersAssumption DEF Custom!Loadable, Custom!LoadResults, IsList
    <2>4. CustomKept(results'.baseline, sides.baseline) /\ CustomKept(results'.current, sides.current)
      BY <2>1, <2>3, CustomApplied DEF CustomKept
    <2>5. CustomKept(results.baseline, sides.baseline)' /\ CustomKept(results.current, sides.current)'
      BY <2>1, <2>4 DEF CustomKept, CustomWanted, Custom!LoadResults
    <2>6. 1 .. Len(rows') = {}
      BY <2>1, <2>2
    <2>7. QED
      BY <2>5, <2>6 DEF CustomRows
  <1>3. CASE Custom!Row
    <2> DEFINE entry == results.baseline[at]
               c == Custom!GetCns(results.current, entry.operation, entry.iterations)
               record == [suite |-> entry.suite, operation |-> entry.operation,
                          iteration |-> entry.iterations, baseline_ns |-> entry.ns,
                          current_ns |-> c]
    <2>1. /\ pc = "print" /\ at <= Len(results.baseline) /\ rows' = Append(rows, record)
          /\ UNCHANGED <<disk, pc, sides, filter, results>>
      BY <1>3, Zenon DEF Custom!Row
    <2>2. IsList(rows) /\ Len(rows) = at - 1 /\ at \in 1 .. Len(results.baseline) + 1
      BY <2>1 DEF ReportInv, Copying, Covered
    <2>3. /\ CustomKept(results.baseline, sides.baseline) /\ CustomKept(results.current, sides.current)
          /\ \A q \in 1 .. Len(rows): CustomRow(results.baseline[q], rows[q], results.current)
      BY <2>1 DEF CustomRows
    <2>4. CustomNow(c, results.current, entry)
      BY <2>3, CustomFirst DEF CustomKept, Picked
    <2> HIDE DEF c
    <2>5. CustomRow(entry, record, results.current)
      BY <2>4 DEF CustomRow
    <2> HIDE DEF record
    <2>6. /\ Len(rows') = at /\ \A q \in 1 .. Len(rows): rows'[q] = rows[q]
          /\ rows'[at] = record /\ \A q \in 1 .. at: q \in 1 .. Len(rows) \/ q = at
      <3> DEFINE more == Append(rows, record)
      <3>1. /\ Len(more) = Len(rows) + 1 /\ DOMAIN rows = 1 .. Len(rows)
            /\ \A i \in DOMAIN rows: more[i] = rows[i]
            /\ more[Len(rows) + 1] = record
        BY <2>2, Appended, ListElements
      <3>2. rows' = more
        BY <2>1
      <3> HIDE DEF more
      <3>3. QED
        BY <2>2, <3>1, <3>2
    <2>7. \A q \in 1 .. Len(rows'): CustomRow(results.baseline[q], rows'[q], results.current)
      <3> HIDE DEF entry
      <3>1. entry = results.baseline[at]
        BY DEF entry
      <3>2. QED
        BY <2>3, <2>5, <2>6, <3>1
    <2>8. CustomKept(results.baseline, sides.baseline)' /\ CustomKept(results.current, sides.current)'
      BY <2>1, <2>3 DEF CustomKept, CustomWanted, Custom!LoadResults
    <2>9. \A q \in 1 .. Len(rows'): CustomRow(results'.baseline[q], rows'[q], results'.current)
      BY <2>1, <2>7
    <2>10. QED
      BY <2>8, <2>9 DEF CustomRows
  <1>4. CASE Custom!LastTable \/ Custom!PrintSummary \/ Custom!ExportJson \/ Custom!ExportMarkdown
    <2>1. pc \in {"print"} \cup Reporting /\ UNCHANGED <<disk, sides, filter, results, rows>>
      BY <1>4, Zenon DEF Custom!LastTable, Custom!PrintSummary, Custom!ExportJson, Custom!ExportMarkdown, Reporting
    <2>2. QED
      BY <2>1, CustomRowsStay
  <1>5. CASE \/ Custom!PrintList \/ Custom!PrintMethods \/ Custom!PrintUsage \/ Custom!ReadArguments
             \/ Custom!LatestBaseline \/ Custom!LatestFound \/ Custom!Resolve \/ Custom!NextCommand
    <2>1. pc' \notin {"print"} \cup Reporting
      BY <1>5, Zenon DEF Custom!PrintList, Custom!PrintMethods, Custom!PrintUsage, Custom!ReadArguments,
                  Custom!LatestBaseline, Custom!LatestFound, Custom!Resolve, Custom!NextCommand, Custom!Fail,
                  Custom!Started, Reporting
    <2>2. QED
      BY <1>1, <2>1
  <1>6. QED
    BY <1>1, <1>2, <1>3, <1>4, <1>5 DEF Custom!Next, Reporting

-----------------------------------------------------------------------------
(* The rows of the other.                                                  *)

GoogleWanted(entries) == {i \in DOMAIN entries: filter = {} \/ entries[i].name \in filter}
GoogleMatches(list, e) == {i \in DOMAIN list: list[i].name = e.name}
GoogleNow(c, list, e) ==
    \/ \E p \in GoogleMatches(list, e):
          c = list[p].real_time /\ \A q \in 1 .. p - 1: q \notin GoogleMatches(list, e)
    \/ c = 0 /\ GoogleMatches(list, e) = {}
GoogleRow(e, r, list) ==
    r.name = e.name /\ r.baseline_ns = e.real_time /\ GoogleNow(r.current_ns, list, e)
GoogleKept(list, path) ==
    /\ IsList(Google!LoadResults(path))
    /\ Picked(list, Google!LoadResults(path), GoogleWanted(Google!LoadResults(path)),
              Len(Google!LoadResults(path)))
GoogleRows ==
    pc \in {"print"} \cup Reporting =>
        /\ GoogleKept(results.baseline, sides.baseline) /\ GoogleKept(results.current, sides.current)
        /\ \A q \in 1 .. Len(rows): GoogleRow(results.baseline[q], rows[q], results.current)

LEMMA GoogleApplied ==
  ASSUME NEW entries, IsList(entries)
  PROVE  Picked(Google!ApplyMethodFilter(entries), entries, GoogleWanted(entries), Len(entries))
  <1> DEFINE kept == GoogleWanted(entries)
  <1>1. kept \subseteq DOMAIN entries
    BY DEF GoogleWanted
  <1>2. CASE filter = {}
    <2>1. kept = DOMAIN entries
      BY <1>2 DEF GoogleWanted
    <2> HIDE DEF kept
    <2>2. Picked(entries, entries, kept, Len(entries))
      BY <2>1, PickedWhole
    <2>3. QED
      BY <1>2, <2>2 DEF Google!ApplyMethodFilter, kept
  <1>3. CASE filter # {}
    <2>1. [i \in DOMAIN entries |-> IF entries[i].name \in filter THEN <<entries[i]>> ELSE <<>>]
          = [i \in DOMAIN entries |-> IF i \in kept THEN <<entries[i]>> ELSE <<>>]
      BY <1>3 DEF GoogleWanted
    <2>2. \A list: Google!FlattenSeq(list) = FlattenSeq(list)
      BY DEF FlattenSeq, Google!FlattenSeq
    <2> HIDE DEF kept
    <2>3. Google!ApplyMethodFilter(entries)
          = FlattenSeq([i \in DOMAIN entries |-> IF i \in kept THEN <<entries[i]>> ELSE <<>>])
      BY <1>3, <2>1, <2>2 DEF Google!ApplyMethodFilter, Google!FilterByNames
    <2>4. Picked(FlattenSeq([i \in DOMAIN entries |-> IF i \in kept THEN <<entries[i]>> ELSE <<>>]),
                 entries, kept, Len(entries))
      BY <1>1, PickedAll
    <2>5. QED
      BY <2>3, <2>4 DEF kept
  <1>4. QED
    BY <1>2, <1>3

LEMMA GoogleFirst ==
  ASSUME NEW list, IsList(list), NEW e
  PROVE  GoogleNow(Google!GetCns(list, e.name), list, e)
  <1> DEFINE places == {i \in 1 .. Len(list): list[i].name = e.name}
             c == Google!GetCns(list, e.name)
  <1>1. Len(list) \in Nat /\ DOMAIN list = 1 .. Len(list)
    BY ListElements
  <1>2. places = GoogleMatches(list, e)
    BY <1>1 DEF GoogleMatches
  <1>3. places \subseteq Nat
    BY <1>1
  <1>4. Google!Min(places) = Min(places)
    BY DEF Min, Google!Min
  <1>5. c = IF places = {} THEN 0 ELSE IF Min(places) = 0 THEN 0 ELSE list[Min(places)].real_time
    BY <1>4 DEF Google!GetCns, Google!SelectInSeq
  <1>6. CASE places = {}
    BY <1>2, <1>5, <1>6 DEF GoogleNow
  <1>7. CASE places # {}
    <2>1. Min(places) \in places /\ \A i \in places: Min(places) <= i
      <3> HIDE DEF places
      <3>1. QED
        BY <1>3, <1>7, Least
    <2> DEFINE p == Min(places)
    <2>2. p \in 1 .. Len(list)
      BY <2>1
    <2> HIDE DEF places, p
    <2>3. p # 0 /\ \A q \in 1 .. p - 1: ~(p <= q)
      BY <1>1, <2>2
    <2>4. c = list[p].real_time
      BY <1>5, <1>7, <2>3 DEF p
    <2>5. p \in places /\ \A q \in 1 .. p - 1: q \notin places
      BY <2>1, <2>3 DEF p
    <2> HIDE DEF c
    <2>6. GoogleNow(c, list, e)
      BY <1>2, <2>4, <2>5 DEF GoogleNow
    <2>7. QED
      BY <2>6 DEF c
  <1>8. QED
    BY <1>6, <1>7

LEMMA GoogleFirstOfAll ==
  ASSUME NEW current, IsList(current), NEW list,
         Picked(list, current, GoogleWanted(current), Len(current)),
         NEW e, filter = {} \/ e.name \in filter, NEW c, GoogleNow(c, list, e)
  PROVE  GoogleNow(c, current, e)
  <1> DEFINE kept == GoogleWanted(current)
             meant == GoogleMatches(current, e)
             matches == GoogleMatches(list, e)
  <1>1. kept \subseteq DOMAIN current
    BY DEF GoogleWanted
  <1>2. meant \subseteq kept
    BY DEF GoogleWanted, GoogleMatches
  <1>3. IsList(list)
    BY DEF Picked
  <1>4. matches \subseteq 1 .. Len(list)
    BY <1>3, ListElements DEF GoogleMatches
  <1>5. SamePlaces(kept, meant, matches)
    <2>1. Len(current) \in Nat /\ DOMAIN current = 1 .. Len(current) /\ DOMAIN list = 1 .. Len(list)
      BY <1>3, ListElements
    <2>2. \A k \in kept: k \in {i \in kept: i <= Len(current)}
      BY <1>1, <2>1
    <2> HIDE DEF kept
    <2>3. \A k \in kept: Place(kept, k) \in 1 .. Len(list) /\ list[Place(kept, k)] = current[k]
      BY <2>2 DEF Picked, kept
    <2>4. QED
      BY <1>1, <2>1, <2>3 DEF GoogleMatches, SamePlaces
  <1> HIDE DEF kept, meant, matches
  <1>6. Picked(list, current, kept, Len(current))
    BY DEF kept
  <1>7. Carried(list, current, matches, meant)
    BY <1>1, <1>2, <1>4, <1>5, <1>6, FirstCarried
  <1>8. CASE \E p \in matches: c = list[p].real_time /\ \A q \in 1 .. p - 1: q \notin matches
    <2>1. \E i \in meant: c = current[i].real_time /\ \A k \in 1 .. i - 1: k \notin meant
      BY <1>7, <1>8 DEF Carried
    <2>2. QED
      BY <2>1 DEF GoogleNow, meant
  <1>9. CASE c = 0 /\ matches = {}
    BY <1>7, <1>9 DEF GoogleNow, meant, Carried
  <1>10. QED
    BY <1>8, <1>9 DEF GoogleNow, matches

(* A comparison that has a row for each entry kept is right.               *)
LEMMA GoogleCompared ==
  ASSUME GoogleRows, pc \in Reporting, Len(rows) = Len(results.baseline)
  PROVE  Google!RowsRight
  <1> DEFINE entries == Google!LoadResults(sides.baseline)
             current == Google!LoadResults(sides.current)
             kept == GoogleWanted(entries)
  <1>1. /\ IsList(entries) /\ Picked(results.baseline, entries, kept, Len(entries))
        /\ IsList(current) /\ Picked(results.current, current, GoogleWanted(current), Len(current))
        /\ \A q \in 1 .. Len(rows): GoogleRow(results.baseline[q], rows[q], results.current)
    BY DEF GoogleRows, GoogleKept
  <1>2. kept = {i \in DOMAIN entries: filter = {} \/ entries[i].name \in filter}
    BY DEF GoogleWanted
  <1>3. \A S: Google!Cardinality(S) = Cardinality(S)
    BY DEF Cardinality, Google!Cardinality, IsFiniteSet, Google!IsFiniteSet
  <1> HIDE DEF entries, current, kept
  <1>4. {i \in kept: i <= Len(entries)} = kept
    BY <1>1, <1>2, ListElements
  <1>5. Len(rows) = Cardinality(kept)
    BY <1>1, <1>4 DEF Picked
  <1>6. ASSUME NEW i \in kept
        PROVE  GoogleRow(entries[i], rows[Place(kept, i)], current)
    <2>1. Place(kept, i) \in 1 .. Len(rows) /\ results.baseline[Place(kept, i)] = entries[i]
      BY <1>1, <1>4 DEF Picked
    <2> DEFINE r == rows[Place(kept, i)]
               e == entries[i]
    <2>2. GoogleRow(e, r, results.current)
      BY <1>1, <2>1
    <2>3. filter = {} \/ e.name \in filter
      BY <1>2
    <2> HIDE DEF r, e
    <2>4. GoogleNow(r.current_ns, current, e)
      BY <1>1, <2>2, <2>3, GoogleFirstOfAll DEF GoogleRow
    <2>5. QED
      BY <2>2, <2>4 DEF GoogleRow, r, e
  <1>7. DOMAIN current = 1 .. Len(current) /\ Len(current) \in Nat
    BY <1>1, ListElements
  <1>8. ASSUME NEW i \in kept
        PROVE  LET r == rows[Cardinality({j \in kept: j <= i})]
               IN /\ r.name = entries[i].name /\ r.baseline_ns = entries[i].real_time
                  /\ \/ \E j \in DOMAIN current:
                           /\ current[j].name = r.name /\ r.current_ns = current[j].real_time
                           /\ \A k \in 1 .. j - 1: current[k].name # r.name
                     \/ r.current_ns = 0 /\ \A j \in DOMAIN current: current[j].name # r.name
    <2> DEFINE r == rows[Place(kept, i)]
               e == entries[i]
    <2>1. GoogleRow(e, r, current)
      BY <1>6
    <2>2. r = rows[Cardinality({j \in kept: j <= i})]
      BY DEF Place
    <2> HIDE DEF r, e
    <2>3. /\ r.name = e.name /\ r.baseline_ns = e.real_time
          /\ \/ \E j \in DOMAIN current:
                   /\ current[j].name = r.name /\ r.current_ns = current[j].real_time
                   /\ \A k \in 1 .. j - 1: current[k].name # r.name
             \/ r.current_ns = 0 /\ \A j \in DOMAIN current: current[j].name # r.name
      BY <1>7, <2>1 DEF GoogleRow, GoogleNow, GoogleMatches
    <2>4. QED
      BY <2>2, <2>3 DEF e
  <1>9. QED
    BY <1>2, <1>3, <1>5, <1>8 DEF Google!RowsRight, entries, current

LEMMA GoogleRowsStay ==
  ASSUME GoogleRows, pc \in {"print"} \cup Reporting, UNCHANGED <<disk, sides, filter, results, rows>>
  PROVE  GoogleRows'
  BY DEF GoogleRows, GoogleKept, GoogleWanted, Google!LoadResults

LEMMA GoogleRowsSteps ==
  ASSUME ReportInv, tool = "google", GoogleRows, Google!Next
  PROVE  GoogleRows'
  <1>1. CASE pc' \notin {"print"} \cup Reporting
    BY <1>1 DEF GoogleRows
  <1>2. CASE Google!Load /\ pc' # "exit"
    <2>1. /\ Google!Loadable(sides.baseline) /\ Google!Loadable(sides.current)
          /\ results'.baseline = Google!ApplyMethodFilter(Google!LoadResults(sides.baseline))
          /\ results'.current = Google!ApplyMethodFilter(Google!LoadResults(sides.current))
          /\ pc = "load" /\ UNCHANGED <<disk, sides, filter, rows>>
      BY <1>2 DEF Google!Load, Google!Fail
    <2>2. rows = <<>> /\ disk \in Folders
      BY <2>1 DEF ReportInv, Begun, Starting
    <2>3. IsList(Google!LoadResults(sides.baseline)) /\ IsList(Google!LoadResults(sides.current))
      BY <2>1, <2>2, FoldersAssumption DEF Google!Loadable, Google!LoadResults, IsList
    <2>4. GoogleKept(results'.baseline, sides.baseline) /\ GoogleKept(results'.current, sides.current)
      BY <2>1, <2>3, GoogleApplied DEF GoogleKept
    <2>5. GoogleKept(results.baseline, sides.baseline)' /\ GoogleKept(results.current, sides.current)'
      BY <2>1, <2>4 DEF GoogleKept, GoogleWanted, Google!LoadResults
    <2>6. 1 .. Len(rows') = {}
      BY <2>1, <2>2
    <2>7. QED
      BY <2>5, <2>6 DEF GoogleRows
  <1>3. CASE Google!Row
    <2> DEFINE entry == results.baseline[at]
               c == Google!GetCns(results.current, entry.name)
               record == [name |-> entry.name, baseline_ns |-> entry.real_time,
                          current_ns |-> c]
    <2>1. /\ pc = "print" /\ at <= Len(results.baseline) /\ rows' = Append(rows, record)
          /\ UNCHANGED <<disk, pc, sides, filter, results>>
      BY <1>3, Zenon DEF Google!Row
    <2>2. IsList(rows) /\ Len(rows) = at - 1 /\ at \in 1 .. Len(results.baseline) + 1
      BY <2>1 DEF ReportInv, Copying, Covered
    <2>3. /\ GoogleKept(results.baseline, sides.baseline) /\ GoogleKept(results.current, sides.current)
          /\ \A q \in 1 .. Len(rows): GoogleRow(results.baseline[q], rows[q], results.current)
      BY <2>1 DEF GoogleRows
    <2>4. GoogleNow(c, results.current, entry)
      BY <2>3, GoogleFirst DEF GoogleKept, Picked
    <2> HIDE DEF c
    <2>5. GoogleRow(entry, record, results.current)
      BY <2>4 DEF GoogleRow
    <2> HIDE DEF record
    <2>6. /\ Len(rows') = at /\ \A q \in 1 .. Len(rows): rows'[q] = rows[q]
          /\ rows'[at] = record /\ \A q \in 1 .. at: q \in 1 .. Len(rows) \/ q = at
      <3> DEFINE more == Append(rows, record)
      <3>1. /\ Len(more) = Len(rows) + 1 /\ DOMAIN rows = 1 .. Len(rows)
            /\ \A i \in DOMAIN rows: more[i] = rows[i]
            /\ more[Len(rows) + 1] = record
        BY <2>2, Appended, ListElements
      <3>2. rows' = more
        BY <2>1
      <3> HIDE DEF more
      <3>3. QED
        BY <2>2, <3>1, <3>2
    <2>7. \A q \in 1 .. Len(rows'): GoogleRow(results.baseline[q], rows'[q], results.current)
      <3> HIDE DEF entry
      <3>1. entry = results.baseline[at]
        BY DEF entry
      <3>2. QED
        BY <2>3, <2>5, <2>6, <3>1
    <2>8. GoogleKept(results.baseline, sides.baseline)' /\ GoogleKept(results.current, sides.current)'
      BY <2>1, <2>3 DEF GoogleKept, GoogleWanted, Google!LoadResults
    <2>9. \A q \in 1 .. Len(rows'): GoogleRow(results'.baseline[q], rows'[q], results'.current)
      BY <2>1, <2>7
    <2>10. QED
      BY <2>8, <2>9 DEF GoogleRows
  <1>4. CASE Google!LastTable \/ Google!PrintSummary \/ Google!ExportJson \/ Google!ExportMarkdown
    <2>1. pc \in {"print"} \cup Reporting /\ UNCHANGED <<disk, sides, filter, results, rows>>
      BY <1>4, Zenon DEF Google!LastTable, Google!PrintSummary, Google!ExportJson, Google!ExportMarkdown, Reporting
    <2>2. QED
      BY <2>1, GoogleRowsStay
  <1>5. CASE \/ Google!PrintList \/ Google!PrintMethods \/ Google!PrintUsage \/ Google!ReadArguments
             \/ Google!LatestBaseline \/ Google!LatestFound \/ Google!Resolve \/ Google!NextCommand
    <2>1. pc' \notin {"print"} \cup Reporting
      BY <1>5, Zenon DEF Google!PrintList, Google!PrintMethods, Google!PrintUsage, Google!ReadArguments,
                  Google!LatestBaseline, Google!LatestFound, Google!Resolve, Google!NextCommand, Google!Fail,
                  Google!Started, Reporting
    <2>2. QED
      BY <1>1, <2>1
  <1>6. QED
    BY <1>1, <1>2, <1>3, <1>4, <1>5 DEF Google!Next, Reporting

-----------------------------------------------------------------------------
(* The invariants hold at the start and after each step of a tool.         *)

LEMMA ReportsStart == Init => ReportInv
  <1>1. SUFFICES ASSUME Init, tool \in {"custom", "google"}
                 PROVE  disk \in Folders /\ Begun /\ Copying /\ Covered /\ Summed
    BY DEF ReportInv
  <1>2. Custom!Init \/ Google!Init
    BY <1>1 DEF Init
  <1>3. disk \in Folders /\ pc = "main" /\ exit = 0 /\ rows = <<>> /\ markdown = <<>> /\ at = 1
    BY <1>2, Zenon DEF Custom!Init, Google!Init, Custom!Started, Google!Started
  <1>4. QED
    BY <1>3 DEF Begun, Copying, Covered, Summed, Starting, Reporting

(* A step of the program is one of its tool's, or leaves the reports alone.*)
allVars == <<tool, todo, pc, at, screen, listed, exit, examplesVars, regressionVars>>

LEMMA ReportsStep == ReportInv /\ [Next]_allVars => ReportInv' /\ WholeStep
  <1>1. SUFFICES ASSUME ReportInv, [Next]_allVars PROVE ReportInv' /\ WholeStep
    OBVIOUS
  <1>2. CASE tool = "custom" /\ Custom!Next /\ tool' = tool
    BY <1>1, <1>2, CustomSteps
  <1>3. CASE tool = "google" /\ Google!Next /\ tool' = tool
    BY <1>1, <1>3, GoogleSteps
  <1>4. CASE tool = "examples" /\ UNCHANGED <<tool, regressionVars>>
    BY <1>4 DEF ReportInv, WholeStep, regressionVars
  <1>5. CASE UNCHANGED allVars
    BY <1>1, <1>5 DEF allVars, regressionVars, ReportInv, Begun, Copying, Covered, Summed, WholeStep
  <1>6. QED
    BY <1>1, <1>2, <1>3, <1>4, <1>5 DEF Next

(* A report is written of a whole comparison only, whatever the snapshots  *)
(* hold and whichever command fails: its Markdown has every row of the     *)
(* table, once and in order, one for each entry of the baseline's side;    *)
(* its summary counts each of them once; and the command succeeds.         *)
THEOREM ReportsAgree == Spec => ReportsWhole
  <1>1. Init => ReportInv
    BY ReportsStart
  <1>2. ReportInv /\ [Next]_allVars => ReportInv'
    BY ReportsStep
  <1>3. ReportInv /\ [Next]_allVars => [WholeStep]_Custom!vars
    BY ReportsStep
  <1>4. QED
    BY <1>1, <1>2, <1>3, PTL DEF Spec, allVars, ReportsWhole, Custom!ReportsWhole, WholeStep

NewestInv == (tool = "custom" => CustomLatest) /\ (tool = "google" => GoogleLatest)

LEMMA NewestStart == Init => NewestInv
  <1>1. SUFFICES ASSUME Init PROVE NewestInv
    OBVIOUS
  <1>2. tool = "custom" => CustomLatest
    BY <1>1, Zenon DEF Init, Custom!Init, Custom!Started, Custom!NoVersion, Nothing,
       CustomLatest, Chosen, Reporting
  <1>3. tool = "google" => GoogleLatest
    BY <1>1, Zenon DEF Init, Google!Init, Google!Started, Google!NoVersion, Nothing,
       GoogleLatest, Chosen, Reporting
  <1>4. QED
    BY <1>2, <1>3 DEF NewestInv

LEMMA NewestStep == ReportInv /\ NewestInv /\ [Next]_allVars => NewestInv'
  <1>1. SUFFICES ASSUME ReportInv, NewestInv, [Next]_allVars PROVE NewestInv'
    OBVIOUS
  <1>2. CASE tool = "custom" /\ Custom!Next /\ tool' = tool
    BY <1>1, <1>2, CustomLatestSteps DEF NewestInv
  <1>3. CASE tool = "google" /\ Google!Next /\ tool' = tool
    BY <1>1, <1>3, GoogleLatestSteps DEF NewestInv
  <1>4. CASE tool = "examples" /\ tool' = tool
    BY <1>4 DEF NewestInv
  <1>5. CASE UNCHANGED allVars
    <2>1. UNCHANGED <<tool, todo, pc, disk, unseen, newest, sides>>
      BY <1>5 DEF allVars, regressionVars
    <2>2. CustomLatest => CustomLatest'
      <3>1. CustomSeen' = CustomSeen
        BY <2>1, CustomSame DEF CustomSeen
      <3>2. QED
        BY <2>1, <3>1, CustomSame DEF CustomLatest, CustomParsed
    <2>3. GoogleLatest => GoogleLatest'
      <3>1. GoogleSeen' = GoogleSeen
        BY <2>1, GoogleSame DEF GoogleSeen
      <3>2. QED
        BY <2>1, <3>1, GoogleSame DEF GoogleLatest, GoogleParsed
    <2>4. QED
      BY <1>1, <2>1, <2>2, <2>3 DEF NewestInv
  <1>6. QED
    BY <1>1, <1>2, <1>3, <1>4, <1>5 DEF Next, allVars, regressionVars

(* Without a version to compare with, a tool compares with the newest of   *)
(* its baselines, in whatever order the folder was iterated.               *)
THEOREM NewestTaken == Spec => []NewestCompared
  <1>1. Init => ReportInv /\ NewestInv
    BY ReportsStart, NewestStart
  <1>2. ReportInv /\ NewestInv /\ [Next]_allVars => (ReportInv /\ NewestInv)'
    BY ReportsStep, NewestStep
  <1>3. NewestInv => NewestCompared
    BY DEF NewestInv, CustomLatest, GoogleLatest, NewestCompared, Custom!NewestCompared,
           Google!NewestCompared, Custom!Compared, Google!Compared, Chosen, Reporting
  <1>4. QED
    BY <1>1, <1>2, <1>3, PTL DEF Spec, allVars

RowsInv == (tool = "custom" => CustomRows) /\ (tool = "google" => GoogleRows)

LEMMA RowsStart == Init => RowsInv
  BY Zenon DEF Init, Custom!Init, Custom!Started, Google!Init, Google!Started, RowsInv,
         CustomRows, GoogleRows, Reporting

LEMMA RowsStep == ReportInv /\ RowsInv /\ [Next]_allVars => RowsInv'
  <1>1. SUFFICES ASSUME ReportInv, RowsInv, [Next]_allVars PROVE RowsInv'
    OBVIOUS
  <1>2. CASE tool = "custom" /\ Custom!Next /\ tool' = tool
    BY <1>1, <1>2, CustomRowsSteps DEF RowsInv
  <1>3. CASE tool = "google" /\ Google!Next /\ tool' = tool
    BY <1>1, <1>3, GoogleRowsSteps DEF RowsInv
  <1>4. CASE tool = "examples" /\ tool' = tool
    BY <1>4 DEF RowsInv
  <1>5. CASE UNCHANGED allVars
    <2>1. UNCHANGED <<tool, pc, disk, sides, filter, results, rows>>
      BY <1>5 DEF allVars, regressionVars
    <2>2. CustomRows => CustomRows'
      BY <2>1 DEF CustomRows, CustomKept, CustomWanted, Custom!LoadResults
    <2>3. GoogleRows => GoogleRows'
      BY <2>1 DEF GoogleRows, GoogleKept, GoogleWanted, Google!LoadResults
    <2>4. QED
      BY <1>1, <2>1, <2>2, <2>3 DEF RowsInv
  <1>6. QED
    BY <1>1, <1>2, <1>3, <1>4, <1>5 DEF Next, allVars, regressionVars

(* A finished comparison has a row for each wanted entry of the baseline's *)
(* side, in order, with the value of the current side's first match.       *)
THEOREM RowsCompared == Spec => []RowsRight
  <1>1. Init => ReportInv /\ RowsInv
    BY ReportsStart, RowsStart
  <1>2. ReportInv /\ RowsInv /\ [Next]_allVars => (ReportInv /\ RowsInv)'
    BY ReportsStep, RowsStep
  <1>3. ReportInv /\ RowsInv => RowsRight
    <2>1. SUFFICES ASSUME ReportInv, RowsInv PROVE RowsRight
      OBVIOUS
    <2>2. ASSUME tool = "custom" PROVE Custom!RowsRight
      <3>1. CASE pc \in {"json", "md"}
        BY <2>1, <2>2, <3>1, CustomCompared DEF ReportInv, Covered, RowsInv, Reporting
      <3>2. CASE pc \notin {"json", "md"}
        BY <3>2 DEF Custom!RowsRight, Custom!Compared
      <3>3. QED
        BY <3>1, <3>2
    <2>3. ASSUME tool = "google" PROVE Google!RowsRight
      <3>1. CASE pc \in {"json", "md"}
        BY <2>1, <2>3, <3>1, GoogleCompared DEF ReportInv, Covered, RowsInv, Reporting
      <3>2. CASE pc \notin {"json", "md"}
        BY <3>2 DEF Google!RowsRight, Google!Compared
      <3>3. QED
        BY <3>1, <3>2
    <2>4. QED
      BY <2>2, <2>3 DEF RowsRight
  <1>4. QED
    BY <1>1, <1>2, <1>3, PTL DEF Spec, allVars

(* A finished comparison is with the right baseline, and row by row right. *)
THEOREM ComparisonsRight == Spec => []ComparedRight
  BY NewestTaken, RowsCompared, PTL DEF ComparedRight
===============================================================================
