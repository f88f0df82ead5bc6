-------------------------- MODULE HttpMessagesProofs --------------------------
(***************************************************************************)
(* Theorems about HttpMessages, for any texts.  Both parsers walk a header *)
(* block line by line; the invariant says of each how far it is and that   *)
(* its map holds, for the lines before, the last value of each name.       *)
(***************************************************************************)
EXTENDS HttpMessages, SequenceTheorems, FiniteSetTheorems, TLAPS

-----------------------------------------------------------------------------
(* The least and the greatest of a set of positions.                       *)
Below == {pair \in Nat \X Nat: pair[1] < pair[2]}

LEMMA BelowWellFounded == IsWellFoundedOn(Below, Nat)
  BY NatLessThanWellFounded DEF OpToRel, Below

LEMMA Least ==
  ASSUME NEW S, S \subseteq Nat, S # {}
  PROVE  Min(S) \in S /\ \A n \in S: Min(S) <= n
  <1>1. PICK m \in S: \A n \in S: <<n, m>> \notin Below
    BY BelowWellFounded, WFMin
  <1>2. \A n \in S: <<n, m>> \in Nat \X Nat /\ <<n, m>>[1] = n /\ <<n, m>>[2] = m
    OBVIOUS
  <1>3. \A n \in S: ~(n < m)
    BY <1>1, <1>2 DEF Below
  <1>4. \A n \in S: m <= n
    BY <1>3
  <1>5. QED
    BY <1>4 DEF Min

LEMMA Greatest ==
  ASSUME NEW S, NEW b \in Nat, S \subseteq 0 .. b, S # {}
  PROVE  Max(S) \in S /\ \A n \in S: n <= Max(S)
  <1> DEFINE T == {b - n: n \in S}
  <1>1. T \subseteq Nat
    OBVIOUS
  <1>2. T # {}
    OBVIOUS
  <1>3. PICK m \in T: \A n \in T: m <= n
    BY <1>1, <1>2, Least
  <1>4. PICK x \in S: m = b - x
    OBVIOUS
  <1>5. \A n \in S: b - n \in T /\ n \in Nat
    OBVIOUS
  <1>6. \A n \in S: n <= x
    BY <1>3, <1>4, <1>5
  <1>7. QED
    BY <1>6 DEF Max

-----------------------------------------------------------------------------
(* Whatever occurs in a text.                                              *)
Literals == {SP, TAB, CRLF, COLON, "HTTP/1.1", "Host", "Content-Length", "Connection", "close",
             "Content-Type", "application/json", "why", "?", "&", "=", "%", "+", "Unknown"}
Hexes == {H[(b \div 16) + 1]: b \in DOMAIN Ascii, H \in {HexDigits, HexCapitals}}
           \cup {H[(b % 16) + 1]: b \in DOMAIN Ascii, H \in {HexDigits, HexCapitals}}
Tokens == STRING \cup Literals \cup {ToString(n): n \in Nat \cup Statuses}
            \cup {StatusReasonPhrase[n]: n \in Statuses}
            \cup {MethodToString[c.method]: c \in Calls}
            \cup {MimeTypeFromExtension(e): e \in Extensions}
            \cup Hexes
AnyText == Seq(Tokens)

LEMMA TextsAny == Texts \subseteq AnyText /\ STRING \subseteq Tokens
  BY DEF Texts, AnyText, Tokens

LEMMA Cut ==
  ASSUME NEW text \in AnyText, NEW m \in 1 .. Len(text) + 1, NEW n \in m - 1 .. Len(text)
  PROVE  /\ SubSeq(text, m, n) \in AnyText /\ Len(SubSeq(text, m, n)) = n - m + 1
         /\ \A k \in 1 .. n - m + 1: SubSeq(text, m, n)[k] = text[m + k - 1]
  <1>1. Len(text) \in Nat /\ \A k \in 1 .. Len(text): text[k] \in Tokens
    BY DEF AnyText
  <1>2. m \in Int /\ n \in Int /\ \A k \in m .. n: text[k] \in Tokens
    BY <1>1
  <1>3. /\ SubSeq(text, m, n) \in AnyText
        /\ Len(SubSeq(text, m, n)) = IF m <= n THEN n - m + 1 ELSE 0
        /\ \A k \in 1 .. n - m + 1: SubSeq(text, m, n)[k] = text[m + k - 1]
    BY <1>2, SubSeqProperties DEF AnyText
  <1>4. QED
    BY <1>1, <1>3

LEMMA SameText ==
  ASSUME NEW a \in AnyText, NEW b \in AnyText, Len(a) = Len(b), \A i \in 1 .. Len(a): a[i] = b[i]
  PROVE  a = b
  BY SeqEqual DEF AnyText

LEMMA CutOfCut ==
  ASSUME NEW text \in AnyText, NEW i \in 1 .. Len(text) + 1, NEW j \in i - 1 .. Len(text),
         NEW m \in 1 .. (j - i + 1) + 1, NEW n \in m - 1 .. j - i + 1
  PROVE  SubSeq(SubSeq(text, i, j), m, n) = SubSeq(text, i + m - 1, i + n - 1)
  <1> DEFINE outer == SubSeq(text, i, j)
             inner == SubSeq(outer, m, n)
             direct == SubSeq(text, i + m - 1, i + n - 1)
  <1>1. Len(text) \in Nat /\ i \in Nat /\ j \in Int /\ m \in Nat /\ n \in Int
        /\ 1 <= i /\ i - 1 <= j /\ j <= Len(text) /\ 1 <= m /\ m - 1 <= n /\ n <= j - i + 1
    BY DEF AnyText
  <1>2. /\ outer \in AnyText /\ Len(outer) = j - i + 1
        /\ \A k \in 1 .. j - i + 1: outer[k] = text[i + k - 1]
    BY Cut
  <1> HIDE DEF outer
  <1>3. m \in 1 .. Len(outer) + 1 /\ n \in m - 1 .. Len(outer)
    BY <1>1, <1>2
  <1>4. /\ inner \in AnyText /\ Len(inner) = n - m + 1
        /\ \A k \in 1 .. n - m + 1: inner[k] = outer[m + k - 1]
    BY <1>2, <1>3, Cut
  <1>5. i + m - 1 \in 1 .. Len(text) + 1 /\ i + n - 1 \in (i + m - 1) - 1 .. Len(text)
        /\ (i + n - 1) - (i + m - 1) + 1 = n - m + 1
    BY <1>1
  <1>6. /\ direct \in AnyText /\ Len(direct) = n - m + 1
        /\ \A k \in 1 .. n - m + 1: direct[k] = text[(i + m - 1) + k - 1]
    BY <1>5, Cut
  <1> HIDE DEF inner, direct
  <1>7. \A k \in 1 .. n - m + 1: m + k - 1 \in 1 .. j - i + 1
                                 /\ i + (m + k - 1) - 1 = (i + m - 1) + k - 1
    BY <1>1
  <1>8. \A k \in 1 .. n - m + 1: inner[k] = direct[k]
    BY <1>2, <1>4, <1>6, <1>7
  <1>9. inner = direct
    BY <1>4, <1>6, <1>8, SameText
  <1>10. QED
    BY <1>9 DEF inner, direct, outer

LEMMA CutBefore ==
  ASSUME NEW text \in AnyText, NEW i \in 1 .. Len(text) + 1
  PROVE  /\ Before(text, i) \in AnyText /\ Len(Before(text, i)) = i - 1
         /\ \A k \in 1 .. i - 1: Before(text, i)[k] = text[k]
  <1>1. 1 \in 1 .. Len(text) + 1 /\ i - 1 \in 1 - 1 .. Len(text)
    BY DEF AnyText
  <1>2. QED
    BY <1>1, Cut DEF Before

LEMMA CutAfter ==
  ASSUME NEW text \in AnyText, NEW i \in 0 .. Len(text)
  PROVE  /\ After(text, i) \in AnyText /\ Len(After(text, i)) = Len(text) - i
         /\ \A k \in 1 .. Len(text) - i: After(text, i)[k] = text[i + k]
  <1>1. i + 1 \in 1 .. Len(text) + 1 /\ Len(text) \in (i + 1) - 1 .. Len(text)
    BY DEF AnyText
  <1>2. /\ After(text, i) \in AnyText /\ Len(After(text, i)) = Len(text) - (i + 1) + 1
        /\ \A k \in 1 .. Len(text) - (i + 1) + 1: After(text, i)[k] = text[(i + 1) + k - 1]
    BY <1>1, Cut DEF After
  <1>3. Len(text) - (i + 1) + 1 = Len(text) - i /\ \A k \in 1 .. Len(text) - i: (i + 1) + k - 1 = i + k
    BY DEF AnyText
  <1>4. QED
    BY <1>2, <1>3

LEMMA AfterAfter ==
  ASSUME NEW text \in AnyText, NEW i \in 0 .. Len(text), NEW j \in 0 .. Len(text) - i
  PROVE  After(After(text, i), j) = After(text, i + j)
  <1>1. Len(text) \in Nat /\ i + j \in 0 .. Len(text)
    BY DEF AnyText
  <1>2. /\ After(text, i) \in AnyText /\ Len(After(text, i)) = Len(text) - i
        /\ \A k \in 1 .. Len(text) - i: After(text, i)[k] = text[i + k]
    BY CutAfter
  <1>3. /\ After(After(text, i), j) \in AnyText /\ Len(After(After(text, i), j)) = Len(text) - i - j
        /\ \A k \in 1 .. Len(text) - i - j: After(After(text, i), j)[k] = After(text, i)[j + k]
    BY <1>2, CutAfter
  <1>4. /\ After(text, i + j) \in AnyText /\ Len(After(text, i + j)) = Len(text) - (i + j)
        /\ \A k \in 1 .. Len(text) - (i + j): After(text, i + j)[k] = text[(i + j) + k]
    BY <1>1, CutAfter
  <1>5. \A k \in 1 .. Len(text) - i - j: j + k \in 1 .. Len(text) - i /\ i + (j + k) = (i + j) + k
    BY <1>1
  <1> HIDE DEF After, AnyText
  <1>6. \A k \in 1 .. Len(text) - i - j: After(After(text, i), j)[k] = text[(i + j) + k]
    BY <1>2, <1>3, <1>5
  <1>7. Len(text) - i - j = Len(text) - (i + j)
    BY <1>1
  <1>8. QED
    BY <1>3, <1>4, <1>6, <1>7, SameText

(* find(): the first occurrence. *)
LEMMA Found ==
  ASSUME NEW text \in AnyText, NEW c
  PROVE  /\ Find(text, c) \in 0 .. Len(text)
         /\ Find(text, c) # 0 => text[Find(text, c)] = c
         /\ Find(text, c) # 0 => \A i \in 1 .. Find(text, c) - 1: text[i] # c
         /\ Find(text, c) = 0 => \A i \in 1 .. Len(text): text[i] # c
  <1> DEFINE S == {i \in 1 .. Len(text): text[i] = c}
  <1>1. Len(text) \in Nat
    BY DEF AnyText
  <1>2. Find(text, c) = IF S # {} THEN Min(S) ELSE 0
    BY DEF Find, SelectInSeq
  <1>3. S \subseteq Nat
    BY <1>1
  <1>4. S # {} => Min(S) \in S /\ \A i \in S: Min(S) <= i
    BY <1>3, Least
  <1>5. CASE S = {}
    BY <1>1, <1>2, <1>5
  <1>6. CASE S # {}
    <2>1. Find(text, c) \in 1 .. Len(text) /\ text[Find(text, c)] = c
      BY <1>1, <1>2, <1>4, <1>6
    <2>2. \A i \in 1 .. Find(text, c) - 1: text[i] # c
      <3>1. SUFFICES ASSUME NEW i \in 1 .. Find(text, c) - 1, text[i] = c PROVE FALSE
        OBVIOUS
      <3>2. i \in S
        BY <1>1, <2>1, <3>1
      <3>3. QED
        BY <1>2, <1>4, <1>6, <2>1, <3>2
    <2>3. QED
      BY <2>1, <2>2
  <1>7. QED
    BY <1>5, <1>6

(* A position that is found where nothing before is. *)
LEMMA FoundAt ==
  ASSUME NEW text \in AnyText, NEW c, NEW e \in 1 .. Len(text), text[e] = c,
         \A i \in 1 .. e - 1: text[i] # c
  PROVE  Find(text, c) = e
  <1>1. Len(text) \in Nat
    BY DEF AnyText
  <1>2. Find(text, c) # 0
    BY Found
  <1>3. Find(text, c) \in 1 .. Len(text) /\ text[Find(text, c)] = c
        /\ \A i \in 1 .. Find(text, c) - 1: text[i] # c
    BY <1>1, <1>2, Found
  <1>4. ~(Find(text, c) < e) /\ ~(e < Find(text, c))
    BY <1>1, <1>3
  <1>5. QED
    BY <1>1, <1>3, <1>4

-----------------------------------------------------------------------------
(* The header block and its lines.                                         *)
LEMMA HeadEnds ==
  ASSUME NEW text \in AnyText
  PROVE  /\ HeadEnd(text) \in 0 .. Len(text)
         /\ HeadEnd(text) # 0 =>
              /\ HeadEnd(text) \in 1 .. Len(text) - 1
              /\ text[HeadEnd(text)] = CRLF /\ text[HeadEnd(text) + 1] = CRLF
              /\ \A i \in 1 .. HeadEnd(text) - 1: ~(text[i] = CRLF /\ text[i + 1] = CRLF)
  <1> DEFINE S == {i \in 1 .. Len(text) - 1: text[i] = CRLF /\ text[i + 1] = CRLF}
  <1>1. Len(text) \in Nat
    BY DEF AnyText
  <1>2. HeadEnd(text) = IF S = {} THEN 0 ELSE Min(S)
    BY DEF HeadEnd
  <1>3. S \subseteq Nat
    BY <1>1
  <1>4. S # {} => Min(S) \in S /\ \A i \in S: Min(S) <= i
    BY <1>3, Least
  <1>5. CASE S = {}
    BY <1>1, <1>2, <1>5
  <1>6. CASE S # {}
    <2>1. /\ HeadEnd(text) \in 1 .. Len(text) - 1
          /\ text[HeadEnd(text)] = CRLF /\ text[HeadEnd(text) + 1] = CRLF
      BY <1>2, <1>4, <1>6
    <2>2. ASSUME NEW i \in 1 .. HeadEnd(text) - 1, text[i] = CRLF, text[i + 1] = CRLF PROVE FALSE
      <3>1. i \in S
        BY <1>1, <2>1, <2>2
      <3>2. HeadEnd(text) <= i
        BY <1>2, <1>4, <1>6, <3>1
      <3>3. QED
        BY <1>1, <2>1, <3>2
    <2>3. QED
      BY <1>1, <2>1, <2>2
  <1>7. QED
    BY <1>5, <1>6

(* The line that starts at i ends at the "\r\n" at LineEnd(text, i).        *)
LineEnd(text, i) == i - 1 + Find(After(text, i - 1), CRLF)

LEMMA LineAfter ==
  ASSUME NEW text \in AnyText, NEW i \in 1 .. Len(text), NEW h \in i .. Len(text), text[h] = CRLF
  PROVE  /\ LineEnd(text, i) \in i .. h /\ text[LineEnd(text, i)] = CRLF
         /\ \A k \in i .. LineEnd(text, i) - 1: text[k] # CRLF
         /\ LineAt(text, i) = SubSeq(text, i, LineEnd(text, i) - 1)
         /\ LineAt(text, i) = Before(After(text, i - 1), Find(After(text, i - 1), CRLF))
         /\ Find(After(text, i - 1), CRLF) # 0
  <1> DEFINE tail == After(text, i - 1)
             f == Find(tail, CRLF)
  <1>1. Len(text) \in Nat /\ i - 1 \in 0 .. Len(text)
    BY DEF AnyText
  <1>2. /\ tail \in AnyText /\ Len(tail) = Len(text) - (i - 1)
        /\ \A k \in 1 .. Len(text) - (i - 1): tail[k] = text[(i - 1) + k]
    BY <1>1, CutAfter
  <1> HIDE DEF tail
  <1>3. h - i + 1 \in 1 .. Len(tail) /\ tail[h - i + 1] = CRLF
    BY <1>1, <1>2
  <1>4. /\ f \in 0 .. Len(tail)
        /\ f # 0 => tail[f] = CRLF
        /\ f # 0 => \A k \in 1 .. f - 1: tail[k] # CRLF
        /\ f = 0 => \A k \in 1 .. Len(tail): tail[k] # CRLF
    BY <1>2, Found
  <1> HIDE DEF f
  <1>5. f # 0 /\ f \in 1 .. Len(tail)
    BY <1>1, <1>2, <1>3, <1>4
  <1>6. f <= h - i + 1
    BY <1>3, <1>4, <1>5
  <1>7. LineEnd(text, i) = i - 1 + f
    BY DEF LineEnd, f, tail
  <1>8. LineEnd(text, i) \in i .. h /\ text[LineEnd(text, i)] = CRLF
    BY <1>1, <1>2, <1>4, <1>5, <1>6, <1>7
  <1>9. ASSUME NEW k \in i .. LineEnd(text, i) - 1 PROVE text[k] # CRLF
    <2>1. k - (i - 1) \in 1 .. f - 1 /\ k - (i - 1) \in 1 .. Len(text) - (i - 1)
      BY <1>1, <1>2, <1>5, <1>7, <1>8
    <2>2. tail[k - (i - 1)] # CRLF /\ tail[k - (i - 1)] = text[(i - 1) + (k - (i - 1))]
      BY <1>2, <1>4, <1>5, <2>1
    <2>3. QED
      BY <1>1, <2>2
  <1>10. LineAt(text, i) = Before(tail, f)
    BY DEF LineAt, f, tail
  <1>11. SubSeq(text, i, LineEnd(text, i) - 1) = Before(tail, f)
    <2> DEFINE e == LineEnd(text, i)
    <2>0. f \in 1 .. Len(tail) + 1
      BY <1>1, <1>2, <1>5
    <2>1. /\ Before(tail, f) \in AnyText /\ Len(Before(tail, f)) = f - 1
          /\ \A k \in 1 .. f - 1: Before(tail, f)[k] = tail[k]
      BY <1>2, <2>0, CutBefore
    <2>2. i \in 1 .. Len(text) + 1 /\ e - 1 \in i - 1 .. Len(text)
      BY <1>1, <1>8
    <2>3. /\ SubSeq(text, i, e - 1) \in AnyText /\ Len(SubSeq(text, i, e - 1)) = (e - 1) - i + 1
          /\ \A k \in 1 .. (e - 1) - i + 1: SubSeq(text, i, e - 1)[k] = text[i + k - 1]
      BY <2>2, Cut
    <2>4. (e - 1) - i + 1 = f - 1
      BY <1>1, <1>5, <1>7
    <2>5. \A k \in 1 .. f - 1: tail[k] = text[i + k - 1]
      <3>1. \A k \in 1 .. f - 1: k \in 1 .. Len(text) - (i - 1) /\ (i - 1) + k = i + k - 1
        BY <1>1, <1>2, <1>5
      <3>2. QED
        BY <1>2, <3>1
    <2> HIDE DEF e
    <2>6. QED
      BY <2>1, <2>3, <2>4, <2>5, SameText DEF e
  <1>12. QED
    BY <1>5, <1>8, <1>9, <1>10, <1>11 DEF f, tail

LEMMA LineStart ==
  ASSUME NEW text \in AnyText, HeadEnd(text) # 0, NEW i \in LineStarts(text)
  PROVE  /\ i \in 1 .. HeadEnd(text) /\ i \in 1 .. Len(text)
         /\ i # 1 => text[i - 1] = CRLF /\ text[i] # CRLF
  <1>1. /\ HeadEnd(text) \in 1 .. Len(text) - 1 /\ Len(text) \in Nat
        /\ \A k \in 1 .. HeadEnd(text) - 1: ~(text[k] = CRLF /\ text[k + 1] = CRLF)
    BY HeadEnds DEF AnyText
  <1>2. CASE i = 1
    BY <1>1, <1>2
  <1>3. CASE i # 1
    <2>1. PICK j \in 1 .. HeadEnd(text) - 1: text[j] = CRLF /\ i = j + 1
      BY <1>3 DEF LineStarts
    <2>2. QED
      BY <1>1, <2>1
  <1>4. QED
    BY <1>2, <1>3

LEMMA LineEnds ==
  ASSUME NEW text \in AnyText, HeadEnd(text) # 0, NEW i \in LineStarts(text)
  PROVE  /\ LineEnd(text, i) \in i .. HeadEnd(text) /\ text[LineEnd(text, i)] = CRLF
         /\ \A k \in i .. LineEnd(text, i) - 1: text[k] # CRLF
         /\ LineAt(text, i) = SubSeq(text, i, LineEnd(text, i) - 1)
         /\ LineAt(text, i) = Before(After(text, i - 1), Find(After(text, i - 1), CRLF))
         /\ LineAt(text, i) \in AnyText /\ Len(LineAt(text, i)) = LineEnd(text, i) - i
         /\ Find(After(text, i - 1), CRLF) # 0
  <1>1. HeadEnd(text) \in 1 .. Len(text) - 1 /\ text[HeadEnd(text)] = CRLF /\ Len(text) \in Nat
    BY HeadEnds DEF AnyText
  <1>2. i \in 1 .. Len(text) /\ HeadEnd(text) \in i .. Len(text)
    BY <1>1, LineStart
  <1>3. /\ LineEnd(text, i) \in i .. HeadEnd(text) /\ text[LineEnd(text, i)] = CRLF
        /\ \A k \in i .. LineEnd(text, i) - 1: text[k] # CRLF
        /\ LineAt(text, i) = SubSeq(text, i, LineEnd(text, i) - 1)
        /\ LineAt(text, i) = Before(After(text, i - 1), Find(After(text, i - 1), CRLF))
        /\ Find(After(text, i - 1), CRLF) # 0
    BY <1>1, <1>2, LineAfter
  <1>4. i \in 1 .. Len(text) + 1 /\ LineEnd(text, i) - 1 \in i - 1 .. Len(text)
        /\ (LineEnd(text, i) - 1) - i + 1 = LineEnd(text, i) - i
    BY <1>1, <1>2, <1>3
  <1>5. LineAt(text, i) \in AnyText /\ Len(LineAt(text, i)) = LineEnd(text, i) - i
    BY <1>3, <1>4, Cut
  <1>6. QED
    BY <1>3, <1>5

(* The next line starts after this one, and none in between.               *)
LEMMA NextLine ==
  ASSUME NEW text \in AnyText, HeadEnd(text) # 0, NEW i \in LineStarts(text)
  PROVE  /\ LineEnd(text, i) < HeadEnd(text) => LineEnd(text, i) + 1 \in FieldStarts(text)
         /\ \A k \in LineStarts(text): k <= i \/ k >= LineEnd(text, i) + 1
         /\ LineEnd(text, i) = HeadEnd(text) => \A k \in LineStarts(text): k <= i
         /\ i # 1 => i < LineEnd(text, i)
  <1> DEFINE e == LineEnd(text, i)
  <1>1. /\ e \in i .. HeadEnd(text) /\ text[e] = CRLF /\ \A k \in i .. e - 1: text[k] # CRLF
        /\ i \in 1 .. HeadEnd(text) /\ (i # 1 => text[i] # CRLF) /\ HeadEnd(text) \in Nat
    BY LineEnds, LineStart, HeadEnds DEF AnyText
  <1> HIDE DEF e
  <1>2. e < HeadEnd(text) => e + 1 \in FieldStarts(text)
    <2>1. e < HeadEnd(text) => e \in 1 .. HeadEnd(text) - 1 /\ e + 1 # 1
      BY <1>1
    <2>2. QED
      BY <1>1, <2>1 DEF FieldStarts, LineStarts
  <1>3. ASSUME NEW k \in LineStarts(text), ~(k <= i) PROVE k >= e + 1
    <2>1. PICK j \in 1 .. HeadEnd(text) - 1: text[j] = CRLF /\ k = j + 1
      BY <1>1, <1>3 DEF LineStarts
    <2>2. j >= i
      BY <1>1, <1>3, <2>1
    <2>3. ~(j \in i .. e - 1)
      BY <1>1, <2>1
    <2>4. QED
      BY <1>1, <2>1, <2>2, <2>3
  <1>4. \A k \in LineStarts(text): k \in 1 .. HeadEnd(text)
    BY LineStart
  <1>5. i # 1 => i < e
    BY <1>1
  <1>6. QED
    BY <1>1, <1>2, <1>3, <1>4, <1>5 DEF e

(* The field lines before a position. *)
Earlier(text, at) == {i \in FieldStarts(text): i < at}

LEMMA EarlierGrows ==
  ASSUME NEW text \in AnyText, HeadEnd(text) # 0, NEW i \in LineStarts(text)
  PROVE  /\ Earlier(text, LineEnd(text, i) + 1) = Earlier(text, i) \cup ({i} \ {1})
         /\ LineEnd(text, i) + 1 \in FieldStarts(text) \cup {HeadEnd(text) + 1}
         /\ i < LineEnd(text, i) + 1
  <1> DEFINE e == LineEnd(text, i)
  <1>1. /\ i \in Nat /\ e \in Nat /\ i <= e /\ e <= HeadEnd(text) /\ HeadEnd(text) \in Nat
    BY LineStart, LineEnds, HeadEnds DEF AnyText
  <1>2. /\ e < HeadEnd(text) => e + 1 \in FieldStarts(text)
        /\ \A k \in LineStarts(text): k <= i \/ k >= e + 1
    BY NextLine
  <1>3. \A k \in FieldStarts(text): k \in LineStarts(text) /\ k # 1 /\ k \in Nat
    BY LineStart DEF FieldStarts
  <1>4. i # 1 => i \in FieldStarts(text)
    BY DEF FieldStarts
  <1> HIDE DEF e
  <1>5. \A k \in FieldStarts(text): k < e + 1 <=> (k < i \/ k = i)
    BY <1>1, <1>2, <1>3
  <1>6. Earlier(text, e + 1) = Earlier(text, i) \cup ({i} \ {1})
    BY <1>3, <1>4, <1>5 DEF Earlier
  <1>7. QED
    BY <1>1, <1>2, <1>6 DEF e

-----------------------------------------------------------------------------
(* The map after some lines: the last value of each name.                  *)
LastOf(map, names, values, seen) ==
    /\ DOMAIN map = {names[i]: i \in seen}
    /\ \A i \in seen: (\A j \in seen: names[j] = names[i] => j <= i) => map[names[i]] = values[i]

LEMMA LastKept ==
  ASSUME NEW map, NEW names, NEW values, NEW seen, NEW at \in Nat,
         seen \subseteq Nat, \A i \in seen: i < at, LastOf(map, names, values, seen)
  PROVE  LastOf(Updated(map, names[at], values[at]), names, values, seen \cup {at})
  <1> DEFINE new == Updated(map, names[at], values[at])
  <1>1. DOMAIN new = DOMAIN map \cup {names[at]} /\ new[names[at]] = values[at]
        /\ \A k \in DOMAIN map \ {names[at]}: new[k] = map[k]
    BY DEF Updated
  <1> HIDE DEF new
  <1>2. DOMAIN new = {names[i]: i \in seen \cup {at}}
    BY <1>1 DEF LastOf
  <1>3. ASSUME NEW i \in seen \cup {at}, \A j \in seen \cup {at}: names[j] = names[i] => j <= i
        PROVE  new[names[i]] = values[i]
    <2>1. CASE i = at
      BY <1>1, <2>1
    <2>2. CASE i # at
      <3>1. i \in seen /\ i < at /\ i \in Nat
        BY <2>2
      <3>2. names[at] # names[i]
        BY <1>3, <3>1
      <3>3. map[names[i]] = values[i]
        BY <1>3, <3>1 DEF LastOf
      <3>4. QED
        BY <1>1, <3>1, <3>2, <3>3 DEF LastOf
    <2>3. QED
      BY <2>1, <2>2
  <1>4. QED
    BY <1>2, <1>3 DEF LastOf, new

LEMMA NothingKept ==
  ASSUME NEW names, NEW values
  PROVE  LastOf(EmptyMap, names, values, {})
  BY DEF LastOf, EmptyMap

(* Once all fields are seen, the map has for each name the last one's value. *)
LEMMA LastMark ==
  ASSUME NEW text \in AnyText, HeadEnd(text) # 0, NEW names, NEW values, NEW map,
         LastOf(map, names, values, FieldStarts(text)), NEW n \in DOMAIN map
  PROVE  LET last == Max({i \in FieldStarts(text): names[i] = n})
         IN last \in FieldStarts(text) /\ names[last] = n /\ map[n] = values[last]
  <1> DEFINE S == {i \in FieldStarts(text): names[i] = n}
  <1>1. HeadEnd(text) \in Nat
    BY HeadEnds DEF AnyText
  <1>2. \A i \in FieldStarts(text): i \in LineStarts(text) /\ i \in 0 .. HeadEnd(text)
    BY <1>1, LineStart DEF FieldStarts
  <1>3. S \subseteq 0 .. HeadEnd(text)
    BY <1>2
  <1>4. S # {}
    BY DEF LastOf
  <1>5. Max(S) \in S /\ \A i \in S: i <= Max(S)
    BY <1>1, <1>3, <1>4, Greatest
  <1> DEFINE last == Max(S)
  <1>6. last \in FieldStarts(text) /\ names[last] = n
        /\ \A j \in FieldStarts(text): names[j] = names[last] => j <= last
    BY <1>5
  <1> HIDE DEF last
  <1>7. map[names[last]] = values[last]
    BY <1>6 DEF LastOf
  <1>8. QED
    BY <1>6, <1>7 DEF last

-----------------------------------------------------------------------------
(* What the parsers do to names and values.                                *)
LEMMA Stripped ==
  ASSUME NEW text \in AnyText, NEW blanks
  PROVE  /\ StripLeft(text, blanks) \in AnyText
         /\ \E k \in 0 .. Len(text): /\ StripLeft(text, blanks) = After(text, k)
                                     /\ \A i \in 1 .. k: text[i] \in blanks
  <1> DEFINE S == {i \in 1 .. Len(text): text[i] \notin blanks}
             f == SelectInSeq(text, LAMBDA x: x \notin blanks)
  <1>1. Len(text) \in Nat
    BY DEF AnyText
  <1>2. f = IF S # {} THEN Min(S) ELSE 0
    BY DEF SelectInSeq
  <1>3. S # {} => Min(S) \in S /\ \A i \in S: Min(S) <= i
    BY <1>1, Least
  <1>4. StripLeft(text, blanks) = IF f = 0 THEN <<>> ELSE SubSeq(text, f, Len(text))
    BY DEF StripLeft
  <1> HIDE DEF f
  <1>5. CASE S = {}
    <2>1. After(text, Len(text)) = <<>>
      BY <1>1, CutAfter, EmptySeq DEF AnyText
    <2>2. \A i \in 1 .. Len(text): text[i] \in blanks
      BY <1>5
    <2>3. StripLeft(text, blanks) = <<>> /\ Len(text) \in 0 .. Len(text)
      BY <1>1, <1>2, <1>4, <1>5
    <2>4. QED
      BY <2>1, <2>2, <2>3 DEF AnyText
  <1>6. CASE S # {}
    <2>1. f \in 1 .. Len(text) /\ \A i \in S: f <= i
      BY <1>1, <1>2, <1>3, <1>6
    <2>2. \A i \in 1 .. f - 1: text[i] \in blanks
      <3>1. ASSUME NEW i \in 1 .. f - 1, text[i] \notin blanks PROVE FALSE
        <4>1. i \in S
          BY <1>1, <2>1, <3>1
        <4>2. f <= i
          BY <2>1, <4>1
        <4>3. QED
          BY <1>1, <2>1, <4>2
      <3>2. QED
        BY <3>1
    <2>3. StripLeft(text, blanks) = After(text, f - 1)
      BY <1>1, <1>4, <2>1 DEF After
    <2>4. f - 1 \in 0 .. Len(text)
      BY <1>1, <2>1
    <2>5. QED
      BY <2>2, <2>3, <2>4, CutAfter
  <1>7. QED
    BY <1>5, <1>6

LEMMA Reversed ==
  ASSUME NEW text \in AnyText
  PROVE  /\ Reverse(text) \in AnyText /\ Len(Reverse(text)) = Len(text)
         /\ \A i \in 1 .. Len(text): \E j \in 1 .. Len(text): Reverse(text)[i] = text[j]
  <1>1. Len(text) \in Nat /\ \A i \in 1 .. Len(text): text[i] \in Tokens
    BY DEF AnyText
  <1>2. \A i \in 1 .. Len(text): (Len(text) - i) + 1 \in 1 .. Len(text)
    BY <1>1
  <1>3. \A i \in 1 .. Len(text): text[(Len(text) - i) + 1] \in Tokens
    BY <1>1, <1>2
  <1>4. Reverse(text) \in AnyText /\ Len(Reverse(text)) = Len(text)
        /\ \A i \in 1 .. Len(text): Reverse(text)[i] = text[(Len(text) - i) + 1]
    BY <1>1, <1>3, IsASeq DEF Reverse, AnyText
  <1>5. QED
    BY <1>2, <1>4

(* trim() adds nothing.                                                    *)
LEMMA Trimmed ==
  ASSUME NEW text \in AnyText
  PROVE  /\ Trim(text) \in AnyText
         /\ \A i \in 1 .. Len(Trim(text)): \E j \in 1 .. Len(text): Trim(text)[i] = text[j]
  <1> DEFINE From(a, b) == \A i \in 1 .. Len(a): \E j \in 1 .. Len(b): a[i] = b[j]
  <1>1. ASSUME NEW t \in AnyText PROVE StripLeft(t, {SP, TAB}) \in AnyText /\ From(StripLeft(t, {SP, TAB}), t)
    <2>1. /\ StripLeft(t, {SP, TAB}) \in AnyText
          /\ \E k \in 0 .. Len(t): StripLeft(t, {SP, TAB}) = After(t, k)
      BY Stripped
    <2>2. PICK k \in 0 .. Len(t): StripLeft(t, {SP, TAB}) = After(t, k)
      BY <2>1
    <2>3. Len(After(t, k)) = Len(t) - k /\ \A i \in 1 .. Len(t) - k: After(t, k)[i] = t[k + i]
      BY CutAfter
    <2>4. \A i \in 1 .. Len(t) - k: k + i \in 1 .. Len(t)
      BY DEF AnyText
    <2>5. From(After(t, k), t)
      BY <2>3, <2>4
    <2>6. QED
      BY <2>1, <2>2, <2>5
  <1> DEFINE t1 == StripLeft(text, {SP, TAB})
             t2 == Reverse(t1)
             t3 == StripLeft(t2, {SP, TAB})
             t4 == Reverse(t3)
  <1>2. t1 \in AnyText /\ From(t1, text)
    BY <1>1
  <1> HIDE DEF t1
  <1>3. t2 \in AnyText /\ From(t2, t1)
    BY <1>2, Reversed
  <1> HIDE DEF t2
  <1>4. t3 \in AnyText /\ From(t3, t2)
    BY <1>1, <1>3
  <1> HIDE DEF t3
  <1>5. t4 \in AnyText /\ From(t4, t3)
    BY <1>4, Reversed
  <1> HIDE DEF t4
  <1>6. From(t4, text)
    BY <1>2, <1>3, <1>4, <1>5
  <1>7. Trim(text) = t4
    BY DEF Trim, t1, t2, t3, t4
  <1>8. QED
    BY <1>5, <1>6, <1>7

LEMMA Lowered ==
  ASSUME NEW text \in AnyText
  PROVE  /\ Lowercase(text) \in AnyText /\ Len(Lowercase(text)) = Len(text)
         /\ Lowercase(Lowercase(text)) = Lowercase(text)
  <1>1. Len(text) \in Nat /\ DOMAIN text = 1 .. Len(text) /\ \A i \in 1 .. Len(text): text[i] \in Tokens
    BY DEF AnyText
  <1> DEFINE lower == [i \in 1 .. Len(text) |->
                          IF text[i] \in DOMAIN LowerOf THEN LowerOf[text[i]] ELSE text[i]]
  <1>2. Lowercase(text) = lower
    BY <1>1 DEF Lowercase
  <1>3. \A i \in 1 .. Len(text): lower[i] \in Tokens /\ lower[i] \notin DOMAIN LowerOf
    BY <1>1, MessagesAssumption, TextsAny
  <1>4. lower \in AnyText /\ DOMAIN lower = 1 .. Len(text)
    BY <1>1, <1>3, IsASeq DEF AnyText
  <1>5. Lowercase(lower) = lower
    BY <1>3, <1>4 DEF Lowercase
  <1>6. QED
    BY <1>2, <1>4, <1>5

(* Texts are put one after the other. *)
LEMMA FlattenedBySteps ==
  ASSUME NEW s, Len(s) \in Nat, Len(s) # 0
  PROVE  \E f: /\ \A i \in 1 .. Len(s): f[i] = IF i = 1 THEN s[i] ELSE f[i - 1] \o s[i]
              /\ FlattenSeq(s) = f[Len(s)]
  <1> DEFINE n == Len(s)
             Upto(f, m) == f = [i \in 1 .. m |-> IF i = 1 THEN s[i] ELSE f[i - 1] \o s[i]]
             Bad == {m \in 1 .. n: \A f: ~Upto(f, m)}
  <1>1. n \in Nat /\ n # 0
    OBVIOUS
  <1> HIDE DEF n
  <1>2. Bad = {}
    <2>1. SUFFICES ASSUME Bad # {} PROVE FALSE
      OBVIOUS
    <2> DEFINE m == Min(Bad)
    <2>2. m \in Bad /\ \A k \in Bad: m <= k
      <3> HIDE DEF Upto
      <3>1. Bad \subseteq Nat
        BY <1>1
      <3> HIDE DEF Bad
      <3>2. QED
        BY <2>1, <3>1, Least
    <2> HIDE DEF m
    <2>3. m \in 1 .. n /\ \A f: ~Upto(f, m)
      BY <2>2
    <2>4. CASE m = 1
      <3> DEFINE g == [i \in 1 .. m |-> s[1]]
      <3>1. \A i \in 1 .. m: i = 1
        BY <2>4
      <3>2. g = [i \in 1 .. m |-> IF i = 1 THEN s[i] ELSE g[i - 1] \o s[i]]
        BY <3>1
      <3>3. QED
        BY <2>3, <3>2
    <2>5. CASE m # 1
      <3>1. m - 1 \in 1 .. n /\ ~(m <= m - 1)
        BY <1>1, <2>3, <2>5
      <3>2. \E f: Upto(f, m - 1)
        <4> HIDE DEF Upto
        <4>1. QED
          BY <2>2, <3>1
      <3>3. PICK f: Upto(f, m - 1)
        BY <3>2
      <3> DEFINE g == [i \in 1 .. m |-> IF i = 1 THEN s[i] ELSE f[i - 1] \o s[i]]
      <3>4. \A i \in 1 .. m - 1: f[i] = IF i = 1 THEN s[i] ELSE f[i - 1] \o s[i]
        BY <3>3
      <3>5. \A i \in 1 .. m - 1: i \in 1 .. m
        BY <2>3
      <3>6. \A i \in 1 .. m - 1: g[i] = f[i]
        BY <3>4, <3>5
      <3>7. \A i \in 1 .. m: i # 1 => i - 1 \in 1 .. m - 1
        BY <2>3
      <3>8. g = [i \in 1 .. m |-> IF i = 1 THEN s[i] ELSE g[i - 1] \o s[i]]
        BY <3>6, <3>7
      <3>9. QED
        BY <2>3, <3>8
    <2>6. QED
      BY <2>4, <2>5
  <1>3. n \in 1 .. n
    BY <1>1
  <1>4. \E f: Upto(f, n)
    <2> HIDE DEF Upto
    <2>1. QED
      BY <1>2, <1>3
  <1> DEFINE flatten == CHOOSE f: Upto(f, n)
  <1>5. Upto(flatten, n)
    BY <1>4
  <1>6. FlattenSeq(s) = flatten[n]
    BY <1>1 DEF FlattenSeq, n
  <1> HIDE DEF flatten
  <1>7. \A i \in 1 .. n: flatten[i] = IF i = 1 THEN s[i] ELSE flatten[i - 1] \o s[i]
    BY <1>5
  <1>8. QED
    BY <1>6, <1>7 DEF n

LEMMA Flattened ==
  ASSUME NEW T, NEW s \in Seq(Seq(T))
  PROVE  FlattenSeq(s) \in Seq(T)
  <1> DEFINE n == Len(s)
  <1>1. n \in Nat /\ \A i \in 1 .. n: s[i] \in Seq(T)
    OBVIOUS
  <1>2. CASE n = 0
    <2>1. FlattenSeq(s) = <<>>
      BY <1>2, EmptySeq DEF FlattenSeq
    <2>2. QED
      BY <2>1
  <1>3. CASE n # 0
    <2>1. PICK flatten: /\ \A i \in 1 .. n: flatten[i] = IF i = 1 THEN s[i] ELSE flatten[i - 1] \o s[i]
                        /\ FlattenSeq(s) = flatten[n]
      BY <1>1, <1>3, FlattenedBySteps
    <2> HIDE DEF n
    <2> DEFINE Wrong == {i \in 1 .. n: flatten[i] \notin Seq(T)}
    <2>2. Wrong = {}
      <3>1. SUFFICES ASSUME Wrong # {} PROVE FALSE
        OBVIOUS
      <3> DEFINE m == Min(Wrong)
      <3>2. m \in Wrong /\ \A k \in Wrong: m <= k
        <4>1. Wrong \subseteq Nat
          BY <1>1
        <4> HIDE DEF Wrong
        <4>2. QED
          BY <3>1, <4>1, Least
      <3> HIDE DEF m
      <3>3. m \in 1 .. n /\ flatten[m] \notin Seq(T)
        BY <3>2
      <3>4. m # 1 => m - 1 \in 1 .. n /\ ~(m <= m - 1)
        BY <1>1, <3>3
      <3>5. m # 1 => flatten[m - 1] \in Seq(T)
        BY <3>2, <3>4
      <3>6. m # 1 => flatten[m - 1] \o s[m] \in Seq(T)
        BY <1>1, <3>3, <3>5, ConcatProperties
      <3>7. QED
        BY <1>1, <2>1, <3>3, <3>6
    <2>3. n \in 1 .. n
      BY <1>1, <1>3
    <2>4. QED
      BY <2>1, <2>2, <2>3
  <1>4. QED
    BY <1>2, <1>3

-----------------------------------------------------------------------------
(* The client, at the line of the reply that starts at `at`.               *)
ReplyNames == [i \in FieldStarts(reply) |-> FieldName(LineAt(reply, i))]
ReplyValues == [i \in FieldStarts(reply) |-> Trim(ValueOf(LineAt(reply, i)))]

ReplyAt(at) ==
    /\ at \in FieldStarts(reply) \cup {HeadEnd(reply) + 1}
    /\ rest = SubSeq(reply, at, HeadEnd(reply) - 1)
    /\ \A i \in Earlier(reply, at): HasColon(LineAt(reply, i))
    /\ LastOf(out.headers, ReplyNames, ReplyValues, Earlier(reply, at))

ReplyInv ==
    /\ reply \in AnyText
    /\ DOMAIN out = {"statusCode", "headers", "body"}
    /\ pc \notin {"fields", "done", "rejected"} => out = EmptyOut
    /\ pc = "fields" => /\ HeadEnd(reply) # 0
                       /\ ToString(out.statusCode) \in Range(LineAt(reply, 1))
                       /\ \E at \in Nat: ReplyAt(at)
    /\ ReplyUnderstood

(* The head without its last line's end, seen from the start of a line.    *)
LEMMA HeadFrom ==
  ASSUME NEW text \in AnyText, HeadEnd(text) # 0, NEW i \in LineStarts(text)
  PROVE  LET head == SubSeq(text, i, HeadEnd(text) - 1)
         IN /\ head \in AnyText /\ FirstLine(head) = LineAt(text, i)
            /\ \E next \in FieldStarts(text) \cup {HeadEnd(text) + 1}:
                 /\ RestOf(head) = SubSeq(text, next, HeadEnd(text) - 1)
                 /\ i < next /\ Earlier(text, next) = Earlier(text, i) \cup ({i} \ {1})
  <1> SUFFICES ASSUME NEW head, head = SubSeq(text, i, HeadEnd(text) - 1)
               PROVE  /\ head \in AnyText /\ FirstLine(head) = LineAt(text, i)
                      /\ \E next \in FieldStarts(text) \cup {HeadEnd(text) + 1}:
                           /\ RestOf(head) = SubSeq(text, next, HeadEnd(text) - 1)
                           /\ i < next /\ Earlier(text, next) = Earlier(text, i) \cup ({i} \ {1})
    OBVIOUS
  <1> DEFINE h == HeadEnd(text)
             e == LineEnd(text, i)
             f == e - i + 1
  <1>1. /\ h \in 1 .. Len(text) - 1 /\ i \in 1 .. h /\ e \in i .. h /\ text[e] = CRLF
        /\ \A k \in i .. e - 1: text[k] # CRLF
        /\ LineAt(text, i) = SubSeq(text, i, e - 1)
    BY HeadEnds, LineStart, LineEnds
  <1>2. /\ e < h => e + 1 \in FieldStarts(text)
        /\ \A k \in LineStarts(text): k <= i \/ k >= e + 1
        /\ e = h => \A k \in LineStarts(text): k <= i
    BY NextLine
  <1> HIDE DEF h, e
  <1>5. /\ Len(text) \in Nat /\ h \in Nat /\ i \in Nat /\ e \in Nat
        /\ 1 <= i /\ i <= e /\ e <= h /\ h + 1 <= Len(text)
    BY <1>1 DEF AnyText
  <1>6. i \in 1 .. Len(text) + 1 /\ h - 1 \in i - 1 .. Len(text) /\ (h - 1) - i + 1 = h - i
    BY <1>5
  <1>7. /\ head \in AnyText /\ Len(head) = h - i
        /\ \A k \in 1 .. h - i: head[k] = text[i + k - 1]
    BY <1>6, Cut DEF h
  <1>8. Earlier(text, e + 1) = Earlier(text, i) \cup ({i} \ {1})
    BY EarlierGrows DEF e
  <1>9. CASE e < h
    <2>1. f \in 1 .. h - i /\ i + f - 1 = e
      BY <1>5, <1>9
    <2>2. head[f] = CRLF
      BY <1>1, <1>7, <2>1
    <2>3. ASSUME NEW k \in 1 .. f - 1 PROVE head[k] # CRLF
      <3>1. k \in 1 .. h - i /\ i + k - 1 \in i .. e - 1
        BY <1>5, <1>9
      <3>2. QED
        BY <1>1, <1>7, <3>1
    <2> HIDE DEF f
    <2>4. Find(head, CRLF) = f /\ f # 0
      <3>1. f \in 1 .. Len(head)
        BY <1>7, <2>1
      <3>2. Find(head, CRLF) = f
        BY <1>7, <2>2, <2>3, <3>1, FoundAt
      <3>3. QED
        BY <1>5, <2>1, <3>2
    <2>5. FirstLine(head) = SubSeq(head, 1, f - 1) /\ RestOf(head) = SubSeq(head, f + 1, h - i)
      BY <1>7, <2>4 DEF FirstLine, RestOf, Before, After
    <2>6. /\ 1 \in 1 .. ((h - 1) - i + 1) + 1 /\ f - 1 \in 1 - 1 .. (h - 1) - i + 1
          /\ f + 1 \in 1 .. ((h - 1) - i + 1) + 1 /\ h - i \in (f + 1) - 1 .. (h - 1) - i + 1
          /\ i + 1 - 1 = i /\ i + (f - 1) - 1 = e - 1 /\ i + (f + 1) - 1 = e + 1
          /\ i + (h - i) - 1 = h - 1
      BY <1>5, <1>9, <2>1
    <2>7. SubSeq(head, 1, f - 1) = SubSeq(text, i, e - 1)
      BY <1>6, <2>6, CutOfCut DEF h
    <2>8. SubSeq(head, f + 1, h - i) = SubSeq(text, e + 1, h - 1)
      BY <1>6, <2>6, CutOfCut DEF h
    <2>9. e + 1 \in FieldStarts(text) /\ i < e + 1
      BY <1>2, <1>5, <1>9
    <2>10. QED
      BY <1>1, <1>7, <1>8, <2>5, <2>7, <2>8, <2>9 DEF h
  <1>10. CASE ~(e < h)
    <2>1. e = h
      BY <1>5, <1>10
    <2>2. ASSUME NEW k \in 1 .. h - i PROVE head[k] # CRLF
      <3>1. i + k - 1 \in i .. e - 1
        BY <1>5, <2>1
      <3>2. QED
        BY <1>1, <1>7, <3>1
    <2>3. Find(head, CRLF) = 0
      <3>1. Find(head, CRLF) \in 0 .. h - i /\ (Find(head, CRLF) # 0 => head[Find(head, CRLF)] = CRLF)
        BY <1>7, Found
      <3>2. Find(head, CRLF) # 0 => Find(head, CRLF) \in 1 .. h - i
        BY <1>5, <3>1
      <3>3. QED
        BY <2>2, <3>1, <3>2
    <2>4. FirstLine(head) = LineAt(text, i)
      BY <1>1, <2>1, <2>3 DEF FirstLine, h
    <2>5. RestOf(head) = <<>> /\ SubSeq(text, h + 1, h - 1) = <<>>
      BY <1>5, <2>3, SubSeqEmpty DEF RestOf
    <2>6. i < h + 1
      BY <1>5
    <2>7. QED
      BY <1>7, <1>8, <2>1, <2>4, <2>5, <2>6 DEF h
  <1>11. QED
    BY <1>9, <1>10

LEMMA FirstIsLine == 1 \in LineStarts(reply) /\ 1 \in LineStarts(wire)
  BY DEF LineStarts

LEMMA NoneEarlier ==
  ASSUME NEW text \in AnyText, HeadEnd(text) # 0
  PROVE  /\ Earlier(text, 1) = {} /\ Earlier(text, HeadEnd(text) + 1) = FieldStarts(text)
         /\ FieldStarts(text) \subseteq Nat /\ HeadEnd(text) \in Nat
  <1>1. HeadEnd(text) \in Nat
    BY HeadEnds DEF AnyText
  <1>2. \A i \in FieldStarts(text): i \in 1 .. HeadEnd(text)
    BY LineStart DEF FieldStarts
  <1>3. QED
    BY <1>1, <1>2 DEF Earlier

LEMMA StatusParsed ==
  ASSUME ReplyInv, ParseStatus
  PROVE  ReplyInv'
  <1> DEFINE line == FirstLine(ReplyHead)
             tail == After(line, Find(line, SP))
             word == IF Find(tail, SP) = 0 THEN tail ELSE Before(tail, Find(tail, SP))
             code == Trim(word)
  <1>1. /\ pc = "status" /\ out = EmptyOut /\ reply \in AnyText /\ reply' = reply
        /\ \/ /\ HeadEnd(reply) # 0 /\ Find(line, SP) # 0 /\ IsNumber(code)
              /\ out' = [out EXCEPT !.statusCode = Number(code)]
              /\ rest' = RestOf(ReplyHead) /\ pc' = "fields"
           \/ pc' = "rejected" /\ out' = out
    BY DEF ParseStatus, ReplyInv
  <1>2. CASE pc' = "rejected" /\ out' = out
    BY <1>1, <1>2 DEF ReplyInv, ReplyUnderstood
  <1>3. CASE /\ HeadEnd(reply) # 0 /\ Find(line, SP) # 0 /\ IsNumber(code)
             /\ out' = [out EXCEPT !.statusCode = Number(code)]
             /\ rest' = RestOf(ReplyHead) /\ pc' = "fields"
    <2>1. ReplyHead = SubSeq(reply, 1, HeadEnd(reply) - 1)
      BY DEF ReplyHead, Before
    <2>2. /\ line = LineAt(reply, 1)
          /\ \E next \in FieldStarts(reply) \cup {HeadEnd(reply) + 1}:
               /\ rest' = SubSeq(reply, next, HeadEnd(reply) - 1)
               /\ Earlier(reply, next) = Earlier(reply, 1) \cup ({1} \ {1})
      <3>1. reply \in AnyText /\ HeadEnd(reply) # 0 /\ 1 \in LineStarts(reply) /\ rest' = RestOf(ReplyHead)
        BY <1>1, <1>3, FirstIsLine
      <3>2. /\ FirstLine(ReplyHead) = LineAt(reply, 1)
            /\ \E next \in FieldStarts(reply) \cup {HeadEnd(reply) + 1}:
                 /\ RestOf(ReplyHead) = SubSeq(reply, next, HeadEnd(reply) - 1)
                 /\ 1 < next /\ Earlier(reply, next) = Earlier(reply, 1) \cup ({1} \ {1})
        BY <2>1, <3>1, HeadFrom
      <3>3. QED
        BY <3>1, <3>2
    <2>3. LineAt(reply, 1) \in AnyText
      BY <1>1, <1>3, FirstIsLine, LineEnds
    <2> HIDE DEF line
    <2>4. PICK next \in FieldStarts(reply) \cup {HeadEnd(reply) + 1}:
               /\ rest' = SubSeq(reply, next, HeadEnd(reply) - 1)
               /\ Earlier(reply, next) = {}
      BY <1>1, <1>3, <2>2, NoneEarlier
    <2>5. next \in Nat
      BY <1>1, <1>3, NoneEarlier
    <2>6. /\ out'.headers = EmptyMap /\ DOMAIN out' = {"statusCode", "headers", "body"}
          /\ out'.statusCode = Number(code)
      BY <1>1, <1>3 DEF EmptyOut
    <2>7. ReplyAt(next)'
      BY <1>1, <2>4, <2>6, NothingKept DEF ReplyAt, ReplyNames, ReplyValues, Earlier
    <2>8. line \in AnyText /\ Find(line, SP) \in 0 .. Len(line)
      BY <2>2, <2>3, Found
    <2>9. /\ tail \in AnyText /\ Len(tail) = Len(line) - Find(line, SP)
          /\ \A k \in 1 .. Len(line) - Find(line, SP): tail[k] = line[Find(line, SP) + k]
      BY <2>8, CutAfter
    <2>10. \A k \in 1 .. Len(tail): \E j \in 1 .. Len(line): tail[k] = line[j]
      <3>1. \A k \in 1 .. Len(line) - Find(line, SP): Find(line, SP) + k \in 1 .. Len(line)
        BY <2>8 DEF AnyText
      <3>2. QED
        BY <2>9, <3>1
    <2> HIDE DEF tail
    <2>11. word \in AnyText /\ \A k \in 1 .. Len(word): \E j \in 1 .. Len(tail): word[k] = tail[j]
      <3>1. CASE Find(tail, SP) = 0
        BY <2>9, <3>1
      <3>2. CASE Find(tail, SP) # 0
        <4>1. Find(tail, SP) \in 1 .. Len(tail) + 1 /\ Len(tail) \in Nat /\ Find(tail, SP) <= Len(tail)
          BY <2>9, <3>2, Found DEF AnyText
        <4>2. /\ Before(tail, Find(tail, SP)) \in AnyText
              /\ Len(Before(tail, Find(tail, SP))) = Find(tail, SP) - 1
              /\ \A k \in 1 .. Find(tail, SP) - 1: Before(tail, Find(tail, SP))[k] = tail[k]
          BY <2>9, <4>1, CutBefore
        <4>3. \A k \in 1 .. Find(tail, SP) - 1: k \in 1 .. Len(tail)
          BY <4>1
        <4>4. QED
          BY <3>2, <4>2, <4>3
      <3>3. QED
        BY <3>1, <3>2
    <2> HIDE DEF word
    <2>12. \A k \in 1 .. Len(code): \E j \in 1 .. Len(word): code[k] = word[j]
      BY <2>11, Trimmed
    <2> HIDE DEF code
    <2>13. code = <<ToString(Number(code))>>
      BY <1>3 DEF IsNumber, Number
    <2>14. Len(code) = 1 /\ code[1] = ToString(Number(code))
      BY <2>13
    <2>15. \E j \in 1 .. Len(line): ToString(Number(code)) = line[j]
      BY <2>10, <2>11, <2>12, <2>14
    <2>16. ToString(out'.statusCode) \in Range(LineAt(reply, 1))
      BY <2>2, <2>3, <2>6, <2>15 DEF Range, AnyText
    <2>17. QED
      BY <1>1, <1>3, <2>5, <2>6, <2>7, <2>16 DEF ReplyInv, ReplyUnderstood
  <1>4. QED
    BY <1>1, <1>2, <1>3

LEMMA FieldParsed ==
  ASSUME ReplyInv, ParseField
  PROVE  ReplyInv'
  <1> DEFINE line == FirstLine(rest)
  <1>1. /\ pc = "fields" /\ rest # <<>> /\ reply \in AnyText /\ HeadEnd(reply) # 0 /\ reply' = reply
        /\ DOMAIN out = {"statusCode", "headers", "body"}
        /\ ToString(out.statusCode) \in Range(LineAt(reply, 1))
        /\ rest' = RestOf(rest)
        /\ \/ /\ HasColon(line) /\ out' = [out EXCEPT !.headers = KeepField(@, line)] /\ pc' = pc
           \/ pc' = "rejected" /\ out' = out
    BY DEF ParseField, ReplyInv
  <1>2. CASE pc' = "rejected" /\ out' = out
    BY <1>1, <1>2 DEF ReplyInv, ReplyUnderstood
  <1>3. CASE /\ HasColon(line) /\ out' = [out EXCEPT !.headers = KeepField(@, line)] /\ pc' = pc
    <2>1. PICK at \in Nat: ReplyAt(at)
      BY <1>1 DEF ReplyInv
    <2>2. /\ at \in FieldStarts(reply) \cup {HeadEnd(reply) + 1}
          /\ rest = SubSeq(reply, at, HeadEnd(reply) - 1)
      BY <2>1 DEF ReplyAt
    <2>3. at \in FieldStarts(reply) /\ at \in LineStarts(reply) /\ at # 1
      <3>1. HeadEnd(reply) \in Nat
        BY <1>1, NoneEarlier
      <3>2. SubSeq(reply, HeadEnd(reply) + 1, HeadEnd(reply) - 1) = <<>>
        BY <3>1, SubSeqEmpty
      <3>3. QED
        BY <1>1, <2>2, <3>2 DEF FieldStarts
    <2>4. /\ line = LineAt(reply, at)
          /\ \E next \in FieldStarts(reply) \cup {HeadEnd(reply) + 1}:
               /\ rest' = SubSeq(reply, next, HeadEnd(reply) - 1)
               /\ Earlier(reply, next) = Earlier(reply, at) \cup ({at} \ {1})
      BY <1>1, <2>2, <2>3, HeadFrom
    <2>5. PICK next \in FieldStarts(reply) \cup {HeadEnd(reply) + 1}:
               /\ rest' = SubSeq(reply, next, HeadEnd(reply) - 1)
               /\ Earlier(reply, next) = Earlier(reply, at) \cup {at}
      BY <2>3, <2>4
    <2> HIDE DEF line
    <2>6. /\ out'.headers = Updated(out.headers, ReplyNames[at], ReplyValues[at])
          /\ DOMAIN out' = {"statusCode", "headers", "body"} /\ out'.statusCode = out.statusCode
      BY <1>1, <1>3, <2>3, <2>4 DEF KeepField, ReplyNames, ReplyValues
    <2>7. Earlier(reply, at) \subseteq Nat /\ \A i \in Earlier(reply, at): i < at
      BY <1>1, NoneEarlier DEF Earlier
    <2>8. LastOf(out'.headers, ReplyNames, ReplyValues, Earlier(reply, next))
      <3>1. LastOf(out.headers, ReplyNames, ReplyValues, Earlier(reply, at))
        BY <2>1 DEF ReplyAt
      <3>2. LastOf(Updated(out.headers, ReplyNames[at], ReplyValues[at]), ReplyNames, ReplyValues,
                   Earlier(reply, at) \cup {at})
        BY <2>7, <3>1, LastKept
      <3>3. QED
        BY <2>5, <2>6, <3>2
    <2>9. \A i \in Earlier(reply, next): HasColon(LineAt(reply, i))
      BY <1>3, <2>1, <2>4, <2>5 DEF ReplyAt
    <2>10. ReplyAt(next)'
      BY <1>1, <2>5, <2>8, <2>9 DEF ReplyAt, ReplyNames, ReplyValues, Earlier
    <2>11. next \in Nat
      BY <1>1, NoneEarlier
    <2>12. QED
      BY <1>1, <1>3, <2>6, <2>10, <2>11 DEF ReplyInv, ReplyUnderstood
  <1>4. QED
    BY <1>1, <1>2, <1>3

LEMMA BodyTaken ==
  ASSUME ReplyInv, TakeBody
  PROVE  ReplyInv'
  <1> DEFINE text == out.headers[PromisedLength]
  <1>1. /\ pc = "fields" /\ rest = <<>> /\ reply \in AnyText /\ HeadEnd(reply) # 0 /\ reply' = reply
        /\ DOMAIN out = {"statusCode", "headers", "body"}
        /\ ToString(out.statusCode) \in Range(LineAt(reply, 1))
        /\ \/ pc' = "rejected" /\ out' = out
           \/ /\ PromisedLength \notin DOMAIN out.headers
              /\ out' = [out EXCEPT !.body = ReplyBody] /\ pc' = "done"
           \/ /\ PromisedLength \in DOMAIN out.headers
              /\ IsNumber(text) /\ Number(text) <= Len(ReplyBody)
              /\ out' = [out EXCEPT !.body = SubSeq(ReplyBody, 1, Number(text))] /\ pc' = "done"
    BY DEF TakeBody, ReplyInv
  <1>2. CASE pc' = "rejected" /\ out' = out
    BY <1>1, <1>2 DEF ReplyInv, ReplyUnderstood
  <1>3. CASE pc' = "done"
    <2>1. PICK at \in Nat: ReplyAt(at)
      BY <1>1 DEF ReplyInv
    <2>2. Earlier(reply, at) = FieldStarts(reply)
      <3>1. CASE at = HeadEnd(reply) + 1
        BY <1>1, <3>1, NoneEarlier
      <3>2. CASE at # HeadEnd(reply) + 1
        <4>1. at \in LineStarts(reply) /\ at # 1 /\ rest = SubSeq(reply, at, HeadEnd(reply) - 1)
          BY <2>1, <3>2 DEF ReplyAt, FieldStarts
        <4>2. /\ HeadEnd(reply) \in 1 .. Len(reply) - 1 /\ Len(reply) \in Nat
              /\ at \in 1 .. HeadEnd(reply) /\ LineEnd(reply, at) \in at .. HeadEnd(reply)
              /\ at < LineEnd(reply, at)
          BY <1>1, <4>1, HeadEnds, LineStart, LineEnds, NextLine DEF AnyText
        <4>3. at \in 1 .. Len(reply) + 1 /\ HeadEnd(reply) - 1 \in at - 1 .. Len(reply)
              /\ (HeadEnd(reply) - 1) - at + 1 > 0
          BY <4>2
        <4>4. Len(SubSeq(reply, at, HeadEnd(reply) - 1)) = (HeadEnd(reply) - 1) - at + 1
          <5>1. reply \in AnyText
            BY <1>1
          <5>2. QED
            BY <4>3, <5>1, Cut
        <4>5. Len(rest) > 0
          BY <4>1, <4>3, <4>4
        <4>6. QED
          BY <1>1, <4>5
      <3>3. QED
        BY <3>1, <3>2
    <2>3. /\ \A i \in FieldStarts(reply): HasColon(LineAt(reply, i))
          /\ LastOf(out.headers, ReplyNames, ReplyValues, FieldStarts(reply))
      BY <2>1, <2>2 DEF ReplyAt
    <2>4. DOMAIN out' = {"statusCode", "headers", "body"} /\ out'.headers = out.headers
          /\ out'.statusCode = out.statusCode
      BY <1>1, <1>3
    <2>5. DOMAIN out.headers = {FieldName(LineAt(reply, i)): i \in FieldStarts(reply)}
      BY <2>3 DEF LastOf, ReplyNames
    <2>6. ASSUME NEW n \in DOMAIN out.headers
          PROVE  out.headers[n] = Trim(ValueOf(LastNamed(reply, FieldName, n)))
      <3> DEFINE last == Max({i \in FieldStarts(reply): ReplyNames[i] = n})
      <3>1. last \in FieldStarts(reply) /\ ReplyNames[last] = n /\ out.headers[n] = ReplyValues[last]
        BY <1>1, <2>3, LastMark
      <3>2. {i \in FieldStarts(reply): ReplyNames[i] = n}
              = {i \in FieldStarts(reply): FieldName(LineAt(reply, i)) = n}
        BY DEF ReplyNames
      <3>3. LastNamed(reply, FieldName, n) = LineAt(reply, last)
        BY <3>2 DEF LastNamed
      <3> HIDE DEF last
      <3>4. QED
        BY <3>1, <3>3 DEF ReplyValues
    <2>7. IF PromisedLength \in DOMAIN out.headers
          THEN /\ Len(out'.body) <= Len(ReplyBody)
               /\ out'.body = SubSeq(ReplyBody, 1, Len(out'.body))
               /\ <<ToString(Len(out'.body))>> = out.headers[PromisedLength]
          ELSE out'.body = ReplyBody
      <3>1. CASE PromisedLength \notin DOMAIN out.headers
        BY <1>1, <1>3, <3>1
      <3>2. CASE PromisedLength \in DOMAIN out.headers
        <4>1. /\ IsNumber(text) /\ Number(text) <= Len(ReplyBody)
              /\ out'.body = SubSeq(ReplyBody, 1, Number(text))
          BY <1>1, <1>3, <3>2
        <4>2. Number(text) \in 0 .. MaxNumber /\ text = <<ToString(Number(text))>>
          BY <4>1 DEF IsNumber, Number
        <4>3. HeadEnd(reply) + 1 \in 0 .. Len(reply)
          BY <1>1, HeadEnds DEF AnyText
        <4>4. ReplyBody \in AnyText
          BY <1>1, <4>3, CutAfter DEF ReplyBody
        <4>5. 1 \in 1 .. Len(ReplyBody) + 1 /\ Number(text) \in 1 - 1 .. Len(ReplyBody)
              /\ Number(text) - 1 + 1 = Number(text)
          BY <4>1, <4>2, <4>4, MessagesAssumption DEF AnyText
        <4>6. Len(out'.body) = Number(text)
          BY <4>1, <4>4, <4>5, Cut
        <4>7. QED
          BY <3>2, <4>1, <4>2, <4>6
      <3>3. QED
        BY <3>1, <3>2
    <2>8. ReplyUnderstood'
      BY <1>1, <2>3, <2>4, <2>5, <2>6, <2>7 DEF ReplyUnderstood, ReplyBody, LastNamed, FieldStarts
    <2>9. QED
      BY <1>1, <1>3, <2>4, <2>8 DEF ReplyInv
  <1>4. QED
    BY <1>1, <1>2, <1>3

-----------------------------------------------------------------------------
(* What the server and the client write are texts. *)
LEMMA Words ==
  /\ Literals \subseteq Tokens /\ AnyText = Seq(Tokens)
  /\ \A n \in Nat \cup Statuses: ToString(n) \in Tokens
  /\ \A n \in Statuses: StatusReasonPhrase[n] \in Tokens
  /\ \A c \in Calls: MethodToString[c.method] \in Tokens
  /\ \A e \in Extensions: MimeTypeFromExtension(e) \in Tokens
  BY DEF Tokens, AnyText

LEMMA Separators ==
  /\ {SP, CRLF, COLON, "HTTP/1.1", "Host", "Content-Length", "Connection", "close"} \subseteq Tokens
  /\ {"Content-Type", "application/json", "why", "?", "&", "=", "%", "+"} \subseteq Tokens
  BY Words DEF Literals

LEMMA Glued ==
  ASSUME NEW a \in AnyText, NEW b \in AnyText
  PROVE  a \o b \in AnyText
  BY ConcatProperties DEF AnyText

LEMMA Listed ==
  ASSUME NEW D, IsFiniteSet(D), NEW order \in SetToSeqs(D)
  PROVE  \E n \in Nat: order \in [1 .. n -> D]
  BY FS_CardinalityType DEF SetToSeqs

ResponseOK(r) ==
    /\ DOMAIN r = {"status", "headers", "body"}
    /\ r.status \in Statuses /\ r.body \in AnyText
    /\ IsFiniteSet(DOMAIN r.headers)
    /\ \A n \in DOMAIN r.headers: n \in AnyText /\ r.headers[n] \in AnyText

LEMMA HeaderSet ==
  ASSUME NEW r, ResponseOK(r), NEW name \in AnyText, NEW value \in AnyText
  PROVE  ResponseOK(SetResponseHeader(r, name, value))
  <1> DEFINE new == Updated(r.headers, Lowercase(name), value)
  <1>1. /\ DOMAIN new = DOMAIN r.headers \cup {Lowercase(name)}
        /\ new[Lowercase(name)] = value
        /\ \A k \in DOMAIN r.headers \ {Lowercase(name)}: new[k] = r.headers[k]
    BY DEF Updated
  <1> HIDE DEF new
  <1>2. IsFiniteSet(DOMAIN new)
    BY <1>1, FS_AddElement DEF ResponseOK
  <1>3. \A n \in DOMAIN new: n \in AnyText /\ new[n] \in AnyText
    BY <1>1, Lowered DEF ResponseOK
  <1>4. SetResponseHeader(r, name, value) = [r EXCEPT !.headers = new]
    BY DEF SetResponseHeader, new
  <1>5. QED
    BY <1>2, <1>3, <1>4 DEF ResponseOK

LEMMA BodySet ==
  ASSUME NEW r, ResponseOK(r), NEW body \in AnyText
  PROVE  ResponseOK(SetBody(r, body))
  BY DEF ResponseOK, SetBody

LEMMA StatusSet ==
  ASSUME NEW r, ResponseOK(r), NEW status \in Statuses
  PROVE  ResponseOK(SetStatus(r, status))
  BY DEF ResponseOK, SetStatus

LEMMA FreshResponse == ResponseOK(EmptyResponse)
  <1>1. EmptyResponse.headers = EmptyMap /\ DOMAIN EmptyMap = {} /\ IsFiniteSet({})
    BY FS_EmptySet DEF EmptyResponse, EmptyMap
  <1>2. <<>> \in AnyText /\ 200 \in Statuses
    BY DEF AnyText, Statuses
  <1>3. QED
    BY <1>1, <1>2 DEF ResponseOK, EmptyResponse

LEMMA ResponseFilled ==
  ASSUME ResponseOK(response), [Next]_vars
  PROVE  ResponseOK(response)'
  <1>1. HeaderNames \cup HeaderValues \cup Bodies \cup Jsons \subseteq AnyText
    BY MessagesAssumption, TextsAny
  <1>2. <<"Content-Type">> \in AnyText /\ <<"application/json">> \in AnyText /\ <<"why">> \in AnyText
    BY Separators DEF AnyText
  <1>3. \A e \in Extensions: <<MimeTypeFromExtension(e)>> \in AnyText
    BY Words
  <1>4. StatusCodes \subseteq Statuses /\ {200, 400, 500} \subseteq Statuses
    BY ResponseAssumption DEF Statuses
  <1>5. ASSUME Handler PROVE ResponseOK(response)'
    <2>1. ASSUME NEW s \in StatusCodes, response' = SetStatus(response, s) PROVE ResponseOK(response')
      BY <2>1, <1>4, StatusSet
    <2>2. ASSUME NEW n \in HeaderNames, NEW v \in HeaderValues,
                 response' = SetResponseHeader(response, n, v) PROVE ResponseOK(response')
      BY <2>2, <1>1, HeaderSet
    <2>3. ASSUME NEW b \in Bodies, response' = SetBody(response, b) PROVE ResponseOK(response')
      BY <2>3, <1>1, BodySet
    <2>4. ASSUME NEW j \in Jsons, response' = SetJson(response, j) PROVE ResponseOK(response')
      <3>1. ResponseOK(SetBody(response, j))
        BY <1>1, BodySet
      <3>2. QED
        BY <2>4, <3>1, <1>2, HeaderSet DEF SetJson
    <2>5. ASSUME NEW e \in Extensions, NEW b \in Bodies, response' = ServeFile(response, e, b)
          PROVE  ResponseOK(response')
      <3>1. ResponseOK(SetStatus(response, 200))
        BY <1>4, StatusSet
      <3>2. ResponseOK(SetResponseHeader(SetStatus(response, 200), <<"Content-Type">>,
                                         <<MimeTypeFromExtension(e)>>))
        BY <3>1, <1>2, <1>3, HeaderSet
      <3>3. QED
        BY <2>5, <3>2, <1>1, BodySet DEF ServeFile
    <2>6. ResponseOK(response')
      BY <1>5, <2>1, <2>2, <2>3, <2>4, <2>5 DEF Handler, Called
    <2>7. QED
      BY <2>6 DEF ResponseOK
  <1>6. ASSUME Refuse PROVE ResponseOK(response)'
    <2>1. \E s \in {400, 500}: response' = SetBody(SetStatus(EmptyResponse, s), <<"why">>)
      <3>1. \E s \in {400, 500}: response' = [EmptyResponse EXCEPT !.status = s, !.body = <<"why">>]
        <4>1. CASE pc = "threw"
          BY <1>6, <4>1 DEF Refuse
        <4>2. CASE pc = "400"
          BY <1>6, <4>2 DEF Refuse
        <4>3. QED
          BY <1>6, <4>1, <4>2 DEF Refuse
      <3>2. QED
        BY <3>1 DEF SetBody, SetStatus
    <2>2. ResponseOK(response')
      BY <2>1, <1>2, <1>4, FreshResponse, StatusSet, BodySet
    <2>3. QED
      BY <2>2 DEF ResponseOK
  <1>7. ASSUME UNCHANGED response PROVE ResponseOK(response)'
    BY <1>7 DEF ResponseOK
  <1>8. QED
    BY <1>5, <1>6, <1>7 DEF Next, Build, Scan, RequestLine, QueryPair, HeaderLine, Serialize,
       ParseStatus, ParseField, TakeBody, Ended, vars

LEMMA ReplyIsText ==
  ASSUME ResponseOK(response), Serialize
  PROVE  reply' \in AnyText
  <1> DEFINE Row(name) == name \o <<COLON, SP>> \o response.headers[name] \o <<CRLF>>
             Part(name) == IF name \in SerializerOwned THEN <<>> ELSE Row(name)
             last == <<"Content-Length", COLON, SP, ToString(Len(response.body)), CRLF,
                       "Connection", COLON, SP, "close", CRLF, CRLF>>
             Rows(order) == [i \in DOMAIN order |-> Part(order[i])]
  <1>1. PICK order \in SetToSeqs(DOMAIN response.headers):
               reply' = StatusLine(response) \o HeaderText(response, order) \o response.body
    BY DEF Serialize
  <1>2. PICK n \in Nat: order \in [1 .. n -> DOMAIN response.headers]
    BY Listed DEF ResponseOK
  <1>3. <<COLON, SP>> \in AnyText /\ <<CRLF>> \in AnyText /\ <<>> \in AnyText
    BY Separators DEF AnyText
  <1>4. ASSUME NEW name \in DOMAIN response.headers PROVE Part(name) \in AnyText
    <2>1. name \in AnyText /\ response.headers[name] \in AnyText
      BY DEF ResponseOK
    <2>2. Row(name) \in AnyText
      BY <1>3, <2>1, Glued
    <2> HIDE DEF Row
    <2>3. QED
      BY <1>3, <2>2
  <1>5. last \in AnyText
    <2>1. ToString(Len(response.body)) \in Tokens
      BY Words DEF ResponseOK, AnyText
    <2>2. QED
      BY <2>1, Separators DEF AnyText
  <1>6. StatusLine(response) \in AnyText
    <2>1. ToString(response.status) \in Tokens /\ StatusReasonPhrase[response.status] \in Tokens
      BY Words DEF ResponseOK
    <2>2. QED
      BY <2>1, Separators DEF StatusLine, AnyText
  <1>7. FlattenSeq(Rows(order)) \in AnyText
    <2>1. DOMAIN order = 1 .. n /\ \A i \in 1 .. n: order[i] \in DOMAIN response.headers
      BY <1>2
    <2>2. \A i \in 1 .. n: Part(order[i]) \in AnyText
      BY <1>4, <2>1
    <2> HIDE DEF Part
    <2>3. Rows(order) \in Seq(Seq(Tokens))
      BY <2>1, <2>2, IsASeq DEF AnyText
    <2>4. QED
      BY <2>3, Flattened DEF AnyText
  <1>8. HeaderText(response, order) = FlattenSeq(Rows(order)) \o last
    BY DEF HeaderText
  <1> HIDE DEF Rows, last
  <1>9. response.body \in AnyText
    BY DEF ResponseOK
  <1>10. QED
    BY <1>1, <1>5, <1>6, <1>7, <1>8, <1>9, Glued

LEMMA Escaped ==
  ASSUME NEW c \in Tokens
  PROVE  Escapes(c) \subseteq AnyText
  <1> DEFINE b == CHOOSE k \in DOMAIN Ascii: Ascii[k] = c
  <1>1. <<c>> \in AnyText /\ <<"+">> \in AnyText
    BY Separators DEF AnyText
  <1>2. CASE c \in Range(Ascii)
    <2>1. b \in DOMAIN Ascii
      BY <1>2 DEF Range
    <2> HIDE DEF b
    <2>2. \A H \in {HexDigits, HexCapitals}: H[(b \div 16) + 1] \in Tokens /\ H[(b % 16) + 1] \in Tokens
      <3>1. \A H \in {HexDigits, HexCapitals}: H[(b \div 16) + 1] \in Hexes /\ H[(b % 16) + 1] \in Hexes
        BY <2>1 DEF Hexes
      <3>2. QED
        BY <3>1 DEF Tokens
    <2>3. \A x \in Tokens, y \in Tokens: <<"%", x, y>> \in AnyText
      BY Separators DEF AnyText
    <2>4. HexOf(b) \subseteq AnyText
      BY <2>2, <2>3 DEF HexOf
    <2>5. QED
      BY <1>1, <2>4 DEF Escapes, b
  <1>3. CASE c \notin Range(Ascii)
    BY <1>1, <1>3 DEF Escapes
  <1>4. QED
    BY <1>2, <1>3

LEMMA JoinedTexts ==
  ASSUME NEW choices, NEW n \in Nat, DOMAIN choices = 1 .. n, \A i \in 1 .. n: choices[i] \subseteq AnyText
  PROVE  Joined(choices) \subseteq AnyText
  <1>1. SUFFICES ASSUME NEW parts \in [1 .. n -> UNION Range(choices)],
                        \A i \in 1 .. n: parts[i] \in choices[i]
                 PROVE  FlattenSeq(parts) \in AnyText
    BY DEF Joined
  <1>2. \A i \in 1 .. n: parts[i] \in Seq(Tokens)
    BY <1>1 DEF AnyText
  <1>3. parts = [i \in 1 .. n |-> parts[i]]
    OBVIOUS
  <1>4. [i \in 1 .. n |-> parts[i]] \in Seq(Seq(Tokens))
    BY <1>2, IsASeq
  <1>5. QED
    BY <1>3, <1>4, Flattened DEF AnyText

LEMMA EncodedTexts ==
  ASSUME NEW text \in AnyText
  PROVE  Encodings(text) \subseteq AnyText
  <1> DEFINE choices == [i \in DOMAIN text |-> Escapes(text[i])]
  <1>1. Len(text) \in Nat /\ DOMAIN text = 1 .. Len(text) /\ \A i \in 1 .. Len(text): text[i] \in Tokens
    BY DEF AnyText
  <1>2. DOMAIN choices = 1 .. Len(text) /\ \A i \in 1 .. Len(text): choices[i] \subseteq AnyText
    BY <1>1, Escaped
  <1> HIDE DEF choices
  <1>3. Joined(choices) \subseteq AnyText
    BY <1>1, <1>2, JoinedTexts
  <1>4. QED
    BY <1>3 DEF Encodings, choices

LEMMA CallTexts ==
  ASSUME NEW c \in Calls
  PROVE  /\ c.path \in AnyText /\ c.body \in AnyText /\ c.params \in Seq(Texts \X Texts)
         /\ IsFiniteSet(DOMAIN c.headers)
         /\ \A n \in DOMAIN c.headers: n \in AnyText /\ c.headers[n] \in AnyText
  BY MessagesAssumption, TextsAny

LEMMA TargetTexts ==
  ASSUME NEW c \in Calls
  PROVE  Targets(c) \subseteq AnyText
  <1> DEFINE choices == [i \in DOMAIN c.params |-> ParamTexts(c, i)]
             n == Len(c.params)
  <1>1. c.path \in AnyText /\ c.params \in Seq(Texts \X Texts)
    BY CallTexts
  <1>2. n \in Nat /\ DOMAIN c.params = 1 .. n
        /\ \A i \in 1 .. n: c.params[i][1] \in AnyText /\ c.params[i][2] \in AnyText
    BY <1>1, TextsAny
  <1>3. <<"?">> \in AnyText /\ <<"&">> \in AnyText /\ <<"=">> \in AnyText
    BY Separators DEF AnyText
  <1>4. ASSUME NEW i \in 1 .. n PROVE ParamTexts(c, i) \subseteq AnyText
    <2>1. Encodings(c.params[i][1]) \subseteq AnyText /\ Encodings(c.params[i][2]) \subseteq AnyText
      BY <1>2, EncodedTexts
    <2>2. ASSUME NEW k \in Encodings(c.params[i][1]), NEW v \in Encodings(c.params[i][2])
          PROVE  <<IF i = 1 THEN "?" ELSE "&">> \o k \o <<"=">> \o v \in AnyText
      <3>1. <<IF i = 1 THEN "?" ELSE "&">> \in AnyText
        BY <1>3
      <3>2. QED
        BY <1>3, <2>1, <3>1, Glued
    <2>3. ASSUME NEW x \in ParamTexts(c, i) PROVE x \in AnyText
      <3>1. PICK k \in Encodings(c.params[i][1]), v \in Encodings(c.params[i][2]):
                   x = <<IF i = 1 THEN "?" ELSE "&">> \o k \o <<"=">> \o v
        BY <2>3 DEF ParamTexts
      <3>2. QED
        BY <2>2, <3>1
    <2>4. QED
      BY <2>3
  <1>5. DOMAIN choices = 1 .. n /\ \A i \in 1 .. n: choices[i] \subseteq AnyText
    BY <1>2, <1>4
  <1> HIDE DEF choices, n
  <1>6. Joined(choices) \subseteq AnyText
    BY <1>2, <1>5, JoinedTexts
  <1>7. Targets(c) = {c.path \o q: q \in Joined(choices)}
    BY DEF Targets, choices
  <1>8. QED
    BY <1>1, <1>6, <1>7, Glued

LEMMA RequestIsText ==
  ASSUME NEW c \in Calls, NEW target \in Targets(c), NEW order \in SetToSeqs(DOMAIN c.headers)
  PROVE  BuildRequest(c, target, order) \in AnyText
  <1> DEFINE Row(name) == name \o <<COLON, SP>> \o c.headers[name] \o <<CRLF>>
             Part(name) == IF Lowercase(name) \in ClientOwned THEN <<>> ELSE Row(name)
             Rows == [i \in DOMAIN order |->
                         IF Lowercase(order[i]) \in ClientOwned THEN <<>>
                         ELSE order[i] \o <<COLON, SP>> \o c.headers[order[i]] \o <<CRLF>>]
             first == <<MethodToString[c.method], SP>>
             host == <<SP, "HTTP/1.1", CRLF, "Host", COLON, SP>>
             sized == <<CRLF, "Connection", COLON, SP, "close", CRLF,
                        "Content-Length", COLON, SP, ToString(Len(c.body)), CRLF>>
  <1>1. target \in AnyText /\ c.body \in AnyText /\ HostPort \in AnyText
    BY TargetTexts, CallTexts, MessagesAssumption, TextsAny
  <1>2. <<COLON, SP>> \in AnyText /\ <<CRLF>> \in AnyText /\ <<>> \in AnyText
    BY Separators DEF AnyText
  <1>3. first \in AnyText
    <2>1. MethodToString[c.method] \in Tokens
      BY Words
    <2>2. QED
      BY <2>1, Separators DEF AnyText
  <1>4. host \in AnyText
    BY Separators DEF AnyText
  <1>5. sized \in AnyText
    <2>1. ToString(Len(c.body)) \in Tokens
      BY <1>1, Words DEF AnyText
    <2>2. QED
      BY <2>1, Separators DEF AnyText
  <1>6. ASSUME NEW name \in DOMAIN c.headers PROVE Part(name) \in AnyText
    <2>1. name \in AnyText /\ c.headers[name] \in AnyText
      BY CallTexts
    <2>2. Row(name) \in AnyText
      BY <1>2, <2>1, Glued
    <2> HIDE DEF Row
    <2>3. QED
      BY <1>2, <2>2
  <1>7. PICK n \in Nat: order \in [1 .. n -> DOMAIN c.headers]
    BY CallTexts, Listed
  <1>8. FlattenSeq(Rows) \in AnyText
    <2>1. DOMAIN order = 1 .. n /\ \A i \in 1 .. n: order[i] \in DOMAIN c.headers
      BY <1>7
    <2>2. \A i \in 1 .. n: Part(order[i]) \in AnyText
      BY <1>6, <2>1
    <2>3. Rows = [i \in 1 .. n |-> Part(order[i])]
      BY <2>1
    <2> HIDE DEF Part, Rows
    <2>4. [i \in 1 .. n |-> Part(order[i])] \in Seq(Seq(Tokens))
      BY <2>2, IsASeq DEF AnyText
    <2>5. QED
      BY <2>3, <2>4, Flattened DEF AnyText
  <1>9. BuildRequest(c, target, order)
          = first \o target \o host \o HostPort \o sized \o FlattenSeq(Rows) \o <<CRLF>> \o c.body
    BY DEF BuildRequest
  <1> HIDE DEF first, host, sized, Rows
  <1>10. QED
    BY <1>1, <1>2, <1>3, <1>4, <1>5, <1>8, <1>9, Glued

-----------------------------------------------------------------------------
(* The server's parser, at the line of the request that starts at `at`.    *)
RequestNames == [i \in FieldStarts(wire) |-> LoweredName(LineAt(wire, i))]
RequestValues == [i \in FieldStarts(wire) |-> StripLeft(ValueOf(LineAt(wire, i)), {SP})]

HeadersOf(lines) ==
    /\ \A i \in lines: HasColon(LineAt(wire, i))
    /\ LastOf(request.headers, RequestNames, RequestValues, lines)

HeadersAt(at) ==
    /\ at \in FieldStarts(wire) \cup {HeadEnd(wire) + 1}
    /\ rest = After(wire, at - 1)
    /\ HeadersOf(Earlier(wire, at))

(* Its first line, and the length that handleConnection() found.           *)
TwoSpaces(line) == \E i, j \in DOMAIN line: i < j /\ line[i] = SP /\ line[j] = SP
Mark == Find(TargetOf(wire), "?")

LineRead ==
    /\ TwoSpaces(LineAt(wire, 1))
    /\ TargetOf(wire) \in AnyText
    /\ request.path = IF Mark = 0 THEN TargetOf(wire) ELSE Before(TargetOf(wire), Mark)
    /\ request.method # "Unknown" => 1 \notin ContentLengths(wire)

Scanned ==
    /\ HeadEnd(wire) # 0
    /\ \A i \in ContentLengths(wire): IsNumber(LengthText(wire, i))
    /\ length = DeclaredLength(wire)
    /\ length <= Len(wire) - (HeadEnd(wire) + 1)

(* The query string, from the position `at`.                               *)
KeysBefore(q, at) == {KeyOf(SubSeq(q, p[1], p[2])): p \in {r \in Pairs(q): r[1] < at}}

QueryAt(at) ==
    /\ at \in 1 .. Len(QueryOf(wire)) + 1
    /\ query = After(QueryOf(wire), at - 1)
    /\ at = 1 \/ QueryOf(wire)[at - 1] = "&"
    /\ DOMAIN request.params = KeysBefore(QueryOf(wire), at)

QueryOpen ==
    IF Mark = 0 THEN query = <<>> /\ request.params = EmptyMap ELSE \E at \in Nat: QueryAt(at)
QueryRead ==
    IF Mark = 0 THEN request.params = EmptyMap
    ELSE DOMAIN request.params = {KeyOf(SubSeq(QueryOf(wire), p[1], p[2])): p \in Pairs(QueryOf(wire))}

RequestInv ==
    /\ wire \in AnyText
    /\ pc = "build" => call \in Calls
    /\ DOMAIN request = {"method", "path", "version", "headers", "params", "body"}
    /\ pc \in {"build", "scan", "line"} => request = EmptyRequest
    /\ pc \in {"line", "query", "header", "handler"} => Scanned
    /\ pc = "line" => rest = wire
    /\ pc \in {"query", "header", "handler"} => LineRead
    /\ pc = "query" => QueryOpen
    /\ pc \in {"header", "handler"} => QueryRead
    /\ pc \in {"query", "header"} => \E at \in Nat: HeadersAt(at)
    /\ pc = "handler" => /\ HeadersOf(FieldStarts(wire))
                        /\ request.body = After(wire, HeadEnd(wire) + 1)
    /\ pc = "threw" => ~WellFormed(wire)

(* One line of the text behind a parser that has come to it. *)
LEMMA Walk ==
  ASSUME NEW text \in AnyText, HeadEnd(text) # 0, NEW i \in LineStarts(text),
         NEW tail, tail = After(text, i - 1)
  PROVE  /\ Find(tail, CRLF) # 0 /\ Before(tail, Find(tail, CRLF)) = LineAt(text, i)
         /\ \E next \in FieldStarts(text) \cup {HeadEnd(text) + 1}:
              /\ After(tail, Find(tail, CRLF)) = After(text, next - 1)
              /\ next \in Nat /\ Earlier(text, next) = Earlier(text, i) \cup ({i} \ {1})
  <1> DEFINE e == LineEnd(text, i)
             f == Find(tail, CRLF)
  <1>1. /\ f # 0 /\ Before(tail, f) = LineAt(text, i)
        /\ e \in i .. HeadEnd(text) /\ i \in 1 .. Len(text) /\ HeadEnd(text) \in 1 .. Len(text) - 1
        /\ Len(text) \in Nat
    BY LineEnds, LineStart, HeadEnds DEF AnyText
  <1>2. e = i - 1 + f
    BY DEF LineEnd
  <1>3. i - 1 \in 0 .. Len(text)
    BY <1>1
  <1>4. tail \in AnyText /\ Len(tail) = Len(text) - (i - 1)
    BY <1>3, CutAfter
  <1>5. f \in 0 .. Len(text) - (i - 1)
    BY <1>4, Found
  <1> HIDE DEF f, e
  <1>6. After(tail, f) = After(text, e)
    BY <1>2, <1>3, <1>5, AfterAfter
  <1>7. e + 1 - 1 = e /\ e + 1 \in Nat
    BY <1>1
  <1>8. /\ Earlier(text, e + 1) = Earlier(text, i) \cup ({i} \ {1})
        /\ e + 1 \in FieldStarts(text) \cup {HeadEnd(text) + 1}
    BY EarlierGrows DEF e
  <1>9. QED
    BY <1>1, <1>6, <1>7, <1>8 DEF f

LEMMA AfterNone ==
  ASSUME NEW text \in AnyText
  PROVE  After(text, 0) = text
  <1>1. 0 \in 0 .. Len(text) /\ Len(text) - 0 = Len(text) /\ \A k \in 1 .. Len(text): 0 + k = k
    BY DEF AnyText
  <1>2. /\ After(text, 0) \in AnyText /\ Len(After(text, 0)) = Len(text)
        /\ \A k \in 1 .. Len(text): After(text, 0)[k] = text[k]
    BY <1>1, CutAfter
  <1>3. QED
    BY <1>2, SameText

(* A field line's name and value. *)
LEMMA LineParts ==
  ASSUME NEW line \in AnyText, HasColon(line)
  PROVE  /\ NameOf(line) \in AnyText /\ ValueOf(line) \in AnyText
         /\ Len(NameOf(line)) = Find(line, COLON) - 1 /\ Len(ValueOf(line)) <= Len(line)
  <1>1. Find(line, COLON) \in 0 .. Len(line) /\ Find(line, COLON) \in 1 .. Len(line) + 1 /\ Len(line) \in Nat
    BY Found DEF HasColon, AnyText
  <1>2. /\ NameOf(line) \in AnyText /\ Len(NameOf(line)) = Find(line, COLON) - 1
    BY <1>1, CutBefore DEF NameOf
  <1>3. ValueOf(line) \in AnyText /\ Len(ValueOf(line)) = Len(line) - Find(line, COLON)
    BY <1>1, CutAfter DEF ValueOf
  <1>4. QED
    BY <1>1, <1>2, <1>3

(* The spaces of a request line: both finds succeed exactly where there are two. *)
LEMMA Spaces ==
  ASSUME NEW line \in AnyText, NEW first, first = Find(line, SP), NEW gap, gap = Find(After(line, first), SP)
  PROVE  /\ first \in 0 .. Len(line) /\ gap \in 0 .. Len(line) - first
         /\ TwoSpaces(line) <=> first # 0 /\ gap # 0
  <1>1. /\ Len(line) \in Nat /\ DOMAIN line = 1 .. Len(line) /\ first \in 0 .. Len(line)
        /\ first # 0 => line[first] = SP
        /\ first # 0 => \A i \in 1 .. first - 1: line[i] # SP
        /\ first = 0 => \A i \in 1 .. Len(line): line[i] # SP
    BY Found DEF AnyText
  <1> DEFINE tail == After(line, first)
  <1>2. /\ tail \in AnyText /\ Len(tail) = Len(line) - first
        /\ \A k \in 1 .. Len(line) - first: tail[k] = line[first + k]
    BY <1>1, CutAfter
  <1>3. /\ gap \in 0 .. Len(line) - first
        /\ gap # 0 => tail[gap] = SP
        /\ gap = 0 => \A i \in 1 .. Len(line) - first: tail[i] # SP
    BY <1>2, Found
  <1> HIDE DEF tail
  <1>4. ASSUME first # 0, gap # 0 PROVE TwoSpaces(line)
    <2>1. first \in 1 .. Len(line) /\ first + gap \in 1 .. Len(line) /\ first < first + gap
      BY <1>1, <1>3, <1>4
    <2>2. line[first] = SP /\ line[first + gap] = SP
      BY <1>1, <1>2, <1>3, <1>4
    <2>3. QED
      BY <1>1, <2>1, <2>2 DEF TwoSpaces
  <1>5. ASSUME TwoSpaces(line) PROVE first # 0 /\ gap # 0
    <2>1. PICK i \in 1 .. Len(line), j \in 1 .. Len(line): i < j /\ line[i] = SP /\ line[j] = SP
      BY <1>1, <1>5 DEF TwoSpaces
    <2>2. first # 0
      BY <1>1, <2>1
    <2>3. first <= i
      BY <1>1, <2>1, <2>2
    <2>4. j - first \in 1 .. Len(line) - first /\ first + (j - first) = j
      BY <1>1, <2>1, <2>3
    <2>5. tail[j - first] = SP
      BY <1>2, <2>1, <2>4
    <2>6. QED
      BY <1>3, <2>2, <2>4, <2>5
  <1>6. QED
    BY <1>1, <1>3, <1>4, <1>5

(* A line that names a method is no field: what is before its colon has a space. *)
LEMMA MethodIsNoField ==
  ASSUME NEW line \in AnyText, Find(line, SP) # 0,
         MethodFromString(Before(line, Find(line, SP))) # "Unknown", HasColon(line)
  PROVE  LoweredName(line) # <<"content-length">>
  <1> DEFINE first == Find(line, SP)
             colon == Find(line, COLON)
  <1>1. /\ first \in 1 .. Len(line) + 1 /\ line[first] = SP
        /\ colon \in 1 .. Len(line) + 1 /\ line[colon] = COLON
    BY Found DEF HasColon, AnyText
  <1>2. \E w: Before(line, first) = <<w>>
    BY DEF MethodFromString
  <1>3. Len(Before(line, first)) = first - 1
    BY <1>1, CutBefore
  <1>4. first = 2
    BY <1>1, <1>2, <1>3 DEF AnyText
  <1>5. NameOf(line) \in AnyText /\ Len(NameOf(line)) = colon - 1
    BY LineParts
  <1>6. Len(LoweredName(line)) = colon - 1
    BY <1>5, Lowered DEF LoweredName
  <1>7. SP # COLON
    BY DEF SP, COLON
  <1>8. colon # 2
    BY <1>1, <1>4, <1>7
  <1>9. Len(<<"content-length">>) = 1
    OBVIOUS
  <1>10. QED
    BY <1>1, <1>6, <1>8, <1>9 DEF AnyText

LEMMA LineTaken ==
  ASSUME RequestInv, RequestLine
  PROVE  RequestInv'
  <1> DEFINE line == Before(rest, Find(rest, CRLF))
             first == Find(line, SP)
             gap == Find(After(line, first), SP)
             second == first + gap
             target == SubSeq(line, first + 1, second - 1)
             mark == Find(target, "?")
  <1>1. /\ pc = "line" /\ wire \in AnyText /\ rest = wire /\ request = EmptyRequest /\ Scanned
        /\ HeadEnd(wire) # 0 /\ UNCHANGED <<call, wire, length>>
        /\ rest' = After(rest, Find(rest, CRLF))
    BY DEF RequestInv, RequestLine, Scanned
  <1>2. wire = After(wire, 1 - 1)
    BY <1>1, AfterNone
  <1>3. /\ line = LineAt(wire, 1)
        /\ \E next \in FieldStarts(wire) \cup {HeadEnd(wire) + 1}:
              /\ rest' = After(wire, next - 1)
              /\ next \in Nat /\ Earlier(wire, next) = Earlier(wire, 1) \cup ({1} \ {1})
    BY <1>1, <1>2, FirstIsLine, Walk
  <1>4. PICK next \in FieldStarts(wire) \cup {HeadEnd(wire) + 1}:
              rest' = After(wire, next - 1) /\ next \in Nat /\ Earlier(wire, next) = {}
    BY <1>1, <1>3, NoneEarlier
  <1>5. line \in AnyText
    BY <1>1, <1>3, FirstIsLine, LineEnds
  <1>6. target = TargetOf(wire) /\ mark = Mark
    BY <1>3 DEF TargetOf, Mark
  <1>7. IF first = 0 \/ second = first
        THEN pc' = "threw" /\ UNCHANGED <<query, request>>
        ELSE /\ request' = [request EXCEPT
                   !.method = MethodFromString(Before(line, first)),
                   !.path = IF mark = 0 THEN target ELSE Before(target, mark),
                   !.version = After(line, second)]
             /\ query' = IF mark = 0 THEN <<>> ELSE After(target, mark)
             /\ pc' = "query"
    BY DEF RequestLine
  <1> HIDE DEF line, first, gap, second, target, mark
  <1>8. /\ first \in 0 .. Len(line) /\ gap \in 0 .. Len(line) - first
        /\ TwoSpaces(line) <=> first # 0 /\ gap # 0
    BY <1>5, Spaces DEF first, gap
  <1>9. first # 0 /\ second # first <=> first # 0 /\ gap # 0
    BY <1>5, <1>8 DEF AnyText, second
  <1>10. CASE pc' = "threw" /\ UNCHANGED request /\ ~(first # 0 /\ gap # 0)
    <2>1. ~WellFormed(wire)
      BY <1>3, <1>8, <1>10 DEF WellFormed, TwoSpaces
    <2>2. ~WellFormed(wire)'
      BY <1>1, <2>1 DEF WellFormed, LineAt, FieldStarts, LineStarts, HeadEnd, HasColon
    <2>3. QED
      BY <1>1, <1>10, <2>2 DEF RequestInv
  <1>11. CASE /\ first # 0 /\ gap # 0 /\ pc' = "query"
              /\ request' = [request EXCEPT
                    !.method = MethodFromString(Before(line, first)),
                    !.path = IF mark = 0 THEN target ELSE Before(target, mark),
                    !.version = After(line, second)]
              /\ query' = IF mark = 0 THEN <<>> ELSE After(target, mark)
    <2>1. TargetOf(wire) \in AnyText
      <3>1. first + 1 \in 1 .. Len(line) + 1 /\ second - 1 \in (first + 1) - 1 .. Len(line)
        BY <1>5, <1>8, <1>11 DEF AnyText, second
      <3>2. QED
        BY <1>5, <1>6, <3>1, Cut DEF target
    <2>2. /\ DOMAIN request' = {"method", "path", "version", "headers", "params", "body"}
          /\ request'.method = MethodFromString(Before(line, first))
          /\ request'.path = IF Mark = 0 THEN TargetOf(wire) ELSE Before(TargetOf(wire), Mark)
          /\ request'.headers = EmptyMap /\ request'.params = EmptyMap
          /\ query' = IF Mark = 0 THEN <<>> ELSE After(TargetOf(wire), Mark)
      BY <1>1, <1>6, <1>11 DEF EmptyRequest
    <2>3. request'.method # "Unknown" => 1 \notin ContentLengths(wire)
      BY <1>3, <1>5, <1>11, <2>2, MethodIsNoField DEF ContentLengths, LoweredName, first
    <2>4. LineRead'
      <3>1. TwoSpaces(LineAt(wire, 1))
        BY <1>3, <1>8, <1>11
      <3>2. QED
        BY <1>1, <2>1, <2>2, <2>3, <3>1 DEF LineRead, Mark
    <2>5. QueryOpen'
      <3>1. CASE Mark = 0
        BY <1>1, <2>2, <3>1 DEF QueryOpen, Mark
      <3>2. CASE Mark # 0
        <4> DEFINE q == QueryOf(wire)
        <4>1. q = After(TargetOf(wire), Mark) /\ q \in AnyText
          BY <2>1, Found, CutAfter DEF QueryOf, Mark
        <4>2. query' = After(q, 1 - 1) /\ 1 \in 1 .. Len(q) + 1
          BY <2>2, <3>2, <4>1, AfterNone DEF AnyText
        <4>3. \A p \in Pairs(q): ~(p[1] < 1)
          BY <4>1 DEF Pairs, AnyText
        <4>4. KeysBefore(q, 1) = {}
          BY <4>3 DEF KeysBefore
        <4>5. DOMAIN request'.params = {}
          BY <2>2 DEF EmptyMap
        <4> HIDE DEF q
        <4>6. QueryAt(1)'
          BY <1>1, <4>2, <4>4, <4>5 DEF QueryAt, q
        <4>7. QED
          BY <1>1, <3>2, <4>6 DEF QueryOpen, Mark
      <3>3. QED
        BY <3>1, <3>2
    <2>6. HeadersAt(next)'
      BY <1>1, <1>4, <2>2, NothingKept DEF HeadersAt, HeadersOf, RequestNames, RequestValues, Earlier
    <2>7. Scanned'
      BY <1>1 DEF Scanned
    <2>8. QED
      BY <1>1, <1>4, <1>11, <2>2, <2>4, <2>5, <2>6, <2>7 DEF RequestInv
  <1>12. QED
    BY <1>7, <1>9, <1>10, <1>11

(* One pair of a query string behind a parser that has come to it. *)
LEMMA NextPair ==
  ASSUME NEW q \in AnyText, NEW at \in 1 .. Len(q) + 1, at = 1 \/ q[at - 1] = "&"
  PROVE  \A left, amp, pair, next:
           (/\ left = After(q, at - 1) /\ amp = Find(left, "&")
            /\ pair = IF amp = 0 THEN left ELSE Before(left, amp)
            /\ next = IF amp = 0 THEN Len(q) + 1 ELSE at + amp)
           => /\ next \in 1 .. Len(q) + 1
              /\ amp # 0 => q[next - 1] = "&" /\ After(left, amp) = After(q, next - 1)
              /\ amp # 0 /\ After(left, amp) = <<>> => next = Len(q) + 1
              /\ pair = <<>> => KeysBefore(q, next) = KeysBefore(q, at)
              /\ pair # <<>> => KeysBefore(q, next) = KeysBefore(q, at) \cup {KeyOf(pair)}
  <1> SUFFICES ASSUME NEW left, left = After(q, at - 1), NEW amp, amp = Find(left, "&"),
                      NEW pair, pair = IF amp = 0 THEN left ELSE Before(left, amp),
                      NEW next, next = IF amp = 0 THEN Len(q) + 1 ELSE at + amp
               PROVE  /\ next \in 1 .. Len(q) + 1
                      /\ amp # 0 => q[next - 1] = "&" /\ After(left, amp) = After(q, next - 1)
                      /\ amp # 0 /\ After(left, amp) = <<>> => next = Len(q) + 1
                      /\ pair = <<>> => KeysBefore(q, next) = KeysBefore(q, at)
                      /\ pair # <<>> => KeysBefore(q, next) = KeysBefore(q, at) \cup {KeyOf(pair)}
    OBVIOUS
  <1> DEFINE e == IF amp = 0 THEN Len(q) ELSE next - 2
  <1>1. Len(q) \in Nat /\ at - 1 \in 0 .. Len(q) /\ at \in Nat
    BY DEF AnyText
  <1>2. /\ left \in AnyText /\ Len(left) = Len(q) - (at - 1)
        /\ \A k \in 1 .. Len(q) - (at - 1): left[k] = q[(at - 1) + k]
    BY <1>1, CutAfter
  <1>3. /\ amp \in 0 .. Len(q) - (at - 1)
        /\ amp # 0 => left[amp] = "&"
        /\ amp # 0 => \A k \in 1 .. amp - 1: left[k] # "&"
        /\ amp = 0 => \A k \in 1 .. Len(q) - (at - 1): left[k] # "&"
    BY <1>2, Found
  <1>4. /\ next \in 1 .. Len(q) + 1 /\ e \in Int /\ at - 1 <= e /\ e <= Len(q) /\ e < next /\ at <= next
        /\ e = Len(q) \/ (e + 1 = next - 1 /\ amp # 0)
        /\ amp = 0 => e + 1 = next
        /\ amp # 0 => e + 1 = next - 1 /\ next - 1 = (at - 1) + amp
    <2>1. CASE amp = 0
      <3>1. next = Len(q) + 1 /\ e = Len(q)
        BY <2>1
      <3> HIDE DEF e
      <3>2. QED
        BY <1>1, <2>1, <3>1
    <2>2. CASE amp # 0
      <3>1. next = at + amp /\ e = next - 2
        BY <2>2
      <3>2. amp \in Nat /\ 1 <= amp /\ amp <= Len(q) - (at - 1) /\ 1 <= at /\ at \in Nat /\ Len(q) \in Nat
        BY <1>1, <1>3, <2>2
      <3> HIDE DEF e
      <3>3. e \in Int /\ at - 1 <= e /\ e <= Len(q) /\ e + 1 = next - 1 /\ next - 1 = (at - 1) + amp
        BY ONLY <3>1, <3>2
      <3>4. next \in 1 .. Len(q) + 1 /\ e < next /\ at <= next
        BY <3>1, <3>2
      <3>5. QED
        BY <2>2, <3>3, <3>4
    <2>3. QED
      BY <2>1, <2>2
  <1>5. amp # 0 => q[next - 1] = "&"
    <2>1. amp # 0 => amp \in 1 .. Len(q) - (at - 1) /\ next - 1 = (at - 1) + amp
      BY <1>1, <1>3, <1>4
    <2>2. QED
      BY <1>2, <1>3, <2>1
  <1> HIDE DEF e
  <1>6. ASSUME NEW k \in at .. e PROVE q[k] # "&"
    <2>1. k - (at - 1) \in 1 .. Len(q) - (at - 1) /\ (at - 1) + (k - (at - 1)) = k
          /\ (amp # 0 => k - (at - 1) \in 1 .. amp - 1)
      BY <1>1, <1>3, <1>4
    <2>2. QED
      BY <1>2, <1>3, <2>1
  <1>7. amp # 0 => After(left, amp) = After(q, next - 1)
    BY <1>1, <1>3, <1>4, AfterAfter
  <1>8. amp # 0 /\ After(left, amp) = <<>> => next = Len(q) + 1
    <2>1. next - 1 \in 0 .. Len(q)
      BY <1>1, <1>4
    <2>2. Len(After(q, next - 1)) = Len(q) - (next - 1)
      BY <2>1, CutAfter
    <2>3. After(q, next - 1) = <<>> => Len(After(q, next - 1)) = 0
      OBVIOUS
    <2>4. QED
      BY <1>1, <1>4, <1>7, <2>2, <2>3
  <1>9. pair = SubSeq(q, at, e) /\ Len(pair) = e - at + 1 /\ pair \in AnyText
    <2>1. at \in 1 .. Len(q) + 1 /\ e \in at - 1 .. Len(q)
      BY <1>1, <1>4
    <2>2. /\ SubSeq(q, at, e) \in AnyText /\ Len(SubSeq(q, at, e)) = e - at + 1
          /\ \A k \in 1 .. e - at + 1: SubSeq(q, at, e)[k] = q[at + k - 1]
      BY <2>1, Cut
    <2>3. /\ pair \in AnyText /\ Len(pair) = e - at + 1
          /\ \A k \in 1 .. e - at + 1: pair[k] = q[(at - 1) + k]
      <3>1. CASE amp = 0
        BY <1>1, <1>2, <1>4, <3>1
      <3>2. CASE amp # 0
        <4>1. amp \in 1 .. Len(left) + 1 /\ amp - 1 = e - at + 1
              /\ \A k \in 1 .. amp - 1: k \in 1 .. Len(q) - (at - 1)
          <5>1. amp \in 1 .. Len(q) - (at - 1)
            BY <1>1, <1>3, <3>2
          <5>2. e + 1 = next - 1 /\ next - 1 = (at - 1) + amp /\ e \in Int /\ next \in Int
            BY <1>1, <1>4, <3>2
          <5>3. \A k \in 1 .. amp - 1: k \in 1 .. Len(q) - (at - 1)
            BY <1>1, <5>1
          <5>4. amp \in 1 .. Len(left) + 1
            BY <1>1, <1>2, <5>1
          <5>5. amp - 1 = e - at + 1
            <6>1. amp \in Int /\ at \in Int /\ e \in Int /\ e + 1 = (at - 1) + amp
              BY <1>1, <5>1, <5>2
            <6>2. QED
              BY <6>1
          <5>6. QED
            BY <5>3, <5>4, <5>5
        <4>2. /\ Before(left, amp) \in AnyText /\ Len(Before(left, amp)) = amp - 1
              /\ \A k \in 1 .. amp - 1: Before(left, amp)[k] = left[k]
          BY <1>2, <4>1, CutBefore
        <4>3. QED
          BY <1>2, <3>2, <4>1, <4>2
      <3>3. QED
        BY <3>1, <3>2
    <2>4. \A k \in 1 .. e - at + 1: (at - 1) + k = at + k - 1
      BY <1>1, <1>4
    <2>5. \A k \in 1 .. e - at + 1: SubSeq(q, at, e)[k] = pair[k]
      BY <2>2, <2>3, <2>4
    <2>6. SubSeq(q, at, e) = pair
      <3> DEFINE direct == SubSeq(q, at, e)
      <3> HIDE DEF direct
      <3>1. QED
        BY <2>2, <2>3, <2>5, SameText DEF direct
    <2>7. QED
      BY <2>3, <2>6
  <1>10. pair = <<>> <=> e < at
    <2>1. pair = <<>> <=> Len(pair) = 0
      BY <1>9, EmptySeq DEF AnyText
    <2>2. QED
      BY <1>1, <1>4, <1>9, <2>1
  <1>11. e >= at => <<at, e>> \in Pairs(q)
    <2>1. ASSUME e >= at PROVE <<at, e>> \in (1 .. Len(q)) \X (1 .. Len(q))
      BY <1>1, <1>4, <2>1
    <2>2. e = Len(q) \/ q[e + 1] = "&"
      BY <1>4, <1>5
    <2>3. QED
      BY <1>6, <2>1, <2>2 DEF Pairs
  <1>12. ASSUME NEW p \in Pairs(q) PROVE p[1] < next <=> p[1] < at \/ p = <<at, e>>
    <2>1. /\ p = <<p[1], p[2]>> /\ p[1] \in 1 .. Len(q) /\ p[2] \in 1 .. Len(q) /\ p[1] <= p[2]
          /\ \A i \in p[1] .. p[2]: q[i] # "&"
          /\ p[1] = 1 \/ q[p[1] - 1] = "&"
          /\ p[2] = Len(q) \/ q[p[2] + 1] = "&"
      BY DEF Pairs
    <2>2. ASSUME p[1] < next, ~(p[1] < at) PROVE p = <<at, e>>
      <3>1. p[1] # next - 1 \/ amp = 0
        BY <1>1, <1>5, <2>1
      <3>2. p[1] <= e
        BY <1>1, <1>4, <2>1, <2>2, <3>1
      <3>3. p[1] = at
        <4>1. p[1] > at => p[1] - 1 \in at .. e /\ p[1] # 1
          BY <1>1, <1>4, <2>1, <2>2, <3>2
        <4>2. QED
          BY <1>1, <1>6, <2>1, <2>2, <4>1
      <3>4. ~(p[2] > e)
        <4>1. p[2] > e => next - 1 \in p[1] .. p[2] /\ amp # 0
          BY <1>1, <1>4, <2>1, <3>2
        <4>2. QED
          BY <1>5, <2>1, <4>1
      <3>5. ~(p[2] < e)
        <4>1. p[2] < e => p[2] + 1 \in at .. e /\ p[2] # Len(q)
          BY <1>1, <1>4, <2>1, <3>3
        <4>2. QED
          BY <1>6, <2>1, <4>1
      <3>6. p[2] = e
        BY <1>4, <2>1, <3>4, <3>5
      <3>7. QED
        BY <2>1, <3>3, <3>6
    <2>3. ASSUME p = <<at, e>> PROVE p[1] < next
      <3>1. p[1] = at /\ p[2] = e
        BY <2>3
      <3>2. QED
        BY <1>1, <1>4, <2>1, <3>1
    <2>4. p[1] < at => p[1] < next
      BY <1>1, <1>4, <2>1
    <2>5. QED
      BY <2>2, <2>3, <2>4
  <1>13. /\ pair = <<>> => KeysBefore(q, next) = KeysBefore(q, at)
         /\ pair # <<>> => KeysBefore(q, next) = KeysBefore(q, at) \cup {KeyOf(pair)}
    <2>1. CASE e >= at
      <3>1. {r \in Pairs(q): r[1] < next} = {r \in Pairs(q): r[1] < at} \cup {<<at, e>>}
        BY <1>11, <1>12, <2>1
      <3>2. <<at, e>>[1] = at /\ <<at, e>>[2] = e
        OBVIOUS
      <3>3. pair # <<>>
        BY <1>1, <1>4, <1>10, <2>1
      <3> DEFINE key(p) == KeyOf(SubSeq(q, p[1], p[2]))
      <3>4. key(<<at, e>>) = KeyOf(pair)
        BY <1>9, <3>2
      <3> HIDE DEF key
      <3>5. {key(p): p \in {r \in Pairs(q): r[1] < next}}
              = {key(p): p \in {r \in Pairs(q): r[1] < at}} \cup {key(<<at, e>>)}
        BY <3>1
      <3>6. QED
        BY <3>3, <3>4, <3>5 DEF KeysBefore, key
    <2>2. CASE e < at
      <3>1. <<at, e>> \notin Pairs(q)
        <4>1. <<at, e>>[1] = at /\ <<at, e>>[2] = e
          OBVIOUS
        <4>2. ~(at <= e)
          BY <1>1, <1>4, <2>2
        <4>3. QED
          BY <4>1, <4>2 DEF Pairs
      <3>2. {r \in Pairs(q): r[1] < next} = {r \in Pairs(q): r[1] < at}
        BY <1>12, <3>1
      <3>3. QED
        BY <1>10, <2>2, <3>2 DEF KeysBefore
    <2>3. QED
      BY <1>1, <1>4, <2>1, <2>2
  <1>14. QED
    BY <1>4, <1>5, <1>7, <1>8, <1>13

LEMMA AllPairs ==
  ASSUME NEW q \in AnyText
  PROVE  KeysBefore(q, Len(q) + 1) = {KeyOf(SubSeq(q, p[1], p[2])): p \in Pairs(q)}
  <1>1. Len(q) \in Nat
    BY DEF AnyText
  <1>2. \A p \in Pairs(q): p[1] \in 1 .. Len(q)
    BY DEF Pairs
  <1>3. {r \in Pairs(q): r[1] < Len(q) + 1} = Pairs(q)
    BY <1>1, <1>2
  <1>4. QED
    BY <1>3 DEF KeysBefore

LEMMA NothingFound ==
  ASSUME NEW c
  PROVE  <<>> \in AnyText /\ Find(<<>>, c) = 0
  <1>1. <<>> \in AnyText /\ Len(<<>>) = 0
    BY DEF AnyText
  <1>2. QED
    BY <1>1, Found

LEMMA PairTaken ==
  ASSUME RequestInv, QueryPair
  PROVE  RequestInv'
  <1> DEFINE ampersand == Find(query, "&")
             pair == IF ampersand = 0 THEN query ELSE Before(query, ampersand)
             equals == Find(pair, "=")
  <1>1. /\ pc = "query" /\ wire \in AnyText /\ Scanned /\ LineRead /\ QueryOpen
        /\ DOMAIN request = {"method", "path", "version", "headers", "params", "body"}
        /\ UNCHANGED <<call, wire, rest, length>>
    BY DEF RequestInv, QueryPair
  <1>2. PICK line \in Nat: HeadersAt(line)
    BY <1>1 DEF RequestInv
  <1>3. /\ request' = IF equals # 0
                      THEN SetQueryParam(request, Decode(Before(pair, equals)), Decode(After(pair, equals)))
                      ELSE IF pair # <<>> THEN SetQueryParam(request, Decode(pair), <<>>)
                      ELSE request
        /\ query' = IF ampersand = 0 THEN <<>> ELSE After(query, ampersand)
        /\ pc' = IF query' = <<>> THEN "header" ELSE "query"
    BY DEF QueryPair
  <1> HIDE DEF ampersand, pair
  <1>4. pair = <<>> => equals = 0
    BY NothingFound
  <1>5. KeyOf(pair) = Decode(IF equals = 0 THEN pair ELSE Before(pair, equals))
    BY DEF KeyOf
  <1> HIDE DEF equals
  <1>6. ASSUME NEW key, NEW value, request' = SetQueryParam(request, key, value)
        PROVE  /\ DOMAIN request'.params = DOMAIN request.params \cup {key}
               /\ DOMAIN request' = DOMAIN request
               /\ request'.path = request.path /\ request'.method = request.method
               /\ request'.headers = request.headers
    BY <1>1, <1>6 DEF SetQueryParam, Updated
  <1>7. /\ pair # <<>> => DOMAIN request'.params = DOMAIN request.params \cup {KeyOf(pair)}
        /\ pair = <<>> => request'.params = request.params
        /\ DOMAIN request' = DOMAIN request
        /\ request'.path = request.path /\ request'.method = request.method
        /\ request'.headers = request.headers
    <2>1. CASE equals # 0
      BY <1>3, <1>4, <1>5, <1>6, <2>1
    <2>2. CASE equals = 0 /\ pair # <<>>
      BY <1>3, <1>5, <1>6, <2>2
    <2>3. CASE equals = 0 /\ pair = <<>>
      BY <1>3, <2>3
    <2>4. QED
      BY <2>1, <2>2, <2>3
  <1>8. HeadersAt(line)'
    BY <1>1, <1>2, <1>7 DEF HeadersAt, HeadersOf, RequestNames, RequestValues, Earlier
  <1>9. LineRead' /\ Scanned' /\ Mark' = Mark /\ QueryOf(wire)' = QueryOf(wire)
    BY <1>1, <1>7 DEF LineRead, Scanned, Mark
  <1>10. (pc' = "header" /\ QueryRead') \/ (pc' = "query" /\ QueryOpen')
    <2>1. CASE Mark = 0
      <3>1. query = <<>> /\ request.params = EmptyMap
        BY <1>1, <2>1 DEF QueryOpen
      <3>2. ampersand = 0 /\ pair = <<>>
        BY <3>1, NothingFound DEF ampersand, pair
      <3>3. request'.params = EmptyMap /\ pc' = "header"
        BY <1>3, <1>7, <3>1, <3>2
      <3>4. QED
        BY <1>9, <2>1, <3>3 DEF QueryRead
    <2>2. CASE Mark # 0
      <3> DEFINE q == QueryOf(wire)
      <3>1. PICK at \in Nat: QueryAt(at)
        BY <1>1, <2>2 DEF QueryOpen
      <3>2. q \in AnyText
        BY <1>1, Found, CutAfter DEF LineRead, QueryOf, Mark
      <3> HIDE DEF q
      <3>3. /\ at \in 1 .. Len(q) + 1 /\ query = After(q, at - 1) /\ (at = 1 \/ q[at - 1] = "&")
            /\ DOMAIN request.params = KeysBefore(q, at)
        BY <3>1 DEF QueryAt, q
      <3>4. /\ ampersand = Find(query, "&")
            /\ pair = IF ampersand = 0 THEN query ELSE Before(query, ampersand)
        BY DEF ampersand, pair
      <3>5. PICK next:
            /\ next \in 1 .. Len(q) + 1
            /\ ampersand = 0 => next = Len(q) + 1
            /\ ampersand # 0 => q[next - 1] = "&" /\ After(query, ampersand) = After(q, next - 1)
            /\ ampersand # 0 /\ After(query, ampersand) = <<>> => next = Len(q) + 1
            /\ pair = <<>> => KeysBefore(q, next) = KeysBefore(q, at)
            /\ pair # <<>> => KeysBefore(q, next) = KeysBefore(q, at) \cup {KeyOf(pair)}
        <4> DEFINE to == IF ampersand = 0 THEN Len(q) + 1 ELSE at + ampersand
        <4>1. /\ to = IF ampersand = 0 THEN Len(q) + 1 ELSE at + ampersand
              /\ ampersand = 0 => to = Len(q) + 1
          OBVIOUS
        <4> HIDE DEF to
        <4>2. /\ to \in 1 .. Len(q) + 1
              /\ ampersand # 0 => q[to - 1] = "&" /\ After(query, ampersand) = After(q, to - 1)
              /\ ampersand # 0 /\ After(query, ampersand) = <<>> => to = Len(q) + 1
              /\ pair = <<>> => KeysBefore(q, to) = KeysBefore(q, at)
              /\ pair # <<>> => KeysBefore(q, to) = KeysBefore(q, at) \cup {KeyOf(pair)}
          <5>1. \A left, amp, part, n:
                  (/\ left = After(q, at - 1) /\ amp = Find(left, "&")
                   /\ part = IF amp = 0 THEN left ELSE Before(left, amp)
                   /\ n = IF amp = 0 THEN Len(q) + 1 ELSE at + amp)
                  => /\ n \in 1 .. Len(q) + 1
                     /\ amp # 0 => q[n - 1] = "&" /\ After(left, amp) = After(q, n - 1)
                     /\ amp # 0 /\ After(left, amp) = <<>> => n = Len(q) + 1
                     /\ part = <<>> => KeysBefore(q, n) = KeysBefore(q, at)
                     /\ part # <<>> => KeysBefore(q, n) = KeysBefore(q, at) \cup {KeyOf(part)}
            BY <3>2, <3>3, NextPair
          <5>2. to \in 1 .. Len(q) + 1
            BY <3>3, <3>4, <4>1, <5>1
          <5>3. ampersand # 0 => q[to - 1] = "&" /\ After(query, ampersand) = After(q, to - 1)
            BY <3>3, <3>4, <4>1, <5>1
          <5>4. ampersand # 0 /\ After(query, ampersand) = <<>> => to = Len(q) + 1
            BY <3>3, <3>4, <4>1, <5>1
          <5>5. pair = <<>> => KeysBefore(q, to) = KeysBefore(q, at)
            BY <3>3, <3>4, <4>1, <5>1
          <5>6. pair # <<>> => KeysBefore(q, to) = KeysBefore(q, at) \cup {KeyOf(pair)}
            BY <3>3, <3>4, <4>1, <5>1
          <5>7. QED
            BY <5>2, <5>3, <5>4, <5>5, <5>6
        <4>3. QED
          BY <4>1, <4>2
      <3>6. DOMAIN request'.params = KeysBefore(q, next)
        BY <1>7, <3>3, <3>5
      <3>7. CASE query' = <<>>
        <4>1. next = Len(q) + 1
          BY <1>3, <3>5, <3>7
        <4>2. DOMAIN request'.params = {KeyOf(SubSeq(q, p[1], p[2])): p \in Pairs(q)}
          BY <3>2, <3>6, <4>1, AllPairs
        <4>3. QueryRead'
          BY <1>9, <2>2, <4>2 DEF QueryRead, q
        <4>4. QED
          BY <1>3, <3>7, <4>3
      <3>8. CASE query' # <<>>
        <4>1. ampersand # 0 /\ query' = After(q, next - 1) /\ q[next - 1] = "&"
          BY <1>3, <3>5, <3>8
        <4>2. QueryAt(next)'
          BY <1>9, <3>5, <3>6, <4>1 DEF QueryAt, q
        <4>3. next \in Nat
          BY <3>2, <3>5 DEF AnyText
        <4>4. QueryOpen'
          BY <1>9, <2>2, <4>2, <4>3 DEF QueryOpen
        <4>5. QED
          BY <1>3, <3>8, <4>4
      <3>9. QED
        BY <3>7, <3>8
    <2>3. QED
      BY <2>1, <2>2
  <1>11. QED
    BY <1>1, <1>2, <1>7, <1>8, <1>9, <1>10 DEF RequestInv

LEMMA FieldTaken ==
  ASSUME RequestInv, HeaderLine
  PROVE  RequestInv'
  <1> DEFINE end == Find(rest, CRLF)
             line == Before(rest, end)
  <1>1. /\ pc = "header" /\ wire \in AnyText /\ Scanned /\ HeadEnd(wire) # 0 /\ LineRead /\ QueryRead
        /\ DOMAIN request = {"method", "path", "version", "headers", "params", "body"}
        /\ UNCHANGED <<call, wire, length>>
    BY DEF RequestInv, HeaderLine, Scanned
  <1>2. /\ rest' = After(rest, end)
        /\ \/ end # 0 /\ line = <<>> /\ request' = [request EXCEPT !.body = rest'] /\ pc' = "handler"
           \/ end # 0 /\ HasColon(line) /\ request' = ParseHeaderLine(request, line) /\ pc' = "header"
           \/ (end = 0 \/ (line # <<>> /\ ~HasColon(line))) /\ pc' = "threw" /\ UNCHANGED request
    BY DEF HeaderLine
  <1>3. PICK at \in Nat: HeadersAt(at)
    BY <1>1 DEF RequestInv
  <1>4. at \in FieldStarts(wire) \cup {HeadEnd(wire) + 1} /\ rest = After(wire, at - 1)
    BY <1>3 DEF HeadersAt
  <1>5. Scanned' /\ Mark' = Mark /\ QueryOf(wire)' = QueryOf(wire)
    BY <1>1 DEF Scanned, Mark
  <1> HIDE DEF end, line
  <1>6. CASE at = HeadEnd(wire) + 1
    <2>1. /\ HeadEnd(wire) \in 1 .. Len(wire) - 1 /\ wire[HeadEnd(wire) + 1] = CRLF /\ Len(wire) \in Nat
      BY <1>1, HeadEnds DEF AnyText
    <2>2. HeadEnd(wire) \in 0 .. Len(wire) /\ at - 1 = HeadEnd(wire) /\ 1 \in 1 .. Len(wire) - HeadEnd(wire)
      BY <1>6, <2>1
    <2>3. /\ rest \in AnyText /\ Len(rest) = Len(wire) - HeadEnd(wire)
          /\ rest[1] = wire[HeadEnd(wire) + 1]
      BY <1>1, <1>4, <2>2, CutAfter
    <2>4. 1 \in 1 .. Len(rest) /\ \A i \in 1 .. 1 - 1: rest[i] # CRLF
      BY <2>1, <2>3
    <2>5. end = 1
      BY <2>1, <2>3, <2>4, FoundAt DEF end
    <2>6. line = <<>>
      BY <2>5, SubSeqEmpty DEF line, Before
    <2>7. ~HasColon(line)
      BY <2>6, NothingFound DEF HasColon
    <2>8. request' = [request EXCEPT !.body = rest'] /\ pc' = "handler"
      BY <1>2, <2>5, <2>6, <2>7
    <2>9. rest' = After(wire, HeadEnd(wire) + 1)
      <3>1. 1 \in 0 .. Len(wire) - HeadEnd(wire)
        BY <2>2
      <3>2. QED
        BY <1>1, <1>2, <1>4, <2>2, <2>5, <3>1, AfterAfter
    <2>10. HeadersOf(FieldStarts(wire))
      BY <1>1, <1>3, <1>6, NoneEarlier DEF HeadersAt
    <2>11. /\ request'.headers = request.headers /\ request'.params = request.params
           /\ request'.path = request.path /\ request'.method = request.method
           /\ DOMAIN request' = DOMAIN request /\ request'.body = After(wire, HeadEnd(wire) + 1)
      BY <1>1, <2>8, <2>9
    <2>12. HeadersOf(FieldStarts(wire))' /\ LineRead' /\ QueryRead'
      BY <1>1, <1>5, <2>10, <2>11
         DEF HeadersOf, RequestNames, RequestValues, LineRead, QueryRead
    <2>13. QED
      BY <1>1, <1>5, <2>8, <2>11, <2>12 DEF RequestInv
  <1>7. CASE at # HeadEnd(wire) + 1
    <2>1. at \in FieldStarts(wire) /\ at \in LineStarts(wire) /\ at # 1
      BY <1>4, <1>7 DEF FieldStarts
    <2>2. /\ end # 0 /\ line = LineAt(wire, at)
          /\ \E next \in FieldStarts(wire) \cup {HeadEnd(wire) + 1}:
               /\ rest' = After(wire, next - 1)
               /\ next \in Nat /\ Earlier(wire, next) = Earlier(wire, at) \cup ({at} \ {1})
      BY <1>1, <1>2, <1>4, <2>1, Walk DEF end, line
    <2>3. PICK next \in FieldStarts(wire) \cup {HeadEnd(wire) + 1}:
               /\ rest' = After(wire, next - 1)
               /\ next \in Nat /\ Earlier(wire, next) = Earlier(wire, at) \cup {at}
      BY <2>1, <2>2
    <2>4. line # <<>>
      <3>1. Len(line) = LineEnd(wire, at) - at /\ at < LineEnd(wire, at) /\ LineEnd(wire, at) \in Int
        BY <1>1, <2>1, <2>2, LineEnds, NextLine
      <3>2. Len(<<>>) = 0
        OBVIOUS
      <3>3. QED
        BY <3>1, <3>2
    <2>5. CASE pc' = "threw" /\ UNCHANGED request /\ ~HasColon(line)
      <3>1. ~WellFormed(wire)
        BY <2>1, <2>2, <2>5 DEF WellFormed
      <3>2. ~WellFormed(wire)'
        BY <1>1, <3>1
      <3>3. QED
        BY <1>1, <2>5, <3>2 DEF RequestInv
    <2>6. CASE HasColon(line) /\ request' = ParseHeaderLine(request, line) /\ pc' = "header"
      <3>1. /\ request'.headers = Updated(request.headers, RequestNames[at], RequestValues[at])
            /\ request'.params = request.params
            /\ request'.path = request.path /\ request'.method = request.method
            /\ DOMAIN request' = DOMAIN request
        BY <1>1, <2>1, <2>2, <2>6 DEF ParseHeaderLine, SetHeader, RequestNames, RequestValues, LoweredName
      <3>2. Earlier(wire, at) \subseteq Nat /\ \A i \in Earlier(wire, at): i < at
        BY <1>1, NoneEarlier DEF Earlier
      <3>3. /\ LastOf(request.headers, RequestNames, RequestValues, Earlier(wire, at))
            /\ \A i \in Earlier(wire, at): HasColon(LineAt(wire, i))
        BY <1>3 DEF HeadersAt, HeadersOf
      <3>4. LastOf(Updated(request.headers, RequestNames[at], RequestValues[at]), RequestNames,
                   RequestValues, Earlier(wire, at) \cup {at})
        BY <3>2, <3>3, LastKept
      <3>5. HeadersOf(Earlier(wire, next))'
        BY <1>1, <2>2, <2>3, <2>6, <3>1, <3>3, <3>4
           DEF HeadersOf, RequestNames, RequestValues, Earlier
      <3>6. HeadersAt(next)'
        BY <1>1, <2>3, <3>5 DEF HeadersAt
      <3>7. LineRead' /\ QueryRead'
        BY <1>1, <1>5, <3>1 DEF LineRead, QueryRead
      <3>8. QED
        BY <1>1, <1>5, <2>3, <2>6, <3>1, <3>6, <3>7 DEF RequestInv
    <2>7. QED
      BY <1>2, <2>2, <2>4, <2>5, <2>6
  <1>8. QED
    BY <1>6, <1>7

LEMMA LengthIsNumber ==
  ASSUME NEW text \in AnyText, HeadEnd(text) # 0,
         \A i \in ContentLengths(text): IsNumber(LengthText(text, i))
  PROVE  /\ DeclaredLength(text) \in Nat
         /\ ContentLengths(text) # {} =>
              /\ Max(ContentLengths(text)) \in ContentLengths(text)
              /\ LengthText(text, Max(ContentLengths(text))) = <<ToString(DeclaredLength(text))>>
  <1> DEFINE marks == ContentLengths(text)
             last == Max(marks)
  <1>1. CASE marks = {}
    BY <1>1 DEF DeclaredLength
  <1>2. CASE marks # {}
    <2>1. HeadEnd(text) \in Nat /\ \A i \in LineStarts(text): i \in 0 .. HeadEnd(text)
      BY LineStart, HeadEnds DEF AnyText
    <2>2. marks \subseteq 0 .. HeadEnd(text)
      BY <2>1 DEF ContentLengths
    <2> HIDE DEF marks
    <2>3. last \in marks
      BY <1>2, <2>1, <2>2, Greatest
    <2> HIDE DEF last
    <2>4. IsNumber(LengthText(text, last))
      BY <2>3 DEF marks
    <2>5. DeclaredLength(text) = Number(LengthText(text, last))
      BY <1>2 DEF DeclaredLength, marks, last
    <2>6. /\ Number(LengthText(text, last)) \in 0 .. MaxNumber
          /\ LengthText(text, last) = <<ToString(Number(LengthText(text, last)))>>
      BY <2>4 DEF IsNumber, Number
    <2>7. QED
      BY <2>3, <2>5, <2>6 DEF marks, last
  <1>3. QED
    BY <1>1, <1>2

LEMMA RequestWalked ==
  ASSUME RequestInv, [Next]_vars
  PROVE  RequestInv'
  <1>1. ASSUME Build PROVE RequestInv'
    <2>1. pc = "build" /\ pc' = "scan" /\ request' = request
      BY <1>1 DEF Build
    <2>2. call \in Calls /\ request = EmptyRequest
          /\ DOMAIN request = {"method", "path", "version", "headers", "params", "body"}
      BY <2>1 DEF RequestInv
    <2>3. PICK target \in Targets(call), order \in SetToSeqs(DOMAIN call.headers):
                 wire' = BuildRequest(call, target, order)
      BY <1>1 DEF Build
    <2>4. wire' \in AnyText
      BY <2>2, <2>3, RequestIsText
    <2>5. QED
      BY <2>1, <2>2, <2>4 DEF RequestInv
  <1>2. ASSUME Scan PROVE RequestInv'
    <2>1. /\ pc = "scan" /\ request' = request /\ wire' = wire
          /\ \/ pc' \in {"400", "starved"}
             \/ /\ HeadEnd(wire) # 0
                /\ \A i \in ContentLengths(wire): IsNumber(LengthText(wire, i))
                /\ length' = DeclaredLength(wire) /\ ~(Len(wire) - (HeadEnd(wire) + 1) < length')
                /\ pc' = "line" /\ rest' = wire
      BY <1>2 DEF Scan
    <2>2. /\ wire \in AnyText /\ request = EmptyRequest
          /\ DOMAIN request = {"method", "path", "version", "headers", "params", "body"}
      BY <2>1 DEF RequestInv
    <2>3. CASE pc' \in {"400", "starved"}
      BY <2>1, <2>2, <2>3 DEF RequestInv
    <2>4. CASE /\ HeadEnd(wire) # 0
               /\ \A i \in ContentLengths(wire): IsNumber(LengthText(wire, i))
               /\ length' = DeclaredLength(wire) /\ ~(Len(wire) - (HeadEnd(wire) + 1) < length')
               /\ pc' = "line" /\ rest' = wire
      <3>1. HeadEnd(wire) \in Nat /\ Len(wire) \in Nat
        BY <2>2, HeadEnds DEF AnyText
      <3>2. DeclaredLength(wire) \in Nat
        BY <2>2, <2>4, LengthIsNumber
      <3>3. Scanned'
        BY <2>1, <2>4, <3>1, <3>2 DEF Scanned
      <3>4. QED
        BY <2>1, <2>2, <2>4, <3>3 DEF RequestInv
    <2>5. QED
      BY <2>1, <2>3, <2>4
  <1>3. ASSUME Handler PROVE RequestInv'
    <2>1. pc = "handler" /\ UNCHANGED <<call, wire, pc, rest, length, request>>
      BY <1>3 DEF Handler, Called
    <2>2. /\ wire \in AnyText /\ Scanned /\ LineRead /\ QueryRead /\ HeadersOf(FieldStarts(wire))
          /\ request.body = After(wire, HeadEnd(wire) + 1)
          /\ DOMAIN request = {"method", "path", "version", "headers", "params", "body"}
      BY <2>1 DEF RequestInv
    <2>3. Scanned' /\ LineRead' /\ QueryRead' /\ HeadersOf(FieldStarts(wire))'
      BY <2>1, <2>2 DEF Scanned, LineRead, QueryRead, Mark, HeadersOf, RequestNames, RequestValues
    <2>4. QED
      BY <2>1, <2>2, <2>3 DEF RequestInv
  <1>4. ASSUME Refuse \/ Serialize \/ ParseStatus \/ ParseField \/ TakeBody PROVE RequestInv'
    <2>1. UNCHANGED <<wire, request>> /\ pc' \in {"answer", "status", "fields", "rejected", "done"}
      BY <1>4 DEF Refuse, Serialize, ParseStatus, ParseField, TakeBody
    <2>2. QED
      BY <2>1 DEF RequestInv
  <1>5. ASSUME UNCHANGED vars PROVE RequestInv'
    <2>1. UNCHANGED <<call, wire, pc, rest, query, length, request>>
      BY <1>5 DEF vars
    <2>2. /\ Scanned' = Scanned /\ LineRead' = LineRead /\ QueryRead' = QueryRead
          /\ HeadersOf(FieldStarts(wire))' = HeadersOf(FieldStarts(wire))
          /\ WellFormed(wire)' = WellFormed(wire)
      BY <2>1 DEF Scanned, LineRead, QueryRead, Mark, HeadersOf, RequestNames, RequestValues
    <2>3. QueryOpen => QueryOpen'
      BY <2>1 DEF QueryOpen, QueryAt, Mark
    <2>4. (\E at \in Nat: HeadersAt(at)) => (\E at \in Nat: HeadersAt(at))'
      BY <2>1 DEF HeadersAt, HeadersOf, RequestNames, RequestValues, Earlier
    <2>5. QED
      BY <2>1, <2>2, <2>3, <2>4 DEF RequestInv
  <1>6. QED
    BY <1>1, <1>2, <1>3, <1>4, <1>5, LineTaken, PairTaken, FieldTaken DEF Next, Ended

LEMMA ReplyWalked ==
  ASSUME ReplyInv, ResponseOK(response), [Next]_vars
  PROVE  ReplyInv'
  <1>1. ASSUME UNCHANGED <<reply, out>>, {pc, pc'} \cap {"fields", "done", "rejected"} = {} PROVE ReplyInv'
    BY <1>1 DEF ReplyInv, ReplyUnderstood
  <1>2. ASSUME Build \/ Scan \/ RequestLine \/ QueryPair \/ HeaderLine \/ Handler \/ Refuse PROVE ReplyInv'
    <2>1. UNCHANGED <<reply, out>>
      BY <1>2 DEF Build, Scan, RequestLine, QueryPair, HeaderLine, Handler, Called, Refuse
    <2>2. pc \notin {"fields", "done", "rejected"}
      BY <1>2 DEF Build, Scan, RequestLine, QueryPair, HeaderLine, Handler, Called, Refuse
    <2>3. pc' \notin {"fields", "done", "rejected"}
      BY <1>2 DEF Build, Scan, RequestLine, QueryPair, HeaderLine, Handler, Called, Refuse
    <2>4. QED
      BY <1>1, <2>1, <2>2, <2>3
  <1>3. ASSUME Serialize PROVE ReplyInv'
    <2>1. reply' \in AnyText /\ pc \in {"handler", "answer"} /\ pc' = "status" /\ out' = out
      BY <1>3, ReplyIsText DEF Serialize
    <2>2. QED
      BY <2>1 DEF ReplyInv, ReplyUnderstood
  <1>4. ASSUME UNCHANGED vars PROVE ReplyInv'
    <2>1. UNCHANGED <<pc, rest, reply, out>>
      BY <1>4 DEF vars
    <2>2. (\E at \in Nat: ReplyAt(at)) => (\E at \in Nat: ReplyAt(at))'
      BY <2>1 DEF ReplyAt, ReplyNames, ReplyValues, Earlier
    <2>3. ReplyUnderstood' = ReplyUnderstood
      BY <2>1 DEF ReplyUnderstood, LastNamed
    <2>4. QED
      BY <2>1, <2>2, <2>3 DEF ReplyInv
  <1>5. QED
    BY <1>2, <1>3, <1>4, StatusParsed, FieldParsed, BodyTaken DEF Next, Ended

-----------------------------------------------------------------------------
(* What the invariant says once a parser is through. *)
LEMMA Rejoined ==
  ASSUME NEW text \in AnyText, NEW i \in 1 .. Len(text)
  PROVE  text = Before(text, i) \o <<text[i]>> \o After(text, i)
  <1> DEFINE left == Before(text, i)
             right == After(text, i)
             both == left \o <<text[i]>>
  <1>1. Len(text) \in Nat /\ i \in 1 .. Len(text) + 1 /\ i \in 0 .. Len(text) /\ text[i] \in Tokens
    BY DEF AnyText
  <1>2. left \in AnyText /\ Len(left) = i - 1 /\ \A k \in 1 .. i - 1: left[k] = text[k]
    BY <1>1, CutBefore
  <1>3. right \in AnyText /\ Len(right) = Len(text) - i /\ \A k \in 1 .. Len(text) - i: right[k] = text[i + k]
    BY <1>1, CutAfter
  <1> HIDE DEF left, right
  <1>4. <<text[i]>> \in AnyText /\ Len(<<text[i]>>) = 1 /\ <<text[i]>>[1] = text[i]
    BY <1>1 DEF AnyText
  <1>5. /\ both \in AnyText /\ Len(both) = (i - 1) + 1
        /\ \A k \in 1 .. (i - 1) + 1: both[k] = IF k <= i - 1 THEN left[k] ELSE <<text[i]>>[k - (i - 1)]
    BY <1>2, <1>4, ConcatProperties DEF AnyText
  <1>6. Len(both) = i /\ \A k \in 1 .. i: both[k] = text[k]
    <2>1. (i - 1) + 1 = i
      BY <1>1
    <2>2. ASSUME NEW k \in 1 .. i PROVE both[k] = text[k]
      <3>1. CASE k <= i - 1
        <4>1. k \in 1 .. i - 1 /\ k \in 1 .. (i - 1) + 1
          BY <1>1, <3>1
        <4>2. QED
          BY <1>2, <1>5, <3>1, <4>1
      <3>2. CASE ~(k <= i - 1)
        <4>1. k = i /\ k - (i - 1) = 1 /\ k \in 1 .. (i - 1) + 1
          BY <1>1, <3>2
        <4>2. QED
          BY <1>4, <1>5, <3>2, <4>1
      <3>3. QED
        BY <3>1, <3>2
    <2>3. QED
      BY <1>5, <2>1, <2>2
  <1> HIDE DEF both
  <1>7. /\ both \o right \in AnyText /\ Len(both \o right) = i + (Len(text) - i)
        /\ \A k \in 1 .. i + (Len(text) - i): (both \o right)[k] = IF k <= i THEN both[k] ELSE right[k - i]
    <2>1. /\ both \o right \in AnyText /\ Len(both \o right) = Len(both) + Len(right)
          /\ \A k \in 1 .. Len(both) + Len(right):
               (both \o right)[k] = IF k <= Len(both) THEN both[k] ELSE right[k - Len(both)]
      BY <1>3, <1>5, ConcatProperties DEF AnyText
    <2>2. Len(both) = i /\ Len(right) = Len(text) - i
      BY <1>3, <1>6
    <2>3. QED
      BY <2>1, <2>2
  <1>8. i + (Len(text) - i) = Len(text)
    BY <1>1
  <1>9. ASSUME NEW k \in 1 .. Len(text) PROVE text[k] = (both \o right)[k]
    <2>1. CASE k <= i
      BY <1>1, <1>6, <1>7, <1>8, <2>1
    <2>2. CASE ~(k <= i)
      <3>1. k - i \in 1 .. Len(text) - i /\ i + (k - i) = k
        BY <1>1, <2>2
      <3>2. QED
        BY <1>3, <1>7, <1>8, <2>2, <3>1
    <2>3. QED
      BY <2>1, <2>2
  <1>10. text = both \o right
    <2> DEFINE joined == both \o right
    <2> HIDE DEF joined
    <2>1. QED
      BY <1>7, <1>8, <1>9, SameText DEF joined
  <1>11. QED
    BY <1>10 DEF both, left, right

LEMMA Indented ==
  ASSUME NEW text \in AnyText, NEW k \in 0 .. Len(text), \A i \in 1 .. k: text[i] \in {SP}
  PROVE  text = [i \in 1 .. k |-> SP] \o After(text, k)
  <1> DEFINE blanks == [i \in 1 .. k |-> SP]
             right == After(text, k)
             joined == blanks \o right
  <1>1. Len(text) \in Nat /\ k \in Nat
    BY DEF AnyText
  <1>2. right \in AnyText /\ Len(right) = Len(text) - k /\ \A i \in 1 .. Len(text) - k: right[i] = text[k + i]
    BY CutAfter
  <1>3. SP \in Tokens
    BY Separators
  <1>4. blanks \in AnyText /\ Len(blanks) = k /\ \A i \in 1 .. k: blanks[i] = SP
    BY <1>1, <1>3, IsASeq DEF AnyText
  <1> HIDE DEF blanks, right
  <1>5. /\ joined \in AnyText /\ Len(joined) = k + (Len(text) - k)
        /\ \A i \in 1 .. k + (Len(text) - k): joined[i] = IF i <= k THEN blanks[i] ELSE right[i - k]
    BY <1>2, <1>4, ConcatProperties DEF AnyText
  <1>6. k + (Len(text) - k) = Len(text)
    BY <1>1
  <1> HIDE DEF joined
  <1>7. ASSUME NEW i \in 1 .. Len(text) PROVE text[i] = joined[i]
    <2>1. CASE i <= k
      <3>1. i \in 1 .. k
        BY <1>1, <2>1
      <3>2. QED
        BY <1>4, <1>5, <1>6, <2>1, <3>1
    <2>2. CASE ~(i <= k)
      <3>1. i - k \in 1 .. Len(text) - k /\ k + (i - k) = i
        BY <1>1, <2>2
      <3>2. QED
        BY <1>2, <1>5, <1>6, <2>2, <3>1
    <2>3. QED
      BY <2>1, <2>2
  <1>8. text = joined
    BY <1>5, <1>6, <1>7, SameText
  <1>9. QED
    BY <1>8 DEF joined, blanks, right

LEMMA ParsedWhole ==
  ASSUME RequestInv
  PROVE  RequestParsed
  <1>1. pc = "threw" => ~WellFormed(wire)
    BY DEF RequestInv
  <1>2. ASSUME pc = "handler"
        PROVE  LET target == TargetOf(wire)
                   q == QueryOf(wire)
               IN /\ WellFormed(wire)
                  /\ request.body = After(wire, HeadEnd(wire) + 1)
                  /\ IF "?" \in Range(target)
                     THEN /\ target = request.path \o <<"?">> \o q
                          /\ DOMAIN request.params = {KeyOf(SubSeq(q, p[1], p[2])): p \in Pairs(q)}
                     ELSE request.path = target /\ request.params = EmptyMap
                  /\ DOMAIN request.headers = {LoweredName(LineAt(wire, i)): i \in FieldStarts(wire)}
                  /\ \A n \in DOMAIN request.headers:
                        ValueOf(LastNamed(wire, LoweredName, n))
                            \in {[i \in 1 .. k |-> SP] \o Header(request, n): k \in 0 .. Len(wire)}
    <2> DEFINE target == TargetOf(wire)
    <2>1. /\ wire \in AnyText /\ HeadEnd(wire) # 0 /\ LineRead /\ QueryRead /\ HeadersOf(FieldStarts(wire))
          /\ request.body = After(wire, HeadEnd(wire) + 1)
      BY <1>2 DEF RequestInv, Scanned
    <2>2. WellFormed(wire)
      BY <2>1 DEF LineRead, HeadersOf, WellFormed, TwoSpaces
    <2>3. /\ target \in AnyText /\ Mark \in 0 .. Len(target)
          /\ Mark # 0 => target[Mark] = "?"
          /\ Mark = 0 => \A i \in 1 .. Len(target): target[i] # "?"
          /\ DOMAIN target = 1 .. Len(target) /\ Len(target) \in Nat
      BY <2>1, Found DEF LineRead, Mark, AnyText
    <2>4. request.path = IF Mark = 0 THEN target ELSE Before(target, Mark)
      BY <2>1 DEF LineRead
    <2>5. QueryOf(wire) = After(target, Mark)
      BY DEF QueryOf, Mark
    <2> HIDE DEF target
    <2>6. "?" \in Range(target) <=> Mark # 0
      BY <2>3 DEF Range
    <2>7. IF "?" \in Range(target)
          THEN /\ target = request.path \o <<"?">> \o QueryOf(wire)
               /\ DOMAIN request.params
                    = {KeyOf(SubSeq(QueryOf(wire), p[1], p[2])): p \in Pairs(QueryOf(wire))}
          ELSE request.path = target /\ request.params = EmptyMap
      <3>1. CASE Mark = 0
        BY <2>1, <2>4, <2>6, <3>1 DEF QueryRead
      <3>2. CASE Mark # 0
        <4>1. Mark \in 1 .. Len(target)
          BY <2>3, <3>2
        <4>2. target = Before(target, Mark) \o <<"?">> \o After(target, Mark)
          BY <2>3, <3>2, <4>1, Rejoined
        <4>3. target = request.path \o <<"?">> \o QueryOf(wire)
          BY <2>4, <2>5, <3>2, <4>2
        <4>4. QED
          BY <2>1, <2>6, <3>2, <4>3 DEF QueryRead
      <3>3. QED
        BY <3>1, <3>2
    <2>8. DOMAIN request.headers = {LoweredName(LineAt(wire, i)): i \in FieldStarts(wire)}
      BY <2>1 DEF HeadersOf, LastOf, RequestNames
    <2>9. ASSUME NEW n \in DOMAIN request.headers
          PROVE  ValueOf(LastNamed(wire, LoweredName, n))
                     \in {[i \in 1 .. k |-> SP] \o Header(request, n): k \in 0 .. Len(wire)}
      <3> DEFINE last == Max({i \in FieldStarts(wire): RequestNames[i] = n})
                 line == LineAt(wire, last)
      <3>1. last \in FieldStarts(wire) /\ RequestNames[last] = n /\ request.headers[n] = RequestValues[last]
        BY <2>1, LastMark DEF HeadersOf
      <3>2. {i \in FieldStarts(wire): RequestNames[i] = n}
              = {i \in FieldStarts(wire): LoweredName(LineAt(wire, i)) = n}
        BY DEF RequestNames
      <3>3. LastNamed(wire, LoweredName, n) = line
        BY <3>2 DEF LastNamed
      <3> HIDE DEF last
      <3>4. last \in LineStarts(wire) /\ HasColon(line)
        BY <2>1, <3>1 DEF FieldStarts, HeadersOf
      <3>5. /\ line \in AnyText /\ Len(line) = LineEnd(wire, last) - last
            /\ LineEnd(wire, last) \in last .. HeadEnd(wire) /\ last \in 1 .. HeadEnd(wire)
            /\ HeadEnd(wire) \in 1 .. Len(wire) - 1 /\ Len(wire) \in Nat
        BY <2>1, <3>4, LineEnds, LineStart, HeadEnds DEF AnyText
      <3> HIDE DEF line
      <3>6. /\ NameOf(line) \in AnyText /\ ValueOf(line) \in AnyText /\ Len(ValueOf(line)) <= Len(line)
        BY <3>4, <3>5, LineParts
      <3>7. n = Lowercase(NameOf(line)) /\ request.headers[n] = StripLeft(ValueOf(line), {SP})
        BY <3>1 DEF RequestNames, RequestValues, LoweredName, line
      <3>8. Lowercase(n) = n
        BY <3>6, <3>7, Lowered
      <3>9. Header(request, n) = StripLeft(ValueOf(line), {SP})
        BY <3>7, <3>8 DEF Header, HasHeader
      <3>10. PICK k \in 0 .. Len(ValueOf(line)): /\ StripLeft(ValueOf(line), {SP}) = After(ValueOf(line), k)
                                                /\ \A i \in 1 .. k: ValueOf(line)[i] \in {SP}
        BY <3>6, Stripped
      <3>11. ValueOf(line) = [i \in 1 .. k |-> SP] \o Header(request, n)
        BY <3>6, <3>9, <3>10, Indented
      <3>12. k \in 0 .. Len(wire)
        BY <3>5, <3>6, <3>10 DEF AnyText
      <3>13. QED
        BY <3>3, <3>11, <3>12
    <2>10. QED
      BY <2>1, <2>2, <2>7, <2>8, <2>9 DEF target
  <1>3. QED
    BY <1>1, <1>2 DEF RequestParsed

LEMMA FramedAlike ==
  ASSUME RequestInv
  PROVE  FramingAgrees
  <1> DEFINE cl == <<"content-length">>
  <1>1. SUFFICES ASSUME pc = "handler", request.method # "Unknown"
                 PROVE  IF HasHeader(request, <<"Content-Length">>)
                        THEN /\ Header(request, <<"Content-Length">>) = <<ToString(length)>>
                             /\ Len(request.body) >= length
                        ELSE length = 0
    BY DEF FramingAgrees
  <1>2. /\ wire \in AnyText /\ HeadEnd(wire) # 0 /\ LineRead /\ HeadersOf(FieldStarts(wire))
        /\ request.body = After(wire, HeadEnd(wire) + 1)
        /\ \A i \in ContentLengths(wire): IsNumber(LengthText(wire, i))
        /\ length = DeclaredLength(wire) /\ length <= Len(wire) - (HeadEnd(wire) + 1)
    BY <1>1 DEF RequestInv, Scanned
  <1>3. Lowercase(<<"Content-Length">>) = cl
    BY MessagesAssumption DEF Lowercase
  <1> HIDE DEF cl
  <1>4. ContentLengths(wire) = {i \in FieldStarts(wire): RequestNames[i] = cl}
    <2>1. 1 \notin ContentLengths(wire)
      BY <1>1, <1>2 DEF LineRead
    <2>2. ContentLengths(wire) = {i \in LineStarts(wire): HasColon(LineAt(wire, i))
                                    /\ Lowercase(NameOf(LineAt(wire, i))) = cl}
      BY DEF ContentLengths, cl
    <2>3. \A i \in FieldStarts(wire): HasColon(LineAt(wire, i))
      BY <1>2 DEF HeadersOf
    <2>4. \A i \in FieldStarts(wire): RequestNames[i] = Lowercase(NameOf(LineAt(wire, i)))
      BY DEF RequestNames, LoweredName
    <2>5. \A i: i \in FieldStarts(wire) <=> i \in LineStarts(wire) /\ i # 1
      BY DEF FieldStarts
    <2>6. QED
      BY <2>1, <2>2, <2>3, <2>4, <2>5
  <1>5. DOMAIN request.headers = {RequestNames[i]: i \in FieldStarts(wire)}
    BY <1>2 DEF HeadersOf, LastOf
  <1>6. HasHeader(request, <<"Content-Length">>) <=> cl \in DOMAIN request.headers
    BY <1>3 DEF HasHeader
  <1>7. CASE cl \in DOMAIN request.headers
    <2> DEFINE last == Max({i \in FieldStarts(wire): RequestNames[i] = cl})
    <2>1. last \in FieldStarts(wire) /\ request.headers[cl] = RequestValues[last]
      BY <1>2, <1>7, LastMark DEF HeadersOf
    <2>2. last = Max(ContentLengths(wire))
      BY <1>4
    <2> HIDE DEF last
    <2>3. ContentLengths(wire) # {}
      BY <1>4, <1>5, <1>7
    <2>4. LengthText(wire, last) = <<ToString(length)>>
      BY <1>2, <2>2, <2>3, LengthIsNumber
    <2>5. RequestValues[last] = LengthText(wire, last)
      BY <2>1 DEF RequestValues, LengthText
    <2>6. Header(request, <<"Content-Length">>) = <<ToString(length)>>
      BY <1>3, <1>6, <1>7, <2>1, <2>4, <2>5 DEF Header
    <2>7. Len(request.body) >= length
      <3>1. HeadEnd(wire) + 1 \in 0 .. Len(wire) /\ Len(wire) \in Nat
        BY <1>2, HeadEnds DEF AnyText
      <3>2. Len(request.body) = Len(wire) - (HeadEnd(wire) + 1)
        BY <1>2, <3>1, CutAfter
      <3>3. length \in Nat
        BY <1>2, LengthIsNumber
      <3>4. QED
        BY <1>2, <3>1, <3>2, <3>3
    <2>8. QED
      BY <1>6, <1>7, <2>6, <2>7
  <1>8. CASE cl \notin DOMAIN request.headers
    <2>1. ContentLengths(wire) = {}
      BY <1>4, <1>5, <1>8
    <2>2. length = 0
      BY <1>2, <2>1 DEF DeclaredLength
    <2>3. QED
      BY <1>6, <1>8, <2>2
  <1>9. QED
    BY <1>7, <1>8

-----------------------------------------------------------------------------
ExchangeInv == RequestInv /\ ResponseOK(response) /\ ReplyInv

LEMMA ExchangeInvariant == Spec => []ExchangeInv
  <1>1. Init => ExchangeInv
    <2>1. SUFFICES ASSUME Init PROVE ExchangeInv
      OBVIOUS
    <2>2. /\ wire \in AnyText /\ reply \in AnyText /\ out = EmptyOut /\ request = EmptyRequest
          /\ pc \in {"build", "scan", "status"} /\ (pc = "build" => call \in Calls)
      BY <2>1, MessagesAssumption, TextsAny, NothingFound DEF Init
    <2>3. RequestInv
      BY <2>2 DEF RequestInv, EmptyRequest
    <2>4. ResponseOK(response)
      BY <2>1, FreshResponse DEF Init
    <2>5. ReplyInv
      BY <2>2 DEF ReplyInv, ReplyUnderstood, EmptyOut
    <2>6. QED
      BY <2>3, <2>4, <2>5 DEF ExchangeInv
  <1>2. ExchangeInv /\ [Next]_vars => ExchangeInv'
    BY RequestWalked, ResponseFilled, ReplyWalked DEF ExchangeInv
  <1>3. QED
    BY <1>1, <1>2, PTL DEF Spec

(* HttpParser throws exactly on a malformed request; of any other the      *)
(* handler sees path, query, headers and body as the text has them.        *)
THEOREM RequestsParsed == Spec => []RequestParsed
  <1>1. ExchangeInv => RequestParsed
    BY ParsedWhole DEF ExchangeInv
  <1>2. QED
    BY <1>1, ExchangeInvariant, PTL

(* handleConnection() reads the body by the length that the handler sees.  *)
THEOREM FramingsAgree == Spec => []FramingAgrees
  <1>1. ExchangeInv => FramingAgrees
    BY FramedAlike DEF ExchangeInv
  <1>2. QED
    BY <1>1, ExchangeInvariant, PTL

(* HttpClient takes a reply, the server's or another's, whole or not at    *)
(* all: its code, the last value of each name and the body it promises.    *)
THEOREM RepliesUnderstood == Spec => []ReplyUnderstood
  <1>1. ExchangeInv => ReplyUnderstood
    BY DEF ExchangeInv, ReplyInv
  <1>2. QED
    BY <1>1, ExchangeInvariant, PTL

-----------------------------------------------------------------------------
LEMMA Parts ==
  ASSUME NEW a \in AnyText, NEW b \in AnyText
  PROVE  /\ a \o b \in AnyText /\ Len(a \o b) = Len(a) + Len(b)
         /\ \A k \in 1 .. Len(a): (a \o b)[k] = a[k]
         /\ \A k \in 1 .. Len(b): (a \o b)[Len(a) + k] = b[k]
  <1> DEFINE n == Len(a)
             m == Len(b)
             c == a \o b
  <1>1. n \in Nat /\ m \in Nat
    BY DEF AnyText
  <1>2. /\ c \in AnyText /\ Len(c) = n + m
        /\ \A k \in 1 .. n + m: c[k] = IF k <= n THEN a[k] ELSE b[k - n]
    BY ConcatProperties DEF AnyText
  <1> HIDE DEF n, m, c
  <1>3. \A k \in 1 .. n: k \in 1 .. n + m /\ k <= n
    BY <1>1
  <1>4. \A k \in 1 .. m: n + k \in 1 .. n + m /\ ~(n + k <= n) /\ (n + k) - n = k
    BY <1>1
  <1>5. /\ \A k \in 1 .. n: c[k] = a[k]
        /\ \A k \in 1 .. m: c[n + k] = b[k]
    BY <1>2, <1>3, <1>4
  <1>6. QED
    BY <1>2, <1>5 DEF n, m, c

(* A text that is written line by line: it ends a line, and no line is     *)
(* empty.                                                                  *)
Block(text) ==
    /\ text \in AnyText /\ Len(text) > 0 /\ text[1] # CRLF /\ text[Len(text)] = CRLF
    /\ \A i \in 1 .. Len(text) - 1: ~(text[i] = CRLF /\ text[i + 1] = CRLF)
Starts(text) == {i \in 2 .. Len(text): text[i - 1] = CRLF}

LEMMA LineIs ==
  ASSUME NEW text \in AnyText, NEW i \in 1 .. Len(text), NEW e \in i .. Len(text),
         text[e] = CRLF, \A k \in i .. e - 1: text[k] # CRLF
  PROVE  LineAt(text, i) = SubSeq(text, i, e - 1)
  <1>1. /\ LineEnd(text, i) \in i .. e /\ text[LineEnd(text, i)] = CRLF
        /\ LineAt(text, i) = SubSeq(text, i, LineEnd(text, i) - 1)
    BY LineAfter
  <1>2. Len(text) \in Nat
    BY DEF AnyText
  <1>3. LineEnd(text, i) = e
    BY <1>1, <1>2
  <1>4. QED
    BY <1>1, <1>3

(* What follows a block does not change its lines. *)
LEMMA LineStays ==
  ASSUME NEW u, Block(u), NEW tail \in AnyText, NEW i \in 1 .. Len(u)
  PROVE  LineAt(u \o tail, i) = LineAt(u, i)
  <1> DEFINE v == u \o tail
             e == LineEnd(u, i)
  <1>1. u \in AnyText /\ Len(u) \in Nat /\ u[Len(u)] = CRLF /\ Len(u) \in i .. Len(u) /\ Len(tail) \in Nat
    BY DEF Block, AnyText
  <1>2. /\ v \in AnyText /\ Len(v) = Len(u) + Len(tail)
        /\ \A k \in 1 .. Len(u): v[k] = u[k]
    BY <1>1, ConcatProperties DEF AnyText
  <1> HIDE DEF v
  <1>3. /\ e \in i .. Len(u) /\ u[e] = CRLF /\ \A k \in i .. e - 1: u[k] # CRLF
        /\ LineAt(u, i) = SubSeq(u, i, e - 1)
    BY <1>1, LineAfter
  <1> HIDE DEF e
  <1>4. /\ i \in 1 .. Len(v) /\ e \in i .. Len(v) /\ v[e] = CRLF
        /\ \A k \in i .. e - 1: v[k] # CRLF
    BY <1>1, <1>2, <1>3
  <1>5. LineAt(v, i) = SubSeq(v, i, e - 1)
    BY <1>2, <1>4, LineIs
  <1>6. /\ i \in 1 .. Len(u) + 1 /\ e - 1 \in i - 1 .. Len(u)
        /\ i \in 1 .. Len(v) + 1 /\ e - 1 \in i - 1 .. Len(v)
    BY <1>1, <1>2, <1>3
  <1>7. /\ SubSeq(u, i, e - 1) \in AnyText /\ Len(SubSeq(u, i, e - 1)) = (e - 1) - i + 1
        /\ \A k \in 1 .. (e - 1) - i + 1: SubSeq(u, i, e - 1)[k] = u[i + k - 1]
    BY <1>1, <1>6, Cut
  <1>8. /\ SubSeq(v, i, e - 1) \in AnyText /\ Len(SubSeq(v, i, e - 1)) = (e - 1) - i + 1
        /\ \A k \in 1 .. (e - 1) - i + 1: SubSeq(v, i, e - 1)[k] = v[i + k - 1]
    BY <1>2, <1>6, Cut
  <1>9. \A k \in 1 .. (e - 1) - i + 1: v[i + k - 1] = u[i + k - 1]
    <2>1. e \in 1 .. Len(u) /\ \A k \in 1 .. (e - 1) - i + 1: i + k - 1 \in 1 .. Len(u)
      BY <1>1, <1>3
    <2>2. QED
      BY <1>2, <2>1
  <1>10. SubSeq(u, i, e - 1) = SubSeq(v, i, e - 1)
    BY <1>7, <1>8, <1>9, SameText
  <1>11. QED
    BY <1>3, <1>5, <1>10 DEF v

LEMMA LineAdded ==
  ASSUME NEW u, Block(u), NEW line \in AnyText, Len(line) > 0, \A k \in 1 .. Len(line): line[k] # CRLF
  PROVE  LET v == u \o (line \o <<CRLF>>)
         IN /\ Block(v) /\ Starts(v) = Starts(u) \cup {Len(u) + 1}
            /\ \A i \in Starts(u) \cup {1}: LineAt(v, i) = LineAt(u, i)
            /\ LineAt(v, Len(u) + 1) = line
  <1> DEFINE ended == line \o <<CRLF>>
             v == u \o ended
             n == Len(u)
             m == Len(line)
  <1>1. /\ u \in AnyText /\ n \in Nat /\ n > 0 /\ u[1] # CRLF /\ u[n] = CRLF /\ m \in Nat /\ m > 0
        /\ \A i \in 1 .. n - 1: ~(u[i] = CRLF /\ u[i + 1] = CRLF)
    BY DEF Block, AnyText
  <1>2. <<CRLF>> \in AnyText /\ Len(<<CRLF>>) = 1 /\ <<CRLF>>[1] = CRLF
    BY Separators DEF AnyText
  <1>3. /\ ended \in AnyText /\ Len(ended) = m + 1 /\ ended[m + 1] = CRLF
        /\ \A k \in 1 .. m: ended[k] = line[k]
    <2>1. /\ ended \in AnyText /\ Len(ended) = m + 1
          /\ \A k \in 1 .. m: ended[k] = line[k]
          /\ \A k \in 1 .. 1: ended[m + k] = <<CRLF>>[k]
      BY <1>2, Parts
    <2>2. QED
      BY <1>2, <2>1
  <1> HIDE DEF ended
  <1>4. /\ v \in AnyText /\ Len(v) = n + m + 1
        /\ \A k \in 1 .. n: v[k] = u[k]
        /\ \A k \in 1 .. m + 1: v[n + k] = ended[k]
    <2>1. /\ v \in AnyText /\ Len(v) = n + Len(ended)
          /\ \A k \in 1 .. n: v[k] = u[k]
          /\ \A k \in 1 .. Len(ended): v[n + k] = ended[k]
      BY <1>1, <1>3, Parts
    <2> HIDE DEF v, n, m
    <2>2. Len(ended) = m + 1 /\ n + (m + 1) = n + m + 1
      BY <1>1, <1>3
    <2>3. QED
      BY <2>1, <2>2
  <1> HIDE DEF v, n, m
  <1>5. /\ v[n] = CRLF /\ v[n + m + 1] = CRLF /\ v[1] = u[1]
        /\ \A k \in n + 1 .. n + m: v[k] # CRLF
    <2>1. ASSUME NEW k \in n + 1 .. n + m PROVE v[k] # CRLF
      <3>1. k - n \in 1 .. m /\ n + (k - n) = k
        BY <1>1
      <3>2. v[n + (k - n)] = ended[k - n] /\ ended[k - n] = line[k - n] /\ line[k - n] # CRLF
        BY <1>1, <1>3, <1>4, <3>1 DEF m
      <3>3. QED
        BY <3>1, <3>2
    <2>2. n \in 1 .. n /\ 1 \in 1 .. n /\ m + 1 \in 1 .. m + 1 /\ n + (m + 1) = n + m + 1
      BY <1>1
    <2>3. v[n] = u[n] /\ v[1] = u[1] /\ v[n + (m + 1)] = ended[m + 1]
      BY <1>4, <2>2
    <2>4. QED
      BY <1>1, <1>3, <2>1, <2>2, <2>3
  <1>6. Block(v)
    <2>1. ASSUME NEW i \in 1 .. Len(v) - 1, v[i] = CRLF, v[i + 1] = CRLF PROVE FALSE
      <3>1. CASE i < n
        <4>1. i \in 1 .. n - 1 /\ i \in 1 .. n /\ i + 1 \in 1 .. n
          BY <1>1, <1>4, <3>1
        <4>2. v[i] = u[i] /\ v[i + 1] = u[i + 1]
          BY <1>4, <4>1
        <4>3. QED
          BY <1>1, <2>1, <4>1, <4>2
      <3>2. CASE i = n
        BY <1>1, <1>4, <1>5, <2>1, <3>2
      <3>3. CASE i > n
        <4>1. i \in n + 1 .. n + m
          BY <1>1, <1>4, <3>3
        <4>2. QED
          BY <1>5, <2>1, <4>1
      <3>4. QED
        BY <1>1, <3>1, <3>2, <3>3
    <2>2. Len(v) > 0 /\ v[1] # CRLF /\ v[Len(v)] = CRLF
      BY <1>1, <1>4, <1>5
    <2>3. QED
      BY <1>4, <2>1, <2>2 DEF Block
  <1>7. Starts(v) = Starts(u) \cup {n + 1}
    <2>1. ASSUME NEW i PROVE i \in Starts(v) <=> i \in Starts(u) \/ i = n + 1
      <3>1. CASE i \in Int /\ i <= n
        BY <1>1, <1>4, <3>1 DEF Starts, n
      <3>2. CASE i \in Int /\ i = n + 1
        BY <1>1, <1>4, <1>5, <3>2 DEF Starts, n
      <3>3. CASE i \in Int /\ i > n + 1
        <4>1. i \in 2 .. Len(v) => i - 1 \in n + 1 .. n + m
          BY <1>1, <1>4, <3>3
        <4>2. i \notin Starts(u)
          BY <1>1, <3>3 DEF Starts, n
        <4>3. QED
          BY <1>1, <1>5, <3>3, <4>1, <4>2 DEF Starts
      <3>4. CASE i \notin Int
        BY <1>1, <3>4 DEF Starts
      <3>5. QED
        BY <1>1, <3>1, <3>2, <3>3, <3>4
    <2>2. QED
      BY <2>1
  <1>8. \A i \in Starts(u) \cup {1}: LineAt(v, i) = LineAt(u, i)
    <2>1. \A i \in Starts(u) \cup {1}: i \in 1 .. Len(u)
      BY <1>1 DEF Starts, n
    <2>2. QED
      BY <1>3, <2>1, LineStays DEF v
  <1>9. LineAt(v, n + 1) = line
    <2>1. /\ n + 1 \in 1 .. Len(v) /\ n + m + 1 \in n + 1 .. Len(v)
          /\ \A k \in n + 1 .. (n + m + 1) - 1: v[k] # CRLF
      BY <1>1, <1>4, <1>5
    <2>2. LineAt(v, n + 1) = SubSeq(v, n + 1, (n + m + 1) - 1)
      BY <1>4, <1>5, <2>1, LineIs
    <2>3. n + 1 \in 1 .. Len(v) + 1 /\ (n + m + 1) - 1 \in (n + 1) - 1 .. Len(v)
          /\ ((n + m + 1) - 1) - (n + 1) + 1 = m
      BY <1>1, <1>4
    <2> DEFINE cut == SubSeq(v, n + 1, (n + m + 1) - 1)
    <2>8. /\ cut \in AnyText /\ Len(cut) = ((n + m + 1) - 1) - (n + 1) + 1
          /\ \A k \in 1 .. ((n + m + 1) - 1) - (n + 1) + 1: cut[k] = v[(n + 1) + k - 1]
      BY <1>4, <2>3, Cut
    <2> HIDE DEF cut
    <2>4. /\ LineAt(v, n + 1) \in AnyText /\ Len(LineAt(v, n + 1)) = m
          /\ \A k \in 1 .. m: LineAt(v, n + 1)[k] = v[(n + 1) + k - 1]
      BY <2>2, <2>3, <2>8 DEF cut
    <2>5. \A k \in 1 .. m: (n + 1) + k - 1 = n + k /\ k \in 1 .. m + 1
      BY <1>1
    <2>6. \A k \in 1 .. m: LineAt(v, n + 1)[k] = line[k]
      BY <1>3, <1>4, <2>4, <2>5
    <2>7. QED
      BY <2>4, <2>6, SameText DEF m
  <1>10. QED
    BY <1>6, <1>7, <1>8, <1>9 DEF v, ended, n

(* A blank line and a body after a block make a message of it.             *)
LEMMA BlockEnds ==
  ASSUME NEW u, Block(u), NEW body \in AnyText
  PROVE  LET text == u \o (<<CRLF>> \o body)
         IN /\ HeadEnd(text) = Len(u) /\ FieldStarts(text) = Starts(u)
            /\ \A i \in Starts(u) \cup {1}: LineAt(text, i) = LineAt(u, i)
            /\ After(text, HeadEnd(text) + 1) = body
  <1> DEFINE ended == <<CRLF>> \o body
             text == u \o ended
             n == Len(u)
             m == Len(body)
  <1>1. /\ u \in AnyText /\ n \in Nat /\ n > 0 /\ u[1] # CRLF /\ u[n] = CRLF /\ m \in Nat
        /\ \A i \in 1 .. n - 1: ~(u[i] = CRLF /\ u[i + 1] = CRLF)
    BY DEF Block, AnyText
  <1>2. <<CRLF>> \in AnyText /\ Len(<<CRLF>>) = 1 /\ <<CRLF>>[1] = CRLF
    BY Separators DEF AnyText
  <1>3. /\ ended \in AnyText /\ Len(ended) = m + 1 /\ ended[1] = CRLF
        /\ \A k \in 1 .. m: ended[k + 1] = body[k]
    <2>1. /\ ended \in AnyText /\ Len(ended) = 1 + m
          /\ \A k \in 1 .. 1: ended[k] = <<CRLF>>[k]
          /\ \A k \in 1 .. m: ended[1 + k] = body[k]
      BY <1>2, Parts
    <2>2. 1 + m = m + 1 /\ \A k \in 1 .. m: 1 + k = k + 1
      BY <1>1
    <2> HIDE DEF ended, m
    <2>3. QED
      BY <1>2, <2>1, <2>2
  <1> HIDE DEF ended
  <1>4. /\ text \in AnyText /\ Len(text) = n + m + 1
        /\ \A k \in 1 .. n: text[k] = u[k]
        /\ \A k \in 1 .. m + 1: text[n + k] = ended[k]
    <2>1. /\ text \in AnyText /\ Len(text) = n + Len(ended)
          /\ \A k \in 1 .. n: text[k] = u[k]
          /\ \A k \in 1 .. Len(ended): text[n + k] = ended[k]
      BY <1>1, <1>3, Parts
    <2> HIDE DEF text, n, m
    <2>2. Len(ended) = m + 1 /\ n + (m + 1) = n + m + 1
      BY <1>1, <1>3
    <2>3. QED
      BY <2>1, <2>2
  <1> HIDE DEF text, n, m
  <1>5. HeadEnd(text) = n
    <2> DEFINE S == {i \in 1 .. Len(text) - 1: text[i] = CRLF /\ text[i + 1] = CRLF}
    <2>1. n \in S
      <3>1. n \in 1 .. n /\ 1 \in 1 .. m + 1 /\ n \in 1 .. Len(text) - 1
        BY <1>1, <1>4
      <3>2. text[n] = CRLF /\ text[n + 1] = CRLF
        BY <1>1, <1>3, <1>4, <3>1
      <3>3. QED
        BY <3>1, <3>2
    <2>2. S \subseteq Nat
      BY <1>1, <1>4
    <2>3. \A i \in S: ~(i < n)
      BY <1>1, <1>4
    <2>4. HeadEnd(text) = IF S = {} THEN 0 ELSE Min(S)
      BY DEF HeadEnd
    <2> HIDE DEF S
    <2>5. Min(S) \in S /\ Min(S) <= n
      BY <2>1, <2>2, Least
    <2>6. Min(S) \in Nat /\ ~(Min(S) < n)
      BY <2>2, <2>3, <2>5
    <2>7. Min(S) = n
      BY <1>1, <2>5, <2>6
    <2>8. QED
      BY <2>1, <2>4, <2>7
  <1>6. FieldStarts(text) = Starts(u)
    <2>1. ASSUME NEW i PROVE i \in FieldStarts(text) <=> i \in Starts(u)
      <3>1. ASSUME i \in FieldStarts(text) PROVE i \in Starts(u)
        <4>1. PICK j \in 1 .. n - 1: text[j] = CRLF /\ i = j + 1
          BY <1>5, <3>1 DEF FieldStarts, LineStarts
        <4>2. QED
          BY <1>1, <1>4, <4>1 DEF Starts, n
      <3>2. ASSUME i \in Starts(u) PROVE i \in FieldStarts(text)
        <4>1. i - 1 \in 1 .. n - 1 /\ u[i - 1] = CRLF /\ i = (i - 1) + 1 /\ i # 1
          BY <1>1, <3>2 DEF Starts, n
        <4>2. text[i - 1] = CRLF
          BY <1>1, <1>4, <4>1
        <4>3. QED
          BY <1>5, <4>1, <4>2 DEF FieldStarts, LineStarts
      <3>3. QED
        BY <3>1, <3>2
    <2>2. QED
      BY <2>1
  <1>7. \A i \in Starts(u) \cup {1}: LineAt(text, i) = LineAt(u, i)
    <2>1. \A i \in Starts(u) \cup {1}: i \in 1 .. Len(u)
      BY <1>1 DEF Starts, n
    <2>2. QED
      BY <1>3, <2>1, LineStays DEF text
  <1>8. After(text, n + 1) = body
    <2>1. n + 1 \in 0 .. Len(text) /\ Len(text) - (n + 1) = m
      BY <1>1, <1>4
    <2>2. /\ After(text, n + 1) \in AnyText /\ Len(After(text, n + 1)) = m
          /\ \A k \in 1 .. m: After(text, n + 1)[k] = text[(n + 1) + k]
      BY <1>4, <2>1, CutAfter
    <2>3. \A k \in 1 .. m: (n + 1) + k = n + (k + 1) /\ k + 1 \in 1 .. m + 1
      BY <1>1
    <2> HIDE DEF After
    <2>4. \A k \in 1 .. m: After(text, n + 1)[k] = body[k]
      BY <1>3, <1>4, <2>2, <2>3
    <2>5. QED
      BY <2>2, <2>4, SameText DEF m
  <1>9. QED
    BY <1>5, <1>6, <1>7, <1>8 DEF text, ended, n

-----------------------------------------------------------------------------
(* A line that names a field. *)
RowOf(name, value) == name \o (<<COLON, SP>> \o value)

LEMMA RowReads ==
  ASSUME NEW name \in AnyText, NEW value \in AnyText,
         \A k \in 1 .. Len(name): name[k] # COLON /\ name[k] # CRLF,
         \A k \in 1 .. Len(value): value[k] # CRLF
  PROVE  LET line == RowOf(name, value)
         IN /\ line \in AnyText /\ Len(line) > 0 /\ \A k \in 1 .. Len(line): line[k] # CRLF
            /\ HasColon(line) /\ NameOf(line) = name /\ ValueOf(line) = <<SP>> \o value
  <1> DEFINE tail == <<COLON, SP>> \o value
             line == name \o tail
             n == Len(name)
             m == Len(value)
  <1>1. n \in Nat /\ m \in Nat
    BY DEF AnyText
  <1>2. <<COLON, SP>> \in AnyText /\ Len(<<COLON, SP>>) = 2 /\ <<COLON, SP>>[1] = COLON /\ <<COLON, SP>>[2] = SP
    BY Separators DEF AnyText
  <1>3. /\ tail \in AnyText /\ Len(tail) = 2 + m /\ tail[1] = COLON /\ tail[2] = SP
        /\ \A k \in 1 .. m: tail[k + 2] = value[k]
    <2>1. /\ tail \in AnyText /\ Len(tail) = 2 + m
          /\ \A k \in 1 .. 2: tail[k] = <<COLON, SP>>[k]
          /\ \A k \in 1 .. m: tail[2 + k] = value[k]
      BY <1>2, Parts
    <2>2. \A k \in 1 .. m: 2 + k = k + 2
      BY <1>1
    <2> HIDE DEF tail, m
    <2>3. QED
      BY <1>2, <2>1, <2>2
  <1> HIDE DEF tail
  <1>4. /\ line \in AnyText /\ Len(line) = n + m + 2
        /\ \A k \in 1 .. n: line[k] = name[k]
        /\ \A k \in 1 .. m + 2: line[n + k] = tail[k]
    <2>1. /\ line \in AnyText /\ Len(line) = n + Len(tail)
          /\ \A k \in 1 .. n: line[k] = name[k]
          /\ \A k \in 1 .. Len(tail): line[n + k] = tail[k]
      BY <1>3, Parts
    <2> HIDE DEF line, n, m
    <2>2. n + (2 + m) = n + m + 2 /\ Len(tail) = m + 2 /\ n + Len(tail) = n + m + 2
      BY <1>1, <1>3
    <2>3. QED
      BY <2>1, <2>2
  <1> HIDE DEF line
  <1>5. line[n + 1] = COLON /\ line[n + 2] = SP /\ n + 1 \in 1 .. Len(line)
    <2>1. 1 \in 1 .. m + 2 /\ 2 \in 1 .. m + 2
      BY <1>1
    <2>2. QED
      BY <1>1, <1>3, <1>4, <2>1
  <1>6. ASSUME NEW k \in 1 .. Len(line) PROVE line[k] # CRLF
    <2>1. CASE k <= n
      BY <1>1, <1>4, <2>1
    <2>2. CASE k = n + 1 \/ k = n + 2
      BY <1>5, <2>2 DEF COLON, SP, CRLF
    <2>3. CASE k > n + 2
      <3>1. k - n \in 1 .. m + 2 /\ n + (k - n) = k /\ k - n - 2 \in 1 .. m /\ (k - n - 2) + 2 = k - n
        BY <1>1, <1>4, <2>3
      <3>2. line[k] = tail[k - n] /\ tail[k - n] = value[k - n - 2]
        BY <1>3, <1>4, <3>1
      <3>3. QED
        BY <3>1, <3>2
    <2>4. QED
      BY <1>1, <1>4, <2>1, <2>2, <2>3
  <1>7. Find(line, COLON) = n + 1
    <2>1. \A i \in 1 .. (n + 1) - 1: line[i] # COLON
      BY <1>1, <1>4
    <2>2. QED
      BY <1>4, <1>5, <2>1, FoundAt
  <1>8. NameOf(line) = name
    <2>1. n + 1 \in 1 .. Len(line) + 1 /\ (n + 1) - 1 = n
      BY <1>1, <1>4
    <2>2. /\ Before(line, n + 1) \in AnyText /\ Len(Before(line, n + 1)) = n
          /\ \A k \in 1 .. n: Before(line, n + 1)[k] = line[k]
      BY <1>4, <2>1, CutBefore
    <2> HIDE DEF Before
    <2>3. Before(line, n + 1) = name
      BY <1>4, <2>2, SameText DEF n
    <2>4. QED
      BY <1>7, <2>3 DEF NameOf
  <1>9. ValueOf(line) = <<SP>> \o value
    <2>1. n + 1 \in 0 .. Len(line) /\ Len(line) - (n + 1) = m + 1
      BY <1>1, <1>4
    <2>2. /\ After(line, n + 1) \in AnyText /\ Len(After(line, n + 1)) = m + 1
          /\ \A k \in 1 .. m + 1: After(line, n + 1)[k] = line[(n + 1) + k]
      <3> HIDE DEF n, m
      <3> DEFINE cut == After(line, n + 1)
      <3>1. /\ cut \in AnyText /\ Len(cut) = Len(line) - (n + 1)
            /\ \A k \in 1 .. Len(line) - (n + 1): cut[k] = line[(n + 1) + k]
        BY <1>4, <2>1, CutAfter
      <3> HIDE DEF cut
      <3>2. QED
        BY <2>1, <3>1 DEF cut
    <2>3. <<SP>> \in AnyText /\ Len(<<SP>>) = 1 /\ <<SP>>[1] = SP
      BY Separators DEF AnyText
    <2> DEFINE indented == <<SP>> \o value
    <2>4. /\ indented \in AnyText /\ Len(indented) = 1 + m
          /\ \A k \in 1 .. 1: indented[k] = <<SP>>[k]
          /\ \A k \in 1 .. m: indented[1 + k] = value[k]
      BY <2>3, Parts
    <2> HIDE DEF indented, After, n, m
    <2>5. ASSUME NEW k \in 1 .. m + 1 PROVE After(line, n + 1)[k] = indented[k]
      <3>1. CASE k = 1
        <4>1. After(line, n + 1)[k] = line[n + 2]
          BY <1>1, <2>2, <3>1
        <4>2. indented[k] = SP
          BY <1>1, <2>3, <2>4, <3>1
        <4>3. QED
          BY <1>5, <4>1, <4>2
      <3>2. CASE k # 1
        <4>1. k - 1 \in 1 .. m /\ (k - 1) + 2 = k + 1 /\ k + 1 \in 1 .. m + 2 /\ (n + 1) + k = n + (k + 1)
              /\ k = 1 + (k - 1)
          BY <1>1, <3>2
        <4>2. After(line, n + 1)[k] = tail[k + 1] /\ tail[(k - 1) + 2] = value[k - 1]
          <5>1. After(line, n + 1)[k] = line[n + (k + 1)]
            BY <2>2, <4>1
          <5>2. line[n + (k + 1)] = tail[k + 1]
            BY <1>4, <4>1
          <5>3. QED
            BY <1>3, <4>1, <5>1, <5>2
        <4>3. indented[k] = value[k - 1]
          BY <2>4, <4>1
        <4>4. QED
          BY <4>1, <4>2, <4>3
      <3>3. QED
        BY <3>1, <3>2
    <2>6. 1 + m = m + 1
      BY <1>1
    <2>7. After(line, n + 1) = indented
      BY <2>2, <2>4, <2>5, <2>6, SameText
    <2>8. QED
      BY <1>7, <2>7 DEF ValueOf, indented
  <1>10. line = RowOf(name, value) /\ Len(line) > 0 /\ n + 1 # 0
    <2>1. n + m + 2 > 0 /\ n + 1 # 0
      BY <1>1
    <2>2. QED
      BY <1>4, <2>1 DEF line, tail, RowOf
  <1>11. QED
    BY <1>4, <1>6, <1>7, <1>8, <1>9, <1>10 DEF HasColon

(* A block whose lines but the first are one row for each name.            *)
ReadsAs(text, first, names, values) ==
    /\ Block(text) /\ LineAt(text, 1) = first
    /\ {NameOf(LineAt(text, i)): i \in Starts(text)} = names
    /\ \A i \in Starts(text): LineAt(text, i) = RowOf(NameOf(LineAt(text, i)), values[NameOf(LineAt(text, i))])
    /\ \A i, j \in Starts(text): NameOf(LineAt(text, i)) = NameOf(LineAt(text, j)) => i = j

LEMMA RowAdded ==
  ASSUME NEW text, NEW first, NEW names, NEW values, ReadsAs(text, first, names, values),
         NEW name \in AnyText, name \notin names, values[name] \in AnyText,
         \A k \in 1 .. Len(name): name[k] # COLON /\ name[k] # CRLF,
         \A k \in 1 .. Len(values[name]): values[name][k] # CRLF
  PROVE  ReadsAs(text \o (RowOf(name, values[name]) \o <<CRLF>>), first, names \cup {name}, values)
  <1> DEFINE line == RowOf(name, values[name])
             new == text \o (line \o <<CRLF>>)
             at == Len(text) + 1
  <1>1. /\ line \in AnyText /\ Len(line) > 0 /\ \A k \in 1 .. Len(line): line[k] # CRLF
        /\ NameOf(line) = name
    BY RowReads
  <1>2. line = RowOf(name, values[name])
    OBVIOUS
  <1> HIDE DEF line
  <1>3. /\ Block(text) /\ LineAt(text, 1) = first
        /\ {NameOf(LineAt(text, i)): i \in Starts(text)} = names
        /\ \A i \in Starts(text): LineAt(text, i) = RowOf(NameOf(LineAt(text, i)), values[NameOf(LineAt(text, i))])
        /\ \A i, j \in Starts(text): NameOf(LineAt(text, i)) = NameOf(LineAt(text, j)) => i = j
    BY DEF ReadsAs
  <1>4. /\ Block(new) /\ Starts(new) = Starts(text) \cup {at}
        /\ \A i \in Starts(text) \cup {1}: LineAt(new, i) = LineAt(text, i)
        /\ LineAt(new, at) = line
    BY <1>1, <1>3, LineAdded
  <1> HIDE DEF new, at
  <1>5. \A i \in Starts(text): NameOf(LineAt(new, i)) \in names /\ NameOf(LineAt(new, i)) # name
    BY <1>3, <1>4
  <1>6. {NameOf(LineAt(new, i)): i \in Starts(new)} = names \cup {name}
    <2>1. \A i \in Starts(new): NameOf(LineAt(new, i)) \in names \cup {name}
      BY <1>1, <1>4, <1>5
    <2>2. \A n \in names: \E i \in Starts(new): n = NameOf(LineAt(new, i))
      <3>1. SUFFICES ASSUME NEW n \in names PROVE \E i \in Starts(new): n = NameOf(LineAt(new, i))
        OBVIOUS
      <3>2. PICK i \in Starts(text): n = NameOf(LineAt(text, i))
        BY <1>3
      <3>3. QED
        BY <1>4, <3>2
    <2>3. at \in Starts(new) /\ NameOf(LineAt(new, at)) = name
      BY <1>1, <1>4
    <2>4. QED
      BY <2>1, <2>2, <2>3
  <1>7. \A i \in Starts(new): LineAt(new, i) = RowOf(NameOf(LineAt(new, i)), values[NameOf(LineAt(new, i))])
    <2>1. SUFFICES ASSUME NEW i \in Starts(new)
                   PROVE  LineAt(new, i) = RowOf(NameOf(LineAt(new, i)), values[NameOf(LineAt(new, i))])
      OBVIOUS
    <2>2. CASE i = at
      BY <1>1, <1>2, <1>4, <2>2
    <2>3. CASE i # at
      BY <1>3, <1>4, <2>3
    <2>4. QED
      BY <2>2, <2>3
  <1>8. \A i, j \in Starts(new): NameOf(LineAt(new, i)) = NameOf(LineAt(new, j)) => i = j
    BY <1>1, <1>3, <1>4, <1>5
  <1>9. LineAt(new, 1) = first
    BY <1>3, <1>4
  <1>10. QED
    BY <1>4, <1>6, <1>7, <1>8, <1>9 DEF ReadsAs, new, line

-----------------------------------------------------------------------------
(* trim() of what is written.                                              *)
LEMMA StrippedTo ==
  ASSUME NEW text \in AnyText, NEW blanks, NEW k \in 0 .. Len(text),
         \A i \in 1 .. k: text[i] \in blanks, k < Len(text) => text[k + 1] \notin blanks
  PROVE  StripLeft(text, blanks) = After(text, k)
  <1> DEFINE S == {i \in 1 .. Len(text): text[i] \notin blanks}
             f == SelectInSeq(text, LAMBDA x: x \notin blanks)
  <1>1. Len(text) \in Nat
    BY DEF AnyText
  <1>2. f = IF S # {} THEN Min(S) ELSE 0
    BY DEF SelectInSeq
  <1>3. StripLeft(text, blanks) = IF f = 0 THEN <<>> ELSE SubSeq(text, f, Len(text))
    BY DEF StripLeft
  <1> HIDE DEF f
  <1>4. CASE k = Len(text)
    <2>1. S = {}
      BY <1>1, <1>4
    <2>2. After(text, k) = <<>>
      BY <1>1, <1>4, CutAfter, EmptySeq DEF AnyText
    <2>3. QED
      BY <1>2, <1>3, <2>1, <2>2
  <1>5. CASE k # Len(text)
    <2>1. k + 1 \in S /\ S \subseteq Nat
      BY <1>1, <1>5
    <2>2. \A i \in S: ~(i < k + 1)
      BY <1>1
    <2> HIDE DEF S
    <2>3. Min(S) \in S /\ Min(S) <= k + 1
      BY <2>1, Least
    <2>7. Min(S) \in Nat /\ ~(Min(S) < k + 1)
      BY <2>1, <2>2, <2>3
    <2>4. Min(S) = k + 1
      BY <1>1, <2>3, <2>7
    <2>5. f = k + 1 /\ f # 0
      BY <1>1, <1>2, <2>1, <2>4
    <2>6. QED
      BY <1>3, <2>5 DEF After
  <1>6. QED
    BY <1>4, <1>5

(* The value of a row begins with a space that its reader strips.          *)
LEMMA Unindented ==
  ASSUME NEW value \in AnyText
  PROVE  Trim(<<SP>> \o value) = Trim(value)
  <1> DEFINE blanks == {SP, TAB}
             indented == <<SP>> \o value
             S == {i \in 1 .. Len(value): value[i] \notin blanks}
             k == IF S = {} THEN Len(value) ELSE Min(S) - 1
  <1>1. Len(value) \in Nat
    BY DEF AnyText
  <1>2. /\ k \in 0 .. Len(value) /\ \A i \in 1 .. k: value[i] \in blanks
        /\ k < Len(value) => value[k + 1] \notin blanks
    <2>1. CASE S = {}
      BY <1>1, <2>1
    <2>2. CASE S # {}
      <3> DEFINE m == Min(S)
      <3>1. m \in S /\ \A i \in S: m <= i
        <4>1. S \subseteq Nat
          BY <1>1
        <4> HIDE DEF S
        <4>2. QED
          BY <2>2, <4>1, Least
      <3> HIDE DEF m
      <3>2. m \in 1 .. Len(value) /\ value[m] \notin blanks /\ \A i \in 1 .. m - 1: i \notin S
        BY <1>1, <3>1
      <3>3. \A i \in 1 .. m - 1: i \in 1 .. Len(value)
        BY <1>1, <3>2
      <3>4. \A i \in 1 .. m - 1: value[i] \in blanks
        BY <3>2, <3>3
      <3>5. k = m - 1
        BY <2>2 DEF m
      <3>6. k \in 0 .. Len(value) /\ k + 1 = m
        BY <1>1, <3>2, <3>5
      <3> HIDE DEF k
      <3>7. QED
        BY <3>2, <3>4, <3>5, <3>6
    <2>3. QED
      BY <2>1, <2>2
  <1> HIDE DEF k, S
  <1>3. <<SP>> \in AnyText /\ Len(<<SP>>) = 1 /\ <<SP>>[1] = SP
    BY Separators DEF AnyText
  <1>4. /\ indented \in AnyText /\ Len(indented) = 1 + Len(value)
        /\ \A i \in 1 .. 1: indented[i] = <<SP>>[i]
        /\ \A i \in 1 .. Len(value): indented[1 + i] = value[i]
    BY <1>3, Parts
  <1> HIDE DEF indented
  <1>5. indented[1] = SP
    BY <1>3, <1>4
  <1>6. k + 1 \in 0 .. Len(indented) /\ k \in Nat
    BY <1>1, <1>2, <1>4
  <1>7. ASSUME NEW i \in 1 .. k + 1 PROVE indented[i] \in blanks
    <2>1. CASE i = 1
      BY <1>5, <2>1
    <2>2. CASE i # 1
      <3>1. i - 1 \in 1 .. k /\ i - 1 \in 1 .. Len(value) /\ 1 + (i - 1) = i
        BY <1>1, <1>2, <2>2
      <3>2. indented[i] = value[i - 1]
        BY <1>4, <3>1
      <3>3. QED
        BY <1>2, <3>1, <3>2
    <2>3. QED
      BY <2>1, <2>2
  <1>8. k + 1 < Len(indented) => indented[(k + 1) + 1] \notin blanks
    <2>1. SUFFICES ASSUME k + 1 < Len(indented) PROVE indented[(k + 1) + 1] \notin blanks
      OBVIOUS
    <2>2. k < Len(value) /\ k + 1 \in 1 .. Len(value) /\ (k + 1) + 1 = 1 + (k + 1)
      BY <1>1, <1>2, <1>4, <2>1
    <2>3. QED
      BY <1>2, <1>4, <2>2
  <1> HIDE DEF blanks
  <1>9. StripLeft(value, blanks) = After(value, k)
    BY <1>2, StrippedTo
  <1>10. StripLeft(indented, blanks) = After(indented, k + 1)
    BY <1>4, <1>6, <1>7, <1>8, StrippedTo
  <1>11. After(indented, k + 1) = After(value, k)
    <2> DEFINE a == After(indented, k + 1)
               b == After(value, k)
    <2>1. /\ a \in AnyText /\ Len(a) = Len(indented) - (k + 1)
          /\ \A i \in 1 .. Len(indented) - (k + 1): a[i] = indented[(k + 1) + i]
      BY <1>4, <1>6, CutAfter
    <2>2. /\ b \in AnyText /\ Len(b) = Len(value) - k
          /\ \A i \in 1 .. Len(value) - k: b[i] = value[k + i]
      BY <1>2, CutAfter
    <2> HIDE DEF a, b
    <2>3. Len(indented) - (k + 1) = Len(value) - k
      BY <1>1, <1>2, <1>4
    <2>4. \A i \in 1 .. Len(value) - k: k + i \in 1 .. Len(value) /\ (k + 1) + i = 1 + (k + i)
      BY <1>1, <1>2
    <2>8. \A i \in 1 .. Len(value) - k: a[i] = indented[(k + 1) + i]
      BY <2>1, <2>3
    <2>9. \A i \in 1 .. Len(value) - k: indented[(k + 1) + i] = value[k + i]
      BY <1>4, <2>4
    <2>5. \A i \in 1 .. Len(value) - k: a[i] = b[i]
      BY <2>2, <2>8, <2>9
    <2>6. a = b
      BY <2>1, <2>2, <2>3, <2>5, SameText
    <2>7. QED
      BY <2>6 DEF a, b
  <1>12. QED
    BY <1>9, <1>10, <1>11 DEF Trim, blanks, indented

(* Nor does it strip anything of a text without blanks.                    *)
LEMMA Unblanked ==
  ASSUME NEW text \in AnyText, \A i \in 1 .. Len(text): text[i] \notin {SP, TAB}
  PROVE  Trim(text) = text
  <1> DEFINE blanks == {SP, TAB}
  <1>1. ASSUME NEW t \in AnyText, \A i \in 1 .. Len(t): t[i] \notin blanks PROVE StripLeft(t, blanks) = t
    <2>1. 0 \in 0 .. Len(t) /\ \A i \in 1 .. 0: FALSE
      BY DEF AnyText
    <2>2. 0 < Len(t) => t[0 + 1] \notin blanks
      BY <1>1 DEF AnyText
    <2>3. StripLeft(t, blanks) = After(t, 0)
      <3> HIDE DEF blanks
      <3>1. QED
        BY <2>1, <2>2, StrippedTo
    <2>4. /\ After(t, 0) \in AnyText /\ Len(After(t, 0)) = Len(t) - 0
          /\ \A i \in 1 .. Len(t) - 0: After(t, 0)[i] = t[0 + i]
      BY <2>1, CutAfter
    <2>5. Len(t) - 0 = Len(t) /\ \A i \in 1 .. Len(t): 0 + i = i
      BY DEF AnyText
    <2> HIDE DEF After
    <2>6. After(t, 0) = t
      BY <2>4, <2>5, SameText
    <2>7. QED
      BY <2>3, <2>6
  <1>2. ASSUME NEW t \in AnyText
        PROVE  /\ Reverse(t) \in AnyText /\ Len(Reverse(t)) = Len(t)
               /\ \A i \in 1 .. Len(t): /\ (Len(t) - i) + 1 \in 1 .. Len(t)
                                        /\ Reverse(t)[i] = t[(Len(t) - i) + 1]
    <2>1. Len(t) \in Nat
      BY DEF AnyText
    <2>2. Reverse(t) \in AnyText /\ Len(Reverse(t)) = Len(t)
      BY Reversed
    <2>3. \A i \in 1 .. Len(t): (Len(t) - i) + 1 \in 1 .. Len(t)
      BY <2>1
    <2>4. \A i \in 1 .. Len(t): Reverse(t)[i] = t[(Len(t) - i) + 1]
      BY DEF Reverse
    <2>5. QED
      BY <2>2, <2>3, <2>4
  <1> DEFINE back == Reverse(text)
             again == Reverse(back)
  <1>3. StripLeft(text, blanks) = text
    BY <1>1
  <1>4. /\ back \in AnyText /\ Len(back) = Len(text)
        /\ \A i \in 1 .. Len(text): /\ (Len(text) - i) + 1 \in 1 .. Len(text)
                                    /\ back[i] = text[(Len(text) - i) + 1]
    BY <1>2
  <1> HIDE DEF back
  <1>5. StripLeft(back, blanks) = back
    BY <1>1, <1>4
  <1>6. /\ again \in AnyText /\ Len(again) = Len(text)
        /\ \A i \in 1 .. Len(text): again[i] = back[(Len(text) - i) + 1]
    BY <1>2, <1>4
  <1> HIDE DEF again
  <1>7. \A i \in 1 .. Len(text): (Len(text) - ((Len(text) - i) + 1)) + 1 = i
    BY DEF AnyText
  <1>8. \A i \in 1 .. Len(text): again[i] = text[i]
    BY <1>4, <1>6, <1>7
  <1>9. again = text
    BY <1>6, <1>8, SameText
  <1>10. QED
    BY <1>3, <1>5, <1>9 DEF Trim, back, again

-----------------------------------------------------------------------------
(* What HttpSerializer writes: a status line, one row for each header that *)
(* is not the serializer's own, and a row for each of those two.           *)
LEMMA Phrases == \A s \in Statuses: StatusReasonPhrase[s] # CRLF
  BY DEF StatusReasonPhrase, Statuses, CRLF

LengthName == <<"Content-Length">>
CloseName == <<"Connection">>

(* A response that can be written and read back. *)
Writable(r) ==
    /\ ResponseOK(r) /\ Len(r.body) <= MaxNumber
    /\ \A n \in DOMAIN r.headers:
          /\ Lowercase(n) = n /\ \A k \in 1 .. Len(n): n[k] \notin Framing
          /\ \A k \in 1 .. Len(r.headers[n]): r.headers[n][k] # CRLF

WrittenNames(r) == (DOMAIN r.headers \ SerializerOwned) \cup {LengthName, CloseName}
WrittenValues(r) ==
    [n \in WrittenNames(r) |-> IF n = LengthName THEN <<ToString(Len(r.body))>>
                               ELSE IF n = CloseName THEN <<"close">> ELSE r.headers[n]]
FirstOf(r) == <<"HTTP/1.1", SP, ToString(r.status), SP, StatusReasonPhrase[r.status]>>

Carries(text, r) ==
    /\ HeadEnd(text) # 0 /\ After(text, HeadEnd(text) + 1) = r.body
    /\ LineAt(text, 1) = FirstOf(r)
    /\ {NameOf(LineAt(text, i)): i \in FieldStarts(text)} = WrittenNames(r)
    /\ \A i \in FieldStarts(text):
          LineAt(text, i) = RowOf(NameOf(LineAt(text, i)), WrittenValues(r)[NameOf(LineAt(text, i))])
    /\ \A i, j \in FieldStarts(text): NameOf(LineAt(text, i)) = NameOf(LineAt(text, j)) => i = j

LEMMA Capitals ==
  ASSUME NEW n, Lowercase(n) = n
  PROVE  n \notin {LengthName, CloseName}
  <1>1. \A w \in DOMAIN LowerOf: LowerOf[w] # w
    BY MessagesAssumption
  <1>2. ASSUME NEW w \in DOMAIN LowerOf PROVE Lowercase(<<w>>) # <<w>>
    <2>1. Lowercase(<<w>>)[1] = LowerOf[w]
      BY DEF Lowercase
    <2>2. QED
      BY <1>1, <2>1
  <1>3. "Content-Length" \in DOMAIN LowerOf /\ "Connection" \in DOMAIN LowerOf
    BY MessagesAssumption, ResponseAssumption
  <1>4. QED
    BY <1>2, <1>3 DEF LengthName, CloseName

LEMMA StatusRead ==
  ASSUME NEW r, ResponseOK(r), NEW values
  PROVE  ReadsAs(StatusLine(r), FirstOf(r), {}, values)
  <1> DEFINE text == StatusLine(r)
             phrase == StatusReasonPhrase[r.status]
             number == ToString(r.status)
  <1>1. r.status \in Statuses /\ r.status \in 0 .. MaxNumber
    BY ResponseAssumption DEF ResponseOK
  <1>2. phrase # CRLF /\ number # CRLF
    BY <1>1, Phrases, ResponseAssumption DEF Framing
  <1>3. {"HTTP/1.1", SP, number, phrase, CRLF} \subseteq Tokens
    BY <1>1, Words, Separators
  <1> HIDE DEF phrase, number
  <1>4. text = <<"HTTP/1.1", SP, number, SP, phrase, CRLF>> /\ FirstOf(r) = <<"HTTP/1.1", SP, number, SP, phrase>>
    BY DEF StatusLine, FirstOf, number, phrase
  <1>5. /\ text \in AnyText /\ Len(text) = 6 /\ text[6] = CRLF
        /\ \A k \in 1 .. 5: text[k] # CRLF
        /\ FirstOf(r) \in AnyText /\ Len(FirstOf(r)) = 5 /\ \A k \in 1 .. 5: FirstOf(r)[k] = text[k]
    <2>1. text \in AnyText /\ FirstOf(r) \in AnyText
      BY <1>3, <1>4 DEF AnyText
    <2>2. SP # CRLF /\ "HTTP/1.1" # CRLF
      BY DEF SP, CRLF
    <2>3. text[1] # CRLF /\ text[2] # CRLF /\ text[3] # CRLF /\ text[4] # CRLF /\ text[5] # CRLF
      BY <1>2, <1>4, <2>2
    <2>4. \A k \in 1 .. 5: k \in {1, 2, 3, 4, 5}
      OBVIOUS
    <2>5. \A k \in {1, 2, 3, 4, 5}: FirstOf(r)[k] = text[k]
      BY <1>4
    <2>6. Len(text) = 6 /\ text[6] = CRLF /\ Len(FirstOf(r)) = 5
      BY <1>4
    <2> HIDE DEF text
    <2>7. QED
      BY <2>1, <2>3, <2>4, <2>5, <2>6
  <1> HIDE DEF text
  <1>6. Block(text) /\ Starts(text) = {}
    BY <1>5 DEF Block, Starts
  <1>7. LineAt(text, 1) = SubSeq(text, 1, 5)
    <2>1. 1 \in 1 .. Len(text) /\ 6 \in 1 .. Len(text) /\ 6 - 1 = 5
      BY <1>5
    <2>2. LineAt(text, 1) = SubSeq(text, 1, 6 - 1)
      BY <1>5, <2>1, LineIs
    <2>3. QED
      BY <2>1, <2>2
  <1>8. SubSeq(text, 1, 5) = FirstOf(r)
    <2>1. 1 \in 1 .. Len(text) + 1 /\ 5 \in 1 - 1 .. Len(text) /\ 5 - 1 + 1 = 5
      BY <1>5
    <2> DEFINE cut == SubSeq(text, 1, 5)
    <2>2. cut \in AnyText /\ Len(cut) = 5 - 1 + 1 /\ \A k \in 1 .. 5 - 1 + 1: cut[k] = text[1 + k - 1]
      BY <1>5, <2>1, Cut
    <2> HIDE DEF cut
    <2>3. \A k \in 1 .. 5: cut[k] = FirstOf(r)[k] /\ Len(cut) = Len(FirstOf(r))
      <3>1. \A k \in 1 .. 5: 1 + k - 1 = k
        OBVIOUS
      <3>2. QED
        BY <1>5, <2>1, <2>2, <3>1
    <2>4. cut = FirstOf(r)
      <3>1. Len(cut) = Len(FirstOf(r)) /\ Len(cut) = 5
        BY <1>5, <2>1, <2>2
      <3>2. QED
        BY <1>5, <2>2, <2>3, <3>1, SameText
    <2>5. QED
      BY <2>4 DEF cut
  <1>9. QED
    BY <1>6, <1>7, <1>8 DEF ReadsAs, text

LEMMA OneMore ==
  ASSUME NEW t \in AnyText, NEW c \in Tokens
  PROVE  /\ t \o <<c>> \in AnyText /\ Len(t \o <<c>>) = Len(t) + 1
         /\ \A k \in 1 .. Len(t): (t \o <<c>>)[k] = t[k]
         /\ (t \o <<c>>)[Len(t) + 1] = c
  <1>1. <<c>> \in AnyText /\ Len(<<c>>) = 1 /\ <<c>>[1] = c
    BY DEF AnyText
  <1>2. /\ t \o <<c>> \in AnyText /\ Len(t \o <<c>>) = Len(t) + Len(<<c>>)
        /\ \A k \in 1 .. Len(t): (t \o <<c>>)[k] = t[k]
        /\ \A k \in 1 .. Len(<<c>>): (t \o <<c>>)[Len(t) + k] = <<c>>[k]
    BY <1>1, Parts
  <1>3. QED
    BY <1>1, <1>2

LEMMA RowWritten ==
  ASSUME NEW a \in Tokens, NEW b \in Tokens, NEW c \in Tokens, NEW d \in Tokens, NEW e \in Tokens
  PROVE  (<<a>> \o (<<b, c>> \o <<d>>)) \o <<e>> = <<a, b, c, d, e>>
  <1> DEFINE p == <<b, c>> \o <<d>>
             q == <<a>> \o p
             t == q \o <<e>>
             whole == <<a, b, c, d, e>>
  <1>1. /\ <<a>> \in AnyText /\ Len(<<a>>) = 1 /\ <<a>>[1] = a
        /\ <<b, c>> \in AnyText /\ Len(<<b, c>>) = 2 /\ <<b, c>>[1] = b /\ <<b, c>>[2] = c
    BY DEF AnyText
  <1>2. p \in AnyText /\ Len(p) = 3 /\ p[1] = b /\ p[2] = c /\ p[3] = d
    <2>1. /\ p \in AnyText /\ Len(p) = 2 + 1
          /\ \A k \in 1 .. 2: p[k] = <<b, c>>[k]
          /\ p[2 + 1] = d
      BY <1>1, OneMore
    <2> HIDE DEF p
    <2>2. 1 \in 1 .. 2 /\ 2 \in 1 .. 2 /\ 2 + 1 = 3
      OBVIOUS
    <2>3. QED
      BY <1>1, <2>1, <2>2
  <1> HIDE DEF p
  <1>3. q \in AnyText /\ Len(q) = 4 /\ q[1] = a /\ q[2] = b /\ q[3] = c /\ q[4] = d
    <2> DEFINE one == <<a>>
    <2>4. one \in AnyText /\ Len(one) = 1 /\ one[1] = a
      BY <1>1
    <2>5. q = one \o p
      OBVIOUS
    <2> HIDE DEF q, one
    <2>6. /\ q \in AnyText /\ Len(q) = Len(one) + Len(p)
          /\ \A k \in 1 .. Len(one): q[k] = one[k]
          /\ \A k \in 1 .. Len(p): q[Len(one) + k] = p[k]
      BY <1>2, <2>4, <2>5, Parts
    <2>1. /\ q \in AnyText /\ Len(q) = 1 + 3
          /\ \A k \in 1 .. 1: q[k] = one[k]
          /\ \A k \in 1 .. 3: q[1 + k] = p[k]
      BY <1>2, <2>4, <2>6
    <2>2. q[1] = one[1] /\ q[1 + 1] = p[1] /\ q[1 + 2] = p[2] /\ q[1 + 3] = p[3]
      BY <2>1
    <2>3. QED
      BY <1>2, <2>1, <2>2, <2>4
  <1> HIDE DEF q
  <1>4. t \in AnyText /\ Len(t) = 5 /\ t[1] = a /\ t[2] = b /\ t[3] = c /\ t[4] = d /\ t[5] = e
    <2>4. t = q \o <<e>>
      OBVIOUS
    <2> HIDE DEF t
    <2>5. t \in AnyText /\ Len(t) = Len(q) + 1 /\ (\A k \in 1 .. Len(q): t[k] = q[k]) /\ t[Len(q) + 1] = e
      BY <1>3, <2>4, OneMore
    <2>1. t \in AnyText /\ Len(t) = 4 + 1 /\ (\A k \in 1 .. 4: t[k] = q[k]) /\ t[4 + 1] = e
      BY <1>3, <2>5
    <2>2. t[1] = q[1] /\ t[2] = q[2] /\ t[3] = q[3] /\ t[4] = q[4]
      BY <2>1
    <2>3. QED
      BY <1>3, <2>1, <2>2
  <1>5. /\ whole \in AnyText /\ Len(whole) = 5
        /\ whole[1] = a /\ whole[2] = b /\ whole[3] = c /\ whole[4] = d /\ whole[5] = e
    BY DEF AnyText
  <1> HIDE DEF t, whole
  <1>6. \A k \in 1 .. 5: k \in {1, 2, 3, 4, 5}
    OBVIOUS
  <1>7. \A k \in {1, 2, 3, 4, 5}: t[k] = whole[k]
    BY <1>4, <1>5
  <1>8. t = whole
    BY <1>4, <1>5, <1>6, <1>7, SameText
  <1>9. QED
    BY <1>8 DEF t, whole, q, p

LEMMA OwnRows ==
  ASSUME NEW number \in Tokens
  PROVE  <<"Content-Length", COLON, SP, number, CRLF, "Connection", COLON, SP, "close", CRLF, CRLF>>
           = (RowOf(LengthName, <<number>>) \o <<CRLF>>)
               \o ((RowOf(CloseName, <<"close">>) \o <<CRLF>>) \o <<CRLF>>)
  <1> DEFINE first == <<"Content-Length", COLON, SP, number, CRLF>>
             second == <<"Connection", COLON, SP, "close", CRLF>>
             last == second \o <<CRLF>>
             t == first \o last
             whole == <<"Content-Length", COLON, SP, number, CRLF, "Connection", COLON, SP, "close", CRLF, CRLF>>
  <1>1. {"Content-Length", COLON, SP, CRLF, "Connection", "close"} \subseteq Tokens
    BY Separators DEF Tokens, Literals
  <1>2. RowOf(LengthName, <<number>>) \o <<CRLF>> = first
    BY <1>1, RowWritten DEF RowOf, LengthName
  <1>3. RowOf(CloseName, <<"close">>) \o <<CRLF>> = second
    BY <1>1, RowWritten DEF RowOf, CloseName
  <1>4. /\ first \in AnyText /\ Len(first) = 5 /\ first[1] = "Content-Length" /\ first[2] = COLON
        /\ first[3] = SP /\ first[4] = number /\ first[5] = CRLF
    BY <1>1 DEF AnyText
  <1>5. /\ second \in AnyText /\ Len(second) = 5 /\ second[1] = "Connection" /\ second[2] = COLON
        /\ second[3] = SP /\ second[4] = "close" /\ second[5] = CRLF
    BY <1>1 DEF AnyText
  <1> HIDE DEF first, second
  <1>6. /\ last \in AnyText /\ Len(last) = 6 /\ last[1] = "Connection" /\ last[2] = COLON
        /\ last[3] = SP /\ last[4] = "close" /\ last[5] = CRLF /\ last[6] = CRLF
    <2>4. last = second \o <<CRLF>> /\ CRLF \in Tokens
      BY <1>1
    <2> HIDE DEF last
    <2>5. /\ last \in AnyText /\ Len(last) = Len(second) + 1
          /\ \A k \in 1 .. Len(second): last[k] = second[k]
          /\ last[Len(second) + 1] = CRLF
      BY <1>5, <2>4, OneMore
    <2>1. last \in AnyText /\ Len(last) = 5 + 1 /\ (\A k \in 1 .. 5: last[k] = second[k]) /\ last[5 + 1] = CRLF
      BY <1>5, <2>5
    <2>2. last[1] = second[1] /\ last[2] = second[2] /\ last[3] = second[3] /\ last[4] = second[4] /\ last[5] = second[5]
      BY <2>1
    <2>3. QED
      BY <1>5, <2>1, <2>2
  <1> HIDE DEF last
  <1>7. /\ t \in AnyText /\ Len(t) = 11
        /\ t[1] = first[1] /\ t[2] = first[2] /\ t[3] = first[3] /\ t[4] = first[4] /\ t[5] = first[5]
        /\ t[6] = last[1] /\ t[7] = last[2] /\ t[8] = last[3] /\ t[9] = last[4] /\ t[10] = last[5] /\ t[11] = last[6]
    <2>4. t = first \o last
      OBVIOUS
    <2> HIDE DEF t
    <2>5. /\ t \in AnyText /\ Len(t) = Len(first) + Len(last)
          /\ \A k \in 1 .. Len(first): t[k] = first[k]
          /\ \A k \in 1 .. Len(last): t[Len(first) + k] = last[k]
      BY <1>4, <1>6, <2>4, Parts
    <2>1. /\ t \in AnyText /\ Len(t) = 5 + 6
          /\ \A k \in 1 .. 5: t[k] = first[k]
          /\ \A k \in 1 .. 6: t[5 + k] = last[k]
      BY <1>4, <1>6, <2>5
    <2>2. /\ t[1] = first[1] /\ t[2] = first[2] /\ t[3] = first[3] /\ t[4] = first[4] /\ t[5] = first[5]
          /\ t[5 + 1] = last[1] /\ t[5 + 2] = last[2] /\ t[5 + 3] = last[3]
          /\ t[5 + 4] = last[4] /\ t[5 + 5] = last[5] /\ t[5 + 6] = last[6]
      BY <2>1
    <2>3. QED
      BY <2>1, <2>2
  <1>8. /\ whole \in AnyText /\ Len(whole) = 11
        /\ whole[1] = "Content-Length" /\ whole[2] = COLON /\ whole[3] = SP /\ whole[4] = number /\ whole[5] = CRLF
        /\ whole[6] = "Connection" /\ whole[7] = COLON /\ whole[8] = SP /\ whole[9] = "close"
        /\ whole[10] = CRLF /\ whole[11] = CRLF
    BY <1>1 DEF AnyText
  <1> HIDE DEF t, whole
  <1>9. \A k \in 1 .. 11: k \in {1, 2, 3, 4, 5, 6, 7, 8, 9, 10, 11}
    OBVIOUS
  <1>10. \A k \in {1, 2, 3, 4, 5, 6, 7, 8, 9, 10, 11}: t[k] = whole[k]
    BY <1>4, <1>6, <1>7, <1>8
  <1>11. t = whole
    BY <1>7, <1>8, <1>9, <1>10, SameText
  <1>12. QED
    BY <1>2, <1>3, <1>11 DEF t, whole, last

LEMMA Regrouped ==
  ASSUME NEW a \in AnyText, NEW b \in AnyText, NEW c \in AnyText
  PROVE  (a \o b) \o c = a \o (b \o c)
  BY ConcatAssociative DEF AnyText

(* \o, of which only that it is associative is seen. *)
Joint(a, b) == a \o b

LEMMA JointRegrouped ==
  /\ \A a, b \in AnyText: Joint(a, b) \in AnyText
  /\ \A a, b, c \in AnyText: Joint(Joint(a, b), c) = Joint(a, Joint(b, c))
  <1>1. ASSUME NEW a \in AnyText, NEW b \in AnyText PROVE Joint(a, b) \in AnyText
    BY Glued DEF Joint
  <1>2. ASSUME NEW a \in AnyText, NEW b \in AnyText, NEW c \in AnyText
        PROVE  Joint(Joint(a, b), c) = Joint(a, Joint(b, c))
    BY Regrouped DEF Joint
  <1>3. QED
    BY <1>1, <1>2

LEMMA SixRegrouped ==
  ASSUME NEW a, NEW b, NEW c, NEW d, NEW e, NEW f, {a, b, c, d, e, f} \subseteq AnyText
  PROVE  Joint(Joint(a, Joint(b, Joint(c, Joint(d, e)))), f)
           = Joint(Joint(Joint(Joint(a, b), c), d), Joint(e, f))
  <1>1. a \in AnyText /\ b \in AnyText /\ c \in AnyText /\ d \in AnyText /\ e \in AnyText /\ f \in AnyText
    OBVIOUS
  <1>2. /\ Joint(d, e) \in AnyText /\ Joint(c, Joint(d, e)) \in AnyText
        /\ Joint(a, b) \in AnyText /\ Joint(Joint(a, b), c) \in AnyText
        /\ Joint(Joint(Joint(a, b), c), d) \in AnyText
    BY <1>1, JointRegrouped
  <1>3. Joint(a, Joint(b, Joint(c, Joint(d, e)))) = Joint(Joint(Joint(Joint(a, b), c), d), e)
    BY <1>1, <1>2, JointRegrouped
  <1>4. Joint(Joint(Joint(Joint(Joint(a, b), c), d), e), f) = Joint(Joint(Joint(Joint(a, b), c), d), Joint(e, f))
    BY <1>1, <1>2, JointRegrouped
  <1>5. QED
    BY <1>3, <1>4

(* The serializer's list of headers has each of them once. *)
LEMMA AllListed ==
  ASSUME NEW D, IsFiniteSet(D), NEW order \in SetToSeqs(D)
  PROVE  \E n \in Nat: /\ order \in [1 .. n -> D] /\ D = {order[i]: i \in 1 .. n}
                       /\ \A i, j \in 1 .. n: order[i] = order[j] => i = j
  <1> DEFINE n == Cardinality(D)
  <1>1. n \in Nat
    BY FS_CardinalityType
  <1>2. order \in [1 .. n -> D] /\ \A i, j \in 1 .. n: order[i] = order[j] => i = j
    BY DEF SetToSeqs
  <1>3. IsFiniteSet(1 .. n) /\ Cardinality(1 .. n) = n
    BY <1>1, FS_Interval
  <1>4. order \in Injection(1 .. n, D)
    BY <1>2 DEF Injection, IsInjective
  <1>5. order \in Surjection(1 .. n, D)
    BY <1>3, <1>4, FS_Injection
  <1>6. D = {order[i]: i \in 1 .. n}
    BY <1>2, <1>5 DEF Surjection
  <1>7. QED
    BY <1>1, <1>2, <1>6

(* The rows of a map of headers, in any order, but for the names in skip.  *)
LEMMA RowsRead ==
  ASSUME NEW D, IsFiniteSet(D), NEW order \in SetToSeqs(D), NEW skip, NEW headers,
         NEW start, NEW first, NEW names, NEW values, ReadsAs(start, first, names, values),
         \A name \in D \ skip:
            /\ name \in AnyText /\ name \notin names /\ values[name] = headers[name] /\ headers[name] \in AnyText
            /\ \A k \in 1 .. Len(name): name[k] # COLON /\ name[k] # CRLF
            /\ \A k \in 1 .. Len(headers[name]): headers[name][k] # CRLF
  PROVE  LET rows == FlattenSeq([i \in DOMAIN order |->
                         IF order[i] \in skip THEN <<>>
                         ELSE order[i] \o <<COLON, SP>> \o headers[order[i]] \o <<CRLF>>])
         IN /\ rows \in AnyText
            /\ ReadsAs(start \o rows, first, names \cup (D \ skip), values)
  <1> DEFINE Piece(name) == IF name \in skip THEN <<>>
                            ELSE name \o <<COLON, SP>> \o headers[name] \o <<CRLF>>
             pieces == [i \in DOMAIN order |-> Piece(order[i])]
             Names(k) == names \cup ({order[j]: j \in 1 .. k} \ skip)
  <1>1. PICK n \in Nat: /\ order \in [1 .. n -> D] /\ D = {order[i]: i \in 1 .. n}
                        /\ \A i, j \in 1 .. n: order[i] = order[j] => i = j
    BY AllListed
  <1>2. ReadsAs(start, first, names, values) /\ start \in AnyText
    BY DEF ReadsAs, Block
  <1>3. ASSUME NEW name \in D \ skip
        PROVE  /\ name \in AnyText /\ values[name] \in AnyText
               /\ \A k \in 1 .. Len(name): name[k] # COLON /\ name[k] # CRLF
               /\ \A k \in 1 .. Len(values[name]): values[name][k] # CRLF
               /\ Piece(name) = RowOf(name, values[name]) \o <<CRLF>> /\ Piece(name) \in AnyText
    <2>1. /\ name \in AnyText /\ headers[name] \in AnyText /\ values[name] = headers[name]
          /\ \A k \in 1 .. Len(name): name[k] # COLON /\ name[k] # CRLF
          /\ \A k \in 1 .. Len(headers[name]): headers[name][k] # CRLF
      OBVIOUS
    <2>3. <<COLON, SP>> \in AnyText /\ <<CRLF>> \in AnyText
      BY Separators DEF AnyText
    <2>4. name \o <<COLON, SP>> \o headers[name] = RowOf(name, headers[name])
      BY <2>1, <2>3, Regrouped DEF RowOf
    <2>5. name \o <<COLON, SP>> \in AnyText
      BY <2>1, <2>3, Glued
    <2>6. name \o <<COLON, SP>> \o headers[name] \in AnyText
      BY <2>1, <2>5, Glued
    <2>7. name \o <<COLON, SP>> \o headers[name] \o <<CRLF>> \in AnyText
      BY <2>3, <2>6, Glued
    <2>8. QED
      BY <2>1, <2>4, <2>7
  <1>4. ASSUME NEW text \in AnyText, NEW k \in 1 .. n, ReadsAs(text, first, Names(k - 1), values)
        PROVE  /\ text \o Piece(order[k]) \in AnyText
               /\ ReadsAs(text \o Piece(order[k]), first, Names(k), values)
    <2> DEFINE name == order[k]
    <2>1. name \in D /\ \A j \in 1 .. k - 1: order[j] # name
      BY <1>1
    <2>2. {order[j]: j \in 1 .. k} = {order[j]: j \in 1 .. k - 1} \cup {name}
      <3>1. \A j \in 1 .. k: j \in 1 .. k - 1 \/ j = k
        OBVIOUS
      <3>2. QED
        BY <1>1, <3>1
    <2>3. CASE name \in skip
      <3>1. Piece(name) = <<>> /\ Names(k) = Names(k - 1)
        BY <2>2, <2>3
      <3>2. text \o <<>> = text
        BY ConcatEmptySeq DEF AnyText
      <3> HIDE DEF Names, Piece
      <3>3. QED
        BY <1>4, <3>1, <3>2
    <2>4. CASE name \notin skip
      <3>1. name \notin Names(k - 1) /\ Names(k) = Names(k - 1) \cup {name}
        BY <2>1, <2>2, <2>4
      <3>2. /\ name \in AnyText /\ values[name] \in AnyText
            /\ \A i \in 1 .. Len(name): name[i] # COLON /\ name[i] # CRLF
            /\ \A i \in 1 .. Len(values[name]): values[name][i] # CRLF
            /\ Piece(name) = RowOf(name, values[name]) \o <<CRLF>> /\ Piece(name) \in AnyText
        BY <1>3, <2>1, <2>4
      <3> HIDE DEF Names, Piece, name
      <3>3. ReadsAs(text \o (RowOf(name, values[name]) \o <<CRLF>>), first, Names(k - 1) \cup {name}, values)
        BY <1>4, <3>1, <3>2, RowAdded
      <3>4. QED
        BY <3>1, <3>2, <3>3, Glued DEF name
    <2>5. QED
      BY <2>3, <2>4
  <1>5. Names(n) = names \cup (D \ skip) /\ Names(0) = names
    BY <1>1
  <1>6. DOMAIN pieces = 1 .. n /\ Len(pieces) = n /\ \A i \in 1 .. n: pieces[i] = Piece(order[i])
    <2>1. DOMAIN order = 1 .. n
      BY <1>1
    <2> HIDE DEF Piece
    <2>2. pieces = [i \in 1 .. n |-> Piece(order[i])]
      BY <2>1
    <2>3. QED
      BY <1>1, <2>2
  <1>7. FlattenSeq(pieces) \in AnyText
        /\ ReadsAs(start \o FlattenSeq(pieces), first, Names(n), values)
    <2>1. CASE n = 0
      <3>1. FlattenSeq(pieces) = <<>>
        <4>1. pieces = <<>>
          <5>1. DOMAIN order = {}
            BY <1>1, <2>1
          <5> HIDE DEF Piece
          <5>2. QED
            BY <5>1
        <4>2. QED
          BY <4>1 DEF FlattenSeq
      <3>2. start \o <<>> = start /\ <<>> \in AnyText
        BY <1>2, ConcatEmptySeq DEF AnyText
      <3> HIDE DEF Names, pieces
      <3>3. QED
        BY <1>2, <1>5, <2>1, <3>1, <3>2
    <2>2. CASE n # 0
      <3> HIDE DEF pieces
      <3>1. PICK f: /\ \A i \in 1 .. n: f[i] = IF i = 1 THEN pieces[i] ELSE f[i - 1] \o pieces[i]
                    /\ FlattenSeq(pieces) = f[n]
        BY <1>6, <2>2, FlattenedBySteps
      <3> DEFINE Read(k) == f[k] \in AnyText /\ ReadsAs(start \o f[k], first, Names(k), values)
                 Wrong == {k \in 1 .. n: ~Read(k)}
      <3>2. Wrong = {}
        <4>1. SUFFICES ASSUME Wrong # {} PROVE FALSE
          OBVIOUS
        <4> DEFINE m == Min(Wrong)
        <4>2. m \in Wrong /\ \A k \in Wrong: m <= k
          <5>1. Wrong \subseteq Nat
            OBVIOUS
          <5> HIDE DEF Wrong
          <5>2. QED
            BY <4>1, <5>1, Least
        <4> HIDE DEF m
        <4>3. m \in 1 .. n /\ ~Read(m)
          BY <4>2
        <4>4. order[m] \in D /\ Piece(order[m]) \in AnyText /\ pieces[m] = Piece(order[m])
          <5>1. order[m] \in D /\ pieces[m] = Piece(order[m])
            BY <1>1, <1>6, <4>3
          <5>2. CASE order[m] \in skip
            <6>1. <<>> \in AnyText
              BY DEF AnyText
            <6>2. QED
              BY <5>1, <5>2, <6>1
          <5>3. CASE order[m] \notin skip
            BY <1>3, <5>1, <5>3
          <5>4. QED
            BY <5>1, <5>2, <5>3
        <4> HIDE DEF Piece, Names
        <4>5. CASE m = 1
          <5>1. f[m] = Piece(order[m]) /\ m - 1 = 0
            BY <3>1, <4>3, <4>4, <4>5
          <5>2. ReadsAs(start \o Piece(order[m]), first, Names(m), values)
            BY <1>2, <1>4, <1>5, <4>3, <5>1
          <5>3. QED
            BY <4>3, <4>4, <5>1, <5>2
        <4>6. CASE m # 1
          <5>1. m - 1 \in 1 .. n /\ ~(m <= m - 1)
            BY <4>3, <4>6
          <5>2. Read(m - 1)
            <6> HIDE DEF Read
            <6>1. QED
              BY <4>2, <5>1
          <5>3. f[m] = f[m - 1] \o Piece(order[m])
            BY <3>1, <4>3, <4>4, <4>6
          <5>4. start \o f[m - 1] \in AnyText /\ f[m] \in AnyText
            BY <1>2, <4>4, <5>2, <5>3, Glued
          <5>5. (start \o f[m - 1]) \o Piece(order[m]) = start \o f[m]
            <6>1. start \in AnyText /\ f[m - 1] \in AnyText /\ Piece(order[m]) \in AnyText
              BY <1>2, <4>4, <5>2
            <6>2. (start \o f[m - 1]) \o Piece(order[m]) = start \o (f[m - 1] \o Piece(order[m]))
              BY <6>1, Regrouped
            <6>3. QED
              BY <5>3, <6>2
          <5>6. ReadsAs((start \o f[m - 1]) \o Piece(order[m]), first, Names(m), values)
            BY <1>4, <4>3, <5>2, <5>4
          <5>7. QED
            BY <4>3, <5>4, <5>5, <5>6
        <4>7. QED
          BY <4>5, <4>6
      <3>3. n \in 1 .. n
        BY <2>2
      <3>4. Read(n)
        <4> HIDE DEF Read
        <4>1. QED
          BY <3>2, <3>3
      <3>5. QED
        BY <3>1, <3>4
    <2>3. QED
      BY <2>1, <2>2
  <1>8. QED
    BY <1>5, <1>7

LEMMA HeadersRead ==
  ASSUME NEW r, Writable(r), NEW order \in SetToSeqs(DOMAIN r.headers)
  PROVE  LET rows == FlattenSeq([i \in DOMAIN order |->
                         IF order[i] \in SerializerOwned THEN <<>>
                         ELSE order[i] \o <<COLON, SP>> \o r.headers[order[i]] \o <<CRLF>>])
         IN /\ rows \in AnyText
            /\ ReadsAs(StatusLine(r) \o rows, FirstOf(r), DOMAIN r.headers \ SerializerOwned, WrittenValues(r))
  <1> DEFINE values == WrittenValues(r)
             headers == r.headers
             D == DOMAIN headers
             rows == FlattenSeq([i \in DOMAIN order |->
                         IF order[i] \in SerializerOwned THEN <<>>
                         ELSE order[i] \o <<COLON, SP>> \o headers[order[i]] \o <<CRLF>>])
  <1>1. ReadsAs(StatusLine(r), FirstOf(r), {}, values) /\ IsFiniteSet(D) /\ order \in SetToSeqs(D)
    BY StatusRead DEF Writable, ResponseOK
  <1>2. \A name \in D \ SerializerOwned:
           /\ name \in AnyText /\ name \notin {} /\ values[name] = headers[name] /\ headers[name] \in AnyText
           /\ \A k \in 1 .. Len(name): name[k] # COLON /\ name[k] # CRLF
           /\ \A k \in 1 .. Len(headers[name]): headers[name][k] # CRLF
    <2>1. SUFFICES ASSUME NEW name \in D \ SerializerOwned
                   PROVE  /\ name \in AnyText /\ values[name] = headers[name] /\ headers[name] \in AnyText
                          /\ \A k \in 1 .. Len(name): name[k] # COLON /\ name[k] # CRLF
                          /\ \A k \in 1 .. Len(headers[name]): headers[name][k] # CRLF
      OBVIOUS
    <2>2. /\ name \in AnyText /\ headers[name] \in AnyText
          /\ Lowercase(name) = name /\ \A k \in 1 .. Len(name): name[k] \notin Framing
          /\ \A k \in 1 .. Len(headers[name]): headers[name][k] # CRLF
      BY DEF Writable, ResponseOK
    <2>3. values[name] = headers[name]
      BY <2>2, Capitals DEF WrittenValues, WrittenNames
    <2>4. QED
      BY <2>2, <2>3 DEF Framing
  <1> HIDE DEF values, D, headers
  <1>3. rows \in AnyText /\ ReadsAs(StatusLine(r) \o rows, FirstOf(r), {} \cup (D \ SerializerOwned), values)
    BY <1>1, <1>2, RowsRead
  <1>4. {} \cup (D \ SerializerOwned) = D \ SerializerOwned
    OBVIOUS
  <1>5. QED
    BY <1>3, <1>4 DEF D, values, headers

LEMMA ReplyCarries ==
  ASSUME NEW r, Writable(r), NEW order \in SetToSeqs(DOMAIN r.headers)
  PROVE  Carries(StatusLine(r) \o HeaderText(r, order) \o r.body, r)
  <1> DEFINE start == StatusLine(r)
             rows == FlattenSeq([i \in DOMAIN order |->
                         IF order[i] \in SerializerOwned THEN <<>>
                         ELSE order[i] \o <<COLON, SP>> \o r.headers[order[i]] \o <<CRLF>>])
             number == ToString(Len(r.body))
             values == WrittenValues(r)
             names == DOMAIN r.headers \ SerializerOwned
             lengthRow == RowOf(LengthName, values[LengthName]) \o <<CRLF>>
             closeRow == RowOf(CloseName, values[CloseName]) \o <<CRLF>>
             u == (start \o rows) \o lengthRow
             v == u \o closeRow
             text == v \o (<<CRLF>> \o r.body)
  <1>1. /\ rows \in AnyText /\ start \in AnyText /\ r.body \in AnyText /\ <<CRLF>> \in AnyText
        /\ ReadsAs(start \o rows, FirstOf(r), names, values)
    <2>1. rows \in AnyText /\ ReadsAs(start \o rows, FirstOf(r), names, values)
      BY HeadersRead
    <2>2. start \in AnyText /\ r.body \in AnyText
      BY StatusRead DEF Writable, ResponseOK, ReadsAs, Block
    <2>3. <<CRLF>> \in AnyText
      BY Separators DEF AnyText
    <2>4. QED
      BY <2>1, <2>2, <2>3
  <1>2. number \in Tokens /\ number # CRLF
    BY Words, ResponseAssumption, MessagesAssumption DEF Writable, ResponseOK, AnyText, Framing
  <1>3. LengthName # CloseName /\ LengthName \notin names /\ CloseName \notin names
    BY Capitals DEF Writable, LengthName, CloseName
  <1>4. values[LengthName] = <<number>> /\ values[CloseName] = <<"close">>
    BY <1>3 DEF WrittenValues, WrittenNames
  <1>5. /\ LengthName \in AnyText /\ CloseName \in AnyText
        /\ values[LengthName] \in AnyText /\ values[CloseName] \in AnyText
    BY <1>2, <1>4, Separators DEF LengthName, CloseName, AnyText
  <1>6. /\ \A k \in 1 .. Len(LengthName): LengthName[k] # COLON /\ LengthName[k] # CRLF
        /\ \A k \in 1 .. Len(CloseName): CloseName[k] # COLON /\ CloseName[k] # CRLF
        /\ \A k \in 1 .. Len(values[LengthName]): values[LengthName][k] # CRLF
        /\ \A k \in 1 .. Len(values[CloseName]): values[CloseName][k] # CRLF
    BY <1>2, <1>4 DEF LengthName, CloseName, COLON, CRLF
  <1>7. lengthRow \in AnyText /\ closeRow \in AnyText
    <2>1. RowOf(LengthName, values[LengthName]) \in AnyText /\ RowOf(CloseName, values[CloseName]) \in AnyText
      BY <1>5, <1>6, RowReads
    <2>2. QED
      BY <1>1, <2>1, Glued
  <1>8. start \o HeaderText(r, order) \o r.body = text
    <2>1. HeaderText(r, order) = rows \o (lengthRow \o (closeRow \o <<CRLF>>))
      BY <1>2, <1>4, OwnRows DEF HeaderText
    <2> DEFINE end == <<CRLF>>
               body == r.body
    <2>2. start \in AnyText /\ rows \in AnyText /\ lengthRow \in AnyText /\ closeRow \in AnyText
          /\ end \in AnyText /\ body \in AnyText
      BY <1>1, <1>7
    <2>3. (start \o (rows \o (lengthRow \o (closeRow \o end)))) \o body
            = (((start \o rows) \o lengthRow) \o closeRow) \o (end \o body)
      <3> HIDE DEF start, rows, lengthRow, closeRow, end, body
      <3>1. {start, rows, lengthRow, closeRow, end, body} \subseteq AnyText
        BY <2>2
      <3>2. Joint(Joint(start, Joint(rows, Joint(lengthRow, Joint(closeRow, end)))), body)
              = Joint(Joint(Joint(Joint(start, rows), lengthRow), closeRow), Joint(end, body))
        BY ONLY <3>1, SixRegrouped
      <3>3. QED
        BY ONLY <3>2, Zenon DEF Joint
    <2>4. start \o HeaderText(r, order) \o body = text
      <3> HIDE DEF start, rows, lengthRow, closeRow
      <3>1. HeaderText(r, order) = rows \o (lengthRow \o (closeRow \o end))
        BY <2>1
      <3>2. text = (((start \o rows) \o lengthRow) \o closeRow) \o (end \o body)
        OBVIOUS
      <3> HIDE DEF text, end, body
      <3>3. QED
        BY ONLY <2>3, <3>1, <3>2
    <2>5. QED
      BY <2>4
  <1> HIDE DEF start, rows, number, values, names, text
  <1>9. ReadsAs(u, FirstOf(r), names \cup {LengthName}, values)
    BY <1>1, <1>3, <1>5, <1>6, RowAdded
  <1> HIDE DEF u
  <1>10. ReadsAs(v, FirstOf(r), (names \cup {LengthName}) \cup {CloseName}, values)
    BY <1>3, <1>5, <1>6, <1>9, RowAdded
  <1> HIDE DEF v
  <1>11. /\ Block(v) /\ LineAt(v, 1) = FirstOf(r)
         /\ {NameOf(LineAt(v, i)): i \in Starts(v)} = WrittenNames(r)
         /\ \A i \in Starts(v): LineAt(v, i) = RowOf(NameOf(LineAt(v, i)), values[NameOf(LineAt(v, i))])
         /\ \A i, j \in Starts(v): NameOf(LineAt(v, i)) = NameOf(LineAt(v, j)) => i = j
    BY <1>10 DEF ReadsAs, WrittenNames, names
  <1>12. /\ HeadEnd(text) = Len(v) /\ FieldStarts(text) = Starts(v)
         /\ \A i \in Starts(v) \cup {1}: LineAt(text, i) = LineAt(v, i)
         /\ After(text, HeadEnd(text) + 1) = r.body
    BY <1>1, <1>11, BlockEnds DEF text
  <1>13. HeadEnd(text) # 0
    BY <1>11, <1>12 DEF Block
  <1>14. {NameOf(LineAt(text, i)): i \in FieldStarts(text)} = {NameOf(LineAt(v, i)): i \in Starts(v)}
    BY <1>12
  <1>15. QED
    BY <1>8, <1>11, <1>12, <1>13, <1>14 DEF Carries, values, start

-----------------------------------------------------------------------------
(* The handler's calls: each sets some of status, body and a header.       *)
Deeds == [status: Statuses] \cup [body: AnyText] \cup [name: AnyText, value: AnyText]
         \cup [body: AnyText, name: AnyText, value: AnyText] \cup [status: Statuses, body: AnyText]
         \cup [status: Statuses, body: AnyText, name: AnyText, value: AnyText]

Setting(deeds, field) == {i \in DOMAIN deeds: field \in DOMAIN deeds[i]}
DeedNames(deeds) == [i \in DOMAIN deeds |-> Lowercase(deeds[i].name)]
DeedValues(deeds) == [i \in DOMAIN deeds |-> deeds[i].value]

(* The response has what was set last. *)
Filled(r, deeds) ==
    /\ r.status = IF Setting(deeds, "status") = {} THEN 200
                  ELSE deeds[Max(Setting(deeds, "status"))].status
    /\ r.body = IF Setting(deeds, "body") = {} THEN <<>> ELSE deeds[Max(Setting(deeds, "body"))].body
    /\ LastOf(r.headers, DeedNames(deeds), DeedValues(deeds), Setting(deeds, "name"))

LEMMA DeedAdded ==
  ASSUME NEW d \in Seq(Deeds), NEW x \in Deeds
  PROVE  LET e == Append(d, x)
         IN /\ e \in Seq(Deeds) /\ DOMAIN e = 1 .. Len(d) + 1
            /\ \A i \in 1 .. Len(d): e[i] = d[i]
            /\ e[Len(d) + 1] = x
            /\ \A field: Setting(e, field) = Setting(d, field) \cup IF field \in DOMAIN x THEN {Len(d) + 1} ELSE {}
  <1> DEFINE e == Append(d, x)
             n == Len(d)
  <1>1. n \in Nat /\ DOMAIN d = 1 .. n
    OBVIOUS
  <1>2. /\ e \in Seq(Deeds) /\ Len(e) = n + 1 /\ e[n + 1] = x
        /\ \A i \in 1 .. n: e[i] = d[i]
    BY AppendProperties
  <1>3. DOMAIN e = 1 .. n + 1
    BY <1>2
  <1> HIDE DEF e, n
  <1>4. ASSUME NEW field
        PROVE  Setting(e, field) = Setting(d, field) \cup IF field \in DOMAIN x THEN {n + 1} ELSE {}
    <2>1. \A i \in 1 .. n + 1: i \in 1 .. n \/ i = n + 1
      BY <1>1
    <2>2. 1 .. n \subseteq 1 .. n + 1 /\ n + 1 \in 1 .. n + 1 /\ n + 1 \notin 1 .. n
      BY <1>1
    <2>3. QED
      BY <1>1, <1>2, <1>3, <2>1, <2>2 DEF Setting
  <1>5. QED
    BY <1>2, <1>3, <1>4 DEF e, n

LEMMA LastIsNew ==
  ASSUME NEW n \in Nat, NEW S, S \subseteq 1 .. n
  PROVE  Max(S \cup {n + 1}) = n + 1 /\ (S # {} => Max(S) \in S)
  <1>1. S \cup {n + 1} \subseteq 0 .. n + 1 /\ S \subseteq 0 .. n /\ n + 1 \in Nat
    OBVIOUS
  <1>2. Max(S \cup {n + 1}) \in S \cup {n + 1} /\ \A m \in S \cup {n + 1}: m <= Max(S \cup {n + 1})
    BY <1>1, Greatest
  <1>3. Max(S \cup {n + 1}) = n + 1
    <2> DEFINE top == Max(S \cup {n + 1})
    <2>1. (top \in 1 .. n \/ top = n + 1) /\ n + 1 <= top
      BY <1>2
    <2> HIDE DEF top
    <2>2. top = n + 1
      BY <2>1
    <2>3. QED
      BY <2>2 DEF top
  <1>4. S # {} => Max(S) \in S
    BY <1>1, Greatest
  <1>5. QED
    BY <1>3, <1>4

LEMMA FilledOn ==
  ASSUME NEW r, NEW d \in Seq(Deeds), NEW x \in Deeds, Filled(r, d), NEW s,
         s.status = IF "status" \in DOMAIN x THEN x.status ELSE r.status,
         s.body = IF "body" \in DOMAIN x THEN x.body ELSE r.body,
         s.headers = IF "name" \in DOMAIN x THEN Updated(r.headers, Lowercase(x.name), x.value) ELSE r.headers
  PROVE  Filled(s, Append(d, x))
  <1> DEFINE e == Append(d, x)
             n == Len(d)
             at == n + 1
  <1>1. /\ n \in Nat /\ e \in Seq(Deeds) /\ DOMAIN e = 1 .. at
        /\ \A i \in 1 .. n: e[i] = d[i]
        /\ e[at] = x
        /\ \A field: Setting(e, field) = Setting(d, field) \cup IF field \in DOMAIN x THEN {at} ELSE {}
    BY DeedAdded
  <1>2. \A field: Setting(d, field) \subseteq 1 .. n
    BY DEF Setting
  <1> HIDE DEF e
  <1>3. ASSUME NEW field
        PROVE  IF field \in DOMAIN x THEN Setting(e, field) # {} /\ e[Max(Setting(e, field))] = x
               ELSE /\ Setting(e, field) = Setting(d, field)
                    /\ Setting(d, field) # {} => e[Max(Setting(d, field))] = d[Max(Setting(d, field))]
    <2> DEFINE S == Setting(d, field)
    <2>1. S \subseteq 1 .. n
      BY <1>2
    <2>2. Setting(e, field) = S \cup IF field \in DOMAIN x THEN {at} ELSE {}
      BY <1>1
    <2> HIDE DEF S, n
    <2>3. Max(S \cup {at}) = at /\ (S # {} => Max(S) \in 1 .. n)
      BY <1>1, <2>1, LastIsNew
    <2>4. CASE field \in DOMAIN x
      BY <1>1, <2>2, <2>3, <2>4
    <2>5. CASE field \notin DOMAIN x
      <3>1. Setting(e, field) = S
        BY <2>2, <2>5
      <3>2. S # {} => e[Max(S)] = d[Max(S)]
        BY <1>1, <2>3
      <3>3. QED
        BY <2>5, <3>1, <3>2 DEF S
    <2>6. QED
      BY <2>4, <2>5
  <1>4. s.status = IF Setting(e, "status") = {} THEN 200 ELSE e[Max(Setting(e, "status"))].status
    <2>1. CASE "status" \in DOMAIN x
      BY <1>3, <2>1
    <2>2. CASE "status" \notin DOMAIN x
      BY <1>3, <2>2 DEF Filled
    <2>3. QED
      BY <2>1, <2>2
  <1>5. s.body = IF Setting(e, "body") = {} THEN <<>> ELSE e[Max(Setting(e, "body"))].body
    <2>1. CASE "body" \in DOMAIN x
      BY <1>3, <2>1
    <2>2. CASE "body" \notin DOMAIN x
      BY <1>3, <2>2 DEF Filled
    <2>3. QED
      BY <2>1, <2>2
  <1>6. LastOf(s.headers, DeedNames(e), DeedValues(e), Setting(e, "name"))
    <2> DEFINE S == Setting(d, "name")
               names == DeedNames(e)
               values == DeedValues(e)
    <2>1. S \subseteq 1 .. n /\ LastOf(r.headers, DeedNames(d), DeedValues(d), S)
      BY <1>2 DEF Filled
    <2>2. /\ \A i \in S: names[i] = DeedNames(d)[i] /\ values[i] = DeedValues(d)[i]
          /\ names[at] = Lowercase(x.name) /\ values[at] = x.value
      <3>1. \A i \in 1 .. n: i \in 1 .. at /\ i \in DOMAIN d
        BY <1>1
      <3>2. at \in 1 .. at
        BY <1>1
      <3> HIDE DEF S, n, at
      <3>3. QED
        BY <1>1, <2>1, <3>1, <3>2 DEF DeedNames, DeedValues
    <2> HIDE DEF S, names, values
    <2>3. LastOf(r.headers, names, values, S)
      <3>1. {names[i]: i \in S} = {DeedNames(d)[i]: i \in S}
        BY <2>2
      <3>2. QED
        BY <2>1, <2>2, <3>1 DEF LastOf
    <2>4. CASE "name" \in DOMAIN x
      <3>1. S \subseteq Nat /\ at \in Nat /\ \A i \in S: i < at
        BY <1>1, <2>1
      <3> HIDE DEF at
      <3>2. LastOf(Updated(r.headers, names[at], values[at]), names, values, S \cup {at})
        BY <2>3, <3>1, LastKept
      <3>3. s.headers = Updated(r.headers, names[at], values[at]) /\ Setting(e, "name") = S \cup {at}
        BY <1>1, <2>2, <2>4 DEF S
      <3>4. QED
        BY <3>2, <3>3 DEF names, values
    <2>5. CASE "name" \notin DOMAIN x
      BY <1>1, <2>3, <2>5 DEF S, names, values
    <2>6. QED
      BY <2>4, <2>5
  <1>7. QED
    BY <1>4, <1>5, <1>6 DEF Filled, e

-----------------------------------------------------------------------------
(* What a handler may give can be written. *)
Plain(text) == text \in AnyText /\ \A k \in 1 .. Len(text): text[k] \notin Framing
Unbroken(text) == text \in AnyText /\ \A k \in 1 .. Len(text): text[k] # CRLF

LEMMA Media == \A e: MimeTypeFromExtension(e) # CRLF
  BY DEF MimeTypeFromExtension, MimeTypes, CRLF

LEMMA OneWord ==
  ASSUME NEW w \in Tokens
  PROVE  /\ <<w>> \in AnyText /\ Len(<<w>>) = 1
         /\ w \notin Framing => Plain(<<w>>)
         /\ w # CRLF => Unbroken(<<w>>)
  <1>1. <<w>> \in AnyText /\ Len(<<w>>) = 1 /\ <<w>>[1] = w /\ \A k \in 1 .. 1: k = 1
    BY DEF AnyText
  <1>2. QED
    BY <1>1 DEF Plain, Unbroken

LEMMA PlainLowered ==
  ASSUME NEW name, Plain(name)
  PROVE  Plain(Lowercase(name)) /\ Lowercase(Lowercase(name)) = Lowercase(name)
  <1> DEFINE lower == Lowercase(name)
  <1>1. name \in AnyText /\ \A k \in 1 .. Len(name): name[k] \notin Framing
    BY DEF Plain
  <1>2. DOMAIN name = 1 .. Len(name)
    BY <1>1 DEF AnyText
  <1>3. lower \in AnyText /\ Len(lower) = Len(name) /\ Lowercase(lower) = lower
    BY <1>1, Lowered
  <1>4. \A k \in 1 .. Len(name): lower[k] \in {name[k]} \cup {LowerOf[w]: w \in DOMAIN LowerOf}
    BY <1>2 DEF Lowercase
  <1>5. \A w \in DOMAIN LowerOf: LowerOf[w] \notin Framing
    BY ResponseAssumption
  <1>6. QED
    BY <1>1, <1>3, <1>4, <1>5 DEF Plain

LEMMA Given ==
  /\ (\A n \in HeaderNames: Plain(n)) /\ Plain(<<"Content-Type">>)
  /\ (\A v \in HeaderValues: Unbroken(v)) /\ Unbroken(<<"application/json">>)
  /\ \A e \in Extensions: Unbroken(<<MimeTypeFromExtension(e)>>)
  /\ \A b \in Bodies \cup Jsons: b \in AnyText /\ Len(b) <= MaxNumber
  /\ <<"why">> \in AnyText /\ Len(<<"why">>) <= MaxNumber
  /\ StatusCodes \cup {200, 400, 500} \subseteq Statuses
  <1>1. HeaderNames \cup HeaderValues \cup Bodies \cup Jsons \subseteq AnyText
    BY MessagesAssumption, TextsAny
  <1>2. ASSUME NEW n \in HeaderNames PROVE Plain(n)
    <2>1. n \in AnyText /\ Range(n) \cap Framing = {} /\ DOMAIN n = 1 .. Len(n)
      BY <1>1, HandlerAssumption DEF AnyText
    <2>2. \A k \in 1 .. Len(n): n[k] \in Range(n)
      BY <2>1 DEF Range
    <2>3. QED
      BY <2>1, <2>2 DEF Plain
  <1>3. ASSUME NEW v \in HeaderValues PROVE Unbroken(v)
    <2>1. v \in AnyText /\ CRLF \notin Range(v) /\ DOMAIN v = 1 .. Len(v)
      BY <1>1, HandlerAssumption DEF AnyText
    <2>2. \A k \in 1 .. Len(v): v[k] \in Range(v)
      BY <2>1 DEF Range
    <2>3. QED
      BY <2>1, <2>2 DEF Unbroken
  <1>4. Plain(<<"Content-Type">>)
    BY Separators, OneWord DEF Framing, SP, TAB, CRLF, COLON
  <1>5. Unbroken(<<"application/json">>)
    BY Separators, OneWord DEF CRLF
  <1>6. \A e \in Extensions: Unbroken(<<MimeTypeFromExtension(e)>>)
    BY Words, Media, OneWord
  <1>7. <<"why">> \in AnyText /\ Len(<<"why">>) <= MaxNumber
    <2>1. 200 \in 0 .. MaxNumber
      BY ResponseAssumption DEF Statuses
    <2>2. <<"why">> \in AnyText /\ Len(<<"why">>) = 1
      BY Separators, OneWord
    <2>3. QED
      BY <2>1, <2>2, MessagesAssumption
  <1>8. \A b \in Bodies \cup Jsons: b \in AnyText /\ Len(b) <= MaxNumber
    BY <1>1, ResponseAssumption
  <1>9. StatusCodes \cup {200, 400, 500} \subseteq Statuses
    BY ResponseAssumption DEF Statuses
  <1>10. QED
    BY <1>2, <1>3, <1>4, <1>5, <1>6, <1>7, <1>8, <1>9

(* Three ways to change a response, and what each leaves alone. *)
LEMMA HeaderWritable ==
  ASSUME NEW r, Writable(r), NEW name, Plain(name), NEW value, Unbroken(value)
  PROVE  LET s == SetResponseHeader(r, name, value)
         IN /\ Writable(s) /\ s.status = r.status /\ s.body = r.body
            /\ s.headers = Updated(r.headers, Lowercase(name), value)
  <1> DEFINE s == SetResponseHeader(r, name, value)
             key == Lowercase(name)
             new == Updated(r.headers, key, value)
  <1>1. /\ ResponseOK(r) /\ DOMAIN r = {"status", "headers", "body"} /\ Len(r.body) <= MaxNumber
        /\ \A n \in DOMAIN r.headers:
              /\ Lowercase(n) = n /\ \A k \in 1 .. Len(n): n[k] \notin Framing
              /\ \A k \in 1 .. Len(r.headers[n]): r.headers[n][k] # CRLF
    BY DEF Writable, ResponseOK
  <1>2. ResponseOK(s)
    BY <1>1, HeaderSet DEF Plain, Unbroken
  <1>3. s = [r EXCEPT !.headers = new]
    BY DEF SetResponseHeader
  <1>4. s.status = r.status /\ s.body = r.body /\ s.headers = new
    BY <1>1, <1>3
  <1>5. /\ DOMAIN new = DOMAIN r.headers \cup {key} /\ new[key] = value
        /\ \A k \in DOMAIN r.headers \ {key}: new[k] = r.headers[k]
    BY DEF Updated
  <1>6. Lowercase(key) = key /\ \A k \in 1 .. Len(key): key[k] \notin Framing
    BY PlainLowered DEF Plain
  <1>7. \A k \in 1 .. Len(value): value[k] # CRLF
    BY DEF Unbroken
  <1> HIDE DEF s, key, new
  <1>8. ASSUME NEW n \in DOMAIN new
        PROVE  /\ Lowercase(n) = n /\ \A k \in 1 .. Len(n): n[k] \notin Framing
               /\ \A k \in 1 .. Len(new[n]): new[n][k] # CRLF
    <2>1. CASE n = key
      BY <1>5, <1>6, <1>7, <2>1
    <2>2. CASE n # key
      BY <1>1, <1>5, <2>2
    <2>3. QED
      BY <2>1, <2>2
  <1>9. Writable(s)
    BY <1>1, <1>2, <1>4, <1>8 DEF Writable
  <1>10. QED
    BY <1>4, <1>9 DEF s, new, key

LEMMA BodyWritable ==
  ASSUME NEW r, Writable(r), NEW body \in AnyText, Len(body) <= MaxNumber
  PROVE  LET s == SetBody(r, body)
         IN Writable(s) /\ s.status = r.status /\ s.body = body /\ s.headers = r.headers
  <1> DEFINE s == SetBody(r, body)
  <1>1. ResponseOK(r) /\ DOMAIN r = {"status", "headers", "body"}
    BY DEF Writable, ResponseOK
  <1>2. s.status = r.status /\ s.body = body /\ s.headers = r.headers /\ ResponseOK(s)
    BY <1>1, BodySet DEF SetBody
  <1> HIDE DEF s
  <1>3. Writable(s)
    BY <1>2 DEF Writable
  <1>4. QED
    BY <1>2, <1>3 DEF s

LEMMA StatusWritable ==
  ASSUME NEW r, Writable(r), NEW status \in Statuses
  PROVE  LET s == SetStatus(r, status)
         IN Writable(s) /\ s.status = status /\ s.body = r.body /\ s.headers = r.headers
  <1> DEFINE s == SetStatus(r, status)
  <1>1. ResponseOK(r) /\ DOMAIN r = {"status", "headers", "body"}
    BY DEF Writable, ResponseOK
  <1>2. s.status = status /\ s.body = r.body /\ s.headers = r.headers /\ ResponseOK(s)
    BY <1>1, StatusSet DEF SetStatus
  <1> HIDE DEF s
  <1>3. Writable(s)
    BY <1>2 DEF Writable
  <1>4. QED
    BY <1>2, <1>3 DEF s

LEMMA FreshWritable == Writable(EmptyResponse) /\ Filled(EmptyResponse, <<>>)
  <1>1. /\ EmptyResponse.headers = EmptyMap /\ DOMAIN EmptyMap = {} /\ EmptyResponse.body = <<>>
        /\ EmptyResponse.status = 200
    BY DEF EmptyResponse, EmptyMap
  <1>2. Len(<<>>) <= MaxNumber
    BY MessagesAssumption
  <1>3. Writable(EmptyResponse)
    BY <1>1, <1>2, FreshResponse DEF Writable
  <1>4. \A field: Setting(<<>>, field) = {}
    BY DEF Setting
  <1>5. QED
    BY <1>1, <1>3, <1>4, NothingKept DEF Filled

-----------------------------------------------------------------------------
(* What the handler did, what it made, and what was written of it.         *)
DeedInv ==
    /\ did \in Seq(Deeds) /\ Writable(response) /\ Filled(response, did)
    /\ pc \in {"status", "fields", "done", "rejected"} /\ did # <<>> => Carries(reply, response)
    /\ pc \in {"fields", "done"} => out.statusCode \in 0 .. MaxNumber
    /\ pc = "done" => out.body \in AnyText

LEMMA Done ==
  ASSUME DeedInv, NEW x, x \in Deeds, Called(x, response'), Writable(response'),
         response'.status = IF "status" \in DOMAIN x THEN x.status ELSE response.status,
         response'.body = IF "body" \in DOMAIN x THEN x.body ELSE response.body,
         response'.headers = IF "name" \in DOMAIN x
                             THEN Updated(response.headers, Lowercase(x.name), x.value)
                             ELSE response.headers
  PROVE  DeedInv'
  <1>1. did \in Seq(Deeds) /\ Filled(response, did)
    BY DEF DeedInv
  <1>2. did' = Append(did, x) /\ pc = "handler" /\ pc' = pc
    BY DEF Called
  <1>3. did' \in Seq(Deeds)
    BY <1>1, <1>2, AppendProperties
  <1>4. Filled(response', Append(did, x))
    BY <1>1, FilledOn
  <1>5. Filled(response', did')
    BY <1>2, <1>4
  <1>6. QED
    BY <1>2, <1>3, <1>5 DEF DeedInv, Writable, ResponseOK, Filled

LEMMA HandlerFills ==
  ASSUME DeedInv, Handler
  PROVE  DeedInv'
  <1>1. Writable(response)
    BY DEF DeedInv
  <1>2. ASSUME NEW s \in StatusCodes, Called([status |-> s], SetStatus(response, s)) PROVE DeedInv'
    <2> DEFINE x == [status |-> s]
    <2>1. response' = SetStatus(response, s) /\ Called(x, response')
      BY <1>2 DEF Called
    <2>2. s \in Statuses
      BY Given
    <2>3. /\ Writable(response') /\ response'.status = s /\ response'.body = response.body
          /\ response'.headers = response.headers
      BY <1>1, <2>1, <2>2, StatusWritable
    <2>4. x \in Deeds /\ DOMAIN x = {"status"} /\ x.status = s
      BY <2>2 DEF Deeds
    <2> HIDE DEF x
    <2>5. QED
      BY <2>1, <2>3, <2>4, Done
  <1>3. ASSUME NEW n \in HeaderNames, NEW v \in HeaderValues,
               Called([name |-> n, value |-> v], SetResponseHeader(response, n, v))
        PROVE  DeedInv'
    <2> DEFINE x == [name |-> n, value |-> v]
    <2>1. response' = SetResponseHeader(response, n, v) /\ Called(x, response')
      BY <1>3 DEF Called
    <2>2. Plain(n) /\ Unbroken(v)
      BY Given
    <2>3. /\ Writable(response') /\ response'.status = response.status /\ response'.body = response.body
          /\ response'.headers = Updated(response.headers, Lowercase(n), v)
      BY <1>1, <2>1, <2>2, HeaderWritable
    <2>4. x \in Deeds /\ DOMAIN x = {"name", "value"} /\ x.name = n /\ x.value = v
      BY <2>2 DEF Deeds, Plain, Unbroken
    <2> HIDE DEF x
    <2>5. QED
      BY <2>1, <2>3, <2>4, Done
  <1>4. ASSUME NEW b \in Bodies, Called([body |-> b], SetBody(response, b)) PROVE DeedInv'
    <2> DEFINE x == [body |-> b]
    <2>1. response' = SetBody(response, b) /\ Called(x, response')
      BY <1>4 DEF Called
    <2>2. b \in AnyText /\ Len(b) <= MaxNumber
      BY Given
    <2>3. /\ Writable(response') /\ response'.status = response.status /\ response'.body = b
          /\ response'.headers = response.headers
      BY <1>1, <2>1, <2>2, BodyWritable
    <2>4. x \in Deeds /\ DOMAIN x = {"body"} /\ x.body = b
      BY <2>2 DEF Deeds
    <2> HIDE DEF x
    <2>5. QED
      BY <2>1, <2>3, <2>4, Done
  <1>5. ASSUME NEW j \in Jsons,
               Called([body |-> j, name |-> <<"Content-Type">>, value |-> <<"application/json">>],
                      SetJson(response, j))
        PROVE  DeedInv'
    <2> DEFINE n == <<"Content-Type">>
               v == <<"application/json">>
               x == [body |-> j, name |-> n, value |-> v]
               r == SetBody(response, j)
    <2>1. response' = SetResponseHeader(r, n, v) /\ Called(x, response')
      BY <1>5 DEF Called, SetJson
    <2>2. Plain(n) /\ Unbroken(v) /\ j \in AnyText /\ Len(j) <= MaxNumber
      BY Given
    <2>3. Writable(r) /\ r.status = response.status /\ r.body = j /\ r.headers = response.headers
      BY <1>1, <2>2, BodyWritable
    <2> HIDE DEF n, v, r
    <2>4. /\ Writable(response') /\ response'.status = r.status /\ response'.body = r.body
          /\ response'.headers = Updated(r.headers, Lowercase(n), v)
      BY <2>1, <2>2, <2>3, HeaderWritable
    <2>5. x \in Deeds /\ DOMAIN x = {"body", "name", "value"} /\ x.body = j /\ x.name = n /\ x.value = v
      BY <2>2 DEF Deeds, Plain, Unbroken
    <2> HIDE DEF x
    <2>6. QED
      BY <2>1, <2>3, <2>4, <2>5, Done
  <1>6. ASSUME NEW e \in Extensions, NEW b \in Bodies,
               Called([status |-> 200, body |-> b, name |-> <<"Content-Type">>,
                       value |-> <<MimeTypeFromExtension(e)>>], ServeFile(response, e, b))
        PROVE  DeedInv'
    <2> DEFINE n == <<"Content-Type">>
               v == <<MimeTypeFromExtension(e)>>
               x == [status |-> 200, body |-> b, name |-> n, value |-> v]
               q == SetStatus(response, 200)
               r == SetResponseHeader(q, n, v)
    <2>1. response' = SetBody(r, b) /\ Called(x, response')
      BY <1>6 DEF Called, ServeFile
    <2>2. 200 \in Statuses /\ Plain(n) /\ Unbroken(v) /\ b \in AnyText /\ Len(b) <= MaxNumber
      BY Given
    <2>3. Writable(q) /\ q.status = 200 /\ q.body = response.body /\ q.headers = response.headers
      BY <1>1, <2>2, StatusWritable
    <2> HIDE DEF n, v, q
    <2>4. Writable(r) /\ r.status = 200 /\ r.headers = Updated(response.headers, Lowercase(n), v)
      BY <2>2, <2>3, HeaderWritable
    <2> HIDE DEF r
    <2>5. /\ Writable(response') /\ response'.status = r.status /\ response'.body = b
          /\ response'.headers = r.headers
      BY <2>1, <2>2, <2>4, BodyWritable
    <2>6. /\ x \in Deeds /\ DOMAIN x = {"status", "body", "name", "value"}
          /\ x.status = 200 /\ x.body = b /\ x.name = n /\ x.value = v
      BY <2>2 DEF Deeds, Plain, Unbroken
    <2> HIDE DEF x
    <2>7. QED
      BY <2>1, <2>4, <2>5, <2>6, Done
  <1>7. QED
    BY <1>2, <1>3, <1>4, <1>5, <1>6 DEF Handler

LEMMA RefusalFills ==
  ASSUME DeedInv, Refuse
  PROVE  DeedInv'
  <1>1. PICK s \in {400, 500}: /\ response' = [EmptyResponse EXCEPT !.status = s, !.body = <<"why">>]
                               /\ did' = <<[status |-> s, body |-> <<"why">>]>>
    <2>1. CASE pc = "threw"
      BY <2>1 DEF Refuse
    <2>2. CASE pc = "400"
      BY <2>2 DEF Refuse
    <2>3. QED
      BY <2>1, <2>2 DEF Refuse
  <1> DEFINE x == [status |-> s, body |-> <<"why">>]
             r == SetStatus(EmptyResponse, s)
             why == <<"why">>
  <1>2. s \in Statuses /\ <<"why">> \in AnyText /\ Len(<<"why">>) <= MaxNumber
    BY Given
  <1>3. response' = SetBody(r, <<"why">>)
    BY <1>1 DEF SetBody, SetStatus
  <1>4. Writable(r) /\ r.status = s /\ r.headers = EmptyResponse.headers
    BY <1>2, FreshWritable, StatusWritable
  <1> HIDE DEF r
  <1>5. /\ Writable(response') /\ response'.status = s /\ response'.body = <<"why">>
        /\ response'.headers = EmptyResponse.headers
    <2>1. response' = SetBody(r, why) /\ why \in AnyText /\ Len(why) <= MaxNumber
      BY <1>2, <1>3
    <2> HIDE DEF why
    <2>2. /\ Writable(response') /\ response'.status = s /\ response'.body = why
          /\ response'.headers = EmptyResponse.headers
      BY <1>4, <2>1, BodyWritable
    <2>3. QED
      BY <2>2 DEF why
  <1>6. x \in Deeds /\ DOMAIN x = {"status", "body"} /\ x.status = s /\ x.body = <<"why">>
    BY <1>2 DEF Deeds
  <1>7. did' = Append(<<>>, x) /\ <<>> \in Seq(Deeds)
    BY <1>1
  <1> HIDE DEF x
  <1>8. Filled(response', Append(<<>>, x))
    <2> DEFINE none == <<>>
    <2>1. none \in Seq(Deeds) /\ Filled(EmptyResponse, none)
      BY <1>7, FreshWritable
    <2> HIDE DEF none
    <2>2. Filled(response', Append(none, x))
      BY <1>5, <1>6, <2>1, FilledOn
    <2>3. QED
      BY <2>2 DEF none
  <1>9. did' \in Seq(Deeds) /\ Filled(response', did')
    BY <1>6, <1>7, <1>8, AppendProperties
  <1>10. pc' = "answer"
    BY DEF Refuse
  <1>11. QED
    BY <1>5, <1>9, <1>10 DEF DeedInv, Writable, ResponseOK, Filled

LEMMA WrittenWhole ==
  ASSUME DeedInv, Serialize
  PROVE  DeedInv'
  <1>1. PICK order \in SetToSeqs(DOMAIN response.headers):
               reply' = StatusLine(response) \o HeaderText(response, order) \o response.body
    BY DEF Serialize
  <1>2. Writable(response)
    BY DEF DeedInv
  <1>3. Carries(reply', response)
    BY <1>1, <1>2, ReplyCarries
  <1>4. pc' = "status" /\ UNCHANGED <<response, did, out>>
    BY DEF Serialize
  <1>5. Carries(reply, response)'
    BY <1>3, <1>4
  <1>6. QED
    BY <1>4, <1>5 DEF DeedInv, Writable, ResponseOK, Filled

LEMMA ClientKeeps ==
  ASSUME DeedInv, ReplyInv, ParseStatus \/ ParseField \/ TakeBody
  PROVE  DeedInv'
  <1>1. UNCHANGED <<did, response, reply>> /\ pc \in {"status", "fields"}
        /\ pc' \in {"fields", "rejected", "done"}
    BY DEF ParseStatus, ParseField, TakeBody
  <1>2. (did # <<>> => Carries(reply, response))'
    BY <1>1 DEF DeedInv
  <1>3. DOMAIN out = {"statusCode", "headers", "body"} /\ reply \in AnyText
    BY DEF ReplyInv
  <1>4. (pc \in {"fields", "done"} => out.statusCode \in 0 .. MaxNumber)'
    <2>1. CASE ParseStatus
      <3> DEFINE line == FirstLine(ReplyHead)
                 tail == After(line, Find(line, SP))
                 code == Trim(IF Find(tail, SP) = 0 THEN tail ELSE Before(tail, Find(tail, SP)))
      <3>1. \/ pc' = "rejected"
            \/ IsNumber(code) /\ out' = [out EXCEPT !.statusCode = Number(code)]
        BY <2>1 DEF ParseStatus
      <3> HIDE DEF code
      <3>2. IsNumber(code) => Number(code) \in 0 .. MaxNumber
        BY DEF IsNumber, Number
      <3>3. QED
        BY <1>3, <3>1, <3>2
    <2>2. CASE ParseField
      <3>1. pc = "fields" /\ \/ out' = out
                             \/ \E h: out' = [out EXCEPT !.headers = h]
        BY <2>2 DEF ParseField
      <3>2. out'.statusCode = out.statusCode
        BY <1>3, <3>1
      <3>3. QED
        BY <3>1, <3>2 DEF DeedInv
    <2>3. CASE TakeBody
      <3>1. pc = "fields" /\ \/ out' = out
                             \/ \E b: out' = [out EXCEPT !.body = b]
        BY <2>3 DEF TakeBody
      <3>2. out'.statusCode = out.statusCode
        BY <1>3, <3>1
      <3>3. QED
        BY <3>1, <3>2 DEF DeedInv
    <2>4. QED
      BY <2>1, <2>2, <2>3
  <1>5. (pc = "done" => out.body \in AnyText)'
    <2>1. CASE pc' # "done"
      BY <2>1
    <2>2. CASE pc' = "done"
      <3>1. TakeBody
        BY <1>1, <2>2 DEF ParseStatus, ParseField
      <3>2. HeadEnd(reply) # 0
        BY <3>1 DEF ReplyInv, TakeBody
      <3>3. Len(reply) \in Nat /\ HeadEnd(reply) + 1 \in 0 .. Len(reply)
        BY <1>3, <3>2, HeadEnds DEF AnyText
      <3>4. ReplyBody \in AnyText
        BY <1>3, <3>3, CutAfter DEF ReplyBody
      <3> DEFINE text == out.headers[PromisedLength]
      <3>5. \/ out' = [out EXCEPT !.body = ReplyBody]
            \/ /\ IsNumber(text) /\ Number(text) <= Len(ReplyBody)
               /\ out' = [out EXCEPT !.body = SubSeq(ReplyBody, 1, Number(text))]
        BY <2>2, <3>1 DEF TakeBody
      <3> HIDE DEF text
      <3>6. IsNumber(text) => Number(text) \in 0 .. MaxNumber
        BY DEF IsNumber, Number
      <3>7. IsNumber(text) /\ Number(text) <= Len(ReplyBody) => SubSeq(ReplyBody, 1, Number(text)) \in AnyText
        <4>1. SUFFICES ASSUME IsNumber(text), Number(text) <= Len(ReplyBody)
                       PROVE  SubSeq(ReplyBody, 1, Number(text)) \in AnyText
          OBVIOUS
        <4>2. 1 \in 1 .. Len(ReplyBody) + 1 /\ Number(text) \in 1 - 1 .. Len(ReplyBody)
          BY <3>4, <3>6, <4>1, MessagesAssumption DEF AnyText
        <4>3. QED
          BY <3>4, <4>2, Cut
      <3>8. out'.body \in AnyText
        BY <1>3, <3>4, <3>5, <3>7
      <3>9. QED
        BY <3>8 DEF AnyText
    <2>3. QED
      BY <2>1, <2>2
  <1>6. QED
    BY <1>1, <1>2, <1>4, <1>5 DEF DeedInv, Writable, ResponseOK, Filled

LEMMA DeedsFollowed ==
  ASSUME DeedInv, ReplyInv, [Next]_vars
  PROVE  DeedInv'
  <1>1. ASSUME Build \/ Scan \/ RequestLine \/ QueryPair \/ HeaderLine PROVE DeedInv'
    <2>1. UNCHANGED <<did, response, out>> /\ pc' \notin {"status", "fields", "done", "rejected"}
      BY <1>1 DEF Build, Scan, RequestLine, QueryPair, HeaderLine
    <2>2. QED
      BY <2>1 DEF DeedInv, Writable, ResponseOK, Filled
  <1>2. ASSUME UNCHANGED vars PROVE DeedInv'
    <2>1. UNCHANGED <<did, response, out, pc, reply>>
      BY <1>2 DEF vars
    <2>2. QED
      BY <2>1 DEF DeedInv, Writable, ResponseOK, Filled
  <1>3. QED
    BY <1>1, <1>2, HandlerFills, RefusalFills, WrittenWhole, ClientKeeps DEF Next, Ended

(* The names that are written, as their reader knows them. *)
LEMMA NamesWritten ==
  ASSUME NEW r, Writable(r)
  PROVE  LET names == WrittenNames(r)
             values == WrittenValues(r)
         IN /\ \A n \in names: /\ Plain(n) /\ Trim(n) = n /\ Unbroken(values[n])
                               /\ n \notin {LengthName, CloseName}
                                    => /\ Lowercase(n) = n /\ n \in DOMAIN r.headers \ SerializerOwned
                                       /\ values[n] = r.headers[n]
            /\ Lowercase(LengthName) = PromisedLength /\ Lowercase(CloseName) = <<"connection">>
            /\ values[LengthName] = <<ToString(Len(r.body))>> /\ values[CloseName] = <<"close">>
            /\ \A n \in DOMAIN r.headers \ SerializerOwned: n \in names /\ n \notin {LengthName, CloseName}
            /\ ToString(Len(r.body)) \in Tokens \ Framing
  <1> DEFINE names == WrittenNames(r)
             values == WrittenValues(r)
             number == ToString(Len(r.body))
  <1>1. /\ ResponseOK(r) /\ Len(r.body) \in 0 .. MaxNumber
        /\ \A n \in DOMAIN r.headers:
              /\ n \in AnyText /\ r.headers[n] \in AnyText
              /\ Lowercase(n) = n /\ \A k \in 1 .. Len(n): n[k] \notin Framing
              /\ \A k \in 1 .. Len(r.headers[n]): r.headers[n][k] # CRLF
    BY MessagesAssumption DEF Writable, ResponseOK, AnyText
  <1>2. \A n \in DOMAIN r.headers: n \notin {LengthName, CloseName}
    BY <1>1, Capitals
  <1>3. LengthName # CloseName
    BY DEF LengthName, CloseName
  <1>4. number \in Tokens /\ number \notin Framing
    BY <1>1, Words, ResponseAssumption
  <1>5. /\ values[LengthName] = <<number>> /\ values[CloseName] = <<"close">>
        /\ \A n \in names \ {LengthName, CloseName}: n \in DOMAIN r.headers \ SerializerOwned /\ values[n] = r.headers[n]
    BY <1>3 DEF WrittenNames, WrittenValues
  <1>6. \A n \in DOMAIN r.headers \ SerializerOwned: n \in names
    BY DEF WrittenNames
  <1>7. Plain(LengthName) /\ Plain(CloseName)
    <2>1. {"Content-Length", "Connection"} \subseteq Tokens \ Framing
      BY Separators DEF Framing, SP, TAB, CRLF, COLON
    <2>2. QED
      BY <2>1, OneWord DEF LengthName, CloseName
  <1>8. Unbroken(<<number>>) /\ Unbroken(<<"close">>)
    <2>1. "close" \in Tokens /\ "close" # CRLF /\ number # CRLF
      BY <1>4, Separators DEF CRLF, Framing
    <2> HIDE DEF number
    <2>2. QED
      BY <1>4, <2>1, OneWord
  <1>9. Lowercase(LengthName) = PromisedLength /\ Lowercase(CloseName) = <<"connection">>
    BY MessagesAssumption, ResponseAssumption DEF Lowercase, LengthName, CloseName, PromisedLength
  <1> HIDE DEF names, values, number
  <1>10. ASSUME NEW n \in names
         PROVE  /\ Plain(n) /\ Unbroken(values[n])
                /\ n \notin {LengthName, CloseName}
                     => /\ Lowercase(n) = n /\ n \in DOMAIN r.headers \ SerializerOwned
                        /\ values[n] = r.headers[n]
    <2>1. CASE n \in {LengthName, CloseName}
      BY <1>5, <1>7, <1>8, <2>1
    <2>2. CASE n \notin {LengthName, CloseName}
      BY <1>1, <1>5, <2>2 DEF Plain, Unbroken
    <2>3. QED
      BY <2>1, <2>2
  <1>11. \A n \in names: Trim(n) = n
    BY <1>10, Unblanked DEF Plain, Framing
  <1>12. QED
    BY <1>2, <1>4, <1>5, <1>6, <1>9, <1>10, <1>11 DEF names, values, number

LEMMA OneName ==
  ASSUME NEW r, Writable(r), NEW m \in WrittenNames(r), NEW n \in WrittenNames(r), Lowercase(m) = Lowercase(n)
  PROVE  m = n
  <1>1. PromisedLength # <<"connection">> /\ {PromisedLength, <<"connection">>} = SerializerOwned
    BY DEF PromisedLength, SerializerOwned
  <1>2. \A k \in WrittenNames(r) \ {LengthName, CloseName}: Lowercase(k) = k /\ k \notin SerializerOwned
    BY NamesWritten
  <1>3. Lowercase(LengthName) = PromisedLength /\ Lowercase(CloseName) = <<"connection">>
    BY NamesWritten
  <1>4. QED
    BY <1>1, <1>2, <1>3

(* The last of the handler's calls for a header. *)
LEMMA HeadersFilled ==
  ASSUME NEW r, NEW d \in Seq(Deeds), Filled(r, d)
  PROVE  /\ DOMAIN r.headers = {Lowercase(d[i].name): i \in Setting(d, "name")}
         /\ \A n \in DOMAIN r.headers:
               r.headers[n] = d[Max({i \in Setting(d, "name"): Lowercase(d[i].name) = n})].value
  <1> DEFINE S == Setting(d, "name")
             names == DeedNames(d)
             values == DeedValues(d)
  <1>1. Len(d) \in Nat /\ S \subseteq DOMAIN d /\ DOMAIN d = 1 .. Len(d)
    BY DEF Setting
  <1>2. \A i \in S: names[i] = Lowercase(d[i].name) /\ values[i] = d[i].value
    BY <1>1 DEF DeedNames, DeedValues
  <1>3. LastOf(r.headers, names, values, S)
    BY DEF Filled
  <1> HIDE DEF S, names, values
  <1>4. DOMAIN r.headers = {names[i]: i \in S}
        /\ \A i \in S: (\A j \in S: names[j] = names[i] => j <= i) => r.headers[names[i]] = values[i]
    BY <1>3 DEF LastOf
  <1>5. DOMAIN r.headers = {Lowercase(d[i].name): i \in S}
    BY <1>2, <1>4
  <1>6. ASSUME NEW n \in DOMAIN r.headers
        PROVE  r.headers[n] = d[Max({i \in S: Lowercase(d[i].name) = n})].value
    <2> DEFINE T == {i \in S: Lowercase(d[i].name) = n}
               top == Max(T)
    <2>1. T \subseteq 0 .. Len(d) /\ T # {}
      BY <1>1, <1>5
    <2> HIDE DEF T
    <2>2. top \in T /\ \A i \in T: i <= top
      BY <1>1, <2>1, Greatest
    <2> HIDE DEF top
    <2>3. top \in S /\ names[top] = n /\ \A j \in S: names[j] = n => j <= top
      BY <1>2, <2>2 DEF T
    <2>4. r.headers[n] = values[top]
      BY <1>4, <2>3
    <2>5. QED
      BY <1>2, <2>3, <2>4 DEF top, T
  <1>7. QED
    BY <1>5, <1>6 DEF S

(* Each line of a reply that carries a response, as its reader takes it. *)
LEMMA LinesTaken ==
  ASSUME NEW text, NEW r, Writable(r), Carries(text, r)
  PROVE  \A i \in FieldStarts(text):
            LET n == NameOf(LineAt(text, i))
            IN /\ n \in WrittenNames(r)
               /\ FieldName(LineAt(text, i)) = Lowercase(n)
               /\ Trim(ValueOf(LineAt(text, i))) = Trim(WrittenValues(r)[n])
  <1>1. SUFFICES ASSUME NEW i \in FieldStarts(text)
                 PROVE  LET n == NameOf(LineAt(text, i))
                        IN /\ n \in WrittenNames(r)
                           /\ FieldName(LineAt(text, i)) = Lowercase(n)
                           /\ Trim(ValueOf(LineAt(text, i))) = Trim(WrittenValues(r)[n])
    OBVIOUS
  <1> DEFINE line == LineAt(text, i)
             n == NameOf(line)
             value == WrittenValues(r)[n]
  <1>2. n \in WrittenNames(r) /\ line = RowOf(n, value)
    BY DEF Carries
  <1>3. Plain(n) /\ Trim(n) = n /\ Unbroken(value)
    BY <1>2, NamesWritten
  <1>4. /\ n \in AnyText /\ value \in AnyText
        /\ \A k \in 1 .. Len(n): n[k] # COLON /\ n[k] # CRLF
        /\ \A k \in 1 .. Len(value): value[k] # CRLF
    BY <1>3 DEF Plain, Unbroken, Framing
  <1> HIDE DEF value, n, line
  <1>5. ValueOf(RowOf(n, value)) = <<SP>> \o value
    BY <1>4, RowReads
  <1>6. Trim(<<SP>> \o value) = Trim(value)
    BY <1>4, Unindented
  <1>7. FieldName(line) = Lowercase(n) /\ Trim(ValueOf(line)) = Trim(value)
    BY <1>2, <1>3, <1>5, <1>6 DEF FieldName, n
  <1>8. QED
    BY <1>2, <1>7 DEF line, n, value

LEMMA ResponseTaken ==
  ASSUME DeedInv, ReplyInv
  PROVE  ResponseCarried
  <1>1. SUFFICES ASSUME pc = "done", did # <<>>
                 PROVE  ResponseCarried
    BY DEF ResponseCarried
  <1> DEFINE r == response
             names == WrittenNames(r)
             values == WrittenValues(r)
             starts == FieldStarts(reply)
             Name(i) == NameOf(LineAt(reply, i))
             given == DOMAIN r.headers \ SerializerOwned
             body == After(reply, HeadEnd(reply) + 1)
  <1>2. /\ did \in Seq(Deeds) /\ Writable(r) /\ Filled(r, did) /\ Carries(reply, r)
        /\ out.statusCode \in 0 .. MaxNumber /\ out.body \in AnyText
    BY <1>1 DEF DeedInv
  <1>3. /\ ToString(out.statusCode) \in Range(LineAt(reply, 1))
        /\ DOMAIN out.headers = {FieldName(LineAt(reply, i)): i \in starts}
        /\ \A n \in DOMAIN out.headers: out.headers[n] = Trim(ValueOf(LastNamed(reply, FieldName, n)))
        /\ PromisedLength \in DOMAIN out.headers =>
              /\ Len(out.body) <= Len(body) /\ out.body = SubSeq(body, 1, Len(out.body))
              /\ <<ToString(Len(out.body))>> = out.headers[PromisedLength]
    BY <1>1 DEF ReplyInv, ReplyUnderstood
  <1>4. /\ body = r.body /\ LineAt(reply, 1) = FirstOf(r)
        /\ {Name(i): i \in starts} = names
        /\ \A i, j \in starts: Name(i) = Name(j) => i = j
    BY <1>2 DEF Carries
  <1>5. \A i \in starts: /\ Name(i) \in names /\ FieldName(LineAt(reply, i)) = Lowercase(Name(i))
                         /\ Trim(ValueOf(LineAt(reply, i))) = Trim(values[Name(i)])
    BY <1>2, LinesTaken
  <1>6. \A m, n \in names: Lowercase(m) = Lowercase(n) => m = n
    BY <1>2, OneName
  <1>7. /\ \A n \in names: n \notin {LengthName, CloseName} => Lowercase(n) = n /\ n \in given /\ values[n] = r.headers[n]
        /\ Lowercase(LengthName) = PromisedLength /\ Lowercase(CloseName) = <<"connection">>
        /\ values[LengthName] = <<ToString(Len(r.body))>> /\ values[CloseName] = <<"close">>
        /\ \A n \in given: n \in names /\ n \notin {LengthName, CloseName}
        /\ ToString(Len(r.body)) \in Tokens \ Framing
    BY <1>2, NamesWritten
  <1>8. LengthName \in names /\ CloseName \in names
    BY DEF WrittenNames
  <1>9. SerializerOwned = {PromisedLength, <<"connection">>}
    BY DEF SerializerOwned, PromisedLength
  <1>10. r.body \in AnyText /\ Len(r.body) \in 0 .. MaxNumber /\ r.status \in Statuses
    BY <1>2, MessagesAssumption DEF Writable, ResponseOK, AnyText
  <1>11. out.statusCode = r.status
    <2> DEFINE code == ToString(out.statusCode)
               phrase == StatusReasonPhrase[r.status]
    <2>1. Range(FirstOf(r)) \subseteq {"HTTP/1.1", SP, ToString(r.status), phrase}
      BY DEF FirstOf, Range
    <2>2. code \in {"HTTP/1.1", SP, ToString(r.status), phrase}
      BY <1>3, <1>4, <2>1
    <2>3. phrase \in Range(StatusReasonPhrase)
      <3>1. DOMAIN StatusReasonPhrase = Statuses
        BY DEF StatusReasonPhrase
      <3>2. QED
        BY <1>10, <3>1, Zenon DEF Range
    <2>4. code \notin Framing \cup {"HTTP/1.1"} \cup Range(StatusReasonPhrase)
      BY <1>2, ResponseAssumption
    <2>5. code # "HTTP/1.1" /\ code # SP /\ code # phrase
      BY <2>3, <2>4 DEF Framing
    <2>6. code = ToString(r.status) /\ r.status \in 0 .. MaxNumber
      BY <1>10, <2>2, <2>5, ResponseAssumption
    <2>7. QED
      BY <1>2, <2>6, ResponseAssumption
  <1> HIDE DEF names, values, starts, Name, given, body, r
  <1>12. DOMAIN out.headers = given \cup SerializerOwned
    <2>1. DOMAIN out.headers = {Lowercase(n): n \in names}
      <3>1. DOMAIN out.headers = {Lowercase(Name(i)): i \in starts}
        BY <1>3, <1>5
      <3>2. QED
        BY <1>4, <3>1
    <2>2. \A n \in names: Lowercase(n) \in given \cup SerializerOwned
      BY <1>7, <1>9
    <2>3. \A k \in given \cup SerializerOwned: \E n \in names: k = Lowercase(n)
      BY <1>7, <1>8, <1>9
    <2>4. QED
      BY <2>1, <2>2, <2>3
  <1>13. ASSUME NEW n \in names PROVE out.headers[Lowercase(n)] = Trim(values[n])
    <2> DEFINE key == Lowercase(n)
               marks == {i \in starts: FieldName(LineAt(reply, i)) = key}
    <2>1. PICK i \in starts: Name(i) = n
      BY <1>4
    <2>2. marks = {i}
      BY <1>4, <1>5, <1>6, <2>1
    <2>3. i \in Nat
      BY DEF starts, FieldStarts, LineStarts
    <2>4. Max(marks) = i
      <3>1. marks \subseteq 0 .. i /\ marks # {}
        BY <2>2, <2>3
      <3> HIDE DEF marks
      <3>2. Max(marks) \in marks
        BY <2>3, <3>1, Greatest
      <3>3. QED
        BY <2>2, <3>2
    <2>5. LastNamed(reply, FieldName, key) = LineAt(reply, i)
      BY <2>4 DEF LastNamed, starts
    <2>6. key \in DOMAIN out.headers
      BY <1>3, <1>5, <2>1
    <2>7. QED
      BY <1>3, <1>5, <2>1, <2>5, <2>6
  <1>14. out.headers[<<"connection">>] = <<"close">>
    <2>1. "close" \in Tokens /\ "close" \notin {SP, TAB}
      BY Separators DEF SP, TAB
    <2>2. Trim(<<"close">>) = <<"close">>
      BY <2>1, Unblanked, OneWord DEF Plain
    <2>3. QED
      BY <1>7, <1>8, <1>13, <2>2
  <1>15. out.headers[PromisedLength] = <<ToString(Len(r.body))>>
    <2> DEFINE number == ToString(Len(r.body))
    <2>1. number \in Tokens /\ number \notin Framing
      BY <1>7
    <2> HIDE DEF number
    <2>2. Trim(<<number>>) = <<number>>
      BY <2>1, Unblanked, OneWord DEF Plain, Framing
    <2>3. QED
      BY <1>7, <1>8, <1>13, <2>2 DEF number
  <1>16. out.body = r.body /\ out.headers[PromisedLength] = <<ToString(Len(out.body))>>
    <2>1. PromisedLength \in DOMAIN out.headers
      BY <1>9, <1>12
    <2>2. /\ Len(out.body) <= Len(body) /\ out.body = SubSeq(body, 1, Len(out.body))
          /\ <<ToString(Len(out.body))>> = out.headers[PromisedLength]
      BY <1>3, <2>1
    <2>3. ToString(Len(out.body)) = ToString(Len(r.body))
      BY <1>15, <2>2
    <2>4. Len(out.body) \in 0 .. MaxNumber
      BY <1>2, <1>4, <1>10, <2>2, MessagesAssumption DEF AnyText
    <2>5. Len(out.body) = Len(r.body)
      BY <1>10, <2>3, <2>4, ResponseAssumption
    <2>6. SubSeq(r.body, 1, Len(r.body)) = r.body
      BY <1>10 DEF AnyText
    <2>7. QED
      BY <1>4, <2>2, <2>5, <2>6
  <1>17. \A i, j \in starts: Lowercase(Name(i)) = Lowercase(Name(j)) => i = j
    BY <1>4, <1>5, <1>6
  <1>18. /\ DOMAIN r.headers = {Lowercase(did[i].name): i \in Setting(did, "name")}
         /\ \A n \in DOMAIN r.headers:
               r.headers[n] = did[Max({i \in Setting(did, "name"): Lowercase(did[i].name) = n})].value
    BY <1>2, HeadersFilled DEF r
  <1>19. \A n \in given:
            out.headers[n] = Trim(did[Max({i \in Setting(did, "name"): Lowercase(did[i].name) = n})].value)
    <2>1. SUFFICES ASSUME NEW n \in given
                   PROVE  out.headers[n] = Trim(did[Max({i \in Setting(did, "name"): Lowercase(did[i].name) = n})].value)
      OBVIOUS
    <2>2. n \in names /\ Lowercase(n) = n /\ values[n] = r.headers[n] /\ n \in DOMAIN r.headers
      BY <1>7 DEF given
    <2>3. out.headers[n] = Trim(r.headers[n])
      BY <1>13, <2>2
    <2>4. QED
      BY <1>18, <2>2, <2>3
  <1>20. given = {Lowercase(did[i].name): i \in Setting(did, "name")} \ SerializerOwned
    BY <1>18 DEF given
  <1>21. /\ r.status = IF Setting(did, "status") = {} THEN 200 ELSE did[Max(Setting(did, "status"))].status
         /\ r.body = IF Setting(did, "body") = {} THEN <<>> ELSE did[Max(Setting(did, "body"))].body
    BY <1>2 DEF Filled, r
  <1>22. QED
    <2> DEFINE Sets(field) == {i \in DOMAIN did: field \in DOMAIN did[i]}
               Naming(n) == {i \in Sets("name"): Lowercase(did[i].name) = n}
               gave == {Lowercase(did[i].name): i \in Sets("name")} \ SerializerOwned
    <2>1. \A field: Setting(did, field) = Sets(field)
      BY DEF Setting
    <2>2. /\ out.statusCode = IF Sets("status") = {} THEN 200 ELSE did[Max(Sets("status"))].status
          /\ out.body = IF Sets("body") = {} THEN <<>> ELSE did[Max(Sets("body"))].body
      <3> HIDE DEF Sets
      <3>1. QED
        BY <1>11, <1>16, <1>21, <2>1
    <2>3. given = gave
      <3> HIDE DEF Sets
      <3>1. QED
        BY <1>20, <2>1
    <2>4. \A n \in gave: out.headers[n] = Trim(did[Max(Naming(n))].value)
      <3> HIDE DEF Sets, gave
      <3>1. QED
        BY <1>19, <2>1, <2>3
    <2>5. \A i, j \in FieldStarts(reply):
             Lowercase(NameOf(LineAt(reply, i))) = Lowercase(NameOf(LineAt(reply, j))) => i = j
      BY <1>17 DEF starts, Name
    <2>6. DOMAIN out.headers = gave \cup SerializerOwned
      <3> HIDE DEF gave
      <3>1. QED
        BY <1>12, <2>3
    <2>7. out.headers[<<"content-length">>] = <<ToString(Len(out.body))>>
      BY <1>16 DEF PromisedLength
    <2>8. QED
      BY <1>14, <2>2, <2>4, <2>5, <2>6, <2>7, Zenon DEF ResponseCarried

(* The invariant of the response holds along the exchange.                 *)
LEMMA DeedInvariant == Spec => []DeedInv
  <1>1. Init => DeedInv
    <2>1. SUFFICES ASSUME Init PROVE DeedInv
      OBVIOUS
    <2>2. did = <<>> /\ response = EmptyResponse /\ pc \in {"build", "scan", "status"}
      BY <2>1 DEF Init
    <2>3. <<>> \in Seq(Deeds)
      OBVIOUS
    <2>4. QED
      BY <2>2, <2>3, FreshWritable DEF DeedInv
  <1>2. ExchangeInv /\ DeedInv /\ [Next]_vars => DeedInv'
    BY DeedsFollowed DEF ExchangeInv
  <1>3. QED
    BY <1>1, <1>2, ExchangeInvariant, PTL DEF Spec

(* What a handler makes with setStatus(), setBody(), setHeader() and the   *)
(* like, HttpSerializer writes so that HttpClient reads the same: the last *)
(* status, body and value of each header, each header in one line, and the *)
(* serializer's own Content-Length and Connection whatever the handler set.*)
THEOREM ResponsesCarried == Spec => []ResponseCarried
  <1>1. ExchangeInv /\ DeedInv => ResponseCarried
    BY ResponseTaken DEF ExchangeInv
  <1>2. QED
    BY <1>1, ExchangeInvariant, DeedInvariant, PTL

-----------------------------------------------------------------------------
(* A hexadecimal digit stands for its place among them, small or capital.  *)
LEMMA DigitsRead ==
  ASSUME NEW k \in 0 .. 15, NEW c \in {HexDigits[k + 1], HexCapitals[k + 1]}
  PROVE  HexDigitToValue(c) = k
  <1> DEFINE at == {i \in 1 .. 16: c \in {HexDigits[i], HexCapitals[i]}}
  <1>1. \A i \in 1 .. 16: c \in {HexDigits[i], HexCapitals[i]} => i = k + 1
    <2>1. SUFFICES ASSUME NEW i \in 1 .. 16, c \in {HexDigits[i], HexCapitals[i]} PROVE i = k + 1
      OBVIOUS
    <2>2. CASE c = HexDigits[k + 1]
      BY <2>1, <2>2 DEF HexDigits, HexCapitals
    <2>3. CASE c = HexCapitals[k + 1]
      BY <2>1, <2>3 DEF HexDigits, HexCapitals
    <2>4. QED
      BY <2>2, <2>3
  <1>2. at = {k + 1}
    <2>1. k + 1 \in 1 .. 16
      OBVIOUS
    <2>2. QED
      BY <1>1, <2>1
  <1>3. HexDigitToValue(c) = IF at = {} THEN -1 ELSE (CHOOSE i \in at: TRUE) - 1
    BY DEF HexDigitToValue
  <1> HIDE DEF at
  <1>4. (CHOOSE i \in at: TRUE) = k + 1
    BY <1>2
  <1>5. QED
    BY <1>2, <1>3, <1>4

(* What an application writes for a character, and what decode() makes of it. *)
Escaping(e) ==
    /\ Len(e) = 3 /\ e[1] = "%"
    /\ HexDigitToValue(e[2]) >= 0 /\ HexDigitToValue(e[3]) >= 0
Clean(text) == text \in AnyText /\ \A i \in 1 .. Len(text): text[i] \notin {SP, CRLF, "&", "="}

LEMMA EscapesRead ==
  ASSUME NEW c \in Tokens, c # CRLF, NEW e \in Escapes(c)
  PROVE  /\ Clean(e)
         /\ \/ Escaping(e) /\ CharOf(16 * HexDigitToValue(e[2]) + HexDigitToValue(e[3])) = c
            \/ Len(e) = 1 /\ e[1] # "%" /\ c = IF e[1] = "+" THEN SP ELSE e[1]
  <1> DEFINE b == CHOOSE k \in DOMAIN Ascii: Ascii[k] = c
  <1>1. e \in AnyText
    BY Escaped
  <1>2. CASE e \in HexOf(b) /\ c \in Range(Ascii)
    <2>1. b \in DOMAIN Ascii /\ Ascii[b] = c
      BY <1>2 DEF Range
    <2>2. PICK H \in {HexDigits, HexCapitals}: e = <<"%", H[(b \div 16) + 1], H[(b % 16) + 1]>>
      BY <1>2 DEF HexOf
    <2> HIDE DEF b
    <2>3. b \in {32, 37, 38, 43, 58, 61, 63, 97}
      BY <2>1 DEF Ascii
    <2>4. b \div 16 \in 0 .. 15 /\ b % 16 \in 0 .. 15 /\ 16 * (b \div 16) + (b % 16) = b
      BY <2>3
    <2> DEFINE high == b \div 16
               low == b % 16
    <2>5. high \in 0 .. 15 /\ low \in 0 .. 15 /\ 16 * high + low = b
      BY <2>4
    <2>6. e = <<"%", H[high + 1], H[low + 1]>>
      BY <2>2
    <2> HIDE DEF high, low
    <2>7. Len(e) = 3 /\ e[1] = "%" /\ e[2] = H[high + 1] /\ e[3] = H[low + 1]
      BY <2>6
    <2>8. HexDigitToValue(e[2]) = high /\ HexDigitToValue(e[3]) = low
      BY <2>5, <2>7, DigitsRead
    <2>9. CharOf(16 * HexDigitToValue(e[2]) + HexDigitToValue(e[3])) = c
      BY <2>1, <2>5, <2>8 DEF CharOf
    <2>10. Escaping(e)
      BY <2>5, <2>7, <2>8 DEF Escaping
    <2>11. \A k \in 1 .. 16: HexDigits[k] \notin {SP, CRLF, "&", "="} /\ HexCapitals[k] \notin {SP, CRLF, "&", "="}
      <3> DEFINE digits == {"0", "1", "2", "3", "4", "5", "6", "7", "8", "9", "a", "b", "c", "d", "e", "f",
                            "A", "B", "C", "D", "E", "F"}
      <3>1. \A k \in 1 .. 16: HexDigits[k] \in digits /\ HexCapitals[k] \in digits
        BY DEF HexDigits, HexCapitals
      <3>2. \A d \in digits: d # SP /\ d # CRLF /\ d # "&" /\ d # "="
        BY Zenon DEF SP, CRLF
      <3> HIDE DEF digits
      <3>3. QED
        BY <3>1, <3>2
    <2>12. high + 1 \in 1 .. 16 /\ low + 1 \in 1 .. 16
      BY <2>5
    <2>13. "%" \notin {SP, CRLF, "&", "="}
      BY DEF SP, CRLF
    <2>14. \A i \in 1 .. 3: e[i] \notin {SP, CRLF, "&", "="}
      BY <2>7, <2>11, <2>12, <2>13
    <2>15. Clean(e)
      BY <1>1, <2>7, <2>14 DEF Clean
    <2>16. QED
      BY <2>9, <2>10, <2>15
  <1>3. CASE e = <<"+">> /\ c = SP
    <2>1. Len(e) = 1 /\ e[1] = "+" /\ "+" # "%" /\ "+" \notin {SP, CRLF, "&", "="}
      BY <1>3 DEF SP, CRLF
    <2>2. QED
      BY <1>1, <1>3, <2>1 DEF Clean
  <1>4. CASE e = <<c>> /\ c \notin {SP, "%", "&", "+", "="}
    <2>1. Len(e) = 1 /\ e[1] = c
      BY <1>4
    <2>2. QED
      BY <1>1, <1>4, <2>1 DEF Clean
  <1>5. Range(Ascii) = {SP, "%", "&", "+", COLON, "=", "?", "a"}
    <2>1. /\ Ascii[32] = SP /\ Ascii[37] = "%" /\ Ascii[38] = "&" /\ Ascii[43] = "+"
          /\ Ascii[58] = COLON /\ Ascii[61] = "=" /\ Ascii[63] = "?" /\ Ascii[97] = "a"
      BY DEF Ascii
    <2>2. DOMAIN Ascii = {32, 37, 38, 43, 58, 61, 63, 97}
      BY DEF Ascii
    <2>3. QED
      BY <2>1, <2>2 DEF Range
  <1>6. \/ e \in HexOf(b) /\ c \in Range(Ascii)
        \/ e = <<"+">> /\ c = SP
        \/ e = <<c>> /\ c \notin {SP, "%", "&", "+", "="}
    <2>1. Escapes(c) = IF c \notin Range(Ascii) THEN {<<c>>}
                       ELSE IF c = SP THEN HexOf(b) \cup {<<"+">>}
                       ELSE IF c \in {"%", "&", "+", "="} THEN HexOf(b) ELSE HexOf(b) \cup {<<c>>}
      BY DEF Escapes
    <2> HIDE DEF b
    <2>2. CASE c \notin Range(Ascii)
      <3>1. e = <<c>>
        BY <2>1, <2>2
      <3>2. QED
        BY <1>5, <2>2, <3>1
    <2>3. CASE c \in Range(Ascii) /\ c = SP
      <3>1. e \in HexOf(b) \/ e = <<"+">>
        BY <2>1, <2>3
      <3>2. QED
        BY <2>3, <3>1
    <2>4. CASE c \in Range(Ascii) /\ c \in {"%", "&", "+", "="} /\ c # SP
      <3>1. e \in HexOf(b)
        BY <2>1, <2>4
      <3>2. QED
        BY <2>4, <3>1
    <2>5. CASE c \in Range(Ascii) /\ c \notin {SP, "%", "&", "+", "="}
      <3>1. e \in HexOf(b) \/ e = <<c>>
        BY <2>1, <2>5
      <3>2. QED
        BY <2>5, <3>1
    <2>6. QED
      BY <2>2, <2>3, <2>4, <2>5
  <1>7. QED
    BY <1>2, <1>3, <1>4, <1>6

(* decode() from the position i, given what it makes of what comes after.  *)
EscapeAt(text, i) ==
    /\ text[i] = "%" /\ i + 2 <= Len(text)
    /\ HexDigitToValue(text[i + 1]) >= 0 /\ HexDigitToValue(text[i + 2]) >= 0
DecodedFrom(text, from, i) ==
    IF i > Len(text) THEN <<>>
    ELSE IF EscapeAt(text, i)
         THEN <<CharOf(16 * HexDigitToValue(text[i + 1]) + HexDigitToValue(text[i + 2]))>> \o from[i + 3]
         ELSE <<IF text[i] = "+" THEN SP ELSE text[i]>> \o from[i + 1]

LEMMA DecodedBySteps ==
  ASSUME NEW text \in AnyText
  PROVE  \E from: /\ \A i \in 1 .. Len(text) + 1: from[i] = DecodedFrom(text, from, i)
                  /\ Decode(text) = from[1]
  <1> DEFINE n == Len(text)
             Onward(f, m) == f = [i \in m .. n + 1 |-> DecodedFrom(text, f, i)]
             Bad == {m \in 1 .. n + 1: \A f: ~Onward(f, m)}
  <1>1. n \in Nat
    BY DEF AnyText
  <1>2. Bad = {}
    <2>1. SUFFICES ASSUME Bad # {} PROVE FALSE
      OBVIOUS
    <2> DEFINE m == Max(Bad)
    <2>2. m \in Bad /\ \A k \in Bad: k <= m
      <3> HIDE DEF Onward
      <3>1. Bad \subseteq 0 .. n + 1 /\ n + 1 \in Nat
        BY <1>1
      <3> HIDE DEF Bad, n
      <3>2. QED
        BY <2>1, <3>1, Greatest
    <2> HIDE DEF m
    <2>3. m \in 1 .. n + 1 /\ \A f: ~Onward(f, m)
      BY <2>2
    <2>4. CASE m = n + 1
      <3> DEFINE g == [i \in m .. n + 1 |-> <<>>]
      <3>1. \A i \in m .. n + 1: i > n
        BY <1>1, <2>4
      <3>2. \A i \in m .. n + 1: DecodedFrom(text, g, i) = <<>>
        BY <3>1 DEF DecodedFrom
      <3>3. Onward(g, m)
        BY <3>2
      <3>4. QED
        BY <2>3, <3>3
    <2>5. CASE m # n + 1
      <3>1. m + 1 \in 1 .. n + 1 /\ ~(m + 1 <= m) /\ m \in 1 .. n
        BY <1>1, <2>3, <2>5
      <3>2. \E f: Onward(f, m + 1)
        <4> HIDE DEF Onward
        <4>1. QED
          BY <2>2, <3>1
      <3>3. PICK f: Onward(f, m + 1)
        BY <3>2
      <3> DEFINE g == [i \in m .. n + 1 |-> DecodedFrom(text, f, i)]
      <3>4. \A i \in m + 1 .. n + 1: f[i] = DecodedFrom(text, f, i) /\ i \in m .. n + 1
        BY <1>1, <3>1, <3>3
      <3>5. \A i \in m + 1 .. n + 1: g[i] = f[i]
        BY <3>4
      <3> HIDE DEF Onward
      <3>6. \A i \in m .. n + 1: DecodedFrom(text, g, i) = DecodedFrom(text, f, i)
        <4>1. SUFFICES ASSUME NEW i \in m .. n + 1 PROVE DecodedFrom(text, g, i) = DecodedFrom(text, f, i)
          OBVIOUS
        <4>2. i <= n => i + 1 \in m + 1 .. n + 1
          BY <1>1, <3>1
        <4>3. EscapeAt(text, i) => i + 3 \in m + 1 .. n + 1
          BY <1>1, <3>1 DEF EscapeAt
        <4>4. i > n \/ i <= n
          BY <1>1, <3>1
        <4>5. CASE i > n
          BY <4>5 DEF DecodedFrom
        <4>6. CASE i <= n
          <5>1. g[i + 1] = f[i + 1] /\ (EscapeAt(text, i) => g[i + 3] = f[i + 3])
            BY <3>5, <4>2, <4>3, <4>6
          <5> HIDE DEF g
          <5>2. QED
            BY <5>1 DEF DecodedFrom
        <4>7. QED
          BY <4>4, <4>5, <4>6
      <3>7. g = [i \in m .. n + 1 |-> DecodedFrom(text, g, i)]
        BY <3>6
      <3>8. Onward(g, m)
        BY <3>7 DEF Onward
      <3>9. QED
        BY <2>3, <3>8
    <2>6. QED
      BY <2>4, <2>5
  <1>3. 1 \in 1 .. n + 1
    BY <1>1
  <1>4. \E f: Onward(f, 1)
    <2> HIDE DEF Onward
    <2>1. QED
      BY <1>2, <1>3
  <1> DEFINE from == CHOOSE f: Onward(f, 1)
  <1>5. Onward(from, 1)
    BY <1>4
  <1>6. Decode(text) = from[1]
    BY DEF Decode, DecodedFrom, EscapeAt
  <1> HIDE DEF from
  <1>7. \A i \in 1 .. n + 1: from[i] = DecodedFrom(text, from, i)
    BY <1>5
  <1>8. QED
    BY <1>6, <1>7

(* Texts put one after the other, each where the ones before it end.       *)
LaidAt(text, s, n, p) ==
    /\ p \in [0 .. n -> Nat] /\ p[0] = 0 /\ p[n] = Len(text)
    /\ \A i \in 1 .. n: /\ p[i] = p[i - 1] + Len(s[i]) /\ p[i] <= Len(text)
                        /\ \A k \in 1 .. Len(s[i]): text[p[i - 1] + k] = s[i][k]

LEMMA PartsLaid ==
  ASSUME NEW n \in Nat, NEW s, s \in [1 .. n -> AnyText]
  PROVE  FlattenSeq(s) \in AnyText /\ \E p: LaidAt(FlattenSeq(s), s, n, p)
  <1>1. s = [i \in 1 .. n |-> s[i]] /\ \A i \in 1 .. n: s[i] \in AnyText
    OBVIOUS
  <1>2. s \in Seq(AnyText) /\ Len(s) = n
    BY <1>1, IsASeq
  <1>3. FlattenSeq(s) \in AnyText
    <2>1. s \in Seq(Seq(Tokens))
      BY <1>2 DEF AnyText
    <2>2. QED
      BY <2>1, Flattened DEF AnyText
  <1>4. CASE n = 0
    <2> DEFINE p == [i \in 0 .. 0 |-> 0]
    <2>1. s = <<>>
      BY <1>2, <1>4, EmptySeq
    <2>2. FlattenSeq(s) = <<>>
      BY <2>1 DEF FlattenSeq
    <2>3. p \in [0 .. n -> Nat] /\ p[0] = 0 /\ Len(<<>>) = 0 /\ \A i \in 1 .. n: FALSE
      BY <1>4
    <2> HIDE DEF p
    <2>4. LaidAt(FlattenSeq(s), s, n, p)
      BY <1>4, <2>2, <2>3 DEF LaidAt
    <2>5. QED
      BY <1>3, <2>4
  <1>5. CASE n # 0
    <2>1. PICK f: /\ \A i \in 1 .. n: f[i] = IF i = 1 THEN s[i] ELSE f[i - 1] \o s[i]
                  /\ FlattenSeq(s) = f[n]
      BY <1>2, <1>5, FlattenedBySteps
    <2> DEFINE p == [i \in 0 .. n |-> IF i = 0 THEN 0 ELSE Len(f[i])]
               Upto(m) == /\ f[m] \in AnyText /\ p[m] = Len(f[m])
                          /\ \A i \in 1 .. m: /\ p[i] = p[i - 1] + Len(s[i]) /\ p[i] <= Len(f[m]) /\ p[i] \in Nat
                                              /\ \A k \in 1 .. Len(s[i]): f[m][p[i - 1] + k] = s[i][k]
               Wrong == {m \in 1 .. n: ~Upto(m)}
    <2>2. p[0] = 0 /\ \A i \in 1 .. n: p[i] = Len(f[i])
      OBVIOUS
    <2>3. p = [i \in 0 .. n |-> p[i]]
      OBVIOUS
    <2> HIDE DEF p
    <2>4. Wrong = {}
      <3>1. SUFFICES ASSUME Wrong # {} PROVE FALSE
        OBVIOUS
      <3> DEFINE m == Min(Wrong)
      <3>2. m \in Wrong /\ \A k \in Wrong: m <= k
        <4> HIDE DEF Upto
        <4>1. Wrong \subseteq Nat
          OBVIOUS
        <4> HIDE DEF Wrong
        <4>2. QED
          BY <3>1, <4>1, Least
      <3> HIDE DEF m
      <3>3. m \in 1 .. n /\ ~Upto(m) /\ s[m] \in AnyText /\ p[m] = Len(f[m])
        BY <1>1, <2>2, <3>2
      <3>4. CASE m = 1
        <4>1. f[m] = s[m] /\ p[m - 1] = 0 /\ Len(s[m]) \in Nat
          BY <2>1, <2>2, <3>3, <3>4 DEF AnyText
        <4>2. \A i \in 1 .. m: i = m
          BY <3>4
        <4>3. \A k \in 1 .. Len(s[m]): p[m - 1] + k = k
          BY <4>1
        <4>4. QED
          BY <3>3, <4>1, <4>2, <4>3
      <3>5. CASE m # 1
        <4>1. m - 1 \in 1 .. n /\ ~(m <= m - 1) /\ \A i \in 1 .. m: i = m \/ i \in 1 .. m - 1
          BY <3>3, <3>5
        <4>2. Upto(m - 1)
          <5> HIDE DEF Upto
          <5>1. QED
            BY <3>2, <4>1
        <4> DEFINE before == f[m - 1]
                   part == s[m]
                   both == f[m]
        <4>3. before \in AnyText /\ part \in AnyText /\ both = before \o part
          BY <2>1, <3>3, <3>5, <4>2
        <4> HIDE DEF before, part, both
        <4>4. /\ both \in AnyText /\ Len(both) = Len(before) + Len(part)
              /\ \A k \in 1 .. Len(before): both[k] = before[k]
              /\ \A k \in 1 .. Len(part): both[Len(before) + k] = part[k]
          BY <4>3, Parts
        <4>5. Len(before) \in Nat /\ Len(part) \in Nat
          BY <4>3 DEF AnyText
        <4>6. p[m - 1] = Len(before) /\ p[m] = Len(both)
          BY <3>3, <4>2 DEF before, both
        <4>7. \A i \in 1 .. m - 1:
                 /\ p[i] = p[i - 1] + Len(s[i]) /\ p[i] <= Len(before) /\ p[i] \in Nat
                 /\ \A k \in 1 .. Len(s[i]): before[p[i - 1] + k] = s[i][k]
          BY <4>2 DEF before
        <4>8. \A i \in 1 .. m - 1: s[i] \in AnyText /\ Len(s[i]) \in Nat /\ p[i - 1] \in Nat
          <5>1. SUFFICES ASSUME NEW i \in 1 .. m - 1 PROVE s[i] \in AnyText /\ Len(s[i]) \in Nat /\ p[i - 1] \in Nat
            OBVIOUS
          <5>2. i = 1 \/ i - 1 \in 1 .. m - 1
            BY <3>3
          <5>3. p[i - 1] \in Nat
            BY <2>2, <4>7, <5>2
          <5>4. i \in 1 .. n
            BY <3>3
          <5>5. QED
            BY <1>1, <5>3, <5>4 DEF AnyText
        <4>9. \A i \in 1 .. m - 1: \A k \in 1 .. Len(s[i]): p[i - 1] + k \in 1 .. Len(before)
          BY <4>5, <4>7, <4>8
        <4>10. \A i \in 1 .. m - 1: \A k \in 1 .. Len(s[i]): both[p[i - 1] + k] = s[i][k]
          BY <4>4, <4>7, <4>9
        <4>11. \A i \in 1 .. m - 1: p[i] <= Len(both)
          BY <4>4, <4>5, <4>7
        <4>12. /\ p[m] = p[m - 1] + Len(s[m]) /\ p[m] <= Len(both) /\ p[m] \in Nat
               /\ \A k \in 1 .. Len(s[m]): both[p[m - 1] + k] = s[m][k]
          BY <4>4, <4>5, <4>6 DEF part
        <4>13. Upto(m)
          BY <4>1, <4>4, <4>6, <4>7, <4>10, <4>11, <4>12 DEF both
        <4>14. QED
          BY <3>3, <4>13
      <3>6. QED
        BY <3>4, <3>5
    <2>5. n \in 1 .. n
      BY <1>5
    <2>6. Upto(n)
      <3> HIDE DEF Upto
      <3>1. QED
        BY <2>4, <2>5
    <2>7. \A i \in 0 .. n: p[i] \in Nat
      <3>1. \A i \in 0 .. n: i = 0 \/ i \in 1 .. n
        OBVIOUS
      <3>2. QED
        BY <2>2, <2>6, <3>1
    <2>8. p \in [0 .. n -> Nat]
      BY <2>3, <2>7
    <2>9. LaidAt(FlattenSeq(s), s, n, p)
      BY <2>1, <2>2, <2>6, <2>8 DEF LaidAt
    <2>10. QED
      BY <1>3, <2>9
  <1>6. QED
    BY <1>4, <1>5

(* Texts of certain tokens. *)
LEMMA TextsOf ==
  ASSUME NEW T
  PROVE  /\ \A text \in AnyText: (\A i \in 1 .. Len(text): text[i] \in T) => text \in Seq(T)
         /\ \A text \in Seq(T): \A i \in 1 .. Len(text): text[i] \in T
  <1>1. ASSUME NEW text \in AnyText, \A i \in 1 .. Len(text): text[i] \in T PROVE text \in Seq(T)
    <2>1. text = [i \in 1 .. Len(text) |-> text[i]] /\ Len(text) \in Nat
      BY DEF AnyText
    <2>2. QED
      BY <1>1, <2>1, IsASeq
  <1>2. QED
    BY <1>1

LEMMA PartsOf ==
  ASSUME NEW T, NEW n \in Nat, NEW s, s \in [1 .. n -> Seq(T)]
  PROVE  FlattenSeq(s) \in Seq(T)
  <1>1. s = [i \in 1 .. n |-> s[i]] /\ \A i \in 1 .. n: s[i] \in Seq(T)
    OBVIOUS
  <1>2. s \in Seq(Seq(T))
    BY <1>1, IsASeq
  <1>3. QED
    BY <1>2, Flattened

(* The rest of a text starts with its next character. *)
LEMMA FirstOfRest ==
  ASSUME NEW text \in AnyText, NEW k \in 0 .. Len(text) - 1
  PROVE  <<text[k + 1]>> \o After(text, k + 1) = After(text, k)
  <1> DEFINE c == text[k + 1]
             tail == After(text, k + 1)
             whole == After(text, k)
  <1>1. Len(text) \in Nat /\ k + 1 \in 1 .. Len(text) /\ k \in 0 .. Len(text) /\ k + 1 \in 0 .. Len(text)
    BY DEF AnyText
  <1>2. c \in Tokens
    BY <1>1 DEF AnyText
  <1>3. /\ tail \in AnyText /\ Len(tail) = Len(text) - (k + 1)
        /\ \A i \in 1 .. Len(text) - (k + 1): tail[i] = text[(k + 1) + i]
    BY <1>1, CutAfter
  <1>4. /\ whole \in AnyText /\ Len(whole) = Len(text) - k
        /\ \A i \in 1 .. Len(text) - k: whole[i] = text[k + i]
    BY <1>1, CutAfter
  <1> DEFINE one == <<c>>
             both == one \o tail
  <1>5. one \in AnyText /\ Len(one) = 1 /\ one[1] = c
    BY <1>2 DEF AnyText
  <1>6. whole[1] = c /\ 1 \in 1 .. Len(text) - k
    BY <1>1, <1>4
  <1> HIDE DEF c, tail, whole, one, both
  <1>7. /\ both \in AnyText /\ Len(both) = Len(one) + Len(tail)
        /\ \A i \in 1 .. Len(one): both[i] = one[i]
        /\ \A i \in 1 .. Len(tail): both[Len(one) + i] = tail[i]
    BY <1>3, <1>5, Parts DEF both
  <1>8. Len(both) = Len(whole)
    BY <1>1, <1>3, <1>4, <1>5, <1>7
  <1>9. \A i \in 1 .. Len(whole): both[i] = whole[i]
    <2>1. SUFFICES ASSUME NEW i \in 1 .. Len(whole) PROVE both[i] = whole[i]
      OBVIOUS
    <2>2. CASE i = 1
      BY <1>5, <1>6, <1>7, <2>2
    <2>3. CASE i # 1
      <3>1. i - 1 \in 1 .. Len(tail) /\ Len(one) + (i - 1) = i
        BY <1>1, <1>3, <1>4, <1>5, <2>3
      <3>2. both[i] = tail[i - 1]
        BY <1>7, <3>1
      <3>3. tail[i - 1] = text[(k + 1) + (i - 1)] /\ (k + 1) + (i - 1) = k + i
        BY <1>1, <1>3, <3>1
      <3>4. QED
        BY <1>4, <3>2, <3>3
    <2>4. QED
      BY <2>2, <2>3
  <1>10. both = whole
    BY <1>4, <1>7, <1>8, <1>9, SameText
  <1>11. QED
    BY <1>10 DEF both, one, c, tail, whole

(* What decode() makes of one part of an encoded text. *)
LEMMA DecodedPart ==
  ASSUME NEW code \in AnyText, NEW j \in 1 .. Len(code), NEW part, NEW c \in Tokens, c # CRLF,
         part \in Escapes(c), j - 1 + Len(part) <= Len(code),
         \A i \in 1 .. Len(part): code[j - 1 + i] = part[i],
         NEW from
  PROVE  DecodedFrom(code, from, j) = <<c>> \o from[j + Len(part)]
  <1>1. Len(code) \in Nat /\ ~(j > Len(code)) /\ j \in Int
    BY DEF AnyText
  <1>2. CASE Escaping(part) /\ CharOf(16 * HexDigitToValue(part[2]) + HexDigitToValue(part[3])) = c
    <2>1. Len(part) = 3 /\ part[1] = "%"
          /\ HexDigitToValue(part[2]) >= 0 /\ HexDigitToValue(part[3]) >= 0
      BY <1>2 DEF Escaping
    <2>2. code[j - 1 + 1] = part[1] /\ code[j - 1 + 2] = part[2] /\ code[j - 1 + 3] = part[3]
      BY <2>1
    <2>3. j - 1 + 1 = j /\ j - 1 + 2 = j + 1 /\ j - 1 + 3 = j + 2 /\ j + 2 <= Len(code)
      BY <1>1, <2>1
    <2>4. code[j] = "%" /\ code[j + 1] = part[2] /\ code[j + 2] = part[3]
      BY <2>1, <2>2, <2>3
    <2>5. EscapeAt(code, j)
      BY <2>1, <2>3, <2>4 DEF EscapeAt
    <2>6. DecodedFrom(code, from, j)
            = <<CharOf(16 * HexDigitToValue(code[j + 1]) + HexDigitToValue(code[j + 2]))>> \o from[j + 3]
      BY <1>1, <2>5 DEF DecodedFrom
    <2>7. QED
      BY <1>2, <2>1, <2>4, <2>6
  <1>3. CASE Len(part) = 1 /\ part[1] # "%" /\ c = IF part[1] = "+" THEN SP ELSE part[1]
    <2>1. j - 1 + 1 = j /\ code[j - 1 + 1] = part[1]
      BY <1>1, <1>3
    <2>2. code[j] = part[1]
      BY <2>1
    <2>3. ~EscapeAt(code, j)
      BY <1>3, <2>2 DEF EscapeAt
    <2>4. DecodedFrom(code, from, j) = <<IF code[j] = "+" THEN SP ELSE code[j]>> \o from[j + 1]
      BY <1>1, <2>3 DEF DecodedFrom
    <2>5. QED
      BY <1>3, <2>2, <2>4
  <1>4. QED
    BY <1>2, <1>3, EscapesRead

(* The tokens that an encoded text may have. *)
QueryTokens == Tokens \ {SP, CRLF, "&", "="}

(* decode() gives back a text from any of its encodings.                   *)
LEMMA DecodedBack ==
  ASSUME NEW text \in AnyText, \A i \in 1 .. Len(text): text[i] # CRLF, NEW code \in Encodings(text)
  PROVE  code \in AnyText /\ code \in Seq(QueryTokens) /\ Decode(code) = text
  <1> DEFINE n == Len(text)
             choices == [i \in DOMAIN text |-> Escapes(text[i])]
  <1>1. n \in Nat /\ DOMAIN text = 1 .. n /\ \A i \in 1 .. n: text[i] \in Tokens
    BY DEF AnyText
  <1>2. DOMAIN choices = 1 .. n /\ \A i \in 1 .. n: choices[i] = Escapes(text[i])
    BY <1>1
  <1>3. code \in Joined(choices)
    BY DEF Encodings
  <1> HIDE DEF choices, n
  <1>4. PICK parts \in [1 .. n -> UNION Range(choices)]:
               code = FlattenSeq(parts) /\ \A i \in 1 .. n: parts[i] \in choices[i]
    BY <1>2, <1>3 DEF Joined
  <1>5. \A i \in 1 .. n: parts[i] \in Escapes(text[i])
    BY <1>2, <1>4
  <1>6. \A i \in 1 .. n: text[i] # CRLF /\ Clean(parts[i])
    BY <1>1, <1>5, EscapesRead DEF n
  <1>7. \A i \in 1 .. n: parts[i] \in AnyText /\ parts[i] \in Seq(QueryTokens) /\ Len(parts[i]) \in {1, 3}
    <2>1. SUFFICES ASSUME NEW i \in 1 .. n
                   PROVE  parts[i] \in AnyText /\ parts[i] \in Seq(QueryTokens) /\ Len(parts[i]) \in {1, 3}
      OBVIOUS
    <2>2. parts[i] \in AnyText /\ \A k \in 1 .. Len(parts[i]): parts[i][k] \notin {SP, CRLF, "&", "="}
      BY <1>6 DEF Clean
    <2>3. \A k \in 1 .. Len(parts[i]): parts[i][k] \in QueryTokens
      BY <2>2 DEF QueryTokens, AnyText
    <2>4. Len(parts[i]) \in {1, 3}
      BY <1>1, <1>5, <1>6, EscapesRead DEF Escaping
    <2>5. QED
      BY <2>2, <2>3, <2>4, TextsOf
  <1>8. parts \in [1 .. n -> AnyText] /\ parts \in [1 .. n -> Seq(QueryTokens)]
    BY <1>4, <1>7
  <1>9. code \in AnyText /\ code \in Seq(QueryTokens) /\ \E p: LaidAt(code, parts, n, p)
    BY <1>1, <1>4, <1>8, PartsLaid, PartsOf
  <1>10. PICK p: LaidAt(code, parts, n, p)
    BY <1>9
  <1>11. PICK from: /\ \A i \in 1 .. Len(code) + 1: from[i] = DecodedFrom(code, from, i)
                    /\ Decode(code) = from[1]
    BY <1>9, DecodedBySteps
  <1> DEFINE Right(k) == from[p[k] + 1] = After(text, k)
             Wrong == {k \in 0 .. n: ~Right(k)}
  <1>12. Wrong = {}
    <2>1. SUFFICES ASSUME Wrong # {} PROVE FALSE
      OBVIOUS
    <2> DEFINE m == Max(Wrong)
    <2>2. m \in Wrong /\ \A k \in Wrong: k <= m
      <3> HIDE DEF Right
      <3>1. Wrong \subseteq 0 .. n
        OBVIOUS
      <3> HIDE DEF Wrong
      <3>2. QED
        BY <1>1, <2>1, <3>1, Greatest
    <2> HIDE DEF m
    <2>3. m \in 0 .. n /\ ~Right(m)
      BY <2>2
    <2>4. p[m] \in Nat /\ p[n] = Len(code) /\ Len(code) \in Nat
      BY <1>9, <1>10, <2>3 DEF LaidAt, AnyText
    <2>5. CASE m = n
      <3>1. p[m] + 1 \in 1 .. Len(code) + 1 /\ p[m] + 1 > Len(code)
        BY <2>4, <2>5
      <3>2. DecodedFrom(code, from, p[m] + 1) = <<>>
        BY <3>1 DEF DecodedFrom
      <3>3. After(text, m) \in AnyText /\ Len(After(text, m)) = 0
        BY <1>1, <2>5, CutAfter DEF n
      <3>4. After(text, m) = <<>>
        BY <3>3, EmptySeq DEF AnyText
      <3>5. QED
        BY <1>11, <2>3, <3>1, <3>2, <3>4
    <2>6. CASE m # n
      <3>1. m + 1 \in 1 .. n /\ m + 1 \in 0 .. n /\ ~(m + 1 <= m) /\ m + 1 - 1 = m /\ m \in 0 .. Len(text) - 1
        <4>1. m + 1 \in 1 .. n /\ m + 1 \in 0 .. n /\ ~(m + 1 <= m) /\ m + 1 - 1 = m /\ m \in 0 .. n - 1
          BY <1>1, <2>3, <2>6
        <4>2. n = Len(text)
          BY DEF n
        <4>3. QED
          BY <4>1, <4>2
      <3>2. Right(m + 1)
        <4> HIDE DEF Right
        <4>1. QED
          BY <2>2, <3>1
      <3> DEFINE part == parts[m + 1]
                 c == text[m + 1]
                 j == p[m] + 1
      <3>3. /\ p[m + 1] = p[m] + Len(part) /\ p[m + 1] <= Len(code)
            /\ \A i \in 1 .. Len(part): code[p[m] + i] = part[i]
        BY <1>10, <3>1 DEF LaidAt
      <3>4. c \in Tokens /\ c # CRLF /\ part \in Escapes(c) /\ Len(part) \in {1, 3}
        BY <1>1, <1>5, <1>6, <1>7, <3>1
      <3> HIDE DEF part, c
      <3>5. j \in 1 .. Len(code) /\ j \in 1 .. Len(code) + 1 /\ j - 1 = p[m]
            /\ j - 1 + Len(part) <= Len(code) /\ j + Len(part) = p[m + 1] + 1
        <4> DEFINE w == Len(part)
        <4>1. w \in {1, 3} /\ p[m + 1] = p[m] + w /\ p[m + 1] <= Len(code)
          BY <3>3, <3>4
        <4> HIDE DEF w
        <4>2. /\ j \in 1 .. Len(code) /\ j \in 1 .. Len(code) + 1 /\ j - 1 = p[m]
              /\ j - 1 + w <= Len(code) /\ j + w = p[m + 1] + 1
          BY <2>4, <4>1
        <4>3. QED
          BY <4>2 DEF w
      <3> HIDE DEF j
      <3>6. \A i \in 1 .. Len(part): code[j - 1 + i] = part[i]
        BY <3>3, <3>5
      <3>7. DecodedFrom(code, from, j) = <<c>> \o from[j + Len(part)]
        BY <1>9, <3>4, <3>5, <3>6, DecodedPart
      <3>8. from[j + Len(part)] = After(text, m + 1)
        BY <3>2, <3>5
      <3>9. <<c>> \o After(text, m + 1) = After(text, m)
        BY <3>1, FirstOfRest DEF c
      <3>10. from[j] = After(text, m)
        BY <1>11, <3>5, <3>7, <3>8, <3>9
      <3>11. QED
        BY <2>3, <3>10 DEF j
    <2>7. QED
      BY <2>5, <2>6
  <1>13. 0 \in 0 .. n
    BY <1>1
  <1>14. Right(0)
    <2> HIDE DEF Right
    <2>1. QED
      BY <1>12, <1>13
  <1>15. p[0] + 1 = 1 /\ After(text, 0) = text
    BY <1>10, AfterNone DEF LaidAt
  <1>16. QED
    BY <1>9, <1>11, <1>14, <1>15

(* What Before(), After() and Find() say of texts put together.            *)
LEMMA FirstPart ==
  ASSUME NEW a \in AnyText, NEW b \in AnyText
  PROVE  Before(a \o b, Len(a) + 1) = a
  <1> DEFINE both == a \o b
             e == Len(a) + 1
             cut == Before(both, e)
  <1>1. /\ both \in AnyText /\ Len(both) = Len(a) + Len(b)
        /\ \A k \in 1 .. Len(a): both[k] = a[k]
    BY Parts
  <1>2. Len(a) \in Nat /\ Len(b) \in Nat
    BY DEF AnyText
  <1>3. e \in 1 .. Len(both) + 1 /\ e - 1 = Len(a)
    BY <1>1, <1>2
  <1> HIDE DEF both, e
  <1>4. cut \in AnyText /\ Len(cut) = e - 1 /\ \A k \in 1 .. e - 1: cut[k] = both[k]
    BY <1>1, <1>3, CutBefore
  <1> HIDE DEF cut
  <1>5. cut = a
    BY <1>1, <1>3, <1>4, SameText
  <1>6. QED
    BY <1>5 DEF cut, both, e

LEMMA LastPart ==
  ASSUME NEW a \in AnyText, NEW b \in AnyText, NEW j \in 0 .. Len(b)
  PROVE  After(a \o b, Len(a) + j) = After(b, j)
  <1> DEFINE both == a \o b
             cut == After(both, Len(a) + j)
             direct == After(b, j)
  <1>1. /\ both \in AnyText /\ Len(both) = Len(a) + Len(b)
        /\ \A k \in 1 .. Len(b): both[Len(a) + k] = b[k]
    BY Parts
  <1>2. Len(a) \in Nat /\ Len(b) \in Nat
    BY DEF AnyText
  <1> HIDE DEF both
  <1>3. Len(a) + j \in 0 .. Len(both) /\ Len(both) - (Len(a) + j) = Len(b) - j
    BY <1>1, <1>2
  <1>4. /\ cut \in AnyText /\ Len(cut) = Len(b) - j
        /\ \A k \in 1 .. Len(b) - j: cut[k] = both[(Len(a) + j) + k]
    BY <1>1, <1>3, CutAfter
  <1>5. /\ direct \in AnyText /\ Len(direct) = Len(b) - j
        /\ \A k \in 1 .. Len(b) - j: direct[k] = b[j + k]
    BY CutAfter
  <1> HIDE DEF cut, direct
  <1>6. \A k \in 1 .. Len(b) - j: j + k \in 1 .. Len(b) /\ (Len(a) + j) + k = Len(a) + (j + k)
    BY <1>2
  <1>7. \A k \in 1 .. Len(b) - j: cut[k] = direct[k]
    BY <1>1, <1>4, <1>5, <1>6
  <1>8. cut = direct
    BY <1>4, <1>5, <1>7, SameText
  <1>9. QED
    BY <1>8 DEF cut, direct, both

(* A text seen from its first separator. *)
LEMMA Separated ==
  ASSUME NEW a \in AnyText, NEW b \in AnyText, NEW x \in Tokens, \A i \in 1 .. Len(a): a[i] # x
  PROVE  LET text == a \o (<<x>> \o b)
         IN /\ text \in AnyText /\ Len(text) = Len(a) + 1 + Len(b)
            /\ Find(text, x) = Len(a) + 1
            /\ Before(text, Find(text, x)) = a /\ After(text, Find(text, x)) = b
  <1> DEFINE mark == <<x>>
             tail == mark \o b
             text == a \o tail
  <1>1. mark \in AnyText /\ Len(mark) = 1 /\ mark[1] = x
    BY DEF AnyText
  <1> HIDE DEF mark
  <1>2. /\ tail \in AnyText /\ Len(tail) = Len(mark) + Len(b)
        /\ \A k \in 1 .. Len(mark): tail[k] = mark[k]
    BY <1>1, Parts
  <1>3. Len(a) \in Nat /\ Len(b) \in Nat
    BY DEF AnyText
  <1>4. After(tail, 1) = b
    <2>1. 0 \in 0 .. Len(b) /\ Len(mark) + 0 = 1
      BY <1>1, <1>3
    <2>2. After(tail, Len(mark) + 0) = After(b, 0)
      BY <1>1, <2>1, LastPart
    <2>3. QED
      BY <2>1, <2>2, AfterNone
  <1> HIDE DEF tail
  <1>5. /\ text \in AnyText /\ Len(text) = Len(a) + Len(tail)
        /\ \A k \in 1 .. Len(a): text[k] = a[k]
        /\ \A k \in 1 .. Len(tail): text[Len(a) + k] = tail[k]
    BY <1>2, Parts
  <1>6. Before(text, Len(a) + 1) = a
    BY <1>2, FirstPart
  <1>7. After(text, Len(a) + 1) = b
    <2>1. 1 \in 0 .. Len(tail)
      BY <1>1, <1>2, <1>3
    <2>2. QED
      BY <1>2, <1>4, <2>1, LastPart
  <1> HIDE DEF text
  <1>8. Len(tail) = 1 + Len(b) /\ 1 \in 1 .. Len(tail) /\ tail[1] = x
    BY <1>1, <1>2, <1>3
  <1>9. Len(a) + 1 \in 1 .. Len(text) /\ text[Len(a) + 1] = x /\ Len(text) = Len(a) + 1 + Len(b)
    BY <1>3, <1>5, <1>8
  <1>10. \A i \in 1 .. (Len(a) + 1) - 1: text[i] # x
    BY <1>3, <1>5
  <1>11. Find(text, x) = Len(a) + 1
    BY <1>5, <1>9, <1>10, FoundAt
  <1>12. QED
    BY <1>5, <1>6, <1>7, <1>9, <1>11 DEF text, tail, mark

LEMMA NotFound ==
  ASSUME NEW text \in AnyText, NEW x, \A i \in 1 .. Len(text): text[i] # x
  PROVE  Find(text, x) = 0
  <1>1. Len(text) \in Nat
    BY DEF AnyText
  <1>2. QED
    BY <1>1, Found

(* A parameter as it stands in a query string, behind its '?' or '&'.      *)
PairTokens == Tokens \ {SP, CRLF, "&"}
LineTokens == Tokens \ {SP, CRLF}
Lead(i) == IF i = 1 THEN "?" ELSE "&"

(* A parameter's text is one pair of the query string, whose halves decode *)
(* to the name and the value.                                              *)
LEMMA ParamRead ==
  ASSUME NEW c \in Calls, NEW i \in DOMAIN c.params, NEW part \in ParamTexts(c, i),
         CRLF \notin Range(c.params[i][1]) \cup Range(c.params[i][2])
  PROVE  LET pair == After(part, 1)
         IN /\ part \in AnyText /\ part \in Seq(LineTokens) /\ Len(part) > 1 /\ part[1] = Lead(i)
            /\ pair \in AnyText /\ pair \in Seq(PairTokens) /\ Len(pair) = Len(part) - 1
            /\ Find(pair, "=") # 0
            /\ Decode(Before(pair, Find(pair, "="))) = c.params[i][1]
            /\ Decode(After(pair, Find(pair, "="))) = c.params[i][2]
  <1> DEFINE key == c.params[i][1]
             value == c.params[i][2]
             lead == <<Lead(i)>>
             eq == <<"=">>
             pair == After(part, 1)
  <1>1. key \in AnyText /\ value \in AnyText
    BY CallTexts, TextsAny
  <1>2. PICK k \in Encodings(key), v \in Encodings(value): part = lead \o k \o eq \o v
    <2>1. i \in Int
      BY CallTexts
    <2>2. PICK k \in Encodings(key), v \in Encodings(value):
                 part = <<IF i = 1 THEN "?" ELSE "&">> \o k \o <<"=">> \o v
      BY <2>1 DEF ParamTexts
    <2>3. lead = <<IF i = 1 THEN "?" ELSE "&">> /\ eq = <<"=">>
      BY DEF Lead
    <2> HIDE DEF lead, eq, key, value
    <2>4. QED
      BY <2>2, <2>3
  <1>3. \A t \in AnyText: CRLF \notin Range(t) => \A j \in 1 .. Len(t): t[j] # CRLF
    BY DEF Range, AnyText
  <1>4. CRLF \notin Range(key) /\ CRLF \notin Range(value)
    OBVIOUS
  <1> HIDE DEF key, value
  <1>5. /\ k \in AnyText /\ k \in Seq(QueryTokens) /\ Decode(k) = key
        /\ v \in AnyText /\ v \in Seq(QueryTokens) /\ Decode(v) = value
    BY <1>1, <1>3, <1>4, DecodedBack
  <1>6. lead \in AnyText /\ eq \in AnyText /\ Len(lead) = 1 /\ lead[1] = Lead(i) /\ "=" \in Tokens
    BY Separators DEF AnyText, Lead
  <1>18. lead \in Seq(LineTokens)
    <2>1. Lead(i) \in Tokens
      BY Separators DEF Lead
    <2>2. Lead(i) # SP /\ Lead(i) # CRLF
      BY Zenon DEF Lead, SP, CRLF
    <2>3. Lead(i) \in LineTokens
      BY <2>1, <2>2 DEF LineTokens
    <2>4. QED
      BY <2>3
  <1>7. eq = <<"=">> /\ eq \in Seq(PairTokens)
    <2>1. "=" \in PairTokens
      BY <1>6, Zenon DEF PairTokens, SP, CRLF
    <2>2. QED
      BY <2>1
  <1> HIDE DEF lead, eq
  <1> DEFINE whole == k \o (eq \o v)
  <1>8. part = lead \o whole
    <2>1. (lead \o k) \o eq = lead \o (k \o eq)
      BY <1>5, <1>6, Regrouped
    <2>2. k \o eq \in AnyText
      BY <1>5, <1>6, Glued
    <2>3. (lead \o (k \o eq)) \o v = lead \o ((k \o eq) \o v)
      BY <1>5, <1>6, <2>2, Regrouped
    <2>4. (k \o eq) \o v = k \o (eq \o v)
      BY <1>5, <1>6, Regrouped
    <2>5. QED
      BY <1>2, <2>1, <2>3, <2>4
  <1>9. \A j \in 1 .. Len(k): k[j] # "="
    BY <1>5, TextsOf DEF QueryTokens
  <1>10. /\ whole \in AnyText /\ Len(whole) = Len(k) + 1 + Len(v)
         /\ Find(whole, "=") = Len(k) + 1
         /\ Before(whole, Find(whole, "=")) = k /\ After(whole, Find(whole, "=")) = v
    BY <1>5, <1>6, <1>7, <1>9, Separated
  <1>11. whole \in Seq(PairTokens)
    <2>1. QueryTokens \subseteq PairTokens
      BY DEF QueryTokens, PairTokens
    <2>2. k \in Seq(PairTokens) /\ v \in Seq(PairTokens)
      BY <1>5, <2>1
    <2>3. QED
      BY <1>7, <2>2, ConcatProperties
  <1>19. part \in Seq(LineTokens)
    <2>1. PairTokens \subseteq LineTokens
      BY DEF LineTokens, PairTokens
    <2>2. whole \in Seq(LineTokens)
      BY <1>11, <2>1
    <2> HIDE DEF whole
    <2>3. QED
      BY <1>8, <1>18, <2>2, ConcatProperties
  <1> HIDE DEF whole
  <1>12. /\ part \in AnyText /\ Len(part) = Len(lead) + Len(whole)
         /\ \A j \in 1 .. Len(lead): part[j] = lead[j]
    BY <1>6, <1>8, <1>10, Parts
  <1>13. Len(k) \in Nat /\ Len(v) \in Nat
    BY <1>5 DEF AnyText
  <1>14. Len(part) = 1 + Len(whole) /\ Len(part) > 1 /\ Len(whole) \in Nat /\ Len(whole) > 0 /\ part[1] = Lead(i)
    BY <1>6, <1>10, <1>12, <1>13
  <1>15. pair = whole
    <2>1. 0 \in 0 .. Len(whole) /\ Len(lead) + 0 = 1
      BY <1>6, <1>14
    <2>2. After(part, Len(lead) + 0) = After(whole, 0)
      BY <1>6, <1>8, <1>10, <2>1, LastPart
    <2>3. QED
      BY <1>10, <2>1, <2>2, AfterNone
  <1>16. Find(whole, "=") # 0
    BY <1>10, <1>13
  <1>17. /\ pair \in AnyText /\ pair \in Seq(PairTokens) /\ Len(pair) = Len(part) - 1
         /\ Find(pair, "=") # 0
         /\ Decode(Before(pair, Find(pair, "="))) = key
         /\ Decode(After(pair, Find(pair, "="))) = value
    <2>1. /\ Decode(Before(whole, Find(whole, "="))) = key
          /\ Decode(After(whole, Find(whole, "="))) = value
      BY <1>5, <1>10
    <2>2. Len(whole) = Len(part) - 1
      BY <1>14
    <2> HIDE DEF pair
    <2>3. QED
      BY <1>10, <1>11, <1>15, <1>16, <2>1, <2>2
  <1>20. QED
    BY <1>12, <1>14, <1>17, <1>19, Zenon DEF key, value

(* A request target: the path and the parameters of a call, in any encoding. *)
Parted(c, target, parts) ==
    /\ parts \in [1 .. Len(c.params) -> AnyText]
    /\ \A i \in 1 .. Len(c.params): parts[i] \in ParamTexts(c, i)
    /\ target = c.path \o FlattenSeq(parts)

(* ParamRead, for all parameters of a call, which has no '?' in its path.  *)
LEMMA CallParts ==
  ASSUME NEW c \in Calls
  PROVE  /\ Len(c.params) \in Nat /\ DOMAIN c.params = 1 .. Len(c.params)
         /\ \A i \in 1 .. Len(c.params): \A part \in ParamTexts(c, i):
              LET pair == After(part, 1)
              IN /\ part \in AnyText /\ part \in Seq(LineTokens) /\ Len(part) > 1 /\ part[1] = Lead(i)
                 /\ pair \in AnyText /\ pair \in Seq(PairTokens) /\ Len(pair) = Len(part) - 1
                 /\ Find(pair, "=") # 0
                 /\ Decode(Before(pair, Find(pair, "="))) = c.params[i][1]
                 /\ Decode(After(pair, Find(pair, "="))) = c.params[i][2]
         /\ \A k \in 1 .. Len(c.path): c.path[k] \notin {SP, "?", CRLF}
  <1>1. c.params \in Seq(Texts \X Texts) /\ c.path \in AnyText
    BY CallTexts
  <1>2. Len(c.params) \in Nat /\ DOMAIN c.params = 1 .. Len(c.params)
    BY <1>1
  <1>3. \A i \in DOMAIN c.params: CRLF \notin Range(c.params[i][1]) \cup Range(c.params[i][2])
    BY CallAssumption
  <1>4. \A k \in 1 .. Len(c.path): c.path[k] \notin {SP, "?", CRLF}
    <2>1. Range(c.path) \cap {SP, "?", CRLF} = {}
      BY CallAssumption
    <2>2. \A k \in 1 .. Len(c.path): c.path[k] \in Range(c.path)
      BY <1>1 DEF Range, AnyText
    <2>3. QED
      BY <2>1, <2>2
  <1>5. QED
    BY <1>2, <1>3, <1>4, ParamRead

LEMMA TargetParted ==
  ASSUME NEW c \in Calls, NEW target \in Targets(c)
  PROVE  \E parts: Parted(c, target, parts)
  <1> DEFINE choices == [i \in DOMAIN c.params |-> ParamTexts(c, i)]
             n == Len(c.params)
  <1>1. n \in Nat /\ DOMAIN c.params = 1 .. n
        /\ \A i \in 1 .. n: \A part \in ParamTexts(c, i): part \in AnyText
    BY CallParts
  <1>2. DOMAIN choices = 1 .. n /\ \A i \in 1 .. n: choices[i] = ParamTexts(c, i)
    BY <1>1
  <1>3. \E q \in Joined(choices): target = c.path \o q
    BY DEF Targets
  <1> HIDE DEF choices, n
  <1>4. PICK parts \in [1 .. n -> UNION Range(choices)]:
               target = c.path \o FlattenSeq(parts) /\ \A i \in 1 .. n: parts[i] \in choices[i]
    BY <1>2, <1>3 DEF Joined
  <1>5. \A i \in 1 .. n: parts[i] \in ParamTexts(c, i) /\ parts[i] \in AnyText
    BY <1>1, <1>2, <1>4
  <1>6. parts \in [1 .. n -> AnyText]
    BY <1>4, <1>5
  <1>7. Parted(c, target, parts)
    BY <1>4, <1>5, <1>6 DEF Parted, n
  <1>8. QED
    BY <1>7

(* Where the parser cuts it.                                               *)
LEMMA TargetCut ==
  ASSUME NEW c \in Calls, NEW target, NEW parts, Parted(c, target, parts)
  PROVE  LET mark == Find(target, "?")
         IN /\ target \in AnyText /\ \A k \in 1 .. Len(target): target[k] \notin {SP, CRLF}
            /\ FlattenSeq(parts) \in AnyText /\ \E p: LaidAt(FlattenSeq(parts), parts, Len(c.params), p)
            /\ c.params = <<>> => mark = 0 /\ target = c.path
            /\ c.params # <<>> => /\ mark # 0 /\ Before(target, mark) = c.path
                                  /\ After(target, mark) = After(FlattenSeq(parts), 1)
  <1> DEFINE n == Len(c.params)
             q == FlattenSeq(parts)
             path == c.path
             mark == Find(target, "?")
  <1>1. /\ n \in Nat /\ parts \in [1 .. n -> AnyText] /\ target = path \o q
        /\ \A i \in 1 .. n: /\ parts[i] \in Seq(LineTokens) /\ Len(parts[i]) > 1
                            /\ parts[i][1] = Lead(i)
        /\ \A k \in 1 .. Len(path): path[k] \notin {SP, "?", CRLF}
    BY CallParts DEF Parted
  <1>2. path \in AnyText /\ c.params \in Seq(Texts \X Texts)
    BY CallTexts
  <1>3. q \in AnyText /\ \E p: LaidAt(q, parts, n, p)
    BY <1>1, PartsLaid
  <1>4. q \in Seq(LineTokens)
    <2>1. parts \in [1 .. n -> Seq(LineTokens)]
      BY <1>1
    <2>2. QED
      BY <1>1, <2>1, PartsOf
  <1> HIDE DEF path
  <1>5. path \in Seq(LineTokens)
    <2>1. \A k \in 1 .. Len(path): path[k] \in LineTokens
      BY <1>1, <1>2 DEF LineTokens, AnyText
    <2>2. QED
      BY <1>2, <2>1, TextsOf
  <1>6. /\ target \in AnyText /\ Len(target) = Len(path) + Len(q)
        /\ \A k \in 1 .. Len(path): target[k] = path[k]
        /\ \A k \in 1 .. Len(q): target[Len(path) + k] = q[k]
    BY <1>1, <1>2, <1>3, Parts
  <1>7. \A k \in 1 .. Len(target): target[k] \notin {SP, CRLF}
    <2>1. target \in Seq(LineTokens)
      BY <1>1, <1>4, <1>5, ConcatProperties
    <2>2. QED
      BY <2>1, TextsOf DEF LineTokens
  <1>8. Len(path) \in Nat /\ Len(q) \in Nat
    BY <1>2, <1>3 DEF AnyText
  <1>9. CASE c.params = <<>>
    <2>1. n = 0
      BY <1>9
    <2>2. PICK p: LaidAt(q, parts, n, p)
      BY <1>3
    <2>3. Len(q) = 0
      BY <2>1, <2>2 DEF LaidAt
    <2>4. q = <<>>
      BY <1>3, <2>3, EmptySeq DEF AnyText
    <2>5. target = path
      BY <1>1, <1>2, <2>4, ConcatEmptySeq DEF AnyText
    <2>6. mark = 0
      BY <1>1, <1>6, <2>5, NotFound
    <2> HIDE DEF mark, q, n
    <2>7. QED
      BY <1>3, <1>6, <1>7, <1>9, <2>5, <2>6 DEF mark, q, n, path
  <1>10. CASE c.params # <<>>
    <2>1. 1 \in 1 .. n
      BY <1>1, <1>2, <1>10, EmptySeq
    <2>2. PICK p: LaidAt(q, parts, n, p)
      BY <1>3
    <2>3. /\ p[0] = 0 /\ p[1] = p[1 - 1] + Len(parts[1]) /\ p[1] <= Len(q)
          /\ \A k \in 1 .. Len(parts[1]): q[p[1 - 1] + k] = parts[1][k]
      BY <2>1, <2>2 DEF LaidAt
    <2>4. Len(parts[1]) \in Nat /\ Len(parts[1]) > 1 /\ parts[1][1] = "?"
      <3>1. parts[1] \in AnyText
        BY <1>1, <2>1
      <3>2. QED
        BY <1>1, <2>1, <3>1 DEF Lead, AnyText
    <2>5. 1 \in 1 .. Len(parts[1]) /\ p[1 - 1] + 1 = 1 /\ 1 \in 1 .. Len(q)
      BY <1>8, <2>3, <2>4
    <2>6. q[1] = "?"
      BY <2>3, <2>4, <2>5
    <2> DEFINE e == Len(path) + 1
    <2>7. e \in 1 .. Len(target) /\ target[e] = "?" /\ \A k \in 1 .. e - 1: target[k] # "?"
      BY <1>1, <1>6, <1>8, <2>5, <2>6
    <2> HIDE DEF e
    <2>14. mark = e
      BY <1>6, <2>7, FoundAt
    <2>8. mark = Len(path) + 1
      BY <2>14 DEF e
    <2>9. Before(target, Len(path) + 1) = path
      BY <1>1, <1>2, <1>3, FirstPart
    <2>10. 1 \in 0 .. Len(q)
      BY <2>5
    <2>11. After(target, Len(path) + 1) = After(q, 1)
      BY <1>1, <1>2, <1>3, <2>10, LastPart
    <2>12. mark # 0
      BY <1>8, <2>8
    <2> HIDE DEF mark, q, n
    <2>13. QED
      BY <1>3, <1>6, <1>7, <1>10, <2>8, <2>9, <2>11, <2>12 DEF mark, q, n, path
  <1>11. QED
    BY <1>9, <1>10

(* The parser takes one parameter of a query string.                       *)
LEMMA ParamNext ==
  ASSUME NEW c \in Calls, NEW target, NEW parts, Parted(c, target, parts),
         NEW p, LaidAt(FlattenSeq(parts), parts, Len(c.params), p),
         NEW m \in 0 .. Len(c.params) - 1,
         NEW left, left = After(FlattenSeq(parts), p[m] + 1),
         NEW amp, amp = Find(left, "&"),
         NEW pair, pair = IF amp = 0 THEN left ELSE Before(left, amp)
  PROVE  /\ pair = After(parts[m + 1], 1)
         /\ m + 1 = Len(c.params) => amp = 0
         /\ m + 1 # Len(c.params) => /\ amp # 0 /\ After(left, amp) # <<>>
                                     /\ After(left, amp) = After(FlattenSeq(parts), p[m + 1] + 1)
  <1> DEFINE n == Len(c.params)
             q == FlattenSeq(parts)
             part == parts[m + 1]
             w == Len(part)
             ours == After(part, 1)
  <1>1. n \in Nat /\ m \in Nat /\ m + 1 \in 1 .. n /\ m + 1 - 1 = m /\ q \in AnyText /\ Len(q) \in Nat
    BY CallParts, TargetCut DEF AnyText
  <1>2. /\ parts[m + 1] \in ParamTexts(c, m + 1) /\ part \in AnyText /\ w > 1 /\ w \in Nat
        /\ ours \in AnyText /\ ours \in Seq(PairTokens) /\ Len(ours) = w - 1
    <2>1. parts[m + 1] \in ParamTexts(c, m + 1)
      BY <1>1 DEF Parted
    <2>2. QED
      BY <1>1, <2>1, CallParts DEF AnyText
  <1>3. /\ p[m] \in Nat /\ p[m + 1] = p[m] + w /\ p[m + 1] <= Len(q) /\ p[n] = Len(q)
        /\ \A k \in 1 .. w: q[p[m] + k] = part[k]
    <2>1. m \in 0 .. n
      BY <1>1
    <2> HIDE DEF n
    <2>2. LaidAt(q, parts, n, p)
      BY DEF n
    <2>3. QED
      BY <1>1, <2>1, <2>2 DEF LaidAt
  <1>4. \A k \in 1 .. w - 1: ours[k] = part[k + 1]
    <2>1. 1 \in 0 .. w
      BY <1>2
    <2>2. \A k \in 1 .. w - 1: ours[k] = part[1 + k]
      BY <1>2, <2>1, CutAfter
    <2>3. \A k \in 1 .. w - 1: 1 + k = k + 1
      BY <1>2
    <2>4. QED
      BY <2>2, <2>3
  <1>5. \A k \in 1 .. w - 1: ours[k] # "&"
    <2>1. \A k \in 1 .. Len(ours): ours[k] \in PairTokens
      BY <1>2, TextsOf
    <2>2. QED
      BY <1>2, <2>1 DEF PairTokens
  <1> HIDE DEF q, part, w, ours
  <1> DEFINE at == p[m] + 1
  <1>6. at \in 0 .. Len(q) /\ Len(q) - at = Len(q) - p[m] - 1 /\ at + w = p[m + 1] + 1 /\ at \in Nat
    <2> DEFINE here == p[m]
               next == p[m + 1]
    <2>1. here \in Nat /\ next = here + w /\ next <= Len(q) /\ w \in Nat /\ w > 1 /\ Len(q) \in Nat
      BY <1>1, <1>2, <1>3
    <2> HIDE DEF here, next
    <2>2. here + 1 \in 0 .. Len(q) /\ Len(q) - (here + 1) = Len(q) - here - 1
          /\ (here + 1) + w = next + 1 /\ here + 1 \in Nat
      BY <2>1
    <2>3. QED
      BY <2>2 DEF here, next
  <1>7. left = After(q, at)
    BY DEF q
  <1> HIDE DEF at
  <1>8. /\ left \in AnyText /\ Len(left) = Len(q) - at
        /\ \A k \in 1 .. Len(q) - at: left[k] = q[at + k]
    <2>1. /\ After(q, at) \in AnyText /\ Len(After(q, at)) = Len(q) - at
          /\ \A k \in 1 .. Len(q) - at: After(q, at)[k] = q[at + k]
      BY <1>1, <1>6, CutAfter
    <2>2. QED
      BY <1>7, <2>1
  <1>9. \A k \in 1 .. w - 1: left[k] = ours[k]
    <2>1. SUFFICES ASSUME NEW k \in 1 .. w - 1 PROVE left[k] = ours[k]
      OBVIOUS
    <2> DEFINE here == p[m]
               next == p[m + 1]
    <2>5. here \in Nat /\ next = here + w /\ next <= Len(q) /\ w \in Nat /\ Len(q) \in Nat /\ k \in Nat
      BY <1>1, <1>2, <1>3
    <2>6. at = here + 1
      BY DEF at
    <2> HIDE DEF here, next
    <2>7. k \in 1 .. Len(q) - at /\ k + 1 \in 1 .. w /\ at + k = here + (k + 1)
      BY <2>5, <2>6
    <2>2. k \in 1 .. Len(q) - at /\ k + 1 \in 1 .. w /\ at + k = p[m] + (k + 1)
      BY <2>7 DEF here
    <2>3. left[k] = q[at + k] /\ q[p[m] + (k + 1)] = part[k + 1] /\ ours[k] = part[k + 1]
      BY <1>3, <1>4, <1>8, <2>2
    <2>4. QED
      BY <2>2, <2>3
  <1>10. CASE m + 1 = n
    <2>5. p[m + 1] = Len(q)
      BY <1>3, <1>10
    <2>1. Len(left) = w - 1
      <3> DEFINE next == p[m + 1]
      <3>1. at + w = next + 1 /\ next = Len(q) /\ at \in Nat /\ w \in Nat /\ Len(q) \in Nat
        BY <1>1, <1>2, <1>6, <2>5
      <3> HIDE DEF next
      <3>2. Len(q) - at = w - 1
        BY <3>1
      <3>3. QED
        BY <1>8, <3>2
    <2>2. left = ours
      BY <1>2, <1>8, <1>9, <2>1, SameText
    <2>3. \A k \in 1 .. Len(left): left[k] # "&"
      BY <1>5, <1>9, <2>1
    <2>4. amp = 0
      BY <1>8, <2>3, NotFound
    <2>6. QED
      BY <1>10, <2>2, <2>4 DEF ours, part
  <1>11. CASE m + 1 # n
    <2>1. m + 2 \in 1 .. n /\ m + 2 - 1 = m + 1 /\ m + 2 # 1 /\ m + 1 \in 0 .. n
      BY <1>1, <1>11
    <2>2. parts[m + 2] \in AnyText /\ Len(parts[m + 2]) > 1 /\ parts[m + 2][1] = "&" /\ Len(parts[m + 2]) \in Nat
      <3>1. parts[m + 2] \in ParamTexts(c, m + 2)
        BY <2>1 DEF Parted
      <3>2. parts[m + 2] \in AnyText /\ Len(parts[m + 2]) > 1 /\ parts[m + 2][1] = Lead(m + 2)
        BY <2>1, <3>1, CallParts
      <3>3. QED
        BY <2>1, <3>2 DEF Lead, AnyText
    <2>3. /\ p[m + 2] = p[m + 1] + Len(parts[m + 2]) /\ p[m + 2] <= Len(q)
          /\ \A k \in 1 .. Len(parts[m + 2]): q[p[m + 1] + k] = parts[m + 2][k]
      <3> HIDE DEF n
      <3>1. LaidAt(q, parts, n, p)
        BY DEF n, q
      <3>2. QED
        BY <2>1, <3>1 DEF LaidAt
    <2>4. q[p[m + 1] + 1] = "&" /\ p[m + 1] + 1 < Len(q)
      <3>1. 1 \in 1 .. Len(parts[m + 2])
        BY <2>2
      <3>2. p[m + 1] \in Nat
        BY <1>2, <1>3
      <3>3. QED
        BY <1>1, <2>2, <2>3, <3>1, <3>2
    <2>5. w \in 1 .. Len(left) /\ w \in 1 .. Len(q) - at /\ w \in 0 .. Len(q) - at /\ w \in 1 .. Len(left) + 1
      BY <1>1, <1>2, <1>6, <1>8, <2>4
    <2>6. left[w] = "&"
      BY <1>6, <1>8, <2>4, <2>5
    <2>7. amp = w
      BY <1>5, <1>8, <1>9, <2>5, <2>6, FoundAt
    <2>8. /\ Before(left, w) \in AnyText /\ Len(Before(left, w)) = w - 1
          /\ \A k \in 1 .. w - 1: Before(left, w)[k] = left[k]
      BY <1>8, <2>5, CutBefore
    <2>9. Before(left, w) = ours
      BY <1>2, <1>9, <2>8, SameText
    <2>10. After(left, w) = After(q, at + w)
      BY <1>1, <1>6, <1>7, <2>5, AfterAfter
    <2>11. After(q, p[m + 1] + 1) # <<>>
      <3> DEFINE to == p[m + 1] + 1
      <3>1. to \in 0 .. Len(q) /\ Len(q) - to > 0
        BY <1>1, <1>2, <1>3, <2>4
      <3> HIDE DEF to
      <3>2. Len(After(q, to)) = Len(q) - to
        BY <1>1, <3>1, CutAfter
      <3>3. Len(<<>>) = 0
        OBVIOUS
      <3>4. After(q, to) # <<>>
        BY <3>1, <3>2, <3>3
      <3>5. QED
        BY <3>4 DEF to
    <2>12. amp # 0
      BY <1>2, <2>7
    <2>13. After(left, amp) = After(q, p[m + 1] + 1)
      BY <1>6, <2>7, <2>10
    <2>14. pair = ours
      BY <2>7, <2>9, <2>12
    <2>15. QED
      BY <1>11, <2>11, <2>12, <2>13, <2>14 DEF ours, part, q
  <1>12. QED
    BY <1>10, <1>11

(* What a map of parameters holds of the first m of a call.                *)
Kept(params, c, m) ==
    \A i \in 1 .. m:
        \E j \in i .. m:
            /\ c.params[j][1] = c.params[i][1]
            /\ \A k \in j + 1 .. m: c.params[k][1] # c.params[i][1]
            /\ c.params[i][1] \in DOMAIN params /\ params[c.params[i][1]] = c.params[j][2]

(* One more parameter replaces the one of its name and leaves the others.  *)
LEMMA KeptOn ==
  ASSUME NEW params, NEW c, NEW m \in Nat, Kept(params, c, m)
  PROVE  Kept(Updated(params, c.params[m + 1][1], c.params[m + 1][2]), c, m + 1)
  <1> DEFINE key(i) == c.params[i][1]
             value(i) == c.params[i][2]
             more == Updated(params, key(m + 1), value(m + 1))
  <1>1. /\ DOMAIN more = DOMAIN params \cup {key(m + 1)} /\ more[key(m + 1)] = value(m + 1)
        /\ \A k \in DOMAIN params: k # key(m + 1) => more[k] = params[k]
    BY DEF Updated
  <1>2. \A i \in 1 .. m: \E j \in i .. m:
           /\ key(j) = key(i) /\ \A k \in j + 1 .. m: key(k) # key(i)
           /\ key(i) \in DOMAIN params /\ params[key(i)] = value(j)
    BY DEF Kept
  <1> HIDE DEF more, key, value
  <1>3. ASSUME NEW i \in 1 .. m + 1
        PROVE  \E j \in i .. m + 1:
                 /\ key(j) = key(i) /\ \A k \in j + 1 .. m + 1: key(k) # key(i)
                 /\ key(i) \in DOMAIN more /\ more[key(i)] = value(j)
    <2>1. CASE key(i) = key(m + 1)
      <3>1. m + 1 \in i .. m + 1 /\ \A k \in (m + 1) + 1 .. m + 1: FALSE
        OBVIOUS
      <3>2. QED
        BY <1>1, <2>1, <3>1
    <2>2. CASE key(i) # key(m + 1)
      <3>1. i \in 1 .. m
        BY <2>2
      <3>2. PICK j \in i .. m: /\ key(j) = key(i) /\ \A k \in j + 1 .. m: key(k) # key(i)
                               /\ key(i) \in DOMAIN params /\ params[key(i)] = value(j)
        BY <1>2, <3>1
      <3>3. j \in i .. m + 1 /\ \A k \in j + 1 .. m + 1: k \in j + 1 .. m \/ k = m + 1
        BY <3>1
      <3>4. \A k \in j + 1 .. m + 1: key(k) # key(i)
        BY <2>2, <3>2, <3>3
      <3>5. key(i) \in DOMAIN more /\ more[key(i)] = value(j)
        BY <1>1, <2>2, <3>2
      <3>6. QED
        BY <3>2, <3>3, <3>4, <3>5
    <2>3. QED
      BY <2>1, <2>2
  <1>4. QED
    BY <1>3 DEF Kept, key, value, more

-----------------------------------------------------------------------------
(* What BuildRequest writes, as a block of lines.                          *)

LEMMA Preceded ==
  ASSUME NEW a \in Tokens, NEW b \in AnyText
  PROVE  /\ <<a>> \o b \in AnyText /\ Len(<<a>> \o b) = Len(b) + 1 /\ (<<a>> \o b)[1] = a
         /\ \A k \in 1 .. Len(b): (<<a>> \o b)[k + 1] = b[k]
  <1> DEFINE one == <<a>>
             t == one \o b
             n == Len(b)
  <1>1. one \in AnyText /\ Len(one) = 1 /\ one[1] = a /\ n \in Nat
    BY DEF AnyText
  <1> HIDE DEF one
  <1>5. /\ t \in AnyText /\ Len(t) = Len(one) + Len(b)
        /\ \A k \in 1 .. Len(one): t[k] = one[k]
        /\ \A k \in 1 .. Len(b): t[Len(one) + k] = b[k]
    BY <1>1, Parts
  <1> HIDE DEF t
  <1>2. /\ t \in AnyText /\ Len(t) = 1 + n
        /\ \A k \in 1 .. 1: t[k] = one[k]
        /\ \A k \in 1 .. n: t[1 + k] = b[k]
    BY <1>1, <1>5
  <1> HIDE DEF n
  <1>3. \A k \in 1 .. n: 1 + k = k + 1
    BY <1>1
  <1>4. t \in AnyText /\ Len(t) = n + 1 /\ t[1] = a /\ \A k \in 1 .. n: t[k + 1] = b[k]
    BY <1>1, <1>2, <1>3
  <1>6. QED
    BY <1>4 DEF t, n, one

LEMMA VersionWritten ==
  (<<SP>> \o <<"HTTP/1.1">>) \o (<<CRLF>> \o (<<"Host">> \o <<COLON, SP>>))
    = <<SP, "HTTP/1.1", CRLF, "Host", COLON, SP>>
  <1> DEFINE a == SP
             b == "HTTP/1.1"
             c == CRLF
             d == "Host"
             e == COLON
             f == SP
  <1>0. a \in Tokens /\ b \in Tokens /\ c \in Tokens /\ d \in Tokens /\ e \in Tokens /\ f \in Tokens
    BY Separators
  <1> HIDE DEF a, b, c, d, e, f
  <1> DEFINE o == <<e, f>>
             p == <<d>> \o o
             q == <<c>> \o p
             r == <<b>> \o q
             t == <<a>> \o r
             whole == <<a, b, c, d, e, f>>
  <1>1. o \in AnyText /\ Len(o) = 2 /\ o[1] = e /\ o[2] = f
    BY <1>0 DEF AnyText
  <1> HIDE DEF o
  <1>2. p \in AnyText /\ Len(p) = 3 /\ p[1] = d /\ p[2] = e /\ p[3] = f
    <2>4. /\ p \in AnyText /\ Len(p) = Len(o) + 1 /\ p[1] = d
          /\ \A k \in 1 .. Len(o): p[k + 1] = o[k]
      BY <1>1, <1>0, Preceded
    <2> HIDE DEF p
    <2>1. /\ p \in AnyText /\ Len(p) = 2 + 1 /\ p[1] = d /\ \A k \in 1 .. 2: p[k + 1] = o[k]
      BY <1>1, <2>4
    <2>2. p[1 + 1] = o[1] /\ p[2 + 1] = o[2]
      BY <2>1
    <2>3. QED
      BY <1>1, <2>1, <2>2
  <1> HIDE DEF p
  <1>3. q \in AnyText /\ Len(q) = 4 /\ q[1] = c /\ q[2] = d /\ q[3] = e /\ q[4] = f
    <2>4. /\ q \in AnyText /\ Len(q) = Len(p) + 1 /\ q[1] = c
          /\ \A k \in 1 .. Len(p): q[k + 1] = p[k]
      BY <1>2, <1>0, Preceded
    <2> HIDE DEF q
    <2>1. /\ q \in AnyText /\ Len(q) = 3 + 1 /\ q[1] = c /\ \A k \in 1 .. 3: q[k + 1] = p[k]
      BY <1>2, <2>4
    <2>2. q[1 + 1] = p[1] /\ q[2 + 1] = p[2] /\ q[3 + 1] = p[3]
      BY <2>1
    <2>3. QED
      BY <1>2, <2>1, <2>2
  <1> HIDE DEF q
  <1>4. r \in AnyText /\ Len(r) = 5 /\ r[1] = b /\ r[2] = c /\ r[3] = d /\ r[4] = e /\ r[5] = f
    <2>4. /\ r \in AnyText /\ Len(r) = Len(q) + 1 /\ r[1] = b
          /\ \A k \in 1 .. Len(q): r[k + 1] = q[k]
      BY <1>3, <1>0, Preceded
    <2> HIDE DEF r
    <2>1. /\ r \in AnyText /\ Len(r) = 4 + 1 /\ r[1] = b /\ \A k \in 1 .. 4: r[k + 1] = q[k]
      BY <1>3, <2>4
    <2>2. r[1 + 1] = q[1] /\ r[2 + 1] = q[2] /\ r[3 + 1] = q[3] /\ r[4 + 1] = q[4]
      BY <2>1
    <2>3. QED
      BY <1>3, <2>1, <2>2
  <1>5. (<<a>> \o <<b>>) \o q = t
    <2> DEFINE one == <<a>>
               two == <<b>>
    <2>1. one \in AnyText /\ two \in AnyText
      BY <1>0 DEF AnyText
    <2> HIDE DEF one, two
    <2>2. (one \o two) \o q = one \o (two \o q)
      BY <1>3, <2>1, Regrouped
    <2>3. QED
      BY <2>2 DEF one, two
  <1> HIDE DEF r
  <1>6. t \in AnyText /\ Len(t) = 6 /\ t[1] = a /\ t[2] = b /\ t[3] = c /\ t[4] = d /\ t[5] = e /\ t[6] = f
    <2>4. /\ t \in AnyText /\ Len(t) = Len(r) + 1 /\ t[1] = a
          /\ \A k \in 1 .. Len(r): t[k + 1] = r[k]
      BY <1>4, <1>0, Preceded
    <2> HIDE DEF t
    <2>1. /\ t \in AnyText /\ Len(t) = 5 + 1 /\ t[1] = a /\ \A k \in 1 .. 5: t[k + 1] = r[k]
      BY <1>4, <2>4
    <2>2. t[1 + 1] = r[1] /\ t[2 + 1] = r[2] /\ t[3 + 1] = r[3] /\ t[4 + 1] = r[4] /\ t[5 + 1] = r[5]
      BY <2>1
    <2>3. QED
      BY <1>4, <2>1, <2>2
  <1>7. /\ whole \in AnyText /\ Len(whole) = 6
        /\ whole[1] = a /\ whole[2] = b /\ whole[3] = c /\ whole[4] = d /\ whole[5] = e /\ whole[6] = f
    BY <1>0 DEF AnyText
  <1> HIDE DEF t, whole
  <1>8. \A k \in 1 .. 6: k \in {1, 2, 3, 4, 5, 6}
    OBVIOUS
  <1>9. \A k \in {1, 2, 3, 4, 5, 6}: t[k] = whole[k]
    BY <1>6, <1>7
  <1>10. t = whole
    BY <1>6, <1>7, <1>8, <1>9, SameText
  <1>11. (<<a>> \o <<b>>) \o (<<c>> \o (<<d>> \o <<e, f>>)) = <<a, b, c, d, e, f>>
    BY <1>5, <1>10 DEF whole, q, p, o
  <1>12. QED
    BY ONLY <1>11, Zenon DEF a, b, c, d, e, f

LEMMA ClientRows ==
  ASSUME NEW number \in Tokens
  PROVE  <<CRLF, "Connection", COLON, SP, "close", CRLF, "Content-Length", COLON, SP, number, CRLF>>
           = <<CRLF>> \o ((RowOf(CloseName, <<"close">>) \o <<CRLF>>) \o (RowOf(LengthName, <<number>>) \o <<CRLF>>))
  <1> DEFINE first == <<"Connection", COLON, SP, "close", CRLF>>
             second == <<"Content-Length", COLON, SP, number, CRLF>>
             both == first \o second
             t == <<CRLF>> \o both
             whole == <<CRLF, "Connection", COLON, SP, "close", CRLF, "Content-Length", COLON, SP, number, CRLF>>
  <1>1. {"Content-Length", COLON, SP, CRLF, "Connection", "close"} \subseteq Tokens
    BY Separators DEF Tokens, Literals
  <1>2. RowOf(LengthName, <<number>>) \o <<CRLF>> = second
    BY <1>1, RowWritten DEF RowOf, LengthName
  <1>3. RowOf(CloseName, <<"close">>) \o <<CRLF>> = first
    BY <1>1, RowWritten DEF RowOf, CloseName
  <1>4. /\ first \in AnyText /\ Len(first) = 5 /\ first[1] = "Connection" /\ first[2] = COLON
        /\ first[3] = SP /\ first[4] = "close" /\ first[5] = CRLF
    BY <1>1 DEF AnyText
  <1>5. /\ second \in AnyText /\ Len(second) = 5 /\ second[1] = "Content-Length" /\ second[2] = COLON
        /\ second[3] = SP /\ second[4] = number /\ second[5] = CRLF
    BY <1>1 DEF AnyText
  <1> HIDE DEF first, second
  <1>6. /\ both \in AnyText /\ Len(both) = 10
        /\ both[1] = first[1] /\ both[2] = first[2] /\ both[3] = first[3] /\ both[4] = first[4] /\ both[5] = first[5]
        /\ both[6] = second[1] /\ both[7] = second[2] /\ both[8] = second[3] /\ both[9] = second[4]
        /\ both[10] = second[5]
    <2>4. /\ both \in AnyText /\ Len(both) = Len(first) + Len(second)
          /\ \A k \in 1 .. Len(first): both[k] = first[k]
          /\ \A k \in 1 .. Len(second): both[Len(first) + k] = second[k]
      BY <1>4, <1>5, Parts
    <2> HIDE DEF both
    <2>1. /\ both \in AnyText /\ Len(both) = 5 + 5
          /\ \A k \in 1 .. 5: both[k] = first[k]
          /\ \A k \in 1 .. 5: both[5 + k] = second[k]
      BY <1>4, <1>5, <2>4
    <2>2. /\ both[1] = first[1] /\ both[2] = first[2] /\ both[3] = first[3] /\ both[4] = first[4] /\ both[5] = first[5]
          /\ both[5 + 1] = second[1] /\ both[5 + 2] = second[2] /\ both[5 + 3] = second[3]
          /\ both[5 + 4] = second[4] /\ both[5 + 5] = second[5]
      BY <2>1
    <2>3. QED
      BY <2>1, <2>2
  <1> HIDE DEF both
  <1>7. /\ t \in AnyText /\ Len(t) = 11 /\ t[1] = CRLF
        /\ t[2] = both[1] /\ t[3] = both[2] /\ t[4] = both[3] /\ t[5] = both[4] /\ t[6] = both[5]
        /\ t[7] = both[6] /\ t[8] = both[7] /\ t[9] = both[8] /\ t[10] = both[9] /\ t[11] = both[10]
    <2>4. /\ t \in AnyText /\ Len(t) = Len(both) + 1 /\ t[1] = CRLF
          /\ \A k \in 1 .. Len(both): t[k + 1] = both[k]
      BY <1>1, <1>6, Preceded
    <2> HIDE DEF t
    <2>1. /\ t \in AnyText /\ Len(t) = 10 + 1 /\ t[1] = CRLF /\ \A k \in 1 .. 10: t[k + 1] = both[k]
      BY <1>1, <1>6, <2>4
    <2>2. /\ t[1 + 1] = both[1] /\ t[2 + 1] = both[2] /\ t[3 + 1] = both[3] /\ t[4 + 1] = both[4]
          /\ t[5 + 1] = both[5] /\ t[6 + 1] = both[6] /\ t[7 + 1] = both[7] /\ t[8 + 1] = both[8]
          /\ t[9 + 1] = both[9] /\ t[10 + 1] = both[10]
      BY <2>1
    <2>3. QED
      BY <2>1, <2>2
  <1>8. /\ whole \in AnyText /\ Len(whole) = 11 /\ whole[1] = CRLF
        /\ whole[2] = "Connection" /\ whole[3] = COLON /\ whole[4] = SP /\ whole[5] = "close" /\ whole[6] = CRLF
        /\ whole[7] = "Content-Length" /\ whole[8] = COLON /\ whole[9] = SP /\ whole[10] = number
        /\ whole[11] = CRLF
    BY <1>1 DEF AnyText
  <1> HIDE DEF t, whole
  <1>9. \A k \in 1 .. 11: k \in {1, 2, 3, 4, 5, 6, 7, 8, 9, 10, 11}
    OBVIOUS
  <1>10. \A k \in {1, 2, 3, 4, 5, 6, 7, 8, 9, 10, 11}: t[k] = whole[k]
    BY <1>4, <1>5, <1>6, <1>7, <1>8
  <1>11. t = whole
    BY <1>7, <1>8, <1>9, <1>10, SameText
  <1>12. QED
    BY <1>2, <1>3, <1>11 DEF t, whole, both

LEMMA UnbrokenJoined ==
  ASSUME NEW a, NEW b, Unbroken(a), Unbroken(b)
  PROVE  Unbroken(a \o b)
  <1> DEFINE t == a \o b
             n == Len(a)
             m == Len(b)
  <1>1. /\ t \in AnyText /\ Len(t) = n + m
        /\ \A k \in 1 .. n: t[k] = a[k]
        /\ \A k \in 1 .. m: t[n + k] = b[k]
    BY Parts DEF Unbroken
  <1>2. /\ n \in Nat /\ m \in Nat
        /\ \A k \in 1 .. n: a[k] # CRLF
        /\ \A k \in 1 .. m: b[k] # CRLF
    BY DEF Unbroken, AnyText
  <1> HIDE DEF t, n, m
  <1>3. ASSUME NEW k \in 1 .. Len(t) PROVE t[k] # CRLF
    <2>1. CASE k <= n
      BY <1>1, <1>2, <2>1
    <2>2. CASE k > n
      <3>1. k - n \in 1 .. m /\ n + (k - n) = k
        BY <1>1, <1>2, <2>2
      <3>2. QED
        BY <1>1, <1>2, <3>1
    <2>3. QED
      BY <1>1, <1>2, <2>1, <2>2
  <1>4. QED
    BY <1>1, <1>3 DEF Unbroken, t

LEMMA LineAlone ==
  ASSUME NEW line, Unbroken(line), Len(line) > 0, NEW values
  PROVE  ReadsAs(line \o <<CRLF>>, line, {}, values)
  <1> DEFINE text == line \o <<CRLF>>
             n == Len(line)
  <1>1. line \in AnyText /\ n \in Nat /\ n > 0 /\ \A k \in 1 .. n: line[k] # CRLF
    BY DEF Unbroken, AnyText
  <1>2. text \in AnyText /\ Len(text) = n + 1 /\ (\A k \in 1 .. n: text[k] = line[k]) /\ text[n + 1] = CRLF
    BY <1>1, Separators, OneMore
  <1>3. Before(text, n + 1) = line
    <2> DEFINE end == <<CRLF>>
    <2>1. end \in AnyText
      BY Separators DEF AnyText
    <2> HIDE DEF end
    <2>2. Before(line \o end, Len(line) + 1) = line
      BY <1>1, <2>1, FirstPart
    <2>3. QED
      BY <2>2 DEF end
  <1> HIDE DEF text, n
  <1>4. Block(text) /\ Starts(text) = {}
    <2>1. text[1] # CRLF /\ \A i \in 1 .. Len(text) - 1: text[i] # CRLF
      BY <1>1, <1>2
    <2>2. \A i \in 2 .. Len(text): i - 1 \in 1 .. Len(text) - 1
      BY <1>1, <1>2
    <2>3. QED
      BY <1>1, <1>2, <2>1, <2>2 DEF Block, Starts
  <1>5. LineAt(text, 1) = line
    <2> DEFINE e == n + 1
    <2>1. 1 \in 1 .. Len(text) /\ e \in 1 .. Len(text) /\ text[e] = CRLF /\ \A k \in 1 .. e - 1: text[k] # CRLF
      BY <1>1, <1>2
    <2> HIDE DEF e
    <2>2. LineAt(text, 1) = SubSeq(text, 1, e - 1)
      BY <1>2, <2>1, LineIs
    <2>3. QED
      BY <1>3, <2>2 DEF Before, e
  <1>6. QED
    BY <1>4, <1>5 DEF ReadsAs, text

HostName == <<"Host">>
OwnedNames(c) == {n \in DOMAIN c.headers: Lowercase(n) \in ClientOwned}
SentNames(c) == {HostName, CloseName, LengthName} \cup (DOMAIN c.headers \ OwnedNames(c))
SentValues(c) ==
    [n \in SentNames(c) |-> IF n = HostName THEN HostPort ELSE IF n = CloseName THEN <<"close">>
                            ELSE IF n = LengthName THEN <<ToString(Len(c.body))>> ELSE c.headers[n]]
FirstSent(c, target) == <<MethodToString[c.method]>> \o (<<SP>> \o (target \o (<<SP>> \o <<"HTTP/1.1">>)))

(* A text that says what a call asks for. *)
Sent(text, c, target) ==
    /\ text \in AnyText /\ HeadEnd(text) # 0 /\ After(text, HeadEnd(text) + 1) = c.body
    /\ LineAt(text, 1) = FirstSent(c, target)
    /\ {NameOf(LineAt(text, i)): i \in FieldStarts(text)} = SentNames(c)
    /\ \A i \in FieldStarts(text):
          LineAt(text, i) = RowOf(NameOf(LineAt(text, i)), SentValues(c)[NameOf(LineAt(text, i))])
    /\ \A i, j \in FieldStarts(text): NameOf(LineAt(text, i)) = NameOf(LineAt(text, j)) => i = j

(* The names HttpClient writes: its own three and those of the application,*)
(* without the three in any case.                                          *)
LEMMA SentNamed ==
  ASSUME NEW c \in Calls
  PROVE  LET names == SentNames(c)
             values == SentValues(c)
             others == DOMAIN c.headers \ OwnedNames(c)
         IN /\ \A n \in names: /\ n \in AnyText /\ values[n] \in AnyText
                               /\ \A k \in 1 .. Len(n): n[k] # COLON /\ n[k] # CRLF
                               /\ \A k \in 1 .. Len(values[n]): values[n][k] # CRLF
            /\ HostName # CloseName /\ HostName # LengthName /\ CloseName # LengthName
            /\ \A n \in others: /\ n \notin {HostName, CloseName, LengthName} /\ Lowercase(n) \notin ClientOwned
                                /\ values[n] = c.headers[n] /\ n \in names
            /\ Lowercase(HostName) = <<"host">> /\ Lowercase(CloseName) = <<"connection">>
            /\ Lowercase(LengthName) = <<"content-length">>
            /\ values[HostName] = HostPort /\ values[CloseName] = <<"close">>
            /\ values[LengthName] = <<ToString(Len(c.body))>>
            /\ Len(c.body) \in 0 .. MaxNumber /\ ToString(Len(c.body)) \in Tokens \ Framing
  <1> DEFINE names == SentNames(c)
             values == SentValues(c)
             others == DOMAIN c.headers \ OwnedNames(c)
             number == ToString(Len(c.body))
  <1>1. /\ c.body \in AnyText /\ IsFiniteSet(DOMAIN c.headers)
        /\ \A n \in DOMAIN c.headers: n \in AnyText /\ c.headers[n] \in AnyText
    BY CallTexts
  <1>2. /\ Len(c.body) <= MaxNumber
        /\ \A n \in DOMAIN c.headers: {COLON, CRLF} \cap Range(n) = {} /\ CRLF \notin Range(c.headers[n])
    BY CallAssumption
  <1>3. \A t \in AnyText: \A k \in 1 .. Len(t): t[k] \in Range(t)
    BY DEF Range, AnyText
  <1>4. \A n \in DOMAIN c.headers: /\ \A k \in 1 .. Len(n): n[k] # COLON /\ n[k] # CRLF
                                   /\ \A k \in 1 .. Len(c.headers[n]): c.headers[n][k] # CRLF
    <2>1. SUFFICES ASSUME NEW n \in DOMAIN c.headers
                   PROVE  /\ \A k \in 1 .. Len(n): n[k] # COLON /\ n[k] # CRLF
                          /\ \A k \in 1 .. Len(c.headers[n]): c.headers[n][k] # CRLF
      OBVIOUS
    <2>2. n \in AnyText /\ c.headers[n] \in AnyText
      BY <1>1
    <2>3. {COLON, CRLF} \cap Range(n) = {} /\ CRLF \notin Range(c.headers[n])
      BY <1>2
    <2>4. QED
      BY <1>3, <2>2, <2>3
  <1>5. Len(c.body) \in 0 .. MaxNumber
    BY <1>1, <1>2, MessagesAssumption DEF AnyText
  <1>6. number \in Tokens /\ number \notin Framing
    BY <1>5, Words, ResponseAssumption
  <1>7. HostPort \in AnyText /\ \A k \in 1 .. Len(HostPort): HostPort[k] # CRLF
    <2>1. HostPort \in AnyText
      BY MessagesAssumption, TextsAny
    <2>2. CRLF \notin Range(HostPort)
      BY CallAssumption
    <2>3. QED
      BY <1>3, <2>1, <2>2
  <1>8. HostName # CloseName /\ HostName # LengthName /\ CloseName # LengthName
    BY DEF HostName, CloseName, LengthName
  <1>9. /\ Lowercase(HostName) = <<"host">> /\ Lowercase(CloseName) = <<"connection">>
        /\ Lowercase(LengthName) = <<"content-length">>
    <2>1. Lowercase(HostName) = <<"host">>
      BY CallAssumption DEF Lowercase, HostName
    <2>2. Lowercase(CloseName) = <<"connection">>
      BY ResponseAssumption DEF Lowercase, CloseName
    <2>3. Lowercase(LengthName) = <<"content-length">>
      BY MessagesAssumption DEF Lowercase, LengthName
    <2>4. QED
      BY <2>1, <2>2, <2>3
  <1>10. \A n \in others: n \notin {HostName, CloseName, LengthName} /\ Lowercase(n) \notin ClientOwned
    BY <1>9 DEF OwnedNames, ClientOwned
  <1>11. names = {HostName, CloseName, LengthName} \cup others
    BY DEF SentNames
  <1>12. /\ values[HostName] = HostPort /\ values[CloseName] = <<"close">> /\ values[LengthName] = <<number>>
         /\ \A n \in others: values[n] = c.headers[n]
    BY <1>8, <1>10, <1>11 DEF SentValues
  <1>13. \A n \in {HostName, CloseName, LengthName}: n \in AnyText /\ \A k \in 1 .. Len(n): n[k] # COLON /\ n[k] # CRLF
    <2>1. {"Host", "Connection", "Content-Length"} \subseteq Tokens
      BY Separators
    <2>2. \A w \in {"Host", "Connection", "Content-Length"}: w # COLON /\ w # CRLF
      BY DEF COLON, CRLF
    <2>3. \A w \in Tokens: <<w>> \in AnyText /\ Len(<<w>>) = 1 /\ <<w>>[1] = w
      BY DEF AnyText
    <2>4. \A w \in {"Host", "Connection", "Content-Length"}:
             <<w>> \in AnyText /\ \A k \in 1 .. Len(<<w>>): <<w>>[k] # COLON /\ <<w>>[k] # CRLF
      <3>1. SUFFICES ASSUME NEW w \in {"Host", "Connection", "Content-Length"}
                     PROVE  <<w>> \in AnyText /\ \A k \in 1 .. Len(<<w>>): <<w>>[k] # COLON /\ <<w>>[k] # CRLF
        OBVIOUS
      <3> DEFINE one == <<w>>
      <3>2. w \in Tokens /\ w # COLON /\ w # CRLF
        BY <2>1, <2>2
      <3>3. one \in AnyText /\ Len(one) = 1 /\ one[1] = w
        BY <2>3, <3>2
      <3> HIDE DEF one
      <3>4. one \in AnyText /\ \A k \in 1 .. Len(one): one[k] # COLON /\ one[k] # CRLF
        BY <3>2, <3>3
      <3>5. QED
        BY <3>4 DEF one
    <2>5. QED
      BY <2>4 DEF HostName, CloseName, LengthName
  <1>14. /\ <<"close">> \in AnyText /\ \A k \in 1 .. Len(<<"close">>): <<"close">>[k] # CRLF
         /\ <<number>> \in AnyText /\ \A k \in 1 .. Len(<<number>>): <<number>>[k] # CRLF
    <2>1. "close" \in Tokens /\ "close" # CRLF /\ number # CRLF
      BY <1>6, Separators DEF CRLF, Framing
    <2> HIDE DEF number
    <2>2. QED
      BY <1>6, <2>1 DEF AnyText
  <1> HIDE DEF names, values, others, number
  <1>15. \A n \in names: /\ n \in AnyText /\ values[n] \in AnyText
                         /\ \A k \in 1 .. Len(n): n[k] # COLON /\ n[k] # CRLF
                         /\ \A k \in 1 .. Len(values[n]): values[n][k] # CRLF
    <2>1. SUFFICES ASSUME NEW n \in names
                   PROVE  /\ n \in AnyText /\ values[n] \in AnyText
                          /\ \A k \in 1 .. Len(n): n[k] # COLON /\ n[k] # CRLF
                          /\ \A k \in 1 .. Len(values[n]): values[n][k] # CRLF
      OBVIOUS
    <2>2. CASE n \in {HostName, CloseName, LengthName}
      BY <1>7, <1>12, <1>13, <1>14, <2>2
    <2>3. CASE n \in others
      BY <1>1, <1>4, <1>12, <2>3 DEF others
    <2>4. QED
      BY <1>11, <2>2, <2>3
  <1>16. QED
    BY <1>5, <1>6, <1>8, <1>9, <1>10, <1>11, <1>12, <1>15 DEF names, values, others, number

(* A method's word is that of no other. *)
LEMMA MethodWord ==
  ASSUME NEW c \in Calls
  PROVE  LET word == MethodToString[c.method]
         IN word \in Tokens /\ word \notin {SP, COLON, CRLF} /\ MethodFromString(<<word>>) = c.method
  <1>1. c.method \in DOMAIN MethodToString
    BY CallAssumption
  <1>2. MethodToString[c.method] \in Tokens
    BY Words
  <1>3. \A m \in DOMAIN MethodToString: MethodToString[m] \notin {SP, COLON, CRLF}
    <2> DEFINE words == {"GET", "POST", "PUT", "DELETE", "PATCH", "HEAD", "OPTIONS", "UNKNOWN"}
    <2>1. \A m \in DOMAIN MethodToString: MethodToString[m] \in words
      BY DEF MethodToString
    <2>2. \A w \in words: w \notin {SP, COLON, CRLF}
      BY Zenon DEF SP, COLON, CRLF
    <2> HIDE DEF words
    <2>3. QED
      BY <2>1, <2>2
  <1>4. \A m, n \in DOMAIN MethodToString: MethodToString[m] = MethodToString[n] => m = n
    BY DEF MethodToString
  <1>5. "Unknown" \in DOMAIN MethodToString
    BY DEF MethodToString
  <1>6. MethodFromString(<<MethodToString[c.method]>>) = c.method
    <2> DEFINE text == <<MethodToString[c.method]>>
               named == {m \in DOMAIN MethodToString \ {"Unknown"}: text = <<MethodToString[m]>>}
    <2>1. \A m \in DOMAIN MethodToString: text = <<MethodToString[m]>> <=> m = c.method
      BY <1>1, <1>4
    <2> HIDE DEF text
    <2>2. CASE c.method = "Unknown"
      <3>1. named = {}
        BY <2>1, <2>2
      <3>2. QED
        BY <2>2, <3>1 DEF MethodFromString, text
    <2>3. CASE c.method # "Unknown"
      <3>1. named = {c.method}
        BY <1>1, <2>1, <2>3
      <3>2. (CHOOSE m \in named: TRUE) = c.method /\ named # {}
        BY <3>1
      <3> HIDE DEF named
      <3>3. MethodFromString(text) = IF named = {} THEN "Unknown" ELSE CHOOSE m \in named: TRUE
        BY DEF MethodFromString, named
      <3>4. QED
        BY <3>2, <3>3 DEF text
    <2>4. QED
      BY <2>2, <2>3
  <1>7. QED
    BY <1>1, <1>2, <1>3, <1>6

LEMMA LinesRegrouped ==
  ASSUME NEW m, NEW s, NEW t, NEW v, NEW e, NEW h, NEW d, NEW p, NEW close, NEW size, NEW rows, NEW body,
         {m, s, t, v, e, h, d, p, close, size, rows, body} \subseteq AnyText
  PROVE  LET first == Joint(m, Joint(s, Joint(t, Joint(s, v))))
             own == Joint(Joint(s, v), Joint(e, Joint(h, d)))
             head == Joint(Joint(Joint(Joint(Joint(m, s), t), own), p), Joint(e, Joint(close, size)))
             host == Joint(Joint(h, Joint(d, p)), e)
         IN Joint(Joint(Joint(head, rows), e), body)
              = Joint(Joint(Joint(Joint(Joint(Joint(first, e), host), close), size), rows), Joint(e, body))
  <1> DEFINE sv == Joint(s, v)
             hd == Joint(h, d)
             dp == Joint(d, p)
             cs == Joint(close, size)
             ms == Joint(m, s)
             tsv == Joint(t, sv)
             ehd == Joint(e, hd)
             row == Joint(h, dp)
             first == Joint(m, Joint(s, tsv))
             start == Joint(first, e)
             host == Joint(row, e)
             a == Joint(ms, t)
             b == Joint(a, Joint(sv, ehd))
             c == Joint(b, p)
             f == Joint(c, Joint(e, cs))
             u == Joint(Joint(Joint(start, host), close), size)
  <1>1. /\ m \in AnyText /\ s \in AnyText /\ t \in AnyText /\ v \in AnyText /\ e \in AnyText /\ h \in AnyText
        /\ d \in AnyText /\ p \in AnyText /\ close \in AnyText /\ size \in AnyText /\ rows \in AnyText
        /\ body \in AnyText
    OBVIOUS
  <1>2. /\ sv \in AnyText /\ hd \in AnyText /\ dp \in AnyText /\ cs \in AnyText /\ ms \in AnyText
        /\ tsv \in AnyText /\ ehd \in AnyText /\ row \in AnyText /\ Joint(s, tsv) \in AnyText
        /\ first \in AnyText /\ start \in AnyText /\ host \in AnyText /\ a \in AnyText
        /\ Joint(start, row) \in AnyText /\ Joint(start, host) \in AnyText
        /\ Joint(Joint(start, host), close) \in AnyText /\ u \in AnyText /\ Joint(u, rows) \in AnyText
    BY <1>1, JointRegrouped
  <1>3. Joint(a, sv) = first
    <2>1. Joint(a, sv) = Joint(ms, tsv)
      BY <1>1, <1>2, JointRegrouped
    <2>2. Joint(ms, tsv) = first
      BY <1>1, <1>2, JointRegrouped
    <2>3. QED
      BY <2>1, <2>2
  <1>4. b = Joint(start, hd)
    <2>1. b = Joint(Joint(a, sv), ehd)
      BY <1>1, <1>2, JointRegrouped
    <2>2. Joint(first, ehd) = Joint(start, hd)
      BY <1>1, <1>2, JointRegrouped
    <2>3. QED
      BY <1>3, <2>1, <2>2
  <1>5. c = Joint(start, row)
    <2>1. Joint(Joint(start, hd), p) = Joint(start, Joint(hd, p))
      BY <1>1, <1>2, JointRegrouped
    <2>2. Joint(hd, p) = row
      BY <1>1, <1>2, JointRegrouped
    <2>3. QED
      BY <1>4, <2>1, <2>2
  <1>6. f = u
    <2>1. Joint(Joint(start, row), Joint(e, cs)) = Joint(Joint(Joint(start, row), e), cs)
      BY <1>1, <1>2, JointRegrouped
    <2>2. Joint(Joint(start, row), e) = Joint(start, host)
      BY <1>1, <1>2, JointRegrouped
    <2>3. Joint(Joint(start, host), cs) = u
      BY <1>1, <1>2, JointRegrouped
    <2>4. QED
      BY <1>5, <2>1, <2>2, <2>3
  <1>7. Joint(Joint(Joint(f, rows), e), body) = Joint(Joint(u, rows), Joint(e, body))
    <2>1. Joint(Joint(Joint(u, rows), e), body) = Joint(Joint(u, rows), Joint(e, body))
      BY <1>1, <1>2, JointRegrouped
    <2>2. QED
      BY <1>6, <2>1
  <1>8. QED
    BY <1>7

LEMMA TwoWritten ==
  ASSUME NEW a \in Tokens, NEW b \in Tokens
  PROVE  <<a, b>> = <<a>> \o <<b>>
  <1> DEFINE two == <<b>>
             t == <<a>> \o two
             whole == <<a, b>>
  <1>1. two \in AnyText /\ Len(two) = 1 /\ two[1] = b
    BY DEF AnyText
  <1> HIDE DEF two
  <1>2. t \in AnyText /\ Len(t) = Len(two) + 1 /\ t[1] = a /\ \A k \in 1 .. Len(two): t[k + 1] = two[k]
    BY <1>1, Preceded
  <1>3. whole \in AnyText /\ Len(whole) = 2 /\ whole[1] = a /\ whole[2] = b
    BY DEF AnyText
  <1> HIDE DEF t, whole
  <1>4. Len(t) = 2 /\ t[1] = a /\ t[1 + 1] = b
    BY <1>1, <1>2
  <1>5. \A k \in 1 .. 2: t[k] = whole[k]
    BY <1>3, <1>4
  <1>6. t = whole
    BY <1>2, <1>3, <1>4, <1>5, SameText
  <1>7. QED
    BY <1>6 DEF t, whole, two

(* BuildRequest says what the call asks for, however the application has   *)
(* encoded its parameters and in whatever order its headers come.          *)
LEMMA CallSent ==
  ASSUME NEW c \in Calls, NEW target \in Targets(c), NEW order \in SetToSeqs(DOMAIN c.headers)
  PROVE  Sent(BuildRequest(c, target, order), c, target)
  <1> DEFINE word == MethodToString[c.method]
             m == <<word>>
             s == <<SP>>
             v == <<"HTTP/1.1">>
             e == <<CRLF>>
             d == <<COLON, SP>>
             values == SentValues(c)
             names == SentNames(c)
             first == FirstSent(c, target)
             start == first \o e
             close == RowOf(CloseName, values[CloseName]) \o e
             size == RowOf(LengthName, values[LengthName]) \o e
             host == RowOf(HostName, values[HostName]) \o e
             others == DOMAIN c.headers \ OwnedNames(c)
             headers == c.headers
             rows == FlattenSeq([i \in DOMAIN order |->
                         IF Lowercase(order[i]) \in ClientOwned THEN <<>>
                         ELSE order[i] \o <<COLON, SP>> \o headers[order[i]] \o <<CRLF>>])
             number == ToString(Len(c.body))
             u == ((start \o host) \o close) \o size
             head == u \o rows
  <1>1. /\ \A n \in names: /\ n \in AnyText /\ values[n] \in AnyText
                           /\ \A k \in 1 .. Len(n): n[k] # COLON /\ n[k] # CRLF
                           /\ \A k \in 1 .. Len(values[n]): values[n][k] # CRLF
        /\ HostName # CloseName /\ HostName # LengthName /\ CloseName # LengthName
        /\ \A n \in others: /\ n \notin {HostName, CloseName, LengthName} /\ n \in names /\ values[n] = headers[n]
        /\ values[HostName] = HostPort /\ values[CloseName] = <<"close">> /\ values[LengthName] = <<number>>
        /\ number \in Tokens
    BY SentNamed
  <1>2. names = {HostName, CloseName, LengthName} \cup others
    BY DEF SentNames
  <1>3. /\ c.body \in AnyText /\ IsFiniteSet(DOMAIN headers) /\ target \in AnyText
        /\ HostPort \in AnyText
    BY CallTexts, TargetTexts, MessagesAssumption, TextsAny
  <1>4. word \in Tokens /\ word # CRLF
    BY MethodWord
  <1>5. m \in AnyText /\ s \in AnyText /\ v \in AnyText /\ e \in AnyText /\ d \in AnyText /\ HostName \in AnyText
    <2>1. m \in AnyText
      BY <1>4 DEF AnyText
    <2>2. s \in AnyText /\ v \in AnyText /\ e \in AnyText /\ d \in AnyText /\ HostName \in AnyText
      BY Separators DEF AnyText, HostName
    <2>3. QED
      BY <2>1, <2>2
  <1>6. ReadsAs(start, first, {}, values) /\ start \in AnyText
    <2>1. Unbroken(m)
      BY <1>4, OneWord
    <2>2. Unbroken(s) /\ Unbroken(v)
      <3>1. SP \in Tokens /\ "HTTP/1.1" \in Tokens
        BY Separators
      <3>2. SP # CRLF /\ "HTTP/1.1" # CRLF
        BY Zenon DEF SP, CRLF
      <3>3. QED
        BY <3>1, <3>2, OneWord
    <2>3. Unbroken(target)
      <3>1. PICK parts: Parted(c, target, parts)
        BY TargetParted
      <3>2. \A k \in 1 .. Len(target): target[k] \notin {SP, CRLF}
        BY <3>1, TargetCut
      <3>3. QED
        BY <1>3, <3>2 DEF Unbroken
    <2> DEFINE tail == s \o (target \o (s \o v))
    <2>4. Unbroken(tail)
      BY <2>2, <2>3, UnbrokenJoined
    <2>5. first = m \o tail
      BY DEF FirstSent
    <2>6. Unbroken(first)
      BY <2>1, <2>4, <2>5, UnbrokenJoined
    <2>7. Len(first) > 0
      <3>1. tail \in AnyText
        BY <2>4 DEF Unbroken
      <3> HIDE DEF tail
      <3>2. Len(m \o tail) = Len(tail) + 1
        BY <1>4, <3>1, Preceded
      <3>3. Len(tail) \in Nat
        BY <3>1 DEF AnyText
      <3>4. QED
        BY <2>5, <3>2, <3>3
    <2> HIDE DEF first
    <2>8. ReadsAs(start, first, {}, values)
      BY <2>6, <2>7, LineAlone
    <2>9. QED
      BY <2>8 DEF ReadsAs, Block
  <1> HIDE DEF headers, values, names, others, number
  <1>7. close \in AnyText /\ size \in AnyText /\ host \in AnyText
    <2>1. /\ RowOf(CloseName, values[CloseName]) \in AnyText /\ RowOf(LengthName, values[LengthName]) \in AnyText
          /\ RowOf(HostName, values[HostName]) \in AnyText
      BY <1>1, <1>2, RowReads
    <2>2. QED
      BY <1>5, <2>1, Glued
  <1>8. ReadsAs(u, first, {HostName, CloseName, LengthName}, values)
    <2> HIDE DEF start, first
    <2>1. ReadsAs(start \o host, first, {} \cup {HostName}, values)
      BY <1>1, <1>2, <1>6, RowAdded
    <2>2. ReadsAs((start \o host) \o close, first, ({} \cup {HostName}) \cup {CloseName}, values)
      BY <1>1, <1>2, <2>1, RowAdded
    <2>3. ReadsAs(u, first, (({} \cup {HostName}) \cup {CloseName}) \cup {LengthName}, values)
      BY <1>1, <1>2, <2>2, RowAdded
    <2>4. (({} \cup {HostName}) \cup {CloseName}) \cup {LengthName} = {HostName, CloseName, LengthName}
      OBVIOUS
    <2>5. QED
      BY <2>3, <2>4
  <1> HIDE DEF u, first, start, close, size, host
  <1>9. rows \in AnyText /\ ReadsAs(head, first, names, values)
    <2> DEFINE skip == OwnedNames(c)
               D == DOMAIN headers
               some == FlattenSeq([i \in DOMAIN order |->
                         IF order[i] \in skip THEN <<>>
                         ELSE order[i] \o <<COLON, SP>> \o headers[order[i]] \o <<CRLF>>])
               owned == {HostName, CloseName, LengthName}
    <2>1. order \in SetToSeqs(D) /\ IsFiniteSet(D)
      BY <1>3 DEF headers
    <2>2. \A i \in DOMAIN order: order[i] \in skip <=> Lowercase(order[i]) \in ClientOwned
      <3>1. PICK n \in Nat: order \in [1 .. n -> D]
        BY <2>1, AllListed
      <3>2. QED
        BY <3>1 DEF OwnedNames, headers
    <2>3. rows = some
      BY <2>2
    <2>4. others = D \ skip
      BY DEF others, headers
    <2>5. \A name \in D \ skip:
            /\ name \in AnyText /\ name \notin owned /\ values[name] = headers[name] /\ headers[name] \in AnyText
            /\ \A k \in 1 .. Len(name): name[k] # COLON /\ name[k] # CRLF
            /\ \A k \in 1 .. Len(headers[name]): headers[name][k] # CRLF
      BY <1>1, <2>4
    <2>6. ReadsAs(u, first, owned, values)
      BY <1>8
    <2> HIDE DEF rows, D, skip, owned
    <2>7. some \in AnyText /\ ReadsAs(u \o some, first, owned \cup (D \ skip), values)
      BY <2>1, <2>5, <2>6, RowsRead
    <2> HIDE DEF some
    <2>8. owned \cup (D \ skip) = names
      BY <1>2, <2>4 DEF owned
    <2>9. QED
      BY <2>3, <2>7, <2>8
  <1> HIDE DEF rows
  <1> DEFINE text == BuildRequest(c, target, order)
  <1>10. text = head \o (e \o c.body)
    <2>1. <<word, SP>> = m \o s
      <3>1. word \in Tokens /\ SP \in Tokens
        BY <1>4, Separators
      <3> HIDE DEF word
      <3>2. QED
        BY <3>1, TwoWritten
    <2>2. <<SP, "HTTP/1.1", CRLF, "Host", COLON, SP>> = (s \o v) \o (e \o (HostName \o d))
      BY VersionWritten, Zenon DEF HostName
    <2>3. <<CRLF, "Connection", COLON, SP, "close", CRLF, "Content-Length", COLON, SP, number, CRLF>>
            = e \o (close \o size)
      BY <1>1, ClientRows DEF close, size
    <2>4. text = ((((((<<word, SP>> \o target) \o <<SP, "HTTP/1.1", CRLF, "Host", COLON, SP>>) \o HostPort)
                    \o <<CRLF, "Connection", COLON, SP, "close", CRLF, "Content-Length", COLON, SP, number, CRLF>>)
                    \o rows) \o e) \o c.body
      BY DEF BuildRequest, rows, headers, number
    <2>5. first = m \o (s \o (target \o (s \o v)))
      BY DEF FirstSent, first
    <2>6. host = (HostName \o (d \o HostPort)) \o e
      BY <1>1 DEF host, RowOf
    <2> DEFINE body == c.body
    <2> HIDE DEF m, s, v, e, d, text, body
    <2>7. body \in AnyText
      BY <1>3 DEF body
    <2>8. text = ((((((m \o s) \o target) \o ((s \o v) \o (e \o (HostName \o d)))) \o HostPort)
                    \o (e \o (close \o size))) \o rows) \o e \o body
      BY ONLY <2>1, <2>2, <2>3, <2>4 DEF body
    <2>9. text = (((((first \o e) \o ((HostName \o (d \o HostPort)) \o e)) \o close) \o size) \o rows) \o (e \o body)
      <3> DEFINE port == HostPort
                 name == HostName
      <3>1. {m, s, target, v, e, name, d, port, close, size, rows, body} \subseteq AnyText
        BY <1>3, <1>5, <1>7, <1>9, <2>7
      <3> HIDE DEF port, name
      <3>2. Joint(Joint(Joint(Joint(Joint(Joint(Joint(Joint(m, s), target), Joint(Joint(s, v), Joint(e, Joint(name, d)))), port),
                    Joint(e, Joint(close, size))), rows), e), body)
              = Joint(Joint(Joint(Joint(Joint(Joint(Joint(m, Joint(s, Joint(target, Joint(s, v)))), e),
                    Joint(Joint(name, Joint(d, port)), e)), close), size), rows), Joint(e, body))
        BY ONLY <3>1, LinesRegrouped
      <3>3. ((((((m \o s) \o target) \o ((s \o v) \o (e \o (name \o d)))) \o port)
                    \o (e \o (close \o size))) \o rows) \o e \o body
              = (((((m \o (s \o (target \o (s \o v)))) \o e) \o ((name \o (d \o port)) \o e)) \o close) \o size) \o rows \o (e \o body)
        BY ONLY <3>2, Zenon DEF Joint
      <3>4. QED
        BY ONLY <2>5, <2>8, <3>3, Zenon DEF port, name
    <2>10. QED
      BY <2>6, <2>9 DEF head, u, start, body
  <1> HIDE DEF text, head
  <1>11. /\ Block(head) /\ LineAt(head, 1) = first
         /\ {NameOf(LineAt(head, i)): i \in Starts(head)} = names
         /\ \A i \in Starts(head): LineAt(head, i) = RowOf(NameOf(LineAt(head, i)), values[NameOf(LineAt(head, i))])
         /\ \A i, j \in Starts(head): NameOf(LineAt(head, i)) = NameOf(LineAt(head, j)) => i = j
    BY <1>9 DEF ReadsAs
  <1>12. /\ HeadEnd(text) = Len(head) /\ FieldStarts(text) = Starts(head)
         /\ \A i \in Starts(head) \cup {1}: LineAt(text, i) = LineAt(head, i)
         /\ After(text, HeadEnd(text) + 1) = c.body
    BY <1>3, <1>10, <1>11, BlockEnds
  <1>13. HeadEnd(text) # 0 /\ text \in AnyText
    BY <1>11, <1>12, RequestIsText DEF Block, text
  <1>14. {NameOf(LineAt(text, i)): i \in FieldStarts(text)} = names
    BY <1>11, <1>12
  <1>15. QED
    BY <1>11, <1>12, <1>13, <1>14 DEF Sent, values, names, first, text

-----------------------------------------------------------------------------
(* What the server finds in it.                                            *)

LEMMA SentWords ==
  ASSUME NEW c \in Calls, NEW target \in Targets(c)
  PROVE  LET line == FirstSent(c, target)
             first == Find(line, SP)
             gap == Find(After(line, first), SP)
         IN /\ line \in AnyText /\ first = 2 /\ Before(line, first) = <<MethodToString[c.method]>>
            /\ gap # 0 /\ SubSeq(line, first + 1, (first + gap) - 1) = target
            /\ HasColon(line) => LoweredName(line) # <<"content-length">>
  <1> DEFINE word == MethodToString[c.method]
             m == <<word>>
             v == <<"HTTP/1.1">>
             tail == target \o (<<SP>> \o v)
             line == FirstSent(c, target)
             n == Len(target)
             gap == Find(tail, SP)
             cut == SubSeq(line, 3, n + 2)
  <1>1. word \in Tokens /\ word \notin {SP, COLON, CRLF}
    BY MethodWord
  <1>2. target \in AnyText /\ \A k \in 1 .. Len(target): target[k] # SP
    <2>1. PICK parts: Parted(c, target, parts)
      BY TargetParted
    <2>2. QED
      BY <2>1, TargetCut
  <1>3. n \in Nat
    BY <1>2 DEF AnyText
  <1>4. SP \in Tokens /\ v \in AnyText
    BY Separators DEF AnyText
  <1> HIDE DEF word
  <1>5. m \in AnyText /\ Len(m) = 1 /\ m[1] = word
    BY <1>1 DEF AnyText
  <1> HIDE DEF m, v
  <1>6. /\ tail \in AnyText /\ Len(tail) = n + 1 + Len(v) /\ gap = n + 1
        /\ Before(tail, gap) = target
    BY <1>2, <1>4, Separated
  <1> HIDE DEF tail, gap
  <1>7. line = m \o (<<SP>> \o tail)
    BY DEF FirstSent, tail, v, m, word
  <1> HIDE DEF line
  <1>8. /\ line \in AnyText /\ Len(line) = Len(m) + 1 + Len(tail)
        /\ Find(line, SP) = Len(m) + 1
        /\ Before(line, Find(line, SP)) = m /\ After(line, Find(line, SP)) = tail
    <2>1. \A k \in 1 .. Len(m): m[k] # SP
      BY <1>1, <1>5
    <2>2. QED
      BY <1>4, <1>5, <1>6, <1>7, <2>1, Separated
  <1>9. Find(line, SP) = 2 /\ Before(line, 2) = m /\ After(line, 2) = tail
    BY <1>5, <1>8
  <1>10. Len(v) \in Nat /\ Len(line) = 2 + Len(tail) /\ Len(tail) \in Nat
    BY <1>3, <1>4, <1>5, <1>6, <1>8 DEF AnyText
  <1>11. cut = target
    <2>1. 3 \in 1 .. Len(line) + 1 /\ n + 2 \in 3 - 1 .. Len(line) /\ (n + 2) - 3 + 1 = n
      BY <1>3, <1>6, <1>10
    <2>2. cut \in AnyText /\ Len(cut) = n /\ \A k \in 1 .. n: cut[k] = line[3 + k - 1]
      <3> DEFINE to == n + 2
      <3>1. 3 \in 1 .. Len(line) + 1 /\ to \in 3 - 1 .. Len(line) /\ to - 3 + 1 = n
        BY <2>1
      <3> HIDE DEF to
      <3>2. SubSeq(line, 3, to) \in AnyText /\ Len(SubSeq(line, 3, to)) = to - 3 + 1
            /\ \A k \in 1 .. to - 3 + 1: SubSeq(line, 3, to)[k] = line[3 + k - 1]
        BY <1>8, <3>1, Cut
      <3>3. SubSeq(line, 3, to) \in AnyText /\ Len(SubSeq(line, 3, to)) = n
            /\ \A k \in 1 .. n: SubSeq(line, 3, to)[k] = line[3 + k - 1]
        BY <3>1, <3>2
      <3>4. QED
        BY <3>3 DEF to
    <2> HIDE DEF cut
    <2>3. 2 \in 0 .. Len(line) /\ Len(line) - 2 = Len(tail)
      BY <1>10
    <2>4. \A k \in 1 .. Len(tail): tail[k] = line[2 + k]
      BY <1>8, <1>9, <2>3, CutAfter
    <2>5. gap \in 1 .. Len(tail) + 1 /\ gap - 1 = n
      BY <1>3, <1>6, <1>10
    <2>6. \A k \in 1 .. n: target[k] = tail[k]
      BY <1>6, <2>5, CutBefore
    <2>7. \A k \in 1 .. n: k \in 1 .. Len(tail) /\ 3 + k - 1 = 2 + k
      BY <1>3, <1>6, <1>10
    <2>8. \A k \in 1 .. n: cut[k] = target[k]
      BY <2>2, <2>4, <2>6, <2>7
    <2>9. QED
      BY <1>2, <2>2, <2>8, SameText
  <1>12. HasColon(line) => LoweredName(line) # <<"content-length">>
    <2>1. SUFFICES ASSUME HasColon(line) PROVE LoweredName(line) # <<"content-length">>
      OBVIOUS
    <2> DEFINE colon == Find(line, COLON)
    <2>2. colon \in 1 .. Len(line) + 1 /\ line[colon] = COLON /\ colon \in Nat
      BY <1>8, <2>1, Found DEF HasColon, AnyText
    <2>3. line[1] = word /\ line[2] = SP
      <3>1. 2 \in 1 .. Len(line) + 1 /\ 1 \in 1 .. 2 - 1
        BY <1>10
      <3>2. m[1] = line[1]
        BY <1>8, <1>9, <3>1, CutBefore
      <3>3. line[2] = SP
        BY <1>8, <1>9, Found
      <3>4. QED
        BY <1>5, <3>2, <3>3
    <2>4. SP # COLON
      BY Zenon DEF SP, COLON
    <2>5. colon > 2
      <3>1. colon # 1 /\ colon # 2
        BY <1>1, <2>2, <2>3, <2>4
      <3> HIDE DEF colon
      <3>2. QED
        BY <2>2, <3>1
    <2>6. NameOf(line) \in AnyText /\ Len(NameOf(line)) = colon - 1
      BY <1>8, <2>1, LineParts
    <2>7. Len(LoweredName(line)) = colon - 1
      BY <2>6, Lowered DEF LoweredName
    <2>8. Len(<<"content-length">>) = 1
      OBVIOUS
    <2> HIDE DEF colon
    <2>9. colon - 1 # 1
      BY <2>2, <2>5
    <2>10. Len(LoweredName(line)) # Len(<<"content-length">>)
      BY <2>7, <2>8, <2>9
    <2>11. QED
      BY ONLY <2>10
  <1>13. SubSeq(line, 2 + 1, (2 + gap) - 1) = target /\ gap # 0
    <2>1. 2 + 1 = 3 /\ (2 + gap) - 1 = n + 2 /\ gap # 0
      BY <1>3, <1>6
    <2>2. QED
      BY <1>11, <2>1
  <1>14. /\ line \in AnyText /\ Find(line, SP) = 2 /\ Before(line, Find(line, SP)) = m
         /\ After(line, Find(line, SP)) = tail
    BY <1>8, <1>9
  <1>15. /\ Find(After(line, Find(line, SP)), SP) # 0
         /\ SubSeq(line, Find(line, SP) + 1, (Find(line, SP) + Find(After(line, Find(line, SP)), SP)) - 1) = target
    BY <1>13, <1>14 DEF gap
  <1>16. QED
    BY <1>12, <1>14, <1>15 DEF line, m, word

LEMMA NumberBack ==
  ASSUME NEW n \in 0 .. MaxNumber
  PROVE  IsNumber(<<ToString(n)>>) /\ Number(<<ToString(n)>>) = n
  <1> DEFINE text == <<ToString(n)>>
  <1>1. \A k \in 0 .. MaxNumber: text = <<ToString(k)>> => k = n
    <2>1. SUFFICES ASSUME NEW k \in 0 .. MaxNumber, text = <<ToString(k)>> PROVE k = n
      OBVIOUS
    <2>2. ToString(k) = ToString(n)
      BY <2>1
    <2>3. QED
      BY <2>2, ResponseAssumption
  <1>2. text = <<ToString(n)>>
    OBVIOUS
  <1> HIDE DEF text
  <1>3. (CHOOSE k \in 0 .. MaxNumber: text = <<ToString(k)>>) = n
    BY <1>1, <1>2
  <1>4. IsNumber(text) /\ Number(text) = n
    BY <1>2, <1>3 DEF IsNumber, Number
  <1>5. QED
    BY <1>4 DEF text

LEMMA Unspaced ==
  ASSUME NEW value \in AnyText, value = <<>> \/ value[1] # SP
  PROVE  StripLeft(<<SP>> \o value, {SP}) = value
  <1> DEFINE text == <<SP>> \o value
  <1>1. /\ text \in AnyText /\ Len(text) = Len(value) + 1 /\ text[1] = SP
        /\ \A k \in 1 .. Len(value): text[k + 1] = value[k]
    BY Separators, Preceded
  <1>2. After(text, 1) = value
    <2> DEFINE one == <<SP>>
    <2>1. one \in AnyText /\ Len(one) = 1
      BY Separators DEF AnyText
    <2> HIDE DEF one
    <2>2. 0 \in 0 .. Len(value) /\ Len(one) + 0 = 1
      BY <2>1 DEF AnyText
    <2>3. After(one \o value, Len(one) + 0) = After(value, 0)
      BY <2>1, <2>2, LastPart
    <2>4. QED
      BY <2>2, <2>3, AfterNone DEF one
  <1> HIDE DEF text
  <1>3. Len(value) \in Nat
    BY DEF AnyText
  <1>4. 1 \in 0 .. Len(text) /\ \A i \in 1 .. 1: text[i] \in {SP}
    BY <1>1, <1>3
  <1>5. 1 < Len(text) => text[1 + 1] \notin {SP}
    <2>1. SUFFICES ASSUME 1 < Len(text) PROVE text[1 + 1] # SP
      OBVIOUS
    <2>2. 1 \in 1 .. Len(value)
      BY <1>1, <1>3, <2>1
    <2>3. value # <<>>
      BY <2>2
    <2>4. QED
      BY <1>1, <2>2, <2>3
  <1>6. StripLeft(text, {SP}) = After(text, 1)
    BY <1>1, <1>4, <1>5, StrippedTo
  <1>7. QED
    BY <1>2, <1>6 DEF text

(* The server finds two spaces and colons where it looks for them, the     *)
(* target, the length of the body that follows, and the Host header.       *)
LEMMA SentRead ==
  ASSUME NEW c \in Calls, NEW target \in Targets(c), NEW text, Sent(text, c, target)
  PROVE  /\ WellFormed(text) /\ TargetOf(text) = target
         /\ Before(LineAt(text, 1), Find(LineAt(text, 1), SP)) = <<MethodToString[c.method]>>
         /\ \A i \in ContentLengths(text): IsNumber(LengthText(text, i))
         /\ DeclaredLength(text) = Len(c.body) /\ Len(text) - (HeadEnd(text) + 1) = Len(c.body)
         /\ \A i \in FieldStarts(text):
               LoweredName(LineAt(text, i)) = <<"host">> => StripLeft(ValueOf(LineAt(text, i)), {SP}) = HostPort
         /\ \E i \in FieldStarts(text): LoweredName(LineAt(text, i)) = <<"host">>
  <1> DEFINE values == SentValues(c)
             names == SentNames(c)
             first == LineAt(text, 1)
             size == Len(c.body)
             marks == ContentLengths(text)
  <1>1. /\ text \in AnyText /\ HeadEnd(text) # 0 /\ After(text, HeadEnd(text) + 1) = c.body
        /\ first = FirstSent(c, target)
        /\ {NameOf(LineAt(text, i)): i \in FieldStarts(text)} = names
        /\ \A i \in FieldStarts(text): LineAt(text, i) = RowOf(NameOf(LineAt(text, i)), values[NameOf(LineAt(text, i))])
    BY DEF Sent
  <1>2. LET one == Find(first, SP)
            gap == Find(After(first, one), SP)
        IN /\ first \in AnyText /\ one = 2 /\ Before(first, one) = <<MethodToString[c.method]>>
           /\ gap # 0 /\ SubSeq(first, one + 1, (one + gap) - 1) = target
           /\ HasColon(first) => LoweredName(first) # <<"content-length">>
    BY <1>1, SentWords
  <1>3. /\ \A n \in names: /\ n \in AnyText /\ values[n] \in AnyText
                           /\ \A k \in 1 .. Len(n): n[k] # COLON /\ n[k] # CRLF
                           /\ \A k \in 1 .. Len(values[n]): values[n][k] # CRLF
        /\ \A n \in DOMAIN c.headers \ OwnedNames(c): Lowercase(n) \notin ClientOwned
        /\ Lowercase(HostName) = <<"host">> /\ Lowercase(CloseName) = <<"connection">>
        /\ Lowercase(LengthName) = <<"content-length">>
        /\ values[HostName] = HostPort /\ values[LengthName] = <<ToString(size)>>
        /\ size \in 0 .. MaxNumber /\ ToString(size) \in Tokens \ Framing
    BY SentNamed
  <1>4. names = {HostName, CloseName, LengthName} \cup (DOMAIN c.headers \ OwnedNames(c))
    BY DEF SentNames
  <1> HIDE DEF values, names, first, size
  <1>5. \A i \in FieldStarts(text):
           /\ HasColon(LineAt(text, i)) /\ NameOf(LineAt(text, i)) \in names
           /\ ValueOf(LineAt(text, i)) = <<SP>> \o values[NameOf(LineAt(text, i))]
    <2>1. SUFFICES ASSUME NEW i \in FieldStarts(text)
                   PROVE  /\ HasColon(LineAt(text, i)) /\ NameOf(LineAt(text, i)) \in names
                          /\ ValueOf(LineAt(text, i)) = <<SP>> \o values[NameOf(LineAt(text, i))]
      OBVIOUS
    <2> DEFINE line == LineAt(text, i)
               n == NameOf(line)
    <2>2. n \in names /\ line = RowOf(n, values[n])
      BY <1>1
    <2> HIDE DEF line, n
    <2>3. HasColon(RowOf(n, values[n])) /\ ValueOf(RowOf(n, values[n])) = <<SP>> \o values[n]
      BY <1>3, <2>2, RowReads
    <2>4. HasColon(line) /\ ValueOf(line) = <<SP>> \o values[n]
      BY <2>2, <2>3
    <2>5. QED
      BY <2>2, <2>4 DEF line, n
  <1>6. \A n \in names: /\ Lowercase(n) = <<"content-length">> => n = LengthName
                        /\ Lowercase(n) = <<"host">> => n = HostName
    <2>1. /\ <<"host">> # <<"connection">> /\ <<"host">> # <<"content-length">>
          /\ <<"connection">> # <<"content-length">>
          /\ <<"host">> \in ClientOwned /\ <<"content-length">> \in ClientOwned
      BY DEF ClientOwned
    <2>2. QED
      BY <1>3, <1>4, <2>1, Zenon
  <1>7. TwoSpaces(first) /\ TargetOf(text) = target
    <2>1. TwoSpaces(first)
      BY <1>2, Spaces
    <2>2. TargetOf(text) = target
      <3> DEFINE one == Find(first, SP)
                 gap == Find(After(first, one), SP)
      <3>1. TargetOf(text) = SubSeq(first, one + 1, (one + gap) - 1)
        BY ONLY TRUE DEF TargetOf, first
      <3>2. SubSeq(first, one + 1, (one + gap) - 1) = target
        BY <1>2
      <3> HIDE DEF one, gap
      <3>3. QED
        BY <3>1, <3>2
    <2>3. QED
      BY <2>1, <2>2
  <1>8. WellFormed(text)
    BY <1>5, <1>7 DEF WellFormed, TwoSpaces, first
  <1>9. 1 \notin marks
    BY <1>2 DEF ContentLengths, LoweredName, first
  <1>10. \A i \in marks: i \in FieldStarts(text) /\ Lowercase(NameOf(LineAt(text, i))) = <<"content-length">>
    BY <1>9 DEF ContentLengths, FieldStarts
  <1>11. \A i \in marks: LengthText(text, i) = <<ToString(size)>>
    <2>1. SUFFICES ASSUME NEW i \in marks PROVE LengthText(text, i) = <<ToString(size)>>
      OBVIOUS
    <2> HIDE DEF marks
    <2>6. i \in FieldStarts(text) /\ Lowercase(NameOf(LineAt(text, i))) = <<"content-length">>
      BY <1>10
    <2>7. NameOf(LineAt(text, i)) = LengthName
      BY <1>5, <1>6, <2>6
    <2>2. ValueOf(LineAt(text, i)) = <<SP>> \o values[LengthName]
      BY <1>5, <2>6, <2>7
    <2> DEFINE value == values[LengthName]
    <2>3. value \in AnyText /\ value[1] # SP
      BY <1>3, <1>4 DEF Framing
    <2> HIDE DEF value
    <2>4. StripLeft(<<SP>> \o value, {SP}) = value
      BY <2>3, Unspaced
    <2>5. QED
      BY <1>3, <2>2, <2>4 DEF LengthText, value
  <1>12. marks # {}
    <2>1. PICK i \in FieldStarts(text): NameOf(LineAt(text, i)) = LengthName
      BY <1>1, <1>4
    <2>2. i \in marks
      BY <1>3, <1>5, <2>1 DEF ContentLengths, FieldStarts
    <2>3. QED
      BY <2>2
  <1>13. IsNumber(<<ToString(size)>>) /\ Number(<<ToString(size)>>) = size
    BY <1>3, NumberBack
  <1>14. \A i \in marks: IsNumber(LengthText(text, i))
    BY <1>11, <1>13
  <1>15. DeclaredLength(text) = size
    <2>1. Max(marks) \in marks
      BY <1>1, <1>12, <1>14, LengthIsNumber
    <2>2. DeclaredLength(text) = Number(LengthText(text, Max(marks)))
      BY <1>12 DEF DeclaredLength
    <2> HIDE DEF marks
    <2>3. QED
      BY <1>11, <1>13, <2>1, <2>2
  <1>16. Len(text) - (HeadEnd(text) + 1) = size
    <2> DEFINE h == HeadEnd(text) + 1
    <2>1. h \in 0 .. Len(text)
      BY <1>1, HeadEnds DEF AnyText
    <2> HIDE DEF h
    <2>2. Len(After(text, h)) = Len(text) - h
      BY <1>1, <2>1, CutAfter
    <2>3. QED
      BY <1>1, <2>2 DEF h, size
  <1>17. \A i \in FieldStarts(text):
            LoweredName(LineAt(text, i)) = <<"host">> => StripLeft(ValueOf(LineAt(text, i)), {SP}) = HostPort
    <2>1. SUFFICES ASSUME NEW i \in FieldStarts(text), LoweredName(LineAt(text, i)) = <<"host">>
                   PROVE  StripLeft(ValueOf(LineAt(text, i)), {SP}) = HostPort
      OBVIOUS
    <2>2. ValueOf(LineAt(text, i)) = <<SP>> \o HostPort
      BY <1>3, <1>5, <1>6, <2>1 DEF LoweredName
    <2>3. HostPort \in AnyText /\ (HostPort = <<>> \/ HostPort[1] # SP)
      BY CallAssumption, MessagesAssumption, TextsAny
    <2>4. StripLeft(<<SP>> \o HostPort, {SP}) = HostPort
      BY <2>3, Unspaced
    <2>5. QED
      BY <2>2, <2>4
  <1>18. \E i \in FieldStarts(text): LoweredName(LineAt(text, i)) = <<"host">>
    <2>1. PICK i \in FieldStarts(text): NameOf(LineAt(text, i)) = HostName
      BY <1>1, <1>4
    <2>2. QED
      BY <1>3, <2>1 DEF LoweredName
  <1>19. Before(first, Find(first, SP)) = <<MethodToString[c.method]>>
    BY <1>2
  <1>20. QED
    BY <1>7, <1>8, <1>14, <1>15, <1>16, <1>17, <1>18, <1>19 DEF first, size

-----------------------------------------------------------------------------
(* HttpClient takes every reply that HttpSerializer writes.                *)

LEMMA StatusTaken ==
  ASSUME NEW r, Writable(r)
  PROVE  LET line == FirstOf(r)
             tail == After(line, Find(line, SP))
             code == Trim(IF Find(tail, SP) = 0 THEN tail ELSE Before(tail, Find(tail, SP)))
         IN /\ Find(line, SP) # 0 /\ line[1] \in {"HTTP/1.0", "HTTP/1.1"}
            /\ IsNumber(code) /\ Number(code) \in 100 .. 599
  <1> DEFINE number == ToString(r.status)
             phrase == StatusReasonPhrase[r.status]
             version == "HTTP/1.1"
             line == FirstOf(r)
             tail == After(line, Find(line, SP))
             one == <<number>>
             code == Trim(IF Find(tail, SP) = 0 THEN tail ELSE Before(tail, Find(tail, SP)))
  <1>1. r.status \in Statuses /\ r.status \in 0 .. MaxNumber
    BY ResponseAssumption DEF Writable, ResponseOK
  <1>2. r.status \in 100 .. 599
    BY <1>1 DEF Statuses
  <1>3. number \in Tokens /\ phrase \in Tokens /\ version \in Tokens /\ SP \in Tokens
    BY <1>1, Words, Separators
  <1>4. number \notin Framing
    BY <1>1, ResponseAssumption
  <1>5. version # SP
    BY Zenon DEF SP
  <1>6. version \in {"HTTP/1.0", "HTTP/1.1"}
    OBVIOUS
  <1>7. line = <<version, SP, number, SP, phrase>>
    BY DEF FirstOf
  <1> HIDE DEF number, phrase, version, line
  <1>8. line \in AnyText /\ Len(line) = 5 /\ line[1] = version /\ line[2] = SP /\ line[3] = number
        /\ line[4] = SP
    BY <1>3, <1>7 DEF AnyText
  <1>9. Find(line, SP) = 2
    <2>1. 2 \in 1 .. Len(line) /\ line[2] = SP /\ \A k \in 1 .. 2 - 1: line[k] # SP
      BY <1>5, <1>8
    <2>2. QED
      BY <1>8, <2>1, FoundAt
  <1>10. 2 \in 0 .. Len(line) /\ Len(line) - 2 = 3
    BY <1>8
  <1>11. number # SP
    BY <1>4 DEF Framing
  <1>12. tail \in AnyText /\ Len(tail) = 3 /\ tail[1] = number /\ tail[2] = SP
    <2>1. /\ After(line, 2) \in AnyText /\ Len(After(line, 2)) = Len(line) - 2
          /\ \A k \in 1 .. Len(line) - 2: After(line, 2)[k] = line[2 + k]
      BY <1>8, <1>10, CutAfter
    <2>2. \A k \in 1 .. 3: After(line, 2)[k] = line[2 + k]
      BY <1>10, <2>1
    <2>3. After(line, 2)[1] = line[3] /\ After(line, 2)[2] = line[4]
      BY <2>2
    <2>4. QED
      BY <1>8, <1>9, <1>10, <2>1, <2>3
  <1> HIDE DEF tail
  <1>13. Find(tail, SP) = 2
    <2>1. 2 \in 1 .. Len(tail) /\ tail[2] = SP /\ \A k \in 1 .. 2 - 1: tail[k] # SP
      BY <1>11, <1>12
    <2>2. QED
      BY <1>12, <2>1, FoundAt
  <1>14. Before(tail, 2) = one
    <2>1. 2 \in 1 .. Len(tail) + 1 /\ 2 - 1 = 1
      BY <1>12
    <2>2. /\ Before(tail, 2) \in AnyText /\ Len(Before(tail, 2)) = 1
          /\ \A k \in 1 .. 1: Before(tail, 2)[k] = tail[k]
      BY <1>12, <2>1, CutBefore
    <2>3. one \in AnyText /\ Len(one) = 1 /\ one[1] = number
      BY <1>3, OneWord
    <2> HIDE DEF one
    <2>4. QED
      BY <1>12, <2>2, <2>3, SameText
  <1>15. code = Trim(one)
    BY <1>13, <1>14
  <1>16. Trim(one) = one
    <2>1. one \in AnyText /\ \A k \in 1 .. Len(one): one[k] \notin Framing
      BY <1>3, <1>4, OneWord DEF Plain
    <2> HIDE DEF one
    <2>2. QED
      BY <2>1, Unblanked DEF Framing
  <1>17. IsNumber(one) /\ Number(one) = r.status
    BY <1>1, NumberBack DEF number
  <1> HIDE DEF code, one
  <1>18. Find(line, SP) # 0 /\ line[1] \in {"HTTP/1.0", "HTTP/1.1"}
    BY <1>6, <1>8, <1>9
  <1>19. IsNumber(code) /\ Number(code) \in 100 .. 599
    BY <1>2, <1>15, <1>16, <1>17
  <1>20. QED
    BY <1>18, <1>19 DEF code, tail, line

(* Every line of it has a colon, and its Content-Length is its body's.     *)
LEMMA FieldsTaken ==
  ASSUME NEW text, NEW r, Writable(r), Carries(text, r)
  PROVE  /\ \A i \in FieldStarts(text): HasColon(LineAt(text, i))
         /\ \E i \in FieldStarts(text): FieldName(LineAt(text, i)) = PromisedLength
         /\ \A i \in FieldStarts(text):
               FieldName(LineAt(text, i)) = PromisedLength
                   => Trim(ValueOf(LineAt(text, i))) = <<ToString(Len(r.body))>>
  <1> DEFINE names == WrittenNames(r)
             values == WrittenValues(r)
             starts == FieldStarts(text)
             Name(i) == NameOf(LineAt(text, i))
             number == ToString(Len(r.body))
             one == <<number>>
  <1>1. /\ \A n \in names: Plain(n) /\ Unbroken(values[n])
        /\ Lowercase(LengthName) = PromisedLength /\ values[LengthName] = one
        /\ number \in Tokens \ Framing
    BY NamesWritten
  <1>2. LengthName \in names
    BY DEF WrittenNames
  <1>3. /\ {Name(i): i \in starts} = names
        /\ \A i \in starts: LineAt(text, i) = RowOf(Name(i), values[Name(i)])
    BY DEF Carries
  <1>4. \A i \in starts: /\ Name(i) \in names /\ FieldName(LineAt(text, i)) = Lowercase(Name(i))
                         /\ Trim(ValueOf(LineAt(text, i))) = Trim(values[Name(i)])
    BY LinesTaken
  <1>5. \A m, n \in names: Lowercase(m) = Lowercase(n) => m = n
    BY OneName
  <1>6. Trim(one) = one
    <2>1. one \in AnyText /\ \A k \in 1 .. Len(one): one[k] \notin Framing
      BY <1>1, OneWord DEF Plain
    <2> HIDE DEF one
    <2>2. QED
      BY <2>1, Unblanked DEF Framing
  <1> HIDE DEF names, values, starts, Name, one, number
  <1>7. ASSUME NEW i \in starts PROVE HasColon(LineAt(text, i))
    <2> DEFINE n == Name(i)
               v == values[n]
    <2>1. Plain(n) /\ Unbroken(v) /\ LineAt(text, i) = RowOf(n, v)
      BY <1>1, <1>3, <1>4
    <2> HIDE DEF n, v
    <2>2. /\ n \in AnyText /\ v \in AnyText
          /\ \A k \in 1 .. Len(n): n[k] # COLON /\ n[k] # CRLF
          /\ \A k \in 1 .. Len(v): v[k] # CRLF
      BY <2>1 DEF Plain, Unbroken, Framing
    <2>3. HasColon(RowOf(n, v))
      BY <2>2, RowReads
    <2>4. QED
      BY <2>1, <2>3
  <1>8. \E i \in starts: FieldName(LineAt(text, i)) = PromisedLength
    BY <1>1, <1>2, <1>3, <1>4
  <1>9. ASSUME NEW i \in starts, FieldName(LineAt(text, i)) = PromisedLength
        PROVE  Trim(ValueOf(LineAt(text, i))) = one
    <2>1. Name(i) = LengthName
      BY <1>1, <1>2, <1>4, <1>5, <1>9
    <2>2. QED
      BY <1>1, <1>4, <1>6, <2>1
  <1>10. QED
    BY <1>7, <1>8, <1>9 DEF starts, one, number

(* What a client of this library reads is what the serializer wrote.       *)
AnswerInv ==
    call # NoCall => /\ pc \in {"status", "fields", "done"} => Carries(reply, response)
                     /\ pc # "rejected"

(* Status line, fields and body of such a reply are taken.                 *)
LEMMA ReplyTaken ==
  ASSUME call # NoCall, DeedInv, ReplyInv, AnswerInv, ParseStatus \/ ParseField \/ TakeBody
  PROVE  pc' # "rejected"
  <1> DEFINE r == response
  <1>1. /\ pc \in {"status", "fields"} /\ reply \in AnyText /\ Writable(r) /\ Carries(reply, r)
        /\ HeadEnd(reply) # 0
    BY DEF DeedInv, ReplyInv, AnswerInv, ParseStatus, ParseField, TakeBody, Carries
  <1>2. ASSUME ParseStatus PROVE pc' = "fields"
    <2> DEFINE line == FirstLine(ReplyHead)
               tail == After(line, Find(line, SP))
               code == Trim(IF Find(tail, SP) = 0 THEN tail ELSE Before(tail, Find(tail, SP)))
    <2> DEFINE good == /\ HeadEnd(reply) # 0 /\ Find(line, SP) # 0
                       /\ line[1] \in {"HTTP/1.0", "HTTP/1.1"}
                       /\ IsNumber(code) /\ Number(code) \in 100 .. 599
    <2>0. good => pc' = "fields"
      BY <1>2, Zenon DEF ParseStatus
    <2> HIDE DEF good
    <2>1. line = LineAt(reply, 1)
      <3>1. ReplyHead = SubSeq(reply, 1, HeadEnd(reply) - 1)
        BY DEF ReplyHead, Before
      <3>2. FirstLine(ReplyHead) = LineAt(reply, 1)
        BY <1>1, <3>1, FirstIsLine, HeadFrom
      <3>3. QED
        BY <3>2
    <2>2. line = FirstOf(r)
      BY <1>1, <2>1 DEF Carries
    <2> HIDE DEF line, r
    <2>3. good
      BY <1>1, <2>2, StatusTaken DEF good
    <2>4. QED
      BY <2>0, <2>3
  <1>3. ASSUME ParseField PROVE pc' = "fields"
    <2>1. PICK at \in Nat: ReplyAt(at)
      BY <1>3 DEF ReplyInv, ParseField
    <2>2. /\ at \in FieldStarts(reply) \cup {HeadEnd(reply) + 1}
          /\ rest = SubSeq(reply, at, HeadEnd(reply) - 1)
      BY <2>1 DEF ReplyAt
    <2>3. at \in FieldStarts(reply) /\ at \in LineStarts(reply)
      <3>1. HeadEnd(reply) \in Nat
        BY <1>1, NoneEarlier
      <3>2. SubSeq(reply, HeadEnd(reply) + 1, HeadEnd(reply) - 1) = <<>>
        BY <3>1, SubSeqEmpty
      <3>3. QED
        BY <1>3, <2>2, <3>2 DEF FieldStarts, ParseField
    <2>4. FirstLine(rest) = LineAt(reply, at)
      BY <1>1, <2>2, <2>3, HeadFrom
    <2>5. HasColon(LineAt(reply, at))
      BY <1>1, <2>3, FieldsTaken
    <2>6. QED
      BY <1>3, <2>4, <2>5 DEF ParseField
  <1>4. ASSUME TakeBody PROVE pc' = "done"
    <2> DEFINE starts == FieldStarts(reply)
               number == ToString(Len(r.body))
    <2>1. PICK at \in Nat: ReplyAt(at)
      BY <1>4 DEF ReplyInv, TakeBody
    <2>2. Earlier(reply, at) = starts
      <3>1. CASE at = HeadEnd(reply) + 1
        BY <1>1, <3>1, NoneEarlier
      <3>2. CASE at # HeadEnd(reply) + 1
        <4>1. at \in LineStarts(reply) /\ at # 1 /\ rest = SubSeq(reply, at, HeadEnd(reply) - 1)
          BY <2>1, <3>2 DEF ReplyAt, FieldStarts
        <4>2. /\ HeadEnd(reply) \in 1 .. Len(reply) - 1 /\ Len(reply) \in Nat
              /\ at \in 1 .. HeadEnd(reply) /\ LineEnd(reply, at) \in at .. HeadEnd(reply)
              /\ at < LineEnd(reply, at)
          BY <1>1, <4>1, HeadEnds, LineStart, LineEnds, NextLine DEF AnyText
        <4>3. at \in 1 .. Len(reply) + 1 /\ HeadEnd(reply) - 1 \in at - 1 .. Len(reply)
              /\ (HeadEnd(reply) - 1) - at + 1 > 0
          BY <4>2
        <4>4. Len(SubSeq(reply, at, HeadEnd(reply) - 1)) = (HeadEnd(reply) - 1) - at + 1
          <5>1. reply \in AnyText
            BY <1>1
          <5>2. QED
            BY <4>3, <5>1, Cut
        <4>5. Len(rest) > 0
          BY <4>1, <4>3, <4>4
        <4>6. QED
          BY <1>4, <4>5 DEF TakeBody
      <3>3. QED
        BY <3>1, <3>2
    <2>3. LastOf(out.headers, ReplyNames, ReplyValues, starts)
      BY <2>1, <2>2 DEF ReplyAt
    <2>4. /\ \E i \in starts: ReplyNames[i] = PromisedLength
          /\ \A i \in starts: ReplyNames[i] = PromisedLength => ReplyValues[i] = <<number>>
      BY <1>1, FieldsTaken DEF ReplyNames, ReplyValues
    <2>5. PromisedLength \in DOMAIN out.headers
      BY <2>3, <2>4 DEF LastOf
    <2>6. out.headers[PromisedLength] = <<number>>
      <3> DEFINE last == Max({i \in starts: ReplyNames[i] = PromisedLength})
      <3>1. /\ last \in starts /\ ReplyNames[last] = PromisedLength
            /\ out.headers[PromisedLength] = ReplyValues[last]
        BY <1>1, <2>3, <2>5, LastMark
      <3> HIDE DEF last
      <3>2. QED
        BY <2>4, <3>1
    <2>7. Len(r.body) \in 0 .. MaxNumber
      BY <1>1, MessagesAssumption DEF Writable, ResponseOK, AnyText
    <2>8. IsNumber(<<number>>) /\ Number(<<number>>) = Len(r.body)
      BY <2>7, NumberBack
    <2>9. Len(ReplyBody) = Len(r.body)
      BY <1>1 DEF Carries, ReplyBody
    <2> HIDE DEF number, r
    <2>10. Number(<<number>>) <= Len(ReplyBody)
      BY <2>7, <2>8, <2>9, MessagesAssumption
    <2>11. QED
      BY <1>4, <2>5, <2>6, <2>8, <2>10 DEF TakeBody
  <1>5. QED
    BY <1>2, <1>3, <1>4

LEMMA AnswerFollowed ==
  ASSUME DeedInv, ReplyInv, AnswerInv, [Next]_vars
  PROVE  AnswerInv'
  <1>1. call' = call
    BY DEF Next, Build, Scan, RequestLine, QueryPair, HeaderLine, Handler, Called, Refuse, Serialize,
           ParseStatus, ParseField, TakeBody, Ended, vars
  <1>2. SUFFICES ASSUME call # NoCall PROVE AnswerInv'
    BY <1>1 DEF AnswerInv
  <1>3. ASSUME Build \/ Scan \/ RequestLine \/ QueryPair \/ HeaderLine \/ Handler \/ Refuse
        PROVE  AnswerInv'
    BY <1>3 DEF AnswerInv, Build, Scan, RequestLine, QueryPair, HeaderLine, Handler, Called, Refuse
  <1>4. ASSUME Serialize PROVE AnswerInv'
    <2>1. PICK order \in SetToSeqs(DOMAIN response.headers):
                 reply' = StatusLine(response) \o HeaderText(response, order) \o response.body
      BY <1>4 DEF Serialize
    <2>2. Carries(reply', response)
      BY <2>1, ReplyCarries DEF DeedInv
    <2>3. pc' = "status" /\ response' = response
      BY <1>4 DEF Serialize
    <2>4. Carries(reply, response)'
      BY <2>2, <2>3
    <2>5. QED
      BY <2>3, <2>4 DEF AnswerInv
  <1>5. ASSUME ParseStatus \/ ParseField \/ TakeBody PROVE AnswerInv'
    <2>1. UNCHANGED <<response, reply>> /\ pc \in {"status", "fields"}
      BY <1>5 DEF ParseStatus, ParseField, TakeBody
    <2>2. pc' # "rejected"
      BY <1>2, <1>5, ReplyTaken
    <2>3. Carries(reply, response)'
      BY <1>2, <2>1 DEF AnswerInv
    <2>4. QED
      BY <2>2, <2>3 DEF AnswerInv
  <1>6. ASSUME UNCHANGED vars PROVE AnswerInv'
    <2>1. UNCHANGED <<response, reply, pc, call>>
      BY <1>6 DEF vars
    <2>2. Carries(reply, response)' = Carries(reply, response)
      BY <2>1
    <2>3. QED
      BY <2>1, <2>2 DEF AnswerInv
  <1>7. QED
    BY <1>3, <1>4, <1>5, <1>6 DEF Next, Ended

-----------------------------------------------------------------------------
(* The server, reading what HttpClient sent for a call: m parameters are   *)
(* kept, and what is left of the query string is the text of the others.   *)
ParamsAt(m) ==
    /\ Kept(request.params, call, m)
    /\ IF m = Len(call.params) THEN query = <<>>
       ELSE \E target, parts, p: /\ Parted(call, target, parts)
                                 /\ LaidAt(FlattenSeq(parts), parts, Len(call.params), p)
                                 /\ query = After(FlattenSeq(parts), p[m] + 1)

AskInv ==
    /\ call \in Calls \cup {NoCall}
    /\ call # NoCall =>
        /\ pc \notin {"threw", "starved", "400"}
        /\ pc # "build" => \E target \in Targets(call): Sent(wire, call, target)
        /\ pc \in {"query", "header", "handler"} => request.method = call.method
        /\ pc = "query" => \E m \in 0 .. Len(call.params): ParamsAt(m)
        /\ pc \in {"header", "handler"} => Kept(request.params, call, Len(call.params))

(* handleConnection() neither refuses such a request nor waits for more.   *)
LEMMA CallScanned ==
  ASSUME RequestInv, AskInv, call # NoCall, Scan
  PROVE  AskInv'
  <1>1. call \in Calls /\ pc = "scan" /\ UNCHANGED <<call, wire, request>>
    BY DEF AskInv, Scan
  <1>2. PICK target \in Targets(call): Sent(wire, call, target)
    BY <1>1 DEF AskInv
  <1>3. /\ \A i \in ContentLengths(wire): IsNumber(LengthText(wire, i))
        /\ DeclaredLength(wire) = Len(call.body)
        /\ Len(wire) - (HeadEnd(wire) + 1) = Len(call.body)
    BY <1>1, <1>2, SentRead
  <1>4. HeadEnd(wire) # 0
    BY <1>2 DEF Sent
  <1>5. Len(call.body) \in Nat
    BY <1>1, SentNamed
  <1>6. ~(Len(wire) - (HeadEnd(wire) + 1) < DeclaredLength(wire))
    BY <1>3, <1>5
  <1>7. pc' = "line"
    BY <1>3, <1>4, <1>6 DEF Scan
  <1>8. QED
    BY <1>1, <1>2, <1>7 DEF AskInv

LEMMA NoneKept ==
  ASSUME NEW params, NEW c
  PROVE  Kept(params, c, 0)
  BY DEF Kept

(* RequestLine leaves the query string before its first parameter.         *)
LEMMA CallLineTaken ==
  ASSUME RequestInv, AskInv, call # NoCall, RequestLine
  PROVE  AskInv'
  <1> DEFINE line == Before(rest, Find(rest, CRLF))
             first == Find(line, SP)
             second == first + Find(After(line, first), SP)
             target == SubSeq(line, first + 1, second - 1)
             mark == Find(target, "?")
  <1>1. /\ call \in Calls /\ pc = "line" /\ wire \in AnyText /\ rest = wire /\ request = EmptyRequest
        /\ HeadEnd(wire) # 0 /\ UNCHANGED <<call, wire>>
    BY DEF RequestInv, AskInv, RequestLine, Scanned
  <1>2. PICK t \in Targets(call): Sent(wire, call, t)
    BY <1>1 DEF AskInv
  <1>3. PICK parts: Parted(call, t, parts)
    BY <1>1, TargetParted
  <1>4. wire = After(wire, 1 - 1)
    BY <1>1, AfterNone
  <1>5. line = LineAt(wire, 1)
    BY <1>1, <1>4, FirstIsLine, Walk
  <1>6. target = TargetOf(wire)
    BY <1>5 DEF TargetOf
  <1>7. /\ WellFormed(wire) /\ TargetOf(wire) = t
        /\ Before(LineAt(wire, 1), Find(LineAt(wire, 1), SP)) = <<MethodToString[call.method]>>
    BY <1>1, <1>2, SentRead
  <1>8. \/ pc' = "threw"
        \/ /\ request' = [request EXCEPT
                 !.method = MethodFromString(Before(line, first)),
                 !.path = IF mark = 0 THEN target ELSE Before(target, mark),
                 !.version = After(line, second)]
           /\ query' = IF mark = 0 THEN <<>> ELSE After(target, mark)
           /\ pc' = "query"
    BY DEF RequestLine
  <1>9. pc' # "threw"
    <2>1. RequestInv'
      BY RequestWalked DEF Next
    <2>2. WellFormed(wire)'
      BY <1>1, <1>7
    <2>3. QED
      BY <2>1, <2>2 DEF RequestInv
  <1>10. MethodFromString(Before(line, first)) = call.method
    BY <1>1, <1>5, <1>7, MethodWord
  <1>11. target = t
    BY <1>6, <1>7
  <1> HIDE DEF line, first, second, target
  <1>12. /\ request'.method = call.method /\ pc' = "query"
         /\ query' = IF mark = 0 THEN <<>> ELSE After(t, mark)
    BY <1>1, <1>8, <1>9, <1>10, <1>11 DEF EmptyRequest
  <1>13. /\ call.params = <<>> => mark = 0
         /\ call.params # <<>> => mark # 0 /\ After(t, mark) = After(FlattenSeq(parts), 1)
         /\ \E p: LaidAt(FlattenSeq(parts), parts, Len(call.params), p)
    BY <1>1, <1>3, <1>11, TargetCut
  <1>14. Len(call.params) \in Nat
    BY <1>1, CallParts
  <1> HIDE DEF mark
  <1>15. ParamsAt(0)'
    <2>1. Kept(request.params, call, 0)'
      BY NoneKept
    <2>2. CASE Len(call.params) = 0
      <3>1. call.params = <<>>
        <4>1. call.params \in Seq(Texts \X Texts)
          BY <1>1, MessagesAssumption
        <4>2. QED
          BY <2>2, <4>1, EmptySeq
      <3>2. query' = <<>>
        BY <1>12, <1>13, <3>1
      <3>3. QED
        BY <1>1, <2>1, <2>2, <3>2 DEF ParamsAt
    <2>3. CASE Len(call.params) # 0
      <3>1. call.params # <<>>
        BY <2>3
      <3>2. query' = After(FlattenSeq(parts), 1)
        BY <1>12, <1>13, <3>1
      <3>3. PICK p: LaidAt(FlattenSeq(parts), parts, Len(call.params), p)
        BY <1>13
      <3>4. p[0] + 1 = 1
        BY <3>3 DEF LaidAt
      <3>5. query' = After(FlattenSeq(parts), p[0] + 1)
        BY <3>2, <3>4
      <3>6. QED
        BY <1>1, <1>3, <2>1, <2>3, <3>3, <3>5 DEF ParamsAt
    <2>4. QED
      BY <2>2, <2>3
  <1>16. (\E m \in 0 .. Len(call.params): ParamsAt(m))'
    BY <1>1, <1>14, <1>15
  <1>17. QED
    BY <1>1, <1>2, <1>12, <1>16 DEF AskInv

(* QueryPair takes the parameter it is at, and leaves the others.          *)
LEMMA CallPairTaken ==
  ASSUME RequestInv, AskInv, call # NoCall, QueryPair
  PROVE  AskInv'
  <1> DEFINE ampersand == Find(query, "&")
             pair == IF ampersand = 0 THEN query ELSE Before(query, ampersand)
             equals == Find(pair, "=")
             n == Len(call.params)
  <1>1. /\ call \in Calls /\ pc = "query" /\ request.method = call.method
        /\ DOMAIN request = {"method", "path", "version", "headers", "params", "body"}
        /\ UNCHANGED <<call, wire>>
    BY DEF RequestInv, AskInv, QueryPair
  <1>2. PICK t \in Targets(call): Sent(wire, call, t)
    BY <1>1 DEF AskInv
  <1>3. PICK m \in 0 .. n: ParamsAt(m)
    BY <1>1 DEF AskInv
  <1>4. /\ request' = IF equals # 0
                      THEN SetQueryParam(request, Decode(Before(pair, equals)), Decode(After(pair, equals)))
                      ELSE IF pair # <<>> THEN SetQueryParam(request, Decode(pair), <<>>)
                      ELSE request
        /\ query' = IF ampersand = 0 THEN <<>> ELSE After(query, ampersand)
        /\ pc' = IF query' = <<>> THEN "header" ELSE "query"
    BY DEF QueryPair
  <1>5. n \in Nat
    BY <1>1, CallParts
  <1> HIDE DEF n
  <1>6. CASE m = n
    <2>1. query = <<>> /\ Kept(request.params, call, n)
      BY <1>3, <1>6 DEF ParamsAt, n
    <2>2. ampersand = 0
      BY <2>1, NothingFound
    <2>3. pair = <<>>
      BY <2>1, <2>2
    <2>4. equals = 0
      BY <2>3, NothingFound
    <2> HIDE DEF ampersand, pair, equals
    <2>5. request' = request /\ query' = <<>> /\ pc' = "header"
      BY <1>4, <2>2, <2>3, <2>4
    <2>6. QED
      BY <1>1, <1>2, <2>1, <2>5 DEF AskInv, n
  <1>7. CASE m # n
    <2>1. m \in 0 .. n - 1 /\ m \in Nat /\ m + 1 \in 1 .. n
      BY <1>5, <1>7
    <2>2. /\ Kept(request.params, call, m)
          /\ \E target, parts, p: /\ Parted(call, target, parts)
                                  /\ LaidAt(FlattenSeq(parts), parts, n, p)
                                  /\ query = After(FlattenSeq(parts), p[m] + 1)
      BY <1>3, <1>7 DEF ParamsAt, n
    <2>3. PICK target, parts, p: /\ Parted(call, target, parts)
                                 /\ LaidAt(FlattenSeq(parts), parts, n, p)
                                 /\ query = After(FlattenSeq(parts), p[m] + 1)
      BY <2>2
    <2> DEFINE part == parts[m + 1]
               key == call.params[m + 1][1]
               value == call.params[m + 1][2]
    <2>4. \A left, amp, cut: left = After(FlattenSeq(parts), p[m] + 1) /\ amp = Find(left, "&")
                              /\ cut = (IF amp = 0 THEN left ELSE Before(left, amp))
            => /\ cut = After(parts[m + 1], 1)
               /\ m + 1 = n => amp = 0
               /\ m + 1 # n => /\ amp # 0 /\ After(left, amp) # <<>>
                               /\ After(left, amp) = After(FlattenSeq(parts), p[m + 1] + 1)
      BY <1>1, <2>1, <2>3, ParamNext DEF n
    <2>5. /\ pair = After(part, 1)
          /\ m + 1 = n => ampersand = 0
          /\ m + 1 # n => /\ ampersand # 0 /\ After(query, ampersand) # <<>>
                          /\ After(query, ampersand) = After(FlattenSeq(parts), p[m + 1] + 1)
      BY <2>3, <2>4
    <2>6. part \in ParamTexts(call, m + 1)
      BY <2>1, <2>3 DEF Parted, n
    <2> HIDE DEF part
    <2>7. LET cut == After(part, 1)
          IN /\ Find(cut, "=") # 0
             /\ Decode(Before(cut, Find(cut, "="))) = call.params[m + 1][1]
             /\ Decode(After(cut, Find(cut, "="))) = call.params[m + 1][2]
      BY <1>1, <2>1, <2>6, CallParts DEF n
    <2>8. /\ equals # 0 /\ Decode(Before(pair, equals)) = key /\ Decode(After(pair, equals)) = value
      BY <2>5, <2>7
    <2> HIDE DEF pair, equals, ampersand, key, value
    <2>9. request' = SetQueryParam(request, key, value)
      BY <1>4, <2>8
    <2>10. request'.method = call.method /\ request'.params = Updated(request.params, key, value)
      BY <1>1, <2>9 DEF SetQueryParam
    <2>11. Kept(request'.params, call, m + 1)
      BY <2>1, <2>2, <2>10, KeptOn DEF key, value
    <2>12. CASE m + 1 = n
      <3>1. query' = <<>> /\ pc' = "header"
        BY <1>4, <2>5, <2>12
      <3>2. Kept(request.params, call, Len(call.params))'
        BY <1>1, <2>11, <2>12 DEF n
      <3>3. QED
        BY <1>1, <1>2, <2>10, <3>1, <3>2 DEF AskInv
    <2>13. CASE m + 1 # n
      <3>1. query' = After(FlattenSeq(parts), p[m + 1] + 1) /\ pc' = "query"
        BY <1>4, <2>5, <2>13
      <3>2. ParamsAt(m + 1)'
        BY <1>1, <2>3, <2>11, <2>13, <3>1 DEF ParamsAt, n
      <3>3. (\E k \in 0 .. Len(call.params): ParamsAt(k))'
        <4>1. m + 1 \in 0 .. n
          BY <2>1
        <4>2. QED
          BY <1>1, <3>2, <4>1 DEF n
      <3>4. QED
        BY <1>1, <1>2, <2>10, <3>1, <3>3 DEF AskInv
    <2>14. QED
      BY <2>12, <2>13
  <1>8. QED
    BY <1>6, <1>7

(* The header lines leave the parameters alone, and none is malformed.     *)
LEMMA CallFieldTaken ==
  ASSUME RequestInv, AskInv, call # NoCall, HeaderLine
  PROVE  AskInv'
  <1>1. /\ call \in Calls /\ pc = "header" /\ request.method = call.method
        /\ Kept(request.params, call, Len(call.params))
        /\ DOMAIN request = {"method", "path", "version", "headers", "params", "body"}
        /\ UNCHANGED <<call, wire>>
    BY DEF RequestInv, AskInv, HeaderLine
  <1>2. PICK t \in Targets(call): Sent(wire, call, t)
    BY <1>1 DEF AskInv
  <1>3. \/ pc' = "handler" /\ \E b: request' = [request EXCEPT !.body = b]
        \/ pc' = "header" /\ \E h: request' = [request EXCEPT !.headers = h]
        \/ pc' = "threw"
    BY DEF HeaderLine, ParseHeaderLine, SetHeader
  <1>4. pc' # "threw"
    <2>1. RequestInv'
      BY RequestWalked DEF Next
    <2>2. WellFormed(wire)
      BY <1>1, <1>2, SentRead
    <2>3. WellFormed(wire)'
      BY <1>1, <2>2
    <2>4. QED
      BY <2>1, <2>3 DEF RequestInv
  <1>5. request'.method = request.method /\ request'.params = request.params
    BY <1>1, <1>3, <1>4
  <1>6. QED
    BY <1>1, <1>2, <1>3, <1>4, <1>5 DEF AskInv

(* No other step touches what the server has read of a call.               *)
LEMMA AskFollowed ==
  ASSUME RequestInv, AskInv, [Next]_vars
  PROVE  AskInv'
  <1>1. call' = call
    BY DEF Next, Build, Scan, RequestLine, QueryPair, HeaderLine, Handler, Called, Refuse, Serialize,
           ParseStatus, ParseField, TakeBody, Ended, vars
  <1>2. SUFFICES ASSUME call # NoCall PROVE AskInv'
    BY <1>1 DEF AskInv
  <1>3. call \in Calls
    BY <1>2 DEF AskInv
  <1>4. ASSUME Build PROVE AskInv'
    <2>1. PICK target \in Targets(call), order \in SetToSeqs(DOMAIN call.headers):
                 wire' = BuildRequest(call, target, order)
      BY <1>4 DEF Build
    <2>2. Sent(wire', call, target)
      BY <1>3, <2>1, CallSent
    <2>3. pc' = "scan"
      BY <1>4 DEF Build
    <2>4. QED
      BY <1>1, <1>3, <2>2, <2>3 DEF AskInv
  <1>5. ASSUME Handler PROVE AskInv'
    <2>1. UNCHANGED <<wire, pc, query, request>> /\ pc = "handler"
      BY <1>5 DEF Handler, Called
    <2>2. QED
      BY <1>1, <2>1 DEF AskInv
  <1>6. ASSUME Serialize \/ ParseStatus \/ ParseField \/ TakeBody PROVE AskInv'
    <2>1. UNCHANGED wire /\ pc # "build" /\ pc' \in {"status", "fields", "done", "rejected"}
      BY <1>6 DEF Serialize, ParseStatus, ParseField, TakeBody
    <2>2. QED
      BY <1>1, <2>1 DEF AskInv
  <1>7. ASSUME Refuse PROVE AskInv'
    BY <1>2, <1>7 DEF AskInv, Refuse
  <1>8. ASSUME UNCHANGED vars PROVE AskInv'
    <2>1. UNCHANGED <<call, wire, pc, query, request>>
      BY <1>8 DEF vars
    <2>2. \A m: ParamsAt(m)' <=> ParamsAt(m)
      BY <2>1 DEF ParamsAt
    <2>3. QED
      BY <2>1, <2>2 DEF AskInv
  <1>9. QED
    BY <1>2, <1>4, <1>5, <1>6, <1>7, <1>8, CallScanned, CallLineTaken, CallPairTaken, CallFieldTaken
       DEF Next, Ended

(* At the handler, all of it has come out as the application gave it.      *)
LEMMA CallTaken ==
  ASSUME RequestInv, AskInv, AnswerInv
  PROVE  CallCarried
  <1>1. SUFFICES ASSUME call # NoCall, pc = "handler"
                 PROVE  /\ request.method = call.method /\ request.path = call.path
                        /\ request.body = call.body
                        /\ Header(request, <<"Host">>) = HostPort
                        /\ \A i \in DOMAIN call.params:
                              \E j \in i .. Len(call.params):
                                  /\ call.params[j][1] = call.params[i][1]
                                  /\ \A k \in j + 1 .. Len(call.params): call.params[k][1] # call.params[i][1]
                                  /\ QueryParam(request, call.params[i][1]) = call.params[j][2]
    BY DEF CallCarried, AskInv, AnswerInv
  <1>2. /\ call \in Calls /\ request.method = call.method /\ LineRead /\ HeadersOf(FieldStarts(wire))
        /\ request.body = After(wire, HeadEnd(wire) + 1)
        /\ Kept(request.params, call, Len(call.params))
    BY <1>1 DEF RequestInv, AskInv
  <1>3. PICK t \in Targets(call): Sent(wire, call, t)
    BY <1>1 DEF AskInv
  <1>4. wire \in AnyText /\ HeadEnd(wire) # 0 /\ request.body = call.body
    BY <1>2, <1>3 DEF Sent
  <1>5. /\ TargetOf(wire) = t
        /\ \A i \in FieldStarts(wire):
              LoweredName(LineAt(wire, i)) = <<"host">> => StripLeft(ValueOf(LineAt(wire, i)), {SP}) = HostPort
        /\ \E i \in FieldStarts(wire): LoweredName(LineAt(wire, i)) = <<"host">>
    BY <1>2, <1>3, SentRead
  <1>6. request.path = call.path
    <2>1. PICK parts: Parted(call, t, parts)
      BY <1>2, TargetParted
    <2>2. /\ call.params = <<>> => Find(t, "?") = 0 /\ t = call.path
          /\ call.params # <<>> => Find(t, "?") # 0 /\ Before(t, Find(t, "?")) = call.path
      BY <1>2, <2>1, TargetCut
    <2>3. request.path = IF Find(t, "?") = 0 THEN t ELSE Before(t, Find(t, "?"))
      BY <1>2, <1>5 DEF LineRead, Mark
    <2>4. QED
      BY <2>2, <2>3
  <1>7. Header(request, <<"Host">>) = HostPort
    <2> DEFINE key == <<"host">>
               last == Max({i \in FieldStarts(wire): RequestNames[i] = key})
    <2>1. Lowercase(<<"Host">>) = key
      BY <1>2, SentNamed DEF HostName
    <2> HIDE DEF key
    <2>2. /\ \E i \in FieldStarts(wire): RequestNames[i] = key
          /\ \A i \in FieldStarts(wire): RequestNames[i] = key => RequestValues[i] = HostPort
      BY <1>5 DEF RequestNames, RequestValues, key
    <2>3. LastOf(request.headers, RequestNames, RequestValues, FieldStarts(wire))
      BY <1>2 DEF HeadersOf
    <2>4. key \in DOMAIN request.headers
      BY <2>2, <2>3 DEF LastOf
    <2>5. /\ last \in FieldStarts(wire) /\ RequestNames[last] = key
          /\ request.headers[key] = RequestValues[last]
      BY <1>4, <2>3, <2>4, LastMark
    <2> HIDE DEF last
    <2>6. request.headers[key] = HostPort
      BY <2>2, <2>5
    <2>7. QED
      BY <2>1, <2>4, <2>6 DEF Header, HasHeader
  <1>8. DOMAIN call.params = 1 .. Len(call.params)
    BY <1>2, CallParts
  <1>9. \A i \in DOMAIN call.params:
           \E j \in i .. Len(call.params):
               /\ call.params[j][1] = call.params[i][1]
               /\ \A k \in j + 1 .. Len(call.params): call.params[k][1] # call.params[i][1]
               /\ QueryParam(request, call.params[i][1]) = call.params[j][2]
    BY <1>2, <1>8 DEF Kept, QueryParam
  <1>10. QED
    BY <1>2, <1>4, <1>6, <1>7, <1>9

(* What HttpClient sends for a call reaches the handler as it was: method,  *)
(* path, Host, body and the last value of each parameter, however the       *)
(* application encoded them; on the way it is neither refused nor waited    *)
(* for in vain, and its answer is taken.                                    *)
THEOREM CallsCarried == Spec => []CallCarried
  <1>1. Init => AskInv /\ AnswerInv
    BY DEF Init, AskInv, AnswerInv
  <1>2. ExchangeInv /\ DeedInv /\ AskInv /\ AnswerInv /\ [Next]_vars => AskInv' /\ AnswerInv'
    BY AskFollowed, AnswerFollowed DEF ExchangeInv
  <1>3. ExchangeInv /\ AskInv /\ AnswerInv => CallCarried
    BY CallTaken DEF ExchangeInv
  <1>4. QED
    BY <1>1, <1>2, <1>3, ExchangeInvariant, DeedInvariant, PTL DEF Spec
=============================================================================
