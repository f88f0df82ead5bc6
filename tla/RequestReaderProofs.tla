------------------------ MODULE RequestReaderProofs ------------------------
(***************************************************************************)
(* What holds of RequestReader for every cap, chunk size and request.  The *)
(* inductive invariant says how far raw may be at each step of             *)
(* handleConnection(): the cap bounds it when the header loop goes on, one *)
(* chunk more when it stops, and the declared length while the body is     *)
(* read.                                                                   *)
(***************************************************************************)
EXTENDS RequestReader, TLAPS

(* How far raw may be in the header loop, and in the body's. *)
HeaderReach == MaxHeader + Chunk
BodyReach == HeaderReach + MaxBody + Chunk

(* The buffer at each step.                                                *)
Reach ==
    /\ pc = "first" => raw = 0
    /\ pc = "header" => raw <= HeaderReach
    /\ pc = "more" => raw <= MaxHeader /\ raw < head
    /\ pc = "scan" => head <= raw /\ raw <= HeaderReach
    /\ pc \in {"body", "rest"} =>
         /\ head <= raw /\ head <= HeaderReach
         /\ raw <= HeaderReach \/ raw < head + contentLength + Chunk
    /\ pc = "rest" => raw < head + contentLength
    /\ raw <= BodyReach

(* What the scan has established once the body is being read, and that the *)
(* request is undecided until then.                                        *)
Scanned ==
    /\ pc \in {"body", "rest"} =>
         /\ contentLength = Declared /\ Declared <= MaxBody
         /\ \A i \in DOMAIN fields: fields[i] # Malformed
    /\ pc # "done" => verdict = "none"

IInv == TypeOK /\ Reach /\ Scanned /\ ParsedWhole /\ NoFalse431

(* A list without a malformed entry declares a number.                     *)
LEMMA DeclaredNat ==
  ASSUME fields \in FieldLists, \A i \in DOMAIN fields: fields[i] # Malformed
  PROVE  Declared \in Nat
  <1>1. fields \in Seq(Nat \cup {Malformed})
    BY ReaderAssumption
  <1>2. CASE fields = <<>>
    BY <1>2 DEF Declared
  <1>3. CASE fields # <<>>
    <2>1. Len(fields) \in DOMAIN fields /\ fields[Len(fields)] \in Nat \cup {Malformed}
      BY <1>1, <1>3
    <2>2. QED
      BY <1>3, <2>1 DEF Declared
  <1>4. QED
    BY <1>2, <1>3

LEMMA Sizes ==
  /\ MaxHeader \in Nat /\ MaxBody \in Nat /\ Chunk \in Nat \ {0}
  /\ HeadSizes \subseteq Nat /\ SentSizes \subseteq Nat
  BY ReaderAssumption

LEMMA InitInv == Init => IInv
  <1> SUFFICES ASSUME Init PROVE IInv
    OBVIOUS
  <1>1. TypeOK
    BY DEF Init, TypeOK, Steps, Verdicts
  <1>2. Reach
    BY Sizes DEF Init, Reach, HeaderReach, BodyReach
  <1>3. Scanned /\ ParsedWhole /\ NoFalse431
    BY DEF Init, Scanned, ParsedWhole, NoFalse431
  <1>4. QED
    BY <1>1, <1>2, <1>3 DEF IInv

LEMMA NextInv == IInv /\ [Next]_vars => IInv'
  <1> SUFFICES ASSUME IInv, [Next]_vars PROVE IInv'
    OBVIOUS
  <1> USE Sizes DEF clientVars, Steps, Verdicts, TypeOK
  <1>1. CASE Read
    <2>1. PICK n \in 1 .. Chunk: raw' = raw + n
      BY <1>1 DEF Read, Receive
    <2>2. UNCHANGED <<clientVars, left, contentLength, verdict>>
      BY <1>1 DEF Read, Receive
    <2>3. \/ pc = "first" /\ pc' = "header"
          \/ pc = "more" /\ pc' = "header"
          \/ pc = "rest" /\ pc' = "body"
      BY <1>1 DEF Read, Receive
    <2>4. raw \in Nat /\ raw' \in Nat /\ head \in Nat /\ contentLength \in Nat
      BY <2>1 DEF IInv
    <2>5. TypeOK'
      BY <2>2, <2>3, <2>4 DEF IInv
    <2>6. Reach'
      BY <2>1, <2>2, <2>3, <2>4 DEF IInv, Reach, Scanned, HeaderReach, BodyReach
    <2>7. Scanned' /\ ParsedWhole' /\ NoFalse431'
      BY <2>1, <2>2, <2>3, <2>4 DEF IInv, Scanned, ParsedWhole, NoFalse431, Declared
    <2>8. QED
      BY <2>5, <2>6, <2>7 DEF IInv
  <1>2. CASE EmptyRead
    BY <1>2 DEF EmptyRead, Decide, IInv, Reach, Scanned, ParsedWhole, NoFalse431, Declared
  <1>3. CASE HeaderTest
    <2>1. TypeOK' /\ Reach'
      BY <1>3 DEF HeaderTest, HeaderEndFound, Decide, IInv, Reach, HeaderReach
    <2>2. Scanned' /\ ParsedWhole' /\ NoFalse431'
      BY <1>3 DEF HeaderTest, HeaderEndFound, Decide, IInv, Scanned, ParsedWhole,
                  NoFalse431, Declared
    <2>3. QED
      BY <2>1, <2>2 DEF IInv
  <1>4. CASE Scan
    <2>1. CASE \E i \in DOMAIN fields: fields[i] = Malformed
      BY <1>4, <2>1 DEF Scan, Decide, IInv, Reach, Scanned, ParsedWhole, NoFalse431, Declared
    <2>2. CASE ~\E i \in DOMAIN fields: fields[i] = Malformed
      <3>1. Declared \in Nat
        BY <2>2, DeclaredNat DEF IInv
      <3>2. /\ contentLength' = Declared /\ pc = "scan"
            /\ \/ Declared > MaxBody /\ verdict' = "413" /\ pc' = "done"
               \/ Declared <= MaxBody /\ pc' = "body" /\ verdict' = verdict
            /\ UNCHANGED <<clientVars, left, raw>>
        BY <1>4, <2>2, <3>1 DEF Scan, Decide
      <3>3. Declared' = Declared
        BY <3>2 DEF Declared
      <3>4. TypeOK'
        BY <3>1, <3>2 DEF IInv
      <3>5. Reach'
        BY <3>1, <3>2 DEF IInv, Reach, HeaderReach
      <3>6. Scanned' /\ ParsedWhole' /\ NoFalse431'
        BY <2>2, <3>2, <3>3 DEF IInv, Scanned, ParsedWhole, NoFalse431
      <3>7. QED
        BY <3>4, <3>5, <3>6 DEF IInv
    <2>3. QED
      BY <2>1, <2>2
  <1>5. CASE BodyTest
    <2>1. TypeOK'
      BY <1>5 DEF BodyTest, Decide, IInv
    <2>2. Reach'
      BY <1>5 DEF BodyTest, Decide, IInv, Reach
    <2>3. Scanned' /\ ParsedWhole' /\ NoFalse431'
      BY <1>5 DEF BodyTest, Decide, IInv, Reach, Scanned, ParsedWhole, NoFalse431, Declared
    <2>4. QED
      BY <2>1, <2>2, <2>3 DEF IInv
  <1>6. CASE Leave \/ UNCHANGED vars
    BY <1>6 DEF Leave, vars, IInv, Reach, Scanned, ParsedWhole, NoFalse431, Declared
  <1>7. QED
    BY <1>1, <1>2, <1>3, <1>4, <1>5, <1>6 DEF Next, ServerStep

LEMMA InvHolds == Spec => []IInv
  BY InitInv, NextInv, PTL DEF Spec

(* Every reachable state is type correct. *)
THEOREM ReaderTypeCorrect == Spec => []TypeOK
  <1>1. IInv => TypeOK
    BY DEF IInv
  <1>2. QED
    BY <1>1, InvHolds, PTL

(* The memory one connection can take is bounded by the caps, whatever the *)
(* client declares and sends.                                              *)
THEOREM BufferBounded == Spec => []BufferBound
  <1>1. IInv => BufferBound
    BY Sizes DEF IInv, TypeOK, Reach, HeaderReach, BodyReach, BufferBound
  <1>2. QED
    BY <1>1, InvHolds, PTL

(* The parser is given whole requests only. *)
THEOREM ParsedOnlyWhole == Spec => []ParsedWhole
  <1>1. IInv => ParsedWhole
    BY DEF IInv
  <1>2. QED
    BY <1>1, InvHolds, PTL

(* A request whose headers fit the cap is never answered 431. *)
THEOREM FittingHeadersPass == Spec => []NoFalse431
  <1>1. IInv => NoFalse431
    BY DEF IInv
  <1>2. QED
    BY <1>1, InvHolds, PTL
=============================================================================
