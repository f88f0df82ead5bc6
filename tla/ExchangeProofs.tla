--------------------------- MODULE ExchangeProofs ---------------------------
(* Theorems about Exchange: for requests, responses, windows and chunks of *)
(* any size, what the client buffers is bounded, what it returns is whole, *)
(* and what it gives up has a cause.                                       *)
EXTENDS Exchange, TLAPS

(* No byte appears from nowhere, and only a reset loses any. *)
Flow ==
    /\ got + toClient <= replied
    /\ ~reset => got + toClient = replied

(* While send() is under way, what it knows of the response is what the    *)
(* bytes it has tell, and within the cap.                                  *)
Known ==
    /\ pc \in {"connect", "await", "send"} => got = 0
    /\ pc # "done" =>
        /\ got <= MaxResponse
        /\ length = Unparsed => got < answer.head
        /\ length # Unparsed => got >= answer.head /\ length # Malformed
        /\ length \in Nat => length <= MaxResponse
    /\ pc = "receive" => ~Enough

ExchangeInv ==
    TypeOK /\ Flow /\ Known /\ BufferBounded /\ ReturnedWhole /\ GivesUpForCause

USE DEF Steps, ServerSteps

(* The sizes of an answer, and what its Content-Length may be.             *)
LEMMA AnswerSizes ==
    ASSUME answer \in Answers
    PROVE  /\ answer.head \in Nat /\ answer.head > 0 /\ answer.body \in Nat
           /\ answer.length \in Nat \/ answer.length = Absent \/ answer.length = Malformed
           /\ answer.length # Unparsed /\ Unparsed \notin Nat
           /\ Absent # Unparsed /\ Malformed # Unparsed
           /\ Absent \notin Nat /\ Malformed \notin Nat /\ Absent # Malformed
<1>1. Unparsed \in Int /\ Unparsed \notin Nat
  BY DEF Unparsed
<1>2. /\ answer.head \in Heads /\ answer.body \in Bodies
      /\ answer.length \in Lengths \cup {Absent, Malformed}
  BY DEF Answers
<1>3. /\ Absent \notin Int /\ Malformed \notin Int /\ Absent # Malformed
      /\ Heads \subseteq Nat \ {0} /\ Lengths \subseteq Nat /\ Bodies \subseteq Nat
  BY ExchangeAssumption
<1>4. answer.head \in Nat /\ answer.head > 0 /\ answer.body \in Nat
  <2>1. answer.head \in Nat \ {0} /\ answer.body \in Nat
    BY <1>2, <1>3
  <2> QED BY <2>1
<1>5. answer.length \in Nat \/ answer.length = Absent \/ answer.length = Malformed
  BY <1>2, <1>3
<1>6. answer.length # Unparsed /\ Absent # Unparsed /\ Malformed # Unparsed
  BY <1>1, <1>3, <1>5
<1>7. Absent \notin Nat /\ Malformed \notin Nat
  BY <1>3
<1> QED BY <1>1, <1>3, <1>4, <1>5, <1>6, <1>7

(* The counters are natural numbers, and the rest of the typing of a step. *)
LEMMA Sizes ==
    ASSUME TypeOK
    PROVE  /\ answer \in Answers /\ answer.head \in Nat /\ answer.body \in Nat
           /\ got \in Nat /\ toClient \in Nat /\ replied \in Nat /\ body \in Nat
           /\ replied <= answer.head + answer.body
           /\ length \in {Unparsed, answer.length}
BY AnswerSizes DEF TypeOK

(* It holds before the client connects. *)
LEMMA InitInv == Init => ExchangeInv
<1> SUFFICES ASSUME Init PROVE ExchangeInv
  OBVIOUS
<1>a. answer.head \in Nat /\ answer.head > 0 /\ answer.body \in Nat
  BY AnswerSizes DEF Init
<1>1. TypeOK
  <2>1. sent \in 0 .. Request /\ toServer \in 0 .. sent
    BY ExchangeAssumption DEF Init
  <2>2. /\ replied \in 0 .. answer.head + answer.body
        /\ toClient \in 0 .. replied /\ got \in 0 .. replied
    BY <1>a DEF Init
  <2> QED BY <2>1, <2>2 DEF Init, TypeOK
<1>2. Known
  BY AnswerSizes, ExchangeAssumption DEF Init, Known
<1>3. Flow /\ BufferBounded /\ ReturnedWhole /\ GivesUpForCause
  BY ExchangeAssumption DEF Init, Flow, BufferBounded, ReturnedWhole, GivesUpForCause
<1> QED BY <1>1, <1>2, <1>3 DEF ExchangeInv

(* Each step of the client keeps the invariant. *)
LEMMA ClientInv ==
    ASSUME ExchangeInv, ClientStep
    PROVE  ExchangeInv'
<1> USE ExchangeAssumption DEF clientVars, serverVars, netVars
<1>1. CASE Connect
  BY <1>1 DEF ExchangeInv, Connect, Fail, TypeOK, Flow, Known, Enough, BufferBounded,
              ReturnedWhole, GivesUpForCause, Truncated
<1>2. CASE AwaitConnect
  BY <1>2 DEF ExchangeInv, AwaitConnect, Fail, TypeOK, Flow, Known, Enough, BufferBounded,
              ReturnedWhole, GivesUpForCause, Truncated
<1>3. CASE Send
  BY <1>3 DEF ExchangeInv, Send, TypeOK, Flow, Known, Enough, BufferBounded,
              ReturnedWhole, GivesUpForCause, Truncated
<1>4. CASE CallFails
  BY <1>4 DEF ExchangeInv, CallFails, Fail, TypeOK, Flow, Known, Enough, BufferBounded,
              ReturnedWhole, GivesUpForCause, Truncated
<1>5. CASE TimeOut
  BY <1>5 DEF ExchangeInv, TimeOut, Fail, TypeOK, Flow, Known, Enough, BufferBounded,
              ReturnedWhole, GivesUpForCause, Truncated
<1>6. CASE Test
  <2> USE <1>6, AnswerSizes, Sizes DEF ExchangeInv, Test, Return
  <2>1. TypeOK'
    BY DEF TypeOK, Enough
  <2>2. Flow'
    BY DEF Flow, TypeOK
  <2>3. Known'
    BY DEF Known, TypeOK, Enough
  <2>4. BufferBounded'
    BY DEF BufferBounded, TypeOK, Known
  <2>5. ReturnedWhole'
    BY DEF ReturnedWhole, TypeOK, Flow, Known, Enough, Truncated
  <2>6. GivesUpForCause'
    BY DEF GivesUpForCause, TypeOK, Flow, Known, Enough, Truncated
  <2> QED BY <2>1, <2>2, <2>3, <2>4, <2>5, <2>6
<1>7. CASE Receive
  <2> USE <1>7, AnswerSizes, Sizes DEF ExchangeInv, Receive, Fail
  <2>1. TypeOK'
    BY DEF TypeOK, Flow
  <2>2. Flow'
    BY DEF Flow, TypeOK
  <2>3. Known'
    BY DEF Known, TypeOK, Enough
  <2>4. BufferBounded'
    BY DEF BufferBounded, TypeOK, Known
  <2>5. ReturnedWhole'
    BY DEF ReturnedWhole, TypeOK, Flow, Known, Enough, Truncated
  <2>6. GivesUpForCause'
    <3>1. CASE got' > MaxResponse
      <4>1. got' <= replied
        BY DEF Flow
      <4>2. answer.head + answer.body > MaxResponse
        BY <3>1, <4>1, ExchangeAssumption, <2>1 DEF TypeOK
      <4> QED BY <4>2 DEF GivesUpForCause
    <3>2. CASE length' = Malformed \/ (length' \in Nat /\ length' > MaxResponse)
      <4>1. length' = answer.length
        BY <3>2, <2>1 DEF TypeOK
      <4> QED BY <3>2, <4>1 DEF GivesUpForCause
    <3>3. CASE pc' = "test" /\ result' = result
      BY <3>3 DEF GivesUpForCause, TypeOK
    <3>4. \/ got' > MaxResponse
          \/ length' = Malformed \/ (length' \in Nat /\ length' > MaxResponse)
          \/ pc' = "test" /\ result' = result
      OBVIOUS
    <3> QED BY <3>1, <3>2, <3>3, <3>4
  <2> QED BY <2>1, <2>2, <2>3, <2>4, <2>5, <2>6
<1>8. CASE Eof
  <2> USE <1>8, AnswerSizes, Sizes DEF ExchangeInv, Eof, Fail, Return
  <2>a. got - answer.head \in Nat \/ length # Absent
    BY DEF Known
  <2>b. pc' = "done" /\ result' \in {"nullopt", "response"} /\ body' \in Nat
    BY <2>a
  <2>1. TypeOK'
    BY <2>b DEF TypeOK
  <2>2. Flow'
    BY DEF Flow, TypeOK
  <2>3. Known'
    BY DEF Known, TypeOK, Enough
  <2>4. BufferBounded'
    BY DEF BufferBounded, TypeOK, Known
  <2>5. ReturnedWhole'
    <3>1. CASE length = Absent
      <4>1. answer.length = Absent /\ got >= answer.head /\ got = replied
        BY <3>1 DEF Flow, Known
      <4> QED BY <3>1, <4>1 DEF ReturnedWhole, Truncated
    <3>2. CASE length # Absent
      BY <3>2 DEF ReturnedWhole
    <3> QED BY <3>1, <3>2
  <2>6. GivesUpForCause'
    BY DEF GivesUpForCause, TypeOK, Flow, Known, Enough, Truncated
  <2> QED BY <2>1, <2>2, <2>3, <2>4, <2>5, <2>6
<1> QED BY <1>1, <1>2, <1>3, <1>4, <1>5, <1>6, <1>7, <1>8 DEF ClientStep

(* Each step of the server, and of TCP, keeps it. *)
LEMMA ServerInv ==
    ASSUME ExchangeInv, ServerStep
    PROVE  ExchangeInv'
<1> USE ExchangeAssumption DEF clientVars, serverVars, netVars
<1>1. CASE Take
  BY <1>1 DEF ExchangeInv, Take, TypeOK, Flow, Known, Enough, BufferBounded,
              ReturnedWhole, GivesUpForCause, Truncated
<1>2. CASE BeginAnswer
  BY <1>2 DEF ExchangeInv, BeginAnswer, TypeOK, Flow, Known, Enough, BufferBounded,
              ReturnedWhole, GivesUpForCause, Truncated
<1>3. CASE Reply
  <2> USE <1>3, AnswerSizes, Sizes DEF ExchangeInv, Reply
  <2>1. TypeOK'
    BY DEF TypeOK, Flow
  <2>2. Flow'
    BY DEF Flow, TypeOK
  <2>3. Known'
    BY DEF Known, TypeOK, Enough
  <2>4. BufferBounded'
    BY DEF BufferBounded, TypeOK, Known
  <2>5. ReturnedWhole'
    BY DEF ReturnedWhole, TypeOK, Flow, Known, Enough, Truncated
  <2>6. GivesUpForCause'
    BY DEF GivesUpForCause, TypeOK, Flow, Known, Enough, Truncated
  <2> QED BY <2>1, <2>2, <2>3, <2>4, <2>5, <2>6
<1>4. CASE Close
  BY <1>4 DEF ExchangeInv, Close, TypeOK, Flow, Known, Enough, BufferBounded,
              ReturnedWhole, GivesUpForCause, Truncated
<1>5. CASE Bounce
  <2> USE <1>5, AnswerSizes, Sizes DEF ExchangeInv, Bounce
  <2>1. TypeOK'
    BY DEF TypeOK, Flow
  <2>2. Flow'
    BY DEF Flow
  <2>3. Known'
    BY DEF Known, TypeOK, Enough
  <2>4. BufferBounded'
    BY DEF BufferBounded, TypeOK, Known
  <2>5. ReturnedWhole'
    BY DEF ReturnedWhole, TypeOK, Flow, Known, Enough, Truncated
  <2>6. GivesUpForCause'
    BY DEF GivesUpForCause, TypeOK, Flow, Known, Enough, Truncated
  <2> QED BY <2>1, <2>2, <2>3, <2>4, <2>5, <2>6
<1> QED BY <1>1, <1>2, <1>3, <1>4, <1>5 DEF ServerStep

(* Every step of an exchange keeps it, ... *)
LEMMA StepInv == ExchangeInv /\ [Next]_vars => ExchangeInv'
<1> SUFFICES ASSUME ExchangeInv, [Next]_vars PROVE ExchangeInv'
  OBVIOUS
<1>1. CASE ClientStep
  BY <1>1, ClientInv
<1>2. CASE ServerStep
  BY <1>2, ServerInv
<1>3. CASE UNCHANGED vars
  BY <1>3 DEF ExchangeInv, vars, clientVars, serverVars, netVars, TypeOK, Flow, Known, Enough,
              BufferBounded, ReturnedWhole, GivesUpForCause, Truncated
<1> QED BY <1>1, <1>2, <1>3 DEF Next

(* ... so that it holds throughout. *)
LEMMA Invariant == Spec => []ExchangeInv
BY InitInv, StepInv, PTL DEF Spec

(* HttpClient::send() never counts more bytes as sent or received than     *)
(* there are, and returns exactly when it has a result.                    *)
THEOREM ExchangeTypeCorrect == Spec => []TypeOK
BY Invariant, PTL DEF ExchangeInv

(* However long a head or body the server sends, the client buffers at     *)
(* most a chunk more than maxResponseSize, and gives up when it does.      *)
THEOREM ClientBufferBounded == Spec => []BufferBounded
BY Invariant, PTL DEF ExchangeInv

(* A response that send() returns is the whole of what was promised.       *)
THEOREM OnlyWholeReturned == Spec => []ReturnedWhole
BY Invariant, PTL DEF ExchangeInv

(* send() yields nullopt only for a cause: a failed or expired wait, a     *)
(* reset, a malformed, oversized or truncated response.                    *)
THEOREM NulloptForCause == Spec => []GivesUpForCause
BY Invariant, PTL DEF ExchangeInv
=============================================================================
