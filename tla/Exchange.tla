------------------------------ MODULE Exchange ------------------------------
(***************************************************************************)
(* One exchange of FalconHTTP::Client::HttpClient::send() with a server:   *)
(* the client connects, sends a request, and reads until the response is   *)
(* complete by its Content-Length or by the end of the stream.  The server *)
(* is FalconHTTP's own, which may answer before it has read the request    *)
(* (413, 431) and closes after one answer, or another one that promises    *)
(* and delivers what it likes.                                             *)
(*                                                                         *)
(* Only sizes are modelled.  TCP delivers what was sent in pieces of its   *)
(* own; data for a closed socket makes it reset the connection, which may  *)
(* discard what the client has not yet received.                           *)
(***************************************************************************)
EXTENDS Integers

CONSTANTS
    Request,        \* bytes of the request
    Window,         \* bytes TCP takes from the client before the server reads them
    Chunk,          \* bytes of send()'s receive buffer
    MaxResponse,    \* options_.maxResponseSize
    Heads,          \* sizes of a response's head, its blank line included
    Lengths,        \* Content-Length values
    Bodies,         \* sizes of a response's body
    Absent,         \* no Content-Length
    Malformed       \* a Content-Length, or a head, that does not parse

ASSUME ExchangeAssumption ==
    /\ Request \in Nat \ {0} /\ Window \in Nat \ {0} /\ Chunk \in Nat \ {0}
    /\ MaxResponse \in Nat
    /\ Heads \subseteq Nat \ {0} /\ Lengths \subseteq Nat /\ Bodies \subseteq Nat
    /\ Absent \notin Int /\ Malformed \notin Int /\ Absent # Malformed

VARIABLES
    answer,     \* what the server will answer
    pc,         \* where send() is
    sent,       \* bytes of the request the client has passed to its socket
    toServer,   \* those of them the server has not read
    spc,        \* where the server is
    replied,    \* bytes of the response the server has passed to its socket
    toClient,   \* those of them the client may still receive
    reset,      \* the connection was reset
    got,        \* received.size()
    length,     \* expectedBody, Absent without hasLength, Unparsed before headEnd is known
    result,     \* "none", "nullopt" or "response"
    body,       \* the size of the response's body
    timedOut    \* history: connecting failed, or a wait ended without its event

clientVars == <<pc, sent, got, length, result, body, timedOut>>
serverVars == <<answer, spc, replied>>
netVars == <<toServer, toClient, reset>>
vars == <<clientVars, serverVars, netVars>>

-----------------------------------------------------------------------------
(* What parseHead() and parseNumber() make of an answer, and what follows. *)
Answers == [head: Heads, length: Lengths \cup {Absent, Malformed}, body: Bodies]

Unparsed == -1
Steps == {"connect", "await", "send", "test", "receive", "done"}
ServerSteps == {"reading", "answering", "closed"}

Init ==
    /\ answer \in Answers
    /\ pc = "connect" /\ spc = "reading"
    /\ sent = 0 /\ toServer = 0
    /\ replied = 0 /\ toClient = 0 /\ reset = FALSE
    /\ got = 0 /\ length = Unparsed
    /\ result = "none" /\ body = 0 /\ timedOut = FALSE

(* send() returns. *)
Fail == pc' = "done" /\ result' = "nullopt" /\ UNCHANGED body
Return(size) == pc' = "done" /\ result' = "response" /\ body' = size

-----------------------------------------------------------------------------
(* Faulty variants, none of them part of Next.                             *)

(* The response counts as complete one byte later. *)
EnoughOneMore == length \in Nat /\ got - answer.head > length

(* The head counts as body. *)
TestHeadCounted ==
    /\ pc = "test"
    /\ IF length \in Nat /\ got >= length THEN Return(length)
       ELSE pc' = "receive" /\ UNCHANGED <<result, body>>
    /\ UNCHANGED <<sent, got, length, timedOut, serverVars, netVars>>

(* receive() returning 0 is not told from "nothing yet". *)
EofIgnored ==
    /\ pc = "receive" /\ toClient = 0 /\ spc = "closed" /\ ~reset
    /\ pc' = "test"
    /\ UNCHANGED <<sent, got, length, result, body, timedOut, serverVars, netVars>>

(* The cap is tested only when the head is parsed. *)
ReceiveUncapped ==
    /\ pc = "receive"
    /\ \E n \in 1 .. Chunk:
        /\ n <= toClient
        /\ toClient' = toClient - n
        /\ got' = got + n
    /\ length' = IF length = Unparsed /\ got' >= answer.head THEN answer.length ELSE length
    /\ IF length' = Malformed \/ (length' \in Nat /\ length' > MaxResponse)
       THEN Fail ELSE pc' = "test" /\ UNCHANGED <<result, body>>
    /\ UNCHANGED <<sent, timedOut, serverVars, toServer, reset>>

-----------------------------------------------------------------------------
(* Socket::connect() with a timeout: the call completes at once, is in     *)
(* progress, or fails; setting the options may fail after it.              *)
Connect ==
    /\ pc = "connect"
    /\ \/ pc' \in {"await", "send"} /\ UNCHANGED <<result, body, timedOut>>
       \/ Fail /\ timedOut' = TRUE
    /\ UNCHANGED <<sent, got, length, serverVars, netVars>>

AwaitConnect ==
    /\ pc = "await"
    /\ \/ pc' = "send" /\ UNCHANGED <<result, body, timedOut>>
       \/ Fail /\ timedOut' = TRUE
    /\ UNCHANGED <<sent, got, length, serverVars, netVars>>

(* The loop of socket.send() takes what TCP has room for, and fails on a   *)
(* connection that was reset or when there is no room for too long.        *)
Send ==
    /\ pc = "send" /\ sent < Request /\ ~reset
    /\ \E n \in 1 .. Request:
        /\ sent + n <= Request /\ toServer + n <= Window
        /\ sent' = sent + n
        /\ toServer' = toServer + n
        /\ pc' = IF sent' = Request THEN "test" ELSE "send"
    /\ UNCHANGED <<got, length, result, body, timedOut, serverVars, toClient, reset>>

(* A system call on a connection that was reset. *)
CallFails ==
    /\ pc \in {"send", "receive"} /\ reset
    /\ Fail
    /\ UNCHANGED <<sent, got, length, timedOut, serverVars, netVars>>

TimeOut ==
    /\ (pc = "send" /\ toServer = Window) \/ (pc = "receive" /\ toClient = 0)
    /\ Fail /\ timedOut' = TRUE
    /\ UNCHANGED <<sent, got, length, serverVars, netVars>>

(* The top of the receiving loop: is the whole promised body there? *)
Enough == length \in Nat /\ got - answer.head >= length

Test ==
    /\ pc = "test"
    /\ IF Enough THEN Return(length) ELSE pc' = "receive" /\ UNCHANGED <<result, body>>
    /\ UNCHANGED <<sent, got, length, timedOut, serverVars, netVars>>

(* receive() yields at most a chunk; the cap comes first, then, once the   *)
(* blank line is there, the head and its Content-Length.                   *)
Receive ==
    /\ pc = "receive"
    /\ \E n \in 1 .. Chunk:
        /\ n <= toClient
        /\ toClient' = toClient - n
        /\ got' = got + n
    /\ length' = IF length = Unparsed /\ got' >= answer.head /\ got' <= MaxResponse
                 THEN answer.length ELSE length
    /\ IF got' > MaxResponse \/ length' = Malformed \/ (length' \in Nat /\ length' > MaxResponse)
       THEN Fail ELSE pc' = "test" /\ UNCHANGED <<result, body>>
    /\ UNCHANGED <<sent, timedOut, serverVars, toServer, reset>>

(* receive() yields 0. *)
Eof ==
    /\ pc = "receive" /\ toClient = 0 /\ spc = "closed" /\ ~reset
    /\ IF length = Absent THEN Return(got - answer.head) ELSE Fail
    /\ UNCHANGED <<sent, got, length, timedOut, serverVars, netVars>>

-----------------------------------------------------------------------------
Connected == pc \notin {"connect", "await"}

Take ==
    /\ spc = "reading"
    /\ \E n \in 1 .. Window: n <= toServer /\ toServer' = toServer - n
    /\ UNCHANGED <<clientVars, serverVars, toClient, reset>>

(* The whole request has been read; or it need not be, to refuse it.       *)
BeginAnswer ==
    /\ spc = "reading" /\ Connected
    /\ spc' = "answering"
    /\ UNCHANGED <<clientVars, answer, replied, netVars>>

(* Connection::sendAll(), in the pieces the client will receive. *)
Reply ==
    /\ spc = "answering" /\ ~reset
    /\ \E n \in 1 .. Chunk:
        /\ replied + n <= answer.head + answer.body
        /\ replied' = replied + n
        /\ toClient' = toClient + n
    /\ UNCHANGED <<clientVars, answer, spc, toServer, reset>>

(* The server closes after its answer, or before: it failed, or is another *)
(* server that promised more than it has.                                  *)
Close ==
    /\ spc \in {"reading", "answering"} /\ Connected
    /\ spc' = "closed"
    /\ UNCHANGED <<clientVars, answer, replied, netVars>>

(* Bytes of the request that nobody reads reset the connection. *)
Bounce ==
    /\ spc = "closed" /\ toServer > 0
    /\ reset' = TRUE
    /\ toServer' = 0
    /\ toClient' \in {0, toClient}
    /\ UNCHANGED <<clientVars, serverVars>>

-----------------------------------------------------------------------------
ClientStep ==
    Connect \/ AwaitConnect \/ Send \/ CallFails \/ TimeOut \/ Test \/ Receive \/ Eof

ServerStep == Take \/ BeginAnswer \/ Reply \/ Close \/ Bounce

Next == ClientStep \/ ServerStep

Spec == Init /\ [][Next]_vars

(* The client's thread runs, and a wait that lasts is ended by its timeout.*)
FairSpec == Spec /\ WF_vars(ClientStep)

-----------------------------------------------------------------------------
(* Every variable keeps to its type; what is received never exceeds the    *)
(* cap by more than a chunk, and no body returned exceeds it.              *)
TypeOK ==
    /\ answer \in Answers
    /\ pc \in Steps /\ spc \in ServerSteps
    /\ sent \in 0 .. Request /\ toServer \in 0 .. sent
    /\ replied \in 0 .. answer.head + answer.body /\ toClient \in 0 .. replied
    /\ reset \in BOOLEAN /\ timedOut \in BOOLEAN
    /\ got \in 0 .. replied
    /\ length \in {Unparsed, answer.length}
    /\ result \in {"none", "nullopt", "response"}
    /\ body \in Nat
    /\ result = "none" <=> pc # "done"

(* What one response makes the client buffer is bounded, whatever the      *)
(* server promises and sends.                                              *)
BufferBounded == got <= MaxResponse + Chunk /\ (got > MaxResponse => result = "nullopt")

Truncated == replied < answer.head + IF answer.length \in Nat THEN answer.length ELSE 0

(* A response that is returned is complete: it has the bytes its           *)
(* Content-Length promised, or, without one, all the server sent before it *)
(* closed the connection in order.                                         *)
ReturnedWhole ==
    result = "response" =>
        /\ answer.length \in Nat => body = answer.length /\ ~Truncated
        /\ answer.length \notin Nat =>
            answer.length = Absent /\ spc = "closed" /\ ~Truncated /\ body = replied - answer.head

(* send() gives up for one of the reasons it states and for no other: no   *)
(* cut of the bytes makes it refuse a response that is well-formed, whole  *)
(* and within the cap.                                                     *)
GivesUpForCause ==
    result = "nullopt" =>
        \/ timedOut \/ reset
        \/ answer.length = Malformed
        \/ answer.length \in Nat /\ answer.length > MaxResponse
        \/ answer.head + answer.body > MaxResponse
        \/ spc = "closed" /\ Truncated

(* Nothing blocks for ever: a client that began an exchange comes to its   *)
(* end, whatever the server does or fails to do.                           *)
SendReturns == pc = "connect" ~> pc = "done"
=============================================================================
