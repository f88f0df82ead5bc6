---------------------------- MODULE RequestReader ----------------------------
(***************************************************************************)
(* How Server::handleConnection() collects one request: reads of at most   *)
(* DefaultReadChunk bytes until the end of the headers is in the buffer,   *)
(* a scan of the Content-Length headers, reads until the body is in the    *)
(* buffer, and the parser.  Only the sizes matter: what a read returns, and*)
(* where the blank line and the body end.                                  *)
(***************************************************************************)
EXTENDS Naturals, Sequences

CONSTANTS
    MaxHeader,      \* maxHeaderSize_
    MaxBody,        \* maxBodySize_
    Chunk,          \* DefaultReadChunk
    HeadSizes,      \* sizes of a header block, its blank line included
    FieldLists,     \* values of the Content-Length headers of a request
    SentSizes,      \* bytes a client sends in all
    Malformed       \* a Content-Length that is not a number of size_t

BlankLine == 4      \* "\r\n\r\n"

ASSUME ReaderAssumption ==
    /\ MaxHeader \in Nat /\ MaxBody \in Nat /\ Chunk \in Nat \ {0}
    /\ HeadSizes \subseteq {h \in Nat: h >= BlankLine} /\ SentSizes \subseteq Nat
    /\ Malformed \notin Nat
    /\ FieldLists \subseteq Seq(Nat \cup {Malformed})

VARIABLES
    head,           \* the request's header block ends at this byte
    fields,         \* its Content-Length headers, in order
    sent,           \* what the client sends before it waits or leaves
    left,           \* the client closed its end, or the connection broke
    raw,            \* raw.size()
    contentLength,  \* contentLength
    pc,             \* where handleConnection() is
    verdict         \* what it did with the request

clientVars == <<head, fields, sent>>
vars == <<clientVars, left, raw, contentLength, pc, verdict>>

-----------------------------------------------------------------------------
Steps == {"first", "header", "more", "scan", "body", "rest", "done"}
Verdicts == {"none", "closed", "431", "400", "413", "parsed"}

Init ==
    /\ head \in HeadSizes /\ fields \in FieldLists /\ sent \in SentSizes
    /\ left = FALSE
    /\ raw = 0
    /\ contentLength = 0
    /\ pc = "first"
    /\ verdict = "none"

Decide(v) == verdict' = v /\ pc' = "done"

(* raw.find("\r\n\r\n") *)
HeaderEndFound == raw >= head

(* The Content-Length the request goes by: the last one wins.              *)
Declared == IF fields = <<>> THEN 0 ELSE fields[Len(fields)]

-----------------------------------------------------------------------------
(* Faulty variants, none of them part of Next.                             *)

(* `<=` in the condition of the body's loop. *)
BodyTestOneMore ==
    /\ pc = "body"
    /\ IF raw - head <= contentLength
       THEN pc' = "rest" /\ UNCHANGED verdict
       ELSE Decide("parsed")
    /\ UNCHANGED <<clientVars, left, raw, contentLength>>

(* The cap is tested before the blank line is looked for. *)
HeaderTestCapFirst ==
    /\ pc = "header"
    /\ IF raw > MaxHeader THEN Decide("431")
       ELSE pc' = (IF HeaderEndFound THEN "scan" ELSE "more") /\ UNCHANGED verdict
    /\ UNCHANGED <<clientVars, left, raw, contentLength>>

(* The header loop never gives up. *)
HeaderTestUncapped ==
    /\ pc = "header"
    /\ pc' = IF HeaderEndFound THEN "scan" ELSE "more"
    /\ UNCHANGED <<clientVars, left, raw, contentLength, verdict>>

(* The body's loop stops at an empty read and parses what there is. *)
EmptyReadParsed ==
    /\ left
    /\ pc \in {"first", "more", "rest"}
    /\ Decide(IF pc = "rest" THEN "parsed" ELSE "closed")
    /\ UNCHANGED <<clientVars, left, raw, contentLength>>

-----------------------------------------------------------------------------
(* receiveAvailable(Chunk) returns what has arrived, at most a chunk.      *)
Receive(from, to) ==
    /\ pc = from
    /\ \E n \in 1 .. Chunk: raw + n <= sent /\ raw' = raw + n
    /\ pc' = to
    /\ UNCHANGED <<clientVars, left, contentLength, verdict>>

Read == Receive("first", "header") \/ Receive("more", "header") \/ Receive("rest", "body")

(* An empty read closes the connection, wherever it happens.               *)
EmptyRead ==
    /\ left
    /\ pc \in {"first", "more", "rest"}
    /\ Decide("closed")
    /\ UNCHANGED <<clientVars, left, raw, contentLength>>

(* The condition of the header loop, then its cap. *)
HeaderTest ==
    /\ pc = "header"
    /\ \/ HeaderEndFound /\ pc' = "scan" /\ UNCHANGED verdict
       \/ ~HeaderEndFound /\ raw > MaxHeader /\ Decide("431")
       \/ ~HeaderEndFound /\ raw <= MaxHeader /\ pc' = "more" /\ UNCHANGED verdict
    /\ UNCHANGED <<clientVars, left, raw, contentLength>>

(* The scan of the headers stops at the first malformed Content-Length.    *)
Scan ==
    /\ pc = "scan"
    /\ IF \E i \in DOMAIN fields: fields[i] = Malformed
       THEN Decide("400") /\ UNCHANGED contentLength
       ELSE /\ contentLength' = Declared
            /\ IF Declared > MaxBody THEN Decide("413") ELSE pc' = "body" /\ UNCHANGED verdict
    /\ UNCHANGED <<clientVars, left, raw>>

(* The condition of the body's loop; then the buffer is parsed.            *)
BodyTest ==
    /\ pc = "body"
    /\ IF raw - head < contentLength
       THEN pc' = "rest" /\ UNCHANGED verdict
       ELSE Decide("parsed")
    /\ UNCHANGED <<clientVars, left, raw, contentLength>>

(* The client leaves, whether or not it sent all it had. *)
Leave ==
    /\ ~left
    /\ left' = TRUE
    /\ UNCHANGED <<clientVars, raw, contentLength, pc, verdict>>

ServerStep == Read \/ EmptyRead \/ HeaderTest \/ Scan \/ BodyTest

Next == ServerStep \/ Leave

Spec == Init /\ [][Next]_vars

(* The bytes a client sends arrive, and the thread that can go on does.  No*)
(* client has to leave.                                                    *)
FairSpec == Spec /\ WF_vars(ServerStep)

-----------------------------------------------------------------------------
(* Every variable keeps to its type; in particular the length the reader   *)
(* goes by is a number, never the outcome of a failed conversion.          *)
TypeOK ==
    /\ head \in HeadSizes /\ fields \in FieldLists /\ sent \in SentSizes
    /\ left \in BOOLEAN
    /\ raw \in Nat
    /\ contentLength \in Nat
    /\ pc \in Steps
    /\ verdict \in Verdicts

(* Whatever a client declares and however its bytes are cut, one connection*)
(* never holds more than the two caps and two chunks.                      *)
BufferBound == raw <= MaxHeader + MaxBody + 2 * Chunk

(* What reaches the parser has its whole headers and the whole declared    *)
(* body, and the body is within the cap.                                   *)
ParsedWhole ==
    verdict = "parsed" =>
        /\ raw >= head + Declared
        /\ Declared <= MaxBody
        /\ \A i \in DOMAIN fields: fields[i] # Malformed

(* No request whose headers fit the cap is answered 431, however its bytes *)
(* are cut and however large its body is.                                  *)
NoFalse431 == verdict = "431" => head > MaxHeader

(* A client that sent a whole request and waits for its answer gets one:   *)
(* the server never waits for a byte the client does not owe it.           *)
WholeRequestDecided ==
    (\A i \in DOMAIN fields: fields[i] # Malformed) /\ sent >= head + Declared
        ~> verdict # "none"
=============================================================================
