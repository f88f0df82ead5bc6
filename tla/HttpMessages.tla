----------------------------- MODULE HttpMessages -----------------------------
(***************************************************************************)
(* One exchange seen as text: HttpClient writes a request, the server      *)
(* looks for the end of its headers and its length, HttpParser makes an    *)
(* HttpRequest of it, a handler fills an HttpResponse, HttpSerializer      *)
(* writes it and HttpClient parses it.  A text is a sequence of tokens:    *)
(* the separators the code looks for, the characters of a query string, and*)
(* words, which the code only copies or compares.  "\r\n" is one token, and*)
(* sizes are counted in tokens.                                            *)
(***************************************************************************)
EXTENDS Integers, SequencesExt, TLC

CONSTANTS
    Calls,          \* what applications ask of HttpClient::send()
    ForeignTexts,   \* requests of other clients
    ForeignReplies, \* replies of other servers
    NoCall,         \* the exchange was not started by HttpClient
    LowerOf,        \* the capital words and their lower-case forms
    HostPort,       \* host ':' port
    StatusCodes, HeaderNames, HeaderValues, Bodies, Jsons, Extensions,
                    \* what handlers set
    MaxCalls,       \* bound on the calls of a handler
    MaxNumber       \* numbers a text may hold

Texts == Seq(STRING)

(* What applications pass are texts, and toLowerAscii() leaves no capital. *)
ASSUME MessagesAssumption ==
    /\ MaxCalls \in Nat /\ MaxNumber \in Nat /\ NoCall \notin Calls
    /\ LowerOf \in [DOMAIN LowerOf -> STRING]
    /\ \A w \in DOMAIN LowerOf: LowerOf[w] \notin DOMAIN LowerOf
    /\ "Content-Length" \in DOMAIN LowerOf /\ LowerOf["Content-Length"] = "content-length"
    /\ ForeignTexts \subseteq Texts /\ ForeignReplies \subseteq Texts /\ HostPort \in Texts
    /\ HeaderNames \cup HeaderValues \cup Bodies \cup Jsons \subseteq Texts
    /\ \A c \in Calls: /\ {c.path, c.body} \subseteq Texts /\ c.params \in Seq(Texts \X Texts)
                       /\ IsFiniteSet(DOMAIN c.headers)
                       /\ \A n \in DOMAIN c.headers: {n, c.headers[n]} \subseteq Texts

VARIABLES
    call,       \* what the application asked for, or NoCall
    wire,       \* the request's text
    pc,
    rest,       \* what the running parser has not looked at yet
    query,      \* what is left of the query string
    length,     \* the Content-Length the server reads the body by
    request,    \* HttpRequest
    response,   \* HttpResponse
    did,        \* the handler's calls
    reply,      \* the response's text
    out         \* ClientResponse

vars == <<call, wire, pc, rest, query, length, request, response, did, reply, out>>

SP == " "
TAB == "\t"
CRLF == "\r\n"
COLON == ":"

EmptyMap == [k \in {} |-> <<>>]
EmptyRequest == [method |-> "Unknown", path |-> <<>>, version |-> <<>>,
                 headers |-> EmptyMap, params |-> EmptyMap, body |-> <<>>]
EmptyResponse == [status |-> 200, headers |-> EmptyMap, body |-> <<>>]
EmptyOut == [statusCode |-> 0, headers |-> EmptyMap, body |-> <<>>]

Init ==
    /\ \/ call \in Calls /\ pc = "build" /\ wire = <<>> /\ reply = <<>>
       \/ call = NoCall /\ pc = "scan" /\ wire \in ForeignTexts /\ reply = <<>>
       \/ call = NoCall /\ pc = "status" /\ wire = <<>> /\ reply \in ForeignReplies
    /\ rest = <<>> /\ query = <<>> /\ length = 0
    /\ request = EmptyRequest /\ response = EmptyResponse /\ did = <<>>
    /\ out = EmptyOut

-----------------------------------------------------------------------------
(* Texts. Find() is 0 where find() is npos.                                *)

Find(text, c) == SelectInSeq(text, LAMBDA x: x = c)
Before(text, i) == SubSeq(text, 1, i - 1)
After(text, i) == SubSeq(text, i + 1, Len(text))

StripLeft(text, blanks) ==
    LET k == SelectInSeq(text, LAMBDA x: x \notin blanks)
    IN IF k = 0 THEN <<>> ELSE SubSeq(text, k, Len(text))

Lowercase(text) ==
    [i \in DOMAIN text |-> IF text[i] \in DOMAIN LowerOf THEN LowerOf[text[i]] ELSE text[i]]

(* trim(): spaces and tabs of both ends. *)
Trim(text) == Reverse(StripLeft(Reverse(StripLeft(text, {SP, TAB})), {SP, TAB}))

(* parseNumber(): nothing but digits, and a number that fits.              *)
IsNumber(text) == \E n \in 0 .. MaxNumber: text = <<ToString(n)>>
Number(text) == CHOOSE n \in 0 .. MaxNumber: text = <<ToString(n)>>

(* The end of the header block: the first blank line, 0 if there is none.  *)
HeadEnd(text) ==
    LET blanks == {i \in 1 .. Len(text) - 1: text[i] = CRLF /\ text[i + 1] = CRLF}
    IN IF blanks = {} THEN 0 ELSE Min(blanks)

(* The lines of the header block, each by its first position. *)
LineStarts(text) == {1} \cup {i + 1: i \in {j \in 1 .. HeadEnd(text) - 1: text[j] = CRLF}}
LineAt(text, i) == LET tail == After(text, i - 1) IN Before(tail, Find(tail, CRLF))
NameOf(line) == Before(line, Find(line, COLON))
ValueOf(line) == After(line, Find(line, COLON))
HasColon(line) == Find(line, COLON) # 0

-----------------------------------------------------------------------------
(* HttpMethod and HttpStatus, MimeTypes. *)

MethodToString ==
    [Get |-> "GET", Post |-> "POST", Put |-> "PUT", Delete |-> "DELETE",
     Patch |-> "PATCH", Head |-> "HEAD", Options |-> "OPTIONS", Unknown |-> "UNKNOWN"]

MethodFromString(text) ==
    LET named == {m \in DOMAIN MethodToString \ {"Unknown"}: text = <<MethodToString[m]>>}
    IN IF named = {} THEN "Unknown" ELSE CHOOSE m \in named: TRUE

Statuses == {200, 201, 204, 302, 307, 308, 400, 401, 403, 404, 405, 413, 429, 431, 500, 501, 503}
StatusReasonPhrase == [s \in Statuses |->
    CASE s = 200 -> "OK" [] s = 201 -> "Created" [] s = 204 -> "No Content"
      [] s = 302 -> "Found" [] s = 307 -> "Temporary Redirect" [] s = 308 -> "Permanent Redirect"
      [] s = 400 -> "Bad Request" [] s = 401 -> "Unauthorized" [] s = 403 -> "Forbidden"
      [] s = 404 -> "Not Found" [] s = 405 -> "Method Not Allowed" [] s = 413 -> "Payload Too Large"
      [] s = 429 -> "Too Many Requests" [] s = 431 -> "Request Header Fields Too Large"
      [] s = 500 -> "Internal Server Error" [] s = 501 -> "Not Implemented"
      [] s = 503 -> "Service Unavailable"]

MimeTypes ==
    [html |-> "text/html", htm |-> "text/html", css |-> "text/css",
     js |-> "application/javascript", json |-> "application/json", png |-> "image/png",
     jpg |-> "image/jpeg", jpeg |-> "image/jpeg", gif |-> "image/gif",
     svg |-> "image/svg+xml", ico |-> "image/x-icon", txt |-> "text/plain",
     pdf |-> "application/pdf"]

MimeTypeFromExtension(ext) ==
    IF ext \in DOMAIN MimeTypes THEN MimeTypes[ext] ELSE "application/octet-stream"

-----------------------------------------------------------------------------
(* UrlDecoder. *)

HexDigits == <<"0", "1", "2", "3", "4", "5", "6", "7", "8", "9", "a", "b", "c", "d", "e", "f">>
HexCapitals == <<"0", "1", "2", "3", "4", "5", "6", "7", "8", "9", "A", "B", "C", "D", "E", "F">>
HexDigitToValue(c) ==
    LET at == {i \in 1 .. 16: c \in {HexDigits[i], HexCapitals[i]}}
    IN IF at = {} THEN -1 ELSE (CHOOSE i \in at: TRUE) - 1

(* The characters whose bytes occur here. *)
Ascii == [byte \in {32, 37, 38, 43, 58, 61, 63, 97} |->
    CASE byte = 32 -> SP [] byte = 37 -> "%" [] byte = 38 -> "&" [] byte = 43 -> "+"
      [] byte = 58 -> COLON [] byte = 61 -> "=" [] byte = 63 -> "?" [] byte = 97 -> "a"]
CharOf(byte) == IF byte \in DOMAIN Ascii THEN Ascii[byte] ELSE "other byte"

(* Faulty variant: an escape that ends the text is not decoded.            *)
DecodeNotAtEnd(text) ==
    LET Escape(i) == /\ text[i] = "%" /\ i + 2 < Len(text)
                     /\ HexDigitToValue(text[i + 1]) >= 0 /\ HexDigitToValue(text[i + 2]) >= 0
        from[i \in 1 .. Len(text) + 1] ==
            IF i > Len(text) THEN <<>>
            ELSE IF Escape(i)
                 THEN <<CharOf(16 * HexDigitToValue(text[i + 1]) + HexDigitToValue(text[i + 2]))>>
                      \o from[i + 3]
                 ELSE <<IF text[i] = "+" THEN SP ELSE text[i]>> \o from[i + 1]
    IN from[1]

(* decode(): a '+' is a space, "%XX" a byte, and anything else itself.     *)
Decode(text) ==
    LET Escape(i) == /\ text[i] = "%" /\ i + 2 <= Len(text)
                     /\ HexDigitToValue(text[i + 1]) >= 0 /\ HexDigitToValue(text[i + 2]) >= 0
        from[i \in 1 .. Len(text) + 1] ==
            IF i > Len(text) THEN <<>>
            ELSE IF Escape(i)
                 THEN <<CharOf(16 * HexDigitToValue(text[i + 1]) + HexDigitToValue(text[i + 2]))>>
                      \o from[i + 3]
                 ELSE <<IF text[i] = "+" THEN SP ELSE text[i]>> \o from[i + 1]
    IN from[1]

-----------------------------------------------------------------------------
(* Header and parameter maps: update() or else insert(), so that the last  *)
(* value given for a key stays.                                            *)

Updated(map, key, value) ==
    [k \in DOMAIN map \cup {key} |-> IF k = key THEN value ELSE map[k]]

(* Faulty variant: insert() alone, which leaves the first value. *)
SetHeaderOnce(message, name, value) ==
    IF Lowercase(name) \in DOMAIN message.headers THEN message
    ELSE [message EXCEPT !.headers = Updated(@, Lowercase(name), value)]

SetHeader(message, name, value) ==
    [message EXCEPT !.headers = Updated(@, Lowercase(name), value)]
SetResponseHeader(message, name, value) ==
    [message EXCEPT !.headers = Updated(@, Lowercase(name), value)]
SetQueryParam(message, name, value) ==
    [message EXCEPT !.params = Updated(@, name, value)]

HasHeader(message, name) == Lowercase(name) \in DOMAIN message.headers
Header(message, name) == IF HasHeader(message, name) THEN message.headers[Lowercase(name)] ELSE <<>>
QueryParam(message, name) == IF name \in DOMAIN message.params THEN message.params[name] ELSE <<>>

-----------------------------------------------------------------------------
(* HttpClient writes the request. The headers come out of the application's*)
(* map in any order.                                                       *)

ClientOwned == {<<"host">>, <<"connection">>, <<"content-length">>}

(* How an application may write a parameter's character in a query string. *)
HexOf(byte) == {<<"%", H[(byte \div 16) + 1], H[(byte % 16) + 1]>>: H \in {HexDigits, HexCapitals}}
Escapes(c) ==
    LET escaped == HexOf(CHOOSE b \in DOMAIN Ascii: Ascii[b] = c)
    IN IF c \notin Range(Ascii) THEN {<<c>>}
       ELSE IF c = SP THEN escaped \cup {<<"+">>}
       ELSE IF c \in {"%", "&", "+", "="} THEN escaped ELSE escaped \cup {<<c>>}
(* Texts put together from one choice for each part. *)
Joined(choices) ==
    {FlattenSeq(parts): parts \in {f \in [DOMAIN choices -> UNION Range(choices)]:
                                      \A i \in DOMAIN choices: f[i] \in choices[i]}}
Encodings(text) == Joined([i \in DOMAIN text |-> Escapes(text[i])])
ParamTexts(c, i) ==
    {<<IF i = 1 THEN "?" ELSE "&">> \o k \o <<"=">> \o v:
        k \in Encodings(c.params[i][1]), v \in Encodings(c.params[i][2])}
Targets(c) == {c.path \o q: q \in Joined([i \in DOMAIN c.params |-> ParamTexts(c, i)])}

BuildRequest(c, target, order) ==
    <<MethodToString[c.method], SP>> \o target
    \o <<SP, "HTTP/1.1", CRLF, "Host", COLON, SP>> \o HostPort
    \o <<CRLF, "Connection", COLON, SP, "close", CRLF,
         "Content-Length", COLON, SP, ToString(Len(c.body)), CRLF>>
    \o FlattenSeq([i \in DOMAIN order |->
           IF Lowercase(order[i]) \in ClientOwned THEN <<>>
           ELSE order[i] \o <<COLON, SP>> \o c.headers[order[i]] \o <<CRLF>>])
    \o <<CRLF>> \o c.body

(* HttpClient does not look at what it is given, and writes it as it is:   *)
(* that a path has no space, '?' or line end, a header name no colon or    *)
(* line end, a value and a parameter no line end, is up to the application.*)
ASSUME CallAssumption ==
    /\ "Host" \in DOMAIN LowerOf /\ LowerOf["Host"] = "host"
    /\ CRLF \notin Range(HostPort) /\ (HostPort # <<>> => HostPort[1] # SP)
    /\ \A c \in Calls:
          /\ c.method \in DOMAIN MethodToString /\ Len(c.body) <= MaxNumber
          /\ Range(c.path) \cap {SP, "?", CRLF} = {}
          /\ \A i \in DOMAIN c.params:
                CRLF \notin Range(c.params[i][1]) \cup Range(c.params[i][2])
          /\ \A n \in DOMAIN c.headers:
                {COLON, CRLF} \cap Range(n) = {} /\ CRLF \notin Range(c.headers[n])

Build ==
    /\ pc = "build"
    /\ \E target \in Targets(call), order \in SetToSeqs(DOMAIN call.headers):
           wire' = BuildRequest(call, target, order)
    /\ pc' = "scan"
    /\ UNCHANGED <<call, rest, query, length, request, response, did, reply, out>>

-----------------------------------------------------------------------------
(* handleConnection() looks for the end of the headers and scans them for  *)
(* Content-Length; the parser does not see what it found.                  *)

ContentLengths(text) ==
    {i \in LineStarts(text): HasColon(LineAt(text, i))
        /\ Lowercase(NameOf(LineAt(text, i))) = <<"content-length">>}
LengthText(text, i) == StripLeft(ValueOf(LineAt(text, i)), {SP})

(* Faulty variant: the first Content-Length wins. *)
DeclaredFirst(text) ==
    LET marks == ContentLengths(text)
    IN IF marks = {} THEN 0 ELSE Number(LengthText(text, Min(marks)))

(* The length the body is read by: that of the last Content-Length.        *)
DeclaredLength(text) ==
    LET marks == ContentLengths(text)
    IN IF marks = {} THEN 0 ELSE Number(LengthText(text, Max(marks)))

Scan ==
    /\ pc = "scan"
    /\ \/ /\ HeadEnd(wire) # 0
          /\ \E i \in ContentLengths(wire): ~IsNumber(LengthText(wire, i))
          /\ pc' = "400" /\ UNCHANGED <<rest, length>>
       \/ /\ HeadEnd(wire) # 0
          /\ \A i \in ContentLengths(wire): IsNumber(LengthText(wire, i))
          /\ length' = DeclaredLength(wire)
          /\ pc' = IF Len(wire) - (HeadEnd(wire) + 1) < length' THEN "starved" ELSE "line"
          /\ rest' = wire
       \/ HeadEnd(wire) = 0 /\ pc' = "starved" /\ UNCHANGED <<rest, length>>
    /\ UNCHANGED <<call, wire, query, request, response, did, reply, out>>

-----------------------------------------------------------------------------
(* HttpParser. A malformed text throws, and the server answers 500.        *)

RequestLine ==
    /\ pc = "line"
    /\ LET line == Before(rest, Find(rest, CRLF))
           first == Find(line, SP)
           second == first + Find(After(line, first), SP)
           target == SubSeq(line, first + 1, second - 1)
           mark == Find(target, "?")
       IN IF first = 0 \/ second = first
          THEN pc' = "threw" /\ UNCHANGED <<query, request>>
          ELSE /\ request' = [request EXCEPT
                      !.method = MethodFromString(Before(line, first)),
                      !.path = IF mark = 0 THEN target ELSE Before(target, mark),
                      !.version = After(line, second)]
               /\ query' = IF mark = 0 THEN <<>> ELSE After(target, mark)
               /\ pc' = "query"
    /\ rest' = After(rest, Find(rest, CRLF))
    /\ UNCHANGED <<call, wire, length, response, did, reply, out>>

QueryPair ==
    /\ pc = "query"
    /\ LET ampersand == Find(query, "&")
           pair == IF ampersand = 0 THEN query ELSE Before(query, ampersand)
           equals == Find(pair, "=")
       IN /\ request' = IF equals # 0
                         THEN SetQueryParam(request, Decode(Before(pair, equals)),
                                            Decode(After(pair, equals)))
                         ELSE IF pair # <<>> THEN SetQueryParam(request, Decode(pair), <<>>)
                         ELSE request
          /\ query' = IF ampersand = 0 THEN <<>> ELSE After(query, ampersand)
          /\ pc' = IF query' = <<>> THEN "header" ELSE "query"
    /\ UNCHANGED <<call, wire, rest, length, response, did, reply, out>>

ParseHeaderLine(message, line) == SetHeader(message, NameOf(line), StripLeft(ValueOf(line), {SP}))

HeaderLine ==
    /\ pc = "header"
    /\ LET end == Find(rest, CRLF)
           line == Before(rest, end)
       IN /\ rest' = After(rest, end)
          /\ \/ end # 0 /\ line = <<>>
                /\ request' = [request EXCEPT !.body = rest'] /\ pc' = "handler"
             \/ end # 0 /\ HasColon(line)
                /\ request' = ParseHeaderLine(request, line) /\ pc' = "header"
             \/ (end = 0 \/ (line # <<>> /\ ~HasColon(line)))
                /\ pc' = "threw" /\ UNCHANGED request
    /\ UNCHANGED <<call, wire, query, length, response, did, reply, out>>

-----------------------------------------------------------------------------
(* The handler fills the response, HttpSerializer writes it.               *)

SetStatus(r, status) == [r EXCEPT !.status = status]
SetBody(r, body) == [r EXCEPT !.body = body]
SetJson(r, json) == SetResponseHeader(SetBody(r, json), <<"Content-Type">>, <<"application/json">>)
ServeFile(r, ext, content) ==
    SetBody(SetResponseHeader(SetStatus(r, 200), <<"Content-Type">>,
                              <<MimeTypeFromExtension(ext)>>), content)

Called(what, r) ==
    /\ pc = "handler" /\ Len(did) < MaxCalls
    /\ did' = Append(did, what) /\ response' = r
    /\ UNCHANGED <<call, wire, pc, rest, query, length, request, reply, out>>

Handler ==
    \/ \E s \in StatusCodes: Called([status |-> s], SetStatus(response, s))
    \/ \E n \in HeaderNames, v \in HeaderValues:
           Called([name |-> n, value |-> v], SetResponseHeader(response, n, v))
    \/ \E b \in Bodies: Called([body |-> b], SetBody(response, b))
    \/ \E j \in Jsons:
           Called([body |-> j, name |-> <<"Content-Type">>, value |-> <<"application/json">>],
                  SetJson(response, j))
    \/ \E e \in Extensions, b \in Bodies:
           Called([status |-> 200, body |-> b, name |-> <<"Content-Type">>,
                   value |-> <<MimeTypeFromExtension(e)>>], ServeFile(response, e, b))

(* The catch clause, and the answer to a malformed Content-Length.         *)
Refuse ==
    /\ pc \in {"threw", "400"}
    /\ LET status == IF pc = "threw" THEN 500 ELSE 400
       IN /\ response' = [EmptyResponse EXCEPT !.status = status, !.body = <<"why">>]
          /\ did' = <<[status |-> status, body |-> <<"why">>]>>
    /\ pc' = "answer"
    /\ UNCHANGED <<call, wire, rest, query, length, request, reply, out>>

SerializerOwned == {<<"content-length">>, <<"connection">>}

StatusLine(r) == <<"HTTP/1.1", SP, ToString(r.status), SP, StatusReasonPhrase[r.status], CRLF>>

(* Faulty variant: the handler's headers are all written. *)
HeaderTextAll(r, order) ==
    FlattenSeq([i \in DOMAIN order |-> order[i] \o <<COLON, SP>> \o r.headers[order[i]] \o <<CRLF>>])
    \o <<"Content-Length", COLON, SP, ToString(Len(r.body)), CRLF,
         "Connection", COLON, SP, "close", CRLF, CRLF>>

HeaderText(r, order) ==
    FlattenSeq([i \in DOMAIN order |->
        IF order[i] \in SerializerOwned THEN <<>>
        ELSE order[i] \o <<COLON, SP>> \o r.headers[order[i]] \o <<CRLF>>])
    \o <<"Content-Length", COLON, SP, ToString(Len(r.body)), CRLF,
         "Connection", COLON, SP, "close", CRLF, CRLF>>

Serialize ==
    /\ pc \in {"handler", "answer"}
    /\ \E order \in SetToSeqs(DOMAIN response.headers):
           reply' = StatusLine(response) \o HeaderText(response, order) \o response.body
    /\ pc' = "status"
    /\ UNCHANGED <<call, wire, rest, query, length, request, response, did, out>>

Framing == {SP, TAB, CRLF, COLON}
(* Numbers are spelt one way each, and like no word near them; they and    *)
(* bodies fit.                                                             *)
ASSUME ResponseAssumption ==
    /\ StatusCodes \subseteq Statuses /\ Statuses \subseteq 0 .. MaxNumber
    /\ \A m \in 0 .. MaxNumber:
          /\ ToString(m) \notin Framing \cup {"HTTP/1.1"} \cup Range(StatusReasonPhrase)
          /\ \A n \in 0 .. MaxNumber: ToString(m) = ToString(n) => m = n
    /\ \A b \in Bodies \cup Jsons: Len(b) <= MaxNumber
    /\ \A w \in DOMAIN LowerOf: LowerOf[w] \notin Framing
    /\ "Connection" \in DOMAIN LowerOf /\ LowerOf["Connection"] = "connection"
(* setHeader() does not look at what it is given, and the serializer copies*)
(* it: that a name has no blank, colon or line end, and a value no line    *)
(* end, is up to the handler.                                              *)
ASSUME HandlerAssumption ==
    /\ \A n \in HeaderNames: Range(n) \cap Framing = {}
    /\ \A v \in HeaderValues: CRLF \notin Range(v)

-----------------------------------------------------------------------------
(* HttpClient reads the reply.                                             *)

ReplyHead == Before(reply, HeadEnd(reply))
FirstLine(text) == IF Find(text, CRLF) = 0 THEN text ELSE Before(text, Find(text, CRLF))
RestOf(text) == IF Find(text, CRLF) = 0 THEN <<>> ELSE After(text, Find(text, CRLF))

ParseStatus ==
    /\ pc = "status"
    /\ LET line == FirstLine(ReplyHead)
           tail == After(line, Find(line, SP))
           code == Trim(IF Find(tail, SP) = 0 THEN tail ELSE Before(tail, Find(tail, SP)))
       IN IF /\ HeadEnd(reply) # 0 /\ Find(line, SP) # 0
             /\ line[1] \in {"HTTP/1.0", "HTTP/1.1"}
             /\ IsNumber(code) /\ Number(code) \in 100 .. 599
          THEN /\ out' = [out EXCEPT !.statusCode = Number(code)]
               /\ rest' = RestOf(ReplyHead)
               /\ pc' = "fields"
          ELSE pc' = "rejected" /\ UNCHANGED <<rest, out>>
    /\ UNCHANGED <<call, wire, query, length, request, response, did, reply>>

FieldName(line) == Lowercase(Trim(NameOf(line)))

(* Faulty variant: a name keeps the value of its first line. *)
KeepFirstField(headers, line) ==
    IF FieldName(line) \in DOMAIN headers THEN headers
    ELSE Updated(headers, FieldName(line), Trim(ValueOf(line)))

KeepField(headers, line) ==
    Updated(headers, FieldName(line), Trim(ValueOf(line)))

ParseField ==
    /\ pc = "fields" /\ rest # <<>>
    /\ LET line == FirstLine(rest)
       IN \/ /\ HasColon(line)
             /\ out' = [out EXCEPT !.headers = KeepField(@, line)]
             /\ UNCHANGED pc
          \/ ~HasColon(line) /\ pc' = "rejected" /\ UNCHANGED out
    /\ rest' = RestOf(rest)
    /\ UNCHANGED <<call, wire, query, length, request, response, did, reply>>

PromisedLength == <<"content-length">>
ReplyBody == After(reply, HeadEnd(reply) + 1)

TakeBody ==
    /\ pc = "fields" /\ rest = <<>>
    /\ \/ /\ PromisedLength \notin DOMAIN out.headers
          /\ out' = [out EXCEPT !.body = ReplyBody] /\ pc' = "done"
       \/ /\ PromisedLength \in DOMAIN out.headers
          /\ LET text == out.headers[PromisedLength]
             IN IF IsNumber(text) /\ Number(text) <= Len(ReplyBody)
                THEN out' = [out EXCEPT !.body = SubSeq(ReplyBody, 1, Number(text))] /\ pc' = "done"
                ELSE pc' = "rejected" /\ UNCHANGED out
    /\ UNCHANGED <<call, wire, rest, query, length, request, response, did, reply>>

Ended == pc \in {"starved", "rejected", "done"} /\ UNCHANGED vars

Next ==
    \/ Build \/ Scan \/ RequestLine \/ QueryPair \/ HeaderLine \/ Handler \/ Refuse
    \/ Serialize \/ ParseStatus \/ ParseField \/ TakeBody \/ Ended

Spec == Init /\ [][Next]_vars

-----------------------------------------------------------------------------
(* What the exchange promises. *)

FieldStarts(text) == LineStarts(text) \ {1}
LastNamed(text, names(_), n) ==
    LET marks == {i \in FieldStarts(text): names(LineAt(text, i)) = n} IN LineAt(text, Max(marks))

(* A text is a request that the parser takes: two spaces in its first line,*)
(* a colon in each of the others.                                          *)
WellFormed(text) ==
    /\ \E i, j \in DOMAIN LineAt(text, 1): i < j /\ LineAt(text, 1)[i] = SP /\ LineAt(text, 1)[j] = SP
    /\ \A i \in FieldStarts(text): HasColon(LineAt(text, i))

(* The pairs of a query string, each as <<first, last>> position. *)
Pairs(q) == {p \in (1 .. Len(q)) \X (1 .. Len(q)):
                /\ p[1] <= p[2] /\ \A i \in p[1] .. p[2]: q[i] # "&"
                /\ p[1] = 1 \/ q[p[1] - 1] = "&"
                /\ p[2] = Len(q) \/ q[p[2] + 1] = "&"}

LoweredName(line) == Lowercase(NameOf(line))
TargetOf(text) ==
    LET line == LineAt(text, 1)
        first == Find(line, SP)
        second == first + Find(After(line, first), SP)
    IN SubSeq(line, first + 1, second - 1)
QueryOf(text) == After(TargetOf(text), Find(TargetOf(text), "?"))
KeyOf(pair) == Decode(IF Find(pair, "=") = 0 THEN pair ELSE Before(pair, Find(pair, "=")))

(* The handler sees what the request says, whoever wrote it: an exception  *)
(* exactly for a malformed text; the path to the first '?', a parameter for*)
(* each pair after it, the last value for each header name whatever its    *)
(* case, and the body.                                                     *)
RequestParsed ==
    /\ pc = "threw" => ~WellFormed(wire)
    /\ pc = "handler" =>
        LET target == TargetOf(wire)
            q == QueryOf(wire)
        IN /\ WellFormed(wire)
           /\ request.body = After(wire, HeadEnd(wire) + 1)
           /\ IF "?" \in Range(target)
              THEN /\ target = request.path \o <<"?">> \o q
                   /\ DOMAIN request.params = {KeyOf(SubSeq(q, p[1], p[2])): p \in Pairs(q)}
              ELSE request.path = target /\ request.params = EmptyMap
           /\ DOMAIN request.headers = {LoweredName(LineAt(wire, i)): i \in FieldStarts(wire)}
           /\ \A n \in DOMAIN request.headers:
                 ValueOf(LastNamed(wire, LoweredName, n))
                     \in {[i \in 1 .. k |-> SP] \o Header(request, n): k \in 0 .. Len(wire)}

(* What HttpClient sends for a call is neither refused nor waited for in   *)
(* vain, and its parameters come out as they were, however the application *)
(* encoded them: the last value given for each name.                       *)
CallCarried ==
    call # NoCall =>
        /\ pc \notin {"threw", "starved", "400", "rejected"}
        /\ pc = "handler" =>
              /\ request.method = call.method /\ request.path = call.path
              /\ request.body = call.body
              /\ Header(request, <<"Host">>) = HostPort
              /\ \A i \in DOMAIN call.params:
                    \E j \in i .. Len(call.params):
                        /\ call.params[j][1] = call.params[i][1]
                        /\ \A k \in j + 1 .. Len(call.params): call.params[k][1] # call.params[i][1]
                        /\ QueryParam(request, call.params[i][1]) = call.params[j][2]

(* The body is read by the Content-Length that the handler sees.           *)
FramingAgrees ==
    pc = "handler" /\ did = <<>> /\ request.method # "Unknown" =>
        IF HasHeader(request, <<"Content-Length">>)
        THEN /\ Header(request, <<"Content-Length">>) = <<ToString(length)>>
             /\ Len(request.body) >= length
        ELSE length = 0

(* The client gets the response that the handler made: the last status and *)
(* body set, the last value of each header, each header in one line, and   *)
(* the two of the serializer telling the truth whatever the handler set.   *)
ResponseCarried ==
    pc = "done" /\ did # <<>> =>
        LET Sets(field) == {i \in DOMAIN did: field \in DOMAIN did[i]}
            Naming(n) == {i \in Sets("name"): Lowercase(did[i].name) = n}
            given == {Lowercase(did[i].name): i \in Sets("name")} \ SerializerOwned
        IN /\ out.statusCode = IF Sets("status") = {} THEN 200 ELSE did[Max(Sets("status"))].status
           /\ out.body = IF Sets("body") = {} THEN <<>> ELSE did[Max(Sets("body"))].body
           /\ DOMAIN out.headers = given \cup SerializerOwned
           /\ \A n \in given: out.headers[n] = Trim(did[Max(Naming(n))].value)
           /\ \A i, j \in FieldStarts(reply):
                 Lowercase(NameOf(LineAt(reply, i))) = Lowercase(NameOf(LineAt(reply, j))) => i = j
           /\ out.headers[<<"connection">>] = <<"close">>
           /\ out.headers[<<"content-length">>] = <<ToString(Len(out.body))>>

(* A reply of any server is taken whole or not at all: its code, for each  *)
(* name the last line's value, and the body it promises.                   *)
ReplyUnderstood ==
    pc = "done" =>
        LET body == After(reply, HeadEnd(reply) + 1)
        IN /\ ToString(out.statusCode) \in Range(LineAt(reply, 1))
           /\ \A i \in FieldStarts(reply): HasColon(LineAt(reply, i))
           /\ DOMAIN out.headers = {FieldName(LineAt(reply, i)): i \in FieldStarts(reply)}
           /\ \A n \in DOMAIN out.headers:
                 out.headers[n] = Trim(ValueOf(LastNamed(reply, FieldName, n)))
           /\ IF PromisedLength \in DOMAIN out.headers
              THEN /\ Len(out.body) <= Len(body) /\ out.body = SubSeq(body, 1, Len(out.body))
                   /\ <<ToString(Len(out.body))>> = out.headers[PromisedLength]
              ELSE out.body = body
=============================================================================
