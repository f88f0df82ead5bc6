---------------------------- MODULE MCHttpMessages ----------------------------
(* HttpMessages on a handful of calls, foreign requests and foreign replies. *)
EXTENDS HttpMessages

MCLowerOf == [w \in {"Host", "Connection", "Content-Length", "Content-Type", "X-Id"} |->
    CASE w = "Host" -> "host" [] w = "Connection" -> "connection" [] w = "X-Id" -> "x-id"
      [] w = "Content-Length" -> "content-length" [] w = "Content-Type" -> "content-type"]
MCHostPort == <<"server", ":", "80">>

NoHeaders == [n \in {} |-> <<>>]
MCCalls == {
    [method |-> "Get", path |-> <<"/", "items">>, body |-> <<>>, headers |-> NoHeaders,
     params |-> <<<<<<"q">>, <<" ", "a">>>>>>],
    [method |-> "Get", path |-> <<"/">>, body |-> <<>>, headers |-> NoHeaders,
     params |-> <<<<<<"&">>, <<"=">>>>, <<<<"&">>, <<"%", "2">>>>>>],
    [method |-> "Put", path |-> <<"/", "items">>, body |-> <<"b", "c">>, params |-> <<>>,
     headers |-> <<"X-Id">> :> <<" ", "7">> @@ <<"Connection">> :> <<"keep">>
                 @@ <<"content-length">> :> <<"9">>]}

Line(words) == words \o <<CRLF>>
Get == Line(<<"GET", SP, "/", SP, "HTTP/1.1">>)
Field(name, value) == Line(<<name, COLON>> \o value)
End == <<CRLF>>

MCForeignTexts == {
    Get \o Field("x-id", <<SP, SP, "1">>) \o Field("X-Id", <<TAB, "2", SP>>) \o End,
    Get \o Field("Content-Length", <<SP, "3">>) \o Field("content-length", <<SP, "1">>)
        \o End \o <<"b", "c">>,
    Get \o Field("content-length", <<SP, "1">>) \o Field("Content-Length", <<"3">>)
        \o End \o <<"b", "c">>,
    Get \o Field("Content-Length", <<SP, "x">>) \o End,
    Get \o Line(<<"x-id">>) \o End,
    Line(<<"GET", SP, "/">>) \o End,
    Line(<<"BREW", SP, "/", "?", "a", "&", "&", "a", "=", "=", "%", SP, "HTTP/1.1">>) \o End \o <<CRLF>>,
    Line(<<"GET", SP, "/", "?", "%", "3", "a", "+", "%", "z", "0", "=", "?", "&", SP, "HTTP/1.0">>) \o End,
    End \o Get \o End,
    Get}

Ok == Line(<<"HTTP/1.1", SP, "200", SP, "OK">>)
MCForeignReplies == {
    Ok \o Field("X-Id", <<"1">>) \o Field("x-id", <<TAB, "2", SP>>) \o End \o <<"b", CRLF>>,
    Ok \o Field("Content-Length", <<"3">>) \o Field("content-length", <<SP, "1">>) \o End \o <<"b", "c">>,
    Ok \o Field("Content-Length", <<"3">>) \o End \o <<"b", "c">>,
    Ok \o Field("Content-Length", <<"b">>) \o End,
    Ok \o Line(<<"x-id">>) \o End,
    Line(<<"HTTP/1.0", SP, "404">>) \o End,
    Line(<<"HTTP/1.1", SP, "7", SP, "OK">>) \o End,
    Line(<<"ICY", SP, "200", SP, "OK">>) \o End,
    Ok}

MCHeaderNames == {<<"X-Id">>, <<"x-id">>, <<"Content-Length">>, <<"Connection">>}
MCHeaderValues == {<<"1">>, <<SP, "keep", SP>>}
MCBodies == {<<>>, <<"b", CRLF, CRLF, "c">>}
MCJsons == {<<"{}">>}
===============================================================================
