---------------------------- MODULE MCHttpServer ----------------------------
(* Conversations for HttpServer: messages put together from header fields and
   bodies in all combinations, and malformed ones. *)
EXTENDS HttpServer

NL(lf) == IF lf THEN <<"LF">> ELSE <<"CR", "LF">>

Line(f, lf) == f[1] \o <<":", "sp">> \o f[2] \o NL(lf)

(* Header fields: names known and unknown, empty, repeated tokens. *)
Fields ==
  {<<<<"a">>, <<"a", "sp", "1">>>>, <<<<"a", "a">>, <<>>>>,
   <<<<"Connection">>, <<"close">>>>, <<<<"Connection">>, <<"a", ",", "close">>>>,
   <<<<"Content-Length", "a">>, <<"2">>>>}

NoField == {<<>>}
FieldLists(n) == NoField \cup {<<f>> : f \in Fields}
                 \cup (IF n = 2 THEN Fields \X Fields ELSE {})

(* Bodies: <<header fields, symbols, content>>. *)
Bodies(nl) ==
  {<<<<>>, <<>>, <<>>>>,
   <<<<<<<<"Content-Length">>, <<"0">>>>>>, <<>>, <<>>>>,
   <<<<<<<<"Content-Length">>, <<"2">>>>>>, <<"a", ":">>, <<"a", ":">>>>,
   <<<<<<<<"Transfer-Encoding">>, <<"chunked">>>>>>,
     <<"2">> \o <<"CR", "LF">> \o <<"LF", "a">> \o <<"CR", "LF">> \o <<"1", ";", "a", "CR", "LF">>
       \o <<"1">> \o <<"CR", "LF">> \o <<"0">> \o <<"CR", "LF">> \o nl,
     <<"LF", "a", "1">>>>,
   <<<<<<<<"Transfer-Encoding">>, <<"a", ",", "chunked">>>>>>,
     <<"0">> \o <<"CR", "LF">> \o <<"a", ":", "a">> \o nl \o nl, <<>>>>}

Headers(fs, lf) == FoldLeft(LAMBDA acc, f : acc \o Line(f, lf), <<>>, fs)

Request(fs, b, lf) ==
  [type |-> "req",
   raw |-> <<"GET", "sp", "/", "a", "sp", "HTTP/1.1">> \o NL(lf) \o Headers(fs \o b[1], lf)
             \o NL(lf) \o b[2],
   good |-> TRUE, url |-> <<"/", "a">>, path |-> <<"/", "a">>, headers |-> ToSet(fs \o b[1]), body |-> b[3]]

Response(code, fs, b, good) ==
  [type |-> "res",
   raw |-> <<"HTTP/1.1", "sp", code, "sp", "a", "CR", "LF">> \o Headers(fs \o b[1], FALSE)
             \o <<"CR", "LF">> \o b[2],
   good |-> good, url |-> <<>>, path |-> <<>>, headers |-> ToSet(fs \o b[1]), body |-> b[3]]

Requests(n) == {Request(fs, b, lf) : fs \in FieldLists(n), b \in Bodies(<<"CR", "LF">>), lf \in BOOLEAN}

Responses ==
  {Response("200", fs, b, b[1] # <<>>) : fs \in FieldLists(1), b \in Bodies(<<"LF">>)}
    \cup {Response("204", fs, <<<<>>, <<>>, <<>>>>, TRUE) : fs \in FieldLists(1)}

Bad(raw) == [type |-> "req", raw |-> raw, good |-> FALSE, url |-> <<>>, path |-> <<>>,
             headers |-> {}, body |-> <<>>]

Start == <<"GET", "sp", "/", "sp", "HTTP/1.1", "CR", "LF">>
End   == <<"CR", "LF">>

Malformed ==
  {Bad(Start \o r) : r \in
     {<<"Content-Length", ":", "1", "CR", "LF", "Transfer-Encoding", ":", "chunked">> \o End \o End
        \o <<"0">> \o End \o End,
      <<"Content-Length", ":", "1", "CR", "LF", "Content-Length", ":", "1">> \o End \o End \o <<"a">>,
      <<"Content-Length", ":", "2", "2", "2">> \o End \o End \o <<"a">>,
      <<"Content-Length", ":", "1", "CR", "LF", "sp", "1">> \o End \o End,
      <<"Content-Length", ":">> \o End \o End,
      <<"Transfer-Encoding", ":", "a">> \o End \o End,
      <<"a", ":", "ctl">> \o End \o End,
      <<"a", "sp">> \o End \o End,
      <<"Connection", ":", "upgrade", "CR", "LF", "Upgrade", ":", "a">> \o End \o End \o <<"a", "a">>,
      <<"Transfer-Encoding", ":", "chunked">> \o End \o End \o <<"2", "2", "2">> \o End}}
  \cup {Bad(<<"a">> \o Start), Bad(<<"GET", "sp", "/", "LF", "LF">>),
        Bad(<<"CONNECT", "sp", "a">> \o <<"sp", "HTTP/1.0">> \o End \o End \o <<"a">>)}

Plain == Request(<<>>, <<<<>>, <<>>, <<>>>>, FALSE)
Close == Request(<<<<<<"Connection">>, <<"close">>>>>>, <<<<>>, <<>>, <<>>>>, FALSE)

(* URLs with a query, with scheme, user and server, with characters that are
   decoded, each with its path, and ill-formed ones. *)
Get(url) == Bad(<<"GET", "sp">> \o url \o <<"sp", "HTTP/1.1">> \o End \o End)
Urls ==
  {[Get(u[1]) EXCEPT !.good = TRUE, !.url = u[1], !.path = u[2]] : u \in
     {<<<<"/", "a", "?", "a", "?", ":">>, <<"/", "a">>>>,
      <<<<"/">>, <<"/">>>>, <<<<"/", "?", "%3F", "+">>, <<"/">>>>,
      <<<<"/", "a", "%3F", "+">>, <<"/", "a", "?", "+">>>>, <<<<"/", "a", ":">>, <<"/", "a", ":">>>>,
      <<<<"a", ":", "/", "/", "a", "@", "a", ":", "1", "/", "a">>, <<"/", "a">>>>,
      <<<<"a", ":", "/", "/", "a", "?", "/">>, <<"/">>>>, <<<<"a", ":", "/", "/", "a", "?">>, <<"/">>>>}}
  \cup {Get(u) : u \in
     {<<"a">>, <<"1">>, <<"a", ":", "/", "/">>, <<"a", ":", "a">>, <<"a", ":", "/", "a">>,
      <<"a", ":", "/", "/", "a", "@", "@">>, <<"/", "ctl">>}}

(* Requests sent without waiting for the answer, which may arrive together, and
   a chunked request with two fields behind its body. *)
Sized(f, b) == Request(<<>>, <<<<f>>, b, b>>, FALSE).raw
Pipelined ==
  {Bad(Sized(<<<<"Content-Length">>, <<"1">>>>, <<"a">>)
         \o Sized(<<<<"Transfer-Encoding">>, <<"chunked">>>>, <<"0", "CR", "LF", "CR", "LF">>)),
   Bad(Plain.raw \o <<"GET", "sp">>),
   Bad(Sized(<<<<"Transfer-Encoding">>, <<"chunked">>>>,
             <<"0", "CR", "LF", "Content-Length", ":", "1", "CR", "LF", "a", ":", "a">> \o End \o End))}

MCTalks ==
  {<<m>> : m \in Requests(2) \cup Responses}
    \cup {<<m, Plain>> : m \in Requests(1) \cup Malformed \cup Urls \cup Pipelined}
    \cup {<<Close, Close, Plain>>}

MCServers == {<<"api", FALSE>>, <<"mount", TRUE>>}
MCRoutes == {<<"/", "a">>}
MCBigFiles == {<<"/">>}
=============================================================================
