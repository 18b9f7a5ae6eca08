----------------------------- MODULE HttpServer -----------------------------
(***************************************************************************)
(* One receive buffer of an HTTP server at work: the bytes of a request     *)
(* arrive in pieces, YS_NetTh::onEpollIn (isaac/ys_thread_asyn.h) has them  *)
(* parsed by YS_HttpParser::httpParse (ys_http_parser.h), and a worker      *)
(* answers a whole request in YS_HttpDriver::handle (ys_http_server.h).     *)
(* YS_HttpClient::isFullPkt parses responses the same way.                  *)
(*                                                                         *)
(* Requests come one after the other, from one connection or several, each *)
(* sent when the one before has been dealt with.  Module NetTh has the     *)
(* threads and the buffers' owners; this one has what is in the buffer.    *)
(***************************************************************************)
EXTENDS HttpParser

CONSTANTS
  Cap,          \* capacity of the receive buffer
  Servers,      \* <<driver, supportBlock>>; the driver is "api" (YS_HttpDriver)
                \* or "mount" (YS_HttpMountDriver)
  Pieces,       \* how many symbols a recv may return, when not all there are
  Routes,       \* paths with a handler
  BigFiles,     \* paths whose handler, or whose file, is sent with sendFile
  Talks         \* conversations: sequences of messages, see Message below

(* A message: its symbols; is it well-formed and complete in itself; and what
   it says, written down independently of the parser. *)
Message == [type : {"req", "res"}, raw : Seq(STRING), good : BOOLEAN,
            url : Seq(STRING), path : Seq(STRING),
            headers : SUBSET (Seq(STRING) \X Seq(STRING)), body : Seq(STRING)]

ASSUME HttpServerAssumption ==
  Cap \in Nat \ {0} /\ Pieces \subseteq Nat \ {0}
  /\ Servers \subseteq {"api", "mount"} \X BOOLEAN /\ Talks \subseteq Seq(Message)

VARIABLES
  driver,       \* the server's driver ...
  supportBlock, \* ... and its supportBlock
  talk, i,      \* the conversation, and how many of its messages were sent
  rest,         \* symbols of the current message still in the socket
  len,          \* recvData.length()
  ctx,          \* is there a YS_HttpParserCtx in the buffer?
  pos,          \* its _pos
  x,            \* its parser
  whole,        \* history: a parser fed this packet without interruption
  handled,      \* history: the requests handled, with the answers
  outcome,      \* of the current message: "none", "handled", "bad", "big"
  closing,      \* closeWait was called for the current connection
  spoiled,      \* history: a packet in this buffer has been discarded
  oob           \* history: the parser was given bytes beyond the data

vars == <<driver, supportBlock, talk, i, rest, len, ctx, pos, x, whole, handled, outcome,
          closing, spoiled, oob>>

Msg == talk[i]

----------------------------------------------------------------------------
(* The peer sends the next message. *)
Send ==
  /\ i < Len(talk) /\ rest = <<>> /\ len = 0 /\ ~oob
  /\ i = 0 \/ outcome # "none"
  /\ i' = i + 1
  /\ rest' = talk[i + 1].raw
  /\ whole' = NewParser(talk[i + 1].type)
  /\ outcome' = "none" /\ closing' = FALSE
  /\ UNCHANGED <<driver, supportBlock, talk, len, ctx, pos, x, handled, spoiled, oob>>

(* The headers of a request with a given name. *)
Named(c, name) == {k \in 1..Len(c.headers) : c.headers[k][1] = <<name>>}

(* getConnection: the first Connection header; when there is none keep-alive,
   which is also inserted. *)
getConnection(c) ==
  IF Named(c, "Connection") = {} THEN <<"keep-alive">>
  ELSE c.headers[CHOOSE k \in Named(c, "Connection") :
                   \A j \in Named(c, "Connection") : k <= j][2]

inserted(c) ==
  IF Named(c, "Connection") = {} THEN {<<<<"Connection">>, <<"keep-alive">>>>} ELSE {}

(* Mutant of hasConnectionClose: HTTP's default before 1.1. *)
hasConnectionCloseDefault(c) ==
  Named(c, "Connection") = {} \/ getConnection(c) = <<"close">>

hasConnectionClose(c) == getConnection(c) = <<"close">>

(* YS_Url::decode, of the characters that matter here. *)
decode(url) ==
  [k \in DOMAIN url |-> CASE url[k] = "%3F" -> "?" [] url[k] = "+" -> "sp" [] OTHER -> url[k]]

(* Mutant of getPath: the query stays. *)
getPathRaw(url) == url

(* getUrl is YS_Url::getPath: what precedes the query in the decoded URL, if it
   is a path, with no colon in it, and nothing otherwise. *)
getPath(url) ==
  LET u == decode(url)
      p == SubSeq(u, 1, Min({k \in DOMAIN u : u[k] = "?"} \cup {Len(u) + 1}) - 1)
  IN
  CASE p = <<>> -> <<"/">>
    [] p # <<>> /\ p[1] = "/" /\ ":" \notin ToSet(p) -> p
    [] OTHER -> <<>>

(* Answers that have left when a handler returns: those of sendFile, which also
   sets _fDirect. *)
sendFile(path) == IF path \in BigFiles THEN 1 ELSE 0

(* Mutant of hasResped: what a handler sent itself is not remembered. *)
hasRespedNever(path) == FALSE
hasResped(path) == path \in BigFiles

(* A handler's answers, and the one sent on its behalf. *)
answered(path) == sendFile(path) + (IF hasResped(path) THEN 0 ELSE 1)

(* YS_HttpDriver::handle: a handler, the default one, or 404. *)
handleAnswers(y) == answered(getPath(y.c.url))

(* YS_HttpMountDriver::handle: none to a method it does not know; a file is
   answered again when sendFile has sent it. *)
mountAnswers(y) ==
  LET path == getPath(y.c.url)
  IN
  IF y.method = "CONNECT" THEN 0
  ELSE IF path \in Routes THEN answered(path)
  ELSE sendFile(IF path = <<>> THEN <<"/">> ELSE path) + 1

(* Mutant of clearBuf: the context stays. *)
clearBufKeepsCtx(y) == len' = 0 /\ ctx' = TRUE /\ pos' = pos + y.used /\ x' = y

(* YS_NetBuf::clear *)
clearBuf(y) == len' = 0 /\ ctx' = FALSE /\ pos' = 0 /\ x' = NewParser(y.type)

(* handle of either driver, then YS_NetBuf::clear by the worker.  The handler
   gets the path and the header fields, getConnection's among them; that of a
   request that filled the buffer may read the rest of it (recvFile). *)
handle(y, left) ==
  LET mount   == driver = "mount"
      answers == IF mount THEN mountAnswers(y) ELSE handleAnswers(y)
      closes  == answers > 0 /\ hasConnectionClose(y.c)
  IN
  /\ handled' = Append(handled,
       [msg |-> i, path |-> getPath(y.c.url), body |-> y.c.body,
        headers |-> ToSet(y.c.headers) \cup IF y.type = "req" THEN inserted(y.c) ELSE {},
        head |-> {y.c.headers[k] : k \in 1..y.c.head},
        complete |-> ~y.c.recv, answers |-> answers,
        connection |-> getConnection(y.c), closes |-> closes, spoiled |-> spoiled])
  /\ closing' = (y.type = "req" /\ closes)
  /\ clearBuf(y)
  /\ outcome' = "handled"
  /\ \/ rest' = left /\ spoiled' = (spoiled \/ (y.c.recv /\ left # <<>>))
     \/ y.c.recv /\ left # <<>> /\ rest' = <<>> /\ spoiled' = spoiled

(* Mutant of discard: the length is not reset. *)
discardKeepsLen(o, p, y) ==
  /\ x' = [y EXCEPT !.used = 0]
  /\ len' = p /\ pos' = p /\ ctx' = TRUE
  /\ outcome' = o
  /\ spoiled' = TRUE
  /\ UNCHANGED <<handled, closing>>

(* The packet is thrown away: recvData.clear(), pushIdle.  The context and its
   _pos stay in the buffer. *)
discard(o, p, y) ==
  /\ x' = [y EXCEPT !.used = 0]
  /\ len' = 0 /\ pos' = p /\ ctx' = TRUE
  /\ outcome' = o
  /\ spoiled' = TRUE
  /\ UNCHANGED <<handled, closing>>

(* What onEpollIn makes of a packet of n symbols more, parsed up to y: thrown
   away as malformed or too big, handled, or kept for its rest. *)
parsed(n, y) ==
  LET p    == pos + y.used
      left == SubSeq(rest, n + 1, Len(rest))
  IN
  \/ p # len + n /\ discard("bad", pos, y) /\ rest' = left
  \/ /\ p = len + n /\ len + n = Cap /\ ~supportBlock
     /\ discard("big", p, y) /\ rest' = left
  \/ /\ p = len + n
     /\ IF len + n = Cap THEN supportBlock ELSE ~y.c.recv
     /\ handle(y, left)
  \/ /\ p = len + n /\ len + n # Cap /\ y.c.recv
     /\ x' = [y EXCEPT !.used = 0] /\ rest' = left
     /\ len' = len + n /\ pos' = p /\ ctx' = TRUE
     /\ UNCHANGED <<handled, outcome, closing, spoiled>>

(* recv of n symbols, then isFullPkt.  httpParse passes the parser the bytes
   after _pos: the new piece, as long as _pos is the length parsed before.  A
   parser in error looks at no byte. *)
onEpollIn(n) ==
  LET piece == SubSeq(rest, 1, n)
      x0    == IF ctx THEN x ELSE NewParser(Msg.type)
  IN
  /\ n > 0 /\ n <= Len(rest) /\ len + n <= Cap /\ ~oob /\ ~closing
  /\ IF pos # len /\ ~x0.err
     THEN /\ oob' = TRUE /\ rest' = SubSeq(rest, n + 1, Len(rest))
          /\ UNCHANGED <<len, ctx, pos, x, whole, handled, outcome, closing, spoiled>>
     ELSE /\ oob' = oob
          /\ parsed(n, Execute(x0, piece))
          /\ whole' = IF len' = 0 THEN NewParser(Msg.type)
                      ELSE [Feed(whole, piece) EXCEPT !.used = 0]
  /\ UNCHANGED <<driver, supportBlock, talk, i>>

----------------------------------------------------------------------------
Init ==
  /\ \E s \in Servers : driver = s[1] /\ supportBlock = s[2]
  /\ talk \in Talks /\ i = 0
  /\ rest = <<>> /\ len = 0 /\ ctx = FALSE /\ pos = 0
  /\ x = NewParser("req") /\ whole = NewParser("req")
  /\ handled = <<>> /\ outcome = "none" /\ closing = FALSE
  /\ spoiled = FALSE /\ oob = FALSE

(* recv returns what has arrived, at most what the buffer has room for. *)
Next == Send \/ \E n \in Pieces \cup {Min({Len(rest), Cap - len})} : onEpollIn(n)

Spec == Init /\ [][Next]_vars
----------------------------------------------------------------------------
(* Properties.                                                             *)

TypeOK ==
  /\ i \in 0..Len(talk) /\ len \in 0..(Cap - 1) /\ pos \in Nat
  /\ ctx \in BOOLEAN /\ closing \in BOOLEAN /\ oob \in BOOLEAN
  /\ outcome \in {"none", "handled", "bad", "big"}

(* How TCP cuts a message makes no difference: after every piece the parser is
   in the state, and the context holds the data, that the same symbols leave
   behind when they are parsed in one go. *)
CutIndependent == (len > 0 /\ ~spoiled /\ ~oob) => x = Flush(whole)

(* The URLs that getPath understands as the peer does: a path, without a colon,
   a plus or an encoded question mark, and a query. *)
Understood(m) == m.url[1] = "/" /\ ToSet(m.path) \cap {":", "+", "?"} = {}

(* A handler sees the path, the header fields and the body of a well-formed
   message, whichever way its length was given, and beside them only Connection:
   keep-alive if the peer sent no such field; as long as its URL is one of those,
   and no packet was discarded from the buffer it is received in. *)
RequestFaithful ==
  \A k \in 1..Len(handled) :
    LET h == handled[k]
        m == talk[h.msg]
        keepAlive == m.type = "req" /\ ~\E f \in m.headers : f[1] = <<"Connection">>
    IN  (m.good /\ h.complete /\ ~h.spoiled) =>
          /\ h.body = m.body
          /\ h.headers \ {<<<<>>, <<>>>>} =
               m.headers \cup IF keepAlive THEN {<<<<"Connection">>, <<"keep-alive">>>>} ELSE {}
          /\ (m.type = "req" /\ Understood(m)) => h.path = m.path

(* A well-formed message that has arrived as a whole has been handed to the
   handler, unless it is too big for the buffer, or something was discarded
   from this buffer before. *)
GoodServedUnlessSpoiled ==
  (i > 0 /\ rest = <<>> /\ Msg.good /\ Len(Msg.raw) < Cap /\ ~spoiled)
    => outcome = "handled"

(* No handler gets a request whose length is given twice, so that this server
   and a proxy in front of it could disagree on where the request ends.  Fields
   behind the body, in a trailer or in a request merged with this one, say
   nothing about its length. *)
OneLength ==
  \A k \in 1..Len(handled) :
    ~({<<"Content-Length">>, <<"Transfer-Encoding">>} \subseteq {h[1] : h \in handled[k].head})

(* The assertions in http_parser_execute hold, whatever is received. *)
AssertsHold == ~x.err => Asserts(x)

(* REEXECUTE comes to an end: for no character does the switch ask to be run
   again once Turn has run it as often as it does. *)
ReexecuteEnds == ~x.again

(* The answer's Connection header tells the client the truth: it says close
   exactly when the server is going to close. *)
ResponseTellsTruth ==
  \A k \in 1..Len(handled) :
    (talk[handled[k].msg].type = "req" /\ handled[k].answers > 0) =>
      ((handled[k].connection = <<"close">>) <=> handled[k].closes)

(* With YS_HttpDriver every request is answered once, also when its handler has
   sent a file itself with sendFile. *)
OneAnswer ==
  driver = "api" => \A k \in 1..Len(handled) : handled[k].answers = 1

(* The parser is never given bytes beyond the data received: _pos is kept in
   the context and the length in the buffer, and they go apart only when a
   packet is discarded. *)
InBoundsUnlessSpoiled == oob => spoiled

(* The types, the parser's assertions, its loop and bounds, and the rules for what is
   handed to a handler and answered. *)
Inv == /\ TypeOK /\ AssertsHold /\ ReexecuteEnds /\ InBoundsUnlessSpoiled
       /\ OneLength /\ OneAnswer /\ ResponseTellsTruth
=============================================================================
