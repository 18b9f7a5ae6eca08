----------------------------- MODULE HttpParser -----------------------------
(***************************************************************************)
(* HttpParser::http_parser_execute (isaac/ys_http_parser_ex.h) and the      *)
(* callbacks YS_HttpParserCtx gives it (ys_http_parser.h), as operators: a  *)
(* parser record in, a symbol, a parser record out.                        *)
(*                                                                         *)
(* A symbol stands for a run of characters the automaton treats alike: a   *)
(* method, a version, a header name or token it knows, a digit, a letter.  *)
(* The input may be cut between any two of them.  content_length keeps its *)
(* width: U is ULLONG_MAX, which also stands for "no length".              *)
(***************************************************************************)
EXTENDS Integers, Sequences, SequencesExt, FiniteSets

CONSTANTS
  U,            \* ULLONG_MAX
  MaxHeader     \* max_header_size

ASSUME HttpParserAssumption == U \in Nat /\ U >= 16 /\ MaxHeader \in Nat \ {0}

Methods  == {"GET", "POST", "CONNECT"}
Versions == {"HTTP/1.1", "HTTP/1.0"}
Status   == {"200", "204", "101"}
Digits   == {"0", "1", "2"}
Value(d) == CASE d = "0" -> 0 [] d = "1" -> 1 [] d = "2" -> 2

(* TOKEN: a letter, a digit or a word; the rest are separators. *)
Token(ch) == ch \notin {"sp", "CR", "LF", ":", ",", ";", "/", "?", "@", "ctl"}

(* IS_ALPHA throughout. *)
Alpha == Methods \cup {"a", "close", "chunked", "upgrade", "Connection", "Upgrade"}

(* The header_state a known header name leads to. *)
Known(ch) == CASE ch = "Content-Length" -> "cl" [] ch = "Transfer-Encoding" -> "te"
               [] ch = "Connection" -> "cn" [] ch = "Upgrade" -> "up" [] OTHER -> "general"

----------------------------------------------------------------------------
(* YS_HttpParserCtx: what has been collected of a message.  head is history: how
   many of the header fields came before the first body. *)
NewCtx ==
  [url |-> <<>>, status |-> <<>>, field |-> <<>>, val |-> <<>>, lastVal |-> TRUE,
   headers |-> <<>>, body |-> <<>>, recv |-> TRUE, head |-> 0]

on_header_field(c, s) ==
  LET d == IF c.lastVal /\ c.field # <<>>
           THEN [c EXCEPT !.headers = Append(@, <<c.field, c.val>>),
                          !.field = <<>>, !.val = <<>>]
           ELSE c
  IN  [d EXCEPT !.field = @ \o s, !.lastVal = FALSE]

on_header_value(c, s) == [c EXCEPT !.val = @ \o s, !.lastVal = TRUE]

on_headers_complete(c) ==
  [c EXCEPT !.headers = Append(@, <<c.field, c.val>>),
            !.head = IF @ = 0 THEN Len(c.headers) + 1 ELSE @]

on_message_complete(c) == [c EXCEPT !.recv = FALSE]

(* The data callbacks: on_url, on_status, on_body, and the two above. *)
Data(c, kind, s) ==
  CASE kind = "url"    -> [c EXCEPT !.url = @ \o s]
    [] kind = "status" -> [c EXCEPT !.status = @ \o s]
    [] kind = "body"   -> [c EXCEPT !.body = @ \o s]
    [] kind = "field"  -> on_header_field(c, s)
    [] kind = "value"  -> on_header_value(c, s)

(* http_parser_init.  mark and seg are the mark set by the current call of
   http_parser_execute and what follows it; again asks for REEXECUTE. *)
NewParser(type) ==
  [type |-> type, state |-> IF type = "req" THEN "s_start_req" ELSE "s_start_res",
   h |-> "general", flags |-> {}, clen |-> 0, method |-> "GET", version |-> "HTTP/0.9",
   code |-> "0", upgrade |-> FALSE, err |-> FALSE, stop |-> FALSE, nread |-> 0,
   used |-> 0, again |-> FALSE, mark |-> "none", seg |-> <<>>, c |-> NewCtx]

----------------------------------------------------------------------------
To(x, s)   == [x EXCEPT !.state = s]
Redo(x, s) == [x EXCEPT !.state = s, !.again = TRUE]
Err(x)     == [x EXCEPT !.err = TRUE]
Flag(x, f) == [x EXCEPT !.flags = @ \cup f]

(* MARK; a character that starts the marked data, or goes on with it. *)
Mark(x, kind) == IF x.mark = kind THEN x ELSE [x EXCEPT !.mark = kind, !.seg = <<>>]
Take(x, kind, ch) == [Mark(x, kind) EXCEPT !.seg = Append(@, ch)]
Keep(x, ch) == IF x.mark = "none" THEN x ELSE [x EXCEPT !.seg = Append(@, ch)]

(* CALLBACK_DATA *)
Flush(x) ==
  IF x.mark = "none" THEN x
  ELSE [x EXCEPT !.c = Data(x.c, x.mark, x.seg), !.mark = "none", !.seg = <<>>]

Expect(x, ch, want, y) == IF ch = want THEN y ELSE Err(x)

(* http_message_needs_eof *)
NeedsEof(x) ==
  /\ x.type = "res" /\ x.code \notin {"204", "101"}
  /\ "CHUNKED" \notin x.flags
  /\ "TE" \in x.flags \/ x.clen = U

(* http_should_keep_alive *)
KeepAlive(x) ==
  /\ IF x.version = "HTTP/1.1" THEN "CLOSE" \notin x.flags ELSE "KEEP_ALIVE" \in x.flags
  /\ ~NeedsEof(x)

(* NEW_MESSAGE, and the end of a message. *)
NewMessage(x) ==
  To(x, IF ~KeepAlive(x) THEN "s_dead" ELSE NewParser(x.type).state)
Complete(x) == [NewMessage(x) EXCEPT !.c = on_message_complete(@)]

----------------------------------------------------------------------------
(* The first line.                                                         *)

fresh(x) == [x EXCEPT !.flags = {}, !.clen = U]

(* s_dead, s_start_req and s_req_method *)
MethodState(x, ch) ==
  CASE x.state = "s_dead" -> IF ch \in {"CR", "LF"} THEN x ELSE Err(x)
    [] x.state = "s_start_req" ->
         IF ch \in {"CR", "LF"} THEN x
         ELSE IF ch \in Methods THEN To([fresh(x) EXCEPT !.method = ch], "s_req_method")
         ELSE Err(fresh(x))
    [] x.state = "s_req_method" -> Expect(x, ch, "sp", To(x, "s_req_spaces_before_url"))

(* s_req_http_start to s_req_line_almost_done *)
VersionState(x, ch) ==
  CASE x.state = "s_req_http_start" ->
         IF ch = "sp" THEN x
         ELSE IF ch \in Versions THEN To([x EXCEPT !.version = ch], "s_req_http_end")
         ELSE Err(x)
    [] OTHER ->
         IF ch = "CR" /\ x.state = "s_req_http_end" THEN To(x, "s_req_line_almost_done")
         ELSE Expect(x, ch, "LF", To(x, "s_header_field_start"))

(* s_start_res to s_res_status_code, and s_res_line_almost_done *)
StatusLine(x, ch) ==
  CASE x.state = "s_start_res" ->
         IF ch \in {"CR", "LF"} THEN x
         ELSE IF ch \in Versions THEN To([fresh(x) EXCEPT !.version = ch], "s_res_http_end")
         ELSE Err(fresh(x))
    [] x.state = "s_res_http_end" -> Expect(x, ch, "sp", To(x, "s_res_first_status_code"))
    [] x.state = "s_res_first_status_code" ->
         IF ch = "sp" THEN x
         ELSE IF ch \in Status THEN To([x EXCEPT !.code = ch], "s_res_status_code")
         ELSE Err(x)
    [] x.state = "s_res_status_code" ->
         IF ch = "sp" THEN To(x, "s_res_status_start")
         ELSE IF ch \in {"CR", "LF"} THEN Redo(x, "s_res_status_start")
         ELSE Err(x)
    [] x.state = "s_res_line_almost_done" ->
         Expect(x, ch, "LF", To(x, "s_header_field_start"))

(* s_res_status_start and s_res_status *)
ReasonState(x, ch) ==
  CASE x.state = "s_res_status_start" ->
         IF ch \in {"CR", "LF"} THEN Redo(Mark(x, "status"), "s_res_status")
         ELSE To(Take(x, "status", ch), "s_res_status")
    [] x.state = "s_res_status" ->
         IF ch = "CR" THEN Flush(To(x, "s_res_line_almost_done"))
         ELSE IF ch = "LF" THEN Flush(To(x, "s_header_field_start"))
         ELSE Keep(x, ch)

(* The states of a URL; it may end in the latter. *)
UrlEnds == {"s_req_server", "s_req_server_with_at", "s_req_path",
            "s_req_query_string_start", "s_req_query_string"}
UrlStates == {"s_req_spaces_before_url", "s_req_schema", "s_req_schema_slash",
              "s_req_schema_slash_slash", "s_req_server_start"} \cup UrlEnds

(* parse_url_char; fragments are left out. *)
parse_url_char(s, ch) ==
  CASE ch \in {"sp", "CR", "LF", "ctl"} -> "s_dead"
    [] s = "s_req_spaces_before_url" ->
         IF ch = "/" THEN "s_req_path" ELSE IF ch \in Alpha THEN "s_req_schema" ELSE "s_dead"
    [] s = "s_req_schema" ->
         IF ch \in Alpha THEN s ELSE IF ch = ":" THEN "s_req_schema_slash" ELSE "s_dead"
    [] s = "s_req_schema_slash" ->
         IF ch = "/" THEN "s_req_schema_slash_slash" ELSE "s_dead"
    [] s = "s_req_schema_slash_slash" -> IF ch = "/" THEN "s_req_server_start" ELSE "s_dead"
    [] s \in {"s_req_server_start", "s_req_server", "s_req_server_with_at"} ->
         CASE ch = "/" -> "s_req_path"
           [] ch = "?" -> "s_req_query_string_start"
           [] ch = "@" -> IF s = "s_req_server_with_at" THEN "s_dead" ELSE "s_req_server_with_at"
           [] OTHER -> "s_req_server"
    [] s = "s_req_path" -> IF ch = "?" THEN "s_req_query_string_start" ELSE s
    [] s \in {"s_req_query_string_start", "s_req_query_string"} -> "s_req_query_string"

(* s_req_spaces_before_url to s_req_query_string *)
UrlState(x, ch) ==
  LET start == x.state = "s_req_spaces_before_url"
      s == parse_url_char(IF start /\ x.method = "CONNECT" THEN "s_req_server_start"
                          ELSE x.state, ch)
      y == IF start THEN Mark(x, "url") ELSE x
  IN
  CASE start /\ ch = "sp" -> x
    [] x.state \in UrlEnds /\ ch = "sp" -> Flush(To(x, "s_req_http_start"))
    [] x.state \in UrlEnds /\ ch \in {"CR", "LF"} ->
         Flush(To([x EXCEPT !.version = "HTTP/0.9"],
                  IF ch = "CR" THEN "s_req_line_almost_done" ELSE "s_header_field_start"))
    [] OTHER -> IF s = "s_dead" THEN Err(y) ELSE To(Keep(y, ch), s)

----------------------------------------------------------------------------
(* Header fields.                                                          *)

(* Mutant of NameChar: a longer name is taken for the known one. *)
NameCharPrefix(x, ch) == Keep(x, ch)

(* A further character: no known name goes on. *)
NameChar(x, ch) == [Keep(x, ch) EXCEPT !.h = "general"]

FieldState(x, ch) ==
  CASE x.state = "s_header_field_start" ->
         IF ch = "CR" THEN To(x, "s_headers_almost_done")
         ELSE IF ch = "LF" THEN Redo(x, "s_headers_almost_done")
         ELSE IF ~Token(ch) THEN Err(x)
         ELSE Flag([To(Take(x, "field", ch), "s_header_field") EXCEPT !.h = Known(ch)],
                   IF Known(ch) = "te" THEN {"TE"} ELSE {})
    [] x.state = "s_header_field" ->
         IF Token(ch) THEN NameChar(x, ch)
         ELSE IF ch = ":" THEN Flush(To(x, "s_header_value_discard_ws"))
         ELSE Err(x)

(* The header_state a Connection or Transfer-Encoding token leads to. *)
Word(h, ch) ==
  CASE h = "te" /\ ch = "chunked" -> "te_chunked"
    [] h = "te" -> "te_token"
    [] h = "cn" /\ ch \in {"keep-alive", "close", "upgrade"} -> ch
    [] OTHER -> "cn_token"

(* s_header_value_start *)
ValueStart(x, ch) ==
  LET y == To(Take(x, "value", ch), "s_header_value")
  IN
  CASE x.h = "up" -> Flag([y EXCEPT !.h = "general"], {"UPGRADE"})
    [] x.h \in {"te", "cn"} -> [y EXCEPT !.h = Word(x.h, ch)]
    [] x.h = "cl" ->
         IF ch \notin Digits \/ "CONTENTLENGTH" \in x.flags THEN Err(y)
         ELSE Flag([y EXCEPT !.clen = Value(ch), !.h = "cl_num"], {"CONTENTLENGTH"})
    [] x.h \in {"te_start", "cn_start", "cl_ws"} -> y
    [] OTHER -> [y EXCEPT !.h = "general"]

(* One more digit, in base 10 or 16, unless it might overflow. *)
Grow(x, base, v) ==
  IF (U - base) \div base < x.clen THEN Err(x)
  ELSE [x EXCEPT !.clen = (@ * base + v) % (U + 1)]

(* The flag a finished token stands for. *)
TokenFlag(h) ==
  CASE h = "keep-alive" -> {"KEEP_ALIVE"} [] h = "close" -> {"CLOSE"}
    [] h = "upgrade" -> {"CONN_UPGRADE"} [] h = "te_chunked" -> {"CHUNKED"}
    [] OTHER -> {}

(* s_header_value *)
ValueChar(x, ch) ==
  LET y == Keep(x, ch)
      H(h) == [y EXCEPT !.h = h]
      start == IF x.h = "te_start" THEN "te" ELSE "cn"
  IN
  CASE ch = "CR" -> Flush(To(x, "s_header_almost_done"))
    [] ch = "LF" -> Flush(Redo(x, "s_header_almost_done"))
    [] ch = "ctl" -> Err(x)
    [] OTHER ->
  CASE x.h = "cl_num" ->
         IF ch = "sp" THEN H("cl_ws")
         ELSE IF ch \notin Digits THEN Err(y) ELSE Grow(y, 10, Value(ch))
    [] x.h = "cl_ws" -> IF ch = "sp" THEN y ELSE Err(y)
    [] x.h \in {"te_start", "cn_start"} ->
         IF ch = "sp" THEN y ELSE IF Token(ch) THEN H(Word(start, ch)) ELSE H("general")
    [] x.h = "te_token" -> IF ch = "," THEN H("te_start") ELSE y
    [] x.h = "cn_token" -> IF ch = "," THEN H("cn_start") ELSE y
    [] x.h = "te_chunked" -> IF ch = "sp" THEN y ELSE H("te_token")
    [] x.h \in {"keep-alive", "close", "upgrade"} ->
         IF ch = "," THEN Flag(H("cn_start"), TokenFlag(x.h))
         ELSE IF ch = "sp" THEN y ELSE H("cn_token")
    [] OTHER -> H("general")

(* Around a value: white space before it, its end, a folded line. *)
ValueEdge(x, ch) ==
  CASE x.state = "s_header_value_discard_ws" ->
         CASE ch = "sp" -> x
           [] ch = "CR" -> To(x, "s_header_value_discard_ws_almost_done")
           [] ch = "LF" -> To(x, "s_header_value_discard_lws")
           [] OTHER -> ValueStart(x, ch)
    [] x.state = "s_header_value_discard_ws_almost_done" ->
         Expect(x, ch, "LF", To(x, "s_header_value_discard_lws"))
    [] x.state = "s_header_value_discard_lws" ->
         IF ch = "sp" THEN To(x, "s_header_value_discard_ws")
         ELSE IF x.h = "cl" THEN Err(x)
         ELSE Flush(Redo(Mark(Flag(x, TokenFlag(x.h)), "value"), "s_header_field_start"))
    [] x.state = "s_header_almost_done" ->
         Expect(x, ch, "LF", To(x, "s_header_value_lws"))
    [] x.state = "s_header_value_lws" ->
         IF ch = "sp"
         THEN Redo([x EXCEPT !.h = IF @ = "cl_num" THEN "cl_ws" ELSE @], "s_header_value_start")
         ELSE Redo(Flag(x, TokenFlag(x.h)), "s_header_field_start")

----------------------------------------------------------------------------
(* The end of the headers, and the body.                                   *)

(* Mutant of TwoLengths: both are accepted. *)
TwoLengthsNever(x) == FALSE

TwoLengths(x) == {"TE", "CONTENTLENGTH"} \subseteq x.flags

(* s_headers_almost_done *)
HeadersAlmostDone(x, ch) ==
  IF ch # "LF" THEN Err(x)
  ELSE IF "TRAILING" \in x.flags THEN Redo(x, "s_message_done")
  ELSE IF TwoLengths(x) THEN Err(x)
  ELSE Redo([x EXCEPT !.upgrade = IF {"UPGRADE", "CONN_UPGRADE"} \subseteq x.flags
                                  THEN x.type = "req" \/ x.code = "101"
                                  ELSE x.method = "CONNECT",
                      !.c = on_headers_complete(@)],
            "s_headers_done")

(* What follows the headers. *)
AfterHeaders(x) ==
  LET hasBody == "CHUNKED" \in x.flags \/ x.clen \notin {0, U}
  IN
  IF x.upgrade /\ (x.method = "CONNECT" \/ ~hasBody)
  THEN [Complete(x) EXCEPT !.stop = TRUE]
  ELSE IF "CHUNKED" \in x.flags THEN To(x, "s_chunk_size_start")
  ELSE IF "TE" \in x.flags
  THEN IF x.type = "req" THEN Err(x) ELSE To(x, "s_body_identity_eof")
  ELSE IF hasBody THEN To(x, "s_body_identity")
  ELSE IF x.clen = U /\ NeedsEof(x) THEN To(x, "s_body_identity_eof")
  ELSE Complete(x)

(* Mutant of HeadersDone: the count of header bytes is not reset. *)
HeadersDoneCounts(x) == AfterHeaders(x)

(* s_headers_done *)
HeadersDone(x) == AfterHeaders([x EXCEPT !.nread = 0])

(* Mutant of LastByte: it is left out of the body. *)
LastByteLost(x, ch) == Redo(Flush([x EXCEPT !.clen = 0]), "s_message_done")

(* The last byte of a body is handed over with the rest, and then seen again. *)
LastByte(x, ch) == Flush(Redo([Take(x, "body", ch) EXCEPT !.clen = 0], "s_message_done"))

BodyState(x, ch) ==
  CASE x.state = "s_body_identity" ->
         IF x.clen = 1 THEN LastByte(x, ch) ELSE [Take(x, "body", ch) EXCEPT !.clen = @ - 1]
    [] x.state = "s_body_identity_eof" -> Take(x, "body", ch)
    [] x.state = "s_message_done" -> Complete([x EXCEPT !.stop = x.upgrade])

ChunkState(x, ch) ==
  CASE x.state = "s_chunk_size_start" ->
         IF ch \in Digits THEN To([x EXCEPT !.clen = Value(ch)], "s_chunk_size") ELSE Err(x)
    [] x.state = "s_chunk_size" ->
         CASE ch = "CR" -> To(x, "s_chunk_size_almost_done")
           [] ch \in {";", "sp"} -> To(x, "s_chunk_parameters")
           [] ch \in Digits -> Grow(x, 16, Value(ch))
           [] OTHER -> Err(x)
    [] x.state = "s_chunk_parameters" ->
         IF ch = "CR" THEN To(x, "s_chunk_size_almost_done") ELSE x
    [] x.state = "s_chunk_size_almost_done" ->
         IF ch # "LF" THEN Err(x)
         ELSE IF x.clen = 0
         THEN To(Flag([x EXCEPT !.nread = 0], {"TRAILING"}), "s_header_field_start")
         ELSE To([x EXCEPT !.nread = 0], "s_chunk_data")
    [] x.state = "s_chunk_data" ->
         LET y == [Take(x, "body", ch) EXCEPT !.clen = @ - 1]
         IN  IF y.clen = 0 THEN To(y, "s_chunk_data_almost_done") ELSE y
    [] x.state = "s_chunk_data_almost_done" ->
         Expect(x, ch, "CR", Flush(To(x, "s_chunk_data_done")))
    [] x.state = "s_chunk_data_done" ->
         Expect(x, ch, "LF", To([x EXCEPT !.nread = 0], "s_chunk_size_start"))

----------------------------------------------------------------------------
BodyStates  == {"s_body_identity", "s_body_identity_eof", "s_message_done"}
ChunkData   == {"s_chunk_data", "s_chunk_data_almost_done", "s_chunk_data_done"}
ChunkHead   == {"s_chunk_size_start", "s_chunk_size", "s_chunk_parameters",
                "s_chunk_size_almost_done"}
MethodStates == {"s_dead", "s_start_req", "s_req_method"}
VersionStates == {"s_req_http_start", "s_req_http_end", "s_req_line_almost_done"}
ReasonStates == {"s_res_status_start", "s_res_status"}
FieldStates == {"s_header_field_start", "s_header_field"}
EdgeStates  == {"s_header_value_discard_ws", "s_header_value_discard_ws_almost_done",
                "s_header_value_discard_lws", "s_header_almost_done", "s_header_value_lws"}

(* The switch. *)
Switch(x, ch) ==
  CASE x.state \in BodyStates  -> BodyState(x, ch)
    [] x.state \in ChunkData \cup ChunkHead -> ChunkState(x, ch)
    [] x.state \in UrlStates   -> UrlState(x, ch)
    [] x.state \in FieldStates -> FieldState(x, ch)
    [] x.state \in EdgeStates  -> ValueEdge(x, ch)
    [] x.state = "s_header_value_start"  -> ValueStart(x, ch)
    [] x.state = "s_header_value"        -> ValueChar(x, ch)
    [] x.state = "s_headers_almost_done" -> HeadersAlmostDone(x, ch)
    [] x.state = "s_headers_done"        -> HeadersDone(x)
    [] x.state \in MethodStates  -> MethodState(x, ch)
    [] x.state \in VersionStates -> VersionState(x, ch)
    [] x.state \in ReasonStates  -> ReasonState(x, ch)
    [] OTHER -> StatusLine(x, ch)

(* One turn of the loop: PARSING_HEADER states count towards max_header_size,
   and REEXECUTE runs the switch again, at most four times in a row. *)
Again(x, ch) ==
  IF x.again /\ ~x.err /\ ~x.stop THEN Switch([x EXCEPT !.again = FALSE], ch) ELSE x

Used(x) == IF x.err THEN x ELSE [x EXCEPT !.used = @ + 1]

Turn(x, ch) ==
  LET y == IF x.state \in BodyStates \cup ChunkData THEN x ELSE [x EXCEPT !.nread = @ + 1]
  IN  IF x.err \/ x.stop THEN x
      ELSE IF y.nread > MaxHeader THEN Err(y)
      ELSE Used(Again(Again(Again(Again(Switch(y, ch), ch), ch), ch), ch))

(* Mutant of Begin: a value that goes on is not marked. *)
BeginNoValue(x) ==
  LET y == [x EXCEPT !.used = 0, !.stop = FALSE]
  IN  CASE x.state = "s_header_field" -> Mark(y, "field")
        [] x.state \in UrlStates \ {"s_req_spaces_before_url"} -> Mark(y, "url")
        [] OTHER -> y

(* The entry: data that goes on from the last call is marked from its start. *)
Begin(x) ==
  LET y == [x EXCEPT !.used = 0, !.stop = FALSE]
  IN  CASE x.state = "s_header_field" -> Mark(y, "field")
        [] x.state = "s_header_value" -> Mark(y, "value")
        [] x.state \in UrlStates \ {"s_req_spaces_before_url"} -> Mark(y, "url")
        [] x.state = "s_res_status"   -> Mark(y, "status")
        [] OTHER -> y

(* The loop over a piece of the input. *)
Feed(x, piece) ==
  LET after[k \in 0..Len(piece)] == IF k = 0 THEN x ELSE Turn(after[k - 1], piece[k])
  IN  after[Len(piece)]

(* http_parser_execute on a piece of the input; at its end what is marked goes
   to the callback. *)
AtEnd(x) == IF x.err \/ x.stop THEN x ELSE Flush(x)

Execute(x, piece) ==
  IF x.err THEN [x EXCEPT !.used = 0] ELSE AtEnd(Feed(Begin(x), piece))

(* The parser's own assertions. *)
Asserts(x) ==
  /\ x.state = "s_chunk_size_start" => x.nread = 0
  /\ x.state \in {"s_body_identity", "s_chunk_data"} => x.clen \notin {0, U}
  /\ x.state \in ChunkData \cup ChunkHead => "CHUNKED" \in x.flags
=============================================================================
