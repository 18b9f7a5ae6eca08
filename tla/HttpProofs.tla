----------------------------- MODULE HttpProofs -----------------------------
(***************************************************************************)
(* Proofs about HttpServer, and through it about http_parser_execute, for   *)
(* every conversation, every way it is cut into pieces, every buffer       *)
(* capacity and every ULLONG_MAX: the parser's assertions hold, the        *)
(* cutting makes no difference, no bytes beyond the data are parsed, no    *)
(* handler gets a request with two lengths.                                *)
(***************************************************************************)
EXTENDS HttpServer, SequenceTheorems, NaturalsInduction, WellFoundedInduction, TLAPS

(***************************************************************************)
(*                        The types of a parser                            *)
(***************************************************************************)

Text == Seq(STRING)

Context ==
  [url : Text, status : Text, field : Text, val : Text, lastVal : BOOLEAN,
   headers : Seq(Text \X Text), body : Text, recv : BOOLEAN, head : Nat]

Kinds == {"url", "status", "field", "value", "body"}
Marks == Kinds \cup {"none"}

StatusStates == {"s_start_res", "s_res_http_end", "s_res_first_status_code",
                 "s_res_status_code", "s_res_line_almost_done"}

(* The states before the first header field; those of header fields; and those
   that follow the headers. *)
LineStates == MethodStates \cup VersionStates \cup UrlStates \cup ReasonStates \cup StatusStates
HeadStates == FieldStates \cup EdgeStates
              \cup {"s_header_value_start", "s_header_value", "s_headers_almost_done"}
TailStates == BodyStates \cup ChunkData \cup ChunkHead \cup {"s_headers_done"}
States     == LineStates \cup HeadStates \cup TailStates

HeaderStates == {"general", "cl", "cl_num", "cl_ws", "te", "te_start", "te_token", "te_chunked",
                 "cn", "cn_start", "cn_token", "keep-alive", "close", "upgrade", "up"}
Flags == {"CHUNKED", "KEEP_ALIVE", "CLOSE", "CONN_UPGRADE", "TRAILING", "UPGRADE", "CONTENTLENGTH",
          "TE"}

Parser ==
  [type : {"req", "res"}, state : States, h : HeaderStates, flags : SUBSET Flags, clen : 0..U,
   method : Methods, version : Versions \cup {"HTTP/0.9"}, code : Status \cup {"0"},
   upgrade : BOOLEAN, err : BOOLEAN, stop : BOOLEAN, nread : Nat, used : Nat, again : BOOLEAN,
   mark : Marks, seg : Text, c : Context]

(***************************************************************************)
(*                        The parser's invariant                           *)
(***************************************************************************)

(* The context with the marked data handed over. *)
View(p) == Flush(p).c

(* What is marked in each state while a piece is being parsed. *)
MarkOK(s, m) ==
  CASE s \in UrlStates \ {"s_req_spaces_before_url"} -> m = "url"
    [] s = "s_res_status"   -> m = "status"
    [] s = "s_header_field" -> m = "field"
    [] s = "s_header_value" -> m = "value"
    [] s \in {"s_body_identity", "s_body_identity_eof", "s_chunk_data",
              "s_chunk_data_almost_done"} -> m \in {"none", "body"}
    [] OTHER -> m = "none"

(* content_length is a length where the code takes it for one. *)
LenOK(s, n, flags) ==
  /\ s \in {"s_body_identity", "s_chunk_data"} => n \notin {0, U}
  /\ s \in {"s_chunk_size", "s_chunk_parameters", "s_chunk_size_almost_done"} => n # U
  /\ s \in ChunkData \cup ChunkHead => "CHUNKED" \in flags

(* A field that is being read goes on where it was cut. *)
LastOK(s, v) ==
  /\ s = "s_header_field" => ~v.lastVal
  /\ s = "s_header_value" => v.lastVal

CL == <<"Content-Length">>
TE == <<"Transfer-Encoding">>

Listed(name, flags) ==
  /\ name = CL => "CONTENTLENGTH" \in flags
  /\ name = TE => "TE" \in flags

(* The states in which the name of a header field is known, but not its value. *)
NameStates == {"s_header_field", "s_header_value_discard_ws",
               "s_header_value_discard_ws_almost_done", "s_header_value_discard_lws"}

(* The states behind a whole header field. *)
DoneStates == {"s_header_field_start", "s_header_almost_done", "s_header_value_lws"}

(* Up to the end of the headers of the first message the flags know of every
   length that was given. *)
HeadOK(s, h, flags, v) ==
  v.head = 0 =>
    /\ s \notin TailStates /\ "TRAILING" \notin flags
    /\ \A k \in 1..Len(v.headers) : Listed(v.headers[k][1], flags)
    /\ v.field = TE => "TE" \in flags
    /\ v.field = CL => "CONTENTLENGTH" \in flags \/ (h = "cl" /\ s \in NameStates)
    /\ s \in LineStates => v.headers = <<>> /\ v.field = <<>> /\ v.lastVal
    /\ s = "s_header_field" => v.field # <<>>
    /\ s \in DoneStates => v.lastVal

(* One of the two lengths at most among the header fields before the body. *)
HeadNames(c) == {n[1] : n \in {c.headers[k] : k \in 1..c.head}}
OneOK(c) == c.head <= Len(c.headers) /\ ~({CL, TE} \subseteq HeadNames(c))

Live(p) ==
  /\ LenOK(p.state, p.clen, p.flags)
  /\ HeadOK(p.state, p.h, p.flags, View(p))
  /\ LastOK(p.state, View(p))

(* While a piece is parsed. *)
Run(p) ==
  /\ p \in Parser /\ OneOK(p.c)
  /\ p.stop => ~p.c.recv /\ p.mark = "none"
  /\ p.mark = "none" => p.seg = <<>>
  /\ ~p.err => MarkOK(p.state, p.mark) /\ Live(p)

(* Between two pieces. *)
Calm(p) ==
  /\ p \in Parser /\ OneOK(p.c)
  /\ p.stop => ~p.c.recv /\ p.mark = "none"
  /\ p.mark = "none" => p.seg = <<>>
  /\ ~p.err => p.mark = "none" /\ Live(p) /\ Asserts(p)

(***************************************************************************)
(*                        The server's invariant                           *)
(***************************************************************************)

HandledOK(d, h) ==
  /\ d = "api" => h.answers = 1
  /\ ~({CL, TE} \subseteq {n[1] : n \in h.head})
  /\ h.answers > 0 => ((h.connection = <<"close">>) <=> h.closes)

SentOK == /\ talk \in Seq(Message) /\ i \in 0..Len(talk)
          /\ rest \in Text /\ (rest # <<>> => i > 0)

(* The parser is the one that read the packet in one go. *)
Linked == x = Flush(whole) /\ whole.used = 0 /\ ~x.err /\ ~x.stop

IInv ==
  /\ TypeOK /\ SentOK /\ Calm(x) /\ ReexecuteEnds /\ InBoundsUnlessSpoiled
  /\ driver \in {"api", "mount"}
  /\ handled \in Seq({handled[k] : k \in 1..Len(handled)})
  /\ \A k \in 1..Len(handled) : HandledOK(driver, handled[k])
  /\ ~ctx => len = 0 /\ pos = 0
  /\ ~spoiled => pos = len
  /\ (ctx /\ ~spoiled) => len > 0 /\ Run(whole) /\ Linked
  /\ (~ctx /\ i > 0) => whole = NewParser(Msg.type)

----------------------------------------------------------------------------
(* Facts about sequences.                                                  *)

LEMMA OneElement == ASSUME NEW S, NEW e \in S PROVE <<e>> \in Seq(S)
OBVIOUS

LEMMA TextFacts ==
  /\ <<>> \in Text
  /\ \A ch \in STRING : <<ch>> \in Text
  /\ \A s \in Text, ch \in STRING : Append(s, ch) \in Text /\ Append(s, ch) = s \o <<ch>>
  /\ \A s, t \in Text : s \o t \in Text
  /\ \A s \in Text : s \o <<>> = s /\ <<>> \o s = s
<1>1. <<>> \in Text /\ \A ch \in STRING : <<ch>> \in Text
  <2>1. \A ch \in STRING : <<ch>> \in Seq(STRING)
    BY OneElement, Zenon
  <2>2. QED
    BY <2>1, EmptySeq DEF Text
<1>2. \A s \in Text, ch \in STRING : Append(s, ch) \in Text /\ Append(s, ch) = s \o <<ch>>
  BY AppendProperties, AppendIsConcat DEF Text
<1>3. \A s, t \in Text : s \o t \in Text
  BY ConcatProperties DEF Text
<1>4. \A s \in Text : s \o <<>> = s /\ <<>> \o s = s
  BY ConcatEmptySeq DEF Text
<1>5. QED
  BY <1>1, <1>2, <1>3, <1>4

LEMMA TextAssoc == \A s, t, u \in Text : (s \o t) \o u = s \o (t \o u)
BY ConcatAssociative DEF Text

----------------------------------------------------------------------------
(* The callbacks.                                                          *)

LEMMA DataType ==
  ASSUME NEW c \in Context, NEW k \in Kinds, NEW s \in Text
  PROVE  Data(c, k, s) \in Context
<1>1. c.url \o s \in Text /\ c.status \o s \in Text /\ c.body \o s \in Text
      /\ c.val \o s \in Text /\ c.field \o s \in Text /\ <<>> \in Text /\ <<>> \o s \in Text
  BY TextFacts DEF Context
<1>2. CASE k = "url"
  BY <1>1, <1>2 DEF Data, Context
<1>3. CASE k = "status"
  BY <1>1, <1>3 DEF Data, Context
<1>4. CASE k = "body"
  BY <1>1, <1>4 DEF Data, Context
<1>5. CASE k = "value"
  BY <1>1, <1>5 DEF Data, on_header_value, Context
<1>6. CASE k = "field"
  <2>1. Append(c.headers, <<c.field, c.val>>) \in Seq(Text \X Text)
    BY AppendProperties DEF Context
  <2>2. QED
    BY <1>1, <1>6, <2>1 DEF Data, on_header_field, Context
<1>7. QED
  BY <1>2, <1>3, <1>4, <1>5, <1>6 DEF Kinds

(* What on_header_field makes of a context. *)
LEMMA FieldData ==
  ASSUME NEW c \in Context, NEW s \in Text
  PROVE  /\ Data(c, "field", s).lastVal = FALSE
         /\ Data(c, "field", s).head = c.head /\ Data(c, "field", s).recv = c.recv
         /\ ~(c.lastVal /\ c.field # <<>>) =>
              Data(c, "field", s) = [c EXCEPT !.field = @ \o s, !.lastVal = FALSE]
         /\ (c.lastVal /\ c.field # <<>>) =>
              /\ Data(c, "field", s).headers = Append(c.headers, <<c.field, c.val>>)
              /\ Data(c, "field", s).field = s
<1>1. <<>> \o s = s
  BY TextFacts
<1>2. QED
  BY <1>1 DEF Data, on_header_field, Context

(* Handing over two pieces of data is handing over both at once. *)
LEMMA DataTwice ==
  ASSUME NEW c \in Context, NEW k \in Kinds, NEW s \in Text, NEW t \in Text
  PROVE  Data(Data(c, k, s), k, t) = Data(c, k, s \o t)
<1>1. /\ (c.url \o s) \o t = c.url \o (s \o t)
      /\ (c.status \o s) \o t = c.status \o (s \o t)
      /\ (c.body \o s) \o t = c.body \o (s \o t)
      /\ (c.val \o s) \o t = c.val \o (s \o t)
      /\ (c.field \o s) \o t = c.field \o (s \o t)
      /\ (<<>> \o s) \o t = <<>> \o (s \o t)
  <2>1. /\ c.url \in Text /\ c.status \in Text /\ c.body \in Text /\ c.val \in Text
        /\ c.field \in Text /\ <<>> \in Text
    BY TextFacts DEF Context
  <2>2. \A a \in Text : (a \o s) \o t = a \o (s \o t)
    BY TextAssoc
  <2>3. QED
    BY <2>1, <2>2
<1>2. CASE k = "url"
  BY <1>1, <1>2 DEF Data, Context
<1>3. CASE k = "status"
  BY <1>1, <1>3 DEF Data, Context
<1>4. CASE k = "body"
  BY <1>1, <1>4 DEF Data, Context
<1>5. CASE k = "value"
  BY <1>1, <1>5 DEF Data, on_header_value, Context
<1>6. CASE k = "field"
  <2>1. CASE c.lastVal /\ c.field # <<>>
    <3> DEFINE d == [c EXCEPT !.headers = Append(@, <<c.field, c.val>>),
                              !.field = <<>>, !.val = <<>>]
               y == [d EXCEPT !.field = @ \o s, !.lastVal = FALSE]
    <3>1. Data(c, k, s) = y /\ Data(c, k, s \o t) = [d EXCEPT !.field = @ \o (s \o t), !.lastVal = FALSE]
      BY <1>6, <2>1 DEF Data, on_header_field
    <3>2. y.lastVal = FALSE
      BY DEF Context
    <3>3. Data(y, k, t) = [y EXCEPT !.field = @ \o t, !.lastVal = FALSE]
      <4> HIDE DEF y
      <4> QED
        BY <1>6, <3>2 DEF Data, on_header_field
    <3>4. [y EXCEPT !.field = @ \o t, !.lastVal = FALSE]
            = [d EXCEPT !.field = @ \o (s \o t), !.lastVal = FALSE]
      BY <1>1 DEF Context
    <3>5. QED
      BY <3>1, <3>3, <3>4
  <2>2. CASE ~(c.lastVal /\ c.field # <<>>)
    BY <1>1, <1>6, <2>2 DEF Data, on_header_field, Context
  <2>3. QED
    BY <2>1, <2>2
<1>7. QED
  BY <1>2, <1>3, <1>4, <1>5, <1>6 DEF Kinds

(* No callback for data touches the header fields that are already there, or
   what else is known of the message. *)
LEMMA DataKeeps ==
  ASSUME NEW c \in Context, NEW k \in Kinds, NEW s \in Text
  PROVE  /\ Data(c, k, s).head = c.head /\ Data(c, k, s).recv = c.recv
         /\ k # "field" => /\ Data(c, k, s).headers = c.headers
                            /\ Data(c, k, s).field = c.field
         /\ k \notin {"field", "value"} => Data(c, k, s).lastVal = c.lastVal
         /\ k = "value" => Data(c, k, s).lastVal = TRUE
         /\ OneOK(c) => OneOK(Data(c, k, s))
<1> DEFINE d == Data(c, k, s)
<1>1. CASE k # "field"
  <2>1. /\ d.head = c.head /\ d.recv = c.recv /\ d.headers = c.headers /\ d.field = c.field
        /\ k \notin {"field", "value"} => d.lastVal = c.lastVal
        /\ k = "value" => d.lastVal = TRUE
    BY <1>1 DEF Data, on_header_value, Context, Kinds
  <2>2. OneOK(c) => OneOK(d)
    BY <2>1 DEF OneOK, HeadNames
  <2>3. QED
    BY <1>1, <2>1, <2>2
<1>2. CASE k = "field"
  <2>1. /\ d.head = c.head /\ d.recv = c.recv
        /\ d.headers = c.headers \/ d.headers = Append(c.headers, <<c.field, c.val>>)
    BY <1>2 DEF Data, on_header_field, Context
  <2>2. c.headers \in Seq(Text \X Text) /\ <<c.field, c.val>> \in Text \X Text /\ c.head \in Nat
    BY DEF Context
  <2>3. ASSUME OneOK(c) PROVE OneOK(d)
    <3>1. CASE d.headers = c.headers
      BY <2>1, <2>3, <3>1 DEF OneOK, HeadNames
    <3>2. CASE d.headers = Append(c.headers, <<c.field, c.val>>)
      <4>1. /\ Len(d.headers) = Len(c.headers) + 1 /\ Len(c.headers) \in Nat
            /\ \A j \in 1..Len(c.headers) : d.headers[j] = c.headers[j]
        BY <2>2, <3>2, AppendProperties, LenProperties
      <4>2. \A j \in 1..c.head : d.headers[j] = c.headers[j]
        BY <2>2, <2>3, <4>1 DEF OneOK
      <4>3. {d.headers[j] : j \in 1..d.head} = {c.headers[j] : j \in 1..c.head}
        BY <2>1, <4>2
      <4>4. HeadNames(d) = HeadNames(c)
        BY <4>3 DEF HeadNames
      <4>5. d.head <= Len(d.headers)
        BY <2>1, <2>2, <2>3, <4>1 DEF OneOK
      <4>6. QED
        BY <2>3, <4>4, <4>5 DEF OneOK
    <3>3. QED
      BY <2>1, <3>1, <3>2
  <2>4. QED
    BY <1>2, <2>1, <2>3
<1>3. QED
  BY <1>1, <1>2

----------------------------------------------------------------------------
(* The parts of a parser.                                                  *)

(* All of it but the marked data and the context. *)
Control(p) == <<p.type, p.state, p.h, p.flags, p.clen, p.method, p.version, p.code,
                p.upgrade, p.err, p.stop, p.nread, p.used, p.again>>

LEMMA SameParts ==
  ASSUME NEW p \in Parser, NEW q \in Parser,
         Control(p) = Control(q), p.mark = q.mark, p.seg = q.seg, p.c = q.c
  PROVE  p = q
BY DEF Control, Parser

LEMMA FlushFacts ==
  ASSUME NEW p \in Parser
  PROVE  /\ Flush(p) \in Parser /\ Flush(p).mark = "none"
         /\ Control(Flush(p)) = Control(p)
         /\ View(p) \in Context
         /\ p.mark = "none" => Flush(p) = p /\ View(p) = p.c
         /\ p.mark # "none" => View(p) = Data(p.c, p.mark, p.seg)
<1>1. CASE p.mark = "none"
  BY <1>1 DEF Flush, View, Parser
<1>2. CASE p.mark # "none"
  <2>1. Data(p.c, p.mark, p.seg) \in Context
    BY <1>2, DataType DEF Parser, Marks
  <2>2. <<>> \in Text /\ "none" \in Marks
    BY TextFacts DEF Marks
  <2> HIDE DEF Context
  <2>3. QED
    BY <1>2, <2>1, <2>2 DEF Flush, View, Parser, Control
<1>3. QED
  BY <1>1, <1>2

(* Data that is marked, from here or from before. *)
LEMMA TakeFacts ==
  ASSUME NEW p \in Parser, NEW k \in Kinds, NEW ch \in STRING, p.mark \in {"none", k}
  PROVE  /\ Take(p, k, ch) \in Parser /\ Control(Take(p, k, ch)) = Control(p)
         /\ Take(p, k, ch).mark = k /\ Take(p, k, ch).c = p.c
         /\ View(Take(p, k, ch)) = Data(View(p), k, <<ch>>)
<1>1. /\ p.seg \in Text /\ p.c \in Context /\ <<>> \in Text /\ <<ch>> \in Text
      /\ Append(p.seg, ch) \in Text /\ Append(p.seg, ch) = p.seg \o <<ch>>
      /\ Append(<<>>, ch) \in Text /\ Append(<<>>, ch) = <<ch>>
      /\ k \in Marks /\ k # "none"
  BY TextFacts DEF Parser, Marks, Kinds
<1>2. CASE p.mark = k
  <2>1. Take(p, k, ch) = [p EXCEPT !.seg = Append(p.seg, ch)]
    BY <1>2 DEF Take, Mark, Parser
  <2>2. /\ Take(p, k, ch) \in Parser /\ Control(Take(p, k, ch)) = Control(p)
        /\ Take(p, k, ch).mark = k /\ Take(p, k, ch).c = p.c
        /\ Take(p, k, ch).seg = p.seg \o <<ch>>
    BY <1>1, <1>2, <2>1 DEF Parser, Control
  <2>3. View(Take(p, k, ch)) = Data(p.c, k, p.seg \o <<ch>>)
    BY <1>1, <2>2, FlushFacts
  <2>4. View(p) = Data(p.c, k, p.seg)
    BY <1>1, <1>2, FlushFacts
  <2>5. QED
    BY <1>1, <2>2, <2>3, <2>4, DataTwice
<1>3. CASE p.mark = "none"
  <2>1. Take(p, k, ch) = [p EXCEPT !.mark = k, !.seg = Append(<<>>, ch)]
    BY <1>1, <1>3 DEF Take, Mark, Parser
  <2>2. /\ Take(p, k, ch) \in Parser /\ Control(Take(p, k, ch)) = Control(p)
        /\ Take(p, k, ch).mark = k /\ Take(p, k, ch).c = p.c
        /\ Take(p, k, ch).seg = <<ch>>
    BY <1>1, <1>3, <2>1 DEF Parser, Control
  <2>3. View(Take(p, k, ch)) = Data(p.c, k, <<ch>>) /\ View(p) = p.c
    BY <1>1, <1>3, <2>2, FlushFacts
  <2>4. QED
    BY <2>2, <2>3
<1>4. QED
  BY <1>2, <1>3

LEMMA KeepFacts ==
  ASSUME NEW p \in Parser, NEW ch \in STRING, p.mark # "none"
  PROVE  /\ Keep(p, ch) \in Parser /\ Control(Keep(p, ch)) = Control(p)
         /\ Keep(p, ch).mark = p.mark /\ Keep(p, ch).c = p.c
         /\ View(Keep(p, ch)) = Data(View(p), p.mark, <<ch>>)
<1>1. Keep(p, ch) = Take(p, p.mark, ch)
  BY DEF Keep, Take, Mark
<1>2. p.mark \in Kinds
  BY DEF Parser, Marks
<1>3. QED
  BY <1>1, <1>2, TakeFacts

LEMMA MarkFacts ==
  ASSUME NEW p \in Parser, NEW k \in Kinds, p.mark = "none"
  PROVE  /\ Mark(p, k) \in Parser /\ Control(Mark(p, k)) = Control(p)
         /\ Mark(p, k).mark = k /\ Mark(p, k).c = p.c /\ Mark(p, k).seg = <<>>
         /\ View(Mark(p, k)) = Data(p.c, k, <<>>)
<1>1. <<>> \in Text /\ k \in Marks /\ k # "none"
  BY TextFacts DEF Marks, Kinds
<1>2. Mark(p, k) = [p EXCEPT !.mark = k, !.seg = <<>>]
  BY <1>1 DEF Mark
<1>3. /\ Mark(p, k) \in Parser /\ Control(Mark(p, k)) = Control(p)
      /\ Mark(p, k).mark = k /\ Mark(p, k).c = p.c /\ Mark(p, k).seg = <<>>
  BY <1>1, <1>2 DEF Parser, Control
<1>4. QED
  BY <1>1, <1>3, FlushFacts

(* Handing over nothing. *)
LEMMA EmptyData ==
  ASSUME NEW c \in Context, NEW k \in Kinds,
         k = "field" => ~c.lastVal, k = "value" => c.lastVal
  PROVE  Data(c, k, <<>>) = c
<1>1. /\ c.url \o <<>> = c.url /\ c.status \o <<>> = c.status /\ c.body \o <<>> = c.body
      /\ c.val \o <<>> = c.val /\ c.field \o <<>> = c.field
  BY TextFacts DEF Context
<1>2. CASE k = "url"
  BY <1>1, <1>2 DEF Data, Context
<1>3. CASE k = "status"
  BY <1>1, <1>3 DEF Data, Context
<1>4. CASE k = "body"
  BY <1>1, <1>4 DEF Data, Context
<1>5. CASE k = "value"
  BY <1>1, <1>5 DEF Data, on_header_value, Context
<1>6. CASE k = "field"
  BY <1>1, <1>6 DEF Data, on_header_field, Context
<1>7. QED
  BY <1>2, <1>3, <1>4, <1>5, <1>6 DEF Kinds

----------------------------------------------------------------------------
(* What one step of the switch has to keep.                                *)

(* A parser that goes on, with its invariant. *)
Good(p) == Run(p) /\ ~p.err /\ ~p.stop

Sound(p, z) ==
  /\ Run(z) /\ z.used = p.used
  /\ (~z.err /\ z.state = "s_chunk_size_start") => z.nread = 0

(* Nothing but the control has changed. *)
Kept(p, z) ==
  z \in Parser /\ z.c = p.c /\ z.mark = p.mark /\ z.seg = p.seg
  /\ z.err = p.err /\ z.stop = p.stop /\ z.used = p.used

LEMMA Moved ==
  ASSUME NEW p, Good(p), NEW z, Kept(p, z),
         MarkOK(z.state, z.mark), LenOK(z.state, z.clen, z.flags),
         HeadOK(z.state, z.h, z.flags, View(p)), LastOK(z.state, View(p)),
         z.state = "s_chunk_size_start" => z.nread = 0
  PROVE  Sound(p, z)
<1>1. p \in Parser /\ z \in Parser
  BY DEF Good, Run, Kept
<1>2. View(z) = View(p)
  BY <1>1, FlushFacts DEF Kept
<1>3. Live(z)
  BY <1>2 DEF Live
<1>4. QED
  BY <1>1, <1>3 DEF Good, Run, Sound, Kept

LEMMA Failed ==
  ASSUME NEW p, Good(p), NEW z \in Parser, z.c = p.c, z.stop = p.stop, z.used = p.used,
         z.mark = "none" => z.seg = <<>>
  PROVE  Sound(p, Err(z))
<1>1. /\ Err(z) \in Parser /\ Err(z).c = p.c /\ Err(z).stop = p.stop /\ Err(z).used = p.used
      /\ Err(z).err = TRUE /\ Err(z).mark = z.mark /\ Err(z).seg = z.seg
  BY DEF Err, Parser
<1>2. QED
  BY <1>1 DEF Sound, Good, Run

LEMMA FailedHere == ASSUME NEW p, Good(p) PROVE Sound(p, Err(p))
BY Failed DEF Good, Run

(* Up to the header fields. *)
LEMMA LineHead ==
  ASSUME NEW s, NEW h, NEW f, NEW v, HeadOK(s, h, f, v), s \in LineStates,
         NEW t \in LineStates \cup {"s_header_field_start"}, NEW g, NEW e,
         "TRAILING" \in e => "TRAILING" \in f
  PROVE  HeadOK(t, g, e, v) /\ LastOK(t, v)
<1>1. t \notin TailStates /\ t # "s_header_field" /\ t # "s_header_value"
  BY DEF LineStates, TailStates, MethodStates, VersionStates, UrlStates, UrlEnds, ReasonStates,
         StatusStates, BodyStates, ChunkData, ChunkHead
<1>2. ASSUME v.head = 0
      PROVE  v.headers = <<>> /\ v.field = <<>> /\ v.lastVal /\ "TRAILING" \notin e
  BY <1>2 DEF HeadOK
<1>3. CL # <<>> /\ TE # <<>> /\ Len(<<>>) = 0
  BY DEF CL, TE
<1>4. QED
  BY <1>1, <1>2, <1>3 DEF HeadOK, LastOK

(* A step of the first line that marks nothing. *)
LEMMA LineMoved ==
  ASSUME NEW p, Good(p), NEW z, Kept(p, z), p.mark = "none",
         p.state \in LineStates,
         z.state \in (LineStates \ (UrlStates \cup {"s_res_status"}))
                        \cup {"s_req_spaces_before_url", "s_header_field_start"},
         "TRAILING" \in z.flags => "TRAILING" \in p.flags
  PROVE  Sound(p, z)
<1> USE DEF LineStates, MethodStates, VersionStates, UrlStates, UrlEnds, ReasonStates, StatusStates
<1>1. z.state \in LineStates \cup {"s_header_field_start"}
  OBVIOUS
<1>2. MarkOK(z.state, z.mark)
  BY DEF MarkOK, Kept
<1>3. LenOK(z.state, z.clen, z.flags) /\ z.state # "s_chunk_size_start"
  BY DEF LenOK, ChunkData, ChunkHead
<1> USE DEF Good, Run, Live
<1>4. HeadOK(p.state, p.h, p.flags, View(p))
  OBVIOUS
<1> HIDE DEF LineStates, MethodStates, VersionStates, UrlStates, UrlEnds, ReasonStates,
             StatusStates, Run, Live
<1>5. HeadOK(z.state, z.h, z.flags, View(p)) /\ LastOK(z.state, View(p))
  BY <1>1, <1>4, LineHead
<1>6. QED
  BY <1>2, <1>3, <1>5, Moved

----------------------------------------------------------------------------
(* The first line.                                                         *)

LEMMA ToFacts ==
  ASSUME NEW p \in Parser, NEW s \in States
  PROVE  /\ Kept(p, To(p, s)) /\ To(p, s).state = s
         /\ To(p, s).flags = p.flags /\ To(p, s).clen = p.clen /\ To(p, s).h = p.h
         /\ To(p, s).nread = p.nread
BY DEF To, Kept, Parser

LEMMA RedoFacts ==
  ASSUME NEW p \in Parser, NEW s \in States
  PROVE  /\ Kept(p, Redo(p, s)) /\ Redo(p, s).state = s
         /\ Redo(p, s).flags = p.flags /\ Redo(p, s).clen = p.clen /\ Redo(p, s).h = p.h
         /\ Redo(p, s).nread = p.nread
BY DEF Redo, Kept, Parser

LEMMA KeptTrans == ASSUME NEW p, NEW y, NEW z, Kept(p, y), Kept(y, z) PROVE Kept(p, z)
BY DEF Kept

(* A change of a field that no other part depends on. *)
LEMMA FreshFacts ==
  ASSUME NEW p \in Parser
  PROVE  /\ Kept(p, fresh(p)) /\ fresh(p).flags = {}
<1>1. {} \in SUBSET Flags /\ U \in 0..U
  BY HttpParserAssumption
<1>2. QED
  BY <1>1 DEF fresh, Kept, Parser

LEMMA SetFacts ==
  ASSUME NEW p \in Parser, NEW v
  PROVE  /\ v \in Methods =>
              Kept(p, [p EXCEPT !.method = v]) /\ [p EXCEPT !.method = v].flags = p.flags
         /\ v \in Versions \cup {"HTTP/0.9"} =>
              Kept(p, [p EXCEPT !.version = v]) /\ [p EXCEPT !.version = v].flags = p.flags
         /\ v \in Status =>
              Kept(p, [p EXCEPT !.code = v]) /\ [p EXCEPT !.code = v].flags = p.flags
BY DEF Kept, Parser

(* A step of the first line into state s, after a change y. *)
LEMMA LineTo ==
  ASSUME NEW p, Good(p), p.mark = "none", p.state \in LineStates,
         NEW y, Kept(p, y), y.flags \subseteq p.flags,
         NEW s \in (LineStates \ (UrlStates \cup {"s_res_status"}))
                        \cup {"s_req_spaces_before_url", "s_header_field_start"}
  PROVE  Sound(p, To(y, s)) /\ Sound(p, Redo(y, s))
<1>1. s \in States /\ y \in Parser
  BY DEF LineStates, HeadStates, States, UrlStates, FieldStates, Kept
<1>2. /\ Kept(p, To(y, s)) /\ To(y, s).state = s /\ To(y, s).flags = y.flags
      /\ Kept(p, Redo(y, s)) /\ Redo(y, s).state = s
      /\ Redo(y, s).flags = y.flags
  BY <1>1, ToFacts, RedoFacts, KeptTrans
<1>3. QED
  BY <1>2, LineMoved

LEMMA LineStays ==
  ASSUME NEW p, Good(p), p.mark = "none",
         p.state \in (LineStates \ (UrlStates \cup {"s_res_status"}))
                        \cup {"s_req_spaces_before_url"}
  PROVE  Sound(p, p)
<1>1. p.state \in LineStates
  BY DEF LineStates, UrlStates
<1>2. Kept(p, p)
  BY DEF Kept, Good, Run
<1>3. QED
  BY <1>1, <1>2, LineMoved

LEMMA Unmarked ==
  ASSUME NEW p, Good(p),
         p.state \notin (UrlStates \ {"s_req_spaces_before_url"})
                    \cup {"s_res_status", "s_header_field", "s_header_value", "s_body_identity",
                          "s_body_identity_eof", "s_chunk_data", "s_chunk_data_almost_done"}
  PROVE  p \in Parser /\ p.mark = "none" /\ View(p) = p.c
<1>1. p \in Parser /\ MarkOK(p.state, p.mark)
  BY DEF Good, Run
<1>2. p.mark = "none"
  BY <1>1 DEF MarkOK
<1>3. QED
  BY <1>1, <1>2, FlushFacts

LEMMA MethodSound ==
  ASSUME NEW p, Good(p), p.state \in MethodStates, NEW ch \in STRING
  PROVE  Sound(p, MethodState(p, ch))
<1> USE DEF MethodStates
<1>1. p \in Parser /\ p.mark = "none" /\ p.state \in LineStates
  BY Unmarked DEF UrlStates, UrlEnds, LineStates
<1>2. Sound(p, p) /\ Sound(p, Err(p))
  BY <1>1, LineStays, FailedHere DEF UrlStates, UrlEnds
<1>3. CASE p.state = "s_dead"
  BY <1>2, <1>3 DEF MethodState
<1>4. CASE p.state = "s_start_req"
  <2> DEFINE y == [fresh(p) EXCEPT !.method = ch]
  <2>1. /\ fresh(p) \in Parser /\ fresh(p).c = p.c /\ fresh(p).stop = p.stop
        /\ fresh(p).used = p.used /\ fresh(p).mark = p.mark /\ fresh(p).seg = p.seg
    BY <1>1, FreshFacts DEF Kept
  <2>2. Sound(p, Err(fresh(p)))
    BY <1>1, <2>1, Failed DEF Good, Run
  <2>3. ch \in Methods => Kept(p, y) /\ y.flags = {}
    BY <1>1, <2>1, FreshFacts, SetFacts, KeptTrans
  <2> HIDE DEF y
  <2>4. ch \in Methods => Sound(p, To(y, "s_req_method"))
    BY <1>1, <2>3, LineTo DEF UrlStates, UrlEnds, LineStates
  <2>5. QED
    BY <1>2, <1>4, <2>2, <2>4 DEF MethodState, y
<1>5. CASE p.state = "s_req_method"
  <2>1. Sound(p, To(p, "s_req_spaces_before_url"))
    BY <1>1, LineTo DEF UrlStates, LineStates, Kept
  <2>2. QED
    BY <1>2, <1>5, <2>1 DEF MethodState, Expect
<1>6. QED
  BY <1>3, <1>4, <1>5

LEMMA VersionSound ==
  ASSUME NEW p, Good(p), p.state \in VersionStates, NEW ch \in STRING
  PROVE  Sound(p, VersionState(p, ch))
<1> USE DEF VersionStates
<1>1. p \in Parser /\ p.mark = "none" /\ p.state \in LineStates /\ Kept(p, p)
  BY Unmarked DEF UrlStates, UrlEnds, LineStates, Kept
<1>2. Sound(p, p) /\ Sound(p, Err(p))
  BY <1>1, LineStays, FailedHere DEF UrlStates, UrlEnds
<1>3. ch \in Versions =>
        Kept(p, [p EXCEPT !.version = ch]) /\ [p EXCEPT !.version = ch].flags = p.flags
  BY <1>1, SetFacts
<1>4. ch \in Versions => Sound(p, To([p EXCEPT !.version = ch], "s_req_http_end"))
  BY <1>1, <1>3, LineTo DEF UrlStates, UrlEnds, LineStates
<1>5. Sound(p, To(p, "s_req_line_almost_done")) /\ Sound(p, To(p, "s_header_field_start"))
  BY <1>1, LineTo DEF UrlStates, UrlEnds, LineStates
<1>6. QED
  BY <1>2, <1>4, <1>5 DEF VersionState, Expect

LEMMA StatusSound ==
  ASSUME NEW p, Good(p), p.state \in StatusStates, NEW ch \in STRING
  PROVE  Sound(p, StatusLine(p, ch))
<1> USE DEF StatusStates
<1>1. p \in Parser /\ p.mark = "none" /\ p.state \in LineStates /\ Kept(p, p)
  BY Unmarked DEF UrlStates, UrlEnds, LineStates, Kept
<1>2. Sound(p, p) /\ Sound(p, Err(p))
  BY <1>1, LineStays, FailedHere DEF UrlStates, UrlEnds
<1>3. Kept(p, fresh(p)) /\ fresh(p).flags = {} /\ fresh(p) \in Parser
  BY <1>1, FreshFacts DEF Kept
<1>4. Sound(p, Err(fresh(p)))
  BY <1>1, <1>3, Failed DEF Good, Run, Kept
<1> DEFINE y == [fresh(p) EXCEPT !.version = ch]
           z == [p EXCEPT !.code = ch]
<1>5. /\ ch \in Versions => Kept(p, y) /\ y.flags = {}
      /\ ch \in Status => Kept(p, z) /\ z.flags = p.flags
  BY <1>1, <1>3, SetFacts, KeptTrans
<1> HIDE DEF y, z
<1>6. /\ ch \in Versions => Sound(p, To(y, "s_res_http_end"))
      /\ ch \in Status => Sound(p, To(z, "s_res_status_code"))
  BY <1>1, <1>5, LineTo DEF UrlStates, UrlEnds, LineStates
<1>7. /\ Sound(p, To(p, "s_res_first_status_code")) /\ Sound(p, To(p, "s_res_status_start"))
      /\ Sound(p, Redo(p, "s_res_status_start")) /\ Sound(p, To(p, "s_header_field_start"))
  BY <1>1, LineTo DEF UrlStates, UrlEnds, LineStates, ReasonStates
<1>8. QED
  BY <1>2, <1>4, <1>6, <1>7 DEF StatusLine, Expect, y, z

(* Data has been marked, and nothing handed over. *)
Taken(p, z, k, s) ==
  /\ z \in Parser /\ z.c = p.c /\ z.mark = k /\ k \in Kinds /\ s \in Text
  /\ View(z) = Data(View(p), k, s)
  /\ z.err = p.err /\ z.stop = p.stop /\ z.used = p.used

LEMMA TakeTaken ==
  ASSUME NEW p \in Parser, NEW k \in Kinds, NEW ch \in STRING, p.mark \in {"none", k}
  PROVE  /\ Taken(p, Take(p, k, ch), k, <<ch>>)
         /\ Control(Take(p, k, ch)) = Control(p)
BY TakeFacts, TextFacts DEF Taken, Control

LEMMA TakenKept ==
  ASSUME NEW p, NEW k, NEW s, NEW y, Taken(p, y, k, s), NEW z, Kept(y, z)
  PROVE  Taken(p, z, k, s)
<1>1. y \in Parser /\ z \in Parser /\ z.mark = y.mark /\ z.c = y.c /\ z.seg = y.seg
  BY DEF Taken, Kept
<1>2. View(z) = View(y)
  BY <1>1, FlushFacts
<1>3. QED
  BY <1>1, <1>2 DEF Taken, Kept

LEMMA TakenSound ==
  ASSUME NEW p, Good(p), NEW k, NEW s, NEW z, Taken(p, z, k, s),
         MarkOK(z.state, k), LenOK(z.state, z.clen, z.flags),
         HeadOK(z.state, z.h, z.flags, Data(View(p), k, s)), LastOK(z.state, Data(View(p), k, s)),
         z.state # "s_chunk_size_start"
  PROVE  Sound(p, z)
<1>1. Live(z)
  BY DEF Taken, Live
<1>2. z.mark # "none"
  BY DEF Taken, Kinds
<1>3. QED
  BY <1>1, <1>2 DEF Sound, Good, Run, Taken

(* A step that takes data which says nothing of the header fields. *)
LEMMA TextData ==
  ASSUME NEW c \in Context, NEW k \in {"url", "status", "body"}, NEW t \in Text,
         NEW s, NEW h, NEW f, HeadOK(s, h, f, c), LastOK(s, c)
  PROVE  HeadOK(s, h, f, Data(c, k, t)) /\ LastOK(s, Data(c, k, t))
<1> DEFINE d == Data(c, k, t)
<1>1. k \in Kinds
  BY DEF Kinds
<1>2. d.head = c.head /\ d.headers = c.headers /\ d.field = c.field /\ d.lastVal = c.lastVal
  BY <1>1, DataKeeps
<1> HIDE DEF d
<1>3. HeadOK(s, h, f, d) /\ LastOK(s, d)
  BY <1>2 DEF HeadOK, LastOK
<1>4. QED
  BY <1>3 DEF d

LEMMA TextTaken ==
  ASSUME NEW p, Good(p), NEW k \in {"url", "status", "body"}, NEW s, NEW z, Taken(p, z, k, s),
         MarkOK(z.state, k), LenOK(z.state, z.clen, z.flags),
         HeadOK(z.state, z.h, z.flags, View(p)), LastOK(z.state, View(p)),
         z.state # "s_chunk_size_start"
  PROVE  Sound(p, z)
<1>1. View(p) \in Context /\ s \in Text
  BY FlushFacts DEF Good, Run, Taken
<1>2. HeadOK(z.state, z.h, z.flags, Data(View(p), k, s)) /\ LastOK(z.state, Data(View(p), k, s))
  BY <1>1, TextData
<1>3. QED
  BY <1>2, TakenSound

(* The end of marked data. *)
LEMMA Flushed ==
  ASSUME NEW p, Good(p), NEW y, Kept(p, y),
         MarkOK(y.state, "none"), LenOK(y.state, y.clen, y.flags),
         HeadOK(y.state, y.h, y.flags, View(p)), LastOK(y.state, View(p)),
         y.state # "s_chunk_size_start"
  PROVE  Sound(p, Flush(y))
<1>1. p \in Parser /\ y \in Parser
  BY DEF Good, Run, Kept
<1>2. /\ Flush(y) \in Parser /\ Flush(y).mark = "none" /\ Control(Flush(y)) = Control(y)
      /\ View(y) = Flush(y).c
  BY <1>1, FlushFacts DEF View
<1>3. View(y) = View(p)
  BY <1>1, FlushFacts DEF Kept
<1>4. View(Flush(y)) = Flush(y).c
  BY <1>2, FlushFacts
<1>5. y.mark = "none" => Flush(y) = y
  BY <1>1, FlushFacts
<1>6. y.mark # "none" => Flush(y).seg = <<>>
  BY <1>1, TextFacts DEF Flush, Parser
<1>7. OneOK(View(p)) /\ View(p).recv = p.c.recv
  <2>1. CASE p.mark = "none"
    BY <1>1, <2>1, FlushFacts DEF Good, Run
  <2>2. CASE p.mark # "none"
    <3>1. p.mark \in Kinds /\ p.c \in Context /\ p.seg \in Text /\ OneOK(p.c)
      BY <1>1, <2>2 DEF Parser, Marks, Good, Run
    <3>2. View(p) = Data(p.c, p.mark, p.seg)
      BY <1>1, <2>2, FlushFacts
    <3>3. /\ OneOK(Data(p.c, p.mark, p.seg))
          /\ Data(p.c, p.mark, p.seg).recv = p.c.recv
      BY <3>1, DataKeeps
    <3>4. QED
      BY <3>2, <3>3
  <2>3. QED
    BY <2>1, <2>2
<1>8. /\ Flush(y).state = y.state /\ Flush(y).clen = y.clen /\ Flush(y).flags = y.flags
      /\ Flush(y).h = y.h /\ Flush(y).err = y.err /\ Flush(y).stop = y.stop
      /\ Flush(y).used = y.used
  BY <1>2 DEF Control
<1>9. Live(Flush(y))
  BY <1>2, <1>3, <1>4, <1>8 DEF Live
<1>10. QED
  BY <1>2, <1>3, <1>5, <1>6, <1>7, <1>8, <1>9 DEF Sound, Good, Run, Kept

LEMMA LineFlushed ==
  ASSUME NEW p, Good(p), p.state \in LineStates,
         NEW y, Kept(p, y), y.flags = p.flags,
         NEW s \in {"s_req_http_start", "s_req_line_almost_done", "s_header_field_start",
                    "s_res_line_almost_done"}
  PROVE  Sound(p, Flush(To(y, s)))
<1>1. y \in Parser /\ s \in LineStates \cup {"s_header_field_start"} /\ s \in States
  BY DEF Kept, States, LineStates, HeadStates, VersionStates, StatusStates, FieldStates
<1>2. /\ Kept(p, To(y, s)) /\ To(y, s).state = s
      /\ To(y, s).flags = p.flags
  BY <1>1, ToFacts, KeptTrans
<1>3. MarkOK(s, "none")
  BY DEF MarkOK, UrlStates, UrlEnds
<1>4. LenOK(s, To(y, s).clen, p.flags)
  BY DEF LenOK, ChunkData, ChunkHead
<1>5. HeadOK(p.state, p.h, p.flags, View(p))
  BY DEF Good, Run, Live
<1>6. HeadOK(s, To(y, s).h, p.flags, View(p)) /\ LastOK(s, View(p))
  BY <1>1, <1>5, LineHead
<1>7. QED
  BY <1>2, <1>3, <1>4, <1>6, Flushed

(* A character of the URL or of the reason, into state s. *)
LEMMA LineTaken ==
  ASSUME NEW p, Good(p), p.state \in LineStates, NEW ch \in STRING,
         NEW s, NEW k,
         \/ s \in UrlStates \ {"s_req_spaces_before_url"} /\ k = "url"
         \/ s = "s_res_status" /\ k = "status",
         p.mark \in {"none", k}
  PROVE  Sound(p, To(Take(p, k, ch), s))
<1>1. /\ p \in Parser /\ k \in Kinds /\ k \in {"url", "status", "body"} /\ s \in LineStates
      /\ s \in States /\ MarkOK(s, k)
  BY DEF Good, Run, Kinds, LineStates, ReasonStates, States, MarkOK, UrlStates, UrlEnds
<1> DEFINE y == Take(p, k, ch)
           z == To(y, s)
<1>2. Taken(p, y, k, <<ch>>) /\ Control(y) = Control(p) /\ y \in Parser
  BY <1>1, TakeTaken DEF Taken
<1> HIDE DEF y
<1>3. Kept(y, z) /\ z.state = s /\ z.flags = y.flags
  BY <1>1, <1>2, ToFacts
<1> HIDE DEF z
<1>4. Taken(p, z, k, <<ch>>) /\ z.flags = p.flags
  BY <1>2, <1>3, TakenKept DEF Control
<1>5. LenOK(s, z.clen, z.flags) /\ s # "s_chunk_size_start"
  BY DEF LenOK, ChunkData, ChunkHead, UrlStates, UrlEnds
<1>6. HeadOK(p.state, p.h, p.flags, View(p))
  BY DEF Good, Run, Live
<1>7. HeadOK(s, z.h, z.flags, View(p)) /\ LastOK(s, View(p))
  BY <1>1, <1>4, <1>6, LineHead
<1>8. Sound(p, z)
  BY <1>1, <1>3, <1>4, <1>5, <1>7, TextTaken
<1>9. QED
  BY <1>8 DEF z, y

LEMMA ReasonSound ==
  ASSUME NEW p, Good(p), p.state \in ReasonStates, NEW ch \in STRING
  PROVE  Sound(p, ReasonState(p, ch))
<1>1. p \in Parser /\ p.state \in LineStates /\ Kept(p, p)
  BY DEF LineStates, Kept, Good, Run
<1>2. CASE p.state = "s_res_status_start"
  <2>1. p.mark = "none" /\ View(p) = p.c
    BY <1>2, Unmarked DEF UrlStates, UrlEnds
  <2>2. Sound(p, To(Take(p, "status", ch), "s_res_status"))
    BY <1>1, <2>1, LineTaken
  <2>3. Sound(p, Redo(Mark(p, "status"), "s_res_status"))
    <3> DEFINE y == Mark(p, "status")
               z == Redo(y, "s_res_status")
    <3>1. /\ y \in Parser /\ Control(y) = Control(p) /\ y.mark = "status" /\ y.c = p.c
          /\ View(y) = Data(p.c, "status", <<>>)
      BY <1>1, <2>1, MarkFacts DEF Kinds
    <3> HIDE DEF y
    <3>2. Taken(p, y, "status", <<>>)
      BY <2>1, <3>1, TextFacts DEF Taken, Control, Kinds
    <3>3. Kept(y, z) /\ z.state = "s_res_status" /\ z.flags = y.flags
      BY <3>1, RedoFacts DEF States, LineStates, ReasonStates
    <3> HIDE DEF z
    <3>4. Taken(p, z, "status", <<>>) /\ z.flags = p.flags
      BY <3>1, <3>2, <3>3, TakenKept DEF Control
    <3>5. MarkOK(z.state, "status") /\ LenOK(z.state, z.clen, z.flags)
          /\ z.state # "s_chunk_size_start"
      BY <3>3 DEF MarkOK, LenOK, ChunkData, ChunkHead, UrlStates, UrlEnds
    <3>6. HeadOK(p.state, p.h, p.flags, View(p))
      BY DEF Good, Run, Live
    <3>7. HeadOK(z.state, z.h, z.flags, View(p)) /\ LastOK(z.state, View(p))
      BY <1>1, <3>3, <3>4, <3>6, LineHead DEF LineStates, ReasonStates
    <3>8. Sound(p, z)
      BY <3>4, <3>5, <3>7, TextTaken
    <3>9. QED
      BY <3>8 DEF z, y
  <2>4. QED
    BY <1>2, <2>2, <2>3 DEF ReasonState
<1>3. CASE p.state = "s_res_status"
  <2>1. p.mark = "status"
    BY <1>3 DEF Good, Run, MarkOK, UrlStates, UrlEnds
  <2>2. Sound(p, Flush(To(p, "s_res_line_almost_done")))
        /\ Sound(p, Flush(To(p, "s_header_field_start")))
    BY <1>1, LineFlushed
  <2>3. To(Take(p, "status", ch), "s_res_status") = Keep(p, ch)
    BY <1>1, <1>3, <2>1 DEF To, Take, Mark, Keep, Parser
  <2>4. Sound(p, Keep(p, ch))
    BY <1>1, <2>1, <2>3, LineTaken
  <2>5. QED
    BY <1>3, <2>2, <2>4 DEF ReasonState
<1>4. QED
  BY <1>2, <1>3 DEF ReasonStates

LEMMA UrlStep ==
  ASSUME NEW s \in UrlStates, NEW ch
  PROVE  parse_url_char(s, ch) \in {"s_dead"} \cup (UrlStates \ {"s_req_spaces_before_url"})
BY DEF parse_url_char, UrlStates, UrlEnds

LEMMA UrlSound ==
  ASSUME NEW p, Good(p), p.state \in UrlStates, NEW ch \in STRING
  PROVE  Sound(p, UrlState(p, ch))
<1>1. p \in Parser /\ p.state \in LineStates /\ Kept(p, p)
  BY DEF LineStates, Kept, Good, Run
<1> DEFINE start == p.state = "s_req_spaces_before_url"
           t == IF start /\ p.method = "CONNECT" THEN "s_req_server_start" ELSE p.state
           s == parse_url_char(t, ch)
           y == IF start THEN Mark(p, "url") ELSE p
           v == [p EXCEPT !.version = "HTTP/0.9"]
<1>2. t \in UrlStates
  BY DEF UrlStates
<1>3. s \in {"s_dead"} \cup (UrlStates \ {"s_req_spaces_before_url"})
  BY <1>2, UrlStep
<1>4. p.mark = IF start THEN "none" ELSE "url"
  BY DEF Good, Run, MarkOK, UrlStates, UrlEnds
<1>5. start => Sound(p, p)
  BY <1>1, <1>4, LineStays
<1>6. Sound(p, Flush(To(p, "s_req_http_start")))
  BY <1>1, LineFlushed
<1>7. Sound(p, Flush(To(v, "s_req_line_almost_done"))) /\ Sound(p, Flush(To(v, "s_header_field_start")))
  <2>1. Kept(p, v) /\ v.flags = p.flags
    BY <1>1, SetFacts
  <2> HIDE DEF v
  <2>2. QED
    BY <1>1, <2>1, LineFlushed
<1>8. Sound(p, Err(y))
  <2>1. CASE start
    <3>1. /\ y \in Parser /\ Control(y) = Control(p) /\ y.mark = "url" /\ y.c = p.c
          /\ y.seg = <<>>
      BY <1>1, <1>4, <2>1, MarkFacts DEF Kinds
    <3> HIDE DEF y
    <3>2. QED
      BY <3>1, Failed DEF Control
  <2>2. CASE ~start
    BY <2>2, FailedHere
  <2>3. QED
    BY <2>1, <2>2
<1>9. ASSUME s # "s_dead"
      PROVE  Sound(p, To(Keep(y, ch), s))
  <2>1. Keep(y, ch) = Take(p, "url", ch)
    BY <1>1, <1>4 DEF Keep, Take, Mark, Parser
  <2>2. Sound(p, To(Take(p, "url", ch), s))
    <3> HIDE DEF s
    <3>1. QED
      BY <1>1, <1>3, <1>4, <1>9, LineTaken
  <2>3. QED
    BY <2>1, <2>2
<1>10. UrlState(p, ch) =
         CASE start /\ ch = "sp" -> p
           [] p.state \in UrlEnds /\ ch = "sp" -> Flush(To(p, "s_req_http_start"))
           [] p.state \in UrlEnds /\ ch \in {"CR", "LF"} ->
                Flush(To(v, IF ch = "CR" THEN "s_req_line_almost_done" ELSE "s_header_field_start"))
           [] OTHER -> IF s = "s_dead" THEN Err(y) ELSE To(Keep(y, ch), s)
  BY Zenon DEF UrlState
<1> HIDE DEF s, y, v, start
<1>11. QED
  BY <1>5, <1>6, <1>7, <1>8, <1>9, <1>10

----------------------------------------------------------------------------
(* Header fields.                                                          *)

LEMMA HFacts ==
  ASSUME NEW p \in Parser, NEW v \in HeaderStates
  PROVE  /\ Kept(p, [p EXCEPT !.h = v]) /\ [p EXCEPT !.h = v].state = p.state
         /\ [p EXCEPT !.h = v].flags = p.flags /\ [p EXCEPT !.h = v].clen = p.clen
         /\ [p EXCEPT !.h = v].h = v /\ [p EXCEPT !.h = v].nread = p.nread
BY DEF Kept, Parser

LEMMA FlagFacts ==
  ASSUME NEW p \in Parser, NEW f \in SUBSET Flags
  PROVE  /\ Kept(p, Flag(p, f)) /\ Flag(p, f).state = p.state /\ Flag(p, f).h = p.h
         /\ Flag(p, f).flags = p.flags \cup f /\ Flag(p, f).clen = p.clen
         /\ Flag(p, f).nread = p.nread
BY DEF Flag, Kept, Parser

(* A step between header fields that changes no data. *)
LEMMA HeadMove ==
  ASSUME NEW s \in HeadStates, NEW h, NEW f, NEW v, HeadOK(s, h, f, v), LastOK(s, v),
         NEW t \in HeadStates, NEW g, NEW e,
         f \subseteq e, "TRAILING" \in e => "TRAILING" \in f,
         t # "s_header_field", t = "s_header_value" => v.lastVal,
         t \in DoneStates => v.lastVal \/ s \in DoneStates,
         v.field = CL => \/ "CONTENTLENGTH" \in e
                         \/ g = "cl" /\ t \in NameStates
                         \/ s \notin NameStates
                         \/ h # "cl"
  PROVE  HeadOK(t, g, e, v) /\ LastOK(t, v)
<1>1. t \notin TailStates /\ t \notin LineStates
  BY DEF HeadStates, TailStates, FieldStates, EdgeStates, BodyStates, ChunkData, ChunkHead,
         LineStates, MethodStates, VersionStates, UrlStates, UrlEnds, ReasonStates, StatusStates
<1>2. ASSUME v.head = 0, NEW k \in 1..Len(v.headers)
      PROVE  Listed(v.headers[k][1], e)
  BY <1>2 DEF HeadOK, Listed
<1>3. ASSUME v.head = 0
      PROVE  /\ "TRAILING" \notin e
             /\ v.field = TE => "TE" \in e
             /\ v.field = CL => "CONTENTLENGTH" \in e \/ (g = "cl" /\ t \in NameStates)
             /\ t \in DoneStates => v.lastVal
  BY <1>3 DEF HeadOK
<1>4. QED
  BY <1>1, <1>2, <1>3 DEF HeadOK, LastOK

(* The first character of a name. *)
LEMMA NameStarts ==
  ASSUME NEW c \in Context, NEW h, NEW f, HeadOK("s_header_field_start", h, f, c),
         NEW ch \in STRING
  PROVE  LET e == f \cup (IF Known(ch) = "te" THEN {"TE"} ELSE {})
             d == Data(c, "field", <<ch>>)
         IN  HeadOK("s_header_field", Known(ch), e, d) /\ LastOK("s_header_field", d)
<1> DEFINE e == f \cup (IF Known(ch) = "te" THEN {"TE"} ELSE {})
           d == Data(c, "field", <<ch>>)
<1>0. <<ch>> \in Text /\ <<>> \o <<ch>> = <<ch>> /\ c.headers \in Seq(Text \X Text)
      /\ <<c.field, c.val>> \in Text \X Text
  BY TextFacts DEF Context
<1>1. d.lastVal = FALSE /\ d.head = c.head
  BY <1>0, FieldData
<1>2. "s_header_field" \notin TailStates /\ "s_header_field" \notin LineStates
      /\ "s_header_field" \in NameStates /\ "s_header_field_start" \notin NameStates
      /\ "s_header_field" \notin DoneStates /\ "s_header_field_start" \in DoneStates
  BY DEF DoneStates, TailStates, BodyStates, ChunkData, ChunkHead, LineStates, MethodStates, VersionStates,
         UrlStates, UrlEnds, ReasonStates, StatusStates, NameStates
<1>3. ASSUME c.head = 0
      PROVE  /\ c.lastVal /\ "TRAILING" \notin f /\ Listed(c.field, f)
             /\ \A k \in 1..Len(c.headers) : Listed(c.headers[k][1], f)
  BY <1>2, <1>3 DEF HeadOK, Listed
<1>4. ASSUME c.head = 0
      PROVE  /\ d.field = <<ch>>
             /\ \A k \in 1..Len(d.headers) : Listed(d.headers[k][1], f)
  <2>1. CASE c.field = <<>>
    <3>1. d = [c EXCEPT !.field = @ \o <<ch>>, !.lastVal = FALSE]
      BY <1>0, <2>1, FieldData
    <3>2. d.field = <<ch>> /\ d.headers = c.headers
      BY <1>0, <2>1, <3>1 DEF Context
    <3>3. QED
      BY <1>3, <1>4, <3>2
  <2>2. CASE c.field # <<>>
    <3>1. d.headers = Append(c.headers, <<c.field, c.val>>) /\ d.field = <<ch>>
      BY <1>0, <1>3, <1>4, <2>2, FieldData
    <3> HIDE DEF d
    <3>2. /\ Len(d.headers) = Len(c.headers) + 1 /\ Len(c.headers) \in Nat
          /\ \A k \in 1..Len(c.headers) : d.headers[k] = c.headers[k]
          /\ d.headers[Len(c.headers) + 1] = <<c.field, c.val>>
      BY <1>0, <3>1, AppendProperties, LenProperties
    <3>3. QED
      BY <1>3, <1>4, <3>1, <3>2
  <2>3. QED
    BY <2>1, <2>2
<1>5. /\ <<ch>> = TE => "TE" \in e
      /\ <<ch>> = CL => Known(ch) = "cl"
      /\ <<ch>> # <<>> /\ f \subseteq e
      /\ "TRAILING" \in e => "TRAILING" \in f
  BY DEF TE, CL, Known
<1> HIDE DEF e, d
<1>6. ASSUME c.head = 0, NEW k \in 1..Len(d.headers)
      PROVE  Listed(d.headers[k][1], e)
  BY <1>4, <1>5, <1>6 DEF Listed
<1>7. HeadOK("s_header_field", Known(ch), e, d) /\ LastOK("s_header_field", d)
  BY <1>1, <1>2, <1>3, <1>4, <1>5, <1>6 DEF HeadOK, LastOK
<1>8. QED
  BY <1>7 DEF e, d

(* A further one: the name is none of the known ones. *)
LEMMA NameGoesOn ==
  ASSUME NEW c \in Context, NEW h, NEW f, HeadOK("s_header_field", h, f, c),
         LastOK("s_header_field", c), NEW ch \in STRING
  PROVE  LET d == Data(c, "field", <<ch>>)
         IN  HeadOK("s_header_field", "general", f, d) /\ LastOK("s_header_field", d)
<1> DEFINE d == Data(c, "field", <<ch>>)
<1>0. <<ch>> \in Text /\ c.field \in Text
  BY TextFacts DEF Context
<1>1. d = [c EXCEPT !.field = @ \o <<ch>>, !.lastVal = FALSE]
  BY <1>0, FieldData DEF LastOK
<1>2. d.head = c.head /\ d.headers = c.headers /\ d.field = c.field \o <<ch>> /\ d.lastVal = FALSE
  BY <1>1 DEF Context
<1>3. ASSUME c.field # <<>> PROVE c.field \o <<ch>> # CL /\ c.field \o <<ch>> # TE
                                  /\ c.field \o <<ch>> # <<>>
  <2>1. /\ c.field \in Seq(STRING) /\ <<ch>> \in Seq(STRING) /\ Len(<<ch>>) = 1
        /\ Len(c.field) \in Nat
    BY <1>0, LenProperties DEF Text
  <2>2. Len(c.field \o <<ch>>) = Len(c.field) + 1
    BY <2>1, ConcatProperties
  <2>3. Len(c.field) # 0
    BY <1>3, <2>1, EmptySeq
  <2>4. Len(CL) = 1 /\ Len(TE) = 1 /\ Len(<<>>) = 0
    BY DEF CL, TE
  <2>5. QED
    BY <2>1, <2>2, <2>3, <2>4
<1>4. "s_header_field" \notin LineStates /\ "s_header_field" \notin DoneStates
  BY DEF DoneStates, LineStates, MethodStates, VersionStates, UrlStates, UrlEnds, ReasonStates, StatusStates
<1> HIDE DEF d
<1>5. HeadOK("s_header_field", "general", f, d)
  BY <1>2, <1>3, <1>4 DEF HeadOK
<1>6. QED
  BY <1>2, <1>5 DEF LastOK, d

(* A step among the header fields, without new data. *)
LEMMA HeadMoved ==
  ASSUME NEW p, Good(p), p.state \in HeadStates, NEW z, Kept(p, z),
         z.state \in HeadStates \ {"s_header_field", "s_header_value"},
         p.flags \subseteq z.flags, "TRAILING" \in z.flags => "TRAILING" \in p.flags,
         z.state \in DoneStates => View(p).lastVal \/ p.state \in DoneStates,
         \/ z.h = "cl" /\ z.state \in NameStates
         \/ p.state \notin NameStates
         \/ p.h # "cl"
  PROVE  /\ p.mark = "none" => Sound(p, z)
         /\ Sound(p, Flush(z))
<1>1. /\ MarkOK(z.state, "none") /\ LenOK(z.state, z.clen, z.flags)
      /\ z.state # "s_chunk_size_start"
  BY DEF MarkOK, LenOK, ChunkData, ChunkHead, UrlStates, UrlEnds, HeadStates, FieldStates, EdgeStates
<1>2. HeadOK(p.state, p.h, p.flags, View(p)) /\ LastOK(p.state, View(p))
  BY DEF Good, Run, Live
<1>3. HeadOK(z.state, z.h, z.flags, View(p)) /\ LastOK(z.state, View(p))
  BY <1>2, HeadMove
<1>4. Sound(p, Flush(z))
  BY <1>1, <1>3, Flushed
<1>5. ASSUME p.mark = "none" PROVE Sound(p, z)
  <2>1. z.mark = "none"
    BY <1>5 DEF Kept
  <2>2. QED
    BY <1>1, <1>3, <2>1, Moved
<1>6. QED
  BY <1>4, <1>5

LEMMA KnownType == \A ch : Known(ch) \in HeaderStates
BY DEF Known, HeaderStates

LEMMA FieldSound ==
  ASSUME NEW p, Good(p), p.state \in FieldStates, NEW ch \in STRING
  PROVE  Sound(p, FieldState(p, ch))
<1>1. p \in Parser /\ p.state \in HeadStates /\ View(p) \in Context
  BY FlushFacts DEF HeadStates, Good, Run
<1>2. HeadOK(p.state, p.h, p.flags, View(p)) /\ LastOK(p.state, View(p))
  BY DEF Good, Run, Live
<1>3. Sound(p, Err(p))
  BY FailedHere
<1>4. "s_header_field" \in States /\ MarkOK("s_header_field", "field") /\ "field" \in Kinds
      /\ \A n, f : LenOK("s_header_field", n, f)
  BY DEF States, HeadStates, FieldStates, MarkOK, LenOK, Kinds, UrlStates, UrlEnds, ChunkData,
         ChunkHead
<1>5. CASE p.state = "s_header_field_start"
  <2>1. p.mark = "none"
    BY <1>5, Unmarked DEF UrlStates, UrlEnds
  <2>2. p.state \notin NameStates /\ "s_headers_almost_done" \in States
        /\ "s_headers_almost_done" \notin DoneStates
        /\ "s_headers_almost_done" \in HeadStates \ {"s_header_field", "s_header_value"}
    BY <1>5 DEF NameStates, States, HeadStates, DoneStates
  <2> DEFINE t == To(p, "s_headers_almost_done")
             r == Redo(p, "s_headers_almost_done")
  <2>3. /\ Kept(p, t) /\ t.state = "s_headers_almost_done" /\ t.flags = p.flags
        /\ Kept(p, r) /\ r.state = "s_headers_almost_done" /\ r.flags = p.flags
    BY <1>1, <2>2, ToFacts, RedoFacts
  <2> HIDE DEF t, r
  <2>4. Sound(p, t) /\ Sound(p, r)
    BY <1>1, <2>1, <2>2, <2>3, HeadMoved
  <2> DEFINE a == Take(p, "field", ch)
             b == To(a, "s_header_field")
             d == [b EXCEPT !.h = Known(ch)]
             f == IF Known(ch) = "te" THEN {"TE"} ELSE {}
             z == Flag(d, f)
  <2>5. Taken(p, a, "field", <<ch>>) /\ Control(a) = Control(p) /\ a \in Parser
    BY <1>1, <1>4, <2>1, TakeTaken DEF Taken
  <2> HIDE DEF a
  <2>6. Kept(a, b) /\ b.state = "s_header_field" /\ b.flags = a.flags /\ b \in Parser
    BY <1>4, <2>5, ToFacts DEF Kept
  <2> HIDE DEF b
  <2>7. Kept(b, d) /\ d.state = b.state /\ d.flags = b.flags /\ d.h = Known(ch) /\ d \in Parser
    BY <2>6, HFacts, KnownType DEF Kept
  <2> HIDE DEF d
  <2>8. f \in SUBSET Flags
    BY DEF Flags
  <2> HIDE DEF f
  <2>9. Kept(d, z) /\ z.state = d.state /\ z.flags = d.flags \cup f /\ z.h = d.h
    BY <2>7, <2>8, FlagFacts
  <2> HIDE DEF z
  <2>10. Taken(p, z, "field", <<ch>>)
    BY <2>5, <2>6, <2>7, <2>9, TakenKept
  <2>11. z.state = "s_header_field" /\ z.h = Known(ch) /\ z.flags = p.flags \cup f
    BY <2>5, <2>6, <2>7, <2>9 DEF Control
  <2>12. /\ HeadOK("s_header_field", Known(ch), p.flags \cup f, Data(View(p), "field", <<ch>>))
         /\ LastOK("s_header_field", Data(View(p), "field", <<ch>>))
    BY <1>1, <1>2, <1>5, NameStarts DEF f
  <2>13. Sound(p, z)
    BY <1>4, <2>10, <2>11, <2>12, TakenSound
  <2>14. QED
    BY <1>3, <1>5, <2>4, <2>13 DEF FieldState, t, r, z, d, f, b, a
<1>6. CASE p.state = "s_header_field"
  <2>1. p.mark = "field"
    BY <1>6 DEF Good, Run, MarkOK, UrlStates, UrlEnds
  <2> DEFINE t == To(p, "s_header_value_discard_ws")
             a == Take(p, "field", ch)
             z == [a EXCEPT !.h = "general"]
  <2>2. /\ "s_header_value_discard_ws" \in States
        /\ "s_header_value_discard_ws" \in HeadStates \ {"s_header_field", "s_header_value"}
        /\ "s_header_value_discard_ws" \notin DoneStates
        /\ "s_header_value_discard_ws" \in NameStates
    BY DEF NameStates, States, HeadStates, DoneStates, EdgeStates
  <2>3. Kept(p, t) /\ t.state = "s_header_value_discard_ws" /\ t.flags = p.flags /\ t.h = p.h
    BY <1>1, <2>2, ToFacts
  <2> HIDE DEF t
  <2>4. Sound(p, Flush(t))
    BY <1>1, <2>2, <2>3, HeadMoved
  <2>5. Taken(p, a, "field", <<ch>>) /\ Control(a) = Control(p) /\ a \in Parser
    BY <1>1, <1>4, <2>1, TakeTaken DEF Taken
  <2>6. NameChar(p, ch) = z
    <3>1. Keep(p, ch) = a
      BY <2>1 DEF Keep, Take, Mark
    <3>2. QED
      BY <3>1 DEF NameChar
  <2> HIDE DEF a
  <2>7. Kept(a, z) /\ z.state = a.state /\ z.flags = a.flags /\ z.h = "general"
    <3>1. "general" \in HeaderStates
      BY DEF HeaderStates
    <3>2. QED
      BY <2>5, <3>1, HFacts
  <2> HIDE DEF z
  <2>8. Taken(p, z, "field", <<ch>>)
    BY <2>5, <2>7, TakenKept
  <2>9. z.state = "s_header_field" /\ z.flags = p.flags
    BY <1>6, <2>5, <2>7 DEF Control
  <2>10. /\ HeadOK("s_header_field", "general", p.flags, Data(View(p), "field", <<ch>>))
         /\ LastOK("s_header_field", Data(View(p), "field", <<ch>>))
    BY <1>1, <1>2, <1>6, NameGoesOn
  <2>11. Sound(p, z)
    BY <1>4, <2>7, <2>8, <2>9, <2>10, TakenSound
  <2>12. QED
    BY <1>3, <1>6, <2>4, <2>6, <2>11 DEF FieldState, t
<1>7. QED
  BY <1>5, <1>6 DEF FieldStates

----------------------------------------------------------------------------
(* Header values.                                                          *)

(* Data is taken and handed over at once. *)
LEMMA TakenFlushed ==
  ASSUME NEW p, Good(p), NEW k, NEW s, NEW y, Taken(p, y, k, s),
         MarkOK(y.state, "none"), LenOK(y.state, y.clen, y.flags),
         HeadOK(y.state, y.h, y.flags, Data(View(p), k, s)), LastOK(y.state, Data(View(p), k, s)),
         y.state # "s_chunk_size_start"
  PROVE  Sound(p, Flush(y))
<1>1. p \in Parser /\ y \in Parser /\ y.mark \in Kinds /\ y.mark # "none"
  BY DEF Good, Run, Taken, Kinds
<1>2. /\ Flush(y) \in Parser /\ Flush(y).mark = "none" /\ Control(Flush(y)) = Control(y)
      /\ View(y) = Flush(y).c /\ View(y) = Data(y.c, y.mark, y.seg)
  BY <1>1, FlushFacts DEF View
<1>3. View(y) = Data(View(p), k, s)
  BY DEF Taken
<1>4. View(Flush(y)) = Flush(y).c
  BY <1>2, FlushFacts
<1>5. Flush(y).seg = <<>>
  BY <1>1, TextFacts DEF Flush, Parser
<1>6. OneOK(View(y)) /\ View(y).recv = p.c.recv
  <2>1. y.c \in Context /\ y.seg \in Text /\ y.c = p.c /\ OneOK(y.c)
    BY <1>1 DEF Parser, Taken, Good, Run
  <2>2. OneOK(Data(y.c, y.mark, y.seg)) /\ Data(y.c, y.mark, y.seg).recv = y.c.recv
    BY <1>1, <2>1, DataKeeps
  <2>3. QED
    BY <1>2, <2>1, <2>2
<1>7. /\ Flush(y).state = y.state /\ Flush(y).clen = y.clen /\ Flush(y).flags = y.flags
      /\ Flush(y).h = y.h /\ Flush(y).err = y.err /\ Flush(y).stop = y.stop
      /\ Flush(y).used = y.used
  BY <1>2 DEF Control
<1>8. Live(Flush(y))
  BY <1>2, <1>3, <1>4, <1>7 DEF Live
<1>9. QED
  BY <1>2, <1>5, <1>6, <1>7, <1>8 DEF Sound, Good, Run, Taken

LEMMA TakenFailed ==
  ASSUME NEW p, Good(p), NEW k, NEW s, NEW y, Taken(p, y, k, s)
  PROVE  Sound(p, Err(y))
<1>1. /\ y \in Parser /\ y.c = p.c /\ y.stop = p.stop /\ y.used = p.used /\ y.mark # "none"
  BY DEF Taken, Kinds
<1>2. QED
  BY <1>1, Failed

LEMMA ValueData ==
  ASSUME NEW s \in HeadStates \ {"s_header_field"}, NEW h, NEW f, NEW v \in Context, NEW t \in Text,
         HeadOK(s, h, f, v)
  PROVE  LET d == Data(v, "value", t)
         IN  d.lastVal /\ d.field = v.field /\ HeadOK(s, h, f, d) /\ LastOK(s, d)
<1> DEFINE d == Data(v, "value", t)
<1>1. /\ d.head = v.head /\ d.headers = v.headers /\ d.field = v.field /\ d.lastVal = TRUE
  BY DataKeeps DEF Kinds
<1>2. s \notin LineStates
  BY DEF HeadStates, FieldStates, EdgeStates,
         LineStates, MethodStates, VersionStates, UrlStates, UrlEnds, ReasonStates, StatusStates
<1> HIDE DEF d
<1>3. HeadOK(s, h, f, d) /\ LastOK(s, d)
  BY <1>1, <1>2 DEF HeadOK, LastOK
<1>4. QED
  BY <1>1, <1>3 DEF d

(* A value, or more of it, has been taken. *)
LEMMA ValueTaken ==
  ASSUME NEW p, Good(p), p.state \in HeadStates \ {"s_header_field"},
         NEW s, NEW z, Taken(p, z, "value", s),
         z.state \in {"s_header_value", "s_header_field_start"},
         p.flags \subseteq z.flags, "TRAILING" \in z.flags => "TRAILING" \in p.flags,
         \/ "CONTENTLENGTH" \in z.flags
         \/ p.state \notin NameStates
         \/ p.h # "cl"
  PROVE  /\ z.state = "s_header_value" => Sound(p, z)
         /\ z.state = "s_header_field_start" => Sound(p, Flush(z))
<1>1. View(p) \in Context /\ s \in Text /\ HeadOK(p.state, p.h, p.flags, View(p))
  BY FlushFacts DEF Good, Run, Live, Taken
<1> DEFINE d == Data(View(p), "value", s)
<1>2. d.lastVal /\ HeadOK(p.state, p.h, p.flags, d) /\ LastOK(p.state, d)
  BY <1>1, ValueData
<1>3. z.state \in HeadStates
  BY DEF HeadStates, FieldStates
<1> HIDE DEF d
<1>4. HeadOK(z.state, z.h, z.flags, d) /\ LastOK(z.state, d)
  BY <1>2, <1>3, HeadMove
<1>5. LenOK(z.state, z.clen, z.flags) /\ z.state # "s_chunk_size_start"
  BY DEF LenOK, ChunkData, ChunkHead
<1>6. /\ z.state = "s_header_value" => MarkOK(z.state, "value")
      /\ z.state = "s_header_field_start" => MarkOK(z.state, "none")
  BY DEF MarkOK, UrlStates, UrlEnds
<1>7. QED
  BY <1>4, <1>5, <1>6, TakenSound, TakenFlushed DEF d

LEMMA LenFacts ==
  ASSUME NEW p \in Parser, NEW n \in 0..U
  PROVE  /\ Kept(p, [p EXCEPT !.clen = n]) /\ [p EXCEPT !.clen = n].state = p.state
         /\ [p EXCEPT !.clen = n].flags = p.flags /\ [p EXCEPT !.clen = n].clen = n
         /\ [p EXCEPT !.clen = n].h = p.h /\ [p EXCEPT !.clen = n].nread = p.nread
BY DEF Kept, Parser

(* The ways to go on with a value. *)
LEMMA ValueSet ==
  ASSUME NEW p, Good(p), p.state \in HeadStates \ {"s_header_field"},
         NEW s, NEW y, Taken(p, y, "value", s), y.state = "s_header_value", y.flags = p.flags,
         NEW h \in HeaderStates, NEW f \in SUBSET Flags, "TRAILING" \notin f, NEW n \in 0..U,
         \/ "CONTENTLENGTH" \in p.flags
         \/ p.state \notin NameStates
         \/ p.h # "cl"
         \/ "CONTENTLENGTH" \in f
  PROVE  /\ Sound(p, Flag([y EXCEPT !.h = h], f))
         /\ Sound(p, Flag([y EXCEPT !.clen = n, !.h = h], f))
         /\ "CONTENTLENGTH" \notin f => 
              Sound(p, y) /\ Sound(p, [y EXCEPT !.h = h]) /\ Sound(p, [y EXCEPT !.clen = n])
<1>1. y \in Parser
  BY DEF Taken
<1> DEFINE a == [y EXCEPT !.h = h]
           b == [y EXCEPT !.clen = n]
           d == [y EXCEPT !.clen = n, !.h = h]
<1>2. /\ Kept(y, a) /\ a.state = y.state /\ a.flags = y.flags
      /\ Kept(y, b) /\ b.state = y.state /\ b.flags = y.flags
  BY <1>1, HFacts, LenFacts
<1>3. Kept(y, d) /\ d.state = y.state /\ d.flags = y.flags
  BY <1>1 DEF Kept, Parser
<1> HIDE DEF a, b, d
<1>4. /\ Taken(p, a, "value", s) /\ Taken(p, b, "value", s) /\ Taken(p, d, "value", s)
      /\ a \in Parser /\ d \in Parser
  BY <1>2, <1>3, TakenKept DEF Taken
<1>5. "CONTENTLENGTH" \notin f => Sound(p, y) /\ Sound(p, a) /\ Sound(p, b)
  BY <1>2, <1>4, ValueTaken
<1>6. /\ Kept(a, Flag(a, f)) /\ Flag(a, f).state = a.state /\ Flag(a, f).flags = a.flags \cup f
      /\ Kept(d, Flag(d, f)) /\ Flag(d, f).state = d.state /\ Flag(d, f).flags = d.flags \cup f
  BY <1>4, FlagFacts
<1>7. Taken(p, Flag(a, f), "value", s) /\ Taken(p, Flag(d, f), "value", s)
  BY <1>4, <1>6, TakenKept
<1>8. Sound(p, Flag(a, f)) /\ Sound(p, Flag(d, f))
  BY <1>2, <1>3, <1>6, <1>7, ValueTaken
<1>9. QED
  BY <1>5, <1>8 DEF a, b, d

LEMMA WordTypes ==
  /\ \A h, ch : Word(h, ch) \in HeaderStates
  /\ \A h : TokenFlag(h) \in SUBSET Flags /\ "TRAILING" \notin TokenFlag(h)
            /\ "CONTENTLENGTH" \notin TokenFlag(h)
  /\ \A ch \in Digits : Value(ch) \in 0..2
<1>1. \A h, ch : Word(h, ch) \in HeaderStates
  BY DEF Word, HeaderStates
<1>2. \A h : TokenFlag(h) \in SUBSET Flags /\ "TRAILING" \notin TokenFlag(h)
            /\ "CONTENTLENGTH" \notin TokenFlag(h)
  BY DEF TokenFlag, Flags
<1>3. \A ch \in Digits : Value(ch) \in 0..2
  BY DEF Digits, Value
<1>4. QED
  BY <1>1, <1>2, <1>3

LEMMA ValueStartSound ==
  ASSUME NEW p, Good(p), p.state \in {"s_header_value_start", "s_header_value_discard_ws"},
         NEW ch \in STRING
  PROVE  Sound(p, ValueStart(p, ch))
<1>1. p \in Parser /\ p.mark = "none"
  BY Unmarked DEF UrlStates, UrlEnds
<1>2. p.state \in HeadStates \ {"s_header_field"} /\ "s_header_value" \in States
  BY DEF HeadStates, EdgeStates, States
<1> DEFINE a == Take(p, "value", ch)
           y == To(a, "s_header_value")
<1>3. Taken(p, a, "value", <<ch>>) /\ Control(a) = Control(p) /\ a \in Parser
  BY <1>1, TakeTaken DEF Taken, Kinds
<1> HIDE DEF a
<1>4. Kept(a, y) /\ y.state = "s_header_value" /\ y.flags = a.flags
  BY <1>2, <1>3, ToFacts
<1> HIDE DEF y
<1>5. Taken(p, y, "value", <<ch>>) /\ y.flags = p.flags
  BY <1>3, <1>4, TakenKept DEF Control
<1>6. /\ {"UPGRADE"} \in SUBSET Flags /\ {"CONTENTLENGTH"} \in SUBSET Flags /\ {} \in SUBSET Flags
      /\ "general" \in HeaderStates /\ "cl_num" \in HeaderStates /\ Word(p.h, ch) \in HeaderStates
      /\ 0 \in 0..U /\ (ch \in Digits => Value(ch) \in 0..U)
      /\ "TRAILING" \notin {"UPGRADE"} /\ "TRAILING" \notin {"CONTENTLENGTH"}
      /\ "CONTENTLENGTH" \notin {"UPGRADE"}
  BY WordTypes, HttpParserAssumption DEF Flags, HeaderStates
<1>7. CASE p.h = "cl"
  <2>1. Sound(p, Err(y))
    BY <1>5, TakenFailed
  <2>2. ch \in Digits =>
          Sound(p, Flag([y EXCEPT !.clen = Value(ch), !.h = "cl_num"], {"CONTENTLENGTH"}))
    BY <1>2, <1>4, <1>5, <1>6, ValueSet
  <2>3. ValueStart(p, ch) =
          IF ch \notin Digits \/ "CONTENTLENGTH" \in p.flags THEN Err(y)
          ELSE Flag([y EXCEPT !.clen = Value(ch), !.h = "cl_num"], {"CONTENTLENGTH"})
    BY <1>7 DEF ValueStart, y, a
  <2>4. QED
    BY <2>1, <2>2, <2>3
<1>8. CASE p.h # "cl"
  <2>1. Sound(p, Flag([y EXCEPT !.h = "general"], {"UPGRADE"}))
    BY <1>2, <1>4, <1>5, <1>6, <1>8, ValueSet
  <2>2. /\ Sound(p, y) /\ Sound(p, [y EXCEPT !.h = "general"])
        /\ Sound(p, [y EXCEPT !.h = Word(p.h, ch)])
    BY <1>2, <1>4, <1>5, <1>6, <1>8, ValueSet
  <2>3. ValueStart(p, ch) \in
          {Flag([y EXCEPT !.h = "general"], {"UPGRADE"}), y, [y EXCEPT !.h = "general"],
           [y EXCEPT !.h = Word(p.h, ch)]}
    BY <1>8 DEF ValueStart, y, a
  <2>4. QED
    BY <2>1, <2>2, <2>3
<1>9. QED
  BY <1>7, <1>8

(* A length stays one. *)
LEMMA GrowLen ==
  ASSUME NEW n \in 0..U, NEW b \in {10, 16}, NEW v \in 0..2
  PROVE  /\ (n * b + v) % (U + 1) \in 0..U
         /\ ~((U - b) \div b < n) => (n * b + v) % (U + 1) # U
<1>1. U \in Nat /\ U >= 16 /\ n \in Nat /\ v \in Nat /\ b \in Nat
  BY HttpParserAssumption
<1>2. n * b + v \in Nat
  BY <1>1
<1>3. (n * b + v) % (U + 1) \in 0..U
  BY <1>1, <1>2
<1>4. ASSUME ~((U - b) \div b < n)
      PROVE  (n * b + v) % (U + 1) # U
  <2>1. CASE b = 10
    <3>1. n <= (U - 10) \div 10
      BY <1>1, <1>4, <2>1
    <3>2. 10 * ((U - 10) \div 10) <= U - 10
      BY <1>1
    <3>3. (U - 10) \div 10 \in Int
      BY <1>1
    <3>4. n * 10 + v < U
      BY <1>1, <3>1, <3>2, <3>3
    <3>5. (n * 10 + v) % (U + 1) = n * 10 + v
      BY <1>1, <3>4
    <3>6. QED
      BY <1>1, <2>1, <3>4, <3>5
  <2>2. CASE b = 16
    <3>1. n <= (U - 16) \div 16
      BY <1>1, <1>4, <2>2
    <3>2. 16 * ((U - 16) \div 16) <= U - 16
      BY <1>1
    <3>3. (U - 16) \div 16 \in Int
      BY <1>1
    <3>4. n * 16 + v < U
      BY <1>1, <3>1, <3>2, <3>3
    <3>5. (n * 16 + v) % (U + 1) = n * 16 + v
      BY <1>1, <3>4
    <3>6. QED
      BY <1>1, <2>2, <3>4, <3>5
  <2>3. QED
    BY <2>1, <2>2
<1>5. QED
  BY <1>3, <1>4

LEMMA ValueCharSound ==
  ASSUME NEW p, Good(p), p.state = "s_header_value", NEW ch \in STRING
  PROVE  Sound(p, ValueChar(p, ch))
<1>1. /\ p \in Parser /\ p.mark = "value" /\ View(p).lastVal
      /\ p.clen \in 0..U
  BY DEF Good, Run, MarkOK, UrlStates, UrlEnds, Live, LastOK, Parser
<1>2. /\ p.state \in HeadStates \ {"s_header_field"} /\ p.state \notin NameStates
      /\ "s_header_almost_done" \in HeadStates \ {"s_header_field", "s_header_value"}
      /\ "s_header_almost_done" \in States /\ "s_header_almost_done" \notin NameStates
  BY DEF HeadStates, EdgeStates, States, NameStates
<1>3. Sound(p, Err(p))
  BY FailedHere
<1> DEFINE t == To(p, "s_header_almost_done")
           r == Redo(p, "s_header_almost_done")
<1>4. /\ Kept(p, t) /\ t.state = "s_header_almost_done" /\ t.flags = p.flags
      /\ Kept(p, r) /\ r.state = "s_header_almost_done" /\ r.flags = p.flags
  BY <1>1, <1>2, ToFacts, RedoFacts
<1> HIDE DEF t, r
<1>5. Sound(p, Flush(t)) /\ Sound(p, Flush(r))
  BY <1>1, <1>2, <1>4, HeadMoved
<1> DEFINE y == Take(p, "value", ch)
<1>6. Taken(p, y, "value", <<ch>>) /\ Control(y) = Control(p)
  BY <1>1, TakeTaken DEF Taken, Kinds
<1>7. Keep(p, ch) = y
  BY <1>1 DEF Keep, Take, Mark
<1> HIDE DEF y
<1>8. y.state = "s_header_value" /\ y.flags = p.flags /\ y.clen = p.clen
  BY <1>6 DEF Control
<1>9. Sound(p, Err(y))
  BY <1>6, TakenFailed
<1>10. {} \in SUBSET Flags /\ 0 \in 0..U /\ "general" \in HeaderStates
  BY HttpParserAssumption DEF HeaderStates
<1>11. Sound(p, y) /\ \A h \in HeaderStates : Sound(p, [y EXCEPT !.h = h])
  BY <1>2, <1>6, <1>8, <1>10, ValueSet
<1>12. \A h \in HeaderStates : Sound(p, Flag([y EXCEPT !.h = h], TokenFlag(p.h)))
  BY <1>2, <1>6, <1>8, <1>10, WordTypes, ValueSet
<1>13. ch \in Digits => Sound(p, Grow(y, 10, Value(ch)))
  <2>1. ASSUME ch \in Digits PROVE (p.clen * 10 + Value(ch)) % (U + 1) \in 0..U
    BY <1>1, <2>1, WordTypes, GrowLen
  <2>2. \A n \in 0..U : Sound(p, [y EXCEPT !.clen = n])
    BY <1>2, <1>6, <1>8, <1>10, ValueSet
  <2>3. ASSUME ch \in Digits
        PROVE  Sound(p, [y EXCEPT !.clen = (p.clen * 10 + Value(ch)) % (U + 1)])
    BY <2>1, <2>2, <2>3
  <2>4. Grow(y, 10, Value(ch)) \in {Err(y), [y EXCEPT !.clen = (p.clen * 10 + Value(ch)) % (U + 1)]}
    BY <1>8 DEF Grow
  <2>5. QED
    BY <1>9, <2>3, <2>4
<1> DEFINE start == IF p.h = "te_start" THEN "te" ELSE "cn"
           Hs == {"general", "cl_ws", "te_start", "cn_start", "te_token", "cn_token", Word(start, ch)}
<1>14. Hs \subseteq HeaderStates
  BY WordTypes DEF HeaderStates
<1>15. \/ ValueChar(p, ch) \in {Flush(t), Flush(r), Err(p), Err(y), y}
       \/ \E h \in Hs : ValueChar(p, ch) = [y EXCEPT !.h = h]
       \/ ValueChar(p, ch) = Flag([y EXCEPT !.h = "cn_start"], TokenFlag(p.h))
       \/ ch \in Digits /\ ValueChar(p, ch) = Grow(y, 10, Value(ch))
  BY <1>7 DEF ValueChar, t, r
<1>16. QED
  <2> HIDE DEF Hs
  <2>1. CASE ValueChar(p, ch) \in {Flush(t), Flush(r), Err(p), Err(y), y}
    BY <1>3, <1>5, <1>9, <1>11, <2>1
  <2>2. CASE \E h \in Hs : ValueChar(p, ch) = [y EXCEPT !.h = h]
    BY <1>11, <1>14, <2>2
  <2>3. CASE ValueChar(p, ch) = Flag([y EXCEPT !.h = "cn_start"], TokenFlag(p.h))
    BY <1>12, <2>3 DEF HeaderStates
  <2>4. CASE ch \in Digits /\ ValueChar(p, ch) = Grow(y, 10, Value(ch))
    BY <1>13, <2>4
  <2>5. QED
    BY <1>15, <2>1, <2>2, <2>3, <2>4

LEMMA ValueEdgeSound ==
  ASSUME NEW p, Good(p), p.state \in EdgeStates, NEW ch \in STRING
  PROVE  Sound(p, ValueEdge(p, ch))
<1>1. p \in Parser /\ p.mark = "none" /\ View(p) = p.c /\ Kept(p, p)
  BY Unmarked DEF UrlStates, UrlEnds, EdgeStates, Kept
<1>2. /\ p.state \in HeadStates \ {"s_header_field", "s_header_value"}
      /\ "s_header_field_start" \in HeadStates /\ "s_header_value_start" \in HeadStates
      /\ EdgeStates \subseteq HeadStates /\ HeadStates \subseteq States
      /\ {"s_header_field", "s_header_value"} \cap EdgeStates = {}
  BY DEF HeadStates, EdgeStates, FieldStates, States
<1>3. Sound(p, Err(p))
  BY FailedHere
<1> DEFINE f == TokenFlag(p.h)
           g == Flag(p, f)
<1>4. f \in SUBSET Flags /\ "TRAILING" \notin f
  BY WordTypes
<1> HIDE DEF f
<1>5. Kept(p, g) /\ g.state = p.state /\ g.flags = p.flags \cup f /\ g \in Parser
  BY <1>1, <1>4, FlagFacts DEF Kept
<1> HIDE DEF g
<1>6. ASSUME NEW s \in EdgeStates, s \notin DoneStates \/ p.state \in DoneStates,
             s \in NameStates \/ p.state \notin NameStates
      PROVE  Sound(p, To(p, s))
  <2> DEFINE t == To(p, s)
  <2>1. Kept(p, t) /\ t.state = s /\ t.flags = p.flags /\ t.h = p.h
    BY <1>1, <1>2, ToFacts
  <2> HIDE DEF t
  <2>2. Sound(p, t)
    BY <1>1, <1>2, <1>6, <2>1, HeadMoved
  <2>3. QED
    BY <2>2 DEF t
<1> USE DEF DoneStates, NameStates
<1>7. CASE p.state = "s_header_value_discard_ws"
  <2>1. Sound(p, p)
    BY <1>1, <1>2, <1>7, HeadMoved
  <2>2. /\ Sound(p, To(p, "s_header_value_discard_ws_almost_done"))
        /\ Sound(p, To(p, "s_header_value_discard_lws"))
    BY <1>6 DEF EdgeStates
  <2>3. Sound(p, ValueStart(p, ch))
    BY <1>7, ValueStartSound
  <2>4. QED
    BY <1>7, <2>1, <2>2, <2>3 DEF ValueEdge
<1>8. CASE p.state = "s_header_value_discard_ws_almost_done"
  <2>1. Sound(p, To(p, "s_header_value_discard_lws"))
    BY <1>6 DEF EdgeStates
  <2>2. QED
    BY <1>3, <1>8, <2>1 DEF ValueEdge, Expect
<1>9. CASE p.state = "s_header_value_discard_lws"
  <2>1. Sound(p, To(p, "s_header_value_discard_ws"))
    BY <1>6 DEF EdgeStates
  <2> DEFINE y == Mark(g, "value")
             z == Redo(y, "s_header_field_start")
  <2>2. /\ y \in Parser /\ Control(y) = Control(g) /\ y.mark = "value" /\ y.c = g.c
        /\ View(y) = Data(g.c, "value", <<>>)
    BY <1>1, <1>5, MarkFacts DEF Kinds, Kept
  <2> HIDE DEF y
  <2>3. Taken(p, y, "value", <<>>)
    BY <1>1, <1>5, <2>2, TextFacts DEF Taken, Control, Kinds, Kept
  <2>4. Kept(y, z) /\ z.state = "s_header_field_start" /\ z.flags = y.flags
    BY <1>2, <2>2, RedoFacts
  <2> HIDE DEF z
  <2>5. Taken(p, z, "value", <<>>) /\ z.flags = p.flags \cup f
    BY <1>5, <2>2, <2>3, <2>4, TakenKept DEF Control
  <2>6. p.h # "cl" => Sound(p, Flush(z))
    BY <1>2, <1>4, <2>4, <2>5, ValueTaken
  <2>7. QED
    BY <1>3, <1>9, <2>1, <2>6 DEF ValueEdge, z, y, g, f
<1>10. CASE p.state = "s_header_almost_done"
  <2>1. Sound(p, To(p, "s_header_value_lws"))
    BY <1>6, <1>10 DEF EdgeStates
  <2>2. QED
    BY <1>3, <1>10, <2>1 DEF ValueEdge, Expect
<1>11. CASE p.state = "s_header_value_lws"
  <2> DEFINE h == IF p.h = "cl_num" THEN "cl_ws" ELSE p.h
             y == [p EXCEPT !.h = h]
             z == Redo(y, "s_header_value_start")
             r == Redo(g, "s_header_field_start")
  <2>1. h \in HeaderStates
    BY <1>1 DEF Parser, HeaderStates
  <2> HIDE DEF h
  <2>2. Kept(p, y) /\ y.flags = p.flags /\ y \in Parser
    BY <1>1, <2>1, HFacts DEF Kept
  <2> HIDE DEF y
  <2>3. Kept(y, z) /\ z.state = "s_header_value_start" /\ z.flags = y.flags
    BY <1>2, <2>2, RedoFacts
  <2> HIDE DEF z
  <2>4. Sound(p, z)
    BY <1>1, <1>2, <1>11, <2>2, <2>3, KeptTrans, HeadMoved
  <2>5. Kept(g, r) /\ r.state = "s_header_field_start" /\ r.flags = g.flags
    BY <1>2, <1>5, RedoFacts
  <2> HIDE DEF r
  <2>6. Sound(p, r)
    BY <1>1, <1>2, <1>4, <1>5, <1>11, <2>5, KeptTrans, HeadMoved
  <2>7. ValueEdge(p, ch) = IF ch = "sp" THEN z ELSE r
    BY <1>11 DEF ValueEdge, z, r, y, g, h, f
  <2>8. QED
    BY <2>4, <2>6, <2>7
<1>12. QED
  BY <1>7, <1>8, <1>9, <1>10, <1>11 DEF EdgeStates

----------------------------------------------------------------------------
(* The end of the headers, and the body.                                   *)

LEMMA AfterHead ==
  ASSUME NEW v, v.head # 0
  PROVE  \A s, h, f : HeadOK(s, h, f, v)
BY DEF HeadOK

LEMMA TailHead ==
  ASSUME NEW p, Good(p), p.state \in TailStates
  PROVE  View(p).head # 0
<1>1. HeadOK(p.state, p.h, p.flags, View(p))
  BY DEF Good, Run, Live
<1>2. QED
  BY <1>1 DEF HeadOK

(* The states behind the headers, and the first ones of the next message. *)
Behind == TailStates \cup {"s_header_field_start", "s_dead", "s_start_req", "s_start_res"}

LEMMA BehindFacts ==
  ASSUME NEW s \in Behind
  PROVE  s \in States /\ MarkOK(s, "none") /\ \A v : LastOK(s, v)
<1> USE DEF Behind, TailStates, BodyStates, ChunkData, ChunkHead
<1>1. s \in States
  BY DEF States, HeadStates, FieldStates, LineStates, MethodStates, StatusStates
<1>2. MarkOK(s, "none")
  BY DEF MarkOK, UrlStates, UrlEnds
<1>3. \A v : LastOK(s, v)
  BY DEF LastOK
<1>4. QED
  BY <1>1, <1>2, <1>3

LEMMA TailMoved ==
  ASSUME NEW p, Good(p), View(p).head # 0, NEW z, Kept(p, z), z.state \in Behind,
         LenOK(z.state, z.clen, z.flags)
  PROVE  /\ p.mark = "none" /\ (z.state = "s_chunk_size_start" => z.nread = 0) => Sound(p, z)
         /\ z.state # "s_chunk_size_start" => Sound(p, Flush(z))
<1>1. MarkOK(z.state, "none") /\ LastOK(z.state, View(p))
  BY BehindFacts
<1>2. HeadOK(z.state, z.h, z.flags, View(p))
  BY AfterHead
<1>3. z.state # "s_chunk_size_start" => Sound(p, Flush(z))
  BY <1>1, <1>2, Flushed
<1>4. z.mark = p.mark
  BY DEF Kept
<1>5. p.mark = "none" /\ (z.state = "s_chunk_size_start" => z.nread = 0) => Sound(p, z)
  BY <1>1, <1>2, <1>4, Moved
<1>6. QED
  BY <1>3, <1>5

LEMMA TailTo ==
  ASSUME NEW p, Good(p), View(p).head # 0, p.mark = "none", NEW y, Kept(p, y),
         NEW s \in Behind, LenOK(s, y.clen, y.flags), s = "s_chunk_size_start" => y.nread = 0
  PROVE  Sound(p, To(y, s)) /\ Sound(p, Redo(y, s))
<1>1. s \in States /\ y \in Parser
  BY BehindFacts DEF Kept
<1> DEFINE t == To(y, s)
           r == Redo(y, s)
<1>2. /\ Kept(y, t) /\ t.state = s /\ t.flags = y.flags /\ t.clen = y.clen /\ t.nread = y.nread
      /\ Kept(y, r) /\ r.state = s /\ r.flags = y.flags /\ r.clen = y.clen /\ r.nread = y.nread
  BY <1>1, ToFacts, RedoFacts
<1> HIDE DEF t, r
<1>3. Kept(p, t) /\ Kept(p, r)
  BY <1>2, KeptTrans
<1>4. Sound(p, t) /\ Sound(p, r)
  BY <1>2, <1>3, TailMoved
<1>5. QED
  BY <1>4 DEF t, r

(* The headers are complete: none of them but the two lengths is in the way. *)
LEMMA CompleteHead ==
  ASSUME NEW c \in Context, OneOK(c), NEW h, NEW f,
         HeadOK("s_headers_almost_done", h, f, c), ~({"TE", "CONTENTLENGTH"} \subseteq f)
  PROVE  LET d == on_headers_complete(c)
         IN  d \in Context /\ OneOK(d) /\ d.head # 0 /\ d.recv = c.recv
<1> DEFINE d == on_headers_complete(c)
           e == <<c.field, c.val>>
<1>1. c.headers \in Seq(Text \X Text) /\ e \in Text \X Text /\ c.head \in Nat
  BY DEF Context
<1>2. Len(c.headers) \in Nat /\ Append(c.headers, e) \in Seq(Text \X Text)
  BY <1>1, AppendProperties, LenProperties
<1>3. /\ d.headers = Append(c.headers, e) /\ d.recv = c.recv
      /\ d.head = IF c.head = 0 THEN Len(c.headers) + 1 ELSE c.head
  BY DEF on_headers_complete, Context
<1>4. d \in Context
  <2> DEFINE hs == Append(c.headers, e)
             n  == IF c.head = 0 THEN Len(c.headers) + 1 ELSE c.head
  <2>1. d = [c EXCEPT !.headers = hs, !.head = n]
    BY DEF on_headers_complete
  <2>2. hs \in Seq(Text \X Text) /\ n \in Nat
    BY <1>1, <1>2
  <2> HIDE DEF hs, n, d
  <2>3. QED
    BY <2>1, <2>2 DEF Context
<1> HIDE DEF d
<1>5. /\ Len(d.headers) = Len(c.headers) + 1
      /\ \A k \in 1..Len(c.headers) : d.headers[k] = c.headers[k]
      /\ d.headers[Len(c.headers) + 1] = e
  BY <1>1, <1>3, AppendProperties
<1>6. CASE c.head # 0
  <2>1. d.head = c.head
    BY <1>3, <1>6
  <2>2. \A k \in 1..c.head : d.headers[k] = c.headers[k]
    BY <1>1, <1>2, <1>5 DEF OneOK
  <2>3. {d.headers[k] : k \in 1..d.head} = {c.headers[k] : k \in 1..c.head}
    BY <2>1, <2>2
  <2>4. HeadNames(d) = HeadNames(c)
    BY <2>3 DEF HeadNames
  <2>5. d.head <= Len(d.headers)
    BY <1>1, <1>2, <1>5, <2>1 DEF OneOK
  <2>6. QED
    BY <1>3, <1>4, <1>6, <2>1, <2>4, <2>5 DEF OneOK, d
<1>7. CASE c.head = 0
  <2>1. d.head = Len(c.headers) + 1
    BY <1>3, <1>7
  <2>2. /\ \A k \in 1..Len(c.headers) : Listed(c.headers[k][1], f)
        /\ Listed(c.field, f)
    BY <1>7 DEF HeadOK, Listed, NameStates
  <2>3. ASSUME NEW k \in 1..d.head PROVE Listed(d.headers[k][1], f)
    <3>1. CASE k \in 1..Len(c.headers)
      BY <1>5, <2>2, <3>1
    <3>2. CASE k = Len(c.headers) + 1
      BY <1>5, <2>2, <3>2
    <3>3. QED
      BY <1>2, <2>1, <3>1, <3>2
  <2>4. \A n \in HeadNames(d) : Listed(n, f)
    BY <2>3 DEF HeadNames
  <2>5. ~({CL, TE} \subseteq HeadNames(d))
    BY <2>4 DEF Listed
  <2>6. d.head <= Len(d.headers) /\ d.head # 0
    BY <1>2, <1>5, <2>1
  <2>7. QED
    BY <1>3, <1>4, <2>5, <2>6 DEF OneOK, d
<1>8. QED
  BY <1>6, <1>7

LEMMA AlmostDoneSound ==
  ASSUME NEW p, Good(p), p.state = "s_headers_almost_done", NEW ch \in STRING
  PROVE  Sound(p, HeadersAlmostDone(p, ch))
<1>1. p \in Parser /\ p.mark = "none" /\ View(p) = p.c /\ Kept(p, p)
  BY Unmarked DEF UrlStates, UrlEnds, Kept
<1>2. Sound(p, Err(p))
  BY FailedHere
<1>3. HeadOK(p.state, p.h, p.flags, View(p))
  BY DEF Good, Run, Live
<1>4. "TRAILING" \in p.flags => Sound(p, Redo(p, "s_message_done"))
  <2>1. "TRAILING" \in p.flags => View(p).head # 0
    BY <1>3 DEF HeadOK
  <2>2. "s_message_done" \in Behind /\ \A n, f : LenOK("s_message_done", n, f)
    BY DEF Behind, TailStates, BodyStates, LenOK, ChunkData, ChunkHead
  <2>3. QED
    BY <1>1, <2>1, <2>2, TailTo
<1> DEFINE u == IF {"UPGRADE", "CONN_UPGRADE"} \subseteq p.flags
                THEN p.type = "req" \/ p.code = "101"
                ELSE p.method = "CONNECT"
           d == on_headers_complete(p.c)
           z == Redo([p EXCEPT !.upgrade = u, !.c = d], "s_headers_done")
<1>5. ~TwoLengths(p) => Sound(p, z)
  <2>1. SUFFICES ASSUME ~TwoLengths(p) PROVE Sound(p, z)
    OBVIOUS
  <2>2. p.c \in Context /\ OneOK(p.c)
    BY <1>1 DEF Parser, Good, Run
  <2>3. d \in Context /\ OneOK(d) /\ d.head # 0 /\ d.recv = p.c.recv
    BY <1>1, <1>3, <2>1, <2>2, CompleteHead DEF TwoLengths
  <2> HIDE DEF d
  <2>4. u \in BOOLEAN
    OBVIOUS
  <2> HIDE DEF u
  <2>5. "s_headers_done" \in Behind /\ \A n, f : LenOK("s_headers_done", n, f)
    BY DEF Behind, TailStates, BodyStates, LenOK, ChunkData, ChunkHead
  <2>6. /\ "s_headers_done" \in States /\ MarkOK("s_headers_done", "none")
        /\ LastOK("s_headers_done", d) /\ HeadOK("s_headers_done", p.h, p.flags, d)
    BY <2>3, <2>5, BehindFacts, AfterHead
  <2>7. /\ z \in Parser /\ z.state = "s_headers_done" /\ z.c = d /\ z.mark = "none"
        /\ z.seg = p.seg /\ z.err = p.err /\ z.used = p.used /\ z.stop = p.stop /\ z.h = p.h
        /\ z.flags = p.flags
    BY <1>1, <2>3, <2>4, <2>6 DEF Redo, Parser
  <2> HIDE DEF z
  <2>8. View(z) = d
    BY <2>7, FlushFacts
  <2>9. Live(z)
    BY <2>5, <2>6, <2>7, <2>8 DEF Live
  <2>10. QED
    BY <1>1, <2>3, <2>6, <2>7, <2>9 DEF Sound, Run, Good
<1>6. QED
  BY <1>2, <1>4, <1>5 DEF HeadersAlmostDone

(* The parser at the end of a message: a change y of p. *)
Ended(p, y) ==
  /\ y \in Parser /\ y.c = p.c /\ y.mark = "none" /\ y.seg = <<>> /\ y.err = p.err
  /\ y.used = p.used

LEMMA Completed ==
  ASSUME NEW p, Good(p), p.mark = "none", View(p).head # 0, NEW y, Ended(p, y)
  PROVE  Sound(p, Complete(y)) /\ Sound(p, [Complete(y) EXCEPT !.stop = TRUE])
<1> DEFINE s == IF ~KeepAlive(y) THEN "s_dead" ELSE NewParser(y.type).state
           d == [p.c EXCEPT !.recv = FALSE]
           z == Complete(y)
           t == [z EXCEPT !.stop = TRUE]
<1>1. p \in Parser /\ View(p) = p.c /\ p.c \in Context /\ OneOK(p.c)
  BY FlushFacts DEF Good, Run, Parser
<1>2. /\ d \in Context /\ d.recv = FALSE /\ d.head = p.c.head /\ d.headers = p.c.headers
  BY <1>1 DEF Context
<1>3. s \in {"s_dead", "s_start_req", "s_start_res"}
  BY DEF NewParser
<1>4. z = [y EXCEPT !.state = s, !.c = d]
  BY DEF Complete, NewMessage, on_message_complete, To, Ended, Parser
<1> HIDE DEF s, d
<1>5. OneOK(d)
  BY <1>1, <1>2 DEF OneOK, HeadNames
<1>6. s \in Behind /\ \A n, f : LenOK(s, n, f)
  BY <1>3 DEF Behind, LenOK, ChunkData, ChunkHead
<1>7. s \in States /\ MarkOK(s, "none") /\ LastOK(s, d)
  BY <1>6, BehindFacts
<1>8. \A h, f : HeadOK(s, h, f, d)
  BY <1>1, <1>2, AfterHead
<1>9. /\ z \in Parser /\ z.state = s /\ z.c = d /\ z.mark = "none" /\ z.seg = <<>>
      /\ z.err = p.err /\ z.used = p.used
  <2>1. y \in Parser /\ y.mark = "none" /\ y.seg = <<>> /\ y.err = p.err /\ y.used = p.used
    BY DEF Ended
  <2> HIDE DEF Context, z
  <2>2. QED
    BY <1>2, <1>4, <1>7, <2>1 DEF Parser
<1> HIDE DEF z
<1>10. /\ t \in Parser /\ t.state = s /\ t.c = d /\ t.mark = "none" /\ t.seg = <<>>
       /\ t.err = p.err /\ t.used = p.used
  BY <1>9 DEF Parser
<1> HIDE DEF t
<1>11. View(z) = d /\ View(t) = d
  BY <1>9, <1>10, FlushFacts
<1>12. Live(z) /\ Live(t)
  BY <1>6, <1>7, <1>8, <1>9, <1>10, <1>11 DEF Live
<1>13. Sound(p, z)
  BY <1>2, <1>3, <1>5, <1>7, <1>9, <1>12 DEF Sound, Run
<1>14. Sound(p, t)
  BY <1>2, <1>3, <1>5, <1>7, <1>10, <1>12 DEF Sound, Run
<1>15. QED
  BY <1>13, <1>14 DEF z, t

LEMMA HeadersDoneSound ==
  ASSUME NEW p, Good(p), p.state = "s_headers_done"
  PROVE  Sound(p, HeadersDone(p))
<1>1. p \in Parser /\ p.mark = "none" /\ View(p) = p.c
  BY Unmarked DEF UrlStates, UrlEnds
<1>2. View(p).head # 0
  BY TailHead DEF TailStates
<1> DEFINE y == [p EXCEPT !.nread = 0]
<1>3. /\ Kept(p, y) /\ y.nread = 0 /\ y.clen = p.clen /\ y.flags = p.flags
  BY <1>1 DEF Kept, Parser
<1>4. Ended(p, y)
  BY <1>1, <1>3 DEF Ended, Kept, Good, Run
<1> HIDE DEF y
<1>5. Sound(p, Complete(y)) /\ Sound(p, [Complete(y) EXCEPT !.stop = TRUE])
  BY <1>1, <1>2, <1>4, Completed
<1>6. Sound(p, Err(y))
  BY <1>3, Failed DEF Kept, Good, Run
<1>7. /\ {"s_chunk_size_start", "s_body_identity", "s_body_identity_eof"} \subseteq Behind
      /\ "CHUNKED" \in y.flags => LenOK("s_chunk_size_start", y.clen, y.flags)
      /\ y.clen \notin {0, U} => LenOK("s_body_identity", y.clen, y.flags)
      /\ LenOK("s_body_identity_eof", y.clen, y.flags)
  BY DEF Behind, TailStates, BodyStates, ChunkHead, ChunkData, LenOK
<1>8. /\ "CHUNKED" \in y.flags => Sound(p, To(y, "s_chunk_size_start"))
      /\ y.clen \notin {0, U} => Sound(p, To(y, "s_body_identity"))
      /\ Sound(p, To(y, "s_body_identity_eof"))
  BY <1>1, <1>2, <1>3, <1>7, TailTo
<1>9. Sound(p, AfterHeaders(y))
  BY <1>5, <1>6, <1>8 DEF AfterHeaders
<1>10. QED
  BY <1>9 DEF HeadersDone, y

(* A byte of the body, with the length that is left. *)
LEMMA BodyTaken ==
  ASSUME NEW p, Good(p), p.state \in {"s_body_identity", "s_body_identity_eof", "s_chunk_data"},
         NEW ch \in STRING, NEW n \in 0..U, NEW y, 
         y = Take(p, "body", ch) \/ y = [Take(p, "body", ch) EXCEPT !.clen = n],
         LenOK(p.state, y.clen, p.flags)
  PROVE  Sound(p, y)
<1>1. p \in Parser /\ p.mark \in {"none", "body"} /\ MarkOK(p.state, "body") /\ View(p).head # 0
  <2>1. p \in Parser /\ MarkOK(p.state, p.mark)
    BY DEF Good, Run
  <2>2. p.mark \in {"none", "body"} /\ MarkOK(p.state, "body")
    BY <2>1 DEF MarkOK, UrlStates, UrlEnds
  <2>3. View(p).head # 0
    BY TailHead DEF TailStates, BodyStates, ChunkData
  <2>4. QED
    BY <2>1, <2>2, <2>3
<1> DEFINE a == Take(p, "body", ch)
<1>2. Taken(p, a, "body", <<ch>>) /\ Control(a) = Control(p) /\ a \in Parser
  BY <1>1, TakeTaken DEF Taken, Kinds
<1>3. y = a \/ y = [a EXCEPT !.clen = n]
  OBVIOUS
<1> HIDE DEF a
<1> DEFINE b == [a EXCEPT !.clen = n]
<1>a. Kept(a, b) /\ b.state = a.state /\ b.flags = a.flags
  BY <1>2, LenFacts
<1>b. Kept(a, a)
  BY <1>2 DEF Kept
<1> HIDE DEF b
<1>4. Kept(a, y) /\ y.state = a.state /\ y.flags = a.flags
  BY <1>3, <1>a, <1>b DEF b
<1>5. Taken(p, y, "body", <<ch>>) /\ y.state = p.state /\ y.flags = p.flags
  BY <1>2, <1>4, TakenKept DEF Control
<1>6. HeadOK(y.state, y.h, y.flags, View(p)) /\ LastOK(y.state, View(p))
  BY <1>1, <1>5, AfterHead DEF LastOK
<1>7. QED
  BY <1>1, <1>5, <1>6, TextTaken

LEMMA BodySound ==
  ASSUME NEW p, Good(p), p.state \in BodyStates, NEW ch \in STRING
  PROVE  Sound(p, BodyState(p, ch))
<1>1. p \in Parser /\ View(p).head # 0 /\ p.clen \in 0..U /\ LenOK(p.state, p.clen, p.flags)
      /\ MarkOK(p.state, p.mark)
  BY TailHead DEF TailStates, Good, Run, Parser, Live
<1>2. CASE p.state = "s_body_identity"
  <2>0. p.clen \notin {0, U} /\ U \in Nat
    BY <1>1, <1>2, HttpParserAssumption DEF LenOK
  <2>1. CASE p.clen = 1
    <3> DEFINE a == Take(p, "body", ch)
               b == [a EXCEPT !.clen = 0]
               z == Redo(b, "s_message_done")
    <3>1. p.mark \in {"none", "body"} /\ "s_message_done" \in Behind
          /\ \A n, f : LenOK("s_message_done", n, f)
      BY <1>1, <1>2 DEF MarkOK, UrlStates, UrlEnds, Behind, TailStates, BodyStates, LenOK,
                        ChunkData, ChunkHead
    <3>2. /\ "s_message_done" \in States /\ MarkOK("s_message_done", "none")
          /\ \A v : LastOK("s_message_done", v)
      BY <3>1, BehindFacts
    <3>3. Taken(p, a, "body", <<ch>>) /\ a \in Parser
      BY <1>1, <3>1, TakeTaken DEF Taken, Kinds
    <3> HIDE DEF a
    <3>4. Kept(a, b) /\ b \in Parser
      BY <2>0, <3>3, LenFacts DEF Kept
    <3> HIDE DEF b
    <3>5. Kept(b, z) /\ z.state = "s_message_done"
      BY <3>2, <3>4, RedoFacts
    <3> HIDE DEF z
    <3>6. Taken(p, z, "body", <<ch>>)
      BY <3>3, <3>4, <3>5, TakenKept
    <3>7. View(p) \in Context /\ <<ch>> \in Text
      BY <1>1, FlushFacts, TextFacts
    <3>8. Data(View(p), "body", <<ch>>).head # 0
      BY <1>1, <3>7, DataKeeps DEF Kinds
    <3>9. HeadOK(z.state, z.h, z.flags, Data(View(p), "body", <<ch>>))
      BY <3>8, AfterHead
    <3>10. Sound(p, Flush(z))
      BY <3>1, <3>2, <3>5, <3>6, <3>9, TakenFlushed
    <3>11. QED
      BY <1>2, <2>1, <3>10 DEF BodyState, LastByte, z, b, a
  <2>2. CASE p.clen # 1
    <3> DEFINE y == [Take(p, "body", ch) EXCEPT !.clen = p.clen - 1]
    <3>1. p.clen - 1 \in 0..U /\ p.clen - 1 \notin {0, U}
      BY <1>1, <2>0, <2>2
    <3>a. p.mark \in {"none", "body"} /\ "body" \in Kinds
      BY <1>1, <1>2 DEF MarkOK, UrlStates, UrlEnds, Kinds
    <3>2. Control(Take(p, "body", ch)) = Control(p) /\ Take(p, "body", ch) \in Parser
      BY <1>1, <3>a, TakeFacts
    <3>3. Take(p, "body", ch).clen = p.clen
      BY <3>2 DEF Control
    <3>4. y.clen = p.clen - 1
      BY <3>1, <3>2, LenFacts
    <3>5. BodyState(p, ch) = y
      BY <1>2, <2>2, <3>3 DEF BodyState
    <3>6. LenOK(p.state, y.clen, p.flags)
      BY <1>1, <1>2, <3>1, <3>4 DEF LenOK
    <3>7. Sound(p, y)
      BY <1>2, <3>1, <3>6, BodyTaken
    <3>8. QED
      BY <3>5, <3>7
  <2>3. QED
    BY <2>1, <2>2
<1>3. CASE p.state = "s_body_identity_eof"
  <2>1. LenOK(p.state, Take(p, "body", ch).clen, p.flags) /\ 0 \in 0..U
    BY <1>3, HttpParserAssumption DEF LenOK, ChunkData, ChunkHead
  <2>2. Sound(p, Take(p, "body", ch))
    BY <1>3, <2>1, BodyTaken
  <2>3. QED
    BY <1>3, <2>2 DEF BodyState
<1>4. CASE p.state = "s_message_done"
  <2>1. p.mark = "none"
    BY <1>4, Unmarked DEF UrlStates, UrlEnds
  <2> DEFINE y == [p EXCEPT !.stop = p.upgrade]
  <2>2. /\ y \in Parser /\ y.c = p.c /\ y.mark = p.mark /\ y.seg = p.seg /\ y.err = p.err
        /\ y.used = p.used
    BY <1>1 DEF Parser
  <2> HIDE DEF y
  <2>3. Ended(p, y)
    BY <2>1, <2>2 DEF Ended, Good, Run
  <2>4. Sound(p, Complete(y))
    BY <1>1, <2>1, <2>3, Completed
  <2>5. QED
    BY <1>4, <2>4 DEF BodyState, y
<1>5. QED
  BY <1>2, <1>3, <1>4 DEF BodyStates

LEMMA NreadFacts ==
  ASSUME NEW p \in Parser, NEW n \in Nat
  PROVE  /\ Kept(p, [p EXCEPT !.nread = n]) /\ [p EXCEPT !.nread = n].state = p.state
         /\ [p EXCEPT !.nread = n].flags = p.flags /\ [p EXCEPT !.nread = n].clen = p.clen
         /\ [p EXCEPT !.nread = n].h = p.h /\ [p EXCEPT !.nread = n].nread = n
BY DEF Kept, Parser

(* A byte of a chunk. *)
LEMMA ChunkByte ==
  ASSUME NEW p, Good(p), p.state = "s_chunk_data", NEW ch \in STRING
  PROVE  Sound(p, ChunkState(p, ch))
<1>1. p \in Parser /\ View(p).head # 0 /\ p.clen \in 0..U /\ LenOK(p.state, p.clen, p.flags)
      /\ MarkOK(p.state, p.mark)
  BY TailHead DEF TailStates, ChunkData, Good, Run, Parser, Live
<1>2. p.mark \in {"none", "body"} /\ "body" \in Kinds
  BY <1>1 DEF MarkOK, UrlStates, UrlEnds, Kinds
<1>3. p.clen \notin {0, U} /\ U \in Nat /\ "CHUNKED" \in p.flags
  BY <1>1, HttpParserAssumption DEF LenOK, ChunkData
<1> DEFINE a == Take(p, "body", ch)
           y == [a EXCEPT !.clen = p.clen - 1]
           z == To(y, "s_chunk_data_almost_done")
<1>4. Taken(p, a, "body", <<ch>>) /\ Control(a) = Control(p) /\ a \in Parser
  BY <1>1, <1>2, TakeTaken DEF Taken
<1>5. p.clen - 1 \in 0..U /\ p.clen - 1 # U
  BY <1>1, <1>3
<1>6. Kept(a, y) /\ y.flags = a.flags /\ y.clen = p.clen - 1 /\ y \in Parser
  BY <1>4, <1>5, LenFacts DEF Kept
<1>7. a.clen = p.clen
  BY <1>4 DEF Control
<1>8. ChunkState(p, ch) = IF y.clen = 0 THEN z ELSE y
  BY <1>7 DEF ChunkState
<1>9. y.clen # 0 => Sound(p, y)
  <2>1. y.clen # 0 => LenOK(p.state, y.clen, p.flags)
    BY <1>1, <1>5, <1>6 DEF LenOK
  <2>2. QED
    BY <1>5, <2>1, BodyTaken
<1>10. Sound(p, z)
  <2>1. /\ "s_chunk_data_almost_done" \in States /\ MarkOK("s_chunk_data_almost_done", "body")
        /\ \A v : LastOK("s_chunk_data_almost_done", v)
        /\ \A n, f : "CHUNKED" \in f => LenOK("s_chunk_data_almost_done", n, f)
    BY DEF States, TailStates, ChunkData, MarkOK, UrlStates, UrlEnds, LastOK, LenOK
  <2> HIDE DEF y, a
  <2>2. Kept(y, z) /\ z.state = "s_chunk_data_almost_done" /\ z.flags = y.flags
    BY <1>6, <2>1, ToFacts
  <2> HIDE DEF z
  <2>3. Taken(p, z, "body", <<ch>>) /\ z.flags = p.flags
    BY <1>4, <1>6, <2>2, TakenKept DEF Control
  <2>4. HeadOK(z.state, z.h, z.flags, View(p))
    BY <1>1, AfterHead
  <2>5. QED
    BY <1>3, <2>1, <2>2, <2>3, <2>4, TextTaken
<1>11. QED
  BY <1>8, <1>9, <1>10

LEMMA ChunkSound ==
  ASSUME NEW p, Good(p), p.state \in ChunkData \cup ChunkHead, NEW ch \in STRING
  PROVE  Sound(p, ChunkState(p, ch))
<1>1. /\ p \in Parser /\ View(p).head # 0 /\ p.clen \in 0..U /\ Kept(p, p)
      /\ LenOK(p.state, p.clen, p.flags) /\ p.seg \in Text
  BY TailHead DEF TailStates, Good, Run, Parser, Live, Kept
<1>2. "CHUNKED" \in p.flags
  BY <1>1 DEF LenOK
<1>3. Sound(p, Err(p))
  BY FailedHere
<1>4. CASE p.state = "s_chunk_data"
  BY <1>4, ChunkByte
<1>5. /\ ChunkData \cup ChunkHead \subseteq Behind /\ "s_header_field_start" \in Behind
  BY DEF Behind, TailStates
<1> DEFINE Sized == {"s_chunk_size", "s_chunk_parameters", "s_chunk_size_almost_done"}
<1>6. \A n : n # U => \A s \in Sized : LenOK(s, n, p.flags)
  BY <1>2 DEF LenOK
<1>7. CASE p.state \in ChunkHead
  <2>1. p.mark = "none"
    BY <1>7, Unmarked DEF UrlStates, UrlEnds, ChunkHead
  <2>2. \A n \in 0..U : n # U => Sound(p, To([p EXCEPT !.clen = n], "s_chunk_size"))
    <3>1. ASSUME NEW n \in 0..U, n # U
          PROVE  Sound(p, To([p EXCEPT !.clen = n], "s_chunk_size"))
      <4> DEFINE y == [p EXCEPT !.clen = n]
      <4>1. Kept(p, y) /\ y.flags = p.flags /\ y.clen = n
        BY <1>1, LenFacts
      <4> HIDE DEF y
      <4>2. LenOK("s_chunk_size", y.clen, y.flags) /\ "s_chunk_size" \in Behind
        BY <1>5, <1>6, <3>1, <4>1 DEF ChunkHead
      <4>3. Sound(p, To(y, "s_chunk_size"))
        BY <1>1, <2>1, <4>1, <4>2, TailTo
      <4>4. QED
        BY <4>3 DEF y
    <3>2. QED
      BY <3>1
  <2>3. CASE p.state = "s_chunk_size_start"
    <3>1. ch \in Digits => Value(ch) \in 0..U /\ Value(ch) # U
      BY WordTypes, HttpParserAssumption
    <3>2. ch \in Digits => Sound(p, To([p EXCEPT !.clen = Value(ch)], "s_chunk_size"))
      BY <2>2, <3>1
    <3>3. QED
      BY <1>3, <2>3, <3>2 DEF ChunkState
  <2>4. CASE p.state # "s_chunk_size_start"
    <3>1. p.state \in Sized /\ p.clen # U
      BY <1>1, <1>7, <2>4 DEF ChunkHead, LenOK
    <3>2. \A s \in Sized : Sound(p, To(p, s))
      <4>1. \A s \in Sized : LenOK(s, p.clen, p.flags) /\ s \in Behind /\ s # "s_chunk_size_start"
        BY <1>5, <1>6, <3>1 DEF ChunkHead
      <4>2. QED
        BY <1>1, <2>1, <4>1, TailTo
    <3>3. /\ Sound(p, To(p, "s_chunk_size_almost_done")) /\ Sound(p, To(p, "s_chunk_parameters"))
          /\ Sound(p, To(p, p.state))
      BY <3>1, <3>2
    <3>4. To(p, p.state) = p
      BY <1>1 DEF To, Parser
    <3>5. CASE p.state = "s_chunk_size"
      <4> DEFINE n == (p.clen * 16 + Value(ch)) % (U + 1)
      <4>1. ch \in Digits /\ ~((U - 16) \div 16 < p.clen) => n \in 0..U /\ n # U
        BY <1>1, GrowLen, WordTypes
      <4> HIDE DEF n
      <4>2. ASSUME ch \in Digits, ~((U - 16) \div 16 < p.clen)
            PROVE  Sound(p, To([p EXCEPT !.clen = n], "s_chunk_size"))
        BY <2>2, <4>1, <4>2
      <4>3. n \in 0..U => To([p EXCEPT !.clen = n], "s_chunk_size") = [p EXCEPT !.clen = n]
        BY <1>1, <3>5 DEF To, Parser
      <4>4. ch \in Digits => Sound(p, Grow(p, 16, Value(ch)))
        BY <1>3, <4>1, <4>2, <4>3 DEF Grow, n
      <4>5. QED
        BY <1>3, <3>3, <3>5, <4>4 DEF ChunkState
    <3>6. CASE p.state = "s_chunk_parameters"
      BY <3>3, <3>4, <3>6 DEF ChunkState
    <3>7. CASE p.state = "s_chunk_size_almost_done"
      <4> DEFINE y == [p EXCEPT !.nread = 0]
                 z == Flag(y, {"TRAILING"})
      <4>1. Kept(p, y) /\ y.flags = p.flags /\ y.clen = p.clen /\ y \in Parser
        BY <1>1, NreadFacts DEF Kept
      <4> HIDE DEF y
      <4>2. p.clen # 0 => Sound(p, To(y, "s_chunk_data"))
        <5>1. "s_chunk_data" \in Behind /\ (p.clen # 0 => LenOK("s_chunk_data", p.clen, p.flags))
          BY <1>2, <1>5, <3>1 DEF ChunkData, LenOK
        <5>2. QED
          BY <1>1, <2>1, <4>1, <5>1, TailTo
      <4>3. Kept(y, z) /\ z.flags = y.flags \cup {"TRAILING"} /\ z.clen = y.clen
        BY <4>1, FlagFacts DEF Flags
      <4> HIDE DEF z
      <4>4. LenOK("s_header_field_start", z.clen, z.flags)
        BY DEF LenOK, ChunkData, ChunkHead
      <4>5. Sound(p, To(z, "s_header_field_start"))
        BY <1>1, <1>5, <2>1, <4>1, <4>3, <4>4, KeptTrans, TailTo
      <4>6. QED
        BY <1>3, <3>7, <4>2, <4>5 DEF ChunkState, y, z
    <3>8. QED
      BY <3>1, <3>5, <3>6, <3>7
  <2>5. QED
    BY <2>3, <2>4
<1>8. CASE p.state = "s_chunk_data_almost_done"
  <2> DEFINE t == To(p, "s_chunk_data_done")
  <2>1. "s_chunk_data_done" \in Behind /\ LenOK("s_chunk_data_done", p.clen, p.flags)
    BY <1>2, <1>5 DEF ChunkData, LenOK
  <2>2. Kept(p, t) /\ t.state = "s_chunk_data_done" /\ t.clen = p.clen /\ t.flags = p.flags
    BY <1>1, <2>1, BehindFacts, ToFacts
  <2> HIDE DEF t
  <2>3. Sound(p, Flush(t))
    BY <1>1, <2>1, <2>2, TailMoved
  <2>4. QED
    BY <1>3, <1>8, <2>3 DEF ChunkState, Expect, t
<1>9. CASE p.state = "s_chunk_data_done"
  <2> DEFINE y == [p EXCEPT !.nread = 0]
  <2>1. p.mark = "none"
    BY <1>9, Unmarked DEF UrlStates, UrlEnds
  <2>2. Kept(p, y) /\ y.flags = p.flags /\ y.clen = p.clen /\ y.nread = 0
    BY <1>1, NreadFacts
  <2> HIDE DEF y
  <2>3. "s_chunk_size_start" \in Behind /\ LenOK("s_chunk_size_start", p.clen, p.flags)
    BY <1>2, <1>5 DEF ChunkHead, LenOK
  <2>4. Sound(p, To(y, "s_chunk_size_start"))
    BY <1>1, <2>1, <2>2, <2>3, TailTo
  <2>5. QED
    BY <1>3, <1>9, <2>4 DEF ChunkState, Expect, y
<1>10. QED
  BY <1>4, <1>7, <1>8, <1>9 DEF ChunkData

----------------------------------------------------------------------------
(* The switch, and the loop.                                               *)

LEMMA SwitchSound ==
  ASSUME NEW p, Good(p), NEW ch \in STRING
  PROVE  Sound(p, Switch(p, ch))
<1>1. p.state \in States
  BY DEF Good, Run, Parser
<1>2. /\ p.state \in BodyStates => Sound(p, BodyState(p, ch))
      /\ p.state \in ChunkData \cup ChunkHead => Sound(p, ChunkState(p, ch))
      /\ p.state \in UrlStates => Sound(p, UrlState(p, ch))
      /\ p.state \in FieldStates => Sound(p, FieldState(p, ch))
      /\ p.state \in EdgeStates => Sound(p, ValueEdge(p, ch))
      /\ p.state = "s_header_value_start" => Sound(p, ValueStart(p, ch))
      /\ p.state = "s_header_value" => Sound(p, ValueChar(p, ch))
      /\ p.state = "s_headers_almost_done" => Sound(p, HeadersAlmostDone(p, ch))
      /\ p.state = "s_headers_done" => Sound(p, HeadersDone(p))
      /\ p.state \in MethodStates => Sound(p, MethodState(p, ch))
      /\ p.state \in VersionStates => Sound(p, VersionState(p, ch))
      /\ p.state \in ReasonStates => Sound(p, ReasonState(p, ch))
      /\ p.state \in StatusStates => Sound(p, StatusLine(p, ch))
  BY BodySound, ChunkSound, UrlSound, FieldSound, ValueEdgeSound, ValueStartSound, ValueCharSound,
     AlmostDoneSound, HeadersDoneSound, MethodSound, VersionSound, ReasonSound, StatusSound
<1>3. QED
  BY <1>1, <1>2 DEF Switch, States, LineStates, HeadStates, TailStates

----------------------------------------------------------------------------
(* Two parsers that differ only in what of the data has been handed over:   *)
(* no step can tell them apart.                                             *)

Alike(p, q) == p \in Parser /\ q \in Parser /\ Control(p) = Control(q) /\ View(p) = View(q)

LEMMA AlikeParts ==
  ASSUME NEW p, NEW q, Alike(p, q)
  PROVE  /\ p.type = q.type /\ p.state = q.state /\ p.h = q.h /\ p.flags = q.flags
         /\ p.clen = q.clen /\ p.method = q.method /\ p.code = q.code /\ p.err = q.err
         /\ p.stop = q.stop /\ p.nread = q.nread /\ p.used = q.used /\ p.again = q.again
BY DEF Alike, Control

(* A change of the control alone. *)
Recast(p, y) == p \in Parser /\ y \in Parser /\ y.mark = p.mark /\ y.seg = p.seg /\ y.c = p.c

LEMMA AlikeRecast ==
  ASSUME NEW p, NEW q, Alike(p, q), NEW y, NEW z, Recast(p, y), Recast(q, z),
         Control(y) = Control(z)
  PROVE  Alike(y, z)
<1>1. View(y) = View(p) /\ View(z) = View(q)
  BY FlushFacts DEF Recast
<1>2. QED
  BY <1>1 DEF Alike, Recast

LEMMA RecastFacts ==
  ASSUME NEW p \in Parser
  PROVE  /\ \A s \in States : Recast(p, To(p, s)) /\ Recast(p, Redo(p, s))
         /\ \A h \in HeaderStates : Recast(p, [p EXCEPT !.h = h])
         /\ \A f \in SUBSET Flags : Recast(p, Flag(p, f))
         /\ \A n \in 0..U : Recast(p, [p EXCEPT !.clen = n])
         /\ \A n \in Nat : Recast(p, [p EXCEPT !.nread = n]) /\ Recast(p, [p EXCEPT !.used = n])
         /\ Recast(p, [p EXCEPT !.version = "HTTP/0.9"])
         /\ Recast(p, [p EXCEPT !.again = FALSE])
         /\ Recast(p, Err(p))
<1>1. \A s \in States : Recast(p, To(p, s)) /\ Recast(p, Redo(p, s))
  BY DEF Recast, Parser, To, Redo
<1>2. \A h \in HeaderStates : Recast(p, [p EXCEPT !.h = h])
  BY DEF Recast, Parser
<1>3. \A f \in SUBSET Flags : Recast(p, Flag(p, f))
  BY DEF Recast, Parser, Flag
<1>4. \A n \in 0..U : Recast(p, [p EXCEPT !.clen = n])
  BY DEF Recast, Parser
<1>5. \A n \in Nat : Recast(p, [p EXCEPT !.nread = n]) /\ Recast(p, [p EXCEPT !.used = n])
  BY DEF Recast, Parser
<1>6. Recast(p, [p EXCEPT !.version = "HTTP/0.9"]) /\ Recast(p, [p EXCEPT !.again = FALSE])
  BY DEF Recast, Parser
<1>7. Recast(p, Err(p))
  BY DEF Recast, Parser, Err
<1>8. QED
  BY <1>1, <1>2, <1>3, <1>4, <1>5, <1>6, <1>7

LEMMA AlikeFacts ==
  ASSUME NEW p, NEW q, Alike(p, q)
  PROVE  /\ \A s \in States : Alike(To(p, s), To(q, s)) /\ Alike(Redo(p, s), Redo(q, s))
         /\ \A h \in HeaderStates : Alike([p EXCEPT !.h = h], [q EXCEPT !.h = h])
         /\ \A f \in SUBSET Flags : Alike(Flag(p, f), Flag(q, f))
         /\ \A n \in 0..U : Alike([p EXCEPT !.clen = n], [q EXCEPT !.clen = n])
         /\ \A n \in Nat : /\ Alike([p EXCEPT !.nread = n], [q EXCEPT !.nread = n])
                           /\ Alike([p EXCEPT !.used = n], [q EXCEPT !.used = n])
         /\ Alike([p EXCEPT !.version = "HTTP/0.9"], [q EXCEPT !.version = "HTTP/0.9"])
         /\ Alike([p EXCEPT !.again = FALSE], [q EXCEPT !.again = FALSE])
         /\ Alike(Err(p), Err(q))
<1>1. p \in Parser /\ q \in Parser /\ Control(p) = Control(q)
  BY DEF Alike
<1>2. \A s \in States : Alike(To(p, s), To(q, s)) /\ Alike(Redo(p, s), Redo(q, s))
  <2>1. ASSUME NEW s \in States PROVE Alike(To(p, s), To(q, s))
    <3>1. Recast(p, To(p, s)) /\ Recast(q, To(q, s)) /\ Control(To(p, s)) = Control(To(q, s))
      <4>1. Recast(p, To(p, s)) /\ Recast(q, To(q, s))
        BY <1>1, RecastFacts
      <4>2. Control(To(p, s)) = Control(To(q, s))
        BY <1>1 DEF Control, Parser, To
      <4>3. QED
        BY <4>1, <4>2
    <3>2. QED
      BY <3>1, AlikeRecast
  <2>2. ASSUME NEW s \in States PROVE Alike(Redo(p, s), Redo(q, s))
    <3>1. Recast(p, Redo(p, s)) /\ Recast(q, Redo(q, s)) /\ Control(Redo(p, s)) = Control(Redo(q, s))
      <4>1. Recast(p, Redo(p, s)) /\ Recast(q, Redo(q, s))
        BY <1>1, RecastFacts
      <4>2. Control(Redo(p, s)) = Control(Redo(q, s))
        BY <1>1 DEF Control, Parser, Redo
      <4>3. QED
        BY <4>1, <4>2
    <3>2. QED
      BY <3>1, AlikeRecast
  <2>3. QED
    BY <2>1, <2>2
<1>3. ASSUME NEW h \in HeaderStates PROVE Alike([p EXCEPT !.h = h], [q EXCEPT !.h = h])
  <2>1. /\ Recast(p, [p EXCEPT !.h = h]) /\ Recast(q, [q EXCEPT !.h = h])
        /\ Control([p EXCEPT !.h = h]) = Control([q EXCEPT !.h = h])
    <3>1. Recast(p, [p EXCEPT !.h = h]) /\ Recast(q, [q EXCEPT !.h = h])
      BY <1>1, RecastFacts
    <3>2. Control([p EXCEPT !.h = h]) = Control([q EXCEPT !.h = h])
      BY <1>1 DEF Control, Parser
    <3>3. QED
      BY <3>1, <3>2
  <2>2. QED
    BY <2>1, AlikeRecast
<1>4. ASSUME NEW f \in SUBSET Flags PROVE Alike(Flag(p, f), Flag(q, f))
  <2>1. Recast(p, Flag(p, f)) /\ Recast(q, Flag(q, f)) /\ Control(Flag(p, f)) = Control(Flag(q, f))
    <3>1. Recast(p, Flag(p, f)) /\ Recast(q, Flag(q, f))
      BY <1>1, RecastFacts
    <3>2. Control(Flag(p, f)) = Control(Flag(q, f))
      BY <1>1 DEF Control, Parser, Flag
    <3>3. QED
      BY <3>1, <3>2
  <2>2. QED
    BY <2>1, AlikeRecast
<1>5. ASSUME NEW n \in 0..U PROVE Alike([p EXCEPT !.clen = n], [q EXCEPT !.clen = n])
  <2>1. /\ Recast(p, [p EXCEPT !.clen = n]) /\ Recast(q, [q EXCEPT !.clen = n])
        /\ Control([p EXCEPT !.clen = n]) = Control([q EXCEPT !.clen = n])
    <3>1. Recast(p, [p EXCEPT !.clen = n]) /\ Recast(q, [q EXCEPT !.clen = n])
      BY <1>1, RecastFacts
    <3>2. Control([p EXCEPT !.clen = n]) = Control([q EXCEPT !.clen = n])
      BY <1>1 DEF Control, Parser
    <3>3. QED
      BY <3>1, <3>2
  <2>2. QED
    BY <2>1, AlikeRecast
<1>6. ASSUME NEW n \in Nat
      PROVE  /\ Alike([p EXCEPT !.nread = n], [q EXCEPT !.nread = n])
             /\ Alike([p EXCEPT !.used = n], [q EXCEPT !.used = n])
  <2>1. /\ Recast(p, [p EXCEPT !.nread = n]) /\ Recast(q, [q EXCEPT !.nread = n])
        /\ Control([p EXCEPT !.nread = n]) = Control([q EXCEPT !.nread = n])
    <3>1. Recast(p, [p EXCEPT !.nread = n]) /\ Recast(q, [q EXCEPT !.nread = n])
      BY <1>1, RecastFacts
    <3>2. Control([p EXCEPT !.nread = n]) = Control([q EXCEPT !.nread = n])
      BY <1>1 DEF Control, Parser
    <3>3. QED
      BY <3>1, <3>2
  <2>2. /\ Recast(p, [p EXCEPT !.used = n]) /\ Recast(q, [q EXCEPT !.used = n])
        /\ Control([p EXCEPT !.used = n]) = Control([q EXCEPT !.used = n])
    <3>1. Recast(p, [p EXCEPT !.used = n]) /\ Recast(q, [q EXCEPT !.used = n])
      BY <1>1, RecastFacts
    <3>2. Control([p EXCEPT !.used = n]) = Control([q EXCEPT !.used = n])
      BY <1>1 DEF Control, Parser
    <3>3. QED
      BY <3>1, <3>2
  <2>3. QED
    BY <2>1, <2>2, AlikeRecast
<1>7. /\ Alike([p EXCEPT !.version = "HTTP/0.9"], [q EXCEPT !.version = "HTTP/0.9"])
      /\ Alike([p EXCEPT !.again = FALSE], [q EXCEPT !.again = FALSE])
      /\ Alike(Err(p), Err(q))
  <2>1. /\ Recast(p, Err(p)) /\ Recast(q, Err(q))
        /\ Recast(p, [p EXCEPT !.again = FALSE]) /\ Recast(q, [q EXCEPT !.again = FALSE])
        /\ Recast(p, [p EXCEPT !.version = "HTTP/0.9"])
        /\ Recast(q, [q EXCEPT !.version = "HTTP/0.9"])
    BY <1>1, RecastFacts
  <2>2. Control(Err(p)) = Control(Err(q))
    BY <1>1 DEF Control, Parser, Err
  <2>3. /\ Control([p EXCEPT !.again = FALSE]) = Control([q EXCEPT !.again = FALSE])
        /\ Control([p EXCEPT !.version = "HTTP/0.9"]) = Control([q EXCEPT !.version = "HTTP/0.9"])
    BY <1>1 DEF Control, Parser
  <2>4. QED
    BY <2>1, <2>2, <2>3, AlikeRecast
<1>8. QED
  BY <1>2, <1>3, <1>4, <1>5, <1>6, <1>7

LEMMA AlikeFlush == ASSUME NEW p, NEW q, Alike(p, q) PROVE Alike(Flush(p), Flush(q))
<1>1. /\ Flush(p) \in Parser /\ Control(Flush(p)) = Control(p) /\ Flush(p).mark = "none"
      /\ Flush(q) \in Parser /\ Control(Flush(q)) = Control(q) /\ Flush(q).mark = "none"
  BY FlushFacts DEF Alike
<1>2. View(Flush(p)) = View(p) /\ View(Flush(q)) = View(q)
  BY <1>1, FlushFacts DEF View
<1>3. QED
  BY <1>1, <1>2 DEF Alike

LEMMA AlikeTake ==
  ASSUME NEW p, NEW q, Alike(p, q), NEW k \in Kinds, NEW ch \in STRING,
         p.mark \in {"none", k}, q.mark \in {"none", k}
  PROVE  Alike(Take(p, k, ch), Take(q, k, ch))
<1>1. /\ Take(p, k, ch) \in Parser /\ Control(Take(p, k, ch)) = Control(p)
      /\ View(Take(p, k, ch)) = Data(View(p), k, <<ch>>)
  BY TakeFacts DEF Alike
<1>2. /\ Take(q, k, ch) \in Parser /\ Control(Take(q, k, ch)) = Control(q)
      /\ View(Take(q, k, ch)) = Data(View(q), k, <<ch>>)
  BY TakeFacts DEF Alike
<1>3. QED
  BY <1>1, <1>2 DEF Alike

LEMMA AlikeKeep ==
  ASSUME NEW p, NEW q, Alike(p, q), NEW ch \in STRING, p.mark = q.mark, p.mark # "none"
  PROVE  Alike(Keep(p, ch), Keep(q, ch))
<1>1. /\ Keep(p, ch) \in Parser /\ Control(Keep(p, ch)) = Control(p)
      /\ View(Keep(p, ch)) = Data(View(p), p.mark, <<ch>>)
  BY KeepFacts DEF Alike
<1>2. /\ Keep(q, ch) \in Parser /\ Control(Keep(q, ch)) = Control(q)
      /\ View(Keep(q, ch)) = Data(View(q), q.mark, <<ch>>)
  BY KeepFacts DEF Alike
<1>3. QED
  BY <1>1, <1>2 DEF Alike

(* With nothing marked they are the same. *)
LEMMA AlikeSame ==
  ASSUME NEW p, NEW q, Alike(p, q), p.mark = "none", q.mark = "none",
         p.seg = <<>>, q.seg = <<>>
  PROVE  p = q
<1>1. p \in Parser /\ q \in Parser /\ Control(p) = Control(q) /\ View(p) = View(q)
  BY DEF Alike
<1>2. View(p) = p.c /\ View(q) = q.c
  BY <1>1, FlushFacts
<1>3. QED
  BY <1>1, <1>2, SameParts

(* Two such parsers within a piece. *)
Twins(p, q) == Alike(p, q) /\ Good(p) /\ Good(q)

LEMMA TwinMarks ==
  ASSUME NEW p, NEW q, Twins(p, q)
  PROVE  /\ p.state = q.state
         /\ p.state \in {"s_body_identity", "s_body_identity_eof", "s_chunk_data",
                         "s_chunk_data_almost_done"}
              => p.mark \in {"none", "body"} /\ q.mark \in {"none", "body"}
         /\ p.state \notin {"s_body_identity", "s_body_identity_eof", "s_chunk_data",
                            "s_chunk_data_almost_done"}
              => p.mark = q.mark
         /\ (p.mark = "none" /\ q.mark = "none") => p = q
<1>1. p.state = q.state
  BY AlikeParts DEF Twins
<1>2. MarkOK(p.state, p.mark) /\ MarkOK(p.state, q.mark)
  BY <1>1 DEF Twins, Good, Run
<1>3. /\ p.mark = "none" => p.seg = <<>>
      /\ q.mark = "none" => q.seg = <<>>
  BY DEF Twins, Good, Run
<1>4. (p.mark = "none" /\ q.mark = "none") => p = q
  BY <1>3, AlikeSame DEF Twins
<1>5. QED
  BY <1>1, <1>2, <1>4 DEF MarkOK, UrlStates, UrlEnds

LEMMA UrlAlike ==
  ASSUME NEW p, NEW q, Twins(p, q), p.state \in UrlStates \ {"s_req_spaces_before_url"},
         NEW ch \in STRING
  PROVE  Alike(UrlState(p, ch), UrlState(q, ch))
<1>1. p.state = q.state /\ p.mark = q.mark /\ Alike(p, q)
  BY TwinMarks DEF Twins, UrlStates, UrlEnds
<1>2. p.mark # "none"
  BY DEF Twins, Good, Run, MarkOK, UrlStates, UrlEnds
<1> DEFINE s == parse_url_char(p.state, ch)
           t == IF ch = "CR" THEN "s_req_line_almost_done" ELSE "s_header_field_start"
           v == [p EXCEPT !.version = "HTTP/0.9"]
           w == [q EXCEPT !.version = "HTTP/0.9"]
<1>3. s \in States /\ t \in States /\ "s_req_http_start" \in States
  BY UrlStep DEF States, LineStates, HeadStates, UrlStates, MethodStates, VersionStates, FieldStates
<1>4. /\ UrlState(p, ch) =
           IF p.state \in UrlEnds /\ ch = "sp" THEN Flush(To(p, "s_req_http_start"))
           ELSE IF p.state \in UrlEnds /\ ch \in {"CR", "LF"} THEN Flush(To(v, t))
           ELSE IF s = "s_dead" THEN Err(p) ELSE To(Keep(p, ch), s)
      /\ UrlState(q, ch) =
           IF p.state \in UrlEnds /\ ch = "sp" THEN Flush(To(q, "s_req_http_start"))
           ELSE IF p.state \in UrlEnds /\ ch \in {"CR", "LF"} THEN Flush(To(w, t))
           ELSE IF s = "s_dead" THEN Err(q) ELSE To(Keep(q, ch), s)
  BY <1>1 DEF UrlState
<1> HIDE DEF s, t
<1>5. Alike(v, w) /\ Alike(Err(p), Err(q)) /\ Alike(To(p, "s_req_http_start"), To(q, "s_req_http_start"))
  BY <1>1, <1>3, AlikeFacts
<1> HIDE DEF v, w
<1>6. Alike(To(v, t), To(w, t))
  BY <1>3, <1>5, AlikeFacts
<1>7. /\ Alike(Flush(To(p, "s_req_http_start")), Flush(To(q, "s_req_http_start")))
      /\ Alike(Flush(To(v, t)), Flush(To(w, t)))
  BY <1>5, <1>6, AlikeFlush
<1>8. Alike(Keep(p, ch), Keep(q, ch))
  BY <1>1, <1>2, AlikeKeep
<1>9. Alike(To(Keep(p, ch), s), To(Keep(q, ch), s))
  BY <1>3, <1>8, AlikeFacts
<1>10. QED
  BY <1>4, <1>5, <1>7, <1>9

LEMMA ReasonAlike ==
  ASSUME NEW p, NEW q, Twins(p, q), p.state = "s_res_status", NEW ch \in STRING
  PROVE  Alike(ReasonState(p, ch), ReasonState(q, ch))
<1>1. p.state = q.state /\ p.mark = q.mark /\ Alike(p, q)
  BY TwinMarks DEF Twins
<1>2. p.mark # "none"
  BY DEF Twins, Good, Run, MarkOK, UrlStates, UrlEnds
<1>3. "s_res_line_almost_done" \in States /\ "s_header_field_start" \in States
  BY DEF States, LineStates, HeadStates, StatusStates, FieldStates
<1>4. /\ Alike(To(p, "s_res_line_almost_done"), To(q, "s_res_line_almost_done"))
      /\ Alike(To(p, "s_header_field_start"), To(q, "s_header_field_start"))
  BY <1>1, <1>3, AlikeFacts
<1>5. /\ Alike(Flush(To(p, "s_res_line_almost_done")), Flush(To(q, "s_res_line_almost_done")))
      /\ Alike(Flush(To(p, "s_header_field_start")), Flush(To(q, "s_header_field_start")))
  BY <1>4, AlikeFlush
<1>6. Alike(Keep(p, ch), Keep(q, ch))
  BY <1>1, <1>2, AlikeKeep
<1>7. QED
  BY <1>1, <1>5, <1>6 DEF ReasonState

LEMMA FieldAlike ==
  ASSUME NEW p, NEW q, Twins(p, q), p.state = "s_header_field", NEW ch \in STRING
  PROVE  Alike(FieldState(p, ch), FieldState(q, ch))
<1>1. p.state = q.state /\ p.mark = q.mark /\ Alike(p, q)
  BY TwinMarks DEF Twins
<1>2. p.mark # "none"
  BY DEF Twins, Good, Run, MarkOK, UrlStates, UrlEnds
<1>3. "s_header_value_discard_ws" \in States /\ "general" \in HeaderStates
  BY DEF States, HeadStates, EdgeStates, HeaderStates
<1>4. /\ Alike(To(p, "s_header_value_discard_ws"), To(q, "s_header_value_discard_ws"))
      /\ Alike(Err(p), Err(q))
  BY <1>1, <1>3, AlikeFacts
<1>5. Alike(Flush(To(p, "s_header_value_discard_ws")), Flush(To(q, "s_header_value_discard_ws")))
  BY <1>4, AlikeFlush
<1>6. Alike(Keep(p, ch), Keep(q, ch))
  BY <1>1, <1>2, AlikeKeep
<1>7. Alike(NameChar(p, ch), NameChar(q, ch))
  BY <1>3, <1>6, AlikeFacts DEF NameChar
<1>8. QED
  BY <1>1, <1>4, <1>5, <1>7 DEF FieldState

LEMMA ValueAlike ==
  ASSUME NEW p, NEW q, Twins(p, q), p.state = "s_header_value", NEW ch \in STRING
  PROVE  Alike(ValueChar(p, ch), ValueChar(q, ch))
<1>1. p.state = q.state /\ p.mark = q.mark /\ Alike(p, q) /\ p.h = q.h
  BY TwinMarks, AlikeParts DEF Twins
<1>2. p.mark # "none" /\ p.clen \in 0..U
  BY DEF Twins, Good, Run, MarkOK, UrlStates, UrlEnds, Parser
<1>3. "s_header_almost_done" \in States
  BY DEF States, HeadStates, EdgeStates
<1> DEFINE t == To(p, "s_header_almost_done")
           u == To(q, "s_header_almost_done")
           r == Redo(p, "s_header_almost_done")
           s == Redo(q, "s_header_almost_done")
           y == Keep(p, ch)
           z == Keep(q, ch)
           H(h) == [y EXCEPT !.h = h]
           G(h) == [z EXCEPT !.h = h]
<1>4. Alike(t, u) /\ Alike(r, s) /\ Alike(Err(p), Err(q))
  BY <1>1, <1>3, AlikeFacts
<1>5. Alike(Flush(t), Flush(u)) /\ Alike(Flush(r), Flush(s))
  BY <1>4, AlikeFlush
<1>6. Alike(y, z)
  BY <1>1, <1>2, AlikeKeep
<1>7. y.clen = p.clen /\ z.clen = p.clen
  <2>1. Control(y) = Control(p)
    BY <1>1, <1>2, KeepFacts DEF Alike
  <2>2. y.clen = p.clen
    BY <2>1 DEF Control
  <2>3. QED
    BY <1>6, <2>2, AlikeParts
<1> HIDE DEF y, z, t, u, r, s
<1>8. \A h \in HeaderStates : Alike(H(h), G(h))
  BY <1>6, AlikeFacts
<1>9. Alike(Err(y), Err(z))
  BY <1>6, AlikeFacts
<1> DEFINE v == Flag(H("cn_start"), TokenFlag(p.h))
           w == Flag(G("cn_start"), TokenFlag(p.h))
<1>10. Alike(v, w)
  <2>1. Alike(H("cn_start"), G("cn_start"))
    BY <1>8 DEF HeaderStates
  <2> HIDE DEF H, G
  <2>2. QED
    BY <2>1, AlikeFacts, WordTypes
<1>11. ch \in Digits => Alike(Grow(y, 10, Value(ch)), Grow(z, 10, Value(ch)))
  <2> DEFINE n == (p.clen * 10 + Value(ch)) % (U + 1)
  <2>1. ch \in Digits => n \in 0..U
    BY <1>2, WordTypes, GrowLen
  <2> HIDE DEF n
  <2>2. ch \in Digits => Alike([y EXCEPT !.clen = n], [z EXCEPT !.clen = n])
    BY <1>6, <2>1, AlikeFacts
  <2>3. QED
    BY <1>7, <1>9, <2>2 DEF Grow, n
<1> DEFINE start == IF p.h = "te_start" THEN "te" ELSE "cn"
           k == Word(start, ch)
<1>12. /\ Alike(H("general"), G("general")) /\ Alike(H("cl_ws"), G("cl_ws"))
       /\ Alike(H("te_start"), G("te_start")) /\ Alike(H("cn_start"), G("cn_start"))
       /\ Alike(H("te_token"), G("te_token")) /\ Alike(H("cn_token"), G("cn_token"))
       /\ Alike(H(k), G(k))
  <2>1. k \in HeaderStates
    BY WordTypes
  <2> HIDE DEF H, G, k
  <2>2. QED
    BY <1>8, <2>1 DEF HeaderStates
<1>13. ValueChar(p, ch) =
         CASE ch = "CR" -> Flush(t)
           [] ch = "LF" -> Flush(r)
           [] ch = "ctl" -> Err(p)
           [] OTHER ->
         CASE p.h = "cl_num" ->
                IF ch = "sp" THEN H("cl_ws")
                ELSE IF ch \notin Digits THEN Err(y) ELSE Grow(y, 10, Value(ch))
           [] p.h = "cl_ws" -> IF ch = "sp" THEN y ELSE Err(y)
           [] p.h \in {"te_start", "cn_start"} ->
                IF ch = "sp" THEN y ELSE IF Token(ch) THEN H(k) ELSE H("general")
           [] p.h = "te_token" -> IF ch = "," THEN H("te_start") ELSE y
           [] p.h = "cn_token" -> IF ch = "," THEN H("cn_start") ELSE y
           [] p.h = "te_chunked" -> IF ch = "sp" THEN y ELSE H("te_token")
           [] p.h \in {"keep-alive", "close", "upgrade"} ->
                IF ch = "," THEN v ELSE IF ch = "sp" THEN y ELSE H("cn_token")
           [] OTHER -> H("general")
  BY DEF ValueChar, t, r, y
<1>14. ValueChar(q, ch) =
         CASE ch = "CR" -> Flush(u)
           [] ch = "LF" -> Flush(s)
           [] ch = "ctl" -> Err(q)
           [] OTHER ->
         CASE p.h = "cl_num" ->
                IF ch = "sp" THEN G("cl_ws")
                ELSE IF ch \notin Digits THEN Err(z) ELSE Grow(z, 10, Value(ch))
           [] p.h = "cl_ws" -> IF ch = "sp" THEN z ELSE Err(z)
           [] p.h \in {"te_start", "cn_start"} ->
                IF ch = "sp" THEN z ELSE IF Token(ch) THEN G(k) ELSE G("general")
           [] p.h = "te_token" -> IF ch = "," THEN G("te_start") ELSE z
           [] p.h = "cn_token" -> IF ch = "," THEN G("cn_start") ELSE z
           [] p.h = "te_chunked" -> IF ch = "sp" THEN z ELSE G("te_token")
           [] p.h \in {"keep-alive", "close", "upgrade"} ->
                IF ch = "," THEN w ELSE IF ch = "sp" THEN z ELSE G("cn_token")
           [] OTHER -> G("general")
  BY <1>1 DEF ValueChar, u, s, z
<1> HIDE DEF H, G, v, w, k
<1>15. QED
  BY <1>4, <1>5, <1>6, <1>9, <1>10, <1>11, <1>12, <1>13, <1>14

LEMMA BodyAlike ==
  ASSUME NEW p, NEW q, Twins(p, q), p.state \in {"s_body_identity", "s_body_identity_eof"},
         NEW ch \in STRING
  PROVE  Alike(BodyState(p, ch), BodyState(q, ch))
<1>1. /\ p.state = q.state /\ p.mark \in {"none", "body"} /\ q.mark \in {"none", "body"}
      /\ Alike(p, q) /\ p.clen = q.clen
  BY TwinMarks, AlikeParts DEF Twins
<1> DEFINE y == Take(p, "body", ch)
           z == Take(q, "body", ch)
<1>2. Alike(y, z)
  BY <1>1, AlikeTake DEF Kinds
<1>3. y.clen = p.clen /\ z.clen = p.clen
  <2>a. p \in Parser /\ "body" \in Kinds
    BY <1>1 DEF Alike, Kinds
  <2>1. Control(y) = Control(p)
    BY <1>1, <2>a, TakeFacts
  <2>2. y.clen = p.clen
    BY <2>1 DEF Control
  <2>3. QED
    BY <1>2, <2>2, AlikeParts
<1> HIDE DEF y, z
<1>4. 0 \in 0..U /\ "s_message_done" \in States
  BY HttpParserAssumption DEF States, TailStates, BodyStates
<1>5. Alike([y EXCEPT !.clen = 0], [z EXCEPT !.clen = 0])
  BY <1>2, <1>4, AlikeFacts
<1>6. Alike(Redo([y EXCEPT !.clen = 0], "s_message_done"), Redo([z EXCEPT !.clen = 0], "s_message_done"))
  BY <1>4, <1>5, AlikeFacts
<1>7. Alike(LastByte(p, ch), LastByte(q, ch))
  BY <1>6, AlikeFlush DEF LastByte, y, z
<1>8. CASE p.state = "s_body_identity_eof"
  BY <1>1, <1>2, <1>8 DEF BodyState, y, z
<1>9. CASE p.state = "s_body_identity"
  <2>1. p.clen - 1 \in 0..U
    <3>1. p.clen \in 0..U /\ LenOK(p.state, p.clen, p.flags)
      BY DEF Twins, Good, Run, Live, Parser
    <3>2. p.clen # 0
      BY <1>9, <3>1 DEF LenOK
    <3>3. QED
      BY <3>1, <3>2, HttpParserAssumption
  <2>2. Alike([y EXCEPT !.clen = p.clen - 1], [z EXCEPT !.clen = p.clen - 1])
    BY <1>2, <2>1, AlikeFacts
  <2>3. /\ BodyState(p, ch) = IF p.clen = 1 THEN LastByte(p, ch) ELSE [y EXCEPT !.clen = p.clen - 1]
        /\ BodyState(q, ch) = IF p.clen = 1 THEN LastByte(q, ch) ELSE [z EXCEPT !.clen = p.clen - 1]
    BY <1>1, <1>3, <1>9 DEF BodyState, y, z
  <2>4. QED
    BY <1>7, <2>2, <2>3
<1>10. QED
  BY <1>8, <1>9

LEMMA ChunkAlike ==
  ASSUME NEW p, NEW q, Twins(p, q), p.state \in {"s_chunk_data", "s_chunk_data_almost_done"},
         NEW ch \in STRING
  PROVE  Alike(ChunkState(p, ch), ChunkState(q, ch))
<1>1. /\ p.state = q.state /\ p.mark \in {"none", "body"} /\ q.mark \in {"none", "body"}
      /\ Alike(p, q) /\ p.clen = q.clen
  BY TwinMarks, AlikeParts DEF Twins
<1>2. "s_chunk_data_done" \in States /\ "s_chunk_data_almost_done" \in States
  BY DEF States, TailStates, ChunkData
<1>3. CASE p.state = "s_chunk_data_almost_done"
  <2>1. Alike(To(p, "s_chunk_data_done"), To(q, "s_chunk_data_done")) /\ Alike(Err(p), Err(q))
    BY <1>1, <1>2, AlikeFacts
  <2>2. Alike(Flush(To(p, "s_chunk_data_done")), Flush(To(q, "s_chunk_data_done")))
    BY <2>1, AlikeFlush
  <2>3. QED
    BY <1>1, <1>3, <2>1, <2>2 DEF ChunkState, Expect
<1>4. CASE p.state = "s_chunk_data"
  <2> DEFINE y == Take(p, "body", ch)
             z == Take(q, "body", ch)
             v == [y EXCEPT !.clen = p.clen - 1]
             w == [z EXCEPT !.clen = p.clen - 1]
  <2>1. Alike(y, z)
    BY <1>1, AlikeTake DEF Kinds
  <2>2. y.clen = p.clen /\ z.clen = p.clen
    <3>a. p \in Parser /\ "body" \in Kinds
      BY <1>1 DEF Alike, Kinds
    <3>1. Control(y) = Control(p)
      BY <1>1, <3>a, TakeFacts
    <3>2. y.clen = p.clen
      BY <3>1 DEF Control
    <3>3. QED
      BY <2>1, <3>2, AlikeParts
  <2>3. p.clen - 1 \in 0..U
    <3>1. p.clen \in 0..U /\ LenOK(p.state, p.clen, p.flags)
      BY DEF Twins, Good, Run, Live, Parser
    <3>2. p.clen # 0
      BY <1>4, <3>1 DEF LenOK
    <3>3. QED
      BY <3>1, <3>2, HttpParserAssumption
  <2>4. /\ ChunkState(p, ch) = IF v.clen = 0 THEN To(v, "s_chunk_data_almost_done") ELSE v
        /\ ChunkState(q, ch) = IF w.clen = 0 THEN To(w, "s_chunk_data_almost_done") ELSE w
    BY <1>1, <1>4, <2>2 DEF ChunkState
  <2> HIDE DEF y, z
  <2>5. Alike(v, w)
    BY <2>1, <2>3, AlikeFacts
  <2> HIDE DEF v, w
  <2>6. v.clen = w.clen /\ Alike(To(v, "s_chunk_data_almost_done"), To(w, "s_chunk_data_almost_done"))
    BY <1>2, <2>5, AlikeFacts, AlikeParts
  <2>7. QED
    BY <2>4, <2>5, <2>6
<1>5. QED
  BY <1>3, <1>4

(* Which case of the switch it is. *)
LEMMA SwitchCases ==
  ASSUME NEW p, NEW ch
  PROVE  /\ p.state \in UrlStates => Switch(p, ch) = UrlState(p, ch)
         /\ p.state = "s_res_status" => Switch(p, ch) = ReasonState(p, ch)
         /\ p.state = "s_header_field" => Switch(p, ch) = FieldState(p, ch)
         /\ p.state = "s_header_value" => Switch(p, ch) = ValueChar(p, ch)
         /\ p.state \in {"s_body_identity", "s_body_identity_eof"} =>
              Switch(p, ch) = BodyState(p, ch)
         /\ p.state \in {"s_chunk_data", "s_chunk_data_almost_done"} =>
              Switch(p, ch) = ChunkState(p, ch)
BY DEF Switch, UrlStates, UrlEnds, BodyStates, ChunkData, ChunkHead, FieldStates, EdgeStates,
       MethodStates, VersionStates, ReasonStates

LEMMA SwitchAlike ==
  ASSUME NEW p, NEW q, Twins(p, q), NEW ch \in STRING
  PROVE  Alike(Switch(p, ch), Switch(q, ch))
<1>1. p.state = q.state
  BY TwinMarks
<1>2. CASE p.state \in UrlStates \ {"s_req_spaces_before_url"}
  <2>1. Switch(p, ch) = UrlState(p, ch) /\ Switch(q, ch) = UrlState(q, ch)
    BY <1>1, <1>2, SwitchCases
  <2>2. QED
    BY <1>2, <2>1, UrlAlike
<1>3. CASE p.state = "s_res_status"
  <2>1. Switch(p, ch) = ReasonState(p, ch) /\ Switch(q, ch) = ReasonState(q, ch)
    BY <1>1, <1>3, SwitchCases
  <2>2. QED
    BY <1>3, <2>1, ReasonAlike
<1>4. CASE p.state = "s_header_field"
  <2>1. Switch(p, ch) = FieldState(p, ch) /\ Switch(q, ch) = FieldState(q, ch)
    BY <1>1, <1>4, SwitchCases
  <2>2. QED
    BY <1>4, <2>1, FieldAlike
<1>5. CASE p.state = "s_header_value"
  <2>1. Switch(p, ch) = ValueChar(p, ch) /\ Switch(q, ch) = ValueChar(q, ch)
    BY <1>1, <1>5, SwitchCases
  <2>2. QED
    BY <1>5, <2>1, ValueAlike
<1>6. CASE p.state \in {"s_body_identity", "s_body_identity_eof"}
  <2>1. Switch(p, ch) = BodyState(p, ch) /\ Switch(q, ch) = BodyState(q, ch)
    BY <1>1, <1>6, SwitchCases
  <2>2. QED
    BY <1>6, <2>1, BodyAlike
<1>7. CASE p.state \in {"s_chunk_data", "s_chunk_data_almost_done"}
  <2>1. Switch(p, ch) = ChunkState(p, ch) /\ Switch(q, ch) = ChunkState(q, ch)
    BY <1>1, <1>7, SwitchCases
  <2>2. QED
    BY <1>7, <2>1, ChunkAlike
<1>8. CASE p.state \notin (UrlStates \ {"s_req_spaces_before_url"})
                    \cup {"s_res_status", "s_header_field", "s_header_value", "s_body_identity",
                          "s_body_identity_eof", "s_chunk_data", "s_chunk_data_almost_done"}
  <2>1. p.mark = "none" /\ q.mark = "none"
    BY <1>1, <1>8, Unmarked DEF Twins
  <2>2. p = q
    BY <2>1, TwinMarks
  <2>3. Switch(p, ch) \in Parser
    BY SwitchSound DEF Twins, Sound, Run
  <2>4. QED
    BY <2>2, <2>3 DEF Alike
<1>9. QED
  BY <1>2, <1>3, <1>4, <1>5, <1>6, <1>7, <1>8

(* Two parsers side by side, in the middle of a turn. *)
Pair(p, q, n) ==
  /\ Alike(p, q) /\ Run(p) /\ Run(q) /\ p.used = n
  /\ (~p.err /\ p.state = "s_chunk_size_start") => p.nread = 0

LEMMA AgainPair ==
  ASSUME NEW p, NEW q, NEW n, Pair(p, q, n), NEW ch \in STRING
  PROVE  Pair(Again(p, ch), Again(q, ch), n)
<1>1. Alike(p, q) /\ p.again = q.again /\ p.err = q.err /\ p.stop = q.stop /\ p \in Parser /\ q \in Parser
  BY AlikeParts DEF Pair, Alike
<1>2. CASE ~(p.again /\ ~p.err /\ ~p.stop)
  <2>1. Again(p, ch) = p /\ Again(q, ch) = q
    BY <1>1, <1>2 DEF Again
  <2>2. QED
    BY <2>1
<1>3. CASE p.again /\ ~p.err /\ ~p.stop
  <2> DEFINE y == [p EXCEPT !.again = FALSE]
             z == [q EXCEPT !.again = FALSE]
  <2>1. Again(p, ch) = Switch(y, ch) /\ Again(q, ch) = Switch(z, ch)
    BY <1>1, <1>3 DEF Again
  <2>2. Alike(y, z)
    BY <1>1, AlikeFacts
  <2>3. Kept(p, y) /\ y.state = p.state /\ y.h = p.h /\ y.flags = p.flags /\ y.clen = p.clen
    BY <1>1 DEF Kept, Parser
  <2>4. Kept(q, z) /\ z.state = q.state /\ z.h = q.h /\ z.flags = q.flags /\ z.clen = q.clen
    BY <1>1 DEF Kept, Parser
  <2> HIDE DEF y, z
  <2>5. View(y) = View(p) /\ View(z) = View(q)
    BY <1>1, <2>3, <2>4, FlushFacts DEF Kept
  <2>6. Good(y)
    <3>1. Live(p) => Live(y)
      BY <2>3, <2>5 DEF Live
    <3>2. QED
      BY <1>3, <2>3, <3>1 DEF Good, Run, Pair, Kept
  <2>7. Good(z)
    <3>1. Live(q) => Live(z)
      BY <2>4, <2>5 DEF Live
    <3>2. QED
      BY <1>1, <1>3, <2>4, <3>1 DEF Good, Run, Pair, Kept
  <2>8. Alike(Switch(y, ch), Switch(z, ch))
    BY <2>2, <2>6, <2>7, SwitchAlike DEF Twins
  <2>9. Sound(y, Switch(y, ch)) /\ Sound(z, Switch(z, ch))
    BY <2>6, <2>7, SwitchSound
  <2>10. y.used = n
    BY <2>3 DEF Kept, Pair
  <2>11. QED
    BY <2>1, <2>8, <2>9, <2>10 DEF Pair, Sound
<1>4. QED
  BY <1>2, <1>3

(* A change of nread or used alone. *)
LEMMA SameRun ==
  ASSUME NEW p, Run(p), NEW y \in Parser, y.c = p.c, y.mark = p.mark, y.seg = p.seg,
         y.err = p.err, y.stop = p.stop, y.state = p.state, y.h = p.h, y.flags = p.flags,
         y.clen = p.clen
  PROVE  Run(y)
<1>1. View(y) = View(p)
  BY FlushFacts DEF Run
<1>2. Live(p) => Live(y)
  BY <1>1 DEF Live
<1>3. QED
  BY <1>2 DEF Run

LEMMA UsedPair ==
  ASSUME NEW p, NEW q, NEW n \in Nat, Pair(p, q, n)
  PROVE  /\ Pair(Used(p), Used(q), Used(p).used) /\ Used(p).used \in {n, n + 1}
         /\ Used(p).err => Used(p).used = n
         /\ ~Used(p).err => Used(p).used = n + 1
<1>1. /\ Alike(p, q) /\ p.err = q.err /\ p.used = n /\ q.used = n /\ p \in Parser /\ q \in Parser
      /\ Run(p) /\ Run(q)
  BY AlikeParts DEF Pair, Alike
<1>2. CASE p.err
  <2>1. Used(p) = p /\ Used(q) = q
    BY <1>1, <1>2 DEF Used
  <2>2. QED
    BY <1>1, <1>2, <2>1
<1>3. CASE ~p.err
  <2> DEFINE m == n + 1
             y == [p EXCEPT !.used = m]
             z == [q EXCEPT !.used = m]
  <2>1. Used(p) = y /\ Used(q) = z
    BY <1>1, <1>3 DEF Used
  <2>a. m \in Nat /\ m = n + 1
    OBVIOUS
  <2> HIDE DEF m
  <2>2. /\ y \in Parser /\ y.c = p.c /\ y.mark = p.mark /\ y.seg = p.seg
        /\ y.err = p.err /\ y.stop = p.stop /\ y.state = p.state /\ y.h = p.h /\ y.flags = p.flags
        /\ y.clen = p.clen /\ y.used = m /\ y.nread = p.nread
    BY <1>1, <2>a DEF Parser
  <2>3. /\ z \in Parser /\ z.c = q.c /\ z.mark = q.mark /\ z.seg = q.seg
        /\ z.err = q.err /\ z.stop = q.stop /\ z.state = q.state /\ z.h = q.h /\ z.flags = q.flags
        /\ z.clen = q.clen
    BY <1>1, <2>a DEF Parser
  <2>4. Alike(y, z)
    BY <1>1, <2>a, AlikeFacts
  <2> HIDE DEF y, z
  <2>5. Run(y)
    BY <1>1, <2>2, SameRun
  <2>6. Run(z)
    BY <1>1, <2>3, SameRun
  <2>7. Pair(y, z, y.used)
    BY <2>2, <2>4, <2>5, <2>6 DEF Pair
  <2>8. QED
    BY <1>3, <2>1, <2>a, <2>2, <2>7
<1>4. QED
  BY <1>2, <1>3

LEMMA TurnPair ==
  ASSUME NEW p, NEW q, NEW n \in Nat, Pair(p, q, n), NEW ch \in STRING
  PROVE  /\ Pair(Turn(p, ch), Turn(q, ch), Turn(p, ch).used)
         /\ Turn(p, ch).used \in {n, n + 1}
         /\ Turn(p, ch).err => Turn(p, ch).used = n
<1>1. /\ Alike(p, q) /\ p.err = q.err /\ p.stop = q.stop /\ p.used = n /\ q.used = n
      /\ p \in Parser /\ q \in Parser /\ p.state = q.state /\ p.nread = q.nread
      /\ Run(p) /\ Run(q) /\ p.nread \in Nat
  BY AlikeParts DEF Pair, Alike, Parser
<1>2. CASE p.err \/ p.stop
  <2>1. Turn(p, ch) = p /\ Turn(q, ch) = q
    BY <1>1, <1>2 DEF Turn
  <2>2. QED
    BY <1>1, <2>1
<1>3. CASE ~(p.err \/ p.stop)
  <2> DEFINE m == IF p.state \in BodyStates \cup ChunkData THEN p.nread ELSE p.nread + 1
             y == [p EXCEPT !.nread = m]
             z == [q EXCEPT !.nread = m]
  <2>1. m \in Nat
    BY <1>1
  <2>2. /\ y = IF p.state \in BodyStates \cup ChunkData THEN p ELSE [p EXCEPT !.nread = p.nread + 1]
        /\ z = IF p.state \in BodyStates \cup ChunkData THEN q ELSE [q EXCEPT !.nread = q.nread + 1]
    BY <1>1 DEF Parser
  <2>3. /\ Turn(p, ch) = IF y.nread > MaxHeader THEN Err(y)
                         ELSE Used(Again(Again(Again(Again(Switch(y, ch), ch), ch), ch), ch))
        /\ Turn(q, ch) = IF z.nread > MaxHeader THEN Err(z)
                         ELSE Used(Again(Again(Again(Again(Switch(z, ch), ch), ch), ch), ch))
    BY <1>1, <1>3, <2>2 DEF Turn
  <2> HIDE DEF m
  <2>4. /\ y \in Parser /\ y.c = p.c /\ y.mark = p.mark /\ y.seg = p.seg
        /\ y.err = p.err /\ y.stop = p.stop /\ y.state = p.state /\ y.h = p.h /\ y.flags = p.flags
        /\ y.clen = p.clen /\ y.used = n /\ y.nread = m
    BY <1>1, <2>1 DEF Parser
  <2>5. /\ z \in Parser /\ z.c = q.c /\ z.mark = q.mark /\ z.seg = q.seg
        /\ z.err = q.err /\ z.stop = q.stop /\ z.state = q.state /\ z.h = q.h /\ z.flags = q.flags
        /\ z.clen = q.clen /\ z.used = n /\ z.nread = m
    BY <1>1, <2>1 DEF Parser
  <2>6. Alike(y, z)
    BY <1>1, <2>1, AlikeFacts
  <2> HIDE DEF y, z
  <2>7. Run(y)
    BY <1>1, <2>4, SameRun
  <2>8. Run(z)
    BY <1>1, <2>5, SameRun
  <2>9. Good(y) /\ Good(z)
    BY <1>1, <1>3, <2>4, <2>5, <2>7, <2>8 DEF Good
  <2>10. Pair(Err(y), Err(z), n) /\ Err(y).used = n
    <3>1. Alike(Err(y), Err(z))
      BY <2>6, AlikeFacts
    <3>2. Sound(y, Err(y)) /\ Sound(z, Err(z))
      BY <2>9, FailedHere
    <3>3. Err(y).used = n /\ Err(y).err
      BY <2>4 DEF Err, Parser
    <3>4. QED
      BY <3>1, <3>2, <3>3 DEF Pair, Sound
  <2>11. Pair(Switch(y, ch), Switch(z, ch), n)
    <3>1. Alike(Switch(y, ch), Switch(z, ch))
      BY <2>6, <2>9, SwitchAlike DEF Twins
    <3>2. Sound(y, Switch(y, ch)) /\ Sound(z, Switch(z, ch))
      BY <2>9, SwitchSound
    <3>3. QED
      BY <2>4, <3>1, <3>2 DEF Pair, Sound
  <2>12. Pair(Again(Again(Again(Again(Switch(y, ch), ch), ch), ch), ch),
              Again(Again(Again(Again(Switch(z, ch), ch), ch), ch), ch), n)
    <3> DEFINE a == Again(Switch(y, ch), ch)
               d == Again(Switch(z, ch), ch)
    <3>1. Pair(a, d, n)
      BY <2>11, AgainPair
    <3> HIDE DEF a, d
    <3>2. Pair(Again(a, ch), Again(d, ch), n)
      BY <3>1, AgainPair
    <3>3. Pair(Again(Again(a, ch), ch), Again(Again(d, ch), ch), n)
      BY <3>2, AgainPair
    <3>4. Pair(Again(Again(Again(a, ch), ch), ch), Again(Again(Again(d, ch), ch), ch), n)
      BY <3>3, AgainPair
    <3>5. QED
      BY <3>4 DEF a, d
  <2> DEFINE v == Again(Again(Again(Again(Switch(y, ch), ch), ch), ch), ch)
             w == Again(Again(Again(Again(Switch(z, ch), ch), ch), ch), ch)
  <2>13. Turn(p, ch) = (IF m > MaxHeader THEN Err(y) ELSE Used(v))
         /\ Turn(q, ch) = (IF m > MaxHeader THEN Err(z) ELSE Used(w))
    BY <2>3, <2>4, <2>5
  <2> HIDE DEF v, w
  <2>14. /\ Pair(Used(v), Used(w), Used(v).used) /\ Used(v).used \in {n, n + 1}
         /\ Used(v).err => Used(v).used = n
    BY <2>12, UsedPair DEF v, w
  <2>15. QED
    BY <2>10, <2>13, <2>14
<1>4. QED
  BY <1>2, <1>3

----------------------------------------------------------------------------
(* REEXECUTE: how often the switch may still run for the same character.   *)

Rank(s) ==
  IF s \in {"s_header_value_lws", "s_header_value_discard_lws"} THEN 3
  ELSE IF s \in {"s_header_field_start", "s_res_status_code"} THEN 2
  ELSE IF s \in {"s_headers_almost_done", "s_res_status_start", "s_header_value",
                 "s_body_identity"} THEN 1
  ELSE 0

Fielded(z) == {"again", "state", "err", "stop"} \subseteq DOMAIN z

Awake(p) == Fielded(p) /\ ~p.err /\ ~p.stop

(* z is asked to go on exactly if p is. *)
Quiet(p, z) == Fielded(z) /\ z.again = p.again

(* z goes on in a state nearer to the end. *)
Down(p, z) == Fielded(z) /\ (z.again => Awake(z) /\ Rank(z.state) < Rank(p.state))

LEMMA QuietFacts ==
  ASSUME NEW p, NEW z, Quiet(p, z)
  PROVE  /\ Quiet(p, Err(z)) /\ Quiet(p, Flush(z))
         /\ \A s : Quiet(p, To(z, s))
         /\ \A f : Quiet(p, Flag(z, f))
         /\ \A k : Quiet(p, Mark(z, k))
         /\ \A k, ch : Quiet(p, Take(z, k, ch)) /\ Quiet(p, Keep(z, ch))
<1>1. Quiet(p, Err(z)) /\ Quiet(p, Flush(z))
  BY DEF Quiet, Fielded, Err, Flush
<1>2. \A s : Quiet(p, To(z, s)) /\ Quiet(p, Flag(z, s)) /\ Quiet(p, Mark(z, s))
  BY DEF Quiet, Fielded, To, Flag, Mark
<1>3. \A k, ch : Quiet(p, Take(z, k, ch)) /\ Quiet(p, Keep(z, ch))
  BY DEF Quiet, Fielded, Take, Mark, Keep
<1>4. QED
  BY <1>1, <1>2, <1>3

(* Other fields. *)
LEMMA QuietFields ==
  ASSUME NEW p, NEW z, Quiet(p, z), NEW e
  PROVE  /\ Quiet(p, [z EXCEPT !.h = e]) /\ Quiet(p, [z EXCEPT !.clen = e])
         /\ Quiet(p, [z EXCEPT !.nread = e]) /\ Quiet(p, [z EXCEPT !.stop = e])
         /\ Quiet(p, [z EXCEPT !.c = e]) /\ Quiet(p, [z EXCEPT !.version = e])
         /\ Quiet(p, [z EXCEPT !.method = e]) /\ Quiet(p, [z EXCEPT !.code = e])
         /\ Quiet(p, [z EXCEPT !.upgrade = e])
BY DEF Quiet, Fielded

LEMMA QuietDown == ASSUME NEW p, ~p.again, NEW z, Quiet(p, z) PROVE Down(p, z)
BY DEF Quiet, Down

(* REEXECUTE in state s. *)
LEMMA RedoDown ==
  ASSUME NEW p, NEW z, Awake(z), NEW s, Rank(s) < Rank(p.state)
  PROVE  Down(p, Redo(z, s)) /\ Down(p, Flush(Redo(z, s)))
<1>1. Awake(Redo(z, s)) /\ Redo(z, s).state = s
  BY DEF Awake, Fielded, Redo
<1>2. Awake(Flush(Redo(z, s))) /\ Flush(Redo(z, s)).state = s
  BY <1>1 DEF Awake, Fielded, Flush
<1>3. QED
  BY <1>1, <1>2 DEF Down, Awake

LEMMA AwakeFacts ==
  ASSUME NEW z, Awake(z)
  PROVE  /\ \A f : Awake(Flag(z, f))
         /\ \A k : Awake(Mark(z, k))
         /\ \A k, ch : Awake(Take(z, k, ch))
         /\ \A e : Awake([z EXCEPT !.h = e]) /\ Awake([z EXCEPT !.clen = e])
<1>1. \A e : Awake(Flag(z, e)) /\ Awake(Mark(z, e))
  BY DEF Awake, Fielded, Flag, Mark
<1>2. \A k, ch : Awake(Take(z, k, ch))
  BY DEF Awake, Fielded, Take, Mark
<1>3. \A e : Awake([z EXCEPT !.h = e]) /\ Awake([z EXCEPT !.clen = e])
  BY DEF Awake, Fielded
<1>4. QED
  BY <1>1, <1>2, <1>3

LEMMA LineDown ==
  ASSUME NEW p, Quiet(p, p), ~p.again, Awake(p), NEW ch
  PROVE  /\ p.state \in MethodStates => Down(p, MethodState(p, ch))
         /\ p.state \in VersionStates => Down(p, VersionState(p, ch))
         /\ p.state \in UrlStates => Down(p, UrlState(p, ch))
         /\ p.state \in ReasonStates => Down(p, ReasonState(p, ch))
<1>1. ASSUME p.state \in MethodStates PROVE Down(p, MethodState(p, ch))
  <2>1. Quiet(p, fresh(p))
    BY DEF Quiet, Fielded, fresh
  <2>2. Quiet(p, To([fresh(p) EXCEPT !.method = ch], "s_req_method"))
    BY <2>1, QuietFacts, QuietFields
  <2>3. /\ Quiet(p, Err(fresh(p))) /\ Quiet(p, Err(p))
        /\ Quiet(p, To(p, "s_req_spaces_before_url"))
    BY <2>1, QuietFacts
  <2>4. Quiet(p, MethodState(p, ch))
    BY <1>1, <2>2, <2>3 DEF MethodState, MethodStates, Expect
  <2>5. QED
    BY <2>4, QuietDown
<1>2. ASSUME p.state \in VersionStates PROVE Down(p, VersionState(p, ch))
  <2>1. Quiet(p, To([p EXCEPT !.version = ch], "s_req_http_end"))
    BY QuietFacts, QuietFields
  <2>2. /\ Quiet(p, Err(p)) /\ Quiet(p, To(p, "s_req_line_almost_done"))
        /\ Quiet(p, To(p, "s_header_field_start"))
    BY QuietFacts
  <2>3. Quiet(p, VersionState(p, ch))
    BY <1>2, <2>1, <2>2 DEF VersionState, VersionStates, Expect
  <2>4. QED
    BY <2>3, QuietDown
<1>3. ASSUME p.state \in UrlStates PROVE Down(p, UrlState(p, ch))
  <2>1. Quiet(p, Mark(p, "url")) /\ Quiet(p, Err(p))
    BY QuietFacts
  <2>2. Quiet(p, Err(Mark(p, "url")))
    BY <2>1, QuietFacts
  <2>3. Quiet(p, Keep(p, ch)) /\ Quiet(p, Keep(Mark(p, "url"), ch))
    BY <2>1, QuietFacts
  <2>4. \A s : Quiet(p, To(Keep(p, ch), s)) /\ Quiet(p, To(Keep(Mark(p, "url"), ch), s))
    BY <2>3, QuietFacts
  <2>5. \A s : Quiet(p, Flush(To(p, s)))
    BY QuietFacts
  <2>6. \A s : Quiet(p, Flush(To([p EXCEPT !.version = "HTTP/0.9"], s)))
    BY QuietFacts, QuietFields
  <2>7. Quiet(p, UrlState(p, ch))
    BY <2>1, <2>2, <2>4, <2>5, <2>6 DEF UrlState
  <2>8. QED
    BY <2>7, QuietDown
<1>4. ASSUME p.state \in ReasonStates PROVE Down(p, ReasonState(p, ch))
  <2>1. CASE p.state = "s_res_status_start"
    <3>1. Rank("s_res_status") < Rank(p.state) /\ Awake(Mark(p, "status"))
      BY <2>1, AwakeFacts DEF Rank
    <3>2. Down(p, Redo(Mark(p, "status"), "s_res_status"))
      BY <3>1, RedoDown
    <3>3. Quiet(p, To(Take(p, "status", ch), "s_res_status"))
      BY QuietFacts
    <3>4. QED
      BY <2>1, <3>2, <3>3, QuietDown DEF ReasonState
  <2>2. CASE p.state = "s_res_status"
    <3>1. \A s : Quiet(p, Flush(To(p, s)))
      BY QuietFacts
    <3>2. Quiet(p, Keep(p, ch))
      BY QuietFacts
    <3>3. Quiet(p, ReasonState(p, ch))
      BY <2>2, <3>1, <3>2 DEF ReasonState
    <3>4. QED
      BY <3>3, QuietDown
  <2>3. QED
    BY <1>4, <2>1, <2>2 DEF ReasonStates
<1>5. QED
  BY <1>1, <1>2, <1>3, <1>4

LEMMA StatusDown ==
  ASSUME NEW p, Quiet(p, p), ~p.again, Awake(p), NEW ch, p.state \in StatusStates
  PROVE  Down(p, StatusLine(p, ch))
<1>1. Quiet(p, fresh(p)) /\ Quiet(p, Err(p))
  BY QuietFacts DEF Quiet, Fielded, fresh
<1>2. /\ Quiet(p, Err(fresh(p))) /\ Quiet(p, To([fresh(p) EXCEPT !.version = ch], "s_res_http_end"))
      /\ Quiet(p, To([p EXCEPT !.code = ch], "s_res_status_code"))
  BY <1>1, QuietFacts, QuietFields
<1>3. \A s : Quiet(p, To(p, s))
  BY QuietFacts
<1>4. CASE p.state = "s_res_status_code"
  <2>1. Rank("s_res_status_start") < Rank(p.state)
    BY <1>4 DEF Rank
  <2>2. Down(p, Redo(p, "s_res_status_start"))
    BY <2>1, RedoDown
  <2>3. QED
    BY <1>1, <1>3, <1>4, <2>2, QuietDown DEF StatusLine
<1>5. CASE p.state # "s_res_status_code"
  <2>1. Quiet(p, StatusLine(p, ch))
    BY <1>1, <1>2, <1>3, <1>5 DEF StatusLine, StatusStates, Expect
  <2>2. QED
    BY <2>1, QuietDown
<1>6. QED
  BY <1>4, <1>5

LEMMA FieldDown ==
  ASSUME NEW p, Quiet(p, p), ~p.again, Awake(p), NEW ch, p.state \in FieldStates
  PROVE  Down(p, FieldState(p, ch))
<1>1. CASE p.state = "s_header_field_start"
  <2>1. Rank("s_headers_almost_done") < Rank(p.state)
    BY <1>1 DEF Rank
  <2>2. Down(p, Redo(p, "s_headers_almost_done"))
    BY <2>1, RedoDown
  <2>3. Quiet(p, To(p, "s_headers_almost_done")) /\ Quiet(p, Err(p))
    BY QuietFacts
  <2>4. Quiet(p, [To(Take(p, "field", ch), "s_header_field") EXCEPT !.h = Known(ch)])
    BY QuietFacts, QuietFields
  <2>5. \A f : Quiet(p, Flag([To(Take(p, "field", ch), "s_header_field") EXCEPT !.h = Known(ch)], f))
    BY <2>4, QuietFacts
  <2>6. QED
    BY <1>1, <2>2, <2>3, <2>5, QuietDown DEF FieldState
<1>2. CASE p.state = "s_header_field"
  <2>1. Quiet(p, Keep(p, ch)) /\ Quiet(p, Err(p)) /\ Quiet(p, Flush(To(p, "s_header_value_discard_ws")))
    BY QuietFacts
  <2>2. Quiet(p, NameChar(p, ch))
    BY <2>1, QuietFields DEF NameChar
  <2>3. QED
    BY <1>2, <2>1, <2>2, QuietDown DEF FieldState
<1>3. QED
  BY <1>1, <1>2 DEF FieldStates

LEMMA StartQuiet ==
  ASSUME NEW p, Quiet(p, p), NEW ch
  PROVE  Quiet(p, ValueStart(p, ch))
<1> DEFINE y == To(Take(p, "value", ch), "s_header_value")
<1>1. Quiet(p, y)
  BY QuietFacts
<1> HIDE DEF y
<1>2. Quiet(p, Err(y)) /\ \A e : Quiet(p, [y EXCEPT !.h = e])
  BY <1>1, QuietFacts, QuietFields
<1>3. Quiet(p, Flag([y EXCEPT !.h = "general"], {"UPGRADE"}))
  BY <1>2, QuietFacts
<1>4. Quiet(p, [y EXCEPT !.clen = Value(ch), !.h = "cl_num"])
  BY <1>1 DEF Quiet, Fielded
<1>5. Quiet(p, Flag([y EXCEPT !.clen = Value(ch), !.h = "cl_num"], {"CONTENTLENGTH"}))
  BY <1>4, QuietFacts
<1>6. QED
  BY <1>1, <1>2, <1>3, <1>5 DEF ValueStart, y

LEMMA CharDown ==
  ASSUME NEW p, Quiet(p, p), ~p.again, Awake(p), NEW ch, p.state = "s_header_value"
  PROVE  Down(p, ValueChar(p, ch))
<1> DEFINE y == Keep(p, ch)
           H(h) == [y EXCEPT !.h = h]
<1>1. CASE ch = "LF"
  <2>1. Rank("s_header_almost_done") < Rank(p.state)
    BY DEF Rank
  <2>2. Down(p, Flush(Redo(p, "s_header_almost_done")))
    BY <2>1, RedoDown
  <2>3. QED
    BY <1>1, <2>2 DEF ValueChar
<1>2. CASE ch = "CR"
  <2>1. Quiet(p, Flush(To(p, "s_header_almost_done")))
    BY QuietFacts
  <2>2. QED
    BY <1>2, <2>1, QuietDown DEF ValueChar
<1>3. CASE ch \notin {"LF", "CR"}
  <2>1. Quiet(p, y) /\ Quiet(p, Err(p))
    BY QuietFacts
  <2> HIDE DEF y
  <2>2. Quiet(p, Err(y)) /\ \A h : Quiet(p, H(h))
    BY <2>1, QuietFacts, QuietFields
  <2>3. \A h, f : Quiet(p, Flag(H(h), f))
    BY <2>2, QuietFacts
  <2>4. Quiet(p, Grow(y, 10, Value(ch)))
    BY <2>1, <2>2, QuietFields DEF Grow
  <2> HIDE DEF H
  <2>5. Quiet(p, ValueChar(p, ch))
    BY <1>3, <2>1, <2>2, <2>3, <2>4 DEF ValueChar, H, y
  <2>6. QED
    BY <2>5, QuietDown
<1>4. QED
  BY <1>1, <1>2, <1>3

LEMMA EdgeDown ==
  ASSUME NEW p, Quiet(p, p), ~p.again, Awake(p), NEW ch, p.state \in EdgeStates
  PROVE  Down(p, ValueEdge(p, ch))
<1>1. Quiet(p, Err(p)) /\ Quiet(p, ValueStart(p, ch)) /\ \A s : Quiet(p, To(p, s))
  BY QuietFacts, StartQuiet
<1>2. CASE p.state = "s_header_value_discard_lws"
  <2>1. Rank("s_header_field_start") < Rank(p.state)
    BY <1>2 DEF Rank
  <2>2. Awake(Mark(Flag(p, TokenFlag(p.h)), "value"))
    BY AwakeFacts
  <2>3. Down(p, Flush(Redo(Mark(Flag(p, TokenFlag(p.h)), "value"), "s_header_field_start")))
    BY <2>1, <2>2, RedoDown
  <2>4. QED
    BY <1>1, <1>2, <2>3, QuietDown DEF ValueEdge
<1>3. CASE p.state = "s_header_value_lws"
  <2>1. Rank("s_header_field_start") < Rank(p.state) /\ Rank("s_header_value_start") < Rank(p.state)
    BY <1>3 DEF Rank
  <2>2. \A e : Awake([p EXCEPT !.h = e]) /\ Awake(Flag(p, e))
    BY AwakeFacts
  <2>3. Down(p, Redo(Flag(p, TokenFlag(p.h)), "s_header_field_start"))
    BY <2>1, <2>2, RedoDown
  <2>4. Down(p, Redo([p EXCEPT !.h = IF @ = "cl_num" THEN "cl_ws" ELSE @], "s_header_value_start"))
    BY <2>1, <2>2, RedoDown
  <2>5. QED
    BY <1>3, <2>3, <2>4 DEF ValueEdge
<1>4. CASE p.state \notin {"s_header_value_discard_lws", "s_header_value_lws"}
  <2>1. Quiet(p, ValueEdge(p, ch))
    BY <1>1, <1>4 DEF ValueEdge, EdgeStates, Expect
  <2>2. QED
    BY <2>1, QuietDown
<1>5. QED
  BY <1>2, <1>3, <1>4

LEMMA CompleteQuiet == ASSUME NEW p, NEW z, Quiet(p, z) PROVE Quiet(p, Complete(z))
<1>1. Quiet(p, NewMessage(z))
  BY QuietFacts DEF NewMessage
<1>2. QED
  BY <1>1, QuietFields DEF Complete

LEMMA HeadersDown ==
  ASSUME NEW p, Quiet(p, p), ~p.again, Awake(p), NEW ch
  PROVE  /\ p.state = "s_headers_almost_done" => Down(p, HeadersAlmostDone(p, ch))
         /\ Quiet(p, HeadersDone(p))
<1>1. ASSUME p.state = "s_headers_almost_done" PROVE Down(p, HeadersAlmostDone(p, ch))
  <2>1. Rank("s_message_done") < Rank(p.state) /\ Rank("s_headers_done") < Rank(p.state)
    BY <1>1 DEF Rank
  <2>2. Quiet(p, Err(p))
    BY QuietFacts
  <2> DEFINE z == [p EXCEPT !.upgrade = IF {"UPGRADE", "CONN_UPGRADE"} \subseteq p.flags
                                        THEN p.type = "req" \/ p.code = "101"
                                        ELSE p.method = "CONNECT",
                            !.c = on_headers_complete(@)]
  <2>3. Awake(z)
    BY DEF Awake, Fielded
  <2>4. HeadersAlmostDone(p, ch) \in {Err(p), Redo(p, "s_message_done"), Redo(z, "s_headers_done")}
    BY DEF HeadersAlmostDone
  <2> HIDE DEF z
  <2>5. Down(p, Redo(p, "s_message_done")) /\ Down(p, Redo(z, "s_headers_done"))
    BY <2>1, <2>3, RedoDown
  <2>6. QED
    BY <2>2, <2>4, <2>5, QuietDown
<1>2. Quiet(p, HeadersDone(p))
  <2> DEFINE z == [p EXCEPT !.nread = 0]
  <2>1. Quiet(p, z)
    BY QuietFields
  <2>2. HeadersDone(p) = AfterHeaders(z)
    BY DEF HeadersDone
  <2> HIDE DEF z
  <2>3. Quiet(p, Complete(z)) /\ Quiet(p, [Complete(z) EXCEPT !.stop = TRUE])
    BY <2>1, CompleteQuiet, QuietFields
  <2>4. Quiet(p, Err(z)) /\ \A s : Quiet(p, To(z, s))
    BY <2>1, QuietFacts
  <2>5. QED
    BY <2>2, <2>3, <2>4 DEF AfterHeaders
<1>3. QED
  BY <1>1, <1>2

LEMMA BodyDown ==
  ASSUME NEW p, Quiet(p, p), ~p.again, Awake(p), NEW ch, p.state \in BodyStates
  PROVE  Down(p, BodyState(p, ch))
<1>1. /\ Quiet(p, Take(p, "body", ch))
      /\ \A e : Quiet(p, [Take(p, "body", ch) EXCEPT !.clen = e]) /\ Quiet(p, [p EXCEPT !.stop = e])
  BY QuietFacts, QuietFields
<1>2. CASE p.state = "s_body_identity"
  <2>1. Rank("s_message_done") < Rank(p.state)
    BY <1>2 DEF Rank
  <2>2. Awake([Take(p, "body", ch) EXCEPT !.clen = 0])
    BY AwakeFacts
  <2>3. Down(p, LastByte(p, ch))
    BY <2>1, <2>2, RedoDown DEF LastByte
  <2>4. QED
    BY <1>1, <1>2, <2>3, QuietDown DEF BodyState
<1>3. CASE p.state = "s_message_done"
  <2>1. Quiet(p, Complete([p EXCEPT !.stop = p.upgrade]))
    BY <1>1, CompleteQuiet
  <2>2. QED
    BY <1>3, <2>1, QuietDown DEF BodyState
<1>4. CASE p.state = "s_body_identity_eof"
  BY <1>1, <1>4, QuietDown DEF BodyState
<1>5. QED
  BY <1>2, <1>3, <1>4 DEF BodyStates

LEMMA ChunkDown ==
  ASSUME NEW p, Quiet(p, p), ~p.again, Awake(p), NEW ch, p.state \in ChunkData \cup ChunkHead
  PROVE  Down(p, ChunkState(p, ch))
<1> DEFINE y == [Take(p, "body", ch) EXCEPT !.clen = @ - 1]
           z == [p EXCEPT !.nread = 0]
<1>1. /\ Quiet(p, Err(p)) /\ (\A s : Quiet(p, To(p, s)) /\ Quiet(p, Flush(To(p, s))))
      /\ \A e, s : Quiet(p, To([p EXCEPT !.clen = e], s))
  BY QuietFacts, QuietFields
<1>2. Quiet(p, Grow(p, 16, Value(ch)))
  BY <1>1, QuietFields DEF Grow
<1>3. Quiet(p, y) /\ Quiet(p, z)
  BY QuietFacts, QuietFields
<1> HIDE DEF y, z
<1>4. /\ Quiet(p, To(y, "s_chunk_data_almost_done")) /\ \A s : Quiet(p, To(z, s))
      /\ \A s : Quiet(p, To(Flag(z, {"TRAILING"}), s))
  BY <1>3, QuietFacts
<1>5. Quiet(p, ChunkState(p, ch))
  <2>1. CASE p.state = "s_chunk_data"
    BY <1>3, <1>4, <2>1 DEF ChunkState, y
  <2>2. CASE p.state # "s_chunk_data"
    BY <1>1, <1>2, <1>4, <2>2 DEF ChunkState, ChunkData, ChunkHead, Expect, z
  <2>3. QED
    BY <2>1, <2>2
<1>6. QED
  BY <1>5, QuietDown

LEMMA SwitchDown ==
  ASSUME NEW p, Good(p), ~p.again, NEW ch
  PROVE  Down(p, Switch(p, ch))
<1>1. p.state \in States /\ Quiet(p, p) /\ Awake(p)
  BY DEF Good, Run, Parser, Quiet, Awake, Fielded
<1>2. /\ p.state \in BodyStates => Down(p, BodyState(p, ch))
      /\ p.state \in ChunkData \cup ChunkHead => Down(p, ChunkState(p, ch))
      /\ p.state \in UrlStates => Down(p, UrlState(p, ch))
      /\ p.state \in FieldStates => Down(p, FieldState(p, ch))
      /\ p.state \in EdgeStates => Down(p, ValueEdge(p, ch))
  BY <1>1, BodyDown, ChunkDown, LineDown, FieldDown, EdgeDown
<1>3. /\ Down(p, ValueStart(p, ch)) /\ Down(p, HeadersDone(p))
      /\ p.state = "s_header_value" => Down(p, ValueChar(p, ch))
      /\ p.state = "s_headers_almost_done" => Down(p, HeadersAlmostDone(p, ch))
  BY <1>1, StartQuiet, HeadersDown, CharDown, QuietDown
<1>4. /\ p.state \in MethodStates => Down(p, MethodState(p, ch))
      /\ p.state \in VersionStates => Down(p, VersionState(p, ch))
      /\ p.state \in ReasonStates => Down(p, ReasonState(p, ch))
      /\ p.state \in StatusStates => Down(p, StatusLine(p, ch))
  BY <1>1, LineDown, StatusDown
<1>5. QED
  BY <1>1, <1>2, <1>3, <1>4
     DEF Switch, States, LineStates, HeadStates, TailStates

(* The parser goes on, if at all, in a state of rank less than k. *)
Below(p, k) == p.again => Awake(p) /\ Rank(p.state) < k

LEMMA AgainBelow ==
  ASSUME NEW p, Run(p), NEW k \in Nat, Below(p, k + 1), NEW ch
  PROVE  Below(Again(p, ch), k)
<1>1. CASE ~p.again
  <2>1. Again(p, ch) = p
    BY <1>1 DEF Again
  <2>2. QED
    BY <1>1, <2>1 DEF Below
<1>2. CASE p.again
  <2> DEFINE y == [p EXCEPT !.again = FALSE]
  <2>1. Again(p, ch) = Switch(y, ch)
    BY <1>2 DEF Again, Below, Awake
  <2>2. /\ y \in Parser /\ y.c = p.c /\ y.mark = p.mark /\ y.seg = p.seg
        /\ y.err = p.err /\ y.stop = p.stop /\ y.state = p.state /\ y.h = p.h
        /\ y.flags = p.flags /\ y.clen = p.clen /\ ~y.again
    BY DEF Run, Parser
  <2> HIDE DEF y
  <2>3. Good(y)
    BY <1>2, <2>2, SameRun DEF Good, Below, Awake
  <2>4. Down(y, Switch(y, ch))
    BY <2>2, <2>3, SwitchDown
  <2>5. Rank(y.state) < k + 1 /\ \A s : Rank(s) \in Nat
    BY <1>2, <2>2 DEF Below, Rank
  <2>6. QED
    BY <2>1, <2>4, <2>5 DEF Below, Down
<1>3. QED
  BY <1>1, <1>2

LEMMA AgainRun == ASSUME NEW p, Run(p), NEW ch \in STRING PROVE Run(Again(p, ch))
<1>1. CASE ~(p.again /\ ~p.err /\ ~p.stop)
  BY <1>1 DEF Again
<1>2. CASE p.again /\ ~p.err /\ ~p.stop
  <2> DEFINE y == [p EXCEPT !.again = FALSE]
  <2>1. Again(p, ch) = Switch(y, ch)
    BY <1>2 DEF Again
  <2>2. /\ y \in Parser /\ y.c = p.c /\ y.mark = p.mark /\ y.seg = p.seg
        /\ y.err = p.err /\ y.stop = p.stop /\ y.state = p.state /\ y.h = p.h
        /\ y.flags = p.flags /\ y.clen = p.clen
    BY DEF Run, Parser
  <2> HIDE DEF y
  <2>3. Good(y)
    BY <1>2, <2>2, SameRun DEF Good
  <2>4. QED
    BY <2>1, <2>3, SwitchSound DEF Sound
<1>3. QED
  BY <1>1, <1>2

(* After three more runs of the switch the character has been dealt with. *)
LEMMA TurnEnds ==
  ASSUME NEW p, NEW n, Pair(p, p, n), ~p.again, NEW ch \in STRING
  PROVE  ~Turn(p, ch).again
<1>1. Run(p) /\ p \in Parser /\ p.nread \in Nat
  BY DEF Pair, Run, Parser
<1>2. CASE p.err \/ p.stop
  BY <1>2 DEF Turn
<1>3. CASE ~(p.err \/ p.stop)
  <2> DEFINE m == IF p.state \in BodyStates \cup ChunkData THEN p.nread ELSE p.nread + 1
             y == [p EXCEPT !.nread = m]
  <2>1. m \in Nat
    BY <1>1
  <2>2. y = IF p.state \in BodyStates \cup ChunkData THEN p ELSE [p EXCEPT !.nread = p.nread + 1]
    BY <1>1 DEF Parser
  <2> DEFINE a == Switch(y, ch)
             b == Again(a, ch)
             c == Again(b, ch)
             d == Again(c, ch)
             e == Again(d, ch)
  <2>3. Turn(p, ch) \in {Err(y), Used(e)}
    BY <1>3, <2>2 DEF Turn
  <2> HIDE DEF m
  <2>4. /\ y \in Parser /\ y.c = p.c /\ y.mark = p.mark /\ y.seg = p.seg
        /\ y.err = p.err /\ y.stop = p.stop /\ y.state = p.state /\ y.h = p.h
        /\ y.flags = p.flags /\ y.clen = p.clen /\ ~y.again /\ y.used = p.used
    BY <1>1, <2>1 DEF Parser
  <2> HIDE DEF y
  <2>5. Good(y)
    BY <1>1, <1>3, <2>4, SameRun DEF Good
  <2>6. Down(y, a) /\ Rank(y.state) <= 3
    BY <2>4, <2>5, SwitchDown DEF Rank
  <2>7. Below(a, 3) /\ \A s : Rank(s) \in Nat
    BY <2>6 DEF Below, Down, Rank
  <2>8. Run(a) /\ a \in Parser
    BY <2>5, SwitchSound DEF Sound, Run
  <2> HIDE DEF a
  <2>9. Below(b, 2) /\ Run(b)
    BY <2>7, <2>8, AgainBelow, AgainRun
  <2> HIDE DEF b
  <2>10. Below(c, 1) /\ Run(c)
    BY <2>9, AgainBelow, AgainRun
  <2> HIDE DEF c
  <2>11. Below(d, 0) /\ Run(d)
    BY <2>10, AgainBelow, AgainRun
  <2>12. ~d.again
    BY <2>7, <2>11 DEF Below
  <2> HIDE DEF d
  <2>13. ~e.again /\ e \in Parser
    BY <2>11, <2>12 DEF Again, Run
  <2> HIDE DEF e
  <2>14. ~Err(y).again /\ ~Used(e).again
    BY <2>4, <2>13 DEF Err, Used, Parser
  <2>15. QED
    BY <2>3, <2>14
<1>4. QED
  BY <1>2, <1>3

----------------------------------------------------------------------------
(* The loop over a piece.                                                 *)

(* Induction over a set of numbers. *)
LEMMA UpTo ==
  ASSUME NEW N \in Nat, NEW S, 0 \in S, \A n \in Nat : n < N /\ n \in S => n + 1 \in S
  PROVE  \A n \in 0..N : n \in S
<1> DEFINE R == OpToRel(<, Nat)
           T == {n \in 0..N : n \notin S}
<1>1. SUFFICES ASSUME T # {} PROVE FALSE
  OBVIOUS
<1>2. IsWellFoundedOn(R, Nat)
  BY NatLessThanWellFounded
<1>3. T \in SUBSET Nat
  OBVIOUS
<1>4. PICK m \in T : \A n \in T : ~(<<n, m>> \in R)
  <2> HIDE DEF R, T
  <2> QED
    BY <1>1, <1>2, <1>3, WFMin
<1>5. \A n \in Nat : n < m => <<n, m>> \in R
  BY DEF OpToRel
<1> HIDE DEF R
<1>6. m # 0 /\ m \in Nat /\ m <= N
  OBVIOUS
<1>7. m - 1 \in Nat /\ m - 1 < m /\ m - 1 < N /\ (m - 1) + 1 = m
  BY <1>6
<1>8. m - 1 \notin T
  BY <1>4, <1>5, <1>7
<1>9. m - 1 \in S
  BY <1>7, <1>8
<1>10. QED
  BY <1>7, <1>9

(* The parsers a piece leads to, one after the other. *)
Steps(g, p, s) == g = [k \in 0..Len(s) |-> IF k = 0 THEN p ELSE Turn(g[k - 1], s[k])]

Path(g, p, s) ==
  /\ Feed(p, s) = g[Len(s)] /\ g[0] = p
  /\ \A k \in 0..(Len(s) - 1) : g[k + 1] = Turn(g[k], s[k + 1])

LEMMA FeedFacts == ASSUME NEW p, NEW s \in Text PROVE \E g : Path(g, p, s)
<1> DEFINE N == Len(s)
           Good1(g, n) == g = [k \in 0..n |-> IF k = 0 THEN p ELSE Turn(g[k - 1], s[k])]
           S == {n \in Nat : \E g : Good1(g, n)}
<1>0. N \in Nat
  BY LenProperties DEF Text
<1> HIDE DEF N
<1>1. 0 \in S
  <2>1. Good1([k \in 0..0 |-> p], 0)
    OBVIOUS
  <2>2. QED
    BY <2>1
<1>2. ASSUME NEW n \in Nat, n \in S PROVE n + 1 \in S
  <2>1. PICK g : Good1(g, n)
    BY <1>2
  <2> DEFINE f == [k \in 0..(n + 1) |-> IF k = n + 1 THEN Turn(g[n], s[n + 1]) ELSE g[k]]
             e == [k \in 0..(n + 1) |-> IF k = 0 THEN p ELSE Turn(f[k - 1], s[k])]
  <2>2. \A k \in 0..n : f[k] = g[k] /\ g[k] = IF k = 0 THEN p ELSE Turn(g[k - 1], s[k])
    BY <2>1
  <2>3. ASSUME NEW k \in 0..(n + 1) PROVE f[k] = e[k]
    <3>1. CASE k = 0
      <4>1. 0 \in 0..n /\ 0 \in 0..(n + 1)
        OBVIOUS
      <4>2. f[0] = p
        BY <2>2, <4>1
      <4>3. e[0] = p
        BY <4>1
      <4>4. QED
        BY <3>1, <4>2, <4>3
    <3>2. CASE k \in 1..n
      <4>1. k - 1 \in 0..n /\ k \in 0..n
        BY <3>2
      <4>2. f[k - 1] = g[k - 1] /\ f[k] = Turn(g[k - 1], s[k])
        BY <2>2, <3>2, <4>1
      <4>3. QED
        BY <3>2, <4>2
    <3>3. CASE k = n + 1
      <4>1. f[n] = g[n] /\ f[k] = Turn(g[n], s[n + 1]) /\ k - 1 = n /\ k # 0
        BY <2>2, <3>3
      <4>2. QED
        BY <3>3, <4>1
    <3>4. QED
      BY <3>1, <3>2, <3>3
  <2>4. f = e
    <3>1. DOMAIN f = 0..(n + 1) /\ DOMAIN e = 0..(n + 1) /\ f = [k \in 0..(n + 1) |-> f[k]]
          /\ e = [k \in 0..(n + 1) |-> e[k]]
      OBVIOUS
    <3> HIDE DEF f, e
    <3>2. QED
      BY <2>3, <3>1
  <2>5. Good1(f, n + 1)
    BY <2>4
  <2>6. n + 1 \in Nat
    OBVIOUS
  <2> HIDE DEF f, Good1
  <2>7. QED
    BY <2>5, <2>6
<1> HIDE DEF S
<1>3. N \in S
  BY <1>0, <1>1, <1>2, UpTo
<1>4. \E g : Steps(g, p, s)
  BY <1>3 DEF S, N, Steps
<1> DEFINE a == CHOOSE g : Steps(g, p, s)
<1>5. Steps(a, p, s)
  BY <1>4, Zenon
<1>6. Feed(p, s) = a[Len(s)]
  BY Zenon DEF Feed, Steps
<1> HIDE DEF a
<1>7. a[0] = p
  BY <1>0, <1>5 DEF Steps, N
<1>8. ASSUME NEW k \in 0..(Len(s) - 1) PROVE a[k + 1] = Turn(a[k], s[k + 1])
  <2>1. k + 1 \in 0..Len(s) /\ k + 1 # 0 /\ (k + 1) - 1 = k
    BY <1>0 DEF N
  <2>2. QED
    BY <1>5, <2>1 DEF Steps
<1>9. Path(a, p, s)
  BY <1>6, <1>7, <1>8 DEF Path
<1>10. QED
  BY <1>9

LEMMA FeedPair ==
  ASSUME NEW p, NEW q, Pair(p, q, 0), NEW s \in Text, ~p.err
  PROVE  LET y == Feed(p, s)
         IN  /\ Pair(y, Feed(q, s), y.used) /\ (~p.again => ~y.again)
             /\ y.used \in 0..Len(s) /\ (y.err => y.used # Len(s))
<1>0. Len(s) \in Nat /\ \A k \in 1..Len(s) : s[k] \in STRING
  BY LenProperties, ElementOfSeq DEF Text
<1>1. PICK g : Path(g, p, s)
  BY FeedFacts
<1>2. PICK f : Path(f, q, s)
  BY FeedFacts
<1> DEFINE Fine(k) == /\ Pair(g[k], f[k], g[k].used) /\ g[k].used \in 0..k
                      /\ ~p.again => ~g[k].again
                      /\ g[k].err => g[k].used < k
           S == {k \in Nat : Fine(k)}
<1>3. 0 \in S
  <2>1. p.used = 0
    BY DEF Pair
  <2>2. QED
    BY <1>1, <1>2, <2>1 DEF Path
<1>4. ASSUME NEW k \in Nat, k < Len(s), k \in S PROVE k + 1 \in S
  <2>1. k \in 0..(Len(s) - 1) /\ s[k + 1] \in STRING
    BY <1>0, <1>4
  <2>2. g[k + 1] = Turn(g[k], s[k + 1]) /\ f[k + 1] = Turn(f[k], s[k + 1])
    BY <1>1, <1>2, <2>1 DEF Path
  <2>3. Pair(g[k], f[k], g[k].used) /\ g[k].used \in 0..k /\ g[k].used \in Nat
    BY <1>4
  <2> DEFINE a == g[k]
             b == f[k]
             n == a.used
             ch == s[k + 1]
             z == Turn(a, ch)
  <2> HIDE DEF a, b, n, ch
  <2>a. Pair(a, b, n) /\ n \in Nat /\ ch \in STRING
    BY <2>1, <2>3 DEF a, b, n, ch
  <2>4. /\ Pair(z, Turn(b, ch), z.used)
        /\ z.used \in {n, n + 1} /\ (z.err => z.used = n)
    BY <2>a, TurnPair
  <2> HIDE DEF z
  <2>5. n \in 0..k
    BY <2>3 DEF n, a
  <2>6. z.used \in 0..(k + 1) /\ (z.err => z.used < k + 1)
    BY <2>4, <2>5
  <2>7. ~p.again => ~z.again
    <3>1. ~p.again => ~a.again
      BY <1>4 DEF a
    <3>2. Pair(a, a, n)
      BY <2>a DEF Pair, Alike
    <3>3. QED
      BY <2>a, <3>1, <3>2, TurnEnds DEF z
  <2>8. Fine(k + 1)
    BY <2>2, <2>4, <2>6, <2>7 DEF z, a, b, ch
  <2>9. QED
    BY <2>8
<1> HIDE DEF S
<1>5. Len(s) \in S
  <2>1. \A n \in 0..Len(s) : n \in S
    BY <1>0, <1>3, <1>4, UpTo
  <2>2. Len(s) \in 0..Len(s)
    BY <1>0
  <2>3. QED
    BY <2>1, <2>2
<1>6. QED
  BY <1>0, <1>1, <1>2, <1>5 DEF S, Path

----------------------------------------------------------------------------
(* http_parser_execute.                                                    *)

(* What is marked where a piece begins, in each state. *)
LEMMA BeginMark ==
  ASSUME NEW p, Calm(p), ~p.err
  PROVE  LET y == [p EXCEPT !.used = 0, !.stop = FALSE]
         IN  \/ Begin(p) = y /\ MarkOK(p.state, "none")
             \/ \E k \in Kinds : /\ Begin(p) = Mark(y, k) /\ MarkOK(p.state, k)
                                 /\ k = "field" => ~p.c.lastVal
                                 /\ k = "value" => p.c.lastVal
<1> DEFINE y == [p EXCEPT !.used = 0, !.stop = FALSE]
<1>1. p \in Parser /\ p.mark = "none" /\ LastOK(p.state, View(p))
  BY DEF Calm, Live
<1>2. View(p) = p.c
  BY <1>1, FlushFacts
<1> HIDE DEF y
<1>3. CASE p.state = "s_header_field"
  <2>1. Begin(p) = Mark(y, "field") /\ MarkOK(p.state, "field") /\ ~p.c.lastVal
    BY <1>1, <1>2, <1>3 DEF Begin, MarkOK, UrlStates, UrlEnds, LastOK, y
  <2>2. QED
    BY <2>1 DEF Kinds, y
<1>4. CASE p.state = "s_header_value"
  <2>1. Begin(p) = Mark(y, "value") /\ MarkOK(p.state, "value") /\ p.c.lastVal
    BY <1>1, <1>2, <1>4 DEF Begin, MarkOK, UrlStates, UrlEnds, LastOK, y
  <2>2. QED
    BY <2>1 DEF Kinds, y
<1>5. CASE p.state \in UrlStates \ {"s_req_spaces_before_url"}
  <2>1. Begin(p) = Mark(y, "url") /\ MarkOK(p.state, "url")
    BY <1>5 DEF Begin, MarkOK, UrlStates, UrlEnds, y
  <2>2. QED
    BY <2>1 DEF Kinds, y
<1>6. CASE p.state = "s_res_status"
  <2>1. Begin(p) = Mark(y, "status") /\ MarkOK(p.state, "status")
    BY <1>6 DEF Begin, MarkOK, UrlStates, UrlEnds, y
  <2>2. QED
    BY <2>1 DEF Kinds, y
<1>7. CASE /\ p.state \notin UrlStates \ {"s_req_spaces_before_url"}
           /\ p.state \notin {"s_header_field", "s_header_value", "s_res_status"}
  BY <1>7 DEF Begin, MarkOK, y
<1>8. QED
  BY <1>3, <1>4, <1>5, <1>6, <1>7

LEMMA BeginFacts ==
  ASSUME NEW p, Calm(p), ~p.err
  PROVE  /\ Pair(Begin(p), Begin(p), 0) /\ ~Begin(p).err
         /\ View(Begin(p)) = p.c
         /\ Control(Begin(p)) = Control([p EXCEPT !.used = 0, !.stop = FALSE])
<1> DEFINE y == [p EXCEPT !.used = 0, !.stop = FALSE]
           z == Begin(p)
<1>1. p \in Parser /\ p.mark = "none" /\ p.seg = <<>> /\ OneOK(p.c) /\ Live(p) /\ Asserts(p)
      /\ p.c \in Context
  BY DEF Calm, Parser
<1>2. View(p) = p.c
  BY <1>1, FlushFacts
<1>3. /\ y \in Parser /\ y.c = p.c /\ y.mark = "none" /\ y.seg = <<>> /\ y.err = p.err
      /\ y.stop = FALSE /\ y.used = 0 /\ y.state = p.state /\ y.h = p.h /\ y.flags = p.flags
      /\ y.clen = p.clen /\ y.nread = p.nread
  BY <1>1 DEF Parser
<1> HIDE DEF y
<1>4. /\ z \in Parser /\ Control(z) = Control(y) /\ z.c = p.c /\ z.seg = <<>>
      /\ MarkOK(p.state, z.mark) /\ View(z) = p.c
  <2>1. CASE z = y /\ MarkOK(p.state, "none")
    BY <1>3, <2>1, FlushFacts
  <2>2. ASSUME NEW k \in Kinds, z = Mark(y, k), MarkOK(p.state, k),
               k = "field" => ~p.c.lastVal, k = "value" => p.c.lastVal
        PROVE  /\ z \in Parser /\ Control(z) = Control(y) /\ z.c = p.c /\ z.seg = <<>>
               /\ MarkOK(p.state, z.mark) /\ View(z) = p.c
    <3>1. /\ z \in Parser /\ Control(z) = Control(y) /\ z.mark = k /\ z.c = p.c /\ z.seg = <<>>
          /\ View(z) = Data(p.c, k, <<>>)
      BY <1>3, <2>2, MarkFacts
    <3>2. Data(p.c, k, <<>>) = p.c
      BY <1>1, <2>2, EmptyData
    <3>3. QED
      BY <2>2, <3>1, <3>2
  <2>3. \/ z = y /\ MarkOK(p.state, "none")
        \/ \E k \in Kinds : /\ z = Mark(y, k) /\ MarkOK(p.state, k)
                            /\ k = "field" => ~p.c.lastVal
                            /\ k = "value" => p.c.lastVal
    BY BeginMark DEF y
  <2>4. QED
    BY <2>1, <2>2, <2>3
<1> HIDE DEF z
<1>5. /\ z.state = p.state /\ z.h = p.h /\ z.flags = p.flags /\ z.clen = p.clen /\ z.err = p.err
      /\ z.stop = FALSE /\ z.used = 0 /\ z.nread = p.nread
  BY <1>3, <1>4 DEF Control
<1>6. Live(z)
  BY <1>1, <1>2, <1>4, <1>5 DEF Live
<1>7. Run(z)
  BY <1>1, <1>4, <1>5, <1>6 DEF Run
<1>8. Pair(z, z, 0)
  BY <1>1, <1>4, <1>5, <1>7 DEF Pair, Alike, Asserts
<1>9. QED
  BY <1>4, <1>5, <1>8 DEF z, y

(* The parser between two pieces, and the one that read them in one go. *)
LEMMA BeginLinked ==
  ASSUME NEW p, Calm(p), ~p.err, ~p.stop, p.used = 0, NEW w, Run(w), p = Flush(w)
  PROVE  Pair(Begin(p), w, 0)
<1>1. p \in Parser /\ w \in Parser
  BY DEF Calm, Run
<1>2. Control(w) = Control(p) /\ View(w) = p.c
  BY <1>1, FlushFacts DEF View
<1>3. [p EXCEPT !.used = 0, !.stop = FALSE] = p
  BY <1>1 DEF Parser
<1>4. Control(Begin(p)) = Control(w) /\ View(Begin(p)) = View(w)
  BY <1>2, <1>3, BeginFacts
<1>5. Pair(Begin(p), Begin(p), 0)
  BY BeginFacts
<1>6. QED
  BY <1>1, <1>4, <1>5 DEF Pair, Alike

(* At the end of the piece. *)
LEMMA EndFacts ==
  ASSUME NEW p, NEW q, Pair(p, q, p.used)
  PROVE  /\ Calm(AtEnd(p)) /\ AtEnd(p).used = p.used /\ AtEnd(p).err = p.err
         /\ (~p.err /\ ~p.stop) =>
              AtEnd(p) = Flush(p) /\ [AtEnd(p) EXCEPT !.used = 0] = Flush([q EXCEPT !.used = 0])
<1>1. Run(p) /\ Run(q) /\ p \in Parser /\ q \in Parser /\ Alike(p, q)
  BY DEF Pair, Run
<1>2. CASE p.err \/ p.stop
  <2>1. AtEnd(p) = p
    BY <1>2 DEF AtEnd
  <2>2. Calm(p)
    BY <1>2 DEF Calm, Run, Pair, Live, LenOK, Asserts
  <2>3. QED
    BY <1>2, <2>1, <2>2
<1>3. CASE ~p.err /\ ~p.stop
  <2> DEFINE z == Flush(p)
  <2>1. AtEnd(p) = z
    BY <1>3 DEF AtEnd
  <2>2. /\ z \in Parser /\ z.mark = "none" /\ Control(z) = Control(p) /\ z.c = View(p)
    BY <1>1, FlushFacts DEF View
  <2>3. View(z) = View(p)
    BY <2>2, FlushFacts
  <2>4. z.seg = <<>>
    BY <1>1, TextFacts DEF Flush, Parser, Run
  <2> HIDE DEF z
  <2>5. /\ z.state = p.state /\ z.h = p.h /\ z.flags = p.flags /\ z.clen = p.clen /\ z.err = p.err
        /\ z.stop = p.stop /\ z.used = p.used /\ z.nread = p.nread
    BY <2>2 DEF Control
  <2>6. OneOK(View(p))
    <3>1. CASE p.mark = "none"
      BY <1>1, <3>1, FlushFacts DEF Run
    <3>2. CASE p.mark # "none"
      <4>1. p.mark \in Kinds /\ p.c \in Context /\ p.seg \in Text /\ OneOK(p.c)
        BY <1>1, <3>2 DEF Parser, Marks, Run
      <4>2. View(p) = Data(p.c, p.mark, p.seg)
        BY <1>1, <3>2, FlushFacts
      <4>3. OneOK(Data(p.c, p.mark, p.seg))
        BY <4>1, DataKeeps
      <4>4. QED
        BY <4>2, <4>3
    <3>3. QED
      BY <3>1, <3>2
  <2>7. Live(z)
    <3>1. Live(p)
      BY <1>1, <1>3 DEF Run
    <3>2. QED
      BY <2>3, <2>5, <3>1 DEF Live
  <2>8. Asserts(z)
    <3>1. p.state = "s_chunk_size_start" => p.nread = 0
      BY <1>3 DEF Pair
    <3>2. QED
      BY <2>5, <2>7, <3>1 DEF Asserts, Live, LenOK
  <2>9. Calm(z)
    BY <1>3, <2>2, <2>4, <2>5, <2>6, <2>7, <2>8 DEF Calm
  <2>10. [z EXCEPT !.used = 0] = Flush([q EXCEPT !.used = 0])
    <3> DEFINE y == [p EXCEPT !.used = 0]
               w == [q EXCEPT !.used = 0]
    <3>1. Alike(y, w)
      BY <1>1, AlikeFacts
    <3>2. [z EXCEPT !.used = 0] = Flush(y)
      BY <1>1 DEF Flush, z, Parser
    <3>3. w \in Parser /\ (w.mark = "none" => w.seg = <<>>)
      BY <1>1 DEF Parser, Run
    <3>4. y \in Parser /\ (y.mark = "none" => y.seg = <<>>)
      BY <1>1 DEF Parser, Run
    <3> HIDE DEF y, w
    <3>5. Alike(Flush(y), Flush(w)) /\ Flush(y).mark = "none" /\ Flush(w).mark = "none"
      BY <3>1, <3>3, <3>4, AlikeFlush, FlushFacts
    <3>6. Flush(y).seg = <<>> /\ Flush(w).seg = <<>>
      BY <3>3, <3>4, TextFacts DEF Flush, Parser
    <3>7. Flush(y) = Flush(w)
      BY <3>5, <3>6, AlikeSame
    <3>8. QED
      BY <3>2, <3>7 DEF w
  <2>11. QED
    BY <2>1, <2>5, <2>9, <2>10 DEF z
<1>4. QED
  BY <1>2, <1>3

LEMMA ExecuteFacts ==
  ASSUME NEW p, Calm(p), NEW s \in Text, s # <<>>
  PROVE  LET y == Execute(p, s)
         IN  /\ Calm(y) /\ y.used \in Nat
             /\ y.err => y.used # Len(s)
             /\ ~p.again => ~y.again
<1>0. p \in Parser /\ Len(s) \in Nat /\ Len(s) # 0
  BY LenProperties, EmptySeq DEF Calm, Text
<1>1. CASE p.err
  <2> DEFINE z == [p EXCEPT !.used = 0]
  <2>1. /\ z \in Parser /\ z.c = p.c /\ z.err = p.err /\ z.stop = p.stop /\ z.mark = p.mark
        /\ z.seg = p.seg /\ z.used = 0 /\ z.again = p.again
    BY <1>0 DEF Parser
  <2>2. Execute(p, s) = z
    BY <1>1 DEF Execute
  <2> HIDE DEF z
  <2>3. Calm(z)
    BY <1>1, <2>1 DEF Calm
  <2>4. QED
    BY <1>0, <2>1, <2>2, <2>3
<1>2. CASE ~p.err
  <2> DEFINE b == Begin(p)
             f == Feed(b, s)
  <2>1. Pair(b, b, 0) /\ ~b.err
    BY <1>2, BeginFacts
  <2> HIDE DEF b
  <2>2. /\ Pair(f, f, f.used) /\ f.used \in 0..Len(s) /\ (f.err => f.used # Len(s))
        /\ ~b.again => ~f.again
    BY <2>1, FeedPair
  <2>3. Execute(p, s) = AtEnd(f)
    BY <1>2 DEF Execute, b
  <2> HIDE DEF f
  <2>4. Calm(AtEnd(f)) /\ AtEnd(f).used = f.used /\ AtEnd(f).err = f.err
    BY <2>2, EndFacts
  <2>5. b.again = p.again
    <3>1. Control(b) = Control([p EXCEPT !.used = 0, !.stop = FALSE])
      BY <1>2, BeginFacts DEF b
    <3>2. [p EXCEPT !.used = 0, !.stop = FALSE].again = p.again
      BY <1>0 DEF Parser
    <3>3. QED
      BY <3>1, <3>2 DEF Control
  <2>6. AtEnd(f).again = f.again
    <3>1. Control(Flush(f)) = Control(f)
      BY <2>2, FlushFacts DEF Pair, Run
    <3>2. QED
      BY <3>1 DEF AtEnd, Control
  <2>7. QED
    BY <1>0, <2>2, <2>3, <2>4, <2>5, <2>6
<1>3. QED
  BY <1>1, <1>2

(* Parsed in one go or in pieces: the same parser. *)
LEMMA ExecuteLinked ==
  ASSUME NEW p, Calm(p), ~p.err, ~p.stop, p.used = 0, NEW w, Run(w), p = Flush(w),
         NEW s \in Text, s # <<>>
  PROVE  LET y == Execute(p, s)
             v == [Feed(w, s) EXCEPT !.used = 0]
         IN  (~y.err /\ ~y.stop) => Run(v) /\ [y EXCEPT !.used = 0] = Flush(v) /\ v.used = 0
<1> DEFINE b == Begin(p)
           f == Feed(b, s)
           g == Feed(w, s)
           v == [g EXCEPT !.used = 0]
<1>1. Pair(b, w, 0) /\ ~b.err
  BY BeginLinked, BeginFacts
<1> HIDE DEF b
<1>2. Pair(f, g, f.used)
  BY <1>1, FeedPair
<1>3. Execute(p, s) = AtEnd(f)
  BY DEF Execute, b
<1> HIDE DEF f, g
<1>4. AtEnd(f).err = f.err /\ AtEnd(f).stop = f.stop
  <2>1. f \in Parser
    BY <1>2 DEF Pair, Run
  <2>2. Control(Flush(f)) = Control(f)
    BY <2>1, FlushFacts
  <2>3. Flush(f).err = f.err /\ Flush(f).stop = f.stop
    BY <2>2 DEF Control
  <2>4. QED
    BY <2>3 DEF AtEnd
<1>5. (~f.err /\ ~f.stop) => [AtEnd(f) EXCEPT !.used = 0] = Flush(v)
  BY <1>2, EndFacts
<1>6. Run(v) /\ v.used = 0
  <2>1. Run(g) /\ g \in Parser
    BY <1>2 DEF Pair, Run
  <2>2. /\ v \in Parser /\ v.used = 0 /\ v.c = g.c /\ v.mark = g.mark /\ v.seg = g.seg
        /\ v.err = g.err /\ v.stop = g.stop /\ v.state = g.state /\ v.h = g.h /\ v.flags = g.flags
        /\ v.clen = g.clen
    BY <2>1 DEF Parser
  <2> HIDE DEF v
  <2>3. QED
    BY <2>1, <2>2, SameRun
<1>7. QED
  BY <1>3, <1>4, <1>5, <1>6 DEF g

----------------------------------------------------------------------------
(* The server.                                                             *)

LEMMA NewFacts ==
  ASSUME NEW t \in {"req", "res"}
  PROVE  LET N == NewParser(t)
         IN  /\ Calm(N) /\ Run(N) /\ Flush(N) = N /\ N.used = 0
             /\ ~N.err /\ ~N.stop /\ ~N.again
<1> DEFINE N == NewParser(t)
           s == IF t = "req" THEN "s_start_req" ELSE "s_start_res"
<1>1. /\ NewCtx \in Context /\ NewCtx.head = 0 /\ NewCtx.headers = <<>> /\ NewCtx.field = <<>>
      /\ NewCtx.lastVal = TRUE
  <2>1. <<>> \in Text /\ <<>> \in Seq(Text \X Text)
    BY TextFacts
  <2>2. QED
    BY <2>1 DEF NewCtx, Context
<1>2. /\ s \in {"s_start_req", "s_start_res"} /\ s \in States /\ s \in LineStates
      /\ s \notin TailStates /\ MarkOK(s, "none") /\ s \notin DoneStates
      /\ s # "s_header_field" /\ s # "s_header_value"
  BY DEF States, LineStates, MethodStates, StatusStates, TailStates, BodyStates, ChunkData, ChunkHead,
         MarkOK, UrlStates, UrlEnds, DoneStates
<1>3. /\ 0 \in 0..U /\ "general" \in HeaderStates /\ {} \in SUBSET Flags /\ "GET" \in Methods
      /\ "none" \in Marks /\ <<>> \in Text
  BY HttpParserAssumption, TextFacts DEF HeaderStates, Methods, Marks
<1> HIDE DEF s
<1>4. /\ N \in Parser /\ N.c = NewCtx /\ N.mark = "none" /\ N.seg = <<>> /\ N.state = s
      /\ N.flags = {} /\ N.err = FALSE /\ N.stop = FALSE /\ N.used = 0 /\ N.h = "general"
      /\ N.again = FALSE
  <2> HIDE DEF Context, HeaderStates, Flags, Methods, Marks, Text
  <2>1. N = [type |-> t, state |-> s,
             h |-> "general", flags |-> {}, clen |-> 0, method |-> "GET", version |-> "HTTP/0.9",
             code |-> "0", upgrade |-> FALSE, err |-> FALSE, stop |-> FALSE, nread |-> 0,
             used |-> 0, again |-> FALSE, mark |-> "none", seg |-> <<>>, c |-> NewCtx]
    BY DEF NewParser, s
  <2> HIDE DEF N
  <2>2. QED
    BY <1>1, <1>2, <1>3, <2>1 DEF Parser
<1> HIDE DEF N
<1>5. View(N) = NewCtx /\ Flush(N) = N
  BY <1>4, FlushFacts
<1>6. OneOK(NewCtx)
  <2>1. HeadNames(NewCtx) = {} /\ NewCtx.head <= Len(NewCtx.headers)
    BY <1>1 DEF HeadNames
  <2>2. QED
    BY <2>1 DEF OneOK
<1>7. HeadOK(s, "general", {}, NewCtx)
  <2>1. CL # <<>> /\ TE # <<>> /\ Len(<<>>) = 0
    BY DEF CL, TE
  <2>2. QED
    BY <1>1, <1>2, <2>1 DEF HeadOK
<1>8. LastOK(s, NewCtx) /\ LenOK(s, N.clen, {})
  BY <1>2 DEF LastOK, LenOK, ChunkData, ChunkHead
<1>9. Live(N) /\ Asserts(N)
  BY <1>2, <1>4, <1>5, <1>7, <1>8 DEF Live, Asserts, ChunkData, ChunkHead
<1>10. Calm(N) /\ Run(N)
  BY <1>2, <1>4, <1>6, <1>9 DEF Calm, Run
<1>11. QED
  BY <1>4, <1>5, <1>10 DEF N

LEMMA MinOfTwo == ASSUME NEW a \in Int, NEW b \in Int PROVE Min({a, b}) \in {a, b}
<1>1. \E m \in {a, b} : \A k \in {a, b} : m <= k
  BY DEF Min
<1>2. QED
  BY <1>1, Zenon DEF Min

LEMMA InitIInv == Init => IInv
<1> SUFFICES ASSUME Init PROVE IInv
  OBVIOUS
<1> USE DEF Init
<1>1. /\ driver \in {"api", "mount"} /\ talk \in Seq(Message)
  BY HttpServerAssumption
<1>2. Len(talk) \in Nat /\ Cap \in Nat \ {0} /\ <<>> \in Text
  BY <1>1, LenProperties, TextFacts, HttpServerAssumption
<1>3. TypeOK
  <2>1. i \in 0..Len(talk) /\ len \in 0..(Cap - 1) /\ pos \in Nat
    BY <1>2
  <2>2. /\ ctx \in BOOLEAN /\ closing \in BOOLEAN /\ oob \in BOOLEAN
        /\ outcome \in {"none", "handled", "bad", "big"}
    BY Zenon
  <2>3. QED
    BY <2>1, <2>2, Zenon DEF TypeOK
<1>4. SentOK
  BY <1>1, <1>2 DEF SentOK
<1>5. Calm(x) /\ ReexecuteEnds
  BY NewFacts DEF ReexecuteEnds
<1>6. handled = <<>> /\ Len(handled) = 0
  OBVIOUS
<1>7. handled \in Seq({handled[k] : k \in 1..Len(handled)})
  BY <1>6
<1>8. QED
  BY <1>1, <1>3, <1>4, <1>5, <1>6, <1>7 DEF IInv, InBoundsUnlessSpoiled

LEMMA SendIInv == IInv /\ Send => IInv'
<1> SUFFICES ASSUME IInv, Send PROVE IInv'
  OBVIOUS
<1>1. /\ TypeOK /\ SentOK /\ Calm(x) /\ ReexecuteEnds /\ InBoundsUnlessSpoiled
      /\ driver \in {"api", "mount"}
      /\ handled \in Seq({handled[k] : k \in 1..Len(handled)})
      /\ \A k \in 1..Len(handled) : HandledOK(driver, handled[k])
      /\ ~ctx => len = 0 /\ pos = 0
      /\ ~spoiled => pos = len
      /\ (ctx /\ ~spoiled) => len > 0
  BY DEF IInv
<1>2. /\ i < Len(talk) /\ len = 0 /\ i' = i + 1 /\ rest' = talk[i + 1].raw
      /\ whole' = NewParser(talk[i + 1].type) /\ outcome' = "none" /\ closing' = FALSE
      /\ UNCHANGED <<driver, supportBlock, talk, len, ctx, pos, x, handled, spoiled, oob>>
  BY DEF Send
<1>3. Len(talk) \in Nat /\ i \in Nat /\ talk \in Seq(Message)
  BY <1>1, LenProperties DEF SentOK
<1>4. i + 1 \in 1..Len(talk) /\ talk[i + 1] \in Message
  BY <1>2, <1>3, ElementOfSeq
<1>5. talk[i + 1].raw \in Text
  BY <1>4 DEF Message, Text
<1>6. SentOK'
  BY <1>1, <1>2, <1>3, <1>4, <1>5 DEF SentOK
<1>7. TypeOK'
  <2>1. i' \in 0..Len(talk') /\ len' \in 0..(Cap - 1) /\ pos' \in Nat
    BY <1>1, <1>2, <1>3, <1>4 DEF TypeOK
  <2>2. /\ ctx' \in BOOLEAN /\ closing' \in BOOLEAN /\ oob' \in BOOLEAN
        /\ outcome' \in {"none", "handled", "bad", "big"}
    BY <1>1, <1>2, Zenon DEF TypeOK
  <2>3. QED
    BY <2>1, <2>2, Zenon DEF TypeOK
<1>8. whole' = NewParser(Msg'.type)
  BY <1>2 DEF Msg
<1>9. Calm(x)' /\ ReexecuteEnds' /\ InBoundsUnlessSpoiled'
  BY <1>1, <1>2 DEF ReexecuteEnds, InBoundsUnlessSpoiled
<1>10. \A k \in 1..Len(handled') : HandledOK(driver', handled'[k])
  BY <1>1, <1>2
<1>11. ~(ctx' /\ ~spoiled')
  BY <1>1, <1>2
<1>12. QED
  BY <1>1, <1>2, <1>6, <1>7, <1>8, <1>9, <1>10, <1>11 DEF IInv

(* A request is handed to its handler. *)
LEMMA HandleOK ==
  ASSUME IInv, NEW y, Calm(y), NEW l, handle(y, l), driver' = driver
  PROVE  /\ handled' \in Seq({handled'[k] : k \in 1..Len(handled')})
         /\ \A k \in 1..Len(handled') : HandledOK(driver', handled'[k])
         /\ Calm(x)' /\ ReexecuteEnds' /\ len' = 0 /\ pos' = 0 /\ ~ctx' /\ outcome' = "handled"
         /\ ctx' = FALSE /\ closing' \in BOOLEAN
         /\ rest' \in {l, <<>>}
<1> DEFINE answers == IF driver = "mount" THEN mountAnswers(y) ELSE handleAnswers(y)
           closes  == answers > 0 /\ hasConnectionClose(y.c)
           r == [msg |-> i, path |-> getPath(y.c.url), body |-> y.c.body,
                 headers |-> ToSet(y.c.headers) \cup IF y.type = "req" THEN inserted(y.c) ELSE {},
                 head |-> {y.c.headers[k] : k \in 1..y.c.head},
                 complete |-> ~y.c.recv, answers |-> answers,
                 connection |-> getConnection(y.c), closes |-> closes, spoiled |-> spoiled]
<1>1. /\ handled' = Append(handled, r) /\ clearBuf(y) /\ outcome' = "handled"
      /\ closing' = (y.type = "req" /\ closes)
      /\ rest' \in {l, <<>>}
  BY DEF handle
<1>2. HandledOK(driver, r)
  <2>1. driver = "api" => answers = 1
    BY DEF handleAnswers, answered, sendFile, hasResped
  <2>2. OneOK(y.c)
    BY DEF Calm
  <2>3. /\ r.answers = answers /\ r.head = {y.c.headers[k] : k \in 1..y.c.head}
        /\ r.connection = getConnection(y.c) /\ r.closes = closes
    OBVIOUS
  <2>4. {n[1] : n \in r.head} = HeadNames(y.c)
    BY <2>3 DEF HeadNames
  <2>5. r.answers > 0 => ((r.connection = <<"close">>) <=> r.closes)
    BY <2>3 DEF hasConnectionClose
  <2> HIDE DEF r
  <2>6. QED
    BY <2>1, <2>2, <2>3, <2>4, <2>5 DEF HandledOK, OneOK
<1> HIDE DEF r
<1> DEFINE S == {handled[k] : k \in 1..Len(handled)}
<1>3. handled \in Seq(S) /\ \A k \in 1..Len(handled) : HandledOK(driver, handled[k])
  BY DEF IInv
<1> HIDE DEF S
<1>4. handled \in Seq(S \cup {r}) /\ r \in S \cup {r}
  BY <1>3
<1>5. /\ handled' \in Seq(S \cup {r}) /\ Len(handled') = Len(handled) + 1 /\ Len(handled) \in Nat
      /\ \A k \in 1..Len(handled) : handled'[k] = handled[k]
      /\ handled'[Len(handled) + 1] = r
  BY <1>1, <1>4, AppendProperties, LenProperties
<1>6. ASSUME NEW k \in 1..Len(handled') PROVE HandledOK(driver', handled'[k])
  <2>1. CASE k \in 1..Len(handled)
    BY <1>3, <1>5, <2>1
  <2>2. CASE k = Len(handled) + 1
    BY <1>2, <1>5, <2>2
  <2>3. QED
    BY <1>5, <2>1, <2>2
<1>7. handled' \in Seq({handled'[k] : k \in 1..Len(handled')})
  <2>1. handled' = [k \in 1..Len(handled') |-> handled'[k]] /\ Len(handled') \in Nat
    BY <1>5, LenProperties
  <2>2. QED
    BY <2>1, IsASeq
<1>8. y.type \in {"req", "res"}
  BY DEF Calm, Parser
<1>9. Calm(x)' /\ ReexecuteEnds' /\ len' = 0 /\ pos' = 0 /\ ~ctx' /\ ctx' = FALSE
  <2>1. x' = NewParser(y.type) /\ len' = 0 /\ pos' = 0 /\ ctx' = FALSE
    BY <1>1 DEF clearBuf
  <2>2. Calm(NewParser(y.type)) /\ ~NewParser(y.type).again
    BY <1>8, NewFacts
  <2>3. QED
    BY <2>1, <2>2 DEF ReexecuteEnds
<1>10. closing' \in BOOLEAN
  BY <1>1
<1>11. QED
  BY <1>1, <1>6, <1>7, <1>9, <1>10

(* What a recv takes out of the socket, and what it leaves there. *)
LEMMA Cut ==
  ASSUME NEW s \in Text, NEW n \in Nat, n > 0, n <= Len(s)
  PROVE  /\ SubSeq(s, 1, n) \in Text /\ SubSeq(s, 1, n) # <<>> /\ Len(SubSeq(s, 1, n)) = n
         /\ SubSeq(s, n + 1, Len(s)) \in Text
<1>1. Len(s) \in Nat /\ \A k \in 1..Len(s) : s[k] \in STRING
  BY LenProperties, ElementOfSeq DEF Text
<1>2. SubSeq(s, 1, n) \in Seq(STRING) /\ Len(SubSeq(s, 1, n)) = n
  <2>1. \A k \in 1..n : s[k] \in STRING
    BY <1>1
  <2>2. QED
    BY <2>1, SubSeqProperties
<1>3. SubSeq(s, n + 1, Len(s)) \in Seq(STRING)
  <2>1. \A k \in (n + 1)..Len(s) : s[k] \in STRING
    BY <1>1
  <2>2. n + 1 \in Int /\ Len(s) \in Int
    BY <1>1
  <2>3. QED
    BY <2>1, <2>2, SubSeqProperties
<1>4. Len(<<>>) = 0
  OBVIOUS
<1>5. QED
  BY <1>2, <1>3, <1>4 DEF Text

(* The parser waits in the buffer with its count reset. *)
LEMMA Rested ==
  ASSUME NEW y, Calm(y)
  PROVE  LET z == [y EXCEPT !.used = 0]
         IN  Calm(z) /\ z.err = y.err /\ z.stop = y.stop /\ z.again = y.again
<1> DEFINE z == [y EXCEPT !.used = 0]
<1>1. y \in Parser
  BY DEF Calm
<1>2. /\ z \in Parser /\ z.c = y.c /\ z.mark = y.mark /\ z.seg = y.seg
      /\ z.err = y.err /\ z.stop = y.stop /\ z.state = y.state /\ z.h = y.h /\ z.flags = y.flags
      /\ z.clen = y.clen /\ z.nread = y.nread /\ z.again = y.again
  BY <1>1 DEF Parser
<1> HIDE DEF z
<1>3. y.mark = "none" => View(z) = View(y)
  BY <1>1, <1>2, FlushFacts
<1>4. y.mark = "none" /\ Live(y) => Live(z)
  BY <1>2, <1>3 DEF Live
<1>5. Asserts(y) => Asserts(z)
  BY <1>2 DEF Asserts
<1>6. Calm(z)
  BY <1>2, <1>4, <1>5 DEF Calm
<1>7. QED
  BY <1>2, <1>6 DEF z

(* The parser that is given the next piece. *)
Current == IF ctx THEN x ELSE NewParser(Msg.type)

LEMMA CurrentFacts ==
  ASSUME IInv, i > 0, Msg.type \in {"req", "res"}
  PROVE  /\ Calm(Current) /\ ~Current.again
         /\ ~spoiled => /\ Run(whole) /\ Current = Flush(whole) /\ Current.used = 0
                        /\ ~Current.err /\ ~Current.stop
<1>1. CASE ctx
  <2>1. Calm(x) /\ ~x.again /\ Current = x
    BY <1>1 DEF IInv, ReexecuteEnds, Current
  <2>2. ASSUME ~spoiled
        PROVE  /\ Run(whole) /\ x = Flush(whole) /\ whole.used = 0 /\ ~x.err /\ ~x.stop
    BY <1>1, <2>2 DEF IInv, Linked
  <2>3. ASSUME ~spoiled PROVE x.used = 0
    <3>1. Control(Flush(whole)) = Control(whole)
      BY <2>2, <2>3, FlushFacts DEF Run
    <3>2. Flush(whole).used = whole.used
      BY <3>1 DEF Control
    <3>3. QED
      BY <2>2, <2>3, <3>2
  <2>4. QED
    BY <2>1, <2>2, <2>3
<1>2. CASE ~ctx
  <2>1. Current = NewParser(Msg.type) /\ whole = NewParser(Msg.type)
    BY <1>2 DEF IInv, Current
  <2>2. QED
    BY <2>1, NewFacts
<1>3. QED
  BY <1>1, <1>2

(* A piece arrives: bytes beyond the data are parsed, or the packet is thrown
   away, handed to its handler or kept for its rest. *)
LEMMA EpollIInv ==
  ASSUME IInv, NEW n \in Pieces \cup {Min({Len(rest), Cap - len})}, onEpollIn(n)
  PROVE  IInv'
<1> DEFINE piece == SubSeq(rest, 1, n)
           left  == SubSeq(rest, n + 1, Len(rest))
           y     == Execute(Current, piece)
           z     == [y EXCEPT !.used = 0]
           v     == [Feed(whole, piece) EXCEPT !.used = 0]
<1>1. /\ TypeOK /\ SentOK /\ Calm(x) /\ ReexecuteEnds /\ InBoundsUnlessSpoiled
      /\ driver \in {"api", "mount"}
      /\ handled \in Seq({handled[k] : k \in 1..Len(handled)})
      /\ \A k \in 1..Len(handled) : HandledOK(driver, handled[k])
      /\ ~ctx => len = 0 /\ pos = 0
      /\ ~spoiled => pos = len
      /\ (ctx /\ ~spoiled) => len > 0 /\ Run(whole) /\ Linked
      /\ (~ctx /\ i > 0) => whole = NewParser(Msg.type)
  BY DEF IInv
<1>2. /\ n > 0 /\ n <= Len(rest) /\ len + n <= Cap /\ ~oob /\ ~closing
      /\ UNCHANGED <<driver, supportBlock, talk, i>>
  BY DEF onEpollIn
<1>3. /\ rest \in Text /\ Len(rest) \in Nat /\ len \in Nat /\ pos \in Nat /\ Cap \in Nat \ {0}
      /\ i \in 0..Len(talk) /\ talk \in Seq(Message) /\ Len(talk) \in Nat
  BY <1>1, LenProperties, HttpServerAssumption DEF TypeOK, SentOK, Text
<1>4. n \in Nat
  <2>1. CASE n \in Pieces
    BY <2>1, HttpServerAssumption
  <2>2. CASE n = Min({Len(rest), Cap - len})
    <3>1. Len(rest) \in Int /\ Cap - len \in Int
      BY <1>3
    <3>2. n \in {Len(rest), Cap - len}
      BY <2>2, <3>1, MinOfTwo
    <3>3. QED
      BY <1>2, <3>1, <3>2
  <2>3. QED
    BY <2>1, <2>2
<1>5. piece \in Text /\ piece # <<>> /\ Len(piece) = n /\ left \in Text
  BY <1>2, <1>3, <1>4, Cut
<1>6. i > 0 /\ Msg \in Message /\ Msg.type \in {"req", "res"} /\ Msg' = Msg
  <2>1. rest # <<>>
    BY <1>2, <1>4
  <2>2. i > 0
    BY <1>1, <2>1 DEF SentOK
  <2>3. i \in 1..Len(talk)
    BY <1>3, <2>2
  <2>4. Msg \in Message
    BY <1>3, <2>3, ElementOfSeq DEF Msg
  <2>5. Msg' = Msg
    BY <1>2 DEF Msg
  <2>6. QED
    BY <2>2, <2>4, <2>5 DEF Message
<1>7. ASSUME rest' \in Text PROVE SentOK'
  BY <1>2, <1>3, <1>6, <1>7 DEF SentOK
<1>8. /\ Calm(Current) /\ ~Current.again
      /\ ~spoiled => /\ Run(whole) /\ Current = Flush(whole) /\ Current.used = 0
                     /\ ~Current.err /\ ~Current.stop
  BY <1>6, CurrentFacts
<1>9. /\ driver' \in {"api", "mount"} /\ i' > 0 /\ i' \in 0..Len(talk') /\ Cap - 1 \in Nat
  BY <1>1, <1>2, <1>3, <1>6
<1>10. CASE pos # len /\ ~Current.err
  <2>1. /\ oob' = TRUE /\ rest' = left
        /\ UNCHANGED <<len, ctx, pos, x, whole, handled, outcome, closing, spoiled>>
    BY <1>10 DEF onEpollIn, Current
  <2> HIDE DEF left
  <2>2. SentOK' /\ spoiled'
    BY <1>1, <1>5, <1>7, <1>10, <2>1
  <2>3. len' \in 0..(Cap - 1) /\ pos' \in Nat
    BY <1>1, <2>1 DEF TypeOK
  <2>4. TypeOK'
    BY <1>1, <1>9, <2>1, <2>3, Zenon DEF TypeOK
  <2>5. ReexecuteEnds'
    BY <1>1, <2>1 DEF ReexecuteEnds
  <2>6. QED
    BY <1>1, <1>2, <1>6, <1>9, <2>1, <2>2, <2>4, <2>5 DEF IInv, InBoundsUnlessSpoiled
<1>11. CASE ~(pos # len /\ ~Current.err)
  <2>1. /\ oob' = oob /\ parsed(n, y)
        /\ whole' = IF len' = 0 THEN NewParser(Msg.type) ELSE v
    BY <1>11 DEF onEpollIn, Current
  <2>2. Calm(y) /\ y.used \in Nat /\ (y.err => y.used # n) /\ ~y.again
    BY <1>5, <1>8, ExecuteFacts
  <2>3. Calm(z) /\ z.err = y.err /\ z.stop = y.stop /\ ~z.again
    BY <2>2, Rested
  <2>4. ~spoiled /\ ~y.err /\ ~y.stop => Run(v) /\ z = Flush(v) /\ v.used = 0
    <3> SUFFICES ASSUME ~spoiled PROVE ~y.err /\ ~y.stop => Run(v) /\ z = Flush(v) /\ v.used = 0
      OBVIOUS
    <3>1. /\ Calm(Current) /\ Run(whole) /\ Current = Flush(whole) /\ Current.used = 0
          /\ ~Current.err /\ ~Current.stop /\ piece \in Text /\ piece # <<>>
      BY <1>5, <1>8
    <3> HIDE DEF piece
    <3>2. QED
      BY <3>1, ExecuteLinked
  <2>5. /\ y.stop => ~y.c.recv
    BY <2>2 DEF Calm
  <2> HIDE DEF piece, left, y, z, v
  <2>6. ~oob' /\ InBoundsUnlessSpoiled'
    BY <1>2, <2>1 DEF InBoundsUnlessSpoiled
  <2>booleans. oob' \in BOOLEAN /\ closing \in BOOLEAN
    BY <1>1, <2>1, Zenon DEF TypeOK
  <2>7. ASSUME NEW o \in {"bad", "big"}, NEW p \in Nat, discard(o, p, y), rest' = left
        PROVE  IInv'
    <3>1. /\ x' = z /\ len' = 0 /\ pos' = p /\ ctx' = TRUE /\ outcome' = o /\ spoiled' = TRUE
          /\ handled' = handled /\ closing' = closing
      BY <2>7 DEF discard, z
    <3>2. len' \in 0..(Cap - 1) /\ pos' \in Nat
      BY <1>9, <3>1
    <3>3. TypeOK'
      BY <1>9, <2>booleans, <2>7, <3>1, <3>2, Zenon DEF TypeOK
    <3>4. SentOK'
      BY <1>5, <1>7, <2>7
    <3>5. QED
      BY <1>1, <1>2, <1>9, <2>3, <2>6, <3>1, <3>3, <3>4 DEF IInv, ReexecuteEnds
  <2>8. ASSUME handle(y, left) PROVE IInv'
    <3>1. /\ handled' \in Seq({handled'[k] : k \in 1..Len(handled')})
          /\ \A k \in 1..Len(handled') : HandledOK(driver', handled'[k])
          /\ Calm(x)' /\ ReexecuteEnds' /\ len' = 0 /\ pos' = 0 /\ outcome' = "handled"
          /\ ctx' = FALSE /\ closing' \in BOOLEAN /\ rest' \in {left, <<>>}
      BY <1>2, <2>2, <2>8, HandleOK
    <3>2. len' \in 0..(Cap - 1) /\ pos' \in Nat
      BY <1>9, <3>1
    <3>3. TypeOK'
      BY <1>9, <2>booleans, <3>1, <3>2, Zenon DEF TypeOK
    <3>4. SentOK'
      BY <1>5, <1>7, <3>1, TextFacts
    <3>5. whole' = NewParser(Msg'.type)
      BY <1>6, <2>1, <3>1
    <3>6. QED
      BY <1>9, <2>6, <3>1, <3>3, <3>4, <3>5 DEF IInv
  <2>9. ASSUME pos + y.used = len + n, len + n # Cap, y.c.recv, x' = z, rest' = left,
               len' = len + n, pos' = len + n, ctx' = TRUE,
               UNCHANGED <<handled, outcome, closing, spoiled>>
        PROVE  IInv'
    <3>1. len' \in 0..(Cap - 1) /\ pos' \in Nat /\ len' > 0 /\ pos' = len'
      BY <1>2, <1>3, <1>4, <2>9
    <3>2. TypeOK'
      BY <1>1, <1>2, <1>9, <2>1, <2>9, <3>1, Zenon DEF TypeOK
    <3>3. SentOK'
      BY <1>5, <1>7, <2>9
    <3>4. whole' = v
      BY <2>1, <3>1
    <3>5. ASSUME ~spoiled PROVE Run(whole') /\ Linked'
      <4>1. y.used = n
        BY <1>1, <1>3, <1>4, <2>2, <2>9, <3>5
      <4>2. ~y.err /\ ~y.stop
        BY <2>2, <2>5, <2>9, <4>1
      <4>3. QED
        BY <2>3, <2>4, <2>9, <3>4, <3>5, <4>2 DEF Linked
    <3>6. QED
      BY <1>1, <1>2, <1>9, <2>3, <2>6, <2>9, <3>1, <3>2, <3>3, <3>5 DEF IInv, ReexecuteEnds
  <2>10. CASE discard("bad", pos, y) /\ rest' = left
    BY <1>3, <2>7, <2>10
  <2>11. CASE discard("big", pos + y.used, y) /\ rest' = left
    <3>1. pos + y.used \in Nat
      BY <1>3, <2>2
    <3>2. QED
      BY <2>7, <2>11, <3>1
  <2>12. CASE handle(y, left)
    BY <2>8, <2>12
  <2>13. CASE /\ pos + y.used = len + n /\ len + n # Cap /\ y.c.recv
              /\ x' = [y EXCEPT !.used = 0] /\ rest' = left
              /\ len' = len + n /\ pos' = pos + y.used /\ ctx' = TRUE
              /\ UNCHANGED <<handled, outcome, closing, spoiled>>
    <3>1. x' = z /\ pos' = len + n
      BY <2>13 DEF z
    <3>2. QED
      BY <2>9, <2>13, <3>1
  <2>14. QED
    BY <2>1, <2>10, <2>11, <2>12, <2>13 DEF parsed, left
<1>12. QED
  BY <1>10, <1>11

LEMMA NextIInv == IInv /\ [Next]_vars => IInv'
<1> SUFFICES ASSUME IInv, [Next]_vars PROVE IInv'
  OBVIOUS
<1>1. CASE Send
  BY <1>1, SendIInv
<1>2. ASSUME NEW n \in Pieces \cup {Min({Len(rest), Cap - len})}, onEpollIn(n) PROVE IInv'
  BY <1>2, EpollIInv
<1>3. CASE UNCHANGED vars
  <2>1. TypeOK' /\ SentOK' /\ InBoundsUnlessSpoiled' /\ Linked' = Linked /\ Msg' = Msg
        /\ ReexecuteEnds'
    BY <1>3 DEF vars, IInv, TypeOK, SentOK, InBoundsUnlessSpoiled, Linked, Msg, ReexecuteEnds
  <2>2. QED
    BY <1>3, <2>1 DEF IInv, vars
<1>4. QED
  BY <1>1, <1>2, <1>3 DEF Next

(* IInv holds in every state of every behaviour of the server. *)
LEMMA HttpIInv == Spec => []IInv
<1>1. QED
  BY InitIInv, NextIInv, PTL DEF Spec

LEMMA IInvInv == IInv => Inv
<1> SUFFICES ASSUME IInv PROVE Inv
  OBVIOUS
<1>1. TypeOK /\ InBoundsUnlessSpoiled /\ ReexecuteEnds
  BY DEF IInv
<1>2. AssertsHold
  BY DEF IInv, AssertsHold, Calm
<1>3. \A k \in 1..Len(handled) : HandledOK(driver, handled[k])
  BY DEF IInv
<1>4. OneLength
  BY <1>3 DEF OneLength, HandledOK, CL, TE
<1>5. OneAnswer
  BY <1>3 DEF OneAnswer, HandledOK
<1>6. ResponseTellsTruth
  BY <1>3 DEF ResponseTellsTruth, HandledOK
<1>7. QED
  BY <1>1, <1>2, <1>4, <1>5, <1>6 DEF Inv

LEMMA IInvCut == IInv => CutIndependent
<1> SUFFICES ASSUME IInv, len > 0, ~spoiled PROVE x = Flush(whole)
  BY DEF CutIndependent
<1>1. ctx
  BY DEF IInv
<1>2. QED
  BY <1>1 DEF IInv, Linked

(* Whatever bytes arrive and however they are cut: the parser's assertions
   hold, it is never handed bytes beyond the data received unless a packet was
   discarded from this buffer, no handler is given a request with two lengths
   in its headers, every request to a YS_HttpDriver is answered once, and the
   answer's Connection header says close exactly when the server closes. *)
THEOREM HttpInvariant == Spec => []Inv
<1>1. QED
  BY HttpIInv, IInvInv, PTL

(* YS_HttpParser::httpParse, called for every piece that arrives, leaves the
   parser and its context as one call with the whole packet would. *)
THEOREM CuttingMakesNoDifference == Spec => []CutIndependent
<1>1. QED
  BY HttpIInv, IInvCut, PTL
=============================================================================
