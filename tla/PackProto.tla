----------------------------- MODULE PackProto -----------------------------
(***************************************************************************)
(* The pack protocol between YS_TcpPackClient and YS_TcpPackServer         *)
(* (isaac/ys_pack_proto.h): packets with a header, cut and glued by the    *)
(* stream, framed by YS_Packet::isFullPkt (tool/ys_pack.hpp) on both       *)
(* sides, dispatched by YS_PackEngine::done.  The network thread's handler *)
(* is YS_NetTh::onEpollIn (ys_thread_asyn.h); modules NetTh and TcpClient  *)
(* have the rest of the threads and of the client.                         *)
(*                                                                         *)
(* Byte k of packet id is <<id, k>>, the first H are its header.  The      *)
(* answer to a request has its number and its length.  Whatever else is in *)
(* the place of a header may look like one, of any length.                 *)
(*                                                                         *)
(* A request is written in one piece: TcpClient has the client's partial   *)
(* writes.  The connection is without TLS.                                 *)
(***************************************************************************)
EXTENDS Integers, Sequences, SequencesExt

CONSTANTS
  H,            \* headerLen()
  Cap,          \* capacity of the buffers
  Kinds,        \* <<what, n>>: n bytes of data; the command's handler succeeds
                \* ("ok"), fails ("err") or is not in the table ("none")
  Pieces,       \* how many bytes may arrive at once, when not all there are
  Claims,       \* lengths that what is no header may claim of its packet
  Workers,      \* tasks that may be under way at once
  MaxReq        \* bound: requests

ASSUME PackProtoAssumption ==
  /\ H \in Nat \ {0} /\ Cap \in Nat /\ Cap > H
  /\ Kinds \subseteq {"ok", "err", "none"} \X Nat
  /\ Claims \subseteq Nat /\ Workers \in Nat \ {0} /\ MaxReq \in Nat

VARIABLES
  sent,         \* the kinds of the requests sent so far
  wire, rx,     \* bytes on their way to the server, and arrived
  armed,        \* has epoll an event to deliver?
  buf,          \* recvData of the buffer the connection holds
  tasks,        \* recvData of the buffers queued for the workers
  out,          \* answers the workers are writing, with the bytes written so far
  resp,         \* answer bytes the client has not read
  pc, cbuf,     \* "idle" or "recv", and the client's buffer
  want,         \* needRecvLen, what is missing in it
  res,          \* the last answer recvResp has accepted with the connection in
                \* order (~skew), and the last request sent then
  handled,      \* history: buffers handled
  alone,        \* history: requests that met no other on the way
  hurt,         \* history: requests cut in their header, too long for the
                \* buffer, or reclaimed
  torn,         \* history: requests of which the buffer held a part when it was
                \* cleared or handed over, the rest of which was still to come
  skew          \* history: an answer was written in parts, or bytes of one thrown
                \* away, and something of it may still be on the way

client  == <<sent, pc, cbuf, want, res>>
history == <<handled, alone, hurt, torn, skew>>
vars    == <<client, wire, rx, armed, buf, tasks, out, resp, history>>

Total(id) == H + sent[id][2]
Pkt(id)   == [k \in 1..Total(id) |-> <<id, k>>]
Id(b)     == b[1][1]
Least(a, b) == IF a < b THEN a ELSE b

(* Does b begin with the header of a packet that was sent? *)
Header(b) == Len(b) >= H /\ \A k \in 1..H : b[k] = <<Id(b), k>>

(* What else is in the place of a header: it is no header, or it claims a length. *)
Claimed(b) == {-1} \cup {IF Len(b) < t THEN t - Len(b) ELSE 0 : t \in Claims}

(* Mutant of isFullPkt: the last byte is not waited for. *)
isFullPktShort(b) ==
  CASE Len(b) = 0   -> {Cap}
    [] Len(b) \in 1..(H - 1) -> {-1}
    [] Len(b) >= H  -> IF ~Header(b) THEN Claimed(b)
                       ELSE IF Len(b) < Total(Id(b)) - 1 THEN {Total(Id(b)) - Len(b)} ELSE {0}

(* Mutant of isFullPkt: a packet that is not yet whole is a bad one. *)
isFullPktAtOnce(b) ==
  CASE Len(b) = 0   -> {Cap}
    [] Len(b) \in 1..(H - 1) -> {-1}
    [] Len(b) >= H  -> IF ~Header(b) THEN Claimed(b)
                       ELSE IF Len(b) < Total(Id(b)) THEN {-1} ELSE {0}

(* YS_Packet::isFullPkt: what is missing; -1 for a packet to be thrown away.  Only
   two bytes tell a header: what is none may be taken for one, and what is in
   the place of dataLen for a length. *)
isFullPkt(b) ==
  CASE Len(b) = 0   -> {Cap}
    [] Len(b) \in 1..(H - 1) -> {-1}
    [] Len(b) >= H  -> IF ~Header(b) THEN Claimed(b)
                       ELSE IF Len(b) < Total(Id(b)) THEN {Total(Id(b)) - Len(b)} ELSE {0}

(* The packet b ends in, if not with its last byte. *)
Torn(b) ==
  {id \in 1..Len(sent) : b # <<>> /\ b[Len(b)][1] = id /\ b[Len(b)][2] < Total(id)}

Quiet ==
  wire = <<>> /\ rx = <<>> /\ buf = <<>> /\ tasks = <<>> /\ out = <<>> /\ resp = <<>>

----------------------------------------------------------------------------
(* sendReq; with recvResp after it, doRequest. *)
sendReq(kind) ==
  LET id == Len(sent) + 1
  IN  /\ pc = "idle" /\ id <= MaxReq
      /\ sent' = Append(sent, kind)
      /\ wire' = wire \o [k \in 1..(H + kind[2]) |-> <<id, k>>]
      /\ alone' = IF Quiet THEN alone \cup {id} ELSE alone \ {id - 1}
      /\ hurt' = IF H + kind[2] >= Cap THEN hurt \cup {id} ELSE hurt
      /\ skew' = (skew /\ ~Quiet)
      /\ UNCHANGED <<pc, cbuf, want, res, rx, armed, buf, tasks, out, resp, handled, torn>>

(* The stream delivers what it likes. *)
Arrive(n) ==
  /\ n \in 1..Len(wire)
  /\ rx' = rx \o SubSeq(wire, 1, n)
  /\ wire' = SubSeq(wire, n + 1, Len(wire))
  /\ armed' = TRUE
  /\ UNCHANGED <<client, buf, tasks, out, resp, history>>

(* Mutant of discard: the bytes stay in the buffer. *)
discardKeeps(b) == buf' = b /\ UNCHANGED tasks

(* A bad packet, or one that fills the buffer: recvData.clear(). *)
discard(b) == buf' = <<>> /\ UNCHANGED tasks

(* onEpollIn, edge-triggered: one read of what there is room for. *)
onEpollIn ==
  /\ armed
  /\ armed' = FALSE
  /\ LET n == Least(Len(rx), Cap - Len(buf))
         b == buf \o SubSeq(rx, 1, n)
     IN  /\ rx' = SubSeq(rx, n + 1, Len(rx))
         /\ hurt' = IF b # <<>> /\ Len(b) < H THEN hurt \cup {Id(b)} ELSE hurt
         /\ \E m \in isFullPkt(b) :
              \/ (m < 0 \/ Len(b) = Cap) /\ discard(b)
              \/ m > 0 /\ Len(b) < Cap /\ buf' = b /\ UNCHANGED tasks
              \/ m = 0 /\ Len(b) < Cap /\ buf' = <<>> /\ tasks' = Append(tasks, b)
         /\ torn' = IF buf' = <<>> THEN torn \cup Torn(b) ELSE torn
  /\ UNCHANGED <<client, wire, out, resp, handled, alone, skew>>

(* A partial packet is given up after three seconds (getAllTimeOutBuf). *)
Reclaim ==
  /\ buf # <<>>
  /\ buf' = <<>>
  /\ hurt' = hurt \cup {Id(buf)} /\ torn' = torn \cup Torn(buf)
  /\ UNCHANGED <<client, wire, rx, armed, tasks, out, resp, handled, alone, skew>>

(* Mutant of done: the buffer that was sent last is not cleared. *)
doneNotCleared(b) ==
  {IF sent[Id(b)][1] = "ok"
   THEN (IF handled = <<>> THEN <<>> ELSE Pkt(Id(Last(handled)))) \o Pkt(Id(b))
   ELSE <<>>}

(* YS_PackEngine::done, pack_proc: only the first packet is looked at.  sendErr
   fills in a packet and sets no length, so nothing of it is sent.  What is no
   request may be answered like one. *)
done(b) ==
  IF ~Header(b) THEN {<<>>, Pkt(Id(b))}
  ELSE IF sent[Id(b)][1] = "ok" THEN {Pkt(Id(b))} ELSE {<<>>}

(* A worker takes a task and has it handled ... *)
handle(i) ==
  /\ i \in 1..Least(Workers - Len(out), Len(tasks))
  /\ tasks' = RemoveAt(tasks, i)
  /\ \E a \in done(tasks[i]) :
       out' = IF a = <<>> THEN out ELSE Append(out, [pkt |-> a, off |-> 0])
  /\ handled' = Append(handled, tasks[i])
  /\ UNCHANGED <<client, wire, rx, armed, buf, resp, alone, hurt, torn, skew>>

(* ... and writes the answer (YS_Socket::send), in parts if the socket takes no
   more, each of which begins with the first byte again.  Others may write to the
   socket between the parts. *)
write(j, n) ==
  /\ j \in 1..Len(out) /\ n \in 1..(Len(out[j].pkt) - out[j].off)
  /\ resp' = resp \o SubSeq(out[j].pkt, 1, n)
  /\ out' = IF out[j].off + n = Len(out[j].pkt) THEN RemoveAt(out, j)
            ELSE [out EXCEPT ![j].off = @ + n]
  /\ skew' = (skew \/ n < Len(out[j].pkt))
  /\ UNCHANGED <<client, wire, rx, armed, buf, tasks, handled, alone, hurt, torn>>

(* How much of answer j may be written at once. *)
Part(j, n) ==
  /\ j \in 1..Len(out)
  /\ n \in Pieces \cup {Len(out[j].pkt) - out[j].off}

(* The socket takes nothing for three seconds. *)
writeTimeout(j) ==
  /\ j \in 1..Len(out)
  /\ out' = RemoveAt(out, j)
  /\ UNCHANGED <<client, wire, rx, armed, buf, tasks, resp, history>>

----------------------------------------------------------------------------
recvResp ==
  /\ pc = "idle" /\ sent # <<>>
  /\ pc' = "recv" /\ cbuf' = <<>> /\ want' \in isFullPkt(<<>>)
  /\ UNCHANGED <<sent, res, wire, rx, armed, buf, tasks, out, resp, history>>

(* Mutant of accepted: a longer buffer will do. *)
acceptedLonger(b) == {Len(b) >= Total(Id(b))}

(* The length is checked once more before the answer is unpacked. *)
accepted(b) == IF Header(b) THEN {Len(b) = Total(Id(b))} ELSE {Len(b) = t : t \in Claims}

(* recvPkt: one recv.  The buffer is cleared before it is used again. *)
recvPkt(n) ==
  /\ pc = "recv" /\ n \in 1..Least(Len(resp), want)
  /\ LET b == cbuf \o SubSeq(resp, 1, n)
     IN  /\ resp' = SubSeq(resp, n + 1, Len(resp))
         /\ \E m \in isFullPkt(b) :
              \/ /\ m > 0 /\ m + Len(b) <= Cap
                 /\ cbuf' = b /\ want' = m /\ UNCHANGED <<pc, res, skew>>
              \/ /\ m = 0 /\ TRUE \in accepted(b)
                 /\ res' = IF skew THEN res ELSE [req |-> Len(sent), got |-> b]
                 /\ pc' = "idle" /\ cbuf' = <<>> /\ UNCHANGED <<want, skew>>
              \/ /\ m < 0 \/ m + Len(b) > Cap \/ (m = 0 /\ FALSE \in accepted(b))
                 /\ skew' = TRUE
                 /\ pc' = "idle" /\ cbuf' = <<>> /\ UNCHANGED <<want, res>>
  /\ UNCHANGED <<sent, wire, rx, armed, buf, tasks, out, handled, alone, hurt, torn>>

(* No answer in three seconds, or not all of it in two. *)
recvTimeout ==
  /\ pc = "recv"
  /\ pc' = "idle" /\ cbuf' = <<>>
  /\ skew' = (skew \/ cbuf # <<>>)
  /\ UNCHANGED <<sent, want, res, wire, rx, armed, buf, tasks, out, resp, handled, alone,
                 hurt, torn>>

----------------------------------------------------------------------------
Init ==
  /\ sent = <<>> /\ wire = <<>> /\ rx = <<>> /\ armed = FALSE
  /\ buf = <<>> /\ tasks = <<>> /\ out = <<>> /\ resp = <<>>
  /\ pc = "idle" /\ cbuf = <<>> /\ want = Cap
  /\ res = [req |-> 0, got |-> <<>>]
  /\ handled = <<>> /\ alone = {} /\ hurt = {} /\ torn = {} /\ skew = FALSE

Next ==
  \/ \E k \in Kinds : sendReq(k)
  \/ \E n \in Pieces \cup {Len(wire)} : Arrive(n)
  \/ onEpollIn \/ Reclaim
  \/ \E i \in 1..Workers :
       \/ handle(i) \/ writeTimeout(i)
       \/ \E n \in 1..Cap : Part(i, n) /\ write(i, n)
  \/ recvResp
  \/ \E n \in Pieces \cup {Least(Len(resp), want)} : recvPkt(n)
  \/ recvTimeout

Spec == Init /\ [][Next]_vars

----------------------------------------------------------------------------
TypeOK ==
  /\ sent \in Seq(Kinds) /\ Len(sent) <= MaxReq
  /\ armed \in BOOLEAN /\ pc \in {"idle", "recv"} /\ skew \in BOOLEAN
  /\ Len(buf) < Cap /\ Len(cbuf) <= Cap /\ Len(out) <= Workers
  /\ alone \subseteq 1..MaxReq /\ hurt \subseteq 1..MaxReq /\ torn \subseteq 1..MaxReq

(* What a worker is given begins with a packet the client sent, whole, which no
   worker is given again, however the stream cut and glued the packets and whatever
   else was thrown away or taken for a packet before; or with the rest of a packet
   whose beginning was thrown away, or was glued to another packet's end. *)
HandledWhole ==
  \A i \in 1..Len(handled) :
    LET b == handled[i]
    IN  IF b[1][2] = 1
        THEN /\ Len(b) >= Total(Id(b)) /\ SubSeq(b, 1, Total(Id(b))) = Pkt(Id(b))
             /\ \A j \in 1..Len(handled) : Id(handled[j]) = Id(b) => j = i
        ELSE Id(b) \in torn

(* The types, and what the workers are given. *)
Inv == TypeOK /\ HandledWhole

(* A request that meets no other on the way is handled, whatever was thrown away
   on the connection before it, unless its first bytes are fewer than a header,
   it is as long as the buffer, or its rest comes too late. *)
AloneServed ==
  \A id \in alone \ hurt :
    (Quiet /\ id <= Len(sent)) => \E i \in 1..Len(handled) : handled[i][1] = <<id, 1>>

(* An answer the client accepts is one whole packet, made for a request handled
   before, and for its own one if that met no other on the way; unless an answer
   was written in parts, or bytes of one were thrown away, since a request was
   last sent with nothing on the way. *)
OwnAnswer ==
  res.req > 0 =>
    /\ res.got = Pkt(Id(res.got))
    /\ res.req \in alone => Id(res.got) = res.req
    /\ \E i \in 1..Len(handled) : Id(handled[i]) = Id(res.got)
=============================================================================
