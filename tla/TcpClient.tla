----------------------------- MODULE TcpClient -----------------------------
(***************************************************************************)
(* YS_TcpClient (isaac/ys_tcp_client.h) with what it calls: YS_Tcp::connect *)
(* and reconnected (ys_tcp.h), YS_Socket::send and _recvfrom (ys_socket.h).*)
(* One thread makes synchronous calls over one connection at a time; the   *)
(* peer answers whenever it likes, closes, or refuses.                     *)
(*                                                                         *)
(* A byte is <<r, k>>: byte k of request r, and of the answer to it.  A    *)
(* call is split where other parties can act: before it connects, writes,  *)
(* waits for an event, and at each recv.  Timers may run out whenever the  *)
(* code would otherwise keep waiting.                                      *)
(***************************************************************************)
EXTENDS Naturals, Sequences, SequencesExt

CONSTANTS
  PktLen,       \* bytes of a request, and of an answer
  SndCap,       \* bytes the kernel takes before send would block
  BufCap,       \* capacity of the caller's buffer
  MaxCalls,     \* bound: calls of sendRecv
  MaxConns      \* bound: attempts to connect

ASSUME TcpClientAssumption ==
  /\ PktLen \in Nat \ {0} /\ SndCap \in Nat \ {0}
  /\ BufCap \in Nat /\ BufCap >= PktLen
  /\ MaxCalls \in Nat /\ MaxConns \in Nat

VARIABLES
  ssl,          \* was a TLS context set (useSsl)?
  sock,         \* _sock: "null", "closed" (its descriptor is -1) or "open"
  data,         \* _data: "null", "live" or "freed"
  reg,          \* is the descriptor in epoll?
  ev,           \* _pevs[0].events, whatever the last wait left there
  pc, req, off, \* where the call is, its request, bytes written so far
  buf,          \* the caller's buffer
  res,          \* what the last call returned, to which request; was the
                \* connection in order until then?
  c2s,          \* bytes written and not yet taken by the peer
  todo, rx,     \* answer bytes on their way, and arrived
  peer,         \* "open", "fin" or "abort"
  armed,        \* is there an event epoll has not delivered?
  calls, conns, \* counts, for the bounds
  served,       \* history: requests the peer carried out
  wire,         \* history: every byte written to this connection
  taint,        \* history: a call left this connection in disorder
  lost,         \* history: a reconnection has failed
  bad           \* history: a dead YS_EpData was used or deleted again

net  == <<c2s, todo, rx, peer, armed, wire, taint>>
mem  == <<sock, data, reg, lost, bad>>
call == <<pc, req, off, buf, res>>
vars == <<ssl, ev, net, mem, call, calls, conns, served>>

----------------------------------------------------------------------------
Pkt(r) == [k \in 1..PktLen |-> <<r, k>>]

Hup == {"RDHUP", "HUP"}

(* What epoll can report of the peer. *)
Gone == CASE peer = "open" -> {} [] peer = "fin" -> {"RDHUP"} [] OTHER -> {"HUP"}

Readable == rx # <<>> \/ peer # "open"

Room == SndCap - Len(c2s)

(* A call returns; whoever leaves before the whole answer has been read leaves
   the connection in disorder. *)
Return(ok, b) ==
  /\ pc' = "idle"
  /\ res' = [req |-> req, ok |-> ok, buf |-> b, clean |-> ~taint]
  /\ buf' = b
  /\ UNCHANGED <<req, off>>

(* The descriptor is replaced: nothing of the old connection survives. *)
NoConn ==
  /\ c2s' = <<>> /\ todo' = <<>> /\ rx' = <<>> /\ wire' = <<>>
  /\ armed' = FALSE /\ taint' = FALSE

(* YS_Tcp::connect: select reports a refused connection as writable and
   SO_ERROR is not asked for, so a refused connection is taken for a good one. *)
NewConn ==
  /\ c2s' = <<>> /\ todo' = <<>> /\ rx' = <<>> /\ wire' = <<>>
  /\ taint' = FALSE
  /\ peer' \in {"open", "abort"}
  /\ armed' = (peer' # "open")

----------------------------------------------------------------------------
(* The peer.                                                               *)

(* It takes a request and answers it, or closes when it cannot read it. *)
Serve ==
  /\ peer = "open" /\ Len(c2s) >= PktLen
  /\ LET p == SubSeq(c2s, 1, PktLen)
         r == p[1][1]
     IN  /\ c2s' = SubSeq(c2s, PktLen + 1, Len(c2s))
         /\ IF p = Pkt(r)
            THEN /\ todo' = todo \o Pkt(r)
                 /\ served' = Append(served, r)
                 /\ UNCHANGED <<peer, armed>>
            ELSE /\ peer' = "fin" /\ armed' = TRUE
                 /\ UNCHANGED <<todo, served>>
  /\ UNCHANGED <<ssl, ev, rx, wire, taint, mem, call, calls, conns>>

Deliver ==
  /\ todo # <<>> /\ peer = "open"
  /\ rx' = Append(rx, Head(todo)) /\ todo' = Tail(todo)
  /\ armed' = TRUE
  /\ UNCHANGED <<ssl, ev, c2s, peer, wire, taint, mem, call, calls, conns, served>>

PeerClose ==
  /\ peer = "open" /\ sock = "open"
  /\ peer' \in {"fin", "abort"}
  /\ rx' = IF peer' = "abort" THEN <<>> ELSE rx
  /\ todo' = <<>> /\ armed' = TRUE
  /\ UNCHANGED <<ssl, ev, c2s, wire, taint, mem, call, calls, conns, served>>

----------------------------------------------------------------------------
(* connect: the first connection, or a new one after the last was closed. *)
connect ==
  /\ pc = "idle" /\ sock # "open" /\ conns < MaxConns
  /\ conns' = conns + 1
  /\ \/ /\ NewConn
        /\ sock' = "open" /\ data' = "live" /\ reg' = TRUE
     \/ /\ NoConn /\ peer' = "fin"
        /\ sock' = "null" /\ UNCHANGED <<data, reg>>
  /\ UNCHANGED <<ssl, ev, call, calls, served, lost, bad>>

(* delete _data *)
DeleteData(after) ==
  /\ data' = after
  /\ bad' = (bad \/ data = "freed")

(* Mutant of closeSock: the pointer is not cleared. *)
closeSockKeeps ==
  /\ NoConn /\ peer' = "fin"
  /\ sock' = "closed" /\ reg' = FALSE
  /\ DeleteData("freed")
  /\ UNCHANGED lost

closeSock ==
  /\ NoConn /\ peer' = "fin"
  /\ sock' = "null" /\ reg' = FALSE
  /\ DeleteData("null")
  /\ UNCHANGED lost

(* closeSock called by the user, or by the destructor. *)
Close ==
  /\ pc = "idle" /\ sock # "null"
  /\ closeSock
  /\ UNCHANGED <<ssl, ev, call, calls, conns, served>>

(* sendRecv, and send up to its first check. *)
sendRecv ==
  /\ pc = "idle" /\ calls < MaxCalls
  /\ calls' = calls + 1
  /\ req' = calls + 1 /\ off' = 0
  /\ \/ /\ sock = "null"
        /\ pc' = "idle"
        /\ res' = [req |-> req', ok |-> FALSE, buf |-> buf, clean |-> FALSE]
     \/ /\ sock = "closed" /\ pc' = "reconnect" /\ res' = res
     \/ /\ sock = "open" /\ pc' = "canWrite" /\ res' = res
  /\ buf' = buf
  /\ UNCHANGED <<ssl, ev, net, mem, conns, served>>

(* Mutant of reconnected: bytes of the old connection are read on. *)
reconnectedKeepsRx ==
  /\ pc \in {"reconnect", "hungUp"} /\ conns < MaxConns
  /\ conns' = conns + 1
  /\ IF sock = "open" /\ data # "null" THEN bad' = (bad \/ data = "freed") ELSE bad' = bad
  /\ sock' = "open" /\ data' = "live" /\ reg' = TRUE
  /\ c2s' = <<>> /\ wire' = <<>> /\ taint' = FALSE
  /\ peer' = "open" /\ armed' = (rx # <<>>)
  /\ pc' = IF pc = "reconnect" THEN "canWrite" ELSE "write"
  /\ UNCHANGED <<req, off, buf, res, lost, todo, rx>>
  /\ UNCHANGED <<ssl, ev, calls, served>>

(* reconnected, from send ("reconnect") and from canWrite ("hungUp"): the old
   YS_EpData is deleted first, and _data still points to it when the new
   connection, or its TLS handshake, fails. *)
reconnected ==
  /\ pc \in {"reconnect", "hungUp"}
  /\ conns' = conns + 1
  /\ IF sock = "open" /\ data # "null"
     THEN bad' = (bad \/ data = "freed")
     ELSE bad' = bad
  /\ \/ /\ conns < MaxConns
        /\ NewConn
        /\ sock' = "open" /\ data' = "live" /\ reg' = TRUE
        /\ pc' = IF pc = "reconnect" THEN "canWrite" ELSE "write"
        /\ UNCHANGED <<req, off, buf, res, lost>>
     \/ /\ sock' = "closed" /\ reg' = FALSE
        /\ data' = IF sock = "open" THEN "freed" ELSE data
        /\ NoConn /\ peer' = "fin" /\ lost' = TRUE
        /\ Return(FALSE, buf)
     \/ /\ ssl
        /\ sock' = "open" /\ reg' = FALSE
        /\ data' = IF sock = "open" THEN "freed" ELSE data
        /\ NoConn /\ peer' = "fin" /\ lost' = TRUE
        /\ Return(FALSE, buf)
  /\ UNCHANGED <<ssl, ev, calls, served>>

(* Mutant of canWrite: an event is examined only when one was reported. *)
canWriteNoStale ==
  /\ pc = "canWrite"
  /\ bad' = (bad \/ data = "freed")
  /\ LET got == Gone \cup (IF Room > 0 THEN {"OUT"} ELSE {})
     IN  ev' = IF reg THEN got ELSE {}
  /\ pc' = IF ev' \cap Hup # {} THEN "hungUp" ELSE "write"
  /\ armed' = (reg /\ Readable)
  /\ UNCHANGED <<ssl, req, off, buf, res, calls, conns, served>>
  /\ UNCHANGED <<sock, data, reg, lost, c2s, todo, rx, peer, wire, taint>>

(* canWrite: registered for output, wait(100), registered for input again.
   When nothing is reported the event left by an earlier wait is examined. *)
canWrite ==
  /\ pc = "canWrite"
  /\ bad' = (bad \/ data = "freed")
  /\ LET got == Gone \cup (IF Room > 0 THEN {"OUT"} ELSE {})
     IN  ev' = IF reg /\ got # {} THEN got ELSE ev
  /\ pc' = IF ev' \cap Hup # {} THEN "hungUp" ELSE "write"
  /\ armed' = (reg /\ Readable)
  /\ UNCHANGED <<ssl, req, off, buf, res, calls, conns, served>>
  /\ UNCHANGED <<sock, data, reg, lost, c2s, todo, rx, peer, wire, taint>>

(* Mutant of Chunk: the TLS branch passes the start again as well. *)
ChunkStart(n) == SubSeq(Pkt(req), 1, n)

(* YS_Socket::send.  The plain branch passes the start of the data again
   after a partial write; the TLS branch passes the rest. *)
Chunk(n) ==
  IF ssl THEN SubSeq(Pkt(req), off + 1, off + n) ELSE SubSeq(Pkt(req), 1, n)

writeSome ==
  /\ pc = "write"
  /\ \E n \in 1..(PktLen - off) :
       /\ n <= Room
       /\ c2s' = IF peer = "open" THEN c2s \o Chunk(n) ELSE c2s
       /\ wire' = wire \o Chunk(n)
       /\ off' = off + n
       /\ pc' = IF off' = PktLen THEN "wait" ELSE "write"
       /\ taint' = (taint \/ (off > 0 /\ ~ssl))
  /\ UNCHANGED <<req, buf, res, todo, rx, peer, armed>>
  /\ UNCHANGED <<ssl, ev, mem, calls, conns, served>>

(* The kernel takes no more for three seconds, or reports an error. *)
writeFail ==
  /\ pc = "write"
  /\ Room = 0 \/ peer # "open"
  /\ Return(FALSE, buf)
  /\ taint' = TRUE
  /\ UNCHANGED <<c2s, todo, rx, peer, armed, wire>>
  /\ UNCHANGED <<ssl, ev, mem, calls, conns, served>>

----------------------------------------------------------------------------
(* recvSyn: wait(3000) reports an event ... *)
recvSyn ==
  /\ pc = "wait" /\ armed
  /\ armed' = FALSE
  /\ ev' = Gone \cup {"IN"}
  /\ pc' = "recv" /\ buf' = <<>>
  /\ UNCHANGED <<req, off, res, c2s, todo, rx, peer, wire, taint>>
  /\ UNCHANGED <<ssl, mem, calls, conns, served>>

(* ... that is not EPOLLIN (a hang-up as wepoll reports it) ... *)
recvSynErr ==
  /\ pc = "wait" /\ armed /\ rx = <<>> /\ peer = "abort"
  /\ ev' = Gone
  /\ closeSock
  /\ Return(FALSE, buf)
  /\ UNCHANGED <<ssl, calls, conns, served>>

(* Mutant of recvSynTimeout: the request is sent again. *)
recvSynTimeoutResends ==
  /\ pc = "wait" /\ ~armed
  /\ pc' = "canWrite" /\ off' = 0
  /\ UNCHANGED <<req, buf, res, net>>
  /\ UNCHANGED <<ssl, ev, mem, calls, conns, served>>

(* ... or nothing. *)
recvSynTimeout ==
  /\ pc = "wait" /\ ~armed
  /\ Return(FALSE, buf)
  /\ taint' = TRUE
  /\ UNCHANGED <<c2s, todo, rx, peer, armed, wire>>
  /\ UNCHANGED <<ssl, ev, mem, calls, conns, served>>

(* What isFullPkt asks for: everything at first, then what is missing. *)
Need(b) == IF b = <<>> THEN BufCap ELSE PktLen - Len(b)

(* recvPkt: one recv; the packet is complete, malformed, or wants more. *)
recvSome ==
  /\ pc = "recv" /\ rx # <<>>
  /\ LET n == IF Len(rx) < Need(buf) THEN Len(rx) ELSE Need(buf)
         b == buf \o SubSeq(rx, 1, n)
     IN  /\ rx' = SubSeq(rx, n + 1, Len(rx))
         /\ \/ /\ Head(b)[2] # 1
               /\ Return(FALSE, b) /\ taint' = TRUE
            \/ /\ Head(b)[2] = 1 /\ Len(b) >= PktLen
               /\ Return(TRUE, b) /\ taint' = (taint \/ Len(b) > PktLen)
            \/ /\ Head(b)[2] = 1 /\ Len(b) < PktLen
               /\ buf' = b
               /\ UNCHANGED <<pc, req, off, res, taint>>
  /\ UNCHANGED <<c2s, todo, peer, armed, wire>>
  /\ UNCHANGED <<ssl, ev, mem, calls, conns, served>>

recvEof ==
  /\ pc = "recv" /\ rx = <<>> /\ peer # "open"
  /\ Return(FALSE, buf)
  /\ taint' = TRUE
  /\ UNCHANGED <<c2s, todo, rx, peer, armed, wire>>
  /\ UNCHANGED <<ssl, ev, mem, calls, conns, served>>

(* Mutant of recvTimeout: the loop has no timer. *)
recvTimeoutNever ==
  /\ pc = "recv" /\ FALSE
  /\ UNCHANGED vars

(* The two seconds of recvPkt are over: it returns 0 all the same. *)
recvTimeout ==
  /\ pc = "recv" /\ rx = <<>>
  /\ Return(TRUE, buf)
  /\ taint' = TRUE
  /\ UNCHANGED <<c2s, todo, rx, peer, armed, wire>>
  /\ UNCHANGED <<ssl, ev, mem, calls, conns, served>>

----------------------------------------------------------------------------
(* _pevs is not initialised. *)
Init ==
  /\ ssl \in BOOLEAN
  /\ sock = "null" /\ data = "null" /\ reg = FALSE
  /\ ev \in {{}, {"RDHUP"}}
  /\ pc = "idle" /\ req = 0 /\ off = 0 /\ buf = <<>>
  /\ res = [req |-> 0, ok |-> FALSE, buf |-> <<>>, clean |-> FALSE]
  /\ c2s = <<>> /\ todo = <<>> /\ rx = <<>> /\ peer = "fin" /\ armed = FALSE
  /\ calls = 0 /\ conns = 0
  /\ served = <<>> /\ wire = <<>> /\ taint = FALSE /\ lost = FALSE /\ bad = FALSE

Call ==
  \/ reconnected \/ canWrite \/ writeSome \/ writeFail
  \/ recvSyn \/ recvSynErr \/ recvSynTimeout
  \/ recvSome \/ recvEof \/ recvTimeout

Next == connect \/ Close \/ sendRecv \/ Call \/ Serve \/ Deliver \/ PeerClose

Spec == Init /\ [][Next]_vars

(* The calling thread is scheduled and its timers run out; the peer owes
   nothing. *)
FairSpec == Spec /\ WF_vars(Call)

----------------------------------------------------------------------------
(* Properties.                                                             *)

TypeOK ==
  /\ ssl \in BOOLEAN /\ reg \in BOOLEAN /\ armed \in BOOLEAN
  /\ sock \in {"null", "closed", "open"}
  /\ data \in {"null", "live", "freed"}
  /\ ev \subseteq {"IN", "OUT", "RDHUP", "HUP"}
  /\ pc \in {"idle", "reconnect", "canWrite", "hungUp", "write", "wait", "recv"}
  /\ off \in 0..PktLen /\ Len(buf) <= BufCap
  /\ peer \in {"open", "fin", "abort"}
  /\ calls \in 0..MaxCalls

(* A call that returns 0 with a whole packet returns the answer to its own
   request, on any connection, first or reconnected, whose earlier calls all
   ended with their answers read: nothing of another request or of an older
   connection is taken for it. *)
OwnAnswer ==
  (res.ok /\ Len(res.buf) >= PktLen /\ res.clean) => res.buf = Pkt(res.req)

(* The peer carries a request out at most once: a request is never repeated by
   the reconnection inside send. *)
AtMostOnce == \A j, k \in 1..Len(served) : served[j] = served[k] => j = k

(* _data is used and deleted once as long as no reconnection has failed: the
   reconnection that succeeds, closeSock and an error event each leave it
   pointing to a live object or to nothing. *)
SafeUnlessLost == bad => lost

(* A client with a TLS context writes no request to a connection whose handshake
   failed, although such a connection keeps its descriptor, has no SSL object
   and counts as connected: what keeps send from it is the hang-up still in
   _pevs from the wait before. *)
NoPlaintext == (ssl /\ pc = "write") => reg

(* However the peer behaves, a call returns. *)
CallReturns == (pc # "idle") ~> (pc = "idle")

(* When send has written the whole request the bytes on the wire are those of
   the request, in order, however many writes that took; over a plain
   connection only if one write was enough. *)
SentWhole ==
  (pc = "wait" /\ ~taint) => SubSeq(wire, Len(wire) - PktLen + 1, Len(wire)) = Pkt(req)

(* The types, and what a request owes the peer: it is written whole and in
   order, carried out once and, with TLS, never in the clear. *)
Inv == TypeOK /\ AtMostOnce /\ NoPlaintext /\ SentWhole
=============================================================================
