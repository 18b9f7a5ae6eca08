------------------------------- MODULE NetTh -------------------------------
(***************************************************************************)
(* One network thread of the server with its worker pool: YS_NetTh,        *)
(* YS_ProcThread and YS_NetBufQueue (isaac/ys_thread_asyn.h), YS_ConnList  *)
(* (ys_conn_list.h), YS_EpData and YS_Epoller (ys_epoller.h), YS_NetBuf    *)
(* (ys_handle.h), YS_Socket::_recvfrom (ys_socket.h).                      *)
(*                                                                         *)
(* Actors: the thread that accepts (addConn), the network thread           *)
(* (epollRun), the worker threads (handle), the peers and the clock.  A    *)
(* step is what runs between two points where another thread can see a     *)
(* difference: each use of a YS_ThQueue, each critical section of          *)
(* YS_ConnList, each epoll_ctl.                                            *)
(*                                                                         *)
(* A connection's byte stream is a sequence of numbered chunks; a buffer   *)
(* holds the chunks read into recvData.  What isFullPkt answers is up to   *)
(* the protocol, so it is a free choice.  Epoll is edge-triggered: `ready' *)
(* holds the sockets with an event not yet delivered.  The two queues are  *)
(* used through operations ThQueue shows atomic, hence plain sequences.    *)
(***************************************************************************)
EXTENDS Naturals, Sequences, FiniteSets, SequencesExt

CONSTANTS
  Socks,        \* connections
  Bufs,         \* buffers allocated by resize()
  Workers,      \* the YS_ProcThread's
  None,         \* nullptr
  SupportBlock, \* YS_Driver::supportBlock
  UseCtx,       \* does the driver's isFullPkt keep a YS_PktCtx (HTTP does)?
  CanClose,     \* may a handler call refSock->closeWait()?
  ConnTmout,    \* _connTmout # 0 (the UDP server)
  Cap,          \* capacity of recvData, in chunks
  MaxSend,      \* bound: chunks one peer sends
  MaxTotal      \* bound: chunks all peers send together

ASSUME NetThAssumption ==
  /\ IsFiniteSet(Socks) /\ IsFiniteSet(Bufs) /\ IsFiniteSet(Workers)
  /\ None \notin Socks \cup Bufs
  /\ {SupportBlock, UseCtx, CanClose, ConnTmout} \subseteq BOOLEAN
  /\ Cap \in Nat \ {0}
  /\ MaxSend \in Nat /\ MaxTotal \in Nat

VARIABLES
  conns,        \* keys of YS_ConnList::_mp; each has its YS_EpData
  epbuf,        \* YS_EpData::buf of each connection
  tmr,          \* YS_EpData::tmer: off, run, late (> 3 s), dead (> _connTmout)
  ep,           \* sockets registered with epoll
  ready,        \* those with an undelivered event
  admitted,     \* sockets ever given to addConn
  joining,      \* socket between _conns.add and addSock, or None
  sent, rcvd,   \* chunks sent by the peer, chunks read by the server
  fin,          \* peers that have shut down
  closeWait,    \* sockets with _fclosewait set
  closed,       \* sockets with fd = -1
  idle, busi,   \* _pQuIdle, _pQuBusi
  data,         \* recvData of each buffer
  ref, cb,      \* refSock, cbBusiFinal # nullptr
  ctx,          \* connections whose bytes the buffer's ctx has parsed, or
                \* {None} once it is left over from a packet thrown away
  npc,          \* where the network thread is
  cur, nbuf,    \* its pData and pBuf
  vecB, vecS,   \* its local vectors of buffers and of sockets
  freed,        \* buffers deleted
  wpc, wbuf,    \* where each worker is, and its pBuf
  fault         \* "none", or the invalid pointer a thread has just used: "null"
                \* or "freed" by a worker, "erased" or "deleted" by onEpollErr

connVars == <<conns, epbuf, tmr>>
epVars   == <<ep, ready>>
sockVars == <<admitted, joining, sent, rcvd, fin, closeWait, closed>>
bufVars  == <<idle, busi, data, ref, cb, ctx, freed>>
netVars  == <<npc, cur, nbuf, vecB, vecS>>
workVars == <<wpc, wbuf>>

vars == <<connVars, epVars, sockVars, bufVars, netVars, workVars, fault>>

----------------------------------------------------------------------------
(* Helpers.                                                                *)

Unread(s) == sent[s] - rcvd[s]

(* Chunks m+1..n of s. *)
Chunks(s, m, n) == [i \in 1..(n - m) |-> <<s, m + i>>]

(* Mutant of addSock: EPOLLRDHUP is not among the events asked for. *)
addSockNoHup(s) ==
  /\ ep' = ep \cup {s}
  /\ ready' = IF Unread(s) > 0 THEN ready \cup {s} ELSE ready

(* addSock and delSock.  Adding a socket that is readable or hung up makes
   an event pending at once. *)
addSock(s) ==
  /\ ep' = ep \cup {s}
  /\ ready' = IF Unread(s) > 0 \/ s \in fin THEN ready \cup {s} ELSE ready

delSock(S) == ep' = ep \ S /\ ready' = ready \ S

(* An event on a registered socket. *)
Raise(s) == ready' = IF s \in ep THEN ready \cup {s} ELSE ready

(* Mutant of pushTask: push_front instead of push_back. *)
pushTaskFront(b) == busi' = <<b>> \o busi

pushIdle(b) == idle' = Append(idle, b)
pushTask(b) == busi' = Append(busi, b)

(* Mutant of clearBuf: the socket is not released. *)
clearBufKeepsSock(b) ==
  /\ data' = [data EXCEPT ![b] = <<>>]
  /\ cb'   = [cb EXCEPT ![b] = FALSE]
  /\ ctx'  = [ctx EXCEPT ![b] = {}]
  /\ UNCHANGED ref

(* Mutant of clearBuf: the context is not deleted. *)
clearBufKeepsCtx(b) ==
  /\ data' = [data EXCEPT ![b] = <<>>]
  /\ ref'  = [ref EXCEPT ![b] = None]
  /\ cb'   = [cb EXCEPT ![b] = FALSE]
  /\ UNCHANGED ctx

(* YS_NetBuf::clear(). *)
clearBuf(b) ==
  /\ data' = [data EXCEPT ![b] = <<>>]
  /\ ref'  = [ref EXCEPT ![b] = None]
  /\ cb'   = [cb EXCEPT ![b] = FALSE]
  /\ ctx'  = [ctx EXCEPT ![b] = {}]

(* ~YS_EpData of the sockets S, in getAllClosedSock and getAllTimeOutSock:
   the entry goes, and the buffer attached to it is deleted. *)
dropConns(S) ==
  /\ conns' = conns \ S
  /\ freed' = freed \cup ({epbuf[s] : s \in S} \ {None})
  /\ epbuf' = [s \in Socks |-> IF s \in S THEN None ELSE epbuf[s]]

----------------------------------------------------------------------------
(* The accepting thread: YS_NetTh::addConn.                                *)

addConn(s) ==
  /\ joining = None /\ s \notin admitted
  /\ admitted' = admitted \cup {s}
  /\ joining' = s
  /\ conns' = conns \cup {s}
  /\ UNCHANGED <<epbuf, tmr, epVars, sent, rcvd, fin, closeWait, closed,
                 bufVars, netVars, workVars, fault>>

addConnReg ==
  /\ joining # None
  /\ addSock(joining)
  /\ joining' = None
  /\ UNCHANGED <<connVars, admitted, sent, rcvd, fin, closeWait, closed,
                 bufVars, netVars, workVars, fault>>

----------------------------------------------------------------------------
(* Peers and clock.                                                        *)

PeerSend(s) ==
  /\ s \in conns \ fin
  /\ sent[s] < MaxSend /\ FoldFunction(+, 0, sent) < MaxTotal
  /\ sent' = [sent EXCEPT ![s] = sent[s] + 1]
  /\ Raise(s)
  /\ UNCHANGED <<connVars, ep, admitted, joining, rcvd, fin, closeWait, closed,
                 bufVars, netVars, workVars, fault>>

PeerFin(s) ==
  /\ s \in conns \ fin
  /\ fin' = fin \cup {s}
  /\ Raise(s)
  /\ UNCHANGED <<connVars, ep, admitted, joining, sent, rcvd, closeWait, closed,
                 bufVars, netVars, workVars, fault>>

TimePasses(s) ==
  /\ s \in conns
  /\ \/ tmr[s] = "run" /\ tmr' = [tmr EXCEPT ![s] = "late"]
     \/ tmr[s] = "late" /\ ConnTmout /\ tmr' = [tmr EXCEPT ![s] = "dead"]
  /\ UNCHANGED <<conns, epbuf, epVars, sockVars, bufVars, netVars, workVars, fault>>

----------------------------------------------------------------------------
(* The network thread: epollRun.                                           *)

(* The end of onEpollErr.  YS_ConnList::del erases the map's node and then
   deletes what iter->second says, read from the freed node; onEpollErr goes on
   with pData->sock of the YS_EpData just deleted.  If nobody has reused the
   memory in between both go well, else the thread is lost. *)
UseAfterErase ==
  \/ fault' = fault /\ npc' = npc
  \/ fault' \in {"erased", "deleted"} /\ npc' = "lost"

(* Mutant of onEpollErr: the attached buffer is left for ~YS_EpData to delete. *)
onEpollErrDeletes(s) ==
  /\ npc = "wait" /\ s \in ready \cap fin
  /\ delSock({s})
  /\ dropConns({s})
  /\ UseAfterErase
  /\ UNCHANGED <<tmr, sockVars, idle, busi, data, ref, cb, ctx,
                 cur, nbuf, vecB, vecS, workVars>>

(* dealEvent gives EPOLLRDHUP precedence over EPOLLIN. *)
onEpollErr(s) ==
  /\ npc = "wait" /\ s \in ready \cap fin
  /\ IF epbuf[s] # None
     THEN clearBuf(epbuf[s]) /\ pushIdle(epbuf[s])
     ELSE UNCHANGED <<idle, data, ref, cb, ctx>>
  /\ delSock({s})
  /\ conns' = conns \ {s}
  /\ epbuf' = [epbuf EXCEPT ![s] = None]
  /\ UseAfterErase
  /\ UNCHANGED <<tmr, sockVars, busi, freed, cur, nbuf, vecB, vecS, workVars>>

(* onEpollIn up to popIdle(): the buffer is the attached one or a new one. *)
onEpollIn(s) ==
  /\ npc = "wait" /\ s \in ready \ fin
  /\ ready' = ready \ {s}
  /\ cur' = s
  /\ \/ epbuf[s] # None /\ npc' = "recv" /\ nbuf' = epbuf[s] /\ tmr' = tmr
     \/ epbuf[s] = None /\ npc' = "pop" /\ nbuf' = nbuf
          /\ tmr' = [tmr EXCEPT ![s] = "run"]
  /\ UNCHANGED <<conns, epbuf, ep, sockVars, bufVars, vecB, vecS, workVars, fault>>

popIdle ==
  /\ npc = "pop" /\ idle # <<>>
  /\ idle' = Tail(idle)
  /\ nbuf' = Head(idle)
  /\ npc' = "recv"
  /\ UNCHANGED <<connVars, epVars, sockVars, busi, data, ref, cb, ctx, freed,
                 cur, vecB, vecS, workVars, fault>>

(* popIdle() gives up after 200 ms: the event is dropped, nothing is read. *)
popIdleTimeout ==
  /\ npc = "pop" /\ idle = <<>>
  /\ npc' = "wait" /\ cur' = None
  /\ UNCHANGED <<connVars, epVars, sockVars, bufVars, nbuf, vecB, vecS, workVars, fault>>

(* The thread is back in epoll_wait. *)
Done == npc' = "wait" /\ cur' = None /\ nbuf' = None

(* Mutant of Got: the length asked for is taken for the length read. *)
GotRoom(s, b) == Cap - Len(data[b])

(* Socket::recv fills the buffer or drains the socket. *)
Got(s, b) ==
  LET room == Cap - Len(data[b])
  IN  IF Unread(s) < room THEN Unread(s) ELSE room

(* Mutant of RecvData: new bytes are written at uData(), not at left(). *)
RecvDataFront(s, b) == Chunks(s, rcvd[s], rcvd[s] + Got(s, b)) \o data[b]

RecvData(s, b) == data[b] \o Chunks(s, rcvd[s], rcvd[s] + Got(s, b))

(* The parser's context of a packet thrown away stays in the buffer b. *)
leaveCtx(b) ==
  ctx' = [ctx EXCEPT ![b] = IF UseCtx /\ (ctx[b] # {} \/ Got(cur, b) > 0) THEN {None} ELSE ctx[b]]

(* Mutant of Discard: pData->buf is not reset. *)
DiscardAttached(b) ==
  /\ data' = [data EXCEPT ![b] = <<>>]
  /\ leaveCtx(b)
  /\ pushIdle(b)
  /\ UNCHANGED <<epbuf, busi, ref, cb>>

(* Error paths: the data is dropped, ctx stays in the buffer. *)
Discard(b) ==
  /\ data' = [data EXCEPT ![b] = <<>>]
  /\ leaveCtx(b)
  /\ epbuf' = [epbuf EXCEPT ![cur] = None]
  /\ pushIdle(b)
  /\ UNCHANGED <<busi, ref, cb>>

(* recv found the peer gone and nothing to read. *)
recvFail ==
  /\ npc = "recv" /\ Unread(cur) = 0 /\ cur \in fin
  /\ Discard(nbuf)
  /\ Done
  /\ UNCHANGED <<conns, tmr, epVars, sockVars, freed, vecB, vecS, workVars, fault>>

(* An event with nothing behind it. *)
recvNothing ==
  /\ npc = "recv" /\ Unread(cur) = 0 /\ cur \notin fin
  /\ data[nbuf] = <<>>
  /\ epbuf' = [epbuf EXCEPT ![cur] = None]
  /\ pushIdle(nbuf)
  /\ Done
  /\ UNCHANGED <<conns, tmr, epVars, sockVars, busi, data, ref, cb, ctx, freed,
                 vecB, vecS, workVars, fault>>

(* What is common to the outcomes of isFullPkt: data was read and parsed. *)
recvParsed ==
  /\ npc = "recv"
  /\ Unread(cur) > 0 \/ (cur \notin fin /\ data[nbuf] # <<>>)
  /\ rcvd' = [rcvd EXCEPT ![cur] = rcvd[cur] + Got(cur, nbuf)]
  /\ Done
  /\ UNCHANGED <<conns, tmr, admitted, joining, sent, fin, closeWait, closed,
                 freed, vecB, vecS, workVars, fault>>

IsFull == Len(RecvData(cur, nbuf)) = Cap

(* isFullPkt < 0. *)
recvBad == recvParsed /\ Discard(nbuf) /\ UNCHANGED epVars

(* The bytes stay, parsed with the buffer's context. *)
Keep ==
  /\ data' = [data EXCEPT ![nbuf] = RecvData(cur, nbuf)]
  /\ ctx' = [ctx EXCEPT ![nbuf] = IF UseCtx /\ None \notin ctx[nbuf]
                                  THEN ctx[nbuf] \cup {cur} ELSE ctx[nbuf]]

Dispatch(final) ==
  /\ Keep
  /\ epbuf' = [epbuf EXCEPT ![cur] = None]
  /\ ref' = [ref EXCEPT ![nbuf] = cur]
  /\ cb' = [cb EXCEPT ![nbuf] = cb[nbuf] \/ final]
  /\ pushTask(nbuf)
  /\ UNCHANGED idle

(* Mutant of recvFull: the socket is not taken out of epoll. *)
recvFullInEpoll ==
  /\ recvParsed /\ IsFull
  /\ IF SupportBlock
     THEN Dispatch(TRUE)
     ELSE Discard(nbuf)
  /\ UNCHANGED epVars

(* The buffer is full: the socket leaves epoll until the handler is done,
   or the packet is dropped. *)
recvFull ==
  /\ recvParsed /\ IsFull
  /\ IF SupportBlock
     THEN Dispatch(TRUE) /\ delSock({cur})
     ELSE Discard(nbuf) /\ UNCHANGED epVars

(* isFullPkt > 0: the buffer stays with the connection. *)
recvMore ==
  /\ recvParsed /\ ~IsFull
  /\ Keep
  /\ epbuf' = [epbuf EXCEPT ![cur] = nbuf]
  /\ UNCHANGED <<idle, busi, ref, cb, epVars>>

(* isFullPkt = 0. *)
recvWhole ==
  /\ recvParsed /\ ~IsFull
  /\ Dispatch(FALSE)
  /\ UNCHANGED epVars

Recv == recvFail \/ recvNothing \/ recvBad \/ recvFull \/ recvMore \/ recvWhole

----------------------------------------------------------------------------
(* fireOnce() = 0: 200 ms without an event.                                *)

(* Mutant of TimedOut: the connection's timeout is used for the packet. *)
TimedOutDead == {s \in conns : epbuf[s] # None /\ tmr[s] = "dead"}

(* clearTimeOut: getAllTimeOutBuf takes the buffers of packets that did not
   complete in time (ctx is kept) ... *)
TimedOut == {s \in conns : epbuf[s] # None /\ tmr[s] \in {"late", "dead"}}

getAllTimeOutBuf ==
  /\ npc = "wait" /\ ready = {}
  /\ npc' = "reclaim"
  /\ vecB' = {epbuf[s] : s \in TimedOut}
  /\ data' = [b \in Bufs |-> IF b \in vecB' THEN <<>> ELSE data[b]]
  /\ ctx' = [b \in Bufs |-> IF b \in vecB' /\ ctx[b] # {} THEN {None} ELSE ctx[b]]
  /\ epbuf' = [s \in Socks |-> IF s \in TimedOut THEN None ELSE epbuf[s]]
  /\ tmr' = [s \in Socks |-> IF s \in TimedOut THEN "off" ELSE tmr[s]]
  /\ UNCHANGED <<conns, epVars, sockVars, idle, busi, ref, cb, freed,
                 cur, nbuf, vecS, workVars, fault>>

(* ... and they are pushed to the idle queue one by one. *)
clearTimeOut(b) ==
  /\ npc = "reclaim" /\ b \in vecB
  /\ vecB' = vecB \ {b}
  /\ pushIdle(b)
  /\ UNCHANGED <<connVars, epVars, sockVars, busi, data, ref, cb, ctx, freed,
                 npc, cur, nbuf, vecS, workVars, fault>>

(* Mutant of getAllClosedSock: it looks for sockets already closed. *)
getAllClosedSockByFd ==
  /\ npc = "reclaim" /\ vecB = {}
  /\ npc' = "delsock"
  /\ vecS' = conns \cap closed
  /\ dropConns(vecS')
  /\ UNCHANGED <<tmr, epVars, sockVars, idle, busi, data, ref, cb, ctx,
                 cur, nbuf, vecB, workVars, fault>>

(* clearClosed: the entries of sockets to close are deleted first ... *)
getAllClosedSock ==
  /\ npc = "reclaim" /\ vecB = {}
  /\ npc' = "delsock"
  /\ vecS' = conns \cap closeWait
  /\ dropConns(vecS')
  /\ UNCHANGED <<tmr, epVars, sockVars, idle, busi, data, ref, cb, ctx,
                 cur, nbuf, vecB, workVars, fault>>

(* Mutant of clearClosed: the sockets stay in epoll. *)
clearClosedInEpoll ==
  /\ npc = "delsock"
  /\ vecS' = {}
  /\ npc' = IF ConnTmout THEN "tmout" ELSE "wait"
  /\ UNCHANGED <<connVars, epVars, sockVars, bufVars, cur, nbuf, vecB, workVars, fault>>

(* ... and removed from epoll afterwards. *)
clearClosed ==
  /\ npc = "delsock"
  /\ delSock(vecS)
  /\ vecS' = {}
  /\ npc' = IF ConnTmout THEN "tmout" ELSE "wait"
  /\ UNCHANGED <<connVars, sockVars, bufVars, cur, nbuf, vecB, workVars, fault>>

getAllTimeOutSock ==
  /\ npc = "tmout"
  /\ npc' = "close"
  /\ vecS' = {s \in conns : tmr[s] = "dead"}
  /\ dropConns(vecS')
  /\ UNCHANGED <<tmr, epVars, sockVars, idle, busi, data, ref, cb, ctx,
                 cur, nbuf, vecB, workVars, fault>>

clearTimeOutSock ==
  /\ npc = "close"
  /\ delSock(vecS)
  /\ closed' = closed \cup vecS
  /\ vecS' = {}
  /\ npc' = "wait"
  /\ UNCHANGED <<connVars, admitted, joining, sent, rcvd, fin, closeWait,
                 bufVars, cur, nbuf, vecB, workVars, fault>>

----------------------------------------------------------------------------
(* Worker w: YS_ProcThread::handle.                                        *)

Goto(w, l) == wpc' = [wpc EXCEPT ![w] = l]

popTask(w) ==
  /\ wpc[w] = "pop" /\ busi # <<>>
  /\ busi' = Tail(busi)
  /\ wbuf' = [wbuf EXCEPT ![w] = Head(busi)]
  /\ Goto(w, "handle")
  /\ UNCHANGED <<connVars, epVars, sockVars, idle, data, ref, cb, ctx, freed,
                 netVars, fault>>

(* The handler runs and the answer is sent.  It may ask for the connection
   to be closed; given a packet that fills its buffer, it may read on from
   the socket (YS_HttpResponse::recvFile). *)
handle(w) ==
  LET b == wbuf[w]
      s == ref[b]
  IN  /\ wpc[w] = "handle"
      /\ \/ closeWait' = closeWait
         \/ CanClose /\ closeWait' = closeWait \cup {s}
      /\ \E n \in rcvd[s]..sent[s] :
           /\ ~cb[b] => n = rcvd[s]
           /\ rcvd' = [rcvd EXCEPT ![s] = n]
      /\ Goto(w, IF cb[b] THEN "final" ELSE "clear")
      /\ UNCHANGED <<connVars, epVars, admitted, joining, sent, fin, closed,
                     bufVars, netVars, wbuf, fault>>

(* Mutant of regSock: the test of isConnected() is inverted. *)
regSockClosed(w) ==
  LET s == ref[wbuf[w]]
  IN  /\ wpc[w] = "final"
      /\ IF s \in closed THEN Goto(w, "add") ELSE Goto(w, "clear")
      /\ UNCHANGED <<connVars, epVars, sockVars, bufVars, netVars, wbuf, fault>>

(* cbBusiFinal = regSock: isConnected() and getData() ... *)
regSock(w) ==
  LET s == ref[wbuf[w]]
  IN  /\ wpc[w] = "final"
      /\ \/ s \in closed /\ Goto(w, "clear") /\ fault' = fault
         \/ s \in conns \ closed /\ Goto(w, "add") /\ fault' = fault
         \/ s \notin conns \cup closed /\ wpc' = wpc /\ fault' = "null"
      /\ UNCHANGED <<connVars, epVars, sockVars, bufVars, netVars, wbuf>>

(* ... and addSock() with the YS_EpData it found. *)
regSockAdd(w) ==
  LET s == ref[wbuf[w]]
  IN  /\ wpc[w] = "add"
      /\ \/ s \in conns /\ addSock(s) /\ Goto(w, "clear") /\ fault' = fault
         \/ s \notin conns /\ UNCHANGED epVars /\ wpc' = wpc /\ fault' = "freed"
      /\ UNCHANGED <<connVars, sockVars, bufVars, netVars, wbuf>>

(* Mutant of clearAndPushIdle: the buffer is not given back. *)
clearOnly(w) ==
  /\ wpc[w] = "clear"
  /\ clearBuf(wbuf[w])
  /\ wbuf' = [wbuf EXCEPT ![w] = None]
  /\ Goto(w, "pop")
  /\ UNCHANGED <<connVars, epVars, sockVars, idle, busi, freed, netVars, fault>>

clearAndPushIdle(w) ==
  /\ wpc[w] = "clear"
  /\ clearBuf(wbuf[w])
  /\ pushIdle(wbuf[w])
  /\ wbuf' = [wbuf EXCEPT ![w] = None]
  /\ Goto(w, "pop")
  /\ UNCHANGED <<connVars, epVars, sockVars, busi, freed, netVars, fault>>

----------------------------------------------------------------------------
Init ==
  /\ conns = {} /\ ep = {} /\ ready = {} /\ admitted = {} /\ joining = None
  /\ epbuf = [s \in Socks |-> None]
  /\ tmr   = [s \in Socks |-> "off"]
  /\ sent  = [s \in Socks |-> 0]
  /\ rcvd  = [s \in Socks |-> 0]
  /\ fin = {} /\ closeWait = {} /\ closed = {}
  /\ idle \in SetToSeqs(Bufs) /\ busi = <<>>
  /\ data = [b \in Bufs |-> <<>>]
  /\ ref  = [b \in Bufs |-> None]
  /\ cb   = [b \in Bufs |-> FALSE]
  /\ ctx  = [b \in Bufs |-> {}]
  /\ freed = {}
  /\ npc = "wait" /\ cur = None /\ nbuf = None /\ vecB = {} /\ vecS = {}
  /\ wpc  = [w \in Workers |-> "pop"]
  /\ wbuf = [w \in Workers |-> None]
  /\ fault = "none"

Environment ==
  \E s \in Socks : addConn(s) \/ PeerSend(s) \/ PeerFin(s)

Clock == \E s \in Socks : TimePasses(s)

Net ==
  \/ \E s \in Socks : onEpollErr(s) \/ onEpollIn(s)
  \/ popIdle \/ popIdleTimeout \/ Recv
  \/ getAllTimeOutBuf \/ \E b \in Bufs : clearTimeOut(b)
  \/ getAllClosedSock \/ clearClosed \/ getAllTimeOutSock \/ clearTimeOutSock

Work(w) ==
  popTask(w) \/ handle(w) \/ regSock(w) \/ regSockAdd(w) \/ clearAndPushIdle(w)

(* The network thread is gone, and the program with it. *)
Lost == npc = "lost" /\ UNCHANGED vars

(* A thread that used an invalid pointer gets no further; what the others do
   in the instant before the program dies is of no interest. *)
Next ==
  \/ Environment \/ addConnReg \/ Clock
  \/ Net
  \/ \E w \in Workers : Work(w)
  \/ Lost

Spec == Init /\ [][Next]_vars

(* Every thread that can run is run, and time passes.  The network thread is
   always able to: epoll_wait and popIdle() return after 200 ms at most.
   Nothing obliges a peer to send or to shut down. *)
FairSpec ==
  /\ Spec
  /\ WF_vars(Net) /\ WF_vars(addConnReg)
  /\ \A w \in Workers : WF_vars(Work(w))
  /\ \A s \in Socks : WF_vars(TimePasses(s))

----------------------------------------------------------------------------
(* Properties.                                                             *)

TypeOK ==
  /\ conns \subseteq Socks /\ ep \subseteq Socks /\ ready \subseteq ep
  /\ admitted \subseteq Socks /\ fin \subseteq Socks
  /\ closeWait \subseteq Socks /\ closed \subseteq Socks /\ vecS \subseteq Socks
  /\ joining \in Socks \cup {None} /\ cur \in Socks \cup {None}
  /\ epbuf \in [Socks -> Bufs \cup {None}]
  /\ tmr \in [Socks -> {"off", "run", "late", "dead"}]
  /\ sent \in [Socks -> 0..MaxSend] /\ rcvd \in [Socks -> 0..MaxSend]
  /\ idle \in Seq(Bufs) /\ busi \in Seq(Bufs)
  /\ data \in [Bufs -> Seq(Socks \X (1..MaxSend))]
  /\ ref \in [Bufs -> Socks \cup {None}]
  /\ cb \in [Bufs -> BOOLEAN]
  /\ ctx \in [Bufs -> SUBSET (Socks \cup {None})]
  /\ freed \subseteq Bufs /\ vecB \subseteq Bufs
  /\ npc \in {"wait", "pop", "recv", "reclaim", "delsock", "tmout", "close", "lost"}
  /\ nbuf \in Bufs \cup {None}
  /\ wpc \in [Workers -> {"pop", "handle", "final", "add", "clear"}]
  /\ wbuf \in [Workers -> Bufs \cup {None}]
  /\ fault \in {"none", "null", "freed", "erased", "deleted"}

(* The places a buffer can be in. *)
Attached == {epbuf[s] : s \in Socks} \ {None}
NetHand  == vecB \cup IF npc = "recv" /\ epbuf[cur] = None THEN {nbuf} ELSE {}
Working  == {wbuf[w] : w \in Workers} \ {None}

Distinct(q) == \A i, j \in DOMAIN q : q[i] = q[j] => i = j
OneEach(f) == \A x, y \in DOMAIN f : f[x] = f[y] /\ f[x] # None => x = y
Apart(A, B) == A \cap B = {}

(* Each YS_NetBuf, handed around as a bare pointer by the network thread, the
   workers and the two queues, has exactly one owner at any time: it is never
   pushed twice, given to two connections or workers, leaked, or used after
   it was deleted. *)
BufferOwnership ==
  /\ Distinct(idle) /\ Distinct(busi) /\ OneEach(epbuf) /\ OneEach(wbuf)
  /\ Apart(Range(idle), Range(busi) \cup Attached \cup NetHand \cup Working \cup freed)
  /\ Apart(Range(busi), Attached \cup NetHand \cup Working \cup freed)
  /\ Apart(Attached, NetHand \cup Working \cup freed)
  /\ Apart(NetHand, Working \cup freed)
  /\ Apart(Working, freed)
  /\ Bufs = Range(idle) \cup Range(busi) \cup Attached \cup NetHand
              \cup Working \cup freed

(* No event can be delivered with a deleted YS_EpData: whenever the thread may
   be in epoll_wait everything registered is in the table, and the connection
   it works on stays there while it does. *)
NoDanglingEvent ==
  /\ npc \notin {"delsock", "close"} => ep \subseteq conns
  /\ ep \subseteq conns \cup vecS
  /\ npc \in {"pop", "recv"} => cur \in conns

Tasks == Range(busi) \cup Working

(* A packet of b is a run of consecutive chunks of the connection b refers to:
   no bytes of another connection, none missing, none left over. *)
Consecutive(b) ==
  /\ ref[b] \in Socks
  /\ data[b] # <<>>
  /\ data[b] = Chunks(ref[b], data[b][1][2] - 1, data[b][1][2] - 1 + Len(data[b]))

(* What the handlers are given are consecutive chunks of one connection each,
   whatever the buffer held before; the packets of a connection are queued in
   the order of its stream, and what is still being received comes after. *)
StreamOrder ==
  /\ \A b \in Tasks : Consecutive(b)
  /\ \A i \in DOMAIN busi :
       /\ \A j \in DOMAIN busi :
            i < j /\ ref[busi[i]] = ref[busi[j]] =>
              Last(data[busi[i]])[2] < Head(data[busi[j]])[2]
       /\ \A s \in Socks :
            ref[busi[i]] = s /\ epbuf[s] # None =>
              Last(data[busi[i]])[2] < Head(data[epbuf[s]])[2]

(* A buffer waiting for its next packet carries nothing of the last one except
   possibly ctx: no bytes, no socket kept open, no completion callback. *)
IdleDrained ==
  \A b \in Range(idle) : data[b] = <<>> /\ ref[b] = None /\ ~cb[b]

(* While a handler owns a connection whose packet filled its buffer, nobody
   else reads from the socket: it is out of epoll, the network thread is not
   working on it, and no second such packet exists. *)
Blocking(b) == b \in Range(busi)
                 \/ \E w \in Workers : wbuf[w] = b /\ wpc[w] \in {"handle", "final", "add"}
ExclusiveBlock ==
  \A b \in Bufs : cb[b] /\ Blocking(b) =>
    /\ ref[b] \notin ep /\ ref[b] # cur
    /\ epbuf[ref[b]] = None
    /\ \A c \in Bufs : cb[c] /\ Blocking(c) /\ ref[c] = ref[b] => c = b

(* The types, and what the network thread keeps true between its steps: events
   point to live connections, idle buffers are clean, and a handler that reads
   the rest of a big packet has its socket to itself. *)
Inv == TypeOK /\ NoDanglingEvent /\ IdleDrained /\ ExclusiveBlock

(* Connections the server side closes: on a handler's request or, for UDP,
   after a silence. *)
Closing == closeWait \cup closed \cup vecS

(* Unless the server side closes a connection, the pointers into the connection
   table that workers hold are valid when they use them and no buffer leaves the
   pool, however hang-ups race with them.  It does not make a hang-up harmless:
   onEpollErr itself always uses what it has just freed (UseAfterErase). *)
WorkersSafeUnlessClosing == Closing = {} => fault \notin {"null", "freed"} /\ freed = {}

(* What the parser of a packet has seen comes from the packet's own connection,
   however the buffers move between connections and workers, unless the buffer
   still holds the context of a packet that was thrown away. *)
ParsedOneConn ==
  UseCtx => \A b \in Tasks : None \in ctx[b] \/ ctx[b] = {ref[b]}

(* A program that used an invalid pointer owes nothing any more. *)
Crashed == fault # "none"

(* A buffer always comes back to the idle queue, whether its packet completes
   and is handled, never completes, or loses its connection; only closing a
   connection in the middle of a packet takes it away (getAllClosedSock). *)
BuffersReturn ==
  \A b \in Bufs :
    (b \notin Range(idle)) ~> (b \in Range(idle) \/ b \in freed \/ Crashed)

(* A connection whose peer has gone, or that a handler wants closed, leaves the
   table, in spite of edge-triggered events consumed, and sockets taken out of
   epoll, in the meantime. *)
Reaped == \A s \in Socks : (s \in fin \cup closeWait) ~> (s \notin conns \/ Crashed)

(* A connection taken out of epoll for a big packet is listened to again. *)
Reregistered ==
  \A s \in Socks : (s \in conns \ ep) ~> (s \in ep \/ s \notin conns \/ Crashed)
=============================================================================
