-------------------------- MODULE TcpClientProofs --------------------------
(***************************************************************************)
(* Proofs about the synchronous client, for packets, buffers and numbers   *)
(* of calls of any size: its calls keep the types, write requests whole    *)
(* and once (TcpClient!Inv), an answer is the answer to its own request    *)
(* (TcpClient!OwnAnswer) and the epoll data is not used after it is freed  *)
(* unless a reconnection failed (TcpClient!SafeUnlessLost).                *)
(***************************************************************************)
EXTENDS TcpClient, SequenceTheorems, TLAPS

Byte == Nat \X Nat

(* The types the other parts need; buf grows by what recv is asked for. *)
Types ==
  /\ TypeOK
  /\ req = calls /\ calls \in Nat
  /\ c2s \in Seq(Byte) /\ todo \in Seq(Byte) /\ rx \in Seq(Byte)
  /\ wire \in Seq(Byte) /\ buf \in Seq(Byte) /\ served \in Seq(Nat)
  /\ taint \in BOOLEAN /\ lost \in BOOLEAN /\ bad \in BOOLEAN
  /\ pc \in {"reconnect", "canWrite", "hungUp"} => off = 0
  /\ pc = "write" => off < PktLen
  /\ pc = "wait" => off = PktLen
  /\ pc = "recv" => Len(buf) < PktLen

(* A descriptor outside epoll was lost by a failed reconnection, which only a
   hang-up starts: it is still in _pevs. *)
HupInv ==
  /\ pc \in {"canWrite", "hungUp", "write", "wait", "recv"} => sock = "open"
  /\ pc = "reconnect" => sock = "closed"
  /\ armed \/ peer = "open" \/ pc = "write" => reg
  /\ reg => sock = "open"
  /\ sock # "null" /\ ~reg => ev \cap Hup # {}
  /\ pc = "hungUp" => ev \cap Hup # {}

(* What is served is over: the bytes of a request lie less than a packet apart
   and are the last of those not yet read; nobody writes those of a request
   that has been served. *)
OnceInv ==
  /\ AtMostOnce
  /\ \A i \in 1..Len(c2s) : c2s[i][1] <= req
  /\ \A i, j \in 1..Len(c2s) : j >= i + PktLen => c2s[i][1] < c2s[j][1]
  /\ \A k \in 1..Len(served) :
       /\ served[k] <= req
       /\ \A i \in 1..Len(c2s) : served[k] < c2s[i][1]
       /\ pc \in {"reconnect", "canWrite", "hungUp", "write"} => served[k] < req
  /\ pc \in {"reconnect", "canWrite", "hungUp", "write"} =>
       \A i \in 1..Len(c2s) : c2s[i][1] = req => i > Len(c2s) - off

(* The last bytes on the wire are what has been written of the request. *)
WireInv ==
  pc \in {"write", "wait"} /\ ~taint =>
    /\ off <= Len(wire)
    /\ \A k \in 1..off : wire[Len(wire) - off + k] = <<req, k>>

(* Bytes of the answer the call has read. *)
Got == IF pc = "recv" THEN Len(buf) ELSE 0

(* Where the bytes of a request, and of its answer, are on a connection in
   order. *)
FlowInv ==
  ~taint =>
    /\ pc \notin {"write", "wait", "recv"} => c2s = <<>>
    /\ pc \notin {"wait", "recv"} => todo = <<>> /\ rx = <<>>
    /\ pc = "write" => Len(c2s) <= off /\ (peer = "open" => Len(c2s) = off)
    /\ Len(c2s) <= PktLen
    /\ c2s # <<>> => rx = <<>> /\ todo = <<>> /\ Got = 0
    /\ Got + Len(rx) + Len(todo) <= PktLen
    /\ \A i \in 1..Len(c2s) : c2s[i] = <<req, i>>
    /\ \A i \in 1..Len(rx) : rx[i] = <<req, Got + i>>
    /\ \A i \in 1..Len(todo) : todo[i] = <<req, Got + Len(rx) + i>>
    /\ pc = "recv" => \A i \in 1..Len(buf) : buf[i] = <<req, i>>

MemInv == (data = "freed" => lost) /\ SafeUnlessLost

----------------------------------------------------------------------------
(* Lemmas on the sequences of bytes.                                       *)

LEMMA PktFacts ==
  ASSUME NEW r \in Nat
  PROVE  /\ Pkt(r) \in Seq(Byte) /\ Len(Pkt(r)) = PktLen
         /\ \A k \in 1..PktLen : Pkt(r)[k] = <<r, k>>
<1>1. PktLen \in Nat
  BY TcpClientAssumption
<1>2. \A k \in 1..PktLen : <<r, k>> \in Byte
  BY <1>1 DEF Byte
<1>3. Pkt(r) \in Seq(Byte) /\ Len(Pkt(r)) = PktLen
  BY <1>1, <1>2 DEF Pkt
<1> QED BY <1>3 DEF Pkt

(* SubSeq within the bounds of a sequence of bytes. *)
LEMMA PartFacts ==
  ASSUME NEW s \in Seq(Byte), NEW m \in Nat \ {0}, NEW n \in Nat,
         n <= Len(s), m <= n + 1
  PROVE  /\ SubSeq(s, m, n) \in Seq(Byte)
         /\ Len(SubSeq(s, m, n)) = n - m + 1
         /\ \A k \in 1..(n - m + 1) : SubSeq(s, m, n)[k] = s[m + k - 1]
<1>1. \A k \in m..n : s[k] \in Byte
  BY ElementOfSeq, LenProperties
<1> QED BY <1>1, SubSeqProperties

LEMMA ByteSeq ==
  ASSUME NEW s \in Seq(Byte)
  PROVE  /\ Len(s) \in Nat /\ (s = <<>> <=> Len(s) = 0)
         /\ \A i \in 1..Len(s) : s[i] \in Byte /\ s[i][1] \in Nat /\ s[i][2] \in Nat
<1>1. Len(s) \in Nat /\ (s = <<>> <=> Len(s) = 0)
  BY EmptySeq, LenProperties
<1>2. \A i \in 1..Len(s) : s[i] \in Byte
  BY ElementOfSeq
<1>3. \A x \in Byte : x[1] \in Nat /\ x[2] \in Nat
  BY DEF Byte
<1> QED BY <1>1, <1>2, <1>3

(* The first n bytes, and the others. *)
LEMMA FirstFacts ==
  ASSUME NEW s \in Seq(Byte), NEW n \in Nat, n <= Len(s)
  PROVE  /\ SubSeq(s, 1, n) \in Seq(Byte) /\ Len(SubSeq(s, 1, n)) = n
         /\ \A k \in 1..n : SubSeq(s, 1, n)[k] = s[k]
<1>1. /\ SubSeq(s, 1, n) \in Seq(Byte) /\ Len(SubSeq(s, 1, n)) = n - 1 + 1
      /\ \A k \in 1..(n - 1 + 1) : SubSeq(s, 1, n)[k] = s[1 + k - 1]
  BY PartFacts
<1>2. n - 1 + 1 = n /\ \A k \in 1..n : 1 + k - 1 = k
  OBVIOUS
<1> QED BY <1>1, <1>2

LEMMA RestFacts ==
  ASSUME NEW s \in Seq(Byte), NEW n \in Nat, n <= Len(s)
  PROVE  /\ SubSeq(s, n + 1, Len(s)) \in Seq(Byte)
         /\ Len(SubSeq(s, n + 1, Len(s))) = Len(s) - n
         /\ \A k \in 1..(Len(s) - n) : SubSeq(s, n + 1, Len(s))[k] = s[n + k]
<1>0. Len(s) \in Nat
  BY LenProperties
<1>1. /\ SubSeq(s, n + 1, Len(s)) \in Seq(Byte)
      /\ Len(SubSeq(s, n + 1, Len(s))) = Len(s) - (n + 1) + 1
      /\ \A k \in 1..(Len(s) - (n + 1) + 1) : SubSeq(s, n + 1, Len(s))[k] = s[(n + 1) + k - 1]
  BY <1>0, PartFacts
<1>2. Len(s) - (n + 1) + 1 = Len(s) - n /\ \A k \in 1..(Len(s) - n) : (n + 1) + k - 1 = n + k
  BY <1>0
<1> QED BY <1>1, <1>2

(* What a write passes to the kernel. *)
LEMMA ChunkFacts ==
  ASSUME req \in Nat, off \in Nat, NEW n \in 1..(PktLen - off)
  PROVE  /\ Chunk(n) \in Seq(Byte) /\ Len(Chunk(n)) = n
         /\ \A k \in 1..n : Chunk(n)[k] = <<req, k + (IF ssl THEN off ELSE 0)>>
<1>1. PktLen \in Nat /\ n \in Nat /\ off + n <= PktLen
  BY TcpClientAssumption
<1>2. /\ Pkt(req) \in Seq(Byte) /\ Len(Pkt(req)) = PktLen
      /\ \A k \in 1..PktLen : Pkt(req)[k] = <<req, k>>
  BY PktFacts
<1>3. CASE ssl
  <2>1. /\ Chunk(n) \in Seq(Byte) /\ Len(Chunk(n)) = (off + n) - (off + 1) + 1
        /\ \A k \in 1..((off + n) - (off + 1) + 1) : Chunk(n)[k] = Pkt(req)[(off + 1) + k - 1]
    BY <1>1, <1>2, <1>3, PartFacts DEF Chunk
  <2> QED BY <1>1, <1>2, <1>3, <2>1
<1>4. CASE ~ssl
  <2>1. /\ Chunk(n) \in Seq(Byte) /\ Len(Chunk(n)) = n - 1 + 1
        /\ \A k \in 1..(n - 1 + 1) : Chunk(n)[k] = Pkt(req)[1 + k - 1]
    BY <1>1, <1>2, <1>4, PartFacts DEF Chunk
  <2> QED BY <1>1, <1>2, <1>4, <2>1
<1> QED BY <1>3, <1>4

----------------------------------------------------------------------------
(* Use of the epoll data, and hang-ups.                                    *)

LEMMA MemStep == Types /\ MemInv /\ [Next]_vars => MemInv'
<1> SUFFICES ASSUME Types, MemInv, [Next]_vars PROVE MemInv'
  OBVIOUS
<1>a. data \in {"null", "live", "freed"} /\ bad \in BOOLEAN /\ lost \in BOOLEAN
  BY DEF Types, TypeOK
<1> USE DEF MemInv, SafeUnlessLost
<1>1. ASSUME connect PROVE MemInv'
  BY <1>a, <1>1 DEF connect, NewConn, NoConn, mem, call, net
<1>2. ASSUME Close PROVE MemInv'
  BY <1>a, <1>2 DEF Close, closeSock, NoConn, DeleteData, call
<1>3. ASSUME sendRecv PROVE MemInv'
  BY <1>a, <1>3 DEF sendRecv, net, mem
<1>4. ASSUME reconnected PROVE MemInv'
  BY <1>a, <1>4 DEF reconnected, NewConn, NoConn, Return
<1>5. ASSUME canWrite PROVE MemInv'
  BY <1>a, <1>5 DEF canWrite, Gone, Room, Readable
<1>6. ASSUME writeSome PROVE MemInv'
  BY <1>a, <1>6 DEF writeSome, mem
<1>7. ASSUME writeFail PROVE MemInv'
  BY <1>a, <1>7 DEF writeFail, Return, mem
<1>8. ASSUME recvSyn PROVE MemInv'
  BY <1>a, <1>8 DEF recvSyn, Gone, mem
<1>9. ASSUME recvSynErr PROVE MemInv'
  BY <1>a, <1>9 DEF recvSynErr, Gone, closeSock, NoConn, DeleteData, Return
<1>10. ASSUME recvSynTimeout PROVE MemInv'
  BY <1>a, <1>10 DEF recvSynTimeout, Return, mem
<1>11. ASSUME recvSome PROVE MemInv'
  BY <1>a, <1>11 DEF recvSome, Return, mem
<1>12. ASSUME recvEof PROVE MemInv'
  BY <1>a, <1>12 DEF recvEof, Return, mem
<1>13. ASSUME recvTimeout PROVE MemInv'
  BY <1>a, <1>13 DEF recvTimeout, Return, mem
<1>14. ASSUME Serve PROVE MemInv'
  BY <1>a, <1>14 DEF Serve, mem, call
<1>15. ASSUME Deliver PROVE MemInv'
  BY <1>a, <1>15 DEF Deliver, mem, call
<1>16. ASSUME PeerClose PROVE MemInv'
  BY <1>a, <1>16 DEF PeerClose, mem, call
<1>17. ASSUME UNCHANGED vars PROVE MemInv'
  BY <1>a, <1>17 DEF vars, net, mem, call
<1> QED BY <1>1, <1>2, <1>3, <1>4, <1>5, <1>6, <1>7, <1>8, <1>9, <1>10, <1>11, <1>12, <1>13,
           <1>14, <1>15, <1>16, <1>17 DEF Next, Call

LEMMA HupStep == Types /\ HupInv /\ [Next]_vars => HupInv'
<1> SUFFICES ASSUME Types, HupInv, [Next]_vars PROVE HupInv'
  OBVIOUS
<1>a. TypeOK
  BY DEF Types
<1> USE DEF HupInv, Hup
<1>1. ASSUME connect PROVE HupInv'
  BY <1>a, <1>1 DEF connect, NewConn, NoConn, mem, call, net
<1>2. ASSUME Close PROVE HupInv'
  BY <1>a, <1>2 DEF Close, closeSock, NoConn, DeleteData, call
<1>3. ASSUME sendRecv PROVE HupInv'
  BY <1>a, <1>3 DEF sendRecv, net, mem
<1>4. ASSUME reconnected PROVE HupInv'
  BY <1>a, <1>4 DEF reconnected, NewConn, NoConn, Return
<1>5. ASSUME canWrite PROVE HupInv'
  BY <1>a, <1>5 DEF canWrite, Gone, Room, Readable
<1>6. ASSUME writeSome PROVE HupInv'
  BY <1>a, <1>6 DEF writeSome, mem
<1>7. ASSUME writeFail PROVE HupInv'
  BY <1>a, <1>7 DEF writeFail, Return, mem
<1>8. ASSUME recvSyn PROVE HupInv'
  BY <1>a, <1>8 DEF recvSyn, Gone, mem
<1>9. ASSUME recvSynErr PROVE HupInv'
  BY <1>a, <1>9 DEF recvSynErr, Gone, closeSock, NoConn, DeleteData, Return
<1>10. ASSUME recvSynTimeout PROVE HupInv'
  BY <1>a, <1>10 DEF recvSynTimeout, Return, mem
<1>11. ASSUME recvSome PROVE HupInv'
  BY <1>a, <1>11 DEF recvSome, Return, mem
<1>12. ASSUME recvEof PROVE HupInv'
  BY <1>a, <1>12 DEF recvEof, Return, mem
<1>13. ASSUME recvTimeout PROVE HupInv'
  BY <1>a, <1>13 DEF recvTimeout, Return, mem
<1>14. ASSUME Serve PROVE HupInv'
  BY <1>a, <1>14 DEF Serve, mem, call
<1>15. ASSUME Deliver PROVE HupInv'
  BY <1>a, <1>15 DEF Deliver, mem, call
<1>16. ASSUME PeerClose PROVE HupInv'
  BY <1>a, <1>16 DEF PeerClose, mem, call
<1>17. ASSUME UNCHANGED vars PROVE HupInv'
  BY <1>a, <1>17 DEF vars, net, mem, call
<1> QED BY <1>1, <1>2, <1>3, <1>4, <1>5, <1>6, <1>7, <1>8, <1>9, <1>10, <1>11, <1>12, <1>13,
           <1>14, <1>15, <1>16, <1>17 DEF Next, Call

----------------------------------------------------------------------------
(* Types.                                                                  *)

(* What recvPkt has after a recv is a sequence of bytes that fits the buffer,
   and still incomplete if it wants more. *)
LEMMA RecvFacts ==
  ASSUME Types, pc = "recv", rx # <<>>,
         NEW n, n = IF Len(rx) < Need(buf) THEN Len(rx) ELSE Need(buf)
  PROVE  /\ n \in 1..Len(rx)
         /\ SubSeq(rx, 1, n) \in Seq(Byte) /\ Len(SubSeq(rx, 1, n)) = n
         /\ \A k \in 1..n : SubSeq(rx, 1, n)[k] = rx[k]
         /\ SubSeq(rx, n + 1, Len(rx)) \in Seq(Byte)
         /\ Len(SubSeq(rx, n + 1, Len(rx))) = Len(rx) - n
         /\ \A k \in 1..(Len(rx) - n) : SubSeq(rx, n + 1, Len(rx))[k] = rx[n + k]
         /\ buf \o SubSeq(rx, 1, n) \in Seq(Byte)
         /\ Len(buf \o SubSeq(rx, 1, n)) = Len(buf) + n
         /\ \A k \in 1..(Len(buf) + n) :
              (buf \o SubSeq(rx, 1, n))[k] = IF k <= Len(buf) THEN buf[k] ELSE rx[k - Len(buf)]
         /\ Len(buf) + n <= BufCap
<1>1. /\ PktLen \in Nat /\ PktLen > 0 /\ BufCap \in Nat /\ BufCap >= PktLen
      /\ rx \in Seq(Byte) /\ buf \in Seq(Byte)
      /\ Len(buf) < PktLen
  BY TcpClientAssumption DEF Types
<1>2. Len(rx) \in Nat /\ Len(rx) > 0 /\ Len(buf) \in Nat /\ (buf = <<>> => Len(buf) = 0)
  BY <1>1, EmptySeq, LenProperties
<1>3. Need(buf) \in Nat /\ Need(buf) > 0 /\ Len(buf) + Need(buf) <= BufCap
  BY <1>1, <1>2 DEF Need
<1>4. n \in 1..Len(rx) /\ n \in Nat /\ n <= Len(rx) /\ Len(buf) + n <= BufCap
  <2>1. n \in {Len(rx), Need(buf)} /\ n <= Len(rx) /\ n <= Need(buf)
    BY <1>2, <1>3
  <2> QED BY <1>1, <1>2, <1>3, <2>1
<1>6. /\ SubSeq(rx, 1, n) \in Seq(Byte) /\ Len(SubSeq(rx, 1, n)) = n
      /\ \A k \in 1..n : SubSeq(rx, 1, n)[k] = rx[k]
  BY <1>1, <1>2, <1>4, FirstFacts
<1>8. /\ SubSeq(rx, n + 1, Len(rx)) \in Seq(Byte)
      /\ Len(SubSeq(rx, n + 1, Len(rx))) = Len(rx) - n
      /\ \A k \in 1..(Len(rx) - n) : SubSeq(rx, n + 1, Len(rx))[k] = rx[n + k]
  BY <1>1, <1>2, <1>4, RestFacts
<1>9. /\ buf \o SubSeq(rx, 1, n) \in Seq(Byte)
      /\ Len(buf \o SubSeq(rx, 1, n)) = Len(buf) + n
      /\ \A k \in 1..(Len(buf) + n) :
           (buf \o SubSeq(rx, 1, n))[k]
             = IF k <= Len(buf) THEN buf[k] ELSE SubSeq(rx, 1, n)[k - Len(buf)]
  BY <1>1, <1>6, ConcatProperties
<1>10. \A k \in 1..(Len(buf) + n) : k > Len(buf) =>
         k - Len(buf) \in 1..n /\ SubSeq(rx, 1, n)[k - Len(buf)] = rx[k - Len(buf)]
  BY <1>2, <1>4, <1>6
<1>11. \A k \in 1..(Len(buf) + n) :
         (buf \o SubSeq(rx, 1, n))[k] = IF k <= Len(buf) THEN buf[k] ELSE rx[k - Len(buf)]
  <2> SUFFICES ASSUME NEW k \in 1..(Len(buf) + n)
               PROVE  (buf \o SubSeq(rx, 1, n))[k]
                        = IF k <= Len(buf) THEN buf[k] ELSE rx[k - Len(buf)]
    OBVIOUS
  <2>1. k <= Len(buf) \/ k > Len(buf)
    BY <1>2, <1>4
  <2> QED BY <1>2, <1>4, <1>9, <1>10, <2>1
<1> QED BY <1>4, <1>6, <1>8, <1>9, <1>11

LEMMA TypesStep == Types /\ [Next]_vars => Types'
<1> SUFFICES ASSUME Types, [Next]_vars PROVE Types'
  OBVIOUS
<1>a. /\ PktLen \in Nat /\ PktLen > 0 /\ BufCap \in Nat /\ BufCap >= PktLen
      /\ MaxCalls \in Nat
  BY TcpClientAssumption
<1>b. <<>> \in Seq(Byte) /\ Len(<<>>) = 0
  BY EmptySeq
<1> USE DEF Types, TypeOK
<1>1. ASSUME connect PROVE Types'
  BY <1>a, <1>b, <1>1 DEF connect, NewConn, NoConn, mem, call, net
<1>2. ASSUME Close PROVE Types'
  BY <1>a, <1>b, <1>2 DEF Close, closeSock, NoConn, DeleteData, call
<1>3. ASSUME sendRecv PROVE Types'
  BY <1>a, <1>b, <1>3 DEF sendRecv, net, mem
<1>4. ASSUME reconnected PROVE Types'
  BY <1>a, <1>b, <1>4 DEF reconnected, NewConn, NoConn, Return
<1>5. ASSUME canWrite PROVE Types'
  BY <1>a, <1>b, <1>5 DEF canWrite, Gone, Room, Readable
<1>6. ASSUME writeSome PROVE Types'
  <2>1. PICK n \in 1..(PktLen - off) :
          /\ c2s' = IF peer = "open" THEN c2s \o Chunk(n) ELSE c2s
          /\ wire' = wire \o Chunk(n)
          /\ off' = off + n
          /\ pc' = IF off' = PktLen THEN "wait" ELSE "write"
          /\ taint' = (taint \/ (off > 0 /\ ~ssl))
    BY <1>6 DEF writeSome
  <2>2. Chunk(n) \in Seq(Byte)
    BY <1>a, ChunkFacts
  <2>3. c2s \o Chunk(n) \in Seq(Byte) /\ wire \o Chunk(n) \in Seq(Byte)
    BY <2>2, ConcatProperties
  <2>4. off' \in 0..PktLen /\ (pc' = "write" => off' < PktLen)
    BY <1>a, <1>6, <2>1 DEF writeSome
  <2> QED BY <1>6, <2>1, <2>3, <2>4 DEF writeSome, mem
<1>7. ASSUME writeFail PROVE Types'
  BY <1>a, <1>b, <1>7 DEF writeFail, Return, mem
<1>8. ASSUME recvSyn PROVE Types'
  <2>1. ev' \subseteq {"IN", "OUT", "RDHUP", "HUP"}
    BY <1>8 DEF recvSyn, Gone
  <2>2. Len(buf') = 0 /\ buf' \in Seq(Byte)
    BY <1>b, <1>8 DEF recvSyn
  <2>3. /\ armed' = FALSE /\ pc' = "recv"
        /\ UNCHANGED <<req, off, res, c2s, todo, rx, peer, wire, taint, ssl, sock, data, reg,
                       lost, bad, calls, conns, served>>
    BY <1>8 DEF recvSyn, mem
  <2>4. Len(buf') <= BufCap /\ armed' \in BOOLEAN
    <3> HIDE DEF Types, TypeOK
    <3>1. Len(buf') <= BufCap
      BY <1>a, <2>2
    <3>2. armed' \in BOOLEAN
      BY <2>3
    <3> QED BY <3>1, <3>2
  <2>5. TypeOK'
    BY <2>1, <2>3, <2>4
  <2> QED BY <1>a, <2>2, <2>3, <2>5
<1>9. ASSUME recvSynErr PROVE Types'
  BY <1>a, <1>b, <1>9 DEF recvSynErr, Gone, closeSock, NoConn, DeleteData, Return
<1>10. ASSUME recvSynTimeout PROVE Types'
  BY <1>a, <1>b, <1>10 DEF recvSynTimeout, Return, mem
<1>11. ASSUME recvSome PROVE Types'
  <2> DEFINE n == IF Len(rx) < Need(buf) THEN Len(rx) ELSE Need(buf)
             b == buf \o SubSeq(rx, 1, n)
  <2>1. /\ b \in Seq(Byte) /\ SubSeq(rx, n + 1, Len(rx)) \in Seq(Byte)
        /\ Len(b) <= BufCap
    BY <1>11, RecvFacts DEF recvSome
  <2>2. /\ rx' = SubSeq(rx, n + 1, Len(rx)) /\ buf' = b
        /\ \/ pc' = "idle" /\ taint' \in BOOLEAN
           \/ pc' = pc /\ taint' = taint /\ Len(b) < PktLen
        /\ UNCHANGED <<req, off, c2s, todo, peer, armed, wire, ssl, ev, sock, data, reg,
                       lost, bad, calls, conns, served>>
    BY <1>11 DEF recvSome, Return, mem
  <2> HIDE DEF n, b
  <2> QED BY <2>1, <2>2
<1>12. ASSUME recvEof PROVE Types'
  BY <1>a, <1>b, <1>12 DEF recvEof, Return, mem
<1>13. ASSUME recvTimeout PROVE Types'
  BY <1>a, <1>b, <1>13 DEF recvTimeout, Return, mem
<1>14. ASSUME Serve PROVE Types'
  <2> DEFINE p == SubSeq(c2s, 1, PktLen)
  <2>1. Len(c2s) \in Nat /\ PktLen <= Len(c2s)
    BY LenProperties, <1>14 DEF Serve
  <2>2. SubSeq(c2s, PktLen + 1, Len(c2s)) \in Seq(Byte)
    BY <1>a, <2>1, RestFacts
  <2>3. p \in Seq(Byte) /\ Len(p) = PktLen
    BY <1>a, <2>1, FirstFacts
  <2>4. p[1][1] \in Nat
    <3>1. 1 \in 1..Len(p)
      BY <1>a, <2>3
    <3> HIDE DEF p, Types
    <3> QED BY <2>3, <3>1, ByteSeq
  <2>5. todo \o Pkt(p[1][1]) \in Seq(Byte) /\ Append(served, p[1][1]) \in Seq(Nat)
    BY <2>4, PktFacts, ConcatProperties, AppendProperties
  <2>6. /\ c2s' = SubSeq(c2s, PktLen + 1, Len(c2s))
        /\ \/ /\ todo' = todo \o Pkt(p[1][1]) /\ served' = Append(served, p[1][1])
              /\ UNCHANGED <<peer, armed>>
           \/ /\ peer' = "fin" /\ armed' = TRUE
              /\ UNCHANGED <<todo, served>>
        /\ UNCHANGED <<ssl, ev, rx, wire, taint, mem, call, calls, conns>>
    BY <1>14 DEF Serve
  <2> HIDE DEF p
  <2>7. TypeOK'
    BY <2>6 DEF mem, call
  <2>8. /\ c2s' \in Seq(Byte) /\ todo' \in Seq(Byte) /\ served' \in Seq(Nat)
    BY <2>2, <2>5, <2>6
  <2> QED BY <2>6, <2>7, <2>8 DEF mem, call
<1>15. ASSUME Deliver PROVE Types'
  <2>1. /\ Append(rx, Head(todo)) \in Seq(Byte) /\ Tail(todo) \in Seq(Byte)
    BY <1>15, HeadTailProperties, AppendProperties DEF Deliver
  <2> QED BY <1>15, <2>1 DEF Deliver, mem, call
<1>16. ASSUME PeerClose PROVE Types'
  BY <1>a, <1>b, <1>16 DEF PeerClose, mem, call
<1>17. ASSUME UNCHANGED vars PROVE Types'
  BY <1>a, <1>b, <1>17 DEF vars, net, mem, call
<1> QED BY <1>1, <1>2, <1>3, <1>4, <1>5, <1>6, <1>7, <1>8, <1>9, <1>10, <1>11, <1>12, <1>13,
           <1>14, <1>15, <1>16, <1>17 DEF Next, Call

----------------------------------------------------------------------------
(* Requests are carried out once.                                          *)

LEMMA OnceStep == Types /\ OnceInv /\ [Next]_vars => OnceInv'
<1> SUFFICES ASSUME Types, OnceInv, [Next]_vars PROVE OnceInv'
  OBVIOUS
<1>a. /\ PktLen \in Nat /\ PktLen > 0 /\ req \in Nat /\ calls = req /\ off \in Nat
      /\ c2s \in Seq(Byte) /\ served \in Seq(Nat)
      /\ pc \in {"reconnect", "canWrite", "hungUp"} => off = 0
      /\ pc = "write" => off < PktLen
  BY TcpClientAssumption DEF Types, TypeOK
<1>b. Len(c2s) \in Nat /\ \A i \in 1..Len(c2s) : c2s[i][1] \in Nat
  BY <1>a, ByteSeq
<1>c. Len(served) \in Nat /\ \A k \in 1..Len(served) : served[k] \in Nat
  BY <1>a, LenProperties, ElementOfSeq
<1>d. Len(<<>>) = 0
  BY EmptySeq
<1>e. ASSUME Len(c2s') = 0, UNCHANGED <<served, req>>,
             pc' \in {"reconnect", "canWrite", "hungUp", "write"}
               => pc \in {"reconnect", "canWrite", "hungUp", "write"}
      PROVE  OnceInv'
  BY <1>a, <1>b, <1>c, <1>e DEF OnceInv, AtMostOnce
<1>f. ASSUME UNCHANGED <<c2s, served, req, off>>,
             pc' \in {"reconnect", "canWrite", "hungUp", "write"}
               => pc \in {"reconnect", "canWrite", "hungUp", "write"}
      PROVE  OnceInv'
  BY <1>a, <1>b, <1>c, <1>f DEF OnceInv, AtMostOnce
<1>1. ASSUME connect PROVE OnceInv'
  BY <1>d, <1>e, <1>1 DEF connect, NewConn, NoConn, mem, call, net
<1>2. ASSUME Close PROVE OnceInv'
  BY <1>d, <1>e, <1>2 DEF Close, closeSock, NoConn, DeleteData, call
<1>3. ASSUME sendRecv PROVE OnceInv'
  <2>1. req' = req + 1 /\ off' = 0 /\ UNCHANGED <<c2s, served>>
    BY <1>a, <1>3 DEF sendRecv, net, mem
  <2>2. \A i \in 1..Len(c2s) : c2s[i][1] < req'
    BY <1>a, <1>b, <2>1 DEF OnceInv
  <2>3. \A k \in 1..Len(served) : served[k] < req'
    BY <1>a, <1>c, <2>1 DEF OnceInv
  <2> QED BY <1>a, <1>b, <1>c, <2>1, <2>2, <2>3 DEF OnceInv, AtMostOnce
<1>4. ASSUME reconnected PROVE OnceInv'
  BY <1>d, <1>e, <1>4 DEF reconnected, NewConn, NoConn, Return
<1>5. ASSUME canWrite PROVE OnceInv'
  BY <1>f, <1>5 DEF canWrite, Gone, Room, Readable
<1>6. ASSUME writeSome PROVE OnceInv'
  <2>1. PICK n \in 1..(PktLen - off) :
          /\ c2s' = IF peer = "open" THEN c2s \o Chunk(n) ELSE c2s
          /\ off' = off + n /\ UNCHANGED <<req, served>> /\ pc = "write"
    BY <1>6 DEF writeSome
  <2>2. n \in Nat /\ n > 0 /\ off + n <= PktLen
    BY <1>a
  <2>3. CASE c2s' = c2s
    <3>1. \A i \in 1..Len(c2s) : i > Len(c2s) - off => i > Len(c2s) - (off + n)
      BY <1>a, <1>b, <2>2
    <3> QED BY <1>a, <1>b, <1>c, <2>1, <2>2, <2>3, <3>1 DEF OnceInv, AtMostOnce
  <2>4. CASE c2s' = c2s \o Chunk(n)
    <3>1. /\ Chunk(n) \in Seq(Byte) /\ Len(Chunk(n)) = n
          /\ \A k \in 1..n : Chunk(n)[k][1] = req
      BY <1>a, ChunkFacts
    <3>2. /\ Len(c2s') = Len(c2s) + n
          /\ \A i \in 1..Len(c2s) : c2s'[i] = c2s[i]
          /\ \A i \in 1..(Len(c2s) + n) : i > Len(c2s) => c2s'[i][1] = req
      <4>1. /\ Len(c2s \o Chunk(n)) = Len(c2s) + n
            /\ \A i \in 1..(Len(c2s) + n) : (c2s \o Chunk(n))[i]
                 = IF i <= Len(c2s) THEN c2s[i] ELSE Chunk(n)[i - Len(c2s)]
        BY <1>a, <3>1, ConcatProperties
      <4> HIDE DEF Chunk
      <4>2. \A i \in 1..Len(c2s) : i \in 1..(Len(c2s) + n) /\ i <= Len(c2s)
        BY <1>b, <2>2
      <4>3. \A i \in 1..(Len(c2s) + n) :
              i > Len(c2s) => i - Len(c2s) \in 1..n /\ ~(i <= Len(c2s))
        BY <1>b, <2>2
      <4> QED BY <2>4, <3>1, <4>1, <4>2, <4>3
    <3>3. \A i \in 1..Len(c2s') : c2s'[i][1] <= req
      BY <1>a, <1>b, <2>2, <3>2 DEF OnceInv
    <3>4. \A i \in 1..Len(c2s') : c2s'[i][1] = req => i > Len(c2s') - (off + n)
      <4> SUFFICES ASSUME NEW i \in 1..Len(c2s'), c2s'[i][1] = req
                   PROVE  i > Len(c2s') - (off + n)
        OBVIOUS
      <4>1. CASE i > Len(c2s)
        BY <1>a, <1>b, <2>2, <3>2, <4>1
      <4>2. CASE i <= Len(c2s)
        BY <1>a, <1>b, <2>1, <2>2, <3>2, <4>2 DEF OnceInv
      <4> QED BY <1>b, <2>2, <3>2, <4>1, <4>2
    <3>5. \A i, j \in 1..Len(c2s') : j >= i + PktLen => c2s'[i][1] < c2s'[j][1]
      <4> SUFFICES ASSUME NEW i \in 1..Len(c2s'), NEW j \in 1..Len(c2s'), j >= i + PktLen
                   PROVE  c2s'[i][1] < c2s'[j][1]
        OBVIOUS
      <4>1. CASE j <= Len(c2s)
        BY <1>a, <1>b, <2>2, <3>2, <4>1 DEF OnceInv
      <4>2. CASE j > Len(c2s)
        <5>1. c2s'[j][1] = req /\ i <= Len(c2s') - PktLen
          BY <1>a, <1>b, <2>2, <3>2, <4>2
        <5>2. i <= Len(c2s)
          BY <1>a, <1>b, <2>2, <3>2, <5>1
        <5>3. c2s'[i][1] \in Nat /\ c2s'[i][1] <= req
          BY <1>b, <3>2, <3>3, <5>2
        <5>4. c2s'[i][1] # req
          BY <1>a, <1>b, <2>2, <3>2, <3>4, <5>1
        <5> QED BY <1>a, <5>1, <5>3, <5>4
      <4> QED BY <1>b, <2>2, <3>2, <4>1, <4>2
    <3>6. \A k \in 1..Len(served) : \A i \in 1..Len(c2s') : served[k] < c2s'[i][1]
      <4> SUFFICES ASSUME NEW k \in 1..Len(served), NEW i \in 1..Len(c2s')
                   PROVE  served[k] < c2s'[i][1]
        OBVIOUS
      <4>1. i <= Len(c2s) \/ c2s'[i][1] = req
        BY <1>b, <2>2, <3>2
      <4> QED BY <1>b, <2>1, <3>2, <4>1 DEF OnceInv
    <3> QED BY <2>1, <3>3, <3>4, <3>5, <3>6 DEF OnceInv, AtMostOnce
  <2> QED BY <2>1, <2>3, <2>4
<1>7. ASSUME writeFail PROVE OnceInv'
  BY <1>f, <1>7 DEF writeFail, Return, mem
<1>8. ASSUME recvSyn PROVE OnceInv'
  BY <1>f, <1>8 DEF recvSyn, Gone, mem
<1>9. ASSUME recvSynErr PROVE OnceInv'
  BY <1>d, <1>e, <1>9 DEF recvSynErr, Gone, closeSock, NoConn, DeleteData, Return
<1>10. ASSUME recvSynTimeout PROVE OnceInv'
  BY <1>f, <1>10 DEF recvSynTimeout, Return, mem
<1>11. ASSUME recvSome PROVE OnceInv'
  BY <1>f, <1>11 DEF recvSome, Return, mem
<1>12. ASSUME recvEof PROVE OnceInv'
  BY <1>f, <1>12 DEF recvEof, Return, mem
<1>13. ASSUME recvTimeout PROVE OnceInv'
  BY <1>f, <1>13 DEF recvTimeout, Return, mem
<1>14. ASSUME Serve PROVE OnceInv'
  <2>1. Len(c2s) >= PktLen
    BY <1>14 DEF Serve
  <2> DEFINE p == SubSeq(c2s, 1, PktLen)
             r == p[1][1]
  <2>2. p \in Seq(Byte) /\ Len(p) = PktLen /\ \A k \in 1..PktLen : p[k] = c2s[k]
    BY <1>a, <1>b, <2>1, FirstFacts
  <2>3. /\ Len(c2s') = Len(c2s) - PktLen
        /\ \A k \in 1..(Len(c2s) - PktLen) : c2s'[k] = c2s[PktLen + k]
    <3>1. c2s' = SubSeq(c2s, PktLen + 1, Len(c2s))
      BY <1>14 DEF Serve
    <3> QED BY <1>a, <1>b, <2>1, <3>1, RestFacts
  <2>4. /\ UNCHANGED <<pc, req, off>>
        /\ \/ p = Pkt(r) /\ served' = Append(served, r)
           \/ served' = served
    BY <1>14 DEF Serve, call
  <2> HIDE DEF p
  <2>5. r = c2s[1][1] /\ r \in Nat /\ r <= req /\ 1 \in 1..Len(c2s)
    BY <1>a, <1>b, <2>1, <2>2, SMTT(30) DEF OnceInv
  <2> HIDE DEF r
  <2>6. /\ \A i \in 1..Len(c2s') : PktLen + i \in 1..Len(c2s) /\ c2s'[i] = c2s[PktLen + i]
    BY <1>a, <1>b, <2>1, <2>3
  <2>7. \A i \in 1..Len(c2s') : c2s'[i][1] <= req /\ r < c2s'[i][1]
    <3> SUFFICES ASSUME NEW i \in 1..Len(c2s') PROVE c2s'[i][1] <= req /\ r < c2s'[i][1]
      OBVIOUS
    <3>1. PktLen + i >= 1 + PktLen
      BY <1>a, <1>b, <2>1, <2>3
    <3> QED BY <2>5, <2>6, <3>1 DEF OnceInv
  <2>8. \A i, j \in 1..Len(c2s') : j >= i + PktLen => c2s'[i][1] < c2s'[j][1]
    <3> SUFFICES ASSUME NEW i \in 1..Len(c2s'), NEW j \in 1..Len(c2s'), j >= i + PktLen
                 PROVE  c2s'[i][1] < c2s'[j][1]
      OBVIOUS
    <3>1. PktLen + j >= (PktLen + i) + PktLen
      BY <1>a, <1>b, <2>1, <2>3
    <3> QED BY <2>6, <3>1 DEF OnceInv
  <2>9. pc \in {"reconnect", "canWrite", "hungUp", "write"} =>
          /\ r < req
          /\ \A i \in 1..Len(c2s') : c2s'[i][1] = req => i > Len(c2s') - off
    <3> SUFFICES ASSUME pc \in {"reconnect", "canWrite", "hungUp", "write"}
                 PROVE  /\ r < req
                        /\ \A i \in 1..Len(c2s') : c2s'[i][1] = req => i > Len(c2s') - off
      OBVIOUS
    <3>1. off < PktLen
      BY <1>a
    <3>2. ~(1 > Len(c2s) - off)
      BY <1>a, <1>b, <2>1, <3>1
    <3>3. r # req
      BY <2>5, <3>2 DEF OnceInv
    <3>4. ASSUME NEW i \in 1..Len(c2s'), c2s'[i][1] = req PROVE i > Len(c2s') - off
      <4>1. PktLen + i > Len(c2s) - off
        BY <2>6, <3>4 DEF OnceInv
      <4> QED BY <1>a, <1>b, <2>1, <2>3, <4>1
    <3> QED BY <1>a, <2>5, <3>3, <3>4
  <2>10. \A k \in 1..Len(served) : /\ served[k] < r
                                   /\ \A i \in 1..Len(c2s') : served[k] < c2s'[i][1]
    BY <2>5, <2>6 DEF OnceInv
  <2>11. CASE served' = served
    BY <2>4, <2>7, <2>8, <2>9, <2>10, <2>11 DEF OnceInv, AtMostOnce
  <2>12. CASE served' = Append(served, r)
    <3>1. /\ Len(served') = Len(served) + 1
          /\ \A k \in 1..Len(served) : served'[k] = served[k]
          /\ served'[Len(served) + 1] = r
      BY <1>a, <2>5, <2>12, AppendProperties
    <3>2. \A k \in 1..Len(served') : k \in 1..Len(served) \/ k = Len(served) + 1
      BY <1>c, <3>1
    <3>3. AtMostOnce'
      <4> SUFFICES ASSUME NEW j \in 1..Len(served'), NEW k \in 1..Len(served'),
                          served'[j] = served'[k]
                   PROVE  j = k
        BY DEF AtMostOnce
      <4>1. CASE j \in 1..Len(served) /\ k \in 1..Len(served)
        BY <3>1, <4>1 DEF OnceInv, AtMostOnce
      <4>2. CASE j \in 1..Len(served) /\ k = Len(served) + 1
        BY <1>c, <2>5, <2>10, <3>1, <4>2
      <4>3. CASE k \in 1..Len(served) /\ j = Len(served) + 1
        BY <1>c, <2>5, <2>10, <3>1, <4>3
      <4> QED BY <3>2, <4>1, <4>2, <4>3
    <3>4. \A k \in 1..Len(served') :
            /\ served'[k] <= req
            /\ \A i \in 1..Len(c2s') : served'[k] < c2s'[i][1]
            /\ pc \in {"reconnect", "canWrite", "hungUp", "write"} => served'[k] < req
      BY <2>5, <2>7, <2>9, <2>10, <3>1, <3>2 DEF OnceInv
    <3> QED BY <2>4, <2>7, <2>8, <2>9, <3>3, <3>4 DEF OnceInv
  <2> QED BY <2>4, <2>11, <2>12
<1>15. ASSUME Deliver PROVE OnceInv'
  BY <1>f, <1>15 DEF Deliver, mem, call
<1>16. ASSUME PeerClose PROVE OnceInv'
  BY <1>f, <1>16 DEF PeerClose, mem, call
<1>17. ASSUME UNCHANGED vars PROVE OnceInv'
  BY <1>f, <1>17 DEF vars, net, mem, call
<1> QED BY <1>1, <1>2, <1>3, <1>4, <1>5, <1>6, <1>7, <1>8, <1>9, <1>10, <1>11, <1>12, <1>13,
           <1>14, <1>15, <1>16, <1>17 DEF Next, Call

----------------------------------------------------------------------------
(* Requests are written whole and in order.                                *)

LEMMA WireStep == Types /\ WireInv /\ [Next]_vars => WireInv'
<1> SUFFICES ASSUME Types, WireInv, [Next]_vars PROVE WireInv'
  OBVIOUS
<1>a. /\ PktLen \in Nat /\ PktLen > 0 /\ req \in Nat /\ off \in Nat
      /\ wire \in Seq(Byte) /\ Len(wire) \in Nat
      /\ pc \in {"reconnect", "canWrite", "hungUp"} => off = 0
      /\ taint \in BOOLEAN
  BY TcpClientAssumption, LenProperties DEF Types, TypeOK
<1>b. Len(<<>>) = 0
  BY EmptySeq
<1>c. ASSUME pc' \notin {"write", "wait"} PROVE WireInv'
  BY <1>c DEF WireInv
<1>d. ASSUME pc' = pc \/ pc' \notin {"write", "wait"},
             UNCHANGED <<req, off, wire, taint>>
      PROVE  WireInv'
  BY <1>d DEF WireInv
<1>1. ASSUME connect PROVE WireInv'
  BY <1>c, <1>1 DEF connect, NewConn, NoConn, mem, call, net
<1>2. ASSUME Close PROVE WireInv'
  BY <1>c, <1>2 DEF Close, closeSock, NoConn, DeleteData, call
<1>3. ASSUME sendRecv PROVE WireInv'
  BY <1>c, <1>3 DEF sendRecv, net, mem
<1>4. ASSUME reconnected PROVE WireInv'
  <2>1. pc' \notin {"write", "wait"} \/ (pc' = "write" /\ off' = 0 /\ Len(wire') = 0)
    BY <1>a, <1>b, <1>4 DEF reconnected, NewConn, NoConn, Return
  <2> QED BY <2>1 DEF WireInv
<1>5. ASSUME canWrite PROVE WireInv'
  <2>1. pc' \notin {"write", "wait"} \/ (pc' = "write" /\ off' = 0 /\ wire' = wire)
    BY <1>a, <1>5 DEF canWrite
  <2> QED BY <1>a, <2>1 DEF WireInv
<1>6. ASSUME writeSome PROVE WireInv'
  <2>1. PICK n \in 1..(PktLen - off) :
          /\ wire' = wire \o Chunk(n) /\ off' = off + n
          /\ taint' = (taint \/ (off > 0 /\ ~ssl)) /\ UNCHANGED req /\ pc = "write"
    BY <1>6 DEF writeSome
  <2>2. SUFFICES ASSUME ~taint'
                 PROVE  /\ off' <= Len(wire')
                        /\ \A k \in 1..off' : wire'[Len(wire') - off' + k] = <<req', k>>
    BY DEF WireInv
  <2>3. /\ ~taint /\ (ssl \/ off = 0) /\ n \in Nat
        /\ off <= Len(wire) /\ \A k \in 1..off : wire[Len(wire) - off + k] = <<req, k>>
    <3>1. ~(taint \/ (off > 0 /\ ~ssl))
      BY <2>1, <2>2, Zenon
    <3>2. ~taint /\ (ssl \/ ~(off > 0))
      BY <3>1, Zenon
    <3>3. (off > 0 \/ off = 0) /\ n \in Nat
      BY <1>a
    <3>4. off <= Len(wire) /\ \A k \in 1..off : wire[Len(wire) - off + k] = <<req, k>>
      BY <2>1, <3>2, Zenon DEF WireInv
    <3> QED BY <3>2, <3>3, <3>4, Zenon
  <2>4. /\ Chunk(n) \in Seq(Byte) /\ Len(Chunk(n)) = n
        /\ \A k \in 1..n : Chunk(n)[k] = <<req, off + k>>
    <3>1. /\ Chunk(n) \in Seq(Byte) /\ Len(Chunk(n)) = n
          /\ \A k \in 1..n : Chunk(n)[k] = <<req, k + (IF ssl THEN off ELSE 0)>>
      BY <1>a, ChunkFacts
    <3>2. \A k \in 1..n : k + (IF ssl THEN off ELSE 0) = off + k
      BY <1>a, <2>3
    <3> QED BY <3>1, <3>2
  <2>5. /\ Len(wire') = Len(wire) + n
        /\ \A i \in 1..(Len(wire) + n) :
             wire'[i] = IF i <= Len(wire) THEN wire[i] ELSE Chunk(n)[i - Len(wire)]
    BY <1>a, <2>1, <2>4, ConcatProperties, ZenonT(60)
  <2>6. ASSUME NEW k \in 1..(off + n) PROVE wire'[Len(wire) - off + k] = <<req, k>>
    <3>1. Len(wire) - off + k \in 1..(Len(wire) + n)
      BY <1>a, <2>3
    <3>2. CASE k <= off
      <4>1. k \in 1..off /\ Len(wire) - off + k <= Len(wire)
        BY <1>a, <2>3, <3>2
      <4> QED BY <2>3, <2>5, <3>1, <4>1
    <3>3. CASE k > off
      <4>1. /\ k - off \in 1..n /\ ~(Len(wire) - off + k <= Len(wire))
            /\ (Len(wire) - off + k) - Len(wire) = k - off /\ off + (k - off) = k
        BY <1>a, <2>3, <3>3
      <4>2. wire'[Len(wire) - off + k] = Chunk(n)[k - off]
        BY <2>5, <3>1, <4>1
      <4> QED BY <2>4, <4>1, <4>2
    <3> QED BY <1>a, <2>3, <3>2, <3>3
  <2>7. Len(wire') - off' = Len(wire) - off /\ off' <= Len(wire')
    BY <1>a, <2>1, <2>3, <2>5
  <2> QED BY <2>1, <2>6, <2>7
<1>7. ASSUME writeFail PROVE WireInv'
  BY <1>c, <1>7 DEF writeFail, Return, mem
<1>8. ASSUME recvSyn PROVE WireInv'
  BY <1>c, <1>8 DEF recvSyn, Gone, mem
<1>9. ASSUME recvSynErr PROVE WireInv'
  BY <1>c, <1>9 DEF recvSynErr, Gone, closeSock, NoConn, DeleteData, Return
<1>10. ASSUME recvSynTimeout PROVE WireInv'
  BY <1>c, <1>10 DEF recvSynTimeout, Return, mem
<1>11. ASSUME recvSome PROVE WireInv'
  BY <1>c, <1>11 DEF recvSome, Return, mem
<1>12. ASSUME recvEof PROVE WireInv'
  BY <1>c, <1>12 DEF recvEof, Return, mem
<1>13. ASSUME recvTimeout PROVE WireInv'
  BY <1>c, <1>13 DEF recvTimeout, Return, mem
<1>14. ASSUME Serve PROVE WireInv'
  BY <1>d, <1>14 DEF Serve, mem, call
<1>15. ASSUME Deliver PROVE WireInv'
  BY <1>d, <1>15 DEF Deliver, mem, call
<1>16. ASSUME PeerClose PROVE WireInv'
  BY <1>d, <1>16 DEF PeerClose, mem, call
<1>17. ASSUME UNCHANGED vars PROVE WireInv'
  BY <1>d, <1>17 DEF vars, net, mem, call
<1> QED BY <1>1, <1>2, <1>3, <1>4, <1>5, <1>6, <1>7, <1>8, <1>9, <1>10, <1>11, <1>12, <1>13,
           <1>14, <1>15, <1>16, <1>17 DEF Next, Call

(* The last PktLen bytes are the request. *)
LEMMA WireWhole == Types /\ WireInv => SentWhole
<1> SUFFICES ASSUME Types, WireInv, pc = "wait", ~taint
             PROVE  SubSeq(wire, Len(wire) - PktLen + 1, Len(wire)) = Pkt(req)
  BY DEF SentWhole
<1>1. /\ PktLen \in Nat /\ PktLen > 0 /\ req \in Nat /\ off = PktLen
      /\ wire \in Seq(Byte) /\ Len(wire) \in Nat
  BY TcpClientAssumption, LenProperties DEF Types
<1>2. /\ PktLen <= Len(wire)
      /\ \A k \in 1..PktLen : wire[Len(wire) - PktLen + k] = <<req, k>>
  BY <1>1 DEF WireInv
<1> DEFINE m == Len(wire) - PktLen
           w == SubSeq(wire, m + 1, Len(wire))
<1>3. m \in Nat /\ m <= Len(wire) /\ Len(wire) - m = PktLen
  BY <1>1, <1>2
<1>4. w \in Seq(Byte) /\ Len(w) = PktLen /\ \A k \in 1..PktLen : w[k] = wire[m + k]
  <2> HIDE DEF m
  <2> QED BY <1>1, <1>3, RestFacts
<1>5. /\ Pkt(req) \in Seq(Byte) /\ Len(Pkt(req)) = PktLen
      /\ \A k \in 1..PktLen : Pkt(req)[k] = <<req, k>>
  BY <1>1, PktFacts
<1>6. \A k \in 1..PktLen : w[k] = Pkt(req)[k]
  BY <1>2, <1>4, <1>5
<1> HIDE DEF w
<1>7. w = Pkt(req)
  BY <1>4, <1>5, <1>6, SeqEqual
<1> QED BY <1>7 DEF w

----------------------------------------------------------------------------
(* An answer is the answer to its own request.                             *)

LEMMA FlowStep == Types /\ FlowInv /\ [Next]_vars => FlowInv'
<1> SUFFICES ASSUME Types, FlowInv, [Next]_vars PROVE FlowInv'
  OBVIOUS
<1>a. /\ PktLen \in Nat /\ PktLen > 0 /\ req \in Nat /\ off \in Nat
      /\ c2s \in Seq(Byte) /\ rx \in Seq(Byte) /\ todo \in Seq(Byte) /\ buf \in Seq(Byte)
      /\ pc \in {"reconnect", "canWrite", "hungUp"} => off = 0
      /\ pc = "write" => off < PktLen
      /\ taint \in BOOLEAN
  BY TcpClientAssumption DEF Types, TypeOK
<1>b. /\ Len(c2s) \in Nat /\ (c2s = <<>> <=> Len(c2s) = 0)
      /\ Len(rx) \in Nat /\ (rx = <<>> <=> Len(rx) = 0)
      /\ Len(todo) \in Nat /\ (todo = <<>> <=> Len(todo) = 0)
      /\ Len(buf) \in Nat /\ (buf = <<>> <=> Len(buf) = 0) /\ Len(<<>>) = 0
  BY <1>a, ByteSeq, EmptySeq
<1>c. ASSUME c2s' = <<>>, rx' = <<>>, todo' = <<>>, pc' # "recv", pc' = "write" => off' = 0
      PROVE  FlowInv'
  BY <1>a, <1>b, <1>c DEF FlowInv, Got
<1>d. ASSUME taint' PROVE FlowInv'
  BY <1>d DEF FlowInv
<1>e. ASSUME ~taint, pc \notin {"write", "wait", "recv"}
      PROVE  c2s = <<>> /\ rx = <<>> /\ todo = <<>>
  BY <1>e DEF FlowInv
<1>1. ASSUME connect PROVE FlowInv'
  BY <1>c, <1>1 DEF connect, NewConn, NoConn, mem, call, net
<1>2. ASSUME Close PROVE FlowInv'
  BY <1>c, <1>2 DEF Close, closeSock, NoConn, DeleteData, call
<1>3. ASSUME sendRecv PROVE FlowInv'
  <2>1. /\ pc \notin {"write", "wait", "recv"} /\ pc' \notin {"write", "recv"}
        /\ UNCHANGED <<c2s, rx, todo, taint>>
    BY <1>3 DEF sendRecv, net, mem
  <2> QED BY <1>c, <1>d, <1>e, <2>1
<1>4. ASSUME reconnected PROVE FlowInv'
  <2>1. pc' # "recv" /\ (pc' = "write" => off' = 0)
    BY <1>a, <1>4 DEF reconnected, NewConn, NoConn, Return
  <2> QED BY <1>c, <1>4, <2>1 DEF reconnected, NewConn, NoConn, Return
<1>5. ASSUME canWrite PROVE FlowInv'
  <2>1. /\ pc \notin {"write", "wait", "recv"} /\ pc' # "recv" /\ off' = 0
        /\ UNCHANGED <<c2s, rx, todo, taint>>
    BY <1>a, <1>5 DEF canWrite
  <2> QED BY <1>c, <1>d, <1>e, <2>1
<1>6. ASSUME writeSome PROVE FlowInv'
  <2>1. PICK n \in 1..(PktLen - off) :
          /\ c2s' = IF peer = "open" THEN c2s \o Chunk(n) ELSE c2s
          /\ off' = off + n /\ pc = "write" /\ pc' \in {"write", "wait"}
          /\ taint' = (taint \/ (off > 0 /\ ~ssl))
          /\ UNCHANGED <<req, todo, rx, peer>>
    BY <1>6 DEF writeSome
  <2>2. SUFFICES ASSUME ~taint' PROVE FlowInv'
    BY <1>d
  <2>3. ~(taint \/ (off > 0 /\ ~ssl))
    BY <2>1, <2>2, Zenon
  <2>4. ~taint /\ (ssl \/ ~(off > 0))
    BY <2>3, Zenon
  <2>5. /\ todo = <<>> /\ rx = <<>> /\ Len(c2s) <= off /\ (peer = "open" => Len(c2s) = off)
        /\ \A i \in 1..Len(c2s) : c2s[i] = <<req, i>>
    BY <2>1, <2>4 DEF FlowInv
  <2>6. n \in Nat /\ n > 0 /\ off + n <= PktLen /\ Got' = 0
    BY <1>a, <2>1 DEF Got
  <2>7. CASE peer # "open"
    <3>1. c2s' = c2s /\ Len(c2s) <= off' /\ Len(c2s) <= PktLen
      BY <1>a, <1>b, <2>1, <2>5, <2>6, <2>7
    <3> HIDE DEF Types
    <3> QED BY <1>a, <1>b, <2>1, <2>5, <2>6, <2>7, <3>1 DEF FlowInv
  <2>8. CASE peer = "open"
    <3>1. /\ Chunk(n) \in Seq(Byte) /\ Len(Chunk(n)) = n
          /\ \A k \in 1..n : Chunk(n)[k] = <<req, k + (IF ssl THEN off ELSE 0)>>
      BY <1>a, ChunkFacts
    <3>2. \A k \in 1..n : k + (IF ssl THEN off ELSE 0) = off + k
      BY <1>a, <2>4
    <3>3. /\ Len(c2s') = off + n
          /\ \A i \in 1..(off + n) : c2s'[i] = IF i <= off THEN c2s[i] ELSE Chunk(n)[i - off]
      <4>1. c2s' = c2s \o Chunk(n) /\ Len(c2s) = off
        BY <2>1, <2>5, <2>8
      <4>2. /\ Len(c2s \o Chunk(n)) = Len(c2s) + Len(Chunk(n))
            /\ \A i \in 1..(Len(c2s) + Len(Chunk(n))) : (c2s \o Chunk(n))[i]
                 = IF i <= Len(c2s) THEN c2s[i] ELSE Chunk(n)[i - Len(c2s)]
        BY <1>a, <3>1, ConcatProperties
      <4> QED BY <3>1, <4>1, <4>2
    <3>4. \A i \in 1..Len(c2s') : c2s'[i] = <<req, i>>
      <4> SUFFICES ASSUME NEW i \in 1..(off + n) PROVE c2s'[i] = <<req, i>>
        BY <3>3
      <4>1. CASE i <= off
        BY <1>a, <2>5, <2>8, <3>3, <4>1
      <4>2. CASE ~(i <= off)
        <5>1. i - off \in 1..n /\ off + (i - off) = i
          BY <1>a, <2>6, <4>2
        <5> QED BY <3>1, <3>2, <3>3, <4>2, <5>1
      <4> QED BY <4>1, <4>2
    <3>5. /\ pc' \in {"write", "wait"} /\ UNCHANGED <<req, todo, rx, peer>>
          /\ Len(c2s') = off' /\ off' <= PktLen
      BY <2>1, <2>6, <3>3
    <3> QED BY <1>a, <1>b, <2>5, <2>6, <3>4, <3>5 DEF FlowInv
  <2> QED BY <2>7, <2>8
<1>7. ASSUME writeFail PROVE FlowInv'
  BY <1>d, <1>7 DEF writeFail
<1>8. ASSUME recvSyn PROVE FlowInv'
  <2>1. /\ pc = "wait" /\ pc' = "recv" /\ buf' = <<>>
        /\ UNCHANGED <<req, c2s, todo, rx, peer, taint>>
    BY <1>8 DEF recvSyn, Gone, mem
  <2>2. Got = 0 /\ Got' = 0
    BY <1>b, <2>1 DEF Got
  <2> QED BY <1>a, <1>b, <2>1, <2>2 DEF FlowInv
<1>9. ASSUME recvSynErr PROVE FlowInv'
  BY <1>c, <1>9 DEF recvSynErr, Gone, closeSock, NoConn, DeleteData, Return
<1>10. ASSUME recvSynTimeout PROVE FlowInv'
  BY <1>d, <1>10 DEF recvSynTimeout
<1>11. ASSUME recvSome PROVE FlowInv'
  <2> DEFINE n == IF Len(rx) < Need(buf) THEN Len(rx) ELSE Need(buf)
             b == buf \o SubSeq(rx, 1, n)
  <2>1. /\ pc = "recv" /\ rx # <<>> /\ rx' = SubSeq(rx, n + 1, Len(rx))
        /\ UNCHANGED <<req, off, c2s, todo, peer>>
        /\ \/ taint'
           \/ pc' = "idle" /\ Len(b) >= PktLen /\ taint' = (taint \/ Len(b) > PktLen)
           \/ pc' = "recv" /\ buf' = b /\ taint' = taint
    BY <1>11 DEF recvSome, Return, mem
  <2>2. /\ n \in 1..Len(rx)
        /\ Len(SubSeq(rx, n + 1, Len(rx))) = Len(rx) - n
        /\ SubSeq(rx, n + 1, Len(rx)) \in Seq(Byte)
        /\ \A k \in 1..(Len(rx) - n) : SubSeq(rx, n + 1, Len(rx))[k] = rx[n + k]
        /\ Len(b) = Len(buf) + n
        /\ \A k \in 1..(Len(buf) + n) :
             b[k] = IF k <= Len(buf) THEN buf[k] ELSE rx[k - Len(buf)]
    BY <2>1, RecvFacts
  <2> HIDE DEF n, b
  <2>3. CASE taint
    <3>1. taint' = TRUE
      BY <1>a, <2>1, <2>3
    <3> QED BY <1>d, <3>1
  <2>4. CASE ~taint
    <3>1. /\ c2s = <<>> /\ Got = Len(buf)
          /\ Len(buf) + Len(rx) + Len(todo) <= PktLen
          /\ \A i \in 1..Len(rx) : rx[i] = <<req, Len(buf) + i>>
          /\ \A i \in 1..Len(todo) : todo[i] = <<req, Len(buf) + Len(rx) + i>>
          /\ \A i \in 1..Len(buf) : buf[i] = <<req, i>>
      BY <2>1, <2>4 DEF FlowInv, Got
    <3>2. n \in Nat /\ n <= Len(rx) /\ Len(rx') = Len(rx) - n /\ rx' \in Seq(Byte)
      BY <1>b, <2>1, <2>2
    <3>3. CASE taint'
      BY <1>d, <3>3
    <3>4. CASE pc' = "idle" /\ Len(b) >= PktLen
      <4>1. Len(rx') = 0 /\ Len(todo) = 0
        BY <1>a, <1>b, <2>2, <3>1, <3>2, <3>4
      <4>2. rx' = <<>> /\ todo' = <<>> /\ c2s' = <<>>
        BY <1>b, <2>1, <3>1, <3>2, <4>1, ByteSeq
      <4> QED BY <1>c, <3>4, <4>2
    <3>5. CASE pc' = "recv" /\ buf' = b /\ taint' = taint
      <4>1. Got' = Len(buf) + n
        BY <2>2, <3>5 DEF Got
      <4>2. Got' + Len(rx') + Len(todo') <= PktLen
        <5>1. todo' = todo
          BY <2>1
        <5> QED BY <1>a, <1>b, <3>1, <3>2, <4>1, <5>1
      <4>3. \A i \in 1..Len(rx') : rx'[i] = <<req', Got' + i>>
        <5>1. \A i \in 1..Len(rx') : /\ n + i \in 1..Len(rx)
                                     /\ Len(buf) + (n + i) = Got' + i
          BY <1>b, <3>2, <4>1
        <5> QED BY <2>1, <2>2, <3>1, <3>2, <5>1
      <4>4. \A i \in 1..Len(todo') : todo'[i] = <<req', Got' + Len(rx') + i>>
        <5>1. \A i \in 1..Len(todo) : Len(buf) + Len(rx) + i = Got' + Len(rx') + i
          BY <1>b, <3>2, <4>1
        <5> QED BY <2>1, <3>1, <5>1
      <4>5. \A i \in 1..Len(buf') : buf'[i] = <<req', i>>
        <5> SUFFICES ASSUME NEW i \in 1..(Len(buf) + n) PROVE b[i] = <<req, i>>
          BY <2>1, <2>2, <3>5
        <5>1. CASE i <= Len(buf)
          BY <1>b, <2>2, <3>1, <3>2, <5>1
        <5>2. CASE ~(i <= Len(buf))
          <6>1. i - Len(buf) \in 1..Len(rx) /\ Len(buf) + (i - Len(buf)) = i
            BY <1>b, <3>2, <5>2
          <6> QED BY <2>2, <3>1, <5>2, <6>1
        <5> QED BY <5>1, <5>2
      <4> QED BY <1>a, <1>b, <2>1, <3>1, <3>5, <4>2, <4>3, <4>4, <4>5 DEF FlowInv
    <3> QED BY <2>1, <3>3, <3>4, <3>5
  <2> QED BY <2>3, <2>4
<1>12. ASSUME recvEof PROVE FlowInv'
  BY <1>d, <1>12 DEF recvEof
<1>13. ASSUME recvTimeout PROVE FlowInv'
  BY <1>d, <1>13 DEF recvTimeout
<1>14. ASSUME Serve PROVE FlowInv'
  <2>1. SUFFICES ASSUME ~taint PROVE FlowInv'
    BY <1>d, <1>14 DEF Serve
  <2>2. Len(c2s) >= PktLen /\ UNCHANGED <<rx, taint, pc, req, off, buf>>
    BY <1>14 DEF Serve, call
  <2>3. /\ Len(c2s) = PktLen /\ rx = <<>> /\ todo = <<>> /\ Got = 0 /\ Got' = 0
        /\ pc \in {"write", "wait", "recv"} /\ pc # "write"
        /\ \A i \in 1..PktLen : c2s[i] = <<req, i>>
    <3>1. Len(c2s) = PktLen /\ c2s # <<>>
      BY <1>a, <1>b, <2>1, <2>2 DEF FlowInv
    <3>2. pc # "write"
      BY <1>a, <2>1, <3>1 DEF FlowInv
    <3> QED BY <2>1, <2>2, <3>1, <3>2 DEF FlowInv, Got
  <2> DEFINE p == SubSeq(c2s, 1, PktLen)
  <2>4. p \in Seq(Byte) /\ Len(p) = PktLen /\ \A k \in 1..PktLen : p[k] = c2s[k]
    BY <1>a, <1>b, <2>2, FirstFacts
  <2>5. c2s' = <<>>
    <3>1. c2s' = SubSeq(c2s, PktLen + 1, Len(c2s))
      BY <1>14 DEF Serve
    <3> QED BY <1>a, <2>3, <3>1, SubSeqEmpty
  <2>6. \/ todo' = todo \o Pkt(p[1][1])
        \/ todo' = todo
    BY <1>14 DEF Serve
  <2> HIDE DEF p
  <2>7. p[1][1] = req
    BY <1>a, <2>3, <2>4
  <2>8. CASE todo' = todo
    BY <1>a, <1>b, <2>1, <2>2, <2>3, <2>5, <2>8 DEF FlowInv
  <2>9. CASE todo' = todo \o Pkt(req)
    <3>1. /\ Pkt(req) \in Seq(Byte) /\ Len(Pkt(req)) = PktLen
          /\ \A k \in 1..PktLen : Pkt(req)[k] = <<req, k>>
      BY <1>a, PktFacts
    <3>2. todo' = Pkt(req)
      BY <2>3, <2>9, <3>1, ConcatEmptySeq
    <3>3. \A i \in 1..Len(todo') : todo'[i] = <<req, Got' + Len(rx') + i>>
      <4>1. \A i \in 1..PktLen : Got' + Len(rx') + i = i
        BY <1>a, <1>b, <2>2, <2>3
      <4> QED BY <3>1, <3>2, <4>1
    <3> QED BY <1>a, <1>b, <2>1, <2>2, <2>3, <2>5, <3>1, <3>2, <3>3 DEF FlowInv
  <2> QED BY <2>6, <2>7, <2>8, <2>9
<1>15. ASSUME Deliver PROVE FlowInv'
  <2>1. /\ todo # <<>> /\ rx' = Append(rx, Head(todo)) /\ todo' = Tail(todo)
        /\ UNCHANGED <<c2s, peer, taint, pc, req, off, buf>>
    BY <1>15 DEF Deliver, mem, call
  <2>2. SUFFICES ASSUME ~taint PROVE FlowInv'
    BY <1>d, <2>1
  <2>3. Got' = Got /\ Got \in Nat
    BY <1>b, <2>1 DEF Got
  <2>4. /\ Head(todo) = todo[1] /\ Len(todo') = Len(todo) - 1 /\ Head(todo) \in Byte
        /\ \A i \in 1..(Len(todo) - 1) : todo'[i] = todo[i + 1]
    BY <1>a, <2>1, HeadTailProperties
  <2>5. /\ Len(rx') = Len(rx) + 1 /\ \A i \in 1..Len(rx) : rx'[i] = rx[i]
        /\ rx'[Len(rx) + 1] = todo[1]
    BY <1>a, <2>1, <2>4, AppendProperties
  <2>6. pc \in {"wait", "recv"} /\ c2s = <<>> /\ Len(todo) >= 1
    BY <1>b, <2>1, <2>2 DEF FlowInv
  <2>7. /\ Got + Len(rx) + Len(todo) <= PktLen
        /\ \A i \in 1..Len(rx) : rx[i] = <<req, Got + i>>
        /\ \A i \in 1..Len(todo) : todo[i] = <<req, Got + Len(rx) + i>>
    BY <2>2 DEF FlowInv
  <2>8. \A i \in 1..Len(rx') : rx'[i] = <<req, Got + i>>
    <3>1. todo[1] = <<req, Got + (Len(rx) + 1)>>
      <4>1. Got + Len(rx) + 1 = Got + (Len(rx) + 1) /\ 1 \in 1..Len(todo)
        BY <1>b, <2>3, <2>6
      <4> QED BY <2>7, <4>1
    <3>2. \A i \in 1..Len(rx') : i \in 1..Len(rx) \/ i = Len(rx) + 1
      BY <1>b, <2>5
    <3> QED BY <2>5, <2>7, <3>1, <3>2
  <2>9. \A i \in 1..Len(todo') : todo'[i] = <<req, Got + Len(rx') + i>>
    <3>1. \A i \in 1..Len(todo') : /\ i + 1 \in 1..Len(todo)
                                   /\ Got + Len(rx) + (i + 1) = Got + Len(rx') + i
      BY <1>b, <2>3, <2>4, <2>5
    <3> QED BY <2>4, <2>7, <3>1
  <2>10. Got + Len(rx') + Len(todo') <= PktLen
    BY <1>a, <1>b, <2>3, <2>4, <2>5, <2>7
  <2> QED BY <1>a, <1>b, <2>1, <2>2, <2>3, <2>6, <2>8, <2>9, <2>10 DEF FlowInv
<1>16. ASSUME PeerClose PROVE FlowInv'
  <2>1. /\ rx' \in {rx, <<>>} /\ todo' = <<>> /\ peer' # "open"
        /\ UNCHANGED <<c2s, taint, pc, req, off, buf>>
    BY <1>16 DEF PeerClose, mem, call
  <2>2. Got' = Got /\ Got \in Nat
    BY <1>b, <2>1 DEF Got
  <2> QED BY <1>a, <1>b, <2>1, <2>2, SMTT(30) DEF FlowInv
<1>17. ASSUME UNCHANGED vars PROVE FlowInv'
  BY <1>17 DEF FlowInv, Got, vars, net, mem, call
<1> QED BY <1>1, <1>2, <1>3, <1>4, <1>5, <1>6, <1>7, <1>8, <1>9, <1>10, <1>11, <1>12, <1>13,
           <1>14, <1>15, <1>16, <1>17 DEF Next, Call

LEMMA AnswerStep == Types /\ FlowInv /\ OwnAnswer /\ [Next]_vars => OwnAnswer'
<1> SUFFICES ASSUME Types, FlowInv, OwnAnswer, [Next]_vars PROVE OwnAnswer'
  OBVIOUS
<1>a. /\ PktLen \in Nat /\ PktLen > 0 /\ req \in Nat
      /\ rx \in Seq(Byte) /\ buf \in Seq(Byte) /\ Len(buf) \in Nat /\ Len(rx) \in Nat
  BY TcpClientAssumption, LenProperties DEF Types
<1>b. ASSUME res' = res \/ res'.ok = FALSE PROVE OwnAnswer'
  BY <1>b DEF OwnAnswer
<1>1. ASSUME connect PROVE OwnAnswer'
  BY <1>b, <1>1 DEF connect, NewConn, NoConn, mem, call, net
<1>2. ASSUME Close PROVE OwnAnswer'
  BY <1>b, <1>2 DEF Close, closeSock, NoConn, DeleteData, call
<1>3. ASSUME sendRecv PROVE OwnAnswer'
  <2>1. res' = res \/ res'.ok = FALSE
    BY <1>3 DEF sendRecv
  <2> QED BY <1>b, <2>1
<1>4. ASSUME reconnected PROVE OwnAnswer'
  <2>1. res' = res \/ res'.ok = FALSE
    BY <1>4 DEF reconnected, Return
  <2> QED BY <1>b, <2>1
<1>5. ASSUME canWrite PROVE OwnAnswer'
  BY <1>b, <1>5 DEF canWrite, Gone, Room, Readable
<1>6. ASSUME writeSome PROVE OwnAnswer'
  BY <1>b, <1>6 DEF writeSome, mem
<1>7. ASSUME writeFail PROVE OwnAnswer'
  BY <1>b, <1>7 DEF writeFail, Return, mem
<1>8. ASSUME recvSyn PROVE OwnAnswer'
  BY <1>b, <1>8 DEF recvSyn, Gone, mem
<1>9. ASSUME recvSynErr PROVE OwnAnswer'
  BY <1>b, <1>9 DEF recvSynErr, Gone, closeSock, NoConn, DeleteData, Return
<1>10. ASSUME recvSynTimeout PROVE OwnAnswer'
  BY <1>b, <1>10 DEF recvSynTimeout, Return, mem
<1>11. ASSUME recvSome PROVE OwnAnswer'
  <2> DEFINE n == IF Len(rx) < Need(buf) THEN Len(rx) ELSE Need(buf)
             b == buf \o SubSeq(rx, 1, n)
  <2>1. /\ pc = "recv" /\ rx # <<>>
        /\ \/ res' = [req |-> req, ok |-> FALSE, buf |-> b, clean |-> ~taint]
           \/ Len(b) >= PktLen /\ res' = [req |-> req, ok |-> TRUE, buf |-> b, clean |-> ~taint]
           \/ res' = res
    BY <1>11 DEF recvSome, Return, mem
  <2>2. /\ n \in 1..Len(rx) /\ b \in Seq(Byte) /\ Len(b) = Len(buf) + n
        /\ \A k \in 1..(Len(buf) + n) :
             b[k] = IF k <= Len(buf) THEN buf[k] ELSE rx[k - Len(buf)]
    BY <2>1, RecvFacts
  <2> HIDE DEF n, b
  <2>3. ASSUME ~taint, Len(b) >= PktLen PROVE b = Pkt(req)
    <3>1. /\ Len(buf) + Len(rx) + Len(todo) <= PktLen /\ Len(todo) \in Nat
          /\ \A i \in 1..Len(rx) : rx[i] = <<req, Len(buf) + i>>
          /\ \A i \in 1..Len(buf) : buf[i] = <<req, i>>
      BY <2>1, <2>3, LenProperties DEF FlowInv, Got, Types
    <3>2. Len(b) = PktLen /\ n \in Nat /\ n <= Len(rx)
      BY <1>a, <2>2, <2>3, <3>1
    <3>3. /\ Pkt(req) \in Seq(Byte) /\ Len(Pkt(req)) = PktLen
          /\ \A k \in 1..PktLen : Pkt(req)[k] = <<req, k>>
      BY <1>a, PktFacts
    <3>4. ASSUME NEW k \in 1..PktLen PROVE b[k] = Pkt(req)[k]
      <4>1. CASE k <= Len(buf)
        <5>1. k \in 1..Len(buf) /\ k \in 1..(Len(buf) + n)
          BY <1>a, <3>2, <4>1
        <5> QED BY <2>2, <3>1, <3>3, <4>1, <5>1
      <4>2. CASE ~(k <= Len(buf))
        <5>1. /\ k - Len(buf) \in 1..Len(rx) /\ Len(buf) + (k - Len(buf)) = k
              /\ k \in 1..(Len(buf) + n)
          BY <1>a, <2>2, <3>2, <4>2
        <5> QED BY <2>2, <3>1, <3>3, <4>2, <5>1
      <4> QED BY <4>1, <4>2
    <3> QED BY <2>2, <3>2, <3>3, <3>4, SeqEqual
  <2>4. CASE Len(b) >= PktLen /\ res' = [req |-> req, ok |-> TRUE, buf |-> b, clean |-> ~taint]
    <3>1. res'.clean = ~taint /\ res'.buf = b /\ res'.req = req
      BY <2>4
    <3>2. res'.clean => res'.buf = Pkt(res'.req)
      BY <2>3, <2>4, <3>1
    <3> QED BY <3>2 DEF OwnAnswer
  <2>5. CASE res' = [req |-> req, ok |-> FALSE, buf |-> b, clean |-> ~taint] \/ res' = res
    <3>1. res' = res \/ res'.ok = FALSE
      BY <2>5
    <3> QED BY <1>b, <3>1
  <2> QED BY <2>1, <2>4, <2>5
<1>12. ASSUME recvEof PROVE OwnAnswer'
  BY <1>b, <1>12 DEF recvEof, Return, mem
<1>13. ASSUME recvTimeout PROVE OwnAnswer'
  <2>1. res'.buf = buf /\ ~(Len(buf) >= PktLen)
    BY <1>a, <1>13 DEF recvTimeout, Return, Types
  <2> QED BY <2>1 DEF OwnAnswer
<1>14. ASSUME Serve PROVE OwnAnswer'
  BY <1>b, <1>14 DEF Serve, mem, call
<1>15. ASSUME Deliver PROVE OwnAnswer'
  BY <1>b, <1>15 DEF Deliver, mem, call
<1>16. ASSUME PeerClose PROVE OwnAnswer'
  BY <1>b, <1>16 DEF PeerClose, mem, call
<1>17. ASSUME UNCHANGED vars PROVE OwnAnswer'
  BY <1>b, <1>17 DEF vars, net, mem, call
<1> QED BY <1>1, <1>2, <1>3, <1>4, <1>5, <1>6, <1>7, <1>8, <1>9, <1>10, <1>11, <1>12, <1>13,
           <1>14, <1>15, <1>16, <1>17 DEF Next, Call

----------------------------------------------------------------------------
(* The theorems.                                                           *)

ClientInv ==
  Types /\ HupInv /\ OnceInv /\ WireInv /\ FlowInv /\ OwnAnswer /\ MemInv

LEMMA ClientInit == Init => ClientInv
<1> SUFFICES ASSUME Init PROVE ClientInv
  OBVIOUS
<1>1. <<>> \in Seq(Byte) /\ <<>> \in Seq(Nat) /\ Len(<<>>) = 0
  BY EmptySeq
<1>2. PktLen \in Nat /\ PktLen > 0 /\ BufCap \in Nat /\ MaxCalls \in Nat
  BY TcpClientAssumption
<1>3. Types
  <2>1. off \in 0..PktLen /\ Len(buf) <= BufCap /\ calls \in 0..MaxCalls /\ calls \in Nat
    BY <1>1, <1>2 DEF Init
  <2> QED BY <1>1, <2>1 DEF Init, Types, TypeOK
<1>4. HupInv /\ WireInv /\ MemInv
  BY DEF Init, HupInv, WireInv, MemInv, SafeUnlessLost
<1>5. OnceInv
  BY <1>1 DEF Init, OnceInv, AtMostOnce
<1>6. FlowInv /\ OwnAnswer
  BY <1>1, <1>2 DEF Init, FlowInv, OwnAnswer, Got
<1> QED BY <1>3, <1>4, <1>5, <1>6 DEF ClientInv

LEMMA ClientStep == ClientInv /\ [Next]_vars => ClientInv'
BY TypesStep, HupStep, OnceStep, WireStep, FlowStep, AnswerStep, MemStep DEF ClientInv

LEMMA ClientInvariant == Spec => []ClientInv
BY ClientInit, ClientStep, PTL DEF Spec

(* The client keeps its types; the peer carries each request out at most once,
   although send reconnects; a client with a TLS context writes nothing to a
   connection without TLS; and a request is on the wire whole and in order
   when send says so, unless a plain connection took it in parts. *)
THEOREM RequestsCorrect == Spec => []Inv
<1>1. ClientInv => Inv
  BY WireWhole DEF ClientInv, Types, OnceInv, HupInv, Inv, NoPlaintext
<1> QED BY <1>1, ClientInvariant, PTL

(* A call that returns 0 with a whole packet, on a connection whose earlier
   calls ended with their answers read, returns the answer to its own request. *)
THEOREM AnswersCorrect == Spec => []OwnAnswer
<1>1. ClientInv => OwnAnswer
  BY DEF ClientInv
<1> QED BY <1>1, ClientInvariant, PTL

(* _data is neither used nor deleted after its deletion unless a reconnection
   has failed. *)
THEOREM DataUsedAlive == Spec => []SafeUnlessLost
<1>1. ClientInv => SafeUnlessLost
  BY DEF ClientInv, MemInv
<1> QED BY <1>1, ClientInvariant, PTL

=============================================================================
