-------------------------- MODULE PackProtoProofs --------------------------
(***************************************************************************)
(* Proofs about the pack protocol, for packets, buffers and pieces of the  *)
(* stream of any length, and whatever is taken for a header: what the      *)
(* workers are given (PackProto!Inv), that a request that meets no other   *)
(* is handled (PackProto!AloneServed), and that an answer accepted with    *)
(* the connection in order is one whole packet, its own if the request met *)
(* no other (PackProto!OwnAnswer).                                         *)
(***************************************************************************)
EXTENDS PackProto, SequenceTheorems, TLAPS

Byte == Nat \X Nat

(* Length and bytes of packet id when t are the requests sent. *)
Tot(t, id)   == H + t[id][2]
PktOf(t, id) == [k \in 1..Tot(t, id) |-> <<id, k>>]

(* A stream of whole packets, of which only the first may have lost its
   beginning: after a byte come the bytes of its packet that follow it. *)
Framed(t, s) ==
  \A i \in 1..Len(s) :
    /\ s[i][1] \in 1..Len(t) /\ s[i][2] \in 1..Tot(t, s[i][1])
    /\ \A m \in 0..(Tot(t, s[i][1]) - s[i][2]) :
         i + m <= Len(s) /\ s[i + m] = <<s[i][1], s[i][2] + m>>

(* A byte that is not its packet's first comes after the one before it. *)
Linked(s) ==
  \A i \in 1..Len(s) : i > 1 /\ s[i][2] # 1 => s[i - 1] = <<s[i][1], s[i][2] - 1>>

(* No byte comes twice, nor before an earlier one. *)
Before(x, y) == x[1] < y[1] \/ (x[1] = y[1] /\ x[2] < y[2])
Rising(s)    == \A i, j \in 1..Len(s) : i < j => Before(s[i], s[j])

(* A stream that begins with a packet, or else with the rest of one of tn. *)
Headed(tn, s) == Len(s) >= 1 /\ s[1][2] # 1 => s[1][1] \in tn
Began(s)      == Len(s) >= 1 => s[1][2] = 1

(* A buffer that begins with a packet, whole ... *)
Start(b) == b[1][2] = 1
Whole(t, b) ==
  /\ Len(b) >= 1 /\ b[1][1] \in 1..Len(t)
  /\ Len(b) >= Tot(t, b[1][1])
  /\ \A k \in 1..Tot(t, b[1][1]) : b[k] = <<b[1][1], k>>

(* ... or else with the rest of one of tn. *)
Given(t, tn, b) ==
  /\ Id(b) \in 1..Len(t)
  /\ IF Start(b) THEN Whole(t, b) ELSE Id(b) \in tn

(* What is on the way to the server, and on the way back. *)
Pipe   == (buf \o rx) \o wire
Answer == IF pc = "recv" THEN cbuf \o resp ELSE resp

Writing == [pkt : Seq(Byte), off : Nat]

Types ==
  /\ sent \in Seq(Kinds) /\ Len(sent) <= MaxReq
  /\ armed \in BOOLEAN /\ pc \in {"idle", "recv"} /\ skew \in BOOLEAN
  /\ wire \in Seq(Byte) /\ rx \in Seq(Byte)
  /\ buf \in Seq(Byte) /\ Len(buf) < Cap
  /\ tasks \in Seq(Seq(Byte)) /\ handled \in Seq(Seq(Byte))
  /\ out \in Seq(Writing) /\ Len(out) <= Workers
  /\ resp \in Seq(Byte) /\ cbuf \in Seq(Byte) /\ Len(cbuf) <= Cap
  /\ alone \subseteq 1..Len(sent) /\ hurt \subseteq 1..Len(sent) /\ torn \subseteq 1..Len(sent)
  /\ pc = "recv" => want \in Nat /\ want + Len(cbuf) <= Cap

(* The stream to the server ... *)
InStream == Framed(sent, Pipe) /\ Linked(Pipe) /\ Rising(Pipe) /\ Headed(torn, Pipe)

(* ... the buffers made of it: no other has anything of the packet one begins
   with, nor has the stream; and no packet of which one begins with a part is
   still to begin ... *)
Taken(t, tn, s) ==
  /\ \A i \in 1..Len(s) : Given(t, tn, s[i])
  /\ \A i, j \in 1..Len(s) : Start(s[i]) /\ Id(s[i]) = Id(s[j]) => i = j
Apart(s, d) ==
  \A i \in 1..Len(s), j \in 1..Len(d) : Start(s[i]) \/ Start(d[j]) => Id(s[i]) # Id(d[j])
Among(s, id) == \E j \in 1..Len(s) : Id(s[j]) = id
Over(s, p)   == \A i \in 1..Len(p) : p[i][2] = 1 => ~Among(s, p[i][1])
Past(s, p)   == \A i \in 1..Len(s) : Start(s[i]) => \A k \in 1..Len(p) : p[k][1] # Id(s[i])
ServedBy(t, tn, s, d, p) ==
  /\ Taken(t, tn, s) /\ Taken(t, tn, d) /\ Apart(s, d)
  /\ Over(s, p) /\ Over(d, p) /\ Past(s, p) /\ Past(d, p)
Served == ServedBy(sent, torn, tasks, handled, Pipe)

(* ... and the stream back, of answers to requests handled, which are whole and
   in order but for skew. *)
Made(t, d, o) == \E id \in 1..Len(t) : o.pkt = PktOf(t, id) /\ Among(d, id)
OutStream ==
  /\ \A i \in 1..Len(Answer) : Among(handled, Answer[i][1])
  /\ \A j \in 1..Len(out) : Made(sent, handled, out[j])
  /\ ~skew => Framed(sent, Answer) /\ Linked(Answer) /\ Began(Answer)

(* If the last request met no other on the way, it has the way for itself. *)
OnlyOf(s, id) == \A i \in 1..Len(s) : s[i][1] = id
OnlyOne ==
  Len(sent) \in alone =>
    /\ OnlyOf(Pipe, Len(sent)) /\ OnlyOf(Answer, Len(sent))
    /\ \A i \in 1..Len(tasks) : Id(tasks[i]) = Len(sent)
    /\ \A j \in 1..Len(out) : out[j].pkt = PktOf(sent, Len(sent))

(* The answer accepted last. *)
Accepted ==
  /\ res.req \in 0..Len(sent)
  /\ res.req > 0 => /\ Id(res.got) \in 1..Len(sent)
                    /\ res.got = PktOf(sent, Id(res.got))
                    /\ res.req \in alone => Id(res.got) = res.req
                    /\ Among(handled, Id(res.got))

(* A request that met no other is handled, queued, or all of it is under way. *)
Begun(s, id) == \E j \in 1..Len(s) : s[j][1] = <<id, 1>>
OnItsWay ==
  /\ \A id \in 1..Len(sent) : id \notin hurt => Tot(sent, id) < Cap
  /\ \A id \in alone \ hurt :
       \/ Begun(handled, id)
       \/ id = Len(sent) /\ (Pipe = PktOf(sent, id) \/ Begun(tasks, id))

IInv == Types /\ InStream /\ Served /\ OutStream /\ OnlyOne /\ Accepted /\ OnItsWay

----------------------------------------------------------------------------
(* Sequences of bytes.                                                     *)

LEMMA Constants ==
  H \in Nat /\ H > 0 /\ Cap \in Nat /\ Cap > H /\ Workers \in Nat /\ MaxReq \in Nat
  /\ Claims \subseteq Nat
BY PackProtoAssumption

LEMMA ByteFacts ==
  ASSUME NEW s \in Seq(Byte)
  PROVE  /\ Len(s) \in Nat /\ (s = <<>> <=> Len(s) = 0)
         /\ \A i \in 1..Len(s) : s[i] \in Byte /\ s[i][1] \in Nat /\ s[i][2] \in Nat
                                 /\ s[i] = <<s[i][1], s[i][2]>>
<1>1. Len(s) \in Nat /\ (s = <<>> <=> Len(s) = 0)
  BY EmptySeq, LenProperties
<1>2. \A i \in 1..Len(s) : s[i] \in Byte
  BY ElementOfSeq
<1>3. \A x \in Byte : x[1] \in Nat /\ x[2] \in Nat /\ x = <<x[1], x[2]>>
  BY DEF Byte
<1> QED BY <1>1, <1>2, <1>3

LEMMA NoBytes == <<>> \in Seq(Byte) /\ Len(<<>>) = 0
BY EmptySeq

(* SubSeq within the bounds of a sequence of bytes. *)
LEMMA PartFacts ==
  ASSUME NEW s \in Seq(Byte), NEW m \in Nat \ {0}, NEW n \in Nat,
         n <= Len(s), m <= n + 1
  PROVE  /\ SubSeq(s, m, n) \in Seq(Byte) /\ Len(SubSeq(s, m, n)) = n - m + 1
         /\ \A k \in 1..(n - m + 1) : SubSeq(s, m, n)[k] = s[m + k - 1]
<1>1. \A k \in m..n : s[k] \in Byte
  BY ElementOfSeq, LenProperties
<1> QED BY <1>1, SubSeqProperties

LEMMA FirstFacts ==
  ASSUME NEW s \in Seq(Byte), NEW n \in Nat, n <= Len(s)
  PROVE  /\ SubSeq(s, 1, n) \in Seq(Byte) /\ Len(SubSeq(s, 1, n)) = n
         /\ \A k \in 1..n : SubSeq(s, 1, n)[k] = s[k]
<1>1. /\ SubSeq(s, 1, n) \in Seq(Byte) /\ Len(SubSeq(s, 1, n)) = n - 1 + 1
      /\ \A k \in 1..(n - 1 + 1) : SubSeq(s, 1, n)[k] = s[1 + k - 1]
  BY PartFacts
<1>2. n - 1 + 1 = n /\ \A k \in 1..n : 1 + k - 1 = k
  OBVIOUS
<1> QED BY <1>1, <1>2

(* What is left of s without its first n bytes. *)
Drop(s, n) == SubSeq(s, n + 1, Len(s))

LEMMA DropFacts ==
  ASSUME NEW s \in Seq(Byte), NEW n \in Nat, n <= Len(s)
  PROVE  /\ Drop(s, n) \in Seq(Byte) /\ Len(Drop(s, n)) = Len(s) - n
         /\ \A k \in 1..(Len(s) - n) : n + k \in 1..Len(s) /\ Drop(s, n)[k] = s[n + k]
<1>0. Len(s) \in Nat
  BY LenProperties
<1>1. /\ Drop(s, n) \in Seq(Byte) /\ Len(Drop(s, n)) = Len(s) - (n + 1) + 1
      /\ \A k \in 1..(Len(s) - (n + 1) + 1) : Drop(s, n)[k] = s[(n + 1) + k - 1]
  BY <1>0, PartFacts DEF Drop
<1>2. /\ Len(s) - (n + 1) + 1 = Len(s) - n
      /\ \A k \in 1..(Len(s) - n) : (n + 1) + k - 1 = n + k /\ n + k \in 1..Len(s)
  BY <1>0
<1> QED BY <1>1, <1>2

LEMMA JoinFacts ==
  ASSUME NEW a \in Seq(Byte), NEW b \in Seq(Byte)
  PROVE  /\ a \o b \in Seq(Byte) /\ Len(a \o b) = Len(a) + Len(b)
         /\ \A i \in 1..Len(a) : (a \o b)[i] = a[i]
         /\ \A i \in 1..Len(b) : (a \o b)[Len(a) + i] = b[i]
         /\ \A i \in 1..(Len(a) + Len(b)) : i > Len(a) =>
              i - Len(a) \in 1..Len(b) /\ (a \o b)[i] = b[i - Len(a)]
<1>1. Len(a) \in Nat /\ Len(b) \in Nat
  BY LenProperties
<1>2. /\ a \o b \in Seq(Byte) /\ Len(a \o b) = Len(a) + Len(b)
      /\ \A i \in 1..(Len(a) + Len(b)) :
           (a \o b)[i] = IF i <= Len(a) THEN a[i] ELSE b[i - Len(a)]
  BY ConcatProperties
<1>3. \A i \in 1..Len(b) : (a \o b)[Len(a) + i] = b[i]
  <2> TAKE i \in 1..Len(b)
  <2>1. Len(a) + i \in 1..(Len(a) + Len(b)) /\ ~(Len(a) + i <= Len(a)) /\ Len(a) + i - Len(a) = i
    BY <1>1
  <2> QED BY <1>2, <2>1
<1> QED BY <1>1, <1>2, <1>3

LEMMA SameBytes ==
  ASSUME NEW a \in Seq(Byte), NEW b \in Seq(Byte), Len(a) = Len(b),
         \A i \in 1..Len(a) : a[i] = b[i]
  PROVE  a = b
BY SeqEqual

LEMMA Assoc ==
  ASSUME NEW a \in Seq(Byte), NEW b \in Seq(Byte), NEW c \in Seq(Byte)
  PROVE  (a \o b) \o c = a \o (b \o c)
BY ConcatAssociative

(* Nothing changes when bytes go over from the head of one piece to the end of
   the one before. *)
LEMMA CutJoined ==
  ASSUME NEW b \in Seq(Byte), NEW n \in Nat, n <= Len(b), NEW x \in Seq(Byte),
         NEW y \in Seq(Byte), Len(x) = n, Len(y) = Len(b) - n,
         \A k \in 1..n : x[k] = b[k], \A k \in 1..(Len(b) - n) : y[k] = b[n + k]
  PROVE  x \o y = b
<1>1. Len(b) \in Nat /\ Len(x) + Len(y) = Len(b)
  BY LenProperties
<1>2. /\ x \o y \in Seq(Byte) /\ Len(x \o y) = Len(b)
      /\ \A i \in 1..n : (x \o y)[i] = x[i]
      /\ \A i \in 1..Len(b) : i > n => (x \o y)[i] = y[i - n]
  BY <1>1, JoinFacts, SMTT(30)
<1>3. ASSUME NEW i \in 1..Len(b) PROVE (x \o y)[i] = b[i]
  <2>0. i <= n \/ i > n
    BY <1>1
  <2>1. CASE i <= n
    <3>1. i \in 1..n
      BY <1>1, <2>1
    <3> QED BY <3>1, <1>2
  <2>2. CASE i > n
    <3>1. i - n \in 1..(Len(b) - n) /\ n + (i - n) = i
      BY <2>2, <1>1
    <3> QED BY <2>2, <3>1, <1>2
  <2> QED BY <2>0, <2>1, <2>2
<1> QED BY <1>2, <1>3, SameBytes

LEMMA MovedOver ==
  ASSUME NEW a \in Seq(Byte), NEW b \in Seq(Byte), NEW n \in Nat, n <= Len(b)
  PROVE  (a \o SubSeq(b, 1, n)) \o Drop(b, n) = a \o b
<1>1. /\ SubSeq(b, 1, n) \in Seq(Byte) /\ Len(SubSeq(b, 1, n)) = n
      /\ \A k \in 1..n : SubSeq(b, 1, n)[k] = b[k]
  BY FirstFacts
<1>2. /\ Drop(b, n) \in Seq(Byte) /\ Len(Drop(b, n)) = Len(b) - n
      /\ \A k \in 1..(Len(b) - n) : Drop(b, n)[k] = b[n + k]
  BY DropFacts
<1> DEFINE x == SubSeq(b, 1, n)
           y == Drop(b, n)
<1>3. /\ x \in Seq(Byte) /\ Len(x) = n /\ \A k \in 1..n : x[k] = b[k]
      /\ y \in Seq(Byte) /\ Len(y) = Len(b) - n /\ \A k \in 1..(Len(b) - n) : y[k] = b[n + k]
  BY <1>1, <1>2
<1> HIDE DEF x, y
<1>4. x \o y = b
  BY <1>3, CutJoined
<1>5. (a \o x) \o y = a \o b
  BY <1>3, <1>4, Assoc
<1> QED BY <1>5 DEF x, y

LEMMA DropJoin ==
  ASSUME NEW a \in Seq(Byte), NEW b \in Seq(Byte)
  PROVE  Drop(a \o b, Len(a)) = b
<1>1. Len(a) \in Nat /\ Len(b) \in Nat
  BY LenProperties
<1>2. a \o b \in Seq(Byte) /\ Len(a \o b) = Len(a) + Len(b)
      /\ \A i \in 1..Len(b) : (a \o b)[Len(a) + i] = b[i]
  BY JoinFacts
<1> DEFINE s == a \o b
           l == Len(a)
<1>3. s \in Seq(Byte) /\ Len(s) - l = Len(b) /\ l \in Nat /\ l <= Len(s)
      /\ \A i \in 1..Len(b) : s[l + i] = b[i]
  BY <1>1, <1>2
<1> HIDE DEF s, l
<1>4. /\ Drop(s, l) \in Seq(Byte) /\ Len(Drop(s, l)) = Len(s) - l
      /\ \A k \in 1..(Len(s) - l) : Drop(s, l)[k] = s[l + k]
  BY <1>3, DropFacts
<1>5. \A k \in 1..Len(b) : Drop(s, l)[k] = b[k]
  BY <1>3, <1>4
<1>6. Drop(s, l) = b
  BY <1>3, <1>4, <1>5, SameBytes
<1> QED BY <1>6 DEF s, l

----------------------------------------------------------------------------
(* Streams of packets.                                                     *)

LEMMA TotFacts ==
  ASSUME NEW t \in Seq(Kinds), NEW id \in 1..Len(t)
  PROVE  t[id] \in Kinds /\ t[id][2] \in Nat /\ Tot(t, id) \in Nat /\ Tot(t, id) >= H
         /\ Tot(t, id) >= 1
<1>1. t[id] \in Kinds
  BY ElementOfSeq
<1>2. \A x \in {"ok", "err", "none"} \X Nat : x[2] \in Nat
  OBVIOUS
<1>3. t[id][2] \in Nat
  BY <1>1, <1>2, PackProtoAssumption
<1> QED BY <1>1, <1>3, Constants DEF Tot

LEMMA GrownFacts ==
  ASSUME NEW t \in Seq(Kinds), NEW k \in Kinds, NEW u, u = Append(t, k)
  PROVE  /\ u \in Seq(Kinds) /\ Len(u) = Len(t) + 1 /\ Len(t) \in Nat
         /\ \A id \in 1..Len(t) : id \in 1..Len(u) /\ Tot(u, id) = Tot(t, id)
         /\ Len(u) \in 1..Len(u) /\ Tot(u, Len(u)) = H + k[2]
<1>1. Len(t) \in Nat
  BY LenProperties
<1>2. /\ u \in Seq(Kinds) /\ Len(u) = Len(t) + 1
      /\ \A id \in 1..Len(t) : u[id] = t[id]
      /\ u[Len(t) + 1] = k
  BY AppendProperties
<1> QED BY <1>1, <1>2 DEF Tot

LEMMA PktFacts ==
  ASSUME NEW t \in Seq(Kinds), NEW id \in 1..Len(t)
  PROVE  /\ PktOf(t, id) \in Seq(Byte) /\ Len(PktOf(t, id)) = Tot(t, id)
         /\ \A k \in 1..Tot(t, id) :
              /\ PktOf(t, id)[k] = <<id, k>>
              /\ PktOf(t, id)[k][1] = id /\ PktOf(t, id)[k][2] = k
<1>1. Tot(t, id) \in Nat /\ id \in Nat
  BY TotFacts, LenProperties
<1>2. \A k \in 1..Tot(t, id) : <<id, k>> \in Byte
  BY <1>1 DEF Byte
<1>3. PktOf(t, id) \in Seq(Byte) /\ Len(PktOf(t, id)) = Tot(t, id)
  BY <1>1, <1>2 DEF PktOf
<1> QED BY <1>3 DEF PktOf

(* A packet of c bytes at the end of a stream of l. *)
Joined(t, s, id, j, l, c) == j = s \o PktOf(t, id) /\ l = Len(s) /\ c = Tot(t, id)

PktEnd(s, id, j, l, c) ==
  /\ j \in Seq(Byte) /\ Len(j) = l + c /\ l \in Nat /\ c \in Nat
  /\ \A i \in 1..l : j[i] = s[i]
  /\ \A i \in 1..c : j[l + i] = <<id, i>>
  /\ \A i \in 1..(l + c) : i > l =>
       i - l \in 1..c /\ j[i] = <<id, i - l>> /\ j[i][1] = id /\ j[i][2] = i - l

LEMMA PktJoined ==
  ASSUME NEW t \in Seq(Kinds), NEW s \in Seq(Byte), NEW id \in 1..Len(t), NEW j, NEW l, NEW c,
         Joined(t, s, id, j, l, c)
  PROVE  PktEnd(s, id, j, l, c)
<1>0. j = s \o PktOf(t, id) /\ l = Len(s) /\ c = Tot(t, id)
  BY DEF Joined
<1>1. PICK p \in Seq(Byte) : p = PktOf(t, id) /\ Len(p) = c /\ \A k \in 1..c : p[k] = <<id, k>>
  <2>1. /\ PktOf(t, id) \in Seq(Byte) /\ Len(PktOf(t, id)) = Tot(t, id)
        /\ \A k \in 1..Tot(t, id) : PktOf(t, id)[k] = <<id, k>>
    BY PktFacts, ZenonT(60)
  <2>2. PICK p \in Seq(Byte) : p = PktOf(t, id)
    BY <2>1
  <2>3. Len(p) = c /\ \A k \in 1..c : p[k] = <<id, k>>
    BY <1>0, <2>1, <2>2, Zenon
  <2> QED BY <2>2, <2>3
<1>2. c \in Nat /\ l \in Nat
  BY <1>0, TotFacts, LenProperties
<1>3. j = s \o p
  BY <1>0, <1>1
<1>4. /\ j \in Seq(Byte) /\ Len(j) = Len(s) + Len(p)
      /\ \A i \in 1..Len(s) : j[i] = s[i]
      /\ \A i \in 1..Len(p) : j[Len(s) + i] = p[i]
  BY <1>3, JoinFacts
<1>5. /\ \A i \in 1..l : j[i] = s[i]
      /\ \A i \in 1..c : j[l + i] = <<id, i>>
  BY <1>0, <1>1, <1>4
<1>6. ASSUME NEW i \in 1..(l + c), i > l
      PROVE  i - l \in 1..c /\ j[i] = <<id, i - l>> /\ j[i][1] = id /\ j[i][2] = i - l
  <2>1. i - l \in 1..c /\ l + (i - l) = i
    BY <1>2, <1>6
  <2>2. j[i] = <<id, i - l>>
    BY <2>1, <1>5
  <2> QED BY <2>1, <2>2
<1>7. j \in Seq(Byte) /\ Len(j) = l + c
  BY <1>0, <1>1, <1>4
<1> QED BY <1>2, <1>5, <1>6, <1>7 DEF PktEnd

LEMMA FramedGrown ==
  ASSUME NEW t \in Seq(Kinds), NEW k \in Kinds, NEW s \in Seq(Byte), Framed(t, s)
  PROVE  Framed(Append(t, k), s)
<1> DEFINE u == Append(t, k)
<1>1. \A id \in 1..Len(t) : id \in 1..Len(u) /\ Tot(u, id) = Tot(t, id)
  BY GrownFacts, ZenonT(60)
<1> HIDE DEF u
<1>2. Framed(u, s)
  BY <1>1 DEF Framed
<1> QED BY <1>2 DEF u

LEMMA WholeGrown ==
  ASSUME NEW t \in Seq(Kinds), NEW k \in Kinds, NEW b, Whole(t, b)
  PROVE  Whole(Append(t, k), b)
<1> DEFINE u == Append(t, k)
<1>1. \A id \in 1..Len(t) : id \in 1..Len(u) /\ Tot(u, id) = Tot(t, id)
  BY GrownFacts, ZenonT(60)
<1> HIDE DEF u
<1>2. Whole(u, b)
  BY <1>1 DEF Whole
<1> QED BY <1>2 DEF u

LEMMA GivenGrown ==
  ASSUME NEW t \in Seq(Kinds), NEW k \in Kinds, NEW tn, NEW b, Given(t, tn, b)
  PROVE  Given(Append(t, k), tn, b)
<1>1. Start(b) => Whole(Append(t, k), b)
  BY WholeGrown DEF Given
<1>2. \A id \in 1..Len(t) : id \in 1..Len(Append(t, k))
  BY GrownFacts, ZenonT(60)
<1> QED BY <1>1, <1>2 DEF Given

LEMMA FramedDrop ==
  ASSUME NEW t \in Seq(Kinds), NEW s \in Seq(Byte), Framed(t, s), NEW n \in Nat, n <= Len(s)
  PROVE  Framed(t, Drop(s, n))
<1> DEFINE d == Drop(s, n)
<1>1. /\ Len(d) = Len(s) - n /\ Len(s) \in Nat
      /\ \A k \in 1..(Len(s) - n) : n + k \in 1..Len(s) /\ d[k] = s[n + k]
  BY DropFacts, LenProperties
<1> HIDE DEF d
<1>2. ASSUME NEW i \in 1..Len(d)
      PROVE  /\ d[i][1] \in 1..Len(t) /\ d[i][2] \in 1..Tot(t, d[i][1])
             /\ \A m \in 0..(Tot(t, d[i][1]) - d[i][2]) :
                  i + m <= Len(d) /\ d[i + m] = <<d[i][1], d[i][2] + m>>
  <2>1. n + i \in 1..Len(s) /\ d[i] = s[n + i]
    BY <1>1
  <2>2. /\ d[i][1] \in 1..Len(t) /\ d[i][2] \in 1..Tot(t, d[i][1])
        /\ \A m \in 0..(Tot(t, d[i][1]) - d[i][2]) :
             (n + i) + m <= Len(s) /\ s[(n + i) + m] = <<d[i][1], d[i][2] + m>>
    BY <2>1 DEF Framed
  <2>3. ASSUME NEW m \in 0..(Tot(t, d[i][1]) - d[i][2])
        PROVE  i + m <= Len(d) /\ d[i + m] = <<d[i][1], d[i][2] + m>>
    <3>0. Tot(t, d[i][1]) \in Nat /\ d[i][2] \in Nat
      BY <2>2, TotFacts, SMTT(30)
    <3>1. m \in Nat /\ (n + i) + m <= Len(s) /\ s[(n + i) + m] = <<d[i][1], d[i][2] + m>>
      BY <2>2, <3>0
    <3>2. i + m \in 1..(Len(s) - n) /\ (n + i) + m = n + (i + m)
      BY <1>1, <3>1
    <3>3. d[i + m] = s[n + (i + m)] /\ i + m <= Len(d)
      BY <1>1, <3>2
    <3> QED BY <3>1, <3>2, <3>3
  <2> QED BY <2>2, <2>3
<1>3. Framed(t, d)
  BY <1>2 DEF Framed
<1> QED BY <1>3 DEF d

LEMMA FramedJoin ==
  ASSUME NEW t \in Seq(Kinds), NEW s \in Seq(Byte), Framed(t, s), NEW id \in 1..Len(t)
  PROVE  Framed(t, s \o PktOf(t, id))
<1>0. PICK j, l, c : Joined(t, s, id, j, l, c)
  BY DEF Joined
<1>1. j = s \o PktOf(t, id) /\ l = Len(s) /\ c = Tot(t, id)
  BY <1>0 DEF Joined
<1>2a. PktEnd(s, id, j, l, c)
  BY <1>0, PktJoined
<1>2. /\ Len(j) = l + c /\ l \in Nat /\ c \in Nat
      /\ \A i \in 1..l : j[i] = s[i]
      /\ \A i \in 1..c : j[l + i] = <<id, i>>
      /\ \A i \in 1..(l + c) : i > l =>
           i - l \in 1..c /\ j[i] = <<id, i - l>> /\ j[i][1] = id /\ j[i][2] = i - l
  BY <1>2a DEF PktEnd
<1>4. ASSUME NEW i \in 1..Len(j)
      PROVE  /\ j[i][1] \in 1..Len(t) /\ j[i][2] \in 1..Tot(t, j[i][1])
             /\ \A m \in 0..(Tot(t, j[i][1]) - j[i][2]) :
                  i + m <= Len(j) /\ j[i + m] = <<j[i][1], j[i][2] + m>>
  <2>0. i <= l \/ i > l
    BY <1>2
  <2>1. CASE i <= l
    <3>1. i \in 1..l /\ j[i] = s[i]
      BY <2>1, <1>2
    <3>2. /\ j[i][1] \in 1..Len(t) /\ j[i][2] \in 1..Tot(t, j[i][1])
          /\ \A m \in 0..(Tot(t, j[i][1]) - j[i][2]) :
               i + m <= l /\ s[i + m] = <<j[i][1], j[i][2] + m>>
      BY <3>1, <1>1 DEF Framed
    <3>3. ASSUME NEW m \in 0..(Tot(t, j[i][1]) - j[i][2])
          PROVE  i + m <= Len(j) /\ j[i + m] = <<j[i][1], j[i][2] + m>>
      <4>1. i + m <= l /\ s[i + m] = <<j[i][1], j[i][2] + m>>
        BY <3>2
      <4>2. m \in Nat
        BY <3>2, TotFacts
      <4>3. i + m \in 1..l /\ i + m <= Len(j)
        BY <4>1, <4>2, <1>2
      <4> QED BY <4>1, <4>3, <1>2
    <3> QED BY <3>2, <3>3
  <2>2. CASE i > l
    <3>1. i - l \in 1..c /\ l + (i - l) = i
      BY <2>2, <1>2
    <3>2. j[i] = <<id, i - l>> /\ j[i][1] = id /\ j[i][2] = i - l
      BY <3>1, <2>2, <1>2
    <3>3. Tot(t, j[i][1]) = c
      BY <3>2, <1>1
    <3>4. ASSUME NEW m \in 0..(c - (i - l))
          PROVE  i + m <= Len(j) /\ j[i + m] = <<id, (i - l) + m>>
      <4>1. (i - l) + m \in 1..c /\ l + ((i - l) + m) = i + m /\ i + m <= Len(j)
        BY <3>1, <1>2, SMTT(30)
      <4> QED BY <4>1, <1>2
    <3> QED BY <3>1, <3>2, <3>3, <3>4
  <2> QED BY <2>0, <2>1, <2>2
<1>5. Framed(t, j)
  BY <1>4 DEF Framed
<1> QED BY <1>1, <1>5

LEMMA LinkedDrop ==
  ASSUME NEW s \in Seq(Byte), Linked(s), NEW n \in Nat, n <= Len(s)
  PROVE  Linked(Drop(s, n))
<1> DEFINE d == Drop(s, n)
<1>1. /\ Len(d) = Len(s) - n /\ Len(s) \in Nat
      /\ \A k \in 1..(Len(s) - n) : n + k \in 1..Len(s) /\ d[k] = s[n + k]
  BY DropFacts, LenProperties
<1> HIDE DEF d
<1>2. ASSUME NEW i \in 1..Len(d), i > 1, d[i][2] # 1
      PROVE  d[i - 1] = <<d[i][1], d[i][2] - 1>>
  <2>1. /\ n + i \in 1..Len(s) /\ n + i > 1 /\ i - 1 \in 1..(Len(s) - n)
        /\ n + (i - 1) = (n + i) - 1
    BY <1>1, <1>2
  <2>2. d[i] = s[n + i] /\ d[i - 1] = s[(n + i) - 1]
    BY <1>1, <2>1
  <2> QED BY <2>1, <2>2, <1>2 DEF Linked
<1>3. Linked(d)
  BY <1>2 DEF Linked
<1> QED BY <1>3 DEF d

LEMMA LinkedJoin ==
  ASSUME NEW t \in Seq(Kinds), NEW s \in Seq(Byte), Linked(s), NEW id \in 1..Len(t)
  PROVE  Linked(s \o PktOf(t, id))
<1>0. PICK j, l, c : Joined(t, s, id, j, l, c)
  BY DEF Joined
<1>1. j = s \o PktOf(t, id) /\ l = Len(s) /\ c = Tot(t, id)
  BY <1>0 DEF Joined
<1>2a. PktEnd(s, id, j, l, c)
  BY <1>0, PktJoined
<1>2. /\ Len(j) = l + c /\ l \in Nat /\ c \in Nat
      /\ \A i \in 1..l : j[i] = s[i]
      /\ \A i \in 1..(l + c) : i > l => j[i] = <<id, i - l>> /\ j[i][1] = id /\ j[i][2] = i - l
  BY <1>2a DEF PktEnd
<1>3. ASSUME NEW i \in 1..Len(j), i > 1, j[i][2] # 1
      PROVE  j[i - 1] = <<j[i][1], j[i][2] - 1>>
  <2>1. CASE i <= l
    <3>1. i \in 1..l /\ i - 1 \in 1..l
      BY <2>1, <1>2, <1>3
    <3>2. j[i] = s[i] /\ j[i - 1] = s[i - 1]
      BY <3>1, <1>2
    <3> QED BY <3>1, <3>2, <1>1, <1>3 DEF Linked
  <2>2. CASE i > l
    <3>1. j[i][1] = id /\ j[i][2] = i - l /\ i - l # 1
      BY <2>2, <1>2, <1>3
    <3>2. i - 1 \in 1..(l + c) /\ i - 1 > l /\ (i - 1) - l = (i - l) - 1
      BY <2>2, <3>1, <1>2, <1>3
    <3>3. j[i - 1] = <<id, (i - 1) - l>>
      BY <3>2, <1>2
    <3> QED BY <3>1, <3>2, <3>3
  <2> QED BY <2>1, <2>2, <1>2
<1>4. Linked(j)
  BY <1>3 DEF Linked
<1> QED BY <1>1, <1>4

(* A stream with a packet at its end begins as it did, or with the packet. *)
LEMMA FirstJoin ==
  ASSUME NEW t \in Seq(Kinds), NEW s \in Seq(Byte), NEW id \in 1..Len(t)
  PROVE  /\ Len(s) >= 1 => (s \o PktOf(t, id))[1] = s[1]
         /\ Len(s) = 0 => (s \o PktOf(t, id))[1][2] = 1
<1>0. PICK j, l, c : Joined(t, s, id, j, l, c)
  BY DEF Joined
<1>1. j = s \o PktOf(t, id) /\ l = Len(s) /\ c = Tot(t, id)
  BY <1>0 DEF Joined
<1>2a. PktEnd(s, id, j, l, c)
  BY <1>0, PktJoined
<1>2. /\ l \in Nat /\ c \in Nat
      /\ \A i \in 1..l : j[i] = s[i]
      /\ \A i \in 1..(l + c) : i > l => j[i][2] = i - l
  BY <1>2a DEF PktEnd
<1>3. c >= 1
  BY <1>1, TotFacts
<1>4. l >= 1 => j[1] = s[1]
  BY <1>2
<1>5. l = 0 => j[1][2] = 1
  BY <1>2, <1>3
<1> QED BY <1>1, <1>4, <1>5

LEMMA HeadedJoin ==
  ASSUME NEW t \in Seq(Kinds), NEW s \in Seq(Byte), NEW id \in 1..Len(t), NEW tn
  PROVE  /\ Headed(tn, s) => Headed(tn, s \o PktOf(t, id))
         /\ Began(s) => Began(s \o PktOf(t, id))
<1>1. Len(s) \in Nat
  BY LenProperties
<1>2. /\ Len(s) >= 1 => (s \o PktOf(t, id))[1] = s[1]
      /\ Len(s) = 0 => (s \o PktOf(t, id))[1][2] = 1
  BY FirstJoin
<1> QED BY <1>1, <1>2 DEF Headed, Began

LEMMA RisingDrop ==
  ASSUME NEW s \in Seq(Byte), Rising(s), NEW n \in Nat, n <= Len(s)
  PROVE  Rising(Drop(s, n))
<1> DEFINE d == Drop(s, n)
<1>1. /\ Len(d) = Len(s) - n /\ Len(s) \in Nat
      /\ \A k \in 1..(Len(s) - n) : n + k \in 1..Len(s) /\ d[k] = s[n + k]
  BY DropFacts, LenProperties
<1> HIDE DEF d
<1>2. ASSUME NEW i \in 1..Len(d), NEW j \in 1..Len(d), i < j PROVE Before(d[i], d[j])
  <2>1. n + i \in 1..Len(s) /\ n + j \in 1..Len(s) /\ n + i < n + j
    BY <1>1, <1>2
  <2> QED BY <1>1, <2>1 DEF Rising
<1>3. Rising(d)
  BY <1>2 DEF Rising
<1> QED BY <1>3 DEF d

LEMMA RisingJoin ==
  ASSUME NEW t \in Seq(Kinds), NEW s \in Seq(Byte), Rising(s), NEW id \in 1..Len(t),
         \A i \in 1..Len(s) : s[i][1] < id
  PROVE  Rising(s \o PktOf(t, id))
<1>0. PICK u, l, c : Joined(t, s, id, u, l, c)
  BY DEF Joined
<1>1. u = s \o PktOf(t, id) /\ l = Len(s) /\ c = Tot(t, id)
  BY <1>0 DEF Joined
<1>2. PktEnd(s, id, u, l, c)
  BY <1>0, PktJoined
<1>3. /\ Len(u) = l + c /\ l \in Nat /\ c \in Nat
      /\ \A i \in 1..l : u[i] = s[i]
      /\ \A i \in 1..(l + c) : i > l => u[i][1] = id /\ u[i][2] = i - l
  BY <1>2 DEF PktEnd
<1>4. \A i \in 1..l : u[i][1] < id
  BY <1>1, <1>3
<1>6. ASSUME NEW i \in 1..Len(u), NEW j \in 1..Len(u), i < j PROVE Before(u[i], u[j])
  <2>0. j <= l \/ (i <= l /\ j > l) \/ i > l
    BY <1>3
  <2>1. CASE j <= l
    <3>1. i \in 1..l /\ j \in 1..l
      BY <2>1, <1>6, <1>3
    <3>2. u[i] = s[i] /\ u[j] = s[j] /\ Before(s[i], s[j])
      BY <3>1, <1>6, <1>1, <1>3 DEF Rising
    <3> QED BY <3>2
  <2>2. CASE i <= l /\ j > l
    <3>1. i \in 1..l
      BY <2>2, <1>3
    <3>2. u[i][1] < id /\ u[j][1] = id
      BY <2>2, <3>1, <1>4, <1>3
    <3> QED BY <3>2 DEF Before
  <2>3. CASE i > l
    <3>1. j > l /\ i - l < j - l
      BY <2>3, <1>6, <1>3
    <3>2. u[i][1] = id /\ u[j][1] = id /\ u[i][2] = i - l /\ u[j][2] = j - l
      BY <2>3, <3>1, <1>3
    <3> QED BY <3>1, <3>2 DEF Before
  <2> QED BY <2>0, <2>1, <2>2, <2>3
<1>7. Rising(u)
  BY <1>6 DEF Rising
<1> QED BY <1>1, <1>7

(* What isFullPkt says of a buffer that begins with a byte of a packet sent. *)
LEMMA FullFacts ==
  ASSUME sent \in Seq(Kinds), NEW b \in Seq(Byte), b # <<>> => Id(b) \in 1..Len(sent),
         NEW m \in isFullPkt(b)
  PROVE  /\ m \in Int
         /\ b = <<>> => m = Cap
         /\ b # <<>> /\ m >= 0 => Len(b) >= H
         /\ Header(b) => m >= 0 /\ (m = 0 => Len(b) >= Tot(sent, Id(b)))
<1>1. H \in Nat /\ H > 0 /\ Cap \in Nat /\ Cap > H /\ Claims \subseteq Nat
  BY Constants
<1>2. Len(b) \in Nat /\ (b = <<>> <=> Len(b) = 0)
  BY ByteFacts
<1>3. b # <<>> => Total(Id(b)) = Tot(sent, Id(b)) /\ Tot(sent, Id(b)) \in Nat
  BY TotFacts DEF Total, Tot
<1>4. CASE Len(b) = 0
  <2>1. m = Cap
    BY <1>1, <1>4 DEF isFullPkt
  <2>2. ~Header(b)
    BY <1>1, <1>4 DEF Header
  <2> QED BY <2>1, <2>2, <1>1, <1>2, <1>4
<1>5. CASE Len(b) \in 1..(H - 1)
  <2>1. m = -1
    BY <1>1, <1>2, <1>5 DEF isFullPkt
  <2>2. ~Header(b)
    BY <1>1, <1>5 DEF Header
  <2> QED BY <2>1, <2>2, <1>1, <1>2, <1>5
<1>6. CASE Len(b) >= H
  <2>1. m \in IF ~Header(b) THEN Claimed(b)
             ELSE IF Len(b) < Total(Id(b)) THEN {Total(Id(b)) - Len(b)} ELSE {0}
    BY <1>1, <1>2, <1>6 DEF isFullPkt
  <2>2. b # <<>>
    BY <1>1, <1>2, <1>6
  <2>3. CASE Header(b)
    <3>1. CASE Len(b) < Total(Id(b))
      BY <3>1, <2>1, <2>2, <2>3, <1>1, <1>2, <1>3, <1>6
    <3>2. CASE ~(Len(b) < Total(Id(b)))
      BY <3>2, <2>1, <2>2, <2>3, <1>1, <1>2, <1>3, <1>6
    <3> QED BY <3>1, <3>2
  <2>4. CASE ~Header(b)
    <3>1. m \in Claimed(b)
      BY <2>1, <2>4
    <3>2. m = -1 \/ \E c \in Claims : m = IF Len(b) < c THEN c - Len(b) ELSE 0
      BY <3>1 DEF Claimed
    <3>3. m \in Int
      BY <3>2, <1>1, <1>2
    <3> QED BY <3>3, <2>2, <2>4, <1>6
  <2> QED BY <2>3, <2>4
<1> QED BY <1>1, <1>2, <1>4, <1>5, <1>6

(* The header of a packet whose first byte is at the head of a stream. *)
LEMMA HeaderFirst ==
  ASSUME NEW t \in Seq(Kinds), NEW p \in Seq(Byte), Framed(t, p), NEW b \in Seq(Byte),
         Len(b) <= Len(p), \A i \in 1..Len(b) : b[i] = p[i], Len(b) >= H, b[1][2] = 1
  PROVE  Header(b)
<1>0. H \in Nat /\ H > 0 /\ Len(b) \in Nat /\ Len(p) \in Nat
  BY Constants, LenProperties
<1>1. 1 \in 1..Len(p) /\ 1 \in 1..Len(b)
  BY <1>0
<1>2. p[1] = b[1] /\ p[1][1] = Id(b) /\ p[1][2] = 1
  BY <1>1 DEF Id
<1>3. Id(b) \in 1..Len(t) /\ \A m \in 0..(Tot(t, Id(b)) - 1) : p[1 + m] = <<Id(b), 1 + m>>
  BY <1>1, <1>2 DEF Framed
<1>4. Tot(t, Id(b)) \in Nat /\ Tot(t, Id(b)) >= H
  BY <1>3, TotFacts
<1>5. ASSUME NEW k \in 1..H PROVE b[k] = <<Id(b), k>>
  <2>1. k - 1 \in 0..(Tot(t, Id(b)) - 1) /\ 1 + (k - 1) = k /\ k \in 1..Len(b)
    BY <1>0, <1>4
  <2> QED BY <2>1, <1>3
<1> QED BY <1>5 DEF Header

LEMMA HeaderStarts ==
  ASSUME NEW b \in Seq(Byte), Header(b)
  PROVE  Len(b) >= 1 /\ b[1] = <<Id(b), 1>> /\ b[1][2] = 1
<1>1. H \in Nat /\ H > 0 /\ Len(b) \in Nat
  BY Constants, LenProperties
<1>2. 1 \in 1..H /\ Len(b) >= 1
  BY <1>1 DEF Header
<1>3. b[1] = <<Id(b), 1>>
  BY <1>2 DEF Header
<1> QED BY <1>2, <1>3

(* A buffer that begins with the first byte of a packet and is long enough
   begins with the packet. *)
LEMMA WholeFirst ==
  ASSUME NEW t \in Seq(Kinds), NEW p \in Seq(Byte), Framed(t, p), NEW b \in Seq(Byte),
         b # <<>>, Len(b) <= Len(p), \A i \in 1..Len(b) : b[i] = p[i],
         b[1][2] = 1, Len(b) >= Tot(t, Id(b))
  PROVE  Whole(t, b) /\ (Len(b) = Tot(t, Id(b)) => b = PktOf(t, Id(b)))
<1>1. Len(b) \in Nat /\ Len(p) \in Nat /\ Len(b) >= 1 /\ 1 \in 1..Len(b) /\ 1 \in 1..Len(p)
  BY ByteFacts
<1>2. p[1] = b[1] /\ p[1][1] = Id(b) /\ p[1][2] = 1
  BY <1>1 DEF Id
<1>3. Id(b) \in 1..Len(t) /\ \A m \in 0..(Tot(t, Id(b)) - 1) : p[1 + m] = <<Id(b), 1 + m>>
  BY <1>1, <1>2 DEF Framed
<1>4. Tot(t, Id(b)) \in Nat
  BY <1>3, TotFacts
<1>5. ASSUME NEW k \in 1..Tot(t, Id(b)) PROVE b[k] = <<Id(b), k>>
  <2>1. k - 1 \in 0..(Tot(t, Id(b)) - 1) /\ 1 + (k - 1) = k /\ k \in 1..Len(b)
    BY <1>1, <1>4
  <2> QED BY <2>1, <1>3
<1>6. Whole(t, b)
  BY <1>1, <1>3, <1>5 DEF Whole, Id
<1>7. ASSUME Len(b) = Tot(t, Id(b)) PROVE b = PktOf(t, Id(b))
  <2>1. /\ PktOf(t, Id(b)) \in Seq(Byte) /\ Len(PktOf(t, Id(b))) = Tot(t, Id(b))
        /\ \A k \in 1..Tot(t, Id(b)) : PktOf(t, Id(b))[k] = <<Id(b), k>>
    BY <1>3, PktFacts
  <2> QED BY <1>5, <1>7, <2>1, SameBytes, ZenonT(60)
<1> QED BY <1>6, <1>7

(* A buffer taken off the head of a stream. *)
LEMMA HeadFacts ==
  ASSUME NEW b \in Seq(Byte), NEW r \in Seq(Byte), NEW p, p = b \o r
  PROVE  /\ p \in Seq(Byte) /\ Len(b) \in Nat /\ Len(b) <= Len(p)
         /\ \A i \in 1..Len(b) : b[i] = p[i]
         /\ r = Drop(p, Len(b))
<1>1. Len(b) \in Nat /\ Len(r) \in Nat
  BY LenProperties
<1>2. p \in Seq(Byte) /\ Len(p) = Len(b) + Len(r) /\ \A i \in 1..Len(b) : p[i] = b[i]
  BY JoinFacts
<1> QED BY <1>1, <1>2, DropJoin

LEMMA OverDrop ==
  ASSUME NEW s, NEW p \in Seq(Byte), NEW n \in Nat, n <= Len(p), Over(s, p)
  PROVE  Over(s, Drop(p, n))
<1>1. \A k \in 1..Len(Drop(p, n)) : n + k \in 1..Len(p) /\ Drop(p, n)[k] = p[n + k]
  BY DropFacts
<1> QED BY <1>1 DEF Over

LEMMA OnlyDrop ==
  ASSUME NEW id, NEW p \in Seq(Byte), NEW n \in Nat, n <= Len(p), OnlyOf(p, id)
  PROVE  OnlyOf(Drop(p, n), id)
<1>1. \A k \in 1..Len(Drop(p, n)) : n + k \in 1..Len(p) /\ Drop(p, n)[k] = p[n + k]
  BY DropFacts
<1> QED BY <1>1 DEF OnlyOf

(* A packet of which the stream has lost a byte does not begin again. *)
LEMMA OverHead ==
  ASSUME NEW p \in Seq(Byte), Rising(p), NEW n \in Nat, n >= 1, n <= Len(p), p[1][2] >= 1,
         NEW k \in 1..Len(Drop(p, n)), Drop(p, n)[k][2] = 1
  PROVE  Drop(p, n)[k][1] # p[1][1]
<1>0. /\ Len(p) \in Nat /\ Len(Drop(p, n)) = Len(p) - n
      /\ \A j \in 1..(Len(p) - n) : n + j \in 1..Len(p) /\ Drop(p, n)[j] = p[n + j]
  BY DropFacts, LenProperties
<1>1. n + k \in 1..Len(p) /\ Drop(p, n)[k] = p[n + k] /\ 1 \in 1..Len(p) /\ 1 < n + k
  BY <1>0
<1>2. Before(p[1], p[n + k])
  BY <1>1 DEF Rising
<1>3. p[1][1] \in Nat /\ p[n + k][1] \in Nat /\ p[1][2] \in Nat
  BY <1>1, ByteFacts
<1> QED BY <1>1, <1>2, <1>3 DEF Before

(* Nor is there any of a packet left of which it has lost all. *)
LEMMA PastHead ==
  ASSUME NEW t \in Seq(Kinds), NEW p \in Seq(Byte), Framed(t, p), Rising(p),
         NEW b \in Seq(Byte), Whole(t, b), Len(b) <= Len(p), \A i \in 1..Len(b) : b[i] = p[i],
         NEW k \in 1..Len(Drop(p, Len(b)))
  PROVE  Drop(p, Len(b))[k][1] # Id(b)
<1>a. Len(b) \in Nat /\ Len(p) \in Nat
  BY LenProperties
<1>n. PICK n \in Nat : n = Len(b)
  BY <1>a
<1>0. /\ Len(Drop(p, n)) = Len(p) - n
      /\ \A j \in 1..(Len(p) - n) : n + j \in 1..Len(p) /\ Drop(p, n)[j] = p[n + j]
  BY <1>n, DropFacts
<1>1. n + k \in 1..Len(p) /\ Drop(p, n)[k] = p[n + k]
  BY <1>0, <1>n
<1>2. Id(b) \in 1..Len(t) /\ n >= Tot(t, Id(b)) /\ b[Tot(t, Id(b))] = <<Id(b), Tot(t, Id(b))>>
      /\ Tot(t, Id(b)) \in Nat /\ Tot(t, Id(b)) >= 1
  <2>1. Id(b) \in 1..Len(t) /\ n >= Tot(t, Id(b))
        /\ \A m \in 1..Tot(t, Id(b)) : b[m] = <<Id(b), m>>
    BY <1>n DEF Whole, Id
  <2>2. Tot(t, Id(b)) \in Nat /\ Tot(t, Id(b)) >= 1
    BY <2>1, TotFacts
  <2> QED BY <2>1, <2>2
<1>3. PICK l \in Nat : l = Tot(t, Id(b))
  BY <1>2
<1>4. l \in 1..Len(p) /\ p[l] = <<Id(b), l>> /\ l < n + k
  <2>1. l \in 1..n /\ l \in 1..Len(p) /\ l < n + k
    BY <1>a, <1>n, <1>1, <1>2, <1>3
  <2> QED BY <2>1, <1>n, <1>2, <1>3
<1>5. Before(p[l], p[n + k])
  BY <1>1, <1>4 DEF Rising
<1>6. p[l][1] = Id(b) /\ p[l][2] = l
  BY <1>4
<1>7. p[n + k][1] = Id(b) => p[n + k][2] \in 1..l
  BY <1>1, <1>3 DEF Framed
<1>8. Id(b) \in Nat
  BY <1>2, LenProperties
<1>9. p[n + k][1] # Id(b)
  BY <1>5, <1>6, <1>7, <1>8 DEF Before
<1> QED BY <1>1, <1>9, <1>n

(* What is left begins with a packet, or one was torn. *)
LEMMA HeadedDrop ==
  ASSUME sent \in Seq(Kinds), NEW p \in Seq(Byte), Framed(sent, p), Linked(p), NEW tn,
         Headed(tn, p), NEW b \in Seq(Byte), Len(b) <= Len(p),
         \A i \in 1..Len(b) : b[i] = p[i]
  PROVE  Headed(tn \cup Torn(b), Drop(p, Len(b)))
<1>a. Len(b) \in Nat /\ Len(p) \in Nat /\ (b = <<>> <=> Len(b) = 0)
  BY ByteFacts
<1>n. PICK n \in Nat : n = Len(b)
  BY <1>a
<1> DEFINE r == Drop(p, n)
<1>0. /\ Len(r) = Len(p) - n
      /\ \A j \in 1..(Len(p) - n) : n + j \in 1..Len(p) /\ r[j] = p[n + j]
  BY <1>n, DropFacts
<1> HIDE DEF r
<1>1. ASSUME Len(r) >= 1, r[1][2] # 1 PROVE r[1][1] \in tn \cup Torn(b)
  <2>1. n + 1 \in 1..Len(p) /\ r[1] = p[n + 1]
    <3>1. 1 \in 1..(Len(p) - n)
      BY <1>0, <1>1, <1>a, <1>n
    <3> QED BY <3>1, <1>0
  <2>2. CASE n = 0
    BY <2>1, <2>2, <1>1, <1>a DEF Headed
  <2>3. CASE n >= 1
    <3>1. n + 1 > 1 /\ (n + 1) - 1 = n
      BY <2>3
    <3>2. p[(n + 1) - 1] = <<p[n + 1][1], p[n + 1][2] - 1>>
      BY <2>1, <3>1, <1>1 DEF Linked
    <3>3. p[n] = <<p[n + 1][1], p[n + 1][2] - 1>>
      BY <3>1, <3>2
    <3>4. p[n + 1][1] \in 1..Len(sent) /\ p[n + 1][2] \in 1..Tot(sent, p[n + 1][1])
      BY <2>1 DEF Framed
    <3>5. Tot(sent, p[n + 1][1]) \in Nat
      BY <3>4, TotFacts
    <3>6. p[n + 1][2] - 1 < Tot(sent, p[n + 1][1])
      BY <3>4, <3>5
    <3>7. b[Len(b)] = p[n] /\ b # <<>>
      BY <2>3, <1>a, <1>n
    <3>8. b[Len(b)][1] = p[n + 1][1] /\ b[Len(b)][2] < Total(p[n + 1][1])
      BY <3>3, <3>6, <3>7 DEF Total, Tot
    <3>9. p[n + 1][1] \in Torn(b)
      BY <3>4, <3>7, <3>8 DEF Torn
    <3> QED BY <3>9, <2>1
  <2> QED BY <2>2, <2>3, <1>n
<1>2. Headed(tn \cup Torn(b), r)
  BY <1>1 DEF Headed
<1> QED BY <1>2, <1>n DEF r

----------------------------------------------------------------------------
(* The buffers given to the workers.                                       *)

Buffers == Seq(Seq(Byte))

LEMMA BufferSeq ==
  ASSUME NEW s \in Buffers
  PROVE  Len(s) \in Nat /\ \A i \in 1..Len(s) : s[i] \in Seq(Byte)
BY ElementOfSeq, LenProperties DEF Buffers

Queued(s, b, q) == q = Append(s, b)

LEMMA QueuedFacts ==
  ASSUME NEW s \in Buffers, NEW b \in Seq(Byte), NEW q, Queued(s, b, q)
  PROVE  /\ q \in Buffers /\ Len(q) = Len(s) + 1 /\ Len(s) \in Nat
         /\ \A i \in 1..Len(s) : i \in 1..Len(q) /\ q[i] = s[i]
         /\ q[Len(s) + 1] = b
         /\ \A i \in 1..Len(q) : i \in 1..Len(s) \/ i = Len(s) + 1
         /\ \A id : Among(q, id) <=> Among(s, id) \/ Id(b) = id
         /\ \A id : Begun(q, id) <=> Begun(s, id) \/ b[1] = <<id, 1>>
<1>1. Len(s) \in Nat
  BY LenProperties DEF Buffers
<1>2. /\ q \in Buffers /\ Len(q) = Len(s) + 1
      /\ \A i \in 1..Len(s) : q[i] = s[i]
      /\ q[Len(s) + 1] = b
  BY AppendProperties DEF Buffers, Queued
<1>3. /\ \A i \in 1..Len(s) : i \in 1..Len(q)
      /\ \A i \in 1..Len(q) : i \in 1..Len(s) \/ i = Len(s) + 1
      /\ Len(s) + 1 \in 1..Len(q)
  BY <1>1, <1>2
<1>4. ASSUME NEW id PROVE Among(q, id) <=> Among(s, id) \/ Id(b) = id
  BY <1>2, <1>3 DEF Among
<1>5. ASSUME NEW id PROVE Begun(q, id) <=> Begun(s, id) \/ b[1] = <<id, 1>>
  BY <1>2, <1>3 DEF Begun
<1> QED BY <1>1, <1>2, <1>3, <1>4, <1>5

LEMMA RemovedFacts ==
  ASSUME NEW S, NEW s \in Seq(S), NEW i \in 1..Len(s), NEW r, r = RemoveAt(s, i)
  PROVE  /\ r \in Seq(S) /\ Len(r) = Len(s) - 1
         /\ \A k \in 1..Len(r) : r[k] = s[IF k < i THEN k ELSE k + 1]
<1>1. Len(s) \in Nat /\ i \in Nat /\ i <= Len(s) /\ i >= 1
  BY LenProperties
<1> DEFINE x == SubSeq(s, 1, i - 1)
           y == SubSeq(s, i + 1, Len(s))
<1>2. \A k \in 1..Len(s) : s[k] \in S
  BY ElementOfSeq
<1>3. x \in Seq(S) /\ Len(x) = i - 1 /\ \A k \in 1..(i - 1) : x[k] = s[k]
  <2>1. i - 1 \in Nat /\ \A k \in 1..(i - 1) : s[k] \in S /\ 1 + k - 1 = k
    BY <1>1, <1>2
  <2> QED BY <1>1, <2>1, SubSeqProperties
<1>4. y \in Seq(S) /\ Len(y) = Len(s) - i /\ \A k \in 1..(Len(s) - i) : y[k] = s[i + k]
  <2>1. /\ i + 1 \in Nat /\ \A k \in (i + 1)..Len(s) : s[k] \in S
        /\ Len(s) - (i + 1) + 1 = Len(s) - i
        /\ \A k \in 1..(Len(s) - i) : (i + 1) + k - 1 = i + k
    BY <1>1, <1>2
  <2>2. /\ y \in Seq(S)
        /\ Len(y) = IF i + 1 <= Len(s) THEN Len(s) - (i + 1) + 1 ELSE 0
        /\ \A k \in 1..(Len(s) - (i + 1) + 1) : y[k] = s[(i + 1) + k - 1]
    BY <1>1, <2>1, SubSeqProperties
  <2>3. (IF i + 1 <= Len(s) THEN Len(s) - (i + 1) + 1 ELSE 0) = Len(s) - i
    BY <1>1
  <2>4. Len(y) = Len(s) - i
    BY <2>2, <2>3
  <2> HIDE DEF y
  <2>5. \A k \in 1..(Len(s) - i) : y[k] = s[i + k]
    BY <2>1, <2>2
  <2> QED BY <2>2, <2>4, <2>5
<1>5. r = x \o y
  BY DEF RemoveAt
<1> HIDE DEF x, y
<1>6. /\ r \in Seq(S) /\ Len(r) = Len(x) + Len(y)
      /\ \A k \in 1..(Len(x) + Len(y)) : r[k] = IF k <= Len(x) THEN x[k] ELSE y[k - Len(x)]
  <2>1. x \in Seq(S) /\ y \in Seq(S)
    BY <1>3, <1>4
  <2> QED BY <2>1, <1>5, ConcatProperties
<1>7. Len(x) + Len(y) = Len(s) - 1
  BY <1>1, <1>3, <1>4
<1>8. ASSUME NEW k \in 1..Len(r) PROVE r[k] = s[IF k < i THEN k ELSE k + 1]
  <2>0. k < i \/ k >= i
    BY <1>1, <1>6, <1>7
  <2>1. CASE k < i
    <3>1. k \in 1..(i - 1) /\ k <= Len(x) /\ k \in 1..(Len(x) + Len(y))
      BY <2>1, <1>1, <1>3, <1>6, <1>7
    <3> QED BY <2>1, <3>1, <1>3, <1>6
  <2>2. CASE k >= i
    <3>1. /\ k - (i - 1) \in 1..(Len(s) - i) /\ ~(k <= Len(x)) /\ i + (k - (i - 1)) = k + 1
          /\ ~(k < i) /\ k \in 1..(Len(x) + Len(y))
      BY <2>2, <1>1, <1>3, <1>6, <1>7
    <3>2. r[k] = y[k - (i - 1)]
      BY <3>1, <1>3, <1>6
    <3> QED BY <3>1, <3>2, <1>4
  <2> QED BY <2>0, <2>1, <2>2
<1> QED BY <1>6, <1>7, <1>8

(* What is left is some of what was there. *)
LEMMA RemovedFrom ==
  ASSUME NEW S, NEW s \in Seq(S), NEW i \in 1..Len(s), NEW r, r = RemoveAt(s, i)
  PROVE  r \in Seq(S) /\ Len(r) = Len(s) - 1 /\ \A k \in 1..Len(r) : \E m \in 1..Len(s) : r[k] = s[m]
<1>1. Len(s) \in Nat
  BY LenProperties
<1>2. /\ r \in Seq(S) /\ Len(r) = Len(s) - 1
      /\ \A k \in 1..Len(r) : r[k] = s[IF k < i THEN k ELSE k + 1]
  BY RemovedFacts
<1>3. ASSUME NEW k \in 1..Len(r) PROVE \E m \in 1..Len(s) : r[k] = s[m]
  <2>1. (IF k < i THEN k ELSE k + 1) \in 1..Len(s)
    BY <1>1, <1>2
  <2> QED BY <2>1, <1>2
<1> QED BY <1>2, <1>3

(* Only packets sent are taken. *)
LEMMA TakenSent ==
  ASSUME NEW t, NEW tn, NEW s, Taken(t, tn, s), NEW id, Among(s, id)
  PROVE  id \in 1..Len(t)
BY DEF Taken, Among, Given

LEMMA TakenGrown ==
  ASSUME NEW t \in Seq(Kinds), NEW k \in Kinds, NEW tn, NEW s, Taken(t, tn, s)
  PROVE  Taken(Append(t, k), tn, s)
BY GivenGrown DEF Taken

LEMMA ServedTorn ==
  ASSUME NEW t, NEW tn, NEW tm, tn \subseteq tm, NEW s, NEW d, NEW p, ServedBy(t, tn, s, d, p)
  PROVE  ServedBy(t, tm, s, d, p)
<1>1. ASSUME NEW q, Taken(t, tn, q) PROVE Taken(t, tm, q)
  BY <1>1 DEF Taken, Given
<1> QED BY <1>1 DEF ServedBy

LEMMA ServedGrown ==
  ASSUME NEW t \in Seq(Kinds), NEW u \in Seq(Kinds), Len(u) = Len(t) + 1, NEW tn,
         NEW s, NEW d, NEW p \in Seq(Byte), ServedBy(t, tn, s, d, p),
         Taken(u, tn, s), Taken(u, tn, d)
  PROVE  ServedBy(u, tn, s, d, p \o PktOf(u, Len(u)))
<1>1. Len(t) \in Nat /\ Len(u) \in 1..Len(u)
  BY LenProperties
<1>2. /\ Taken(t, tn, s) /\ Taken(t, tn, d) /\ Apart(s, d)
      /\ Over(s, p) /\ Over(d, p) /\ Past(s, p) /\ Past(d, p)
  BY DEF ServedBy
<1>n. PICK id \in 1..Len(u) : id = Len(u)
  BY <1>1
<1>4. PICK j, l, c : Joined(u, p, id, j, l, c)
  BY DEF Joined
<1>5. j = p \o PktOf(u, Len(u)) /\ l = Len(p)
  BY <1>n, <1>4 DEF Joined
<1>6a. /\ Len(j) = l + c /\ l \in Nat /\ c \in Nat
       /\ \A i \in 1..l : j[i] = p[i]
       /\ \A i \in 1..(l + c) : i > l => j[i][1] = id
  <2>1. PktEnd(p, id, j, l, c)
    BY <1>4, PktJoined
  <2> QED BY <2>1 DEF PktEnd
<1>6. \A i \in 1..Len(j) : (i \in 1..Len(p) /\ j[i] = p[i]) \/ j[i][1] = Len(u)
  <2> TAKE i \in 1..Len(j)
  <2>1. i \in 1..l \/ i > l
    BY <1>6a
  <2> QED BY <2>1, <1>6a, <1>5, <1>n
<1>7. Len(u) \notin 1..Len(t)
  BY <1>1
<1>8. ASSUME NEW q, Taken(t, tn, q), Over(q, p) PROVE Over(q, j)
  <2> SUFFICES ASSUME NEW i \in 1..Len(j), j[i][2] = 1 PROVE ~Among(q, j[i][1])
    BY DEF Over
  <2>1. CASE i \in 1..Len(p) /\ j[i] = p[i]
    BY <2>1, <1>8 DEF Over
  <2>2. CASE j[i][1] = Len(u)
    BY <2>2, <1>7, <1>8, TakenSent
  <2> QED BY <2>1, <2>2, <1>6
<1>9. ASSUME NEW q, Taken(t, tn, q), Past(q, p) PROVE Past(q, j)
  <2> SUFFICES ASSUME NEW m \in 1..Len(q), Start(q[m]), NEW i \in 1..Len(j)
               PROVE  j[i][1] # Id(q[m])
    BY DEF Past
  <2>1. CASE i \in 1..Len(p) /\ j[i] = p[i]
    BY <2>1, <1>9 DEF Past
  <2>2. CASE j[i][1] = Len(u)
    BY <2>2, <1>7, <1>9 DEF Taken, Given
  <2> QED BY <2>1, <2>2, <1>6
<1>10. Over(s, j) /\ Over(d, j) /\ Past(s, j) /\ Past(d, j)
  BY <1>2, <1>8, <1>9
<1> QED BY <1>2, <1>5, <1>10 DEF ServedBy

LEMMA PastDrop ==
  ASSUME NEW s, NEW p \in Seq(Byte), NEW n \in Nat, n <= Len(p), Past(s, p)
  PROVE  Past(s, Drop(p, n))
<1>1. \A k \in 1..Len(Drop(p, n)) : n + k \in 1..Len(p) /\ Drop(p, n)[k] = p[n + k]
  BY DropFacts
<1> QED BY <1>1 DEF Past

LEMMA ServedDrop ==
  ASSUME NEW t, NEW tn, NEW s, NEW d, NEW p \in Seq(Byte), ServedBy(t, tn, s, d, p),
         NEW n \in Nat, n <= Len(p)
  PROVE  ServedBy(t, tn, s, d, Drop(p, n))
BY OverDrop, PastDrop DEF ServedBy

(* A buffer taken off the head of the stream is queued. *)
LEMMA ServedQueued ==
  ASSUME NEW t \in Seq(Kinds), NEW tn, NEW s \in Buffers, NEW d \in Buffers,
         NEW p \in Seq(Byte), ServedBy(t, tn, s, d, p), Framed(t, p), Rising(p),
         NEW b \in Seq(Byte), Given(t, tn, b), Len(b) >= 1, Len(b) <= Len(p),
         \A i \in 1..Len(b) : b[i] = p[i]
  PROVE  ServedBy(t, tn, Append(s, b), d, Drop(p, Len(b)))
<1> DEFINE r == Drop(p, Len(b))
<1>q. PICK q : Queued(s, b, q)
  BY DEF Queued
<1>0. Len(b) \in Nat /\ Len(p) \in Nat /\ 1 \in 1..Len(p) /\ 1 \in 1..Len(b)
  BY LenProperties
<1>1. /\ Len(s) \in Nat /\ Len(q) = Len(s) + 1
      /\ \A i \in 1..Len(s) : i \in 1..Len(q) /\ q[i] = s[i]
      /\ q[Len(s) + 1] = b
      /\ \A i \in 1..Len(q) : i \in 1..Len(s) \/ i = Len(s) + 1
      /\ \A id : Among(q, id) <=> Among(s, id) \/ Id(b) = id
  BY <1>q, QueuedFacts
<1>2. /\ Taken(t, tn, s) /\ Taken(t, tn, d) /\ Apart(s, d)
      /\ Over(s, p) /\ Over(d, p) /\ Past(s, p) /\ Past(d, p)
  BY DEF ServedBy
<1>3. /\ p[1][1] = Id(b) /\ p[1][2] >= 1 /\ (Start(b) => p[1][2] = 1)
      /\ Id(b) \in 1..Len(t)
  <2>1. b[1] = p[1]
    BY <1>0
  <2>2. p[1][1] \in 1..Len(t) /\ p[1][2] \in 1..Tot(t, p[1][1])
    BY <1>0 DEF Framed
  <2>3. Tot(t, p[1][1]) \in Nat
    BY <2>2, TotFacts
  <2> QED BY <2>1, <2>2, <2>3 DEF Id, Start
<1>4. ASSUME NEW x, Over(x, p), Past(x, p), NEW i \in 1..Len(x), Start(x[i]) \/ Start(b)
      PROVE  Id(x[i]) # Id(b)
  <2>1. CASE Start(x[i])
    BY <2>1, <1>0, <1>3, <1>4 DEF Past
  <2>2. CASE Start(b)
    <3>1. ~Among(x, Id(b))
      BY <2>2, <1>0, <1>3, <1>4 DEF Over
    <3> QED BY <3>1 DEF Among
  <2> QED BY <2>1, <2>2, <1>4
<1>5. Over(s, r) /\ Over(d, r) /\ Past(s, r) /\ Past(d, r)
  BY <1>0, <1>2, OverDrop, PastDrop
<1>6. \A k \in 1..Len(r) : r[k][2] = 1 => r[k][1] # Id(b)
  BY <1>0, <1>3, OverHead
<1>7. Start(b) => \A k \in 1..Len(r) : r[k][1] # Id(b)
  <2>1. Start(b) => Whole(t, b)
    BY DEF Given
  <2> QED BY <2>1, PastHead
<1> HIDE DEF r
<1>8. Over(q, r)
  BY <1>1, <1>5, <1>6 DEF Over
<1>9. Past(q, r)
  BY <1>1, <1>5, <1>7 DEF Past
<1>10. Taken(t, tn, q)
  <2>1. \A i \in 1..Len(q) : Given(t, tn, q[i])
    BY <1>1, <1>2 DEF Taken
  <2>2. ASSUME NEW i \in 1..Len(q), NEW j \in 1..Len(q), Start(q[i]), Id(q[i]) = Id(q[j])
        PROVE  i = j
    <3>1. \A m \in 1..Len(s) : Start(s[m]) \/ Start(b) => Id(s[m]) # Id(b)
      BY <1>2, <1>4
    <3>2. CASE i \in 1..Len(s) /\ j \in 1..Len(s)
      BY <3>2, <2>2, <1>1, <1>2 DEF Taken
    <3>3. CASE i \in 1..Len(s) /\ j = Len(s) + 1
      BY <3>3, <3>1, <2>2, <1>1
    <3>4. CASE i = Len(s) + 1 /\ j \in 1..Len(s)
      BY <3>4, <3>1, <2>2, <1>1
    <3>5. CASE i = Len(s) + 1 /\ j = Len(s) + 1
      BY <3>5
    <3> QED BY <1>1, <3>2, <3>3, <3>4, <3>5
  <2> QED BY <2>1, <2>2 DEF Taken
<1>11. Apart(q, d)
  <2> SUFFICES ASSUME NEW i \in 1..Len(q), NEW j \in 1..Len(d), Start(q[i]) \/ Start(d[j])
               PROVE  Id(q[i]) # Id(d[j])
    BY DEF Apart
  <2>1. CASE i \in 1..Len(s)
    BY <2>1, <1>1, <1>2 DEF Apart
  <2>2. CASE i = Len(s) + 1
    BY <2>2, <1>1, <1>2, <1>4
  <2> QED BY <2>1, <2>2, <1>1
<1>12. ServedBy(t, tn, q, d, r)
  BY <1>2, <1>5, <1>8, <1>9, <1>10, <1>11 DEF ServedBy
<1> QED BY <1>q, <1>12 DEF r, Queued

(* A buffer of the queue is handled. *)
LEMMA ServedHandled ==
  ASSUME NEW t \in Seq(Kinds), NEW tn, NEW s \in Buffers, NEW d \in Buffers,
         NEW p \in Seq(Byte), ServedBy(t, tn, s, d, p), NEW i \in 1..Len(s),
         NEW r, r = RemoveAt(s, i), NEW q, Queued(d, s[i], q)
  PROVE  ServedBy(t, tn, r, q, p)
<1> DEFINE At(k) == IF k < i THEN k ELSE k + 1
<1>1. Len(s) \in Nat /\ s[i] \in Seq(Byte) /\ Len(d) \in Nat
  BY BufferSeq
<1>2. Len(r) = Len(s) - 1 /\ \A k \in 1..Len(r) : r[k] = s[At(k)]
  <2>1. s \in Seq(Seq(Byte))
    BY DEF Buffers
  <2> QED BY ONLY <2>1, i \in 1..Len(s), r = RemoveAt(s, i), RemovedFacts
<1>3. /\ Len(q) = Len(d) + 1
      /\ \A k \in 1..Len(d) : k \in 1..Len(q) /\ q[k] = d[k]
      /\ q[Len(d) + 1] = s[i]
      /\ \A k \in 1..Len(q) : k \in 1..Len(d) \/ k = Len(d) + 1
      /\ \A id : Among(q, id) <=> Among(d, id) \/ Id(s[i]) = id
  BY <1>1, QueuedFacts
<1>4. \A k \in 1..Len(r) : At(k) \in 1..Len(s) /\ At(k) # i
  BY <1>1, <1>2
<1>5. \A k, m \in 1..Len(r) : At(k) = At(m) => k = m
  BY <1>1, <1>2
<1> HIDE DEF At
<1>6. /\ \A k \in 1..Len(s) : Given(t, tn, s[k])
      /\ \A k, m \in 1..Len(s) : Start(s[k]) /\ Id(s[k]) = Id(s[m]) => k = m
      /\ \A k \in 1..Len(d) : Given(t, tn, d[k])
      /\ \A k, m \in 1..Len(d) : Start(d[k]) /\ Id(d[k]) = Id(d[m]) => k = m
      /\ \A k \in 1..Len(s), m \in 1..Len(d) : Start(s[k]) \/ Start(d[m]) => Id(s[k]) # Id(d[m])
      /\ Over(s, p) /\ Over(d, p) /\ Past(s, p) /\ Past(d, p)
  BY DEF ServedBy, Taken, Apart
<1>7. Taken(t, tn, r)
  BY <1>2, <1>4, <1>5, <1>6 DEF Taken
<1>8. Taken(t, tn, q)
  <2>1. \A k \in 1..Len(q) : Given(t, tn, q[k])
    BY <1>3, <1>6
  <2>2. ASSUME NEW k \in 1..Len(q), NEW m \in 1..Len(q), Start(q[k]), Id(q[k]) = Id(q[m])
        PROVE  k = m
    <3>1. \A j \in 1..Len(d) : Start(s[i]) \/ Start(d[j]) => Id(d[j]) # Id(s[i])
      BY <1>6
    <3>2. CASE k \in 1..Len(d) /\ m \in 1..Len(d)
      BY <3>2, <2>2, <1>3, <1>6
    <3>3. CASE k \in 1..Len(d) /\ m = Len(d) + 1
      BY <3>3, <3>1, <2>2, <1>3
    <3>4. CASE k = Len(d) + 1 /\ m \in 1..Len(d)
      BY <3>4, <3>1, <2>2, <1>3
    <3>5. CASE k = Len(d) + 1 /\ m = Len(d) + 1
      BY <3>5
    <3> QED BY <1>3, <3>2, <3>3, <3>4, <3>5
  <2> QED BY <2>1, <2>2 DEF Taken
<1>9. Apart(r, q)
  <2> SUFFICES ASSUME NEW k \in 1..Len(r), NEW m \in 1..Len(q), Start(r[k]) \/ Start(q[m])
               PROVE  Id(r[k]) # Id(q[m])
    BY DEF Apart
  <2>1. At(k) \in 1..Len(s) /\ At(k) # i /\ r[k] = s[At(k)]
    BY <1>2, <1>4
  <2>2. CASE m \in 1..Len(d)
    BY <2>1, <2>2, <1>3, <1>6
  <2>3. CASE m = Len(d) + 1
    <3>1. q[m] = s[i] /\ (Start(s[At(k)]) \/ Start(s[i]))
      BY <2>1, <2>3, <1>3
    <3>2. Id(s[At(k)]) # Id(s[i])
      BY <2>1, <3>1, <1>6
    <3> QED BY <2>1, <3>1, <3>2
  <2> QED BY <2>2, <2>3, <1>3
<1>10. \A id : Among(r, id) => Among(s, id)
  BY <1>2, <1>4 DEF Among
<1>11. Over(r, p) /\ Past(r, p)
  BY <1>2, <1>4, <1>6, <1>10 DEF Over, Past
<1>12. Over(q, p)
  <2>1. Among(s, Id(s[i]))
    BY DEF Among
  <2> QED BY <2>1, <1>3, <1>6 DEF Over
<1>13. Past(q, p)
  BY <1>3, <1>6 DEF Past
<1> QED BY <1>7, <1>8, <1>9, <1>11, <1>12, <1>13 DEF ServedBy

LEMMA RemovedBuffer ==
  ASSUME NEW s \in Buffers, NEW i \in 1..Len(s), NEW r, r = RemoveAt(s, i)
  PROVE  \A k \in 1..Len(r) : \E m \in 1..Len(s) : r[k] = s[m]
<1>1. s \in Seq(Seq(Byte))
  BY DEF Buffers
<1>2. Len(r) = Len(s) - 1 /\ \A k \in 1..Len(r) : r[k] = s[IF k < i THEN k ELSE k + 1]
  BY ONLY <1>1, i \in 1..Len(s), r = RemoveAt(s, i), RemovedFacts
<1>3. \A k \in 1..Len(r) : (IF k < i THEN k ELSE k + 1) \in 1..Len(s)
  BY <1>2, BufferSeq
<1> QED BY <1>2, <1>3

LEMMA BegunLeft ==
  ASSUME NEW s \in Buffers, NEW i \in 1..Len(s), NEW r, r = RemoveAt(s, i), NEW id, Begun(s, id)
  PROVE  Begun(r, id) \/ s[i][1] = <<id, 1>>
<1> SUFFICES ASSUME s[i][1] # <<id, 1>> PROVE Begun(r, id)
  OBVIOUS
<1>1. Len(s) \in Nat
  BY BufferSeq
<1>2. Len(r) = Len(s) - 1 /\ \A k \in 1..Len(r) : r[k] = s[IF k < i THEN k ELSE k + 1]
  <2>1. s \in Seq(Seq(Byte))
    BY DEF Buffers
  <2> QED BY ONLY <2>1, i \in 1..Len(s), r = RemoveAt(s, i), RemovedFacts
<1>3. PICK m \in 1..Len(s) : s[m][1] = <<id, 1>> /\ m # i
  BY DEF Begun
<1>4. CASE m < i
  <2>1. m \in 1..Len(r) /\ r[m] = s[m]
    BY <1>4, <1>1, <1>2
  <2> QED BY <2>1, <1>3 DEF Begun
<1>5. CASE m > i
  <2>1. m - 1 \in 1..Len(r) /\ ~(m - 1 < i) /\ (m - 1) + 1 = m
    BY <1>5, <1>1, <1>2
  <2>2. r[m - 1] = s[m]
    BY <2>1, <1>2
  <2> QED BY <2>1, <2>2, <1>3 DEF Begun
<1> QED BY <1>1, <1>3, <1>4, <1>5

----------------------------------------------------------------------------
(* What the actions do to the two streams.                                 *)

LEMMA StreamTypes == Types => Pipe \in Seq(Byte) /\ Answer \in Seq(Byte)
<1> SUFFICES ASSUME Types PROVE Pipe \in Seq(Byte) /\ Answer \in Seq(Byte)
  OBVIOUS
<1>1. /\ buf \in Seq(Byte) /\ rx \in Seq(Byte) /\ wire \in Seq(Byte)
      /\ cbuf \in Seq(Byte) /\ resp \in Seq(Byte)
  BY DEF Types
<1>2. buf \o rx \in Seq(Byte) /\ cbuf \o resp \in Seq(Byte)
  BY <1>1, JoinFacts
<1>3. (buf \o rx) \o wire \in Seq(Byte)
  BY <1>1, <1>2, JoinFacts
<1> QED BY <1>1, <1>2, <1>3 DEF Pipe, Answer

LEMMA EmptyFirst ==
  ASSUME NEW s \in Seq(Byte)
  PROVE  <<>> \o s = s /\ s \o <<>> = s
BY ConcatEmptySeq

(* A request is added to the stream whole. *)
LEMMA SendEffect ==
  ASSUME Types, NEW k \in Kinds, sendReq(k)
  PROVE  /\ sent' = Append(sent, k) /\ sent' \in Seq(Kinds) /\ Len(sent') = Len(sent) + 1
         /\ Len(sent) \in Nat /\ Len(sent') \in 1..Len(sent')
         /\ \A id \in 1..Len(sent) : id \in 1..Len(sent') /\ Tot(sent', id) = Tot(sent, id)
         /\ Tot(sent', Len(sent')) = H + k[2]
         /\ wire' \in Seq(Byte)
         /\ Pipe' = Pipe \o PktOf(sent', Len(sent')) /\ Answer' = Answer
<1>1. sent \in Seq(Kinds) /\ wire \in Seq(Byte) /\ rx \in Seq(Byte) /\ buf \in Seq(Byte)
  BY DEF Types
<1>2. sent' = Append(sent, k)
  BY DEF sendReq
<1>3. /\ sent' \in Seq(Kinds) /\ Len(sent') = Len(sent) + 1 /\ Len(sent) \in Nat
      /\ \A id \in 1..Len(sent) : id \in 1..Len(sent') /\ Tot(sent', id) = Tot(sent, id)
      /\ Len(sent') \in 1..Len(sent') /\ Tot(sent', Len(sent')) = H + k[2]
  BY <1>1, <1>2, GrownFacts
<1>4. PICK p : p = PktOf(sent', Len(sent'))
  OBVIOUS
<1>5. p \in Seq(Byte)
  BY <1>3, <1>4, PktFacts
<1>6. wire' = wire \o p
  BY <1>3, <1>4 DEF sendReq, PktOf
<1>7. wire' \in Seq(Byte)
  BY <1>1, <1>5, <1>6, JoinFacts
<1>8. buf \o rx \in Seq(Byte)
  BY <1>1, JoinFacts
<1>9. Pipe' = (buf \o rx) \o wire'
  BY DEF sendReq, Pipe
<1>10. (buf \o rx) \o (wire \o p) = ((buf \o rx) \o wire) \o p
  BY <1>1, <1>5, <1>8, Assoc
<1>11. Pipe' = Pipe \o p
  BY <1>6, <1>9, <1>10 DEF Pipe
<1>12. Answer' = Answer
  BY DEF sendReq, Answer
<1> QED BY <1>2, <1>3, <1>4, <1>7, <1>11, <1>12

LEMMA ArriveEffect ==
  ASSUME Types, NEW n, Arrive(n)
  PROVE  rx' \in Seq(Byte) /\ wire' \in Seq(Byte) /\ Pipe' = Pipe /\ Answer' = Answer
<1>1. wire \in Seq(Byte) /\ rx \in Seq(Byte) /\ buf \in Seq(Byte) /\ Len(wire) \in Nat
  BY LenProperties DEF Types
<1>2. n \in Nat /\ n <= Len(wire)
  BY <1>1 DEF Arrive
<1>3. rx' = rx \o SubSeq(wire, 1, n) /\ wire' = Drop(wire, n)
  BY DEF Arrive, Drop
<1>4. PICK x \in Seq(Byte) : x = SubSeq(wire, 1, n)
  BY <1>1, <1>2, FirstFacts
<1>5. rx' = rx \o x /\ rx' \in Seq(Byte) /\ wire' \in Seq(Byte)
  BY <1>1, <1>2, <1>3, <1>4, JoinFacts, DropFacts
<1>6. buf \o rx \in Seq(Byte)
  BY <1>1, JoinFacts
<1>7. buf \o rx' = (buf \o rx) \o x
  <2>1. (buf \o rx) \o x = buf \o (rx \o x)
    BY <1>1, Assoc
  <2> QED BY <2>1, <1>5
<1>8. ((buf \o rx) \o x) \o wire' = (buf \o rx) \o wire
  BY <1>1, <1>2, <1>3, <1>4, <1>6, MovedOver
<1>9. Pipe' = (buf \o rx') \o wire' /\ Answer' = Answer
  BY DEF Arrive, client, Pipe, Answer
<1> QED BY <1>5, <1>7, <1>8, <1>9 DEF Pipe

(* The buffer b after the read of onEpollIn, of which isFullPkt says m, what is
   left behind it, and what becomes of the two. *)
ReadInto(b, r, m) ==
  /\ b \in Seq(Byte) /\ r \in Seq(Byte) /\ Pipe = b \o r /\ Len(b) <= Cap
  /\ rx' \in Seq(Byte) /\ m \in isFullPkt(b)
  /\ hurt' = IF b # <<>> /\ Len(b) < H THEN hurt \cup {Id(b)} ELSE hurt
  /\ \/ /\ m < 0 \/ Len(b) = Cap
        /\ buf' = <<>> /\ tasks' = tasks /\ Pipe' = r /\ torn' = torn \cup Torn(b)
     \/ /\ m > 0 /\ Len(b) < Cap
        /\ buf' = b /\ tasks' = tasks /\ Pipe' = Pipe
        /\ torn' = torn \/ (b = <<>> /\ torn' = torn \cup Torn(b))
     \/ /\ m = 0 /\ Len(b) < Cap
        /\ buf' = <<>> /\ tasks' = Append(tasks, b) /\ Pipe' = r /\ torn' = torn \cup Torn(b)

LEMMA EpollEffect ==
  ASSUME Types, onEpollIn
  PROVE  Answer' = Answer /\ \E b, r, m : ReadInto(b, r, m)
<1>1. wire \in Seq(Byte) /\ rx \in Seq(Byte) /\ buf \in Seq(Byte) /\ Len(buf) < Cap
  BY DEF Types
<1>2. Len(rx) \in Nat /\ Len(buf) \in Nat /\ Cap \in Nat
  BY <1>1, LenProperties, Constants
<1>3. PICK n : n = Least(Len(rx), Cap - Len(buf))
  OBVIOUS
<1>4. n \in Nat /\ n <= Len(rx) /\ Len(buf) + n <= Cap
  BY <1>1, <1>2, <1>3 DEF Least
<1>5. PICK x \in Seq(Byte) : x = SubSeq(rx, 1, n) /\ Len(x) = n
  BY <1>1, <1>4, FirstFacts
<1>6. PICK b : b = buf \o x
  OBVIOUS
<1>7. b \in Seq(Byte) /\ Len(b) <= Cap
  BY <1>1, <1>4, <1>5, <1>6, JoinFacts
<1>8. rx' = Drop(rx, n) /\ wire' = wire
  BY <1>3 DEF onEpollIn, Drop
<1>9. rx' \in Seq(Byte)
  BY <1>1, <1>4, <1>8, DropFacts
<1>10. PICK r \in Seq(Byte) : r = rx' \o wire
  BY <1>1, <1>9, JoinFacts
<1>11. b \o rx' = buf \o rx
  BY <1>1, <1>4, <1>5, <1>6, <1>8, MovedOver
<1>12. Pipe = b \o r
  <2>0. PICK y \in Seq(Byte) : y = rx'
    BY <1>9
  <2>a. b \in Seq(Byte) /\ wire \in Seq(Byte)
    BY <1>1, <1>7
  <2>1. (b \o y) \o wire = b \o (y \o wire)
    BY <2>a, Assoc, SMTT(30)
  <2> QED BY <2>0, <2>1, <1>10, <1>11 DEF Pipe
<1>13. hurt' = IF b # <<>> /\ Len(b) < H THEN hurt \cup {Id(b)} ELSE hurt
  BY <1>3, <1>5, <1>6 DEF onEpollIn
<1>14. PICK m \in isFullPkt(b) :
         \/ (m < 0 \/ Len(b) = Cap) /\ discard(b)
         \/ m > 0 /\ Len(b) < Cap /\ buf' = b /\ UNCHANGED tasks
         \/ m = 0 /\ Len(b) < Cap /\ buf' = <<>> /\ tasks' = Append(tasks, b)
  BY <1>3, <1>5, <1>6, Zenon DEF onEpollIn
<1>14a. torn' = IF buf' = <<>> THEN torn \cup Torn(b) ELSE torn
  BY <1>3, <1>5, <1>6 DEF onEpollIn
<1>15. Pipe' = (buf' \o rx') \o wire
  BY <1>8 DEF Pipe
<1>16. buf' = <<>> => Pipe' = r
  BY <1>9, <1>10, <1>15, EmptyFirst
<1>17. buf' = b => Pipe' = Pipe
  BY <1>11, <1>15 DEF Pipe
<1>18. Answer' = Answer
  BY DEF onEpollIn, client, Answer
<1>19. CASE (m < 0 \/ Len(b) = Cap) /\ discard(b)
  <2>1. buf' = <<>> /\ tasks' = tasks
    BY <1>19 DEF discard
  <2>2. ReadInto(b, r, m)
    BY <2>1, <1>7, <1>9, <1>10, <1>12, <1>13, <1>14a, <1>16, <1>19 DEF ReadInto
  <2> QED BY <2>2, <1>18
<1>20. CASE m > 0 /\ Len(b) < Cap /\ buf' = b /\ UNCHANGED tasks
  <2>1. torn' = torn \/ (b = <<>> /\ torn' = torn \cup Torn(b))
    BY <1>14a, <1>20
  <2>2. ReadInto(b, r, m)
    BY <2>1, <1>7, <1>9, <1>10, <1>12, <1>13, <1>17, <1>20 DEF ReadInto
  <2> QED BY <2>2, <1>18
<1>21. CASE m = 0 /\ Len(b) < Cap /\ buf' = <<>> /\ tasks' = Append(tasks, b)
  <2>2. ReadInto(b, r, m)
    BY <1>7, <1>9, <1>10, <1>12, <1>13, <1>14a, <1>16, <1>21 DEF ReadInto
  <2> QED BY <2>2, <1>18
<1> QED BY <1>14, <1>19, <1>20, <1>21

LEMMA ReclaimEffect ==
  ASSUME Types, Reclaim
  PROVE  /\ Answer' = Answer
         /\ \E r \in Seq(Byte) : Pipe = buf \o r /\ Pipe' = r
<1>1. wire \in Seq(Byte) /\ rx \in Seq(Byte) /\ buf \in Seq(Byte)
  BY DEF Types
<1>2. PICK r \in Seq(Byte) : r = rx \o wire
  BY <1>1, JoinFacts
<1>3. Pipe = buf \o r
  BY <1>1, <1>2, Assoc DEF Pipe
<1>4. Pipe' = (<<>> \o rx) \o wire
  BY DEF Reclaim, Pipe
<1>5. Pipe' = r
  BY <1>1, <1>2, <1>4, EmptyFirst
<1>6. Answer' = Answer
  BY DEF Reclaim, client, Answer
<1> QED BY <1>3, <1>5, <1>6

(* What a worker writes goes to the end of the stream back. *)
LEMMA WriteEffect ==
  ASSUME Types, NEW j, NEW n, write(j, n)
  PROVE  /\ j \in 1..Len(out) /\ n \in 1..Len(out[j].pkt) /\ out[j].pkt \in Seq(Byte)
         /\ Pipe' = Pipe /\ resp' \in Seq(Byte)
         /\ Answer' = Answer \o SubSeq(out[j].pkt, 1, n)
         /\ out' \in Seq(Writing) /\ Len(out') <= Len(out)
         /\ \A k \in 1..Len(out') : \E m \in 1..Len(out) : out'[k].pkt = out[m].pkt
<1>1. resp \in Seq(Byte) /\ cbuf \in Seq(Byte) /\ out \in Seq(Writing) /\ Len(out) \in Nat
  BY LenProperties DEF Types
<1>2. j \in 1..Len(out)
  BY DEF write
<1>3. out[j] \in Writing
  BY <1>1, <1>2, ElementOfSeq
<1>4. out[j].pkt \in Seq(Byte) /\ out[j].off \in Nat
  BY <1>3 DEF Writing
<1>5. Len(out[j].pkt) \in Nat
  BY <1>4, LenProperties
<1>6. n \in 1..(Len(out[j].pkt) - out[j].off) /\ n \in 1..Len(out[j].pkt) /\ n \in Nat
      /\ n <= Len(out[j].pkt)
  BY <1>4, <1>5 DEF write
<1>7. Pipe' = Pipe
  BY DEF write, client, Pipe
<1>8. PICK x \in Seq(Byte) : x = SubSeq(out[j].pkt, 1, n)
  BY <1>4, <1>6, FirstFacts
<1>9. resp' = resp \o x /\ cbuf' = cbuf /\ pc' = pc
  BY <1>8 DEF write, client
<1>10. resp' \in Seq(Byte)
  BY <1>1, <1>9, JoinFacts
<1>11. (cbuf \o resp) \o x = cbuf \o (resp \o x)
  BY <1>1, Assoc
<1>12. Answer' = Answer \o x
  BY <1>9, <1>11 DEF Answer
<1>13. /\ out' \in Seq(Writing) /\ Len(out') <= Len(out)
       /\ \A k \in 1..Len(out') : \E m \in 1..Len(out) : out'[k].pkt = out[m].pkt
  <2>1. CASE out[j].off + n = Len(out[j].pkt)
    <3>1. out' = RemoveAt(out, j)
      BY <2>1 DEF write
    <3>2. PICK o : o = RemoveAt(out, j)
      OBVIOUS
    <3>3. /\ o \in Seq(Writing) /\ Len(o) = Len(out) - 1
          /\ \A k \in 1..Len(o) : \E m \in 1..Len(out) : o[k] = out[m]
      BY <3>2, <1>1, <1>2, RemovedFrom
    <3>4. \A k \in 1..Len(o) : \E m \in 1..Len(out) : o[k].pkt = out[m].pkt
      BY <3>3, Zenon
    <3>5. out' = o /\ Len(o) <= Len(out)
      BY <3>1, <3>2, <3>3, <1>1
    <3> QED BY <3>3, <3>4, <3>5
  <2>2. CASE out[j].off + n # Len(out[j].pkt)
    <3>1. out' = [out EXCEPT ![j].off = @ + n]
      BY <2>2 DEF write
    <3>2. PICK o : o = [out[j] EXCEPT !.off = @ + n]
      OBVIOUS
    <3>3. o \in Writing /\ o.pkt = out[j].pkt
      BY <3>2, <1>3, <1>4, <1>6 DEF Writing
    <3>4. out' = [out EXCEPT ![j] = o]
      BY <3>1, <3>2
    <3>5. /\ out' \in Seq(Writing) /\ Len(out') = Len(out)
          /\ \A k \in 1..Len(out) : out'[k] = IF k = j THEN o ELSE out[k]
      BY <3>3, <3>4, <1>1, <1>2, ExceptSeq
    <3>6. \A k \in 1..Len(out') : out'[k].pkt = out[k].pkt
      BY <3>3, <3>5
    <3> QED BY <3>5, <3>6, <1>1
  <2> QED BY <2>1, <2>2
<1> QED BY <1>2, <1>4, <1>6, <1>7, <1>8, <1>10, <1>12, <1>13

(* One recv of the client, of the buffer it makes, of which isFullPkt says m, and
   what is left. *)
ReadBack(b, r, m) ==
  /\ b \in Seq(Byte) /\ r \in Seq(Byte) /\ Answer = b \o r /\ b # <<>>
  /\ resp' = r /\ Len(b) <= Cap /\ m \in isFullPkt(b)
  /\ \/ /\ m > 0 /\ m + Len(b) <= Cap
        /\ cbuf' = b /\ want' = m /\ pc' = pc /\ res' = res /\ skew' = skew /\ Answer' = Answer
     \/ /\ m = 0 /\ TRUE \in accepted(b)
        /\ res' = IF skew THEN res ELSE [req |-> Len(sent), got |-> b]
        /\ pc' = "idle" /\ cbuf' = <<>> /\ skew' = skew /\ Answer' = r
     \/ pc' = "idle" /\ cbuf' = <<>> /\ skew' = TRUE /\ res' = res /\ Answer' = r

LEMMA RecvEffect ==
  ASSUME Types, NEW n, recvPkt(n)
  PROVE  Pipe' = Pipe /\ \E b, r, m : ReadBack(b, r, m)
<1>1. /\ resp \in Seq(Byte) /\ cbuf \in Seq(Byte) /\ pc = "recv"
      /\ want \in Nat /\ want + Len(cbuf) <= Cap
  BY DEF Types, recvPkt
<1>2. Len(resp) \in Nat /\ Len(cbuf) \in Nat /\ Cap \in Nat
  BY <1>1, LenProperties, Constants
<1>3. n \in Nat /\ n >= 1 /\ n <= Len(resp) /\ n + Len(cbuf) <= Cap
  <2>1. n \in 1..Least(Len(resp), want)
    BY DEF recvPkt
  <2>2. Least(Len(resp), want) <= Len(resp) /\ Least(Len(resp), want) <= want
        /\ Least(Len(resp), want) \in Nat
    BY <1>1, <1>2 DEF Least
  <2> QED BY <1>1, <1>2, <2>1, <2>2
<1>4. PICK x \in Seq(Byte) : x = SubSeq(resp, 1, n) /\ Len(x) = n
  BY <1>1, <1>3, FirstFacts
<1>5. PICK b : b = cbuf \o x
  OBVIOUS
<1>6. b \in Seq(Byte) /\ Len(b) = Len(cbuf) + n
  BY <1>1, <1>4, <1>5, JoinFacts
<1>7. b # <<>> /\ Len(b) <= Cap
  BY <1>2, <1>3, <1>6, NoBytes
<1>8. PICK r \in Seq(Byte) : r = Drop(resp, n)
  BY <1>1, <1>3, DropFacts
<1>9. b \o r = cbuf \o resp
  BY <1>1, <1>3, <1>4, <1>5, <1>8, MovedOver
<1>10. resp' = r
  BY <1>8 DEF recvPkt, Drop
<1>11. PICK m \in isFullPkt(b) :
         \/ /\ m > 0 /\ m + Len(b) <= Cap
            /\ cbuf' = b /\ want' = m /\ UNCHANGED <<pc, res, skew>>
         \/ /\ m = 0 /\ TRUE \in accepted(b)
            /\ res' = IF skew THEN res ELSE [req |-> Len(sent), got |-> b]
            /\ pc' = "idle" /\ cbuf' = <<>> /\ UNCHANGED <<want, skew>>
         \/ /\ skew' = TRUE
            /\ pc' = "idle" /\ cbuf' = <<>> /\ UNCHANGED <<want, res>>
  BY <1>4, <1>5, Zenon DEF recvPkt
<1>12. Answer = b \o r
  BY <1>1, <1>9 DEF Answer
<1>13. pc' = "idle" => Answer' = r
  BY <1>10 DEF Answer
<1>13a. pc' = "recv" /\ cbuf' = b => Answer' = Answer
  BY <1>10, <1>12 DEF Answer
<1>14. Pipe' = Pipe
  BY DEF recvPkt, Pipe
<1>15. CASE /\ m > 0 /\ m + Len(b) <= Cap
            /\ cbuf' = b /\ want' = m /\ UNCHANGED <<pc, res, skew>>
  <2>1. Answer' = Answer
    BY <1>1, <1>15, <1>13a
  <2>2. ReadBack(b, r, m)
    BY <2>1, <1>6, <1>7, <1>8, <1>10, <1>12, <1>15 DEF ReadBack
  <2> QED BY <2>2, <1>14
<1>16. CASE /\ m = 0 /\ TRUE \in accepted(b)
            /\ res' = IF skew THEN res ELSE [req |-> Len(sent), got |-> b]
            /\ pc' = "idle" /\ cbuf' = <<>> /\ UNCHANGED <<want, skew>>
  <2>2. ReadBack(b, r, m)
    BY <1>6, <1>7, <1>8, <1>10, <1>12, <1>13, <1>16 DEF ReadBack
  <2> QED BY <2>2, <1>14
<1>17. CASE /\ skew' = TRUE
            /\ pc' = "idle" /\ cbuf' = <<>> /\ UNCHANGED <<want, res>>
  <2>2. ReadBack(b, r, m)
    BY <1>6, <1>7, <1>8, <1>10, <1>12, <1>13, <1>17 DEF ReadBack
  <2> QED BY <2>2, <1>14
<1> QED BY <1>11, <1>15, <1>16, <1>17

----------------------------------------------------------------------------
(* Every step keeps the invariant: first, a request is sent.               *)

LEMMA TypeFacts ==
  ASSUME Types
  PROVE  /\ sent \in Seq(Kinds) /\ Len(sent) \in Nat
         /\ Pipe \in Seq(Byte) /\ Answer \in Seq(Byte)
         /\ Len(Pipe) \in Nat /\ Len(Answer) \in Nat
         /\ tasks \in Buffers /\ handled \in Buffers
         /\ alone \subseteq 1..Len(sent) /\ hurt \subseteq 1..Len(sent)
         /\ torn \subseteq 1..Len(sent)
<1>1. Pipe \in Seq(Byte) /\ Answer \in Seq(Byte)
  BY StreamTypes
<1>2. Len(Pipe) \in Nat /\ Len(Answer) \in Nat
  BY <1>1, LenProperties
<1>3. sent \in Seq(Kinds) /\ Len(sent) \in Nat
  BY LenProperties DEF Types
<1> QED BY <1>1, <1>2, <1>3 DEF Types, Buffers

LEMMA QuietFacts ==
  ASSUME Types, Quiet, pc = "idle"
  PROVE  Pipe = <<>> /\ Answer = <<>> /\ tasks = <<>> /\ out = <<>>
<1>1. Pipe = (<<>> \o <<>>) \o <<>> /\ Answer = <<>> /\ tasks = <<>> /\ out = <<>>
  BY DEF Quiet, Pipe, Answer
<1>2. <<>> \in Seq(Byte)
  BY NoBytes
<1>3. <<>> \o <<>> = <<>>
  BY <1>2, EmptyFirst
<1> QED BY <1>1, <1>3

LEMMA EmptyStream ==
  ASSUME NEW t, NEW s, s = <<>>
  PROVE  Framed(t, s) /\ Linked(s) /\ Began(s)
<1>1. Len(s) = 0 /\ 1..0 = {}
  BY NoBytes
<1> QED BY <1>1 DEF Framed, Linked, Began

LEMMA PktGrown ==
  ASSUME NEW t, NEW u, NEW id, Tot(u, id) = Tot(t, id)
  PROVE  PktOf(u, id) = PktOf(t, id)
BY DEF PktOf

LEMMA MadeGrown ==
  ASSUME NEW t \in Seq(Kinds), NEW k \in Kinds, NEW d, NEW o, Made(t, d, o)
  PROVE  Made(Append(t, k), d, o)
<1>1. PICK id \in 1..Len(t) : o.pkt = PktOf(t, id) /\ Among(d, id)
  BY DEF Made
<1>2. id \in 1..Len(Append(t, k)) /\ Tot(Append(t, k), id) = Tot(t, id)
  BY GrownFacts, ZenonT(60)
<1>3. PktOf(Append(t, k), id) = PktOf(t, id)
  BY <1>2, PktGrown
<1> QED BY <1>1, <1>2, <1>3 DEF Made

LEMMA SendStreams ==
  ASSUME IInv, NEW k \in Kinds, sendReq(k)
  PROVE  InStream' /\ Served' /\ OutStream'
<1>1. /\ sent \in Seq(Kinds) /\ Pipe \in Seq(Byte) /\ Answer \in Seq(Byte)
      /\ tasks \in Buffers /\ handled \in Buffers
  BY TypeFacts DEF IInv
<1>2. /\ sent' = Append(sent, k) /\ sent' \in Seq(Kinds) /\ Len(sent') = Len(sent) + 1
      /\ Len(sent) \in Nat /\ Len(sent') \in 1..Len(sent')
      /\ Pipe' = Pipe \o PktOf(sent', Len(sent')) /\ Answer' = Answer
  BY SendEffect DEF IInv
<1>3. /\ tasks' = tasks /\ handled' = handled /\ torn' = torn /\ out' = out /\ pc = "idle"
      /\ skew' = (skew /\ ~Quiet)
  BY DEF sendReq
<1>4. /\ Framed(sent, Pipe) /\ Linked(Pipe) /\ Rising(Pipe) /\ Headed(torn, Pipe)
      /\ ServedBy(sent, torn, tasks, handled, Pipe)
  BY DEF IInv, InStream, Served
<1>4a. /\ \A i \in 1..Len(Answer) : Among(handled, Answer[i][1])
       /\ \A j \in 1..Len(out) : Made(sent, handled, out[j])
       /\ ~skew => Framed(sent, Answer) /\ Linked(Answer) /\ Began(Answer)
  BY DEF IInv, OutStream
<1>5. Framed(sent', Pipe)
  BY <1>1, <1>2, <1>4, FramedGrown
<1>6. PICK u \in Seq(Kinds) : u = sent'
  BY <1>2
<1>7. PICK id \in 1..Len(u) : id = Len(u)
  BY <1>2, <1>6
<1>8. \A i \in 1..Len(Pipe) : Pipe[i][1] < id
  <2>1. \A i \in 1..Len(Pipe) : Pipe[i][1] \in 1..Len(sent)
    BY <1>4 DEF Framed
  <2> QED BY <2>1, <1>2, <1>6, <1>7
<1>9. Framed(u, Pipe \o PktOf(u, id))
  BY <1>1, <1>5, <1>6, FramedJoin
<1>10. Rising(Pipe \o PktOf(u, id))
  BY <1>1, <1>4, <1>8, RisingJoin
<1>10a. Linked(Pipe \o PktOf(u, id))
  BY <1>1, <1>4, LinkedJoin
<1>10b. Headed(torn, Pipe \o PktOf(u, id))
  BY <1>1, <1>4, HeadedJoin
<1>11. Pipe' = Pipe \o PktOf(u, id)
  BY <1>2, <1>6, <1>7
<1>12. InStream'
  BY <1>3, <1>6, <1>9, <1>10, <1>10a, <1>10b, <1>11 DEF InStream
<1>13. Taken(u, torn, tasks) /\ Taken(u, torn, handled)
  <2>1. Taken(sent, torn, tasks) /\ Taken(sent, torn, handled)
    BY <1>4 DEF ServedBy
  <2> QED BY <2>1, <1>1, <1>2, <1>6, TakenGrown
<1>14. ServedBy(u, torn, tasks, handled, Pipe \o PktOf(u, Len(u)))
  <2>1. Len(u) = Len(sent) + 1
    BY <1>2, <1>6
  <2> QED BY <2>1, <1>1, <1>4, <1>13, ServedGrown
<1>15. Served'
  BY <1>3, <1>6, <1>7, <1>11, <1>14 DEF Served
<1>16. \A j \in 1..Len(out') : Made(sent', handled', out'[j])
  BY <1>1, <1>2, <1>3, <1>4a, MadeGrown
<1>17. ~skew' => Framed(sent', Answer) /\ Linked(Answer) /\ Began(Answer)
  <2>1. CASE ~skew
    BY <2>1, <1>1, <1>2, <1>4a, FramedGrown
  <2>2. CASE Quiet
    <3>1. Answer = <<>>
      BY <2>2, <1>3, QuietFacts DEF IInv
    <3> QED BY <3>1, EmptyStream
  <2> QED BY <2>1, <2>2, <1>3
<1>18. OutStream'
  BY <1>2, <1>3, <1>4a, <1>16, <1>17 DEF OutStream
<1> QED BY <1>12, <1>15, <1>18

LEMMA SendStep ==
  ASSUME IInv, NEW k \in Kinds, sendReq(k)
  PROVE  IInv'
<1>1. /\ sent \in Seq(Kinds) /\ Pipe \in Seq(Byte) /\ Answer \in Seq(Byte)
      /\ tasks \in Buffers /\ handled \in Buffers
      /\ alone \subseteq 1..Len(sent) /\ hurt \subseteq 1..Len(sent) /\ torn \subseteq 1..Len(sent)
  BY TypeFacts DEF IInv
<1>2. /\ sent' \in Seq(Kinds) /\ Len(sent') = Len(sent) + 1
      /\ Len(sent) \in Nat /\ Len(sent') \in 1..Len(sent')
      /\ \A id \in 1..Len(sent) : id \in 1..Len(sent') /\ Tot(sent', id) = Tot(sent, id)
      /\ Tot(sent', Len(sent')) = H + k[2]
      /\ wire' \in Seq(Byte)
      /\ Pipe' = Pipe \o PktOf(sent', Len(sent')) /\ Answer' = Answer
  BY SendEffect DEF IInv
<1>3. /\ pc = "idle" /\ pc' = "idle" /\ Len(sent) + 1 <= MaxReq
      /\ alone' = IF Quiet THEN alone \cup {Len(sent')} ELSE alone \ {Len(sent)}
      /\ hurt' = IF H + k[2] >= Cap THEN hurt \cup {Len(sent')} ELSE hurt
      /\ tasks' = tasks /\ handled' = handled /\ res' = res /\ out' = out /\ torn' = torn
      /\ cbuf' = cbuf /\ rx' = rx /\ armed' = armed /\ buf' = buf /\ resp' = resp
      /\ want' = want /\ skew' = (skew /\ ~Quiet)
  BY <1>2 DEF sendReq
<1>4. Types'
  <2>1. /\ alone' \subseteq 1..Len(sent') /\ hurt' \subseteq 1..Len(sent')
        /\ torn' \subseteq 1..Len(sent') /\ Len(sent') <= MaxReq
    BY <1>1, <1>2, <1>3, Constants
  <2> QED BY <1>2, <1>3, <2>1 DEF IInv, Types
<1>5. \A id \in 1..Len(sent) : id # Len(sent') /\ (id \in alone' => id \in alone)
                               /\ (id \notin hurt' => id \notin hurt)
  BY <1>2, <1>3
<1>6. Len(sent') \in alone' => Pipe = <<>> /\ Answer = <<>> /\ tasks = <<>> /\ out = <<>>
  <2>1. Len(sent') \in alone' => Quiet
    BY <1>1, <1>2, <1>3
  <2> QED BY <2>1, <1>3, QuietFacts DEF IInv
<1>7. Quiet => Pipe = <<>> /\ tasks = <<>>
  BY <1>3, QuietFacts DEF IInv
<1>8. PktOf(sent', Len(sent')) \in Seq(Byte)
      /\ Len(PktOf(sent', Len(sent'))) = Tot(sent', Len(sent'))
      /\ \A i \in 1..Tot(sent', Len(sent')) : PktOf(sent', Len(sent'))[i][1] = Len(sent')
  BY <1>2, PktFacts
<1>9. Pipe = <<>> => Pipe' = PktOf(sent', Len(sent'))
  BY <1>2, <1>8, EmptyFirst
<1>10. OnlyOne'
  <2> SUFFICES ASSUME Len(sent') \in alone'
               PROVE  /\ OnlyOf(Pipe', Len(sent')) /\ OnlyOf(Answer', Len(sent'))
                      /\ \A i \in 1..Len(tasks') : Id(tasks'[i]) = Len(sent')
                      /\ \A j \in 1..Len(out') : out'[j].pkt = PktOf(sent', Len(sent'))
    BY DEF OnlyOne
  <2>1. Len(<<>>) = 0 /\ 1..0 = {}
    BY NoBytes
  <2>2. OnlyOf(Pipe', Len(sent'))
    BY <1>6, <1>8, <1>9 DEF OnlyOf
  <2>3. OnlyOf(Answer', Len(sent'))
    BY <1>2, <1>6, <2>1 DEF OnlyOf
  <2> QED BY <1>3, <1>6, <2>1, <2>2, <2>3
<1>11. Accepted'
  <2>1. /\ res.req \in 0..Len(sent)
        /\ res.req > 0 => /\ Id(res.got) \in 1..Len(sent)
                          /\ res.got = PktOf(sent, Id(res.got))
                          /\ res.req \in alone => Id(res.got) = res.req
                          /\ Among(handled, Id(res.got))
    BY DEF IInv, Accepted
  <2>2. res.req \in 0..Len(sent') /\ (res.req > 0 => res.req \in 1..Len(sent))
    BY <2>1, <1>2
  <2>3. res.req > 0 => /\ Id(res.got) \in 1..Len(sent')
                       /\ res.got = PktOf(sent', Id(res.got))
    BY <2>1, <1>2, PktGrown
  <2>4. res.req > 0 /\ res.req \in alone' => Id(res.got) = res.req
    BY <2>1, <2>2, <1>5
  <2> QED BY <2>1, <2>2, <2>3, <2>4, <1>3 DEF Accepted
<1>12. OnItsWay'
  <2>1. /\ \A id \in 1..Len(sent) : id \notin hurt => Tot(sent, id) < Cap
        /\ \A id \in alone \ hurt :
             \/ Begun(handled, id)
             \/ id = Len(sent) /\ (Pipe = PktOf(sent, id) \/ Begun(tasks, id))
    BY DEF IInv, OnItsWay
  <2>2. ASSUME NEW id \in 1..Len(sent'), id \notin hurt' PROVE Tot(sent', id) < Cap
    <3>1. CASE id \in 1..Len(sent)
      BY <3>1, <2>1, <2>2, <1>2, <1>5
    <3>2. CASE id = Len(sent')
      <4>1. Tot(sent', Len(sent')) \in Nat
        BY <1>2, TotFacts
      <4>2. ~(H + k[2] >= Cap)
        BY <3>2, <2>2, <1>3
      <4> QED BY <3>2, <4>1, <4>2, <1>2, Constants
    <3> QED BY <3>1, <3>2, <1>2
  <2>3. ASSUME NEW id \in alone' \ hurt'
        PROVE  \/ Begun(handled, id)
               \/ id = Len(sent') /\ (Pipe' = PktOf(sent', id) \/ Begun(tasks, id))
    <3>0. id \in 1..Len(sent')
      BY <1>4 DEF Types
    <3>1. CASE id \in 1..Len(sent)
      <4>1. id \in alone \ hurt
        BY <3>1, <1>5, <2>3
      <4>2. CASE Quiet
        <5>1. Len(<<>>) = 0 /\ 1..0 = {} /\ Pipe = <<>> /\ tasks = <<>>
          BY <4>2, <1>7, NoBytes
        <5>2. ~Begun(tasks, id)
          BY <5>1 DEF Begun
        <5>3. Len(PktOf(sent, id)) = Tot(sent, id) /\ Tot(sent, id) >= 1
          BY <3>1, <1>1, PktFacts, TotFacts
        <5> QED BY <4>1, <5>1, <5>2, <5>3, <2>1
      <4>3. CASE ~Quiet
        <5>1. id # Len(sent)
          BY <4>3, <1>3, <2>3
        <5> QED BY <4>1, <5>1, <2>1
      <4> QED BY <4>2, <4>3
    <3>2. CASE id = Len(sent')
      BY <3>2, <2>3, <1>6, <1>9
    <3> QED BY <3>0, <3>1, <3>2, <1>2
  <2> QED BY <2>2, <2>3, <1>3 DEF OnItsWay
<1> QED BY <1>4, <1>10, <1>11, <1>12, SendStreams DEF IInv

----------------------------------------------------------------------------
(* The server's steps.                                                     *)

LEMMA ArriveStep ==
  ASSUME IInv, NEW n, Arrive(n)
  PROVE  IInv'
<1>1. rx' \in Seq(Byte) /\ wire' \in Seq(Byte) /\ Pipe' = Pipe /\ Answer' = Answer
  BY ArriveEffect DEF IInv
<1>2. /\ sent' = sent /\ pc' = pc /\ cbuf' = cbuf /\ want' = want /\ res' = res /\ armed' = TRUE
      /\ buf' = buf /\ tasks' = tasks /\ out' = out /\ resp' = resp /\ handled' = handled
      /\ alone' = alone /\ hurt' = hurt /\ torn' = torn /\ skew' = skew
  BY DEF Arrive, client, history
<1>3. Types'
  BY <1>1, <1>2 DEF IInv, Types
<1>4. InStream' /\ Served' /\ OutStream' /\ OnlyOne' /\ Accepted' /\ OnItsWay'
  BY <1>1, <1>2 DEF IInv, InStream, Served, OutStream, OnlyOne, Accepted, OnItsWay
<1> QED BY <1>3, <1>4 DEF IInv

(* The head of the stream to the server. *)
LEMMA HeadSent ==
  ASSUME IInv, NEW b \in Seq(Byte), NEW r \in Seq(Byte), Pipe = b \o r
  PROVE  /\ Len(b) \in Nat /\ Len(b) <= Len(Pipe) /\ r = Drop(Pipe, Len(b))
         /\ \A i \in 1..Len(b) : b[i] = Pipe[i]
         /\ b # <<>> => Id(b) \in 1..Len(sent) /\ b[1] = Pipe[1] /\ Len(b) >= 1
                        /\ Id(b) = Pipe[1][1]
<1>1. /\ Len(b) \in Nat /\ Len(b) <= Len(Pipe) /\ r = Drop(Pipe, Len(b))
      /\ \A i \in 1..Len(b) : b[i] = Pipe[i]
  BY HeadFacts, ZenonT(60)
<1>2. ASSUME b # <<>>
      PROVE  Id(b) \in 1..Len(sent) /\ b[1] = Pipe[1] /\ Len(b) >= 1 /\ Id(b) = Pipe[1][1]
  <2>1. Len(b) >= 1 /\ 1 \in 1..Len(b)
    BY <1>2, ByteFacts
  <2>2. Len(Pipe) \in Nat
    BY TypeFacts DEF IInv
  <2>3. b[1] = Pipe[1] /\ 1 \in 1..Len(Pipe)
    BY <1>1, <2>1, <2>2
  <2> QED BY <2>1, <2>3 DEF IInv, InStream, Framed, Id
<1> QED BY <1>1, <1>2

(* What isFullPkt passes is a packet, whole, or begins with the rest of one. *)
LEMMA HeadGiven ==
  ASSUME IInv, NEW b \in Seq(Byte), NEW r \in Seq(Byte), Pipe = b \o r, b # <<>>,
         0 \in isFullPkt(b)
  PROVE  Given(sent, torn, b)
<1>1. sent \in Seq(Kinds) /\ Pipe \in Seq(Byte)
  BY TypeFacts DEF IInv
<1>2. /\ Len(b) \in Nat /\ Len(b) <= Len(Pipe) /\ \A i \in 1..Len(b) : b[i] = Pipe[i]
      /\ Id(b) \in 1..Len(sent) /\ b[1] = Pipe[1] /\ Len(b) >= 1 /\ Id(b) = Pipe[1][1]
  BY HeadSent
<1>3. Framed(sent, Pipe) /\ Headed(torn, Pipe)
  BY DEF IInv, InStream
<1>4. ASSUME Start(b) PROVE Whole(sent, b)
  <2>1. Len(b) >= H
    BY <1>1, <1>2, FullFacts
  <2>2. Header(b)
    BY <2>1, <1>1, <1>2, <1>3, <1>4, HeaderFirst DEF Start
  <2>3. Len(b) >= Tot(sent, Id(b))
    BY <2>2, <1>1, <1>2, FullFacts
  <2> QED BY <2>3, <1>1, <1>2, <1>3, <1>4, WholeFirst DEF Start
<1>5. ASSUME ~Start(b) PROVE Id(b) \in torn
  <2>1. Len(Pipe) >= 1
    <3>1. Len(Pipe) \in Nat
      BY <1>1, LenProperties
    <3> QED BY <3>1, <1>2
  <2> QED BY <2>1, <1>2, <1>3, <1>5 DEF Start, Headed
<1> QED BY <1>2, <1>4, <1>5 DEF Given

LEMMA EpollStep ==
  ASSUME IInv, onEpollIn
  PROVE  IInv'
<1>1. /\ sent \in Seq(Kinds) /\ Pipe \in Seq(Byte) /\ Len(Pipe) \in Nat /\ Len(sent) \in Nat
      /\ tasks \in Buffers /\ handled \in Buffers
      /\ alone \subseteq 1..Len(sent) /\ hurt \subseteq 1..Len(sent) /\ torn \subseteq 1..Len(sent)
  BY TypeFacts DEF IInv
<1>2. /\ sent' = sent /\ pc' = pc /\ cbuf' = cbuf /\ want' = want /\ res' = res /\ armed' = FALSE
      /\ wire' = wire /\ out' = out /\ resp' = resp /\ handled' = handled /\ alone' = alone
      /\ skew' = skew
  BY DEF onEpollIn, client
<1>3. Answer' = Answer /\ \E b, r, m : ReadInto(b, r, m)
  BY EpollEffect DEF IInv
<1>4. PICK b, r, m : ReadInto(b, r, m)
  BY <1>3
<1>5. /\ b \in Seq(Byte) /\ r \in Seq(Byte) /\ Pipe = b \o r /\ Len(b) <= Cap /\ rx' \in Seq(Byte)
      /\ m \in isFullPkt(b)
  BY <1>4 DEF ReadInto
<1>6. /\ Len(b) \in Nat /\ Len(b) <= Len(Pipe) /\ r = Drop(Pipe, Len(b))
      /\ \A i \in 1..Len(b) : b[i] = Pipe[i]
      /\ b # <<>> => Id(b) \in 1..Len(sent) /\ b[1] = Pipe[1] /\ Len(b) >= 1
                     /\ Id(b) = Pipe[1][1]
  BY <1>5, HeadSent
<1>7. hurt' = IF b # <<>> /\ Len(b) < H THEN hurt \cup {Id(b)} ELSE hurt
  BY <1>4 DEF ReadInto
<1>8. \/ /\ m < 0 \/ Len(b) = Cap
         /\ buf' = <<>> /\ tasks' = tasks /\ Pipe' = r /\ torn' = torn \cup Torn(b)
      \/ /\ m > 0 /\ Len(b) < Cap
         /\ buf' = b /\ tasks' = tasks /\ Pipe' = Pipe
         /\ torn' = torn \/ (b = <<>> /\ torn' = torn \cup Torn(b))
      \/ /\ m = 0 /\ Len(b) < Cap
         /\ buf' = <<>> /\ tasks' = Append(tasks, b) /\ Pipe' = r /\ torn' = torn \cup Torn(b)
  BY <1>4 DEF ReadInto
<1>9. Torn(b) \subseteq 1..Len(sent) /\ (b = <<>> => Torn(b) = {})
  BY DEF Torn
<1>9a. (torn' = torn \/ torn' = torn \cup Torn(b)) /\ torn \subseteq torn'
  BY <1>8
<1>10. /\ m \in Int /\ (b = <<>> => m = Cap)
       /\ Header(b) => m >= 0
  BY <1>1, <1>5, <1>6, FullFacts
<1>11. H \in Nat /\ H > 0 /\ Cap \in Nat /\ Cap > H
  BY Constants
<1>12. m = 0 => b # <<>> /\ Given(sent, torn, b)
  <2>1. m = 0 => b # <<>>
    BY <1>10, <1>11
  <2>2. m = 0 => 0 \in isFullPkt(b)
    BY <1>5
  <2> QED BY <2>1, <2>2, <1>5, HeadGiven
<1>13. Queued(tasks, b, Append(tasks, b))
  BY DEF Queued
<1>14. /\ Append(tasks, b) \in Buffers
       /\ \A id : Begun(Append(tasks, b), id) <=> Begun(tasks, id) \/ b[1] = <<id, 1>>
       /\ \A i \in 1..Len(Append(tasks, b)) : i \in 1..Len(tasks) \/ i = Len(tasks) + 1
       /\ \A i \in 1..Len(tasks) : Append(tasks, b)[i] = tasks[i]
       /\ Append(tasks, b)[Len(tasks) + 1] = b
  BY <1>1, <1>5, <1>13, QueuedFacts
<1>15. Types'
  <2>a. buf' = <<>> \/ (buf' = b /\ Len(b) < Cap)
    BY <1>8
  <2>b. <<>> \in Seq(Byte) /\ Len(<<>>) < Cap
    BY <1>11, NoBytes
  <2>1. buf' \in Seq(Byte) /\ Len(buf') < Cap
    BY <1>5, <2>a, <2>b
  <2>2. tasks' \in Buffers
    BY <1>1, <1>8, <1>14
  <2>3. hurt' \subseteq 1..Len(sent)
    BY <1>1, <1>6, <1>7
  <2>4. torn' \subseteq 1..Len(sent)
    BY <1>1, <1>9, <1>9a
  <2> QED BY <1>2, <1>5, <2>1, <2>2, <2>3, <2>4 DEF IInv, Types, Buffers
<1>16. Framed(sent, Pipe) /\ Linked(Pipe) /\ Rising(Pipe) /\ Headed(torn, Pipe)
  BY DEF IInv, InStream
<1>16a. /\ Framed(sent, r) /\ Linked(r) /\ Rising(r)
        /\ Headed(torn \cup Torn(b), r)
  <2>1. Framed(sent, r)
    BY <1>1, <1>6, <1>16, FramedDrop
  <2>2. Linked(r) /\ Rising(r)
    BY <1>1, <1>6, <1>16, LinkedDrop, RisingDrop
  <2>3. Headed(torn \cup Torn(b), r)
    BY <1>1, <1>5, <1>6, <1>16, HeadedDrop
  <2> QED BY <2>1, <2>2, <2>3
<1>16b. Headed(torn', Pipe)
  BY <1>9a, <1>16 DEF Headed
<1>17. InStream'
  BY <1>2, <1>8, <1>16, <1>16a, <1>16b DEF InStream
<1>18. Served'
  <2>0. ServedBy(sent, torn, tasks, handled, Pipe)
    BY DEF IInv, Served
  <2>1. ServedBy(sent, torn, tasks, handled, r)
    BY <2>0, <1>1, <1>6, ServedDrop
  <2>2. m = 0 => ServedBy(sent, torn, Append(tasks, b), handled, r)
    <3> SUFFICES ASSUME m = 0 PROVE ServedBy(sent, torn, Append(tasks, b), handled, r)
      OBVIOUS
    <3>1. Given(sent, torn, b) /\ Len(b) >= 1
      BY <1>6, <1>12
    <3> QED BY <3>1, <2>0, <1>1, <1>5, <1>6, <1>16, ServedQueued
  <2>3. ServedBy(sent, torn', tasks, handled, Pipe) /\ ServedBy(sent, torn', tasks, handled, r)
    BY <2>0, <2>1, <1>9a, ServedTorn
  <2>4. m = 0 => ServedBy(sent, torn', Append(tasks, b), handled, r)
    BY <2>2, <1>9a, ServedTorn
  <2> QED BY <2>3, <2>4, <1>2, <1>8 DEF Served
<1>19. OutStream'
  BY <1>2, <1>3 DEF IInv, OutStream
<1>20. OnlyOne'
  <2> SUFFICES ASSUME Len(sent) \in alone
               PROVE  /\ OnlyOf(Pipe', Len(sent)) /\ OnlyOf(Answer', Len(sent))
                      /\ \A i \in 1..Len(tasks') : Id(tasks'[i]) = Len(sent)
                      /\ \A j \in 1..Len(out) : out[j].pkt = PktOf(sent, Len(sent))
    BY <1>2 DEF OnlyOne
  <2>1. /\ OnlyOf(Pipe, Len(sent)) /\ OnlyOf(Answer, Len(sent))
        /\ \A i \in 1..Len(tasks) : Id(tasks[i]) = Len(sent)
        /\ \A j \in 1..Len(out) : out[j].pkt = PktOf(sent, Len(sent))
    BY DEF IInv, OnlyOne
  <2>2. OnlyOf(r, Len(sent))
    BY <2>1, <1>1, <1>6, OnlyDrop
  <2>3. m = 0 => Id(b) = Len(sent)
    <3>1. b # <<>> => 1 \in 1..Len(Pipe)
      BY <1>1, <1>6
    <3> QED BY <3>1, <2>1, <1>6, <1>12 DEF OnlyOf
  <2>4. m = 0 => \A i \in 1..Len(Append(tasks, b)) : Id(Append(tasks, b)[i]) = Len(sent)
    BY <2>1, <2>3, <1>14
  <2> QED BY <2>1, <2>2, <2>4, <1>3, <1>8
<1>21. Accepted'
  BY <1>2 DEF IInv, Accepted
<1>22. OnItsWay'
  <2>0. hurt \subseteq hurt'
    BY <1>7
  <2>1. /\ \A id \in 1..Len(sent) : id \notin hurt => Tot(sent, id) < Cap
        /\ \A id \in alone \ hurt :
             \/ Begun(handled, id)
             \/ id = Len(sent) /\ (Pipe = PktOf(sent, id) \/ Begun(tasks, id))
    BY DEF IInv, OnItsWay
  <2>2. \A id \in 1..Len(sent) : id \notin hurt' => Tot(sent, id) < Cap
    BY <2>0, <2>1
  <2>3. ASSUME NEW id \in alone \ hurt'
        PROVE  \/ Begun(handled, id)
               \/ id = Len(sent) /\ (Pipe' = PktOf(sent, id) \/ Begun(tasks', id))
    <3>1. id \in 1..Len(sent) /\ id \in alone \ hurt /\ Tot(sent, id) < Cap
      BY <1>1, <2>0, <2>2, <2>3
    <3>2. Begun(tasks, id) => Begun(tasks', id)
      BY <1>8, <1>14
    <3>3. ASSUME Pipe = PktOf(sent, id) PROVE Pipe' = PktOf(sent, id) \/ Begun(tasks', id)
      <4>1. /\ Len(Pipe) = Tot(sent, id) /\ Tot(sent, id) \in Nat
            /\ \A j \in 1..Tot(sent, id) : Pipe[j] = <<id, j>>
        <5>1. /\ Len(PktOf(sent, id)) = Tot(sent, id)
              /\ \A j \in 1..Tot(sent, id) : PktOf(sent, id)[j] = <<id, j>>
          BY <3>1, <1>1, PktFacts
        <5>2. Tot(sent, id) \in Nat
          BY <3>1, <1>1, TotFacts
        <5> QED BY <5>1, <5>2, <3>3
      <4>2. Len(b) < Cap
        BY <3>1, <4>1, <1>6, <1>11
      <4>3. CASE b = <<>>
        BY <4>2, <4>3, <3>3, <1>8, <1>10, <1>11
      <4>4. CASE b # <<>>
        <5>1. 1 \in 1..Tot(sent, id)
          BY <4>1, <4>4, <1>6
        <5>2. b[1] = <<id, 1>> /\ Id(b) = id /\ b[1][2] = 1
          <6>1. b[1] = <<id, 1>>
            BY <5>1, <4>1, <4>4, <1>6
          <6> QED BY <6>1 DEF Id
        <5>3. Len(b) >= H
          BY <5>2, <4>4, <1>6, <1>7, <1>11, <2>3
        <5>4. m >= 0
          <6>1. Header(b)
            BY <5>2, <5>3, <1>1, <1>5, <1>6, <1>16, HeaderFirst
          <6> QED BY <6>1, <1>10
        <5>5. (m > 0 /\ Pipe' = Pipe) \/ (m = 0 /\ tasks' = Append(tasks, b))
          <6>1. ~(m < 0 \/ Len(b) = Cap)
            BY <5>4, <4>2, <1>6, <1>10, <1>11
          <6> QED BY <6>1, <1>8
        <5>6. Begun(Append(tasks, b), id)
          BY <5>2, <1>14
        <5> QED BY <5>5, <5>6, <3>3
      <4> QED BY <4>3, <4>4
    <3> QED BY <3>1, <3>2, <3>3, <2>1
  <2> QED BY <2>2, <2>3, <1>2 DEF OnItsWay
<1> QED BY <1>15, <1>17, <1>18, <1>19, <1>20, <1>21, <1>22 DEF IInv

LEMMA ReclaimStep ==
  ASSUME IInv, Reclaim
  PROVE  IInv'
<1>1. /\ sent \in Seq(Kinds) /\ Pipe \in Seq(Byte) /\ Len(Pipe) \in Nat /\ Len(sent) \in Nat
      /\ alone \subseteq 1..Len(sent) /\ hurt \subseteq 1..Len(sent) /\ torn \subseteq 1..Len(sent)
  BY TypeFacts DEF IInv
<1>2. /\ sent' = sent /\ pc' = pc /\ cbuf' = cbuf /\ want' = want /\ res' = res /\ armed' = armed
      /\ wire' = wire /\ rx' = rx /\ out' = out /\ resp' = resp /\ handled' = handled
      /\ alone' = alone /\ tasks' = tasks /\ buf # <<>> /\ buf' = <<>> /\ skew' = skew
      /\ hurt' = hurt \cup {Id(buf)} /\ torn' = torn \cup Torn(buf)
  BY DEF Reclaim, client
<1>3. Answer' = Answer /\ \E r \in Seq(Byte) : Pipe = buf \o r /\ Pipe' = r
  BY ReclaimEffect DEF IInv
<1>4. PICK r \in Seq(Byte) : Pipe = buf \o r /\ Pipe' = r
  BY <1>3
<1>5. buf \in Seq(Byte)
  BY DEF IInv, Types
<1>6. /\ Len(buf) \in Nat /\ Len(buf) <= Len(Pipe) /\ r = Drop(Pipe, Len(buf))
      /\ \A i \in 1..Len(buf) : buf[i] = Pipe[i]
      /\ Id(buf) \in 1..Len(sent) /\ Len(buf) >= 1 /\ Id(buf) = Pipe[1][1]
  BY <1>2, <1>4, <1>5, HeadSent
<1>7. Types'
  <2>1. buf' \in Seq(Byte) /\ Len(buf') < Cap
    BY <1>2, Constants, NoBytes
  <2>2. hurt' \subseteq 1..Len(sent) /\ torn' \subseteq 1..Len(sent)
    BY <1>1, <1>2, <1>6 DEF Torn
  <2> QED BY <1>2, <2>1, <2>2 DEF IInv, Types
<1>8. Framed(sent, Pipe) /\ Linked(Pipe) /\ Rising(Pipe) /\ Headed(torn, Pipe)
  BY DEF IInv, InStream
<1>9. InStream'
  <2>1. Framed(sent, r)
    BY <1>1, <1>6, <1>8, FramedDrop
  <2>2. Linked(r) /\ Rising(r)
    BY <1>1, <1>6, <1>8, LinkedDrop, RisingDrop
  <2>3. Headed(torn \cup Torn(buf), r)
    BY <1>1, <1>5, <1>6, <1>8, HeadedDrop
  <2> QED BY <2>1, <2>2, <2>3, <1>2, <1>4 DEF InStream
<1>10. ServedBy(sent, torn, tasks, handled, r)
  BY <1>1, <1>6, ServedDrop DEF IInv, Served
<1>11. Served'
  <2>1. torn \subseteq torn'
    BY <1>2
  <2>2. ServedBy(sent, torn', tasks, handled, r)
    BY <2>1, <1>10, ServedTorn
  <2> QED BY <2>2, <1>2, <1>4 DEF Served
<1>12. OutStream' /\ Accepted'
  BY <1>2, <1>3 DEF IInv, OutStream, Accepted
<1>13. Len(sent) \in alone => OnlyOf(r, Len(sent))
  BY <1>1, <1>6, OnlyDrop DEF IInv, OnlyOne
<1>14. OnlyOne'
  BY <1>2, <1>3, <1>4, <1>13 DEF IInv, OnlyOne
<1>15. ASSUME NEW id \in alone \ hurt', Pipe = PktOf(sent, id) PROVE FALSE
  <2>1. id \in 1..Len(sent) /\ id # Id(buf)
    BY <1>1, <1>2, <1>15
  <2>2. /\ Len(Pipe) = Tot(sent, id) /\ \A j \in 1..Tot(sent, id) : Pipe[j][1] = id
    BY <2>1, <1>1, <1>15, PktFacts
  <2>3. 1 \in 1..Tot(sent, id)
    BY <2>2, <1>1, <1>6
  <2> QED BY <2>1, <2>2, <2>3, <1>6
<1>16. OnItsWay'
  <2>1. /\ \A id \in 1..Len(sent) : id \notin hurt => Tot(sent, id) < Cap
        /\ \A id \in alone \ hurt :
             \/ Begun(handled, id)
             \/ id = Len(sent) /\ (Pipe = PktOf(sent, id) \/ Begun(tasks, id))
    BY DEF IInv, OnItsWay
  <2>2. hurt \subseteq hurt'
    BY <1>2
  <2>3. \A id \in alone \ hurt' : Begun(handled, id) \/ (id = Len(sent) /\ Begun(tasks, id))
    BY <2>1, <2>2, <1>15
  <2> QED BY <2>1, <2>2, <2>3, <1>2 DEF OnItsWay
<1> QED BY <1>7, <1>9, <1>11, <1>12, <1>14, <1>16 DEF IInv

(* What a worker answers is nothing or the packet of a request sent. *)
LEMMA DoneFacts ==
  ASSUME NEW b, NEW a \in done(b)
  PROVE  a = <<>> \/ a = PktOf(sent, Id(b))
BY DEF done, Pkt, PktOf, Total, Tot

LEMMA HandleStep ==
  ASSUME IInv, NEW i, handle(i)
  PROVE  IInv'
<1>1. /\ sent \in Seq(Kinds) /\ Pipe \in Seq(Byte) /\ Answer \in Seq(Byte)
      /\ tasks \in Buffers /\ handled \in Buffers
      /\ Len(sent) \in Nat /\ out \in Seq(Writing) /\ Len(out) <= Workers
  BY TypeFacts DEF IInv, Types
<1>2. /\ sent' = sent /\ pc' = pc /\ cbuf' = cbuf /\ want' = want /\ res' = res /\ armed' = armed
      /\ wire' = wire /\ rx' = rx /\ buf' = buf /\ resp' = resp /\ alone' = alone /\ hurt' = hurt
      /\ torn' = torn /\ skew' = skew
      /\ tasks' = RemoveAt(tasks, i) /\ handled' = Append(handled, tasks[i])
  BY DEF handle, client
<1>3. Len(tasks) \in Nat /\ Len(out) \in Nat
  BY <1>1, LenProperties DEF Buffers
<1>4. i \in 1..Len(tasks) /\ Len(out) + 1 <= Workers
  BY <1>3, Constants DEF handle, Least
<1>5. PICK b \in Seq(Byte) : b = tasks[i]
  BY <1>1, <1>4, BufferSeq
<1>6. Id(b) \in 1..Len(sent)
  BY <1>4, <1>5 DEF IInv, Served, ServedBy, Taken, Given
<1>7. PICK a \in done(b) :
        out' = IF a = <<>> THEN out ELSE Append(out, [pkt |-> a, off |-> 0])
  BY <1>5 DEF handle
<1>8. a = <<>> \/ a = PktOf(sent, Id(b))
  BY DoneFacts
<1>9. Pipe' = Pipe /\ Answer' = Answer
  BY <1>2 DEF Pipe, Answer
<1>10. Queued(handled, tasks[i], handled')
  BY <1>2 DEF Queued
<1>11. /\ ServedBy(sent, torn, tasks', handled', Pipe)
       /\ \A k \in 1..Len(tasks') : \E m \in 1..Len(tasks) : tasks'[k] = tasks[m]
       /\ \A id : Begun(tasks, id) => Begun(tasks', id) \/ tasks[i][1] = <<id, 1>>
  <2>1. ServedBy(sent, torn, tasks, handled, Pipe)
    BY DEF IInv, Served
  <2>2. PICK r : r = tasks'
    OBVIOUS
  <2>3. PICK q : q = handled'
    OBVIOUS
  <2>4. r = RemoveAt(tasks, i) /\ Queued(handled, tasks[i], q)
    BY <2>2, <2>3, <1>2, <1>10
  <2>5. ServedBy(sent, torn, r, q, Pipe)
    BY ONLY <2>1, <2>4, <1>1, <1>4, ServedHandled
  <2>6. \A k \in 1..Len(r) : \E m \in 1..Len(tasks) : r[k] = tasks[m]
    BY ONLY <2>4, <1>1, <1>4, RemovedBuffer
  <2>7. \A id : Begun(tasks, id) => Begun(r, id) \/ tasks[i][1] = <<id, 1>>
    BY ONLY <2>4, <1>1, <1>4, BegunLeft
  <2> QED BY <2>2, <2>3, <2>5, <2>6, <2>7
<1>12. Queued(handled, b, handled') /\ Served'
  BY <1>2, <1>5, <1>9, <1>10, <1>11 DEF Served
<1>13. /\ handled' \in Buffers
       /\ \A id : Among(handled', id) <=> Among(handled, id) \/ Id(b) = id
       /\ \A id : Begun(handled', id) <=> Begun(handled, id) \/ b[1] = <<id, 1>>
  BY <1>1, <1>12, QueuedFacts
<1>14. tasks' \in Buffers
  BY <1>1, <1>2, <1>4, RemovedFacts DEF Buffers
<1>15. /\ out' \in Seq(Writing) /\ Len(out') <= Workers
       /\ \A j \in 1..Len(out') : (\E m \in 1..Len(out) : out'[j] = out[m])
                                  \/ out'[j].pkt = PktOf(sent, Id(b))
  <2>1. CASE a = <<>>
    BY <2>1, <1>1, <1>7
  <2>2. CASE a # <<>>
    <3>1. PICK o : o = [pkt |-> a, off |-> 0]
      OBVIOUS
    <3>2. a = PktOf(sent, Id(b)) /\ a \in Seq(Byte)
      BY <2>2, <1>1, <1>6, <1>8, PktFacts
    <3>3. o \in Writing /\ o.pkt = PktOf(sent, Id(b))
      BY <3>1, <3>2 DEF Writing
    <3>4. out' = Append(out, o)
      BY <2>2, <3>1, <1>7
    <3>5. /\ out' \in Seq(Writing) /\ Len(out') = Len(out) + 1
          /\ \A j \in 1..Len(out) : out'[j] = out[j]
          /\ out'[Len(out) + 1] = o
      BY <3>3, <3>4, <1>1, AppendProperties
    <3>6. \A j \in 1..Len(out') : j \in 1..Len(out) \/ j = Len(out) + 1
      BY <3>5, <1>3
    <3>7. Len(out') <= Workers
      BY <3>5, <1>4
    <3>8. \A j \in 1..Len(out') : (\E m \in 1..Len(out) : out'[j] = out[m])
                                  \/ out'[j].pkt = PktOf(sent, Id(b))
      BY <3>3, <3>5, <3>6
    <3> QED BY <3>5, <3>7, <3>8
  <2> QED BY <2>1, <2>2
<1>16. Types'
  BY <1>2, <1>13, <1>14, <1>15 DEF IInv, Types, Buffers
<1>17. InStream'
  BY <1>2, <1>9 DEF IInv, InStream
<1>18. OutStream'
  <2>1. /\ \A j \in 1..Len(Answer) : Among(handled, Answer[j][1])
        /\ \A j \in 1..Len(out) : Made(sent, handled, out[j])
        /\ ~skew => Framed(sent, Answer) /\ Linked(Answer) /\ Began(Answer)
    BY DEF IInv, OutStream
  <2>2. \A j \in 1..Len(Answer) : Among(handled', Answer[j][1])
    BY <2>1, <1>13
  <2>3. ASSUME NEW j \in 1..Len(out') PROVE Made(sent, handled', out'[j])
    <3>1. CASE \E m \in 1..Len(out) : out'[j] = out[m]
      BY <3>1, <2>1, <1>13 DEF Made
    <3>2. CASE out'[j].pkt = PktOf(sent, Id(b))
      <4>1. Among(handled', Id(b))
        BY <1>13
      <4> QED BY <3>2, <4>1, <1>6 DEF Made
    <3> QED BY <3>1, <3>2, <1>15
  <2> QED BY <2>1, <2>2, <2>3, <1>2, <1>9 DEF OutStream
<1>19. OnlyOne'
  <2> SUFFICES ASSUME Len(sent) \in alone
               PROVE  /\ OnlyOf(Pipe, Len(sent)) /\ OnlyOf(Answer, Len(sent))
                      /\ \A j \in 1..Len(tasks') : Id(tasks'[j]) = Len(sent)
                      /\ \A j \in 1..Len(out') : out'[j].pkt = PktOf(sent, Len(sent))
    BY <1>2, <1>9 DEF OnlyOne
  <2>1. /\ OnlyOf(Pipe, Len(sent)) /\ OnlyOf(Answer, Len(sent))
        /\ \A j \in 1..Len(tasks) : Id(tasks[j]) = Len(sent)
        /\ \A j \in 1..Len(out) : out[j].pkt = PktOf(sent, Len(sent))
    BY DEF IInv, OnlyOne
  <2>2. \A j \in 1..Len(tasks') : Id(tasks'[j]) = Len(sent)
    BY <2>1, <1>11
  <2>3. Id(b) = Len(sent)
    BY <2>1, <1>4, <1>5
  <2>4. \A j \in 1..Len(out') : out'[j].pkt = PktOf(sent, Len(sent))
    BY <2>1, <2>3, <1>15
  <2> QED BY <2>1, <2>2, <2>4
<1>20. Accepted'
  BY <1>2, <1>13 DEF IInv, Accepted
<1>21. OnItsWay'
  <2>1. /\ \A id \in 1..Len(sent) : id \notin hurt => Tot(sent, id) < Cap
        /\ \A id \in alone \ hurt :
             \/ Begun(handled, id)
             \/ id = Len(sent) /\ (Pipe = PktOf(sent, id) \/ Begun(tasks, id))
    BY DEF IInv, OnItsWay
  <2>2. \A id : Begun(tasks, id) => Begun(tasks', id) \/ Begun(handled', id)
    BY <1>5, <1>11, <1>13
  <2>3. \A id \in alone \ hurt :
             \/ Begun(handled', id)
             \/ id = Len(sent) /\ (Pipe' = PktOf(sent, id) \/ Begun(tasks', id))
    BY <2>1, <2>2, <1>9, <1>13
  <2> QED BY <2>1, <2>3, <1>2 DEF OnItsWay
<1> QED BY <1>12, <1>16, <1>17, <1>18, <1>19, <1>20, <1>21 DEF IInv

(* A part of an answer goes to the end of the stream back; it is the whole of it
   unless skew. *)
LEMMA WriteStep ==
  ASSUME IInv, NEW j, NEW n, write(j, n)
  PROVE  IInv'
<1>1. /\ sent \in Seq(Kinds) /\ Pipe \in Seq(Byte) /\ Answer \in Seq(Byte) /\ Len(Answer) \in Nat
      /\ Len(sent) \in Nat /\ out \in Seq(Writing) /\ Len(out) <= Workers
  BY TypeFacts DEF IInv, Types
<1>2. /\ sent' = sent /\ pc' = pc /\ cbuf' = cbuf /\ want' = want /\ res' = res /\ armed' = armed
      /\ wire' = wire /\ rx' = rx /\ buf' = buf /\ tasks' = tasks /\ handled' = handled
      /\ alone' = alone /\ hurt' = hurt /\ torn' = torn
      /\ skew' = (skew \/ n < Len(out[j].pkt))
  BY DEF write, client
<1>3. /\ j \in 1..Len(out) /\ n \in 1..Len(out[j].pkt) /\ out[j].pkt \in Seq(Byte)
      /\ Pipe' = Pipe /\ resp' \in Seq(Byte)
      /\ Answer' = Answer \o SubSeq(out[j].pkt, 1, n)
      /\ out' \in Seq(Writing) /\ Len(out') <= Len(out)
      /\ \A k \in 1..Len(out') : \E m \in 1..Len(out) : out'[k].pkt = out[m].pkt
  BY WriteEffect DEF IInv
<1>4. Len(out[j].pkt) \in Nat /\ Len(out) \in Nat /\ Len(out') \in Nat
  BY <1>1, <1>3, LenProperties
<1>5. PICK x \in Seq(Byte) : x = SubSeq(out[j].pkt, 1, n) /\ Len(x) = n
                            /\ \A k \in 1..n : x[k] = out[j].pkt[k]
  <2>1. n \in Nat /\ n <= Len(out[j].pkt)
    BY <1>3, <1>4
  <2>2. PICK p \in Seq(Byte) : p = out[j].pkt
    BY <1>3
  <2>3. PICK x : x = SubSeq(p, 1, n)
    OBVIOUS
  <2>4. x \in Seq(Byte) /\ Len(x) = n /\ \A k \in 1..n : x[k] = p[k]
    BY <2>1, <2>2, <2>3, FirstFacts
  <2> QED BY <2>2, <2>3, <2>4
<1>6. PICK id \in 1..Len(sent) : out[j].pkt = PktOf(sent, id) /\ Among(handled, id)
  BY <1>3 DEF IInv, OutStream, Made
<1>7. /\ PktOf(sent, id) \in Seq(Byte) /\ Len(PktOf(sent, id)) = Tot(sent, id)
      /\ \A k \in 1..Tot(sent, id) : PktOf(sent, id)[k][1] = id
  BY <1>1, PktFacts
<1>8. \A k \in 1..Len(x) : x[k][1] = id
  BY <1>3, <1>4, <1>5, <1>6, <1>7
<1>9. /\ Len(Answer') = Len(Answer) + Len(x)
      /\ \A k \in 1..Len(Answer') : (k \in 1..Len(Answer) /\ Answer'[k] = Answer[k])
                                    \/ Answer'[k][1] = id
  <2>1. /\ Len(Answer \o x) = Len(Answer) + Len(x)
        /\ \A k \in 1..Len(Answer) : (Answer \o x)[k] = Answer[k]
        /\ \A k \in 1..(Len(Answer) + Len(x)) : k > Len(Answer) =>
             k - Len(Answer) \in 1..Len(x) /\ (Answer \o x)[k] = x[k - Len(Answer)]
    BY <1>1, JoinFacts
  <2>2. Answer' = Answer \o x
    BY <1>3, <1>5
  <2>3. Len(x) \in Nat
    BY <1>5, LenProperties
  <2>4. \A k \in 1..(Len(Answer) + Len(x)) : k \in 1..Len(Answer) \/ k > Len(Answer)
    BY <1>1, <2>3
  <2> QED BY <2>1, <2>2, <2>4, <1>8
<1>10. Types'
  <2>1. Len(out') <= Workers
    BY <1>1, <1>3, <1>4, Constants
  <2> QED BY <2>1, <1>2, <1>3 DEF IInv, Types
<1>11. InStream' /\ Served' /\ Accepted' /\ OnItsWay'
  BY <1>2, <1>3 DEF IInv, InStream, Served, Accepted, OnItsWay
<1>12. OutStream'
  <2>1. /\ \A k \in 1..Len(Answer) : Among(handled, Answer[k][1])
        /\ \A k \in 1..Len(out) : Made(sent, handled, out[k])
        /\ ~skew => Framed(sent, Answer) /\ Linked(Answer) /\ Began(Answer)
    BY DEF IInv, OutStream
  <2>2. \A k \in 1..Len(Answer') : Among(handled, Answer'[k][1])
    BY <2>1, <1>6, <1>9
  <2>3. \A k \in 1..Len(out') : Made(sent, handled, out'[k])
    BY <2>1, <1>3 DEF Made
  <2>4. ~skew' => Framed(sent, Answer') /\ Linked(Answer') /\ Began(Answer')
    <3> SUFFICES ASSUME ~skew' PROVE Framed(sent, Answer') /\ Linked(Answer') /\ Began(Answer')
      OBVIOUS
    <3>0. ~skew /\ ~(n < Len(out[j].pkt))
      BY <1>2
    <3>1. ~skew /\ n = Len(out[j].pkt)
      BY <3>0, <1>3, <1>4
    <3>2. x = PktOf(sent, id)
      BY <3>1, <1>5, <1>6, <1>7, SameBytes
    <3>3. Answer' = Answer \o PktOf(sent, id)
      BY <3>2, <1>3, <1>5
    <3> QED BY <3>1, <3>3, <2>1, <1>1, FramedJoin, LinkedJoin, HeadedJoin
  <2> QED BY <2>2, <2>3, <2>4, <1>2 DEF OutStream
<1>13. OnlyOne'
  <2> SUFFICES ASSUME Len(sent) \in alone
               PROVE  /\ OnlyOf(Pipe, Len(sent)) /\ OnlyOf(Answer', Len(sent))
                      /\ \A k \in 1..Len(tasks) : Id(tasks[k]) = Len(sent)
                      /\ \A k \in 1..Len(out') : out'[k].pkt = PktOf(sent, Len(sent))
    BY <1>2, <1>3 DEF OnlyOne
  <2>1. /\ OnlyOf(Pipe, Len(sent)) /\ OnlyOf(Answer, Len(sent))
        /\ \A k \in 1..Len(tasks) : Id(tasks[k]) = Len(sent)
        /\ \A k \in 1..Len(out) : out[k].pkt = PktOf(sent, Len(sent))
    BY DEF IInv, OnlyOne
  <2>2. \A k \in 1..Len(out') : out'[k].pkt = PktOf(sent, Len(sent))
    BY <2>1, <1>3
  <2>3. id = Len(sent)
    <3>1. Len(sent) \in 1..Len(sent)
      BY <1>1, TypeFacts DEF IInv
    <3>2. /\ Len(PktOf(sent, Len(sent))) = Tot(sent, Len(sent))
          /\ \A k \in 1..Tot(sent, Len(sent)) : PktOf(sent, Len(sent))[k][1] = Len(sent)
      BY <3>1, <1>1, PktFacts
    <3>3. PktOf(sent, id) = PktOf(sent, Len(sent))
      BY <2>1, <1>3, <1>6
    <3>4. 1 \in 1..Tot(sent, id) /\ Tot(sent, id) = Tot(sent, Len(sent))
      BY <3>2, <3>3, <1>1, <1>7, TotFacts
    <3> QED BY <3>2, <3>3, <3>4, <1>7
  <2>4. OnlyOf(Answer', Len(sent))
    BY <2>1, <2>3, <1>9 DEF OnlyOf
  <2> QED BY <2>1, <2>2, <2>4
<1> QED BY <1>10, <1>11, <1>12, <1>13 DEF IInv

LEMMA WriteTimeoutStep ==
  ASSUME IInv, NEW j, writeTimeout(j)
  PROVE  IInv'
<1>1. /\ sent' = sent /\ pc' = pc /\ cbuf' = cbuf /\ want' = want /\ res' = res /\ armed' = armed
      /\ wire' = wire /\ rx' = rx /\ buf' = buf /\ tasks' = tasks /\ resp' = resp
      /\ handled' = handled /\ alone' = alone /\ hurt' = hurt /\ torn' = torn /\ skew' = skew
      /\ j \in 1..Len(out) /\ out' = RemoveAt(out, j)
  BY DEF writeTimeout, client, history
<1>2. out \in Seq(Writing) /\ Len(out) <= Workers /\ Len(out) \in Nat
  BY LenProperties DEF IInv, Types
<1>3. PICK o : o = RemoveAt(out, j)
  OBVIOUS
<1>4. o \in Seq(Writing) /\ Len(o) = Len(out) - 1
      /\ \A k \in 1..Len(o) : \E m \in 1..Len(out) : o[k] = out[m]
  BY <1>1, <1>2, <1>3, RemovedFrom
<1>5. out' = o /\ Len(o) <= Workers
  BY <1>1, <1>2, <1>3, <1>4, Constants
<1>6. Pipe' = Pipe /\ Answer' = Answer
  BY <1>1 DEF Pipe, Answer
<1>7. Types'
  BY <1>1, <1>4, <1>5 DEF IInv, Types
<1>8. InStream' /\ Served' /\ Accepted' /\ OnItsWay'
  BY <1>1, <1>6 DEF IInv, InStream, Served, Accepted, OnItsWay
<1>9. \A k \in 1..Len(o) : Made(sent, handled, o[k])
  BY <1>4, Zenon DEF IInv, OutStream
<1>10. OutStream'
  BY <1>1, <1>5, <1>6, <1>9 DEF IInv, OutStream
<1>11. Len(sent) \in alone => \A k \in 1..Len(o) : o[k].pkt = PktOf(sent, Len(sent))
  BY <1>4, Zenon DEF IInv, OnlyOne
<1>12. OnlyOne'
  BY <1>1, <1>5, <1>6, <1>11 DEF IInv, OnlyOne
<1> QED BY <1>7, <1>8, <1>10, <1>12 DEF IInv

----------------------------------------------------------------------------
(* The client's steps.                                                     *)

LEMMA RecvRespStep ==
  ASSUME IInv, recvResp
  PROVE  IInv'
<1>1. /\ sent' = sent /\ pc = "idle" /\ pc' = "recv" /\ cbuf' = <<>> /\ res' = res
      /\ armed' = armed /\ wire' = wire /\ rx' = rx /\ buf' = buf /\ tasks' = tasks
      /\ out' = out /\ resp' = resp /\ handled' = handled /\ alone' = alone /\ hurt' = hurt
      /\ torn' = torn /\ skew' = skew /\ want' \in isFullPkt(<<>>)
  BY DEF recvResp, history
<1>2. resp \in Seq(Byte)
  BY DEF IInv, Types
<1>3. Pipe' = Pipe
  BY <1>1 DEF Pipe
<1>4. Answer' = Answer
  <2>1. Answer' = <<>> \o resp /\ Answer = resp
    BY <1>1 DEF Answer
  <2> QED BY <2>1, <1>2, EmptyFirst
<1>5. want' = Cap
  <2>1. Len(<<>>) = 0
    BY NoBytes
  <2> QED BY <2>1, <1>1, Constants DEF isFullPkt
<1>6. Types'
  <2>1. cbuf' \in Seq(Byte) /\ Len(cbuf') = 0
    BY <1>1, NoBytes
  <2>2. want' \in Nat /\ want' + Len(cbuf') <= Cap /\ Len(cbuf') <= Cap
    BY <2>1, <1>5, Constants
  <2> QED BY <1>1, <2>1, <2>2 DEF IInv, Types
<1>7. InStream' /\ Served' /\ OutStream' /\ OnlyOne' /\ Accepted' /\ OnItsWay'
  BY <1>1, <1>3, <1>4 DEF IInv, InStream, Served, OutStream, OnlyOne, Accepted, OnItsWay
<1> QED BY <1>6, <1>7 DEF IInv

(* The head of the stream back. *)
LEMMA HeadBack ==
  ASSUME IInv, NEW b \in Seq(Byte), NEW r \in Seq(Byte), Answer = b \o r
  PROVE  /\ Len(b) \in Nat /\ Len(b) <= Len(Answer) /\ r = Drop(Answer, Len(b))
         /\ \A i \in 1..Len(b) : b[i] = Answer[i]
         /\ b # <<>> => /\ Id(b) \in 1..Len(sent) /\ Among(handled, Id(b))
                        /\ 1 \in 1..Len(Answer) /\ b[1] = Answer[1] /\ Id(b) = Answer[1][1]
<1>1. /\ Len(b) \in Nat /\ Len(b) <= Len(Answer) /\ r = Drop(Answer, Len(b))
      /\ \A i \in 1..Len(b) : b[i] = Answer[i]
  BY HeadFacts, ZenonT(60)
<1>2. ASSUME b # <<>>
      PROVE  /\ Id(b) \in 1..Len(sent) /\ Among(handled, Id(b))
             /\ 1 \in 1..Len(Answer) /\ b[1] = Answer[1] /\ Id(b) = Answer[1][1]
  <2>1. Len(b) >= 1 /\ 1 \in 1..Len(b)
    BY <1>2, ByteFacts
  <2>2. Len(Answer) \in Nat
    BY TypeFacts DEF IInv
  <2>3. b[1] = Answer[1] /\ 1 \in 1..Len(Answer) /\ Id(b) = Answer[1][1]
    BY <1>1, <2>1, <2>2 DEF Id
  <2>4. Among(handled, Id(b))
    BY <2>3 DEF IInv, OutStream
  <2>5. Taken(sent, torn, handled)
    BY DEF IInv, Served, ServedBy
  <2> QED BY <2>3, <2>4, <2>5, TakenSent
<1> QED BY <1>1, <1>2

(* The stream back when its first n bytes are gone. *)
LEMMA BackDrop ==
  ASSUME IInv, NEW n \in Nat, n <= Len(Answer), NEW r, r = Drop(Answer, n)
  PROVE  /\ \A i \in 1..Len(r) : Among(handled, r[i][1])
         /\ Len(sent) \in alone => OnlyOf(r, Len(sent))
<1>1. sent \in Seq(Kinds) /\ Answer \in Seq(Byte)
  BY TypeFacts DEF IInv
<1>2. \A i \in 1..Len(Answer) : Among(handled, Answer[i][1])
  BY DEF IInv, OutStream
<1>4. /\ Len(r) = Len(Answer) - n
      /\ \A k \in 1..(Len(Answer) - n) : n + k \in 1..Len(Answer) /\ r[k] = Answer[n + k]
  BY <1>1, DropFacts
<1>5. \A k \in 1..Len(r) : Among(handled, r[k][1])
  BY <1>2, <1>4
<1>6. Len(sent) \in alone => OnlyOf(r, Len(sent))
  BY <1>1, OnlyDrop DEF IInv, OnlyOne
<1> QED BY <1>5, <1>6

(* After a whole packet another begins. *)
LEMMA NextBegins ==
  ASSUME NEW t \in Seq(Kinds), NEW p \in Seq(Byte), Framed(t, p), Linked(p),
         NEW id \in 1..Len(t), NEW n \in Nat, n = Tot(t, id), n >= 1, n <= Len(p),
         p[n] = <<id, n>>
  PROVE  Began(Drop(p, n))
<1> DEFINE r == Drop(p, n)
<1>0. Len(p) \in Nat /\ Len(r) = Len(p) - n
      /\ \A j \in 1..(Len(p) - n) : n + j \in 1..Len(p) /\ r[j] = p[n + j]
  BY DropFacts, LenProperties
<1> HIDE DEF r
<1>1. ASSUME Len(r) >= 1, r[1][2] # 1 PROVE FALSE
  <2>1. 1 \in 1..(Len(p) - n)
    BY <1>0, <1>1
  <2>2. n + 1 \in 1..Len(p) /\ r[1] = p[n + 1] /\ n + 1 > 1 /\ (n + 1) - 1 = n
    BY <2>1, <1>0
  <2>3. p[(n + 1) - 1] = <<p[n + 1][1], p[n + 1][2] - 1>>
    BY <2>2, <1>1 DEF Linked
  <2>4. p[n] = <<p[n + 1][1], p[n + 1][2] - 1>>
    BY <2>2, <2>3
  <2>5. p[n + 1][1] = id /\ p[n + 1][2] - 1 = n
    BY <2>4
  <2>6. p[n + 1][2] \in 1..n
    BY <2>2, <2>5 DEF Framed
  <2> QED BY <2>5, <2>6
<1>2. Began(r)
  BY <1>1 DEF Began
<1> QED BY <1>2 DEF r

(* What is accepted in good order is a packet. *)
LEMMA AcceptedWhole ==
  ASSUME IInv, ~skew, NEW b \in Seq(Byte), NEW r \in Seq(Byte), Answer = b \o r, b # <<>>,
         0 \in isFullPkt(b), TRUE \in accepted(b)
  PROVE  /\ b = PktOf(sent, Id(b))
         /\ Framed(sent, r) /\ Linked(r) /\ Began(r)
<1>1. sent \in Seq(Kinds) /\ Answer \in Seq(Byte)
  BY TypeFacts DEF IInv
<1>2. /\ Len(b) \in Nat /\ Len(b) <= Len(Answer) /\ r = Drop(Answer, Len(b))
      /\ \A i \in 1..Len(b) : b[i] = Answer[i]
      /\ Id(b) \in 1..Len(sent) /\ 1 \in 1..Len(Answer) /\ b[1] = Answer[1]
  BY HeadBack
<1>3. Framed(sent, Answer) /\ Linked(Answer) /\ Began(Answer)
  BY DEF IInv, OutStream
<1>4. b[1][2] = 1
  <2>1. Len(Answer) >= 1
    BY <1>2, LenProperties, <1>1
  <2> QED BY <2>1, <1>2, <1>3 DEF Began
<1>5. Len(b) >= H
  BY <1>1, <1>2, FullFacts
<1>6. Header(b)
  BY <1>1, <1>2, <1>3, <1>4, <1>5, HeaderFirst
<1>7. Len(b) >= Tot(sent, Id(b))
  BY <1>1, <1>2, <1>6, FullFacts
<1>8. Len(b) = Tot(sent, Id(b))
  <2>1. accepted(b) = {Len(b) = Total(Id(b))}
    BY <1>6 DEF accepted
  <2>2. Len(b) = Total(Id(b))
    BY <2>1, Zenon
  <2> QED BY <2>2 DEF Total, Tot
<1>9. b = PktOf(sent, Id(b))
  BY <1>1, <1>2, <1>3, <1>4, <1>7, <1>8, WholeFirst
<1>10. Framed(sent, r) /\ Linked(r)
  BY <1>1, <1>2, <1>3, FramedDrop, LinkedDrop
<1>11. Began(r)
  <2>1. PICK n \in Nat : n = Len(b)
    BY <1>2
  <2>2. n >= 1 /\ n = Tot(sent, Id(b))
    BY <2>1, <1>1, <1>2, <1>8, TotFacts
  <2>3. b[n] = <<Id(b), n>>
    <3>1. \A k \in 1..Tot(sent, Id(b)) : PktOf(sent, Id(b))[k] = <<Id(b), k>>
      BY <1>1, <1>2, PktFacts
    <3>2. n \in 1..Tot(sent, Id(b))
      BY <2>2
    <3>3. PktOf(sent, Id(b))[n] = <<Id(b), n>>
      BY <3>1, <3>2
    <3> QED BY <3>3, <1>9
  <2>4. Answer[n] = <<Id(b), n>> /\ n <= Len(Answer)
    BY <2>1, <2>2, <2>3, <1>2
  <2>5. Began(Drop(Answer, n))
    BY <2>2, <2>4, <1>1, <1>2, <1>3, NextBegins
  <2> QED BY <2>1, <2>5, <1>2
<1> QED BY <1>9, <1>10, <1>11

LEMMA RecvStep ==
  ASSUME IInv, NEW n, recvPkt(n)
  PROVE  IInv'
<1>1. /\ sent \in Seq(Kinds) /\ Pipe \in Seq(Byte) /\ Answer \in Seq(Byte)
      /\ Len(sent) \in Nat /\ cbuf \in Seq(Byte) /\ resp \in Seq(Byte)
  BY TypeFacts DEF IInv, Types
<1>2. /\ sent' = sent /\ armed' = armed /\ pc = "recv"
      /\ wire' = wire /\ rx' = rx /\ buf' = buf /\ tasks' = tasks /\ out' = out
      /\ handled' = handled /\ alone' = alone /\ hurt' = hurt /\ torn' = torn
  BY DEF recvPkt
<1>4. Pipe' = Pipe /\ \E b, r, m : ReadBack(b, r, m)
  BY RecvEffect DEF IInv
<1>5. PICK b, r, m : ReadBack(b, r, m)
  BY <1>4
<1>6. /\ b \in Seq(Byte) /\ r \in Seq(Byte) /\ Answer = b \o r /\ b # <<>>
      /\ resp' = r /\ Len(b) <= Cap /\ m \in isFullPkt(b)
  BY <1>5 DEF ReadBack
<1>7. /\ Len(b) \in Nat /\ Len(b) <= Len(Answer) /\ r = Drop(Answer, Len(b))
      /\ \A i \in 1..Len(b) : b[i] = Answer[i]
      /\ Id(b) \in 1..Len(sent) /\ Among(handled, Id(b))
      /\ 1 \in 1..Len(Answer) /\ Id(b) = Answer[1][1]
  BY <1>6, HeadBack
<1>8. /\ \A i \in 1..Len(r) : Among(handled, r[i][1])
      /\ Len(sent) \in alone => OnlyOf(r, Len(sent))
  BY <1>7, BackDrop
<1>9. m \in Int
  BY <1>1, <1>6, <1>7, FullFacts
<1>10. \/ /\ m > 0 /\ m + Len(b) <= Cap
          /\ cbuf' = b /\ want' = m /\ pc' = pc /\ res' = res /\ skew' = skew
          /\ Answer' = Answer
       \/ /\ m = 0 /\ TRUE \in accepted(b)
          /\ res' = IF skew THEN res ELSE [req |-> Len(sent), got |-> b]
          /\ pc' = "idle" /\ cbuf' = <<>> /\ skew' = skew /\ Answer' = r
       \/ pc' = "idle" /\ cbuf' = <<>> /\ skew' = TRUE /\ res' = res /\ Answer' = r
  BY <1>5 DEF ReadBack
<1>11. Types'
  <2>1. /\ sent \in Seq(Kinds) /\ Len(sent) <= MaxReq /\ armed \in BOOLEAN /\ skew \in BOOLEAN
        /\ wire \in Seq(Byte) /\ rx \in Seq(Byte) /\ buf \in Seq(Byte) /\ Len(buf) < Cap
        /\ tasks \in Seq(Seq(Byte)) /\ handled \in Seq(Seq(Byte))
        /\ out \in Seq(Writing) /\ Len(out) <= Workers
        /\ alone \subseteq 1..Len(sent) /\ hurt \subseteq 1..Len(sent) /\ torn \subseteq 1..Len(sent)
    BY DEF IInv, Types
  <2>2. /\ cbuf' \in Seq(Byte) /\ Len(cbuf') <= Cap /\ skew' \in BOOLEAN /\ pc' \in {"idle", "recv"}
        /\ pc' = "recv" => want' \in Nat /\ want' + Len(cbuf') <= Cap
    <3>1. CASE /\ m > 0 /\ m + Len(b) <= Cap
               /\ cbuf' = b /\ want' = m /\ pc' = pc /\ skew' = skew
      BY <3>1, <2>1, <1>2, <1>6, <1>9
    <3>2. CASE pc' = "idle" /\ cbuf' = <<>> /\ (skew' = skew \/ skew' = TRUE)
      <4>1. skew' \in BOOLEAN
        BY <3>2, <2>1
      <4>2. pc' \in {"idle", "recv"} /\ pc' # "recv"
        BY <3>2
      <4>3. cbuf' \in Seq(Byte) /\ Len(cbuf') <= Cap
        BY <3>2, NoBytes, Constants
      <4> QED BY <4>1, <4>2, <4>3
    <3> QED BY <3>1, <3>2, <1>10
  <2> QED BY <2>1, <2>2, <1>2, <1>6 DEF Types
<1>12. Answer' = Answer \/ Answer' = r
  BY <1>10
<1>13. m = 0 /\ TRUE \in accepted(b) /\ ~skew =>
         b = PktOf(sent, Id(b)) /\ Framed(sent, r) /\ Linked(r) /\ Began(r)
  BY <1>6, AcceptedWhole
<1>14. OutStream'
  <2>1. /\ \A i \in 1..Len(Answer) : Among(handled, Answer[i][1])
        /\ \A j \in 1..Len(out) : Made(sent, handled, out[j])
        /\ ~skew => Framed(sent, Answer) /\ Linked(Answer) /\ Began(Answer)
    BY DEF IInv, OutStream
  <2>2. \A i \in 1..Len(Answer') : Among(handled, Answer'[i][1])
    BY <2>1, <1>8, <1>12
  <2>3. ~skew' => Framed(sent, Answer') /\ Linked(Answer') /\ Began(Answer')
    <3> SUFFICES ASSUME ~skew' PROVE Framed(sent, Answer') /\ Linked(Answer') /\ Began(Answer')
      OBVIOUS
    <3>1. ~skew /\ (Answer' = Answer \/ (m = 0 /\ TRUE \in accepted(b) /\ Answer' = r))
      <4>1. CASE skew' = skew /\ Answer' = Answer
        BY <4>1
      <4>2. CASE m = 0 /\ TRUE \in accepted(b) /\ skew' = skew /\ Answer' = r
        BY <4>2
      <4>3. skew' # TRUE
        OBVIOUS
      <4> QED BY <4>1, <4>2, <4>3, <1>10
    <3>2. CASE Answer' = Answer
      BY <3>1, <3>2, <2>1
    <3>3. CASE m = 0 /\ TRUE \in accepted(b) /\ Answer' = r
      BY <3>1, <3>3, <1>13
    <3> QED BY <3>1, <3>2, <3>3
  <2> QED BY <2>1, <2>2, <2>3, <1>2 DEF OutStream
<1>15. OnlyOne'
  BY <1>2, <1>4, <1>8, <1>12 DEF IInv, OnlyOne
<1>16. InStream' /\ Served' /\ OnItsWay'
  BY <1>2, <1>4 DEF IInv, InStream, Served, OnItsWay
<1>17. Accepted'
  <2>1. CASE res' = res
    BY <2>1, <1>2 DEF IInv, Accepted
  <2>2. CASE res' = [req |-> Len(sent), got |-> b] /\ m = 0 /\ TRUE \in accepted(b) /\ ~skew
    <3>3. b = PktOf(sent, Id(b))
      BY <2>2, <1>13
    <3>4. Len(sent) \in alone => Id(b) = Len(sent)
      BY <1>7 DEF IInv, OnlyOne, OnlyOf
    <3>5. res'.req = Len(sent) /\ res'.got = b
      BY <2>2
    <3>6. Len(sent) \in 0..Len(sent)
      BY <1>1
    <3>7. /\ res'.req \in 0..Len(sent)
          /\ res'.req > 0 => /\ Id(res'.got) \in 1..Len(sent)
                             /\ res'.got = PktOf(sent, Id(res'.got))
                             /\ res'.req \in alone => Id(res'.got) = res'.req
                             /\ Among(handled, Id(res'.got))
      BY <3>3, <3>4, <3>5, <3>6, <1>7
    <3> QED BY <3>7, <1>2 DEF Accepted
  <2> QED BY <2>1, <2>2, <1>10
<1> QED BY <1>11, <1>14, <1>15, <1>16, <1>17 DEF IInv

LEMMA TimeoutStep ==
  ASSUME IInv, recvTimeout
  PROVE  IInv'
<1>1. /\ sent' = sent /\ pc = "recv" /\ pc' = "idle" /\ cbuf' = <<>> /\ res' = res
      /\ armed' = armed /\ wire' = wire /\ rx' = rx /\ buf' = buf /\ tasks' = tasks
      /\ out' = out /\ resp' = resp /\ handled' = handled /\ alone' = alone /\ hurt' = hurt
      /\ torn' = torn /\ skew' = (skew \/ cbuf # <<>>)
  BY DEF recvTimeout
<1>2. cbuf \in Seq(Byte) /\ resp \in Seq(Byte)
  BY DEF IInv, Types
<1>3. Pipe' = Pipe /\ Answer = cbuf \o resp /\ Answer' = resp
  BY <1>1 DEF Pipe, Answer
<1>4. Len(cbuf) \in Nat /\ Len(cbuf) <= Len(Answer) /\ resp = Drop(Answer, Len(cbuf))
  BY <1>2, <1>3, HeadBack
<1>5. /\ \A i \in 1..Len(resp) : Among(handled, resp[i][1])
      /\ Len(sent) \in alone => OnlyOf(resp, Len(sent))
  BY <1>4, BackDrop
<1>6. Types'
  <2>1. cbuf' \in Seq(Byte) /\ Len(cbuf') <= Cap
    BY <1>1, NoBytes, Constants
  <2> QED BY <2>1, <1>1 DEF IInv, Types
<1>7. ~skew' => Answer' = Answer /\ ~skew
  <2>1. <<>> \o resp = resp
    BY <1>2, EmptyFirst
  <2> QED BY <2>1, <1>1, <1>3
<1>8. OutStream' /\ OnlyOne'
  BY <1>1, <1>3, <1>5, <1>7 DEF IInv, OutStream, OnlyOne
<1>9. InStream' /\ Served' /\ Accepted' /\ OnItsWay'
  BY <1>1, <1>3 DEF IInv, InStream, Served, Accepted, OnItsWay
<1> QED BY <1>6, <1>8, <1>9 DEF IInv

----------------------------------------------------------------------------
LEMMA InitInv == Init => IInv
<1> SUFFICES ASSUME Init PROVE IInv
  OBVIOUS
<1>1. /\ sent = <<>> /\ wire = <<>> /\ rx = <<>> /\ armed = FALSE
      /\ buf = <<>> /\ tasks = <<>> /\ out = <<>> /\ resp = <<>>
      /\ pc = "idle" /\ cbuf = <<>> /\ res = [req |-> 0, got |-> <<>>]
      /\ handled = <<>> /\ alone = {} /\ hurt = {} /\ torn = {} /\ skew = FALSE
  BY DEF Init
<1>2. <<>> \in Seq(Byte) /\ <<>> \in Seq(Kinds) /\ <<>> \in Seq(Seq(Byte)) /\ <<>> \in Seq(Writing)
      /\ Len(<<>>) = 0 /\ 1..0 = {}
  BY EmptySeq
<1>3. Types
  <2>1. /\ sent \in Seq(Kinds) /\ wire \in Seq(Byte) /\ rx \in Seq(Byte) /\ buf \in Seq(Byte)
        /\ tasks \in Seq(Seq(Byte)) /\ handled \in Seq(Seq(Byte)) /\ out \in Seq(Writing)
        /\ resp \in Seq(Byte) /\ cbuf \in Seq(Byte)
    BY <1>1, <1>2
  <2>2. Len(sent) <= MaxReq /\ Len(buf) < Cap /\ Len(cbuf) <= Cap /\ Len(out) <= Workers
    BY <1>1, <1>2, Constants
  <2>3. /\ armed \in BOOLEAN /\ pc \in {"idle", "recv"} /\ pc # "recv" /\ skew \in BOOLEAN
        /\ alone \subseteq 1..Len(sent) /\ hurt \subseteq 1..Len(sent) /\ torn \subseteq 1..Len(sent)
    BY <1>1
  <2> QED BY <2>1, <2>2, <2>3 DEF Types
<1>4. <<>> \o <<>> = <<>>
  BY <1>2, EmptyFirst
<1>5. Pipe = <<>> /\ Answer = <<>>
  BY <1>1, <1>4 DEF Pipe, Answer
<1>6. InStream /\ OutStream
  BY <1>1, <1>2, <1>5
     DEF InStream, OutStream, Framed, Linked, Rising, Headed, Began
<1>7. Served
  BY <1>1, <1>2, <1>5 DEF Served, ServedBy, Taken, Apart, Over, Past
<1>8. OnlyOne /\ OnItsWay
  BY <1>1, <1>2 DEF OnlyOne, OnItsWay
<1>9. res.req = 0 /\ Len(sent) = 0
  BY <1>1, <1>2
<1>10. Accepted
  BY <1>9 DEF Accepted
<1> QED BY <1>3, <1>6, <1>7, <1>8, <1>10 DEF IInv

LEMMA NextInv == IInv /\ [Next]_vars => IInv'
<1> SUFFICES ASSUME IInv, [Next]_vars PROVE IInv'
  OBVIOUS
<1>1. ASSUME NEW k \in Kinds, sendReq(k) PROVE IInv'
  BY <1>1, SendStep
<1>2. ASSUME NEW n, Arrive(n) PROVE IInv'
  BY <1>2, ArriveStep
<1>3. ASSUME onEpollIn PROVE IInv'
  BY <1>3, EpollStep
<1>4. ASSUME Reclaim PROVE IInv'
  BY <1>4, ReclaimStep
<1>5. ASSUME NEW i, handle(i) PROVE IInv'
  BY <1>5, HandleStep
<1>6. ASSUME NEW i, writeTimeout(i) PROVE IInv'
  BY <1>6, WriteTimeoutStep
<1>7. ASSUME NEW i, NEW n, write(i, n) PROVE IInv'
  BY <1>7, WriteStep
<1>8. ASSUME recvResp PROVE IInv'
  BY <1>8, RecvRespStep
<1>9. ASSUME NEW n, recvPkt(n) PROVE IInv'
  BY <1>9, RecvStep
<1>10. ASSUME recvTimeout PROVE IInv'
  BY <1>10, TimeoutStep
<1>11. ASSUME UNCHANGED vars PROVE IInv'
  <2>1. /\ sent' = sent /\ pc' = pc /\ cbuf' = cbuf /\ want' = want /\ res' = res
        /\ armed' = armed /\ wire' = wire /\ rx' = rx /\ buf' = buf /\ tasks' = tasks
        /\ out' = out /\ resp' = resp /\ handled' = handled /\ alone' = alone
        /\ hurt' = hurt /\ torn' = torn /\ skew' = skew
    BY <1>11 DEF vars, client, history
  <2>2. Pipe' = Pipe /\ Answer' = Answer
    BY <2>1 DEF Pipe, Answer
  <2>3. Types'
    BY <2>1 DEF IInv, Types
  <2>4. InStream' /\ Served' /\ OutStream' /\ OnlyOne' /\ Accepted' /\ OnItsWay'
    BY <2>1, <2>2 DEF IInv, InStream, Served, OutStream, OnlyOne, Accepted, OnItsWay
  <2> QED BY <2>3, <2>4 DEF IInv
<1> QED BY <1>1, <1>2, <1>3, <1>4, <1>5, <1>6, <1>7, <1>8, <1>9, <1>10, <1>11 DEF Next

LEMMA InvHolds == IInv => Inv
<1> SUFFICES ASSUME IInv PROVE Inv
  OBVIOUS
<1>0. Taken(sent, torn, handled)
  BY DEF IInv, Served, ServedBy
<1>1. TypeOK
  <2>1. Len(sent) \in Nat /\ Len(sent) <= MaxReq /\ MaxReq \in Nat
    BY TypeFacts, Constants DEF IInv, Types
  <2>2. 1..Len(sent) \subseteq 1..MaxReq
    BY <2>1
  <2> QED BY <2>2 DEF IInv, Types, TypeOK
<1>2. ASSUME NEW i \in 1..Len(handled), Start(handled[i])
      PROVE  /\ Len(handled[i]) >= Total(Id(handled[i]))
             /\ SubSeq(handled[i], 1, Total(Id(handled[i]))) = Pkt(Id(handled[i]))
  <2>1. sent \in Seq(Kinds) /\ handled \in Buffers
    BY TypeFacts DEF IInv
  <2>2. PICK b \in Seq(Byte) : b = handled[i]
    BY <2>1, BufferSeq
  <2>3. Whole(sent, b)
    BY <1>0, <1>2, <2>2 DEF Taken, Given
  <2>4. /\ Id(b) \in 1..Len(sent) /\ Len(b) >= Tot(sent, Id(b))
        /\ \A k \in 1..Tot(sent, Id(b)) : b[k] = <<Id(b), k>>
    BY <2>3 DEF Whole, Id
  <2>5. Tot(sent, Id(b)) \in Nat
    BY <2>1, <2>4, TotFacts
  <2>6. PICK c \in Nat : c = Tot(sent, Id(b))
    BY <2>5
  <2>7. PICK p \in Seq(Byte) : p = PktOf(sent, Id(b)) /\ Len(p) = c
                               /\ \A k \in 1..c : p[k] = <<Id(b), k>>
    BY <2>1, <2>4, <2>6, PktFacts
  <2>8. PICK x \in Seq(Byte) : x = SubSeq(b, 1, c) /\ Len(x) = c /\ \A k \in 1..c : x[k] = b[k]
    BY <2>4, <2>6, FirstFacts
  <2>9. \A k \in 1..c : x[k] = p[k]
    BY <2>4, <2>6, <2>7, <2>8
  <2>10. x = p
    BY <2>7, <2>8, <2>9, SameBytes
  <2>11. Total(Id(b)) = c /\ Pkt(Id(b)) = p
    BY <2>6, <2>7 DEF Total, Tot, Pkt, PktOf
  <2> QED BY <2>2, <2>4, <2>6, <2>8, <2>10, <2>11
<1>3. \A i, j \in 1..Len(handled) : Start(handled[i]) /\ Id(handled[i]) = Id(handled[j]) => i = j
  BY <1>0 DEF Taken
<1>4. \A i \in 1..Len(handled) : ~Start(handled[i]) => Id(handled[i]) \in torn
  BY <1>0 DEF Taken, Given
<1>5. HandledWhole
  <2> SUFFICES ASSUME NEW i \in 1..Len(handled)
               PROVE  IF handled[i][1][2] = 1
                      THEN /\ Len(handled[i]) >= Total(Id(handled[i]))
                           /\ SubSeq(handled[i], 1, Total(Id(handled[i]))) = Pkt(Id(handled[i]))
                           /\ \A j \in 1..Len(handled) :
                                Id(handled[j]) = Id(handled[i]) => j = i
                      ELSE Id(handled[i]) \in torn
    BY DEF HandledWhole
  <2>1. CASE handled[i][1][2] = 1
    <3>1. Start(handled[i])
      BY <2>1 DEF Start
    <3>2. \A j \in 1..Len(handled) : Id(handled[j]) = Id(handled[i]) => j = i
      BY <3>1, <1>3
    <3> QED BY <2>1, <3>1, <3>2, <1>2
  <2>2. CASE handled[i][1][2] # 1
    <3>1. ~Start(handled[i])
      BY <2>2 DEF Start
    <3> QED BY <2>2, <3>1, <1>4
  <2> QED BY <2>1, <2>2
<1> QED BY <1>1, <1>5 DEF Inv

LEMMA AloneHolds == IInv => AloneServed
<1> SUFFICES ASSUME IInv, NEW id \in alone \ hurt, Quiet
             PROVE  \E i \in 1..Len(handled) : handled[i][1] = <<id, 1>>
  BY DEF AloneServed
<1>1. /\ sent \in Seq(Kinds) /\ id \in 1..Len(sent)
  BY TypeFacts DEF IInv
<1>2. <<>> \in Seq(Byte) /\ Len(<<>>) = 0 /\ 1..0 = {}
  BY NoBytes
<1>3. Pipe = <<>> /\ tasks = <<>>
  BY <1>2, EmptyFirst DEF Quiet, Pipe
<1>4. Pipe # PktOf(sent, id)
  <2>1. Len(PktOf(sent, id)) = Tot(sent, id) /\ Tot(sent, id) >= 1
    BY <1>1, PktFacts, TotFacts
  <2> QED BY <2>1, <1>2, <1>3
<1>5. ~Begun(tasks, id)
  BY <1>2, <1>3 DEF Begun
<1> QED BY <1>4, <1>5 DEF IInv, OnItsWay, Begun

LEMMA AnswerHolds == IInv => OwnAnswer
BY DEF IInv, Accepted, OwnAnswer, Among, PktOf, Pkt, Tot, Total

LEMMA Inductive == Spec => []IInv
BY InitInv, NextInv, PTL DEF Spec

(* The types hold; and a buffer given to a worker begins with a whole packet that no
   other worker is given, or with the rest of a packet whose beginning was thrown
   away or glued to another's end (isFullPkt, onEpollIn, getAllTimeOutBuf), for
   every cut of the stream and whatever is taken for a header. *)
THEOREM WorkersGetWholePackets == Spec => []Inv
BY Inductive, InvHolds, PTL

(* A request that meets no other on the way has been handled when nothing is under
   way any more, whatever was thrown away before it (onEpollIn, isFullPkt), unless
   it was cut in its header, as long as the buffer, or its rest came too late. *)
THEOREM LoneRequestServed == Spec => []AloneServed
BY Inductive, AloneHolds, PTL

(* What recvResp accepts is one whole answer, made for a request handled before and
   for its own one if that met no other; as long as no answer was written in parts
   (YS_Socket::send) and no bytes of one were thrown away since a request was last
   sent with nothing on the way. *)
THEOREM AnswerIsOwn == Spec => []OwnAnswer
BY Inductive, AnswerHolds, PTL
=============================================================================
