---------------------------- MODULE NetThProofs ----------------------------
(***************************************************************************)
(* Proofs about the network thread (NetTh), for any connections, buffers   *)
(* and workers: every buffer has exactly one owner (BufferOwnership), and   *)
(* from it, the safety of the tables (Inv), of what the workers use while  *)
(* the server closes nothing (WorkersSafeUnlessClosing), the order of the  *)
(* streams (StreamOrder) and one connection per parser context             *)
(* (ParsedOneConn).                                                        *)
(***************************************************************************)
EXTENDS NetTh, SequenceTheorems, FiniteSetTheorems, TLAPS

(* The part of the state ownership is about, with its types. *)
OwnTypes ==
  /\ conns \subseteq Socks
  /\ cur \in Socks \cup {None}
  /\ epbuf \in [Socks -> Bufs \cup {None}]
  /\ idle \in Seq(Bufs) /\ busi \in Seq(Bufs)
  /\ freed \subseteq Bufs /\ vecB \subseteq Bufs
  /\ nbuf \in Bufs \cup {None}
  /\ wbuf \in [Workers -> Bufs \cup {None}]
  /\ wpc \in [Workers -> {"pop", "handle", "final", "add", "clear"}]

(* What the threads' program counters say about their buffers: the network
   thread in onEpollIn works on a connection whose attached buffer, if any, is
   the one in its hand; it holds a vector of buffers in clearTimeOut only; a
   worker holds a buffer unless it waits for one. *)
Hands ==
  /\ npc \in {"pop", "recv"} => cur \in Socks
  /\ npc = "pop" => epbuf[cur] = None
  /\ npc = "recv" => nbuf \in Bufs /\ epbuf[cur] \in {None, nbuf}
  /\ npc # "reclaim" => vecB = {}
  /\ \A w \in Workers : wpc[w] = "pop" <=> wbuf[w] = None

OwnInv == OwnTypes /\ Hands /\ BufferOwnership

----------------------------------------------------------------------------
(* Lemmas on the two queues.                                               *)

(* Pushing a new element adds it to the elements and keeps them distinct. *)
LEMMA PushFacts ==
  ASSUME NEW S, NEW q \in Seq(S), NEW e \in S
  PROVE  /\ Append(q, e) \in Seq(S)
         /\ Range(Append(q, e)) = Range(q) \cup {e}
         /\ Distinct(q) /\ e \notin Range(q) => Distinct(Append(q, e))
<1>1. /\ Append(q, e) \in Seq(S) /\ Len(Append(q, e)) = Len(q) + 1
      /\ \A i \in 1..Len(q) : Append(q, e)[i] = q[i]
      /\ Append(q, e)[Len(q) + 1] = e
  BY AppendProperties
<1>2. /\ DOMAIN q = 1..Len(q) /\ Len(q) \in Nat
      /\ DOMAIN Append(q, e) = 1..(Len(q) + 1)
  BY <1>1, LenProperties
<1>3. Range(Append(q, e)) = Range(q) \cup {e}
  BY <1>1, <1>2 DEF Range
<1>4. Distinct(q) /\ e \notin Range(q) => Distinct(Append(q, e))
  BY <1>1, <1>2 DEF Range, Distinct
<1> QED BY <1>1, <1>3, <1>4

(* Popping takes the head out of the elements. *)
LEMMA PopFacts ==
  ASSUME NEW S, NEW q \in Seq(S), q # <<>>, Distinct(q)
  PROVE  /\ Tail(q) \in Seq(S) /\ Head(q) \in S
         /\ Head(q) \in Range(q)
         /\ Range(Tail(q)) = Range(q) \ {Head(q)}
         /\ Distinct(Tail(q))
<1>1. /\ Head(q) \in S /\ Tail(q) \in Seq(S)
      /\ Len(Tail(q)) = Len(q) - 1
      /\ \A i \in 1..Len(Tail(q)) : Tail(q)[i] = q[i + 1]
      /\ Head(q) = q[1]
  BY HeadTailProperties
<1>2. /\ DOMAIN q = 1..Len(q) /\ Len(q) \in Nat /\ Len(q) # 0
      /\ DOMAIN Tail(q) = 1..(Len(q) - 1)
  BY <1>1, LenProperties, EmptySeq
<1>3. Head(q) \in Range(q)
  BY <1>1, <1>2 DEF Range
<1>4. ASSUME NEW v \in Range(Tail(q)) PROVE v \in Range(q) \ {Head(q)}
  <2>1. PICK i \in 1..(Len(q) - 1) : v = q[i + 1]
    BY <1>1, <1>2, <1>4 DEF Range
  <2>2. i + 1 \in DOMAIN q /\ i + 1 # 1 /\ 1 \in DOMAIN q
    BY <1>2
  <2> QED BY <1>1, <2>1, <2>2 DEF Range, Distinct
<1>5. ASSUME NEW v \in Range(q) \ {Head(q)} PROVE v \in Range(Tail(q))
  <2>1. PICK i \in 1..Len(q) : v = q[i]
    BY <1>2, <1>5 DEF Range
  <2>2. i # 1
    BY <1>1, <1>5, <2>1
  <2>3. i - 1 \in 1..(Len(q) - 1) /\ (i - 1) + 1 = i
    BY <1>2, <2>2
  <2>4. Tail(q)[i - 1] = v
    BY <1>1, <1>2, <2>1, <2>3
  <2> QED BY <1>2, <2>3, <2>4 DEF Range
<1>6. Distinct(Tail(q))
  <2>1. SUFFICES ASSUME NEW i \in 1..(Len(q) - 1), NEW j \in 1..(Len(q) - 1),
                        Tail(q)[i] = Tail(q)[j]
                 PROVE  i = j
    BY <1>2 DEF Distinct
  <2>2. q[i + 1] = q[j + 1] /\ i + 1 \in DOMAIN q /\ j + 1 \in DOMAIN q
    BY <1>1, <1>2, <2>1
  <2>3. i + 1 = j + 1
    BY <2>2 DEF Distinct
  <2> QED BY <2>3
<1> QED BY <1>1, <1>3, <1>4, <1>5, <1>6

----------------------------------------------------------------------------
(* Lemmas on pointers held by connections and workers.                     *)

Held(f) == {f[x] : x \in DOMAIN f} \ {None}

(* Changing one pointer. *)
LEMMA HeldSet ==
  ASSUME NEW D, NEW f \in [D -> Bufs \cup {None}], NEW x \in D,
         NEW v \in Bufs \cup {None}, OneEach(f),
         v \notin Held(f) \ {f[x]},
         NEW g \in [D -> Bufs \cup {None}],
         g[x] = v, \A y \in D : y # x => g[y] = f[y]
  PROVE  /\ OneEach(g)
         /\ Held(g) = (Held(f) \ {f[x]}) \cup ({v} \ {None})
<1>1. DOMAIN g = D /\ DOMAIN f = D
  OBVIOUS
<1>2. \A y \in D : y # x /\ f[y] # None => f[y] # f[x] /\ f[y] # v
  BY <1>1 DEF OneEach, Held
<1>3. OneEach(g)
  BY <1>1, <1>2 DEF OneEach
<1>4. Held(g) \subseteq (Held(f) \ {f[x]}) \cup ({v} \ {None})
  BY <1>1, <1>2 DEF Held
<1>5. (Held(f) \ {f[x]}) \cup ({v} \ {None}) \subseteq Held(g)
  BY <1>1, <1>2 DEF Held
<1> QED BY <1>3, <1>4, <1>5

(* Resetting the pointers in S. *)
LEMMA HeldDrop ==
  ASSUME NEW D, NEW f \in [D -> Bufs \cup {None}], NEW S \in SUBSET D, OneEach(f),
         NEW g \in [D -> Bufs \cup {None}],
         \A y \in D : g[y] = IF y \in S THEN None ELSE f[y]
  PROVE  /\ OneEach(g)
         /\ Held(g) = Held(f) \ {f[y] : y \in S}
<1>1. DOMAIN g = D /\ DOMAIN f = D
  OBVIOUS
<1>2. OneEach(g)
  BY <1>1 DEF OneEach
<1>3. \A y \in D, z \in S : f[y] = f[z] /\ f[y] # None => y \in S
  BY <1>1 DEF OneEach
<1>4. Held(g) = Held(f) \ {f[y] : y \in S}
  BY <1>1, <1>3 DEF Held
<1> QED BY <1>2, <1>4

(* Resetting one pointer. *)
LEMMA HeldReset ==
  ASSUME NEW D, NEW f \in [D -> Bufs \cup {None}], NEW x \in D, OneEach(f),
         NEW g \in [D -> Bufs \cup {None}],
         g[x] = None, \A y \in D : y # x => g[y] = f[y]
  PROVE  /\ OneEach(g)
         /\ Held(g) = Held(f) \ {f[x]}
<1>1. None \notin Held(f)
  BY DEF Held
<1>2. OneEach(g) /\ Held(g) = (Held(f) \ {f[x]}) \cup ({None} \ {None})
  BY <1>1, HeldSet
<1> QED BY <1>2

----------------------------------------------------------------------------
(* The six places as a partition of the buffers.                           *)

Split(I, B, A, N, W, F) ==
  /\ Apart(I, B \cup A \cup N \cup W \cup F)
  /\ Apart(B, A \cup N \cup W \cup F)
  /\ Apart(A, N \cup W \cup F)
  /\ Apart(N, W \cup F)
  /\ Apart(W, F)
  /\ Bufs = I \cup B \cup A \cup N \cup W \cup F

Places == Split(Range(idle), Range(busi), Held(epbuf), NetHand, Held(wbuf), freed)

(* Every queue and every pointer refers to a buffer once. *)
Once == Distinct(idle) /\ Distinct(busi) /\ OneEach(epbuf) /\ OneEach(wbuf)

(* BufferOwnership is Once and Places. *)
LEMMA OwnershipIsPlaces ==
  ASSUME OwnTypes
  PROVE  BufferOwnership <=> Once /\ Places
<1>1. Attached = Held(epbuf) /\ Working = Held(wbuf)
  BY DEF OwnTypes, Attached, Working, Held
<1> QED BY <1>1 DEF BufferOwnership, Once, Places, Split

LEMMA OwnershipIsPlacesNext ==
  ASSUME OwnTypes'
  PROVE  BufferOwnership' <=> Once' /\ Places'
<1>1. Attached' = Held(epbuf)' /\ Working' = Held(wbuf)'
  BY DEF OwnTypes, Attached, Working, Held
<1> QED BY <1>1 DEF BufferOwnership, Once, Places, Split

(* resize() puts every buffer into the idle queue once. *)
LEMMA InitQueue ==
  ASSUME NEW q \in SetToSeqs(Bufs)
  PROVE  q \in Seq(Bufs) /\ Distinct(q) /\ Range(q) = Bufs
<1> DEFINE n == Cardinality(Bufs)
<1>1. IsFiniteSet(Bufs)
  BY NetThAssumption
<1>2. n \in Nat
  BY <1>1, FS_CardinalityType
<1> HIDE DEF n
<1>3. q \in [1..n -> Bufs] /\ \A i, j \in 1..n : i # j => q[i] # q[j]
  BY DEF SetToSeqs, n
<1>4. q \in Injection(1..n, Bufs)
  BY <1>3 DEF Injection, IsInjective
<1>5. Cardinality(1..n) = n
  BY <1>2, FS_Interval
<1>6. q \in Surjection(1..n, Bufs)
  BY <1>1, <1>4, <1>5, FS_Injection DEF n
<1>7. \A b \in Bufs : \E i \in 1..n : q[i] = b
  BY <1>6 DEF Surjection
<1>8. DOMAIN q = 1..n
  BY <1>3
<1>9. q \in Seq(Bufs)
  BY <1>2, <1>3, SeqDef
<1>10. Distinct(q)
  BY <1>3, <1>8 DEF Distinct
<1>11. Range(q) = Bufs
  BY <1>3, <1>7, <1>8 DEF Range
<1> QED BY <1>9, <1>10, <1>11

(* The invariant holds initially. *)
LEMMA InitOwn == Init => OwnInv
<1> SUFFICES ASSUME Init PROVE OwnInv
  OBVIOUS
<1>1. idle \in Seq(Bufs) /\ Distinct(idle) /\ Range(idle) = Bufs
  BY InitQueue DEF Init
<1>2. busi = <<>> /\ busi \in Seq(Bufs) /\ DOMAIN busi = {}
  BY LenProperties, EmptySeq DEF Init
<1>3. Distinct(busi) /\ Range(busi) = {}
  BY <1>2 DEF Distinct, Range
<1>4. OwnTypes
  BY <1>1, <1>2 DEF Init, OwnTypes
<1>5. Hands
  BY DEF Init, Hands
<1>6. OneEach(epbuf) /\ Held(epbuf) = {}
  BY DEF Init, OneEach, Held
<1>7. OneEach(wbuf) /\ Held(wbuf) = {}
  BY DEF Init, OneEach, Held
<1>8. NetHand = {} /\ freed = {}
  BY DEF Init, NetHand
<1>9. Places
  BY <1>1, <1>3, <1>6, <1>7, <1>8 DEF Places, Split, Apart
<1>10. BufferOwnership
  BY <1>1, <1>3, <1>4, <1>6, <1>7, <1>9, OwnershipIsPlaces DEF Once
<1> QED BY <1>4, <1>5, <1>10 DEF OwnInv

----------------------------------------------------------------------------
(* Steps.                                                                  *)

(* A new distribution of the buffers over the places re-establishes the
   invariant. *)
LEMMA Reassemble ==
  ASSUME OwnTypes', Hands', Once', Places'
  PROVE  OwnInv'
BY OwnershipIsPlacesNext DEF OwnInv

(* What the invariant gives in the state before a step. *)
LEMMA Before ==
  ASSUME OwnInv
  PROVE  OwnTypes /\ Hands /\ Once /\ Places
BY OwnershipIsPlaces DEF OwnInv

(* Steps that touch no buffer and no program counter that matters: the
   accepting thread, peers, clock, epoll_ctl calls. *)
ownVars == <<epbuf, idle, busi, freed, wbuf, nbuf, vecB, cur, npc, wpc>>

LEMMA ElsewhereOwn ==
  ASSUME OwnInv, conns' \subseteq Socks, UNCHANGED ownVars
  PROVE  OwnInv'
<1>1. OwnTypes'
  BY DEF OwnInv, OwnTypes, ownVars
<1>2. Hands'
  BY DEF OwnInv, Hands, ownVars
<1>3. BufferOwnership'
  BY DEF OwnInv, BufferOwnership, ownVars, Attached, NetHand, Working
<1> QED BY <1>1, <1>2, <1>3 DEF OwnInv

(* The network thread moves between two places of its loop, in neither of
   which it holds a buffer of its own. *)
LEMMA MoveOwn ==
  ASSUME OwnInv, UNCHANGED <<conns, epbuf, idle, busi, freed, wbuf, nbuf, vecB, wpc>>,
         npc # "recv", npc' \notin {"pop", "recv"}, cur' \in Socks \cup {None},
         vecB = {}
  PROVE  OwnInv'
<1>1. OwnTypes'
  BY DEF OwnInv, OwnTypes
<1>2. Hands'
  BY DEF OwnInv, Hands
<1>3. NetHand' = NetHand
  BY DEF NetHand
<1>4. BufferOwnership'
  BY <1>3 DEF OwnInv, BufferOwnership, Attached, Working
<1> QED BY <1>1, <1>2, <1>4 DEF OwnInv

(* dealEvent on EPOLLRDHUP: the attached buffer, if any, goes to idle. *)
LEMMA onEpollErrOwn ==
  ASSUME OwnInv, NEW s \in Socks, onEpollErr(s)
  PROVE  OwnInv'
<1>1. OwnTypes /\ Hands /\ Once /\ Places
  BY Before
<1>2. /\ npc = "wait" /\ npc' \in {"wait", "lost"}
      /\ UNCHANGED <<busi, freed, cur, nbuf, vecB, wpc, wbuf>>
      /\ conns' = conns \ {s}
      /\ epbuf' = [epbuf EXCEPT ![s] = None]
      /\ idle' = IF epbuf[s] # None THEN Append(idle, epbuf[s]) ELSE idle
  BY DEF onEpollErr, UseAfterErase, clearBuf, pushIdle, workVars
<1>3. epbuf \in [Socks -> Bufs \cup {None}] /\ OneEach(epbuf)
  BY <1>1 DEF OwnTypes, Once
<1>4. None \notin Held(epbuf)
  BY DEF Held
<1>5. /\ epbuf' \in [Socks -> Bufs \cup {None}] /\ OneEach(epbuf')
      /\ Held(epbuf') = Held(epbuf) \ {epbuf[s]}
  <2>1. /\ epbuf' \in [Socks -> Bufs \cup {None}] /\ epbuf'[s] = None
        /\ \A y \in Socks : y # s => epbuf'[y] = epbuf[y]
    BY <1>2, <1>3
  <2> QED BY <1>3, <2>1, HeldReset
<1>6. epbuf[s] # None => epbuf[s] \in Held(epbuf) /\ epbuf[s] \in Bufs
  BY <1>3 DEF Held
<1>7. epbuf[s] # None => epbuf[s] \notin Range(idle)
  BY <1>1, <1>6 DEF Places, Split, Apart
<1>8. /\ idle' \in Seq(Bufs) /\ Distinct(idle')
      /\ Range(idle') = IF epbuf[s] # None THEN Range(idle) \cup {epbuf[s]}
                                           ELSE Range(idle)
  <2>1. CASE epbuf[s] = None
    BY <1>1, <1>2, <2>1 DEF OwnTypes, Once
  <2>2. CASE epbuf[s] # None
    <3>1. idle \in Seq(Bufs) /\ Distinct(idle)
      BY <1>1 DEF OwnTypes, Once
    <3> QED BY <1>2, <1>6, <1>7, <2>2, <3>1, PushFacts
  <2> QED BY <2>1, <2>2
<1>9. NetHand = vecB /\ NetHand' = vecB
  BY <1>2 DEF NetHand
<1>10. OwnTypes'
  BY <1>1, <1>2, <1>5, <1>8 DEF OwnTypes
<1>11. Hands'
  BY <1>1, <1>2 DEF Hands
<1>12. Once'
  BY <1>1, <1>2, <1>5, <1>8 DEF Once
<1>13. Places'
  <2>1. Range(busi)' = Range(busi) /\ Held(wbuf)' = Held(wbuf) /\ freed' = freed
    BY <1>2
  <2>2. Range(idle)' = Range(idle') /\ Held(epbuf)' = Held(epbuf')
    OBVIOUS
  <2> QED BY <1>1, <1>4, <1>5, <1>6, <1>8, <1>9, <2>1, <2>2 DEF Places, Split, Apart
<1> QED BY <1>10, <1>11, <1>12, <1>13, Reassemble

(* onEpollIn up to popIdle(): no buffer changes hands. *)
LEMMA onEpollInOwn ==
  ASSUME OwnInv, NEW s \in Socks, onEpollIn(s)
  PROVE  OwnInv'
<1>1. OwnTypes /\ Hands /\ BufferOwnership
  BY DEF OwnInv
<1>2. /\ npc = "wait" /\ cur' = s
      /\ UNCHANGED <<conns, epbuf, idle, busi, freed, vecB, wpc, wbuf>>
      /\ \/ epbuf[s] # None /\ npc' = "recv" /\ nbuf' = epbuf[s]
         \/ epbuf[s] = None /\ npc' = "pop" /\ nbuf' = nbuf
  BY DEF onEpollIn, bufVars, workVars
<1>3. epbuf[s] \in Bufs \cup {None} /\ vecB = {}
  BY <1>1, <1>2 DEF OwnTypes, Hands
<1>4. OwnTypes'
  BY <1>1, <1>2, <1>3 DEF OwnTypes
<1>5. Hands'
  BY <1>1, <1>2, <1>3 DEF Hands
<1>6. NetHand = {} /\ NetHand' = {}
  BY <1>2, <1>3 DEF NetHand
<1>7. Range(idle)' = Range(idle) /\ Range(busi)' = Range(busi)
      /\ Attached' = Attached /\ Working' = Working
  BY <1>2 DEF Attached, Working
<1>8. BufferOwnership'
  BY <1>1, <1>2, <1>6, <1>7 DEF BufferOwnership
<1> QED BY <1>4, <1>5, <1>8 DEF OwnInv

(* popIdle(): the head of the idle queue comes into the thread's hand. *)
LEMMA popIdleOwn ==
  ASSUME OwnInv, popIdle
  PROVE  OwnInv'
<1>1. OwnTypes /\ Hands /\ Once /\ Places
  BY Before
<1>2. /\ npc = "pop" /\ idle # <<>> /\ idle' = Tail(idle) /\ nbuf' = Head(idle)
      /\ npc' = "recv"
      /\ UNCHANGED <<conns, epbuf, busi, freed, cur, vecB, wpc, wbuf>>
  BY DEF popIdle, connVars, workVars
<1>3. idle \in Seq(Bufs) /\ Distinct(idle)
  BY <1>1 DEF OwnTypes, Once
<1>4. /\ idle' \in Seq(Bufs) /\ Distinct(idle')
      /\ nbuf' \in Bufs /\ nbuf' \in Range(idle)
      /\ Range(idle') = Range(idle) \ {nbuf'}
  BY <1>2, <1>3, PopFacts
<1>5. OwnTypes'
  BY <1>1, <1>2, <1>4 DEF OwnTypes
<1>6. Hands'
  BY <1>1, <1>2, <1>4 DEF Hands
<1>7. Once'
  BY <1>1, <1>2, <1>4 DEF Once
<1>8. NetHand = {} /\ NetHand' = {nbuf'}
  BY <1>1, <1>2 DEF Hands, NetHand
<1>9. Places'
  <2>1. /\ Range(busi)' = Range(busi) /\ Held(wbuf)' = Held(wbuf)
        /\ Held(epbuf)' = Held(epbuf) /\ Range(idle)' = Range(idle')
    BY <1>2
  <2> QED BY <1>1, <1>2, <1>4, <1>8, <2>1 DEF Places, Split, Apart
<1> QED BY <1>5, <1>6, <1>7, <1>9, Reassemble

----------------------------------------------------------------------------
(* The outcomes of recv and isFullPkt.                                     *)

(* What is common to them: the thread is back in epoll_wait, and workers and
   deleted buffers are not concerned. *)
RecvEnd ==
  /\ npc = "recv" /\ npc' = "wait" /\ cur' = None /\ nbuf' = None
  /\ UNCHANGED <<conns, freed, vecB, wpc, wbuf>>

(* The three things that can happen to the buffer. *)
Detaches  == epbuf' = [epbuf EXCEPT ![cur] = None]
GivesBack == Detaches /\ idle' = Append(idle, nbuf) /\ busi' = busi
Queues    == Detaches /\ busi' = Append(busi, nbuf) /\ idle' = idle
Attaches  == epbuf' = [epbuf EXCEPT ![cur] = nbuf] /\ UNCHANGED <<idle, busi>>

(* The buffer in hand belongs to nobody else than the connection. *)
LEMMA InHand ==
  ASSUME OwnInv, RecvEnd
  PROVE  /\ cur \in Socks /\ nbuf \in Bufs /\ vecB = {}
         /\ epbuf \in [Socks -> Bufs \cup {None}] /\ OneEach(epbuf)
         /\ \/ epbuf[cur] = nbuf /\ nbuf \in Held(epbuf) /\ NetHand = {}
            \/ epbuf[cur] = None /\ NetHand = {nbuf}
         /\ NetHand' = {}
         /\ nbuf \notin Held(epbuf) \ {epbuf[cur]}
         /\ nbuf \notin Range(idle) /\ nbuf \notin Range(busi)
<1>1. OwnTypes /\ Hands /\ Once /\ Places
  BY Before
<1>2. cur \in Socks /\ nbuf \in Bufs /\ epbuf[cur] \in {None, nbuf} /\ vecB = {}
  BY <1>1 DEF RecvEnd, Hands
<1>3. epbuf \in [Socks -> Bufs \cup {None}] /\ OneEach(epbuf)
  BY <1>1 DEF OwnTypes, Once
<1>4. nbuf # None
  BY <1>2, NetThAssumption
<1>5. epbuf[cur] = nbuf => nbuf \in Held(epbuf) /\ NetHand = {}
  BY <1>2, <1>3, <1>4 DEF Held, NetHand, RecvEnd
<1>6. epbuf[cur] = None => NetHand = {nbuf}
  BY <1>2 DEF NetHand, RecvEnd
<1>7. NetHand' = {}
  BY <1>2 DEF NetHand, RecvEnd
<1>8. nbuf \notin Held(epbuf) \ {epbuf[cur]}
      /\ nbuf \notin Range(idle) /\ nbuf \notin Range(busi)
  BY <1>1, <1>2, <1>5, <1>6 DEF Places, Split, Apart
<1> QED BY <1>2, <1>3, <1>5, <1>6, <1>7, <1>8

(* Both ways of leaving the buffer: it is taken from the connection. *)
LEMMA Detach ==
  ASSUME OwnInv, RecvEnd, Detaches
  PROVE  /\ epbuf' \in [Socks -> Bufs \cup {None}] /\ OneEach(epbuf')
         /\ Held(epbuf') = Held(epbuf) \ {epbuf[cur]}
<1>1. cur \in Socks /\ epbuf \in [Socks -> Bufs \cup {None}] /\ OneEach(epbuf)
  BY InHand
<1>2. /\ epbuf' \in [Socks -> Bufs \cup {None}] /\ epbuf'[cur] = None
      /\ \A y \in Socks : y # cur => epbuf'[y] = epbuf[y]
  BY <1>1 DEF Detaches
<1> QED BY <1>1, <1>2, HeldReset

(* Error paths and empty reads: the buffer goes back to the idle queue. *)
LEMMA recvIdleOwn ==
  ASSUME OwnInv, RecvEnd, GivesBack
  PROVE  OwnInv'
<1>1. OwnTypes /\ Hands /\ Once /\ Places
  BY Before
<1>2. /\ epbuf' \in [Socks -> Bufs \cup {None}] /\ OneEach(epbuf')
      /\ Held(epbuf') = Held(epbuf) \ {epbuf[cur]}
  BY Detach DEF GivesBack
<1>3. /\ nbuf \in Bufs /\ NetHand' = {}
      /\ \/ epbuf[cur] = nbuf /\ nbuf \in Held(epbuf) /\ NetHand = {}
         \/ epbuf[cur] = None /\ NetHand = {nbuf}
      /\ nbuf \notin Range(idle)
  BY InHand
<1>4. /\ idle' \in Seq(Bufs) /\ Distinct(idle')
      /\ Range(idle') = Range(idle) \cup {nbuf}
  <2>1. idle \in Seq(Bufs) /\ Distinct(idle)
    BY <1>1 DEF OwnTypes, Once
  <2> QED BY <1>3, <2>1, PushFacts DEF GivesBack
<1>5. OwnTypes'
  BY <1>1, <1>2, <1>4 DEF OwnTypes, RecvEnd, GivesBack
<1>6. Hands'
  BY <1>1 DEF Hands, RecvEnd
<1>7. Once'
  BY <1>1, <1>2, <1>4 DEF Once, RecvEnd, GivesBack
<1>8. Places'
  <2>1. /\ Range(busi)' = Range(busi) /\ Held(wbuf)' = Held(wbuf) /\ freed' = freed
        /\ Held(epbuf)' = Held(epbuf') /\ Range(idle)' = Range(idle')
    BY DEF RecvEnd, GivesBack
  <2>2. None \notin Held(epbuf)
    BY DEF Held
  <2> QED BY <1>1, <1>2, <1>3, <1>4, <2>1, <2>2 DEF Places, Split, Apart
<1> QED BY <1>5, <1>6, <1>7, <1>8, Reassemble

(* A whole packet, or a full buffer: it is queued for the workers. *)
LEMMA recvTaskOwn ==
  ASSUME OwnInv, RecvEnd, Queues
  PROVE  OwnInv'
<1>1. OwnTypes /\ Hands /\ Once /\ Places
  BY Before
<1>2. /\ epbuf' \in [Socks -> Bufs \cup {None}] /\ OneEach(epbuf')
      /\ Held(epbuf') = Held(epbuf) \ {epbuf[cur]}
  BY Detach DEF Queues
<1>3. /\ nbuf \in Bufs /\ NetHand' = {}
      /\ \/ epbuf[cur] = nbuf /\ nbuf \in Held(epbuf) /\ NetHand = {}
         \/ epbuf[cur] = None /\ NetHand = {nbuf}
      /\ nbuf \notin Range(busi)
  BY InHand
<1>4. /\ busi' \in Seq(Bufs) /\ Distinct(busi')
      /\ Range(busi') = Range(busi) \cup {nbuf}
  <2>1. busi \in Seq(Bufs) /\ Distinct(busi)
    BY <1>1 DEF OwnTypes, Once
  <2> QED BY <1>3, <2>1, PushFacts DEF Queues
<1>5. OwnTypes'
  BY <1>1, <1>2, <1>4 DEF OwnTypes, RecvEnd, Queues
<1>6. Hands'
  BY <1>1 DEF Hands, RecvEnd
<1>7. Once'
  BY <1>1, <1>2, <1>4 DEF Once, RecvEnd, Queues
<1>8. Places'
  <2>1. /\ Range(idle)' = Range(idle) /\ Held(wbuf)' = Held(wbuf) /\ freed' = freed
        /\ Held(epbuf)' = Held(epbuf') /\ Range(busi)' = Range(busi')
    BY DEF RecvEnd, Queues
  <2>2. None \notin Held(epbuf)
    BY DEF Held
  <2> QED BY <1>1, <1>2, <1>3, <1>4, <2>1, <2>2 DEF Places, Split, Apart
<1> QED BY <1>5, <1>6, <1>7, <1>8, Reassemble

(* An incomplete packet: the buffer is attached to the connection. *)
LEMMA recvMoreOwn ==
  ASSUME OwnInv, RecvEnd, Attaches
  PROVE  OwnInv'
<1>1. OwnTypes /\ Hands /\ Once /\ Places
  BY Before
<1>2. /\ cur \in Socks /\ nbuf \in Bufs /\ NetHand' = {}
      /\ epbuf \in [Socks -> Bufs \cup {None}] /\ OneEach(epbuf)
      /\ \/ epbuf[cur] = nbuf /\ nbuf \in Held(epbuf) /\ NetHand = {}
         \/ epbuf[cur] = None /\ NetHand = {nbuf}
      /\ nbuf \notin Held(epbuf) \ {epbuf[cur]}
  BY InHand
<1>3. /\ epbuf' \in [Socks -> Bufs \cup {None}] /\ epbuf'[cur] = nbuf
      /\ \A y \in Socks : y # cur => epbuf'[y] = epbuf[y]
  BY <1>2 DEF Attaches
<1>4. OneEach(epbuf') /\ Held(epbuf') = (Held(epbuf) \ {epbuf[cur]}) \cup ({nbuf} \ {None})
  BY <1>2, <1>3, HeldSet
<1>5. OwnTypes'
  BY <1>1, <1>3 DEF OwnTypes, RecvEnd, Attaches
<1>6. Hands'
  BY <1>1 DEF Hands, RecvEnd
<1>7. Once'
  BY <1>1, <1>4 DEF Once, RecvEnd, Attaches
<1>8. Places'
  <2>1. /\ Range(idle)' = Range(idle) /\ Range(busi)' = Range(busi)
        /\ Held(wbuf)' = Held(wbuf) /\ freed' = freed
        /\ Held(epbuf)' = Held(epbuf')
    BY DEF RecvEnd, Attaches
  <2>2. None \notin Held(epbuf) /\ nbuf # None
    BY <1>2, NetThAssumption DEF Held
  <2> QED BY <1>1, <1>2, <1>4, <2>1, <2>2 DEF Places, Split, Apart
<1> QED BY <1>5, <1>6, <1>7, <1>8, Reassemble

(* Every outcome is one of the three. *)
LEMMA RecvOwn ==
  ASSUME OwnInv, Recv
  PROVE  OwnInv'
<1>1. RecvEnd
  BY DEF Recv, RecvEnd, recvFail, recvNothing, recvBad, recvFull, recvMore,
         recvWhole, recvParsed, Done, workVars
<1>2. GivesBack \/ Queues \/ Attaches
  BY DEF Recv, recvFail, recvNothing, recvBad, recvFull, recvMore, recvWhole,
         Discard, Dispatch, pushIdle, pushTask,
         GivesBack, Queues, Attaches, Detaches
<1> QED BY <1>1, <1>2, recvIdleOwn, recvTaskOwn, recvMoreOwn

----------------------------------------------------------------------------
(* 200 ms without an event.                                                *)

(* getAllTimeOutBuf moves attached buffers to the thread's vector. *)
LEMMA getAllTimeOutBufOwn ==
  ASSUME OwnInv, getAllTimeOutBuf
  PROVE  OwnInv'
<1>1. OwnTypes /\ Hands /\ Once /\ Places
  BY Before
<1>2. /\ npc = "wait" /\ npc' = "reclaim"
      /\ vecB' = {epbuf[s] : s \in TimedOut}
      /\ UNCHANGED <<conns, idle, busi, freed, cur, nbuf, wpc, wbuf>>
  BY DEF getAllTimeOutBuf, workVars
<1>3. /\ epbuf \in [Socks -> Bufs \cup {None}] /\ OneEach(epbuf)
      /\ vecB = {} /\ TimedOut \in SUBSET Socks
      /\ \A s \in TimedOut : epbuf[s] # None
  BY <1>1, <1>2 DEF OwnTypes, Once, Hands, TimedOut
<1>4. /\ epbuf' \in [Socks -> Bufs \cup {None}]
      /\ \A s \in Socks : epbuf'[s] = IF s \in TimedOut THEN None ELSE epbuf[s]
  BY <1>3 DEF getAllTimeOutBuf
<1>5. OneEach(epbuf') /\ Held(epbuf') = Held(epbuf) \ vecB'
  BY <1>2, <1>3, <1>4, HeldDrop
<1>6. vecB' \subseteq Held(epbuf) /\ vecB' \subseteq Bufs
  BY <1>2, <1>3 DEF Held
<1>7. NetHand = {} /\ NetHand' = vecB'
  BY <1>2, <1>3 DEF NetHand
<1>8. OwnTypes'
  BY <1>1, <1>2, <1>4, <1>6 DEF OwnTypes
<1>9. Hands'
  BY <1>1, <1>2 DEF Hands
<1>10. Once'
  BY <1>1, <1>2, <1>5 DEF Once
<1>11. Places'
  <2>1. /\ Range(idle)' = Range(idle) /\ Range(busi)' = Range(busi)
        /\ Held(wbuf)' = Held(wbuf) /\ Held(epbuf)' = Held(epbuf')
    BY <1>2
  <2> QED BY <1>1, <1>2, <1>5, <1>6, <1>7, <2>1 DEF Places, Split, Apart
<1> QED BY <1>8, <1>9, <1>10, <1>11, Reassemble

(* clearTimeOut gives them back one at a time. *)
LEMMA clearTimeOutOwn ==
  ASSUME OwnInv, NEW b \in Bufs, clearTimeOut(b)
  PROVE  OwnInv'
<1>1. OwnTypes /\ Hands /\ Once /\ Places
  BY Before
<1>2. /\ npc = "reclaim" /\ b \in vecB /\ vecB' = vecB \ {b}
      /\ idle' = Append(idle, b)
      /\ UNCHANGED <<conns, epbuf, busi, freed, npc, cur, nbuf, wpc, wbuf>>
  BY DEF clearTimeOut, pushIdle, connVars, workVars
<1>3. NetHand = vecB /\ NetHand' = vecB'
  BY <1>2 DEF NetHand
<1>4. b \notin Range(idle)
  BY <1>1, <1>2, <1>3 DEF Places, Split, Apart
<1>5. /\ idle' \in Seq(Bufs) /\ Distinct(idle')
      /\ Range(idle') = Range(idle) \cup {b}
  <2>1. idle \in Seq(Bufs) /\ Distinct(idle)
    BY <1>1 DEF OwnTypes, Once
  <2> QED BY <1>2, <1>4, <2>1, PushFacts
<1>6. OwnTypes'
  BY <1>1, <1>2, <1>5 DEF OwnTypes
<1>7. Hands'
  BY <1>1, <1>2 DEF Hands
<1>8. Once'
  BY <1>1, <1>2, <1>5 DEF Once
<1>9. Places'
  <2>1. /\ Range(busi)' = Range(busi) /\ Held(epbuf)' = Held(epbuf)
        /\ Held(wbuf)' = Held(wbuf) /\ Range(idle)' = Range(idle')
    BY <1>2
  <2> QED BY <1>1, <1>2, <1>3, <1>5, <2>1 DEF Places, Split, Apart
<1> QED BY <1>6, <1>7, <1>8, <1>9, Reassemble

(* Deleting the entries of the sockets S deletes their buffers. *)
DropStep(S) ==
  /\ dropConns(S)
  /\ npc \notin {"pop", "recv"} /\ npc' \notin {"pop", "recv"} /\ vecB = {}
  /\ UNCHANGED <<idle, busi, cur, nbuf, vecB, wpc, wbuf>>

LEMMA dropOwn ==
  ASSUME OwnInv, NEW S \in SUBSET Socks, DropStep(S)
  PROVE  OwnInv'
<1>1. OwnTypes /\ Hands /\ Once /\ Places
  BY Before
<1>2. /\ npc \notin {"pop", "recv"} /\ npc' \notin {"pop", "recv"} /\ vecB = {}
      /\ UNCHANGED <<idle, busi, cur, nbuf, vecB, wpc, wbuf>>
      /\ conns' = conns \ S
      /\ freed' = freed \cup ({epbuf[s] : s \in S} \ {None})
  BY DEF DropStep, dropConns
<1>3. epbuf \in [Socks -> Bufs \cup {None}] /\ OneEach(epbuf)
  BY <1>1 DEF OwnTypes, Once
<1>4. /\ epbuf' \in [Socks -> Bufs \cup {None}]
      /\ \A s \in Socks : epbuf'[s] = IF s \in S THEN None ELSE epbuf[s]
  BY <1>3 DEF DropStep, dropConns
<1>5. OneEach(epbuf') /\ Held(epbuf') = Held(epbuf) \ {epbuf[s] : s \in S}
  BY <1>3, <1>4, HeldDrop
<1>6. {epbuf[s] : s \in S} \ {None} \subseteq Held(epbuf)
      /\ {epbuf[s] : s \in S} \ {None} \subseteq Bufs /\ None \notin Held(epbuf)
  BY <1>3 DEF Held
<1>7. NetHand = {} /\ NetHand' = {}
  BY <1>2 DEF NetHand
<1>8. OwnTypes'
  BY <1>1, <1>2, <1>4, <1>6 DEF OwnTypes
<1>9. Hands'
  BY <1>1, <1>2 DEF Hands
<1>10. Once'
  BY <1>1, <1>2, <1>5 DEF Once
<1>11. Places'
  <2>1. /\ Range(idle)' = Range(idle) /\ Range(busi)' = Range(busi)
        /\ Held(wbuf)' = Held(wbuf) /\ Held(epbuf)' = Held(epbuf')
    BY <1>2
  <2> QED BY <1>1, <1>2, <1>5, <1>6, <1>7, <2>1 DEF Places, Split, Apart
<1> QED BY <1>8, <1>9, <1>10, <1>11, Reassemble

----------------------------------------------------------------------------
(* Workers.                                                                *)

(* popTask: the head of the busy queue comes into the worker's hand. *)
LEMMA popTaskOwn ==
  ASSUME OwnInv, NEW w \in Workers, popTask(w)
  PROVE  OwnInv'
<1>1. OwnTypes /\ Hands /\ Once /\ Places
  BY Before
<1>2. /\ wpc[w] = "pop" /\ busi # <<>> /\ busi' = Tail(busi)
      /\ UNCHANGED <<conns, epbuf, idle, freed, npc, cur, nbuf, vecB>>
  BY DEF popTask, connVars, netVars
<1>3. /\ busi \in Seq(Bufs) /\ Distinct(busi)
      /\ wbuf \in [Workers -> Bufs \cup {None}] /\ OneEach(wbuf)
      /\ wpc \in [Workers -> {"pop", "handle", "final", "add", "clear"}]
      /\ wbuf[w] = None
  BY <1>1, <1>2 DEF OwnTypes, Once, Hands
<1>4. /\ busi' \in Seq(Bufs) /\ Distinct(busi')
      /\ Head(busi) \in Bufs /\ Head(busi) \in Range(busi)
      /\ Range(busi') = Range(busi) \ {Head(busi)}
  BY <1>2, <1>3, PopFacts
<1>5. Head(busi) # None /\ Head(busi) \notin Held(wbuf)
  BY <1>1, <1>4, NetThAssumption DEF Places, Split, Apart
<1>6. /\ wbuf' \in [Workers -> Bufs \cup {None}] /\ wbuf'[w] = Head(busi)
      /\ \A v \in Workers : v # w => wbuf'[v] = wbuf[v]
  BY <1>3, <1>4 DEF popTask
<1>7. /\ wpc' \in [Workers -> {"pop", "handle", "final", "add", "clear"}]
      /\ wpc'[w] = "handle" /\ \A v \in Workers : v # w => wpc'[v] = wpc[v]
  BY <1>3 DEF popTask, Goto
<1>8. OneEach(wbuf') /\ Held(wbuf') = (Held(wbuf) \ {None}) \cup ({Head(busi)} \ {None})
  BY <1>3, <1>4, <1>5, <1>6, HeldSet
<1>9. NetHand' = NetHand
  BY <1>2 DEF NetHand
<1>10. OwnTypes'
  BY <1>1, <1>2, <1>4, <1>6, <1>7 DEF OwnTypes
<1>11. Hands'
  BY <1>1, <1>2, <1>5, <1>6, <1>7 DEF Hands
<1>12. Once'
  BY <1>1, <1>2, <1>4, <1>8 DEF Once
<1>13. Places'
  <2>1. /\ Range(idle)' = Range(idle) /\ Held(epbuf)' = Held(epbuf)
        /\ Held(wbuf)' = Held(wbuf') /\ Range(busi)' = Range(busi')
    BY <1>2
  <2>2. None \notin Held(wbuf)
    BY DEF Held
  <2> QED BY <1>1, <1>2, <1>4, <1>5, <1>8, <1>9, <2>1, <2>2 DEF Places, Split, Apart
<1> QED BY <1>10, <1>11, <1>12, <1>13, Reassemble

(* The worker goes on with its buffer. *)
WorkStep(w) ==
  /\ wpc[w] # "pop"
  /\ \E l \in {"handle", "final", "add", "clear"} : wpc' = [wpc EXCEPT ![w] = l]
  /\ UNCHANGED <<conns, epbuf, idle, busi, freed, wbuf, nbuf, vecB, cur, npc>>

LEMMA workOwn ==
  ASSUME OwnInv, NEW w \in Workers, WorkStep(w)
  PROVE  OwnInv'
<1>1. OwnTypes /\ Hands /\ BufferOwnership
  BY DEF OwnInv
<1>2. wpc \in [Workers -> {"pop", "handle", "final", "add", "clear"}]
  BY <1>1 DEF OwnTypes
<1>3. /\ wpc' \in [Workers -> {"pop", "handle", "final", "add", "clear"}]
      /\ \A v \in Workers : wpc'[v] = "pop" <=> wpc[v] = "pop"
  BY <1>2 DEF WorkStep
<1>4. OwnTypes'
  BY <1>1, <1>3 DEF OwnTypes, WorkStep
<1>5. Hands'
  BY <1>1, <1>3 DEF Hands, WorkStep
<1>6. BufferOwnership'
  BY <1>1 DEF BufferOwnership, WorkStep, Attached, NetHand, Working
<1> QED BY <1>4, <1>5, <1>6 DEF OwnInv

(* The handled buffer goes back to the idle queue. *)
LEMMA clearAndPushIdleOwn ==
  ASSUME OwnInv, NEW w \in Workers, clearAndPushIdle(w)
  PROVE  OwnInv'
<1>1. OwnTypes /\ Hands /\ Once /\ Places
  BY Before
<1>2. /\ wpc[w] = "clear" /\ idle' = Append(idle, wbuf[w])
      /\ UNCHANGED <<conns, epbuf, busi, freed, npc, cur, nbuf, vecB>>
  BY DEF clearAndPushIdle, pushIdle, connVars, netVars
<1>3. /\ idle \in Seq(Bufs) /\ Distinct(idle)
      /\ wbuf \in [Workers -> Bufs \cup {None}] /\ OneEach(wbuf)
      /\ wpc \in [Workers -> {"pop", "handle", "final", "add", "clear"}]
      /\ wbuf[w] \in Bufs /\ wbuf[w] \in Held(wbuf)
  BY <1>1, <1>2 DEF OwnTypes, Once, Hands, Held
<1>4. wbuf[w] \notin Range(idle)
  BY <1>1, <1>3 DEF Places, Split, Apart
<1>5. /\ idle' \in Seq(Bufs) /\ Distinct(idle')
      /\ Range(idle') = Range(idle) \cup {wbuf[w]}
  BY <1>2, <1>3, <1>4, PushFacts
<1>6. /\ wbuf' \in [Workers -> Bufs \cup {None}] /\ wbuf'[w] = None
      /\ \A v \in Workers : v # w => wbuf'[v] = wbuf[v]
  BY <1>3 DEF clearAndPushIdle
<1>7. /\ wpc' \in [Workers -> {"pop", "handle", "final", "add", "clear"}]
      /\ wpc'[w] = "pop" /\ \A v \in Workers : v # w => wpc'[v] = wpc[v]
  BY <1>3 DEF clearAndPushIdle, Goto
<1>8. OneEach(wbuf') /\ Held(wbuf') = Held(wbuf) \ {wbuf[w]}
  BY <1>3, <1>6, HeldReset
<1>9. NetHand' = NetHand
  BY <1>2 DEF NetHand
<1>10. OwnTypes'
  BY <1>1, <1>2, <1>5, <1>6, <1>7 DEF OwnTypes
<1>11. Hands'
  BY <1>1, <1>2, <1>6, <1>7 DEF Hands
<1>12. Once'
  BY <1>1, <1>2, <1>5, <1>8 DEF Once
<1>13. Places'
  <2>1. /\ Range(busi)' = Range(busi) /\ Held(epbuf)' = Held(epbuf)
        /\ Held(wbuf)' = Held(wbuf') /\ Range(idle)' = Range(idle')
    BY <1>2
  <2> QED BY <1>1, <1>2, <1>3, <1>5, <1>8, <1>9, <2>1 DEF Places, Split, Apart
<1> QED BY <1>10, <1>11, <1>12, <1>13, Reassemble

----------------------------------------------------------------------------
(* Every step keeps the invariant. *)
LEMMA NextOwn == OwnInv /\ [Next]_vars => OwnInv'
<1> SUFFICES ASSUME OwnInv, [Next]_vars PROVE OwnInv'
  OBVIOUS
<1>1. OwnTypes /\ Hands
  BY DEF OwnInv
<1>2. conns \subseteq Socks /\ cur \in Socks \cup {None}
  BY <1>1 DEF OwnTypes
<1>3. CASE Environment
  <2>1. conns' \subseteq Socks /\ UNCHANGED ownVars
    BY <1>2, <1>3 DEF Environment, addConn, PeerSend, PeerFin, connVars, bufVars,
                      netVars, workVars, ownVars
  <2> QED BY <2>1, ElsewhereOwn
<1>4. CASE addConnReg \/ Clock \/ UNCHANGED vars
  <2>1. conns' = conns /\ UNCHANGED ownVars
    BY <1>4 DEF addConnReg, Clock, TimePasses, vars, connVars, bufVars, netVars,
                workVars, ownVars
  <2> QED BY <1>2, <2>1, ElsewhereOwn
<1>5. CASE \E s \in Socks : onEpollErr(s) \/ onEpollIn(s)
  BY <1>5, onEpollErrOwn, onEpollInOwn
<1>6. CASE popIdle
  BY <1>6, popIdleOwn
<1>7. CASE popIdleTimeout
  <2>1. /\ npc = "pop" /\ npc' = "wait" /\ cur' = None
        /\ UNCHANGED <<conns, epbuf, idle, busi, freed, wbuf, nbuf, vecB, wpc>>
    BY <1>7 DEF popIdleTimeout, connVars, bufVars, workVars
  <2>2. vecB = {}
    BY <1>1, <2>1 DEF Hands
  <2> QED BY <2>1, <2>2, MoveOwn
<1>8. CASE Recv
  BY <1>8, RecvOwn
<1>9. CASE getAllTimeOutBuf
  BY <1>9, getAllTimeOutBufOwn
<1>10. CASE \E b \in Bufs : clearTimeOut(b)
  BY <1>10, clearTimeOutOwn
<1>11. CASE getAllClosedSock
  <2>1. vecS' \in SUBSET Socks
    BY <1>2, <1>11 DEF getAllClosedSock
  <2>2. DropStep(vecS')
    BY <1>11 DEF getAllClosedSock, DropStep, workVars
  <2> QED BY <2>1, <2>2, dropOwn
<1>12. CASE clearClosed
  <2>1. /\ npc = "delsock" /\ npc' \in {"tmout", "wait"} /\ cur' = cur
        /\ UNCHANGED <<conns, epbuf, idle, busi, freed, wbuf, nbuf, vecB, wpc>>
    BY <1>12 DEF clearClosed, connVars, bufVars, workVars
  <2>2. vecB = {}
    BY <1>1, <2>1 DEF Hands
  <2> QED BY <1>2, <2>1, <2>2, MoveOwn
<1>13. CASE getAllTimeOutSock
  <2>1. vecS' \in SUBSET Socks
    BY <1>2, <1>13 DEF getAllTimeOutSock
  <2>2. DropStep(vecS')
    BY <1>1, <1>13 DEF getAllTimeOutSock, DropStep, workVars, Hands
  <2> QED BY <2>1, <2>2, dropOwn
<1>14. CASE clearTimeOutSock
  <2>1. /\ npc = "close" /\ npc' = "wait" /\ cur' = cur
        /\ UNCHANGED <<conns, epbuf, idle, busi, freed, wbuf, nbuf, vecB, wpc>>
    BY <1>14 DEF clearTimeOutSock, connVars, bufVars, workVars
  <2>2. vecB = {}
    BY <1>1, <2>1 DEF Hands
  <2> QED BY <1>2, <2>1, <2>2, MoveOwn
<1>15. CASE \E w \in Workers : popTask(w) \/ clearAndPushIdle(w)
  BY <1>15, popTaskOwn, clearAndPushIdleOwn
<1>16. CASE \E w \in Workers : handle(w) \/ regSock(w) \/ regSockAdd(w)
  <2>1. PICK w \in Workers : handle(w) \/ regSock(w) \/ regSockAdd(w)
    BY <1>16
  <2>2. wpc \in [Workers -> {"pop", "handle", "final", "add", "clear"}]
    BY <1>1 DEF OwnTypes
  <2>3. wpc = [wpc EXCEPT ![w] = wpc[w]]
    BY <2>2
  <2>4. UNCHANGED <<conns, epbuf, idle, busi, freed, wbuf, nbuf, vecB, cur, npc>>
    BY <2>1 DEF handle, regSock, regSockAdd, connVars, bufVars, netVars
  <2>5. wpc[w] \in {"handle", "final", "add"}
    BY <2>1 DEF handle, regSock, regSockAdd
  <2>6. \E l \in {"handle", "final", "add", "clear"} : wpc' = [wpc EXCEPT ![w] = l]
    BY <2>1, <2>3, <2>5 DEF handle, regSock, regSockAdd, Goto
  <2>7. WorkStep(w)
    BY <2>4, <2>5, <2>6 DEF WorkStep
  <2> QED BY <2>7, workOwn
<1> QED
  BY <1>3, <1>4, <1>5, <1>6, <1>7, <1>8, <1>9, <1>10, <1>11, <1>12, <1>13, <1>14,
     <1>15, <1>16 DEF Next, Lost, Net, Work

(* Each buffer of the pool has exactly one owner in every reachable state, for
   any number of connections, buffers and workers, and every choice of what
   the protocol's isFullPkt answers and the handlers do. *)
THEOREM OwnershipCorrect == Spec => []BufferOwnership
<1>1. Spec => []OwnInv
  BY InitOwn, NextOwn, PTL DEF Spec
<1>2. OwnInv => BufferOwnership
  BY DEF OwnInv
<1> QED BY <1>1, <1>2, PTL

----------------------------------------------------------------------------
(* The tasks, and the socket and the callback a buffer refers to.          *)

TaskBufs == Range(busi) \cup Held(wbuf)

(* A task refers to a connection; no other buffer does, or has a callback. *)
RefInv ==
  /\ ref \in [Bufs -> Socks \cup {None}] /\ cb \in [Bufs -> BOOLEAN]
  /\ \A b \in TaskBufs : ref[b] \in Socks
  /\ \A b \in Bufs \ TaskBufs : ref[b] = None /\ ~cb[b]

(* What a step does to the tasks. *)
TaskStay == TaskBufs' = TaskBufs /\ UNCHANGED <<ref, cb>>

TaskWipe(b) ==
  /\ TaskBufs' = TaskBufs \ {b}
  /\ ref' = [ref EXCEPT ![b] = None]
  /\ cb'  = [cb EXCEPT ![b] = FALSE]

TaskNew(full) ==
  /\ npc = "recv" /\ cur \in Socks /\ nbuf \in Bufs \ TaskBufs
  /\ TaskBufs' = TaskBufs \cup {nbuf} /\ wbuf' = wbuf
  /\ ref' = [ref EXCEPT ![nbuf] = cur]
  /\ cb'  = [cb EXCEPT ![nbuf] = cb[nbuf] \/ full]

TaskMove ==
  \/ TaskStay
  \/ \E b \in Bufs : TaskWipe(b)
  \/ \E full \in BOOLEAN : TaskNew(full)

LEMMA DispatchMove ==
  ASSUME OwnInv, RecvEnd, NEW full \in BOOLEAN, Dispatch(full)
  PROVE  TaskNew(full)
<1>1. OwnTypes /\ Places
  BY Before
<1>2. /\ cur \in Socks /\ nbuf \in Bufs
      /\ \/ epbuf[cur] = nbuf /\ nbuf \in Held(epbuf) /\ NetHand = {}
         \/ epbuf[cur] = None /\ NetHand = {nbuf}
  BY InHand
<1>3. nbuf \notin TaskBufs
  BY <1>1, <1>2 DEF Places, Split, Apart, TaskBufs
<1>4. Range(busi') = Range(busi) \cup {nbuf}
  BY <1>1, <1>2, PushFacts DEF OwnTypes, Dispatch, pushTask
<1>5. TaskBufs' = TaskBufs \cup {nbuf}
  BY <1>4 DEF TaskBufs, RecvEnd
<1> QED BY <1>2, <1>3, <1>5 DEF TaskNew, RecvEnd, Dispatch

LEMMA RecvIsEnd ==
  ASSUME Recv
  PROVE  RecvEnd
BY DEF Recv, RecvEnd, recvFail, recvNothing, recvBad, recvFull, recvMore,
       recvWhole, recvParsed, Done, workVars

LEMMA NextTaskMove ==
  ASSUME OwnInv, [Next]_vars
  PROVE  TaskMove
<1>0. OwnTypes /\ Hands /\ Once /\ Places
  BY Before
<1>1. CASE UNCHANGED <<busi, wbuf, ref, cb>>
  BY <1>1 DEF TaskMove, TaskStay, TaskBufs
<1>2. ASSUME NEW s \in Socks, onEpollErr(s)
      PROVE  TaskMove
  <2>1. UNCHANGED <<busi, wbuf>>
    BY <1>2 DEF onEpollErr, workVars
  <2>2. CASE epbuf[s] = None
    BY <1>1, <1>2, <2>1, <2>2 DEF onEpollErr
  <2>3. CASE epbuf[s] # None
    <3>1. epbuf[s] \in Bufs /\ epbuf[s] \in Held(epbuf)
      BY <1>0, <2>3 DEF OwnTypes, Held
    <3>2. epbuf[s] \notin TaskBufs
      BY <1>0, <3>1 DEF Places, Split, Apart, TaskBufs
    <3>3. TaskBufs' = TaskBufs \ {epbuf[s]}
      BY <2>1, <3>2 DEF TaskBufs
    <3>4. TaskWipe(epbuf[s])
      BY <1>2, <2>3, <3>3 DEF onEpollErr, clearBuf, TaskWipe
    <3> QED BY <3>1, <3>4 DEF TaskMove
  <2> QED BY <2>2, <2>3
<1>3. CASE Recv
  <2>1. RecvEnd
    BY <1>3, RecvIsEnd
  <2>2. CASE UNCHANGED <<busi, ref, cb>>
    BY <1>1, <2>1, <2>2 DEF RecvEnd
  <2>3. CASE \E full \in BOOLEAN : Dispatch(full)
    BY <2>1, <2>3, DispatchMove DEF TaskMove
  <2> QED BY <1>3, <2>2, <2>3 DEF Recv, recvFail, recvNothing, recvBad, recvFull,
             recvMore, recvWhole, Discard
<1>4. ASSUME NEW w \in Workers, popTask(w)
      PROVE  TaskMove
  <2>1. /\ busi \in Seq(Bufs) /\ Distinct(busi) /\ busi # <<>>
        /\ wbuf \in [Workers -> Bufs \cup {None}] /\ OneEach(wbuf) /\ wbuf[w] = None
    BY <1>0, <1>4 DEF OwnTypes, Once, Hands, popTask
  <2>2. /\ Head(busi) \in Bufs /\ Head(busi) \in Range(busi)
        /\ Range(busi') = Range(busi) \ {Head(busi)}
    BY <1>4, <2>1, PopFacts DEF popTask
  <2>3. Head(busi) # None /\ Head(busi) \notin Held(wbuf) /\ None \notin Held(wbuf)
    BY <1>0, <2>2, NetThAssumption DEF Places, Split, Apart, Held
  <2>4. /\ wbuf' \in [Workers -> Bufs \cup {None}] /\ wbuf'[w] = Head(busi)
        /\ \A v \in Workers : v # w => wbuf'[v] = wbuf[v]
    BY <1>4, <2>1, <2>2 DEF popTask
  <2>5. Held(wbuf') = (Held(wbuf) \ {None}) \cup ({Head(busi)} \ {None})
    BY <2>1, <2>2, <2>3, <2>4, HeldSet
  <2>6. TaskBufs' = TaskBufs
    BY <2>2, <2>3, <2>5 DEF TaskBufs
  <2> QED BY <1>4, <2>6 DEF popTask, TaskMove, TaskStay
<1>5. ASSUME NEW w \in Workers, clearAndPushIdle(w)
      PROVE  TaskMove
  <2>1. /\ wbuf \in [Workers -> Bufs \cup {None}] /\ OneEach(wbuf)
        /\ wbuf[w] \in Bufs /\ wbuf[w] \in Held(wbuf)
    BY <1>0, <1>5 DEF OwnTypes, Once, Hands, Held, clearAndPushIdle
  <2>2. /\ wbuf' \in [Workers -> Bufs \cup {None}] /\ wbuf'[w] = None
        /\ \A v \in Workers : v # w => wbuf'[v] = wbuf[v]
    BY <1>5, <2>1 DEF clearAndPushIdle
  <2>3. Held(wbuf') = Held(wbuf) \ {wbuf[w]}
    BY <2>1, <2>2, HeldReset
  <2>4. wbuf[w] \notin Range(busi) /\ busi' = busi
    BY <1>0, <1>5, <2>1 DEF Places, Split, Apart, clearAndPushIdle
  <2>5. TaskBufs' = TaskBufs \ {wbuf[w]}
    BY <2>3, <2>4 DEF TaskBufs
  <2> QED BY <1>5, <2>1, <2>5 DEF clearAndPushIdle, clearBuf, TaskMove, TaskWipe
<1>6. CASE Environment \/ addConnReg \/ Clock \/ UNCHANGED vars
  BY <1>1, <1>6 DEF Environment, addConn, PeerSend, PeerFin, addConnReg, Clock,
     TimePasses, vars, bufVars, workVars
<1>7. ASSUME NEW s \in Socks, onEpollIn(s)
      PROVE  TaskMove
  BY <1>1, <1>7 DEF onEpollIn, bufVars, workVars
<1>8. CASE popIdle \/ popIdleTimeout \/ getAllTimeOutBuf \/ getAllClosedSock
           \/ clearClosed \/ getAllTimeOutSock \/ clearTimeOutSock
  BY <1>1, <1>8 DEF popIdle, popIdleTimeout, getAllTimeOutBuf, getAllClosedSock,
     clearClosed, getAllTimeOutSock, clearTimeOutSock, bufVars, workVars
<1>9. ASSUME NEW b \in Bufs, clearTimeOut(b)
      PROVE  TaskMove
  BY <1>1, <1>9 DEF clearTimeOut, workVars
<1>10. ASSUME NEW w \in Workers, handle(w) \/ regSock(w) \/ regSockAdd(w)
       PROVE  TaskMove
  BY <1>1, <1>10 DEF handle, regSock, regSockAdd, bufVars
<1> QED BY <1>2, <1>3, <1>4, <1>5, <1>6, <1>7, <1>8, <1>9, <1>10 DEF Next, Lost, Net, Work

LEMMA NextRef ==
  ASSUME OwnInv, RefInv, [Next]_vars
  PROVE  /\ RefInv'
         /\ \A b \in Bufs : ref'[b] \in {ref[b], None} \/ (npc = "recv" /\ ref'[b] = cur)
<1>1. TaskMove
  BY NextTaskMove
<1>2. CASE TaskStay
  BY <1>2 DEF TaskStay, RefInv
<1>3. ASSUME NEW b \in Bufs, TaskWipe(b)
      PROVE  /\ RefInv'
             /\ \A c \in Bufs : ref'[c] \in {ref[c], None}
  BY <1>3, NetThAssumption DEF TaskWipe, RefInv
<1>4. ASSUME NEW full \in BOOLEAN, TaskNew(full)
      PROVE  /\ RefInv'
             /\ \A c \in Bufs : ref'[c] = ref[c] \/ (npc = "recv" /\ ref'[c] = cur)
  <2>1. ref' \in [Bufs -> Socks \cup {None}] /\ cb' \in [Bufs -> BOOLEAN]
    BY <1>4 DEF TaskNew, RefInv
  <2>2. \A c \in Bufs : c # nbuf => ref'[c] = ref[c] /\ cb'[c] = cb[c]
    BY <1>4 DEF TaskNew, RefInv
  <2>3. ref'[nbuf] = cur /\ npc = "recv" /\ cur \in Socks
    BY <1>4 DEF TaskNew, RefInv
  <2>4. TaskBufs' = TaskBufs \cup {nbuf}
    BY <1>4 DEF TaskNew
  <2>5. TaskBufs \subseteq Bufs
    <3>1. OwnTypes
      BY DEF OwnInv
    <3>2. Range(busi) \subseteq Bufs
      BY <3>1, LenProperties DEF OwnTypes, Range
    <3> QED BY <3>1, <3>2 DEF OwnTypes, TaskBufs, Held
  <2> QED BY <2>1, <2>2, <2>3, <2>4, <2>5 DEF RefInv
<1> QED BY <1>1, <1>2, <1>3, <1>4 DEF TaskMove

----------------------------------------------------------------------------
(* The connection table, epoll and the accepting thread.                   *)

TableTypes ==
  /\ ep \subseteq Socks /\ ready \subseteq ep
  /\ admitted \subseteq Socks /\ fin \subseteq Socks
  /\ closeWait \subseteq Socks /\ closed \subseteq Socks /\ vecS \subseteq Socks
  /\ joining \in Socks \cup {None}
  /\ tmr \in [Socks -> {"off", "run", "late", "dead"}]
  /\ npc \in {"wait", "pop", "recv", "reclaim", "delsock", "tmout", "close", "lost"}
  /\ fault \in {"none", "null", "freed", "erased", "deleted"}

(* The vector of sockets is filled and emptied within one round. *)
LoopInv ==
  /\ npc \notin {"delsock", "close"} => vecS = {}
  /\ npc = "delsock" => vecS \subseteq closeWait

(* A connection addConn has put into the table and not yet into epoll is known
   to nobody else, so nothing can drop it in between. *)
Fresh(s) == s \notin admitted \/ s = joining
JoinInv ==
  /\ conns \subseteq admitted
  /\ joining # None => joining \in conns
  /\ \A s \in Socks : Fresh(s) =>
       /\ s \notin ep /\ s \notin closeWait /\ s \notin vecS /\ s # cur
       /\ tmr[s] = "off" /\ epbuf[s] = None
       /\ \A b \in Bufs : ref[b] # s

TableInv == TableTypes /\ LoopInv /\ JoinInv /\ NoDanglingEvent

(* A worker's buffer refers to a connection. *)
LEMMA WorkerRef ==
  ASSUME OwnInv, RefInv, NEW w \in Workers, wpc[w] # "pop"
  PROVE  /\ wbuf[w] \in Bufs /\ wbuf[w] \in Held(wbuf) /\ wbuf[w] \in TaskBufs
         /\ ref[wbuf[w]] \in Socks
<1>1. OwnTypes /\ Hands
  BY DEF OwnInv
<1>2. wbuf[w] \in Bufs /\ wbuf[w] \in Held(wbuf)
  BY <1>1 DEF OwnTypes, Hands, Held
<1> QED BY <1>2 DEF RefInv, TaskBufs

LEMMA NextTableTypes ==
  ASSUME OwnInv, RefInv, TableTypes, [Next]_vars
  PROVE  TableTypes'
<1>1. conns \subseteq Socks /\ cur \in Socks \cup {None}
  BY DEF OwnInv, OwnTypes
<1>addConn. ASSUME NEW s \in Socks, addConn(s)
      PROVE  TableTypes'
  BY <1>addConn, <1>1 DEF addConn, epVars, bufVars, netVars, workVars, TableTypes
<1>addConnReg. ASSUME addConnReg
      PROVE  TableTypes'
  BY <1>addConnReg, <1>1 DEF addConnReg, addSock, connVars, bufVars, netVars, workVars,
         TableTypes
<1>PeerSend. ASSUME NEW s \in Socks, PeerSend(s)
      PROVE  TableTypes'
  BY <1>PeerSend, <1>1 DEF PeerSend, Raise, connVars, bufVars, netVars, workVars,
         TableTypes
<1>PeerFin. ASSUME NEW s \in Socks, PeerFin(s)
      PROVE  TableTypes'
  BY <1>PeerFin, <1>1 DEF PeerFin, Raise, connVars, bufVars, netVars, workVars,
         TableTypes
<1>TimePasses. ASSUME NEW s \in Socks, TimePasses(s)
      PROVE  TableTypes'
  BY <1>TimePasses, <1>1 DEF TimePasses, epVars, sockVars, bufVars, netVars, workVars,
         TableTypes
<1>onEpollErr. ASSUME NEW s \in Socks, onEpollErr(s)
      PROVE  TableTypes'
  BY <1>onEpollErr, <1>1 DEF onEpollErr, UseAfterErase, delSock, clearBuf, pushIdle, sockVars, netVars,
         workVars, TableTypes
<1>onEpollIn. ASSUME NEW s \in Socks, onEpollIn(s)
      PROVE  TableTypes'
  BY <1>onEpollIn, <1>1 DEF onEpollIn, sockVars, bufVars, workVars, TableTypes
<1>popIdle. ASSUME popIdle
      PROVE  TableTypes'
  BY <1>popIdle, <1>1 DEF popIdle, connVars, epVars, sockVars, workVars, TableTypes
<1>popIdleTimeout. ASSUME popIdleTimeout
      PROVE  TableTypes'
  BY <1>popIdleTimeout, <1>1 DEF popIdleTimeout, connVars, epVars, sockVars, bufVars,
         workVars, TableTypes
<1>recvFail. ASSUME recvFail
      PROVE  TableTypes'
  BY <1>recvFail, <1>1 DEF recvFail, Discard, leaveCtx, pushIdle, Done, epVars,
         sockVars, workVars, TableTypes
<1>recvNothing. ASSUME recvNothing
      PROVE  TableTypes'
  BY <1>recvNothing, <1>1 DEF recvNothing, pushIdle, Done, epVars, sockVars, workVars,
         TableTypes
<1>recvBad. ASSUME recvBad
      PROVE  TableTypes'
  BY <1>recvBad, <1>1 DEF recvBad, recvParsed, Discard, leaveCtx, pushIdle, Done,
         epVars, workVars, TableTypes
<1>recvFull. ASSUME recvFull
      PROVE  TableTypes'
  BY <1>recvFull, <1>1 DEF recvFull, recvParsed, Dispatch, Keep, pushTask, delSock,
         Discard, leaveCtx, pushIdle, Done, epVars, workVars, TableTypes
<1>recvMore. ASSUME recvMore
      PROVE  TableTypes'
  BY <1>recvMore, <1>1 DEF recvMore, recvParsed, Keep, Done, epVars, workVars,
         TableTypes
<1>recvWhole. ASSUME recvWhole
      PROVE  TableTypes'
  BY <1>recvWhole, <1>1 DEF recvWhole, recvParsed, Dispatch, Keep, pushTask, Done,
         epVars, workVars, TableTypes
<1>getAllTimeOutBuf. ASSUME getAllTimeOutBuf
      PROVE  TableTypes'
  BY <1>getAllTimeOutBuf, <1>1 DEF getAllTimeOutBuf, TimedOut, epVars, sockVars,
         workVars, TableTypes
<1>clearTimeOut. ASSUME NEW b \in Bufs, clearTimeOut(b)
      PROVE  TableTypes'
  BY <1>clearTimeOut, <1>1 DEF clearTimeOut, pushIdle, connVars, epVars, sockVars,
         workVars, TableTypes
<1>getAllClosedSock. ASSUME getAllClosedSock
      PROVE  TableTypes'
  BY <1>getAllClosedSock, <1>1 DEF getAllClosedSock, dropConns, epVars, sockVars,
         workVars, TableTypes
<1>clearClosed. ASSUME clearClosed
      PROVE  TableTypes'
  BY <1>clearClosed, <1>1 DEF clearClosed, delSock, connVars, sockVars, bufVars,
         workVars, TableTypes
<1>getAllTimeOutSock. ASSUME getAllTimeOutSock
      PROVE  TableTypes'
  BY <1>getAllTimeOutSock, <1>1 DEF getAllTimeOutSock, dropConns, epVars, sockVars,
         workVars, TableTypes
<1>clearTimeOutSock. ASSUME clearTimeOutSock
      PROVE  TableTypes'
  BY <1>clearTimeOutSock, <1>1 DEF clearTimeOutSock, delSock, connVars, bufVars,
         workVars, TableTypes
<1>popTask. ASSUME NEW w \in Workers, popTask(w)
      PROVE  TableTypes'
  BY <1>popTask, <1>1 DEF popTask, Goto, connVars, epVars, sockVars, netVars, TableTypes
<1>handle. ASSUME NEW w \in Workers, handle(w)
      PROVE  TableTypes'
  <2>1. ref[wbuf[w]] \in Socks
    BY <1>handle, WorkerRef DEF handle
  <2>2. closeWait' \subseteq Socks
    BY <1>handle, <2>1 DEF handle, TableTypes
  <2> QED BY <1>handle, <2>2 DEF handle, connVars, epVars, netVars, TableTypes
<1>regSock. ASSUME NEW w \in Workers, regSock(w)
      PROVE  TableTypes'
  BY <1>regSock, <1>1 DEF regSock, Goto, connVars, epVars, sockVars, bufVars, netVars,
         TableTypes
<1>regSockAdd. ASSUME NEW w \in Workers, regSockAdd(w)
      PROVE  TableTypes'
  <2>1. ref[wbuf[w]] \in Socks
    BY <1>regSockAdd, WorkerRef DEF regSockAdd
  <2>2. ep' \subseteq Socks /\ ready' \subseteq ep'
    BY <1>regSockAdd, <2>1 DEF regSockAdd, addSock, epVars, TableTypes
  <2> QED BY <1>regSockAdd, <2>2
          DEF regSockAdd, connVars, sockVars, netVars, TableTypes
<1>clearAndPushIdle. ASSUME NEW w \in Workers, clearAndPushIdle(w)
      PROVE  TableTypes'
  BY <1>clearAndPushIdle, <1>1 DEF clearAndPushIdle, clearBuf, pushIdle, Goto, connVars,
         epVars, sockVars, netVars, TableTypes
<1>vars. ASSUME UNCHANGED vars
      PROVE  TableTypes'
  BY <1>vars, <1>1 DEF vars, connVars, epVars, sockVars, bufVars, netVars, workVars,
         TableTypes
<1> QED BY <1>addConn, <1>addConnReg, <1>PeerSend, <1>PeerFin, <1>TimePasses,
           <1>onEpollErr, <1>onEpollIn, <1>popIdle, <1>popIdleTimeout, <1>recvFail,
           <1>recvNothing, <1>recvBad, <1>recvFull, <1>recvMore, <1>recvWhole,
           <1>getAllTimeOutBuf, <1>clearTimeOut, <1>getAllClosedSock, <1>clearClosed,
           <1>getAllTimeOutSock, <1>clearTimeOutSock, <1>popTask, <1>handle, <1>regSock,
           <1>regSockAdd, <1>clearAndPushIdle, <1>vars
        DEF Next, Lost, Environment, Clock, Net, Recv, Work

LEMMA NextLoop ==
  ASSUME OwnInv, RefInv, TableInv, [Next]_vars
  PROVE  LoopInv' /\ NoDanglingEvent'
<1>1. conns \subseteq Socks /\ cur \in Socks \cup {None}
  BY DEF OwnInv, OwnTypes
<1>2. TableTypes /\ LoopInv /\ JoinInv /\ NoDanglingEvent
  BY DEF TableInv
<1>addConn. ASSUME NEW s \in Socks, addConn(s)
      PROVE  LoopInv' /\ NoDanglingEvent'
  BY <1>addConn, <1>1, <1>2 DEF addConn, epVars, bufVars, netVars, workVars, TableTypes,
         LoopInv, NoDanglingEvent
<1>addConnReg. ASSUME addConnReg
      PROVE  LoopInv' /\ NoDanglingEvent'
  <2>1. joining \in conns
    BY <1>addConnReg, <1>2 DEF addConnReg, JoinInv
  <2> QED BY <1>addConnReg, <1>2, <2>1
          DEF addConnReg, addSock, connVars, netVars, LoopInv, NoDanglingEvent
<1>PeerSend. ASSUME NEW s \in Socks, PeerSend(s)
      PROVE  LoopInv' /\ NoDanglingEvent'
  BY <1>PeerSend, <1>1, <1>2 DEF PeerSend, Raise, connVars, bufVars, netVars, workVars,
         TableTypes, LoopInv, NoDanglingEvent
<1>PeerFin. ASSUME NEW s \in Socks, PeerFin(s)
      PROVE  LoopInv' /\ NoDanglingEvent'
  BY <1>PeerFin, <1>1, <1>2 DEF PeerFin, Raise, connVars, bufVars, netVars, workVars,
         TableTypes, LoopInv, NoDanglingEvent
<1>TimePasses. ASSUME NEW s \in Socks, TimePasses(s)
      PROVE  LoopInv' /\ NoDanglingEvent'
  BY <1>TimePasses, <1>1, <1>2 DEF TimePasses, epVars, sockVars, bufVars, netVars,
         workVars, TableTypes, LoopInv, NoDanglingEvent
<1>onEpollErr. ASSUME NEW s \in Socks, onEpollErr(s)
      PROVE  LoopInv' /\ NoDanglingEvent'
  BY <1>onEpollErr, <1>1, <1>2 DEF onEpollErr, UseAfterErase, delSock, clearBuf, pushIdle, sockVars,
         netVars, workVars, TableTypes, LoopInv, NoDanglingEvent
<1>onEpollIn. ASSUME NEW s \in Socks, onEpollIn(s)
      PROVE  LoopInv' /\ NoDanglingEvent'
  BY <1>onEpollIn, <1>1, <1>2 DEF onEpollIn, sockVars, bufVars, workVars, TableTypes,
         LoopInv, NoDanglingEvent
<1>popIdle. ASSUME popIdle
      PROVE  LoopInv' /\ NoDanglingEvent'
  BY <1>popIdle, <1>1, <1>2 DEF popIdle, connVars, epVars, sockVars, workVars,
         TableTypes, LoopInv, NoDanglingEvent
<1>popIdleTimeout. ASSUME popIdleTimeout
      PROVE  LoopInv' /\ NoDanglingEvent'
  BY <1>popIdleTimeout, <1>1, <1>2 DEF popIdleTimeout, connVars, epVars, sockVars,
         bufVars, workVars, TableTypes, LoopInv, NoDanglingEvent
<1>recvFail. ASSUME recvFail
      PROVE  LoopInv' /\ NoDanglingEvent'
  BY <1>recvFail, <1>1, <1>2 DEF recvFail, Discard, leaveCtx, pushIdle, Done, epVars,
         sockVars, workVars, TableTypes, LoopInv, NoDanglingEvent
<1>recvNothing. ASSUME recvNothing
      PROVE  LoopInv' /\ NoDanglingEvent'
  BY <1>recvNothing, <1>1, <1>2 DEF recvNothing, pushIdle, Done, epVars, sockVars,
         workVars, TableTypes, LoopInv, NoDanglingEvent
<1>recvBad. ASSUME recvBad
      PROVE  LoopInv' /\ NoDanglingEvent'
  BY <1>recvBad, <1>1, <1>2 DEF recvBad, recvParsed, Discard, leaveCtx, pushIdle, Done,
         epVars, workVars, TableTypes, LoopInv, NoDanglingEvent
<1>recvFull. ASSUME recvFull
      PROVE  LoopInv' /\ NoDanglingEvent'
  BY <1>recvFull, <1>1, <1>2 DEF recvFull, recvParsed, Dispatch, Keep, pushTask,
         delSock, Discard, leaveCtx, pushIdle, Done, epVars, workVars, TableTypes,
         LoopInv, NoDanglingEvent
<1>recvMore. ASSUME recvMore
      PROVE  LoopInv' /\ NoDanglingEvent'
  BY <1>recvMore, <1>1, <1>2 DEF recvMore, recvParsed, Keep, Done, epVars, workVars,
         TableTypes, LoopInv, NoDanglingEvent
<1>recvWhole. ASSUME recvWhole
      PROVE  LoopInv' /\ NoDanglingEvent'
  BY <1>recvWhole, <1>1, <1>2 DEF recvWhole, recvParsed, Dispatch, Keep, pushTask, Done,
         epVars, workVars, TableTypes, LoopInv, NoDanglingEvent
<1>getAllTimeOutBuf. ASSUME getAllTimeOutBuf
      PROVE  LoopInv' /\ NoDanglingEvent'
  BY <1>getAllTimeOutBuf, <1>1, <1>2 DEF getAllTimeOutBuf, TimedOut, epVars, sockVars,
         workVars, TableTypes, LoopInv, NoDanglingEvent
<1>clearTimeOut. ASSUME NEW b \in Bufs, clearTimeOut(b)
      PROVE  LoopInv' /\ NoDanglingEvent'
  BY <1>clearTimeOut, <1>1, <1>2 DEF clearTimeOut, pushIdle, connVars, epVars, sockVars,
         workVars, TableTypes, LoopInv, NoDanglingEvent
<1>getAllClosedSock. ASSUME getAllClosedSock
      PROVE  LoopInv' /\ NoDanglingEvent'
  BY <1>getAllClosedSock, <1>1, <1>2 DEF getAllClosedSock, dropConns, epVars, sockVars,
         workVars, TableTypes, LoopInv, NoDanglingEvent
<1>clearClosed. ASSUME clearClosed
      PROVE  LoopInv' /\ NoDanglingEvent'
  BY <1>clearClosed, <1>1, <1>2 DEF clearClosed, delSock, connVars, sockVars, bufVars,
         workVars, TableTypes, LoopInv, NoDanglingEvent
<1>getAllTimeOutSock. ASSUME getAllTimeOutSock
      PROVE  LoopInv' /\ NoDanglingEvent'
  BY <1>getAllTimeOutSock, <1>1, <1>2 DEF getAllTimeOutSock, dropConns, epVars,
         sockVars, workVars, TableTypes, LoopInv, NoDanglingEvent
<1>clearTimeOutSock. ASSUME clearTimeOutSock
      PROVE  LoopInv' /\ NoDanglingEvent'
  BY <1>clearTimeOutSock, <1>1, <1>2 DEF clearTimeOutSock, delSock, connVars, bufVars,
         workVars, TableTypes, LoopInv, NoDanglingEvent
<1>popTask. ASSUME NEW w \in Workers, popTask(w)
      PROVE  LoopInv' /\ NoDanglingEvent'
  BY <1>popTask, <1>1, <1>2 DEF popTask, Goto, connVars, epVars, sockVars, netVars,
         TableTypes, LoopInv, NoDanglingEvent
<1>handle. ASSUME NEW w \in Workers, handle(w)
      PROVE  LoopInv' /\ NoDanglingEvent'
  BY <1>handle, <1>1, <1>2 DEF handle, Goto, connVars, epVars, bufVars, netVars,
         TableTypes, LoopInv, NoDanglingEvent
<1>regSock. ASSUME NEW w \in Workers, regSock(w)
      PROVE  LoopInv' /\ NoDanglingEvent'
  BY <1>regSock, <1>1, <1>2 DEF regSock, Goto, connVars, epVars, sockVars, bufVars,
         netVars, TableTypes, LoopInv, NoDanglingEvent
<1>regSockAdd. ASSUME NEW w \in Workers, regSockAdd(w)
      PROVE  LoopInv' /\ NoDanglingEvent'
  BY <1>regSockAdd, <1>1, <1>2 DEF regSockAdd, Goto, addSock, connVars, epVars,
         sockVars, bufVars, netVars, TableTypes, LoopInv, NoDanglingEvent
<1>clearAndPushIdle. ASSUME NEW w \in Workers, clearAndPushIdle(w)
      PROVE  LoopInv' /\ NoDanglingEvent'
  BY <1>clearAndPushIdle, <1>1, <1>2 DEF clearAndPushIdle, clearBuf, pushIdle, Goto,
         connVars, epVars, sockVars, netVars, TableTypes, LoopInv, NoDanglingEvent
<1>vars. ASSUME UNCHANGED vars
      PROVE  LoopInv' /\ NoDanglingEvent'
  BY <1>vars, <1>1, <1>2 DEF vars, connVars, epVars, sockVars, bufVars, netVars,
         workVars, TableTypes, LoopInv, NoDanglingEvent
<1> QED BY <1>addConn, <1>addConnReg, <1>PeerSend, <1>PeerFin, <1>TimePasses,
           <1>onEpollErr, <1>onEpollIn, <1>popIdle, <1>popIdleTimeout, <1>recvFail,
           <1>recvNothing, <1>recvBad, <1>recvFull, <1>recvMore, <1>recvWhole,
           <1>getAllTimeOutBuf, <1>clearTimeOut, <1>getAllClosedSock, <1>clearClosed,
           <1>getAllTimeOutSock, <1>clearTimeOutSock, <1>popTask, <1>handle, <1>regSock,
           <1>regSockAdd, <1>clearAndPushIdle, <1>vars
        DEF Next, Lost, Environment, Clock, Net, Recv, Work

LEMMA NextJoin ==
  ASSUME OwnInv, RefInv, TableInv, [Next]_vars
  PROVE  JoinInv'
<1>1. OwnTypes /\ Hands
  BY DEF OwnInv
<1>2. TableTypes /\ LoopInv /\ JoinInv /\ NoDanglingEvent
  BY DEF TableInv
<1>3. \A b \in Bufs : ref'[b] \in {ref[b], None} \/ (npc = "recv" /\ ref'[b] = cur)
  BY NextRef
<1>4. None \notin Socks /\ None \notin Bufs
  BY NetThAssumption
<1>5. \A s \in Socks : Fresh(s) => \A b \in Bufs : ref'[b] # s
  BY <1>2, <1>3, <1>4 DEF JoinInv
<1>6. ASSUME /\ UNCHANGED <<admitted, joining>>
             /\ conns' \subseteq conns /\ (joining # None => joining \in conns')
             /\ \A s \in Socks : Fresh(s) =>
                  /\ s \notin ep' /\ s \notin closeWait' /\ s \notin vecS' /\ s # cur'
                  /\ tmr'[s] = "off" /\ epbuf'[s] = None
      PROVE  JoinInv'
  BY <1>2, <1>5, <1>6 DEF JoinInv, Fresh
<1>addConn. ASSUME NEW s \in Socks, addConn(s)
      PROVE  JoinInv'
  <2>1. \A t \in Socks : Fresh(t)' => Fresh(t)
    BY <1>addConn DEF addConn, Fresh
  <2> QED BY <1>addConn, <1>1, <1>2, <1>4, <2>1
          DEF addConn, epVars, bufVars, netVars, JoinInv, OwnTypes
<1>addConnReg. ASSUME addConnReg
      PROVE  JoinInv'
  <2>1. \A t \in Socks : Fresh(t)' => Fresh(t) /\ t # joining
    BY <1>addConnReg, <1>2, <1>4 DEF addConnReg, Fresh, JoinInv
  <2> QED BY <1>addConnReg, <1>1, <1>2, <1>4, <1>5, <2>1
          DEF addConnReg, addSock, connVars, netVars, JoinInv
<1>PeerSend. ASSUME NEW s \in Socks, PeerSend(s)
      PROVE  JoinInv'
  BY <1>PeerSend, <1>1, <1>2, <1>4, <1>6 DEF PeerSend, Raise, connVars, bufVars,
         netVars, workVars, TableTypes, LoopInv, JoinInv, Fresh, OwnTypes
<1>PeerFin. ASSUME NEW s \in Socks, PeerFin(s)
      PROVE  JoinInv'
  BY <1>PeerFin, <1>1, <1>2, <1>4, <1>6 DEF PeerFin, Raise, connVars, bufVars, netVars,
         workVars, TableTypes, LoopInv, JoinInv, Fresh, OwnTypes
<1>TimePasses. ASSUME NEW s \in Socks, TimePasses(s)
      PROVE  JoinInv'
  BY <1>TimePasses, <1>1, <1>2, <1>4, <1>6 DEF TimePasses, epVars, sockVars, bufVars,
         netVars, workVars, TableTypes, LoopInv, JoinInv, Fresh, OwnTypes
<1>onEpollErr. ASSUME NEW s \in Socks, onEpollErr(s)
      PROVE  JoinInv'
  BY <1>onEpollErr, <1>1, <1>2, <1>4, <1>6 DEF onEpollErr, UseAfterErase, delSock, clearBuf, pushIdle,
         sockVars, netVars, workVars, TableTypes, LoopInv, JoinInv, Fresh, OwnTypes
<1>onEpollIn. ASSUME NEW s \in Socks, onEpollIn(s)
      PROVE  JoinInv'
  BY <1>onEpollIn, <1>1, <1>2, <1>4, <1>6 DEF onEpollIn, sockVars, bufVars, workVars,
         TableTypes, LoopInv, JoinInv, Fresh, OwnTypes
<1>popIdle. ASSUME popIdle
      PROVE  JoinInv'
  BY <1>popIdle, <1>1, <1>2, <1>4, <1>6 DEF popIdle, connVars, epVars, sockVars,
         workVars, TableTypes, LoopInv, JoinInv, Fresh, OwnTypes
<1>popIdleTimeout. ASSUME popIdleTimeout
      PROVE  JoinInv'
  BY <1>popIdleTimeout, <1>1, <1>2, <1>4, <1>6 DEF popIdleTimeout, connVars, epVars,
         sockVars, bufVars, workVars, TableTypes, LoopInv, JoinInv, Fresh, OwnTypes
<1>recvFail. ASSUME recvFail
      PROVE  JoinInv'
  BY <1>recvFail, <1>1, <1>2, <1>4, <1>6 DEF recvFail, Discard, leaveCtx, pushIdle,
         Done, epVars, sockVars, workVars, TableTypes, LoopInv, JoinInv, Fresh, OwnTypes
<1>recvNothing. ASSUME recvNothing
      PROVE  JoinInv'
  BY <1>recvNothing, <1>1, <1>2, <1>4, <1>6 DEF recvNothing, pushIdle, Done, epVars,
         sockVars, workVars, TableTypes, LoopInv, JoinInv, Fresh, OwnTypes
<1>recvBad. ASSUME recvBad
      PROVE  JoinInv'
  BY <1>recvBad, <1>1, <1>2, <1>4, <1>6 DEF recvBad, recvParsed, Discard, leaveCtx,
         pushIdle, Done, epVars, workVars, TableTypes, LoopInv, JoinInv, Fresh, OwnTypes
<1>recvFull. ASSUME recvFull
      PROVE  JoinInv'
  BY <1>recvFull, <1>1, <1>2, <1>4, <1>6 DEF recvFull, recvParsed, Dispatch, Keep,
         pushTask, delSock, Discard, leaveCtx, pushIdle, Done, epVars, workVars,
         TableTypes, LoopInv, JoinInv, Fresh, OwnTypes
<1>recvMore. ASSUME recvMore
      PROVE  JoinInv'
  BY <1>recvMore, <1>1, <1>2, <1>4, <1>6 DEF recvMore, recvParsed, Keep, Done, epVars,
         workVars, TableTypes, LoopInv, JoinInv, Fresh, OwnTypes
<1>recvWhole. ASSUME recvWhole
      PROVE  JoinInv'
  BY <1>recvWhole, <1>1, <1>2, <1>4, <1>6 DEF recvWhole, recvParsed, Dispatch, Keep,
         pushTask, Done, epVars, workVars, TableTypes, LoopInv, JoinInv, Fresh, OwnTypes
<1>getAllTimeOutBuf. ASSUME getAllTimeOutBuf
      PROVE  JoinInv'
  BY <1>getAllTimeOutBuf, <1>1, <1>2, <1>4, <1>6 DEF getAllTimeOutBuf, TimedOut, epVars,
         sockVars, workVars, TableTypes, LoopInv, JoinInv, Fresh, OwnTypes
<1>clearTimeOut. ASSUME NEW b \in Bufs, clearTimeOut(b)
      PROVE  JoinInv'
  BY <1>clearTimeOut, <1>1, <1>2, <1>4, <1>6 DEF clearTimeOut, pushIdle, connVars,
         epVars, sockVars, workVars, TableTypes, LoopInv, JoinInv, Fresh, OwnTypes
<1>getAllClosedSock. ASSUME getAllClosedSock
      PROVE  JoinInv'
  BY <1>getAllClosedSock, <1>1, <1>2, <1>4, <1>6 DEF getAllClosedSock, dropConns,
         epVars, sockVars, workVars, TableTypes, LoopInv, JoinInv, Fresh, OwnTypes
<1>clearClosed. ASSUME clearClosed
      PROVE  JoinInv'
  BY <1>clearClosed, <1>1, <1>2, <1>4, <1>6 DEF clearClosed, delSock, connVars,
         sockVars, bufVars, workVars, TableTypes, LoopInv, JoinInv, Fresh, OwnTypes
<1>getAllTimeOutSock. ASSUME getAllTimeOutSock
      PROVE  JoinInv'
  BY <1>getAllTimeOutSock, <1>1, <1>2, <1>4, <1>6 DEF getAllTimeOutSock, dropConns,
         epVars, sockVars, workVars, TableTypes, LoopInv, JoinInv, Fresh, OwnTypes
<1>clearTimeOutSock. ASSUME clearTimeOutSock
      PROVE  JoinInv'
  BY <1>clearTimeOutSock, <1>1, <1>2, <1>4, <1>6 DEF clearTimeOutSock, delSock,
         connVars, bufVars, workVars, TableTypes, LoopInv, JoinInv, Fresh, OwnTypes
<1>popTask. ASSUME NEW w \in Workers, popTask(w)
      PROVE  JoinInv'
  BY <1>popTask, <1>1, <1>2, <1>4, <1>6 DEF popTask, Goto, connVars, epVars, sockVars,
         netVars, TableTypes, LoopInv, JoinInv, Fresh, OwnTypes
<1>handle. ASSUME NEW w \in Workers, handle(w)
      PROVE  JoinInv'
  <2>1. \A t \in Socks : Fresh(t) => t # ref[wbuf[w]]
    BY <1>handle, <1>2, WorkerRef DEF handle, JoinInv
  <2> QED BY <1>handle, <1>2, <1>6, <2>1 DEF handle, connVars, epVars, netVars, JoinInv
<1>regSock. ASSUME NEW w \in Workers, regSock(w)
      PROVE  JoinInv'
  BY <1>regSock, <1>1, <1>2, <1>4, <1>6 DEF regSock, Goto, connVars, epVars, sockVars,
         bufVars, netVars, TableTypes, LoopInv, JoinInv, Fresh, OwnTypes
<1>regSockAdd. ASSUME NEW w \in Workers, regSockAdd(w)
      PROVE  JoinInv'
  <2>1. \A t \in Socks : Fresh(t) => t # ref[wbuf[w]]
    BY <1>regSockAdd, <1>2, WorkerRef DEF regSockAdd, JoinInv
  <2> QED BY <1>regSockAdd, <1>2, <1>6, <2>1
          DEF regSockAdd, addSock, connVars, epVars, sockVars, netVars, JoinInv
<1>clearAndPushIdle. ASSUME NEW w \in Workers, clearAndPushIdle(w)
      PROVE  JoinInv'
  BY <1>clearAndPushIdle, <1>1, <1>2, <1>4, <1>6 DEF clearAndPushIdle, clearBuf,
         pushIdle, Goto, connVars, epVars, sockVars, netVars, TableTypes, LoopInv,
         JoinInv, Fresh, OwnTypes
<1>vars. ASSUME UNCHANGED vars
      PROVE  JoinInv'
  BY <1>vars, <1>1, <1>2, <1>4, <1>6 DEF vars, connVars, epVars, sockVars, bufVars,
         netVars, workVars, TableTypes, LoopInv, JoinInv, Fresh, OwnTypes
<1> QED BY <1>addConn, <1>addConnReg, <1>PeerSend, <1>PeerFin, <1>TimePasses,
           <1>onEpollErr, <1>onEpollIn, <1>popIdle, <1>popIdleTimeout, <1>recvFail,
           <1>recvNothing, <1>recvBad, <1>recvFull, <1>recvMore, <1>recvWhole,
           <1>getAllTimeOutBuf, <1>clearTimeOut, <1>getAllClosedSock, <1>clearClosed,
           <1>getAllTimeOutSock, <1>clearTimeOutSock, <1>popTask, <1>handle, <1>regSock,
           <1>regSockAdd, <1>clearAndPushIdle, <1>vars
        DEF Next, Lost, Environment, Clock, Net, Recv, Work

----------------------------------------------------------------------------
(* Packets that filled their buffer: a handler has the socket to itself.   *)

Big(b) == cb[b] /\ Blocking(b)

(* A worker goes to regSock with such a packet only; while nothing is closed,
   its connection is in the table, nothing was freed and no pointer failed. *)
BlockInv ==
  /\ ExclusiveBlock
  /\ \A w \in Workers : wpc[w] \in {"final", "add"} => cb[wbuf[w]]
  /\ WorkersSafeUnlessClosing
  /\ Closing = {} => \A b \in Bufs : Big(b) => ref[b] \in conns

(* A big packet appears in recvFull only, and keeps its connection. *)
NewBig == recvFull /\ SupportBlock
StillBig(b) == Big(b) /\ ref'[b] = ref[b]

LEMMA TasksAreBufs ==
  ASSUME OwnInv
  PROVE  /\ TaskBufs \subseteq Bufs /\ None \notin Bufs
         /\ \A b \in Bufs : Blocking(b) => b \in TaskBufs
<1>1. OwnTypes
  BY DEF OwnInv
<1>2. Range(busi) \subseteq Bufs
  BY <1>1, LenProperties DEF OwnTypes, Range
<1>3. None \notin Bufs
  BY NetThAssumption
<1> QED BY <1>1, <1>2, <1>3 DEF OwnTypes, TaskBufs, Held, Blocking

LEMMA NextBig ==
  ASSUME OwnInv, RefInv, [Next]_vars
  PROVE  \A b \in Bufs : Big(b)' => StillBig(b) \/ (b = nbuf /\ NewBig /\ ref'[b] = cur)
<1>0. OwnTypes /\ Hands /\ Once /\ Places
  BY Before
<1>a. /\ ref \in [Bufs -> Socks \cup {None}] /\ cb \in [Bufs -> BOOLEAN]
      /\ wpc \in [Workers -> {"pop", "handle", "final", "add", "clear"}]
      /\ wbuf \in [Workers -> Bufs \cup {None}]
  BY <1>0 DEF RefInv, OwnTypes
<1>1. CASE UNCHANGED <<busi, wbuf, wpc, ref, cb>>
  BY <1>1 DEF Big, StillBig, Blocking
<1>2. ASSUME NEW s \in Socks, onEpollErr(s)
      PROVE  \A b \in Bufs : Big(b)' => StillBig(b)
  <2>1. /\ UNCHANGED <<busi, wbuf, wpc>> /\ \A b \in Bufs : Blocking(b)' = Blocking(b)
    BY <1>2 DEF onEpollErr, workVars, Blocking
  <2>2. \A b \in Bufs : cb'[b] => cb[b] /\ ref'[b] = ref[b]
    BY <1>2, <1>a DEF onEpollErr, clearBuf
  <2> QED BY <2>1, <2>2 DEF Big, StillBig
<1>3. CASE Recv
  <2>1. RecvEnd
    BY <1>3, RecvIsEnd
  <2>2. /\ cur \in Socks /\ nbuf \in Bufs
        /\ \/ epbuf[cur] = nbuf /\ nbuf \in Held(epbuf) /\ NetHand = {}
           \/ epbuf[cur] = None /\ NetHand = {nbuf}
    BY <2>1, InHand
  <2>3. nbuf \notin TaskBufs /\ ~cb[nbuf]
    BY <1>0, <2>2 DEF Places, Split, Apart, TaskBufs, RefInv
  <2>4. busi \in Seq(Bufs)
    BY <1>0 DEF OwnTypes
  <2>5. Range(Append(busi, nbuf)) = Range(busi) \cup {nbuf}
    BY <2>2, <2>4, PushFacts
  <2>6. Range(busi') \subseteq Range(busi) \cup {nbuf} /\ UNCHANGED <<wpc, wbuf>>
    BY <1>3, <2>1, <2>5 DEF Recv, recvFail, recvNothing, recvBad, recvFull, recvMore,
       recvWhole, Discard, Dispatch, pushTask, RecvEnd
  <2>7. \A b \in Bufs : b # nbuf => cb'[b] = cb[b] /\ ref'[b] = ref[b]
    BY <1>3, <1>a DEF Recv, recvFail, recvNothing, recvBad, recvFull, recvMore,
       recvWhole, Discard, Dispatch
  <2>8. \A b \in Bufs : b # nbuf /\ Big(b)' => StillBig(b)
    BY <2>6, <2>7 DEF Big, StillBig, Blocking
  <2>9. cb'[nbuf] => NewBig /\ ref'[nbuf] = cur
    BY <1>3, <1>a, <2>2, <2>3 DEF Recv, recvFail, recvNothing, recvBad, recvFull,
       recvMore, recvWhole, Discard, Dispatch, NewBig
  <2> QED BY <2>8, <2>9 DEF Big
<1>4. ASSUME NEW w \in Workers, popTask(w)
      PROVE  \A b \in Bufs : Big(b)' => StillBig(b)
  <2>1. busi \in Seq(Bufs) /\ Distinct(busi) /\ busi # <<>>
    BY <1>0, <1>4 DEF OwnTypes, Once, popTask
  <2>2. /\ Head(busi) \in Range(busi)
        /\ Range(busi') = Range(busi) \ {Head(busi)}
    BY <1>4, <2>1, PopFacts DEF popTask
  <2>3. \A b \in Bufs : Blocking(b)' => Blocking(b)
    BY <1>4, <1>a, <2>2 DEF popTask, Goto, Blocking
  <2> QED BY <1>4, <2>3 DEF popTask, Big, StillBig
<1>5. ASSUME NEW w \in Workers, clearAndPushIdle(w)
      PROVE  \A b \in Bufs : Big(b)' => StillBig(b)
  <2>1. wbuf[w] \in Bufs
    BY <1>0, <1>5 DEF Hands, OwnTypes, clearAndPushIdle
  <2>2. \A b \in Bufs : cb'[b] => cb[b] /\ ref'[b] = ref[b]
    BY <1>5, <1>a, <2>1 DEF clearAndPushIdle, clearBuf
  <2>3. \A b \in Bufs : Blocking(b)' => Blocking(b)
    BY <1>5, <1>a DEF clearAndPushIdle, Goto, Blocking
  <2> QED BY <2>2, <2>3 DEF Big, StillBig
<1>6. CASE Environment \/ addConnReg \/ Clock \/ UNCHANGED vars
  BY <1>1, <1>6 DEF Environment, addConn, PeerSend, PeerFin, addConnReg, Clock,
     TimePasses, vars, bufVars, workVars
<1>7. ASSUME NEW s \in Socks, onEpollIn(s)
      PROVE  UNCHANGED <<busi, wbuf, wpc, ref, cb>>
  BY <1>7 DEF onEpollIn, bufVars, workVars
<1>8. CASE popIdle \/ popIdleTimeout \/ getAllTimeOutBuf \/ getAllClosedSock
           \/ clearClosed \/ getAllTimeOutSock \/ clearTimeOutSock
  BY <1>1, <1>8 DEF popIdle, popIdleTimeout, getAllTimeOutBuf, getAllClosedSock,
     clearClosed, getAllTimeOutSock, clearTimeOutSock, bufVars, workVars
<1>9. ASSUME NEW b \in Bufs, clearTimeOut(b)
      PROVE  UNCHANGED <<busi, wbuf, wpc, ref, cb>>
  BY <1>9 DEF clearTimeOut, workVars
<1>10. ASSUME NEW w \in Workers, handle(w) \/ regSock(w) \/ regSockAdd(w)
       PROVE  \A b \in Bufs : Big(b)' => StillBig(b)
  <2>1. UNCHANGED <<busi, wbuf, ref, cb>>
    BY <1>10 DEF handle, regSock, regSockAdd, bufVars
  <2>2. wpc[w] \in {"handle", "final", "add"} /\ \A v \in Workers : v # w => wpc'[v] = wpc[v]
    BY <1>10, <1>a DEF handle, regSock, regSockAdd, Goto
  <2>3. \A b \in Bufs : Blocking(b)' => Blocking(b)
    BY <2>1, <2>2 DEF Blocking
  <2> QED BY <2>1, <2>3 DEF Big, StillBig
<1> QED BY <1>1, <1>2, <1>3, <1>4, <1>5, <1>6, <1>7, <1>8, <1>9, <1>10
        DEF Next, Lost, Net, Work

(* Both parts of the argument for a step: old big packets keep their socket,
   and a new one takes a socket nobody else has. *)
LEMMA NextExclusive ==
  ASSUME OwnInv, RefInv, TableInv, BlockInv, [Next]_vars
  PROVE  ExclusiveBlock'
<1>1. OwnTypes /\ Hands
  BY DEF OwnInv
<1>2. TableTypes /\ JoinInv
  BY DEF TableInv
<1>3. \A b \in Bufs : Big(b)' => StillBig(b) \/ (b = nbuf /\ NewBig /\ ref'[b] = cur)
  BY NextBig
<1>4. None \notin Socks /\ None \notin Bufs
  BY NetThAssumption
<1>5. \A b \in Bufs : Big(b) => ref[b] \in Socks
  BY TasksAreBufs DEF RefInv, Big
<1>6. /\ \A b \in Bufs : Big(b) => /\ ref[b] \notin ep /\ ref[b] # cur
                                   /\ epbuf[ref[b]] = None
      /\ \A b, c \in Bufs : Big(b) /\ Big(c) /\ ref[c] = ref[b] => c = b
  BY DEF BlockInv, ExclusiveBlock, Big
<1>7. SUFFICES
        /\ \A b \in Bufs : Big(b)' => /\ ref'[b] \notin ep' /\ ref'[b] # cur'
                                      /\ epbuf'[ref'[b]] = None
        /\ \A b, c \in Bufs : Big(b)' /\ Big(c)' /\ ref'[c] = ref'[b] => c = b
  BY DEF ExclusiveBlock, Big
<1>8. \A b, c \in Bufs : Big(b)' /\ Big(c)' /\ ref'[c] = ref'[b] => c = b
  BY <1>3, <1>6 DEF StillBig
<1> DEFINE Apart3(b) == ref[b] \notin ep' /\ ref[b] # cur' /\ epbuf'[ref[b]] = None
<1>9. SUFFICES /\ \A b \in Bufs : Big(b) /\ Big(b)' => Apart3(b)
               /\ NewBig => cur \notin ep' /\ cur # cur' /\ epbuf'[cur] = None
  BY <1>3, <1>8 DEF StillBig
<1>10. CASE ep' \subseteq ep /\ cur' \in {cur, None} /\ ~NewBig
            /\ \A s \in Socks : epbuf'[s] \in {epbuf[s], None}
  BY <1>4, <1>5, <1>6, <1>10
<1>11. NewBig => npc = "recv" /\ npc' = "wait"
  BY DEF NewBig, recvFull, recvParsed, Done
<1>12. CASE NewBig
  <2>1. RecvEnd
    BY <1>12, RecvIsEnd DEF NewBig, Recv
  <2>2. cur \in Socks /\ ep' = ep \ {cur} /\ cur' = None
        /\ epbuf' = [epbuf EXCEPT ![cur] = None]
    BY <1>1, <1>12, <2>1 DEF NewBig, recvFull, Dispatch, delSock, RecvEnd, Hands
  <2> QED BY <1>1, <1>4, <1>5, <1>6, <2>2 DEF OwnTypes
<1>13. CASE Recv /\ ~NewBig
  <2>1. RecvEnd /\ cur \in Socks
    BY <1>1, <1>13, RecvIsEnd DEF RecvEnd, Hands
  <2>2. ep' \subseteq ep
    BY <1>13 DEF Recv, recvFail, recvNothing, recvBad, recvFull, recvMore, recvWhole,
       delSock, epVars
  <2>3. \A s \in Socks : s # cur => epbuf'[s] = epbuf[s]
    BY <1>1, <1>13, <2>1 DEF Recv, recvFail, recvNothing, recvBad, recvFull, recvMore,
       recvWhole, Discard, Dispatch, OwnTypes
  <2> QED BY <1>4, <1>5, <1>6, <1>13, <2>1, <2>2, <2>3 DEF RecvEnd
<1>14. CASE addConnReg
  <2>1. joining \in Socks /\ ep' = ep \cup {joining} /\ UNCHANGED <<epbuf, cur, npc>>
    BY <1>2, <1>14 DEF TableTypes, addConnReg, addSock, connVars, netVars
  <2>2. \A b \in Bufs : ref[b] # joining
    BY <1>2, <2>1 DEF JoinInv, Fresh
  <2> QED BY <1>6, <1>11, <2>1, <2>2
<1>15. ASSUME NEW s \in Socks, onEpollIn(s)
       PROVE  /\ \A b \in Bufs : Big(b) /\ Big(b)' => Apart3(b)
              /\ ~NewBig
  <2>1. s \in ep /\ cur' = s /\ UNCHANGED <<ep, epbuf>> /\ npc # "recv"
    BY <1>2, <1>15 DEF onEpollIn, TableTypes
  <2> QED BY <1>6, <1>11, <2>1
<1>16. ASSUME NEW w \in Workers, regSockAdd(w)
       PROVE  /\ \A b \in Bufs : Big(b) /\ Big(b)' => Apart3(b)
              /\ ~NewBig
  <2>1. UNCHANGED <<epbuf, cur, npc, busi, wbuf, ref, cb>> /\ wpc[w] = "add"
    BY <1>16 DEF regSockAdd, connVars, netVars, bufVars
  <2>2. CASE ep' = ep
    BY <1>6, <1>11, <2>1, <2>2
  <2>3. CASE ep' = ep \cup {ref[wbuf[w]]} /\ wpc' = [wpc EXCEPT ![w] = "clear"]
    <3>1. wbuf[w] \in Bufs /\ wbuf[w] \in Held(wbuf)
      BY <2>1, WorkerRef
    <3>2. cb[wbuf[w]] /\ Blocking(wbuf[w])
      BY <2>1 DEF BlockInv, Blocking
    <3>3. wpc \in [Workers -> {"pop", "handle", "final", "add", "clear"}] /\ OneEach(wbuf)
          /\ wbuf \in [Workers -> Bufs \cup {None}]
      BY <1>1, Before DEF OwnTypes, Once
    <3>4. wbuf[w] \notin Range(busi)
      BY <3>1, Before DEF Places, Split, Apart
    <3>a. PICK x \in Bufs : x = wbuf[w]
      BY <3>1
    <3>5. ~Blocking(x)'
      BY <1>4, <2>1, <2>3, <3>1, <3>3, <3>4, <3>a DEF Blocking, OneEach
    <3>6. \A b \in Bufs : Big(b) /\ Big(b)' => ref[b] # ref[wbuf[w]]
      BY <1>6, <3>1, <3>2, <3>5, <3>a DEF Big
    <3> QED BY <1>6, <1>11, <2>1, <2>3, <3>6
  <2> QED BY <1>16, <2>2, <2>3 DEF regSockAdd, addSock, Goto, epVars
<1>17. CASE Environment \/ Clock \/ UNCHANGED vars
  BY <1>10, <1>11, <1>17 DEF Environment, addConn, PeerSend, PeerFin, Clock, TimePasses,
     vars, connVars, epVars, netVars
<1>18. ASSUME NEW s \in Socks, onEpollErr(s)
       PROVE  ep' \subseteq ep /\ cur' = cur /\ npc = "wait"
              /\ \A t \in Socks : epbuf'[t] \in {epbuf[t], None}
  BY <1>1, <1>18 DEF onEpollErr, UseAfterErase, delSock, OwnTypes
<1>19. CASE popIdle \/ popIdleTimeout \/ clearClosed \/ clearTimeOutSock
            \/ \E b \in Bufs : clearTimeOut(b)
  BY <1>10, <1>11, <1>19 DEF popIdle, popIdleTimeout, clearClosed, clearTimeOutSock,
     clearTimeOut, delSock, connVars, epVars
<1>20. CASE getAllTimeOutBuf \/ getAllClosedSock \/ getAllTimeOutSock
  BY <1>10, <1>11, <1>20 DEF getAllTimeOutBuf, getAllClosedSock, getAllTimeOutSock,
     dropConns, epVars
<1>21. ASSUME NEW w \in Workers, popTask(w) \/ handle(w) \/ regSock(w) \/ clearAndPushIdle(w)
       PROVE  UNCHANGED <<ep, cur, npc, epbuf>>
  BY <1>21 DEF popTask, handle, regSock, clearAndPushIdle, connVars, epVars, netVars
<1>22. ASSUME NEW s \in Socks, onEpollErr(s)
       PROVE  \A b \in Bufs : Big(b) /\ Big(b)' => Apart3(b)
  BY <1>10, <1>11, <1>18, <1>22
<1>23. ASSUME NEW w \in Workers, popTask(w) \/ handle(w) \/ regSock(w) \/ clearAndPushIdle(w)
       PROVE  \A b \in Bufs : Big(b) /\ Big(b)' => Apart3(b)
  BY <1>10, <1>11, <1>21, <1>23
<1> HIDE DEF Apart3
<1> QED BY <1>12, <1>13, <1>14, <1>15, <1>16, <1>17, <1>19, <1>20, <1>22, <1>23
        DEF Next, Lost, Net, Work

(* What no worker is to blame for. *)
NetFaults == {"none", "erased", "deleted"}

(* Once something was closed, something stays closed. *)
LEMMA NextClosing ==
  ASSUME TableInv, [Next]_vars, Closing' = {}
  PROVE  Closing = {}
<1>1. closeWait \subseteq closeWait' /\ closed \subseteq closed'
  BY DEF Next, Lost, Environment, addConn, PeerSend, PeerFin, addConnReg, Clock, TimePasses, Net,
     onEpollErr, onEpollIn, popIdle, popIdleTimeout, Recv, recvFail, recvNothing, recvBad,
     recvFull, recvMore, recvWhole, recvParsed, getAllTimeOutBuf, clearTimeOut,
     getAllClosedSock, clearClosed, getAllTimeOutSock, clearTimeOutSock, Work, popTask,
     handle, regSock, regSockAdd, clearAndPushIdle, vars, sockVars
<1>2. \/ vecS' = vecS
      \/ vecS = {}
      \/ npc = "delsock"
      \/ closed' = closed \cup vecS
  BY DEF Next, Lost, Environment, addConn, PeerSend, PeerFin, addConnReg, Clock, TimePasses, Net,
     onEpollErr, onEpollIn, popIdle, popIdleTimeout, Recv, recvFail, recvNothing, recvBad,
     recvFull, recvMore, recvWhole, recvParsed, getAllTimeOutBuf, clearTimeOut,
     getAllClosedSock, clearClosed, getAllTimeOutSock, clearTimeOutSock, Work, popTask,
     handle, regSock, regSockAdd, clearAndPushIdle, vars, netVars, TableInv, LoopInv
<1>3. npc = "delsock" => vecS \subseteq closeWait
  BY DEF TableInv, LoopInv
<1> QED BY <1>1, <1>2, <1>3 DEF Closing

LEMMA NextSafe ==
  ASSUME OwnInv, RefInv, TableInv, BlockInv, [Next]_vars, Closing' = {}
  PROVE  fault' \in NetFaults /\ freed' = {} /\ \A b \in Bufs : Big(b)' => ref'[b] \in conns'
<1>1. /\ Closing = {} /\ fault \in NetFaults /\ freed = {}
      /\ \A b \in Bufs : Big(b) => ref[b] \in conns
  BY NextClosing DEF BlockInv, WorkersSafeUnlessClosing, TableInv, TableTypes, NetFaults
<1>2. vecS = {} /\ vecS' = {}
  BY <1>1 DEF Closing
<1>3. OwnTypes /\ Hands /\ TableTypes /\ NoDanglingEvent
  BY DEF OwnInv, TableInv
<1>4. \A b \in Bufs : Big(b)' => StillBig(b) \/ (b = nbuf /\ NewBig /\ ref'[b] = cur)
  BY NextBig
<1>5. freed' = {}
  BY <1>1, <1>2 DEF Next, Lost, Environment, addConn, PeerSend, PeerFin, addConnReg, Clock,
     TimePasses, Net, onEpollErr, onEpollIn, popIdle, popIdleTimeout, Recv, recvFail,
     recvNothing, recvBad, recvFull, recvMore, recvWhole, recvParsed, getAllTimeOutBuf,
     clearTimeOut, getAllClosedSock, clearClosed, getAllTimeOutSock, clearTimeOutSock,
     dropConns, Work, popTask, handle, regSock, regSockAdd, clearAndPushIdle, vars, bufVars
<1>6. ASSUME NEW w \in Workers, regSock(w) \/ regSockAdd(w)
      PROVE  fault' = fault
  <2>1. wpc[w] \in {"final", "add"} /\ wbuf[w] \in Bufs
    BY <1>6, WorkerRef DEF regSock, regSockAdd
  <2>2. Big(wbuf[w])
    BY <2>1 DEF BlockInv, Big, Blocking
  <2>3. ref[wbuf[w]] \in conns
    BY <1>1, <2>1, <2>2
  <2> QED BY <1>1, <1>6, <2>3 DEF regSock, regSockAdd
<1>7. fault' \in NetFaults
  <2>1. ASSUME NEW s \in Socks, onEpollErr(s)
        PROVE  fault' \in NetFaults
    BY <1>1, <2>1 DEF onEpollErr, UseAfterErase, NetFaults
  <2> QED
    BY <1>1, <1>6, <2>1
    DEF Next, Lost, Environment, addConn, PeerSend, PeerFin, addConnReg, Clock,
     TimePasses, Net, onEpollIn, popIdle, popIdleTimeout, Recv, recvFail,
     recvNothing, recvBad, recvFull, recvMore, recvWhole, recvParsed, getAllTimeOutBuf,
     clearTimeOut, getAllClosedSock, clearClosed, getAllTimeOutSock, clearTimeOutSock,
     Work, popTask, handle, clearAndPushIdle, vars
<1>8. \/ conns \subseteq conns'
      \/ \E s \in ready : conns' = conns \ {s}
  BY <1>2 DEF Next, Lost, Environment, addConn, PeerSend, PeerFin, addConnReg, Clock,
     TimePasses, Net, onEpollErr, onEpollIn, popIdle, popIdleTimeout, Recv, recvFail,
     recvNothing, recvBad, recvFull, recvMore, recvWhole, recvParsed, getAllTimeOutBuf,
     clearTimeOut, getAllClosedSock, clearClosed, getAllTimeOutSock, clearTimeOutSock,
     dropConns, Work, popTask, handle, regSock, regSockAdd, clearAndPushIdle, vars, connVars
<1>9. \A b \in Bufs : Big(b) => ref[b] \notin ready
  BY <1>3 DEF BlockInv, ExclusiveBlock, Big, TableTypes
<1>10. NewBig => cur \in conns /\ conns' = conns
  BY <1>3 DEF NewBig, recvFull, recvParsed, NoDanglingEvent
<1> QED BY <1>1, <1>4, <1>5, <1>7, <1>8, <1>9, <1>10 DEF StillBig

LEMMA NextBlock ==
  ASSUME OwnInv, RefInv, TableInv, BlockInv, [Next]_vars
  PROVE  BlockInv'
<1>1. OwnTypes /\ Hands
  BY DEF OwnInv
<1>2. ExclusiveBlock'
  BY NextExclusive
<1>3. WorkersSafeUnlessClosing' /\ (Closing' = {} => \A b \in Bufs : Big(b)' => ref'[b] \in conns')
  BY NextSafe DEF WorkersSafeUnlessClosing, NetFaults
<1>4. \A w \in Workers : wpc'[w] \in {"final", "add"} => cb'[wbuf'[w]]
  <2> SUFFICES ASSUME NEW v \in Workers, wpc'[v] \in {"final", "add"}
               PROVE  cb'[wbuf'[v]]
    OBVIOUS
  <2>a. /\ wpc \in [Workers -> {"pop", "handle", "final", "add", "clear"}]
        /\ wbuf \in [Workers -> Bufs \cup {None}] /\ cb \in [Bufs -> BOOLEAN]
        /\ OneEach(wbuf)
    BY <1>1, Before DEF OwnTypes, RefInv, Once
  <2>1. wbuf'[v] = wbuf[v] /\ wpc[v] # "pop" /\ (wpc[v] \in {"final", "add"} \/ cb[wbuf[v]])
    BY <2>a DEF Next, Lost, Environment, addConn, PeerSend, PeerFin, addConnReg, Clock,
       TimePasses, Net, onEpollErr, onEpollIn, popIdle, popIdleTimeout, Recv, recvFail,
       recvNothing, recvBad, recvFull, recvMore, recvWhole, recvParsed, getAllTimeOutBuf,
       clearTimeOut, getAllClosedSock, clearClosed, getAllTimeOutSock, clearTimeOutSock,
       Work, popTask, handle, regSock, regSockAdd, clearAndPushIdle, Goto, vars, workVars
  <2>2. cb[wbuf[v]] /\ wbuf[v] \in TaskBufs /\ wbuf[v] \in Bufs
    BY <2>1, WorkerRef DEF BlockInv
  <2>3. TaskMove
    BY NextTaskMove
  <2>4. CASE TaskStay
    BY <2>1, <2>2, <2>4 DEF TaskStay
  <2>5. ASSUME NEW b \in Bufs, TaskWipe(b)
        PROVE  cb'[wbuf'[v]]
    <3>1. wpc'[v] # "pop" /\ wbuf'[v] # None
      BY <2>1, <2>2, NetThAssumption
    <3>2. wbuf' \in [Workers -> Bufs \cup {None}]
      BY NextOwn DEF OwnInv, OwnTypes
    <3>3. wbuf'[v] \in TaskBufs'
      BY <3>1, <3>2 DEF TaskBufs, Held
    <3> QED BY <2>a, <2>1, <2>2, <2>5, <3>3 DEF TaskWipe
  <2>6. ASSUME NEW full \in BOOLEAN, TaskNew(full)
        PROVE  cb'[wbuf'[v]]
    BY <2>a, <2>1, <2>2, <2>6 DEF TaskNew
  <2> QED BY <2>3, <2>4, <2>5, <2>6 DEF TaskMove
<1> QED BY <1>2, <1>3, <1>4 DEF BlockInv

----------------------------------------------------------------------------
(* Byte streams.                                                           *)

Packets == Seq(Socks \X (1..MaxSend))

FlowTypes ==
  /\ sent \in [Socks -> 0..MaxSend] /\ rcvd \in [Socks -> Nat]
  /\ \A s \in Socks : rcvd[s] <= sent[s]
  /\ data \in [Bufs -> Packets]
  /\ ctx \in [Bufs -> SUBSET (Socks \cup {None})]
  /\ ~UseCtx => \A b \in Bufs : ctx[b] = {}

(* A buffer nobody receives into is empty, and its context too, unless it is
   left over from a packet thrown away. *)
CleanInv ==
  \A b \in Range(idle) \cup NetHand : data[b] = <<>> /\ ctx[b] \in {{}, {None}}

CtxOf(b, s) == UseCtx => ctx[b] \in {{None}, {s}}

(* An attached buffer holds the end of what was read from its connection, and
   has room. *)
AttInv ==
  \A s \in Socks : epbuf[s] # None =>
    /\ CtxOf(epbuf[s], s)
    /\ \E m \in Nat : /\ m < rcvd[s] /\ rcvd[s] - m < Cap
                      /\ data[epbuf[s]] = Chunks(s, m, rcvd[s])

(* A task holds some of it. *)
TaskInv ==
  \A b \in TaskBufs :
    /\ CtxOf(b, ref[b])
    /\ \E m, n \in Nat : m < n /\ n <= rcvd[ref[b]] /\ data[b] = Chunks(ref[b], m, n)

(* The order of a connection's packets: StreamOrder's second half. *)
OrderInv ==
  \A i \in DOMAIN busi :
    /\ \A j \in DOMAIN busi :
         i < j /\ ref[busi[i]] = ref[busi[j]] =>
           Last(data[busi[i]])[2] < Head(data[busi[j]])[2]
    /\ \A s \in Socks :
         ref[busi[i]] = s /\ epbuf[s] # None =>
           Last(data[busi[i]])[2] < Head(data[epbuf[s]])[2]

FlowInv == FlowTypes /\ CleanInv /\ AttInv /\ TaskInv /\ OrderInv

(* Runs of chunks. *)
LEMMA ChunksFacts ==
  ASSUME NEW s \in Socks, NEW m \in Nat, NEW n \in Nat, m <= n, n <= MaxSend
  PROVE  /\ Chunks(s, m, n) \in Packets /\ Len(Chunks(s, m, n)) = n - m
         /\ DOMAIN Chunks(s, m, n) = 1..(n - m)
         /\ \A i \in 1..(n - m) : Chunks(s, m, n)[i] = <<s, m + i>>
         /\ m < n => /\ Chunks(s, m, n) # <<>>
                     /\ Head(Chunks(s, m, n)) = <<s, m + 1>>
                     /\ Last(Chunks(s, m, n)) = <<s, n>>
<1> DEFINE c == Chunks(s, m, n)
           k == n - m
<1>0. MaxSend \in Nat /\ k \in Nat
  BY NetThAssumption
<1>1. DOMAIN c = 1..k /\ \A i \in 1..k : c[i] = <<s, m + i>>
  BY DEF Chunks
<1>2. \A i \in 1..k : m + i \in 1..MaxSend
  BY <1>0
<1>3. c \in [1..k -> Socks \X (1..MaxSend)]
  <2>1. \A i \in 1..k : <<s, m + i>> \in Socks \X (1..MaxSend)
    BY <1>2
  <2> QED BY <2>1 DEF Chunks
<1>4. c \in Packets
  BY <1>0, <1>3, SeqDef DEF Packets
<1>5. Len(c) = k
  <2>1. Len(c) \in Nat /\ DOMAIN c = 1..Len(c)
    BY <1>4, LenProperties DEF Packets
  <2> QED BY <1>0, <1>1, <2>1
<1>6. ASSUME m < n
      PROVE  c # <<>> /\ Head(c) = <<s, m + 1>> /\ Last(c) = <<s, n>>
  <2>1. 1 \in 1..k /\ k \in 1..k /\ m + k = n /\ k # 0
    BY <1>6
  <2>2. c # <<>>
    BY <1>4, <1>5, <2>1, EmptySeq DEF Packets
  <2>3. Head(c) = c[1]
    BY <1>4, <2>2, HeadTailProperties DEF Packets
  <2>4. Last(c) = c[k]
    BY <1>5 DEF Last
  <2>5. c[1] = <<s, m + 1>> /\ c[k] = <<s, m + k>>
    BY <1>1, <2>1
  <2> QED BY <2>1, <2>2, <2>3, <2>4, <2>5
<1> QED BY <1>1, <1>4, <1>5, <1>6

LEMMA ChunksJoin ==
  ASSUME NEW s \in Socks, NEW m \in Nat, NEW n \in Nat, NEW p \in Nat,
         m <= n, n <= p, p <= MaxSend
  PROVE  Chunks(s, m, n) \o Chunks(s, n, p) = Chunks(s, m, p)
<1> DEFINE a == Chunks(s, m, n)
           b == Chunks(s, n, p)
           c == Chunks(s, m, p)
<1>0. MaxSend \in Nat /\ m <= p /\ n <= MaxSend
  BY NetThAssumption
<1>1. a \in Packets /\ Len(a) = n - m /\ \A i \in 1..(n - m) : a[i] = <<s, m + i>>
  BY <1>0, ChunksFacts
<1>2. b \in Packets /\ Len(b) = p - n /\ \A i \in 1..(p - n) : b[i] = <<s, n + i>>
  BY <1>0, ChunksFacts
<1>3. c \in Packets /\ Len(c) = p - m /\ \A i \in 1..(p - m) : c[i] = <<s, m + i>>
  BY <1>0, ChunksFacts
<1> HIDE DEF a, b, c
<1>4. /\ a \o b \in Packets /\ Len(a \o b) = Len(a) + Len(b)
      /\ \A i \in 1..(Len(a) + Len(b)) :
           (a \o b)[i] = IF i <= Len(a) THEN a[i] ELSE b[i - Len(a)]
  BY <1>1, <1>2, ConcatProperties DEF Packets
<1>5. Len(a) + Len(b) = p - m
  BY <1>1, <1>2
<1>6. ASSUME NEW i \in 1..(p - m)
      PROVE  (a \o b)[i] = c[i]
  <2>1. CASE i <= n - m
    <3>1. i \in 1..(n - m)
      BY <2>1
    <3> QED BY <1>1, <1>3, <1>4, <1>5, <2>1, <3>1
  <2>2. CASE ~(i <= n - m)
    <3>1. i - (n - m) \in 1..(p - n) /\ n + (i - (n - m)) = m + i
      BY <1>0, <2>2
    <3>2. (a \o b)[i] = b[i - (n - m)]
      BY <1>1, <1>4, <1>5, <2>2
    <3> QED BY <1>2, <1>3, <3>1, <3>2
  <2> QED BY <2>1, <2>2
<1>7. a \o b = c
  BY <1>3, <1>4, <1>5, <1>6, SeqEqual DEF Packets
<1> QED BY <1>7 DEF a, b, c

(* What recv leaves in the buffer: the end of the stream, up to the capacity. *)
LEMMA RecvRun ==
  ASSUME OwnInv, FlowInv, npc = "recv"
  PROVE  /\ Got(cur, nbuf) \in Nat /\ rcvd[cur] + Got(cur, nbuf) <= sent[cur]
         /\ \E m \in Nat :
              /\ m <= rcvd[cur]
              /\ RecvData(cur, nbuf) = Chunks(cur, m, rcvd[cur] + Got(cur, nbuf))
              /\ Len(RecvData(cur, nbuf)) = (rcvd[cur] + Got(cur, nbuf)) - m
              /\ Len(RecvData(cur, nbuf)) <= Cap
              /\ Unread(cur) > 0 \/ data[nbuf] # <<>> => m < rcvd[cur] + Got(cur, nbuf)
              /\ epbuf[cur] = None => m = rcvd[cur] /\ ctx[nbuf] \in {{}, {None}}
              /\ epbuf[cur] # None => /\ epbuf[cur] = nbuf /\ Head(data[nbuf])[2] = m + 1
                                      /\ CtxOf(nbuf, cur)
<1>0. /\ cur \in Socks /\ nbuf \in Bufs /\ epbuf[cur] \in {None, nbuf} /\ nbuf # None
      /\ MaxSend \in Nat /\ Cap \in Nat \ {0}
  BY NetThAssumption DEF OwnInv, Hands
<1>1. /\ rcvd[cur] \in Nat /\ sent[cur] \in Nat /\ rcvd[cur] <= sent[cur]
      /\ sent[cur] <= MaxSend /\ data[nbuf] \in Packets
      /\ Unread(cur) = sent[cur] - rcvd[cur]
  BY <1>0 DEF FlowInv, FlowTypes, Unread
<1>2. PICK m \in Nat :
        /\ m <= rcvd[cur] /\ data[nbuf] = Chunks(cur, m, rcvd[cur])
        /\ rcvd[cur] - m < Cap
        /\ data[nbuf] # <<>> => m < rcvd[cur]
        /\ epbuf[cur] = None => m = rcvd[cur] /\ ctx[nbuf] \in {{}, {None}}
        /\ epbuf[cur] # None => m < rcvd[cur] /\ CtxOf(nbuf, cur)
  <2>1. CASE epbuf[cur] = None
    <3>1. nbuf \in NetHand
      BY <2>1 DEF NetHand
    <3>2. data[nbuf] = <<>> /\ ctx[nbuf] \in {{}, {None}}
      BY <3>1 DEF FlowInv, CleanInv
    <3>3. rcvd[cur] <= rcvd[cur] /\ rcvd[cur] <= MaxSend /\ rcvd[cur] - rcvd[cur] = 0
      BY <1>0, <1>1
    <3>4. Chunks(cur, rcvd[cur], rcvd[cur]) \in Packets
          /\ Len(Chunks(cur, rcvd[cur], rcvd[cur])) = rcvd[cur] - rcvd[cur]
      BY <1>0, <1>1, <3>3, ChunksFacts, ZenonT(60)
    <3>5. Chunks(cur, rcvd[cur], rcvd[cur]) = <<>>
      BY <3>3, <3>4, EmptySeq DEF Packets
    <3> QED BY <1>0, <1>1, <2>1, <3>2, <3>3, <3>5
  <2>2. CASE epbuf[cur] # None
    <3>1. PICK m \in Nat : /\ m < rcvd[cur] /\ rcvd[cur] - m < Cap
                           /\ data[nbuf] = Chunks(cur, m, rcvd[cur])
      BY <1>0, <2>2 DEF FlowInv, AttInv
    <3>2. CtxOf(nbuf, cur)
      BY <1>0, <2>2 DEF FlowInv, AttInv
    <3> QED BY <1>1, <2>2, <3>1, <3>2
  <2> QED BY <2>1, <2>2
<1>3. Len(data[nbuf]) = rcvd[cur] - m
      /\ (epbuf[cur] # None => Head(data[nbuf])[2] = m + 1)
  <2>1. cur \in Socks /\ rcvd[cur] \in Nat /\ m <= rcvd[cur] /\ rcvd[cur] <= MaxSend
    BY <1>0, <1>1, <1>2
  <2>2. /\ Len(Chunks(cur, m, rcvd[cur])) = rcvd[cur] - m
        /\ m < rcvd[cur] => Head(Chunks(cur, m, rcvd[cur])) = <<cur, m + 1>>
    BY <2>1, ChunksFacts
  <2>3. <<cur, m + 1>>[2] = m + 1
    OBVIOUS
  <2> QED BY <1>2, <2>2, <2>3
<1> DEFINE g == Got(cur, nbuf)
           p == rcvd[cur] + g
<1>4. /\ g \in Nat /\ p <= sent[cur] /\ p - m <= Cap
      /\ Unread(cur) > 0 => g > 0
  BY <1>0, <1>1, <1>2, <1>3, SMTT(30) DEF Got
<1>5. p \in Nat /\ rcvd[cur] <= p /\ p <= MaxSend /\ m <= p
  BY <1>0, <1>1, <1>2, <1>4, SMTT(30)
<1>6. RecvData(cur, nbuf) = data[nbuf] \o Chunks(cur, rcvd[cur], p)
  BY DEF RecvData
<1> HIDE DEF g, p
<1>7. RecvData(cur, nbuf) = Chunks(cur, m, p)
  <2>1. cur \in Socks /\ rcvd[cur] \in Nat /\ m <= rcvd[cur]
    BY <1>0, <1>1, <1>2
  <2>2. Chunks(cur, m, rcvd[cur]) \o Chunks(cur, rcvd[cur], p) = Chunks(cur, m, p)
    BY <1>5, <2>1, ChunksJoin
  <2> QED BY <1>2, <1>6, <2>2
<1>8. Len(RecvData(cur, nbuf)) = p - m
  <2>1. Len(Chunks(cur, m, p)) = p - m
    BY <1>0, <1>5, ChunksFacts
  <2> QED BY <1>7, <2>1
<1>9. p = rcvd[cur] + g
  BY DEF p
<1>10. Unread(cur) > 0 \/ data[nbuf] # <<>> => m < p
  BY <1>1, <1>2, <1>4, <1>5, <1>9
<1> QED BY <1>0, <1>2, <1>3, <1>4, <1>7, <1>8, <1>9, <1>10 DEF g, p

(* recv's outcomes: the counters and the buffer afterwards. *)
LEMMA RecvTypes ==
  ASSUME OwnInv, FlowInv, Recv
  PROVE  FlowTypes'
<1>1. RecvEnd /\ npc = "recv" /\ FlowTypes
  BY RecvIsEnd DEF RecvEnd, FlowInv
<1>2. cur \in Socks /\ nbuf \in Bufs /\ MaxSend \in Nat
  BY <1>1, InHand, NetThAssumption
<1>3. PICK m \in Nat :
        /\ Got(cur, nbuf) \in Nat /\ rcvd[cur] + Got(cur, nbuf) <= sent[cur]
        /\ m <= rcvd[cur]
        /\ RecvData(cur, nbuf) = Chunks(cur, m, rcvd[cur] + Got(cur, nbuf))
  BY <1>1, RecvRun
<1>4. RecvData(cur, nbuf) \in Packets
  <2>1. rcvd[cur] \in Nat /\ sent[cur] \in 0..MaxSend
    BY <1>1, <1>2 DEF FlowTypes
  <2>2. /\ rcvd[cur] + Got(cur, nbuf) \in Nat /\ m <= rcvd[cur] + Got(cur, nbuf)
        /\ rcvd[cur] + Got(cur, nbuf) <= MaxSend
    BY <1>2, <1>3, <2>1
  <2>3. Chunks(cur, m, rcvd[cur] + Got(cur, nbuf)) \in Packets
    BY <1>2, <2>2, ChunksFacts
  <2> QED BY <1>3, <2>3
<1>5. <<>> \in Packets
  BY DEF Packets
<1>6. sent' = sent /\ (rcvd' = rcvd \/ rcvd' = [rcvd EXCEPT ![cur] = rcvd[cur] + Got(cur, nbuf)])
  BY DEF Recv, recvFail, recvNothing, recvBad, recvFull, recvMore, recvWhole, recvParsed,
     sockVars
<1>7. \/ data' = data
      \/ data' = [data EXCEPT ![nbuf] = <<>>]
      \/ data' = [data EXCEPT ![nbuf] = RecvData(cur, nbuf)]
  BY DEF Recv, recvFail, recvNothing, recvBad, recvFull, recvMore, recvWhole,
     Discard, Dispatch, Keep
<1>8. data' \in [Bufs -> Packets]
  BY <1>1, <1>4, <1>5, <1>7 DEF FlowTypes
<1>9. rcvd' \in [Socks -> Nat] /\ \A s \in Socks : rcvd'[s] <= sent'[s]
  BY <1>1, <1>2, <1>3, <1>6 DEF FlowTypes
<1>10. \/ ctx' = ctx
       \/ ctx' = [ctx EXCEPT ![nbuf] = IF UseCtx /\ (ctx[nbuf] # {} \/ Got(cur, nbuf) > 0)
                                       THEN {None} ELSE ctx[nbuf]]
       \/ ctx' = [ctx EXCEPT ![nbuf] = IF UseCtx /\ None \notin ctx[nbuf]
                                       THEN ctx[nbuf] \cup {cur} ELSE ctx[nbuf]]
  BY DEF Recv, recvFail, recvNothing, recvBad, recvFull, recvMore, recvWhole,
     Discard, leaveCtx, Dispatch, Keep
<1>11. /\ ctx' \in [Bufs -> SUBSET (Socks \cup {None})]
       /\ ~UseCtx => \A b \in Bufs : ctx'[b] = {}
  <2>1. ctx \in [Bufs -> SUBSET (Socks \cup {None})] /\ (~UseCtx => \A b \in Bufs : ctx[b] = {})
    BY <1>1 DEF FlowTypes
  <2>2. /\ ctx[nbuf] \subseteq Socks \cup {None}
        /\ ctx[nbuf] \cup {cur} \subseteq Socks \cup {None}
        /\ {None} \subseteq Socks \cup {None}
    BY <1>2, <2>1
  <2> QED BY <1>2, <1>10, <2>1, <2>2
<1> QED BY <1>1, <1>6, <1>8, <1>9, <1>11 DEF FlowTypes

LEMMA NextFlowTypes ==
  ASSUME OwnInv, RefInv, FlowInv, [Next]_vars
  PROVE  FlowTypes'
<1>1. FlowTypes /\ OwnTypes /\ Hands
  BY DEF FlowInv, OwnInv
<1>2. <<>> \in Packets
  BY DEF Packets
<1>3. CASE Recv
  BY <1>3, RecvTypes
<1>4. CASE UNCHANGED <<sent, rcvd, data, ctx>>
  BY <1>1, <1>4 DEF FlowTypes
<1>5. ASSUME NEW b \in Bufs, data' = [data EXCEPT ![b] = <<>>], ctx' = [ctx EXCEPT ![b] = {}],
             UNCHANGED <<sent, rcvd>>
      PROVE  FlowTypes'
  BY <1>1, <1>2, <1>5 DEF FlowTypes
<1>6. ASSUME NEW s \in Socks, onEpollErr(s)
      PROVE  FlowTypes'
  <2>1. CASE epbuf[s] = None
    BY <1>4, <1>6, <2>1 DEF onEpollErr, sockVars
  <2>2. CASE epbuf[s] # None
    <3>1. epbuf[s] \in Bufs
      BY <1>1, <2>2 DEF OwnTypes
    <3> QED BY <1>5, <1>6, <2>2, <3>1 DEF onEpollErr, clearBuf, sockVars
  <2> QED BY <2>1, <2>2
<1>7. ASSUME NEW w \in Workers, clearAndPushIdle(w)
      PROVE  FlowTypes'
  <2>1. wbuf[w] \in Bufs
    BY <1>7, WorkerRef DEF clearAndPushIdle
  <2> QED BY <1>5, <1>7, <2>1 DEF clearAndPushIdle, clearBuf, sockVars
<1>8. ASSUME NEW s \in Socks, PeerSend(s)
      PROVE  FlowTypes'
  <2>1. MaxSend \in Nat
    BY NetThAssumption
  <2>2. /\ sent' = [sent EXCEPT ![s] = sent[s] + 1] /\ sent[s] < MaxSend
        /\ UNCHANGED <<rcvd, data, ctx>>
    BY <1>8 DEF PeerSend, bufVars
  <2> QED BY <1>1, <2>1, <2>2 DEF FlowTypes
<1>9. CASE getAllTimeOutBuf
  <2>1. data' \in [Bufs -> Packets]
    BY <1>1, <1>2, <1>9 DEF FlowTypes, getAllTimeOutBuf
  <2>2. /\ ctx' \in [Bufs -> SUBSET (Socks \cup {None})]
        /\ ~UseCtx => \A b \in Bufs : ctx'[b] = {}
    BY <1>1, <1>9 DEF FlowTypes, getAllTimeOutBuf
  <2> QED BY <1>1, <1>9, <2>1, <2>2 DEF FlowTypes, getAllTimeOutBuf, sockVars
<1>10. ASSUME NEW w \in Workers, handle(w)
       PROVE  FlowTypes'
  <2>1. ref[wbuf[w]] \in Socks
    BY <1>10, WorkerRef DEF handle
  <2>2. PICK n \in rcvd[ref[wbuf[w]]]..sent[ref[wbuf[w]]] :
          rcvd' = [rcvd EXCEPT ![ref[wbuf[w]]] = n]
    BY <1>10 DEF handle
  <2>3. /\ rcvd[ref[wbuf[w]]] \in Nat /\ sent[ref[wbuf[w]]] \in Nat
    BY <1>1, <2>1 DEF FlowTypes
  <2>4. n \in Nat /\ n <= sent[ref[wbuf[w]]]
    BY <2>2, <2>3
  <2> QED BY <1>1, <1>10, <2>1, <2>2, <2>4 DEF FlowTypes, handle, bufVars
<1>11. ASSUME NEW s \in Socks, addConn(s) \/ PeerFin(s) \/ TimePasses(s) \/ onEpollIn(s)
       PROVE  UNCHANGED <<sent, rcvd, data, ctx>>
  BY <1>11 DEF addConn, PeerFin, TimePasses, onEpollIn, sockVars, bufVars
<1>12. CASE addConnReg \/ popIdle \/ popIdleTimeout \/ getAllClosedSock \/ clearClosed
            \/ getAllTimeOutSock \/ clearTimeOutSock \/ UNCHANGED vars
            \/ \E b \in Bufs : clearTimeOut(b)
  BY <1>4, <1>12 DEF addConnReg, popIdle, popIdleTimeout, getAllClosedSock, clearClosed,
     getAllTimeOutSock, clearTimeOutSock, clearTimeOut, vars, sockVars, bufVars
<1>13. ASSUME NEW w \in Workers, popTask(w) \/ regSock(w) \/ regSockAdd(w)
       PROVE  UNCHANGED <<sent, rcvd, data, ctx>>
  BY <1>13 DEF popTask, regSock, regSockAdd, sockVars, bufVars
<1> QED BY <1>3, <1>4, <1>6, <1>7, <1>8, <1>9, <1>10, <1>11, <1>12, <1>13
        DEF Next, Lost, Environment, Clock, Net, Work

----------------------------------------------------------------------------
(* Free buffers are clean.                                                 *)

(* A step that frees the buffers X cleans them. *)
LEMMA CleanStep ==
  ASSUME CleanInv, NEW X,
         \A b \in X : data'[b] = <<>> /\ ctx'[b] \in {{}, {None}},
         Range(idle') \subseteq Range(idle) \cup NetHand \cup X,
         NetHand' \subseteq Range(idle) \cup NetHand \cup X,
         \A b \in (Range(idle') \cup NetHand') \ X : data'[b] = data[b] /\ ctx'[b] = ctx[b]
  PROVE  CleanInv'
<1> SUFFICES ASSUME NEW b \in Range(idle') \cup NetHand'
             PROVE  data'[b] = <<>> /\ ctx'[b] \in {{}, {None}}
  BY DEF CleanInv
<1>1. CASE b \in X
  BY <1>1
<1>2. CASE b \notin X
  BY <1>2 DEF CleanInv
<1> QED BY <1>1, <1>2

LEMMA NextClean ==
  ASSUME OwnInv, RefInv, FlowInv, [Next]_vars
  PROVE  CleanInv'
<1>1. FlowTypes /\ CleanInv /\ AttInv /\ OwnTypes /\ Hands /\ Once /\ Places
  BY Before DEF FlowInv
<1>2. /\ data \in [Bufs -> Packets] /\ ctx \in [Bufs -> SUBSET (Socks \cup {None})]
      /\ idle \in Seq(Bufs) /\ epbuf \in [Socks -> Bufs \cup {None}]
      /\ wbuf \in [Workers -> Bufs \cup {None}] /\ None \notin Bufs
  BY <1>1, NetThAssumption DEF FlowTypes, OwnTypes
<1>3. CASE UNCHANGED <<idle, data, ctx>> /\ NetHand' \subseteq NetHand
  BY <1>1, <1>3 DEF CleanInv
<1>4. ASSUME NEW b \in Bufs, data'[b] = <<>>, ctx'[b] \in {{}, {None}},
             \A c \in Bufs : c # b => data'[c] = data[c] /\ ctx'[c] = ctx[c],
             idle' = Append(idle, b), NetHand' \subseteq NetHand
      PROVE  CleanInv'
  <2>1. Range(idle') = Range(idle) \cup {b}
    BY <1>2, <1>4, PushFacts
  <2>2. Range(idle) \cup NetHand \subseteq Bufs
    BY <1>1 DEF Places, Split
  <2> QED BY <1>1, <1>4, <2>1, <2>2, CleanStep, ZenonT(60)
<1>5. ASSUME NEW s \in Socks, onEpollErr(s)
      PROVE  CleanInv'
  <2>1. NetHand' = NetHand
    BY <1>5 DEF onEpollErr, UseAfterErase, NetHand
  <2>2. CASE epbuf[s] = None
    BY <1>3, <1>5, <2>1, <2>2 DEF onEpollErr
  <2>3. CASE epbuf[s] # None
    <3>1. epbuf[s] \in Bufs
      BY <1>2, <2>3
    <3> QED BY <1>2, <1>4, <1>5, <2>1, <2>3, <3>1 DEF onEpollErr, clearBuf, pushIdle
  <2> QED BY <2>2, <2>3
<1>6. ASSUME NEW w \in Workers, clearAndPushIdle(w)
      PROVE  CleanInv'
  <2>1. NetHand' = NetHand
    BY <1>6 DEF clearAndPushIdle, netVars, connVars, NetHand
  <2>2. wbuf[w] \in Bufs
    BY <1>6, WorkerRef DEF clearAndPushIdle
  <2> QED BY <1>2, <1>4, <1>6, <2>1, <2>2 DEF clearAndPushIdle, clearBuf, pushIdle
<1>7. CASE popIdle
  <2>1. idle # <<>> /\ Distinct(idle) /\ idle' = Tail(idle) /\ UNCHANGED <<data, ctx>>
    BY <1>1, <1>7 DEF popIdle, Once
  <2>2. Range(idle') = Range(idle) \ {Head(idle)} /\ Head(idle) \in Range(idle)
    BY <1>2, <2>1, PopFacts
  <2>3. NetHand' \subseteq Range(idle)
    BY <1>1, <1>7, <2>2 DEF NetHand, popIdle, connVars, Hands
  <2> QED BY <1>1, <2>1, <2>2, <2>3 DEF CleanInv
<1>8. CASE getAllTimeOutBuf
  <2>1. /\ idle' = idle /\ NetHand' = vecB'
        /\ \A b \in Bufs : data'[b] = IF b \in vecB' THEN <<>> ELSE data[b]
        /\ \A b \in Bufs : ctx'[b] = IF b \in vecB' /\ ctx[b] # {} THEN {None} ELSE ctx[b]
    BY <1>8 DEF getAllTimeOutBuf, NetHand
  <2>2. vecB' \subseteq Bufs /\ Range(idle) \subseteq Bufs
    BY <1>1, <1>2, <1>8 DEF getAllTimeOutBuf, TimedOut, OwnTypes, Places, Split
  <2>3. \A b \in vecB' : data'[b] = <<>> /\ ctx'[b] \in {{}, {None}}
    BY <2>1, <2>2
  <2> QED BY <1>1, <2>1, <2>2, <2>3, CleanStep
<1>9. ASSUME NEW b \in Bufs, clearTimeOut(b)
      PROVE  CleanInv'
  <2>1. b \in NetHand /\ NetHand' \subseteq NetHand /\ idle' = Append(idle, b)
        /\ UNCHANGED <<data, ctx>>
    BY <1>9 DEF clearTimeOut, connVars, pushIdle, NetHand
  <2> QED BY <1>1, <1>4, <2>1 DEF CleanInv
<1>10. CASE Recv
  <2>1. RecvEnd /\ npc = "recv"
    BY <1>10, RecvIsEnd DEF RecvEnd
  <2>2. cur \in Socks /\ nbuf \in Bufs /\ nbuf \notin Range(idle) /\ NetHand' = {}
    BY <2>1, InHand
  <2>3. CASE Discard(nbuf)
    <3>1. ctx'[nbuf] \in {{}, {None}}
      <4>1. ctx'[nbuf] = IF UseCtx /\ (ctx[nbuf] # {} \/ Got(cur, nbuf) > 0)
                         THEN {None} ELSE ctx[nbuf]
        BY <1>2, <2>2, <2>3 DEF Discard, leaveCtx
      <4>2. ~UseCtx => ctx[nbuf] = {}
        BY <1>1, <2>2 DEF FlowTypes
      <4> QED BY <4>1, <4>2
    <3> QED BY <1>2, <1>4, <2>2, <2>3, <3>1 DEF Discard, leaveCtx, pushIdle
  <2>4. CASE recvNothing
    <3>1. epbuf[cur] = None
      <4>1. CASE epbuf[cur] # None
        <5>1. epbuf[cur] = nbuf
          BY <1>1, <2>1, <4>1 DEF Hands
        <5>2. PICK m \in Nat : m < rcvd[cur] /\ data[nbuf] = Chunks(cur, m, rcvd[cur])
          BY <1>1, <2>2, <4>1, <5>1 DEF AttInv
        <5>3. rcvd[cur] \in Nat /\ m <= rcvd[cur] /\ rcvd[cur] <= MaxSend
          BY <1>1, <2>2, <5>2, NetThAssumption DEF FlowTypes
        <5>4. Chunks(cur, m, rcvd[cur]) # <<>>
          BY <2>2, <5>2, <5>3, ChunksFacts
        <5> QED BY <2>4, <5>2, <5>4 DEF recvNothing
      <4> QED BY <4>1
    <3>2. nbuf \in NetHand
      BY <2>1, <3>1 DEF NetHand
    <3> QED BY <1>1, <1>4, <2>2, <2>4, <3>2 DEF CleanInv, recvNothing, pushIdle
  <2>5. CASE Keep /\ idle' = idle
    <3>1. \A b \in Range(idle) : data'[b] = data[b] /\ ctx'[b] = ctx[b]
      BY <1>1, <1>2, <2>2, <2>5 DEF Keep, Places, Split
    <3> QED BY <1>1, <2>2, <2>5, <3>1 DEF CleanInv
  <2> QED BY <1>10, <2>3, <2>4, <2>5 DEF Recv, recvFail, recvBad, recvFull, recvMore,
             recvWhole, Dispatch
<1>11. ASSUME NEW s \in Socks, addConn(s) \/ PeerSend(s) \/ PeerFin(s) \/ TimePasses(s)
       PROVE  UNCHANGED <<idle, data, ctx>> /\ NetHand' = NetHand
  BY <1>11 DEF addConn, PeerSend, PeerFin, TimePasses, connVars, bufVars, netVars, NetHand
<1>12. ASSUME NEW s \in Socks, onEpollIn(s)
       PROVE  UNCHANGED <<idle, data, ctx>> /\ NetHand' \subseteq NetHand
  BY <1>12 DEF onEpollIn, bufVars, NetHand
<1>13. CASE addConnReg \/ popIdleTimeout \/ clearClosed \/ clearTimeOutSock \/ UNCHANGED vars
  BY <1>3, <1>13 DEF addConnReg, popIdleTimeout, clearClosed, clearTimeOutSock, vars,
     connVars, bufVars, netVars, NetHand
<1>14. CASE getAllClosedSock \/ getAllTimeOutSock
  BY <1>3, <1>14 DEF getAllClosedSock, getAllTimeOutSock, NetHand
<1>15. ASSUME NEW w \in Workers, popTask(w) \/ handle(w) \/ regSock(w) \/ regSockAdd(w)
       PROVE  UNCHANGED <<idle, data, ctx>> /\ NetHand' = NetHand
  BY <1>15 DEF popTask, handle, regSock, regSockAdd, connVars, bufVars, netVars, NetHand
<1> QED BY <1>3, <1>5, <1>6, <1>7, <1>8, <1>9, <1>10, <1>11, <1>12, <1>13, <1>14, <1>15
        DEF Next, Lost, Environment, Clock, Net, Work

----------------------------------------------------------------------------
(* Steps that leave the packets alone: what they change is free afterwards, no
   buffer is attached or queued, and nothing is read from a connection with a
   buffer attached. *)
Quiet ==
  /\ \A b \in Bufs : \/ b \in Range(idle') \cup NetHand'
                     \/ data'[b] = data[b] /\ ctx'[b] = ctx[b]
  /\ \A s \in Socks : /\ epbuf'[s] \in {None, epbuf[s]}
                      /\ rcvd[s] <= rcvd'[s]
                      /\ epbuf'[s] # None => rcvd'[s] = rcvd[s]
  /\ busi' = busi \/ (busi # <<>> /\ busi' = Tail(busi))

LEMMA QuietTasks ==
  ASSUME OwnInv, RefInv, [Next]_vars, Quiet
  PROVE  \A b \in TaskBufs' : b \in TaskBufs /\ ref'[b] = ref[b]
<1>1. busi \in Seq(Bufs) /\ Distinct(busi)
  BY Before DEF OwnTypes, Once
<1>2. Range(busi') \subseteq Range(busi)
  BY <1>1, PopFacts DEF Quiet
<1>3. TaskMove
  BY NextTaskMove
<1>4. ASSUME NEW full \in BOOLEAN, TaskNew(full)
      PROVE  FALSE
  BY <1>2, <1>4 DEF TaskNew, TaskBufs
<1>5. TaskBufs \subseteq Bufs
  BY TasksAreBufs
<1>6. ASSUME NEW c \in Bufs, TaskWipe(c)
      PROVE  \A b \in TaskBufs' : b \in TaskBufs /\ ref'[b] = ref[b]
  BY <1>5, <1>6 DEF TaskWipe, RefInv
<1> QED BY <1>3, <1>4, <1>6 DEF TaskMove, TaskStay

LEMMA QuietFlow ==
  ASSUME OwnInv, RefInv, FlowInv, [Next]_vars, Quiet
  PROVE  AttInv' /\ TaskInv' /\ OrderInv'
<1>0. /\ FlowTypes /\ AttInv /\ TaskInv /\ OrderInv /\ FlowTypes'
      /\ busi \in Seq(Bufs) /\ epbuf \in [Socks -> Bufs \cup {None}]
  BY NextFlowTypes DEF FlowInv, OwnInv, OwnTypes
<1>1. Places' /\ OwnTypes'
  BY NextOwn, OwnershipIsPlacesNext DEF OwnInv
<1>2. \A b \in TaskBufs' : b \in TaskBufs /\ ref'[b] = ref[b] /\ b \in Bufs
  BY QuietTasks, TasksAreBufs
<1>3. /\ TaskBufs' \cap (Range(idle') \cup NetHand') = {}
      /\ Held(epbuf') \cap (Range(idle') \cup NetHand') = {}
  BY <1>1 DEF Places, Split, Apart, TaskBufs
<1>4. \A b \in TaskBufs' : data'[b] = data[b] /\ ctx'[b] = ctx[b]
  BY <1>2, <1>3 DEF Quiet
<1>5. \A s \in Socks : epbuf'[s] # None =>
        /\ epbuf'[s] = epbuf[s] /\ epbuf[s] # None /\ rcvd'[s] = rcvd[s]
        /\ data'[epbuf[s]] = data[epbuf[s]] /\ ctx'[epbuf[s]] = ctx[epbuf[s]]
  <2> SUFFICES ASSUME NEW s \in Socks, epbuf'[s] # None
               PROVE  /\ epbuf'[s] = epbuf[s] /\ epbuf[s] # None /\ rcvd'[s] = rcvd[s]
                      /\ data'[epbuf[s]] = data[epbuf[s]] /\ ctx'[epbuf[s]] = ctx[epbuf[s]]
    OBVIOUS
  <2>1. epbuf'[s] = epbuf[s] /\ rcvd'[s] = rcvd[s] /\ epbuf[s] \in Bufs
    BY <1>0 DEF Quiet
  <2>2. epbuf'[s] \in Held(epbuf')
    BY <1>1 DEF Held, OwnTypes
  <2>3. epbuf[s] \notin Range(idle') \cup NetHand'
    BY <1>3, <2>1, <2>2
  <2> QED BY <2>1, <2>3 DEF Quiet
<1>6. AttInv'
  BY <1>0, <1>5 DEF AttInv, CtxOf
<1>7. TaskInv'
  <2> SUFFICES ASSUME NEW b \in TaskBufs'
               PROVE  /\ UseCtx => ctx'[b] \in {{None}, {ref'[b]}}
                      /\ \E m, n \in Nat : /\ m < n /\ n <= rcvd'[ref'[b]]
                                           /\ data'[b] = Chunks(ref'[b], m, n)
    BY DEF TaskInv, CtxOf
  <2>1. /\ b \in TaskBufs /\ ref'[b] = ref[b] /\ data'[b] = data[b] /\ ctx'[b] = ctx[b]
        /\ ref[b] \in Socks
    BY <1>2, <1>4 DEF RefInv
  <2>2. PICK m, n \in Nat : m < n /\ n <= rcvd[ref[b]] /\ data[b] = Chunks(ref[b], m, n)
    BY <1>0, <2>1 DEF TaskInv
  <2>3. rcvd[ref[b]] \in Nat /\ rcvd'[ref[b]] \in Nat /\ rcvd[ref[b]] <= rcvd'[ref[b]]
    BY <1>0, <2>1 DEF FlowTypes, Quiet
  <2>4. n <= rcvd'[ref[b]]
    BY <2>2, <2>3
  <2> QED BY <1>0, <2>1, <2>2, <2>4 DEF TaskInv, CtxOf
<1>8. OrderInv'
  <2>1. \A i \in DOMAIN busi' : busi'[i] \in TaskBufs'
    BY DEF TaskBufs, Range
  <2>2. \A i \in DOMAIN busi' : ref'[busi'[i]] = ref[busi'[i]] /\ data'[busi'[i]] = data[busi'[i]]
    BY <1>2, <1>4, <2>1
  <2>3. CASE busi' = busi
    BY <1>0, <1>5, <2>2, <2>3 DEF OrderInv
  <2>4. CASE busi # <<>> /\ busi' = Tail(busi)
    <3>1. /\ busi' \in Seq(Bufs) /\ Len(busi') = Len(busi) - 1
          /\ \A i \in 1..Len(busi') : busi'[i] = busi[i + 1]
      BY <1>0, <2>4, HeadTailProperties
    <3>2. /\ DOMAIN busi = 1..Len(busi) /\ Len(busi) \in Nat
          /\ DOMAIN busi' = 1..Len(busi')
      BY <1>0, <3>1, LenProperties
    <3>3. \A i \in DOMAIN busi' : i + 1 \in DOMAIN busi /\ busi'[i] = busi[i + 1]
      BY <3>1, <3>2
    <3>4. \A i, j \in DOMAIN busi' : i < j => i + 1 < j + 1
      BY <3>2
    <3> QED BY <1>0, <1>5, <2>2, <3>3, <3>4 DEF OrderInv
  <2> QED BY <2>3, <2>4 DEF Quiet
<1> QED BY <1>6, <1>7, <1>8

(* All steps but the ones that keep what they read are quiet. *)
KeepStep == recvMore \/ recvWhole \/ NewBig

LEMMA NextQuiet ==
  ASSUME OwnInv, RefInv, BlockInv, FlowInv, [Next]_vars, ~KeepStep
  PROVE  Quiet
<1>1. /\ FlowTypes /\ OwnTypes /\ Hands
      /\ rcvd \in [Socks -> Nat] /\ \A s \in Socks : rcvd[s] <= rcvd[s]
      /\ idle \in Seq(Bufs) /\ busi \in Seq(Bufs)
      /\ epbuf \in [Socks -> Bufs \cup {None}]
      /\ data \in [Bufs -> Packets] /\ ctx \in [Bufs -> SUBSET (Socks \cup {None})]
  BY DEF FlowInv, FlowTypes, OwnInv, OwnTypes
<1>2. CASE UNCHANGED <<data, ctx, rcvd, epbuf, busi>>
  BY <1>1, <1>2 DEF Quiet
<1>3. ASSUME NEW b \in Bufs, idle' = Append(idle, b),
             \A c \in Bufs : c # b => data'[c] = data[c] /\ ctx'[c] = ctx[c],
             \A s \in Socks : epbuf'[s] \in {None, epbuf[s]},
             \A s \in Socks : rcvd[s] <= rcvd'[s] /\ (epbuf'[s] # None => rcvd'[s] = rcvd[s]),
             busi' = busi
      PROVE  Quiet
  <2>1. b \in Range(idle')
    BY <1>1, <1>3, PushFacts
  <2> QED BY <1>3, <2>1 DEF Quiet
<1>4. ASSUME NEW s \in Socks, onEpollErr(s)
      PROVE  Quiet
  <2>1. CASE epbuf[s] = None
    <3>1. UNCHANGED <<data, ctx, rcvd, busi>> /\ epbuf' = [epbuf EXCEPT ![s] = None]
      BY <1>4, <2>1 DEF onEpollErr, sockVars
    <3>2. epbuf' = epbuf
      BY <1>1, <2>1, <3>1
    <3> QED BY <1>2, <3>1, <3>2
  <2>2. CASE epbuf[s] # None
    <3>1. epbuf[s] \in Bufs
      BY <1>1, <2>2
    <3>2. /\ data' = [data EXCEPT ![epbuf[s]] = <<>>] /\ ctx' = [ctx EXCEPT ![epbuf[s]] = {}]
          /\ idle' = Append(idle, epbuf[s]) /\ epbuf' = [epbuf EXCEPT ![s] = None]
          /\ rcvd' = rcvd /\ busi' = busi
      BY <1>4, <2>2 DEF onEpollErr, clearBuf, pushIdle, sockVars
    <3> QED BY <1>1, <1>3, <3>1, <3>2
  <2> QED BY <2>1, <2>2
<1>5. CASE Recv
  <2>1. RecvEnd
    BY <1>5, RecvIsEnd
  <2>2. cur \in Socks /\ nbuf \in Bufs
    BY <2>1, InHand
  <2>3. Got(cur, nbuf) \in Nat
    BY <2>1, RecvRun DEF RecvEnd
  <2>4. /\ idle' = Append(idle, nbuf) /\ epbuf' = [epbuf EXCEPT ![cur] = None]
        /\ busi' = busi
        /\ \A c \in Bufs : c # nbuf => data'[c] = data[c] /\ ctx'[c] = ctx[c]
        /\ rcvd' = rcvd \/ rcvd' = [rcvd EXCEPT ![cur] = rcvd[cur] + Got(cur, nbuf)]
    <3>1. CASE Discard(nbuf) /\ (recvFail \/ recvParsed)
      BY <1>1, <3>1 DEF Discard, leaveCtx, pushIdle, recvFail, recvParsed, sockVars
    <3>2. CASE recvNothing
      BY <3>2 DEF recvNothing, pushIdle, sockVars
    <3>3. recvFull => recvParsed /\ Discard(nbuf)
      BY DEF KeepStep, NewBig, recvFull
    <3>4. recvFail \/ recvNothing \/ recvBad \/ recvFull
      BY <1>5 DEF Recv, KeepStep
    <3> QED BY <3>1, <3>2, <3>3, <3>4 DEF recvFail, recvBad
  <2>5. \A s \in Socks : rcvd[s] <= rcvd'[s] /\ (epbuf'[s] # None => rcvd'[s] = rcvd[s])
    <3> SUFFICES ASSUME NEW s \in Socks
                 PROVE  rcvd[s] <= rcvd'[s] /\ (epbuf'[s] # None => rcvd'[s] = rcvd[s])
      OBVIOUS
    <3>1. CASE s # cur
      BY <1>1, <2>4, <3>1
    <3>2. CASE s = cur
      <4>1. epbuf'[cur] = None
        BY <1>1, <2>2, <2>4
      <4>2. rcvd[cur] <= rcvd'[cur]
        BY <1>1, <2>2, <2>3, <2>4
      <4> QED BY <3>2, <4>1, <4>2
    <3> QED BY <3>1, <3>2
  <2>6. \A s \in Socks : epbuf'[s] \in {None, epbuf[s]}
    BY <1>1, <2>4
  <2> QED BY <1>3, <2>2, <2>4, <2>5, <2>6
<1>6. CASE getAllTimeOutBuf
  <2>1. /\ \A b \in Bufs : b \in vecB' \/ (data'[b] = data[b] /\ ctx'[b] = ctx[b])
        /\ vecB' \subseteq NetHand'
        /\ \A s \in Socks : epbuf'[s] \in {None, epbuf[s]}
        /\ busi' = busi /\ rcvd' = rcvd
    BY <1>6 DEF getAllTimeOutBuf, NetHand, sockVars
  <2> QED BY <1>1, <2>1 DEF Quiet
<1>7. CASE getAllClosedSock \/ getAllTimeOutSock
  <2>1. /\ UNCHANGED <<data, ctx, rcvd, busi>>
        /\ \A s \in Socks : epbuf'[s] \in {None, epbuf[s]}
    BY <1>7 DEF getAllClosedSock, getAllTimeOutSock, dropConns, sockVars
  <2> QED BY <1>1, <2>1 DEF Quiet
<1>8. ASSUME NEW w \in Workers, popTask(w)
      PROVE  Quiet
  <2>1. UNCHANGED <<data, ctx, rcvd, epbuf>> /\ busi # <<>> /\ busi' = Tail(busi)
    BY <1>8 DEF popTask, sockVars, connVars
  <2> QED BY <1>1, <2>1 DEF Quiet
<1>9. ASSUME NEW w \in Workers, handle(w)
      PROVE  Quiet
  <2> DEFINE x == ref[wbuf[w]]
  <2>1. x \in Socks /\ wbuf[w] \in Bufs
    BY <1>9, WorkerRef DEF handle
  <2>2. UNCHANGED <<data, ctx, epbuf, busi>>
    BY <1>9 DEF handle, bufVars, connVars
  <2>3. PICK n \in rcvd[x]..sent[x] : (~cb[wbuf[w]] => n = rcvd[x])
                                      /\ rcvd' = [rcvd EXCEPT ![x] = n]
    BY <1>9 DEF handle
  <2>4. cb[wbuf[w]] => epbuf[x] = None
    BY <1>9, <2>1 DEF BlockInv, ExclusiveBlock, Blocking, handle
  <2>5. rcvd[x] \in Nat /\ sent[x] \in Nat
    BY <1>1, <2>1 DEF FlowTypes
  <2> HIDE DEF x
  <2>6. rcvd[x] <= n
    BY <2>3, <2>5
  <2>7. rcvd'[x] = n /\ \A s \in Socks : s # x => rcvd'[s] = rcvd[s]
    BY <1>1, <2>1, <2>3
  <2>8. \A s \in Socks : rcvd[s] <= rcvd'[s] /\ (epbuf[s] # None => rcvd'[s] = rcvd[s])
    BY <1>1, <2>3, <2>4, <2>6, <2>7
  <2> QED BY <1>1, <2>2, <2>8 DEF Quiet
<1>10. ASSUME NEW w \in Workers, clearAndPushIdle(w)
       PROVE  Quiet
  <2>1. wbuf[w] \in Bufs
    BY <1>10, WorkerRef DEF clearAndPushIdle
  <2>2. /\ data' = [data EXCEPT ![wbuf[w]] = <<>>] /\ ctx' = [ctx EXCEPT ![wbuf[w]] = {}]
        /\ idle' = Append(idle, wbuf[w]) /\ UNCHANGED <<rcvd, epbuf, busi>>
    BY <1>10 DEF clearAndPushIdle, clearBuf, pushIdle, sockVars, connVars
  <2> QED BY <1>1, <1>3, <2>1, <2>2
<1>11. ASSUME NEW s \in Socks,
              addConn(s) \/ PeerSend(s) \/ PeerFin(s) \/ TimePasses(s) \/ onEpollIn(s)
       PROVE  UNCHANGED <<data, ctx, rcvd, epbuf, busi>>
  BY <1>11 DEF addConn, PeerSend, PeerFin, TimePasses, onEpollIn, sockVars, bufVars, connVars
<1>12. CASE addConnReg \/ popIdle \/ popIdleTimeout \/ clearClosed
            \/ clearTimeOutSock \/ UNCHANGED vars \/ \E b \in Bufs : clearTimeOut(b)
  BY <1>2, <1>12 DEF addConnReg, popIdle, popIdleTimeout, clearClosed, clearTimeOutSock,
     clearTimeOut, vars, sockVars, bufVars, connVars
<1>13. ASSUME NEW w \in Workers, regSock(w) \/ regSockAdd(w)
       PROVE  UNCHANGED <<data, ctx, rcvd, epbuf, busi>>
  BY <1>13 DEF regSock, regSockAdd, sockVars, bufVars, connVars
<1> QED BY <1>2, <1>4, <1>5, <1>6, <1>7, <1>8, <1>9, <1>10, <1>11, <1>12, <1>13
        DEF Next, Lost, Environment, Clock, Net, Work

(* The steps that keep what they read. *)
LEMMA KeepFlow ==
  ASSUME OwnInv, RefInv, FlowInv, [Next]_vars, KeepStep
  PROVE  AttInv' /\ TaskInv' /\ OrderInv'
<1>0. /\ FlowTypes /\ AttInv /\ TaskInv /\ OrderInv /\ OwnTypes /\ Places /\ Once /\ FlowTypes'
      /\ MaxSend \in Nat /\ Cap \in Nat \ {0} /\ None \notin Bufs /\ None \notin Socks
  BY NextFlowTypes, Before, NetThAssumption DEF FlowInv
<1>1. Recv /\ recvParsed /\ Keep
  BY DEF KeepStep, NewBig, Recv, recvMore, recvWhole, recvFull, Dispatch
<1>2. RecvEnd /\ npc = "recv"
  BY <1>1, RecvIsEnd DEF RecvEnd
<1>3. /\ cur \in Socks /\ nbuf \in Bufs /\ OneEach(epbuf)
      /\ epbuf \in [Socks -> Bufs \cup {None}]
      /\ \/ epbuf[cur] = nbuf /\ nbuf \in Held(epbuf) /\ NetHand = {}
         \/ epbuf[cur] = None /\ NetHand = {nbuf}
      /\ nbuf \notin Held(epbuf) \ {epbuf[cur]}
  BY <1>2, InHand
<1>4. nbuf \notin TaskBufs /\ TaskBufs \subseteq Bufs
  BY <1>0, <1>3, TasksAreBufs DEF Places, Split, Apart, TaskBufs
<1> DEFINE p == rcvd[cur] + Got(cur, nbuf)
<1>5. PICK m \in Nat :
        /\ m <= rcvd[cur] /\ RecvData(cur, nbuf) = Chunks(cur, m, p)
        /\ Len(RecvData(cur, nbuf)) = p - m /\ p - m <= Cap /\ m < p
        /\ epbuf[cur] = None => m = rcvd[cur] /\ ctx[nbuf] \in {{}, {None}}
        /\ epbuf[cur] # None => /\ epbuf[cur] = nbuf /\ Head(data[nbuf])[2] = m + 1
                                /\ CtxOf(nbuf, cur)
  BY <1>1, <1>2, RecvRun DEF recvParsed
<1>6. p \in Nat /\ rcvd[cur] \in Nat /\ rcvd[cur] <= p /\ p <= MaxSend
  <2>1. Got(cur, nbuf) \in Nat /\ p <= sent[cur]
    BY <1>2, RecvRun
  <2>2. rcvd[cur] \in Nat /\ sent[cur] \in 0..MaxSend
    BY <1>0, <1>3 DEF FlowTypes
  <2> QED BY <1>0, <2>1, <2>2
<1>7. /\ rcvd' = [rcvd EXCEPT ![cur] = p]
      /\ data' = [data EXCEPT ![nbuf] = RecvData(cur, nbuf)]
      /\ ctx' = [ctx EXCEPT ![nbuf] = IF UseCtx /\ None \notin ctx[nbuf]
                                      THEN ctx[nbuf] \cup {cur} ELSE ctx[nbuf]]
  BY <1>1 DEF recvParsed, Keep
<1> HIDE DEF p
<1>8. /\ data'[nbuf] = Chunks(cur, m, p) /\ rcvd'[cur] = p
      /\ \A b \in Bufs : b # nbuf => data'[b] = data[b] /\ ctx'[b] = ctx[b]
      /\ \A s \in Socks : s # cur => rcvd'[s] = rcvd[s]
  BY <1>0, <1>3, <1>5, <1>7 DEF FlowTypes
<1>9. UseCtx => ctx'[nbuf] \in {{None}, {cur}}
  <2>1. UseCtx => ctx'[nbuf] = IF None \notin ctx[nbuf] THEN ctx[nbuf] \cup {cur} ELSE ctx[nbuf]
    BY <1>0, <1>3, <1>7 DEF FlowTypes
  <2>2. UseCtx => ctx[nbuf] \in {{}, {None}, {cur}}
    BY <1>5 DEF CtxOf
  <2> QED BY <1>0, <1>3, <2>1, <2>2
(* The new data comes after everything queued of the connection. *)
<1>10. /\ Head(Chunks(cur, m, p))[2] = m + 1 /\ Last(Chunks(cur, m, p))[2] = p
  <2>1. cur \in Socks /\ m \in Nat /\ p \in Nat /\ m <= p /\ m < p /\ p <= MaxSend
    BY <1>3, <1>5, <1>6
  <2>2. Head(Chunks(cur, m, p)) = <<cur, m + 1>> /\ Last(Chunks(cur, m, p)) = <<cur, p>>
    BY <2>1, ChunksFacts
  <2> QED BY <2>2
<1>11. ASSUME NEW i \in DOMAIN busi, ref[busi[i]] = cur
       PROVE  Last(data[busi[i]])[2] < m + 1
  <2>1. busi[i] \in TaskBufs
    BY DEF TaskBufs, Range
  <2>2. CASE epbuf[cur] # None
    BY <1>0, <1>3, <1>5, <1>11, <2>2 DEF OrderInv
  <2>3. CASE epbuf[cur] = None
    <3>1. PICK k, n \in Nat : k < n /\ n <= rcvd[cur] /\ data[busi[i]] = Chunks(cur, k, n)
      BY <1>0, <1>11, <2>1 DEF TaskInv
    <3>2. k <= n /\ n <= MaxSend
      BY <1>0, <1>6, <3>1
    <3>3. Last(Chunks(cur, k, n)) = <<cur, n>>
      BY <1>3, <3>1, <3>2, ChunksFacts
    <3>4. Last(data[busi[i]])[2] = n /\ m = rcvd[cur]
      BY <1>5, <2>3, <3>1, <3>3
    <3> QED BY <1>6, <3>1, <3>4
  <2> QED BY <2>2, <2>3
(* The packets already there. *)
<1>12. \A b \in TaskBufs : data'[b] = data[b] /\ ctx'[b] = ctx[b]
  BY <1>4, <1>8
<1>13. \A s \in Socks : s # cur /\ epbuf[s] # None =>
         /\ data'[epbuf[s]] = data[epbuf[s]] /\ ctx'[epbuf[s]] = ctx[epbuf[s]]
         /\ rcvd'[s] = rcvd[s]
  BY <1>3, <1>8 DEF OneEach, Held
<1>14. \A s \in Socks : rcvd[s] \in Nat /\ rcvd'[s] \in Nat /\ rcvd[s] <= rcvd'[s]
  BY <1>0, <1>3, <1>6, <1>8 DEF FlowTypes
<1>15. ASSUME NEW b \in TaskBufs, ref'[b] = ref[b]
       PROVE  /\ UseCtx => ctx'[b] \in {{None}, {ref'[b]}}
              /\ \E k, n \in Nat : k < n /\ n <= rcvd'[ref'[b]] /\ data'[b] = Chunks(ref'[b], k, n)
  <2>1. ref[b] \in Socks
    BY DEF RefInv
  <2>2. PICK k, n \in Nat : k < n /\ n <= rcvd[ref[b]] /\ data[b] = Chunks(ref[b], k, n)
    BY <1>0 DEF TaskInv
  <2>3. n <= rcvd'[ref[b]]
    BY <1>14, <2>1, <2>2
  <2> QED BY <1>0, <1>12, <1>15, <2>2, <2>3 DEF TaskInv, CtxOf
(* isFullPkt > 0: the buffer stays with the connection. *)
<1>16. CASE recvMore
  <2>1. /\ epbuf' = [epbuf EXCEPT ![cur] = nbuf] /\ UNCHANGED <<busi, ref>> /\ ~IsFull
    BY <1>16 DEF recvMore
  <2>2. TaskBufs' = TaskBufs
    BY <1>2, <2>1 DEF TaskBufs, RecvEnd
  <2>3. p - m < Cap
    BY <1>0, <1>5, <1>6, <2>1 DEF IsFull
  <2>4. epbuf'[cur] = nbuf /\ \A s \in Socks : s # cur => epbuf'[s] = epbuf[s]
    BY <1>3, <2>1
  <2>5. AttInv'
    <3> SUFFICES ASSUME NEW s \in Socks, epbuf'[s] # None
                 PROVE  /\ UseCtx => ctx'[epbuf'[s]] \in {{None}, {s}}
                        /\ \E k \in Nat : /\ k < rcvd'[s] /\ rcvd'[s] - k < Cap
                                          /\ data'[epbuf'[s]] = Chunks(s, k, rcvd'[s])
      BY DEF AttInv, CtxOf
    <3>1. CASE s = cur
      BY <1>5, <1>8, <1>9, <2>3, <2>4, <3>1
    <3>2. CASE s # cur
      BY <1>0, <1>13, <2>4, <3>2 DEF AttInv, CtxOf
    <3> QED BY <3>1, <3>2
  <2>6. TaskInv'
    BY <1>15, <2>1, <2>2 DEF TaskInv, CtxOf
  <2>7. OrderInv'
    <3>1. \A i \in DOMAIN busi : busi[i] \in TaskBufs /\ data'[busi[i]] = data[busi[i]]
      BY <1>12 DEF TaskBufs, Range
    <3>2. ASSUME NEW i \in DOMAIN busi, NEW s \in Socks, ref[busi[i]] = s, epbuf'[s] # None
          PROVE  Last(data[busi[i]])[2] < Head(data'[epbuf'[s]])[2]
      <4>1. CASE s = cur
        BY <1>8, <1>10, <1>11, <2>4, <3>2, <4>1
      <4>2. CASE s # cur
        BY <1>0, <1>13, <2>4, <3>2, <4>2 DEF OrderInv
      <4> QED BY <4>1, <4>2
    <3> QED BY <1>0, <2>1, <3>1, <3>2 DEF OrderInv
  <2> QED BY <2>5, <2>6, <2>7
(* A whole packet, or a full buffer: it is queued. *)
<1>17. CASE \E full \in BOOLEAN : Dispatch(full)
  <2>1. PICK full \in BOOLEAN : Dispatch(full)
    BY <1>17
  <2>2. /\ epbuf' = [epbuf EXCEPT ![cur] = None] /\ busi' = Append(busi, nbuf)
        /\ ref' = [ref EXCEPT ![nbuf] = cur]
    BY <2>1 DEF Dispatch, pushTask
  <2>3. TaskBufs' = TaskBufs \cup {nbuf}
    BY <1>2, <2>1, DispatchMove DEF TaskNew
  <2>4. ref'[nbuf] = cur /\ \A b \in TaskBufs : ref'[b] = ref[b]
    BY <1>3, <1>4, <2>2 DEF RefInv
  <2>5. epbuf'[cur] = None /\ \A s \in Socks : s # cur => epbuf'[s] = epbuf[s]
    BY <1>3, <2>2
  <2>6. AttInv'
    BY <1>0, <1>13, <2>5 DEF AttInv, CtxOf
  <2>7. TaskInv'
    <3> SUFFICES ASSUME NEW b \in TaskBufs \cup {nbuf}
                 PROVE  /\ UseCtx => ctx'[b] \in {{None}, {ref'[b]}}
                        /\ \E k, n \in Nat : /\ k < n /\ n <= rcvd'[ref'[b]]
                                             /\ data'[b] = Chunks(ref'[b], k, n)
      BY <2>3 DEF TaskInv, CtxOf
    <3>1. CASE b = nbuf
      <4>1. p <= rcvd'[cur]
        BY <1>6, <1>8
      <4> QED BY <1>5, <1>6, <1>8, <1>9, <2>4, <3>1, <4>1
    <3>2. CASE b \in TaskBufs
      BY <1>15, <2>4, <3>2
    <3> QED BY <3>1, <3>2
  <2>8. OrderInv'
    <3>1. busi \in Seq(Bufs)
      BY <1>0 DEF OwnTypes
    <3>2. /\ busi' \in Seq(Bufs) /\ Len(busi') = Len(busi) + 1
          /\ \A i \in 1..Len(busi) : busi'[i] = busi[i]
          /\ busi'[Len(busi) + 1] = nbuf
      BY <1>3, <2>2, <3>1, AppendProperties
    <3>3. /\ DOMAIN busi = 1..Len(busi) /\ Len(busi) \in Nat
          /\ DOMAIN busi' = 1..(Len(busi) + 1)
      BY <3>1, <3>2, LenProperties
    <3>4. \A i \in DOMAIN busi : /\ busi[i] \in TaskBufs /\ data'[busi[i]] = data[busi[i]]
                                 /\ ref'[busi[i]] = ref[busi[i]]
      BY <1>12, <2>4 DEF TaskBufs, Range
    <3>5. ASSUME NEW i \in DOMAIN busi', NEW j \in DOMAIN busi', i < j,
                 ref'[busi'[i]] = ref'[busi'[j]]
          PROVE  Last(data'[busi'[i]])[2] < Head(data'[busi'[j]])[2]
      <4>1. i \in DOMAIN busi /\ busi'[i] = busi[i]
        BY <3>2, <3>3, <3>5
      <4>2. CASE j \in DOMAIN busi /\ busi'[j] = busi[j]
        BY <1>0, <3>4, <3>5, <4>1, <4>2 DEF OrderInv
      <4>3. CASE busi'[j] = nbuf
        BY <1>8, <1>10, <1>11, <2>4, <3>4, <3>5, <4>1, <4>3
      <4>4. j \in DOMAIN busi \/ j = Len(busi) + 1
        BY <3>3
      <4> QED BY <3>2, <3>3, <4>2, <4>3, <4>4
    <3>6. ASSUME NEW i \in DOMAIN busi', NEW s \in Socks, ref'[busi'[i]] = s, epbuf'[s] # None
          PROVE  Last(data'[busi'[i]])[2] < Head(data'[epbuf'[s]])[2]
      <4>1. s # cur /\ epbuf'[s] = epbuf[s] /\ data'[epbuf[s]] = data[epbuf[s]]
        BY <1>13, <2>5, <3>6
      <4>2. i \in DOMAIN busi /\ busi'[i] = busi[i]
        BY <2>4, <3>2, <3>3, <3>6, <4>1
      <4> QED BY <1>0, <3>4, <3>6, <4>1, <4>2 DEF OrderInv
    <3> QED BY <3>5, <3>6 DEF OrderInv
  <2> QED BY <2>6, <2>7, <2>8
<1> QED BY <1>16, <1>17 DEF KeepStep, NewBig, recvFull, recvWhole

LEMMA NextFlow ==
  ASSUME OwnInv, RefInv, BlockInv, FlowInv, [Next]_vars
  PROVE  FlowInv'
<1>1. FlowTypes' /\ CleanInv'
  BY NextFlowTypes, NextClean
<1>2. AttInv' /\ TaskInv' /\ OrderInv'
  <2>1. CASE KeepStep
    BY <2>1, KeepFlow
  <2>2. CASE ~KeepStep
    BY <2>2, NextQuiet, QuietFlow
  <2> QED BY <2>1, <2>2
<1> QED BY <1>1, <1>2 DEF FlowInv

----------------------------------------------------------------------------
(* The inductive invariant. *)
FullInv == OwnInv /\ RefInv /\ TableInv /\ BlockInv /\ FlowInv

LEMMA InitFull == Init => FullInv
<1> SUFFICES ASSUME Init PROVE FullInv
  OBVIOUS
<1>1. OwnInv
  BY InitOwn
<1>2. busi = <<>> /\ DOMAIN busi = {} /\ Range(busi) = {}
  BY LenProperties, EmptySeq DEF Init, Range
<1>3. TaskBufs = {}
  BY <1>2 DEF Init, TaskBufs, Held
<1>4. RefInv
  BY <1>3 DEF Init, RefInv
<1>5. TableInv
  BY NetThAssumption DEF Init, TableInv, TableTypes, LoopInv, JoinInv, NoDanglingEvent
<1>6. BlockInv
  BY DEF Init, BlockInv, ExclusiveBlock, WorkersSafeUnlessClosing, Big
<1>7. FlowTypes
  <2>1. 0 \in 0..MaxSend /\ <<>> \in Packets
    BY NetThAssumption DEF Packets
  <2> QED BY <2>1 DEF Init, FlowTypes
<1>8. CleanInv
  <2>1. \A b \in Range(idle) \cup NetHand : b \in Bufs
    BY <1>1, Before DEF Places, Split
  <2> QED BY <2>1 DEF Init, CleanInv
<1>9. AttInv /\ TaskInv /\ OrderInv
  BY <1>2, <1>3 DEF Init, AttInv, TaskInv, OrderInv
<1> QED BY <1>1, <1>4, <1>5, <1>6, <1>7, <1>8, <1>9 DEF FullInv, FlowInv

LEMMA NextFull == FullInv /\ [Next]_vars => FullInv'
<1> SUFFICES ASSUME FullInv, [Next]_vars PROVE FullInv'
  OBVIOUS
<1>1. OwnInv /\ RefInv /\ TableInv /\ BlockInv /\ FlowInv
  BY DEF FullInv
<1>2. OwnInv' /\ RefInv'
  BY <1>1, NextOwn, NextRef
<1>3. TableInv'
  BY <1>1, NextTableTypes, NextLoop, NextJoin DEF TableInv
<1>4. BlockInv' /\ FlowInv'
  BY <1>1, NextBlock, NextFlow
<1> QED BY <1>2, <1>3, <1>4 DEF FullInv

LEMMA FullInvariance == Spec => []FullInv
BY InitFull, NextFull, PTL DEF Spec

LEMMA FullTypes == FullInv => TypeOK
<1> SUFFICES ASSUME FullInv PROVE TypeOK
  OBVIOUS
<1>1. OwnTypes /\ RefInv /\ TableTypes /\ FlowTypes
  BY DEF FullInv, OwnInv, TableInv, FlowInv
<1>2. rcvd \in [Socks -> 0..MaxSend]
  <2>1. \A s \in Socks : rcvd[s] \in 0..MaxSend
    BY <1>1, NetThAssumption DEF FlowTypes
  <2> QED BY <1>1, <2>1 DEF FlowTypes
<1> QED BY <1>1, <1>2 DEF TypeOK, OwnTypes, RefInv, TableTypes, FlowTypes, Packets

LEMMA TasksAre ==
  ASSUME OwnInv
  PROVE  Tasks = TaskBufs
BY DEF OwnInv, OwnTypes, Tasks, TaskBufs, Working, Held

LEMMA FullInvInv == FullInv => Inv
<1> SUFFICES ASSUME FullInv PROVE Inv
  OBVIOUS
<1>1. OwnInv /\ RefInv /\ NoDanglingEvent /\ ExclusiveBlock /\ CleanInv
  BY DEF FullInv, TableInv, BlockInv, FlowInv
<1>2. IdleDrained
  <2>1. \A b \in Range(idle) : b \in Bufs /\ b \notin TaskBufs
    BY <1>1, Before DEF Places, Split, Apart, TaskBufs
  <2> QED BY <1>1, <2>1 DEF IdleDrained, CleanInv, RefInv
<1> QED BY <1>1, <1>2, FullTypes DEF Inv

LEMMA FullStream == FullInv => StreamOrder
<1> SUFFICES ASSUME FullInv PROVE StreamOrder
  OBVIOUS
<1>1. OwnInv /\ RefInv /\ FlowTypes /\ TaskInv /\ OrderInv
  BY DEF FullInv, FlowInv
<1>2. ASSUME NEW b \in TaskBufs
      PROVE  Consecutive(b)
  <2>1. ref[b] \in Socks
    BY <1>1 DEF RefInv
  <2>2. PICK m, n \in Nat : m < n /\ n <= rcvd[ref[b]] /\ data[b] = Chunks(ref[b], m, n)
    BY <1>1 DEF TaskInv
  <2>3. m <= n /\ n <= MaxSend
    BY <1>1, <2>1, <2>2, NetThAssumption DEF FlowTypes
  <2>4. /\ Len(Chunks(ref[b], m, n)) = n - m /\ Chunks(ref[b], m, n) # <<>>
        /\ \A i \in 1..(n - m) : Chunks(ref[b], m, n)[i] = <<ref[b], m + i>>
    BY <2>1, <2>2, <2>3, ChunksFacts
  <2>5. 1 \in 1..(n - m) /\ (m + 1) - 1 = m /\ m + (n - m) = n
    BY <2>2
  <2>6. data[b][1] = <<ref[b], m + 1>>
    BY <2>2, <2>4, <2>5
  <2>7. data[b][1][2] - 1 = m
    BY <2>5, <2>6
  <2> QED BY <2>1, <2>2, <2>4, <2>5, <2>7 DEF Consecutive
<1> QED BY <1>1, <1>2, TasksAre DEF StreamOrder, OrderInv

(* The types, and what the network thread keeps true between its steps, for any
   connections, buffers and workers: events point to live connections, idle
   buffers are clean, and a handler reading the rest of a big packet has its
   socket to itself. *)
THEOREM NetThreadCorrect == Spec => []Inv
BY FullInvariance, FullInvInv, PTL

(* The handlers are given consecutive chunks of one connection each, queued in
   the order of its stream, whatever the buffers held before. *)
THEOREM StreamsInOrder == Spec => []StreamOrder
BY FullInvariance, FullStream, PTL

(* A worker never uses an invalid pointer and the pool never loses a buffer
   because a peer hangs up; only closing on the server's side can do that.  (What
   onEpollErr itself uses after freeing it is UseAfterErase.) *)
THEOREM WorkersSafe == Spec => []WorkersSafeUnlessClosing
<1>1. FullInv => WorkersSafeUnlessClosing
  BY DEF FullInv, BlockInv
<1> QED BY <1>1, FullInvariance, PTL

(* The parser of a packet has seen its own connection only, unless its buffer
   carries the context of a packet thrown away. *)
THEOREM ParserOneConnection == Spec => []ParsedOneConn
<1>1. FullInv => ParsedOneConn
  BY TasksAre DEF FullInv, FlowInv, TaskInv, CtxOf, ParsedOneConn
<1> QED BY <1>1, FullInvariance, PTL
=============================================================================
