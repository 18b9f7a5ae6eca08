----------------------------- MODULE ToolProofs -----------------------------
(***************************************************************************)
(* Proofs about what is under isaac/tool and isaac/alg, for every value of *)
(* the constants.                                                          *)
(*                                                                         *)
(* ThQueue, for every number of threads, every mix of calls and every      *)
(* bound: type correctness, the hand-kept _size, the currency of every     *)
(* sleeper's _lockId snapshot, the absence of lost wake-ups, the           *)
(* conservation of the values pushed and the order they leave in.          *)
(*                                                                         *)
(* SharedMutex, for every finite set of threads and whichever of them use  *)
(* YS_WLock: mutual exclusion, no forgotten sleeper, and the refinement of *)
(* the abstract readers-writer lock.                                       *)
(*                                                                         *)
(* Buf, for every block size, memory and sequence of calls: what the buffer *)
(* holds, and what becomes of an append that must make it grow.            *)
(*                                                                         *)
(* Digest, for every block and word size, every message and every way to   *)
(* cut it into calls: YS_Sm3 and YS_Md5 compress the standard's padding.   *)
(***************************************************************************)
EXTENDS ThQueue, SharedMutex, Buf, Digest, FiniteSetTheorems, SequenceTheorems, TLAPS

(***************************************************************************)
(*                          The blocking queue                             *)
(***************************************************************************)

(* A caller inside swap passed an empty container unless Reuses, and makes
   one of the calls it is meant to make. *)
CallInv ==
  \A c \in Callers : pc[c] # "out" =>
    /\ kind[c] \in Kinds
    /\ (kind[c] = "swap" /\ ~Reuses) => local[c] = <<>>

(* The inductive invariant. *)
IInv ==
  /\ TypeOK
  /\ SizeIsLength
  /\ SleepersAreCurrent
  /\ CallInv
  /\ NoLostWakeup

----------------------------------------------------------------------------
(* A function on 1..k is a sequence of length k. *)
LEMMA FunctionIsSeq ==
  ASSUME NEW S, NEW k \in Nat, NEW f \in [1..k -> S]
  PROVE  f \in Seq(S) /\ Len(f) = k
<1>1. f \in Seq(S)
  BY SeqDef
<1>2. DOMAIN f = 1..Len(f) /\ Len(f) \in Nat
  BY <1>1, LenProperties
<1>3. DOMAIN f = 1..k
  OBVIOUS
<1>4. QED
  BY <1>1, <1>2, <1>3

(* What the batch helpers build. *)
LEMMA BatchType ==
  ASSUME NEW n \in Nat, NEW k \in Nat, n + k <= MaxPush
  PROVE  /\ Batch(n, k) \in Seq(1..MaxPush)
         /\ Len(Batch(n, k)) = k
         /\ Reverse(Batch(n, k)) \in Seq(1..MaxPush)
         /\ Len(Reverse(Batch(n, k))) = k
<1>0. MaxPush \in Nat
  BY ThQueueAssumption
<1>1. Batch(n, k) \in [1..k -> 1..MaxPush]
  BY <1>0 DEF Batch
<1>2. Batch(n, k) \in Seq(1..MaxPush) /\ Len(Batch(n, k)) = k
  BY <1>1, FunctionIsSeq
<1>3. Reverse(Batch(n, k)) \in [1..k -> 1..MaxPush]
  BY <1>0, <1>1, <1>2 DEF Reverse
<1>4. QED
  BY <1>2, <1>3, FunctionIsSeq

(* Entitled is finite, whatever the state. *)
LEMMA EntitledFinite ==
  IsFiniteSet(Entitled) /\ Cardinality(Entitled) \in Nat
<1>1. Entitled \subseteq Callers
  BY DEF Entitled, Awake
<1>2. IsFiniteSet(Callers)
  BY ThQueueAssumption
<1>3. QED
  BY <1>1, <1>2, FS_Subset, FS_CardinalityType

LEMMA EntitledFinitePrime ==
  IsFiniteSet(Entitled') /\ Cardinality(Entitled') \in Nat
<1>1. Entitled' \subseteq Callers
  BY DEF Entitled, Awake
<1>2. IsFiniteSet(Callers)
  BY ThQueueAssumption
<1>3. QED
  BY <1>1, <1>2, FS_Subset, FS_CardinalityType

(* A queue that does not grow stays covered when nobody entitled leaves. *)
LEMMA CoveredMonotone ==
  ASSUME NoLostWakeup, TypeOK, TypeOK',
         Waiting' \subseteq Waiting,
         Len(queue') <= Len(queue), Entitled \subseteq Entitled'
  PROVE  NoLostWakeup'
<1>1. Cardinality(Entitled) <= Cardinality(Entitled')
  BY EntitledFinitePrime, FS_Subset
<1>2. Len(queue) \in Nat /\ Len(queue') \in Nat
  BY DEF TypeOK
<1>3. QED
  BY <1>1, <1>2, EntitledFinite, EntitledFinitePrime DEF NoLostWakeup

(* An empty queue is covered by anybody. *)
LEMMA CoveredEmpty ==
  ASSUME queue' = <<>>
  PROVE  NoLostWakeup'
BY EntitledFinitePrime DEF NoLostWakeup

----------------------------------------------------------------------------
LEMMA InitIInv == Init => IInv
<1> SUFFICES ASSUME Init PROVE IInv
  OBVIOUS
<1>1. TypeOK
  BY ThQueueAssumption DEF Init, TypeOK, AllKinds
<1>2. SizeIsLength /\ SleepersAreCurrent /\ CallInv /\ NoLostWakeup
  BY DEF Init, SizeIsLength, SleepersAreCurrent, CallInv, NoLostWakeup, Waiting
<1>3. QED
  BY <1>1, <1>2 DEF IInv

----------------------------------------------------------------------------
(* A step that only takes from the queue's head, by a thread that need not
   be a caller, keeps the queue typed and counted. *)
LEMMA TailFacts ==
  ASSUME TypeOK, SizeIsLength, queue # <<>>
  PROVE  /\ Tail(queue) \in Seq(1..MaxPush)
         /\ Len(Tail(queue)) = Len(queue) - 1
         /\ Len(queue) \in Nat \ {0}
         /\ Head(queue) \in 1..MaxPush
         /\ size - 1 \in Nat
         /\ size - 1 = Len(Tail(queue))
<1>1. queue \in Seq(1..MaxPush)
  BY DEF TypeOK
<1>2. Head(queue) \in 1..MaxPush /\ Tail(queue) \in Seq(1..MaxPush)
      /\ Len(Tail(queue)) = Len(queue) - 1
  BY <1>1, HeadTailProperties
<1>3. Len(queue) \in Nat \ {0}
  BY <1>1, EmptySeq
<1>4. QED
  BY <1>2, <1>3 DEF SizeIsLength

(* The outcome of a blocking call, whoever reached it. *)
LEMMA FinishStep ==
  ASSUME IInv, NEW c \in Callers, NEW b \in BOOLEAN, Finish(c, b),
         pc[c] \in {"enter", "awake", "expired"},
         pc[c] = "enter" \/ b \/ Ready(c)
  PROVE  IInv'
<1> USE DEF IInv
<1>0. kind[c] \in Kinds /\ ((kind[c] = "swap" /\ ~Reuses) => local[c] = <<>>)
  BY DEF CallInv
<1>a. UNCHANGED <<lockId, kind, ms, snap, pushed, dropped>>
      /\ pc' = [pc EXCEPT ![c] = "out"]
  BY DEF Finish, FinishPop, FinishSwap, FinishWait, Return, call, ghost
<1>1. TypeOK' /\ SizeIsLength'
  <2>1. ret' \in [Callers -> {"none", "true", "false"}]
    BY DEF Finish, FinishPop, FinishSwap, FinishWait, Return, TypeOK
  <2>2. pc' \in [Callers -> {"out", "enter", "waiting", "awake", "expired"}]
    BY <1>a DEF TypeOK
  <2>3. CASE UNCHANGED <<queue, size, local, taken>>
    BY <2>1, <2>2, <2>3, <1>a DEF TypeOK, SizeIsLength
  <2>4. CASE kind[c] = "pop_front" /\ queue # <<>> /\ ~hasNotify(c)
    <3>1. queue' = Tail(queue) /\ size' = size - 1 /\ local' = local
          /\ taken' = taken \cup {Head(queue)}
      BY <2>4 DEF Finish, FinishPop
    <3>2. QED
      BY <2>1, <2>2, <3>1, <2>4, <1>a, TailFacts DEF TypeOK, SizeIsLength
  <2>5. CASE kind[c] = "swap" /\ queue # <<>> /\ ~hasNotify(c)
    <3>1. queue' = local[c] /\ size' = Len(local[c]) /\ taken' = taken
          /\ local' = [local EXCEPT ![c] = queue]
      BY <2>5 DEF Finish, FinishSwap, ghost
    <3>2. local[c] \in Seq(1..MaxPush) /\ Len(local[c]) \in Nat
      BY LenProperties DEF TypeOK
    <3>3. local' \in [Callers -> Seq(1..MaxPush)]
      BY <3>1 DEF TypeOK
    <3>4. QED
      BY <2>1, <2>2, <3>1, <3>2, <3>3, <1>a DEF TypeOK, SizeIsLength
  <2>6. QED
    BY <2>3, <2>4, <2>5 DEF Finish, FinishPop, FinishSwap, FinishWait, ghost
<1>2. SleepersAreCurrent' /\ CallInv'
  <2>1. Waiting' \subseteq Waiting
    BY <1>a DEF Waiting, TypeOK
  <2>2. \A d \in Callers : d # c => local'[d] = local[d]
    BY DEF Finish, FinishPop, FinishSwap, FinishWait, ghost, TypeOK
  <2>3. QED
    BY <1>a, <2>1, <2>2 DEF SleepersAreCurrent, CallInv, TypeOK
<1>3. NoLostWakeup'
  <2>0. SUFFICES ASSUME Disciplined PROVE NoLostWakeup'
    BY DEF NoLostWakeup, Disciplined
  <2>1. Waiting' = Waiting /\ Entitled' = Entitled \ {c}
    BY <1>a DEF Waiting, Entitled, Awake, TypeOK
  <2>2. CASE queue = <<>>
    <3>1. queue' = <<>>
      BY <2>2 DEF Finish, FinishPop, FinishSwap, FinishWait
    <3>2. QED
      BY <3>1, CoveredEmpty
  <2>3. CASE queue # <<>> /\ hasNotify(c)
    <3>1. queue' = queue
      BY <2>3, <1>0 DEF Finish, FinishPop, FinishSwap, FinishWait, hasNotify
    <3>2. c \notin Entitled
      BY <2>3 DEF Entitled, hasNotify
    <3>3. Len(queue') <= Len(queue)
      BY <3>1, LenProperties DEF TypeOK
    <3>4. Waiting' \subseteq Waiting /\ Entitled \subseteq Entitled'
      BY <2>1, <3>2
    <3>5. QED
      BY <3>3, <3>4, <1>1, CoveredMonotone
  <2>4. CASE queue # <<>> /\ ~hasNotify(c)
    <3>1. CASE kind[c] = "pop_front"
      <4>1. queue' = Tail(queue) /\ Len(queue') = Len(queue) - 1 /\ Len(queue) \in Nat
        BY <3>1, <2>4, TailFacts DEF Finish, FinishPop
      <4>2. CASE c \notin Entitled
        BY <4>1, <4>2, <2>1, <1>1, CoveredMonotone
      <4>3. CASE c \in Entitled
        <5>1. Cardinality(Entitled') = Cardinality(Entitled) - 1
          BY <4>3, <2>1, EntitledFinite, FS_RemoveElement
        <5>2. QED
          BY <5>1, <4>1, <2>1, EntitledFinite DEF NoLostWakeup
      <4>4. QED
        BY <4>2, <4>3
    <3>2. CASE kind[c] = "swap"
      <4>1. queue' = <<>>
        BY <3>2, <2>4, <2>0, <1>0 DEF Finish, FinishSwap, Disciplined
      <4>2. QED
        BY <4>1, CoveredEmpty
    <3>3. QED
      BY <3>1, <3>2, <2>0, <1>0 DEF Disciplined, Finish
  <2>5. QED
    BY <2>2, <2>3, <2>4
<1>4. QED
  BY <1>1, <1>2, <1>3

(* Going (back) to sleep happens only with an empty queue and a current
   snapshot. *)
LEMMA SleepStep ==
  ASSUME IInv, NEW c \in Callers, pc[c] \in {"enter", "awake"}, ~Ready(c), Sleep(c)
  PROVE  IInv'
<1> USE DEF IInv, Sleep, call, ghost
<1>1. queue = <<>> /\ snap[c] = lockId
  BY DEF Ready, hasNotify
<1>2. TypeOK' /\ SizeIsLength' /\ SleepersAreCurrent' /\ CallInv'
  BY <1>1 DEF TypeOK, SizeIsLength, SleepersAreCurrent, CallInv, Waiting
<1>3. NoLostWakeup'
  BY <1>1, CoveredEmpty
<1>4. QED
  BY <1>2, <1>3

(* Steps that move callers only: leaving the wait set never uncovers data. *)
LEMMA LeaveStep ==
  ASSUME IInv, NEW c \in Callers, Timeout(c) \/ Spurious(c)
  PROVE  IInv'
<1> USE DEF IInv, Timeout, Spurious, call, ghost
<1>1. TypeOK' /\ SizeIsLength' /\ SleepersAreCurrent' /\ CallInv'
  BY DEF TypeOK, SizeIsLength, SleepersAreCurrent, CallInv, Waiting
<1>2. Waiting' \subseteq Waiting /\ Entitled \subseteq Entitled' /\ queue' = queue
  BY DEF Waiting, Entitled, Awake, TypeOK
<1>3. NoLostWakeup'
  BY <1>1, <1>2, CoveredMonotone, SMTT(30) DEF TypeOK
<1>4. QED
  BY <1>1, <1>3

(* How the notifications of a push or of notifyT move the callers. *)
LEMMA NotifyAllFacts ==
  ASSUME TypeOK, notify_all
  PROVE  /\ pc' \in [Callers -> {"out", "enter", "waiting", "awake", "expired"}]
         /\ Waiting' = {}
         /\ \A c \in Callers : pc[c] = "out" <=> pc'[c] = "out"
BY DEF TypeOK, notify_all, Waiting

LEMMA NotifyOneFacts ==
  ASSUME TypeOK, SleepersAreCurrent, notify_one, UNCHANGED <<snap, lockId>>
  PROVE  /\ pc' \in [Callers -> {"out", "enter", "waiting", "awake", "expired"}]
         /\ Waiting' \subseteq Waiting
         /\ \A c \in Callers : pc[c] = "out" <=> pc'[c] = "out"
         /\ Waiting' # {} => Cardinality(Entitled') = Cardinality(Entitled) + 1
<1>1. CASE Waiting = {} /\ pc' = pc
  BY <1>1 DEF TypeOK, Waiting
<1>2. ASSUME NEW w \in Waiting, pc' = [pc EXCEPT ![w] = "awake"]
      PROVE  /\ pc' \in [Callers -> {"out", "enter", "waiting", "awake", "expired"}]
             /\ Waiting' \subseteq Waiting
             /\ \A c \in Callers : pc[c] = "out" <=> pc'[c] = "out"
             /\ Cardinality(Entitled') = Cardinality(Entitled) + 1
  <2>1. w \in Callers /\ pc[w] = "waiting" /\ snap[w] = lockId
    BY DEF Waiting, SleepersAreCurrent
  <2>2. Entitled' = Entitled \cup {w} /\ w \notin Entitled
    BY <1>2, <2>1 DEF Entitled, Awake, TypeOK
  <2>3. Cardinality(Entitled') = Cardinality(Entitled) + 1
    BY <2>2, EntitledFinite, FS_AddElement
  <2>4. QED
    BY <1>2, <2>1, <2>3 DEF TypeOK, Waiting
<1>3. QED
  BY <1>1, <1>2 DEF notify_one

(* A push of k values that announces them, one waiter or all of them. *)
LEMMA PushStep ==
  ASSUME IInv, NEW k \in Nat, NEW n \in Notifies,
         queue' \in Seq(1..MaxPush), Len(queue') = Len(queue) + k,
         size' = size + k, pushed' = pushed + k, pushed + k <= MaxPush,
         UNCHANGED <<lockId, call, local, ret, taken, dropped>>,
         \/ n /\ notify_all
         \/ n /\ notify_one /\ k = 1
         \/ ~n /\ pc' = pc
  PROVE  IInv'
<1> USE DEF IInv, call
<1>0. Len(queue) \in Nat
  BY LenProperties DEF TypeOK
<1>1. /\ pc' \in [Callers -> {"out", "enter", "waiting", "awake", "expired"}]
      /\ Waiting' \subseteq Waiting
      /\ \A c \in Callers : pc[c] = "out" <=> pc'[c] = "out"
  <2>1. CASE notify_all
    BY <2>1, NotifyAllFacts
  <2>2. CASE notify_one
    BY <2>2, NotifyOneFacts
  <2>3. CASE pc' = pc
    BY <2>3 DEF TypeOK, Waiting
  <2>4. QED
    BY <2>1, <2>2, <2>3
<1>2. TypeOK' /\ SizeIsLength'
  BY <1>0, <1>1, ThQueueAssumption DEF TypeOK, SizeIsLength
<1>3. SleepersAreCurrent' /\ CallInv'
  BY <1>1 DEF SleepersAreCurrent, CallInv
<1>4. NoLostWakeup'
  <2>1. CASE notify_all
    BY <2>1, NotifyAllFacts DEF NoLostWakeup
  <2>2. CASE notify_one /\ k = 1
    <3>1. SUFFICES ASSUME Disciplined, Waiting' # {}
                   PROVE  Len(queue') <= Cardinality(Entitled')
      BY DEF NoLostWakeup, Disciplined
    <3>2. Cardinality(Entitled') = Cardinality(Entitled) + 1
      BY <2>2, <3>1, NotifyOneFacts
    <3>3. Len(queue) <= Cardinality(Entitled)
      BY <1>1, <3>1 DEF NoLostWakeup
    <3>4. QED
      BY <2>2, <3>2, <3>3, <1>0, EntitledFinite
  <2>3. CASE ~n
    <3>1. n = FALSE
      BY <2>3, ThQueueAssumption
    <3>2. QED
      BY <3>1 DEF NoLostWakeup, Disciplined
  <2>4. QED
    BY <2>1, <2>2, <2>3
<1>5. QED
  BY <1>2, <1>3, <1>4

LEMMA PushesStep ==
  ASSUME IInv, Push
  PROVE  IInv'
<1> USE DEF IInv
<1>0. queue \in Seq(1..MaxPush) /\ pushed \in Nat /\ MaxPush \in Nat
      /\ Batches \subseteq Nat /\ Notifies \subseteq BOOLEAN
  BY ThQueueAssumption DEF TypeOK
<1>1. ASSUME NEW n \in Notifies, push_back(n)
      PROVE  IInv'
  <2>1. pushed + 1 \in 1..MaxPush
    BY <1>0, <1>1 DEF push_back
  <2>2. queue' \in Seq(1..MaxPush) /\ Len(queue') = Len(queue) + 1
    BY <1>0, <1>1, <2>1, AppendProperties DEF push_back
  <2>3. (n /\ notify_one) \/ (~n /\ pc' = pc)
    BY <1>0, <1>1 DEF push_back, Signal
  <2>4. QED
    BY <1>1, <2>1, <2>2, <2>3, PushStep, 1 \in Nat DEF push_back
<1>2. ASSUME NEW n \in Notifies, push_front(n)
      PROVE  IInv'
  <2>1. pushed + 1 \in 1..MaxPush
    BY <1>0, <1>2 DEF push_front
  <2>2. <<pushed + 1>> \in Seq(1..MaxPush) /\ Len(<<pushed + 1>>) = 1
    BY <2>1
  <2>3. queue' \in Seq(1..MaxPush) /\ Len(queue') = Len(queue) + 1
    BY <1>0, <1>2, <2>2, ConcatProperties, LenProperties DEF push_front
  <2>4. (n /\ notify_one) \/ (~n /\ pc' = pc)
    BY <1>0, <1>2 DEF push_front, Signal
  <2>5. QED
    BY <1>2, <2>1, <2>3, <2>4, PushStep, 1 \in Nat DEF push_front
<1>3. ASSUME NEW n \in Notifies, NEW k \in Batches, push_back_all(k, n)
      PROVE  IInv'
  <2>1. k \in Nat /\ pushed + k <= MaxPush
    BY <1>0, <1>3 DEF push_back_all
  <2>2. queue' \in Seq(1..MaxPush) /\ Len(queue') = Len(queue) + k
    <3>1. Batch(pushed, k) \in Seq(1..MaxPush) /\ Len(Batch(pushed, k)) = k
      BY <1>0, <2>1, BatchType
    <3>2. QED
      BY <1>0, <1>3, <3>1, ConcatProperties DEF push_back_all
  <2>3. (n /\ notify_all) \/ (~n /\ pc' = pc)
    BY <1>0, <1>3 DEF push_back_all, Signal
  <2>4. QED
    BY <1>3, <2>1, <2>2, <2>3, PushStep DEF push_back_all
<1>4. ASSUME NEW n \in Notifies, NEW k \in Batches, push_front_all(k, n)
      PROVE  IInv'
  <2>1. k \in Nat /\ pushed + k <= MaxPush
    BY <1>0, <1>4 DEF push_front_all
  <2>2. queue' \in Seq(1..MaxPush) /\ Len(queue') = k + Len(queue)
    <3> DEFINE r == Reverse(Batch(pushed, k))
    <3>1. r \in Seq(1..MaxPush) /\ Len(r) = k
      BY <1>0, <2>1, BatchType
    <3>2. queue' = r \o queue
      BY <1>4 DEF push_front_all
    <3> HIDE DEF r
    <3>3. QED
      BY <1>0, <3>1, <3>2, ConcatProperties
  <2>3. Len(queue') = Len(queue) + k
    BY <1>0, <2>1, <2>2, LenProperties
  <2>4. (n /\ notify_all) \/ (~n /\ pc' = pc)
    BY <1>0, <1>4 DEF push_front_all, Signal
  <2>5. QED
    BY <1>4, <2>1, <2>2, <2>3, <2>4, PushStep DEF push_front_all
<1>5. QED
  BY <1>1, <1>2, <1>3, <1>4 DEF Push, push_back_cap

(* Calls that take or discard data without being in the wait set. *)
LEMMA TakeStep ==
  ASSUME IInv,
         \/ pop_nowait \/ pop_discard \/ clear
         \/ \E c \in Callers : swap_nowait(c) \/ Consume(c)
  PROVE  IInv'
<1> USE DEF IInv, call, ghost
<1>0. Len(queue) \in Nat
  BY LenProperties DEF TypeOK
<1>1. CASE pop_nowait \/ pop_discard
  <2>1. queue # <<>> /\ queue' = Tail(queue) /\ size' = size - 1
        /\ UNCHANGED <<lockId, pc, kind, ms, snap, local, ret, pushed>>
    BY <1>1 DEF pop_nowait, pop_discard
  <2>2. TypeOK' /\ SizeIsLength'
    BY <1>1, <2>1, TailFacts DEF pop_nowait, pop_discard, TypeOK, SizeIsLength
  <2>3. SleepersAreCurrent' /\ CallInv' /\ Waiting' = Waiting /\ Entitled' = Entitled
    BY <2>1 DEF SleepersAreCurrent, CallInv, Waiting, Entitled, Awake
  <2>4. Len(queue') <= Len(queue)
    BY <1>0, <2>1, TailFacts
  <2>5. QED
    BY <2>2, <2>3, <2>4, CoveredMonotone
<1>2. CASE clear
  <2>1. Range(queue) \subseteq 1..MaxPush
    BY RangeOfSeq DEF TypeOK
  <2>a. dropped' \subseteq 1..MaxPush
    BY <1>2, <2>1 DEF clear, TypeOK
  <2>b. queue' \in Seq(1..MaxPush) /\ Len(queue') = 0
    BY <1>2 DEF clear
  <2>2. TypeOK' /\ SizeIsLength' /\ SleepersAreCurrent' /\ CallInv'
    BY <1>2, <2>a, <2>b DEF clear, TypeOK, SizeIsLength, SleepersAreCurrent, CallInv, Waiting
  <2>3. QED
    BY <1>2, <2>2, CoveredEmpty DEF clear
<1>3. ASSUME NEW c \in Callers, swap_nowait(c)
      PROVE  IInv'
  <2>1. local[c] \in Seq(1..MaxPush) /\ Len(local[c]) \in Nat
    BY LenProperties DEF TypeOK
  <2>2. TypeOK' /\ SizeIsLength'
    BY <1>3, <2>1 DEF swap_nowait, TypeOK, SizeIsLength
  <2>3. SleepersAreCurrent' /\ CallInv'
    BY <1>3 DEF swap_nowait, SleepersAreCurrent, CallInv, Waiting, TypeOK
  <2>4. NoLostWakeup'
    <3>1. CASE Reuses
      BY <3>1, <1>3 DEF NoLostWakeup, Disciplined
    <3>2. CASE ~Reuses
      BY <3>2, <1>3, CoveredEmpty DEF swap_nowait
    <3>3. QED
      BY <3>1, <3>2
  <2>5. QED
    BY <2>2, <2>3, <2>4
<1>4. ASSUME NEW c \in Callers, Consume(c)
      PROVE  IInv'
  <2>1. Range(local[c]) \subseteq 1..MaxPush
    BY RangeOfSeq DEF TypeOK
  <2>a. taken' \subseteq 1..MaxPush
    BY <1>4, <2>1 DEF Consume, TypeOK
  <2>b. local' \in [Callers -> Seq(1..MaxPush)]
    BY <1>4, EmptySeq DEF Consume, TypeOK
  <2>2. TypeOK' /\ SizeIsLength'
    BY <1>4, <2>a, <2>b DEF Consume, TypeOK, SizeIsLength
  <2>3. SleepersAreCurrent' /\ CallInv' /\ NoLostWakeup'
    BY <1>4 DEF Consume, SleepersAreCurrent, CallInv, NoLostWakeup, Waiting,
                Entitled, Awake, TypeOK
  <2>4. QED
    BY <2>2, <2>3
<1>5. QED
  BY <1>1, <1>2, <1>3, <1>4

LEMMA CallStep ==
  ASSUME IInv, NEW c \in Callers, NEW k \in Kinds,
         NEW m \in {"zero", "some", "forever"}, Call(c, k, m)
  PROVE  IInv'
<1> USE DEF IInv, Call, ghost
<1>1. TypeOK' /\ SizeIsLength'
  BY ThQueueAssumption DEF TypeOK, SizeIsLength, AllKinds
<1>2. SleepersAreCurrent' /\ CallInv'
  BY DEF SleepersAreCurrent, CallInv, Waiting, TypeOK
<1>3. Waiting' = Waiting /\ Entitled' = Entitled /\ Len(queue') <= Len(queue)
  <2>1. Len(queue) \in Nat
    BY LenProperties DEF TypeOK
  <2>2. QED
    BY <2>1 DEF Waiting, Entitled, Awake, TypeOK
<1>4. QED
  BY <1>1, <1>2, <1>3, CoveredMonotone

LEMMA NotifyTStep ==
  ASSUME IInv, notifyT
  PROVE  IInv'
<1> USE DEF IInv, notifyT, call, ghost
<1>1. TypeOK' /\ SizeIsLength'
  BY NotifyAllFacts, ThQueueAssumption DEF TypeOK, SizeIsLength
<1>2. SleepersAreCurrent' /\ CallInv' /\ NoLostWakeup'
  BY NotifyAllFacts DEF SleepersAreCurrent, CallInv, NoLostWakeup
<1>3. QED
  BY <1>1, <1>2

----------------------------------------------------------------------------
(* IInv is inductive: one case per action. *)
LEMMA NextIInv == IInv /\ [Next]_vars => IInv'
<1> SUFFICES ASSUME IInv, [Next]_vars PROVE IInv'
  OBVIOUS
<1>1. ASSUME NEW c \in Callers, Step(c) PROVE IInv'
  <2>1. CASE Enter(c)
    <3>1. ASSUME NEW b \in BOOLEAN, Finish(c, b) PROVE IInv'
      BY <2>1, <3>1, FinishStep DEF Enter
    <3>2. QED
      BY <2>1, <3>1, SleepStep DEF Enter
  <2>2. CASE Resume(c)
    <3>1. ASSUME NEW b \in BOOLEAN, Finish(c, b), Ready(c) PROVE IInv'
      BY <2>2, <3>1, FinishStep DEF Resume
    <3>2. QED
      BY <2>2, <3>1, SleepStep DEF Resume
  <2>3. CASE Expired(c)
    BY <2>3, FinishStep DEF Expired
  <2>4. QED
    BY <1>1, <2>1, <2>2, <2>3 DEF Step
<1>2. CASE UNCHANGED vars
  BY <1>2 DEF vars, IInv, TypeOK, SizeIsLength, SleepersAreCurrent, CallInv,
              NoLostWakeup, Waiting, Entitled, Awake
<1>3. QED
  BY <1>1, <1>2, CallStep, LeaveStep, TakeStep, PushesStep, NotifyTStep DEF Next

(* The invariant of every behaviour. *)
LEMMA Invariance == Spec => []IInv
BY InitIInv, NextIInv, PTL DEF Spec

(* YS_ThQueue is type correct; _size never underflows (the asserts before
   --_size always hold). *)
THEOREM TypeCorrect == Spec => []TypeOK
BY Invariance, PTL DEF IInv

(* _size is the length of _queue, after any sequence of pushes, pops, swaps
   and clears by any number of threads. *)
THEOREM SizeCorrect == Spec => []SizeIsLength
BY Invariance, PTL DEF IInv

(* No thread ever sleeps on a stale snapshot of _lockId. *)
THEOREM SleepersCurrent == Spec => []SleepersAreCurrent
BY Invariance, PTL DEF IInv

(* No wake-up is lost: for any number of consumers and producers, as long as
   pushes notify, nobody calls wait() and swap gets empty containers. *)
THEOREM NoWakeupLost == Spec => []NoLostWakeup
BY Invariance, PTL DEF IInv

----------------------------------------------------------------------------
(* Where the values are.  Copies counts; the proof says the same with sets: *)
(* the queue, the containers, what was taken and what was dropped share out *)
(* the values pushed, and no sequence holds one twice.                      *)

NoDup(s) == \A i, j \in DOMAIN s : s[i] = s[j] => i = j

Shared(Q, L, T, D, P) ==
  /\ Q \cap T = {} /\ Q \cap D = {} /\ T \cap D = {}
  /\ \A c \in Callers : L[c] \cap Q = {} /\ L[c] \cap T = {} /\ L[c] \cap D = {}
  /\ \A c, d \in Callers : c # d => L[c] \cap L[d] = {}
  /\ \A v : v \in P <=> v \in Q \/ v \in T \/ v \in D \/ \E c \in Callers : v \in L[c]

Contents == [c \in Callers |-> Range(local[c])]

Place ==
  /\ NoDup(queue) /\ \A c \in Callers : NoDup(local[c])
  /\ Shared(Range(queue), Contents, taken, dropped, 1..pushed)

(* Sequences: the elements of what pops and pushes leave. *)
LEMMA TailRange ==
  ASSUME NEW S, NEW s \in Seq(S), s # <<>>, NoDup(s)
  PROVE  /\ NoDup(Tail(s)) /\ Head(s) \in Range(s)
         /\ Range(Tail(s)) = Range(s) \ {Head(s)}
<1>1. /\ Tail(s) \in Seq(S) /\ Len(Tail(s)) = Len(s) - 1 /\ Head(s) = s[1]
      /\ \A i \in 1..Len(Tail(s)) : Tail(s)[i] = s[i + 1]
  BY HeadTailProperties
<1>2. /\ DOMAIN s = 1..Len(s) /\ Len(s) \in Nat /\ Len(s) # 0
      /\ DOMAIN Tail(s) = 1..(Len(s) - 1)
  BY <1>1, LenProperties, EmptySeq
<1>3. NoDup(Tail(s)) /\ Head(s) \in Range(s)
  BY <1>1, <1>2 DEF NoDup, Range
<1>4. Range(Tail(s)) \subseteq Range(s) \ {Head(s)}
  <2> SUFFICES ASSUME NEW v \in Range(Tail(s)) PROVE v \in Range(s) \ {Head(s)}
    OBVIOUS
  <2>1. PICK i \in 1..(Len(s) - 1) : v = s[i + 1]
    BY <1>1, <1>2 DEF Range
  <2>2. i + 1 \in DOMAIN s /\ i + 1 # 1 /\ 1 \in DOMAIN s
    BY <1>2
  <2> QED BY <1>1, <2>1, <2>2 DEF Range, NoDup
<1>5. Range(s) \ {Head(s)} \subseteq Range(Tail(s))
  <2> SUFFICES ASSUME NEW v \in Range(s) \ {Head(s)} PROVE v \in Range(Tail(s))
    OBVIOUS
  <2>1. PICK i \in 1..Len(s) : v = s[i]
    BY <1>2 DEF Range
  <2>2. i - 1 \in 1..(Len(s) - 1) /\ (i - 1) + 1 = i
    BY <1>1, <1>2, <2>1
  <2>3. Tail(s)[i - 1] = v
    BY <1>1, <1>2, <2>1, <2>2
  <2> QED BY <1>2, <2>2, <2>3 DEF Range
<1> QED BY <1>3, <1>4, <1>5

LEMMA ConcatRange ==
  ASSUME NEW S, NEW s \in Seq(S), NEW t \in Seq(S),
         NoDup(s), NoDup(t), Range(s) \cap Range(t) = {}
  PROVE  NoDup(s \o t) /\ Range(s \o t) = Range(s) \cup Range(t)
<1>1. /\ s \o t \in Seq(S) /\ Len(s \o t) = Len(s) + Len(t)
      /\ \A i \in 1..(Len(s) + Len(t)) :
           (s \o t)[i] = IF i <= Len(s) THEN s[i] ELSE t[i - Len(s)]
  BY ConcatProperties
<1>2. /\ DOMAIN s = 1..Len(s) /\ Len(s) \in Nat /\ DOMAIN t = 1..Len(t) /\ Len(t) \in Nat
      /\ DOMAIN (s \o t) = 1..(Len(s) + Len(t))
  BY <1>1, LenProperties
<1>3. \A i \in 1..(Len(s) + Len(t)) :
        \/ i \in 1..Len(s) /\ (s \o t)[i] = s[i] /\ s[i] \in Range(s)
        \/ i - Len(s) \in 1..Len(t) /\ (s \o t)[i] = t[i - Len(s)] /\ t[i - Len(s)] \in Range(t)
  <2> SUFFICES ASSUME NEW i \in 1..(Len(s) + Len(t))
               PROVE  \/ i \in 1..Len(s) /\ (s \o t)[i] = s[i] /\ s[i] \in Range(s)
                      \/ /\ i - Len(s) \in 1..Len(t) /\ (s \o t)[i] = t[i - Len(s)]
                         /\ t[i - Len(s)] \in Range(t)
    OBVIOUS
  <2>1. CASE i <= Len(s)
    <3>1. i \in 1..Len(s)
      BY <1>2, <2>1
    <3> QED BY <1>1, <1>2, <2>1, <3>1 DEF Range
  <2>2. CASE ~(i <= Len(s))
    <3>1. i - Len(s) \in 1..Len(t)
      BY <1>2, <2>2
    <3> QED BY <1>1, <1>2, <2>2, <3>1 DEF Range
  <2> QED BY <2>1, <2>2
<1>4. NoDup(s \o t)
  <2> SUFFICES ASSUME NEW i \in 1..(Len(s) + Len(t)), NEW j \in 1..(Len(s) + Len(t)),
                      (s \o t)[i] = (s \o t)[j]
               PROVE  i = j
    BY <1>2 DEF NoDup
  <2>1. CASE i \in 1..Len(s) /\ (s \o t)[i] = s[i] /\ s[i] \in Range(s)
    <3>1. j \in 1..Len(s) /\ (s \o t)[j] = s[j]
      BY <1>3, <2>1
    <3> QED BY <1>2, <2>1, <3>1 DEF NoDup
  <2>2. CASE i - Len(s) \in 1..Len(t) /\ (s \o t)[i] = t[i - Len(s)] /\ t[i - Len(s)] \in Range(t)
    <3>1. j - Len(s) \in 1..Len(t) /\ (s \o t)[j] = t[j - Len(s)]
      BY <1>3, <2>2
    <3>2. i - Len(s) = j - Len(s)
      BY <1>2, <2>2, <3>1 DEF NoDup
    <3> QED BY <1>2, <3>2
  <2> QED BY <1>3, <2>1, <2>2
<1>5. Range(s \o t) \subseteq Range(s) \cup Range(t)
  BY <1>2, <1>3 DEF Range
<1>6. Range(s) \subseteq Range(s \o t)
  <2>1. \A i \in 1..Len(s) : i \in 1..(Len(s) + Len(t)) /\ (s \o t)[i] = s[i]
    BY <1>1, <1>2
  <2> QED BY <1>2, <2>1 DEF Range
<1>7. Range(t) \subseteq Range(s \o t)
  <2>1. \A i \in 1..Len(t) : /\ Len(s) + i \in 1..(Len(s) + Len(t))
                             /\ (Len(s) + i) - Len(s) = i /\ ~(Len(s) + i <= Len(s))
    BY <1>2
  <2>2. \A i \in 1..Len(t) : (s \o t)[Len(s) + i] = t[i]
    BY <1>1, <2>1
  <2> QED BY <1>2, <2>1, <2>2 DEF Range
<1> QED BY <1>4, <1>5, <1>6, <1>7

(* The values of a batch, in either order. *)
LEMMA BatchRange ==
  ASSUME NEW n \in Nat, NEW k \in Nat, n + k <= MaxPush
  PROVE  /\ NoDup(Batch(n, k)) /\ Range(Batch(n, k)) = (n + 1)..(n + k)
         /\ NoDup(Reverse(Batch(n, k))) /\ Range(Reverse(Batch(n, k))) = (n + 1)..(n + k)
<1>1. /\ DOMAIN Batch(n, k) = 1..k /\ \A i \in 1..k : Batch(n, k)[i] = n + i
      /\ Len(Batch(n, k)) = k
  BY BatchType DEF Batch
<1>2. \A v \in (n + 1)..(n + k) : v - n \in 1..k /\ n + (v - n) = v
  OBVIOUS
<1>3. NoDup(Batch(n, k)) /\ Range(Batch(n, k)) = (n + 1)..(n + k)
  BY <1>1, <1>2 DEF NoDup, Range
<1>4. /\ DOMAIN Reverse(Batch(n, k)) = 1..k
      /\ \A i \in 1..k : Reverse(Batch(n, k))[i] = n + ((k - i) + 1)
  <2>1. \A i \in 1..k : (k - i) + 1 \in 1..k
    OBVIOUS
  <2> QED BY <1>1, <2>1 DEF Reverse
<1>5. \A v \in (n + 1)..(n + k) :
        (k - (v - n)) + 1 \in 1..k /\ n + ((k - ((k - (v - n)) + 1)) + 1) = v
  OBVIOUS
<1> DEFINE r == Reverse(Batch(n, k))
<1>6. DOMAIN r = 1..k /\ \A i \in 1..k : r[i] = n + ((k - i) + 1)
  BY <1>4
<1> HIDE DEF r
<1>7. NoDup(r)
  BY <1>6 DEF NoDup
<1>8. Range(r) \subseteq (n + 1)..(n + k)
  BY <1>6 DEF Range
<1>9. (n + 1)..(n + k) \subseteq Range(r)
  <2> SUFFICES ASSUME NEW v \in (n + 1)..(n + k) PROVE v \in Range(r)
    OBVIOUS
  <2>1. (k - (v - n)) + 1 \in 1..k /\ n + ((k - ((k - (v - n)) + 1)) + 1) = v
    BY <1>5
  <2>2. r[(k - (v - n)) + 1] = v
    BY <1>6, <2>1
  <2> QED BY <1>6, <2>1, <2>2 DEF Range
<1> QED BY <1>3, <1>7, <1>8, <1>9 DEF r

(* One value pushed at either end is a batch of one. *)
LEMMA BatchOfOne ==
  ASSUME NEW n \in Nat, NEW q \in Seq(Nat)
  PROVE  /\ <<n + 1>> = Batch(n, 1)
         /\ Append(q, n + 1) = q \o Batch(n, 1)
         /\ Reverse(Batch(n, 1)) = Batch(n, 1)
<1>1. Batch(n, 1) \in [1..1 -> Nat]
  BY DEF Batch
<1>2. Batch(n, 1) \in Seq(Nat) /\ Len(Batch(n, 1)) = 1 /\ Batch(n, 1)[1] = n + 1
  BY <1>1, FunctionIsSeq DEF Batch
<1>3. <<n + 1>> \in Seq(Nat) /\ Len(<<n + 1>>) = 1 /\ <<n + 1>>[1] = n + 1
  OBVIOUS
<1>4. <<n + 1>> = Batch(n, 1)
  BY <1>2, <1>3, SeqEqual
<1>5. Append(q, n + 1) = q \o <<n + 1>>
  BY AppendIsConcat
<1>6. Reverse(Batch(n, 1)) \in [1..1 -> Nat] /\ Reverse(Batch(n, 1))[1] = n + 1
  BY <1>2 DEF Reverse
<1>7. Reverse(Batch(n, 1)) \in Seq(Nat) /\ Len(Reverse(Batch(n, 1))) = 1
  BY <1>6, FunctionIsSeq
<1>8. Reverse(Batch(n, 1)) = Batch(n, 1)
  BY <1>2, <1>6, <1>7, SeqEqual
<1> QED BY <1>4, <1>5, <1>8

----------------------------------------------------------------------------
(* What a step of the queue does to the values, whoever takes it. *)
Kept == UNCHANGED <<queue, local, taken, dropped, pushed>>

Popped ==
  /\ queue # <<>> /\ queue' = Tail(queue) /\ UNCHANGED <<local, pushed>>
  /\ \/ taken' = taken \cup {Head(queue)} /\ dropped' = dropped
     \/ dropped' = dropped \cup {Head(queue)} /\ taken' = taken

Swapped(c) ==
  /\ Reuses \/ local[c] = <<>>
  /\ queue' = local[c] /\ local' = [local EXCEPT ![c] = queue]
  /\ UNCHANGED <<taken, dropped, pushed>>

PushedAny(k) ==
  /\ pushed + k <= MaxPush /\ pushed' = pushed + k
  /\ UNCHANGED <<local, taken, dropped>>

PushedBack(k)  == PushedAny(k) /\ queue' = queue \o Batch(pushed, k)
PushedFront(k) == PushedAny(k) /\ Fronts /\ queue' = Reverse(Batch(pushed, k)) \o queue

Cleared ==
  /\ dropped' = dropped \cup Range(queue) /\ queue' = <<>>
  /\ UNCHANGED <<local, taken, pushed>>

Consumed(c) ==
  /\ taken' = taken \cup Range(local[c]) /\ local' = [local EXCEPT ![c] = <<>>]
  /\ UNCHANGED <<queue, dropped, pushed>>

Moves ==
  \/ Kept \/ Popped \/ Cleared
  \/ \E c \in Callers : Swapped(c) \/ Consumed(c)
  \/ \E k \in Nat : PushedBack(k) \/ PushedFront(k)

LEMMA FinishMoves ==
  ASSUME IInv, NEW c \in Callers, NEW b \in BOOLEAN, Finish(c, b), pc[c] # "out"
  PROVE  Moves
<1>0. (kind[c] = "swap" /\ ~Reuses) => local[c] = <<>>
  BY DEF IInv, CallInv
<1>1. CASE kind[c] = "pop_front" /\ FinishPop(c)
  BY <1>1 DEF FinishPop, Moves, Kept, Popped, ghost
<1>2. CASE kind[c] = "swap" /\ FinishSwap(c)
  BY <1>0, <1>2 DEF FinishSwap, Moves, Kept, Swapped, ghost
<1>3. CASE kind[c] = "wait" /\ FinishWait(c, b)
  BY <1>3 DEF FinishWait, Moves, Kept, ghost
<1> QED BY <1>1, <1>2, <1>3 DEF Finish

LEMMA PushMoves ==
  ASSUME IInv, Push
  PROVE  \E k \in Nat : PushedBack(k) \/ PushedFront(k)
<1>0. /\ queue \in Seq(Nat) /\ pushed \in Nat /\ MaxPush \in Nat
      /\ Batches \subseteq Nat
  <2>1. queue \in Seq(1..MaxPush) /\ 1..MaxPush \subseteq Nat
    BY ThQueueAssumption DEF IInv, TypeOK
  <2>2. Len(queue) \in Nat /\ queue \in [1..Len(queue) -> Nat]
    BY <2>1, LenProperties
  <2>3. queue \in Seq(Nat)
    BY <2>2, FunctionIsSeq
  <2> QED BY <2>3, ThQueueAssumption DEF IInv, TypeOK
<1>1. ASSUME NEW n \in Notifies, push_back(n)
      PROVE  PushedBack(1)
  <2>1. Append(queue, pushed + 1) = queue \o Batch(pushed, 1)
    BY <1>0, BatchOfOne
  <2>2. pushed + 1 <= MaxPush
    BY <1>0, <1>1 DEF push_back
  <2> QED BY <1>1, <2>1, <2>2 DEF push_back, PushedBack, PushedAny
<1>2. ASSUME NEW n \in Notifies, push_front(n)
      PROVE  PushedFront(1)
  <2>1. <<pushed + 1>> = Reverse(Batch(pushed, 1))
    BY <1>0, BatchOfOne
  <2>2. pushed + 1 <= MaxPush
    BY <1>0, <1>2 DEF push_front
  <2> QED BY <1>2, <2>1, <2>2 DEF push_front, PushedFront, PushedAny
<1>3. ASSUME NEW n \in Notifies, NEW k \in Batches, push_back_all(k, n)
      PROVE  k \in Nat /\ PushedBack(k)
  BY <1>0, <1>3 DEF push_back_all, PushedBack, PushedAny
<1>4. ASSUME NEW n \in Notifies, NEW k \in Batches, push_front_all(k, n)
      PROVE  k \in Nat /\ PushedFront(k)
  BY <1>0, <1>4 DEF push_front_all, PushedFront, PushedAny
<1>5. 1 \in Nat
  OBVIOUS
<1> QED BY <1>1, <1>2, <1>3, <1>4, <1>5 DEF Push, push_back_cap

LEMMA NextMoves ==
  ASSUME IInv, [Next]_vars
  PROVE  Moves
<1>1. ASSUME NEW c \in Callers, Step(c) PROVE Moves
  <2>1. CASE Enter(c)
    <3>1. ASSUME NEW b \in BOOLEAN, Finish(c, b) PROVE Moves
      BY <2>1, <3>1, FinishMoves DEF Enter
    <3>2. CASE Sleep(c)
      BY <3>2 DEF Sleep, Moves, Kept, ghost
    <3> QED BY <2>1, <3>1, <3>2 DEF Enter
  <2>2. CASE Resume(c)
    <3>1. ASSUME NEW b \in BOOLEAN, Finish(c, b) PROVE Moves
      BY <2>2, <3>1, FinishMoves DEF Resume
    <3>2. CASE Sleep(c)
      BY <3>2 DEF Sleep, Moves, Kept, ghost
    <3> QED BY <2>2, <3>1, <3>2 DEF Resume
  <2>3. CASE Expired(c)
    BY <2>3, FinishMoves DEF Expired
  <2> QED BY <1>1, <2>1, <2>2, <2>3 DEF Step
<1>2. ASSUME NEW c \in Callers,
             \/ \E k \in Kinds, m \in {"zero", "some", "forever"} : Call(c, k, m)
             \/ Timeout(c) \/ Spurious(c)
      PROVE  Moves
  BY <1>2 DEF Call, Timeout, Spurious, Moves, Kept, ghost
<1>3. ASSUME NEW c \in Callers, Consume(c) \/ swap_nowait(c)
      PROVE  Moves
  BY <1>3 DEF Consume, swap_nowait, Moves, Swapped, Consumed, ghost
<1>4. CASE Push
  BY <1>4, PushMoves DEF Moves
<1>5. CASE pop_nowait \/ pop_discard \/ clear \/ notifyT
  BY <1>5 DEF pop_nowait, pop_discard, clear, notifyT, Moves, Popped, Cleared, Kept, ghost
<1>6. CASE UNCHANGED vars
  BY <1>6 DEF vars, Moves, Kept
<1> QED BY <1>1, <1>2, <1>3, <1>4, <1>5, <1>6 DEF Next

----------------------------------------------------------------------------
(* Each kind of move keeps every value in one place. *)
LEMMA PoppedPlace ==
  ASSUME TypeOK, Place, Popped
  PROVE  Place'
<1>1. queue \in Seq(1..MaxPush) /\ queue # <<>> /\ NoDup(queue)
  BY DEF TypeOK, Popped, Place
<1>2. NoDup(queue') /\ Head(queue) \in Range(queue)
      /\ Range(queue') = Range(queue) \ {Head(queue)}
  BY <1>1, TailRange DEF Popped
<1>3. Contents' = Contents /\ local' = local /\ pushed' = pushed
  BY DEF Popped, Contents
<1>4. Shared(Range(queue'), Contents, taken', dropped', 1..pushed)
  BY <1>2 DEF Popped, Place, Shared
<1> QED BY <1>2, <1>3, <1>4 DEF Place

LEMMA SwappedPlace ==
  ASSUME TypeOK, Place, NEW c \in Callers, Swapped(c)
  PROVE  Place'
<1>1. /\ queue' = local[c] /\ local'[c] = queue
      /\ \A d \in Callers : d # c => local'[d] = local[d]
      /\ taken' = taken /\ dropped' = dropped /\ pushed' = pushed
  BY DEF Swapped, TypeOK
<1>2. /\ \A d \in Callers : Contents[d] = Range(local[d])
      /\ \A d \in Callers : Contents'[d] = Range(local'[d])
  BY DEF Contents
<1>3. /\ Range(queue') = Contents[c] /\ Contents'[c] = Range(queue)
      /\ \A d \in Callers : d # c => Contents'[d] = Contents[d]
  BY <1>1, <1>2
<1>4. NoDup(queue') /\ \A d \in Callers : NoDup(local'[d])
  BY <1>1 DEF Place
<1>5. Shared(Range(queue), Contents, taken, dropped, 1..pushed)
  BY DEF Place
<1>6. Shared(Contents[c], Contents', taken, dropped, 1..pushed)
  BY <1>3, <1>5 DEF Shared
<1> QED BY <1>1, <1>3, <1>4, <1>6 DEF Place

LEMMA ClearedPlace ==
  ASSUME TypeOK, Place, Cleared
  PROVE  Place'
<1>1. NoDup(<<>>) /\ Range(<<>>) = {}
  BY DEF NoDup, Range
<1>2. Contents' = Contents /\ local' = local /\ pushed' = pushed /\ taken' = taken
  BY DEF Cleared, Contents
<1>3. Shared({}, Contents, taken, dropped \cup Range(queue), 1..pushed)
  BY DEF Place, Shared
<1> QED BY <1>1, <1>2, <1>3 DEF Place, Cleared

LEMMA ConsumedPlace ==
  ASSUME TypeOK, Place, NEW c \in Callers, Consumed(c)
  PROVE  Place'
<1>1. NoDup(<<>>) /\ Range(<<>>) = {}
  BY DEF NoDup, Range
<1>2. /\ local'[c] = <<>> /\ \A d \in Callers : d # c => local'[d] = local[d]
      /\ queue' = queue /\ taken' = taken \cup Range(local[c])
      /\ dropped' = dropped /\ pushed' = pushed
  BY DEF Consumed, TypeOK
<1>3. /\ \A d \in Callers : Contents[d] = Range(local[d])
      /\ \A d \in Callers : Contents'[d] = Range(local'[d])
  BY DEF Contents
<1>4. /\ Contents'[c] = {} /\ \A d \in Callers : d # c => Contents'[d] = Contents[d]
      /\ taken' = taken \cup Contents[c]
  BY <1>1, <1>2, <1>3
<1>5. Shared(Range(queue), Contents, taken, dropped, 1..pushed)
  BY DEF Place
<1>6. Shared(Range(queue), Contents', taken', dropped, 1..pushed)
  BY <1>4, <1>5 DEF Shared
<1>7. NoDup(queue') /\ \A d \in Callers : NoDup(local'[d])
  BY <1>1, <1>2 DEF Place
<1> QED BY <1>2, <1>6, <1>7 DEF Place

LEMMA PushedPlace ==
  ASSUME TypeOK, Place, NEW k \in Nat, PushedBack(k) \/ PushedFront(k)
  PROVE  Place'
<1> DEFINE new == (pushed + 1)..(pushed + k)
<1>0. /\ pushed \in Nat /\ MaxPush \in Nat /\ queue \in Seq(1..MaxPush)
      /\ pushed + k <= MaxPush /\ pushed' = pushed + k
      /\ local' = local /\ taken' = taken /\ dropped' = dropped
  BY ThQueueAssumption DEF TypeOK, PushedBack, PushedFront, PushedAny
<1>1. Shared(Range(queue), Contents, taken, dropped, 1..pushed) /\ NoDup(queue)
  BY DEF Place
<1>2. Range(queue) \subseteq 1..pushed
  BY <1>1 DEF Shared
<1>3. new \cap 1..pushed = {} /\ \A v : v \in 1..(pushed + k) <=> v \in 1..pushed \/ v \in new
  BY <1>0
<1> HIDE DEF new
<1>4. Range(queue) \cap new = {}
  BY <1>2, <1>3
<1>5. NoDup(queue') /\ Range(queue') = Range(queue) \cup new
  <2>1. CASE PushedBack(k)
    <3> DEFINE b == Batch(pushed, k)
    <3>1. b \in Seq(1..MaxPush) /\ NoDup(b) /\ Range(b) = new
      BY <1>0, BatchType, BatchRange DEF new
    <3>2. queue' = queue \o b
      BY <2>1 DEF PushedBack
    <3> HIDE DEF b
    <3> QED BY <1>0, <1>1, <1>4, <3>1, <3>2, ConcatRange
  <2>2. CASE PushedFront(k)
    <3> DEFINE b == Reverse(Batch(pushed, k))
    <3>1. b \in Seq(1..MaxPush) /\ NoDup(b) /\ Range(b) = new
      BY <1>0, BatchType, BatchRange DEF new
    <3>2. queue' = b \o queue
      BY <2>2 DEF PushedFront
    <3> HIDE DEF b
    <3>3. NoDup(b \o queue) /\ Range(b \o queue) = Range(b) \cup Range(queue)
      BY <1>0, <1>1, <1>4, <3>1, ConcatRange
    <3> QED BY <3>1, <3>2, <3>3
  <2> QED BY <2>1, <2>2
<1>6. Contents' = Contents
  BY <1>0 DEF Contents
<1>7. Shared(Range(queue) \cup new, Contents, taken, dropped, 1..(pushed + k))
  <2>1. /\ taken \subseteq 1..pushed /\ dropped \subseteq 1..pushed
        /\ \A c \in Callers : Contents[c] \subseteq 1..pushed
    BY <1>1 DEF Shared
  <2> QED BY <1>1, <1>3, <2>1 DEF Shared
<1> QED BY <1>0, <1>1, <1>5, <1>6, <1>7 DEF Place

(* Every value pushed is in one place after any step. *)
LEMMA NextPlace ==
  ASSUME IInv, Place, [Next]_vars
  PROVE  Place'
<1>1. TypeOK /\ Moves
  BY NextMoves DEF IInv
<1>2. CASE Kept
  BY <1>2 DEF Kept, Place, Contents
<1> QED BY <1>1, <1>2, PoppedPlace, SwappedPlace, ClearedPlace, ConsumedPlace, PushedPlace
        DEF Moves

----------------------------------------------------------------------------
(* A sequence without duplicates holds a value at one index or nowhere. *)
LEMMA HeldOnce ==
  ASSUME NEW s, NoDup(s), NEW v
  PROVE  /\ v \in Range(s) => \E i : Held(v, s) = {i}
         /\ v \notin Range(s) => Held(v, s) = {}
<1>1. CASE v \in Range(s)
  <2>1. PICK i \in DOMAIN s : s[i] = v
    BY <1>1 DEF Range
  <2>2. Held(v, s) = {i}
    BY <2>1 DEF Held, NoDup
  <2> QED BY <1>1, <2>2
<1>2. CASE v \notin Range(s)
  BY <1>2 DEF Held, Range
<1> QED BY <1>1, <1>2

(* Values in one place are counted once. *)
LEMMA PlaceConserved == TypeOK /\ Place => Conserved
<1> SUFFICES ASSUME TypeOK, Place, NEW v \in 1..MaxPush
             PROVE  Copies(v) = IF v <= pushed THEN 1 ELSE 0
  BY DEF Conserved
<1> DEFINE H(c) == Held(v, local[c])
           U == UNION {{c} \X H(c) : c \in Callers}
           In == \E c \in Callers : v \in Range(local[c])
<1>1. /\ v \in 1..pushed <=> v \in Range(queue) \/ v \in taken \/ v \in dropped \/ In
      /\ ~(v \in Range(queue) /\ v \in taken) /\ ~(v \in Range(queue) /\ v \in dropped)
      /\ ~(v \in taken /\ v \in dropped)
      /\ In => v \notin Range(queue) /\ v \notin taken /\ v \notin dropped
  BY DEF Place, Shared, Contents
<1>2. v \in 1..pushed <=> v <= pushed
  BY ThQueueAssumption DEF TypeOK
<1>3. /\ v \in Range(queue) => Cardinality(Held(v, queue)) = 1
      /\ v \notin Range(queue) => Cardinality(Held(v, queue)) = 0
  <2>1. /\ v \in Range(queue) => \E i : Held(v, queue) = {i}
        /\ v \notin Range(queue) => Held(v, queue) = {}
    BY HeldOnce DEF Place
  <2>2. \A i : Held(v, queue) = {i} => Cardinality(Held(v, queue)) = 1
    BY FS_Singleton
  <2>3. Held(v, queue) = {} => Cardinality(Held(v, queue)) = 0
    BY FS_EmptySet
  <2> QED BY <2>1, <2>2, <2>3
<1>4. \A c \in Callers : /\ v \in Range(local[c]) => \E i : H(c) = {i}
                         /\ v \notin Range(local[c]) => H(c) = {}
  BY HeldOnce DEF Place
<1>5. \A c, d \in Callers : v \in Range(local[c]) /\ v \in Range(local[d]) => c = d
  BY DEF Place, Shared, Contents
<1> HIDE DEF H
<1>6. In => Cardinality(U) = 1
  <2> SUFFICES ASSUME In PROVE Cardinality(U) = 1
    OBVIOUS
  <2>1. PICK c \in Callers : v \in Range(local[c])
    OBVIOUS
  <2>2. PICK i : H(c) = {i}
    BY <1>4, <2>1
  <2>3. \A d \in Callers : d # c => H(d) = {}
    BY <1>4, <1>5, <2>1
  <2>4. U = {c} \X H(c)
    BY <2>1, <2>3
  <2>5. {c} \X H(c) = {<<c, i>>}
    BY <2>2
  <2> QED BY <2>4, <2>5, FS_Singleton
<1>7. ~In => Cardinality(U) = 0
  <2> SUFFICES ASSUME ~In PROVE Cardinality(U) = 0
    OBVIOUS
  <2>1. U = {}
    BY <1>4
  <2> QED BY <2>1, FS_EmptySet
<1>8. Copies(v) = Cardinality(Held(v, queue)) + Cardinality(U)
                  + (IF v \in taken THEN 1 ELSE 0) + (IF v \in dropped THEN 1 ELSE 0)
  BY DEF Copies, H
<1> HIDE DEF U, In
<1> QED BY <1>1, <1>2, <1>3, <1>6, <1>7, <1>8

LEMMA PlaceInvariance == Spec => [](IInv /\ Place)
<1>1. Init => IInv /\ Place
  <2>1. NoDup(<<>>) /\ Range(<<>>) = {}
    BY DEF NoDup, Range
  <2>2. Init => Place
    BY <2>1 DEF Init, Place, Shared, Contents
  <2> QED BY <2>2, InitIInv
<1>2. IInv /\ Place /\ [Next]_vars => (IInv /\ Place)'
  BY NextIInv, NextPlace
<1> QED BY <1>1, <1>2, PTL DEF Spec

(* No value is lost, duplicated or invented by any interleaving of pushes,
   pops, swaps, clears, timeouts and wake-ups, for any number of threads. *)
THEOREM ContentsCorrect == Spec => []Inv
<1>1. IInv /\ Place => Inv
  BY PlaceConserved DEF IInv, Inv
<1> QED BY <1>1, PlaceInvariance, PTL

----------------------------------------------------------------------------
(* First in, first out. *)
Ordered ==
  /\ \A i, j \in DOMAIN queue : i < j => queue[i] < queue[j]
  /\ \A i \in DOMAIN queue, v \in 1..pushed : v \notin Range(queue) => v < queue[i]

LEMMA PoppedOrder ==
  ASSUME TypeOK, Place, Ordered, Popped
  PROVE  Ordered'
<1>1. queue \in Seq(1..MaxPush) /\ queue # <<>> /\ NoDup(queue)
  BY DEF TypeOK, Popped, Place
<1>2. Range(queue') = Range(queue) \ {Head(queue)} /\ pushed' = pushed
  BY <1>1, TailRange DEF Popped
<1>3. /\ queue' \in Seq(1..MaxPush) /\ Len(queue') = Len(queue) - 1 /\ Head(queue) = queue[1]
      /\ \A i \in 1..Len(queue') : queue'[i] = queue[i + 1]
  BY <1>1, HeadTailProperties DEF Popped
<1>4. /\ DOMAIN queue = 1..Len(queue) /\ Len(queue) \in Nat /\ Len(queue) # 0
      /\ DOMAIN queue' = 1..(Len(queue) - 1)
  BY <1>1, <1>3, LenProperties, EmptySeq
<1>5. \A i \in DOMAIN queue' : i + 1 \in DOMAIN queue /\ 1 < i + 1 /\ queue'[i] = queue[i + 1]
  BY <1>3, <1>4
<1>6. 1 \in DOMAIN queue
  BY <1>4
<1>7. ASSUME NEW i \in DOMAIN queue', NEW j \in DOMAIN queue', i < j
      PROVE  queue'[i] < queue'[j]
  <2>1. i + 1 < j + 1
    BY <1>4, <1>7
  <2> QED BY <1>5, <2>1 DEF Ordered
<1>8. ASSUME NEW i \in DOMAIN queue', NEW v \in 1..pushed, v \notin Range(queue')
      PROVE  v < queue'[i]
  <2>1. CASE v = Head(queue)
    BY <1>3, <1>5, <1>6, <2>1 DEF Ordered
  <2>2. CASE v \notin Range(queue)
    BY <1>5, <2>2 DEF Ordered
  <2> QED BY <1>2, <1>8, <2>1, <2>2
<1> QED BY <1>2, <1>7, <1>8 DEF Ordered

LEMMA PushedOrder ==
  ASSUME TypeOK, Place, Ordered, NEW k \in Nat, PushedBack(k)
  PROVE  Ordered'
<1> DEFINE b == Batch(pushed, k)
<1>0. /\ pushed \in Nat /\ MaxPush \in Nat /\ queue \in Seq(1..MaxPush)
      /\ pushed + k <= MaxPush /\ pushed' = pushed + k
  BY ThQueueAssumption DEF TypeOK, PushedBack, PushedAny
<1>1. b \in Seq(1..MaxPush) /\ Len(b) = k /\ \A i \in 1..k : b[i] = pushed + i
  BY <1>0, BatchType DEF Batch
<1>2. NoDup(b) /\ Range(b) = (pushed + 1)..(pushed + k) /\ queue' = queue \o b
  BY <1>0, BatchRange DEF PushedBack
<1> HIDE DEF b
<1>3. /\ Len(queue) \in Nat /\ DOMAIN queue = 1..Len(queue)
      /\ Range(queue) \subseteq 1..pushed /\ NoDup(queue)
  <2>1. Len(queue) \in Nat /\ DOMAIN queue = 1..Len(queue)
    BY <1>0, LenProperties
  <2> QED BY <2>1 DEF Place, Shared
<1>4. /\ DOMAIN queue' = 1..(Len(queue) + k)
      /\ \A i \in 1..(Len(queue) + k) :
           queue'[i] = IF i <= Len(queue) THEN queue[i] ELSE b[i - Len(queue)]
  <2>1. /\ queue' \in Seq(1..MaxPush) /\ Len(queue') = Len(queue) + Len(b)
        /\ \A i \in 1..(Len(queue) + Len(b)) :
             queue'[i] = IF i <= Len(queue) THEN queue[i] ELSE b[i - Len(queue)]
    BY <1>0, <1>1, <1>2, ConcatProperties
  <2>2. DOMAIN queue' = 1..Len(queue')
    BY <2>1, LenProperties
  <2> QED BY <1>1, <2>1, <2>2
<1>5. \A i \in 1..(Len(queue) + k) :
        \/ /\ i \in 1..Len(queue) /\ queue'[i] = queue[i] /\ queue[i] \in 1..pushed
        \/ /\ i > Len(queue) /\ i - Len(queue) \in 1..k
           /\ queue'[i] = pushed + (i - Len(queue))
  <2> SUFFICES ASSUME NEW i \in 1..(Len(queue) + k)
               PROVE  \/ /\ i \in 1..Len(queue) /\ queue'[i] = queue[i]
                         /\ queue[i] \in 1..pushed
                      \/ /\ i > Len(queue) /\ i - Len(queue) \in 1..k
                         /\ queue'[i] = pushed + (i - Len(queue))
    OBVIOUS
  <2>1. CASE i <= Len(queue)
    <3>1. i \in 1..Len(queue)
      BY <1>3, <2>1
    <3>2. queue[i] \in 1..pushed
      BY <1>3, <3>1 DEF Range
    <3> QED BY <1>4, <2>1, <3>1, <3>2
  <2>2. CASE ~(i <= Len(queue))
    <3>1. i > Len(queue) /\ i - Len(queue) \in 1..k
      BY <1>3, <2>2
    <3> QED BY <1>1, <1>4, <2>2, <3>1
  <2> QED BY <2>1, <2>2
<1>6. ASSUME NEW i \in 1..(Len(queue) + k), NEW j \in 1..(Len(queue) + k), i < j
      PROVE  queue'[i] < queue'[j]
  <2>1. CASE j \in 1..Len(queue) /\ queue'[j] = queue[j]
    <3>1. i \in 1..Len(queue) /\ queue'[i] = queue[i]
      BY <1>3, <1>5, <1>6, <2>1
    <3> QED BY <1>3, <1>6, <2>1, <3>1 DEF Ordered
  <2>2. CASE j > Len(queue) /\ j - Len(queue) \in 1..k /\ queue'[j] = pushed + (j - Len(queue))
    BY <1>0, <1>3, <1>5, <1>6, <2>2
  <2> QED BY <1>5, <2>1, <2>2
<1>7. Range(queue') = Range(queue) \cup Range(b)
  <2>1. Range(queue) \cap Range(b) = {}
    BY <1>0, <1>2, <1>3
  <2> QED BY <1>0, <1>1, <1>2, <1>3, <2>1, ConcatRange
<1>8. ASSUME NEW i \in 1..(Len(queue) + k), NEW v \in 1..(pushed + k), v \notin Range(queue')
      PROVE  v < queue'[i]
  <2>1. v \notin Range(queue) /\ v \in 1..pushed
    BY <1>0, <1>2, <1>7, <1>8
  <2>2. CASE i \in 1..Len(queue) /\ queue'[i] = queue[i]
    BY <1>3, <2>1, <2>2 DEF Ordered
  <2>3. CASE i - Len(queue) \in 1..k /\ queue'[i] = pushed + (i - Len(queue))
    BY <1>0, <1>3, <2>1, <2>3
  <2> QED BY <1>5, <2>2, <2>3
<1> QED BY <1>0, <1>4, <1>6, <1>8 DEF Ordered

LEMMA EmptyOrder ==
  ASSUME queue' = <<>>
  PROVE  Ordered'
BY DEF Ordered

LEMMA NextOrder ==
  ASSUME IInv, Place, FifoOrder, [Next]_vars
  PROVE  FifoOrder'
<1> SUFFICES ASSUME ~Fronts, ~Reuses PROVE Ordered'
  BY DEF FifoOrder, Ordered
<1>1. TypeOK /\ Moves /\ Ordered
  BY NextMoves DEF IInv, FifoOrder, Ordered
<1>2. CASE Kept
  BY <1>1, <1>2 DEF Kept, Ordered
<1>3. CASE Cleared
  BY <1>3, EmptyOrder DEF Cleared
<1>4. ASSUME NEW c \in Callers, Swapped(c) PROVE Ordered'
  BY <1>4, EmptyOrder DEF Swapped
<1>5. ASSUME NEW c \in Callers, Consumed(c) PROVE Ordered'
  BY <1>1, <1>5 DEF Consumed, Ordered
<1> QED BY <1>1, <1>2, <1>3, <1>4, <1>5, PoppedOrder, PushedOrder DEF Moves, PushedFront

(* Data leaves in the order it was pushed, whatever mix of pops, swaps, clears
   and batch pushes the threads make, as long as nobody uses push_front or
   gives swap a container that still holds data. *)
THEOREM OrderKept == Spec => []FifoOrder
<1>1. Init => FifoOrder
  BY DEF Init, FifoOrder
<1>2. IInv /\ Place /\ FifoOrder /\ [Next]_vars => FifoOrder'
  BY NextOrder
<1> QED BY <1>1, <1>2, PlaceInvariance, PTL DEF Spec

(***************************************************************************)
(*                       The readers-writer lock                           *)
(***************************************************************************)

(* A thread asking for a lock holds none, except in the destructor of
   YS_WLock, which asks while holding the write lock. *)
AskInv == \A t \in Threads : place[t] # "run" => held[t] \in {"none", "write"}

(* The inductive invariant. *)
LockIInv == LockTypeOK /\ Exclusion /\ SleepersBlocked /\ AskInv

----------------------------------------------------------------------------
LEMMA ReadersFinite ==
  IsFiniteSet(Holders("read")) /\ Cardinality(Holders("read")) \in Nat
<1>1. Holders("read") \subseteq Threads
  BY DEF Holders
<1>2. QED
  BY <1>1, SharedMutexAssumption, FS_Subset, FS_CardinalityType

(* Granting the lock t asks for, or was lucky to try. *)
LEMMA GrantExclusion ==
  ASSUME LockIInv, NEW t \in Threads, NEW m \in {"read", "write"},
         ~isWrite, m = "write" => readCount = 0,
         held[t] # "read",
         held' = [held EXCEPT ![t] = m],
         m = "read" => readCount' = readCount + 1 /\ isWrite' = isWrite,
         m = "write" => isWrite' = TRUE /\ readCount' = readCount
  PROVE  Exclusion'
<1> USE DEF LockIInv
<1>1. Holders("write") = {} /\ held[t] = "none"
  BY DEF Exclusion, Holders, LockTypeOK
<1>2. CASE m = "read"
  <2>1. Holders("read")' = Holders("read") \cup {t} /\ t \notin Holders("read")
        /\ Holders("write")' = {}
    BY <1>1, <1>2 DEF Holders, LockTypeOK
  <2>2. Cardinality(Holders("read")') = Cardinality(Holders("read")) + 1
    BY <2>1, ReadersFinite, FS_AddElement
  <2>3. QED
    BY <1>2, <2>1, <2>2 DEF Exclusion
<1>3. CASE m = "write"
  <2>1. Holders("read") = {}
    BY <1>3, ReadersFinite, FS_EmptySet DEF Exclusion
  <2>2. Holders("write")' = {t} /\ Holders("read")' = Holders("read")
    BY <1>1, <1>3 DEF Holders, LockTypeOK
  <2>3. QED
    BY <1>3, <2>1, <2>2 DEF Exclusion
<1>4. QED
  BY <1>2, <1>3

----------------------------------------------------------------------------
LEMMA InitLockIInv == LockInit => LockIInv
<1> SUFFICES ASSUME LockInit PROVE LockIInv
  OBVIOUS
<1>1. Holders("read") = {} /\ Holders("write") = {} /\ Sleepers = {}
  BY DEF LockInit, Holders, Sleepers
<1>2. LockTypeOK /\ AskInv /\ SleepersBlocked
  BY <1>1 DEF LockInit, LockTypeOK, AskInv, SleepersBlocked
<1>3. Exclusion
  BY <1>1, FS_EmptySet DEF LockInit, Exclusion
<1>4. QED
  BY <1>2, <1>3 DEF LockIInv

LEMMA NextLockIInv == LockIInv /\ [LockNext]_lockVars => LockIInv'
<1> SUFFICES ASSUME LockIInv, [LockNext]_lockVars PROVE LockIInv'
  OBVIOUS
<1> USE DEF LockIInv
<1>1. ASSUME NEW t \in Threads,
             readLock(t) \/ writeLock(t) \/ dtorWLock(t) \/ SpuriousWake(t)
                \/ (place[t] \in {"enter", "awake"} /\ FallAsleep(t))
      PROVE  LockIInv'
  <2>1. LockTypeOK' /\ AskInv'
    BY <1>1 DEF readLock, writeLock, dtorWLock, Begin, SpuriousWake, FallAsleep, LockTypeOK, AskInv
  <2>2. UNCHANGED <<isWrite, readCount, held>>
    BY <1>1 DEF readLock, writeLock, dtorWLock, Begin, SpuriousWake, FallAsleep
  <2>3. Exclusion'
    BY <2>2 DEF Exclusion, Holders
  <2>4. SleepersBlocked'
    <3>1. \A u \in Threads : want'[u] = want[u] => (Cond(u)' <=> Cond(u))
      BY <2>2 DEF Cond, isReadCond, isWriteCond
    <3>2. \A u \in Sleepers' : want'[u] = want[u] /\ (u \in Sleepers \/ (u = t /\ FallAsleep(t)))
      BY <1>1 DEF readLock, writeLock, dtorWLock, Begin, SpuriousWake, FallAsleep, Sleepers, LockTypeOK
    <3>3. FallAsleep(t) => ~Cond(t)
      BY DEF FallAsleep
    <3>4. Sleepers' \subseteq Threads
      BY DEF Sleepers
    <3>5. QED
      BY <3>1, <3>2, <3>3, <3>4 DEF SleepersBlocked
  <2>5. QED
    BY <2>1, <2>3, <2>4
<1>2. ASSUME NEW t \in Threads, place[t] \in {"enter", "awake"}, Grant(t)
      PROVE  LockIInv'
  <2>1. LockTypeOK' /\ AskInv'
    <3>1. isWrite' \in BOOLEAN
      BY <1>2, Zenon DEF Grant, LockTypeOK
    <3>2. readCount' \in Nat
      BY <1>2 DEF Grant, LockTypeOK
    <3>3. place' \in [Threads -> {"run", "enter", "waiting", "awake"}]
          /\ want' = want /\ held' \in [Threads -> {"none", "read", "write"}]
      BY <1>2 DEF Grant, LockTypeOK
    <3>4. AskInv'
      BY <1>2 DEF Grant, LockTypeOK, AskInv
    <3>5. QED
      BY <3>1, <3>2, <3>3, <3>4, Zenon DEF LockTypeOK
  <2>2. Exclusion'
    <3>1. want[t] \in {"read", "write"} /\ held[t] # "read"
      BY <1>2 DEF AskInv, LockTypeOK
    <3>2. ~isWrite /\ (want[t] = "write" => readCount = 0)
      BY <1>2, <3>1 DEF Grant, Cond, isReadCond, isWriteCond
    <3>3. held' = [held EXCEPT ![t] = want[t]]
          /\ (want[t] = "read" => readCount' = readCount + 1 /\ isWrite' = isWrite)
          /\ (want[t] = "write" => isWrite' = TRUE /\ readCount' = readCount)
      BY <1>2 DEF Grant
    <3>4. QED
      BY <3>1, <3>2, <3>3, GrantExclusion
  <2>3. SleepersBlocked'
    <3>1. readCount \in Nat
      BY DEF LockTypeOK
    <3>2. QED
      BY <1>2, <3>1 DEF Grant, SleepersBlocked, Sleepers, Cond, isReadCond, isWriteCond, LockTypeOK
  <2>4. QED
    BY <2>1, <2>2, <2>3
<1>3. ASSUME NEW t \in Threads, tryReadLock(t) \/ tryWriteLock(t)
      PROVE  LockIInv'
  <2>1. LockTypeOK' /\ AskInv'
    <3>1. isWrite' \in BOOLEAN
      BY <1>3, Zenon DEF tryReadLock, tryWriteLock, LockTypeOK
    <3>2. readCount' \in Nat
      BY <1>3 DEF tryReadLock, tryWriteLock, LockTypeOK
    <3>3. place' \in [Threads -> {"run", "enter", "waiting", "awake"}]
          /\ want' = want /\ held' \in [Threads -> {"none", "read", "write"}]
      BY <1>3 DEF tryReadLock, tryWriteLock, LockTypeOK
    <3>4. AskInv'
      BY <1>3 DEF tryReadLock, tryWriteLock, LockTypeOK, AskInv
    <3>5. QED
      BY <3>1, <3>2, <3>3, <3>4, Zenon DEF LockTypeOK
  <2>2. Exclusion'
    <3>1. CASE tryReadLock(t)
      BY <3>1, GrantExclusion DEF tryReadLock, isReadCond
    <3>2. CASE tryWriteLock(t)
      BY <3>2, GrantExclusion DEF tryWriteLock, isWriteCond
    <3>3. QED
      BY <1>3, <3>1, <3>2
  <2>3. SleepersBlocked'
    <3>1. readCount \in Nat
      BY DEF LockTypeOK
    <3>2. QED
      BY <1>3, <3>1 DEF tryReadLock, tryWriteLock, SleepersBlocked, Sleepers, Cond,
                        isReadCond, isWriteCond
  <2>4. QED
    BY <2>1, <2>2, <2>3
<1>4. ASSUME NEW t \in Threads, unReadLock(t)
      PROVE  LockIInv'
  <2>1. /\ Holders("read")' = Holders("read") \ {t} /\ t \in Holders("read")
        /\ Holders("write")' = Holders("write")
    BY <1>4 DEF unReadLock, Holders, LockTypeOK
  <2>2. Cardinality(Holders("read")') = Cardinality(Holders("read")) - 1
    BY <2>1, ReadersFinite, FS_RemoveElement
  <2>3. Cardinality(Holders("read")) # 0
    BY <2>1, ReadersFinite, FS_EmptySet
  <2>4. readCount' \in Nat
    BY <1>4, <2>3, ReadersFinite DEF unReadLock, Exclusion
  <2>5. LockTypeOK' /\ AskInv' /\ Sleepers' = {}
    BY <1>4, <2>4 DEF unReadLock, notifyAll, Woken, LockTypeOK, AskInv, Sleepers
  <2>6. Exclusion'
    BY <1>4, <2>1, <2>2 DEF unReadLock, Exclusion
  <2>7. QED
    BY <2>5, <2>6 DEF SleepersBlocked
<1>5. ASSUME NEW t \in Threads, unWriteLock(t)
      PROVE  LockIInv'
  <2>1. Holders("write")' = {} /\ Holders("read")' = Holders("read")
    BY <1>5 DEF unWriteLock, Holders, Exclusion, LockTypeOK
  <2>2. LockTypeOK' /\ AskInv' /\ Sleepers' = {}
    BY <1>5 DEF unWriteLock, notifyAll, Woken, LockTypeOK, AskInv, Sleepers
  <2>3. Exclusion'
    BY <1>5, <2>1 DEF unWriteLock, Exclusion
  <2>4. QED
    BY <2>2, <2>3 DEF SleepersBlocked
<1>6. CASE UNCHANGED lockVars
  BY <1>6 DEF lockVars, LockTypeOK, AskInv, Exclusion, SleepersBlocked, Holders, Sleepers,
              Cond, isReadCond, isWriteCond
<1>7. QED
  BY <1>1, <1>2, <1>3, <1>4, <1>5, <1>6 DEF LockNext, Attempt, Release

LEMMA LockInvariance == LockSpec => []LockIInv
BY InitLockIInv, NextLockIInv, PTL DEF LockSpec

(* A writer is alone, and _isWrite and _readCount count exactly the threads
   inside, for any number of threads. *)
THEOREM MutualExclusion == LockSpec => []Exclusion
BY LockInvariance, PTL DEF LockIInv

(* No thread sleeps while it could have the lock. *)
THEOREM NoSleeperForgotten == LockSpec => []SleepersBlocked
BY LockInvariance, PTL DEF LockIInv

(* Every variable keeps its type; in particular _readCount never goes below
   zero in unReadLock. *)
THEOREM LockTypeCorrect == LockSpec => []LockTypeOK
BY LockInvariance, PTL DEF LockIInv

----------------------------------------------------------------------------
(* The abstract lock.                                                      *)

LEMMA HoldersInside == \A m : RW!Inside(m) = Holders(m)
BY DEF RW!Inside, Holders

(* Whoever is granted a lock may enter the abstract one. *)
LEMMA GrantEnters ==
  ASSUME LockIInv, NEW t \in Threads, NEW m \in {"read", "write"},
         ~isWrite, m = "write" => readCount = 0,
         held' = [held EXCEPT ![t] = m], held[t] # "read"
  PROVE  RW!Next
<1> USE DEF LockIInv
<1>1. Holders("write") = {} /\ held[t] = "none"
  BY DEF Exclusion, Holders, LockTypeOK
<1>2. CASE m = "read"
  BY <1>1, <1>2, HoldersInside DEF RW!Next, RW!EnterRead
<1>3. CASE m = "write"
  <2>1. Holders("read") = {}
    BY <1>3, ReadersFinite, FS_EmptySet DEF Exclusion
  <2>2. QED
    BY <1>1, <1>3, <2>1, HoldersInside DEF RW!Next, RW!EnterWrite
<1>4. QED
  BY <1>2, <1>3

LEMMA NextRW == LockIInv /\ [LockNext]_lockVars => [RW!Next]_held
<1> SUFFICES ASSUME LockIInv, [LockNext]_lockVars PROVE [RW!Next]_held
  OBVIOUS
<1>1. ASSUME NEW t \in Threads, Grant(t), place[t] \in {"enter", "awake"}
      PROVE  RW!Next
  <2>1. want[t] \in {"read", "write"} /\ held[t] # "read"
    BY <1>1 DEF LockIInv, AskInv, LockTypeOK
  <2>2. ~isWrite /\ (want[t] = "write" => readCount = 0)
    BY <1>1, <2>1 DEF Grant, Cond, isReadCond, isWriteCond
  <2>3. held' = [held EXCEPT ![t] = want[t]]
    BY <1>1 DEF Grant
  <2>4. QED
    BY <2>1, <2>2, <2>3, GrantEnters
<1>2. ASSUME NEW t \in Threads, tryReadLock(t)
      PROVE  RW!Next
  BY <1>2, GrantEnters DEF tryReadLock, isReadCond
<1>3. ASSUME NEW t \in Threads, tryWriteLock(t)
      PROVE  RW!Next
  BY <1>3, GrantEnters DEF tryWriteLock, isWriteCond
<1>4. ASSUME NEW t \in Threads, unReadLock(t) \/ unWriteLock(t)
      PROVE  RW!Next
  BY <1>4 DEF unReadLock, unWriteLock, RW!Next, RW!Leave
<1>5. ASSUME NEW t \in Threads,
             readLock(t) \/ writeLock(t) \/ dtorWLock(t) \/ SpuriousWake(t) \/ FallAsleep(t)
      PROVE  held' = held
  BY <1>5 DEF readLock, writeLock, dtorWLock, Begin, SpuriousWake, FallAsleep
<1>6. CASE UNCHANGED lockVars
  BY <1>6 DEF lockVars
<1>7. QED
  BY <1>1, <1>2, <1>3, <1>4, <1>5, <1>6 DEF LockNext, Attempt, Release

(* YS_SharedMutex implements the abstract readers-writer lock: for every
   finite set of threads, each step of the lock lets a thread in or out when
   the abstract lock may, or does neither. *)
THEOREM Refinement == LockSpec => ImplementsRWLock
<1>1. LockInit => RW!Init
  BY DEF LockInit, RW!Init
<1>2. QED
  BY <1>1, NextRW, LockInvariance, PTL DEF LockSpec, ImplementsRWLock, RW!Spec

(***************************************************************************)
(*                          The growing buffer                             *)
(***************************************************************************)

(* The capacity is a number of whole blocks. *)
Blocks(n) == \E q \in Nat : n = q * Block

(* A size that does not wrap. *)
InBlocks(n) == n \in 0..MaxCap /\ Blocks(n)

(* The inductive invariant: as long as nothing was thrown or overrun the sizes
   are the real ones (nothing has wrapped) and the capacity is made of whole
   blocks; an append that met too little room has too little room still, since
   alloc gives it none or takes some away. *)
Sound ==
  /\ InBlocks(cap) /\ len \in 0..cap
  /\ buf \in [1..cap -> Int]
  /\ said \in Seq(Int)
  /\ ~misled => len = Len(said) /\ \A i \in 1..len : buf[i] = said[i]
  /\ need = 0 => asked = 0
  /\ ~misled => need = asked
  /\ short <=> cap - len < need

BufIInv ==
  /\ BufTypeOK
  /\ state = "ok" => Sound
  /\ state = "overrun" => short

----------------------------------------------------------------------------
(* Arithmetic of sizes.                                                    *)

LEMMA QuotientFacts ==
  ASSUME NEW a \in Nat, NEW b \in Nat \ {0}
  PROVE  /\ a \div b \in Nat /\ a % b \in 0..(b - 1) /\ a = ((a \div b) * b) + (a % b)
OBVIOUS

(* The next multiple. *)
LEMMA MulLess ==
  ASSUME NEW b \in Nat \ {0}, NEW p \in Nat, NEW q \in Nat, p < q
  PROVE  p * b + b <= q * b
<1>1. q - p - 1 \in Nat
  OBVIOUS
<1>2. \A m \in Nat : m * b >= 0
  OBVIOUS
<1>3. (q - p - 1) * b >= 0
  BY <1>1, <1>2
<1>4. (q - p - 1) * b = q * b - p * b - b
  OBVIOUS
<1>5. QED
  BY <1>3, <1>4

(* Division is unique. *)
LEMMA DivMod ==
  ASSUME NEW b \in Nat \ {0}, NEW q \in Nat, NEW r \in 0..(b - 1)
  PROVE  (q * b + r) \div b = q /\ (q * b + r) % b = r
<1> DEFINE a == q * b + r
           p == a \div b
           m == a % b
<1>1. a \in Nat
  OBVIOUS
<1> HIDE DEF a
<1>2. p \in Nat /\ m \in 0..(b - 1) /\ a = p * b + m
  BY <1>1, QuotientFacts
<1> HIDE DEF p, m
<1>3. ~(p < q)
  <2> SUFFICES ASSUME p < q PROVE FALSE
    OBVIOUS
  <2>1. p * b + b <= q * b
    BY <1>2, MulLess
  <2>2. QED
    BY <1>2, <2>1 DEF a
<1>4. ~(q < p)
  <2> SUFFICES ASSUME q < p PROVE FALSE
    OBVIOUS
  <2>1. q * b + b <= p * b
    BY <1>2, MulLess
  <2>2. QED
    BY <1>2, <2>1 DEF a
<1>5. p = q
  BY <1>2, <1>3, <1>4
<1>6. m = r
  BY <1>2, <1>5 DEF a
<1>7. QED
  BY <1>5, <1>6 DEF a, p, m

(* The B cells behind the first j of a sequence. *)

LEMMA DivFacts ==
  ASSUME NEW a \in Int, NEW b \in Nat \ {0}
  PROVE  /\ a \div b \in Int /\ a % b \in 0..(b - 1)
         /\ a = b * (a \div b) + (a % b)
OBVIOUS

(* A number below the modulus does not wrap. *)
LEMMA SmallSize == ASSUME NEW n \in Nat, n < Mod PROVE SizeT(n) = n
BY BufAssumption DEF SizeT

(* Rounding up a number of blocks does not change it. *)
LEMMA RoundedBlocks ==
  ASSUME NEW n \in 0..MaxCap, Blocks(n)
  PROVE  Rounded(n) = n
<1>1. PICK q \in Nat : n = q * Block
  BY DEF Blocks
<1>2. Block \in Nat \ {0} /\ Mod \in Nat /\ MaxCap \in Nat /\ n < Mod
  BY BufAssumption
<1>3. (n - 1) \div Block = q - 1
  <2> DEFINE d == (n - 1) \div Block
  <2>1. /\ d \in Int /\ (n - 1) % Block \in 0..(Block - 1)
        /\ n - 1 = Block * d + ((n - 1) % Block)
    BY <1>2, DivFacts
  <2>2. Block * (q - 1) = n - Block
    BY <1>1, <1>2
  <2>3. Block * (d - (q - 1)) \in (1 - Block)..(Block - 1)
    <3> HIDE DEF d
    <3>1. Block * (d - (q - 1)) = Block * d - Block * (q - 1)
      BY <1>2, <2>1
    <3>2. QED
      BY <3>1, <2>1, <2>2, <1>2
  <2>4. d - (q - 1) = 0
    <3> DEFINE e == d - (q - 1)
    <3>1. e \in Int
      BY <2>1
    <3> HIDE DEF e
    <3>2. e >= 1 => Block * e >= Block
      BY <1>2, <3>1
    <3>3. e <= -1 => Block * e <= -Block
      BY <1>2, <3>1
    <3>4. QED
      BY <2>3, <3>1, <3>2, <3>3, <1>2 DEF e
  <2>5. QED
    BY <2>1, <2>4
<1>4. ((n - 1) \div Block + 1) * Block = n
  BY <1>1, <1>2, <1>3
<1>5. QED
  BY <1>2, <1>4, SmallSize DEF Rounded, SizeT

(* Whatever alloc is asked for, it adds whole blocks: the modulus is one too. *)
LEMMA RoundedIsBlocks ==
  ASSUME NEW n \in Nat
  PROVE  Rounded(n) \in Nat /\ Blocks(Rounded(n))
<1>1. Block \in Nat \ {0} /\ Mod \in Nat \ {0} /\ Mod % Block = 0
  BY BufAssumption
<1> DEFINE k == (n - 1) \div Block + 1
           m == Mod \div Block
           j == (k * Block) \div Mod
<1>2. k \in Int /\ m \in Int /\ Mod = Block * m
  BY <1>1, DivFacts
<1>3. k * Block \in Int
  BY <1>1, <1>2
<1> HIDE DEF k, m
<1>4. /\ j \in Int /\ (k * Block) % Mod \in 0..(Mod - 1)
      /\ k * Block = Mod * j + ((k * Block) % Mod)
  BY <1>1, <1>3, DivFacts
<1> HIDE DEF j
<1> DEFINE r == (k * Block) % Mod
<1>5. r = (k - m * j) * Block
  <2>1. Mod * j = (m * j) * Block
    BY <1>1, <1>2, <1>4
  <2>2. (k - m * j) * Block = k * Block - (m * j) * Block
    BY <1>1, <1>2, <1>4
  <2>3. QED
    BY <1>1, <1>2, <1>3, <1>4, <2>1, <2>2
<1>6. k - m * j \in Nat
  <2> DEFINE e == k - m * j
  <2>1. e \in Int
    BY <1>2, <1>4
  <2>2. e * Block >= 0
    BY <1>4, <1>5
  <2> HIDE DEF e
  <2>3. e <= -1 => e * Block <= -Block
    BY <1>1, <2>1
  <2>4. e \in Nat
    BY <1>1, <2>1, <2>2, <2>3
  <2>5. QED
    BY <2>4 DEF e
<1>7. Rounded(n) = r
  BY DEF Rounded, SizeT, k
<1>8. QED
  BY <1>4, <1>5, <1>6, <1>7 DEF Blocks

LEMMA BlocksAdd ==
  ASSUME NEW a \in Nat, NEW b \in Nat, Blocks(a), Blocks(b)
  PROVE  Blocks(a + b)
<1>1. PICK p \in Nat : a = p * Block
  BY DEF Blocks
<1>2. PICK q \in Nat : b = q * Block
  BY DEF Blocks
<1>3. a + b = (p + q) * Block /\ p + q \in Nat
  BY <1>1, <1>2, BufAssumption
<1>4. QED
  BY <1>3 DEF Blocks

LEMMA BufConstants ==
  /\ Block \in Nat \ {0} /\ Mod \in Nat \ {0} /\ MaxCap \in Nat
  /\ 2 * MaxCap + Block <= Mod /\ MaxCap < Mod /\ Sizes \subseteq 0..MaxCap
BY BufAssumption

(* Rounding up adds less than a block. *)
LEMMA RoundedLess ==
  ASSUME NEW n \in 1..MaxCap
  PROVE  Rounded(n) < n + Block
<1> DEFINE d == (n - 1) \div Block
           r == (n - 1) % Block
<1>1. /\ n \in Nat /\ n - 1 \in Nat /\ n <= MaxCap
      /\ Block \in Nat \ {0} /\ Mod \in Nat \ {0} /\ MaxCap \in Nat
      /\ 2 * MaxCap + Block <= Mod
  BY BufConstants
<1>2. d \in Nat /\ r \in 0..(Block - 1) /\ n - 1 = d * Block + r
  BY <1>1, QuotientFacts
<1> HIDE DEF d, r
<1>3. (d + 1) * Block = d * Block + Block
  BY <1>1, <1>2
<1>4. d * Block \in Nat
  BY <1>1, <1>2
<1>5. (d + 1) * Block \in Nat /\ (d + 1) * Block < n + Block /\ (d + 1) * Block < Mod
  BY <1>1, <1>2, <1>3, <1>4
<1>6. SizeT((d + 1) * Block) = (d + 1) * Block
  BY <1>5, SmallSize
<1> QED BY <1>5, <1>6 DEF Rounded, d

(* alloc from a sound size adds whole blocks, and does not wrap. *)
LEMMA AllocAdds ==
  ASSUME InBlocks(cap), NEW n \in 1..MaxCap
  PROVE  /\ SizeT(cap + Rounded(n)) = cap + Rounded(n)
         /\ cap + Rounded(n) \in Nat /\ cap + Rounded(n) >= cap
         /\ Blocks(cap + Rounded(n))
<1>1. Rounded(n) \in Nat /\ Blocks(Rounded(n)) /\ Rounded(n) < n + Block
  BY RoundedIsBlocks, RoundedLess
<1>2. cap \in Nat /\ cap <= MaxCap /\ Blocks(cap)
  BY BufConstants DEF InBlocks
<1>3. cap + Rounded(n) \in Nat /\ cap + Rounded(n) < Mod
  BY <1>1, <1>2, BufConstants
<1>4. Blocks(cap + Rounded(n))
  BY <1>1, <1>2, BlocksAdd
<1> QED BY <1>1, <1>2, <1>3, <1>4, SmallSize

(* Subtracting whole blocks. *)
LEMMA BlocksLess ==
  ASSUME NEW a \in Nat, NEW b \in Nat, Blocks(a), Blocks(b), b <= a
  PROVE  Blocks(a - b)
<1>1. PICK p \in Nat : a = p * Block
  BY DEF Blocks
<1>2. PICK q \in Nat : b = q * Block
  BY DEF Blocks
<1>3. a - b = (p - q) * Block
  BY <1>1, <1>2, BufConstants
<1>4. ~(p < q)
  BY <1>1, <1>2, MulLess, BufConstants
<1> QED BY <1>3, <1>4 DEF Blocks

(* What alloc makes of a difference taken the wrong way round: it is rounded
   up to 2^64 less some blocks that are not needed, or to 2^64 itself. *)
LEMMA RoundedWrong ==
  ASSUME NEW d \in 1..MaxCap
  PROVE  \E g \in 0..d : Blocks(g) /\ Rounded(SizeT(0 - d)) = SizeT(Mod - g)
<1>1. /\ d \in Nat /\ d >= 1 /\ d <= MaxCap /\ MaxCap < Mod
      /\ Block \in Nat \ {0} /\ Mod \in Nat \ {0} /\ MaxCap \in Nat /\ Mod % Block = 0
  BY BufConstants, BufAssumption
<1>2. SizeT(0 - d) = Mod - d
  <2> DEFINE x == (0 - d) \div Mod
             y == (0 - d) % Mod
  <2>1. x \in Int /\ y \in 0..(Mod - 1) /\ 0 - d = Mod * x + y
    BY <1>1, DivFacts
  <2> HIDE DEF x, y
  <2>2. x >= 0 => Mod * x >= 0
    BY <1>1, <2>1
  <2>3. x <= -2 => Mod * x <= -2 * Mod
    BY <1>1, <2>1
  <2>4. x = -1
    BY <1>1, <2>1, <2>2, <2>3
  <2>5. Mod * x = 0 - Mod
    BY <1>1, <2>4
  <2> QED BY <1>1, <2>1, <2>5 DEF SizeT, y
<1> DEFINE n == Mod - d - 1
           e == n \div Block
           r == n % Block
           m == Mod \div Block
           k == m - e - 1
           g == k * Block
<1>3. n \in Nat
  BY <1>1
<1>4. e \in Nat /\ r \in 0..(Block - 1) /\ n = e * Block + r
  <2> HIDE DEF n
  <2> QED BY <1>1, <1>3, QuotientFacts
<1>5. m \in Nat /\ Mod = m * Block
  <2>1. m \in Nat /\ Mod = m * Block + 0
    BY <1>1, QuotientFacts
  <2> HIDE DEF m
  <2>2. m * Block \in Nat
    BY <1>1, <2>1
  <2> QED BY <2>1, <2>2
<1>6. (e + 1) * Block = Mod - g /\ e * Block + Block = Mod - g
  <2> HIDE DEF e, m
  <2>1. k * Block = m * Block - e * Block - Block /\ (e + 1) * Block = e * Block + Block
    BY <1>1, <1>4, <1>5
  <2>2. e * Block \in Nat /\ m * Block \in Nat
    BY <1>1, <1>4, <1>5
  <2> HIDE DEF k
  <2> QED BY <1>1, <1>5, <2>1, <2>2
<1>7. k \in Int /\ g \in Int
  <2> HIDE DEF e, m
  <2> QED BY <1>1, <1>4, <1>5
<1>8. g <= d /\ g > -Block
  <2>1. n = Mod - d - 1 /\ e * Block \in Nat
    BY <1>1, <1>4
  <2> HIDE DEF e, r, g, n
  <2>2. e * Block = Mod - d - 1 - r /\ r \in Int /\ r >= 0 /\ r <= Block - 1
    BY <1>1, <1>4, <2>1
  <2>3. Mod - d - 1 - r + Block = Mod - g
    BY <1>6, <2>2
  <2> QED BY <1>1, <1>7, <2>2, <2>3
<1>9. k \in Nat
  <2> HIDE DEF k
  <2>1. k <= -1 => k * Block <= -Block
    BY <1>1, <1>7
  <2> QED BY <1>1, <1>7, <1>8, <2>1
<1>10. g \in 0..d /\ Blocks(g)
  <2> HIDE DEF k
  <2>1. k * Block \in Nat
    BY <1>1, <1>9
  <2> QED BY <1>1, <1>8, <1>9, <2>1 DEF Blocks
<1>11. Rounded(SizeT(0 - d)) = SizeT(Mod - g)
  <2>1. (Mod - d) - 1 = n
    OBVIOUS
  <2>2. Rounded(Mod - d) = SizeT((e + 1) * Block)
    BY <2>1 DEF Rounded
  <2> HIDE DEF e, g, n
  <2> QED BY <1>2, <1>6, <2>2
<1> HIDE DEF g
<1> QED BY <1>10, <1>11

(* The capacity never grows: alloc gives back some blocks, or asks for more
   than there is memory. *)
LEMMA AllocTakes ==
  ASSUME InBlocks(cap), NEW d \in 1..MaxCap
  PROVE  LET c == SizeT(cap + Rounded(SizeT(0 - d)))
         IN  c \in Nat /\ (c > MaxCap \/ (c <= cap /\ InBlocks(c)))
<1>1. PICK g \in 0..d : Blocks(g) /\ Rounded(SizeT(0 - d)) = SizeT(Mod - g)
  BY RoundedWrong
<1>2. /\ cap \in Nat /\ cap <= MaxCap /\ Blocks(cap) /\ g \in Nat /\ g <= MaxCap
      /\ Mod \in Nat \ {0} /\ MaxCap \in Nat /\ 2 * MaxCap < Mod /\ Block \in Nat \ {0}
  BY <1>1, BufConstants DEF InBlocks
<1>3. CASE g = 0
  <2>1. SizeT(Mod - g) = 0
    <3>1. Mod - g = 1 * Mod + 0 /\ 0 \in 0..(Mod - 1)
      BY <1>2, <1>3
    <3>2. (1 * Mod + 0) % Mod = 0
      BY <1>2, <3>1, DivMod
    <3> QED BY <3>1, <3>2 DEF SizeT
  <2>2. SizeT(cap + 0) = cap
    BY <1>2, SmallSize
  <2> QED BY <1>1, <1>2, <2>1, <2>2 DEF InBlocks
<1>4. CASE g # 0
  <2>1. SizeT(Mod - g) = Mod - g
    BY <1>2, <1>4, SmallSize
  <2>2. CASE g <= cap
    <3>1. cap - g \in 0..(Mod - 1) /\ cap + (Mod - g) = 1 * Mod + (cap - g)
      BY <1>2, <2>2
    <3>2. (1 * Mod + (cap - g)) % Mod = cap - g
      BY <1>2, <3>1, DivMod
    <3>3. SizeT(cap + (Mod - g)) = cap - g
      BY <3>1, <3>2 DEF SizeT
    <3>4. Blocks(cap - g)
      BY <1>1, <1>2, <2>2, BlocksLess
    <3>5. cap - g \in 0..MaxCap /\ cap - g <= cap
      BY <1>2, <2>2
    <3> QED BY <1>1, <2>1, <3>3, <3>4, <3>5 DEF InBlocks
  <2>3. CASE g > cap
    <3>1. cap + (Mod - g) \in Nat /\ cap + (Mod - g) < Mod /\ cap + (Mod - g) > MaxCap
      BY <1>2, <2>3
    <3>2. SizeT(cap + (Mod - g)) = cap + (Mod - g)
      BY <3>1, SmallSize
    <3> QED BY <1>1, <2>1, <3>1, <3>2
  <2> QED BY <1>2, <2>2, <2>3
<1> QED BY <1>3, <1>4

----------------------------------------------------------------------------
(* The contents.                                                           *)

LEMMA MovedFacts ==
  ASSUME Sound, NEW c \in Nat
  PROVE  /\ Moved(c) \in [1..c -> Int]
         /\ c >= len => \A i \in 1..len : Moved(c)[i] = buf[i]
<1>1. cap \in Nat /\ len \in Nat /\ len <= cap /\ buf \in [1..cap -> Int] /\ Junk \in Int
  BY BufConstants DEF Sound, InBlocks, Junk
<1>2. \A i \in 1..c : i <= len => buf[i] \in Int
  BY <1>1
<1> QED BY <1>1, <1>2 DEF Moved

(* Bytes written behind the contents. *)
LEMMA PutFacts ==
  ASSUME NEW c \in Nat, NEW b \in [1..c -> Int], NEW n \in 0..c, NEW xs \in Seq(Int)
  PROVE  /\ Put(b, n, xs) \in [1..c -> Int]
         /\ \A i \in 1..n : Put(b, n, xs)[i] = b[i]
         /\ \A i \in 1..Len(xs) : n + i <= c => Put(b, n, xs)[n + i] = xs[i]
<1>1. Len(xs) \in Nat /\ \A i \in 1..Len(xs) : xs[i] \in Int
  BY LenProperties, ElementOfSeq
<1>2. \A i \in 1..c : i > n /\ i <= n + Len(xs) => i - n \in 1..Len(xs)
  BY <1>1
<1>3. \A i \in 1..Len(xs) : (n + i) - n = i
  BY <1>1
<1> QED BY <1>1, <1>2, <1>3 DEF Put

LEMMA FreshFacts ==
  ASSUME NEW n \in Nat, len \in Nat
  PROVE  Fresh(n) \in Seq(Int) /\ Len(Fresh(n)) = n
<1>1. Fresh(n) \in [1..n -> Int]
  BY DEF Fresh
<1>2. Fresh(n) \in Seq(Int)
  BY <1>1, FunctionIsSeq
<1>3. Len(Fresh(n)) = n
  BY <1>1, <1>2, LenProperties, FunctionIsSeq
<1> QED BY <1>2, <1>3

(* Bytes put in where there is room for them: the memory, and what was said. *)
LEMMA PutKeeps ==
  ASSUME Sound, NEW n \in Nat, len + n <= cap, NEW a \in Nat
  PROVE  /\ Put(buf, len, Fresh(n)) \in [1..cap -> Int]
         /\ said \o Fresh(a) \in Seq(Int)
         /\ ~misled /\ a = n =>
              /\ len + n = Len(said \o Fresh(a))
              /\ \A i \in 1..(len + n) : Put(buf, len, Fresh(n))[i] = (said \o Fresh(a))[i]
<1>1. cap \in Nat /\ len \in Nat /\ len \in 0..cap /\ buf \in [1..cap -> Int] /\ said \in Seq(Int)
  BY BufConstants DEF Sound, InBlocks
<1>2. Fresh(n) \in Seq(Int) /\ Len(Fresh(n)) = n /\ Fresh(a) \in Seq(Int) /\ Len(Fresh(a)) = a
  BY <1>1, FreshFacts
<1>3. /\ Put(buf, len, Fresh(n)) \in [1..cap -> Int]
      /\ \A i \in 1..len : Put(buf, len, Fresh(n))[i] = buf[i]
      /\ \A i \in 1..n : len + i <= cap => Put(buf, len, Fresh(n))[len + i] = Fresh(n)[i]
  <2>1. Fresh(n) \in Seq(Int)
    BY <1>2
  <2>2. /\ Put(buf, len, Fresh(n)) \in [1..cap -> Int]
        /\ \A i \in 1..len : Put(buf, len, Fresh(n))[i] = buf[i]
        /\ \A i \in 1..Len(Fresh(n)) :
             len + i <= cap => Put(buf, len, Fresh(n))[len + i] = Fresh(n)[i]
    BY <1>1, <2>1, PutFacts, Zenon
  <2>3. Len(Fresh(n)) = n
    BY <1>2
  <2> QED BY <2>2, <2>3
<1>4. /\ said \o Fresh(a) \in Seq(Int)
      /\ Len(said \o Fresh(a)) = Len(said) + a
      /\ \A i \in 1..Len(said) + a :
           (said \o Fresh(a))[i] = IF i <= Len(said) THEN said[i] ELSE Fresh(a)[i - Len(said)]
  BY <1>1, <1>2, ConcatProperties
<1>5. ASSUME ~misled, a = n
      PROVE  /\ len + n = Len(said \o Fresh(a))
             /\ \A i \in 1..(len + n) : Put(buf, len, Fresh(n))[i] = (said \o Fresh(a))[i]
  <2>1. len = Len(said) /\ \A i \in 1..len : buf[i] = said[i]
    BY <1>5 DEF Sound
  <2>2. ASSUME NEW i \in 1..(len + n)
        PROVE  Put(buf, len, Fresh(n))[i] = (said \o Fresh(a))[i]
    <3>1. CASE i <= len
      <4>1. i \in 1..len /\ i \in 1..Len(said) + a
        BY <1>1, <1>5, <2>1, <3>1
      <4> QED BY <1>3, <1>4, <2>1, <3>1, <4>1
    <3>2. CASE i > len
      <4>1. i - len \in 1..n /\ len + (i - len) = i /\ i <= cap /\ i \in 1..Len(said) + a
            /\ ~(i <= Len(said))
        BY <1>1, <1>5, <2>1, <3>2
      <4>2. Put(buf, len, Fresh(n))[i] = Fresh(n)[i - len]
        BY <1>3, <4>1
      <4>3. (said \o Fresh(a))[i] = Fresh(a)[i - Len(said)]
        BY <1>4, <4>1
      <4> QED BY <1>5, <2>1, <4>2, <4>3
    <3>3. i <= len \/ i > len
      BY <1>1
    <3> QED BY <3>1, <3>2, <3>3, Zenon
  <2>3. Len(said \o Fresh(a)) = Len(said) + a
    BY <1>4
  <2> QED BY <1>5, <2>1, <2>2, <2>3
<1> QED BY <1>3, <1>4, <1>5

LEMMA Left ==
  ASSUME Sound
  PROVE  leftSize = cap - len /\ cap - len \in 0..MaxCap
<1>1. cap \in Nat /\ cap <= MaxCap /\ len \in 0..cap
  BY BufConstants DEF Sound, InBlocks
<1>2. cap - len \in Nat /\ cap - len < Mod
  BY <1>1, BufConstants
<1>3. leftSize = cap - len
  BY <1>2, SmallSize DEF leftSize
<1> QED BY <1>1, <1>2, <1>3, BufConstants

(* alloc gives the contents more memory. *)
LEMMA AllocKeeps ==
  ASSUME BufIInv, Idle, NEW n \in 0..MaxCap, Alloc(n),
         UNCHANGED <<len, need, asked, said, misled, short>>
  PROVE  BufIInv'
<1>1. Sound /\ BufTypeOK /\ state = "ok" /\ need = 0
  BY DEF BufIInv, Idle
<1>2. cap \in Nat /\ cap <= MaxCap /\ len \in Nat /\ len <= cap /\ InBlocks(cap) /\ MaxCap < Mod
      /\ MaxCap \in Nat /\ Mod \in Nat
  BY <1>1, BufConstants DEF Sound, InBlocks
<1>3. CASE n = 0
  <2>1. UNCHANGED <<cap, buf, state>>
    BY <1>3 DEF Alloc
  <2> QED BY <2>1, Zenon DEF BufIInv, BufTypeOK, Sound, InBlocks
<1>4. CASE n # 0
  <2> DEFINE c == cap + Rounded(n)
  <2>1. SizeT(c) = c /\ c \in Nat /\ c >= cap /\ Blocks(c)
    <3>1. n \in 1..MaxCap
      BY <1>2, <1>4
    <3> QED BY <1>2, <3>1, AllocAdds
  <2>2. SizeT(c) \in 0..(Mod - 1)
    <3> HIDE DEF c
    <3> QED BY <1>2, <2>1, BufConstants DEF SizeT
  <2>3. /\ cap' = c
        /\ state' = IF c > MaxCap THEN "badAlloc" ELSE IF c < len THEN "overrun" ELSE state
        /\ buf' = IF c > MaxCap THEN buf ELSE Moved(c)
    BY <1>4, <2>1 DEF Alloc
  <2> HIDE DEF c
  <2>4. BufTypeOK'
    BY <1>1, <2>1, <2>2, <2>3, <1>2 DEF BufTypeOK
  <2>5. CASE c > MaxCap
    BY <2>3, <2>4, <2>5 DEF BufIInv
  <2>6. CASE ~(c > MaxCap)
    <3>1. state' = "ok" /\ buf' = Moved(c) /\ c \in 0..MaxCap /\ c >= len
      BY <1>1, <1>2, <2>1, <2>3, <2>6
    <3>2. Moved(c) \in [1..c -> Int] /\ \A i \in 1..len : Moved(c)[i] = buf[i]
      BY <1>1, <2>1, <3>1, MovedFacts
    <3>3. InBlocks(c) /\ len \in 0..c
      BY <1>2, <2>1, <3>1 DEF InBlocks
    <3>4. short <=> c - len < need
      BY <1>1, <1>2, <2>1 DEF Sound
    <3>5. Sound'
      BY <1>1, <2>3, <3>1, <3>2, <3>3, <3>4 DEF Sound, InBlocks, Blocks
    <3> QED BY <2>4, <3>1, <3>5 DEF BufIInv
  <2> QED BY <2>5, <2>6
<1> QED BY <1>3, <1>4

(* Room taken from an append that has too little. *)
LEMMA GrowTakes ==
  ASSUME BufIInv, appendGrow
  PROVE  BufIInv'
<1>1. /\ Sound /\ BufTypeOK /\ state = "ok" /\ need > 0 /\ leftSize < need
      /\ Alloc(SizeT(leftSize - need)) /\ UNCHANGED <<len, need, asked, said, misled, short>>
  BY DEF BufIInv, appendGrow
<1>2. leftSize = cap - len /\ cap - len \in 0..MaxCap
  BY <1>1, Left
<1>3. /\ cap \in Nat /\ cap <= MaxCap /\ len \in Nat /\ len <= cap /\ InBlocks(cap)
      /\ need \in Nat /\ need <= MaxCap /\ MaxCap \in Nat /\ MaxCap < Mod /\ Mod \in Nat \ {0}
  BY <1>1, BufConstants DEF Sound, InBlocks, BufTypeOK
<1> DEFINE d == need - leftSize
           n == SizeT(0 - d)
           c == SizeT(cap + Rounded(n))
<1>4. d \in 1..MaxCap /\ leftSize - need = 0 - d
  BY <1>1, <1>2, <1>3
<1>5. c \in Nat /\ (c > MaxCap \/ (c <= cap /\ InBlocks(c)))
  <2> HIDE DEF d
  <2> QED BY <1>3, <1>4, AllocTakes
<1>6. c \in 0..(Mod - 1)
  <2>1. c <= Mod - 1
    <3>1. \A x \in Int : x % Mod \in 0..(Mod - 1)
      BY <1>3
    <3>2. n \in Int
      <4>1. 0 - d \in Int
        BY <1>4
      <4> HIDE DEF d
      <4> QED BY <3>1, <4>1 DEF SizeT
    <3>3. Rounded(n) \in Int
      <4> HIDE DEF n
      <4>1. ((n - 1) \div Block + 1) * Block \in Int
        BY <3>2, BufConstants
      <4> QED BY <3>1, <4>1 DEF Rounded, SizeT
    <3>4. cap + Rounded(n) \in Int
      BY <1>3, <3>3
    <3> HIDE DEF n
    <3> QED BY <1>3, <3>1, <3>4 DEF SizeT
  <2> QED BY <1>3, <1>5, <2>1
<1>7. Alloc(n)
  <2> HIDE DEF d
  <2> QED BY <1>1, <1>4
<1> HIDE DEF d
<1>8. CASE n = 0
  <2>1. UNCHANGED <<cap, buf, state>>
    BY <1>7, <1>8 DEF Alloc
  <2> QED BY <1>1, <2>1, Zenon DEF BufIInv, BufTypeOK, Sound, InBlocks
<1>9. CASE n # 0
  <2>1. /\ cap' = c
        /\ state' = IF c > MaxCap THEN "badAlloc" ELSE IF c < len THEN "overrun" ELSE state
        /\ buf' = IF c > MaxCap THEN buf ELSE Moved(c)
    BY <1>7, <1>9 DEF Alloc
  <2> HIDE DEF c, n
  <2>2. short
    BY <1>1, <1>2 DEF Sound
  <2>3. BufTypeOK'
    BY <1>1, <1>6, <2>1 DEF BufTypeOK
  <2>4. CASE state' # "ok"
    BY <1>1, <2>2, <2>3, <2>4 DEF BufIInv
  <2>5. CASE state' = "ok"
    <3>1. c <= MaxCap /\ c >= len /\ c <= cap /\ InBlocks(c) /\ buf' = Moved(c)
      BY <1>3, <1>5, <2>1, <2>5
    <3>2. Moved(c) \in [1..c -> Int] /\ \A i \in 1..len : Moved(c)[i] = buf[i]
      BY <1>1, <1>5, <3>1, MovedFacts
    <3>3. len \in 0..c /\ c - len < need
      BY <1>1, <1>2, <1>3, <1>5, <3>1
    <3>4. Sound'
      BY <1>1, <2>1, <2>2, <3>1, <3>2, <3>3 DEF Sound, InBlocks, Blocks
    <3> QED BY <2>3, <2>5, <3>4 DEF BufIInv
  <2> QED BY <2>4, <2>5
<1> QED BY <1>8, <1>9

LEMMA InitBufIInv == BufInit => BufIInv
<1> SUFFICES ASSUME BufInit PROVE BufIInv
  OBVIOUS
<1>1. InBlocks(0)
  <2>1. 0 = 0 * Block /\ 0 \in 0..MaxCap
    BY BufConstants
  <2> QED BY <2>1 DEF Blocks, InBlocks
<1>2. <<>> \in Seq(Int) /\ Len(<<>>) = 0
  BY EmptySeq
<1>e. <<>> \in [1..Len(<<>>) -> Int]
  BY <1>2, LenProperties
<1>f. buf \in [1..cap -> Int]
  BY <1>2, <1>e, Zenon DEF BufInit
<1>g. ~misled => len = Len(said) /\ \A i \in 1..len : buf[i] = said[i]
  BY <1>2 DEF BufInit
<1>h. len \in 0..cap /\ (short <=> cap - len < need)
  BY DEF BufInit
<1>i. InBlocks(cap) /\ said \in Seq(Int) /\ (need = 0 => asked = 0) /\ need = asked
  BY <1>1, <1>2 DEF BufInit
<1>3. Sound
  BY <1>f, <1>g, <1>h, <1>i, Zenon DEF Sound
<1>4. BufTypeOK
  <2>1. cap \in 0..(Mod - 1) /\ len \in Nat /\ need \in 0..MaxCap /\ asked \in 0..MaxCap
    BY BufConstants DEF BufInit
  <2>2. state \in {"ok", "badAlloc", "overrun"} /\ {misled, short} \subseteq BOOLEAN
    BY Zenon DEF BufInit
  <2> QED BY <2>1, <2>2, Zenon DEF BufTypeOK
<1>5. state = "overrun" => short
  BY DEF BufInit
<1> QED BY <1>3, <1>4, <1>5, Zenon DEF BufIInv

LEMMA NextBufIInv == BufIInv /\ [BufNext]_bufVars => BufIInv'
<1> SUFFICES ASSUME BufIInv, [BufNext]_bufVars PROVE BufIInv'
  OBVIOUS
<1>0. Block \in Nat \ {0} /\ Mod \in Nat \ {0} /\ MaxCap \in Nat /\ MaxCap < Mod
      /\ 2 * MaxCap + Block <= Mod /\ Sizes \subseteq 0..MaxCap
  BY BufConstants
<1>t. BufTypeOK
  BY DEF BufIInv
<1>a. ASSUME state = "ok"
      PROVE  /\ Sound /\ leftSize = cap - len
             /\ cap \in Nat /\ cap <= MaxCap /\ len \in Nat /\ len <= cap
             /\ buf \in [1..cap -> Int] /\ said \in Seq(Int) /\ Len(said) \in Nat
  <2>1. Sound
    BY <1>a DEF BufIInv
  <2> QED BY <2>1, <1>0, Left, LenProperties DEF Sound, InBlocks
<1>1. ASSUME NEW n \in Sizes, alloc(n)
      PROVE  BufIInv'
  BY <1>0, <1>1, AllocKeeps DEF alloc
<1>2. ASSUME NEW n \in Sizes, offset(n)
      PROVE  BufIInv'
  <2>1. /\ state = "ok" /\ need = 0 /\ n \in Nat /\ len + n <= cap /\ n <= leftSize
        /\ buf' = Put(buf, len, Fresh(n)) /\ len' = len + n /\ said' = said \o Fresh(n)
        /\ UNCHANGED <<cap, need, asked, state, misled, short>>
    BY <1>0, <1>a, <1>2 DEF offset, Idle
  <2>2. /\ buf' \in [1..cap -> Int] /\ said' \in Seq(Int)
        /\ ~misled => len' = Len(said') /\ \A i \in 1..len' : buf'[i] = said'[i]
    BY <1>a, <2>1, PutKeeps
  <2>3. len' \in 0..cap /\ (short <=> cap - len' < need)
    BY <1>a, <2>1 DEF Sound
  <2>4. Sound'
    BY <1>a, <2>1, <2>2, <2>3 DEF Sound, InBlocks
  <2> QED BY <1>t, <2>1, <2>3, <2>4 DEF BufIInv, BufTypeOK
<1>3. ASSUME NEW n \in Sizes, setLength(n)
      PROVE  BufIInv'
  <2>1. /\ state = "ok" /\ need = 0 /\ n \in Nat /\ n <= len /\ ~misled
        /\ len' = n /\ said' = SubSeq(said, 1, n)
        /\ UNCHANGED <<cap, buf, need, asked, state, misled, short>>
    BY <1>0, <1>3 DEF setLength, Idle
  <2>2. len = Len(said) /\ \A i \in 1..len : buf[i] = said[i]
    BY <1>a, <2>1 DEF Sound
  <2>3. /\ said' \in Seq(Int) /\ Len(said') = n
        /\ \A i \in 1..n : said'[i] = said[i]
    <3>1. \A i \in 1..n : said[i] \in Int
      <4>1. said \in [1..Len(said) -> Int] /\ Len(said) \in Nat
        BY <1>a, <2>1, LenProperties
      <4> QED BY <2>1, <2>2, <4>1
    <3>2. 1 \in Int /\ n \in Int
      BY <2>1
    <3>3. /\ SubSeq(said, 1, n) \in Seq(Int)
          /\ Len(SubSeq(said, 1, n)) = IF 1 <= n THEN n - 1 + 1 ELSE 0
          /\ \A i \in 1..(n - 1 + 1) : SubSeq(said, 1, n)[i] = said[1 + i - 1]
      BY <3>1, <3>2, SubSeqProperties
    <3>4. n - 1 + 1 = n /\ (IF 1 <= n THEN n - 1 + 1 ELSE 0) = n
          /\ \A i \in 1..n : 1 + i - 1 = i
      BY <2>1
    <3>5. said' \in Seq(Int)
      BY <2>1, <3>3
    <3>6. Len(said') = n
      BY <2>1, <3>3, <3>4
    <3>7. \A i \in 1..n : said'[i] = said[i]
      BY <2>1, <3>3, <3>4
    <3> QED BY <3>5, <3>6, <3>7
  <2>4. len' = Len(said') /\ \A i \in 1..len' : buf'[i] = said'[i]
    BY <1>a, <2>1, <2>2, <2>3
  <2>5. len' \in 0..cap /\ (short <=> cap - len' < need)
    BY <1>a, <2>1 DEF Sound
  <2>6. Sound'
    BY <1>a, <2>1, <2>3, <2>4, <2>5 DEF Sound, InBlocks
  <2> QED BY <1>t, <2>1, <2>5, <2>6 DEF BufIInv, BufTypeOK
<1>4. ASSUME NEW n \in 0..MaxCap, NEW m \in 0..MaxCap, BeginAppend(n, m)
      PROVE  BufIInv'
  <2>1. /\ state = "ok" /\ need = 0 /\ m > 0 /\ need' = m /\ asked' = n
        /\ misled' = (misled \/ n # m) /\ short' = (short \/ leftSize < m)
        /\ UNCHANGED <<cap, len, buf, state, said>>
    BY <1>4 DEF BeginAppend, Idle
  <2>2. misled \in BOOLEAN /\ short \in BOOLEAN
    BY <1>t DEF BufTypeOK
  <2>3. ~short
    BY <1>a, <2>1 DEF Sound
  <2>4. short' <=> cap - len < m
    BY <1>a, <2>1, <2>2, <2>3
  <2>5. misled' \in BOOLEAN /\ short' \in BOOLEAN /\ (~misled' => ~misled /\ n = m)
    BY <2>1, <2>2, Zenon
  <2>6. Sound'
    BY <1>a, <2>1, <2>4, <2>5 DEF Sound, InBlocks
  <2>7. BufTypeOK'
    BY <1>t, <1>0, <2>1, <2>5 DEF BufTypeOK
  <2> QED BY <2>1, <2>6, <2>7 DEF BufIInv
<1>5. ASSUME Clear
      PROVE  BufIInv'
  <2>1. /\ state = "ok" /\ need = 0 /\ len' = 0 /\ said' = <<>> /\ misled' = FALSE
        /\ UNCHANGED <<cap, buf, need, asked, state, short>>
    BY <1>5 DEF Clear, Idle
  <2>2. said' \in Seq(Int) /\ Len(said') = 0
    BY <2>1, EmptySeq
  <2>3. short <=> cap - len' < need
    BY <1>a, <2>1 DEF Sound
  <2>4. Sound'
    BY <1>a, <2>1, <2>2, <2>3 DEF Sound, InBlocks
  <2> QED BY <1>t, <2>1, <2>4 DEF BufIInv, BufTypeOK
<1>6. ASSUME sData
      PROVE  BufIInv'
  <2>1. state = "ok" /\ need = 0 /\ cap > 0
        /\ UNCHANGED <<len, need, asked, said, misled, short>>
    BY <1>6 DEF sData, Idle
  <2>z. <<0>> \in Seq(Int) /\ Len(<<0>>) = 1
    OBVIOUS
  <2>2. ASSUME NEW c \in Nat, NEW b \in [1..c -> Int], InBlocks(c), len <= c, c >= cap,
               \A i \in 1..len : b[i] = buf[i],
               cap' = c, buf' = Put(b, len, << 0 >>), state' = state
        PROVE  BufIInv'
    <3>1. len \in 0..c
      BY <1>a, <2>1, <2>2
    <3>2. buf' \in [1..c -> Int] /\ \A i \in 1..len : buf'[i] = buf[i]
      BY <2>2, <2>z, <3>1, PutFacts
    <3>3. short <=> c - len < need
      BY <1>a, <2>1, <2>2 DEF Sound
    <3>4. Sound'
      BY <1>a, <2>1, <2>2, <3>1, <3>2, <3>3 DEF Sound, InBlocks
    <3>5. cap' \in 0..(Mod - 1)
      BY <1>0, <2>2 DEF InBlocks
    <3> QED BY <1>t, <2>1, <2>2, <3>4, <3>5 DEF BufIInv, BufTypeOK
  <2>3. CASE len < cap /\ buf' = Put(buf, len, <<0>>) /\ UNCHANGED <<cap, state>>
    <3>1. InBlocks(cap) /\ cap \in Nat /\ len <= cap /\ cap >= cap /\ buf \in [1..cap -> Int]
      BY <1>a, <2>1 DEF Sound, InBlocks
    <3>2. cap' = cap /\ state' = state /\ buf' = Put(buf, len, <<0>>)
      BY <2>3
    <3> QED BY <2>2, <3>1, <3>2, Zenon
  <2>4. CASE /\ len = cap /\ cap + Block <= MaxCap /\ cap' = cap + Block
             /\ buf' = Put(Moved(cap'), len, <<0>>) /\ state' = state
    <3>1. InBlocks(cap + Block) /\ cap + Block \in Nat /\ cap + Block >= cap
      <4>1. Blocks(cap) /\ Block = 1 * Block
        BY <1>0, <1>a, <2>1 DEF Sound, InBlocks
      <4>2. Blocks(Block)
        BY <4>1 DEF Blocks
      <4>3. cap \in Nat /\ cap + Block \in Nat /\ cap + Block >= cap /\ cap + Block \in 0..MaxCap
        BY <1>0, <1>a, <2>1, <2>4 DEF Sound, InBlocks
      <4>4. Block \in Nat
        BY <1>0
      <4>5. Blocks(cap + Block)
        BY <4>1, <4>2, <4>3, <4>4, BlocksAdd, Zenon
      <4> QED BY <4>3, <4>5 DEF InBlocks
    <3>2. /\ Moved(cap + Block) \in [1..(cap + Block) -> Int]
          /\ \A i \in 1..len : Moved(cap + Block)[i] = buf[i]
      <4>1. cap + Block >= len
        BY <1>a, <2>1, <3>1
      <4> QED BY <1>a, <2>1, <3>1, <4>1, MovedFacts
    <3>3. len <= cap + Block
      BY <1>a, <2>1, <3>1
    <3> QED BY <2>1, <2>2, <2>4, <3>1, <3>2, <3>3
  <2>5. CASE cap + Block > MaxCap /\ Alloc(Block)
    (* Nothing is written when new throws. *)
    <3>1. Rounded(Block) = Block /\ cap + Block \in Nat /\ cap + Block < Mod
      <4>1. Block = 1 * Block /\ cap + Block < Mod /\ Block < Mod /\ cap + Block \in Nat
        BY <1>0, <1>a, <2>1
      <4>2. (Block - 1) \div Block = 0
        <5>1. Block - 1 = 0 * Block + (Block - 1) /\ Block - 1 \in 0..(Block - 1)
          BY <1>0
        <5> QED BY <1>0, <5>1, DivMod
      <4>3. SizeT(Block) = Block
        BY <1>0, <4>1, SmallSize
      <4> QED BY <1>0, <4>1, <4>2, <4>3 DEF Rounded
    <3>2. SizeT(cap + Block) = cap + Block
      BY <3>1, SmallSize
    <3>3. cap' = cap + Block /\ state' = "badAlloc"
      BY <1>0, <2>5, <3>1, <3>2 DEF Alloc
    <3> QED BY <1>0, <1>t, <2>1, <3>1, <3>3 DEF BufIInv, BufTypeOK
  <2> QED BY <1>6, <2>3, <2>4, <2>5 DEF sData
<1>7. ASSUME copy
      PROVE  BufIInv'
  <2>1. /\ state = "ok" /\ cap' = Rounded(cap) /\ buf' = Moved(Rounded(cap))
        /\ UNCHANGED <<len, need, asked, state, said, misled, short>>
    BY <1>7 DEF copy, Idle
  <2>2. Rounded(cap) = cap
    BY <1>a, <2>1, RoundedBlocks DEF Sound, InBlocks
  <2>3. Moved(cap) \in [1..cap -> Int] /\ \A i \in 1..len : Moved(cap)[i] = buf[i]
    BY <1>a, <2>1, MovedFacts
  <2>4. Sound'
    BY <1>a, <2>1, <2>2, <2>3 DEF Sound, InBlocks
  <2> QED BY <1>t, <2>1, <2>2, <2>4 DEF BufIInv, BufTypeOK
<1>8. CASE appendGrow
  BY <1>8, GrowTakes
<1>9. ASSUME appendCopy
      PROVE  BufIInv'
  <2>1. /\ state = "ok" /\ need > 0 /\ leftSize >= need /\ need \in Nat /\ asked \in Nat
        /\ buf' = Put(buf, len, Fresh(need)) /\ len' = len + need
        /\ said' = said \o Fresh(asked) /\ need' = 0 /\ asked' = 0
        /\ state' = IF len + need > cap THEN "overrun" ELSE state
        /\ UNCHANGED <<cap, misled, short>>
    BY <1>0, <1>t, <1>9 DEF appendCopy, BufTypeOK
  <2>2. len + need <= cap /\ state' = "ok"
    BY <1>a, <2>1
  <2>3. ~misled => asked = need
    BY <1>a, <2>1 DEF Sound
  <2>4. /\ buf' \in [1..cap -> Int] /\ said' \in Seq(Int)
        /\ ~misled => len' = Len(said') /\ \A i \in 1..len' : buf'[i] = said'[i]
    BY <1>a, <2>1, <2>2, <2>3, PutKeeps
  <2>5. len' \in 0..cap /\ ~short /\ ~(cap - len' < 0)
    BY <1>a, <2>1, <2>2 DEF Sound
  <2>6. Sound'
    BY <1>a, <2>1, <2>2, <2>4, <2>5 DEF Sound, InBlocks
  <2> QED BY <1>0, <1>t, <2>1, <2>2, <2>5, <2>6 DEF BufIInv, BufTypeOK
<1>10. CASE UNCHANGED bufVars
  BY <1>10, Zenon DEF bufVars, BufIInv, BufTypeOK, Sound, InBlocks, Blocks
<1>11. ASSUME NEW n \in Sizes, append(n)
       PROVE  BufIInv'
  BY <1>0, <1>4, <1>11 DEF append
<1>12. ASSUME NEW n \in Sizes, NEW m \in Sizes, appendText(n, m)
       PROVE  BufIInv'
  BY <1>0, <1>4, <1>12 DEF appendText
<1> QED BY <1>1, <1>2, <1>3, <1>5, <1>6, <1>7, <1>8, <1>9, <1>10, <1>11, <1>12 DEF BufNext

(* For every block size, every memory limit and every sequence of calls: until
   new throws YS_Buf reads back exactly what the caller put in (texts of another
   length than their caller said apart); no call writes outside of the allocation
   but an append that meets too little room; and no such append ever returns. *)
THEOREM BufferKeeps == BufSpec => []BufKeeps
<1>1. BufIInv => BufKeeps
  <2> SUFFICES ASSUME BufIInv PROVE BufKeeps
    OBVIOUS
  <2>1. state = "ok" => ReadsBack
    <3> SUFFICES ASSUME state = "ok", Sound PROVE ReadsBack
      BY DEF BufIInv
    <3>1. len <= cap /\ DOMAIN buf = 1..cap
      BY BufConstants DEF Sound, InBlocks
    <3> QED BY <3>1 DEF Sound, ReadsBack
  <2>2. short /\ state = "ok" => need > 0
    <3> SUFFICES ASSUME state = "ok", short, Sound PROVE need > 0
      BY DEF BufIInv
    <3>1. cap - len < need /\ cap - len >= 0 /\ need \in Nat /\ cap - len \in Int
      BY BufConstants DEF Sound, InBlocks, BufIInv, BufTypeOK
    <3> QED BY <3>1
  <2> QED BY <2>1, <2>2 DEF BufIInv, BufKeeps, ShortNeverReturns
<1> QED BY <1>1, InitBufIInv, NextBufIInv, PTL DEF BufSpec


(***************************************************************************)
(*                              The digests                                *)
(***************************************************************************)

(* The B cells behind the first j of a sequence. *)
Piece(s, j) == [k \in 1..B |-> s[j + k]]

LEMMA PieceFacts ==
  ASSUME NEW S, NEW s \in Seq(S), NEW j \in Nat, j + B <= Len(s)
  PROVE  /\ SubSeq(s, j + 1, j + B) = Piece(s, j)
         /\ Piece(s, j) \in Seq(S) /\ Len(Piece(s, j)) = B
<1>0. B \in Nat /\ Len(s) \in Nat
  BY DigestAssumption, LenProperties
<1>1. \A k \in 1..B : j + k \in 1..Len(s)
  BY <1>0
<1>2. \A k \in 1..B : s[j + k] \in S
  BY <1>1, ElementOfSeq
<1>3. Piece(s, j) \in [1..B -> S]
  BY <1>2 DEF Piece
<1>4. Piece(s, j) \in Seq(S) /\ Len(Piece(s, j)) = B
  BY <1>0, <1>3, FunctionIsSeq
<1>5. \A k \in (j + 1)..(j + B) : s[k] \in S
  <2> TAKE k \in (j + 1)..(j + B)
  <2>1. k \in 1..Len(s)
    BY <1>0
  <2>2. QED
    BY <2>1, ElementOfSeq
<1> DEFINE t == SubSeq(s, j + 1, j + B)
<1>6. /\ t \in Seq(S) /\ Len(t) = B
      /\ \A k \in 1..B : t[k] = s[j + k]
  <2>1. j + 1 \in Int /\ j + B \in Int /\ j + 1 <= j + B /\ (j + B) - (j + 1) + 1 = B
    BY DigestAssumption
  <2>2. /\ t \in Seq(S) /\ Len(t) = (j + B) - (j + 1) + 1
        /\ \A k \in 1..((j + B) - (j + 1) + 1) : t[k] = s[(j + 1) + k - 1]
    BY <1>5, <2>1, SubSeqProperties
  <2> HIDE DEF t
  <2>3. \A k \in 1..B : (j + 1) + k - 1 = j + k
    BY <1>0
  <2>4. QED
    BY <2>1, <2>2, <2>3
<1> HIDE DEF t
<1>7. t = Piece(s, j)
  BY <1>4, <1>6, SeqEqual DEF Piece
<1>8. QED
  BY <1>4, <1>7 DEF t

(* How often B goes into a length. *)
LEMMA WithinCut ==
  ASSUME NEW n \in Nat, NEW k \in 1..(n \div B)
  PROVE  (k - 1) * B \in Nat /\ (k - 1) * B + B = k * B /\ k * B <= n
<1>0. B \in Nat \ {0}
  BY DigestAssumption
<1> DEFINE p == n \div B
           m == n % B
<1>1. p \in Nat /\ m \in Nat /\ n = (p * B) + m
  BY <1>0, QuotientFacts
<1>2. k \in 1..p
  OBVIOUS
<1> HIDE DEF p, m
<1>3. (k - 1) * B \in Nat /\ (k - 1) * B + B = k * B
  BY <1>0, <1>1, <1>2
<1>4. k * B <= p * B
  <2>1. k - 1 \in Nat /\ k - 1 < p
    BY <1>1, <1>2
  <2>2. (k - 1) * B + B <= p * B
    BY <1>0, <1>1, <2>1, MulLess
  <2>3. QED
    BY <1>3, <2>2
<1>5. k * B \in Nat /\ p * B \in Nat
  BY <1>0, <1>1, <1>2
<1>6. QED
  BY <1>1, <1>3, <1>4, <1>5

(* Cut, by positions. *)
LEMMA CutPieces ==
  ASSUME NEW S, NEW s \in Seq(S)
  PROVE  /\ Cut(s) = [k \in 1..(Len(s) \div B) |-> Piece(s, (k - 1) * B)]
         /\ Len(s) \div B \in Nat
         /\ Cut(s) \in Seq(Seq(S)) /\ Len(Cut(s)) = Len(s) \div B
<1>0. Len(s) \in Nat /\ B \in Nat \ {0}
  BY DigestAssumption, LenProperties
<1> DEFINE n == Len(s) \div B
           f == [k \in 1..n |-> Piece(s, (k - 1) * B)]
<1>1. n \in Nat
  BY <1>0, QuotientFacts
<1>2. ASSUME NEW k \in 1..n
      PROVE  /\ SubSeq(s, (k - 1) * B + 1, k * B) = Piece(s, (k - 1) * B)
             /\ Piece(s, (k - 1) * B) \in Seq(S)
  <2>1. (k - 1) * B \in Nat /\ (k - 1) * B + B = k * B /\ k * B <= Len(s)
    BY <1>0, WithinCut
  <2> DEFINE j == (k - 1) * B
  <2>2. j \in Nat /\ j + B = k * B /\ j + B <= Len(s)
    BY <2>1
  <2> HIDE DEF j
  <2>3. SubSeq(s, j + 1, j + B) = Piece(s, j) /\ Piece(s, j) \in Seq(S)
    BY <2>2, PieceFacts
  <2>4. QED
    BY <2>2, <2>3 DEF j
<1> HIDE DEF n
<1>3. Cut(s) = f
  BY <1>2 DEF Cut, n
<1>4. f \in [1..n -> Seq(S)]
  BY <1>2
<1> HIDE DEF f
<1>5. f \in Seq(Seq(S)) /\ Len(f) = n
  BY <1>1, <1>4, FunctionIsSeq
<1>6. QED
  BY <1>1, <1>3, <1>5 DEF f, n

LEMMA PieceConcat ==
  ASSUME NEW S, NEW s \in Seq(S), NEW t \in Seq(S), NEW j \in Nat
  PROVE  /\ j + B <= Len(s) => Piece(s \o t, j) = Piece(s, j)
         /\ j + B <= Len(t) => Piece(s \o t, Len(s) + j) = Piece(t, j)
<1>0. Len(s) \in Nat /\ Len(t) \in Nat /\ B \in Nat
  BY DigestAssumption, LenProperties
<1>1. \A k \in 1..(Len(s) + Len(t)) :
         (s \o t)[k] = IF k <= Len(s) THEN s[k] ELSE t[k - Len(s)]
  BY ConcatProperties
<1>2. ASSUME j + B <= Len(s), NEW k \in 1..B PROVE (s \o t)[j + k] = s[j + k]
  <2>1. j + k \in 1..(Len(s) + Len(t)) /\ j + k <= Len(s)
    BY <1>0, <1>2
  <2>2. QED
    BY <1>1, <2>1
<1>3. ASSUME j + B <= Len(t), NEW k \in 1..B PROVE (s \o t)[(Len(s) + j) + k] = t[j + k]
  <2>1. /\ (Len(s) + j) + k \in 1..(Len(s) + Len(t)) /\ ~((Len(s) + j) + k <= Len(s))
        /\ ((Len(s) + j) + k) - Len(s) = j + k
    BY <1>0, <1>3
  <2>2. QED
    BY <1>1, <2>1
<1>4. QED
  BY <1>2, <1>3 DEF Piece

(* Cutting a whole number of blocks, and something behind them. *)
LEMMA CutConcat ==
  ASSUME NEW S, NEW s \in Seq(S), NEW t \in Seq(S), NEW n \in Nat, Len(s) = n * B
  PROVE  Cut(s \o t) = Cut(s) \o Cut(t) /\ Len(Cut(s)) = n
<1>0. Len(s) \in Nat /\ Len(t) \in Nat /\ B \in Nat \ {0}
  BY DigestAssumption, LenProperties
<1> DEFINE m == Len(t) \div B
           r == Len(t) % B
<1>1. m \in Nat /\ r \in 0..(B - 1) /\ Len(t) = (m * B) + r
  BY <1>0, QuotientFacts
<1>2. Cut(t) = [k \in 1..m |-> Piece(t, (k - 1) * B)] /\ Cut(t) \in Seq(Seq(S)) /\ Len(Cut(t)) = m
  BY CutPieces
<1>2a. ASSUME NEW k \in 1..m PROVE (k - 1) * B \in Nat /\ (k - 1) * B + B <= Len(t)
  BY <1>0, WithinCut
<1> HIDE DEF m, r
<1>3. s \o t \in Seq(S) /\ Len(s \o t) = Len(s) + Len(t)
  BY ConcatProperties
<1>4. Len(s) \div B = n
  <2>1. (n * B + 0) \div B = n
    BY <1>0, DivMod
  <2>2. n * B + 0 = n * B
    BY <1>0
  <2>3. QED
    BY <2>1, <2>2
<1>5. Cut(s) = [k \in 1..n |-> Piece(s, (k - 1) * B)] /\ Cut(s) \in Seq(Seq(S)) /\ Len(Cut(s)) = n
  BY <1>4, CutPieces
<1>6. Len(s \o t) \div B = n + m
  <2>1. n + m \in Nat /\ (n + m) * B + r = n * B + ((m * B) + r)
    BY <1>0, <1>1
  <2>2. ((n + m) * B + r) \div B = n + m
    BY <1>0, <1>1, <2>1, DivMod
  <2>3. QED
    BY <1>1, <1>3, <2>1, <2>2
<1>7. /\ Cut(s \o t) = [k \in 1..(n + m) |-> Piece(s \o t, (k - 1) * B)]
      /\ Cut(s \o t) \in Seq(Seq(S)) /\ Len(Cut(s \o t)) = n + m
  BY <1>3, <1>6, CutPieces
<1>8. /\ Cut(s) \o Cut(t) \in Seq(Seq(S)) /\ Len(Cut(s) \o Cut(t)) = n + m
      /\ \A k \in 1..(n + m) :
           (Cut(s) \o Cut(t))[k] = IF k <= n THEN Cut(s)[k] ELSE Cut(t)[k - n]
  <2> DEFINE a == Cut(s)
             b == Cut(t)
  <2>1. a \in Seq(Seq(S)) /\ Len(a) = n /\ b \in Seq(Seq(S)) /\ Len(b) = m
    BY <1>2, <1>5
  <2> HIDE DEF a, b
  <2>2. /\ a \o b \in Seq(Seq(S)) /\ Len(a \o b) = Len(a) + Len(b)
        /\ \A k \in 1..(Len(a) + Len(b)) :
             (a \o b)[k] = IF k <= Len(a) THEN a[k] ELSE b[k - Len(a)]
    BY <2>1, ConcatProperties
  <2>3. QED
    BY <2>1, <2>2 DEF a, b
<1>9. ASSUME NEW k \in 1..(n + m) PROVE Cut(s \o t)[k] = (Cut(s) \o Cut(t))[k]
  <2>1. CASE k <= n
    <3>1. k \in 1..(Len(s) \div B)
      BY <1>1, <1>4, <2>1
    <3>2. (k - 1) * B \in Nat /\ (k - 1) * B + B <= Len(s)
      BY <1>0, <3>1, WithinCut
    <3>3. Piece(s \o t, (k - 1) * B) = Piece(s, (k - 1) * B)
      BY <3>2, PieceConcat
    <3>4. k \in 1..n
      BY <1>1, <2>1
    <3>5. QED
      BY <1>5, <1>7, <1>8, <2>1, <3>3, <3>4
  <2>2. CASE ~(k <= n)
    <3>1. k - n \in 1..m
      BY <1>1, <2>2
    <3> DEFINE j == ((k - n) - 1) * B
    <3>2. j \in Nat /\ j + B <= Len(t)
      BY <1>2a, <3>1
    <3>3. (k - 1) * B = Len(s) + j
      <4>1. (k - 1) * B = n * B + ((k - n) - 1) * B
        BY <1>0, <1>1
      <4>2. QED
        BY <4>1
    <3>4. Cut(t)[k - n] = Piece(t, j)
      BY <1>2, <3>1
    <3> HIDE DEF j
    <3>5. Piece(s \o t, Len(s) + j) = Piece(t, j)
      BY <3>2, PieceConcat
    <3>6. QED
      BY <1>7, <1>8, <2>2, <3>3, <3>4, <3>5
  <2>3. QED
    BY <2>1, <2>2
<1>10. Cut(s \o t) = Cut(s) \o Cut(t)
  BY <1>1, <1>7, <1>8, <1>9, SeqEqual
<1>11. QED
  BY <1>5, <1>10

LEMMA CutShort == ASSUME NEW S, NEW s \in Seq(S), Len(s) < B PROVE Cut(s) = <<>>
<1>0. Len(s) \in Nat /\ B \in Nat \ {0}
  BY DigestAssumption, LenProperties
<1>1. (0 * B + Len(s)) \div B = 0
  <2>1. Len(s) \in 0..(B - 1)
    BY <1>0
  <2>2. QED
    BY <1>0, <2>1, DivMod
<1>2. 0 * B + Len(s) = Len(s)
  BY <1>0
<1>3. Cut(s) \in Seq(Seq(S)) /\ Len(Cut(s)) = 0
  BY <1>1, <1>2, CutPieces
<1>4. QED
  BY <1>3, EmptySeq

LEMMA CutOne == ASSUME NEW S, NEW s \in Seq(S), Len(s) = B PROVE Cut(s) = <<s>>
<1>0. B \in Nat \ {0}
  BY DigestAssumption
<1>1. (1 * B + 0) \div B = 1
  BY <1>0, DivMod
<1>2. 1 * B + 0 = Len(s)
  BY <1>0
<1>3. /\ Cut(s) = [k \in 1..1 |-> Piece(s, (k - 1) * B)]
      /\ Cut(s) \in Seq(Seq(S)) /\ Len(Cut(s)) = 1
  BY <1>1, <1>2, CutPieces
<1>4. Cut(s)[1] = Piece(s, 0)
  <2>1. (1 - 1) * B = 0
    BY <1>0
  <2>2. QED
    BY <1>3, <2>1
<1>5. Piece(s, 0) = s
  <2>1. 0 + B <= Len(s)
    BY <1>0
  <2>2. Piece(s, 0) \in Seq(S) /\ Len(Piece(s, 0)) = B
    BY <2>1, PieceFacts
  <2>3. \A k \in 1..B : Piece(s, 0)[k] = s[k]
    BY <1>0 DEF Piece
  <2>4. QED
    BY <2>2, <2>3, SeqEqual
<1>6. <<s>> \in Seq(Seq(S)) /\ Len(<<s>>) = 1 /\ <<s>>[1] = s
  OBVIOUS
<1> HIDE DEF Cut
<1>7. QED
  BY <1>3, <1>4, <1>5, <1>6, SeqEqual

(* A sequence is a beginning and the rest. *)
LEMMA Split ==
  ASSUME NEW S, NEW s \in Seq(S), NEW n \in 0..Len(s)
  PROVE  /\ SubSeq(s, 1, n) \in Seq(S) /\ Len(SubSeq(s, 1, n)) = n
         /\ SubSeq(s, n + 1, Len(s)) \in Seq(S) /\ Len(SubSeq(s, n + 1, Len(s))) = Len(s) - n
         /\ s = SubSeq(s, 1, n) \o SubSeq(s, n + 1, Len(s))
<1>0. Len(s) \in Nat /\ \A k \in 1..Len(s) : s[k] \in S
  BY LenProperties, ElementOfSeq
<1>1. n \in Int /\ 1 \in Int /\ Len(s) \in Int /\ n + 1 \in Int
  BY <1>0
<1>2. \A k \in 1..n : s[k] \in S
  BY <1>0
<1>3. \A k \in (n + 1)..Len(s) : s[k] \in S
  BY <1>0
<1> DEFINE a == SubSeq(s, 1, n)
           b == SubSeq(s, n + 1, Len(s))
<1>4. a \in Seq(S) /\ Len(a) = IF 1 <= n THEN n - 1 + 1 ELSE 0
  BY <1>1, <1>2, SubSeqProperties
<1>5. b \in Seq(S) /\ Len(b) = IF n + 1 <= Len(s) THEN Len(s) - (n + 1) + 1 ELSE 0
  BY <1>1, <1>3, SubSeqProperties
<1>6. a \o b = SubSeq(s, 1, Len(s))
  <2>1. 1 \in 1..(Len(s) + 1) /\ n \in (1 - 1)..Len(s) /\ Len(s) \in n..Len(s)
    BY <1>0
  <2>2. QED
    BY <2>1, ConcatAdjacentSubSeq
<1>7. a \o b = s
  BY <1>6, SubSeqFull
<1> HIDE DEF a, b
<1>8. Len(a) = n
  BY <1>0, <1>4
<1>9. Len(b) = Len(s) - n
  BY <1>0, <1>5
<1>10. QED
  BY <1>4, <1>5, <1>7, <1>8, <1>9 DEF a, b

----------------------------------------------------------------------------
(* The contexts. *)
Cell == Nat \cup {"0", "1", "?"}

Contexts == [blocks : Seq(Seq(Cell)), block : [1..B -> Cell], num : Nat, nblocks : Nat,
             nl : Nat, nh : Nat]

(* The context c has compressed the blocks of s ... *)
Compressed(c, s) ==
  /\ c \in Contexts /\ s \in Seq(Cell)
  /\ c.blocks = Cut(s) /\ Len(s) = Len(c.blocks) * B

(* ... and holds r, less than a block. *)
Holds(c, s, r) ==
  /\ Compressed(c, s)
  /\ r \in Seq(Cell) /\ Len(r) < B /\ c.num = Len(r)
  /\ \A i \in 1..Len(r) : c.block[i] = r[i]

LEMMA CopyFacts ==
  ASSUME NEW b \in [1..B -> Cell], NEW off \in Nat, NEW d \in Seq(Cell)
  PROVE  /\ Copy(b, off, d) \in [1..B -> Cell]
         /\ \A i \in 1..B : Copy(b, off, d)[i] =
              IF i > off /\ i <= off + Len(d) THEN d[i - off] ELSE b[i]
<1>0. B \in Nat /\ Len(d) \in Nat
  BY DigestAssumption, LenProperties
<1>1. ASSUME NEW i \in 1..B, i > off, i <= off + Len(d) PROVE d[i - off] \in Cell
  <2>1. i - off \in 1..Len(d)
    BY <1>0, <1>1
  <2>2. QED
    BY <2>1, ElementOfSeq
<1>2. QED
  BY <1>0, <1>1 DEF Copy

(* Whole takes the blocks of the data and holds what remains. *)
LEMMA WholeKeeps ==
  ASSUME NEW c, NEW s, Compressed(c, s), NEW data \in Seq(Cell)
  PROVE  LET y == Whole(c, data)
         IN  /\ \E t, r \in Seq(Cell) : data = t \o r /\ Holds(y, s \o t, r)
             /\ y.nl = c.nl /\ y.nh = c.nh
             /\ y.nblocks + Len(c.blocks) = c.nblocks + Len(y.blocks)
<1>0. /\ Len(data) \in Nat /\ B \in Nat \ {0} /\ c \in Contexts /\ s \in Seq(Cell)
      /\ c.blocks = Cut(s) /\ Len(s) = Len(c.blocks) * B
      /\ c.blocks \in Seq(Seq(Cell)) /\ Len(c.blocks) \in Nat
  BY DigestAssumption, LenProperties DEF Compressed, Contexts
<1> DEFINE n == Len(data) \div B
           t == SubSeq(data, 1, n * B)
           r == SubSeq(data, n * B + 1, Len(data))
           d == [c EXCEPT !.blocks = @ \o Cut(data), !.nblocks = @ + n]
           y == [d EXCEPT !.num = Len(r), !.block = Copy(@, 0, r)]
<1>1. Whole(c, data) = y
  BY DEF Whole, Cut
<1>2. n \in Nat /\ Len(data) % B \in 0..(B - 1) /\ Len(data) = (n * B) + (Len(data) % B)
  BY <1>0, QuotientFacts
<1>2a. Cut(data) \in Seq(Seq(Cell)) /\ Len(Cut(data)) = n
  BY CutPieces
<1> HIDE DEF n
<1>3. n * B \in 0..Len(data) /\ Len(data) - n * B = Len(data) % B
  BY <1>0, <1>2
<1>4. /\ t \in Seq(Cell) /\ Len(t) = n * B
      /\ r \in Seq(Cell) /\ Len(r) = Len(data) % B
      /\ data = t \o r
  BY <1>3, Split
<1> HIDE DEF t, r, Cut
<1>5. Len(r) \in Nat /\ Len(r) < B
  BY <1>0, <1>2, <1>4
<1>6. Cut(t) = Cut(data)
  <2>1. Cut(data) = Cut(t) \o Cut(r) /\ Cut(r) = <<>> /\ Cut(t) \in Seq(Seq(Cell))
    BY <1>2, <1>4, <1>5, CutConcat, CutShort, CutPieces
  <2>2. QED
    BY <2>1, ConcatEmptySeq
<1>7. Cut(s \o t) = c.blocks \o Cut(data)
  BY <1>0, <1>4, <1>6, CutConcat
<1>8. s \o t \in Seq(Cell) /\ Len(s \o t) = (Len(c.blocks) + n) * B
  <2>1. s \o t \in Seq(Cell) /\ Len(s \o t) = Len(s) + Len(t)
    BY <1>0, <1>4, ConcatProperties
  <2>2. (Len(c.blocks) + n) * B = Len(c.blocks) * B + n * B
    BY <1>0, <1>2
  <2>3. QED
    BY <1>0, <1>4, <2>1, <2>2
<1>9. c.blocks \o Cut(data) \in Seq(Seq(Cell)) /\ Len(c.blocks \o Cut(data)) = Len(c.blocks) + n
  BY <1>0, <1>2a, ConcatProperties
<1>10. /\ c.block \in [1..B -> Cell] /\ Copy(c.block, 0, r) \in [1..B -> Cell]
       /\ \A i \in 1..Len(r) : Copy(c.block, 0, r)[i] = r[i]
  <2>1. c.block \in [1..B -> Cell]
    BY <1>0 DEF Contexts
  <2>2. /\ Copy(c.block, 0, r) \in [1..B -> Cell]
        /\ \A i \in 1..B : Copy(c.block, 0, r)[i] =
              IF i > 0 /\ i <= 0 + Len(r) THEN r[i - 0] ELSE c.block[i]
    BY <1>4, <2>1, CopyFacts
  <2>3. \A i \in 1..Len(r) : i \in 1..B /\ i > 0 /\ i <= 0 + Len(r) /\ i - 0 = i
    BY <1>0, <1>5
  <2>4. QED
    BY <2>1, <2>2, <2>3
<1>11. /\ y \in Contexts /\ y.blocks = c.blocks \o Cut(data) /\ y.num = Len(r)
       /\ y.block = Copy(c.block, 0, r) /\ y.nl = c.nl /\ y.nh = c.nh
       /\ y.nblocks = c.nblocks + n /\ c.nblocks \in Nat
  <2> DEFINE bs == c.blocks \o Cut(data)
             nb == c.nblocks + n
             b  == Copy(c.block, 0, r)
             l  == Len(r)
  <2>1. /\ c.nblocks \in Nat /\ nb \in Nat /\ bs \in Seq(Seq(Cell))
        /\ b \in [1..B -> Cell] /\ l \in Nat
    <3>1. c.nblocks \in Nat
      BY <1>0 DEF Contexts
    <3>2. nb \in Nat
      BY <1>2, <3>1
    <3>3. QED
      BY <1>5, <1>9, <1>10, <3>1, <3>2
  <2>2. d = [c EXCEPT !.blocks = bs, !.nblocks = nb] /\ d.block = c.block
    BY <1>0 DEF Contexts
  <2>3. y = [c EXCEPT !.blocks = bs, !.nblocks = nb, !.num = l, !.block = b]
    BY <2>2
  <2> HIDE DEF bs, nb, b, l, d, y
  <2>4. /\ y \in Contexts /\ y.blocks = bs /\ y.num = l
        /\ y.block = b /\ y.nl = c.nl /\ y.nh = c.nh /\ y.nblocks = nb
    BY <1>0, <2>1, <2>3 DEF Contexts
  <2>5. QED
    BY <2>1, <2>4 DEF bs, nb, b, l
<1> HIDE DEF y
<1>12. Holds(y, s \o t, r)
  BY <1>4, <1>5, <1>7, <1>8, <1>9, <1>10, <1>11 DEF Holds, Compressed
<1>13. y.nblocks + Len(c.blocks) = c.nblocks + Len(y.blocks)
  BY <1>0, <1>2, <1>9, <1>11
<1>14. QED
  BY <1>1, <1>4, <1>11, <1>12, <1>13

LEMMA CellAssoc ==
  \A a, b, d \in Seq(Cell) : (a \o b) \o d = a \o (b \o d) /\ a \o b \in Seq(Cell)
<1> TAKE a, b, d \in Seq(Cell)
<1>1. (a \o b) \o d = a \o (b \o d)
  BY ConcatAssociative
<1>2. a \o b \in Seq(Cell)
  BY ConcatProperties
<1>3. QED
  BY <1>1, <1>2

(* The context c has been given msg. *)
Given(c, msg) == \E s, r \in Seq(Cell) : msg = s \o r /\ Holds(c, s, r)

(* From c to y the count of blocks goes with the blocks, and the length stays. *)
Counts(c, y) ==
  /\ y.nblocks + Len(c.blocks) = c.nblocks + Len(y.blocks)
  /\ y.nl = c.nl /\ y.nh = c.nh

LEMMA WholeGiven ==
  ASSUME NEW c, NEW s, Compressed(c, s), NEW data \in Seq(Cell)
  PROVE  Given(Whole(c, data), s \o data) /\ Counts(c, Whole(c, data))
<1> DEFINE y == Whole(c, data)
<1>1. /\ \E t, r \in Seq(Cell) : data = t \o r /\ Holds(y, s \o t, r)
      /\ y.nl = c.nl /\ y.nh = c.nh
      /\ y.nblocks + Len(c.blocks) = c.nblocks + Len(y.blocks)
  BY WholeKeeps
<1> HIDE DEF y
<1>2. PICK t \in Seq(Cell), r \in Seq(Cell) : data = t \o r /\ Holds(y, s \o t, r)
  BY <1>1
<1>3. s \in Seq(Cell) /\ s \o t \in Seq(Cell)
  BY ConcatProperties DEF Compressed
<1>4. (s \o t) \o r = s \o data
  BY <1>2, <1>3, CellAssoc
<1>5. QED
  BY <1>1, <1>2, <1>3, <1>4 DEF Given, Counts, y

(* What is short of filling the block is put behind what is there. *)
LEMMA KeptGiven ==
  ASSUME NEW c, NEW s, NEW r, Holds(c, s, r), NEW data \in Seq(Cell), c.num + Len(data) < B
  PROVE  LET y == [c EXCEPT !.block = Copy(@, c.num, data), !.num = @ + Len(data)]
         IN  Given(y, (s \o r) \o data) /\ Counts(c, y)
<1>0. /\ Len(data) \in Nat /\ B \in Nat \ {0} /\ c \in Contexts /\ s \in Seq(Cell)
      /\ r \in Seq(Cell) /\ Len(r) \in Nat /\ c.num = Len(r) /\ c.block \in [1..B -> Cell]
  BY DigestAssumption, LenProperties DEF Holds, Compressed, Contexts
<1> DEFINE b == Copy(c.block, c.num, data)
           n == c.num + Len(data)
           y == [c EXCEPT !.block = b, !.num = n]
<1>1. /\ b \in [1..B -> Cell]
      /\ \A i \in 1..B :
           b[i] = IF i > c.num /\ i <= c.num + Len(data) THEN data[i - c.num] ELSE c.block[i]
  <2>1. c.block \in [1..B -> Cell] /\ c.num \in Nat
    BY <1>0
  <2>2. QED
    BY <2>1, CopyFacts
<1>2. /\ r \o data \in Seq(Cell) /\ Len(r \o data) = n /\ n \in Nat
      /\ \A i \in 1..n : (r \o data)[i] = IF i <= Len(r) THEN r[i] ELSE data[i - Len(r)]
  BY <1>0, ConcatProperties
<1> HIDE DEF b
<1>3. \A i \in 1..n : b[i] = (r \o data)[i]
  <2> TAKE i \in 1..n
  <2>1. i \in 1..B
    BY <1>0
  <2>2. CASE i <= Len(r)
    <3>1. c.block[i] = r[i]
      BY <1>0, <2>2 DEF Holds
    <3>2. QED
      BY <1>0, <1>1, <1>2, <2>1, <2>2, <3>1
  <2>3. CASE ~(i <= Len(r))
    BY <1>0, <1>1, <1>2, <2>1, <2>3
  <2>4. QED
    BY <2>2, <2>3
<1>4. n < B /\ n \in Nat
  BY <1>0
<1> HIDE DEF n
<1>5. /\ y \in Contexts /\ y.blocks = c.blocks /\ y.block = b /\ y.num = n
      /\ y.nblocks = c.nblocks /\ y.nl = c.nl /\ y.nh = c.nh
  BY <1>0, <1>1, <1>4 DEF Contexts
<1> HIDE DEF y
<1>6. Holds(y, s, r \o data)
  BY <1>2, <1>3, <1>4, <1>5 DEF Holds, Compressed
<1>7. (s \o r) \o data = s \o (r \o data)
  BY <1>0, CellAssoc
<1>8. c.nblocks \in Nat /\ Len(c.blocks) \in Nat
  BY <1>0, LenProperties DEF Contexts
<1>9. Given(y, (s \o r) \o data) /\ Counts(c, y)
  BY <1>0, <1>2, <1>5, <1>6, <1>7, <1>8 DEF Given, Counts
<1>10. QED
  BY <1>9 DEF y, b, n

(* What fills the block: it is compressed, and the rest is taken as a whole. *)
Filling(c, data, left, z) ==
  /\ left = B - c.num /\ left <= Len(data) /\ z \in Contexts
  /\ z.blocks = Append(c.blocks, Copy(c.block, c.num, SubSeq(data, 1, left)))

LEMMA FilledGiven ==
  ASSUME NEW c, NEW s, NEW r, Holds(c, s, r), NEW data \in Seq(Cell), NEW left, NEW z,
         Filling(c, data, left, z)
  PROVE  LET y == Whole(z, SubSeq(data, left + 1, Len(data)))
         IN  Given(y, (s \o r) \o data) /\ Counts(z, y) /\ Len(z.blocks) = Len(c.blocks) + 1
<1>0. /\ Len(data) \in Nat /\ B \in Nat \ {0} /\ c \in Contexts /\ s \in Seq(Cell)
      /\ r \in Seq(Cell) /\ Len(r) \in Nat /\ c.num = Len(r) /\ c.block \in [1..B -> Cell]
      /\ c.blocks = Cut(s) /\ Len(s) = Len(c.blocks) * B
      /\ c.blocks \in Seq(Seq(Cell)) /\ Len(c.blocks) \in Nat /\ Len(r) < B
  BY DigestAssumption, LenProperties DEF Holds, Compressed, Contexts
<1> DEFINE a == SubSeq(data, 1, left)
           e == SubSeq(data, left + 1, Len(data))
           b == Copy(c.block, c.num, a)
<1>0a. s \in Seq(Cell) /\ r \in Seq(Cell) /\ Len(r) \in Nat /\ B \in Nat \ {0}
  BY <1>0
<1>0b. c.blocks \in Seq(Seq(Cell)) /\ Len(c.blocks) \in Nat
  BY <1>0
<1>0c. c.block \in [1..B -> Cell] /\ c.num \in Nat
  BY <1>0
<1>1. left \in 0..Len(data) /\ left + Len(r) = B
  <2>1. left = B - c.num /\ left <= Len(data)
    BY DEF Filling
  <2>2. QED
    BY <1>0, <2>1
<1>2. a \in Seq(Cell) /\ Len(a) = left /\ e \in Seq(Cell) /\ data = a \o e
  <2>1. left \in 0..Len(data)
    BY <1>1
  <2>2. QED
    BY <2>1, Split
<1>2a. a \in Seq(Cell) /\ e \in Seq(Cell)
  BY <1>2
<1> HIDE DEF a, e
<1>3. /\ b \in [1..B -> Cell]
      /\ \A i \in 1..B :
           b[i] = IF i > c.num /\ i <= c.num + Len(a) THEN a[i - c.num] ELSE c.block[i]
  BY <1>0c, <1>2a, CopyFacts
<1> HIDE DEF b
<1>4. b \in Seq(Cell) /\ Len(b) = B
  BY <1>0, <1>3, FunctionIsSeq
<1>5. /\ r \o a \in Seq(Cell) /\ Len(r \o a) = B
      /\ \A i \in 1..B : (r \o a)[i] = IF i <= Len(r) THEN r[i] ELSE a[i - Len(r)]
  <2>1. /\ r \o a \in Seq(Cell) /\ Len(r \o a) = Len(r) + Len(a)
        /\ \A i \in 1..(Len(r) + Len(a)) : (r \o a)[i] = IF i <= Len(r) THEN r[i] ELSE a[i - Len(r)]
    BY <1>0, <1>2, ConcatProperties
  <2>2. Len(r) + Len(a) = B
    BY <1>0, <1>1, <1>2
  <2>3. QED
    BY <2>1, <2>2
<1>6. \A i \in 1..B : b[i] = (r \o a)[i]
  <2> TAKE i \in 1..B
  <2>2. CASE i <= Len(r)
    <3>1. c.block[i] = r[i]
      BY <1>0, <2>2 DEF Holds
    <3>2. QED
      BY <1>0, <1>3, <1>5, <2>2, <3>1
  <2>3. CASE ~(i <= Len(r))
    <3>1. i > c.num /\ i <= c.num + Len(a) /\ i - c.num = i - Len(r)
      BY <1>0, <1>1, <1>2, <2>3
    <3>2. b[i] = a[i - c.num]
      BY <1>3, <3>1
    <3>3. (r \o a)[i] = a[i - Len(r)]
      BY <1>5, <2>3
    <3>4. QED
      BY <3>1, <3>2, <3>3
  <2>4. QED
    BY <2>2, <2>3
<1>7. b = r \o a
  BY <1>4, <1>5, <1>6, SeqEqual
<1>8. Cut(s \o b) = Append(c.blocks, b)
  <2>1. Cut(s \o b) = Cut(s) \o Cut(b)
    <3>1. Len(s) = Len(c.blocks) * B /\ b \in Seq(Cell)
      BY <1>0, <1>4
    <3>2. QED
      BY <1>0a, <1>0b, <3>1, CutConcat
  <2>2. Cut(b) = <<b>>
    BY <1>4, CutOne
  <2>3. Append(c.blocks, b) = c.blocks \o <<b>>
    BY <1>0b, <1>4, AppendIsConcat
  <2>4. QED
    BY <1>0, <2>1, <2>2, <2>3
<1>9. /\ s \o b \in Seq(Cell) /\ Len(s \o b) = Len(s) + B
      /\ Len(Append(c.blocks, b)) = Len(c.blocks) + 1
  <2>1. s \o b \in Seq(Cell) /\ Len(s \o b) = Len(s) + B
    BY <1>0a, <1>4, ConcatProperties
  <2>2. Len(Append(c.blocks, b)) = Len(c.blocks) + 1
    BY <1>0b, <1>4, AppendProperties
  <2>3. QED
    BY <2>1, <2>2
<1>10. Len(s) + B = (Len(c.blocks) + 1) * B
  BY <1>0
<1>11. z.blocks = Append(c.blocks, b) /\ z \in Contexts
  BY DEF Filling, a, b
<1>12. Compressed(z, s \o b)
  BY <1>8, <1>9, <1>10, <1>11 DEF Compressed
<1>13. Given(Whole(z, e), (s \o b) \o e) /\ Counts(z, Whole(z, e))
  BY <1>2, <1>12, WholeGiven
<1>14. (s \o b) \o e = (s \o r) \o data
  <2>a. s \in Seq(Cell)
    BY <1>0a
  <2>b. r \in Seq(Cell)
    BY <1>0a
  <2>c. a \in Seq(Cell)
    BY <1>2a
  <2>d. b \in Seq(Cell)
    BY <1>4
  <2>e. e \in Seq(Cell)
    BY <1>2a
  <2>1. (s \o b) \o e = s \o (b \o e)
    <3>1. \A u, v \in Seq(Cell) : (s \o u) \o v = s \o (u \o v)
      BY <2>a, CellAssoc, Zenon
    <3>2. \A v \in Seq(Cell) : (s \o b) \o v = s \o (b \o v)
      BY <2>d, <3>1, Zenon
    <3>3. QED
      BY <2>e, <3>2, Zenon
  <2>2. b \o e = r \o data
    <3>0. \A u, v \in Seq(Cell) : (r \o u) \o v = r \o (u \o v)
      BY <2>b, CellAssoc, Zenon
    <3>a. \A v \in Seq(Cell) : (r \o a) \o v = r \o (a \o v)
      BY <2>c, <3>0, Zenon
    <3>1. (r \o a) \o e = r \o (a \o e)
      BY <2>e, <3>a, Zenon
    <3>2. data = a \o e
      BY <1>2
    <3>3. QED
      BY <1>7, <3>1, <3>2, Zenon
  <2>3. (s \o r) \o data = s \o (r \o data)
    BY <1>0a, CellAssoc
  <2>4. QED
    BY <2>1, <2>2, <2>3
<1>15. QED
  BY <1>9, <1>11, <1>13, <1>14 DEF e

(* What is behind the blocks of a message that ends with one is nothing. *)
LEMMA EmptyRest ==
  ASSUME NEW c, NEW s, NEW r, Holds(c, s, r), c.num = 0
  PROVE  s \o r = s /\ Compressed(c, s)
<1>1. s \in Seq(Cell) /\ r \in Seq(Cell) /\ Len(r) = 0 /\ Compressed(c, s)
  BY DEF Holds, Compressed
<1>2. r = <<>>
  BY <1>1, EmptySeq
<1>3. QED
  BY <1>1, <1>2, ConcatEmptySeq

(* What is true of a YS_Sm3 that has been given msg. *)
Sm3OK(c, msg) == Given(c, msg) /\ c.nblocks = Len(c.blocks)

LEMMA ContextFacts ==
  ASSUME NEW c \in Contexts
  PROVE  /\ c.blocks \in Seq(Seq(Cell)) /\ Len(c.blocks) \in Nat /\ c.block \in [1..B -> Cell]
         /\ c.num \in Nat /\ c.nblocks \in Nat /\ c.nl \in Nat /\ c.nh \in Nat
<1>1. /\ c.blocks \in Seq(Seq(Cell)) /\ c.block \in [1..B -> Cell]
      /\ c.num \in Nat /\ c.nblocks \in Nat /\ c.nl \in Nat /\ c.nh \in Nat
  BY DEF Contexts
<1>2. QED
  BY <1>1, LenProperties

LEMMA Counted ==
  ASSUME NEW c \in Contexts, NEW y \in Contexts, Counts(c, y), c.nblocks = Len(c.blocks)
  PROVE  y.nblocks = Len(y.blocks)
<1>1. Len(c.blocks) \in Nat /\ y.nblocks \in Nat /\ Len(y.blocks) \in Nat
  BY ContextFacts
<1>2. y.nblocks + Len(c.blocks) = Len(c.blocks) + Len(y.blocks)
  BY DEF Counts
<1>3. \A k, m, n \in Nat : m + k = k + n => m = n
  OBVIOUS
<1>4. QED
  BY <1>1, <1>2, <1>3, Zenon

LEMMA Sm3Update ==
  ASSUME NEW c, NEW msg, Sm3OK(c, msg), NEW data \in Seq(Cell)
  PROVE  Sm3OK(sm3_update(c, data), msg \o data)
<1>1. PICK s \in Seq(Cell), r \in Seq(Cell) : msg = s \o r /\ Holds(c, s, r)
  BY DEF Sm3OK, Given
<1>2. c \in Contexts /\ c.num < B /\ c.nblocks = Len(c.blocks)
  BY <1>1 DEF Sm3OK, Holds, Compressed
<1>3. /\ Len(c.blocks) \in Nat /\ c.num \in Nat /\ B \in Nat /\ Len(data) \in Nat
      /\ c.blocks \in Seq(Seq(Cell)) /\ c.block \in [1..B -> Cell]
  BY <1>2, ContextFacts, DigestAssumption, LenProperties
<1> DEFINE left == B - c.num
           a == Copy(c.block, c.num, SubSeq(data, 1, left))
           k == [c EXCEPT !.block = Copy(@, c.num, data), !.num = @ + Len(data)]
           z == [Compress(c, a) EXCEPT !.nblocks = @ + 1]
           e == SubSeq(data, left + 1, Len(data))
<1>4. sm3_update(c, data) = IF c.num = 0 THEN Whole(c, data)
                            ELSE IF Len(data) < left THEN k ELSE Whole(z, e)
  BY DEF sm3_update
<1>5. CASE c.num = 0
  <2>1. msg = s /\ Compressed(c, s)
    BY <1>1, <1>5, EmptyRest
  <2> DEFINE y == Whole(c, data)
  <2>2. Given(y, msg \o data) /\ Counts(c, y)
    BY <2>1, WholeGiven
  <2>3. sm3_update(c, data) = y
    BY <1>4, <1>5
  <2> HIDE DEF y, k, z
  <2>4. y \in Contexts
    BY <2>2 DEF Given, Holds, Compressed
  <2>5. y.nblocks = Len(y.blocks)
    BY <1>2, <2>2, <2>4, Counted
  <2>6. QED
    BY <2>2, <2>3, <2>5 DEF Sm3OK
<1>6. CASE c.num # 0 /\ Len(data) < left
  <2>1. c.num + Len(data) < B
    BY <1>3, <1>6
  <2>2. Given(k, msg \o data) /\ Counts(c, k)
    BY <1>1, <2>1, KeptGiven
  <2>3. sm3_update(c, data) = k
    BY <1>4, <1>6
  <2> HIDE DEF k, z
  <2>4. k \in Contexts
    BY <2>2 DEF Given, Holds, Compressed
  <2>5. k.nblocks = Len(k.blocks)
    BY <1>2, <2>2, <2>4, Counted
  <2>6. QED
    BY <2>2, <2>3, <2>5 DEF Sm3OK
<1>7. CASE c.num # 0 /\ ~(Len(data) < left)
  <2>1. left \in 0..Len(data) /\ left <= Len(data) /\ left = B - c.num
    BY <1>2, <1>3, <1>7
  <2>2. a \in Seq(Cell)
    <3>1. SubSeq(data, 1, left) \in Seq(Cell)
      BY <2>1, Split
    <3>2. a \in [1..B -> Cell]
      BY <1>3, <3>1, CopyFacts
    <3>3. QED
      BY <1>3, <3>2, FunctionIsSeq
  <2>3. sm3_update(c, data) = Whole(z, e)
    BY <1>4, <1>7
  <2>4. /\ z \in Contexts /\ z.blocks = Append(c.blocks, a) /\ z.nblocks = c.nblocks + 1
    <3>1. Append(c.blocks, a) \in Seq(Seq(Cell)) /\ c.nblocks + 1 \in Nat
      BY <1>2, <1>3, <2>2, AppendProperties
    <3> HIDE DEF a
    <3>2. QED
      BY <1>2, <3>1 DEF Compress, Contexts
  <2>5. Filling(c, data, left, z)
    BY <2>1, <2>4 DEF Filling
  <2> DEFINE y == Whole(z, e)
  <2>6. Given(y, msg \o data) /\ Counts(z, y) /\ Len(z.blocks) = Len(c.blocks) + 1
    BY <1>1, <2>5, FilledGiven
  <2> HIDE DEF y, z, k
  <2>7. y \in Contexts
    BY <2>6 DEF Given, Holds, Compressed
  <2>8. y.nblocks = Len(y.blocks)
    BY <1>2, <2>4, <2>6, <2>7, Counted
  <2>9. QED
    BY <2>3, <2>6, <2>8 DEF Sm3OK, y
<1>8. QED
  BY <1>5, <1>6, <1>7

----------------------------------------------------------------------------
(* The length in bits.  A word has room for whole numbers of blocks. *)
LEMMA WordsFacts ==
  /\ Words \in Nat \ {0} /\ Words \div (8 * B) \in Nat \ {0}
  /\ Words = (Words \div (8 * B)) * (8 * B)
<1> DEFINE d == 8 * B
           k == Words \div d
<1>1. d \in Nat \ {0} /\ Words \in Nat \ {0} /\ Words % d = 0
  BY DigestAssumption
<1> HIDE DEF d
<1>2. k \in Nat /\ Words = (k * d) + (Words % d)
  BY <1>1, QuotientFacts
<1> HIDE DEF k
<1>3. Words = k * d
  BY <1>1, <1>2
<1>4. k # 0
  BY <1>1, <1>3
<1>5. QED
  BY <1>1, <1>2, <1>3, <1>4 DEF d, k

LEMMA EighthFacts ==
  LET h == Words \div 8 IN h \in Nat \ {0} /\ Words = 8 * h
<1> DEFINE k == Words \div (8 * B)
<1>1. k \in Nat \ {0} /\ Words = k * (8 * B) /\ B \in Nat /\ B > 3
  BY WordsFacts, DigestAssumption
<1> HIDE DEF k
<1>2. Words = (k * B) * 8 + 0 /\ k * B \in Nat
  BY <1>1
<1>3. ((k * B) * 8 + 0) \div 8 = k * B
  BY <1>2, DivMod
<1>4. Words \div 8 = k * B
  BY <1>2, <1>3
<1>5. Words = 8 * (k * B)
  BY <1>2
<1>6. k * B # 0
  BY <1>5, WordsFacts
<1>7. QED
  BY <1>2, <1>4, <1>5, <1>6

(* Wrapping a summand first makes no difference. *)
LEMMA WordSum ==
  ASSUME NEW m \in Nat, NEW n \in Nat
  PROVE  Word(Word(m) + n) = Word(m + n)
<1>0. Words \in Nat \ {0}
  BY WordsFacts
<1> DEFINE p == m \div Words
           w == m % Words
           q == (w + n) \div Words
           v == (w + n) % Words
<1>1. p \in Nat /\ w \in 0..(Words - 1) /\ m = (p * Words) + w
  BY <1>0, QuotientFacts
<1> HIDE DEF p
<1>2. w + n \in Nat
  BY <1>1
<1>3. q \in Nat /\ v \in 0..(Words - 1) /\ w + n = (q * Words) + v
  BY <1>0, <1>2, QuotientFacts
<1> HIDE DEF q
<1>4. Word(Word(m) + n) = v
  BY DEF Word
<1> HIDE DEF v, w
<1>5. p + q \in Nat /\ m + n = (p + q) * Words + v
  BY <1>0, <1>1, <1>3
<1>6. ((p + q) * Words + v) % Words = v
  BY <1>0, <1>3, <1>5, DivMod
<1>7. QED
  BY <1>4, <1>5, <1>6 DEF Word

(* The two words of the length, after m bytes and n more: the carry by hand. *)
LEMMA Carry ==
  ASSUME NEW m \in Nat, NEW n \in Nat
  PROVE  LET x == Word(m * 8)
             h == Word((m * 8) \div Words)
             l == Word(x + Word(n * 8))
         IN  /\ l = Word((m + n) * 8) /\ l \in Nat /\ x \in Nat
             /\ Word(h + (IF l < x THEN 1 ELSE 0) + (n \div (Words \div 8)))
                  = Word(((m + n) * 8) \div Words)
<1>0. Words \in Nat \ {0}
  BY WordsFacts
<1> DEFINE a == (m * 8) \div Words
           x == (m * 8) % Words
           b == (n * 8) \div Words
           y == (n * 8) % Words
           h == Words \div 8
           l == (x + y) % Words
           k == IF l < x THEN 1 ELSE 0
<1>1. a \in Nat /\ x \in 0..(Words - 1) /\ m * 8 = (a * Words) + x
  <2>1. m * 8 \in Nat
    OBVIOUS
  <2>2. QED
    BY <1>0, <2>1, QuotientFacts
<1>2. b \in Nat /\ y \in 0..(Words - 1) /\ n * 8 = (b * Words) + y
  <2>1. n * 8 \in Nat
    OBVIOUS
  <2>2. QED
    BY <1>0, <2>1, QuotientFacts
<1>3. n \div h = b
  <2> DEFINE p == n \div h
             z == n % h
  <2>1. h \in Nat \ {0} /\ Words = 8 * h
    BY EighthFacts
  <2> HIDE DEF h
  <2>2. p \in Nat /\ z \in 0..(h - 1) /\ n = (p * h) + z
    BY <2>1, QuotientFacts
  <2> HIDE DEF p, z, b
  <2>3. n * 8 = p * Words + 8 * z /\ 8 * z \in 0..(Words - 1)
    BY <2>1, <2>2
  <2>4. (p * Words + 8 * z) \div Words = p
    BY <1>0, <2>2, <2>3, DivMod
  <2>5. QED
    BY <2>3, <2>4 DEF b, p
<1> HIDE DEF a, b, h
<1>4. (m + n) * 8 = (a + b) * Words + (x + y)
  <2> HIDE DEF x, y
  <2>1. (m + n) * 8 = m * 8 + n * 8
    OBVIOUS
  <2>2. (a + b) * Words = a * Words + b * Words /\ a * Words \in Nat /\ b * Words \in Nat
    BY <1>0, <1>1, <1>2
  <2>3. QED
    BY <1>1, <1>2, <2>1, <2>2
<1>5. Word(Word(a) + (k + b)) = Word(a + (k + b))
  <2>1. k + b \in Nat
    BY <1>2
  <2>2. QED
    BY <1>1, <2>1, WordSum
<1>6. l = ((m + n) * 8) % Words /\ ((m + n) * 8) \div Words = a + (k + b)
  <2>1. CASE x + y < Words
    <3>1. x + y \in 0..(Words - 1) /\ x + y = 0 * Words + (x + y)
      BY <1>0, <1>1, <1>2, <2>1
    <3>2. l = x + y
      BY <1>0, <3>1, DivMod
    <3>3. k = 0
      BY <1>0, <1>1, <1>2, <3>2
    <3>4. a + b \in Nat /\ a + b = a + (0 + b)
      BY <1>1, <1>2
    <3> HIDE DEF x, y, l, k
    <3>5. /\ ((a + b) * Words + (x + y)) \div Words = a + b
          /\ ((a + b) * Words + (x + y)) % Words = x + y
      BY <1>0, <3>1, <3>4, DivMod
    <3>6. QED
      BY <1>4, <3>2, <3>3, <3>4, <3>5
  <2>2. CASE ~(x + y < Words)
    <3> DEFINE v == x + y - Words
    <3>1. v \in 0..(Words - 1) /\ v < x /\ x + y = 1 * Words + v
      BY <1>0, <1>1, <1>2, <2>2
    <3>2. (1 * Words + v) % Words = v
      BY <1>0, <3>1, DivMod
    <3>3. l = v
      BY <3>1, <3>2
    <3>4. k = 1
      BY <1>0, <1>1, <3>1, <3>3
    <3>5. a + b + 1 \in Nat /\ a + (1 + b) = a + b + 1
      BY <1>1, <1>2
    <3> HIDE DEF x, y, l, k, v
    <3>6. (a + b) * Words + (x + y) = (a + b + 1) * Words + v
      <4>1. (a + b + 1) * Words = (a + b) * Words + Words /\ (a + b) * Words \in Nat
        BY <1>0, <1>1, <1>2
      <4>2. QED
        BY <1>0, <1>1, <1>2, <3>1, <4>1
    <3>7. /\ ((a + b + 1) * Words + v) \div Words = a + b + 1
          /\ ((a + b + 1) * Words + v) % Words = v
      BY <1>0, <3>1, <3>5, DivMod
    <3>8. QED
      BY <1>4, <3>3, <3>4, <3>5, <3>6, <3>7
  <2>3. QED
    BY <2>1, <2>2
<1>7. l \in Nat
  <2>1. x + y \in Nat
    BY <1>0, <1>1, <1>2
  <2>2. QED
    BY <1>0, <2>1, QuotientFacts
<1>8. Word(a) + k + b = Word(a) + (k + b)
  <2>1. Word(a) \in Nat
    BY <1>0, <1>1, QuotientFacts DEF Word
  <2>2. k \in Nat
    OBVIOUS
  <2> HIDE DEF k
  <2>3. QED
    BY <1>2, <2>1, <2>2
<1>9. x \in Nat
  BY <1>0, <1>1
<1> HIDE DEF k
<1>10. /\ l = Word((m + n) * 8)
       /\ Word(Word(a) + k + b) = Word(((m + n) * 8) \div Words)
  BY <1>5, <1>6, <1>8 DEF Word
<1>11. QED
  BY <1>3, <1>7, <1>9, <1>10 DEF Word, a, k, h

LEMMA WordNat == ASSUME NEW n \in Nat PROVE Word(n) \in Nat
<1>1. n % Words \in 0..(Words - 1) /\ Words \in Nat
  BY WordsFacts, QuotientFacts
<1>2. QED
  BY <1>1 DEF Word

(* And of a YS_Md5: it counts bits instead of blocks. *)
Md5OK(c, msg) ==
  /\ Given(c, msg)
  /\ c.nl = Word(Len(msg) * 8) /\ c.nh = Word((Len(msg) * 8) \div Words)

LEMMA GivenSeq ==
  ASSUME NEW c, NEW msg, Given(c, msg) PROVE msg \in Seq(Cell) /\ Len(msg) \in Nat
<1>1. msg \in Seq(Cell)
  BY CellAssoc DEF Given
<1>2. QED
  BY <1>1, LenProperties

LEMMA CountKeeps ==
  ASSUME NEW c, NEW msg, Md5OK(c, msg), NEW data \in Seq(Cell),
         NEW s, NEW r, Holds(c, s, r)
  PROVE  LET d == md5_count(c, Len(data))
         IN  /\ Holds(d, s, r) /\ d.num = c.num
             /\ d.nl = Word(Len(msg \o data) * 8)
             /\ d.nh = Word((Len(msg \o data) * 8) \div Words)
<1>0. c \in Contexts /\ Len(data) \in Nat /\ msg \in Seq(Cell) /\ Len(msg) \in Nat
  BY GivenSeq, LenProperties DEF Md5OK, Holds, Compressed
<1> DEFINE n == Len(data)
           m == Len(msg)
           l == Word(c.nl + Word(n * 8))
           h == Word(c.nh + (IF l < c.nl THEN 1 ELSE 0) + n \div (Words \div 8))
           d == [c EXCEPT !.nl = l, !.nh = h]
<1>1. md5_count(c, Len(data)) = d
  BY DEF md5_count
<1>2. /\ l = Word((m + n) * 8) /\ l \in Nat
      /\ h = Word(((m + n) * 8) \div Words)
  BY <1>0, Carry DEF Md5OK
<1>3. h \in Nat
  <2> HIDE DEF m, n, h
  <2>1. (m + n) * 8 \in Nat
    BY <1>0 DEF m, n
  <2>2. ((m + n) * 8) \div Words \in Nat
    BY <2>1, WordsFacts, QuotientFacts
  <2>3. QED
    BY <1>2, <2>2, WordNat
<1>4. Len(msg \o data) = m + n
  BY <1>0, ConcatProperties
<1> HIDE DEF l, h
<1>5. /\ d \in Contexts /\ d.blocks = c.blocks /\ d.block = c.block /\ d.num = c.num
      /\ d.nl = l /\ d.nh = h
  BY <1>0, <1>2, <1>3 DEF Contexts
<1> HIDE DEF d, m, n
<1>6. Holds(d, s, r)
  BY <1>5 DEF Holds, Compressed
<1>7. QED
  BY <1>1, <1>2, <1>4, <1>5, <1>6

LEMMA Md5Update ==
  ASSUME NEW c0, NEW msg, Md5OK(c0, msg), NEW data \in Seq(Cell)
  PROVE  Md5OK(md5_update(c0, data), msg \o data)
<1>1. PICK s \in Seq(Cell), r \in Seq(Cell) : msg = s \o r /\ Holds(c0, s, r)
  BY DEF Md5OK, Given
<1>1a. msg \in Seq(Cell)
  BY GivenSeq DEF Md5OK
<1> DEFINE c == md5_count(c0, Len(data))
           left == B - c.num
           a == Copy(c.block, c.num, SubSeq(data, 1, left))
           k == [c EXCEPT !.block = Copy(@, c.num, data), !.num = @ + Len(data)]
           z == [Compress(c, a) EXCEPT !.num = 0, !.block = Zero(@, 0, B)]
           e == SubSeq(data, left + 1, Len(data))
<1>2. /\ Holds(c, s, r)
      /\ c.nl = Word(Len(msg \o data) * 8)
      /\ c.nh = Word((Len(msg \o data) * 8) \div Words)
  <2>1. Holds(c0, s, r)
    BY <1>1
  <2> QED
    BY <2>1, CountKeeps
<1>4. md5_update(c0, data) = IF data = <<>> THEN c0
                             ELSE IF c.num = 0 THEN Whole(c, data)
                             ELSE IF Len(data) >= B \/ Len(data) + c.num >= B THEN Whole(z, e)
                             ELSE k
  BY DEF md5_update
<1> HIDE DEF c
<1>2a. c \in Contexts /\ c.num < B
  BY <1>2 DEF Holds, Compressed
<1>3. /\ Len(c.blocks) \in Nat /\ c.num \in Nat /\ B \in Nat /\ Len(data) \in Nat
      /\ c.blocks \in Seq(Seq(Cell)) /\ c.block \in [1..B -> Cell]
  BY <1>2a, ContextFacts, DigestAssumption, LenProperties
<1>5. CASE data = <<>>
  <2>1. msg \o data = msg
    BY <1>1a, <1>5, ConcatEmptySeq
  <2>2. QED
    BY <1>4, <1>5, <2>1
<1>6. ASSUME NEW y, Given(y, msg \o data), Counts(c, y) PROVE Md5OK(y, msg \o data)
  BY <1>2, <1>6 DEF Md5OK, Counts
<1>7. CASE data # <<>> /\ c.num = 0
  <2>1. msg = s /\ Compressed(c, s)
    BY <1>1, <1>2, <1>7, EmptyRest
  <2>2. Given(Whole(c, data), msg \o data) /\ Counts(c, Whole(c, data))
    BY <2>1, WholeGiven
  <2>3. QED
    BY <1>4, <1>6, <1>7, <2>2
<1>8. CASE data # <<>> /\ c.num # 0 /\ ~(Len(data) >= B \/ Len(data) + c.num >= B)
  <2>1. c.num + Len(data) < B
    BY <1>3, <1>8
  <2>2. Given(k, msg \o data) /\ Counts(c, k)
    BY <1>1, <1>2, <2>1, KeptGiven
  <2>3. md5_update(c0, data) = k
    BY <1>4, <1>8
  <2> HIDE DEF k
  <2>4. QED
    BY <1>6, <2>2, <2>3
<1>9. CASE data # <<>> /\ c.num # 0 /\ (Len(data) >= B \/ Len(data) + c.num >= B)
  <2>1. left \in 0..Len(data) /\ left <= Len(data) /\ left = B - c.num
    BY <1>2a, <1>3, <1>9
  <2>2. a \in Seq(Cell)
    <3>1. SubSeq(data, 1, left) \in Seq(Cell)
      BY <2>1, Split
    <3>2. a \in [1..B -> Cell]
      BY <1>3, <3>1, CopyFacts
    <3>3. QED
      BY <1>3, <3>2, FunctionIsSeq
  <2>3. md5_update(c0, data) = Whole(z, e)
    BY <1>4, <1>9
  <2>4. /\ z \in Contexts /\ z.blocks = Append(c.blocks, a)
        /\ z.nl = c.nl /\ z.nh = c.nh
    <3>1. Append(c.blocks, a) \in Seq(Seq(Cell))
      BY <1>3, <2>2, AppendProperties
    <3>2. Compress(c, a).block = c.block
      BY <1>2a DEF Compress, Contexts
    <3>3. Zero(c.block, 0, B) \in [1..B -> Cell]
      BY <1>3 DEF Zero, Cell
    <3> HIDE DEF a
    <3>4. QED
      BY <1>2a, <3>1, <3>2, <3>3 DEF Compress, Contexts
  <2>5. Filling(c, data, left, z)
    BY <2>1, <2>4 DEF Filling
  <2> DEFINE y == Whole(z, e)
  <2>6. Given(y, msg \o data) /\ Counts(z, y)
    BY <1>1, <1>2, <2>5, FilledGiven
  <2> HIDE DEF y, z, k
  <2>7. Md5OK(y, msg \o data)
    BY <1>2, <2>4, <2>6 DEF Md5OK, Counts
  <2>8. QED
    BY <2>3, <2>7 DEF y
<1>10. QED
  BY <1>5, <1>7, <1>8, <1>9

----------------------------------------------------------------------------
(* The padding. *)
LEMMA CellFacts == "0" \in Cell /\ "1" \in Cell /\ \A n \in Nat : n \in Cell
BY DEF Cell

LEMMA ZeroFacts ==
  ASSUME NEW b \in [1..B -> Cell], NEW m \in Int, NEW n \in Int
  PROVE  /\ Zero(b, m, n) \in [1..B -> Cell]
         /\ \A i \in 1..B : Zero(b, m, n)[i] = IF i > m /\ i <= n THEN "0" ELSE b[i]
BY CellFacts DEF Zero

Zeros(n) == [i \in 1..n |-> "0"]

(* What is behind the blocks of the message: r, the one, zeros and the length. *)
Tailed(r, n, w) == ((r \o <<"1">>) \o Zeros(n)) \o w

LEMMA TailedFacts ==
  ASSUME NEW r \in Seq(Cell), NEW n \in Nat, NEW w \in Seq(Cell), Len(w) = 2
  PROVE  /\ Tailed(r, n, w) \in Seq(Cell) /\ Len(r) \in Nat
         /\ Len(Tailed(r, n, w)) = Len(r) + n + 3
         /\ \A i \in 1..(Len(r) + n + 3) : Tailed(r, n, w)[i] =
              IF i <= Len(r) THEN r[i] ELSE IF i = Len(r) + 1 THEN "1"
              ELSE IF i <= Len(r) + n + 1 THEN "0" ELSE w[i - (Len(r) + n + 1)]
         /\ \A s \in Seq(Cell) : (((s \o r) \o <<"1">>) \o Zeros(n)) \o w = s \o Tailed(r, n, w)
<1> DEFINE o == <<"1">>
           z == Zeros(n)
           a == r \o o
           b == a \o z
           t == b \o w
<1>1. o \in Seq(Cell) /\ Len(o) = 1 /\ o[1] = "1"
  BY CellFacts
<1>2. z \in Seq(Cell) /\ Len(z) = n /\ \A i \in 1..n : z[i] = "0"
  <2>1. z \in [1..n -> Cell]
    BY CellFacts DEF Zeros
  <2>2. QED
    BY <2>1, FunctionIsSeq DEF Zeros
<1> HIDE DEF o, z
<1>3. Len(r) \in Nat
  BY LenProperties
<1>4. /\ a \in Seq(Cell) /\ Len(a) = Len(r) + Len(o)
      /\ \A i \in 1..(Len(r) + Len(o)) : a[i] = IF i <= Len(r) THEN r[i] ELSE o[i - Len(r)]
  BY <1>1, ConcatProperties
<1> HIDE DEF a
<1>5. /\ b \in Seq(Cell) /\ Len(b) = Len(a) + Len(z)
      /\ \A i \in 1..(Len(a) + Len(z)) : b[i] = IF i <= Len(a) THEN a[i] ELSE z[i - Len(a)]
  <2>1. a \in Seq(Cell) /\ z \in Seq(Cell)
    BY <1>2, <1>4
  <2> QED
    BY <2>1, ConcatProperties
<1> HIDE DEF b
<1>6. /\ t \in Seq(Cell) /\ Len(t) = Len(b) + Len(w)
      /\ \A i \in 1..(Len(b) + Len(w)) : t[i] = IF i <= Len(b) THEN b[i] ELSE w[i - Len(b)]
  <2>1. b \in Seq(Cell)
    BY <1>5
  <2> QED
    BY <2>1, ConcatProperties
<1> HIDE DEF t
<1>7. Len(a) = Len(r) + 1 /\ Len(b) = Len(r) + n + 1 /\ Len(t) = Len(r) + n + 3
  BY <1>1, <1>2, <1>3, <1>4, <1>5, <1>6
<1>8. ASSUME NEW i \in 1..(Len(r) + n + 3)
      PROVE  t[i] = IF i <= Len(r) THEN r[i] ELSE IF i = Len(r) + 1 THEN "1"
                    ELSE IF i <= Len(r) + n + 1 THEN "0" ELSE w[i - (Len(r) + n + 1)]
  <2>0. i \in 1..(Len(b) + Len(w))
    BY <1>3, <1>7
  <2>1. CASE i <= Len(r)
    <3>1. i \in 1..(Len(r) + Len(o)) /\ i \in 1..(Len(a) + Len(z)) /\ i <= Len(a) /\ i <= Len(b)
      BY <1>1, <1>2, <1>3, <1>7, <2>1
    <3>2. t[i] = b[i] /\ b[i] = a[i] /\ a[i] = r[i]
      BY <1>4, <1>5, <1>6, <2>0, <2>1, <3>1
    <3>3. QED
      BY <2>1, <3>2
  <2>2. CASE i = Len(r) + 1
    <3>1. /\ i \in 1..(Len(r) + Len(o)) /\ i \in 1..(Len(a) + Len(z)) /\ i <= Len(a) /\ i <= Len(b)
          /\ ~(i <= Len(r)) /\ i - Len(r) = 1
      BY <1>1, <1>2, <1>3, <1>7, <2>2
    <3>2. t[i] = b[i] /\ b[i] = a[i] /\ a[i] = o[1]
      BY <1>4, <1>5, <1>6, <2>0, <3>1
    <3>3. QED
      BY <1>1, <2>2, <3>1, <3>2
  <2>3. CASE i > Len(r) + 1 /\ i <= Len(r) + n + 1
    <3>1. /\ i \in 1..(Len(a) + Len(z)) /\ ~(i <= Len(a)) /\ i <= Len(b) /\ i - Len(a) \in 1..n
          /\ ~(i <= Len(r)) /\ i # Len(r) + 1
      BY <1>2, <1>3, <1>7, <2>3
    <3>2. t[i] = b[i] /\ b[i] = z[i - Len(a)]
      BY <1>5, <1>6, <2>0, <3>1
    <3>3. t[i] = "0"
      BY <1>2, <3>1, <3>2
    <3>4. QED
      BY <2>3, <3>1, <3>3
  <2>4. CASE i > Len(r) + n + 1
    <3>1. ~(i <= Len(b)) /\ ~(i <= Len(r)) /\ i # Len(r) + 1 /\ ~(i <= Len(r) + n + 1)
      BY <1>3, <1>7, <2>4
    <3>2. t[i] = w[i - Len(b)]
      BY <1>6, <2>0, <3>1
    <3>3. QED
      BY <1>7, <3>1, <3>2
  <2>5. QED
    BY <1>3, <2>1, <2>2, <2>3, <2>4
<1>9. ASSUME NEW s \in Seq(Cell)
      PROVE  (((s \o r) \o o) \o z) \o w = s \o t
  <2>1. (s \o r) \o o = s \o a
    BY <1>1, CellAssoc DEF a
  <2>2. (s \o a) \o z = s \o b
    BY <1>2, <1>4, CellAssoc DEF b
  <2>3. (s \o b) \o w = s \o t
    BY <1>5, CellAssoc DEF t
  <2>4. QED
    BY <2>1, <2>2, <2>3
<1>10. Tailed(r, n, w) = t
  BY DEF Tailed, t, b, a, o, z
<1>11. QED
  BY <1>3, <1>6, <1>7, <1>8, <1>9, <1>10 DEF o, z

(* The number of zeros, from what is behind the last whole block. *)
LEMMA ZerosNeeded ==
  ASSUME NEW n \in Nat, NEW m \in 0..(B - 1)
  PROVE  (B - (((n * B + m) + 3) % B)) % B =
           IF m + 3 <= B THEN B - 3 - m ELSE 2 * B - 3 - m
<1>0. B \in Nat \ {0} /\ B > 3
  BY DigestAssumption
<1>1. CASE m + 3 < B
  <2>1. m + 3 \in 0..(B - 1) /\ (n * B + m) + 3 = n * B + (m + 3)
    BY <1>0, <1>1
  <2>2. (n * B + (m + 3)) % B = m + 3
    BY <1>0, <2>1, DivMod
  <2>3. B - (m + 3) \in 0..(B - 1) /\ B - (m + 3) = 0 * B + (B - (m + 3))
    BY <1>0, <1>1
  <2>4. (0 * B + (B - (m + 3))) % B = B - (m + 3)
    BY <1>0, <2>3, DivMod
  <2>5. m + 3 <= B /\ B - (m + 3) = B - 3 - m
    BY <1>0, <1>1
  <2>6. QED
    BY <2>1, <2>2, <2>3, <2>4, <2>5
<1>2. CASE m + 3 = B
  <2>1. n + 1 \in Nat /\ 0 \in 0..(B - 1) /\ (n * B + m) + 3 = (n + 1) * B + 0
    BY <1>0, <1>2
  <2>2. ((n + 1) * B + 0) % B = 0
    BY <1>0, <2>1, DivMod
  <2>3. B - 0 = 1 * B + 0 /\ (1 * B + 0) % B = 0
    BY <1>0, <2>1, DivMod
  <2>4. m + 3 <= B /\ B - 3 - m = 0
    BY <1>0, <1>2
  <2>5. QED
    BY <2>1, <2>2, <2>3, <2>4
<1>3. CASE m + 3 > B
  <2> DEFINE k == m + 3 - B
  <2>1. n + 1 \in Nat /\ k \in 0..(B - 1) /\ (n * B + m) + 3 = (n + 1) * B + k /\ k > 0
    BY <1>0, <1>3
  <2> HIDE DEF k
  <2>2. ((n + 1) * B + k) % B = k
    BY <1>0, <2>1, DivMod
  <2>3. B - k \in 0..(B - 1) /\ B - k = 0 * B + (B - k)
    BY <1>0, <2>1
  <2>4. (0 * B + (B - k)) % B = B - k
    BY <1>0, <2>3, DivMod
  <2>5. ~(m + 3 <= B) /\ B - k = 2 * B - 3 - m
    BY <1>0, <1>3 DEF k
  <2>6. QED
    BY <2>1, <2>2, <2>3, <2>4, <2>5
<1>4. QED
  BY <1>0, <1>1, <1>2, <1>3

(* Padded, of any message. *)
Pads(msg, w) == Cut(((msg \o <<"1">>) \o Zeros((B - ((Len(msg) + 3) % B)) % B)) \o w)

(* The blocks final makes of the context: one, or two. *)
One(c)      == Copy(c.block, c.num, <<"1">>)
Only(c, w)  == Copy(Zero(One(c), c.num + 1, B - 2), B - 2, w)
First(c)    == Zero(One(c), c.num + 1, B)
Second(c, w) == Copy(Zero(One(c), 0, B - 2), B - 2, w)

LEMMA OneFacts ==
  ASSUME NEW c, NEW s, NEW r, Holds(c, s, r)
  PROVE  /\ One(c) \in [1..B -> Cell]
         /\ \A i \in 1..Len(r) : One(c)[i] = r[i]
         /\ One(c)[Len(r) + 1] = "1"
<1>0. /\ c \in Contexts /\ r \in Seq(Cell) /\ Len(r) < B /\ c.num = Len(r)
      /\ \A i \in 1..Len(r) : c.block[i] = r[i]
  BY DEF Holds, Compressed
<1>1. c.block \in [1..B -> Cell] /\ c.num \in Nat /\ Len(r) \in Nat /\ B \in Nat
  BY <1>0, ContextFacts, DigestAssumption
<1> DEFINE o == <<"1">>
<1>2. o \in Seq(Cell) /\ Len(o) = 1 /\ o[1] = "1"
  BY CellFacts
<1> HIDE DEF o
<1>3. /\ Copy(c.block, c.num, o) \in [1..B -> Cell]
      /\ \A i \in 1..B : Copy(c.block, c.num, o)[i] =
            IF i > c.num /\ i <= c.num + Len(o) THEN o[i - c.num] ELSE c.block[i]
  BY <1>1, <1>2, CopyFacts
<1>4. One(c) = Copy(c.block, c.num, o)
  BY DEF One, o
<1>5. ASSUME NEW i \in 1..Len(r) PROVE One(c)[i] = r[i]
  <2>1. i \in 1..B /\ ~(i > c.num)
    BY <1>0, <1>1
  <2>2. QED
    BY <1>0, <1>3, <1>4, <2>1
<1>6. One(c)[Len(r) + 1] = "1"
  <2> DEFINE k == Len(r) + 1
  <2>1. k \in 1..B /\ k > c.num /\ k <= c.num + Len(o) /\ k - c.num = 1
    BY <1>0, <1>1, <1>2
  <2> HIDE DEF k
  <2>2. One(c)[k] = o[k - c.num]
    BY <1>3, <1>4, <2>1
  <2>3. QED
    BY <1>2, <2>1, <2>2 DEF k
<1>7. QED
  BY <1>3, <1>4, <1>5, <1>6

LEMMA PadsTailed ==
  ASSUME NEW c, NEW s, NEW r, Holds(c, s, r), NEW w \in Seq(Cell), Len(w) = 2
  PROVE  LET n == IF Len(r) + 3 <= B THEN B - 3 - Len(r) ELSE 2 * B - 3 - Len(r)
         IN  n \in Nat /\ Pads(s \o r, w) = c.blocks \o Cut(Tailed(r, n, w))
<1>0. /\ c \in Contexts /\ s \in Seq(Cell) /\ r \in Seq(Cell) /\ Len(r) < B
      /\ c.blocks = Cut(s) /\ Len(s) = Len(c.blocks) * B
  BY DEF Holds, Compressed
<1>1. Len(c.blocks) \in Nat /\ Len(r) \in 0..(B - 1) /\ Len(s) \in Nat /\ B \in Nat /\ B > 3
  BY <1>0, ContextFacts, LenProperties, DigestAssumption
<1> DEFINE m == Len(r)
           k == Len(c.blocks)
           n == IF m + 3 <= B THEN B - 3 - m ELSE 2 * B - 3 - m
<1>2. n \in Nat
  BY <1>1
<1>3. Len(s \o r) = k * B + m
  <2>1. s \in Seq(Cell) /\ r \in Seq(Cell)
    BY <1>0
  <2>2. Len(s \o r) = Len(s) + Len(r)
    BY <2>1, ConcatProperties
  <2>3. QED
    BY <1>0, <2>2
<1>4. (B - ((Len(s \o r) + 3) % B)) % B = n
  <2>1. k \in Nat /\ m \in 0..(B - 1)
    BY <1>1
  <2> HIDE DEF k, m
  <2>2. (B - (((k * B + m) + 3) % B)) % B = n
    BY <2>1, ZerosNeeded
  <2>3. QED
    BY <1>3, <2>2
<1> HIDE DEF n
<1>5. Pads(s \o r, w) = Cut((((s \o r) \o <<"1">>) \o Zeros(n)) \o w)
  BY <1>4 DEF Pads
<1>6. /\ (((s \o r) \o <<"1">>) \o Zeros(n)) \o w = s \o Tailed(r, n, w)
      /\ Tailed(r, n, w) \in Seq(Cell)
  <2>1. s \in Seq(Cell) /\ r \in Seq(Cell)
    BY <1>0
  <2>2. /\ \A u \in Seq(Cell) : (((u \o r) \o <<"1">>) \o Zeros(n)) \o w = u \o Tailed(r, n, w)
        /\ Tailed(r, n, w) \in Seq(Cell)
    BY <1>2, <2>1, TailedFacts, Zenon
  <2>3. QED
    BY <2>1, <2>2, Zenon
<1>7. Cut(s \o Tailed(r, n, w)) = Cut(s) \o Cut(Tailed(r, n, w))
  BY <1>0, <1>1, <1>6, CutConcat
<1>8. QED
  BY <1>0, <1>2, <1>5, <1>6, <1>7 DEF n

LEMMA OnlyPads ==
  ASSUME NEW c, NEW s, NEW r, Holds(c, s, r), NEW w \in Seq(Cell), Len(w) = 2, c.num + 3 <= B
  PROVE  Append(c.blocks, Only(c, w)) = Pads(s \o r, w)
<1>0. /\ c.num = Len(r) /\ r \in Seq(Cell) /\ Len(r) \in Nat /\ B \in Nat /\ B > 3
      /\ c.blocks \in Seq(Seq(Cell)) /\ Len(r) + 3 <= B
  BY ContextFacts, LenProperties, DigestAssumption DEF Holds, Compressed
<1> DEFINE n == B - 3 - Len(r)
           t == Tailed(r, n, w)
           o == One(c)
           z == Zero(o, c.num + 1, B - 2)
           b == Copy(z, B - 2, w)
<1>1. n \in Nat /\ Pads(s \o r, w) = c.blocks \o Cut(t)
  <2> HIDE DEF t
  <2>1. (IF Len(r) + 3 <= B THEN B - 3 - Len(r) ELSE 2 * B - 3 - Len(r)) = n
    BY <1>0
  <2>2. QED
    BY <2>1, PadsTailed DEF t
<1>2. /\ t \in Seq(Cell) /\ Len(t) = Len(r) + n + 3
      /\ \A i \in 1..(Len(r) + n + 3) : t[i] =
           IF i <= Len(r) THEN r[i] ELSE IF i = Len(r) + 1 THEN "1"
           ELSE IF i <= Len(r) + n + 1 THEN "0" ELSE w[i - (Len(r) + n + 1)]
  BY <1>0, <1>1, TailedFacts
<1>3. Len(r) + n + 3 = B /\ Len(r) + n + 1 = B - 2
  BY <1>0
<1> HIDE DEF t, n
<1>4. /\ o \in [1..B -> Cell] /\ (\A i \in 1..Len(r) : o[i] = r[i]) /\ o[Len(r) + 1] = "1"
  BY OneFacts
<1> HIDE DEF o
<1>5. /\ z \in [1..B -> Cell]
      /\ \A i \in 1..B : z[i] = IF i > c.num + 1 /\ i <= B - 2 THEN "0" ELSE o[i]
  <2>1. o \in [1..B -> Cell] /\ 0 \in Int /\ c.num + 1 \in Int /\ B \in Int /\ B - 2 \in Int
    BY <1>0, <1>4
  <2>2. QED
    BY <2>1, ZeroFacts
<1> HIDE DEF z
<1>6. /\ b \in [1..B -> Cell]
      /\ \A i \in 1..B : b[i] = IF i > B - 2 /\ i <= (B - 2) + Len(w) THEN w[i - (B - 2)] ELSE z[i]
  <2>1. B - 2 \in Nat
    BY <1>0
  <2>2. QED
    BY <1>5, <2>1, CopyFacts
<1> HIDE DEF b
<1>7. ASSUME NEW i \in 1..B PROVE b[i] = t[i]
  <2>0. i \in 1..(Len(r) + n + 3)
    BY <1>3
  <2>1. CASE i <= Len(r)
    <3>1. ~(i > B - 2) /\ ~(i > c.num + 1) /\ i \in 1..Len(r)
      BY <1>0, <2>1
    <3>2. b[i] = z[i] /\ z[i] = o[i] /\ o[i] = r[i]
      BY <1>4, <1>5, <1>6, <3>1
    <3>3. t[i] = r[i]
      BY <1>2, <2>0, <2>1
    <3>4. QED
      BY <3>2, <3>3
  <2>2. CASE i = Len(r) + 1
    <3>1. ~(i > B - 2) /\ ~(i > c.num + 1) /\ ~(i <= Len(r))
      BY <1>0, <2>2
    <3>2. b[i] = z[i] /\ z[i] = o[i] /\ o[i] = "1"
      BY <1>4, <1>5, <1>6, <2>2, <3>1
    <3>3. t[i] = "1"
      BY <1>2, <2>0, <2>2, <3>1
    <3>4. QED
      BY <3>2, <3>3
  <2>3. CASE i > Len(r) + 1 /\ i <= B - 2
    <3>1. /\ ~(i > B - 2) /\ i > c.num + 1 /\ ~(i <= Len(r)) /\ ~(i = Len(r) + 1)
          /\ i <= Len(r) + n + 1
      BY <1>0, <1>3, <2>3
    <3>2. b[i] = z[i] /\ z[i] = "0"
      BY <1>5, <1>6, <2>3, <3>1
    <3>3. t[i] = "0"
      BY <1>2, <2>0, <3>1
    <3>4. QED
      BY <3>2, <3>3
  <2>4. CASE i > B - 2
    <3>1. /\ i <= (B - 2) + Len(w) /\ ~(i <= Len(r)) /\ ~(i = Len(r) + 1)
          /\ ~(i <= Len(r) + n + 1)
      BY <1>0, <1>3, <2>4
    <3>2. b[i] = w[i - (B - 2)]
      BY <1>6, <2>4, <3>1
    <3>3. t[i] = w[i - (Len(r) + n + 1)]
      BY <1>2, <2>0, <3>1
    <3>4. QED
      BY <1>3, <3>2, <3>3
  <2>5. QED
    BY <1>0, <2>1, <2>2, <2>3, <2>4
<1>8. b \in Seq(Cell) /\ Len(b) = B
  BY <1>0, <1>6, FunctionIsSeq
<1>9. b = t
  BY <1>2, <1>3, <1>7, <1>8, SeqEqual
<1>10. Cut(t) = <<b>>
  BY <1>8, <1>9, CutOne
<1>11. Append(c.blocks, b) = c.blocks \o <<b>>
  BY <1>0, <1>8, AppendIsConcat
<1>12. Only(c, w) = b
  BY DEF Only, b, z, o
<1>13. QED
  BY <1>1, <1>10, <1>11, <1>12

LEMMA TwoPads ==
  ASSUME NEW c, NEW s, NEW r, Holds(c, s, r), NEW w \in Seq(Cell), Len(w) = 2, ~(c.num + 3 <= B)
  PROVE  Append(Append(c.blocks, First(c)), Second(c, w)) = Pads(s \o r, w)
<1>0. /\ c.num = Len(r) /\ r \in Seq(Cell) /\ Len(r) \in Nat /\ B \in Nat /\ B > 3
      /\ c.blocks \in Seq(Seq(Cell)) /\ ~(Len(r) + 3 <= B) /\ Len(r) < B
  BY ContextFacts, LenProperties, DigestAssumption DEF Holds, Compressed
<1> DEFINE n == 2 * B - 3 - Len(r)
           t == Tailed(r, n, w)
           o == One(c)
           f == Zero(o, c.num + 1, B)
           z == Zero(o, 0, B - 2)
           g == Copy(z, B - 2, w)
<1>1. n \in Nat /\ Pads(s \o r, w) = c.blocks \o Cut(t)
  <2> HIDE DEF t
  <2>1. (IF Len(r) + 3 <= B THEN B - 3 - Len(r) ELSE 2 * B - 3 - Len(r)) = n
    BY <1>0
  <2>2. QED
    BY <2>1, PadsTailed DEF t
<1>2. /\ t \in Seq(Cell) /\ Len(t) = Len(r) + n + 3
      /\ \A i \in 1..(Len(r) + n + 3) : t[i] =
           IF i <= Len(r) THEN r[i] ELSE IF i = Len(r) + 1 THEN "1"
           ELSE IF i <= Len(r) + n + 1 THEN "0" ELSE w[i - (Len(r) + n + 1)]
  BY <1>0, <1>1, TailedFacts
<1>3. Len(r) + n + 3 = B + B /\ Len(r) + n + 1 = B + (B - 2)
  BY <1>0
<1> HIDE DEF t, n
<1>4. /\ o \in [1..B -> Cell] /\ (\A i \in 1..Len(r) : o[i] = r[i]) /\ o[Len(r) + 1] = "1"
  BY OneFacts
<1> HIDE DEF o
<1>5. /\ z \in [1..B -> Cell]
      /\ \A i \in 1..B : z[i] = IF i > 0 /\ i <= B - 2 THEN "0" ELSE o[i]
  <2>1. o \in [1..B -> Cell] /\ 0 \in Int /\ c.num + 1 \in Int /\ B \in Int /\ B - 2 \in Int
    BY <1>0, <1>4
  <2>2. QED
    BY <2>1, ZeroFacts
<1> HIDE DEF z
<1>6. /\ g \in [1..B -> Cell]
      /\ \A i \in 1..B : g[i] = IF i > B - 2 /\ i <= (B - 2) + Len(w) THEN w[i - (B - 2)] ELSE z[i]
  <2>1. B - 2 \in Nat
    BY <1>0
  <2>2. QED
    BY <1>5, <2>1, CopyFacts
<1> HIDE DEF g
<1>6a. /\ f \in [1..B -> Cell]
       /\ \A i \in 1..B : f[i] = IF i > c.num + 1 /\ i <= B THEN "0" ELSE o[i]
  <2>1. o \in [1..B -> Cell] /\ 0 \in Int /\ c.num + 1 \in Int /\ B \in Int /\ B - 2 \in Int
    BY <1>0, <1>4
  <2>2. QED
    BY <2>1, ZeroFacts
<1> HIDE DEF f
<1>7. f \in Seq(Cell) /\ Len(f) = B /\ g \in Seq(Cell) /\ Len(g) = B
  BY <1>0, <1>6, <1>6a, FunctionIsSeq
<1>8. /\ f \o g \in Seq(Cell) /\ Len(f \o g) = B + B
      /\ \A i \in 1..(B + B) : (f \o g)[i] = IF i <= B THEN f[i] ELSE g[i - B]
  <2>1. f \in Seq(Cell) /\ g \in Seq(Cell)
    BY <1>7
  <2>2. /\ f \o g \in Seq(Cell) /\ Len(f \o g) = Len(f) + Len(g)
        /\ \A i \in 1..(Len(f) + Len(g)) : (f \o g)[i] = IF i <= Len(f) THEN f[i] ELSE g[i - Len(f)]
    BY <2>1, ConcatProperties
  <2>3. QED
    BY <1>7, <2>2
<1>9. ASSUME NEW i \in 1..(B + B) PROVE (f \o g)[i] = t[i]
  <2>0. i \in 1..(Len(r) + n + 3)
    BY <1>3
  <2>1. CASE i <= Len(r)
    <3>1. i <= B /\ i \in 1..B /\ ~(i > c.num + 1) /\ i \in 1..Len(r)
      BY <1>0, <2>1
    <3>2. (f \o g)[i] = f[i] /\ f[i] = o[i] /\ o[i] = r[i]
      BY <1>4, <1>6a, <1>8, <3>1
    <3>3. t[i] = r[i]
      BY <1>2, <2>0, <2>1
    <3>4. QED
      BY <3>2, <3>3
  <2>2. CASE i = Len(r) + 1
    <3>1. i <= B /\ i \in 1..B /\ ~(i > c.num + 1) /\ ~(i <= Len(r))
      BY <1>0, <2>2
    <3>2. (f \o g)[i] = f[i] /\ f[i] = o[i] /\ o[i] = "1"
      BY <1>4, <1>6a, <1>8, <2>2, <3>1
    <3>3. t[i] = "1"
      BY <1>2, <2>0, <2>2, <3>1
    <3>4. QED
      BY <3>2, <3>3
  <2>3. CASE i > Len(r) + 1 /\ i <= B
    <3>1. /\ i \in 1..B /\ i > c.num + 1 /\ ~(i <= Len(r)) /\ ~(i = Len(r) + 1)
          /\ i <= Len(r) + n + 1
      BY <1>0, <1>3, <2>3
    <3>2. (f \o g)[i] = f[i] /\ f[i] = "0"
      BY <1>6a, <1>8, <2>3, <3>1
    <3>3. t[i] = "0"
      BY <1>2, <2>0, <3>1
    <3>4. QED
      BY <3>2, <3>3
  <2>4. CASE i > B /\ i <= B + (B - 2)
    <3>1. /\ ~(i <= B) /\ i - B \in 1..B /\ ~(i - B > B - 2) /\ i - B > 0 /\ i - B <= B - 2
          /\ ~(i <= Len(r)) /\ ~(i = Len(r) + 1) /\ i <= Len(r) + n + 1
      BY <1>0, <1>3, <2>4
    <3>2. (f \o g)[i] = g[i - B]
      BY <1>8, <3>1
    <3>3. g[i - B] = z[i - B] /\ z[i - B] = "0"
      BY <1>5, <1>6, <3>1
    <3>4. t[i] = "0"
      BY <1>2, <2>0, <3>1
    <3>5. QED
      BY <3>2, <3>3, <3>4
  <2>5. CASE i > B + (B - 2)
    <3>1. /\ ~(i <= B) /\ i - B \in 1..B /\ i - B > B - 2 /\ i - B <= (B - 2) + Len(w)
          /\ ~(i <= Len(r)) /\ ~(i = Len(r) + 1) /\ ~(i <= Len(r) + n + 1)
          /\ (i - B) - (B - 2) = i - (B + (B - 2))
      BY <1>0, <1>3, <2>5
    <3>2. (f \o g)[i] = g[i - B]
      BY <1>8, <3>1
    <3>3. g[i - B] = w[(i - B) - (B - 2)]
      BY <1>6, <3>1
    <3>4. t[i] = w[i - (Len(r) + n + 1)]
      BY <1>2, <2>0, <3>1
    <3>5. QED
      BY <1>3, <3>1, <3>2, <3>3, <3>4
  <2>6. \/ i <= Len(r)
        \/ i = Len(r) + 1
        \/ i > Len(r) + 1 /\ i <= B
        \/ i > B /\ i <= B + (B - 2)
        \/ i > B + (B - 2)
    BY <1>0
  <2>7. QED
    BY <2>1, <2>2, <2>3, <2>4, <2>5, <2>6
<1>10. f \o g = t
  <2> DEFINE h == f \o g
  <2>1. /\ t \in Seq(Cell) /\ h \in Seq(Cell) /\ Len(h) = Len(t)
        /\ \A i \in 1..Len(h) : h[i] = t[i]
    BY <1>2, <1>3, <1>8, <1>9
  <2> HIDE DEF h
  <2>2. h = t
    BY <2>1, SeqEqual
  <2>3. QED
    BY <2>2 DEF h
<1>11. Cut(f \o g) = <<f>> \o <<g>>
  <2>1. Len(f) = 1 * B
    BY <1>0, <1>7
  <2>2. Cut(f \o g) = Cut(f) \o Cut(g)
    BY <1>7, <2>1, CutConcat
  <2>3. Cut(f) = <<f>> /\ Cut(g) = <<g>>
    BY <1>7, CutOne
  <2>4. QED
    BY <2>2, <2>3
<1>12. Append(Append(c.blocks, f), g) = c.blocks \o (<<f>> \o <<g>>)
  <2>1. c.blocks \in Seq(Seq(Cell)) /\ f \in Seq(Cell) /\ g \in Seq(Cell)
    BY <1>0, <1>7
  <2>2. Append(c.blocks, f) = c.blocks \o <<f>> /\ Append(c.blocks, f) \in Seq(Seq(Cell))
    BY <2>1, AppendIsConcat, AppendProperties
  <2>3. Append(Append(c.blocks, f), g) = Append(c.blocks, f) \o <<g>>
    BY <2>1, <2>2, AppendIsConcat
  <2>4. <<f>> \in Seq(Seq(Cell)) /\ <<g>> \in Seq(Seq(Cell))
    BY <2>1
  <2>5. (c.blocks \o <<f>>) \o <<g>> = c.blocks \o (<<f>> \o <<g>>)
    BY <2>1, <2>4, ConcatAssociative
  <2>6. QED
    BY <2>2, <2>3, <2>5
<1>13. First(c) = f /\ Second(c, w) = g
  BY DEF First, Second, f, g, z, o
<1>14. QED
  BY <1>1, <1>10, <1>11, <1>12, <1>13

(* The count of whole blocks gives the high word of the length. *)
LEMMA BlocksLength ==
  ASSUME NEW n \in Nat, NEW m \in 0..(B - 1)
  PROVE  /\ (n * 8 * B) \div Words = ((n * B + m) * 8) \div Words
         /\ n * 8 * B + m * 8 = (n * B + m) * 8
<1>0. B \in Nat \ {0}
  BY DigestAssumption
<1> DEFINE d == 8 * B
           k == Words \div d
           p == n \div k
           q == n % k
<1>1. d \in Nat \ {0} /\ k \in Nat \ {0} /\ Words \in Nat \ {0} /\ Words = k * d
  BY <1>0, WordsFacts
<1>2. n * 8 * B = n * d /\ (n * B + m) * 8 = n * d + 8 * m /\ n * 8 * B + m * 8 = (n * B + m) * 8
  BY <1>0
<1>3. 8 * m \in 0..(d - 1)
  BY <1>0
<1> HIDE DEF d, k
<1>4. p \in Nat /\ q \in 0..(k - 1) /\ n = (p * k) + q
  BY <1>1, QuotientFacts
<1> HIDE DEF p, q
<1>5. q * d + d <= k * d /\ q * d \in Nat
  <2>1. q \in Nat /\ q < k
    BY <1>1, <1>4
  <2>2. QED
    BY <1>1, <2>1, MulLess
<1>6. n * d = p * Words + q * d
  <2>1. ((p * k) + q) * d = p * (k * d) + q * d
    BY <1>1, <1>4
  <2>2. QED
    BY <1>1, <1>4, <2>1
<1>7. q * d \in 0..(Words - 1) /\ q * d + 8 * m \in 0..(Words - 1)
  BY <1>1, <1>3, <1>5
<1>8. (p * Words + q * d) \div Words = p
  BY <1>1, <1>4, <1>7, DivMod
<1>9. (p * Words + (q * d + 8 * m)) \div Words = p
  BY <1>1, <1>4, <1>7, DivMod
<1>10. n * d + 8 * m = p * Words + (q * d + 8 * m)
  <2>1. p * Words \in Nat
    BY <1>1, <1>4
  <2>2. QED
    BY <1>3, <1>5, <1>6, <2>1
<1>11. QED
  BY <1>2, <1>6, <1>8, <1>9, <1>10

LEMMA FinalBlocks ==
  ASSUME NEW c, NEW msg, Given(c, msg), NEW w \in Seq(Cell), Len(w) = 2
  PROVE  Pads(msg, w) = IF c.num + 3 <= B THEN Append(c.blocks, Only(c, w))
                        ELSE Append(Append(c.blocks, First(c)), Second(c, w))
<1>1. PICK s \in Seq(Cell), r \in Seq(Cell) : msg = s \o r /\ Holds(c, s, r)
  BY DEF Given
<1>2. c.num + 3 <= B => Append(c.blocks, Only(c, w)) = Pads(msg, w)
  BY <1>1, OnlyPads
<1>3. ~(c.num + 3 <= B) => Append(Append(c.blocks, First(c)), Second(c, w)) = Pads(msg, w)
  BY <1>1, TwoPads
<1>4. QED
  BY <1>2, <1>3

LEMMA GivenLength ==
  ASSUME NEW c, NEW msg, Given(c, msg)
  PROVE  /\ c \in Contexts /\ c.num \in 0..(B - 1) /\ Len(c.blocks) \in Nat
         /\ Len(msg) = Len(c.blocks) * B + c.num
<1>1. PICK s \in Seq(Cell), r \in Seq(Cell) : msg = s \o r /\ Holds(c, s, r)
  BY DEF Given
<1>2. /\ c \in Contexts /\ c.num < B /\ c.num = Len(r) /\ Len(s) = Len(c.blocks) * B
  BY <1>1 DEF Holds, Compressed
<1>3. c.num \in Nat /\ Len(c.blocks) \in Nat /\ B \in Nat
  BY <1>2, ContextFacts, DigestAssumption
<1>4. Len(msg) = Len(s) + Len(r)
  BY <1>1, ConcatProperties
<1>5. QED
  BY <1>2, <1>3, <1>4

LEMMA PairSeq ==
  ASSUME NEW m \in Nat, NEW n \in Nat PROVE <<m, n>> \in Seq(Cell) /\ Len(<<m, n>>) = 2
<1>1. m \in Cell /\ n \in Cell
  BY CellFacts
<1>2. QED
  BY <1>1

LEMMA Sm3Final ==
  ASSUME NEW c, NEW msg, Sm3OK(c, msg)
  PROVE  sm3_final(c) = Pads(msg, <<Word((Len(msg) * 8) \div Words), Word(Len(msg) * 8)>>)
<1>0. Given(c, msg) /\ c.nblocks = Len(c.blocks)
  BY DEF Sm3OK
<1>1. /\ c \in Contexts /\ c.num \in 0..(B - 1) /\ Len(c.blocks) \in Nat
      /\ Len(msg) = Len(c.blocks) * B + c.num
  BY <1>0, GivenLength
<1> DEFINE hi == Word((c.nblocks * 8 * B) \div Words)
           lo == Word(c.nblocks * 8 * B + c.num * 8)
           w  == <<hi, lo>>
<1>2. hi = Word((Len(msg) * 8) \div Words) /\ lo = Word(Len(msg) * 8)
  BY <1>0, <1>1, BlocksLength
<1>3. hi \in Nat /\ lo \in Nat
  <2>1. Len(msg) * 8 \in Nat
    BY <1>0, GivenSeq
  <2>2. (Len(msg) * 8) \div Words \in Nat
    BY <2>1, WordsFacts, QuotientFacts
  <2>3. QED
    BY <1>2, <2>1, <2>2, WordNat
<1>4. w \in Seq(Cell) /\ Len(w) = 2
  BY <1>3, PairSeq
<1>5. sm3_final(c) = IF c.num + 3 <= B THEN Append(c.blocks, Only(c, w))
                     ELSE Append(Append(c.blocks, First(c)), Second(c, w))
  <2> HIDE DEF hi, lo
  <2>1. CASE c.num + 3 <= B
    <3>1. sm3_final(c) = Compress(c, Only(c, w)).blocks
      BY <2>1 DEF sm3_final, Only, One, hi, lo
    <3>2. QED
      BY <1>1, <2>1, <3>1 DEF Compress, Contexts
  <2>2. CASE ~(c.num + 3 <= B)
    <3>1. sm3_final(c) = Compress(Compress(c, First(c)), Second(c, w)).blocks
      BY <2>2 DEF sm3_final, First, Second, One, hi, lo
    <3>2. QED
      BY <1>1, <2>2, <3>1 DEF Compress, Contexts
  <2>3. QED
    BY <2>1, <2>2
<1> HIDE DEF w, hi, lo
<1>6. sm3_final(c) = Pads(msg, w)
  BY <1>0, <1>4, <1>5, FinalBlocks
<1>7. QED
  BY <1>2, <1>6 DEF w

LEMMA Md5Final ==
  ASSUME NEW c, NEW msg, Md5OK(c, msg)
  PROVE  md5_final(c) = Pads(msg, <<Word(Len(msg) * 8), Word((Len(msg) * 8) \div Words)>>)
<1>0. Given(c, msg) /\ c.nl = Word(Len(msg) * 8) /\ c.nh = Word((Len(msg) * 8) \div Words)
  BY DEF Md5OK
<1>1. c \in Contexts /\ c.num \in 0..(B - 1) /\ B \in Nat
  BY <1>0, GivenLength, DigestAssumption
<1> DEFINE w == <<c.nl, c.nh>>
<1>4. w \in Seq(Cell) /\ Len(w) = 2
  BY <1>1, ContextFacts, PairSeq
<1>5. md5_final(c) = IF c.num + 3 <= B THEN Append(c.blocks, Only(c, w))
                     ELSE Append(Append(c.blocks, First(c)), Second(c, w))
  <2>1. CASE c.num + 3 <= B
    <3>0. ~(c.num + 1 > B - 2)
      BY <1>1, <2>1
    <3>1. md5_final(c) = Compress(c, Only(c, w)).blocks
      BY <3>0 DEF md5_final, Only, One
    <3>2. QED
      BY <1>1, <2>1, <3>1 DEF Compress, Contexts
  <2>2. CASE ~(c.num + 3 <= B)
    <3>0. c.num + 1 > B - 2
      BY <1>1, <2>2
    <3>1. md5_final(c) = Compress(Compress(c, First(c)), Second(c, w)).blocks
      BY <3>0 DEF md5_final, First, Second, One
    <3>2. QED
      BY <1>1, <2>2, <3>1 DEF Compress, Contexts
  <2>3. QED
    BY <2>1, <2>2
<1> HIDE DEF w
<1>6. md5_final(c) = Pads(msg, w)
  BY <1>0, <1>4, <1>5, FinalBlocks
<1>7. QED
  BY <1>0, <1>6 DEF w

(* The inductive invariant. *)
DigestIInv == Sm3OK(sm3, fed) /\ Md5OK(md5, fed)

LEMMA InitDigestIInv == DigestInit => DigestIInv
<1> SUFFICES ASSUME DigestInit PROVE DigestIInv
  OBVIOUS
<1> DEFINE c == NewDigest
<1>1. <<>> \in Seq(Cell) /\ Len(<<>>) = 0 /\ <<>> \in Seq(Seq(Cell)) /\ <<>> \o <<>> = <<>>
  BY EmptySeq, ConcatEmptySeq
<1>2. /\ c \in Contexts /\ c.blocks = <<>> /\ c.num = 0 /\ c.nblocks = 0 /\ c.nl = 0 /\ c.nh = 0
  <2>1. [i \in 1..B |-> "?"] \in [1..B -> Cell]
    BY DEF Cell
  <2>2. QED
    BY <1>1, <2>1 DEF NewDigest, Contexts
<1>3. Cut(<<>>) = <<>>
  <2> DEFINE e == <<>>
  <2>1. e \in Seq(Cell) /\ Len(e) < B
    BY <1>1, DigestAssumption
  <2> HIDE DEF e
  <2>2. Cut(e) = <<>>
    BY <2>1, CutShort
  <2>3. QED
    BY <2>2 DEF e
<1>4. Holds(c, <<>>, <<>>)
  <2> HIDE DEF c
  <2>1. Len(<<>>) = Len(c.blocks) * B
    BY <1>1, <1>2, DigestAssumption
  <2>2. Compressed(c, <<>>)
    BY <1>1, <1>2, <1>3, <2>1 DEF Compressed
  <2>3. QED
    BY <1>1, <1>2, <2>2, DigestAssumption DEF Holds
<1>5. Given(c, <<>>)
  BY <1>1, <1>4 DEF Given
<1>6. Word(Len(<<>>) * 8) = 0 /\ Word((Len(<<>>) * 8) \div Words) = 0
  <2>1. Words \in Nat \ {0}
    BY WordsFacts
  <2>2. (0 * Words + 0) % Words = 0 /\ (0 * Words + 0) \div Words = 0
    BY <2>1, DivMod
  <2>3. 0 * Words + 0 = 0 /\ Len(<<>>) * 8 = 0
    BY <1>1, <2>1
  <2>4. QED
    BY <2>2, <2>3 DEF Word
<1> HIDE DEF c
<1>7. Sm3OK(c, <<>>) /\ Md5OK(c, <<>>)
  BY <1>1, <1>2, <1>5, <1>6 DEF Sm3OK, Md5OK
<1>8. QED
  BY <1>7 DEF DigestInit, DigestIInv, c

LEMMA NextDigestIInv == DigestIInv /\ [DigestNext]_digestVars => DigestIInv'
<1> SUFFICES ASSUME DigestIInv, [DigestNext]_digestVars PROVE DigestIInv'
  OBVIOUS
<1>1. ASSUME NEW n \in Pieces, Update(n) PROVE DigestIInv'
  <2> DEFINE data == [i \in 1..n |-> Len(fed) + i]
  <2>1. n \in Nat /\ Len(fed) \in Nat
    BY DigestAssumption, GivenSeq DEF DigestIInv, Sm3OK
  <2>2. data \in Seq(Cell)
    <3>1. data \in [1..n -> Cell]
      BY <2>1, CellFacts
    <3>2. QED
      BY <2>1, <3>1, FunctionIsSeq
  <2>3. fed' = fed \o data /\ sm3' = sm3_update(sm3, data) /\ md5' = md5_update(md5, data)
    BY <1>1 DEF Update
  <2> HIDE DEF data
  <2>4. Sm3OK(sm3', fed') /\ Md5OK(md5', fed')
    BY <2>2, <2>3, Sm3Update, Md5Update DEF DigestIInv
  <2>5. QED
    BY <2>4 DEF DigestIInv
<1>2. CASE UNCHANGED digestVars
  BY <1>2 DEF digestVars, DigestIInv
<1>3. QED
  BY <1>1, <1>2 DEF DigestNext

(* For every block and word size, however a message of whatever length is cut
   into calls of update, YS_Sm3::final and YS_Md5::final give the compression
   function exactly the blocks of the standard's padding: the message, the one,
   the zeros and the length in bits, carry included. *)
THEOREM PaddingIsStandard == DigestSpec => []DigestPadding
<1>1. DigestIInv => DigestPadding
  <2> SUFFICES ASSUME DigestIInv PROVE DigestPadding
    OBVIOUS
  <2>1. \A w : Padded(w) = Pads(fed, w)
    BY DEF Padded, Pads, Zeros
  <2>2. sm3_final(sm3) = Padded(<<High, Low>>)
    BY <2>1, Sm3Final DEF DigestIInv, High, Low
  <2>3. md5_final(md5) = Padded(<<Low, High>>)
    BY <2>1, Md5Final DEF DigestIInv, High, Low
  <2>4. QED
    BY <2>2, <2>3 DEF DigestPadding, Sm3Padding, Md5Padding
<1>2. QED
  BY <1>1, InitDigestIInv, NextDigestIInv, PTL DEF DigestSpec
=============================================================================
