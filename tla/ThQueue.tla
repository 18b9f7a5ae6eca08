------------------------------ MODULE ThQueue ------------------------------
(***************************************************************************)
(* YS_ThQueue<T> (isaac/tool/ys_thread_queue.hpp), the blocking queue      *)
(* every thread pool of the library is built on.                           *)
(*                                                                         *)
(* Every operation runs under _mutex, so a critical section is one step.   *)
(* What is left to interleave is what the code leaves open: the read of    *)
(* _lockId made before the mutex is taken, the condition variable's wait   *)
(* set, wake-ups that arrive while somebody else takes the data, timeouts  *)
(* that race a notification, and spurious wake-ups.                        *)
(*                                                                         *)
(* The T values are numbered in the order of the push calls.  `taken' and  *)
(* `dropped' are history: what callers received, and what clear() and the  *)
(* argument-less pop_front() threw away.                                   *)
(***************************************************************************)
EXTENDS Naturals, Sequences, FiniteSets, SequencesExt

CONSTANTS
  Callers,      \* threads inside blocking calls (pop_front, swap, wait)
  Kinds,        \* which blocking calls they make
  Notifies,     \* values passed for the parameter `notify' of the pushes
  Caps,         \* values passed for the parameter `cap' of push_back
  Batches,      \* lengths of the containers passed to the batch pushes
  Fronts,       \* is push_front used?
  Reuses,       \* is swap called with a container that still holds data?
  MaxPush,      \* bound: number of values pushed
  MaxNotify     \* bound: number of notifyT calls

AllKinds == {"pop_front", "swap", "wait"}

ASSUME ThQueueAssumption ==
  /\ IsFiniteSet(Callers)
  /\ Kinds \subseteq AllKinds
  /\ Notifies \subseteq BOOLEAN
  /\ Caps \subseteq Nat
  /\ Batches \subseteq Nat
  /\ Fronts \in BOOLEAN
  /\ Reuses \in BOOLEAN
  /\ MaxPush \in Nat
  /\ MaxNotify \in Nat

VARIABLES
  queue,        \* _queue
  size,         \* _size
  lockId,       \* _lockId
  pc,           \* where each caller is
  kind,         \* the blocking call it makes
  ms,           \* its millsecond argument: "zero", "some" or "forever"
  snap,         \* its local lockId
  local,        \* the container it passes to swap
  ret,          \* result of its last call
  pushed,       \* number of values pushed so far
  taken,        \* history: values received by a caller
  dropped       \* history: values discarded

vars == <<queue, size, lockId, pc, kind, ms, snap, local, ret,
          pushed, taken, dropped>>

call  == <<kind, ms, snap>>
ghost == <<pushed, taken, dropped>>

----------------------------------------------------------------------------
(* Helpers.                                                                *)

hasNotify(c) == snap[c] # lockId

(* The predicate every wait of the class is given. *)
Ready(c) == queue # <<>> \/ hasNotify(c)

(* Threads in the condition variable's wait set, and threads that left it  *)
(* and have not run yet.                                                   *)
Waiting == {c \in Callers : pc[c] = "waiting"}
Awake   == {c \in Callers : pc[c] \in {"awake", "expired"}}

(* Of those, the ones that may take data: no notifyT came since the call. *)
Entitled == {c \in Awake : snap[c] = lockId}

(* Values of a batch pushed after n values, in the container's order. *)
Batch(n, k) == [i \in 1..k |-> n + i]

notify_one ==
  \/ Waiting = {} /\ pc' = pc
  \/ \E c \in Waiting : pc' = [pc EXCEPT ![c] = "awake"]

notify_all ==
  pc' = [c \in Callers |-> IF pc[c] = "waiting" THEN "awake" ELSE pc[c]]

Signal(notify, how) == IF notify THEN how ELSE pc' = pc

----------------------------------------------------------------------------
(* Blocking calls: pop_front(t, ms, true), swap(q, ms, true), wait(ms).    *)

Return(c, r) == ret' = [ret EXCEPT ![c] = r] /\ pc' = [pc EXCEPT ![c] = "out"]

(* `size_t lockId = _lockId;' is read before the mutex is taken. *)
Call(c, k, m) ==
  /\ pc[c] = "out"
  /\ k = "swap" => Reuses \/ local[c] = <<>>
  /\ pc'   = [pc EXCEPT ![c] = "enter"]
  /\ kind' = [kind EXCEPT ![c] = k]
  /\ ms'   = [ms EXCEPT ![c] = m]
  /\ snap' = [snap EXCEPT ![c] = lockId]
  /\ ret'  = [ret EXCEPT ![c] = "none"]
  /\ UNCHANGED <<queue, size, lockId, local, ghost>>

(* The tail of pop_front(t, ms, true), under the mutex. *)
FinishPop(c) ==
  \/ /\ queue = <<>> \/ hasNotify(c)
     /\ Return(c, "false")
     /\ UNCHANGED <<queue, size, local, ghost>>
  \/ /\ queue # <<>> /\ ~hasNotify(c)
     /\ Return(c, "true")
     /\ queue' = Tail(queue)
     /\ size'  = size - 1
     /\ taken' = taken \cup {Head(queue)}
     /\ UNCHANGED <<local, pushed, dropped>>

(* Mutant of FinishSwap: the queue's data is not handed to the caller. *)
FinishSwapLosesData(c) ==
  \/ /\ queue = <<>> \/ hasNotify(c)
     /\ Return(c, "false")
     /\ UNCHANGED <<queue, size, local, ghost>>
  \/ /\ queue # <<>> /\ ~hasNotify(c)
     /\ Return(c, "true")
     /\ queue' = local[c]
     /\ local' = local
     /\ size'  = Len(local[c])
     /\ UNCHANGED ghost

(* The tail of swap(q, ms, true): the caller's container goes in, the      *)
(* queue's data comes out.                                                 *)
FinishSwap(c) ==
  \/ /\ queue = <<>> \/ hasNotify(c)
     /\ Return(c, "false")
     /\ UNCHANGED <<queue, size, local, ghost>>
  \/ /\ queue # <<>> /\ ~hasNotify(c)
     /\ Return(c, "true")
     /\ queue' = local[c]
     /\ local' = [local EXCEPT ![c] = queue]
     /\ size'  = Len(local[c])
     /\ UNCHANGED ghost

(* The tail of wait(ms): the timed branch returns the predicate's value,   *)
(* the other two return !_queue.empty().                                   *)
FinishWait(c, viaTimed) ==
  /\ Return(c, IF queue # <<>> \/ (viaTimed /\ hasNotify(c))
               THEN "true" ELSE "false")
  /\ UNCHANGED <<queue, size, local, ghost>>

Finish(c, viaTimed) ==
  /\ \/ kind[c] = "pop_front" /\ FinishPop(c)
     \/ kind[c] = "swap" /\ FinishSwap(c)
     \/ kind[c] = "wait" /\ FinishWait(c, viaTimed)
  /\ UNCHANGED <<lockId, call>>

Sleep(c) ==
  /\ pc' = [pc EXCEPT ![c] = "waiting"]
  /\ UNCHANGED <<queue, size, lockId, call, local, ret, ghost>>

(* First critical section: the predicate is tried before any wait. *)
Enter(c) ==
  /\ pc[c] = "enter"
  /\ IF ms[c] = "zero" \/ Ready(c)
     THEN Finish(c, ms[c] = "some" /\ queue = <<>>)
     ELSE Sleep(c)

(* A woken thread re-evaluates the predicate under the mutex. *)
Resume(c) ==
  /\ pc[c] = "awake"
  /\ IF Ready(c) THEN Finish(c, ms[c] = "some") ELSE Sleep(c)

(* A thread whose wait timed out evaluates it one last time. *)
Expired(c) ==
  /\ pc[c] = "expired"
  /\ Finish(c, TRUE)

(* The deadline passes, before or after a notification picked the thread. *)
Timeout(c) ==
  /\ pc[c] \in {"waiting", "awake"}
  /\ ms[c] = "some"
  /\ pc' = [pc EXCEPT ![c] = "expired"]
  /\ UNCHANGED <<queue, size, lockId, call, local, ret, ghost>>

Spurious(c) ==
  /\ pc[c] = "waiting"
  /\ pc' = [pc EXCEPT ![c] = "awake"]
  /\ UNCHANGED <<queue, size, lockId, call, local, ret, ghost>>

(* The caller consumes what swap gave it. *)
Consume(c) ==
  /\ pc[c] = "out" /\ local[c] # <<>>
  /\ taken' = taken \cup Range(local[c])
  /\ local' = [local EXCEPT ![c] = <<>>]
  /\ UNCHANGED <<queue, size, lockId, pc, call, ret, pushed, dropped>>

----------------------------------------------------------------------------
(* Calls that never block.                                                 *)

(* Mutants of push_back: it notifies only when the queue was empty; it
   inserts at the wrong end. *)
push_backIfEmpty(notify) ==
  /\ pushed < MaxPush
  /\ queue'  = Append(queue, pushed + 1)
  /\ size'   = size + 1
  /\ pushed' = pushed + 1
  /\ Signal(notify /\ queue = <<>>, notify_one)
  /\ UNCHANGED <<lockId, call, local, ret, taken, dropped>>

push_backAtHead(notify) ==
  /\ pushed < MaxPush
  /\ queue'  = <<pushed + 1>> \o queue
  /\ size'   = size + 1
  /\ pushed' = pushed + 1
  /\ Signal(notify, notify_one)
  /\ UNCHANGED <<lockId, call, local, ret, taken, dropped>>

push_back(notify) ==
  /\ pushed < MaxPush
  /\ queue'  = Append(queue, pushed + 1)
  /\ size'   = size + 1
  /\ pushed' = pushed + 1
  /\ Signal(notify, notify_one)
  /\ UNCHANGED <<lockId, call, local, ret, taken, dropped>>

(* push_back(t, cap, notify): refused, without a notification, when full.  *)
push_back_cap(cap, notify) ==
  /\ size < cap
  /\ push_back(notify)

push_back_all(k, notify) ==
  /\ pushed + k <= MaxPush
  /\ queue'  = queue \o Batch(pushed, k)
  /\ size'   = size + k
  /\ pushed' = pushed + k
  /\ Signal(notify, notify_all)
  /\ UNCHANGED <<lockId, call, local, ret, taken, dropped>>

(* notify_one is called before the insertion, both under the mutex. *)
push_front(notify) ==
  /\ Fronts /\ pushed < MaxPush
  /\ Signal(notify, notify_one)
  /\ queue'  = <<pushed + 1>> \o queue
  /\ size'   = size + 1
  /\ pushed' = pushed + 1
  /\ UNCHANGED <<lockId, call, local, ret, taken, dropped>>

(* Each value of the batch is pushed in front of the previous one. *)
push_front_all(k, notify) ==
  /\ Fronts /\ pushed + k <= MaxPush
  /\ queue'  = Reverse(Batch(pushed, k)) \o queue
  /\ size'   = size + k
  /\ pushed' = pushed + k
  /\ Signal(notify, notify_all)
  /\ UNCHANGED <<lockId, call, local, ret, taken, dropped>>

(* Mutant of pop_nowait: the test for an empty queue is missing. *)
pop_nowaitUnchecked ==
  /\ queue' = SubSeq(queue, 2, Len(queue))
  /\ size'  = size - 1
  /\ taken' = taken \cup {queue[i] : i \in DOMAIN queue \cap {1}}
  /\ UNCHANGED <<lockId, pc, call, local, ret, pushed, dropped>>

(* pop_front(t, _, false). *)
pop_nowait ==
  /\ queue # <<>>
  /\ queue' = Tail(queue)
  /\ size'  = size - 1
  /\ taken' = taken \cup {Head(queue)}
  /\ UNCHANGED <<lockId, pc, call, local, ret, pushed, dropped>>

(* pop_front(). *)
pop_discard ==
  /\ queue # <<>>
  /\ queue' = Tail(queue)
  /\ size'  = size - 1
  /\ dropped' = dropped \cup {Head(queue)}
  /\ UNCHANGED <<lockId, pc, call, local, ret, pushed, taken>>

(* swap(q, _, false). *)
swap_nowait(c) ==
  /\ pc[c] = "out" /\ "swap" \in Kinds
  /\ Reuses \/ local[c] = <<>>
  /\ queue # <<>>
  /\ queue' = local[c]
  /\ local' = [local EXCEPT ![c] = queue]
  /\ size'  = Len(local[c])
  /\ UNCHANGED <<lockId, pc, call, ret, ghost>>

(* Mutant of clear: _size is not reset. *)
clearKeepsSize ==
  /\ dropped' = dropped \cup Range(queue)
  /\ queue' = <<>>
  /\ UNCHANGED <<size, lockId, pc, call, local, ret, pushed, taken>>

clear ==
  /\ dropped' = dropped \cup Range(queue)
  /\ queue' = <<>>
  /\ size'  = 0
  /\ UNCHANGED <<lockId, pc, call, local, ret, pushed, taken>>

(* Mutant of notifyT: the sleepers are not woken. *)
notifyTSilent ==
  /\ lockId < MaxNotify
  /\ lockId' = lockId + 1
  /\ UNCHANGED <<queue, size, pc, call, local, ret, ghost>>

notifyT ==
  /\ lockId < MaxNotify
  /\ lockId' = lockId + 1
  /\ notify_all
  /\ UNCHANGED <<queue, size, call, local, ret, ghost>>

----------------------------------------------------------------------------
Init ==
  /\ queue = <<>> /\ size = 0 /\ lockId = 0
  /\ pc    = [c \in Callers |-> "out"]
  /\ kind  = [c \in Callers |-> "pop_front"]
  /\ ms    = [c \in Callers |-> "zero"]
  /\ snap  = [c \in Callers |-> 0]
  /\ local = [c \in Callers |-> <<>>]
  /\ ret   = [c \in Callers |-> "none"]
  /\ pushed = 0 /\ taken = {} /\ dropped = {}

(* The steps of a thread inside a blocking call. *)
Step(c) == Enter(c) \/ Resume(c) \/ Expired(c)

Push ==
  \E notify \in Notifies :
    \/ push_back(notify)
    \/ \E cap \in Caps : push_back_cap(cap, notify)
    \/ \E k \in Batches : push_back_all(k, notify) \/ push_front_all(k, notify)
    \/ push_front(notify)

Next ==
  \/ \E c \in Callers :
       \/ \E k \in Kinds, m \in {"zero", "some", "forever"} : Call(c, k, m)
       \/ Step(c)
       \/ Timeout(c) \/ Spurious(c)
       \/ Consume(c) \/ swap_nowait(c)
  \/ Push
  \/ pop_nowait \/ pop_discard \/ clear \/ notifyT

Spec == Init /\ [][Next]_vars

(* The scheduler runs every thread that can take the mutex; nothing obliges
   a thread to make a call, a deadline to pass or a producer to push. *)
FairSpec == Spec /\ \A c \in Callers : WF_vars(Step(c))

----------------------------------------------------------------------------
(* Properties.                                                             *)

(* Every variable keeps its type; in particular _size never goes below 0,
   which the code asserts before each --_size. *)
TypeOK ==
  /\ queue \in Seq(1..MaxPush)
  /\ size \in Nat
  /\ lockId \in 0..MaxNotify
  /\ pc \in [Callers -> {"out", "enter", "waiting", "awake", "expired"}]
  /\ kind \in [Callers -> AllKinds]
  /\ ms \in [Callers -> {"zero", "some", "forever"}]
  /\ snap \in [Callers -> 0..MaxNotify]
  /\ local \in [Callers -> Seq(1..MaxPush)]
  /\ ret \in [Callers -> {"none", "true", "false"}]
  /\ pushed \in 0..MaxPush
  /\ taken \subseteq 1..MaxPush
  /\ dropped \subseteq 1..MaxPush

(* The counter _size, kept by hand in every push and pop and recomputed by
   swap and clear, always is the length of _queue. *)
SizeIsLength == size = Len(queue)

(* Where value v is: how many times in the queue, in a swap container, with
   a caller, or thrown away. *)
Held(v, s) == {i \in DOMAIN s : s[i] = v}
Copies(v) ==
  Cardinality(Held(v, queue))
  + Cardinality(UNION {{c} \X Held(v, local[c]) : c \in Callers})
  + (IF v \in taken THEN 1 ELSE 0) + (IF v \in dropped THEN 1 ELSE 0)

(* No value is lost, duplicated or invented, however pushes, pops, swaps and
   wake-ups interleave: each pushed value is in exactly one place. *)
Conserved == \A v \in 1..MaxPush : Copies(v) = IF v <= pushed THEN 1 ELSE 0

(* What the queue keeps true whatever its callers do: its types, its counter
   and its contents. *)
Inv == TypeOK /\ SizeIsLength /\ Conserved

(* Without push_front, and with empty containers given to swap, data leaves in
   the order it was pushed: what is still queued is in order and is younger
   than everything that left. *)
FifoOrder ==
  ~Fronts /\ ~Reuses =>
    /\ \A i, j \in DOMAIN queue : i < j => queue[i] < queue[j]
    /\ \A i \in DOMAIN queue, v \in 1..pushed :
         v \notin Range(queue) => v < queue[i]

(* The snapshot of _lockId is taken outside the mutex, yet no thread ever
   sleeps on a stale one: notifyT between the read and the wait is seen. *)
SleepersAreCurrent == \A c \in Waiting : snap[c] = lockId

(* The callers follow the discipline the library's own users follow: every
   push notifies, nobody calls wait(), swap is given an empty container. *)
Disciplined == FALSE \notin Notifies /\ "wait" \notin Kinds /\ ~Reuses

(* No lost wake-up: while somebody sleeps, each queued value has a thread of
   its own that has left the wait set, will see the value and is entitled to
   take it (no notifyT came since it called). *)
NoLostWakeup ==
  Disciplined /\ Waiting # {} =>
    Len(queue) <= Cardinality(Entitled)

(* notifyT releases every thread that was inside a blocking call, also one
   that had read _lockId and not yet taken the mutex. *)
NotifyReleases ==
  \A c \in Callers :
    (pc[c] # "out" /\ hasNotify(c)) ~> (pc[c] = "out")
=============================================================================
