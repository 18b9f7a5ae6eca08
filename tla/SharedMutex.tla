---------------------------- MODULE SharedMutex ----------------------------
(***************************************************************************)
(* YS_SharedMutex and its guards YS_RLock and YS_WLock                     *)
(* (isaac/tool/ys_shared_lock.hpp): a readers-writer lock made of a mutex, *)
(* one condition variable, a flag and a counter.                           *)
(*                                                                         *)
(* Each call is one critical section of _mutex, split where it sleeps on   *)
(* _cond.  `held' is history: what each thread was granted and has not     *)
(* given back.                                                             *)
(***************************************************************************)
EXTENDS Naturals, FiniteSets

CONSTANTS
  Threads,      \* the threads sharing the lock
  WScoped       \* those that take the write lock with a YS_WLock guard

ASSUME SharedMutexAssumption ==
  IsFiniteSet(Threads) /\ WScoped \subseteq Threads

VARIABLES
  isWrite,      \* _isWrite
  readCount,    \* _readCount
  place,        \* "run", or where a thread is inside readLock/writeLock
  want,         \* the lock it is asking for
  held          \* the lock it holds

lockVars == <<isWrite, readCount, place, want, held>>

----------------------------------------------------------------------------
(* Mutant of isWriteCond: the readers are forgotten. *)
isWriteCondNoReaders == ~isWrite

isReadCond  == ~isWrite
isWriteCond == ~isWrite /\ readCount = 0

Cond(t) == IF want[t] = "read" THEN isReadCond ELSE isWriteCond

Holders(m) == {t \in Threads : held[t] = m}
Sleepers   == {t \in Threads : place[t] = "waiting"}

(* What notifyAll leaves of a map from threads to places. *)
Woken(f) == [t \in Threads |-> IF f[t] = "waiting" THEN "awake" ELSE f[t]]

notifyAll == place' = Woken(place)

Begin(t, m) ==
  /\ place' = [place EXCEPT ![t] = "enter"]
  /\ want' = [want EXCEPT ![t] = m]
  /\ UNCHANGED <<isWrite, readCount, held>>

(* readLock, writeLock: the call ... *)
readLock(t)  == place[t] = "run" /\ held[t] = "none" /\ Begin(t, "read")
writeLock(t) == place[t] = "run" /\ held[t] = "none" /\ Begin(t, "write")

(* ... and what it does once its condition holds. *)
Grant(t) ==
  /\ Cond(t)
  /\ place' = [place EXCEPT ![t] = "run"]
  /\ held' = [held EXCEPT ![t] = want[t]]
  /\ \/ /\ want[t] = "read"
        /\ readCount' = readCount + 1 /\ isWrite' = isWrite
     \/ /\ want[t] = "write"
        /\ isWrite' = TRUE /\ readCount' = readCount
  /\ want' = want

FallAsleep(t) ==
  /\ ~Cond(t)
  /\ place' = [place EXCEPT ![t] = "waiting"]
  /\ UNCHANGED <<isWrite, readCount, want, held>>

(* _cond.wait(lck, pred): tried on entry and after every wake-up. *)
Attempt(t) == place[t] \in {"enter", "awake"} /\ (Grant(t) \/ FallAsleep(t))

SpuriousWake(t) ==
  /\ place[t] = "waiting"
  /\ place' = [place EXCEPT ![t] = "awake"]
  /\ UNCHANGED <<isWrite, readCount, want, held>>

(* tryReadLock, tryWriteLock.  wait_for(0s) normally reports a timeout and
   the call returns false whatever the state of the lock (no change); only
   when it reports a wake-up is the condition looked at. *)
tryReadLock(t) ==
  /\ place[t] = "run" /\ held[t] = "none"
  /\ isReadCond
  /\ readCount' = readCount + 1
  /\ held' = [held EXCEPT ![t] = "read"]
  /\ UNCHANGED <<isWrite, place, want>>

tryWriteLock(t) ==
  /\ place[t] = "run" /\ held[t] = "none"
  /\ isWriteCond
  /\ isWrite' = TRUE
  /\ held' = [held EXCEPT ![t] = "write"]
  /\ UNCHANGED <<readCount, place, want>>

(* Mutant of unReadLock: it wakes nobody. *)
unReadLockSilent(t) ==
  /\ place[t] = "run" /\ held[t] = "read"
  /\ readCount' = readCount - 1
  /\ held' = [held EXCEPT ![t] = "none"]
  /\ UNCHANGED <<isWrite, place, want>>

(* unReadLock; also the destructor of YS_RLock. *)
unReadLock(t) ==
  /\ place[t] = "run" /\ held[t] = "read"
  /\ readCount' = readCount - 1
  /\ held' = [held EXCEPT ![t] = "none"]
  /\ notifyAll
  /\ UNCHANGED <<isWrite, want>>

(* Mutant of unWriteLock: the writer stays inside as a reader. *)
unWriteLockDowngrades(t) ==
  /\ place[t] = "run" /\ held[t] = "write" /\ t \notin WScoped
  /\ isWrite' = FALSE
  /\ readCount' = readCount + 1
  /\ held' = [held EXCEPT ![t] = "read"]
  /\ notifyAll
  /\ UNCHANGED want

unWriteLock(t) ==
  /\ place[t] = "run" /\ held[t] = "write" /\ t \notin WScoped
  /\ isWrite' = FALSE
  /\ held' = [held EXCEPT ![t] = "none"]
  /\ notifyAll
  /\ UNCHANGED <<readCount, want>>

(* The destructor of YS_WLock calls writeLock(), not unWriteLock(). *)
dtorWLock(t) ==
  /\ place[t] = "run" /\ held[t] = "write" /\ t \in WScoped
  /\ Begin(t, "write")

Release(t) == unReadLock(t) \/ unWriteLock(t) \/ dtorWLock(t)

----------------------------------------------------------------------------
LockInit ==
  /\ isWrite = FALSE /\ readCount = 0
  /\ place = [t \in Threads |-> "run"]
  /\ want = [t \in Threads |-> "read"]
  /\ held = [t \in Threads |-> "none"]

LockNext ==
  \E t \in Threads :
    \/ readLock(t) \/ writeLock(t)
    \/ tryReadLock(t) \/ tryWriteLock(t)
    \/ Attempt(t) \/ SpuriousWake(t)
    \/ Release(t)

LockSpec == LockInit /\ [][LockNext]_lockVars

(* The scheduler runs every runnable thread, and critical sections end: the
   wait for a lock is hopeless otherwise.  Nobody is obliged to ask. *)
FairLockSpec ==
  /\ LockSpec
  /\ \A t \in Threads : WF_lockVars(Attempt(t)) /\ WF_lockVars(Release(t))

----------------------------------------------------------------------------
(* Properties.                                                             *)

LockTypeOK ==
  /\ isWrite \in BOOLEAN
  /\ readCount \in Nat
  /\ place \in [Threads -> {"run", "enter", "waiting", "awake"}]
  /\ want \in [Threads -> {"read", "write"}]
  /\ held \in [Threads -> {"none", "read", "write"}]

(* What a readers-writer lock is for: a writer excludes everybody else, and
   the two fields say exactly who is inside (so _readCount, a size_t, never
   wraps below zero in unReadLock). *)
Exclusion ==
  /\ \A t, u \in Holders("write") : t = u
  /\ Holders("write") # {} => Holders("read") = {}
  /\ isWrite <=> Holders("write") # {}
  /\ readCount = Cardinality(Holders("read"))

(* The lock implements the abstract readers-writer lock, threads that hold a
   lock being the ones inside: the flag, the counter, the condition variable
   and the try variants let nobody in or out at another moment. *)
RW == INSTANCE RWLock WITH inside <- held
ImplementsRWLock == RW!Spec

(* No lost wake-up: whoever sleeps has a reason to, in spite of the single
   condition variable shared by readers and writers. *)
SleepersBlocked == \A t \in Sleepers : ~Cond(t)

(* A YS_WLock is being destroyed: its thread waits for itself. *)
Stuck == \E t \in WScoped : held[t] = "write" /\ place[t] # "run"

(* A thread that asks is not left with a free lock: somebody gets it, unless the
   holder is stuck in the destructor of YS_WLock. *)
LockProgress ==
  (\E t \in Threads : place[t] # "run")
    ~> (Stuck \/ \E t \in Threads : place[t] = "run" /\ held[t] # "none")
=============================================================================
