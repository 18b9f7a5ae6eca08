----------------------------- MODULE TcpServer -----------------------------
(***************************************************************************)
(* How a TCP server admits connections and spreads them over its network   *)
(* threads: YS_Accepter (isaac/ys_accepter.h), YS_TcpServer::onAccept      *)
(* (ys_tcp_server.h), YS_BusiPool::addConn and connNum (ys_thread_asyn.h). *)
(*                                                                         *)
(* One thread accepts; the network threads remove connections meanwhile.   *)
(* A network thread is reduced to the size of its YS_ConnList (module      *)
(* NetTh has the rest); each getSockNum() is one step, so a total is       *)
(* added up while the numbers change.                                      *)
(***************************************************************************)
EXTENDS Naturals, FiniteSets

CONSTANTS
  N,            \* number of network threads
  MaxConn,      \* _maxConn
  MaxPeers      \* bound: connection requests

ASSUME TcpServerAssumption ==
  N \in Nat \ {0} /\ MaxConn \in Nat /\ MaxPeers \in Nat

VARIABLES
  num,          \* size of each network thread's connection table
  backlog,      \* requests queued in the kernel
  edge,         \* is there an undelivered event on the listening socket?
  peers,        \* requests so far
  pc,           \* where the accepting thread is
  i,            \* its loop variable
  total,        \* its totalConn
  unplaced,     \* history: admitted connections given to no thread
  left,         \* history: has a connection gone away?
  cut           \* history: did an accept that failed end the last loop?

vars == <<num, backlog, edge, peers, pc, i, total, unplaced, left, cut>>

----------------------------------------------------------------------------
(* A peer connects: the listening socket, edge-triggered, becomes readable. *)
Request ==
  /\ peers < MaxPeers
  /\ peers' = peers + 1
  /\ backlog' = backlog + 1
  /\ edge' = TRUE
  /\ UNCHANGED <<num, pc, i, total, unplaced, left, cut>>

(* A network thread drops a connection (onEpollErr, clearClosed). *)
Leave(k) ==
  /\ num[k] > 0
  /\ num' = [num EXCEPT ![k] = @ - 1]
  /\ left' = TRUE
  /\ UNCHANGED <<backlog, edge, peers, pc, i, total, unplaced, cut>>

(* fireOnce delivers the event ... *)
fireOnce ==
  /\ pc = "wait" /\ edge
  /\ edge' = FALSE
  /\ pc' = "accept"
  /\ cut' = FALSE
  /\ UNCHANGED <<num, backlog, peers, i, total, unplaced, left>>

StartSum(l) == pc' = l /\ i' = 1 /\ total' = 0

(* Mutant of acceptOk: one request per event, without the loop. *)
acceptOkOnce ==
  /\ pc = "accept" /\ backlog > 0
  /\ backlog' = backlog - 1
  /\ pc' = "wait"
  /\ UNCHANGED <<num, edge, peers, i, total, unplaced, left, cut>>

(* ... and onEpollIn accepts until YS_Tcp::accept returns nullptr: because no
   request is left, *)
acceptOk ==
  /\ pc = "accept" /\ backlog > 0
  /\ backlog' = backlog - 1
  /\ StartSum("limit")
  /\ UNCHANGED <<num, edge, peers, unplaced, left, cut>>

acceptNull ==
  /\ pc = "accept" /\ backlog = 0
  /\ cut' = FALSE
  /\ pc' = "wait"
  /\ UNCHANGED <<num, backlog, edge, peers, i, total, unplaced, left>>

(* or because ::accept failed with any other errno, or the TLS handshake did.
   The request is gone (ECONNABORTED, a handshake) or still there (EMFILE, EINTR). *)
acceptError ==
  /\ pc = "accept" /\ backlog > 0
  /\ backlog' \in {backlog - 1, backlog}
  /\ cut' = TRUE
  /\ pc' = "wait"
  /\ UNCHANGED <<num, edge, peers, i, total, unplaced, left>>

(* Mutant of connNum: the loop runs one past the end. *)
connNumPastEnd ==
  /\ pc \in {"limit", "total"} /\ i <= N + 1
  /\ total' = total + (IF i <= N THEN num[i] ELSE 0)
  /\ i' = i + 1
  /\ UNCHANGED <<num, backlog, edge, peers, pc, unplaced, left, cut>>

(* connNum(), called by onAccept ("limit") and by addConn ("total"). *)
connNum ==
  /\ pc \in {"limit", "total"} /\ i <= N
  /\ total' = total + num[i]
  /\ i' = i + 1
  /\ UNCHANGED <<num, backlog, edge, peers, pc, unplaced, left, cut>>

(* Mutant of onAccept: off by one. *)
onAcceptOneMore ==
  /\ pc = "limit" /\ i = N + 1
  /\ IF MaxConn >= total
     THEN StartSum("total")
     ELSE pc' = "accept" /\ UNCHANGED <<i, total>>
  /\ UNCHANGED <<num, backlog, edge, peers, unplaced, left, cut>>

(* onAccept: the connection is refused (and closed) at the limit. *)
onAccept ==
  /\ pc = "limit" /\ i = N + 1
  /\ IF MaxConn > total
     THEN StartSum("total")
     ELSE pc' = "accept" /\ UNCHANGED <<i, total>>
  /\ UNCHANGED <<num, backlog, edge, peers, unplaced, left, cut>>

(* Mutants of Chosen: strictly below the average; not divided by N. *)
ChosenStrict == num[i] < total \div N
ChosenAny == num[i] <= total

(* addConn: the first thread that has no more than its share ... *)
Chosen == num[i] <= total \div N

addConnStart ==
  /\ pc = "total" /\ i = N + 1
  /\ pc' = "scan" /\ i' = 1
  /\ UNCHANGED <<num, backlog, edge, peers, total, unplaced, left, cut>>

addConnScan ==
  /\ pc = "scan"
  /\ IF i <= N
     THEN /\ IF Chosen THEN pc' = "add" /\ i' = i ELSE pc' = pc /\ i' = i + 1
          /\ unplaced' = unplaced
     ELSE (* the loop ran out of threads: the connection is dropped *)
          /\ pc' = "accept" /\ i' = i
          /\ unplaced' = unplaced + 1
  /\ UNCHANGED <<num, backlog, edge, peers, total, left, cut>>

(* ... gets it. *)
addConn ==
  /\ pc = "add"
  /\ num' = [num EXCEPT ![i] = @ + 1]
  /\ pc' = "accept"
  /\ UNCHANGED <<backlog, edge, peers, i, total, unplaced, left, cut>>

----------------------------------------------------------------------------
Init ==
  /\ num = [k \in 1..N |-> 0]
  /\ backlog = 0 /\ edge = FALSE /\ peers = 0
  /\ pc = "wait" /\ i = 1 /\ total = 0
  /\ unplaced = 0 /\ left = FALSE /\ cut = FALSE

Accepting ==
  \/ fireOnce \/ acceptOk \/ acceptNull \/ acceptError
  \/ connNum \/ onAccept
  \/ addConnStart \/ addConnScan \/ addConn

Next == Request \/ Accepting \/ \E k \in 1..N : Leave(k)

Spec == Init /\ [][Next]_vars

(* The accepting thread is run whenever it can take a step. *)
FairSpec == Spec /\ WF_vars(Accepting)

----------------------------------------------------------------------------
(* Properties.                                                             *)

TypeOK ==
  /\ num \in [1..N -> Nat]
  /\ backlog \in 0..MaxPeers /\ edge \in BOOLEAN /\ peers \in 0..MaxPeers
  /\ pc \in {"wait", "accept", "limit", "total", "scan", "add"}
  /\ i \in 1..(N + 1) /\ total \in Nat /\ unplaced \in Nat /\ left \in BOOLEAN
  /\ cut \in BOOLEAN

(* The connections of the threads ks, thread k's numbered from 1 to num[k]. *)
Conns(ks) == UNION {{k} \X (1..num[k]) : k \in ks}
Count(ks) == Cardinality(Conns(ks))

(* The limit set with setMaxConnNum is never exceeded, although it is compared
   with a total that is out of date when the connection is added. *)
ConnLimit == Count(1..N) <= MaxConn

(* An admitted connection always finds a thread: addConn compares sizes read
   later with an average computed earlier and has no fallback, so the accepted
   socket would be dropped without a word. *)
AdmittedPlaced == unplaced = 0

(* As long as nobody has left, the threads' loads differ by at most one. *)
Balanced == ~left => \A j, k \in 1..N : num[j] <= num[k] + 1

(* The types, the limit and the balance of the threads. *)
Inv == TypeOK /\ ConnLimit /\ Balanced

(* No request is left in the backlog of the edge-triggered listening socket:
   the accept loop takes them all, also those that arrive while it runs, unless
   an accept that failed ended the loop: YS_Tcp::accept returns the same nullptr
   for that and for "no more", and the rest waits until somebody else connects. *)
BacklogServed == (backlog > 0) ~> (backlog = 0 \/ cut)
=============================================================================
