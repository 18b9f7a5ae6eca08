--------------------------- MODULE RdsPoolProofs ---------------------------
(***************************************************************************)
(* Proofs that the Redis pool neither shares, loses nor multiplies its     *)
(* connections (RdsPool!ConnsKept) and that a command runs once, on an     *)
(* authenticated connection, unless a connection failed                    *)
(* (RdsPool!CommandsRight), for any number of threads.                     *)
(***************************************************************************)
EXTENDS RdsPool, SequenceTheorems, FiniteSetTheorems, TLAPS

Connecting == {t \in Threads : pc[t] = "connect"}
Users == {t \in Threads : conn[t] # 0}
InUse == {conn[t] : t \in Threads} \ {0}

Distinct(q) == \A i, j \in 1..Len(q) : q[i] = q[j] => i = j

(* Ids not yet given out are not open. *)
Fresh == \A c \in Ids : c > made => st[c] = "none"

(* A thread that found the queue empty counts as the owner of the connection
   it is about to open.  ConnsBounded alone is not inductive: nothing in it
   stops a thread from connecting while the queue is full of connections. *)
RoomToConnect ==
  Cardinality(Open) + Cardinality(Connecting) <= Cardinality(Threads)

ConnInv == ConnsKept /\ Fresh /\ RoomToConnect

HistoryTypes ==
  /\ ran \in [Threads -> Nat] /\ cutOff \subseteq Threads
  /\ res \in [Threads -> {"none", "null", "ok", "NOAUTH"}]

(* Until its command is answered a call has run nothing, unless its connection
   failed. *)
RunInv ==
  /\ HistoryTypes /\ RunOnce
  /\ \A t \in Threads :
       pc[t] \in {"connect", "auth", "query", "reconnect"} /\ t \notin cutOff => ran[t] = 0

(* The connections that wait are as good as those in use. *)
AuthInv ==
  pwd => /\ Range(que) \subseteq authed \cup moved
         /\ \A t \in Threads :
              pc[t] \in {"query", "reconnect", "push"} => conn[t] \in authed \cup moved

CommandInv == RunInv /\ AuthInv

----------------------------------------------------------------------------
(* Lemmas on the queue.                                                    *)

(* Pushing a new element adds it to the elements and keeps them distinct. *)
LEMMA PushFacts ==
  ASSUME NEW S, NEW q \in Seq(S), NEW e \in S
  PROVE  /\ Append(q, e) \in Seq(S)
         /\ Range(Append(q, e)) = Range(q) \cup {e}
         /\ Distinct(q) /\ e \notin Range(q) => Distinct(Append(q, e))
<1>1. /\ Append(q, e) \in Seq(S) /\ Len(Append(q, e)) = Len(q) + 1
      /\ \A i \in 1..Len(q) : Append(q, e)[i] = q[i]
      /\ Append(q, e)[Len(q) + 1] = e
  BY AppendProperties
<1>2. /\ DOMAIN q = 1..Len(q) /\ Len(q) \in Nat
      /\ DOMAIN Append(q, e) = 1..(Len(q) + 1)
  BY <1>1, LenProperties
<1>3. Range(Append(q, e)) = Range(q) \cup {e}
  BY <1>1, <1>2 DEF Range
<1>4. Distinct(q) /\ e \notin Range(q) => Distinct(Append(q, e))
  BY <1>1, <1>2 DEF Range, Distinct
<1> QED BY <1>1, <1>3, <1>4

(* Popping takes the head out of the elements. *)
LEMMA PopFacts ==
  ASSUME NEW S, NEW q \in Seq(S), q # <<>>, Distinct(q)
  PROVE  /\ Tail(q) \in Seq(S) /\ Head(q) \in S
         /\ Head(q) \in Range(q)
         /\ Range(Tail(q)) = Range(q) \ {Head(q)}
         /\ Distinct(Tail(q))
<1>1. /\ Head(q) \in S /\ Tail(q) \in Seq(S)
      /\ Len(Tail(q)) = Len(q) - 1
      /\ \A i \in 1..Len(Tail(q)) : Tail(q)[i] = q[i + 1]
      /\ Head(q) = q[1]
  BY HeadTailProperties
<1>2. /\ DOMAIN q = 1..Len(q) /\ Len(q) \in Nat /\ Len(q) # 0
      /\ DOMAIN Tail(q) = 1..(Len(q) - 1)
  BY <1>1, LenProperties, EmptySeq
<1>3. Head(q) \in Range(q)
  BY <1>1, <1>2 DEF Range
<1>4. Range(Tail(q)) \subseteq Range(q) \ {Head(q)}
  <2>1. SUFFICES ASSUME NEW v \in Range(Tail(q)) PROVE v \in Range(q) \ {Head(q)}
    OBVIOUS
  <2>2. PICK i \in 1..(Len(q) - 1) : v = q[i + 1]
    BY <1>1, <1>2, <2>1 DEF Range
  <2>3. i + 1 \in DOMAIN q /\ i + 1 # 1 /\ 1 \in DOMAIN q
    BY <1>2
  <2> QED BY <1>1, <1>2, <2>2, <2>3 DEF Range, Distinct
<1>5. Range(q) \ {Head(q)} \subseteq Range(Tail(q))
  <2>1. SUFFICES ASSUME NEW v \in Range(q) \ {Head(q)} PROVE v \in Range(Tail(q))
    OBVIOUS
  <2>2. PICK i \in 1..Len(q) : v = q[i]
    BY <1>2, <2>1 DEF Range
  <2>3. i - 1 \in 1..(Len(q) - 1) /\ (i - 1) + 1 = i
    BY <1>1, <1>2, <2>1, <2>2
  <2>4. Tail(q)[i - 1] = v
    BY <1>1, <1>2, <2>2, <2>3
  <2> QED BY <1>2, <2>3, <2>4 DEF Range
<1>6. Distinct(Tail(q))
  BY <1>1, <1>2 DEF Distinct
<1> QED BY <1>1, <1>3, <1>4, <1>5, <1>6

(* A queue without duplicates is no longer than the set of its elements. *)
LEMMA DistinctLen ==
  ASSUME NEW q \in Seq(Ids), Distinct(q)
  PROVE  Len(q) <= MaxConn
<1>1. Len(q) \in Nat /\ DOMAIN q = 1..Len(q) /\ \A i \in 1..Len(q) : q[i] \in Ids
  BY LenProperties, ElementOfSeq
<1> DEFINE f == [i \in 1..Len(q) |-> q[i]]
<1>2. f \in Injection(1..Len(q), Ids)
  BY <1>1 DEF Distinct, Injection, IsInjective
<1>3. IsFiniteSet(Ids) /\ Cardinality(Ids) = MaxConn
  BY FS_Interval, RdsPoolAssumption DEF Ids
<1>4. \A n \in Nat : Cardinality(1..n) = n
  BY FS_Interval
<1>5. Cardinality(1..Len(q)) <= Cardinality(Ids)
  <2> HIDE DEF f
  <2> QED BY <1>2, <1>3, FS_Injection
<1> QED BY <1>1, <1>3, <1>4, <1>5
----------------------------------------------------------------------------
(* The connections, but for their number.                                  *)

Shape == TypeOK /\ OneUser /\ Open = Range(que) \cup InUse /\ Fresh

LEMMA ShapeInit == Init => Shape
<1> SUFFICES ASSUME Init PROVE Shape
  OBVIOUS
<1>1. que \in Seq(Ids) /\ Len(que) = 0 /\ Range(que) = {}
  BY EmptySeq, LenProperties DEF Init, Range
<1>2. TypeOK
  BY <1>1, RdsPoolAssumption DEF Init, TypeOK
<1> QED BY <1>1, <1>2 DEF Init, Shape, OneUser, Open, InUse, Fresh

(* A step that moves no connection, opens none and closes none. *)
LEMMA SameConns ==
  ASSUME Shape, UNCHANGED <<pwd, que, conn, made>>,
         authed' \subseteq Ids, moved' \subseteq Ids,
         st' \in [Ids -> {"none", "up", "broken", "dead", "mute"}],
         pc' \in [Threads -> {"idle", "connect", "auth", "query", "reconnect", "push"}],
         \A c \in Ids : st'[c] = "none" <=> st[c] = "none",
         \A t \in Threads : pc'[t] \in {"idle", "connect"} <=> pc[t] \in {"idle", "connect"}
  PROVE  Shape' /\ Open' = Open
<1>1. TypeOK'
  BY DEF Shape, TypeOK
<1>2. Open' = Open /\ OneUser' /\ InUse' = InUse /\ Fresh'
  BY DEF Shape, OneUser, Open, InUse, Fresh
<1> QED BY <1>1, <1>2 DEF Shape

LEMMA ShapeStep == Shape /\ [Next]_vars => Shape'
<1> SUFFICES ASSUME Shape, [Next]_vars PROVE Shape'
  OBVIOUS
<1>a. TypeOK /\ OneUser /\ Open = Range(que) \cup InUse /\ Fresh
  BY DEF Shape
<1>b. Distinct(que)
  BY <1>a DEF OneUser, Distinct
<1>1. ASSUME NEW t \in Threads, Call(t) PROVE Shape'
  <2>1. CASE que # <<>>
    <3>1. /\ conn' = [conn EXCEPT ![t] = Head(que)] /\ que' = Tail(que)
          /\ pc' = [pc EXCEPT ![t] = "query"] /\ pc[t] = "idle"
          /\ UNCHANGED <<pwd, st, authed, moved, made>>
      BY <1>1, <2>1 DEF Call, pop, Goto
    <3>2. /\ Tail(que) \in Seq(Ids) /\ Head(que) \in Ids
          /\ Head(que) \in Range(que)
          /\ Range(que') = Range(que) \ {Head(que)}
          /\ Distinct(que')
      BY <1>a, <1>b, <2>1, <3>1, PopFacts DEF TypeOK
    <3>3. Len(que') <= MaxConn
      BY <3>1, <3>2, DistinctLen
    <3>4. TypeOK'
      BY <1>a, <3>1, <3>2, <3>3 DEF TypeOK, Ids
    <3>5. InUse' = InUse \cup {Head(que)}
      BY <1>a, <3>1, <3>2 DEF TypeOK, InUse, Ids
    <3>6. OneUser'
      BY <1>a, <3>1, <3>2 DEF TypeOK, OneUser, Distinct, Ids
    <3>7. Open' = Open /\ Fresh'
      BY <1>a, <3>1 DEF Open, Fresh
    <3> QED BY <1>a, <3>2, <3>4, <3>5, <3>6, <3>7 DEF Shape
  <2>2. CASE que = <<>>
    <3>1. /\ pc' = [pc EXCEPT ![t] = "connect"] /\ pc[t] = "idle"
          /\ UNCHANGED <<que, conn, pwd, st, authed, moved, made>>
      BY <1>1, <2>2 DEF Call, pop, Goto
    <3> QED BY <1>a, <3>1, SameConns DEF TypeOK
  <2> QED BY <2>1, <2>2
<1>2. ASSUME NEW t \in Threads, connect(t) PROVE Shape'
  <2>1. /\ pc[t] = "connect" /\ made < MaxConn /\ made' = made + 1
        /\ st' = [st EXCEPT ![made'] = "up"]
        /\ conn' = [conn EXCEPT ![t] = made']
        /\ pc' = [pc EXCEPT ![t] = IF pwd THEN "auth" ELSE "query"]
        /\ UNCHANGED <<pwd, que, authed, moved>>
    BY <1>2 DEF connect, Goto
  <2>2. made' \in Ids /\ made' # 0 /\ made' > made /\ conn[t] = 0 /\ made' \in Nat
    BY <1>a, <2>1, RdsPoolAssumption DEF TypeOK, Ids
  <2>3. made' \notin Open
    BY <1>a, <2>2 DEF Fresh, Open
  <2>4. made' \notin Range(que) /\ made' \notin InUse
    BY <1>a, <2>3
  <2>5. TypeOK'
    BY <1>a, <2>1, <2>2 DEF TypeOK, Ids
  <2>6. InUse' = InUse \cup {made'}
    BY <1>a, <2>1, <2>2 DEF TypeOK, InUse
  <2>7. OneUser'
    BY <1>a, <2>1, <2>2, <2>4 DEF TypeOK, InUse, OneUser
  <2>8. Open' = Open \cup {made'}
    BY <1>a, <2>1, <2>2 DEF TypeOK, Open
  <2>9. Fresh'
    <3> SUFFICES ASSUME NEW c \in Ids, c > made' PROVE st'[c] = "none"
      BY DEF Fresh
    <3>1. c > made /\ c # made'
      BY <1>a, <2>1, RdsPoolAssumption DEF Ids, TypeOK
    <3> QED BY <1>a, <2>1, <3>1 DEF Fresh, TypeOK
  <2> QED BY <1>a, <2>1, <2>5, <2>6, <2>7, <2>8, <2>9 DEF Shape
<1>3. ASSUME NEW t \in Threads, connectNull(t) PROVE Shape'
  BY <1>a, <1>3, SameConns DEF connectNull, NoConn, Goto, TypeOK
<1>4. ASSUME NEW t \in Threads, connectRefused(t) PROVE Shape'
  BY <1>a, <1>4, SameConns DEF connectRefused, TypeOK
<1>5. ASSUME NEW t \in Threads, auth(t) PROVE Shape'
  <2>0. conn[t] \in Ids /\ conn[t] # 0
    BY <1>a, <1>5 DEF auth, TypeOK, Ids
  <2>1. CASE /\ st[conn[t]] = "up" /\ authed' = authed \cup {conn[t]}
             /\ pc' = [pc EXCEPT ![t] = "query"] /\ UNCHANGED <<conn, st>>
    BY <1>a, <1>5, <2>0, <2>1, SameConns DEF auth, TypeOK
  <2>2. CASE /\ pc' = [pc EXCEPT ![t] = "idle"] /\ st' = [st EXCEPT ![conn[t]] = "none"]
             /\ conn' = [conn EXCEPT ![t] = 0] /\ UNCHANGED authed
    <3>0. UNCHANGED <<pwd, que, moved, made>>
      BY <1>5 DEF auth
    <3>1. TypeOK'
      BY <1>a, <2>0, <2>2, <3>0, RdsPoolAssumption DEF TypeOK
    <3>2. InUse' = InUse \ {conn[t]}
      BY <1>a, <2>0, <2>2 DEF TypeOK, InUse, OneUser
    <3>3. Open' = Open \ {conn[t]}
      BY <1>a, <2>0, <2>2 DEF TypeOK, Open
    <3>4. conn[t] \notin Range(que) /\ 0 \notin Range(que)
      <4>1. Range(que) \subseteq Ids
        BY <1>a DEF Open
      <4> QED BY <1>a, <4>1 DEF OneUser, Ids
    <3>5. OneUser' /\ Fresh'
      BY <1>a, <2>0, <2>2, <3>0, <3>4 DEF OneUser, Fresh, TypeOK
    <3> QED BY <1>a, <3>0, <3>1, <3>2, <3>3, <3>4, <3>5 DEF Shape
  <2> QED BY <1>5, <2>1, <2>2 DEF auth, Goto
<1>6. ASSUME NEW c \in Ids, Break(c) PROVE Shape'
  BY <1>a, <1>6, SameConns DEF Break, TypeOK
<1>14. ASSUME NEW c \in Ids, Mute(c) PROVE Shape'
  BY <1>a, <1>14, SameConns DEF Mute, TypeOK
<1>7. ASSUME NEW t \in Threads, query(t) PROVE Shape'
  BY <1>a, <1>7, SameConns DEF query, reply, Goto, TypeOK
<1>8. ASSUME NEW t \in Threads, NEW how \in {"broken", "dead", "mute"}, queryCut(t, how)
      PROVE  Shape'
  BY <1>a, <1>8, SameConns DEF queryCut, TypeOK
<1>9. ASSUME NEW t \in Threads, queryNull(t) PROVE Shape'
  BY <1>a, <1>9, SameConns DEF queryNull, Goto, TypeOK
<1>10. ASSUME NEW t \in Threads, reconnect(t) PROVE Shape'
  <2>1. conn[t] \in Ids /\ st[conn[t]] # "none"
    <3>1. conn[t] \in InUse
      BY <1>a, <1>10 DEF reconnect, TypeOK, InUse
    <3> QED BY <1>a, <3>1 DEF Open
  <2> QED BY <1>a, <1>10, <2>1, SameConns DEF reconnect, Goto, TypeOK
<1>11. ASSUME NEW t \in Threads, reconnectFails(t) PROVE Shape'
  BY <1>a, <1>11, SameConns DEF reconnectFails, Goto, TypeOK
<1>12. ASSUME NEW t \in Threads, Return(t) PROVE Shape'
  <2>1. /\ pc[t] = "push" /\ que' = Append(que, conn[t])
        /\ conn' = [conn EXCEPT ![t] = 0] /\ pc' = [pc EXCEPT ![t] = "idle"]
        /\ UNCHANGED <<pwd, st, authed, moved, made>>
    BY <1>12 DEF Return, push, Goto
  <2>2. conn[t] \in Ids /\ conn[t] # 0 /\ conn[t] \notin Range(que)
    BY <1>a, <2>1 DEF TypeOK, OneUser, Ids
  <2>3. /\ que' \in Seq(Ids) /\ Range(que') = Range(que) \cup {conn[t]}
        /\ Distinct(que')
    BY <1>a, <1>b, <2>1, <2>2, PushFacts DEF TypeOK
  <2>4. Len(que') <= MaxConn
    BY <2>3, DistinctLen
  <2>5. TypeOK'
    BY <1>a, <2>1, <2>2, <2>3, <2>4, RdsPoolAssumption DEF TypeOK
  <2>6. InUse' = InUse \ {conn[t]}
    BY <1>a, <2>1, <2>2 DEF TypeOK, InUse, OneUser
  <2>7. 0 \notin Range(que') /\ \A u \in Threads : u # t => conn[u] \notin Range(que')
    <3>1. Range(que) \subseteq Ids
      BY <1>a DEF Open
    <3> QED BY <1>a, <2>2, <2>3, <3>1 DEF OneUser, Ids
  <2>8. OneUser'
    BY <1>a, <2>1, <2>3, <2>7 DEF TypeOK, OneUser, Distinct
  <2>9. Open' = Open /\ Fresh' /\ conn[t] \in InUse
    BY <1>a, <2>1, <2>2 DEF Open, Fresh, InUse
  <2> QED BY <1>a, <2>3, <2>5, <2>6, <2>8, <2>9 DEF Shape
<1>13. ASSUME UNCHANGED vars PROVE Shape'
  BY <1>a, <1>13, SameConns DEF vars, TypeOK
<1> QED BY <1>1, <1>2, <1>3, <1>4, <1>5, <1>6, <1>7, <1>8, <1>9, <1>10, <1>11, <1>12,
           <1>13, <1>14 DEF Next, Step, Fault
----------------------------------------------------------------------------
(* The number of connections.                                              *)

LEMMA Finite ==
  ASSUME Shape
  PROVE  /\ IsFiniteSet(Threads) /\ Cardinality(Threads) \in Nat
         /\ IsFiniteSet(Open) /\ Cardinality(Open) \in Nat
         /\ IsFiniteSet(Connecting) /\ Cardinality(Connecting) \in Nat
         /\ IsFiniteSet(Users) /\ Cardinality(Users) \in Nat
<1>1. IsFiniteSet(Threads) /\ IsFiniteSet(Ids)
  BY RdsPoolAssumption, FS_Interval DEF Ids
<1>2. Open \in SUBSET Ids /\ Connecting \in SUBSET Threads /\ Users \in SUBSET Threads
  BY DEF Open, Connecting, Users
<1>3. IsFiniteSet(Open) /\ IsFiniteSet(Connecting) /\ IsFiniteSet(Users)
  BY <1>1, <1>2, FS_Subset
<1> QED BY <1>1, <1>3, FS_CardinalityType

(* With an empty queue, every open connection has a user. *)
LEMMA EachHasUser ==
  ASSUME Shape, que = <<>>
  PROVE  Cardinality(Open) <= Cardinality(Users)
<1>1. Range(que) = {}
  BY EmptySeq DEF Range
<1>2. Open = InUse
  BY <1>1 DEF Shape
<1> DEFINE f == [t \in Users |-> conn[t]]
<1>3. f \in Surjection(Users, Open)
  BY <1>2 DEF Surjection, Users, InUse
<1>4. IsFiniteSet(Users)
  BY Finite
<1> HIDE DEF f
<1> QED BY <1>3, <1>4, FS_Surjection

(* Users and the threads that connect are different threads. *)
LEMMA UsersAndConnecting ==
  Shape => Cardinality(Users) + Cardinality(Connecting) <= Cardinality(Threads)
<1> SUFFICES ASSUME Shape
             PROVE  Cardinality(Users) + Cardinality(Connecting) <= Cardinality(Threads)
  OBVIOUS
<1>1. Users \cap Connecting = {}
  BY DEF Shape, TypeOK, Users, Connecting
<1>2. Users \cup Connecting \in SUBSET Threads
  BY DEF Users, Connecting
<1>3. Cardinality(Users \cup Connecting)
        = Cardinality(Users) + Cardinality(Connecting) - Cardinality({})
  BY <1>1, Finite, FS_Union
<1>4. Cardinality(Users \cup Connecting) <= Cardinality(Threads)
  BY <1>2, Finite, FS_Subset
<1> QED BY <1>3, <1>4, Finite, FS_EmptySet

(* A step that opens no connection and lets nobody begin to connect. *)
LEMMA RoomKept ==
  ASSUME Shape, Shape', RoomToConnect,
         Open' \subseteq Open, Connecting' \subseteq Connecting
  PROVE  RoomToConnect'
<1>1. Cardinality(Open') <= Cardinality(Open) /\ Cardinality(Open') \in Nat
  BY Finite, FS_Subset, FS_CardinalityType
<1>2. Cardinality(Connecting') <= Cardinality(Connecting) /\ Cardinality(Connecting') \in Nat
  BY Finite, FS_Subset, FS_CardinalityType
<1> QED BY <1>1, <1>2, Finite DEF RoomToConnect

LEMMA RoomStep == Shape /\ Shape' /\ RoomToConnect /\ [Next]_vars => RoomToConnect'
<1> SUFFICES ASSUME Shape, Shape', RoomToConnect, [Next]_vars PROVE RoomToConnect'
  OBVIOUS
<1>a. TypeOK /\ TypeOK'
  BY DEF Shape
<1>1. ASSUME NEW t \in Threads, Call(t) PROVE RoomToConnect'
  <2>1. CASE que = <<>>
    <3>1. UNCHANGED <<que, st, conn>>
      BY <1>1, <2>1 DEF Call, pop
    <3>2. Open' = Open /\ Users' = Users
      BY <3>1 DEF Open, Users
    <3>3. Cardinality(Users') + Cardinality(Connecting') <= Cardinality(Threads)
      <4>1. (Shape => Cardinality(Users) + Cardinality(Connecting) <= Cardinality(Threads))'
        BY UsersAndConnecting, PTL
      <4> QED BY <4>1
    <3>4. Cardinality(Open) <= Cardinality(Users)
      BY <2>1, EachHasUser
    <3>5. Connecting' \in SUBSET Threads
      BY DEF Connecting
    <3>6. Cardinality(Connecting') \in Nat
      BY <3>5, Finite, FS_Subset, FS_CardinalityType
    <3> QED BY <3>2, <3>3, <3>4, <3>6, Finite DEF RoomToConnect
  <2>2. CASE que # <<>>
    <3>1. Open' \subseteq Open /\ Connecting' \subseteq Connecting
      BY <1>a, <1>1, <2>2 DEF Call, pop, Goto, Open, Connecting, TypeOK
    <3> QED BY <3>1, RoomKept
  <2> QED BY <2>1, <2>2
<1>2. ASSUME NEW t \in Threads, connect(t) PROVE RoomToConnect'
  <2>1. t \in Connecting /\ Connecting' = Connecting \ {t}
    BY <1>a, <1>2 DEF connect, Goto, Connecting, TypeOK
  <2>2. Open' = Open \cup {made'}
    BY <1>a, <1>2 DEF connect, Open, TypeOK, Ids
  <2>3. Cardinality(Connecting') = Cardinality(Connecting) - 1
    BY <2>1, Finite, FS_RemoveElement
  <2>4. Cardinality(Open') <= Cardinality(Open) + 1 /\ Cardinality(Open') \in Nat
    <3>1. Cardinality(Open \cup {made'})
            = IF made' \in Open THEN Cardinality(Open) ELSE Cardinality(Open) + 1
      BY Finite, FS_AddElement
    <3> QED BY <2>2, <3>1, Finite
  <2> QED BY <2>3, <2>4, Finite DEF RoomToConnect
<1>3. ASSUME Open' \subseteq Open, Connecting' \subseteq Connecting PROVE RoomToConnect'
  BY <1>3, RoomKept
<1>4. ASSUME NEW t \in Threads, connectNull(t) PROVE RoomToConnect'
  BY <1>a, <1>3, <1>4 DEF connectNull, NoConn, Goto, Open, Connecting, TypeOK
<1>5. ASSUME NEW t \in Threads, connectRefused(t) PROVE RoomToConnect'
  BY <1>3, <1>5 DEF connectRefused, Open, Connecting
<1>6. ASSUME NEW t \in Threads, auth(t) PROVE RoomToConnect'
  BY <1>a, <1>3, <1>6 DEF auth, Goto, Open, Connecting, TypeOK
<1>7. ASSUME NEW c \in Ids, Break(c) PROVE RoomToConnect'
  BY <1>a, <1>3, <1>7 DEF Break, Open, Connecting, TypeOK
<1>15. ASSUME NEW c \in Ids, Mute(c) PROVE RoomToConnect'
  BY <1>a, <1>3, <1>15 DEF Mute, Open, Connecting, TypeOK
<1>8. ASSUME NEW t \in Threads, query(t) PROVE RoomToConnect'
  BY <1>a, <1>3, <1>8 DEF query, reply, Goto, Open, Connecting, TypeOK
<1>9. ASSUME NEW t \in Threads, NEW how \in {"broken", "dead", "mute"}, queryCut(t, how)
      PROVE  RoomToConnect'
  BY <1>a, <1>3, <1>9 DEF queryCut, Open, Connecting, TypeOK
<1>10. ASSUME NEW t \in Threads, queryNull(t) PROVE RoomToConnect'
  BY <1>a, <1>3, <1>10 DEF queryNull, Goto, Open, Connecting, TypeOK
<1>11. ASSUME NEW t \in Threads, reconnect(t) PROVE RoomToConnect'
  <2>1. conn[t] \in InUse
    BY <1>a, <1>11 DEF reconnect, TypeOK, InUse
  <2>2. conn[t] \in Open
    BY <2>1 DEF Shape
  <2> QED BY <1>a, <1>3, <1>11, <2>2 DEF reconnect, Goto, Open, Connecting, TypeOK
<1>12. ASSUME NEW t \in Threads, reconnectFails(t) PROVE RoomToConnect'
  BY <1>a, <1>3, <1>12 DEF reconnectFails, Goto, Open, Connecting, TypeOK
<1>13. ASSUME NEW t \in Threads, Return(t) PROVE RoomToConnect'
  BY <1>a, <1>3, <1>13 DEF Return, Goto, Open, Connecting, TypeOK
<1>14. ASSUME UNCHANGED vars PROVE RoomToConnect'
  BY <1>3, <1>14 DEF vars, Open, Connecting
<1> QED BY <1>1, <1>2, <1>4, <1>5, <1>6, <1>7, <1>8, <1>9, <1>10, <1>11, <1>12, <1>13,
           <1>14, <1>15 DEF Next, Step, Fault

LEMMA ConnInvSplit == ConnInv <=> Shape /\ RoomToConnect
<1>1. Shape /\ RoomToConnect => Cardinality(Open) <= Cardinality(Threads)
  BY Finite DEF RoomToConnect
<1> QED BY <1>1 DEF ConnInv, ConnsKept, ConnsBounded, Shape, InUse

LEMMA ConnInvInit == Init => Shape /\ RoomToConnect
<1> SUFFICES ASSUME Init PROVE RoomToConnect
  BY ShapeInit
<1>1. Open = {} /\ Connecting = {} /\ Shape
  BY ShapeInit DEF Init, Open, Connecting
<1> QED BY <1>1, FS_EmptySet, Finite DEF RoomToConnect

(* The Redis pool neither shares, loses nor multiplies its connections: a
   connection has one user, an open one is in use or waits in the queue, once,
   and there are never more than threads, although pop decides to open one on a
   queue that others fill meanwhile. *)
THEOREM ConnectionsKept == Spec => []ConnsKept
<1>1. Init => Shape /\ RoomToConnect
  BY ConnInvInit
<1>2. Shape /\ RoomToConnect /\ [Next]_vars => (Shape /\ RoomToConnect)'
  BY ShapeStep, RoomStep
<1>3. Shape /\ RoomToConnect => ConnsKept
  BY ConnInvSplit DEF ConnInv
<1> QED BY <1>1, <1>2, <1>3, PTL DEF Spec
----------------------------------------------------------------------------
(* Commands.                                                               *)

LEMMA CommandInit == Init => CommandInv
<1> SUFFICES ASSUME Init PROVE CommandInv
  OBVIOUS
<1>1. Range(que) = {}
  BY EmptySeq DEF Init, Range
<1> QED BY <1>1 DEF Init, CommandInv, RunInv, HistoryTypes, RunOnce, AuthInv

LEMMA RunStep == TypeOK /\ RunInv /\ [Next]_vars => RunInv'
<1> SUFFICES ASSUME TypeOK, RunInv, [Next]_vars PROVE RunInv'
  OBVIOUS
<1>a. pc \in [Threads -> {"idle", "connect", "auth", "query", "reconnect", "push"}]
  BY DEF TypeOK
<1> USE DEF RunInv, HistoryTypes, RunOnce
<1>1. ASSUME NEW t \in Threads, Call(t) PROVE RunInv'
  BY <1>a, <1>1 DEF Call, pop, Goto
<1>2. ASSUME NEW t \in Threads, connect(t) PROVE RunInv'
  BY <1>a, <1>2 DEF connect, Goto
<1>3. ASSUME NEW t \in Threads, connectNull(t) PROVE RunInv'
  BY <1>a, <1>3 DEF connectNull, NoConn, Goto
<1>4. ASSUME NEW t \in Threads, connectRefused(t) PROVE RunInv'
  BY <1>a, <1>4 DEF connectRefused
<1>5. ASSUME NEW t \in Threads, auth(t) PROVE RunInv'
  BY <1>a, <1>5 DEF auth, Goto
<1>6. ASSUME NEW c \in Ids, Break(c) PROVE RunInv'
  BY <1>6 DEF Break
<1>14. ASSUME NEW c \in Ids, Mute(c) PROVE RunInv'
  BY <1>14 DEF Mute
<1>7. ASSUME NEW t \in Threads, query(t) PROVE RunInv'
  BY <1>a, <1>7 DEF query, reply, Goto
<1>8. ASSUME NEW t \in Threads, NEW how \in {"broken", "dead", "mute"}, queryCut(t, how)
      PROVE  RunInv'
  BY <1>a, <1>8 DEF queryCut
<1>9. ASSUME NEW t \in Threads, queryNull(t) PROVE RunInv'
  BY <1>a, <1>9 DEF queryNull, Goto
<1>10. ASSUME NEW t \in Threads, reconnect(t) PROVE RunInv'
  BY <1>a, <1>10 DEF reconnect, Goto
<1>11. ASSUME NEW t \in Threads, reconnectFails(t) PROVE RunInv'
  BY <1>a, <1>11 DEF reconnectFails, Goto
<1>12. ASSUME NEW t \in Threads, Return(t) PROVE RunInv'
  BY <1>a, <1>12 DEF Return, Goto
<1>13. ASSUME UNCHANGED vars PROVE RunInv'
  BY <1>13 DEF vars
<1> QED BY <1>1, <1>2, <1>3, <1>4, <1>5, <1>6, <1>7, <1>8, <1>9, <1>10, <1>11, <1>12,
           <1>13, <1>14 DEF Next, Step, Fault

LEMMA AuthStep == Shape /\ AuthInv /\ [Next]_vars => AuthInv'
<1> SUFFICES ASSUME Shape, AuthInv, [Next]_vars PROVE AuthInv'
  OBVIOUS
<1>a. TypeOK /\ Distinct(que)
  BY DEF Shape, OneUser, Distinct
<1> USE DEF AuthInv
<1>1. ASSUME NEW t \in Threads, Call(t) PROVE AuthInv'
  <2>1. CASE que # <<>>
    <3>1. Head(que) \in Range(que) /\ Range(Tail(que)) \subseteq Range(que)
      BY <1>a, <2>1, PopFacts DEF TypeOK
    <3> QED BY <1>a, <1>1, <2>1, <3>1 DEF Call, pop, Goto, TypeOK
  <2>2. CASE que = <<>>
    BY <1>a, <1>1, <2>2 DEF Call, pop, Goto, TypeOK
  <2> QED BY <2>1, <2>2
<1>2. ASSUME NEW t \in Threads, connect(t) PROVE AuthInv'
  BY <1>a, <1>2 DEF connect, Goto, TypeOK
<1>3. ASSUME NEW t \in Threads, connectNull(t) PROVE AuthInv'
  BY <1>a, <1>3 DEF connectNull, NoConn, Goto, TypeOK
<1>4. ASSUME NEW t \in Threads, connectRefused(t) PROVE AuthInv'
  BY <1>a, <1>4 DEF connectRefused
<1>5. ASSUME NEW t \in Threads, auth(t) PROVE AuthInv'
  BY <1>a, <1>5 DEF auth, Goto, TypeOK
<1>6. ASSUME NEW c \in Ids, Break(c) PROVE AuthInv'
  BY <1>6 DEF Break
<1>14. ASSUME NEW c \in Ids, Mute(c) PROVE AuthInv'
  BY <1>14 DEF Mute
<1>7. ASSUME NEW t \in Threads, query(t) PROVE AuthInv'
  BY <1>a, <1>7 DEF query, reply, Goto, TypeOK
<1>8. ASSUME NEW t \in Threads, NEW how \in {"broken", "dead", "mute"}, queryCut(t, how)
      PROVE  AuthInv'
  BY <1>a, <1>8 DEF queryCut, TypeOK
<1>9. ASSUME NEW t \in Threads, queryNull(t) PROVE AuthInv'
  BY <1>a, <1>9 DEF queryNull, Goto, TypeOK
<1>10. ASSUME NEW t \in Threads, reconnect(t) PROVE AuthInv'
  BY <1>a, <1>10 DEF reconnect, Goto, TypeOK
<1>11. ASSUME NEW t \in Threads, reconnectFails(t) PROVE AuthInv'
  BY <1>a, <1>11 DEF reconnectFails, Goto, TypeOK
<1>12. ASSUME NEW t \in Threads, Return(t) PROVE AuthInv'
  <2>1. conn[t] \in Ids
    BY <1>a, <1>12, RdsPoolAssumption DEF Return, TypeOK, Ids
  <2>2. Range(que') = Range(que) \cup {conn[t]}
    BY <1>a, <1>12, <2>1, PushFacts DEF Return, push, TypeOK
  <2> QED BY <1>a, <1>12, <2>2 DEF Return, Goto, TypeOK
<1>13. ASSUME UNCHANGED vars PROVE AuthInv'
  BY <1>13 DEF vars
<1> QED BY <1>1, <1>2, <1>3, <1>4, <1>5, <1>6, <1>7, <1>8, <1>9, <1>10, <1>11, <1>12,
           <1>13, <1>14 DEF Next, Step, Fault

(* A call that returns a result has had its command run, and run once unless
   its connection failed, and with a password commands go to authenticated
   connections unless redisReconnect has replaced the connection. *)
THEOREM CommandsCorrect == Spec => []CommandsRight
<1>1. Init => Shape /\ CommandInv
  BY ShapeInit, CommandInit
<1>2. Shape /\ CommandInv /\ [Next]_vars => (Shape /\ CommandInv)'
  BY ShapeStep, RunStep, AuthStep DEF CommandInv, Shape
<1>3. CommandInv => CommandsRight
  BY DEF CommandInv, RunInv, AuthInv, CommandsRight, AuthKept
<1> QED BY <1>1, <1>2, <1>3, PTL DEF Spec

=============================================================================
