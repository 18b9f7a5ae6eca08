-------------------------- MODULE TcpServerProofs --------------------------
(***************************************************************************)
(* Proofs about TcpServer, for any number of network threads and any limit: *)
(* the limit is kept, the threads' loads differ by one at most as long as  *)
(* nobody leaves (Inv), and every admitted connection finds a thread       *)
(* (AdmittedPlaced).                                                       *)
(*                                                                         *)
(* The argument: only the accepting thread adds connections, so while it   *)
(* adds up the threads' sizes what it has counted can only shrink, and the *)
(* total it ends with is never too small.  A limit that leaves room in the *)
(* total leaves room in the tables, and one of the threads has no more than *)
(* the average.                                                            *)
(***************************************************************************)
EXTENDS TcpServer, FiniteSetTheorems, TLAPS

(* The connections of the threads ks, when f gives the sizes of the tables. *)
Pairs(f, ks) == UNION {{k} \X (1..f[k]) : k \in ks}

(* What the types do not say of the accepting thread's loop variable and of
   the kernel's queue. *)
Types ==
  /\ TypeOK
  /\ backlog <= peers
  /\ pc = "add" => i <= N

(* A total being added up covers the threads before i; it is exact as long as
   nobody leaves. *)
Summed ==
  pc \in {"limit", "total"} =>
    /\ Count(1..(i - 1)) <= total
    /\ ~left => Count(1..(i - 1)) = total

(* Once onAccept has let a connection through there is room for it. *)
Room == pc \in {"total", "scan", "add"} => Count(1..N) < MaxConn

(* The total addConn compares with, likewise. *)
Average ==
  pc \in {"scan", "add"} =>
    /\ Count(1..N) <= total
    /\ ~left => Count(1..N) = total

(* The scan has not passed every thread that may take the connection, and has
   stopped at one of them. *)
Fits ==
  /\ pc = "scan" => \E k \in i..N : num[k] <= total \div N
  /\ pc = "add" => num[i] <= total \div N

IInv == Types /\ ConnLimit /\ Balanced /\ Summed /\ Room /\ Average /\ Fits /\ AdmittedPlaced

----------------------------------------------------------------------------
(* Lemmas on the number of connections.                                    *)

(* The connections of finitely many threads are finitely many. *)
LEMMA PairsFinite ==
  ASSUME NEW f \in [1..N -> Nat], NEW ks \in SUBSET (1..N)
  PROVE  IsFiniteSet(Pairs(f, ks)) /\ Cardinality(Pairs(f, ks)) \in Nat
<1>1. N \in Nat
  BY TcpServerAssumption
<1>2. IsFiniteSet(ks)
  <2>1. IsFiniteSet(1..N)
    BY <1>1, FS_Interval
  <2> QED BY <2>1, FS_Subset
<1> DEFINE S == {{k} \X (1..f[k]) : k \in ks}
<1> DEFINE g == [k \in ks |-> {k} \X (1..f[k])]
<1>3. g \in Surjection(ks, S)
  BY DEF Surjection
<1>4. IsFiniteSet(S)
  BY <1>2, <1>3, FS_Surjection
<1>5. ASSUME NEW k \in ks
      PROVE  IsFiniteSet({k} \X (1..f[k]))
  <2>1. f[k] \in Nat
    OBVIOUS
  <2>2. IsFiniteSet(1..f[k])
    BY <2>1, FS_Interval
  <2>3. IsFiniteSet({k})
    BY FS_Singleton
  <2> QED BY <2>2, <2>3, FS_Product
<1>6. IsFiniteSet(UNION S)
  <2>1. \A T \in S : IsFiniteSet(T)
    BY <1>5
  <2> HIDE DEF S
  <2> QED BY <1>4, <2>1, FS_UNION
<1> QED BY <1>6, FS_CardinalityType DEF Pairs

(* Membership, in the form the lemmas below need. *)
LEMMA PairsElements ==
  ASSUME NEW f, NEW ks, NEW x
  PROVE  x \in Pairs(f, ks) <=> \E k \in ks : \E j \in 1..f[k] : x = <<k, j>>
BY DEF Pairs

(* One thread more. *)
LEMMA PairsExtend ==
  ASSUME NEW f \in [1..N -> Nat], NEW m \in 1..N
  PROVE  Cardinality(Pairs(f, 1..m)) = Cardinality(Pairs(f, 1..(m - 1))) + f[m]
<1>1. N \in Nat
  BY TcpServerAssumption
<1> DEFINE A == Pairs(f, 1..(m - 1))
           B == {m} \X (1..f[m])
<1>2. 1..m = (1..(m - 1)) \cup {m} /\ 1..(m - 1) \subseteq 1..N /\ m \notin 1..(m - 1)
  BY <1>1
<1>3. Pairs(f, 1..m) = A \cup B
  BY <1>2 DEF Pairs
<1>4. A \cap B = {}
  BY <1>2 DEF Pairs
<1>5. IsFiniteSet(A) /\ Cardinality(A) \in Nat
  BY <1>2, PairsFinite
<1>6. IsFiniteSet(B) /\ Cardinality(B) = f[m]
  <2>1. f[m] \in Nat
    OBVIOUS
  <2>2. IsFiniteSet(1..f[m]) /\ Cardinality(1..f[m]) = f[m]
    BY <2>1, FS_Interval
  <2>3. IsFiniteSet({m}) /\ Cardinality({m}) = 1
    BY FS_Singleton
  <2>4. IsFiniteSet(B) /\ Cardinality(B) = 1 * f[m]
    BY <2>2, <2>3, FS_Product
  <2> QED BY <2>1, <2>4
<1> HIDE DEF A, B
<1>7. Cardinality(A \cup B) = Cardinality(A) + Cardinality(B) - 0
  BY <1>4, <1>5, <1>6, FS_Union, FS_EmptySet
<1>8. Cardinality(A \cup B) = Cardinality(A) + f[m]
  <2>1. f[m] \in Nat
    OBVIOUS
  <2> QED BY <1>5, <1>6, <1>7, <2>1
<1> QED BY <1>3, <1>8 DEF A

LEMMA PairsNone ==
  ASSUME NEW f
  PROVE  Cardinality(Pairs(f, 1..0)) = 0
<1>1. Pairs(f, 1..0) = {}
  BY DEF Pairs
<1> QED BY <1>1, FS_EmptySet

(* Smaller tables hold fewer connections. *)
LEMMA PairsMonotone ==
  ASSUME NEW f \in [1..N -> Nat], NEW g \in [1..N -> Nat], NEW ks \in SUBSET (1..N),
         \A k \in ks : f[k] <= g[k]
  PROVE  Cardinality(Pairs(f, ks)) <= Cardinality(Pairs(g, ks))
<1>1. Pairs(f, ks) \subseteq Pairs(g, ks)
  <2> SUFFICES ASSUME NEW x \in Pairs(f, ks)
               PROVE  x \in Pairs(g, ks)
    OBVIOUS
  <2>0. PICK k \in ks : \E j \in 1..f[k] : x = <<k, j>>
    BY DEF Pairs
  <2>1. PICK j \in 1..f[k] : x = <<k, j>>
    BY <2>0
  <2>2. j \in 1..g[k]
    <3>1. k \in 1..N /\ f[k] \in Nat /\ g[k] \in Nat /\ f[k] <= g[k]
      OBVIOUS
    <3> QED BY <3>1
  <2> QED BY <2>1, <2>2, PairsElements
<1> QED BY <1>1, PairsFinite, FS_Subset

(* One connection more. *)
LEMMA PairsAdd ==
  ASSUME NEW f \in [1..N -> Nat], NEW g, NEW m \in 1..N, g = [f EXCEPT ![m] = @ + 1]
  PROVE  Cardinality(Pairs(g, 1..N)) = Cardinality(Pairs(f, 1..N)) + 1
<1>1. /\ f[m] \in Nat /\ g \in [1..N -> Nat] /\ g[m] = f[m] + 1
      /\ \A k \in 1..N : k # m => g[k] = f[k]
  OBVIOUS
<1>2. Pairs(g, 1..N) = Pairs(f, 1..N) \cup {<<m, f[m] + 1>>}
  <2>1. ASSUME NEW x \in Pairs(g, 1..N)
        PROVE  x \in Pairs(f, 1..N) \cup {<<m, f[m] + 1>>}
    <3>0. PICK k \in 1..N : \E j \in 1..g[k] : x = <<k, j>>
      BY DEF Pairs
    <3>1. PICK j \in 1..g[k] : x = <<k, j>>
      BY <3>0
    <3>2. CASE k = m
      <4>1. j \in 1..f[m] \/ j = f[m] + 1
        BY <1>1, <3>2
      <4> QED BY <3>1, <3>2, <4>1, PairsElements
    <3>3. CASE k # m
      BY <1>1, <3>1, <3>3, PairsElements
    <3> QED BY <3>2, <3>3
  <2>2. ASSUME NEW x \in Pairs(f, 1..N)
        PROVE  x \in Pairs(g, 1..N)
    <3>0. PICK k \in 1..N : \E j \in 1..f[k] : x = <<k, j>>
      BY DEF Pairs
    <3>1. PICK j \in 1..f[k] : x = <<k, j>>
      BY <3>0
    <3>2. j \in 1..g[k]
      BY <1>1
    <3> QED BY <3>1, <3>2, PairsElements
  <2>3. <<m, f[m] + 1>> \in Pairs(g, 1..N)
    <3>1. f[m] + 1 \in 1..g[m]
      BY <1>1
    <3> QED BY <3>1, PairsElements
  <2> QED BY <2>1, <2>2, <2>3
<1>3. <<m, f[m] + 1>> \notin Pairs(f, 1..N)
  <2>1. f[m] + 1 \notin 1..f[m]
    BY <1>1
  <2> QED BY <2>1, PairsElements
<1> QED BY <1>2, <1>3, PairsFinite, FS_AddElement

(* Tables of m connections each hold N * m. *)
LEMMA PairsLevel ==
  ASSUME NEW f \in [1..N -> Nat], NEW m \in Nat
  PROVE  /\ (\A k \in 1..N : m <= f[k]) => N * m <= Cardinality(Pairs(f, 1..N))
         /\ (\A k \in 1..N : f[k] <= m) =>
              /\ Cardinality(Pairs(f, 1..N)) <= N * m
              /\ (\E k \in 1..N : f[k] < m) => Cardinality(Pairs(f, 1..N)) < N * m
<1>1. N \in Nat /\ N > 0
  BY TcpServerAssumption
<1> DEFINE R == (1..N) \X (1..m)
           P == Pairs(f, 1..N)
<1>2. IsFiniteSet(R) /\ Cardinality(R) = N * m
  <2>1. IsFiniteSet(1..N) /\ Cardinality(1..N) = N
    BY <1>1, FS_Interval
  <2>2. IsFiniteSet(1..m) /\ Cardinality(1..m) = m
    BY FS_Interval
  <2>3. IsFiniteSet(R) /\ Cardinality(R) = Cardinality(1..N) * Cardinality(1..m)
    BY <2>1, <2>2, FS_Product
  <2> QED BY <2>1, <2>2, <2>3
<1>3. IsFiniteSet(P) /\ Cardinality(P) \in Nat
  BY PairsFinite
<1>4. ASSUME \A k \in 1..N : m <= f[k]
      PROVE  R \subseteq P
  <2> SUFFICES ASSUME NEW k \in 1..N, NEW j \in 1..m
               PROVE  <<k, j>> \in P
    OBVIOUS
  <2>1. j \in 1..f[k]
    BY <1>4
  <2> QED BY <2>1, PairsElements
<1>5. ASSUME \A k \in 1..N : f[k] <= m
      PROVE  P \subseteq R
  <2> SUFFICES ASSUME NEW x \in P
               PROVE  x \in R
    OBVIOUS
  <2>0. PICK k \in 1..N : \E j \in 1..f[k] : x = <<k, j>>
    BY DEF Pairs
  <2>1. PICK j \in 1..f[k] : x = <<k, j>>
    BY <2>0
  <2>2. j \in 1..m
    BY <1>5
  <2> QED BY <2>1, <2>2
<1>6. ASSUME NEW k \in 1..N, f[k] < m
      PROVE  <<k, m>> \in R /\ <<k, m>> \notin P
  <2>1. m \in 1..m /\ m \notin 1..f[k]
    BY <1>6
  <2> QED BY <2>1, PairsElements
<1> HIDE DEF R, P
<1>7. R \subseteq P => N * m <= Cardinality(P)
  BY <1>2, <1>3, FS_Subset
<1>8. P \subseteq R => Cardinality(P) <= N * m /\ (P # R => Cardinality(P) < N * m)
  <2>1. ASSUME P \subseteq R
        PROVE  Cardinality(P) <= Cardinality(R) /\ (Cardinality(R) = Cardinality(P) => R = P)
    BY <1>2, <2>1, FS_Subset
  <2>2. Cardinality(R) \in Nat
    BY <1>2, FS_CardinalityType
  <2> QED BY <1>2, <1>3, <2>1, <2>2
<1> QED BY <1>4, <1>5, <1>6, <1>7, <1>8 DEF P

(* What the integer average tells of a total. *)
LEMMA AverageFacts ==
  ASSUME NEW t \in Nat, NEW m \in Nat
  PROVE  /\ t \div N \in Nat
         /\ t < N * ((t \div N) + 1)
         /\ t < N * (m + 1) => t \div N <= m
<1>1. N \in Nat /\ N > 0
  BY TcpServerAssumption
<1> DEFINE q == t \div N
<1>2. q \in Nat /\ N * q <= t /\ t < N * (q + 1)
  BY <1>1
<1>3. ASSUME t < N * (m + 1), q > m
      PROVE  FALSE
  <2> HIDE DEF q
  <2>1. q >= m + 1 /\ N * q >= N * (m + 1)
    BY <1>1, <1>2, <1>3
  <2>2. N * (m + 1) \in Nat /\ N * q \in Nat
    BY <1>1, <1>2
  <2> QED BY <1>2, <1>3, <2>1, <2>2
<1> QED BY <1>2, <1>3

(* The threads cannot all have more than the average. *)
LEMMA SomeoneFits ==
  ASSUME NEW f \in [1..N -> Nat], NEW t \in Nat, Cardinality(Pairs(f, 1..N)) <= t
  PROVE  \E k \in 1..N : f[k] <= t \div N
<1> DEFINE q == t \div N
<1>1. q \in Nat /\ t < N * (q + 1)
  BY AverageFacts
<1>2. Cardinality(Pairs(f, 1..N)) \in Nat /\ N \in Nat
  BY PairsFinite, TcpServerAssumption
<1> HIDE DEF q
<1> SUFFICES ASSUME \A k \in 1..N : ~(f[k] <= q)
             PROVE  FALSE
  BY DEF q
<1>3. q + 1 \in Nat /\ \A k \in 1..N : q + 1 <= f[k]
  BY <1>1
<1>4. N * (q + 1) <= Cardinality(Pairs(f, 1..N))
  BY <1>3, PairsLevel
<1>5. N * (q + 1) \in Nat
  BY <1>2, <1>3
<1> QED BY <1>1, <1>2, <1>4, <1>5

(* With loads that differ by one at most, only the least are not above it. *)
LEMMA LeastFits ==
  ASSUME NEW f \in [1..N -> Nat], NEW m \in 1..N,
         \A j, k \in 1..N : f[j] <= f[k] + 1,
         f[m] <= Cardinality(Pairs(f, 1..N)) \div N
  PROVE  \A k \in 1..N : f[m] <= f[k]
<1> SUFFICES ASSUME NEW k \in 1..N, f[k] < f[m]
             PROVE  FALSE
  OBVIOUS
<1> DEFINE t == Cardinality(Pairs(f, 1..N))
           n == f[k]
<1>0. t \in Nat
  BY PairsFinite
<1>1. t \in Nat /\ n \in Nat /\ f[m] \in Nat /\ n + 1 \in Nat
  BY <1>0
<1>2. (\A j \in 1..N : f[j] <= n + 1) /\ f[k] < n + 1
  BY <1>1
<1>3. t < N * (n + 1)
  BY <1>1, <1>2, PairsLevel
<1> HIDE DEF t, n
<1>4. t \div N <= n /\ t \div N \in Nat
  BY <1>1, <1>3, AverageFacts
<1>5. f[m] <= t \div N
  BY DEF t
<1>6. n < f[m]
  BY DEF n
<1> QED BY <1>1, <1>4, <1>5, <1>6

----------------------------------------------------------------------------
(* The invariant.                                                          *)

LEMMA CountIsPairs ==
  /\ \A ks : Count(ks) = Cardinality(Pairs(num, ks))
  /\ \A ks : Count(ks)' = Cardinality(Pairs(num', ks))
BY DEF Count, Conns, Pairs

LEMMA SummedIsPairs ==
  Summed' <=> (pc' \in {"limit", "total"} =>
                 /\ Cardinality(Pairs(num', 1..(i' - 1))) <= total'
                 /\ ~left' => Cardinality(Pairs(num', 1..(i' - 1))) = total')
BY DEF Summed, Count, Conns, Pairs

LEMMA InitInv == Init => IInv
<1> SUFFICES ASSUME Init
             PROVE  IInv
  OBVIOUS
<1>1. N \in Nat /\ N > 0 /\ MaxConn \in Nat /\ MaxPeers \in Nat
  BY TcpServerAssumption
<1>2. Types
  <2>1. num \in [1..N -> Nat]
    BY DEF Init
  <2>2. backlog \in 0..MaxPeers /\ peers \in 0..MaxPeers /\ i \in 1..(N + 1)
    BY <1>1 DEF Init
  <2>3. edge \in BOOLEAN /\ left \in BOOLEAN /\ cut \in BOOLEAN
    BY DEF Init
  <2>4. /\ pc \in {"wait", "accept", "limit", "total", "scan", "add"} /\ pc # "add"
        /\ total \in Nat /\ unplaced \in Nat /\ backlog <= peers
    BY <2>2 DEF Init
  <2> QED BY <2>1, <2>2, <2>3, <2>4 DEF Types, TypeOK
<1>3. Count(1..N) = 0
  <2>1. Pairs(num, 1..N) = {}
    BY DEF Pairs, Init
  <2> QED BY <2>1, CountIsPairs, FS_EmptySet
<1>4. Balanced
  BY DEF Init, Balanced
<1> QED BY <1>1, <1>2, <1>3, <1>4
        DEF Init, IInv, ConnLimit, Summed, Room, Average, Fits, AdmittedPlaced

LEMMA NextTypes ==
  ASSUME Types, [Next]_vars
  PROVE  Types'
<1>1. N \in Nat /\ N > 0 /\ MaxConn \in Nat /\ MaxPeers \in Nat
  BY TcpServerAssumption
<1> USE DEF Types, TypeOK
<1>2. CASE Request
  BY <1>1, <1>2 DEF Request
<1>3. ASSUME NEW k \in 1..N, Leave(k)
      PROVE  Types'
  <2>1. num' \in [1..N -> Nat]
    BY <1>3 DEF Leave
  <2> QED BY <1>3, <2>1 DEF Leave
<1>4. CASE fireOnce
  BY <1>4 DEF fireOnce
<1>5. CASE acceptOk
  BY <1>1, <1>5 DEF acceptOk, StartSum
<1>6. CASE acceptNull
  <2>1. backlog' \in 0..MaxPeers /\ backlog' <= peers' /\ cut' \in BOOLEAN
    BY <1>1, <1>6 DEF acceptNull
  <2> QED BY <1>6, <2>1 DEF acceptNull
<1>18. CASE acceptError
  <2>1. backlog' \in 0..MaxPeers /\ backlog' <= peers' /\ cut' \in BOOLEAN
    BY <1>1, <1>18 DEF acceptError
  <2> QED BY <1>18, <2>1 DEF acceptError
<1>7. CASE connNum
  BY <1>1, <1>7 DEF connNum
<1>8. CASE onAccept
  BY <1>1, <1>8 DEF onAccept, StartSum
<1>9. CASE addConnStart
  BY <1>1, <1>9 DEF addConnStart
<1>10. CASE addConnScan
  BY <1>1, <1>10 DEF addConnScan
<1>11. CASE addConn
  <2>1. num' \in [1..N -> Nat]
    BY <1>11 DEF addConn
  <2> QED BY <1>11, <2>1 DEF addConn
<1>12. CASE UNCHANGED vars
  BY <1>12 DEF vars
<1> QED BY <1>2, <1>3, <1>4, <1>5, <1>6, <1>18, <1>7, <1>8, <1>9, <1>10, <1>11, <1>12
        DEF Next, Accepting

LEMMA NextInv ==
  ASSUME IInv, [Next]_vars
  PROVE  IInv'
<1>1. N \in Nat /\ N > 0 /\ MaxConn \in Nat /\ MaxPeers \in Nat
  BY TcpServerAssumption
<1>2. Types /\ Types' /\ num \in [1..N -> Nat] /\ num' \in [1..N -> Nat] /\ i \in 1..(N + 1)
      /\ total \in Nat /\ total' \in Nat
  BY NextTypes DEF IInv, Types, TypeOK
<1>3. Count(1..N) \in Nat /\ Count(1..N)' \in Nat
  BY <1>2, PairsFinite, CountIsPairs
<1>4. Count(1..(i - 1)) \in Nat
  <2>1. 1..(i - 1) \subseteq 1..N
    BY <1>1, <1>2
  <2> QED BY <1>2, <2>1, PairsFinite, CountIsPairs
<1>5. num' = num => \A ks : Count(ks)' = Count(ks)
  BY CountIsPairs
<1> USE DEF IInv, ConnLimit, Balanced, Summed, Room, Average, Fits, AdmittedPlaced
<1>6. CASE Request
  BY <1>2, <1>5, <1>6 DEF Request
(* A connection goes away: what has been counted shrinks. *)
<1>7. ASSUME NEW k \in 1..N, Leave(k)
      PROVE  IInv'
  <2>1. /\ \A j \in 1..N : num'[j] <= num[j]
        /\ left' = TRUE /\ UNCHANGED <<pc, i, total, unplaced>>
    BY <1>2, <1>7 DEF Leave
  <2>2. Count(1..N)' <= Count(1..N)
    BY <1>2, <2>1, PairsMonotone, CountIsPairs
  <2>3. Summed'
    <3>1. 1..(i - 1) \subseteq 1..N /\ \A j \in 1..(i - 1) : num'[j] <= num[j]
      BY <1>1, <1>2, <2>1
    <3>2. Cardinality(Pairs(num', 1..(i - 1))) <= Cardinality(Pairs(num, 1..(i - 1)))
      BY <1>2, <3>1, PairsMonotone
    <3>3. Cardinality(Pairs(num', 1..(i - 1))) \in Nat
      BY <1>2, <3>1, PairsFinite
    <3>4. Cardinality(Pairs(num, 1..(i - 1))) = Count(1..(i - 1))
      BY CountIsPairs
    <3>5. pc \in {"limit", "total"} => Count(1..(i - 1)) <= total
      OBVIOUS
    <3>6. pc \in {"limit", "total"} => Cardinality(Pairs(num', 1..(i - 1))) <= total
      BY <1>2, <1>4, <3>2, <3>3, <3>4, <3>5
    <3> QED BY <2>1, <3>6, SummedIsPairs
  <2>4. ConnLimit' /\ Balanced' /\ Room' /\ Average' /\ AdmittedPlaced'
    BY <1>1, <1>2, <1>3, <2>1, <2>2
  <2>5. Fits'
    <3>1. total \div N \in Nat
      BY <1>2, AverageFacts
    <3>2. \A j \in 1..N : num'[j] \in Nat /\ num[j] \in Nat
      BY <1>2
    <3>3. CASE pc = "scan"
      <4>1. PICK j \in i..N : num[j] <= total \div N
        BY <3>3
      <4>2. j \in 1..N
        BY <1>1, <1>2
      <4>3. num'[j] <= total \div N
        BY <2>1, <3>1, <3>2, <4>1, <4>2
      <4> QED BY <2>1, <3>3, <4>1, <4>3
    <3>4. CASE pc = "add"
      <4>1. i \in 1..N
        BY <1>1, <1>2, <3>4 DEF Types
      <4> QED BY <2>1, <3>1, <3>2, <3>4, <4>1
    <3> QED BY <2>1, <3>3, <3>4
  <2> QED BY <1>2, <2>3, <2>4, <2>5
<1>8. CASE fireOnce
  BY <1>2, <1>5, <1>8 DEF fireOnce
(* A total begins with no thread counted. *)
<1>9. Count(1..0)' = 0
  BY PairsNone, CountIsPairs
<1>10. CASE acceptOk
  <2>1. num' = num /\ pc' = "limit" /\ i' - 1 = 0 /\ total' = 0 /\ UNCHANGED <<unplaced, left>>
    BY <1>10 DEF acceptOk, StartSum
  <2>2. Summed'
    BY <1>9, <2>1
  <2> QED BY <1>2, <1>5, <2>1, <2>2
<1>11. CASE acceptNull
  BY <1>2, <1>5, <1>11 DEF acceptNull
<1>18. CASE acceptError
  BY <1>2, <1>5, <1>18 DEF acceptError
<1>12. CASE connNum
  <2>1. /\ num' = num /\ UNCHANGED <<pc, unplaced, left>> /\ pc \in {"limit", "total"}
        /\ i \in 1..N /\ i' - 1 = i /\ total' = total + num[i]
    BY <1>1, <1>2, <1>12 DEF connNum
  <2>2. Cardinality(Pairs(num', 1..(i' - 1))) = Count(1..(i - 1)) + num[i]
    BY <1>2, <2>1, PairsExtend, CountIsPairs
  <2>3. Count(1..(i - 1)) <= total /\ (~left => Count(1..(i - 1)) = total)
    BY <2>1
  <2>4. Summed'
    <3>1. num[i] \in Nat
      BY <1>2, <2>1
    <3>2. /\ Cardinality(Pairs(num', 1..(i' - 1))) <= total'
          /\ ~left' => Cardinality(Pairs(num', 1..(i' - 1))) = total'
      BY <1>2, <1>4, <2>1, <2>2, <2>3, <3>1
    <3> QED BY <3>2, SummedIsPairs
  <2> QED BY <1>2, <1>5, <2>1, <2>4
(* The limit is compared with a total that is not too small. *)
<1>13. CASE onAccept
  <2>1. num' = num /\ UNCHANGED <<unplaced, left>> /\ pc = "limit" /\ i - 1 = N
    BY <1>1, <1>2, <1>13 DEF onAccept
  <2>2. Count(1..N) <= total
    BY <2>1
  <2>3. CASE MaxConn > total
    <3>1. pc' = "total" /\ i' - 1 = 0 /\ total' = 0
      BY <1>13, <2>3 DEF onAccept, StartSum
    <3>2. Count(1..N)' < MaxConn
      BY <1>1, <1>2, <1>3, <1>5, <2>1, <2>2, <2>3
    <3>3. Summed'
      BY <1>9, <3>1
    <3> QED BY <1>2, <1>5, <2>1, <3>1, <3>2, <3>3
  <2>4. CASE ~(MaxConn > total)
    <3>1. pc' = "accept"
      BY <1>13, <2>4 DEF onAccept
    <3> QED BY <1>2, <1>5, <2>1, <3>1
  <2> QED BY <2>3, <2>4
(* The same for the average, which some thread is not above. *)
<1>14. CASE addConnStart
  <2>1. /\ num' = num /\ total' = total /\ UNCHANGED <<unplaced, left>>
        /\ pc = "total" /\ i - 1 = N /\ pc' = "scan" /\ i' = 1
    BY <1>1, <1>2, <1>14 DEF addConnStart
  <2>2. Count(1..N) <= total /\ (~left => Count(1..N) = total)
    BY <2>1
  <2>3. \E k \in 1..N : num[k] <= total \div N
    BY <1>2, <2>2, SomeoneFits, CountIsPairs
  <2> QED BY <1>2, <1>5, <2>1, <2>2, <2>3
<1>15. CASE addConnScan
  <2>1. num' = num /\ total' = total /\ left' = left /\ pc = "scan"
    BY <1>15 DEF addConnScan
  <2>2. PICK k \in i..N : num[k] <= total \div N
    BY <2>1
  <2>3. i <= N
    BY <1>1, <1>2, <2>2
  <2>4. CASE Chosen
    <3>1. pc' = "add" /\ i' = i /\ unplaced' = unplaced
      BY <1>15, <2>3, <2>4 DEF addConnScan
    <3> QED BY <1>2, <1>5, <2>1, <2>4, <3>1 DEF Chosen
  <2>5. CASE ~Chosen
    <3>1. pc' = "scan" /\ i' = i + 1 /\ unplaced' = unplaced
      BY <1>15, <2>1, <2>3, <2>5 DEF addConnScan
    <3>2. k \in i'..N
      <4>1. k # i
        BY <2>2, <2>5 DEF Chosen
      <4> QED BY <1>1, <1>2, <3>1, <4>1
    <3>3. Fits'
      BY <2>1, <2>2, <3>1, <3>2
    <3> QED BY <1>2, <1>5, <2>1, <3>1, <3>3
  <2> QED BY <2>4, <2>5
(* The connection is added where there is room, to one of the least loaded. *)
<1>16. CASE addConn
  <2>1. /\ num' = [num EXCEPT ![i] = @ + 1] /\ pc = "add" /\ pc' = "accept"
        /\ UNCHANGED <<unplaced, left>> /\ i \in 1..N
    BY <1>1, <1>2, <1>16 DEF addConn, Types
  <2>2. Count(1..N)' = Count(1..N) + 1
    BY <1>2, <2>1, PairsAdd, CountIsPairs
  <2>3. ConnLimit'
    BY <1>1, <1>3, <2>1, <2>2
  <2>4. ASSUME ~left, NEW j \in 1..N, NEW k \in 1..N
        PROVE  num'[j] <= num'[k] + 1
    <3>1. \A a, b \in 1..N : num[a] <= num[b] + 1
      BY <2>4
    <3>2. num[i] <= Cardinality(Pairs(num, 1..N)) \div N
      BY <2>1, <2>4, CountIsPairs
    <3>3. num[i] <= num[k]
      BY <1>2, <2>1, <3>1, <3>2, LeastFits
    <3>4. num[j] \in Nat /\ num[k] \in Nat /\ num[i] \in Nat
      BY <1>2, <2>1
    <3>5. /\ num'[j] = IF j = i THEN num[i] + 1 ELSE num[j]
          /\ num'[k] = IF k = i THEN num[i] + 1 ELSE num[k]
      BY <1>2, <2>1
    <3>6. num[j] <= num[k] + 1
      BY <3>1
    <3> QED BY <3>3, <3>4, <3>5, <3>6
  <2>5. Balanced'
    BY <2>1, <2>4
  <2> QED BY <1>2, <2>1, <2>3, <2>5
<1>17. CASE UNCHANGED vars
  BY <1>2, <1>5, <1>17 DEF vars
<1> QED BY <1>6, <1>7, <1>8, <1>10, <1>11, <1>18, <1>12, <1>13, <1>14, <1>15, <1>16,
        <1>17
        DEF Next, Accepting

LEMMA AlwaysIInv == Spec => []IInv
BY InitInv, NextInv, PTL DEF Spec

(* However connections come and go while the accepting thread adds up the sizes
   of the tables, the limit of setMaxConnNum is never exceeded, and until the
   first connection leaves the threads' loads differ by one at most. *)
THEOREM AdmissionCorrect == Spec => []Inv
<1>1. IInv => Inv
  BY DEF IInv, Inv, Types
<1> QED BY <1>1, AlwaysIInv, PTL

(* A connection that onAccept lets through is always given to a thread: addConn's
   loop, which has no fallback, never runs out of threads. *)
THEOREM PlacementCorrect == Spec => []AdmittedPlaced
<1>1. IInv => AdmittedPlaced
  BY DEF IInv
<1> QED BY <1>1, AlwaysIInv, PTL
=============================================================================
