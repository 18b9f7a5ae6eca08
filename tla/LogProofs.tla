------------------------------ MODULE LogProofs ------------------------------
(***************************************************************************)
(* Proofs about the asynchronous log (Log), for any levels, lengths, file  *)
(* size, numbers of files, starts and faults: no entry is lost silently or *)
(* written twice (Accounted), and the queue's limit, the files' owners, the *)
(* order of the entries over the files and the files' sizes are kept (Inv). *)
(***************************************************************************)
EXTENDS Log, SequenceTheorems, FiniteSetTheorems, WellFoundedInduction, TLAPS

(* The types. *)
Entries == [id : Nat \ {0}, lev : Levels, day : 1..Days]
Paths   == Slots \X (1..Days) \X (0..MaxPos)
Open    == [path : Slots \X (1..Days) \X {0}, nowSz : Nat]

(* The disk as a function from paths to files, F in what follows. *)
FileTypes(F) ==
  /\ DOMAIN F \subseteq Paths
  /\ F \in [DOMAIN F -> [log : Seq(Entries), opens : Nat \ {0}]]

Types ==
  /\ life \in {"off", "on", "closing"}
  /\ pc \in {"none", "loop", "pop", "file", "write", "done"}
  /\ life = "off" <=> pc = "none"
  /\ pc \in {"file", "write"} <=> log # NoLog
  /\ today \in 1..Days /\ pushed \in 0..MaxPush
  /\ singleFile \in BOOLEAN
  /\ queue \in Seq(Entries) /\ log \in Entries \cup {NoLog} /\ refused \subseteq Entries
  /\ fd \in [Slots -> Open \cup {None}]

(* The rules for what is in which file: an entry is in a file of its level and
   day, in the order of logging, and in no other. *)
Owned(F) ==
  \A p \in DOMAIN F : \A k \in DOMAIN F[p].log :
    p[1] = tLev(F[p].log[k]) /\ p[2] = F[p].log[k].day

Increasing(F) ==
  \A p \in DOMAIN F : \A j, k \in DOMAIN F[p].log :
    j < k => F[p].log[j].id < F[p].log[k].id

Separate(F) ==
  \A p, q \in DOMAIN F : p # q =>
    \A j \in DOMAIN F[p].log, k \in DOMAIN F[q].log : F[p].log[j].id # F[q].log[k].id

(* A numbered file is not empty, so that it is missed when it is taken away. *)
Filled(F) == \A p \in DOMAIN F : p[3] # 0 => F[p].log # <<>>

Bound(n) == Max({FileSize, MaxLen}) + (n - 1) * MaxLen
Bounded(F) == \A p \in DOMAIN F : Size(F[p].log) <= Bound(F[p].opens)

Ruled(F) ==
  FileTypes(F) /\ Owned(F) /\ Increasing(F) /\ Separate(F) /\ Filled(F) /\ Bounded(F)

(* As long as no entry has been taken away, the files of a level and a day are a
   series: in the order of their numbers, which have no gap. *)
Sorted(F) ==
  \A p, q \in DOMAIN F : Before(p, q) =>
    \A j \in DOMAIN F[p].log, k \in DOMAIN F[q].log : F[p].log[j].id < F[q].log[k].id

Gapless(F) == \A p \in DOMAIN F : \A n \in 1..p[3] : <<p[1], p[2], n>> \in DOMAIN F

Disk == Ruled(files) /\ (removed = {} => Sorted(files) /\ Gapless(files))

(* The entries on a disk. *)
AllIds(F) == UNION {{F[p].log[k].id : k \in DOMAIN F[p].log} : p \in DOMAIN F}

(* Entries get older on their way: what is in the files was logged before the
   entry in the thread's hand, that one before the queued ones, which are in
   order. *)
Ages ==
  /\ \A i \in DOMAIN queue : queue[i].id <= pushed /\ \A d \in AllIds(files) : d < queue[i].id
  /\ \A i, j \in DOMAIN queue : i < j => queue[i].id < queue[j].id
  /\ log # NoLog => /\ log.id <= pushed /\ \A d \in AllIds(files) : d < log.id
                    /\ \A i \in DOMAIN queue : log.id < queue[i].id
  /\ \A d \in AllIds(files) : d <= pushed

(* What the thread knows of an open file is true of the file, if it is still
   there; it is empty only when it has been opened for the entry in hand. *)
OpenFiles ==
  \A s \in Slots : fd[s] # None =>
    /\ fd[s].path[1] = s
    /\ fd[s].path \in DOMAIN files =>
         /\ fd[s].nowSz = Size(files[fd[s].path].log)
         /\ files[fd[s].path].log # <<>> \/ (pc = "write" /\ s = tLev(log))

(* The file that the entry in hand is about to be written to. *)
Target ==
  pc = "write" =>
    LET f == fd[tLev(log)]
    IN  /\ f # None /\ f.path[2] = log.day
        /\ f.path \in DOMAIN files =>
             Size(files[f.path].log) + LenOf[log.lev] <= Bound(files[f.path].opens)

(* The entries made so far are shared out between the places they may be in. *)
QueueIds == {queue[i].id : i \in DOMAIN queue}
HandId   == {log.id} \ {0}
RefusedIds == {e.id : e \in refused}

Split(D, Q, H, R, L, X, M, n) ==
  /\ D \cup Q \cup H \cup R \cup L \cup X \cup M = 1..n
  /\ D \cap (Q \cup H \cup R \cup L \cup X \cup M) = {}
  /\ Q \cap (H \cup R \cup L \cup X \cup M) = {}
  /\ H \cap (R \cup L \cup X \cup M) = {}
  /\ R \cap (L \cup X \cup M) = {}
  /\ L \cap (X \cup M) = {}
  /\ X \cap M = {}

Shares == Split(AllIds(files), QueueIds, HandId, RefusedIds, lost, dropped, removed, pushed)

IInv == Types /\ QueueLimit /\ Ages /\ Disk /\ OpenFiles /\ Target /\ Shares

----------------------------------------------------------------------------
(* Lemmas on sizes and bounds.                                             *)

LEMMA Constants ==
  /\ Levels \subseteq 1..5 /\ LenOf \in [Levels -> Nat] /\ SingleFiles \subseteq BOOLEAN
  /\ FileSize \in Nat /\ Cap \in Nat /\ MaxPos \in Nat /\ MaxPush \in Nat
  /\ Days \in Nat /\ Days > 0 /\ 0 \in Slots /\ Levels \subseteq Slots
BY LogAssumption DEF Slots

LEMMA IntervalFacts ==
  ASSUME NEW n \in Nat
  PROVE  IsFiniteSet(1..n) /\ Cardinality(1..n) = n
BY FS_Interval

LEMMA BytesFinite ==
  ASSUME NEW es \in Seq(Entries)
  PROVE  IsFiniteSet(Bytes(es)) /\ Size(es) \in Nat
<1>1. DOMAIN es = 1..Len(es) /\ Len(es) \in Nat
  OBVIOUS
<1>2. IsFiniteSet(DOMAIN es)
  BY <1>1, FS_Interval
<1> DEFINE S == {{i} \X (1..LenOf[es[i].lev]) : i \in DOMAIN es}
           g == [i \in DOMAIN es |-> {i} \X (1..LenOf[es[i].lev])]
<1>3. g \in Surjection(DOMAIN es, S)
  BY DEF Surjection
<1>4. IsFiniteSet(S)
  BY <1>2, <1>3, FS_Surjection
<1>5. ASSUME NEW i \in DOMAIN es
      PROVE  IsFiniteSet({i} \X (1..LenOf[es[i].lev]))
  <2>1. es[i] \in Entries
    BY <1>1
  <2>2. LenOf[es[i].lev] \in Nat
    BY <2>1, Constants DEF Entries
  <2>3. IsFiniteSet(1..LenOf[es[i].lev])
    BY <2>2, FS_Interval
  <2>4. IsFiniteSet({i})
    BY FS_Singleton
  <2> QED BY <2>3, <2>4, FS_Product
<1>6. IsFiniteSet(UNION S)
  <2>1. \A T \in S : IsFiniteSet(T)
    BY <1>5
  <2> HIDE DEF S
  <2> QED BY <1>4, <2>1, FS_UNION
<1> QED BY <1>6, FS_CardinalityType DEF Bytes, Size

LEMMA SizeEmpty == Size(<<>>) = 0
<1>1. Bytes(<<>>) = {}
  BY DEF Bytes
<1> QED BY <1>1, FS_EmptySet DEF Size

(* An entry adds its length. *)
LEMMA SizeAppend ==
  ASSUME NEW es \in Seq(Entries), NEW e \in Entries
  PROVE  Size(Append(es, e)) = Size(es) + LenOf[e.lev]
<1> DEFINE n == Len(es) + 1
           A == Bytes(es)
           B == {n} \X (1..LenOf[e.lev])
           fs == Append(es, e)
<1>1. /\ Len(es) \in Nat /\ DOMAIN es = 1..Len(es)
      /\ DOMAIN fs = 1..n /\ fs[n] = e /\ \A i \in 1..Len(es) : fs[i] = es[i]
  OBVIOUS
<1>2. 1..n = (1..Len(es)) \cup {n} /\ n \notin 1..Len(es)
  BY <1>1
<1>3. LenOf[e.lev] \in Nat
  BY Constants DEF Entries
<1>4. Bytes(fs) = A \cup B
  BY <1>1, <1>2 DEF Bytes
<1>5. A \cap B = {}
  BY <1>1, <1>2 DEF Bytes
<1>6. IsFiniteSet(A) /\ Cardinality(A) \in Nat
  BY BytesFinite DEF Size
<1>7. IsFiniteSet(B) /\ Cardinality(B) = LenOf[e.lev]
  <2>1. IsFiniteSet(1..LenOf[e.lev]) /\ Cardinality(1..LenOf[e.lev]) = LenOf[e.lev]
    BY <1>3, IntervalFacts
  <2>2. IsFiniteSet({n}) /\ Cardinality({n}) = 1
    BY FS_Singleton
  <2>3. IsFiniteSet(B) /\ Cardinality(B) = 1 * LenOf[e.lev]
    BY <2>1, <2>2, FS_Product, ZenonT(60)
  <2> QED BY <1>3, <2>3
<1> HIDE DEF A, B, fs
<1>8. Cardinality(A \cup B) = Cardinality(A) + Cardinality(B) - 0
  BY <1>5, <1>6, <1>7, FS_Union, FS_EmptySet
<1>9. Cardinality(A \cup B) = Cardinality(A) + LenOf[e.lev]
  BY <1>3, <1>6, <1>7, <1>8
<1> QED BY <1>4, <1>9 DEF Size, A, fs

(* A non-empty set of natural numbers has a least element. *)
LEMMA MinFacts ==
  ASSUME NEW T \in SUBSET Nat, T # {}
  PROVE  Min(T) \in T /\ \A y \in T : Min(T) <= y
<1> DEFINE R == OpToRel(<, Nat)
<1>1. IsWellFoundedOn(R, Nat)
  BY NatLessThanWellFounded
<1>2. PICK x \in T : \A y \in T : ~(<<y, x>> \in R)
  <2> HIDE DEF R
  <2> QED BY <1>1, WFMin
<1>3. \A y \in T : y < x => <<y, x>> \in R
  BY DEF OpToRel
<1> HIDE DEF R
<1>4. x \in Nat /\ T \subseteq Nat
  OBVIOUS
<1>5. \A y \in T : x <= y
  <2> SUFFICES ASSUME NEW y \in T
               PROVE  x <= y
    OBVIOUS
  <2>1. ~(y < x)
    BY <1>2, <1>3
  <2>2. x \in Nat /\ y \in Nat
    BY <1>4
  <2> QED BY <2>1, <2>2
<1> QED BY <1>5 DEF Min

(* With a level there is a longest entry. *)
LEMMA MaxLenFacts ==
  ASSUME Levels # {}
  PROVE  MaxLen \in Nat /\ \A l \in Levels : LenOf[l] <= MaxLen
<1> DEFINE Longest(n) ==
             \A l \in Levels : l <= n => \E m \in Levels : \A k \in Levels : k <= n => LenOf[k] <= LenOf[m]
<1>1. \A l \in Levels : LenOf[l] \in Nat /\ l \in 1..5
  BY Constants
<1>2. Longest(1)
  BY <1>1
<1>3. Longest(2)
  BY <1>1, <1>2
<1>4. Longest(3)
  BY <1>1, <1>3
<1>5. Longest(4)
  BY <1>1, <1>4
<1>6. Longest(5)
  BY <1>1, <1>5
<1>7. PICK m \in Levels : \A k \in Levels : LenOf[k] <= LenOf[m]
  BY <1>1, <1>6
<1> DEFINE S == {LenOf[l] : l \in Levels}
<1>8. LenOf[m] \in S /\ \A y \in S : LenOf[m] >= y
  BY <1>1, <1>7
<1>9. Max(S) \in S /\ \A y \in S : Max(S) >= y
  <2> HIDE DEF S
  <2> QED BY <1>8 DEF Max
<1>10. \A l \in Levels : LenOf[l] \in S /\ LenOf[l] \in Nat
  BY <1>1
<1>11. Max(S) \in Nat
  BY <1>1, <1>9
<1> QED BY <1>9, <1>10, <1>11 DEF MaxLen

LEMMA BoundFacts ==
  ASSUME NEW l \in Levels, NEW n \in Nat, n >= 1
  PROVE  /\ Bound(n) \in Nat /\ FileSize <= Bound(n)
         /\ LenOf[l] \in Nat /\ LenOf[l] <= Bound(1)
         /\ \A z \in Nat : z <= Bound(n) => z + LenOf[l] <= Bound(n + 1)
<1>1. MaxLen \in Nat /\ LenOf[l] <= MaxLen /\ LenOf[l] \in Nat /\ FileSize \in Nat
  BY MaxLenFacts, Constants
<1> DEFINE M == Max({FileSize, MaxLen})
<1>2. M \in Nat /\ FileSize <= M /\ MaxLen <= M
  BY <1>1 DEF Max
<1> HIDE DEF M
<1>3. (n - 1) * MaxLen \in Nat /\ n * MaxLen = (n - 1) * MaxLen + MaxLen
  BY <1>1
<1>4. Bound(n) = M + (n - 1) * MaxLen /\ Bound(1) = M + 0 * MaxLen /\ Bound(n + 1) = M + n * MaxLen
  BY DEF Bound, M
<1>5. Bound(1) = M
  BY <1>1, <1>2, <1>4
<1> QED BY <1>1, <1>2, <1>3, <1>4, <1>5

----------------------------------------------------------------------------
(* What is done to the disk.                                               *)

(* A disk that obeys the rules, with the facts in the form the lemmas use. *)
LEMMA RuledFacts ==
  ASSUME NEW F, Ruled(F), NEW p \in DOMAIN F
  PROVE  /\ p \in Paths /\ F[p] \in [log : Seq(Entries), opens : Nat \ {0}]
         /\ p[1] \in Slots /\ p[2] \in 1..Days /\ p[3] \in 0..MaxPos
         /\ p = <<p[1], p[2], p[3]>>
         /\ F[p].log \in Seq(Entries) /\ F[p].opens \in Nat \ {0}
         /\ Size(F[p].log) \in Nat /\ Size(F[p].log) <= Bound(F[p].opens)
         /\ \A k \in DOMAIN F[p].log : F[p].log[k] \in Entries
<1>1. p \in Paths /\ F[p] \in [log : Seq(Entries), opens : Nat \ {0}]
  BY DEF Ruled, FileTypes
<1>2. p[1] \in Slots /\ p[2] \in 1..Days /\ p[3] \in 0..MaxPos /\ p = <<p[1], p[2], p[3]>>
  BY <1>1 DEF Paths
<1>3. F[p].log \in Seq(Entries) /\ F[p].opens \in Nat \ {0}
  BY <1>1
<1>4. Size(F[p].log) \in Nat
  BY <1>3, BytesFinite
<1>5. \A k \in DOMAIN F[p].log : F[p].log[k] \in Entries
  BY <1>3
<1> QED BY <1>1, <1>2, <1>3, <1>4, <1>5 DEF Ruled, Bounded

LEMMA InAll ==
  ASSUME NEW F, NEW p \in DOMAIN F, NEW k \in DOMAIN F[p].log
  PROVE  F[p].log[k].id \in AllIds(F)
BY DEF AllIds

(* The same files under other names: g gives for every path of G the one the
   file had in F. *)
Same(F, G, g) ==
  /\ DOMAIN G \subseteq Paths /\ G = [p \in DOMAIN G |-> F[g[p]]]
  /\ \A p \in DOMAIN G : g[p] \in DOMAIN F /\ p[1] = g[p][1] /\ p[2] = g[p][2]
  /\ \A p, q \in DOMAIN G : p # q => g[p] # g[q]

LEMMA SameRuled ==
  ASSUME NEW F, Ruled(F), NEW G, NEW g, Same(F, G, g),
         \A p \in DOMAIN G : p[3] # 0 => F[g[p]].log # <<>>
  PROVE  Ruled(G)
<1>1. \A p \in DOMAIN G : G[p] = F[g[p]] /\ g[p] \in DOMAIN F /\ p[1] = g[p][1] /\ p[2] = g[p][2]
  BY DEF Same
<1>2. FileTypes(G)
  <2>1. \A p \in DOMAIN G : G[p] \in [log : Seq(Entries), opens : Nat \ {0}]
    BY <1>1, RuledFacts
  <2>2. G = [p \in DOMAIN G |-> G[p]] /\ DOMAIN G \subseteq Paths
    BY <1>1 DEF Same
  <2> QED BY <2>1, <2>2 DEF FileTypes
<1>3. Owned(G)
  BY <1>1 DEF Ruled, Owned
<1>4. Increasing(G)
  BY <1>1 DEF Ruled, Increasing
<1>5. Separate(G)
  <2> SUFFICES ASSUME NEW p \in DOMAIN G, NEW q \in DOMAIN G, p # q,
                      NEW j \in DOMAIN G[p].log, NEW k \in DOMAIN G[q].log
               PROVE  G[p].log[j].id # G[q].log[k].id
    BY DEF Separate
  <2>1. g[p] # g[q] /\ g[p] \in DOMAIN F /\ g[q] \in DOMAIN F
    BY DEF Same
  <2> QED BY <1>1, <2>1 DEF Ruled, Separate
<1>6. Filled(G)
  BY <1>1 DEF Filled
<1>7. Bounded(G)
  BY <1>1 DEF Ruled, Bounded
<1> QED BY <1>2, <1>3, <1>4, <1>5, <1>6, <1>7 DEF Ruled

(* closeLogFile(lev, true): the file of a day becomes numbered. *)
Renamed(F, path, to) ==
  [p \in (DOMAIN F \ {path}) \cup {to} |-> IF p = to THEN F[path] ELSE F[p]]

LEMMA RenameRuled ==
  ASSUME NEW F, Ruled(F), NEW path \in DOMAIN F, F[path].log # <<>>,
         NEW n \in 1..MaxPos, NEW to, to = <<path[1], path[2], n>>, to \notin DOMAIN F
  PROVE  /\ Ruled(Renamed(F, path, to))
         /\ DOMAIN Renamed(F, path, to) = (DOMAIN F \ {path}) \cup {to}
         /\ AllIds(Renamed(F, path, to)) = AllIds(F)
<1> DEFINE G == Renamed(F, path, to)
           g == [p \in DOMAIN G |-> IF p = to THEN path ELSE p]
<1>1. /\ DOMAIN G = (DOMAIN F \ {path}) \cup {to}
      /\ \A p \in DOMAIN G : G[p] = F[g[p]] /\ g[p] = IF p = to THEN path ELSE p
      /\ G = [p \in DOMAIN G |-> F[g[p]]]
  BY DEF Renamed
<1>2. to[1] = path[1] /\ to[2] = path[2] /\ to \in Paths
  <2>1. path[1] \in Slots /\ path[2] \in 1..Days /\ n \in 0..MaxPos
    BY RuledFacts, Constants
  <2> QED BY <2>1 DEF Paths
<1>3. \A p \in DOMAIN G : g[p] \in DOMAIN F
  BY <1>1
<1>4. DOMAIN G \subseteq Paths
  BY <1>1, <1>2, RuledFacts
<1> HIDE DEF G, g
<1>5. Same(F, G, g)
  <2>1. \A p \in DOMAIN G : p[1] = g[p][1] /\ p[2] = g[p][2]
    BY <1>1, <1>2
  <2>2. \A p, q \in DOMAIN G : p # q => g[p] # g[q]
    BY <1>1
  <2> QED BY <1>1, <1>3, <1>4, <2>1, <2>2 DEF Same
<1>6. \A p \in DOMAIN G : p[3] # 0 => F[g[p]].log # <<>>
  BY <1>1 DEF Ruled, Filled
<1>7. Ruled(G)
  BY <1>5, <1>6, SameRuled
<1>8. AllIds(G) = AllIds(F)
  <2>1. AllIds(G) \subseteq AllIds(F)
    BY <1>1, <1>3 DEF AllIds
  <2>2. AllIds(F) \subseteq AllIds(G)
    <3> SUFFICES ASSUME NEW p \in DOMAIN F, NEW k \in DOMAIN F[p].log
                 PROVE  F[p].log[k].id \in AllIds(G)
      BY DEF AllIds
    <3>1. PICK q \in DOMAIN G : g[q] = p
      BY <1>1
    <3>2. G[q] = F[p]
      BY <1>1, <3>1
    <3> QED BY <3>2 DEF AllIds
  <2> QED BY <2>1, <2>2
<1> QED BY <1>1, <1>7, <1>8 DEF G

(* With the first free number it stays a series. *)
LEMMA RenameSeries ==
  ASSUME NEW F, Ruled(F), Sorted(F), Gapless(F), NEW path \in DOMAIN F, path[3] = 0,
         NEW n \in 1..MaxPos, NEW to, to = <<path[1], path[2], n>>, to \notin DOMAIN F,
         \A m \in 1..MaxPos : <<path[1], path[2], m>> \notin DOMAIN F => n <= m
  PROVE  Sorted(Renamed(F, path, to)) /\ Gapless(Renamed(F, path, to))
<1> DEFINE G == Renamed(F, path, to)
<1>1. /\ DOMAIN G = (DOMAIN F \ {path}) \cup {to}
      /\ G[to] = F[path] /\ \A p \in DOMAIN G : p # to => G[p] = F[p]
  BY DEF Renamed
<1>2. to[1] = path[1] /\ to[2] = path[2] /\ to[3] = n /\ MaxPos \in Nat
  BY Constants
<1> HIDE DEF G
(* No file has a higher number. *)
<1>3. ASSUME NEW q \in DOMAIN F, q[1] = path[1], q[2] = path[2]
      PROVE  ~(n <= q[3])
  <2>1. n \in 1..q[3] => <<path[1], path[2], n>> \in DOMAIN F
    BY <1>3 DEF Gapless
  <2>2. q[3] \in 0..MaxPos
    BY RuledFacts
  <2> QED BY <1>2, <2>1, <2>2
<1>4. Sorted(G)
  <2> SUFFICES ASSUME NEW p \in DOMAIN G, NEW q \in DOMAIN G, Before(p, q),
                      NEW j \in DOMAIN G[p].log, NEW k \in DOMAIN G[q].log
               PROVE  G[p].log[j].id < G[q].log[k].id
    BY DEF Sorted
  <2>1. CASE p = to
    <3>1. q # to
      BY <1>2, <2>1 DEF Before
    <3>2. q \in DOMAIN F /\ q # path /\ q[1] = path[1] /\ q[2] = path[2]
      BY <1>1, <1>2, <2>1, <3>1 DEF Before
    <3>3. q[3] # 0
      <4>1. q = <<q[1], q[2], q[3]>> /\ path = <<path[1], path[2], path[3]>>
        BY <3>2, RuledFacts
      <4> QED BY <3>2, <4>1
    <3>4. n < q[3] /\ q[3] \in 0..MaxPos
      BY <1>2, <2>1, <3>2, <3>3, RuledFacts DEF Before
    <3> QED BY <1>2, <1>3, <3>2, <3>4
  <2>2. CASE p # to /\ q = to
    <3>1. p \in DOMAIN F /\ Before(p, path) /\ G[p] = F[p] /\ G[q] = F[path]
      BY <1>1, <1>2, <2>2 DEF Before
    <3> QED BY <3>1 DEF Sorted
  <2>3. CASE p # to /\ q # to
    BY <1>1, <2>3 DEF Sorted
  <2> QED BY <2>1, <2>2, <2>3
<1>5. Gapless(G)
  <2> SUFFICES ASSUME NEW p \in DOMAIN G, NEW m \in 1..p[3]
               PROVE  <<p[1], p[2], m>> \in DOMAIN G
    BY DEF Gapless
  <2>1. CASE p = to
    <3>1. m \in 1..MaxPos /\ m <= n
      BY <1>2, <2>1
    <3>2. CASE m = n
      BY <1>1, <1>2, <2>1, <3>2
    <3>3. CASE m # n
      <4>1. ~(n <= m)
        BY <3>1, <3>3
      <4>2. <<path[1], path[2], m>> \in DOMAIN F
        BY <3>1, <4>1
      <4>3. <<path[1], path[2], m>> # path
        BY <3>1
      <4> QED BY <1>1, <1>2, <2>1, <4>2, <4>3
    <3> QED BY <3>2, <3>3
  <2>2. CASE p # to
    <3>1. <<p[1], p[2], m>> \in DOMAIN F
      BY <1>1, <2>2 DEF Gapless
    <3>2. <<p[1], p[2], m>> # path
      <4>1. m # 0
        OBVIOUS
      <4> QED BY <4>1
    <3> QED BY <1>1, <3>1, <3>2
  <2> QED BY <2>1, <2>2
<1> QED BY <1>4, <1>5 DEF G

(* getLogFile opens the day's file, which may be new. *)
Was(F, path) == IF path \in DOMAIN F THEN F[path] ELSE [log |-> <<>>, opens |-> 0]
Opened(F, path) ==
  [p \in DOMAIN F \cup {path} |->
     IF p = path THEN [Was(F, path) EXCEPT !.opens = @ + 1] ELSE F[p]]

LEMMA OpenFacts ==
  ASSUME NEW F, Ruled(F), NEW path \in Slots \X (1..Days) \X {0}, NEW l \in Levels
  PROVE  LET G == Opened(F, path)
         IN  /\ Ruled(G) /\ AllIds(G) = AllIds(F)
             /\ DOMAIN G = DOMAIN F \cup {path}
             /\ \A p \in DOMAIN F : G[p].log = F[p].log
             /\ G[path].log = Was(F, path).log /\ Was(F, path).log \in Seq(Entries)
             /\ Size(G[path].log) + LenOf[l] <= Bound(G[path].opens)
             /\ Sorted(F) /\ Gapless(F) => Sorted(G) /\ Gapless(G)
<1> DEFINE G == Opened(F, path)
           w == Was(F, path)
<1>1. /\ w.log \in Seq(Entries) /\ w.opens \in Nat /\ w = [log |-> w.log, opens |-> w.opens]
      /\ w.opens = 0 => w.log = <<>> /\ path \notin DOMAIN F
  <2>1. CASE path \in DOMAIN F
    BY <2>1, RuledFacts DEF Was
  <2>2. CASE path \notin DOMAIN F
    BY <2>2 DEF Was
  <2> QED BY <2>1, <2>2
<1>2. /\ DOMAIN G = DOMAIN F \cup {path}
      /\ G[path] = [w EXCEPT !.opens = @ + 1]
      /\ \A p \in DOMAIN G : p # path => p \in DOMAIN F /\ G[p] = F[p]
      /\ G = [p \in DOMAIN G |-> G[p]]
  BY DEF Opened
<1>3. path \in DOMAIN F => w = F[path]
  BY DEF Was
<1>4. path \notin DOMAIN F => w.log = <<>> /\ w.opens = 0
  BY DEF Was
<1> HIDE DEF w, G
<1>5. /\ G[path].log = w.log /\ G[path].opens = w.opens + 1
      /\ G[path] \in [log : Seq(Entries), opens : Nat \ {0}]
  <2>1. G[path] = [log |-> w.log, opens |-> w.opens + 1]
    BY <1>1, <1>2
  <2> QED BY <1>1, <2>1
<1>6. \A p \in DOMAIN F : G[p].log = F[p].log
  BY <1>2, <1>3, <1>5
<1>7. path \in Paths /\ path[3] = 0
  BY Constants DEF Paths
<1>8. FileTypes(G)
  <2>1. DOMAIN G \subseteq Paths
    BY <1>2, <1>7, RuledFacts
  <2>2. \A p \in DOMAIN G : G[p] \in [log : Seq(Entries), opens : Nat \ {0}]
    BY <1>2, <1>5, RuledFacts
  <2> QED BY <1>2, <2>1, <2>2 DEF FileTypes
<1>9. ASSUME NEW p \in DOMAIN G, NEW k \in DOMAIN G[p].log
      PROVE  p \in DOMAIN F /\ G[p].log = F[p].log
  <2>1. CASE p \in DOMAIN F
    BY <1>6, <2>1
  <2>2. CASE p \notin DOMAIN F
    <3>1. p = path /\ G[p].log = <<>>
      BY <1>2, <1>4, <1>5, <2>2
    <3> QED BY <3>1
  <2> QED BY <2>1, <2>2
<1>10. Owned(G) /\ Increasing(G) /\ Separate(G)
  <2>1. Owned(G)
    BY <1>9 DEF Ruled, Owned
  <2>2. Increasing(G)
    BY <1>9 DEF Ruled, Increasing
  <2>3. Separate(G)
    BY <1>9 DEF Ruled, Separate
  <2> QED BY <2>1, <2>2, <2>3
<1>11. Filled(G)
  BY <1>2, <1>7 DEF Ruled, Filled
<1>12. Size(G[path].log) + LenOf[l] <= Bound(G[path].opens) /\ Size(G[path].log) \in Nat
       /\ LenOf[l] \in Nat /\ Bound(G[path].opens) \in Nat
  <2>1. Size(w.log) \in Nat
    BY <1>1, BytesFinite
  <2>2. w.opens + 1 \in Nat /\ w.opens + 1 >= 1
    BY <1>1
  <2>3. Bound(w.opens + 1) \in Nat /\ LenOf[l] \in Nat
    BY <2>2, BoundFacts
  <2>4. CASE path \in DOMAIN F
    <3>1. w.opens \in Nat /\ w.opens >= 1 /\ Size(w.log) <= Bound(w.opens)
      BY <1>3, <2>4, RuledFacts
    <3>2. Size(w.log) + LenOf[l] <= Bound(w.opens + 1)
      BY <2>1, <3>1, BoundFacts
    <3> QED BY <1>5, <2>1, <2>3, <3>2
  <2>5. CASE path \notin DOMAIN F
    <3>1. Size(w.log) = 0 /\ w.opens + 1 = 1
      BY <1>4, <2>5, SizeEmpty
    <3>2. LenOf[l] <= Bound(1)
      BY BoundFacts
    <3> QED BY <1>5, <2>1, <2>3, <3>1, <3>2
  <2> QED BY <2>4, <2>5
<1>13. Bounded(G)
  <2> SUFFICES ASSUME NEW p \in DOMAIN G
               PROVE  Size(G[p].log) <= Bound(G[p].opens)
    BY DEF Bounded
  <2>1. CASE p = path
    BY <1>12, <2>1
  <2>2. CASE p # path
    BY <1>2, <2>2, RuledFacts
  <2> QED BY <2>1, <2>2
<1>14. Ruled(G)
  BY <1>8, <1>10, <1>11, <1>13 DEF Ruled
<1>15. AllIds(G) = AllIds(F)
  <2>1. AllIds(G) \subseteq AllIds(F)
    BY <1>9 DEF AllIds
  <2>2. AllIds(F) \subseteq AllIds(G)
    BY <1>2, <1>6 DEF AllIds
  <2> QED BY <2>1, <2>2
<1>16. ASSUME Sorted(F), Gapless(F)
       PROVE  Sorted(G) /\ Gapless(G)
  <2>1. Sorted(G)
    BY <1>9, <1>16 DEF Sorted
  <2>2. \A p \in DOMAIN G : \A n \in 1..p[3] : p \in DOMAIN F
    BY <1>2, <1>7
  <2>3. Gapless(G)
    BY <1>2, <1>16, <2>2 DEF Gapless
  <2> QED BY <2>1, <2>3
<1> QED BY <1>1, <1>2, <1>5, <1>6, <1>12, <1>14, <1>15, <1>16 DEF G, w

(* An entry is written. *)
Appended(F, G, path, e) ==
  /\ DOMAIN G = DOMAIN F /\ G = [p \in DOMAIN G |-> G[p]]
  /\ \A p \in DOMAIN F : p # path => G[p] = F[p]
  /\ G[path] = [log |-> Append(F[path].log, e), opens |-> F[path].opens]

LEMMA AppendFacts ==
  ASSUME NEW F, Ruled(F), NEW path \in DOMAIN F, path[3] = 0, NEW e \in Entries,
         path[1] = tLev(e), path[2] = e.day, \A d \in AllIds(F) : d < e.id,
         Size(F[path].log) + LenOf[e.lev] <= Bound(F[path].opens),
         NEW G, Appended(F, G, path, e)
  PROVE  /\ Ruled(G) /\ AllIds(G) = AllIds(F) \cup {e.id}
         /\ DOMAIN G = DOMAIN F
         /\ \A p \in DOMAIN F : p # path => G[p] = F[p]
         /\ G[path].log # <<>> /\ Size(G[path].log) = Size(F[path].log) + LenOf[e.lev]
         /\ Sorted(F) /\ Gapless(F) => Sorted(G) /\ Gapless(G)
<1> DEFINE es == F[path].log
           gs == G[path].log
           n  == Len(es) + 1
<1>1. /\ es \in Seq(Entries) /\ F[path].opens \in Nat \ {0}
      /\ F[path] = [log |-> es, opens |-> F[path].opens]
  BY RuledFacts
<1>2. DOMAIN G = DOMAIN F /\ \A p \in DOMAIN F : p # path => G[p] = F[p]
  BY DEF Appended
<1>3. G[path] = [log |-> Append(es, e), opens |-> F[path].opens]
  BY DEF Appended
<1>4. gs = Append(es, e) /\ G[path].opens = F[path].opens
  BY <1>3
<1>5. G = [p \in DOMAIN G |-> G[p]]
  BY DEF Appended
<1> HIDE DEF es, gs
<1>6. /\ n \in Nat /\ Len(es) \in Nat /\ DOMAIN es = 1..Len(es) /\ DOMAIN gs = 1..n /\ gs[n] = e
      /\ gs \in Seq(Entries) /\ gs # <<>>
      /\ \A k \in 1..Len(es) : gs[k] = es[k]
  <2>1. Append(es, e) # <<>> /\ Append(es, e) \in Seq(Entries)
    BY <1>1
  <2> QED BY <1>1, <1>4, <2>1
<1>7. Size(gs) = Size(es) + LenOf[e.lev]
  BY <1>1, <1>4, SizeAppend
<1>8. \A p \in DOMAIN F : G[p] \in [log : Seq(Entries), opens : Nat \ {0}]
  <2> SUFFICES ASSUME NEW p \in DOMAIN F
               PROVE  G[p] \in [log : Seq(Entries), opens : Nat \ {0}]
    OBVIOUS
  <2>1. CASE p = path
    <3>1. Append(es, e) \in Seq(Entries)
      BY <1>4, <1>6
    <3>2. F[path].opens \in Nat \ {0}
      BY <1>1
    <3> QED BY <1>3, <2>1, <3>1, <3>2, SMTT(30)
  <2>2. CASE p # path
    BY <1>2, <2>2, RuledFacts
  <2> QED BY <2>1, <2>2
(* An entry of G is one of F or the new one, which is younger. *)
<1>9. ASSUME NEW p \in DOMAIN F, NEW k \in DOMAIN G[p].log
      PROVE  \/ /\ k \in DOMAIN F[p].log /\ G[p].log[k] = F[p].log[k]
                /\ G[p].log[k].id < e.id
             \/ p = path /\ k = n /\ G[p].log[k] = e
  <2>1. \A q \in DOMAIN F : \A m \in DOMAIN F[q].log : F[q].log[m].id < e.id
    BY DEF AllIds
  <2>2. CASE p # path
    BY <1>2, <2>1, <2>2
  <2>3. CASE p = path
    <3>1. k \in 1..Len(es) \/ k = n
      BY <1>6, <2>3 DEF gs
    <3> QED BY <1>6, <2>1, <2>3, <3>1 DEF es, gs
  <2> QED BY <2>2, <2>3
<1>10. \A p \in DOMAIN F : \A k \in DOMAIN F[p].log : k \in DOMAIN G[p].log /\ G[p].log[k] = F[p].log[k]
  <2> SUFFICES ASSUME NEW p \in DOMAIN F, NEW k \in DOMAIN F[p].log
               PROVE  k \in DOMAIN G[p].log /\ G[p].log[k] = F[p].log[k]
    OBVIOUS
  <2>1. CASE p = path
    <3>1. F[p].log = es /\ G[p].log = gs
      BY <2>1 DEF es, gs
    <3>2. k \in 1..Len(es) /\ k \in 1..n
      BY <1>6, <3>1
    <3> QED BY <1>6, <3>1, <3>2
  <2> QED BY <1>2, <2>1
<1>11. FileTypes(G)
  <2>1. DOMAIN G \subseteq Paths
    BY <1>2, RuledFacts
  <2> QED BY <1>2, <1>5, <1>8, <2>1 DEF FileTypes
<1>12. Owned(G)
  <2> SUFFICES ASSUME NEW p \in DOMAIN F, NEW k \in DOMAIN G[p].log
               PROVE  p[1] = tLev(G[p].log[k]) /\ p[2] = G[p].log[k].day
    BY <1>2 DEF Owned
  <2> QED BY <1>9 DEF Ruled, Owned
<1>13. Increasing(G)
  <2> SUFFICES ASSUME NEW p \in DOMAIN F, NEW j \in DOMAIN G[p].log, NEW k \in DOMAIN G[p].log, j < k
               PROVE  G[p].log[j].id < G[p].log[k].id
    BY <1>2 DEF Increasing
  <2>1. CASE k \in DOMAIN F[p].log /\ G[p].log[k] = F[p].log[k]
    <3>1. j \in DOMAIN F[p].log /\ G[p].log[j] = F[p].log[j]
      <4>1. ~(p = path /\ j = n)
        <5>1. p = path => k \in 1..Len(es) /\ j \in 1..n
          BY <1>6, <2>1 DEF es, gs
        <5> QED BY <1>6, <5>1
      <4> QED BY <1>9, <4>1
    <3> QED BY <2>1, <3>1 DEF Ruled, Increasing
  <2>2. CASE p = path /\ k = n /\ G[p].log[k] = e
    <3>1. j # n
      BY <1>6, <2>2 DEF gs
    <3> QED BY <1>9, <2>2, <3>1
  <2> QED BY <1>9, <2>1, <2>2
<1>14. Separate(G)
  <2> SUFFICES ASSUME NEW p \in DOMAIN F, NEW q \in DOMAIN F, p # q,
                      NEW j \in DOMAIN G[p].log, NEW k \in DOMAIN G[q].log
               PROVE  G[p].log[j].id # G[q].log[k].id
    BY <1>2 DEF Separate
  <2>1. e.id \in Nat
    BY DEF Entries
  <2>2. CASE p # path /\ q # path
    BY <1>2, <2>2 DEF Ruled, Separate
  <2>3. CASE p = path
    <3>1. q # path /\ k \in DOMAIN F[q].log /\ G[q].log[k] = F[q].log[k] /\ F[q].log[k].id < e.id
      BY <1>9, <2>3
    <3>2. F[q].log[k].id \in Nat
      BY <3>1, RuledFacts DEF Entries
    <3>3. CASE j \in DOMAIN F[p].log /\ G[p].log[j] = F[p].log[j]
      BY <3>1, <3>3 DEF Ruled, Separate
    <3>4. CASE G[p].log[j] = e
      BY <2>1, <3>1, <3>2, <3>4
    <3> QED BY <1>9, <3>3, <3>4
  <2>4. CASE q = path
    <3>1. p # path /\ j \in DOMAIN F[p].log /\ G[p].log[j] = F[p].log[j] /\ F[p].log[j].id < e.id
      BY <1>9, <2>4
    <3>2. F[p].log[j].id \in Nat
      BY <3>1, RuledFacts DEF Entries
    <3>3. CASE k \in DOMAIN F[q].log /\ G[q].log[k] = F[q].log[k]
      BY <3>1, <3>3 DEF Ruled, Separate
    <3>4. CASE G[q].log[k] = e
      BY <2>1, <3>1, <3>2, <3>4
    <3> QED BY <1>9, <3>3, <3>4
  <2> QED BY <2>2, <2>3, <2>4
<1>15. Filled(G)
  BY <1>2 DEF Ruled, Filled
<1>16. Bounded(G)
  <2> SUFFICES ASSUME NEW p \in DOMAIN F
               PROVE  Size(G[p].log) <= Bound(G[p].opens)
    BY <1>2 DEF Bounded
  <2>1. CASE p = path
    BY <1>4, <1>7, <2>1 DEF es, gs
  <2>2. CASE p # path
    BY <1>2, <2>2, RuledFacts
  <2> QED BY <2>1, <2>2
<1>17. AllIds(G) = AllIds(F) \cup {e.id}
  <2>1. AllIds(G) \subseteq AllIds(F) \cup {e.id}
    <3> SUFFICES ASSUME NEW p \in DOMAIN F, NEW k \in DOMAIN G[p].log
                 PROVE  G[p].log[k].id \in AllIds(F) \cup {e.id}
      BY <1>2 DEF AllIds
    <3> QED BY <1>9 DEF AllIds
  <2>2. AllIds(F) \subseteq AllIds(G)
    BY <1>2, <1>10 DEF AllIds
  <2>3. e.id \in AllIds(G)
    <3>1. n \in DOMAIN G[path].log /\ G[path].log[n] = e
      BY <1>6 DEF gs
    <3>2. path \in DOMAIN G
      BY <1>2
    <3>3. G[path].log[n].id \in AllIds(G)
      BY <3>1, <3>2, InAll
    <3> QED BY <3>1, <3>3
  <2> QED BY <2>1, <2>2, <2>3
<1>18. ASSUME Sorted(F), Gapless(F)
       PROVE  Sorted(G) /\ Gapless(G)
  <2>1. Gapless(G)
    BY <1>2, <1>18 DEF Gapless
  <2>2. Sorted(G)
    <3> SUFFICES ASSUME NEW p \in DOMAIN F, NEW q \in DOMAIN F, Before(p, q),
                        NEW j \in DOMAIN G[p].log, NEW k \in DOMAIN G[q].log
                 PROVE  G[p].log[j].id < G[q].log[k].id
      BY <1>2 DEF Sorted
    <3>1. p # path
      BY DEF Before
    <3>2. j \in DOMAIN F[p].log /\ G[p].log[j] = F[p].log[j] /\ G[p].log[j].id < e.id
      BY <1>9, <3>1
    <3>3. CASE k \in DOMAIN F[q].log /\ G[q].log[k] = F[q].log[k]
      BY <1>18, <3>2, <3>3 DEF Sorted
    <3>4. CASE G[q].log[k] = e
      BY <3>2, <3>4
    <3> QED BY <1>9, <3>3, <3>4
  <2> QED BY <2>1, <2>2
<1>19. Ruled(G)
  BY <1>11, <1>12, <1>13, <1>14, <1>15, <1>16 DEF Ruled
<1>20. G[path].log # <<>> /\ Size(G[path].log) = Size(F[path].log) + LenOf[e.lev]
  BY <1>6, <1>7 DEF es, gs
<1> QED BY <1>2, <1>17, <1>18, <1>19, <1>20

(* A file is taken away. *)
LEMMA TakeFacts ==
  ASSUME NEW F, Ruled(F), NEW r \in DOMAIN F, NEW G, G = [q \in DOMAIN F \ {r} |-> F[q]]
  PROVE  /\ Ruled(G) /\ DOMAIN G = DOMAIN F \ {r} /\ \A p \in DOMAIN G : G[p] = F[p]
         /\ AllIds(G) = AllIds(F) \ {F[r].log[k].id : k \in DOMAIN F[r].log}
         /\ Sorted(F) /\ Gapless(F) /\ F[r].log = <<>> => Sorted(G) /\ Gapless(G)
<1> DEFINE g == [p \in DOMAIN G |-> p]
<1>1. DOMAIN G = DOMAIN F \ {r} /\ \A p \in DOMAIN G : p \in DOMAIN F /\ G[p] = F[p] /\ g[p] = p
  OBVIOUS
<1>2. Same(F, G, g)
  <2>1. DOMAIN G \subseteq Paths
    BY <1>1, RuledFacts
  <2>2. G = [p \in DOMAIN G |-> F[g[p]]]
    OBVIOUS
  <2> HIDE DEF g
  <2> QED BY <1>1, <2>1, <2>2 DEF Same
<1>3. \A p \in DOMAIN G : p[3] # 0 => F[g[p]].log # <<>>
  BY <1>1 DEF Ruled, Filled
<1>4. Ruled(G)
  <2> HIDE DEF g
  <2> QED BY <1>2, <1>3, SameRuled
<1>5. AllIds(G) = AllIds(F) \ {F[r].log[k].id : k \in DOMAIN F[r].log}
  <2>1. ASSUME NEW p \in DOMAIN G, NEW k \in DOMAIN G[p].log
        PROVE  G[p].log[k].id \in AllIds(F) \ {F[r].log[j].id : j \in DOMAIN F[r].log}
    BY <1>1 DEF AllIds, Ruled, Separate
  <2>2. ASSUME NEW p \in DOMAIN F, NEW k \in DOMAIN F[p].log, p # r
        PROVE  F[p].log[k].id \in AllIds(G)
    BY <1>1, <2>2 DEF AllIds
  <2> QED BY <2>1, <2>2 DEF AllIds
<1>6. ASSUME Sorted(F), Gapless(F), F[r].log = <<>>
      PROVE  Sorted(G) /\ Gapless(G)
  <2>1. Sorted(G)
    BY <1>1, <1>6 DEF Sorted
  <2>2. r[3] = 0
    BY <1>6 DEF Ruled, Filled
  <2>3. \A a, b : \A n \in Nat \ {0} : <<a, b, n>> # r
    BY <2>2
  <2>4. Gapless(G)
    <3> SUFFICES ASSUME NEW p \in DOMAIN G, NEW n \in 1..p[3]
                 PROVE  <<p[1], p[2], n>> \in DOMAIN G
      BY DEF Gapless
    <3>1. <<p[1], p[2], n>> \in DOMAIN F
      BY <1>1, <1>6 DEF Gapless
    <3>2. n \in Nat \ {0}
      BY <1>1, RuledFacts
    <3> QED BY <1>1, <2>3, <3>1, <3>2
  <2> QED BY <2>1, <2>4
<1> QED BY <1>1, <1>4, <1>5, <1>6

----------------------------------------------------------------------------
(* The queue.                                                              *)

Unimportant(q) == {i \in DOMAIN q : q[i].lev > LEV_ERROR}

LEMMA LimitAppend ==
  ASSUME NEW q \in Seq(Entries), NEW e \in Entries, Cardinality(Unimportant(q)) <= Cap,
         e.lev > LEV_ERROR => Len(q) < Cap
  PROVE  Cardinality(Unimportant(Append(q, e))) <= Cap
<1> DEFINE n == Len(q) + 1
           r == Append(q, e)
<1>1. /\ Len(q) \in Nat /\ DOMAIN q = 1..Len(q) /\ DOMAIN r = 1..n /\ r[n] = e
      /\ \A i \in 1..Len(q) : r[i] = q[i]
  OBVIOUS
<1> HIDE DEF r
<1>2. CASE e.lev > LEV_ERROR
  <2>1. IsFiniteSet(1..n) /\ Cardinality(1..n) = n
    BY <1>1, IntervalFacts
  <2>2. Unimportant(r) \subseteq 1..n
    BY <1>1 DEF Unimportant
  <2>3. IsFiniteSet(Unimportant(r)) /\ Cardinality(Unimportant(r)) <= n
    BY <2>1, <2>2, FS_Subset
  <2>4. Cardinality(Unimportant(r)) \in Nat
    BY <2>3, FS_CardinalityType
  <2> QED BY <1>1, <1>2, <2>3, <2>4, Constants DEF r
<1>3. CASE ~(e.lev > LEV_ERROR)
  <2>1. \A i \in 1..n : i \in 1..Len(q) \/ i = n
    BY <1>1
  <2>2. \A i \in 1..Len(q) : i \in 1..n
    BY <1>1
  <2>3. Unimportant(r) = Unimportant(q)
    BY <1>1, <1>3, <2>1, <2>2 DEF Unimportant
  <2> QED BY <2>3 DEF r
<1> QED BY <1>2, <1>3

LEMMA LimitTail ==
  ASSUME NEW q \in Seq(Entries), q # <<>>, Cardinality(Unimportant(q)) <= Cap
  PROVE  Cardinality(Unimportant(Tail(q))) <= Cap
<1> DEFINE t == Tail(q)
           f == [i \in Unimportant(t) |-> i + 1]
<1>1. /\ Len(q) \in Nat /\ Len(q) >= 1 /\ DOMAIN q = 1..Len(q) /\ DOMAIN t = 1..(Len(q) - 1)
      /\ \A i \in 1..(Len(q) - 1) : t[i] = q[i + 1]
  OBVIOUS
<1> HIDE DEF t
<1>2. \A i \in Unimportant(t) : i \in Nat /\ i + 1 \in Unimportant(q)
  BY <1>1 DEF Unimportant
<1>3. f \in Injection(Unimportant(t), Unimportant(q))
  BY <1>2 DEF Injection, IsInjective
<1>4. IsFiniteSet(Unimportant(q))
  <2>1. Unimportant(q) \subseteq 1..Len(q)
    BY <1>1 DEF Unimportant
  <2>2. IsFiniteSet(1..Len(q))
    BY <1>1, IntervalFacts
  <2> QED BY <2>1, <2>2, FS_Subset
<1>5. /\ IsFiniteSet(Unimportant(t))
      /\ Cardinality(Unimportant(t)) <= Cardinality(Unimportant(q))
  BY <1>3, <1>4, FS_Injection
<1>6. Cardinality(Unimportant(t)) \in Nat /\ Cardinality(Unimportant(q)) \in Nat
  BY <1>4, <1>5, FS_CardinalityType
<1> QED BY <1>5, <1>6, Constants DEF t

LEMMA LimitIs ==
  /\ QueueLimit <=> /\ Cardinality(Unimportant(queue)) <= Cap
                    /\ \A e \in refused : e.lev > LEV_ERROR
  /\ QueueLimit' <=> /\ Cardinality(Unimportant(queue')) <= Cap
                     /\ \A e \in refused' : e.lev > LEV_ERROR
BY DEF QueueLimit, Unimportant

LEMMA EntryFacts ==
  ASSUME NEW e \in Entries
  PROVE  /\ e.id \in Nat \ {0} /\ e.lev \in Levels /\ e.day \in 1..Days /\ e # NoLog
         /\ e.lev \in Nat /\ LenOf[e.lev] \in Nat
<1>1. e.id \in Nat \ {0} /\ e.lev \in Levels /\ e.day \in 1..Days
  BY DEF Entries
<1>2. NoLog.id = 0
  BY DEF NoLog
<1>3. e # NoLog
  BY <1>1, <1>2
<1>4. e.lev \in 1..5 /\ LenOf[e.lev] \in Nat
  BY <1>1, Constants
<1> QED BY <1>1, <1>3, <1>4

LEMMA SlotFacts ==
  ASSUME Types, NEW e \in Entries
  PROVE  tLev(e) \in Slots
BY EntryFacts, Constants DEF tLev, Slots, Types

(* The disk in the next state. *)
LEMMA DiskNext ==
  ASSUME singleFile' = singleFile
  PROVE  Disk' <=> Ruled(files') /\ (removed' = {} => Sorted(files') /\ Gapless(files'))
BY DEF Disk, Ruled, FileTypes, Owned, tLev, Increasing, Separate, Filled, Bounded, Bound, Size,
       Bytes, Sorted, Gapless, Before, Entries, Paths, Slots, MaxLen

LEMMA OpenNext ==
  /\ OpenFiles' <=>
       \A s \in Slots : fd'[s] # None =>
         /\ fd'[s].path[1] = s
         /\ fd'[s].path \in DOMAIN files' =>
              /\ fd'[s].nowSz = Size(files'[fd'[s].path].log)
              /\ files'[fd'[s].path].log # <<>> \/ (pc' = "write" /\ s = tLev(log)')
  /\ Target' <=>
       (pc' = "write" =>
          LET f == fd'[tLev(log)']
          IN  /\ f # None /\ f.path[2] = log'.day
              /\ f.path \in DOMAIN files' =>
                   Size(files'[f.path].log) + LenOf[log'.lev] <= Bound(files'[f.path].opens))
  /\ singleFile' = singleFile => tLev(log)' = tLev(log')
BY DEF OpenFiles, Target, Size, Bytes, tLev, Bound, MaxLen

LEMMA SharesNext ==
  Shares' <=> Split(AllIds(files'), {queue'[i].id : i \in DOMAIN queue'}, {log'.id} \ {0},
                    {e.id : e \in refused'}, lost', dropped', removed', pushed')
BY DEF Shares, AllIds, QueueIds, HandId, RefusedIds, Split

Rest == QueueLimit /\ Ages /\ Disk /\ OpenFiles /\ Target /\ Shares

(* Steps that move no entry. *)
LEMMA QuietStep ==
  ASSUME Rest, UNCHANGED <<singleFile, queue, log, fd, files, pushed, history>>,
         pc # "write", pc' # "write"
  PROVE  Rest'
<1>1. QueueLimit'
  BY DEF Rest, QueueLimit, history
<1>2. Ages'
  BY DEF Rest, Ages, AllIds
<1>3. Disk'
  BY DiskNext DEF Rest, Disk, history
<1>4. OpenFiles'
  BY OpenNext DEF Rest, OpenFiles
<1>5. Target'
  BY DEF Target
<1>6. Shares'
  BY SharesNext DEF Rest, Shares, QueueIds, HandId, RefusedIds, history
<1> QED BY <1>1, <1>2, <1>3, <1>4, <1>5, <1>6 DEF Rest

(* Steps that leave the disk alone, and the thread where it is or not writing. *)
LEMMA DiskStep ==
  ASSUME Rest, UNCHANGED <<singleFile, fd, files, removed>>,
         \/ pc' = pc /\ log' = log
         \/ pc # "write" /\ pc' # "write"
  PROVE  Disk' /\ OpenFiles' /\ Target' /\ AllIds(files') = AllIds(files)
<1>1. Disk'
  BY DiskNext DEF Rest, Disk
<1>2. OpenFiles'
  BY OpenNext DEF Rest, OpenFiles
<1>3. Target'
  BY OpenNext DEF Rest, Target
<1> QED BY <1>1, <1>2, <1>3

(* A caller logs an entry. *)
LEMMA WriteStep ==
  ASSUME IInv, NEW lev \in Levels, NEW day \in {today, today - 1} \ {0}, Write(lev, day)
  PROVE  Types' /\ Rest'
<1> DEFINE e == [id |-> pushed + 1, lev |-> lev, day |-> day]
<1>0. Types /\ Rest
  BY DEF IInv, Rest
<1>1. /\ pushed' = pushed + 1 /\ pushed \in Nat /\ pushed' \in 0..MaxPush
      /\ UNCHANGED <<singleFile, life, pc, log, fd, files, today, lost, dropped, removed>>
      /\ IF refuses(lev) THEN refused' = refused \cup {e} /\ queue' = queue
                         ELSE queue' = Append(queue, e) /\ refused' = refused
  BY <1>0, Constants DEF Write, disk, Types
<1>2. e \in Entries /\ e.id = pushed + 1 /\ e.lev = lev
  <2>1. day \in 1..Days
    BY <1>0, Constants DEF Types
  <2> QED BY <1>1, <2>1 DEF Entries
<1>3. lev \in Nat /\ queue \in Seq(Entries) /\ refused \subseteq Entries
  BY <1>0, Constants DEF Types
<1> HIDE DEF e
<1>4. Types'
  <2>1. queue' \in Seq(Entries) /\ refused' \subseteq Entries
    BY <1>1, <1>2, <1>3
  <2> QED BY <1>0, <1>1, <2>1 DEF Types
<1>5. QueueLimit'
  <2>1. CASE refuses(lev)
    BY <1>0, <1>1, <1>2, <2>1, LimitIs DEF refuses, Rest
  <2>2. CASE ~refuses(lev)
    <3>1. e.lev > LEV_ERROR => Len(queue) < Cap
      BY <1>2, <1>3, <2>2, Constants DEF refuses
    <3> QED BY <1>0, <1>1, <1>2, <1>3, <2>2, <3>1, LimitIs, LimitAppend DEF Rest
  <2> QED BY <2>1, <2>2
<1>6. Disk' /\ OpenFiles' /\ Target' /\ AllIds(files') = AllIds(files)
  BY <1>0, <1>1, DiskStep
<1>7. \A d \in AllIds(files) : d \in Nat
  <2>1. \A p \in DOMAIN files : \A k \in DOMAIN files[p].log : files[p].log[k] \in Entries
    BY <1>0, RuledFacts DEF Rest, Disk
  <2>2. \A p \in DOMAIN files : \A k \in DOMAIN files[p].log : files[p].log[k].id \in Nat
    BY <2>1, EntryFacts
  <2> QED BY <2>2 DEF AllIds
<1>8. /\ \A i \in DOMAIN queue : queue[i] \in Entries /\ queue[i].id \in Nat /\ queue[i].id <= pushed
      /\ DOMAIN queue = 1..Len(queue) /\ Len(queue) \in Nat
  <2>1. \A i \in DOMAIN queue : queue[i] \in Entries /\ queue[i].id <= pushed
    BY <1>0, <1>3 DEF Rest, Ages
  <2> QED BY <1>3, <2>1, EntryFacts
<1>9. ~refuses(lev) =>
        /\ DOMAIN queue' = 1..(Len(queue) + 1)
        /\ \A i \in DOMAIN queue' : \/ i \in DOMAIN queue /\ queue'[i] = queue[i]
                                    \/ i = Len(queue) + 1 /\ queue'[i] = e
        /\ \A i \in DOMAIN queue : i \in DOMAIN queue' /\ queue'[i] = queue[i]
        /\ Len(queue) + 1 \in DOMAIN queue' /\ queue'[Len(queue) + 1] = e
  BY <1>1, <1>2, <1>3, <1>8
<1>10. Ages'
  <2>1. AllIds(files)' = AllIds(files)
    BY <1>1 DEF AllIds
  <2>2. /\ \A i \in DOMAIN queue : \A d \in AllIds(files) : d < queue[i].id
        /\ \A i, j \in DOMAIN queue : i < j => queue[i].id < queue[j].id
        /\ log # NoLog => /\ log.id <= pushed /\ \A d \in AllIds(files) : d < log.id
                          /\ \A i \in DOMAIN queue : log.id < queue[i].id
        /\ \A d \in AllIds(files) : d <= pushed
    BY <1>0 DEF Rest, Ages
  <2>3. log # NoLog => log.id \in Nat
    BY <1>0, EntryFacts DEF Types
  <2>4. /\ \A i \in DOMAIN queue' : queue'[i].id <= pushed' /\ \A d \in AllIds(files) : d < queue'[i].id
        /\ log # NoLog => log.id <= pushed' /\ \A i \in DOMAIN queue' : log.id < queue'[i].id
        /\ \A d \in AllIds(files) : d <= pushed'
    BY <1>1, <1>2, <1>7, <1>8, <1>9, <2>2, <2>3
  <2>5. \A i, j \in DOMAIN queue' : i < j => queue'[i].id < queue'[j].id
    <3> SUFFICES ASSUME NEW i \in DOMAIN queue', NEW j \in DOMAIN queue', i < j
                 PROVE  queue'[i].id < queue'[j].id
      OBVIOUS
    <3>1. CASE refuses(lev)
      BY <1>1, <2>2, <3>1
    <3>2. CASE ~refuses(lev)
      <4>1. i \in DOMAIN queue /\ queue'[i] = queue[i]
        BY <1>8, <1>9, <3>2
      <4>2. CASE j \in DOMAIN queue /\ queue'[j] = queue[j]
        BY <2>2, <4>1, <4>2
      <4>3. CASE queue'[j] = e
        BY <1>1, <1>2, <1>8, <4>1, <4>3
      <4> QED BY <1>9, <3>2, <4>2, <4>3
    <3> QED BY <3>1, <3>2
  <2> QED BY <1>1, <2>1, <2>2, <2>4, <2>5 DEF Ages
<1>11. Shares'
  <2> DEFINE D == AllIds(files)
             n == pushed + 1
  <2>1. Split(D, QueueIds, HandId, RefusedIds, lost, dropped, removed, pushed)
    BY <1>0 DEF Rest, Shares
  <2>2. 1..n = (1..pushed) \cup {n} /\ n \notin 1..pushed
    BY <1>1
  <2>3. CASE refuses(lev)
    <3>1. {x.id : x \in refused'} = RefusedIds \cup {n}
      BY <1>1, <1>2, <2>3 DEF RefusedIds
    <3>2. {queue'[i].id : i \in DOMAIN queue'} = QueueIds /\ {log'.id} \ {0} = HandId
      BY <1>1, <2>3 DEF QueueIds, HandId
    <3>3. Split(D, QueueIds, HandId, RefusedIds \cup {n}, lost, dropped, removed, n)
      BY <2>1, <2>2 DEF Split
    <3> QED BY <1>1, <1>6, <3>1, <3>2, <3>3, SharesNext
  <2>4. CASE ~refuses(lev)
    <3>1. {x.id : x \in refused'} = RefusedIds /\ {log'.id} \ {0} = HandId
      BY <1>1, <2>4 DEF RefusedIds, HandId
    <3>2. {queue'[i].id : i \in DOMAIN queue'} = QueueIds \cup {n}
      <4>1. \A i \in DOMAIN queue' : queue'[i].id \in QueueIds \cup {n}
        BY <1>2, <1>9, <2>4 DEF QueueIds
      <4>2. QueueIds \cup {n} \subseteq {queue'[i].id : i \in DOMAIN queue'}
        BY <1>2, <1>9, <2>4 DEF QueueIds
      <4> QED BY <4>1, <4>2
    <3>3. Split(D, QueueIds \cup {n}, HandId, RefusedIds, lost, dropped, removed, n)
      BY <2>1, <2>2 DEF Split
    <3> QED BY <1>1, <1>6, <3>1, <3>2, <3>3, SharesNext
  <2> QED BY <2>3, <2>4
<1> QED BY <1>4, <1>5, <1>6, <1>10, <1>11 DEF Rest

(* The thread takes the oldest entry. *)
LEMMA PopStep ==
  ASSUME IInv, popLog, queue # <<>>, log' = Head(queue), queue' = Tail(queue), pc' = "file"
  PROVE  Types' /\ Rest'
<1>0. Types /\ Rest
  BY DEF IInv, Rest
<1>1. /\ pc = "pop" /\ log = NoLog
      /\ UNCHANGED <<singleFile, life, fd, files, today, pushed, refused, lost, dropped, removed>>
  BY <1>0 DEF popLog, disk, history, Types
<1>2. /\ queue \in Seq(Entries) /\ Len(queue) \in Nat /\ Len(queue) >= 1
      /\ DOMAIN queue = 1..Len(queue) /\ queue' \in Seq(Entries)
      /\ DOMAIN queue' = 1..(Len(queue) - 1)
      /\ \A i \in DOMAIN queue' : queue'[i] = queue[i + 1]
      /\ log' = queue[1]
  BY <1>0 DEF Types
<1>3. /\ log' \in Entries /\ log' # NoLog /\ log'.id \in Nat \ {0} /\ 1 \in DOMAIN queue
      /\ \A i \in DOMAIN queue' : i + 1 \in DOMAIN queue /\ 1 < i + 1
  <2>1. 1 \in DOMAIN queue /\ log' \in Entries
    BY <1>2
  <2> QED BY <1>2, <2>1, EntryFacts
<1>4. Types'
  BY <1>0, <1>1, <1>2, <1>3 DEF Types
<1>5. QueueLimit'
  BY <1>0, <1>1, <1>2, LimitIs, LimitTail DEF Rest
<1>6. Disk' /\ OpenFiles' /\ Target' /\ AllIds(files') = AllIds(files)
  <2>1. pc' # "write"
    OBVIOUS
  <2> QED BY <1>0, <1>1, <2>1, DiskStep
<1>7. Ages'
  <2>1. AllIds(files)' = AllIds(files)
    BY <1>1 DEF AllIds
  <2>2. /\ \A i \in DOMAIN queue : queue[i].id <= pushed /\ \A d \in AllIds(files) : d < queue[i].id
        /\ \A i, j \in DOMAIN queue : i < j => queue[i].id < queue[j].id
        /\ \A d \in AllIds(files) : d <= pushed
    BY <1>0 DEF Rest, Ages
  <2>3. \A i \in DOMAIN queue' : queue'[i].id <= pushed /\ \A d \in AllIds(files) : d < queue'[i].id
    BY <1>2, <1>3, <2>2
  <2>4. \A i, j \in DOMAIN queue' : i < j => queue'[i].id < queue'[j].id
    <3> SUFFICES ASSUME NEW i \in DOMAIN queue', NEW j \in DOMAIN queue', i < j
                 PROVE  queue'[i].id < queue'[j].id
      OBVIOUS
    <3>1. i + 1 \in DOMAIN queue /\ j + 1 \in DOMAIN queue /\ i + 1 < j + 1
      BY <1>2, <1>3
    <3> QED BY <1>2, <2>2, <3>1
  <2>5. \A i \in DOMAIN queue' : log'.id < queue'[i].id
    BY <1>2, <1>3, <2>2
  <2>6. log'.id <= pushed /\ \A d \in AllIds(files) : d < log'.id
    BY <1>2, <1>3, <2>2
  <2> QED BY <1>1, <2>1, <2>2, <2>3, <2>4, <2>5, <2>6 DEF Ages
<1>8. Shares'
  <2> DEFINE D == AllIds(files)
             Q == {queue'[i].id : i \in DOMAIN queue'}
             h == log'.id
  <2>1. Split(D, QueueIds, HandId, RefusedIds, lost, dropped, removed, pushed)
    BY <1>0 DEF Rest, Shares
  <2>2. HandId = {}
    BY <1>1 DEF HandId, NoLog
  <2>3. {log'.id} \ {0} = {h}
    BY <1>3
  <2>4. QueueIds = Q \cup {h}
    <3>1. \A i \in DOMAIN queue : i = 1 \/ (i - 1 \in DOMAIN queue' /\ queue'[i - 1] = queue[i])
      BY <1>2
    <3>2. QueueIds \subseteq Q \cup {h}
      <4> SUFFICES ASSUME NEW i \in DOMAIN queue
                   PROVE  queue[i].id \in Q \cup {h}
        BY DEF QueueIds
      <4>1. CASE i = 1
        BY <1>2, <4>1
      <4>2. CASE i - 1 \in DOMAIN queue' /\ queue'[i - 1] = queue[i]
        BY <4>2
      <4> QED BY <3>1, <4>1, <4>2
    <3>3. Q \subseteq QueueIds /\ h \in QueueIds
      BY <1>2, <1>3 DEF QueueIds
    <3> QED BY <3>2, <3>3
  <2>5. h \notin Q
    <3> SUFFICES ASSUME NEW i \in DOMAIN queue', queue'[i].id = h
                 PROVE  FALSE
      OBVIOUS
    <3>1. queue[1].id < queue[i + 1].id
      BY <1>0, <1>3 DEF Rest, Ages
    <3> QED BY <1>2, <1>3, <3>1
  <2>6. {x.id : x \in refused'} = RefusedIds
    BY <1>1 DEF RefusedIds
  <2> HIDE DEF D, Q, h
  <2>7. Split(D, Q, {h}, RefusedIds, lost, dropped, removed, pushed)
    BY <2>1, <2>2, <2>4, <2>5 DEF Split
  <2> QED BY <1>1, <1>6, <2>3, <2>6, <2>7, SharesNext DEF D, Q
<1> QED BY <1>4, <1>5, <1>6, <1>7, <1>8 DEF Rest

----------------------------------------------------------------------------
(* The files.                                                              *)

(* Before the day's file is opened the one in use is renamed if it is full:
   no entry is lost and other slots' files stay as they are. *)
LEMMA CloseFull ==
  ASSUME IInv, pc = "file", NEW fs,
         fs = IF full(fd[tLev(log)], log) THEN renamed(fd[tLev(log)].path) ELSE files
  PROVE  /\ Ruled(fs) /\ AllIds(fs) = AllIds(files)
         /\ removed = {} => Sorted(fs) /\ Gapless(fs)
         /\ \A p \in Slots \X (1..Days) \X {0} : p[1] # tLev(log) =>
              /\ p \in DOMAIN fs <=> p \in DOMAIN files
              /\ p \in DOMAIN files => fs[p] = files[p]
<1> DEFINE s == tLev(log)
           f == fd[s]
           path == f.path
           free == {i \in 1..MaxPos : [path EXCEPT ![3] = i] \notin DOMAIN files}
           n == Min(free)
           to == [path EXCEPT ![3] = n]
<1>0. Types /\ Disk /\ OpenFiles /\ Ruled(files) /\ MaxPos \in Nat
  BY Constants DEF IInv, Disk
<1>1. log \in Entries /\ s \in Slots /\ f \in Open \cup {None}
  <2>1. log \in Entries
    BY <1>0 DEF Types
  <2>2. s \in Slots
    BY <1>0, <2>1, SlotFacts
  <2> QED BY <1>0, <2>1, <2>2 DEF Types
<1>2. CASE fs = files
  BY <1>0, <1>2 DEF Disk
<1>3. CASE fs # files
  <2>1. full(f, log) /\ f # None /\ fs = renamed(path)
    BY <1>3 DEF full
  <2>2. free # {} /\ path \in DOMAIN files /\ fs = Renamed(files, path, to)
    <3>1. /\ ~(free = {} \/ path \notin DOMAIN files)
          /\ fs = [p \in (DOMAIN files \ {path}) \cup {to} |->
                     IF p = to THEN files[path] ELSE files[p]]
      BY <1>3, <2>1 DEF renamed
    <3> QED BY <3>1 DEF Renamed
  <2>3. path \in Slots \X (1..Days) \X {0}
    BY <1>1, <2>1 DEF Open
  <2>4. path[1] = s /\ path[3] = 0 /\ files[path].log # <<>>
    BY <1>0, <1>1, <2>1, <2>2, <2>3 DEF OpenFiles
  <2>5. \A i : [path EXCEPT ![3] = i] = <<path[1], path[2], i>>
    BY <2>3
  <2>6. n \in free /\ \A i \in free : n <= i
    <3>1. free \in SUBSET Nat
      BY <1>0
    <3> HIDE DEF free
    <3> QED BY <2>2, <3>1, MinFacts
  <2>7. n \in 1..MaxPos /\ to = <<path[1], path[2], n>> /\ to \notin DOMAIN files
    BY <2>5, <2>6
  <2>8. \A m \in 1..MaxPos : <<path[1], path[2], m>> \notin DOMAIN files => n <= m
    BY <2>5, <2>6
  <2>9. n # 0
    BY <2>7
  <2> HIDE DEF s, f, path, free, n, to
  <2>10. /\ Ruled(fs) /\ AllIds(fs) = AllIds(files)
         /\ DOMAIN fs = (DOMAIN files \ {path}) \cup {to}
    <3>1. Ruled(files) /\ path \in DOMAIN files /\ files[path].log # <<>>
      BY <1>0, <2>2, <2>4
    <3>2. n \in 1..MaxPos /\ to = <<path[1], path[2], n>> /\ to \notin DOMAIN files
      BY <2>7
    <3>3. Ruled(Renamed(files, path, to))
      BY <3>1, <3>2, RenameRuled
    <3>4. AllIds(Renamed(files, path, to)) = AllIds(files)
      BY <3>1, <3>2, RenameRuled
    <3>5. DOMAIN Renamed(files, path, to) = (DOMAIN files \ {path}) \cup {to}
      BY DEF Renamed
    <3> QED BY <2>2, <3>3, <3>4, <3>5
  <2>11. removed = {} => Sorted(fs) /\ Gapless(fs)
    BY <1>0, <2>2, <2>4, <2>7, <2>8, RenameSeries DEF Disk
  <2>12. ASSUME NEW p \in Slots \X (1..Days) \X {0}, p[1] # s
         PROVE  (p \in DOMAIN fs <=> p \in DOMAIN files) /\ (p \in DOMAIN files => fs[p] = files[p])
    <3>1. p[3] = 0 /\ to[3] = n /\ p # path /\ p # to
      BY <2>4, <2>7, <2>9, <2>12
    <3>2. p \in DOMAIN fs <=> p \in DOMAIN files
      BY <2>10, <3>1
    <3>3. CASE p \in DOMAIN files
      BY <2>2, <3>1, <3>3 DEF Renamed
    <3> QED BY <3>2, <3>3
  <2> QED BY <2>10, <2>11, <2>12 DEF s
<1> QED BY <1>2, <1>3

LEMMA IdsNat ==
  ASSUME NEW F, Ruled(F)
  PROVE  \A d \in AllIds(F) : d \in Nat
<1>1. \A p \in DOMAIN F : \A k \in DOMAIN F[p].log : F[p].log[k] \in Entries
  BY RuledFacts
<1>2. \A p \in DOMAIN F : \A k \in DOMAIN F[p].log : F[p].log[k].id \in Nat
  BY <1>1, EntryFacts
<1> QED BY <1>2 DEF AllIds

(* The queue, the entry in hand and the accounts stay as they are while files
   are opened and renamed. *)
LEMMA SameIdsStep ==
  ASSUME Rest, AllIds(files') = AllIds(files), UNCHANGED <<queue, log, pushed, history>>
  PROVE  QueueLimit' /\ Ages' /\ Shares'
<1>1. QueueLimit'
  BY DEF Rest, QueueLimit, history
<1>2. Ages'
  <2>1. AllIds(files)' = AllIds(files)
    BY DEF AllIds
  <2> QED BY <2>1 DEF Rest, Ages
<1>3. Shares'
  BY SharesNext DEF Rest, Shares, QueueIds, HandId, RefusedIds, history
<1> QED BY <1>1, <1>2, <1>3

(* getLogFile *)
LEMMA FileStep ==
  ASSUME IInv, getLogFile
  PROVE  Types' /\ Rest'
<1> DEFINE s == tLev(log)
           f == fd[s]
           fs == IF full(f, log) THEN renamed(f.path) ELSE files
           keep == /\ f # None /\ ~full(f, log)
                   /\ ~dayChanged(f.path, log) /\ f.path \in DOMAIN fs
           path == <<s, log.day, 0>>
           was == IF path \in DOMAIN fs THEN fs[path] ELSE [log |-> <<>>, opens |-> 0]
<1>0. Types /\ Rest /\ Disk /\ OpenFiles /\ Ruled(files)
  BY DEF IInv, Rest, Disk
<1>1. /\ pc = "file" /\ pc' = "write"
      /\ UNCHANGED <<singleFile, life, queue, log, today, pushed, history>>
      /\ UNCHANGED <<refused, lost, dropped, removed>>
      /\ IF keep THEN UNCHANGED <<fd, files>>
         ELSE /\ files' = [p \in DOMAIN fs \cup {path} |->
                             IF p = path THEN [was EXCEPT !.opens = @ + 1] ELSE fs[p]]
              /\ fd' = [fd EXCEPT ![s] = [path |-> path, nowSz |-> Size(was.log)]]
  BY DEF getLogFile, disk, history
<1>2. was = Was(fs, path)
  BY DEF Was
<1>3. ~keep => /\ files' = Opened(fs, path)
               /\ fd' = [fd EXCEPT ![s] = [path |-> path, nowSz |-> Size(Was(fs, path).log)]]
  BY <1>1, <1>2 DEF Opened
<1>4. /\ log \in Entries /\ s \in Slots /\ log.lev \in Levels /\ log.day \in 1..Days
      /\ LenOf[log.lev] \in Nat /\ f \in Open \cup {None} /\ tLev(log)' = s
      /\ fd \in [Slots -> Open \cup {None}]
  <2>1. log \in Entries
    BY <1>0, <1>1 DEF Types
  <2>2. s \in Slots
    BY <1>0, <2>1, SlotFacts
  <2>3. tLev(log)' = s
    BY <1>1 DEF tLev
  <2> QED BY <1>0, <2>1, <2>2, <2>3, EntryFacts DEF Types
<1>5. /\ Ruled(fs) /\ AllIds(fs) = AllIds(files)
      /\ removed = {} => Sorted(fs) /\ Gapless(fs)
      /\ \A p \in Slots \X (1..Days) \X {0} : p[1] # s =>
           /\ p \in DOMAIN fs <=> p \in DOMAIN files
           /\ p \in DOMAIN files => fs[p] = files[p]
  BY <1>1, CloseFull
<1>6. CASE keep
  <2>1. UNCHANGED <<fd, files>> /\ f # None /\ ~full(f, log) /\ fs = files
        /\ ~dayChanged(f.path, log)
    BY <1>1, <1>6
  <2>2. f.nowSz + LenOf[log.lev] <= FileSize /\ f.nowSz \in Nat /\ f.path[2] = log.day
    <3>1. f.nowSz \in Nat
      BY <1>4, <2>1 DEF Open
    <3> HIDE DEF f
    <3> QED BY <1>4, <2>1, <3>1, Constants DEF full, dayChanged
  <2>3. Types'
    BY <1>0, <1>1, <1>4, <2>1 DEF Types
  <2>4. QueueLimit' /\ Ages' /\ Shares'
    BY <1>0, <1>1, <2>1, SameIdsStep
  <2>5. Disk'
    BY <1>0, <1>1, <2>1, DiskNext DEF Disk
  <2>6. OpenFiles'
    <3>1. \A t \in Slots : fd[t] # None =>
            /\ fd[t].path[1] = t
            /\ fd[t].path \in DOMAIN files =>
                 fd[t].nowSz = Size(files[fd[t].path].log) /\ files[fd[t].path].log # <<>>
      BY <1>0, <1>1 DEF OpenFiles
    <3> QED BY <2>1, <3>1, OpenNext
  <2>7. Target'
    <3>1. f.path \in DOMAIN files => f.nowSz = Size(files[f.path].log)
      BY <1>0, <1>4, <2>1 DEF OpenFiles
    <3>2. ASSUME f.path \in DOMAIN files
          PROVE  Size(files[f.path].log) + LenOf[log.lev] <= Bound(files[f.path].opens)
      <4>1. files[f.path].opens \in Nat /\ files[f.path].opens >= 1
        BY <1>0, <3>2, RuledFacts
      <4>2. FileSize <= Bound(files[f.path].opens) /\ Bound(files[f.path].opens) \in Nat
        BY <1>4, <4>1, BoundFacts
      <4> QED BY <1>4, <2>2, <3>1, <3>2, <4>2, Constants
    <3>3. f # None /\ f.path[2] = log.day
      BY <2>1, <2>2
    <3>4. fd'[tLev(log)'] = f /\ log' = log /\ files' = files
      BY <1>1, <1>4, <2>1
    <3> HIDE DEF f
    <3> QED BY <3>2, <3>3, <3>4, OpenNext
  <2> QED BY <2>3, <2>4, <2>5, <2>6, <2>7 DEF Rest
<1>7. CASE ~keep
  <2>1. /\ files' = Opened(fs, path)
        /\ fd' = [fd EXCEPT ![s] = [path |-> path, nowSz |-> Size(Was(fs, path).log)]]
    BY <1>3, <1>7
  <2>2. path \in Slots \X (1..Days) \X {0} /\ path[1] = s /\ path[2] = log.day
    BY <1>4
  <2> HIDE DEF fs, path, keep, was
  <2>3. /\ Ruled(files') /\ AllIds(files') = AllIds(fs)
        /\ DOMAIN files' = DOMAIN fs \cup {path}
        /\ \A p \in DOMAIN fs : files'[p].log = fs[p].log
        /\ files'[path].log = Was(fs, path).log /\ Was(fs, path).log \in Seq(Entries)
        /\ Size(files'[path].log) + LenOf[log.lev] <= Bound(files'[path].opens)
        /\ Sorted(fs) /\ Gapless(fs) => Sorted(files') /\ Gapless(files')
    BY <1>4, <1>5, <2>1, <2>2, OpenFacts
  <2>4. Size(Was(fs, path).log) \in Nat
    BY <2>3, BytesFinite
  <2>5. /\ fd'[s] = [path |-> path, nowSz |-> Size(Was(fs, path).log)]
        /\ \A t \in Slots : t # s => fd'[t] = fd[t]
        /\ fd'[s] \in Open /\ fd' \in [Slots -> Open \cup {None}]
    <3>1. [path |-> path, nowSz |-> Size(Was(fs, path).log)] \in Open
      BY <2>2, <2>4 DEF Open
    <3> QED BY <1>4, <2>1, <3>1
  <2>6. fd'[s] # None /\ fd'[s].path = path /\ fd'[s].nowSz = Size(files'[path].log)
    <3>1. fd'[s].path = path /\ path # <<>>
      BY <2>2, <2>5
    <3>2. fd'[s] # None
      BY <3>1 DEF None
    <3> QED BY <2>3, <2>5, <3>1, <3>2
  <2>7. Types'
    BY <1>0, <1>1, <1>4, <2>5 DEF Types
  <2>8. QueueLimit' /\ Ages' /\ Shares'
    BY <1>0, <1>1, <1>5, <2>3, SameIdsStep
  <2>9. Disk'
    BY <1>1, <1>5, <2>3, DiskNext
  <2>10. OpenFiles'
    <3> SUFFICES ASSUME NEW t \in Slots, fd'[t] # None
                 PROVE  /\ fd'[t].path[1] = t
                        /\ fd'[t].path \in DOMAIN files' =>
                             /\ fd'[t].nowSz = Size(files'[fd'[t].path].log)
                             /\ files'[fd'[t].path].log # <<>> \/ (pc' = "write" /\ t = tLev(log)')
      BY OpenNext
    <3>1. CASE t = s
      BY <1>1, <1>4, <2>2, <2>6, <3>1
    <3>2. CASE t # s
      <4> DEFINE q == fd[t].path
      <4>1. fd'[t] = fd[t] /\ q \in Slots \X (1..Days) \X {0} /\ q[1] = t
        <5>1. fd'[t] = fd[t] /\ fd[t] # None /\ fd[t] \in Open
          BY <1>4, <2>5, <3>2
        <5> QED BY <1>0, <5>1 DEF OpenFiles, Open
      <4>2. q \in DOMAIN files' => q \in DOMAIN files /\ files'[q].log = files[q].log
        <5>1. q # path
          BY <2>2, <3>2, <4>1
        <5> QED BY <1>5, <2>3, <3>2, <4>1, <5>1
      <4>3. q \in DOMAIN files => fd[t].nowSz = Size(files[q].log) /\ files[q].log # <<>>
        BY <1>0, <1>1, <4>1 DEF OpenFiles
      <4> QED BY <4>1, <4>2, <4>3
    <3> QED BY <3>1, <3>2
  <2>11. Target'
    <3>1. tLev(log)' = s /\ log' = log
      BY <1>1, <1>4
    <3> HIDE DEF s
    <3> QED BY <2>2, <2>3, <2>6, <3>1, OpenNext
  <2> QED BY <2>7, <2>8, <2>9, <2>10, <2>11 DEF Rest
<1> QED BY <1>6, <1>7

(* What holds when the thread is about to write. *)
LEMMA Writing ==
  ASSUME IInv, pc = "write"
  PROVE  /\ log \in Entries /\ tLev(log) \in Slots /\ log.id \in Nat \ {0} /\ LenOf[log.lev] \in Nat
         /\ fd \in [Slots -> Open \cup {None}]
         /\ fd[tLev(log)] \in Open /\ fd[tLev(log)] # None
         /\ fd[tLev(log)].path[1] = tLev(log) /\ fd[tLev(log)].path[2] = log.day
         /\ fd[tLev(log)].path[3] = 0 /\ fd[tLev(log)].nowSz \in Nat
         /\ fd[tLev(log)] = [path |-> fd[tLev(log)].path, nowSz |-> fd[tLev(log)].nowSz]
         /\ log.id <= pushed /\ \A d \in AllIds(files) : d < log.id
         /\ \A t \in Slots : t # tLev(log) /\ fd[t] # None =>
              /\ fd[t].path[1] = t
              /\ fd[t].path \in DOMAIN files =>
                   fd[t].nowSz = Size(files[fd[t].path].log) /\ files[fd[t].path].log # <<>>
<1>1. log \in Entries /\ log # NoLog /\ fd \in [Slots -> Open \cup {None}]
  BY DEF IInv, Types
<1>2. tLev(log) \in Slots
  BY <1>1, SlotFacts DEF IInv
<1>3. fd[tLev(log)] # None /\ fd[tLev(log)].path[2] = log.day
  BY DEF IInv, Target
<1>4. fd[tLev(log)] \in Open
  BY <1>1, <1>2, <1>3
<1>5. /\ fd[tLev(log)].path[3] = 0 /\ fd[tLev(log)].nowSz \in Nat
      /\ fd[tLev(log)] = [path |-> fd[tLev(log)].path, nowSz |-> fd[tLev(log)].nowSz]
  BY <1>4 DEF Open
<1>6. fd[tLev(log)].path[1] = tLev(log)
  BY <1>2, <1>3 DEF IInv, OpenFiles
<1>7. log.id <= pushed /\ \A d \in AllIds(files) : d < log.id
  BY <1>1 DEF IInv, Ages
<1>8. \A t \in Slots : t # tLev(log) /\ fd[t] # None =>
        /\ fd[t].path[1] = t
        /\ fd[t].path \in DOMAIN files =>
             fd[t].nowSz = Size(files[fd[t].path].log) /\ files[fd[t].path].log # <<>>
  BY DEF IInv, OpenFiles
<1> QED BY <1>1, <1>2, <1>3, <1>4, <1>5, <1>6, <1>7, <1>8, EntryFacts

(* The thread is done with its entry, which has gone to one of the places the
   accounts have for it. *)
LEMMA HandedOn ==
  ASSUME IInv, pc = "write", log' = NoLog, UNCHANGED <<queue, pushed, refused, dropped>>,
         \/ AllIds(files') = AllIds(files) \cup {log.id} /\ UNCHANGED <<lost, removed>>
         \/ AllIds(files') = AllIds(files) /\ lost' = lost \cup {log.id} /\ removed' = removed
         \/ AllIds(files') = AllIds(files) /\ removed' = removed \cup {log.id} /\ lost' = lost
  PROVE  QueueLimit' /\ Ages' /\ Shares'
<1>1. QueueLimit'
  BY LimitIs DEF IInv
<1>2. /\ log # NoLog /\ log.id \in Nat \ {0} /\ log.id <= pushed
      /\ AllIds(files') \subseteq AllIds(files) \cup {log.id}
  BY Writing, EntryFacts
<1>3. Ages'
  <2>1. AllIds(files)' = AllIds(files')
    BY DEF AllIds
  <2>2. \A i \in DOMAIN queue : /\ queue[i].id <= pushed /\ log.id < queue[i].id
                                /\ \A d \in AllIds(files) : d < queue[i].id
    BY <1>2 DEF IInv, Ages
  <2>3. \A i, j \in DOMAIN queue : i < j => queue[i].id < queue[j].id
    BY DEF IInv, Ages
  <2>4. \A d \in AllIds(files) : d <= pushed
    BY DEF IInv, Ages
  <2> QED BY <1>2, <2>1, <2>2, <2>3, <2>4 DEF Ages
<1>4. Shares'
  <2>1. Split(AllIds(files), QueueIds, HandId, RefusedIds, lost, dropped, removed, pushed)
    BY DEF IInv, Shares
  <2>2. HandId = {log.id} /\ {log'.id} \ {0} = {}
    BY <1>2 DEF HandId, NoLog
  <2>3. {queue'[i].id : i \in DOMAIN queue'} = QueueIds /\ {x.id : x \in refused'} = RefusedIds
    BY DEF QueueIds, RefusedIds
  <2>4. Split(AllIds(files'), QueueIds, {}, RefusedIds, lost', dropped, removed', pushed)
    <3>1. CASE AllIds(files') = AllIds(files) \cup {log.id} /\ UNCHANGED <<lost, removed>>
      BY <2>1, <2>2, <3>1 DEF Split
    <3>2. CASE AllIds(files') = AllIds(files) /\ lost' = lost \cup {log.id} /\ removed' = removed
      BY <2>1, <2>2, <3>2 DEF Split
    <3>3. CASE AllIds(files') = AllIds(files) /\ removed' = removed \cup {log.id} /\ lost' = lost
      BY <2>1, <2>2, <3>3 DEF Split
    <3> QED BY <3>1, <3>2, <3>3
  <2> QED BY <2>2, <2>3, <2>4, SharesNext
<1> QED BY <1>1, <1>3, <1>4

(* fwrite and fflush *)
LEMMA WriteOkStep ==
  ASSUME IInv, writeOk
  PROVE  Types' /\ Rest'
<1> DEFINE s == tLev(log)
           f == fd[s]
           path == f.path
<1>1. /\ pc = "write" /\ pc' = "loop" /\ log' = NoLog
      /\ fd' = [fd EXCEPT ![s].nowSz = @ + LenOf[log.lev]]
      /\ UNCHANGED <<singleFile, life, queue, today, pushed, refused, lost, dropped>>
      /\ IF path \in DOMAIN files
         THEN files' = [files EXCEPT ![path].log = Append(@, log)] /\ removed' = removed
         ELSE removed' = removed \cup {log.id} /\ files' = files
  BY DEF writeOk, written
<1>2. /\ log \in Entries /\ s \in Slots /\ log.id \in Nat \ {0} /\ LenOf[log.lev] \in Nat
      /\ fd \in [Slots -> Open \cup {None}] /\ f \in Open /\ f # None
      /\ path[1] = s /\ path[2] = log.day /\ path[3] = 0 /\ f.nowSz \in Nat
      /\ f = [path |-> path, nowSz |-> f.nowSz]
      /\ \A d \in AllIds(files) : d < log.id
      /\ \A t \in Slots : t # s /\ fd[t] # None =>
           /\ fd[t].path[1] = t
           /\ fd[t].path \in DOMAIN files =>
                fd[t].nowSz = Size(files[fd[t].path].log) /\ files[fd[t].path].log # <<>>
  BY <1>1, Writing
<1>3. Types /\ Disk /\ Ruled(files)
  BY DEF IInv, Disk
<1>4. /\ fd'[s] = [path |-> path, nowSz |-> f.nowSz + LenOf[log.lev]]
      /\ \A t \in Slots : t # s => fd'[t] = fd[t]
      /\ fd' \in [Slots -> Open \cup {None}]
  <2>1. fd'[s] = [f EXCEPT !.nowSz = @ + LenOf[log.lev]]
    BY <1>1, <1>2
  <2>2. fd'[s] = [path |-> path, nowSz |-> f.nowSz + LenOf[log.lev]]
    BY <1>2, <2>1
  <2>3. \A t \in Slots : t # s => fd'[t] = fd[t]
    BY <1>1, <1>2
  <2>4. [path |-> path, nowSz |-> f.nowSz + LenOf[log.lev]] \in Open
    BY <1>2 DEF Open
  <2>5. fd' = [t \in Slots |-> fd'[t]]
    BY <1>1, <1>2
  <2>6. \A t \in Slots : fd'[t] \in Open \cup {None}
    BY <1>2, <2>2, <2>3, <2>4
  <2> QED BY <2>2, <2>3, <2>5, <2>6
<1>5. Types'
  BY <1>1, <1>3, <1>4 DEF Types
<1>6. Target'
  BY <1>1, OpenNext
<1>7. CASE path \in DOMAIN files
  <2>1. files' = [files EXCEPT ![path].log = Append(@, log)] /\ removed' = removed
    BY <1>1, <1>7
  <2>2. Size(files[path].log) + LenOf[log.lev] <= Bound(files[path].opens)
    BY <1>1, <1>7 DEF IInv, Target
  <2>3. f.nowSz = Size(files[path].log)
    BY <1>2, <1>7 DEF IInv, OpenFiles
  <2> HIDE DEF f, path
  <2>4. path[1] = tLev(log) /\ path[2] = log.day /\ path[3] = 0
    BY <1>2
  <2>5. /\ Ruled(files') /\ AllIds(files') = AllIds(files) \cup {log.id}
        /\ DOMAIN files' = DOMAIN files
        /\ \A p \in DOMAIN files : p # path => files'[p] = files[p]
        /\ files'[path].log # <<>> /\ Size(files'[path].log) = Size(files[path].log) + LenOf[log.lev]
        /\ Sorted(files) /\ Gapless(files) => Sorted(files') /\ Gapless(files')
    <3>1. Ruled(files) /\ log \in Entries /\ \A d \in AllIds(files) : d < log.id
      BY <1>2, <1>3
    <3>2. files[path] = [log |-> files[path].log, opens |-> files[path].opens]
      BY <1>3, <1>7, RuledFacts
    <3>3. files'[path] = [files[path] EXCEPT !.log = Append(@, log)]
      BY <1>7, <2>1
    <3>4. files'[path] = [log |-> Append(files[path].log, log), opens |-> files[path].opens]
      BY <3>2, <3>3
    <3>5. /\ DOMAIN files' = DOMAIN files /\ files' = [p \in DOMAIN files' |-> files'[p]]
          /\ \A p \in DOMAIN files : p # path => files'[p] = files[p]
      BY <1>7, <2>1
    <3>6. Appended(files, files', path, log)
      BY <3>4, <3>5 DEF Appended
    <3> QED BY <1>7, <2>2, <2>4, <3>1, <3>6, AppendFacts
  <2>6. QueueLimit' /\ Ages' /\ Shares'
    BY <1>1, <2>1, <2>5, HandedOn
  <2>7. Disk'
    BY <1>1, <1>3, <2>1, <2>5, DiskNext DEF Disk
  <2>8. OpenFiles'
    <3> SUFFICES ASSUME NEW t \in Slots, fd'[t] # None
                 PROVE  /\ fd'[t].path[1] = t
                        /\ fd'[t].path \in DOMAIN files' =>
                             /\ fd'[t].nowSz = Size(files'[fd'[t].path].log)
                             /\ files'[fd'[t].path].log # <<>>
      BY OpenNext
    <3>1. CASE t = s
      <4>1. fd'[t].path = path /\ fd'[t].nowSz = f.nowSz + LenOf[log.lev]
        BY <1>4, <3>1
      <4> QED BY <2>3, <2>4, <2>5, <3>1, <4>1
    <3>2. CASE t # s
      <4>1. fd'[t] = fd[t] /\ fd[t].path[1] = t /\ fd[t].path # path
        BY <1>2, <1>4, <2>4, <3>2
      <4> QED BY <1>2, <2>5, <3>2, <4>1
    <3> QED BY <3>1, <3>2
  <2> QED BY <1>5, <1>6, <2>6, <2>7, <2>8 DEF Rest
<1>8. CASE path \notin DOMAIN files
  <2>1. removed' = removed \cup {log.id} /\ files' = files
    BY <1>1, <1>8
  <2>2. QueueLimit' /\ Ages' /\ Shares'
    <3>1. AllIds(files') = AllIds(files) /\ lost' = lost
      BY <1>1, <2>1
    <3> QED BY <1>1, <2>1, <3>1, HandedOn
  <2>3. Disk'
    <3>1. removed' # {}
      BY <2>1
    <3> QED BY <1>1, <1>3, <2>1, <3>1, DiskNext
  <2>4. OpenFiles'
    <3> SUFFICES ASSUME NEW t \in Slots, fd'[t] # None
                 PROVE  /\ fd'[t].path[1] = t
                        /\ fd'[t].path \in DOMAIN files =>
                             /\ fd'[t].nowSz = Size(files[fd'[t].path].log)
                             /\ files[fd'[t].path].log # <<>>
      BY <2>1, OpenNext
    <3>1. CASE t = s
      <4>1. fd'[t].path = path
        BY <1>4, <3>1
      <4> QED BY <1>2, <1>8, <3>1, <4>1
    <3>2. CASE t # s
      BY <1>2, <1>4, <3>2
    <3> QED BY <3>1, <3>2
  <2> QED BY <1>5, <1>6, <2>2, <2>3, <2>4 DEF Rest
<1> QED BY <1>7, <1>8

(* One of them fails. *)
LEMMA WriteFailsStep ==
  ASSUME IInv, writeFails
  PROVE  Types' /\ Rest'
<1> DEFINE s == tLev(log)
<1>1. /\ pc = "write" /\ pc' = "loop" /\ log' = NoLog
      /\ fd' = [fd EXCEPT ![s] = None] /\ lost' = lost \cup {log.id}
      /\ UNCHANGED <<singleFile, life, queue, files, today, pushed, refused, dropped, removed>>
  BY DEF writeFails
<1>2. /\ s \in Slots /\ fd \in [Slots -> Open \cup {None}]
      /\ \A t \in Slots : t # s /\ fd[t] # None =>
           /\ fd[t].path[1] = t
           /\ fd[t].path \in DOMAIN files =>
                fd[t].nowSz = Size(files[fd[t].path].log) /\ files[fd[t].path].log # <<>>
  BY <1>1, Writing
<1>3. /\ fd' \in [Slots -> Open \cup {None}] /\ fd'[s] = None
      /\ \A t \in Slots : t # s => fd'[t] = fd[t]
  BY <1>1, <1>2
<1>4. Types'
  BY <1>1, <1>3 DEF Types, IInv
<1>5. QueueLimit' /\ Ages' /\ Shares'
  <2>1. AllIds(files') = AllIds(files)
    BY <1>1
  <2> QED BY <1>1, <2>1, HandedOn
<1>6. Disk'
  BY <1>1, DiskNext DEF IInv, Disk
<1>7. OpenFiles'
  BY <1>1, <1>2, <1>3, OpenNext
<1>8. Target'
  BY <1>1, OpenNext
<1> QED BY <1>4, <1>5, <1>6, <1>7, <1>8 DEF Rest

(* A file is taken away. *)
LEMMA TakeStep ==
  ASSUME IInv, NEW p \in DOMAIN files, TakeAway(p)
  PROVE  Types' /\ Rest'
<1> DEFINE gone == {files[p].log[k].id : k \in DOMAIN files[p].log}
<1>1. /\ removed' = removed \cup gone
      /\ files' = [q \in DOMAIN files \ {p} |-> files[q]]
      /\ UNCHANGED <<singleFile, life, queue, pc, log, fd, today, pushed, refused, lost, dropped>>
  <2>1. {e.id : e \in ToSet(files[p].log)} = gone
    BY DEF ToSet
  <2> QED BY <2>1 DEF TakeAway
<1>2. Ruled(files) /\ Disk
  BY DEF IInv, Disk
<1>3. /\ Ruled(files') /\ DOMAIN files' = DOMAIN files \ {p}
      /\ \A q \in DOMAIN files' : files'[q] = files[q]
      /\ AllIds(files') = AllIds(files) \ gone
      /\ Sorted(files) /\ Gapless(files) /\ files[p].log = <<>> => Sorted(files') /\ Gapless(files')
  BY <1>1, <1>2, TakeFacts
<1>4. gone \subseteq AllIds(files)
  BY DEF AllIds
<1>5. removed' = {} => removed = {} /\ files[p].log = <<>>
  <2>1. gone = {} => DOMAIN files[p].log = {}
    OBVIOUS
  <2>2. files[p].log \in Seq(Entries)
    BY <1>2, RuledFacts
  <2>3. DOMAIN files[p].log = {} => files[p].log = <<>>
    <3> DEFINE q == files[p].log
    <3>1. DOMAIN q = 1..Len(q) /\ Len(q) \in Nat
      BY <2>2
    <3>2. 1..Len(q) = {} => Len(q) = 0
      BY <3>1
    <3> QED BY <2>2, <3>1, <3>2, EmptySeq
  <2> HIDE DEF gone
  <2> QED BY <1>1, <2>1, <2>3
<1> HIDE DEF gone
<1>6. Types'
  BY <1>1 DEF Types, IInv
<1>7. QueueLimit'
  BY <1>1, LimitIs DEF IInv
<1>8. Ages'
  <2>1. AllIds(files)' = AllIds(files')
    BY DEF AllIds
  <2> QED BY <1>1, <1>3, <2>1 DEF IInv, Ages
<1>9. Shares'
  <2>1. Split(AllIds(files), QueueIds, HandId, RefusedIds, lost, dropped, removed, pushed)
    BY DEF IInv, Shares
  <2>2. /\ {queue'[i].id : i \in DOMAIN queue'} = QueueIds /\ {x.id : x \in refused'} = RefusedIds
        /\ {log'.id} \ {0} = HandId
    BY <1>1 DEF QueueIds, RefusedIds, HandId
  <2>3. Split(AllIds(files'), QueueIds, HandId, RefusedIds, lost, dropped, removed', pushed)
    BY <1>1, <1>3, <1>4, <2>1 DEF Split
  <2> QED BY <1>1, <2>2, <2>3, SharesNext
<1>10. Disk'
  BY <1>1, <1>2, <1>3, <1>5, DiskNext DEF Disk
<1>11. tLev(log)' = tLev(log)
  BY <1>1 DEF tLev
<1>12. OpenFiles'
  <2>1. \A t \in Slots : fd[t] # None =>
          /\ fd[t].path[1] = t
          /\ fd[t].path \in DOMAIN files' =>
               /\ fd[t].nowSz = Size(files'[fd[t].path].log)
               /\ files'[fd[t].path].log # <<>> \/ (pc = "write" /\ t = tLev(log))
    BY <1>3 DEF IInv, OpenFiles
  <2> QED BY <1>1, <1>11, <2>1, OpenNext
<1>13. Target'
  <2>1. pc = "write" =>
          LET f == fd[tLev(log)]
          IN  /\ f # None /\ f.path[2] = log.day
              /\ f.path \in DOMAIN files' =>
                   Size(files'[f.path].log) + LenOf[log.lev] <= Bound(files'[f.path].opens)
    BY <1>3 DEF IInv, Target
  <2> QED BY <1>1, <1>11, <2>1, OpenNext
<1> QED BY <1>6, <1>7, <1>8, <1>9, <1>10, <1>12, <1>13 DEF Rest

(* The program ends, in order or not. *)
LEMMA EndStep ==
  ASSUME IInv, End
  PROVE  Types' /\ Rest'
<1>1. /\ life' = "off" /\ pc' = "none" /\ log' = NoLog /\ queue' = <<>> /\ fd' = AllShut
      /\ dropped' = dropped \cup QueueIds \cup HandId
      /\ UNCHANGED <<singleFile, files, today, pushed, refused, lost, removed>>
  <2>1. {e.id : e \in ToSet(queue)} = QueueIds
    BY DEF ToSet, QueueIds
  <2> QED BY <2>1 DEF End, HandId
<1>2. Types'
  <2>1. fd' \in [Slots -> Open \cup {None}]
    BY <1>1 DEF AllShut
  <2>2. queue' \in Seq(Entries) /\ log' \in Entries \cup {NoLog}
    BY <1>1
  <2> QED BY <1>1, <2>1, <2>2 DEF Types, IInv
<1>3. QueueLimit'
  <2>1. Unimportant(queue') = {}
    BY <1>1 DEF Unimportant
  <2>2. Cardinality({}) = 0 /\ Cap \in Nat
    BY FS_EmptySet, Constants
  <2>3. Cardinality(Unimportant(queue')) <= Cap
    BY <2>1, <2>2
  <2>4. \A e \in refused' : e.lev > LEV_ERROR
    BY <1>1, LimitIs DEF IInv
  <2> QED BY <2>3, <2>4, LimitIs
<1>4. Ages'
  <2>1. AllIds(files)' = AllIds(files)
    BY <1>1 DEF AllIds
  <2>2. DOMAIN queue' = {}
    BY <1>1
  <2> QED BY <1>1, <2>1, <2>2 DEF IInv, Ages
<1>5. Disk'
  BY <1>1, DiskNext DEF IInv, Disk
<1>6. OpenFiles'
  <2>1. \A t \in Slots : fd'[t] = None
    BY <1>1 DEF AllShut
  <2> QED BY <2>1, OpenNext
<1>7. Target'
  BY <1>1, OpenNext
<1>8. Shares'
  <2>1. Split(AllIds(files), QueueIds, HandId, RefusedIds, lost, dropped, removed, pushed)
    BY DEF IInv, Shares
  <2>2. /\ {queue'[i].id : i \in DOMAIN queue'} = {} /\ {x.id : x \in refused'} = RefusedIds
        /\ {log'.id} \ {0} = {} /\ AllIds(files') = AllIds(files)
    BY <1>1 DEF RefusedIds, NoLog
  <2>3. Split(AllIds(files), {}, {}, RefusedIds, lost, dropped', removed, pushed)
    BY <1>1, <2>1 DEF Split
  <2> QED BY <1>1, <2>2, <2>3, SharesNext
<1> QED BY <1>2, <1>3, <1>4, <1>5, <1>6, <1>7, <1>8 DEF Rest

----------------------------------------------------------------------------
(* The invariant.                                                          *)

LEMMA InitInv == Init => IInv
<1> SUFFICES ASSUME Init
             PROVE  IInv
  OBVIOUS
<1>1. DOMAIN files = {} /\ AllIds(files) = {} /\ queue = <<>> /\ log = NoLog /\ DOMAIN queue = {}
  BY DEF Init, AllIds
<1>2. Types
  <2>1. singleFile \in BOOLEAN /\ today \in 1..Days /\ pushed \in 0..MaxPush
    BY Constants DEF Init
  <2>2. fd \in [Slots -> Open \cup {None}]
    BY DEF Init, AllShut
  <2>3. queue \in Seq(Entries) /\ log \in Entries \cup {NoLog} /\ refused \subseteq Entries
    BY DEF Init
  <2>4. /\ life \in {"off", "on", "closing"}
        /\ pc \in {"none", "loop", "pop", "file", "write", "done"}
        /\ life = "off" /\ pc = "none"
    BY DEF Init
  <2>5. ~(pc \in {"file", "write"}) /\ ~(log # NoLog)
    BY <2>4 DEF Init
  <2> QED BY <2>1, <2>2, <2>3, <2>4, <2>5 DEF Types
<1>3. QueueLimit
  <2>1. Unimportant(queue) = {}
    BY <1>1 DEF Unimportant
  <2>2. Cardinality(Unimportant(queue)) <= Cap
    BY <2>1, FS_EmptySet, Constants
  <2>3. refused = {}
    BY DEF Init
  <2> QED BY <2>2, <2>3, LimitIs
<1>4. Ages
  BY <1>1 DEF Ages
<1>5. Disk
  <2>1. FileTypes(files)
    BY <1>1 DEF FileTypes, Init
  <2> QED BY <1>1, <2>1 DEF Disk, Ruled, Owned, Increasing, Separate, Filled, Bounded, Sorted, Gapless
<1>6. OpenFiles /\ Target
  <2>1. \A s \in Slots : fd[s] = None
    BY DEF Init, AllShut
  <2>2. pc # "write"
    BY DEF Init
  <2> QED BY <2>1, <2>2 DEF OpenFiles, Target
<1>7. Shares
  <2>1. /\ QueueIds = {} /\ HandId = {} /\ RefusedIds = {} /\ lost = {} /\ dropped = {} /\ removed = {}
        /\ pushed = 0 /\ 1..0 = {}
    BY <1>1 DEF QueueIds, HandId, RefusedIds, NoLog, Init
  <2> QED BY <1>1, <2>1 DEF Shares, Split
<1> QED BY <1>2, <1>3, <1>4, <1>5, <1>6, <1>7 DEF IInv

LEMMA NextInv ==
  ASSUME IInv, [Next]_vars
  PROVE  IInv'
<1>0. Types /\ Rest
  BY DEF IInv, Rest
<1> SUFFICES Types' /\ Rest'
  BY DEF IInv, Rest
<1>1. CASE initConf
  <2>1. /\ life = "off" /\ life' = "on" /\ pc' = "loop"
        /\ UNCHANGED <<singleFile, queue, log, fd, files, today, pushed, history, refused>>
    BY <1>1 DEF initConf, disk, history
  <2>2. pc = "none" /\ log = NoLog
    BY <1>0, <2>1 DEF Types
  <2>3. Types'
    BY <1>0, <2>1, <2>2 DEF Types
  <2> QED BY <1>0, <2>1, <2>2, <2>3, QuietStep
<1>2. CASE dtorStop
  <2>1. /\ life = "on" /\ life' = "closing" /\ pc' = pc
        /\ UNCHANGED <<singleFile, queue, log, fd, files, today, pushed, history>>
        /\ UNCHANGED <<refused, lost, dropped, removed>>
    BY <1>2 DEF dtorStop, disk, history
  <2>2. Types'
    BY <1>0, <2>1 DEF Types
  <2>3. Disk' /\ OpenFiles' /\ Target' /\ AllIds(files') = AllIds(files)
    BY <1>0, <2>1, DiskStep
  <2>4. QueueLimit' /\ Ages' /\ Shares'
    BY <1>0, <2>1, <2>3, SameIdsStep
  <2> QED BY <2>2, <2>3, <2>4 DEF Rest
<1>3. CASE dtorJoin
  BY <1>3, EndStep DEF dtorJoin
<1>4. CASE Midnight
  <2>1. /\ today' = today + 1 /\ today < Days /\ pc' = pc /\ life' = life
        /\ UNCHANGED <<singleFile, queue, log, fd, files, pushed, history>>
        /\ UNCHANGED <<refused, lost, dropped, removed>>
    BY <1>4 DEF Midnight, disk, history
  <2>2. today' \in 1..Days
    BY <1>0, <2>1, Constants DEF Types
  <2>3. Types'
    BY <1>0, <2>1, <2>2 DEF Types
  <2>4. Disk' /\ OpenFiles' /\ Target' /\ AllIds(files') = AllIds(files)
    BY <1>0, <2>1, DiskStep
  <2>5. QueueLimit' /\ Ages' /\ Shares'
    BY <1>0, <2>1, <2>4, SameIdsStep
  <2> QED BY <2>3, <2>4, <2>5 DEF Rest
<1>5. CASE Crash
  BY <1>5, EndStep DEF Crash
<1>6. ASSUME NEW lev \in Levels, NEW day \in {today, today - 1} \ {0}, Write(lev, day)
      PROVE  Types' /\ Rest'
  BY <1>6, WriteStep
<1>7. CASE Loop
  <2>1. /\ pc = "loop" /\ pc' \in {"pop", "done"} /\ life' = life
        /\ UNCHANGED <<singleFile, queue, log, fd, files, today, pushed, history, refused>>
    BY <1>7 DEF Loop, disk, history
  <2>2. log = NoLog /\ life # "off"
    BY <1>0, <2>1 DEF Types
  <2>3. Types'
    BY <1>0, <2>1, <2>2 DEF Types
  <2> QED BY <1>0, <2>1, <2>3, QuietStep
<1>8. CASE popLog
  <2>1. CASE queue # <<>> /\ log' = Head(queue) /\ queue' = Tail(queue) /\ pc' = "file"
    BY <1>8, <2>1, PopStep
  <2>2. CASE pc' = "loop" /\ UNCHANGED <<log, queue>>
    <3>1. /\ pc = "pop" /\ life' = life
          /\ UNCHANGED <<singleFile, queue, log, fd, files, today, pushed, history, refused>>
      BY <1>8, <2>2 DEF popLog, disk, history
    <3>2. log = NoLog /\ life # "off"
      BY <1>0, <3>1 DEF Types
    <3>3. Types'
      BY <1>0, <2>2, <3>1, <3>2 DEF Types
    <3> QED BY <1>0, <2>2, <3>1, <3>3, QuietStep
  <2> QED BY <1>8, <2>1, <2>2 DEF popLog
<1>9. CASE getLogFile
  BY <1>9, FileStep
<1>10. CASE writeOk
  BY <1>10, WriteOkStep
<1>11. CASE writeFails
  BY <1>11, WriteFailsStep
<1>12. ASSUME NEW p \in DOMAIN files, TakeAway(p)
       PROVE  Types' /\ Rest'
  BY <1>12, TakeStep
<1>13. CASE UNCHANGED vars
  <2>1. /\ UNCHANGED <<singleFile, life, queue, pc, log, fd, files, today, pushed>>
        /\ UNCHANGED <<refused, lost, dropped, removed>> /\ UNCHANGED history
    BY <1>13 DEF vars, history
  <2>2. Types'
    BY <1>0, <2>1 DEF Types
  <2>3. Disk' /\ OpenFiles' /\ Target' /\ AllIds(files') = AllIds(files)
    BY <1>0, <2>1, DiskStep
  <2>4. QueueLimit' /\ Ages' /\ Shares'
    BY <1>0, <2>1, <2>3, SameIdsStep
  <2> QED BY <2>2, <2>3, <2>4 DEF Rest
<1> QED BY <1>1, <1>2, <1>3, <1>4, <1>5, <1>6, <1>7, <1>8, <1>9, <1>10, <1>11, <1>12, <1>13
        DEF Next, Saver

LEMMA AlwaysIInv == Spec => []IInv
BY InitInv, NextInv, PTL DEF Spec

(* What the invariant says about the entries in a file. *)
LEMMA IdsOfFile ==
  ASSUME NEW p
  PROVE  Ids(p) = {files[p].log[k].id : k \in DOMAIN files[p].log}
BY DEF Ids, ToSet

LEMMA InvFollows == IInv => Inv
<1> SUFFICES ASSUME IInv
             PROVE  Inv
  OBVIOUS
<1>1. Types /\ QueueLimit /\ OpenFiles /\ Disk /\ Ruled(files)
  BY DEF IInv, Disk
<1>2. TypeOK
  BY <1>1 DEF Types, OpenFiles, TypeOK
<1>3. InOwnFile
  BY <1>1 DEF Ruled, Owned, InOwnFile, ToSet
<1>4. FilesInOrder
  <2> SUFFICES ASSUME removed = {}
               PROVE  /\ \A p \in DOMAIN files : \A i, j \in DOMAIN files[p].log :
                           i < j => files[p].log[i].id < files[p].log[j].id
                      /\ \A p, q \in DOMAIN files :
                           Before(p, q) => \A a \in Ids(p), b \in Ids(q) : a < b
    BY DEF FilesInOrder
  <2>1. Increasing(files) /\ Sorted(files)
    BY <1>1 DEF Disk, Ruled
  <2> QED BY <2>1, IdsOfFile DEF Increasing, Sorted
<1>5. SizeBound
  BY <1>1 DEF Ruled, Bounded, Bound, SizeBound
<1> QED BY <1>1, <1>2, <1>3, <1>4, <1>5 DEF Inv

LEMMA AccountedFollows == IInv => Accounted
<1> SUFFICES ASSUME IInv
             PROVE  Accounted
  OBVIOUS
<1>1. Ruled(files) /\ Shares
  BY DEF IInv, Disk
<1>2. OnDisk = AllIds(files)
  BY IdsOfFile DEF OnDisk, AllIds
<1>3. {e.id : e \in ToSet(queue)} = QueueIds
  BY DEF ToSet, QueueIds
<1> DEFINE places == <<OnDisk, {e.id : e \in ToSet(queue)}, {log.id} \ {0},
                       {e.id : e \in refused}, lost, dropped, removed>>
           named == <<AllIds(files), QueueIds, HandId, RefusedIds, lost, dropped, removed>>
<1>4. places = named
  BY <1>2, <1>3 DEF HandId, RefusedIds
<1>5. Split(AllIds(files), QueueIds, HandId, RefusedIds, lost, dropped, removed, pushed)
  BY <1>1 DEF Shares
<1>6. /\ DOMAIN named = 1..7 /\ named[1] = AllIds(files) /\ named[2] = QueueIds /\ named[3] = HandId
      /\ named[4] = RefusedIds /\ named[5] = lost /\ named[6] = dropped /\ named[7] = removed
  OBVIOUS
<1> HIDE DEF named
<1>7. UNION ToSet(named) = 1..pushed
  <2>1. ToSet(named) = {named[1], named[2], named[3], named[4], named[5], named[6], named[7]}
    BY <1>6 DEF ToSet
  <2>2. UNION ToSet(named) = named[1] \cup named[2] \cup named[3] \cup named[4] \cup named[5]
                               \cup named[6] \cup named[7]
    BY <2>1
  <2> QED BY <1>5, <1>6, <2>2 DEF Split
<1>8. \A a, b \in DOMAIN named : a # b => named[a] \cap named[b] = {}
  <2>1. \A a, b \in 1..7 : a < b => named[a] \cap named[b] = {}
    BY <1>5, <1>6 DEF Split
  <2> QED BY <1>6, <2>1
<1>9. \A p, q \in DOMAIN files : p # q => Ids(p) \cap Ids(q) = {}
  BY <1>1, IdsOfFile DEF Ruled, Separate
<1>10. ASSUME NEW p \in DOMAIN files
       PROVE  Cardinality(Ids(p)) = Len(files[p].log)
  <2> DEFINE es == files[p].log
             g  == [k \in 1..Len(es) |-> es[k].id]
  <2>1. es \in Seq(Entries) /\ \A k \in DOMAIN es : es[k] \in Entries
    BY <1>1, RuledFacts
  <2>2. Len(es) \in Nat /\ DOMAIN es = 1..Len(es) /\ \A k \in 1..Len(es) : es[k].id \in Nat
    BY <2>1, EntryFacts
  <2>3. \A j, k \in 1..Len(es) : j < k => es[j].id < es[k].id
    BY <1>1, <2>2 DEF Ruled, Increasing
  <2>4. Ids(p) = {es[k].id : k \in 1..Len(es)}
    BY <2>2, IdsOfFile
  <2> HIDE DEF es
  <2>5. g \in Bijection(1..Len(es), Ids(p))
    <3>1. g \in [1..Len(es) -> Ids(p)]
      BY <2>4
    <3>2. \A j, k \in 1..Len(es) : j # k => es[j].id # es[k].id
      BY <2>2, <2>3
    <3>3. \A j, k \in 1..Len(es) : g[j] = g[k] => j = k
      BY <3>2
    <3>4. \A x \in Ids(p) : \E k \in 1..Len(es) : g[k] = x
      BY <2>4
    <3> QED BY <3>1, <3>3, <3>4 DEF Bijection, Injection, IsInjective, Surjection
  <2>6. ExistsBijection(1..Len(es), Ids(p))
    BY <2>5 DEF ExistsBijection
  <2> QED BY <2>2, <2>6, FS_CountingElements DEF es
<1> QED BY <1>4, <1>7, <1>8, <1>9, <1>10 DEF Accounted

(* The queue's limit for unimportant entries, the level and day of the files,
   the order of the entries over restarts and renamed files, and the files'
   sizes hold at every step, with crashes, failed writes and files taken away. *)
THEOREM LogCorrect == Spec => []Inv
BY InvFollows, AlwaysIInv, PTL

(* No entry is lost silently or written twice, and renaming a full file
   overwrites no other. *)
THEOREM EntriesAccounted == Spec => []Accounted
BY AccountedFollows, AlwaysIInv, PTL
=============================================================================
