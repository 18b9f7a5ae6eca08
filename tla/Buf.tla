-------------------------------- MODULE Buf --------------------------------
(***************************************************************************)
(* YS_Buf (isaac/tool/ys_buffer.hpp): a growing buffer, whose sizes are    *)
(* unsigned and wrap.  One operation at a time; append takes one step per  *)
(* turn of its loop.                                                       *)
(***************************************************************************)
EXTENDS Integers, Sequences

CONSTANTS
  Block,        \* blockSize(), 1024
  Mod,          \* 2^64, the number of values of size_t
  Sizes,        \* sizes a caller passes
  MaxCap        \* what new can provide

ASSUME BufAssumption ==
  /\ Block \in Nat \ {0} /\ Mod \in Nat /\ Mod % Block = 0
  /\ MaxCap \in Nat /\ 2 * MaxCap + Block <= Mod
  /\ Sizes \subseteq 0..MaxCap

Junk == -1      \* what memory holds that nobody has written

VARIABLES
  cap, len,     \* _cap, _len
  buf,          \* the cells of the allocation _buf points to
  need,         \* bytes an append that has not returned still has to copy
  asked,        \* bytes its caller asked it for
  state,        \* "ok"; "badAlloc": new has thrown; "overrun": written
                \* outside of the allocation; the object is not used again
  said,         \* history: the bytes the caller has put in
  misled,       \* history: was a text appended that is not as long as said?
  short         \* history: append was asked for more than there was room for

bufVars == <<cap, len, buf, need, asked, state, said, misled, short>>

SizeT(n) == n % Mod
leftSize == SizeT(cap - len)

(* The next n bytes a caller puts in, and the memory b with xs written behind
   its first n cells. *)
Fresh(n) == [i \in 1..n |-> len + i]
Put(b, n, xs) ==
  [i \in DOMAIN b |-> IF i > n /\ i <= n + Len(xs) THEN xs[i - n] ELSE b[i]]

(* New memory of c cells, to which the contents are copied, all of them,
   whatever c is. *)
Moved(c) == [i \in 1..c |-> IF i <= len THEN buf[i] ELSE Junk]

(* alloc(n): the size is rounded up to blocks and added, and the contents are
   moved to the new memory. *)
Rounded(n) == SizeT(((n - 1) \div Block + 1) * Block)

(* Mutant of Alloc: the contents stay behind. *)
AllocEmpty(n) ==
  LET c == SizeT(cap + Rounded(n))
  IN
  IF n = 0 THEN UNCHANGED <<cap, buf, state>>
  ELSE /\ cap' = c
       /\ state' = IF c > MaxCap THEN "badAlloc" ELSE state
       /\ buf' = IF c > MaxCap THEN buf ELSE [i \in 1..c |-> Junk]

Alloc(n) ==
  LET c == SizeT(cap + Rounded(n))
  IN
  IF n = 0 THEN UNCHANGED <<cap, buf, state>>
  ELSE /\ cap' = c
       /\ state' = IF c > MaxCap THEN "badAlloc" ELSE IF c < len THEN "overrun" ELSE state
       /\ buf' = IF c > MaxCap THEN buf ELSE Moved(c)

Idle == need = 0 /\ state = "ok"

alloc(n) ==
  /\ Idle
  /\ Alloc(n)
  /\ UNCHANGED <<len, need, asked, said, misled, short>>

(* The caller writes at left() and calls offset, as a recv does, or setLength. *)
offset(n) ==
  /\ Idle /\ n <= leftSize
  /\ buf' = Put(buf, len, Fresh(n)) /\ len' = len + n
  /\ said' = said \o Fresh(n)
  /\ UNCHANGED <<cap, need, asked, state, misled, short>>

(* setLength, or a negative offset, drops the end. *)
setLength(n) ==
  /\ Idle /\ n <= len /\ ~misled
  /\ len' = n /\ said' = SubSeq(said, 1, n)
  /\ UNCHANGED <<cap, buf, need, asked, state, misled, short>>

Clear ==
  /\ Idle
  /\ len' = 0 /\ said' = <<>> /\ misled' = FALSE
  /\ UNCHANGED <<cap, buf, need, asked, state, short>>

(* Mutant of sData: a full buffer does not grow. *)
sDataFull ==
  /\ Idle /\ cap > 0
  /\ buf' = Put(buf, len, <<0>>)
  /\ state' = IF len = cap THEN "overrun" ELSE state
  /\ UNCHANGED <<cap, len, need, asked, said, misled, short>>

(* sData: a full buffer grows by a block, and a zero goes behind the data. *)
sData ==
  /\ Idle /\ cap > 0
  /\ \/ /\ len < cap
        /\ buf' = Put(buf, len, <<0>>) /\ UNCHANGED <<cap, state>>
     \/ /\ len = cap /\ cap + Block <= MaxCap
        /\ cap' = cap + Block
        /\ buf' = Put(Moved(cap'), len, <<0>>) /\ UNCHANGED state
     \/ /\ len = cap /\ cap + Block > MaxCap
        /\ Alloc(Block)
  /\ UNCHANGED <<len, need, asked, said, misled, short>>

(* The copy constructor: alloc(buf._cap) and append, in a new object, which is
   looked at from now on. *)
copy ==
  /\ Idle
  /\ cap' = Rounded(cap) /\ buf' = Moved(Rounded(cap))
  /\ UNCHANGED <<len, need, asked, state, said, misled, short>>

(* append begins: the caller asks for n bytes, m are going to be copied. *)
BeginAppend(n, m) ==
  /\ Idle /\ m > 0
  /\ need' = m /\ asked' = n
  /\ misled' = (misled \/ n # m)
  /\ short' = (short \/ leftSize < m)
  /\ UNCHANGED <<cap, len, buf, state, said>>

(* append(const uint8_t *, n) and append(std::string) *)
append(n) == BeginAppend(n, n)

(* append(const char *, n), which measures the text itself and finds m. *)
appendText(n, m) == ~misled /\ BeginAppend(n, m)

(* leftSize() < len: the difference is taken the wrong way round. *)
appendGrow ==
  /\ need > 0 /\ state = "ok" /\ leftSize < need
  /\ Alloc(SizeT(leftSize - need))
  /\ UNCHANGED <<len, need, asked, said, misled, short>>

appendCopy ==
  /\ need > 0 /\ state = "ok" /\ leftSize >= need
  /\ buf' = Put(buf, len, Fresh(need)) /\ len' = len + need
  /\ said' = said \o Fresh(asked)
  /\ state' = IF len + need > cap THEN "overrun" ELSE state
  /\ need' = 0 /\ asked' = 0
  /\ UNCHANGED <<cap, misled, short>>

BufInit ==
  /\ cap = 0 /\ len = 0 /\ buf = <<>> /\ need = 0 /\ asked = 0 /\ state = "ok"
  /\ said = <<>> /\ misled = FALSE /\ short = FALSE

BufNext ==
  \/ \E n \in Sizes : alloc(n) \/ offset(n) \/ setLength(n) \/ append(n)
  \/ \E n, m \in Sizes : appendText(n, m)
  \/ Clear \/ sData \/ copy
  \/ appendGrow \/ appendCopy

BufSpec == BufInit /\ [][BufNext]_bufVars

----------------------------------------------------------------------------
BufTypeOK ==
  /\ cap \in 0..(Mod - 1) /\ len \in Nat /\ need \in 0..MaxCap /\ asked \in 0..MaxCap
  /\ state \in {"ok", "badAlloc", "overrun"}
  /\ {misled, short} \subseteq BOOLEAN

(* The buffer reads back what was put in, through every growth, copy and zero
   written behind it, unless a text was not as long as its caller said. *)
ReadsBack ==
  /\ len <= cap /\ DOMAIN buf = 1..cap
  /\ ~misled => len = Len(said) /\ \A i \in 1..len : buf[i] = said[i]

(* An append that meets too little room does not return: it asks alloc for the
   difference the wrong way round, 2^64 less than nothing, which rounds to no
   block at all or to fewer than there are, so it goes round for ever, or frees
   memory until new throws or the contents overrun what is left of it.  The
   class promises the opposite: "only append extends automatically" (line 10). *)
ShortNeverReturns == short => need > 0 \/ state # "ok"

(* As long as nothing was thrown or overrun the buffer is sound; only an append
   that met too little room writes outside of it; and none of those returns. *)
BufKeeps ==
  /\ BufTypeOK
  /\ state = "ok" => ReadsBack
  /\ state = "overrun" => short
  /\ ShortNeverReturns
=============================================================================
