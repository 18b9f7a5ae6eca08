------------------------------- MODULE Digest -------------------------------
(***************************************************************************)
(* The streaming part of YS_Sm3 (isaac/alg/ys_sm3.hpp) and YS_Md5          *)
(* (ys_md5.hpp): update collects blocks, final pads.  The compression      *)
(* function is abstracted to the list of the blocks it is given.           *)
(*                                                                         *)
(* The bytes of a message are numbered, "1" is 0x80 and "0" a zero byte; a  *)
(* word of the length at the end of the padding is one cell.               *)
(***************************************************************************)
EXTENDS Integers, Sequences, SequencesExt

CONSTANTS
  B,            \* cells of a block, 64
  Words,        \* 2^32, the number of values of a word of the length
  Pieces        \* lengths of the pieces given to update

ASSUME DigestAssumption ==
  /\ B \in Nat /\ B > 3
  /\ Words \in Nat \ {0} /\ Words % (8 * B) = 0
  /\ Pieces \subseteq Nat

VARIABLES
  fed,          \* history: the message given to update so far
  sm3, md5      \* the two contexts

digestVars == <<fed, sm3, md5>>

Word(n) == n % Words

(* init; the buffer's content does not matter yet. *)
NewDigest == [blocks |-> <<>>, block |-> [i \in 1..B |-> "?"], num |-> 0,
              nblocks |-> 0, nl |-> 0, nh |-> 0]

(* memcpy, memset *)
Copy(block, off, data) ==
  [i \in 1..B |-> IF i > off /\ i <= off + Len(data) THEN data[i - off] ELSE block[i]]
Zero(block, from, to) == [i \in 1..B |-> IF i > from /\ i <= to THEN "0" ELSE block[i]]

Compress(c, block) == [c EXCEPT !.blocks = Append(@, block)]

(* The whole blocks of data, and what remains, which is kept. *)
Whole(c, data) ==
  LET n == Len(data) \div B
      d == [c EXCEPT !.blocks = @ \o [k \in 1..n |-> SubSeq(data, (k - 1) * B + 1, k * B)],
                     !.nblocks = @ + n]
      r == SubSeq(data, n * B + 1, Len(data))
  IN  [d EXCEPT !.num = Len(r), !.block = Copy(@, 0, r)]

(* Mutant of sm3_update: a block just filled is kept. *)
sm3_updateFull(c, data) ==
  LET left == B - c.num
  IN
  IF c.num = 0 THEN Whole(c, data)
  ELSE IF Len(data) <= left
  THEN [c EXCEPT !.block = Copy(@, c.num, data), !.num = @ + Len(data)]
  ELSE Whole([Compress(c, Copy(c.block, c.num, SubSeq(data, 1, left)))
                EXCEPT !.nblocks = @ + 1],
             SubSeq(data, left + 1, Len(data)))

(* YS_Sm3::update *)
sm3_update(c, data) ==
  LET left == B - c.num
  IN
  IF c.num = 0 THEN Whole(c, data)
  ELSE IF Len(data) < left
  THEN [c EXCEPT !.block = Copy(@, c.num, data), !.num = @ + Len(data)]
  ELSE Whole([Compress(c, Copy(c.block, c.num, SubSeq(data, 1, left)))
                EXCEPT !.nblocks = @ + 1],
             SubSeq(data, left + 1, Len(data)))

(* Mutant of sm3_final: the test for room is off by one. *)
sm3_finalTight(c) ==
  LET one   == Copy(c.block, c.num, <<"1">>)
      fits  == c.num + 2 <= B
      e     == IF fits THEN c ELSE Compress(c, Zero(one, c.num + 1, B))
      blank == IF fits THEN Zero(one, c.num + 1, B - 2) ELSE Zero(one, 0, B - 2)
  IN  Compress(e, Copy(blank, B - 2, <<Word((c.nblocks * 8 * B) \div Words),
                                       Word(c.nblocks * 8 * B + c.num * 8)>>)).blocks

(* YS_Sm3::final: the blocks compressed in all. *)
sm3_final(c) ==
  LET one   == Copy(c.block, c.num, <<"1">>)
      fits  == c.num + 3 <= B
      e     == IF fits THEN c ELSE Compress(c, Zero(one, c.num + 1, B))
      blank == IF fits THEN Zero(one, c.num + 1, B - 2) ELSE Zero(one, 0, B - 2)
  IN  Compress(e, Copy(blank, B - 2, <<Word((c.nblocks * 8 * B) \div Words),
                                       Word(c.nblocks * 8 * B + c.num * 8)>>)).blocks

(* The length so far, kept by YS_Md5::update in two words. *)
md5_count(c, len) ==
  LET l == Word(c.nl + Word(len * 8))
  IN  [c EXCEPT !.nl = l, !.nh = Word(@ + (IF l < c.nl THEN 1 ELSE 0) + len \div (Words \div 8))]

(* Mutant of md5_update: what is in the buffer is not counted. *)
md5_updateNoSum(c0, data) ==
  LET c    == md5_count(c0, Len(data))
      left == B - c.num
      rest == SubSeq(data, left + 1, Len(data))
  IN
  IF data = <<>> THEN c0
  ELSE IF c.num = 0 THEN Whole(c, data)
  ELSE IF Len(data) >= B
  THEN Whole([Compress(c, Copy(c.block, c.num, SubSeq(data, 1, left)))
                EXCEPT !.num = 0, !.block = Zero(@, 0, B)], rest)
  ELSE [c EXCEPT !.block = Copy(@, c.num, data), !.num = @ + Len(data)]

(* YS_Md5::update *)
md5_update(c0, data) ==
  LET c    == md5_count(c0, Len(data))
      left == B - c.num
      rest == SubSeq(data, left + 1, Len(data))
  IN
  IF data = <<>> THEN c0
  ELSE IF c.num = 0 THEN Whole(c, data)
  ELSE IF Len(data) >= B \/ Len(data) + c.num >= B
  THEN Whole([Compress(c, Copy(c.block, c.num, SubSeq(data, 1, left)))
                EXCEPT !.num = 0, !.block = Zero(@, 0, B)], rest)
  ELSE [c EXCEPT !.block = Copy(@, c.num, data), !.num = @ + Len(data)]

(* YS_Md5::final *)
md5_final(c) ==
  LET n     == c.num + 1
      one   == Copy(c.block, c.num, <<"1">>)
      full  == n > B - 2
      e     == IF full THEN Compress(c, Zero(one, n, B)) ELSE c
      blank == Zero(one, IF full THEN 0 ELSE n, B - 2)
  IN  Compress(e, Copy(blank, B - 2, <<c.nl, c.nh>>)).blocks

DigestInit == fed = <<>> /\ sm3 = NewDigest /\ md5 = NewDigest

(* update of both digests with the next n bytes of the message. *)
Update(n) ==
  LET piece == [i \in 1..n |-> Len(fed) + i]
  IN  /\ fed' = fed \o piece
      /\ sm3' = sm3_update(sm3, piece) /\ md5' = md5_update(md5, piece)

DigestNext == \E n \in Pieces : Update(n)

DigestSpec == DigestInit /\ [][DigestNext]_digestVars

----------------------------------------------------------------------------
(* The reference: the message, a one, zeros up to the length, the length in
   bits, cut into blocks. *)
Cut(all) == [k \in 1..(Len(all) \div B) |-> SubSeq(all, (k - 1) * B + 1, k * B)]

Padded(len) ==
  LET zeros == (B - ((Len(fed) + 3) % B)) % B
  IN  Cut(fed \o <<"1">> \o [i \in 1..zeros |-> "0"] \o len)

High == Word((Len(fed) * 8) \div Words)
Low  == Word(Len(fed) * 8)

(* However a message is cut into calls of update, and whatever its length, also
   where the length leaves no room in the last block and where the count of
   bits passes a word, final makes the blocks of the standard's padding. *)
Sm3Padding == sm3_final(sm3) = Padded(<<High, Low>>)
Md5Padding == md5_final(md5) = Padded(<<Low, High>>)
DigestPadding == Sm3Padding /\ Md5Padding
=============================================================================
