------------------------------- MODULE Base64 -------------------------------
(***************************************************************************)
(* YS_Base64 (isaac/alg/ys_base64.hpp).  A byte is a number below 256, a   *)
(* character of the encoding the number below 64 it stands for, or Pad; any *)
(* other character is Foreign.                                             *)
(***************************************************************************)
EXTENDS Naturals, Sequences, SequencesExt

Pad     == 64   \* the character =
Foreign == 65

(* decode returns 0 for a string: std::logic_error, and no text. *)
Thrown == <<256>>

(* One byte through the loop of encode: s counts bytes modulo 3, l is the byte
   before. *)
EncodeByte(e, c) ==
  CASE e.s = 0 -> [s |-> 1, l |-> c, out |-> e.out \o <<c \div 4>>]
    [] e.s = 1 -> [s |-> 2, l |-> c, out |-> e.out \o <<(e.l % 4) * 16 + c \div 16>>]
    [] e.s = 2 -> [s |-> 0, l |-> c, out |-> e.out \o <<(e.l % 16) * 4 + c \div 64, c % 64>>]

(* Mutant of EncodeEnd: one Pad too few. *)
EncodeEndShort(e) ==
  CASE e.s = 0 -> e.out
    [] e.s = 1 -> e.out \o <<(e.l % 4) * 16, Pad>>
    [] e.s = 2 -> e.out \o <<(e.l % 16) * 4, Pad>>

EncodeEnd(e) ==
  CASE e.s = 0 -> e.out
    [] e.s = 1 -> e.out \o <<(e.l % 4) * 16, Pad, Pad>>
    [] e.s = 2 -> e.out \o <<(e.l % 16) * 4, Pad>>

encode(in) == EncodeEnd(FoldLeft(EncodeByte, [s |-> 0, l |-> 0, out |-> <<>>], in))

(* The character at index i (from 0): the last byte made is completed, and the
   next one begun. *)
DecodeChar(out, i, c) ==
  LET n == Len(out)
  IN
  CASE i % 4 = 0 -> Append(out, (c * 4) % 256)
    [] i % 4 = 1 -> Append([out EXCEPT ![n] = @ + c \div 16], (c % 16) * 16)
    [] i % 4 = 2 -> Append([out EXCEPT ![n] = @ + c \div 4], (c % 4) * 64)
    [] i % 4 = 3 -> [out EXCEPT ![n] = @ + c]

(* Mutant of foreign: none is. *)
foreignNone(in, n) == FALSE

(* Is one of the first n characters none of the encoding's? *)
foreign(in, n) == \E i \in 1..n : in[i] = Foreign

(* decode: up to the first Pad, without the byte that was begun last. *)
decode(in) ==
  LET end == SelectInSeq(in, LAMBDA c : c = Pad)
      n   == IF end = 0 THEN Len(in) ELSE end - 1
      d[i \in 0..n] == IF i = 0 THEN <<>> ELSE DecodeChar(d[i - 1], i - 1, in[i])
  IN  IF Len(in) % 4 # 0 THEN <<>>
      ELSE IF foreign(in, n) THEN Thrown
      ELSE IF n % 4 = 0 THEN d[n] ELSE Front(d[n])

----------------------------------------------------------------------------
(* The reference: RFC 4648, by the bits. *)
Bits(v, w) == [i \in 1..w |-> (v \div 2^(w - i)) % 2]
Number(b)  == FoldLeft(LAMBDA n, x : 2 * n + x, 0, b)

Reference(in) ==
  LET bits   == FoldLeft(LAMBDA b, c : b \o Bits(c, 8), <<>>, in)
      groups == (Len(bits) + 5) \div 6
      bit(i) == IF i <= Len(bits) THEN bits[i] ELSE 0
      text   == [g \in 1..groups |-> Number([i \in 1..6 |-> bit(6 * (g - 1) + i)])]
  IN  text \o [i \in 1..((4 - (groups % 4)) % 4) |-> Pad]
=============================================================================
