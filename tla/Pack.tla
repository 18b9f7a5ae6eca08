-------------------------------- MODULE Pack --------------------------------
(***************************************************************************)
(* YS_PackArgs (isaac/tool/ys_pack.hpp): the fields of a structure written  *)
(* one after the other into memory, and read back by a structure of the    *)
(* same type.                                                              *)
(*                                                                         *)
(* A type is a tuple: <<"num", k>> for a number, a bool, a plain structure *)
(* or an array of them, of k bytes; <<"str">> for a length and its bytes   *)
(* (string, pair, YS_UstrRef); <<"cstr">> for char*; <<"vec", k>> for a    *)
(* vector of plain structures; <<"sub", types>> for a structure with       *)
(* YS_PACK; <<"arr", n, types>> and <<"vsub", types>> for an array and a    *)
(* vector of those; <<"null", k>> for one of k bytes with YS_PACK_NULL.  A  *)
(* cell of memory is a byte of some number, a byte of a string, or the     *)
(* zero at the end of one.                                                 *)
(*                                                                         *)
(* Lengths are those that encode writes: the length of a YS_UstrRef has 64 *)
(* bits, and one that no encode wrote may wrap in the test of decode.      *)
(***************************************************************************)
EXTENDS Integers, Sequences, SequencesExt

CONSTANT LenSize        \* sizeof of a length field

NumCells(v, k) == [i \in 1..k |-> <<"num", v, i>>]
StrCells(s)    == [i \in 1..Len(s) |-> <<"chr", s[i]>>]
Zero           == <<"zero">>

Flat(ss) == FoldLeft(\o, <<>>, ss)

(* encode, and pack of all the fields. *)
RECURSIVE encode(_, _)
encode(type, v) ==
  CASE type[1] = "num"  -> NumCells(v, type[2])
    [] type[1] = "str"  -> NumCells(Len(v), LenSize) \o StrCells(v)
    [] type[1] = "cstr" -> StrCells(v) \o <<Zero>>
    [] type[1] = "vec"  -> NumCells(Len(v), LenSize)
                             \o Flat([i \in 1..Len(v) |-> NumCells(v[i], type[2])])
    [] type[1] = "null" -> <<>>
    [] type[1] = "sub"  -> Flat([i \in 1..Len(v) |-> encode(type[2][i], v[i])])
    [] type[1] = "arr"  -> Flat([i \in 1..Len(v) |-> encode(<<"sub", type[3]>>, v[i])])
    [] type[1] = "vsub" -> NumCells(Len(v), LenSize)
                             \o Flat([i \in 1..Len(v) |-> encode(<<"sub", type[2]>>, v[i])])

----------------------------------------------------------------------------
(* decode: memory beyond the data is there, with unknown contents.  A result
   has the value, the offset after it, and err: "no", "len" (the exception
   YPACK_ERR_DATA_LEN) or "beyond" (read outside of the data). *)
Ok(v, off) == [err |-> "no", v |-> v, off |-> off]
Fail(e)    == [err |-> e, v |-> <<>>, off |-> 0]

(* Mutant of decode_num: the offset is left out of the test. *)
decode_numNoOff(k, data, off) ==
  IF Len(data) < k THEN Fail("len")
  ELSE IF off + k > Len(data) THEN Fail("beyond")
  ELSE IF data[off + 1][1] = "num" /\ SubSeq(data, off + 1, off + k) = NumCells(data[off + 1][2], k)
  THEN Ok(data[off + 1][2], off + k)
  ELSE Ok("garbage", off + k)

(* A number of k bytes; bytes that are not one number are some other number. *)
decode_num(k, data, off) ==
  IF Len(data) < off + k THEN Fail("len")
  ELSE IF data[off + 1][1] = "num" /\ SubSeq(data, off + 1, off + k) = NumCells(data[off + 1][2], k)
  THEN Ok(data[off + 1][2], off + k)
  ELSE Ok("garbage", off + k)

(* Mutant of decode_str: the bytes are left to be read again. *)
decode_strStays(data, off) ==
  LET n == decode_num(LenSize, data, off)
  IN  IF n.err # "no" THEN n
      ELSE IF n.v \notin Nat \/ Len(data) < n.off + n.v THEN Fail("len")
      ELSE Ok([i \in 1..n.v |-> data[n.off + i][2]], n.off)

decode_str(data, off) ==
  LET n == decode_num(LenSize, data, off)
  IN  IF n.err # "no" THEN n
      ELSE IF n.v \notin Nat \/ Len(data) < n.off + n.v THEN Fail("len")
      ELSE Ok([i \in 1..n.v |-> data[n.off + i][2]], n.off + n.v)

(* strlen comes before the test of the length. *)
decode_cstr(data, off) ==
  LET ends == {i \in (off + 1)..Len(data) : data[i] = Zero}
      end  == CHOOSE i \in ends : \A j \in ends : i <= j
  IN  IF ends = {} THEN Fail("beyond")
      ELSE Ok([i \in 1..(end - off - 1) |-> data[off + i][2]], end)

(* A structure with YS_PACK_NULL: its _ys_unpack is not the one decode looks for,
   so its bytes are read, which encode did not write. *)
decode_null(k, data, off) ==
  IF Len(data) < off + k THEN Fail("len") ELSE Ok(<<>>, off + k)

(* Items read one after the other, by Read(data, off). *)
DecodeAll(Read(_, _, _), n, data, off) ==
  FoldLeft(LAMBDA r, i : IF r.err # "no" THEN r
                         ELSE LET x == Read(i, data, r.off)
                              IN  IF x.err # "no" THEN x ELSE Ok(Append(r.v, x.v), x.off),
           Ok(<<>>, off), [i \in 1..n |-> i])

Rest(data, off) == SubSeq(data, off + 1, Len(data))

(* unpack of a structure's fields works on the rest of the data, from 0. *)
RECURSIVE decode(_, _, _)
unpack(types, data, off) ==
  LET r == DecodeAll(LAMBDA i, d, o : decode(types[i], d, o), Len(types), Rest(data, off), 0)
  IN  IF r.err = "no" THEN Ok(r.v, off + r.off) ELSE r

(* Vectors of structures: the elements are all read at the start of the data. *)
decode_vsub(types, data, off) ==
  LET n == decode_num(LenSize, data, off)
      x == unpack(types, data, 0)
  IN  IF n.err # "no" THEN n
      ELSE IF n.v \notin Nat THEN Fail("len")
      ELSE IF n.v = 0 THEN Ok(<<>>, n.off)
      ELSE IF x.err # "no" THEN x
      ELSE Ok([i \in 1..n.v |-> x.v], n.off + n.v * x.off)

decode(type, data, off) ==
  CASE type[1] = "num"  -> decode_num(type[2], data, off)
    [] type[1] = "str"  -> decode_str(data, off)
    [] type[1] = "cstr" -> decode_cstr(data, off)
    [] type[1] = "vec"  ->
         LET n == decode_num(LenSize, data, off)
         IN  IF n.err # "no" THEN n
             ELSE IF n.v \notin Nat THEN Fail("len")
             ELSE DecodeAll(LAMBDA i, d, o : decode_num(type[2], d, o), n.v, data, n.off)
    [] type[1] = "null" -> decode_null(type[2], data, off)
    [] type[1] = "sub"  -> unpack(type[2], data, off)
    [] type[1] = "arr"  ->
         DecodeAll(LAMBDA i, d, o : unpack(type[3], d, o), type[2], data, off)
    [] type[1] = "vsub" -> decode_vsub(type[2], data, off)

(* Does a type hold one that begins with t? *)
RECURSIVE Has(_, _)
Has(type, t) ==
  \/ type[1] = t
  \/ type[1] \in {"sub", "vsub"} /\ \E i \in DOMAIN type[2] : Has(type[2][i], t)
  \/ type[1] = "arr" /\ \E i \in DOMAIN type[3] : Has(type[3][i], t)
=============================================================================
