------------------------------- MODULE Codecs -------------------------------
(***************************************************************************)
(* The sequential helpers, each with its inputs: YS_Buf (module Buf), the  *)
(* digests fed piece by piece (Digest), base64 (Base64), the fields of a   *)
(* packed structure (Pack) and path names (Path).  They share nothing; a   *)
(* behaviour exercises the one that part names.                            *)
(***************************************************************************)
EXTENDS Buf, Digest

CONSTANTS
  LenSize,      \* sizeof of a length field in a packed structure
  Bytes,        \* bytes to encode
  Fields,       \* <<type, value>>: fields of a packed structure
  Names,        \* parts of a path: "/", ".", ".." and names
  MaxMsg, MaxBytes, MaxFields, MaxPath   \* bounds on the inputs

B64 == INSTANCE Base64
P   == INSTANCE Pack
F   == INSTANCE Path

VARIABLES
  part,         \* the helper this behaviour is about
  msg           \* the input so far of a helper without state of its own

codecVars == <<part, msg, digestVars, bufVars>>

Init ==
  /\ part \in {"buf", "digest", "base64", "pack", "path"}
  /\ msg = <<>>
  /\ BufInit /\ DigestInit

BufStep ==
  /\ part = "buf"
  /\ BufNext
  /\ UNCHANGED <<part, msg, digestVars>>

DigestStep ==
  /\ part = "digest"
  /\ DigestNext /\ Len(fed') <= MaxMsg
  /\ UNCHANGED <<part, msg, bufVars>>

(* One more item of input for a helper without state of its own. *)
Extend(p, x, max) ==
  /\ part = p /\ Len(msg) < max
  /\ msg' = Append(msg, x)
  /\ UNCHANGED <<part, digestVars, bufVars>>

Next ==
  \/ BufStep
  \/ DigestStep
  \/ \E b \in Bytes : Extend("base64", b, MaxBytes)
  \/ \E f \in Fields : Extend("pack", f, MaxFields)
  \/ /\ part = "path"
     /\ \E x \in {y \in Names : y = F!Sep \/ msg = <<>> \/ Last(msg) = F!Sep} :
          Extend("path", x, MaxPath)

Spec == Init /\ [][Next]_codecVars

----------------------------------------------------------------------------
TypeOK ==
  /\ sm3.num \in 0..(B - 1) /\ md5.num \in 0..(B - 1)
  /\ DOMAIN sm3.block = 1..B /\ DOMAIN md5.block = 1..B

(* encode is RFC 4648, and decode its inverse, which does not pass over a foreign
   character wherever it is, unless after a Pad. *)
Base64RoundTrip ==
  part = "base64" =>
    LET text == B64!encode(msg)
    IN  /\ text = B64!Reference(msg) /\ B64!decode(text) = msg
        /\ \A i \in 1..Len(text) :
             (i > 1 => text[i - 1] # B64!Pad) =>
               B64!decode([text EXCEPT ![i] = B64!Foreign]) = B64!Thrown

Types  == [i \in 1..Len(msg) |-> msg[i][1]]
Values == [i \in 1..Len(msg) |-> msg[i][2]]
HasAny(t) == \E i \in 1..Len(msg) : P!Has(Types[i], t)

(* A structure packed and unpacked is the same, and all the bytes are used,
   unless one of its fields holds a vector of structures or one with
   YS_PACK_NULL. *)
PackRoundTrip ==
  (part = "pack" /\ ~HasAny("vsub") /\ ~HasAny("null")) =>
    LET data == P!encode(<<"sub", Types>>, Values)
    IN  P!decode(<<"sub", Types>>, data, 0) = P!Ok(Values, Len(data))

(* Cut short anywhere, it is refused with YPACK_ERR_DATA_LEN and nothing
   beyond its end is read, unless it holds a char*. *)
PackTruncated ==
  (part = "pack" /\ ~HasAny("vsub") /\ ~HasAny("cstr") /\ ~HasAny("null")) =>
    LET data == P!encode(<<"sub", Types>>, Values)
    IN  \A n \in 0..(Len(data) - 1) :
          P!decode(<<"sub", Types>>, SubSeq(data, 1, n), 0).err = "len"

(* What is encoded is decoded to itself, whole or not at all. *)
RoundTrip == TypeOK /\ Base64RoundTrip /\ PackRoundTrip /\ PackTruncated

(* fmtPathEx keeps where a path leads, from the root and from any directory
   deep enough, and has nothing left to tidy in its own result; except for a
   relative path that comes back to where it starts, which becomes empty or,
   with a separator at its end, the root. *)
PathKept ==
  (part = "path" /\ ~F!Nowhere(msg)) =>
    LET cwd == [i \in 1..MaxPath |-> <<"dir", i>>]
        out == F!fmtPathEx(msg)
    IN  F!Walk(cwd, out) = F!Walk(cwd, msg) /\ F!fmtPathEx(out) = out
=============================================================================
