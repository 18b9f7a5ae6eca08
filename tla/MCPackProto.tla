---------------------------- MODULE MCPackProto ----------------------------
(* Instances of PackProto for TLC. *)
EXTENDS PackProto

VARIABLE pace   \* which of the two instances below this behaviour belongs to

(* Cap is 5 and H is 2: packets of four, three and two bytes, two of the last of
   which fit into the buffer, and one that fills it. *)
MCShort == {<<"ok", 2>>, <<"ok", 0>>, <<"err", 1>>}
MCKinds == MCShort \cup {<<"ok", 3>>}

(* Two requests byte by byte, which cuts headers. *)
Bytewise == INSTANCE PackProto WITH Pieces <- {1}, Claims <- {3}, MaxReq <- 2

(* Three requests, so that two workers have answers to write while a third request
   is on its way; no packet fills the buffer. *)
Piecewise == INSTANCE PackProto WITH Kinds <- MCShort

MCInit == Init /\ pace \in {"bytes", "pieces"}
MCNext ==
  /\ UNCHANGED pace
  /\ \/ pace = "pieces" /\ Piecewise!Next
     \/ pace = "bytes" /\ Bytewise!Next

MCSpec == MCInit /\ [][MCNext]_<<vars, pace>>
=============================================================================
