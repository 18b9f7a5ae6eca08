------------------------------ MODULE MCNetTh ------------------------------
(* Instances of NetTh for TLC. *)
EXTENDS NetTh, TLC

CONSTANTS s1, s2, b1, b2, b3, w1, w2

MCSocks1 == {s1}
MCSocks2 == {s1, s2}
MCBufs1  == {b1}
MCBufs2  == {b1, b2}
MCBufs3  == {b1, b2, b3}
MCWorkers1 == {w1}
MCWorkers2 == {w1, w2}

(* All connections, buffers and workers are alike. *)
MCSymmetry ==
  Permutations(Socks) \cup Permutations(Bufs) \cup Permutations(Workers)
=============================================================================
