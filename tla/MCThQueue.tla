----------------------------- MODULE MCThQueue -----------------------------
(* Instances of ThQueue for TLC. *)
EXTENDS ThQueue, TLC

CONSTANTS c1, c2, c3

MCCallers2 == {c1, c2}
MCCallers3 == {c1, c2, c3}
MCSymmetry == Permutations(Callers)
=============================================================================
