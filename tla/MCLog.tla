------------------------------- MODULE MCLog -------------------------------
(* An instance of Log for TLC. *)
EXTENDS Log

(* An error is longer than the other entries, and than a file may be. *)
MCLenOf == [l \in Levels |-> IF l = LEV_ERROR THEN 3 ELSE 1]
=============================================================================
