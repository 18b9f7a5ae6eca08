----------------------------- MODULE MCRdsPool -----------------------------
(* Instances of RdsPool for TLC. *)
EXTENDS RdsPool, TLC

CONSTANTS t1, t2
MCThreads == {t1, t2}
=============================================================================
