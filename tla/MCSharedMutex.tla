--------------------------- MODULE MCSharedMutex ---------------------------
(* Instances of SharedMutex for TLC. *)
EXTENDS SharedMutex, TLC

CONSTANTS t1, t2, t3, t4

MCThreads3 == {t1, t2, t3}
MCThreads4 == {t1, t2, t3, t4}
MCGuarded  == {t1}

=============================================================================
