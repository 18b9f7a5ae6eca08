------------------------------- MODULE RWLock -------------------------------
(***************************************************************************)
(* What a readers-writer lock promises, and nothing about how: a thread is *)
(* inside as a reader or as the writer, it comes in when those inside      *)
(* allow it and goes out by itself.  There is no counter, no flag and no   *)
(* waiting here.  Module SharedMutex is shown to implement it.             *)
(***************************************************************************)
CONSTANT Threads

VARIABLE inside   \* for each thread "none", "read" or "write"

Inside(m) == {t \in Threads : inside[t] = m}

Init == inside = [t \in Threads |-> "none"]

EnterRead(t) ==
  /\ inside[t] = "none" /\ Inside("write") = {}
  /\ inside' = [inside EXCEPT ![t] = "read"]

EnterWrite(t) ==
  /\ Inside("read") = {} /\ Inside("write") = {}
  /\ inside' = [inside EXCEPT ![t] = "write"]

Leave(t) ==
  /\ inside[t] # "none"
  /\ inside' = [inside EXCEPT ![t] = "none"]

Next == \E t \in Threads : EnterRead(t) \/ EnterWrite(t) \/ Leave(t)

Spec == Init /\ [][Next]_inside
=============================================================================
