------------------------------ MODULE KeyedMutex ------------------------------
(***************************************************************************)
(* What MDLockManager promises: one lock for each key.  This is the lock   *)
(* the batch executors of module Cluster take.                             *)
(***************************************************************************)
CONSTANTS Threads, Keys, NoThread

VARIABLE holder

Init == holder = [k \in Keys |-> NoThread]

Lock(t, k) ==
  /\ holder[k] = NoThread
  /\ holder' = [holder EXCEPT ![k] = t]

Unlock(t, k) ==
  /\ holder[k] = t
  /\ holder' = [holder EXCEPT ![k] = NoThread]

Next == \E t \in Threads, k \in Keys : Lock(t, k) \/ Unlock(t, k)

Spec == Init /\ [][Next]_holder
=============================================================================
