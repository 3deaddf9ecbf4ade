--------------------------------- MODULE Mutex ---------------------------------
(***************************************************************************)
(* What the locks of thread/synch.c promise their users: at most one owner *)
(* at a time, and only the owner gives a lock back ("the person who locks  *)
(* it must also be the same person to unlock").                            *)
(***************************************************************************)
CONSTANTS Threads, Locks, NULL

VARIABLE owner

Init == owner = [l \in Locks |-> NULL]

Acquire(t, l) == owner[l] = NULL /\ owner' = [owner EXCEPT ![l] = t]
Release(t, l) == owner[l] = t /\ owner' = [owner EXCEPT ![l] = NULL]

Next == \E t \in Threads, l \in Locks : Acquire(t, l) \/ Release(t, l)

Spec == Init /\ [][Next]_owner
===============================================================================
