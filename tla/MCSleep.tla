-------------------------------- MODULE MCSleep --------------------------------
(***************************************************************************)
(* A small instance of Sleep for TLC: the kernel thread, the idle thread   *)
(* and two pages for threads of thread functions.                        *)
(***************************************************************************)
EXTENDS Sleep, TLC

CONSTANTS main, idle, a, b, lk, started

MCThreads == {main, idle, a, b}
MCInitValue == [s \in Semas |-> IF s \in Locks THEN 1 ELSE 0]

\* The pages thread_create hands out are interchangeable.
Workers == Permutations({a, b})
===============================================================================
