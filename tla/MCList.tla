-------------------------------- MODULE MCList --------------------------------
(***************************************************************************)
(* Instances of List for TLC.  Fresh memory holds zeros: the emulator the  *)
(* kernel runs on clears its RAM, and no heap memory is used twice.        *)
(***************************************************************************)
EXTENDS List

CONSTANTS t1, t2, t3

Pointers == {t1, t2, t3}
ZeroedMemory == {NULL}

\* The kernel's lists are queues; push, which nothing calls yet, makes a stack.
QueueOrStack == {{"append", "pop", "remove", "get"}, {"push", "pop", "get"}}

ASSUME InstanceUse == Use
===============================================================================
