--------------------------------- MODULE MCHeap ---------------------------------
(***************************************************************************)
(* Instances of Heap for TLC, with the real sizes in units of 8 bytes: a   *)
(* page of 512, a header of 3.                                             *)
(***************************************************************************)
EXTENDS Heap

\* The kernel asks for 12 bytes (list, list_elem and sleeper): 2 units.
KernelRequests == {{2}}

\* Programs that ask for one size only, from 8 to 96 bytes.
UniformRequests == {{s} : s \in 1 .. 12}

ASSUME InstanceUse == Uniform /\ Small
===============================================================================
