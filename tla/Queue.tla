--------------------------------- MODULE Queue ---------------------------------
(***************************************************************************)
(* What lib/list.c promises the scheduler and the semaphores: a list is a  *)
(* sequence of data pointers.  ret is what the last call returned.         *)
(***************************************************************************)
EXTENDS Naturals, Sequences, SequencesExt

CONSTANTS Data, NULL, PANIC, true, false

VARIABLES q, ret

\* list_init, and list_init_with(d).
Init == q \in {<<>>} \cup {<<d>> : d \in Data} /\ ret = NULL

Append_(d) == q' = Append(q, d) /\ ret' = NULL
Push(d) == q' = <<d>> \o q /\ ret' = NULL

\* pop takes the first element; an empty list gives NULL and stays empty.
Pop ==
    \/ q = <<>> /\ ret' = NULL /\ q' = q
    \/ q # <<>> /\ ret' = Head(q) /\ q' = Tail(q)

\* remove takes the first element that holds d and says whether there was one.
Remove_(d) ==
    q' = RemoveFirst(q, d) /\ ret' = IF Contains(q, d) THEN true ELSE false

\* list_get of an index outside the list stops the machine.
Get(i) == q' = q /\ ret' = IF i < Len(q) THEN q[i + 1] ELSE PANIC

Next ==
    \/ Pop
    \/ \E d \in Data : Append_(d) \/ Push(d) \/ Remove_(d)
    \/ \E i \in 0 .. Len(q) : Get(i)

Spec == Init /\ [][Next]_<<q, ret>>
===============================================================================
