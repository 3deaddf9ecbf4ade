---------------------------------- MODULE List ----------------------------------
(***************************************************************************)
(* The doubly linked list of lib/list.c, at the level of its pointers.     *)
(*                                                                         *)
(* An address is a number: NULL is 0, and the n-th list_elem the heap      *)
(* hands out is n (malloc goes upwards and nothing is ever freed: every    *)
(* free(elem) of the code is commented out).  Address 0 is mapped, because *)
(* the heap starts at virtual address 0: what the code reads and writes    *)
(* "through NULL" is the header of the first heap segment, whose           *)
(* previousSegment lies where a list_elem has prev.                        *)
(***************************************************************************)
EXTENDS Naturals, FiniteSets

CONSTANTS Data,      \* what the elements may point to
          PANIC,     \* the result of a call that stops the machine
          MaxElems,  \* bound: list_elems allocated in a behaviour
          Fresh,     \* what a word of newly allocated memory may hold
          Ops        \* the sets of operations the users of a list call

NULL == 0
true == 1
false == 0
Cells == NULL .. MaxElems

ASSUME ListAssumption ==
    /\ MaxElems \in Nat \ {0}
    /\ Fresh \subseteq Cells /\ Fresh # {}
    /\ NULL \notin Data /\ PANIC \notin Data

\* How the kernel's lists are used: memory is zero when malloc hands it out for the
\* first time (append leaves next as it was), and a list is a queue or a stack (push
\* does not maintain tail and prev, which append and remove rely on).
Use ==
    /\ Fresh = {NULL}
    /\ \A o \in Ops : "push" \in o => "append" \notin o /\ "remove" \notin o

VARIABLES ops,                 \* what the users of this list call
          size, head, tail,    \* struct list
          data, next, prev,    \* struct list_elem, by address
          brk,                 \* the last address malloc returned
          ret                  \* what the last call returned

heap == <<data, next, prev, brk>>
vars == <<ops, size, head, tail, data, next, prev, brk, ret>>

\* The memory before the first list_elem; the words of address 0 are the heap's:
\* no data pointer is ever equal to its MemoryLength.
Blank == [a \in Cells |-> NULL]

Empty == size = 0 /\ head = NULL /\ tail = NULL /\ data = Blank /\ brk = 0
         /\ next = Blank /\ prev = Blank

\* list_init_with sets data only: next and prev are what malloc's memory held.
One(d) == /\ size = 1 /\ head = 1 /\ tail = 1 /\ brk = 1
          /\ data = [Blank EXCEPT ![1] = d]
          /\ \E n, p \in Fresh : next = [Blank EXCEPT ![1] = n]
                                 /\ prev = [Blank EXCEPT ![1] = p]

Init == (Empty \/ \E d \in Data : One(d)) /\ ret = NULL /\ ops \in Ops
-------------------------------------------------------------------------------
\* Variants of the definitions below with one mistake each: the model checker
\* shows that the properties notice them.
LinkLastUnlinked(e, g) == [next EXCEPT ![e] = g]
UnlinkPrevForgotten(e) ==
    IF e = head THEN [prev EXCEPT ![next[e]] = NULL] ELSE prev
UnlinkPrevAlways(e) == [prev EXCEPT ![next[e]] = prev[e]]
EmptyNever == size < 0
-------------------------------------------------------------------------------
is_empty == size = 0

\* The pointers of the neighbours once e is taken out.
UnlinkNext(e) == IF e = head THEN next ELSE [next EXCEPT ![prev[e]] = next[e]]
UnlinkPrev(e) ==
    LET cut == IF e = head THEN [prev EXCEPT ![next[e]] = NULL] ELSE prev
    IN  IF e = tail THEN cut ELSE [cut EXCEPT ![next[e]] = cut[e]]

\* append on a list with elements: e->next is left as malloc gave it.
LinkLast(e, g) == [next EXCEPT ![e] = g, ![tail] = e]
LinkFirst(e) == [next EXCEPT ![e] = head]

append(d) ==
    /\ "append" \in ops /\ ret # PANIC
    /\ brk < MaxElems
    /\ brk' = brk + 1 /\ size' = size + 1 /\ tail' = brk' /\ ret' = NULL
    /\ data' = [data EXCEPT ![brk'] = d]
    /\ \/ /\ is_empty
          /\ head' = brk'
          /\ next' = [next EXCEPT ![brk'] = NULL]
          /\ prev' = [prev EXCEPT ![brk'] = NULL]
       \/ /\ ~is_empty
          /\ head' = head
          /\ \E g \in Fresh : next' = LinkLast(brk', g)
          /\ prev' = [prev EXCEPT ![brk'] = tail]
    /\ UNCHANGED ops

\* push takes no care of an empty list: it stores through head = NULL and leaves
\* tail alone.  Nothing in the kernel calls it.
push(d) ==
    /\ "push" \in ops /\ ret # PANIC
    /\ brk < MaxElems
    /\ brk' = brk + 1 /\ size' = size + 1 /\ head' = brk' /\ ret' = NULL
    /\ data' = [data EXCEPT ![brk'] = d]
    /\ next' = LinkFirst(brk')
    /\ \E g \in Fresh : prev' = [prev EXCEPT ![brk'] = g, ![head] = brk']
    /\ UNCHANGED <<ops, tail>>

pop ==
    /\ "pop" \in ops /\ ret # PANIC
    /\ \/ is_empty /\ ret' = NULL /\ UNCHANGED <<size, head, prev>>
       \/ /\ ~is_empty
          /\ ret' = data[head]
          /\ head' = next[head]
          /\ prev' = [prev EXCEPT ![next[head]] = NULL]
          /\ size' = size - 1
    /\ UNCHANGED <<ops, tail, data, next, brk>>

\* The element n steps after the head.
Node[n \in 0 .. MaxElems] == IF n = 0 THEN head ELSE next[Node[n - 1]]

\* Where the loop of remove stops: at the first element that holds d, or at the
\* last.  On an empty list it reads on through address 0 and the chain of heap
\* headers, finds nothing, and stops: that chain is the one cell 0 here.
StopsAt(n, d) == data[Node[n]] = d \/ next[Node[n]] = NULL
Walk(d) == Node[CHOOSE n \in 0 .. MaxElems :
                    StopsAt(n, d) /\ \A k \in 0 .. n - 1 : ~StopsAt(k, d)]

remove(d) ==
    /\ "remove" \in ops /\ ret # PANIC
    /\ LET e == Walk(d) IN
       \/ /\ data[e] = d
          /\ head' = IF e = head THEN next[e] ELSE head
          /\ tail' = IF e = tail THEN prev[e] ELSE tail
          /\ next' = UnlinkNext(e)
          /\ prev' = UnlinkPrev(e)
          /\ size' = size - 1
          /\ ret' = true
       \/ data[e] # d /\ ret' = false /\ UNCHANGED <<size, head, tail, next, prev>>
    /\ UNCHANGED <<ops, data, brk>>

list_get(i) ==
    /\ "get" \in ops /\ ret # PANIC
    /\ ret' = IF i < size THEN data[Node[i]] ELSE PANIC
    /\ UNCHANGED <<ops, size, head, tail, heap>>

Next ==
    \/ pop
    \/ \E d \in Data : append(d) \/ push(d) \/ remove(d)
    \/ \E i \in 0 .. size : list_get(i)

Spec == Init /\ [][Next]_vars
-------------------------------------------------------------------------------
(* What the list guarantees. *)

TypeOK ==
    /\ ops \in Ops /\ size \in Nat /\ brk \in Cells
    /\ head \in Cells /\ tail \in Cells
    /\ data \in [Cells -> Data \cup {NULL}]
    /\ next \in [Cells -> Cells] /\ prev \in [Cells -> Cells]
    /\ ret \in Data \cup {NULL, true, PANIC}

\* The data pointers met by following next from the head, size of them.
Contents == [i \in 1 .. size |-> data[Node[i - 1]]]

Abs == INSTANCE Queue WITH q <- Contents

\* Seen through Contents every call of list.c is the call of the same name on a
\* plain sequence, and returns the same: no element is lost, doubled or moved,
\* whatever order append, pop and remove, or push and pop, come in.
ListIsQueue == Abs!Spec

\* Unless push is used, the chain can be walked both ways: prev undoes next, the ends
\* are where head and tail say, and an empty list has no head for remove to start from.
Linked ==
    "push" \notin ops =>
    /\ size = 0 => head = NULL
    /\ size > 0 => /\ tail = Node[size - 1] /\ next[tail] = NULL
                   /\ prev[head] = NULL
                   /\ \A i \in 1 .. size - 1 : prev[Node[i]] = Node[i - 1]
    /\ Cardinality({Node[i] : i \in 0 .. size - 1}) = size

\* pop and remove store through NULL when they take the last element: what they store
\* is what the header of the first heap segment holds already.  (push is not so lucky.)
HeapHeaderIntact ==
    "push" \notin ops => data[NULL] = NULL /\ next[NULL] = NULL /\ prev[NULL] = NULL
===============================================================================
