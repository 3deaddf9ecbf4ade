---------------------------------- MODULE Heap ----------------------------------
(***************************************************************************)
(* The kernel heap of heap/heap.c: initialiseHeap and malloc.  (free is    *)
(* marked "TODO FIX" and nothing calls it.)                                *)
(*                                                                         *)
(* Addresses and lengths count units of 8 bytes, to which malloc rounds    *)
(* every request.  The heap starts at address 0, so that the code's tests  *)
(* for a null pointer also hold for the first segment.                     *)
(*                                                                         *)
(* malloc does not touch the interrupt level.  Most of its callers have    *)
(* interrupts off; thread_create and thread_sleep have them on, and a tick *)
(* may come with the malloc of thread_yield's append in the middle of      *)
(* theirs: here between their search and the use of what it found.         *)
(***************************************************************************)
EXTENDS Integers, Sequences, FiniteSets

CONSTANTS
  PGSIZE,    \* units in a page
  Header,    \* sizeof(MemorySegmentHeader)
  Requests,  \* the sets of sizes a program may ask for
  MaxPages,  \* frames palloc_heap can get for the heap
  WordMod    \* 2^32 bytes

ASSUME HeapAssumption ==
  /\ PGSIZE \in Nat /\ Header \in 1 .. PGSIZE /\ MaxPages \in Nat \ {0}
  /\ WordMod \in Nat /\ WordMod > PGSIZE * MaxPages
  /\ Requests \subseteq SUBSET (1 .. PGSIZE - 1)

\* The kernel asks for one size, and twice that size fits a page, with a header.
Uniform == \A r \in Requests : \E s \in r : r = {s}
Small == \A r \in Requests : \A s \in r : 2 * s + Header <= PGSIZE

VARIABLES
  sizes,             \* what this program asks for
  pages,             \* kernel_pool->next_free_page_index
  hdr,               \* the MemorySegmentHeaders, by address
  firstFreeSegment,
  blocks,            \* what malloc has returned, as <<address, size>>, in order
  pending,           \* the malloc under way with interrupts on: the segment its search
                     \* ended at, the size, and whether another malloc came in between
  raced,             \* history: such a malloc went on after another one
  halt               \* "fault" after a page fault, "no" before

race == <<pending, raced>>
vars == <<sizes, pages, hdr, firstFreeSegment, blocks, race, halt>>

NoMalloc == [c |-> 0, size |-> 0, late |-> FALSE]

End == pages * PGSIZE

\* initialiseHeap(0, PGSIZE).
Init ==
  /\ sizes \in Requests
  /\ pages = 1
  /\ firstFreeSegment = 0
  /\ hdr = [a \in {0} |-> [MemoryLength |-> PGSIZE - Header, nextSegment |-> 0,
                            previousSegment |-> 0, nextFreeSegment |-> 0,
                            previousFreeSegment |-> 0, free |-> TRUE]]
  /\ blocks = <<>>
  /\ pending = NoMalloc /\ raced = FALSE
  /\ halt = "no"
-------------------------------------------------------------------------------
\* MemoryLength is an int and size is unsigned: a negative length is a huge one.
TooSmall(h, size) == h.MemoryLength % WordMod < size

\* How many segments there are from a on: pointers to the next one go upwards.
From(a) == Cardinality({b \in DOMAIN hdr : a <= b})

\* A loop of n steps from x on.
Iterate(step, x, n) ==
  LET at[k \in 0 .. n] == IF k = 0 THEN x ELSE step[at[k - 1]] IN at[n]

\* The first free segment that is large enough, or the last one.
Onward(size) ==
  [c \in DOMAIN hdr |-> IF TooSmall(hdr[c], size) /\ hdr[c].nextFreeSegment # 0
                        THEN hdr[c].nextFreeSegment ELSE c]
Search(size) == Iterate(Onward(size), firstFreeSegment, From(firstFreeSegment))

\* The segment at the end of the list that goes on from c.
Following ==
  [c \in DOMAIN hdr |-> IF hdr[c].nextSegment = 0 THEN c ELSE hdr[c].nextSegment]
LastFrom(c) == Iterate(Following, c, From(c))

\* The header v is written at a.
Written(h, a, v) == [x \in DOMAIN h \cup {a} |-> IF x = a THEN v ELSE h[x]]

Fault == halt' = "fault" /\ UNCHANGED <<sizes, pages, hdr, firstFreeSegment, blocks>>

\* If p is not null, field f of the segment at p becomes v.
Point(h, p, f, v) == IF p = 0 THEN h ELSE [h EXCEPT ![p][f] = v]

\* Mutant: the rest starts where the block does.
RestEarly(c, size) == c + Header + size - 1

\* Where the rest of segment c starts when its first size units are given away.
Rest(c, size) == c + Header + size

\* The segment c becomes the block and the rest of it a new free segment n.
SplitSegments(c, n, size) ==
  LET rest == [MemoryLength |-> hdr[c].MemoryLength - (Header + size),
               nextSegment |-> hdr[c].nextSegment, previousSegment |-> c,
               nextFreeSegment |-> hdr[c].nextFreeSegment,
               previousFreeSegment |-> hdr[c].previousFreeSegment, free |-> TRUE]
      h1 == [Written(hdr, n, rest) EXCEPT
                ![c] = [@ EXCEPT !.nextFreeSegment = n, !.nextSegment = n,
                                 !.MemoryLength = size, !.free = FALSE]]
      h2 == Point(h1, h1[c].previousFreeSegment, "nextFreeSegment", n)
      h3 == Point(h2, n, "previousFreeSegment", h2[c].previousFreeSegment)
      h4 == Point(h3, h3[c].previousSegment, "nextFreeSegment", n)
  IN  h4

\* malloc from the segment c, which is large enough.  The header of the rest is written
\* wherever it comes to lie: beyond the last page of the heap that is a page fault.
Split(c, size) ==
  LET n == Rest(c, size)
  IN  /\ ~TooSmall(hdr[c], size)
      /\ IF n + Header > End THEN Fault
         ELSE /\ hdr' = SplitSegments(c, n, size)
              /\ firstFreeSegment' = IF c = firstFreeSegment THEN n ELSE firstFreeSegment
              /\ blocks' = Append(blocks, <<c + Header, size>>)
              /\ UNCHANGED <<sizes, pages, halt>>

\* Mutant: the free list ends at the segment the search ended at.
AfterGrowthLost(second) == 0

\* Mutant: the free list goes on at the memory of the segment, not at its header.
AfterGrowthData(second) == second + Header

\* What follows the last free segment once the heap has grown: the second segment.
AfterGrowth(second) == second

\* The pages malloc asks for.
NumPages(size) == (size + Header) \div PGSIZE + (IF size % PGSIZE # 0 THEN 1 ELSE 0)

\* malloc when the last free segment, c, is not large enough: new pages, which start with the block's
\* segment s1; its MemoryLength is not set, the frame was zero.  If the part of size
\* that exceeds whole pages is larger than a header, as much is taken for the length
\* of a second, free, segment behind the block.
Grow(c, size) ==
  LET remainder == size % PGSIZE
      s1        == End
      s2        == IF remainder > Header THEN End + Header + size ELSE 0
      lastFree  == IF hdr[c].free THEN c ELSE hdr[c].previousFreeSegment
      first     == [MemoryLength |-> 0, nextSegment |-> s2, nextFreeSegment |-> s2,
                    previousSegment |-> IF s2 = 0 THEN c ELSE LastFrom(c),
                    previousFreeSegment |-> IF s2 = 0 THEN lastFree ELSE c,
                    free |-> FALSE]
      second    == [MemoryLength |-> remainder - Header, nextSegment |-> 0,
                    nextFreeSegment |-> 0, previousSegment |-> s1,
                    previousFreeSegment |-> lastFree, free |-> TRUE]
      grown     == [hdr EXCEPT ![c].nextSegment = IF s2 = 0 THEN 0 ELSE s1,
                               ![c].nextFreeSegment = AfterGrowth(s2)]
  IN  /\ TooSmall(hdr[c], size)
      /\ pages + NumPages(size) <= MaxPages
      /\ pages' = pages + NumPages(size)
      /\ IF s2 + Header > pages' * PGSIZE
         THEN halt' = "fault" /\ UNCHANGED <<hdr, blocks>>
         ELSE /\ hdr' = Written(IF s2 = 0 THEN grown ELSE Written(grown, s2, second),
                              s1, first)
              /\ blocks' = Append(blocks, <<s1 + Header, size>>)
              /\ halt' = halt
      /\ UNCHANGED <<sizes, firstFreeSegment>>

\* palloc_heap has no pages: malloc returns NO_ADDR.  All its callers store through
\* what it returns, which at NO_ADDR is a page fault.
OutOfPages(c, size) ==
  /\ TooSmall(hdr[c], size)
  /\ pages + NumPages(size) > MaxPages
  /\ Fault

\* malloc from line 36 on, with the segment the search ended at.
Allocate(c, size) == Split(c, size) \/ Grow(c, size) \/ OutOfPages(c, size)

\* What a heap does on which two calls of malloc have raced is not followed up.
Up == halt = "no" /\ ~raced

\* malloc with interrupts off, or not interrupted.
malloc(size) ==
  /\ Up /\ Allocate(Search(size), size)
  /\ pending' = IF pending = NoMalloc THEN pending ELSE [pending EXCEPT !.late = TRUE]
  /\ UNCHANGED raced

\* malloc with interrupts on, up to the end of its search ...
mallocSearch(size) ==
  /\ Up /\ pending = NoMalloc
  /\ pending' = [c |-> Search(size), size |-> size, late |-> FALSE]
  /\ UNCHANGED <<sizes, pages, hdr, firstFreeSegment, blocks, raced, halt>>

\* ... and from there on.
mallocFound ==
  /\ Up /\ pending # NoMalloc
  /\ Allocate(pending.c, pending.size)
  /\ raced' = pending.late /\ pending' = NoMalloc

Next == mallocFound \/ \E size \in sizes : malloc(size) \/ mallocSearch(size)

Spec == Init /\ [][Next]_vars
-------------------------------------------------------------------------------
(* What the heap guarantees. *)

TypeOK ==
  /\ sizes \in Requests /\ pages \in 1 .. MaxPages
  /\ firstFreeSegment \in DOMAIN hdr
  /\ \A a \in DOMAIN hdr : /\ a \in 0 .. End - Header
                           /\ hdr[a].MemoryLength \in Int /\ hdr[a].free \in BOOLEAN
                           /\ {hdr[a].nextSegment, hdr[a].previousSegment,
                               hdr[a].nextFreeSegment, hdr[a].previousFreeSegment}
                                \subseteq DOMAIN hdr
  /\ pending.c \in DOMAIN hdr /\ pending.size \in sizes \cup {0}
  /\ pending.late \in BOOLEAN /\ raced \in BOOLEAN
  /\ halt \in {"no", "fault"}

\* "the remainder of the previous segment ... starts at the address directly after the
\* malloced area": every block malloc has returned lies inside the heap and shares no
\* memory with another block or with the header of any segment.
BlocksApart ==
  LET End1(b) == b[1] + b[2]
  IN  \A i \in DOMAIN blocks :
        LET b == blocks[i]
        IN  /\ End1(b) <= End
            /\ \A j \in 1 .. i - 1 : End1(b) <= blocks[j][1] \/ End1(blocks[j]) <= b[1]
            /\ \A s \in DOMAIN hdr : s + Header <= b[1] \/ End1(b) <= s

\* Blocks stay apart, whatever the heap has grown through, as long as no malloc goes on
\* after another one with what its search found before.
BlocksDisjoint == ~raced => BlocksApart

\* The segments a search can reach.
Reach ==
  [r \in SUBSET DOMAIN hdr |-> r \cup ({hdr[a].nextFreeSegment : a \in r} \ {0})]
Reached == Iterate(Reach, {firstFreeSegment}, From(firstFreeSegment))

\* Unless calls have raced, the segments a search can reach are the free ones, all of
\* them; and none of them believes it is longer than the memory up to the next header
\* or the end.
FreeListExact ==
  ~raced =>
    /\ Reached = {a \in DOMAIN hdr : hdr[a].free}
    /\ \A a \in Reached, b \in DOMAIN hdr \cup {End} :
          a < b => a + Header + hdr[a].MemoryLength <= b

\* "fix 0x1004 pagefault": malloc never touches memory outside the heap's pages.
NoFault == halt = "no"
===============================================================================
