------------------------------- MODULE HeapProofs -------------------------------
(***************************************************************************)
(* Proofs about Heap, for every size of a page, of a header and of the     *)
(* heap.  Types hold for every program.  The rest is about programs that   *)
(* ask for one size: what free segments there are is then either the one   *)
(* at the end of the first page, or too small for ever.                    *)
(***************************************************************************)
EXTENDS Heap, Induction, FiniteSetTheorems, TLAPS

Segment(D) ==
  [MemoryLength : Int, nextSegment : D, previousSegment : D, nextFreeSegment : D,
   previousFreeSegment : D, free : BOOLEAN]

\* The headers are headers, and a search that is under way has a size.
HdrOK ==
  /\ hdr \in [DOMAIN hdr -> Segment(DOMAIN hdr)]
  /\ 0 \in DOMAIN hdr /\ DOMAIN hdr \subseteq 0 .. End - Header
  /\ pending = NoMalloc \/ pending \in [c : DOMAIN hdr, size : sizes, late : BOOLEAN]

TypeInv ==
  /\ HdrOK
  /\ sizes \in Requests /\ pages \in 1 .. MaxPages /\ firstFreeSegment \in DOMAIN hdr
  /\ raced \in BOOLEAN /\ halt \in {"no", "fault"}

Free == {a \in DOMAIN hdr : hdr[a].free}
Ends(b) == b[1] + b[2]

\* a is the last segment and the only free one, and reaches to the end of the first
\* page, which is all there is; the blocks are before it.
Roomy(a) ==
  /\ pages = 1 /\ a = firstFreeSegment /\ Free = {a}
  /\ \A b \in DOMAIN hdr : b <= a
  /\ a + Header + hdr[a].MemoryLength = End
  /\ \A i \in DOMAIN blocks : Ends(blocks[i]) <= a

\* A free segment is too small, or it is the rest of the first page.
Lengths ==
  \A a \in Free :
    /\ hdr[a].MemoryLength \in 0 .. PGSIZE
    /\ (\E s \in sizes : hdr[a].MemoryLength < s) \/ Roomy(a)

\* The list of free segments has all of them, in order.
Ordered ==
  /\ firstFreeSegment \in Free /\ \A a \in Free : firstFreeSegment <= a
  /\ \A a \in Free :
       LET n == hdr[a].nextFreeSegment
       IN  IF n = 0 THEN \A b \in Free : b <= a
           ELSE n \in Free /\ a < n /\ \A b \in Free : b <= a \/ n <= b

\* Blocks lie one after the other, and no header in them.
Apart ==
  /\ blocks \in Seq(Nat \X Nat)
  /\ \A i \in DOMAIN blocks :
       /\ Ends(blocks[i]) <= End
       /\ \A j \in 1 .. i - 1 : Ends(blocks[j]) <= blocks[i][1]
       /\ \A a \in DOMAIN hdr : a + Header <= blocks[i][1] \/ Ends(blocks[i]) <= a

\* What a search has found is still there, unless another malloc came.
Fresh == pending # NoMalloc /\ ~pending.late => pending.c = Search(pending.size)

\* A free segment ends before the next segment.
Fits ==
  \A a \in Free, b \in DOMAIN hdr \cup {End} :
     a < b => a + Header + hdr[a].MemoryLength <= b

\* What holds of the memory.
Sound == Lengths /\ Ordered /\ Apart

HeapInv == TypeInv /\ (~raced => Sound /\ Fresh /\ (Small => Fits))
-------------------------------------------------------------------------------
(* Loops. *)

\* The states of a loop.
Loops(F, g, x, n) == F[0] = x /\ \A i \in 1 .. n : F[i] = g[F[i - 1]]

LEMMA LoopIs ==
  ASSUME NEW n \in Nat, NEW X, NEW x \in X, NEW g, \A y \in X : g[y] \in X
  PROVE  \E F \in [0 .. n -> X] :
            Iterate(g, x, n) = F[n] /\ Loops(F, g, x, n)
<1> DEFINE body(F) == [k \in 0 .. n |-> IF k = 0 THEN x ELSE g[F[k - 1]]]
<1> DEFINE N == CHOOSE F : F = body(F)
<1>1. \E F : F = body(F)
  <2> DEFINE h == [p \in (1 .. n) \X X |-> g[p[2]]]
  <2>1. h \in [(1 .. n) \X X -> X]
    OBVIOUS
  <2>2. \A i \in 1 .. n, a \in X : h[<<i, a>>] = g[a]
    OBVIOUS
  <2> HIDE DEF h
  <2>3. PICK F \in [0 .. n -> X] : Recurs(F, n, x, h)
    BY <2>1, Recursion
  <2>4. F[0] = x
    BY <2>3 DEF Recurs
  <2>5. ASSUME NEW k \in 1 .. n PROVE F[k] = g[F[k - 1]]
    <3>1. k - 1 \in 0 .. n
      OBVIOUS
    <3>2. F[k - 1] \in X
      BY <3>1
    <3> QED
      BY <2>2, <2>3, <3>2 DEF Recurs
  <2>6. F = body(F)
    BY <2>4, <2>5
  <2> QED
    BY <2>6
<1>2. N = body(N)
  BY <1>1
<1>3. Iterate(g, x, n) = N[n]
  BY DEF Iterate
<1> HIDE DEF N
<1>4. N[0] = x /\ \A i \in 1 .. n : N[i] = g[N[i - 1]]
  BY <1>2
<1>5. \A i \in 0 .. n : N[i] \in X
  <2> DEFINE P == {i \in 0 .. n : N[i] \in X}
  <2>1. 0 \in P
    BY <1>4
  <2>2. ASSUME NEW i \in 1 .. n, i - 1 \in P PROVE i \in P
    BY <1>4, <2>2
  <2> HIDE DEF P
  <2>3. \A i \in 0 .. n : i \in P
    BY <2>1, <2>2, UpTo
  <2> QED
    BY <2>3 DEF P
<1>6. N \in [0 .. n -> X]
  <2>1. N = [k \in 0 .. n |-> N[k]]
    <3>1. PICK M : M = body(N)
      OBVIOUS
    <3>2. M = [k \in 0 .. n |-> M[k]]
      BY <3>1
    <3> QED
      BY <1>2, <3>1, <3>2, Zenon
  <2> QED
    BY <1>5, <2>1
<1>7. Loops(N, g, x, n)
  BY <1>4 DEF Loops
<1> QED
  BY <1>3, <1>6, <1>7

\* A loop of n steps that gets higher with each until it stays, and not above n, stays.
LEMMA Settles ==
  ASSUME NEW n \in Nat, NEW X, NEW x \in X, NEW g, NEW mu \in [X -> 0 .. n],
         \A y \in X : g[y] \in X /\ (g[y] = y \/ mu[y] < mu[g[y]])
  PROVE  Iterate(g, x, n) \in X /\ g[Iterate(g, x, n)] = Iterate(g, x, n)
<1>0. PICK F \in [0 .. n -> X] : Iterate(g, x, n) = F[n] /\ Loops(F, g, x, n)
  BY LoopIs
<1>1. /\ Iterate(g, x, n) = F[n] /\ F[0] = x
      /\ \A i \in 1 .. n : F[i] = g[F[i - 1]]
  BY <1>0 DEF Loops
<1>2. \A i \in 0 .. n : g[F[i]] = F[i] \/ mu[F[i]] >= i
  <2> DEFINE P == {i \in 0 .. n : g[F[i]] = F[i] \/ mu[F[i]] >= i}
  <2>1. 0 \in P
    <3>1. F[0] \in X
      BY <1>1
    <3> QED
      BY <3>1
  <2>2. ASSUME NEW i \in 1 .. n, i - 1 \in P PROVE i \in P
    <3>1. i - 1 \in 0 .. n /\ i \in 0 .. n /\ i - 1 \in Int
      OBVIOUS
    <3>2. F[i - 1] \in X /\ F[i] \in X /\ F[i] = g[F[i - 1]]
      BY <1>1, <3>1
    <3>3. mu[F[i - 1]] \in Nat /\ mu[F[i]] \in Nat
      BY <3>2
    <3>4. CASE g[F[i - 1]] = F[i - 1]
      BY <3>1, <3>2, <3>4
    <3>5. CASE mu[F[i - 1]] >= i - 1 /\ mu[F[i - 1]] < mu[F[i]]
      <4>1. mu[F[i]] >= i
        BY <3>3, <3>5
      <4> QED
        BY <3>1, <4>1
    <3> QED
      BY <2>2, <3>2, <3>4, <3>5
  <2> HIDE DEF P
  <2>3. \A i \in 0 .. n : i \in P
    BY <2>1, <2>2, UpTo
  <2> QED
    BY <2>3 DEF P
<1>3. F[n] \in X /\ g[F[n]] \in X
  BY <1>1
<1>4. g[F[n]] = F[n]
  <2>1. ~ (mu[F[n]] >= n /\ mu[F[n]] < mu[g[F[n]]])
    <3>1. mu[F[n]] \in 0 .. n /\ mu[g[F[n]]] \in 0 .. n
      BY <1>3
    <3> QED
      BY <3>1
  <2> QED
    BY <1>2, <1>3, <2>1
<1> QED
  BY <1>1, <1>3, <1>4
-------------------------------------------------------------------------------
(* Segments. *)

Links == {"nextSegment", "previousSegment", "nextFreeSegment", "previousFreeSegment"}

\* A header stays one with more segments around it, and with another link.
LEMMA SegmentMore ==
  ASSUME NEW D, NEW E, D \subseteq E, NEW v \in Segment(D) PROVE v \in Segment(E)
BY DEF Segment

Relinked(D, v, f, w) ==
  /\ w \in Segment(D) /\ w.free = v.free /\ w.MemoryLength = v.MemoryLength
  /\ \A x \in Links : x # f => w[x] = v[x]

LEMMA SegmentLink ==
  ASSUME NEW D, NEW v \in Segment(D), NEW f \in Links, NEW a \in D
  PROVE  Relinked(D, v, f, [v EXCEPT ![f] = a])
BY DEF Segment, Links, Relinked

\* g is h with another link f at p at most.
Pointed(E, h, p, f, g) ==
  /\ g \in [E -> Segment(E)]
  /\ \A x \in E : g[x].free = h[x].free /\ g[x].MemoryLength = h[x].MemoryLength
  /\ \A x \in E : x # p => g[x] = h[x]
  /\ \A x \in E, y \in Links : y # f => g[x][y] = h[x][y]

\* A pointer that is set, or is not since there is nobody to set it in.
LEMMA PointIs ==
  ASSUME NEW E, NEW h \in [E -> Segment(E)], NEW p \in E, NEW f \in Links, NEW v \in E
  PROVE  Pointed(E, h, p, f, Point(h, p, f, v))
<1>0. PICK g : g = Point(h, p, f, v)
  OBVIOUS
<1>1. CASE p = 0
  <2>1. g = h
    BY <1>0, <1>1 DEF Point
  <2> QED
    BY <1>0, <2>1 DEF Pointed
<1>2. CASE p # 0
  <2>1. PICK w : w = [h[p] EXCEPT ![f] = v]
    OBVIOUS
  <2>2. /\ w \in Segment(E) /\ w.free = h[p].free /\ w.MemoryLength = h[p].MemoryLength
        /\ \A x \in Links : x # f => w[x] = h[p][x]
    <3>1. PICK u \in Segment(E) : u = h[p]
      OBVIOUS
    <3>2. w = [u EXCEPT ![f] = v]
      BY <2>1, <3>1
    <3>3. Relinked(E, u, f, [u EXCEPT ![f] = v])
      BY SegmentLink
    <3> QED
      BY <3>1, <3>2, <3>3, Zenon DEF Relinked
  <2>3. g = [h EXCEPT ![p] = w]
    BY <1>0, <1>2, <2>1 DEF Point
  <2>4. g \in [E -> Segment(E)] /\ g[p] = w /\ \A x \in E : x # p => g[x] = h[x]
    <3>1. PICK S : S = Segment(E)
      OBVIOUS
    <3>2. h \in [E -> S] /\ w \in S
      BY <2>2, <3>1
    <3>3. g \in [E -> S] /\ g[p] = w /\ \A x \in E : x # p => g[x] = h[x]
      BY <2>3, <3>2, Store
    <3> QED
      BY <3>1, <3>3
  <2>5. ASSUME NEW x \in E
        PROVE  /\ g[x].free = h[x].free /\ g[x].MemoryLength = h[x].MemoryLength
               /\ \A y \in Links : y # f => g[x][y] = h[x][y]
    <3>1. CASE x = p
      BY <2>2, <2>4, <3>1
    <3>2. CASE x # p
      BY <2>4, <3>2
    <3> QED
      BY <3>1, <3>2
  <2> QED
    BY <1>0, <2>4, <2>5, Zenon DEF Pointed
<1> QED
  BY <1>1, <1>2

\* g is h with v at n.
HasWritten(D, S, h, n, v, g) ==
  g \in [D \cup {n} -> S] /\ g[n] = v /\ \A x \in D : x # n => g[x] = h[x]

\* A header that is written.
LEMMA WrittenIs ==
  ASSUME NEW D, NEW S, NEW h \in [D -> S], NEW n, NEW v \in S
  PROVE  HasWritten(D, S, h, n, v, Written(h, n, v))
<1>1. Written(h, n, v) = [x \in D \cup {n} |-> IF x = n THEN v ELSE h[x]]
  BY DEF Written
<1> QED
  BY <1>1 DEF HasWritten

\* What split leaves: the block, the rest, and other segments with other links.
SplitLeaves(D, c, n, size, E, h) ==
  /\ h \in [E -> Segment(E)]
  /\ h[n].free = TRUE /\ h[c].free = FALSE
  /\ h[n].MemoryLength = hdr[c].MemoryLength - (Header + size)
  /\ h[c].MemoryLength = size
  /\ \A x \in D : x # c /\ x # n => h[x].free = hdr[x].free
  /\ n \notin D => h[n].nextFreeSegment = hdr[c].nextFreeSegment

LEMMA SplitIs ==
  ASSUME NEW D, hdr \in [D -> Segment(D)], 0 \in D, NEW c \in D, NEW n, n # c,
         NEW size \in Int, NEW E, E = D \cup {n}, Header \in Int
  PROVE  SplitLeaves(D, c, n, size, E, SplitSegments(c, n, size))
<1> PICK h : h = SplitSegments(c, n, size)
  OBVIOUS
<1> DEFINE rest == [MemoryLength |-> hdr[c].MemoryLength - (Header + size),
                    nextSegment |-> hdr[c].nextSegment, previousSegment |-> c,
                    nextFreeSegment |-> hdr[c].nextFreeSegment,
                    previousFreeSegment |-> hdr[c].previousFreeSegment, free |-> TRUE]
           h0 == Written(hdr, n, rest)
           h1 == [h0 EXCEPT ![c] = [@ EXCEPT !.nextFreeSegment = n, !.nextSegment = n,
                                             !.MemoryLength = size, !.free = FALSE]]
           h2 == Point(h1, h1[c].previousFreeSegment, "nextFreeSegment", n)
           h3 == Point(h2, n, "previousFreeSegment", h2[c].previousFreeSegment)
           h4 == Point(h3, h3[c].previousSegment, "nextFreeSegment", n)
<1>0. h = h4
  BY DEF SplitSegments
<1>1. D \subseteq E /\ n \in E /\ c \in E /\ hdr \in [D -> Segment(E)]
  BY SegmentMore
<1>2. hdr[c] \in Segment(D) /\ hdr[c] \in Segment(E)
  BY <1>1
<1>3. rest \in Segment(E)
  BY <1>1, <1>2 DEF Segment
<1>4. /\ h0 \in [E -> Segment(E)] /\ h0[n] = rest
      /\ \A x \in D : x # n => h0[x] = hdr[x]
  <2>1. HasWritten(D, Segment(E), hdr, n, rest, h0)
    <3> HIDE DEF rest
    <3> QED
      BY <1>1, <1>3, WrittenIs
  <2> QED
    BY <2>1, Zenon DEF HasWritten
<1>5. rest.free = TRUE /\ rest.MemoryLength = hdr[c].MemoryLength - (Header + size)
      /\ rest.nextFreeSegment = hdr[c].nextFreeSegment
  OBVIOUS
<1> HIDE DEF h0, rest
<1>6. /\ h1 \in [E -> Segment(E)] /\ h1[n] = rest
      /\ h1[c].free = FALSE /\ h1[c].MemoryLength = size
      /\ h1[c].previousFreeSegment = hdr[c].previousFreeSegment
      /\ \A x \in D : x # n /\ x # c => h1[x] = hdr[x]
  <2>1. PICK w : w = [h0[c] EXCEPT !.nextFreeSegment = n, !.nextSegment = n,
                                   !.MemoryLength = size, !.free = FALSE]
    OBVIOUS
  <2>2. h0[c] = hdr[c] /\ h0[c] \in Segment(E)
    BY <1>1, <1>4
  <2>3. /\ w \in Segment(E) /\ w.free = FALSE /\ w.MemoryLength = size
        /\ w.previousFreeSegment = hdr[c].previousFreeSegment
    BY <1>1, <2>1, <2>2 DEF Segment
  <2>4. h1 = [h0 EXCEPT ![c] = w]
    BY <2>1
  <2> HIDE DEF h1
  <2> QED
    BY <1>1, <1>4, <2>3, <2>4
<1> HIDE DEF h1
<1>7. h1[c] \in Segment(E) /\ h1[c].previousFreeSegment \in E /\ h1[c].previousFreeSegment \in D
  BY <1>1, <1>2, <1>6 DEF Segment
<1>8. "nextFreeSegment" \in Links /\ "previousFreeSegment" \in Links
  BY DEF Links
<1>9. Pointed(E, h1, h1[c].previousFreeSegment, "nextFreeSegment", h2)
  BY <1>1, <1>6, <1>7, <1>8, PointIs
<1> HIDE DEF h2
<1>10. h2 \in [E -> Segment(E)]
  BY <1>9 DEF Pointed
<1>11. h2[c].previousFreeSegment \in E
  BY <1>1, <1>10 DEF Segment
<1>12. Pointed(E, h2, n, "previousFreeSegment", h3)
  BY <1>1, <1>8, <1>10, <1>11, PointIs
<1> HIDE DEF h3
<1>13. h3 \in [E -> Segment(E)]
  BY <1>12 DEF Pointed
<1>14. h3[c].previousSegment \in E
  BY <1>1, <1>13 DEF Segment
<1>16. Pointed(E, h3, h3[c].previousSegment, "nextFreeSegment", h4)
  BY <1>1, <1>8, <1>13, <1>14, PointIs
<1> HIDE DEF h4
<1>17. \A x \in E : h4[x].free = h1[x].free /\ h4[x].MemoryLength = h1[x].MemoryLength
  BY <1>9, <1>12, <1>16 DEF Pointed
<1>15. n \notin D => h3[c].previousSegment # n
  <2>1. h1[c].previousSegment \in D
    <3>1. h1[c].previousSegment = hdr[c].previousSegment
      BY <1>1, <1>4 DEF h1, Segment
    <3> QED
      BY <1>2, <3>1 DEF Segment
  <2> QED
    <3>1. h2[c].previousSegment = h1[c].previousSegment
      BY <1>1, <1>9 DEF Pointed, Links
    <3>2. h3[c] = h2[c]
      BY <1>1, <1>12 DEF Pointed
    <3> QED
      BY <2>1, <3>1, <3>2
<1>18. n \notin D => h4[n].nextFreeSegment = hdr[c].nextFreeSegment
  <2> SUFFICES ASSUME n \notin D PROVE h4[n].nextFreeSegment = hdr[c].nextFreeSegment
    OBVIOUS
  <2>1. h2[n] = h1[n]
    BY <1>1, <1>7, <1>9 DEF Pointed
  <2>2. h3[n].nextFreeSegment = h2[n].nextFreeSegment
    BY <1>1, <1>12 DEF Pointed, Links
  <2>3. h4[n] = h3[n]
    BY <1>1, <1>15, <1>16 DEF Pointed
  <2> QED
    BY <1>5, <1>6, <2>1, <2>2, <2>3
<1>19. h4 \in [E -> Segment(E)]
  BY <1>16 DEF Pointed
<1>20. /\ h1[n].free = TRUE /\ h1[n].MemoryLength = hdr[c].MemoryLength - (Header + size)
       /\ \A x \in D : x # c /\ x # n => h1[x].free = hdr[x].free
  BY <1>5, <1>6
<1>21. /\ h4[n].free = TRUE /\ h4[c].free = FALSE
       /\ h4[n].MemoryLength = hdr[c].MemoryLength - (Header + size)
       /\ h4[c].MemoryLength = size
       /\ \A x \in D : x # c /\ x # n => h4[x].free = hdr[x].free
  BY <1>1, <1>6, <1>17, <1>20
<1> QED
  BY <1>0, <1>18, <1>19, <1>21 DEF SplitLeaves
-------------------------------------------------------------------------------
(* Pages. *)

LEMMA HeapSizes ==
  /\ PGSIZE \in Nat \ {0} /\ Header \in Nat \ {0} /\ Header <= PGSIZE
  /\ MaxPages \in Nat \ {0} /\ WordMod \in Nat /\ WordMod > PGSIZE
  /\ \A r \in Requests : \A s \in r : s \in Nat /\ 1 <= s /\ s < PGSIZE
<1>1. PGSIZE \in Nat /\ Header \in 1 .. PGSIZE /\ MaxPages \in Nat \ {0}
  BY HeapAssumption
<1>2. \A r \in Requests : \A s \in r : s \in Nat /\ 1 <= s /\ s < PGSIZE
  BY <1>1, HeapAssumption
<1>3. PGSIZE * MaxPages >= PGSIZE
  <2>1. PICK m \in Nat : MaxPages = m + 1
    BY <1>1
  <2>2. PGSIZE * (m + 1) = PGSIZE * m + PGSIZE /\ PGSIZE * m \in Nat
    BY <1>1
  <2> QED
    BY <1>1, <2>1, <2>2
<1> QED
  BY <1>1, <1>2, <1>3, HeapAssumption

\* The pages of a heap, one after the other.
LEMMA PagesAre ==
  ASSUME NEW p \in Nat \ {0}, NEW q \in Nat
  PROVE  /\ p * PGSIZE \in Nat /\ q * PGSIZE \in Nat /\ p * PGSIZE >= PGSIZE
         /\ (p + q) * PGSIZE = p * PGSIZE + q * PGSIZE
<1>1. PGSIZE \in Nat
  BY HeapSizes
<1>2. PICK m \in Nat : p = m + 1
  OBVIOUS
<1>3. (m + 1) * PGSIZE = m * PGSIZE + PGSIZE /\ m * PGSIZE \in Nat
  BY <1>1
<1>4. q * PGSIZE \in Nat /\ (p + q) * PGSIZE = p * PGSIZE + q * PGSIZE
  BY <1>1
<1> QED
  BY <1>1, <1>2, <1>3, <1>4

\* malloc takes at least a page, and enough for a block and its header.
LEMMA NumPagesIs ==
  ASSUME NEW s \in Nat, 1 <= s, s < PGSIZE
  PROVE  /\ s % PGSIZE = s /\ NumPages(s) \in Nat \ {0}
         /\ s + Header < NumPages(s) * PGSIZE
<1>1. PGSIZE \in Nat \ {0} /\ Header \in Nat
  BY HeapSizes
<1>2. s % PGSIZE = s
  BY <1>1
<1>3. PICK a \in Nat, b \in 0 .. PGSIZE - 1 :
        a = (s + Header) \div PGSIZE /\ s + Header = PGSIZE * a + b
  <2>1. s + Header \in Nat
    BY <1>1
  <2> QED
    BY <1>1, <2>1, Divided
<1>4. NumPages(s) = a + 1
  BY <1>2, <1>3 DEF NumPages
<1>5. (a + 1) * PGSIZE = PGSIZE * a + PGSIZE /\ PGSIZE * a \in Nat
  BY <1>1
<1>6. s + Header < (a + 1) * PGSIZE
  BY <1>1, <1>3, <1>5
<1> QED
  BY <1>2, <1>4, <1>6

\* A header fits into the pages there are.
LEMMA EndIs ==
  ASSUME TypeInv
  PROVE  /\ pages \in Nat \ {0} /\ End \in Nat /\ End >= PGSIZE /\ Header \in Nat
         /\ \A a \in DOMAIN hdr : a \in Nat /\ a + Header <= End
<1>1. pages \in Nat \ {0}
  BY HeapSizes DEF TypeInv
<1>2. End \in Nat /\ End >= PGSIZE
  BY <1>1, PagesAre DEF End
<1> QED
  BY <1>1, <1>2, HeapSizes DEF TypeInv, HdrOK

\* What a program asks for.
LEMMA SizeIs ==
  ASSUME TypeInv, NEW s \in sizes
  PROVE  s \in Nat /\ 1 <= s /\ s < PGSIZE
BY HeapSizes DEF TypeInv

LEMMA HdrFinite ==
  ASSUME TypeInv
  PROVE  IsFiniteSet(DOMAIN hdr) /\ \A a : From(a) \in Nat
<1>1. \A a \in DOMAIN hdr : a \in Nat /\ a <= End
  BY EndIs
<1>2. IsFiniteSet(DOMAIN hdr)
  BY <1>1, EndIs, FS_BoundedSetOfNaturals
<1>3. ASSUME NEW a PROVE From(a) \in Nat
  <2>1. {b \in DOMAIN hdr : a <= b} \in SUBSET DOMAIN hdr
    OBVIOUS
  <2>2. IsFiniteSet({b \in DOMAIN hdr : a <= b})
    BY <1>2, <2>1, FS_Subset
  <2> QED
    BY <2>2, FS_CardinalityType DEF From
<1> QED
  BY <1>2, <1>3

\* A walk along the list of segments ends at a segment, and so does a search.
LEMMA WalkIs ==
  ASSUME TypeInv, NEW c \in DOMAIN hdr, NEW s
  PROVE  LastFrom(c) \in DOMAIN hdr /\ Search(s) \in DOMAIN hdr
<1>1. PICK D : D = DOMAIN hdr
  OBVIOUS
<1>2. /\ hdr \in [D -> Segment(D)] /\ firstFreeSegment \in D /\ c \in D
      /\ From(c) \in Nat /\ From(firstFreeSegment) \in Nat
  BY <1>1, HdrFinite DEF TypeInv, HdrOK
<1>3. \A a \in D : hdr[a].nextSegment \in D /\ hdr[a].nextFreeSegment \in D
  BY <1>2 DEF Segment
<1>4. Following \in [D -> D]
  BY <1>1, <1>3 DEF Following
<1>5. Onward(s) \in [D -> D]
  BY <1>1, <1>3 DEF Onward
<1>6. \A g \in [D -> D], x \in D, n \in Nat : Iterate(g, x, n) \in D
  <2> TAKE g \in [D -> D], x \in D, n \in Nat
  <2>1. PICK F \in [0 .. n -> D] : Iterate(g, x, n) = F[n]
    BY LoopIs
  <2> QED
    BY <2>1
<1>7. LastFrom(c) \in D
  BY <1>2, <1>4, <1>6 DEF LastFrom
<1>8. Search(s) \in D
  BY <1>2, <1>5, <1>6 DEF Search
<1> QED
  BY <1>1, <1>7, <1>8

\* What growth leaves: the block's segment at the old end, and behind it, when the block
\* is longer than a header, a free one that follows c.
Grown(c, s, n, E) ==
  /\ hdr' \in [E -> Segment(E)] /\ hdr'[End].free = FALSE
  /\ n # 0 => /\ hdr'[n].free = TRUE /\ hdr'[n].nextFreeSegment = 0
              /\ hdr'[n].MemoryLength = s - Header
  /\ \A x \in DOMAIN hdr :
       /\ hdr'[x].free = hdr[x].free /\ hdr'[x].MemoryLength = hdr[x].MemoryLength
       /\ x # c => hdr'[x].nextFreeSegment = hdr[x].nextFreeSegment
  /\ hdr'[c].nextFreeSegment = n

Behind(s) == IF s > Header THEN End + Header + s ELSE 0

LEMMA GrowIs ==
  ASSUME TypeInv, NEW c \in DOMAIN hdr, NEW s \in sizes, Grow(c, s),
         NEW n, n = Behind(s),
         NEW E, E = DOMAIN hdr \cup {End} \cup (IF n = 0 THEN {} ELSE {n})
  PROVE  /\ n \in Nat /\ pages' \in 2 .. MaxPages /\ End' \in Nat /\ End + Header + s < End'
         /\ UNCHANGED <<sizes, firstFreeSegment>>
         /\ \/ halt' = "fault" /\ UNCHANGED <<hdr, blocks>>
            \/ /\ halt' = halt /\ blocks' = Append(blocks, <<End + Header, s>>)
               /\ n + Header <= End' /\ Grown(c, s, n, E)
<1>1. /\ s \in Nat /\ 1 <= s /\ s < PGSIZE /\ s % PGSIZE = s
      /\ NumPages(s) \in Nat \ {0} /\ s + Header < NumPages(s) * PGSIZE
  BY SizeIs, NumPagesIs
<1>2. /\ pages \in Nat \ {0} /\ End \in Nat /\ End >= PGSIZE /\ Header \in Nat
      /\ \A a \in DOMAIN hdr : a \in Nat /\ a + Header <= End
      /\ Header <= PGSIZE /\ Header # 0 /\ PGSIZE \in Nat
  BY EndIs, HeapSizes
<1>3. n = (IF s % PGSIZE > Header THEN End + Header + s ELSE 0) /\ n \in Nat
  BY <1>1, <1>2 DEF Behind
<1>4. pages' = pages + NumPages(s) /\ pages' <= MaxPages /\ UNCHANGED <<sizes, firstFreeSegment>>
  BY DEF Grow
<1>5. pages' \in 2 .. MaxPages /\ End' \in Nat /\ End + Header + s < End'
  <2>1. End' = End + NumPages(s) * PGSIZE /\ NumPages(s) * PGSIZE \in Nat
    BY <1>1, <1>2, <1>4, PagesAre DEF End
  <2>2. pages' \in 2 .. MaxPages
    BY <1>1, <1>2, <1>4, HeapSizes
  <2> QED
    BY <1>1, <1>2, <2>1, <2>2
<1> DEFINE lastFree == IF hdr[c].free THEN c ELSE hdr[c].previousFreeSegment
           first == [MemoryLength |-> 0, nextSegment |-> n, nextFreeSegment |-> n,
                     previousSegment |-> IF n = 0 THEN c ELSE LastFrom(c),
                     previousFreeSegment |-> IF n = 0 THEN lastFree ELSE c,
                     free |-> FALSE]
           second == [MemoryLength |-> (s % PGSIZE) - Header, nextSegment |-> 0,
                      nextFreeSegment |-> 0, previousSegment |-> End,
                      previousFreeSegment |-> lastFree, free |-> TRUE]
           grown == [hdr EXCEPT ![c].nextSegment = IF n = 0 THEN 0 ELSE End,
                                ![c].nextFreeSegment = AfterGrowth(n)]
           h1 == IF n = 0 THEN grown ELSE Written(grown, n, second)
           h2 == Written(h1, End, first)
<1>6. \/ halt' = "fault" /\ UNCHANGED <<hdr, blocks>>
      \/ /\ ~ (n + Header > End') /\ halt' = halt /\ hdr' = h2
         /\ blocks' = Append(blocks, <<End + Header, s>>)
  BY <1>3 DEF Grow, End
<1> HIDE DEF h1, h2, first, second, grown
<1>7. PICK D : D = DOMAIN hdr
  OBVIOUS
<1>8. hdr \in [D -> Segment(D)] /\ 0 \in D /\ c \in D /\ LastFrom(c) \in D
  BY <1>7, WalkIs DEF TypeInv, HdrOK
<1>9. hdr \in [D -> Segment(E)] /\ D \subseteq E /\ End \in E /\ n \in E /\ 0 \in E
  <2>1. D \subseteq E /\ End \in E /\ n \in E /\ 0 \in E
    BY <1>7, <1>8
  <2>2. \A x \in D : hdr[x] \in Segment(E)
    BY <1>8, <2>1, SegmentMore
  <2> QED
    BY <1>8, <2>1, <2>2
<1>10. hdr[c] \in Segment(E) /\ lastFree \in E
  BY <1>8, <1>9 DEF Segment
<1>11. first \in Segment(E) /\ first.free = FALSE
  BY <1>8, <1>9, <1>10 DEF first, Segment
<1>12. /\ second \in Segment(E) /\ second.free = TRUE /\ second.nextFreeSegment = 0
       /\ second.MemoryLength = s - Header
  BY <1>1, <1>2, <1>9, <1>10 DEF second, Segment
<1>13. /\ grown \in [D -> Segment(E)]
       /\ \A x \in D :
            /\ grown[x].free = hdr[x].free /\ grown[x].MemoryLength = hdr[x].MemoryLength
            /\ x # c => grown[x].nextFreeSegment = hdr[x].nextFreeSegment
       /\ grown[c].nextFreeSegment = n
  <2>1. PICK v : v = [[hdr[c] EXCEPT !.nextSegment = IF n = 0 THEN 0 ELSE End]
                        EXCEPT !.nextFreeSegment = n]
    OBVIOUS
  <2>2. /\ v \in Segment(E) /\ v.free = hdr[c].free /\ v.nextFreeSegment = n
        /\ v.MemoryLength = hdr[c].MemoryLength
    <3>1. PICK w \in E : w = IF n = 0 THEN 0 ELSE End
      BY <1>9
    <3>2. PICK u \in Segment(E) : u = hdr[c]
      BY <1>10
    <3>3. PICK x : x = [u EXCEPT !["nextSegment"] = w]
      OBVIOUS
    <3>4. v = [x EXCEPT !["nextFreeSegment"] = n]
      BY <2>1, <3>1, <3>2, <3>3
    <3>5. "nextSegment" \in Links /\ "nextFreeSegment" \in Links
      BY DEF Links
    <3>6. Relinked(E, u, "nextSegment", x)
      BY <3>3, <3>5, SegmentLink
    <3>7. x \in Segment(E)
      BY <3>6 DEF Relinked
    <3>8. Relinked(E, x, "nextFreeSegment", v)
      BY <1>9, <3>4, <3>5, <3>7, SegmentLink
    <3>9. v.nextFreeSegment = n
      BY <3>4, <3>7 DEF Segment
    <3> QED
      BY <3>2, <3>6, <3>8, <3>9 DEF Relinked
  <2>3. grown = [hdr EXCEPT ![c] = v]
    BY <1>8, <2>1 DEF grown, AfterGrowth
  <2>4. grown \in [D -> Segment(E)] /\ grown[c] = v /\ \A x \in D : x # c => grown[x] = hdr[x]
    <3>1. PICK S : S = Segment(E)
      OBVIOUS
    <3>2. grown \in [D -> S] /\ grown[c] = v /\ \A x \in D : x # c => grown[x] = hdr[x]
      BY <1>8, <1>9, <2>2, <2>3, <3>1, Store
    <3> QED
      BY <3>1, <3>2
  <2> QED
    BY <1>8, <2>2, <2>4
<1>14. End \notin D /\ End # n /\ (n \in D => n = 0)
  BY <1>1, <1>2, <1>3, <1>7
<1>15. PICK D1 : D1 = D \cup (IF n = 0 THEN {} ELSE {n})
  OBVIOUS
<1>16. /\ h1 \in [D1 -> Segment(E)] /\ (n # 0 => h1[n] = second)
       /\ \A x \in D : h1[x] = grown[x]
  <2>1. CASE n = 0
    BY <1>13, <1>15, <2>1 DEF h1
  <2>2. CASE n # 0
    <3>1. HasWritten(D, Segment(E), grown, n, second, Written(grown, n, second))
      BY <1>12, <1>13, WrittenIs
    <3>2. h1 = Written(grown, n, second) /\ D1 = D \cup {n}
      BY <1>15, <2>2 DEF h1
    <3> QED
      BY <1>14, <2>2, <3>1, <3>2 DEF HasWritten
  <2> QED
    BY <2>1, <2>2
<1>17. /\ h2 \in [E -> Segment(E)] /\ h2[End] = first /\ (n # 0 => h2[n] = second)
       /\ \A x \in D : h2[x] = grown[x]
  <2>1. HasWritten(D1, Segment(E), h1, End, first, h2)
    BY <1>11, <1>16, WrittenIs DEF h2
  <2>2. E = D1 \cup {End}
    BY <1>7, <1>15
  <2> QED
    BY <1>14, <1>15, <1>16, <2>1, <2>2 DEF HasWritten
<1>18. ASSUME hdr' = h2 PROVE Grown(c, s, n, E)
  <2>1. /\ hdr' \in [E -> Segment(E)] /\ hdr'[End].free = FALSE
        /\ (n # 0 => hdr'[n] = second) /\ \A x \in D : hdr'[x] = grown[x]
    BY <1>11, <1>17, <1>18
  <2>2. n # 0 => /\ hdr'[n].free = TRUE /\ hdr'[n].nextFreeSegment = 0
                 /\ hdr'[n].MemoryLength = s - Header
    BY <1>12, <2>1
  <2>3. \A x \in DOMAIN hdr :
          /\ hdr'[x].free = hdr[x].free /\ hdr'[x].MemoryLength = hdr[x].MemoryLength
          /\ x # c => hdr'[x].nextFreeSegment = hdr[x].nextFreeSegment
    BY <1>7, <1>13, <2>1
  <2>4. hdr'[c].nextFreeSegment = n
    BY <1>8, <1>13, <2>1
  <2> HIDE DEF lastFree
  <2> QED
    BY <2>1, <2>2, <2>3, <2>4, Zenon DEF Grown
<1>19. ~ (n + Header > End') => n + Header <= End'
  BY <1>2, <1>3, <1>5
<1>20. \/ halt' = "fault" /\ UNCHANGED <<hdr, blocks>>
       \/ /\ halt' = halt /\ blocks' = Append(blocks, <<End + Header, s>>)
          /\ n + Header <= End' /\ Grown(c, s, n, E)
  BY <1>6, <1>18, <1>19
<1> QED
  BY <1>3, <1>4, <1>5, <1>20
-------------------------------------------------------------------------------
(* Types, for every program. *)

\* What malloc leaves of the segments, whatever else it does.
HeapTyped ==
  /\ hdr' \in [DOMAIN hdr' -> Segment(DOMAIN hdr')]
  /\ DOMAIN hdr \subseteq DOMAIN hdr' /\ DOMAIN hdr' \subseteq 0 .. End' - Header
  /\ sizes' = sizes /\ pages' \in 1 .. MaxPages /\ firstFreeSegment' \in DOMAIN hdr'
  /\ halt' \in {"no", "fault"}

LEMMA SplitTyped ==
  ASSUME TypeInv, NEW c \in DOMAIN hdr, NEW s \in sizes, Split(c, s) PROVE HeapTyped
<1>1. PICK D : D = DOMAIN hdr
  OBVIOUS
<1>2. PICK n : n = Rest(c, s)
  OBVIOUS
<1>3. /\ s \in Nat /\ 1 <= s /\ End \in Nat /\ Header \in Nat /\ Header # 0 /\ c \in Nat
      /\ \A a \in D : a \in Nat /\ a + Header <= End
  BY <1>1, SizeIs, EndIs, HeapSizes
<1>4. n \in Nat /\ n # c
  BY <1>2, <1>3 DEF Rest
<1>5. CASE Fault
  BY <1>5 DEF Fault, HeapTyped, TypeInv, HdrOK, End
<1>6. CASE /\ n + Header <= End /\ hdr' = SplitSegments(c, n, s)
           /\ firstFreeSegment' = IF c = firstFreeSegment THEN n ELSE firstFreeSegment
           /\ UNCHANGED <<sizes, pages, halt>>
  <2>1. PICK E : E = D \cup {n}
    OBVIOUS
  <2>2. hdr \in [D -> Segment(D)] /\ 0 \in D /\ c \in D /\ firstFreeSegment \in D
    BY <1>1 DEF TypeInv, HdrOK
  <2>3. hdr' \in [E -> Segment(E)]
    <3>1. s \in Int /\ Header \in Int
      BY <1>3
    <3>2. SplitLeaves(D, c, n, s, E, SplitSegments(c, n, s))
      BY <1>4, <2>1, <2>2, <3>1, SplitIs
    <3> QED
      BY <1>6, <3>2 DEF SplitLeaves
  <2>4. DOMAIN hdr' = E /\ firstFreeSegment' \in E
    BY <1>6, <2>1, <2>2, <2>3
  <2>5. End' = End
    BY <1>6 DEF End
  <2>6. E \subseteq 0 .. End - Header
    BY <1>3, <1>4, <1>6, <2>1
  <2>7. pages' \in 1 .. MaxPages /\ halt' \in {"no", "fault"} /\ sizes' = sizes
    BY <1>6 DEF TypeInv
  <2> QED
    BY <1>1, <2>1, <2>3, <2>4, <2>5, <2>6, <2>7 DEF HeapTyped
<1> QED
  <2>1. IF n + Header > End THEN Fault
        ELSE /\ hdr' = SplitSegments(c, n, s)
             /\ firstFreeSegment' = IF c = firstFreeSegment THEN n ELSE firstFreeSegment
             /\ UNCHANGED <<sizes, pages, halt>>
    BY <1>2 DEF Split
  <2> QED
    BY <1>3, <1>4, <1>5, <1>6, <2>1

LEMMA GrowTyped ==
  ASSUME TypeInv, NEW c \in DOMAIN hdr, NEW s \in sizes, Grow(c, s) PROVE HeapTyped
<1>1. PICK D : D = DOMAIN hdr
  OBVIOUS
<1>2. PICK n : n = Behind(s)
  OBVIOUS
<1>3. PICK E : E = DOMAIN hdr \cup {End} \cup (IF n = 0 THEN {} ELSE {n})
  OBVIOUS
<1>4. /\ n \in Nat /\ pages' \in 2 .. MaxPages /\ End' \in Nat /\ End + Header + s < End'
      /\ UNCHANGED <<sizes, firstFreeSegment>>
      /\ \/ halt' = "fault" /\ UNCHANGED <<hdr, blocks>>
         \/ /\ halt' = halt /\ blocks' = Append(blocks, <<End + Header, s>>)
            /\ n + Header <= End' /\ Grown(c, s, n, E)
  BY <1>2, <1>3, GrowIs
<1>5. /\ s \in Nat /\ End \in Nat /\ Header \in Nat
      /\ \A a \in D : a \in Nat /\ a + Header <= End
      /\ hdr \in [D -> Segment(D)] /\ firstFreeSegment \in D /\ halt \in {"no", "fault"}
  BY <1>1, SizeIs, EndIs DEF TypeInv, HdrOK
<1>6. pages' \in 1 .. MaxPages /\ halt' \in {"no", "fault"}
  <2>1. pages' \in 2 .. MaxPages /\ MaxPages \in Nat
    BY <1>4, HeapSizes
  <2>2. pages' \in 1 .. MaxPages
    BY <2>1
  <2>3. halt' = "fault" \/ halt' = halt
    BY <1>4
  <2> QED
    BY <1>5, <2>2, <2>3
<1>7. CASE UNCHANGED hdr
  <2>1. D \subseteq 0 .. End' - Header
    BY <1>4, <1>5
  <2> QED
    BY <1>1, <1>4, <1>5, <1>6, <1>7, <2>1 DEF HeapTyped
<1>8. CASE n + Header <= End' /\ Grown(c, s, n, E)
  <2>1. hdr' \in [E -> Segment(E)]
    BY <1>8 DEF Grown
  <2>2. DOMAIN hdr' = E /\ D \subseteq E
    BY <1>1, <1>3, <2>1
  <2>3. E \subseteq 0 .. End' - Header
    <3>1. PICK e \in Nat : e = End'
      BY <1>4
    <3>2. End + Header <= e /\ n + Header <= e /\ n \in Nat
      <4>1. End + Header + s < e /\ n + Header <= e /\ n \in Nat
        BY <1>4, <1>8, <3>1
      <4> QED
        BY <1>5, <4>1
    <3>3. \A a \in E : a \in Nat /\ a + Header <= e
      <4>1. \A a \in D : a \in Nat /\ a + Header <= e
        BY <1>5, <3>2
      <4> QED
        BY <1>1, <1>3, <1>5, <3>2, <4>1
    <3>4. \A a \in E : a \in 0 .. e - Header
      BY <1>5, <3>3
    <3> QED
      BY <3>1, <3>4
  <2> QED
    BY <1>1, <1>4, <1>5, <1>6, <2>1, <2>2, <2>3 DEF HeapTyped
<1> QED
  BY <1>4, <1>7, <1>8

LEMMA AllocateTyped ==
  ASSUME TypeInv, NEW c \in DOMAIN hdr, NEW s \in sizes, Allocate(c, s) PROVE HeapTyped
<1>1. CASE OutOfPages(c, s)
  <2>1. halt' = "fault" /\ UNCHANGED <<sizes, pages, hdr, firstFreeSegment>>
    BY <1>1 DEF OutOfPages, Fault
  <2>2. PICK D : D = DOMAIN hdr
    OBVIOUS
  <2>3. /\ hdr \in [D -> Segment(D)] /\ D \subseteq 0 .. End - Header /\ firstFreeSegment \in D
        /\ pages \in 1 .. MaxPages
    BY <2>2 DEF TypeInv, HdrOK
  <2>4. DOMAIN hdr' = D /\ End' = End
    BY <2>1, <2>2 DEF End
  <2> QED
    BY <2>1, <2>2, <2>3, <2>4 DEF HeapTyped
<1> QED
  BY <1>1, SplitTyped, GrowTyped DEF Allocate

LEMMA TypeStep ==
  ASSUME TypeInv, [Next]_vars PROVE TypeInv'
<1>0. 0 \in DOMAIN hdr /\ firstFreeSegment \in DOMAIN hdr /\ raced \in BOOLEAN
  BY DEF TypeInv, HdrOK
<1>1. pending = NoMalloc \/ pending \in [c : DOMAIN hdr, size : sizes, late : BOOLEAN]
  BY DEF TypeInv, HdrOK
<1>2. ASSUME HeapTyped, raced' \in BOOLEAN,
             pending' = NoMalloc \/ pending' \in [c : DOMAIN hdr, size : sizes, late : BOOLEAN]
      PROVE  TypeInv'
  <2>1. PICK D, E : D = DOMAIN hdr /\ E = DOMAIN hdr'
    OBVIOUS
  <2>2. D \subseteq E /\ sizes' = sizes /\ 0 \in E
    BY <1>0, <1>2, <2>1 DEF HeapTyped
  <2>3. pending' = NoMalloc \/ pending' \in [c : E, size : sizes', late : BOOLEAN]
    BY <1>2, <2>1, <2>2
  <2>4. HdrOK'
    BY <1>2, <2>1, <2>2, <2>3 DEF HdrOK, HeapTyped, NoMalloc
  <2> QED
    BY <1>2, <2>4 DEF TypeInv, HeapTyped
<1>3. ASSUME NEW size \in sizes, malloc(size) PROVE TypeInv'
  <2>1. Search(size) \in DOMAIN hdr
    BY <1>0, WalkIs
  <2>2. HeapTyped
    BY <1>3, <2>1, AllocateTyped DEF malloc
  <2>3. pending' = NoMalloc \/ pending' \in [c : DOMAIN hdr, size : sizes, late : BOOLEAN]
    <3>1. CASE pending = NoMalloc
      BY <1>3, <3>1 DEF malloc
    <3>2. CASE pending # NoMalloc
      BY <1>1, <1>3, <3>2 DEF malloc
    <3> QED
      BY <3>1, <3>2
  <2> QED
    BY <1>0, <1>2, <1>3, <2>2, <2>3 DEF malloc
<1>4. ASSUME NEW size \in sizes, mallocSearch(size) PROVE TypeInv'
  <2>1. Search(size) \in DOMAIN hdr
    BY <1>0, WalkIs
  <2>2. pending' \in [c : DOMAIN hdr, size : sizes, late : BOOLEAN]
    BY <1>4, <2>1 DEF mallocSearch
  <2>3. HeapTyped /\ raced' \in BOOLEAN
    BY <1>0, <1>4 DEF mallocSearch, HeapTyped, TypeInv, HdrOK, End
  <2> QED
    BY <1>2, <2>2, <2>3
<1>5. ASSUME mallocFound PROVE TypeInv'
  <2>1. pending.c \in DOMAIN hdr /\ pending.size \in sizes /\ pending.late \in BOOLEAN
    BY <1>1, <1>5 DEF mallocFound
  <2>2. HeapTyped
    BY <1>5, <2>1, AllocateTyped DEF mallocFound
  <2> QED
    BY <1>2, <1>5, <2>1, <2>2 DEF mallocFound
<1>6. CASE UNCHANGED vars
  BY <1>6 DEF TypeInv, HdrOK, End, vars, race
<1> QED
  BY <1>3, <1>4, <1>5, <1>6 DEF Next

LEMMA TypeInit ==
  ASSUME Init PROVE TypeInv
<1>1. PICK D : D = {0}
  OBVIOUS
<1>2. hdr \in [D -> Segment(D)] /\ DOMAIN hdr = D
  BY <1>1, HeapSizes DEF Init, Segment
<1>3. End = PGSIZE
  BY HeapSizes DEF Init, End
<1>4. D \subseteq 0 .. End - Header
  BY <1>1, <1>3, HeapSizes
<1>5. HdrOK
  <2>1. 0 \in D /\ pending = NoMalloc
    BY <1>1 DEF Init
  <2> QED
    BY <1>2, <1>4, <2>1 DEF HdrOK
<1>6. sizes \in Requests /\ pages \in 1 .. MaxPages /\ firstFreeSegment \in DOMAIN hdr
  BY <1>1, <1>2, HeapSizes DEF Init
<1> QED
  BY <1>5, <1>6 DEF Init, TypeInv

\* The headers of the heap are headers and their links point to headers, in whatever
\* program, and after calls of malloc that have raced.
THEOREM HeapTypes == Spec => []TypeOK
<1>1. TypeInv => TypeOK
  <2> SUFFICES ASSUME TypeInv PROVE TypeOK
    OBVIOUS
  <2>1. PICK D : D = DOMAIN hdr
    OBVIOUS
  <2>2. hdr \in [D -> Segment(D)] /\ 0 \in D
    BY <2>1 DEF TypeInv, HdrOK
  <2>3. \A a \in D : /\ hdr[a].MemoryLength \in Int /\ hdr[a].free \in BOOLEAN
                     /\ hdr[a].nextSegment \in D /\ hdr[a].previousSegment \in D
                     /\ hdr[a].nextFreeSegment \in D /\ hdr[a].previousFreeSegment \in D
    BY <2>2 DEF Segment
  <2>4. /\ pending.c \in DOMAIN hdr /\ pending.size \in sizes \cup {0}
        /\ pending.late \in BOOLEAN
    <3>1. CASE pending = NoMalloc
      BY <2>1, <2>2, <3>1 DEF NoMalloc
    <3> QED
      BY <3>1 DEF TypeInv, HdrOK
  <2>5. D \subseteq 0 .. End - Header
    BY <2>1 DEF TypeInv, HdrOK
  <2> QED
    BY <2>1, <2>3, <2>4, <2>5 DEF TypeInv, TypeOK
<1> QED
  BY <1>1, TypeInit, TypeStep, PTL DEF Spec
-------------------------------------------------------------------------------
(* What a search finds. *)

\* The segments from the first free one up to a.
Before(a) == {x \in DOMAIN hdr : firstFreeSegment <= x /\ x < a}

LEMMA BeforeIs ==
  ASSUME TypeInv, NEW a
  PROVE  /\ IsFiniteSet(Before(a)) /\ Cardinality(Before(a)) \in 0 .. From(firstFreeSegment)
         /\ \A b \in DOMAIN hdr :
              firstFreeSegment <= a /\ a \in DOMAIN hdr /\ a < b
                => Cardinality(Before(a)) < Cardinality(Before(b))
<1>1. IsFiniteSet(DOMAIN hdr) /\ \A x \in DOMAIN hdr : x \in Nat
  BY HdrFinite, EndIs
<1>2. \A b : IsFiniteSet(Before(b)) /\ Cardinality(Before(b)) \in Nat
  <2> TAKE b
  <2>1. Before(b) \in SUBSET DOMAIN hdr
    BY DEF Before
  <2> QED
    BY <1>1, <2>1, FS_Subset, FS_CardinalityType
<1>3. Cardinality(Before(a)) <= From(firstFreeSegment) /\ From(firstFreeSegment) \in Nat
  <2>1. PICK T : T = {b \in DOMAIN hdr : firstFreeSegment <= b}
    OBVIOUS
  <2>2. T \in SUBSET DOMAIN hdr /\ Before(a) \in SUBSET T
    BY <2>1 DEF Before
  <2>3. IsFiniteSet(T)
    BY <1>1, <2>2, FS_Subset
  <2>4. Cardinality(Before(a)) <= Cardinality(T) /\ Cardinality(T) \in Nat
    BY <2>2, <2>3, FS_Subset, FS_CardinalityType
  <2> QED
    BY <2>1, <2>4 DEF From
<1>4. ASSUME NEW b \in DOMAIN hdr, firstFreeSegment <= a, a \in DOMAIN hdr, a < b
      PROVE  Cardinality(Before(a)) < Cardinality(Before(b))
  <2>1. firstFreeSegment \in Nat /\ a \in Nat /\ b \in Nat
    BY <1>1, <1>4 DEF TypeInv
  <2>2. Before(a) \in SUBSET Before(b)
    BY <1>1, <1>4, <2>1 DEF Before
  <2>3. a \in Before(b) /\ a \notin Before(a)
    BY <1>4, <2>1 DEF Before
  <2>4. Cardinality(Before(a)) <= Cardinality(Before(b)) /\ Cardinality(Before(a)) # Cardinality(Before(b))
    BY <1>2, <2>2, <2>3, FS_Subset
  <2> QED
    BY <1>2, <2>4
<1> QED
  BY <1>2, <1>3, <1>4

\* The free segment that follows a, or a.
LEMMA FreeNext ==
  ASSUME TypeInv, Ordered, NEW a \in Free, hdr[a].nextFreeSegment # 0
  PROVE  /\ a \in DOMAIN hdr /\ hdr[a].nextFreeSegment \in Free
         /\ hdr[a].nextFreeSegment \in DOMAIN hdr /\ a < hdr[a].nextFreeSegment
         /\ firstFreeSegment <= a
BY DEF Ordered, Free

\* A search ends at a free segment: one that is large enough, or the last.
LEMMA SearchIs ==
  ASSUME TypeInv, Ordered, NEW s
  PROVE  LET c == Search(s) IN
         c \in Free /\ (TooSmall(hdr[c], s) => hdr[c].nextFreeSegment = 0)
<1> DEFINE g == Onward(s)
           mu == [a \in Free |-> Cardinality(Before(a))]
<1>1. Free \subseteq DOMAIN hdr
  BY DEF Free
<1>2. \A a \in Free : g[a] = IF TooSmall(hdr[a], s) /\ hdr[a].nextFreeSegment # 0
                             THEN hdr[a].nextFreeSegment ELSE a
  BY <1>1 DEF Onward
<1>3. mu \in [Free -> 0 .. From(firstFreeSegment)] /\ From(firstFreeSegment) \in Nat
  BY BeforeIs, HdrFinite
<1>4. \A a \in Free : mu[a] = Cardinality(Before(a))
  OBVIOUS
<1> HIDE DEF g, mu
<1>5. ASSUME NEW a \in Free PROVE g[a] \in Free /\ (g[a] = a \/ mu[a] < mu[g[a]])
  <2>1. CASE TooSmall(hdr[a], s) /\ hdr[a].nextFreeSegment # 0
    <3>1. g[a] = hdr[a].nextFreeSegment /\ a \in DOMAIN hdr /\ g[a] \in Free
          /\ g[a] \in DOMAIN hdr /\ a < g[a] /\ firstFreeSegment <= a
      BY <1>2, <2>1, FreeNext
    <3>2. Cardinality(Before(a)) < Cardinality(Before(g[a]))
      BY <3>1, BeforeIs
    <3> QED
      BY <1>4, <3>1, <3>2
  <2>2. CASE ~ (TooSmall(hdr[a], s) /\ hdr[a].nextFreeSegment # 0)
    BY <1>2, <2>2
  <2> QED
    BY <2>1, <2>2
<1>6. firstFreeSegment \in Free
  BY DEF Ordered
<1>7. PICK c : c = Iterate(g, firstFreeSegment, From(firstFreeSegment))
  OBVIOUS
<1>8. c \in Free /\ g[c] = c
  BY <1>3, <1>5, <1>6, <1>7, Settles
<1>9. c = Search(s)
  BY <1>7 DEF Search, g
<1>10. TooSmall(hdr[c], s) => hdr[c].nextFreeSegment = 0
  <2> SUFFICES ASSUME TooSmall(hdr[c], s), hdr[c].nextFreeSegment # 0 PROVE FALSE
    OBVIOUS
  <2>1. g[c] = hdr[c].nextFreeSegment /\ c < hdr[c].nextFreeSegment
    BY <1>2, <1>8, FreeNext
  <2>2. c \in Nat
    BY <1>1, <1>8, EndIs
  <2> QED
    BY <1>8, <2>1, <2>2
<1> QED
  BY <1>8, <1>9, <1>10

\* The segments a search can reach are the free ones.
LEMMA ReachedIs ==
  ASSUME TypeInv, Ordered PROVE Reached = Free
<1> DEFINE X == {R \in SUBSET Free : firstFreeSegment \in R}
           mu == [R \in X |-> Cardinality(R)]
<1>1. /\ Free \subseteq DOMAIN hdr /\ IsFiniteSet(DOMAIN hdr) /\ IsFiniteSet(Free)
      /\ \A a \in DOMAIN hdr : a \in Nat
  <2>1. Free \in SUBSET DOMAIN hdr
    BY DEF Free
  <2> QED
    BY <2>1, HdrFinite, EndIs, FS_Subset
<1>2. From(firstFreeSegment) \in Nat /\ Cardinality(Free) <= From(firstFreeSegment)
  <2>1. PICK T : T = {b \in DOMAIN hdr : firstFreeSegment <= b}
    OBVIOUS
  <2>2. T \in SUBSET DOMAIN hdr /\ Free \in SUBSET T
    BY <1>1, <2>1 DEF Ordered
  <2>3. IsFiniteSet(T) /\ Cardinality(Free) <= Cardinality(T)
    BY <1>1, <2>2, FS_Subset
  <2> QED
    BY <2>1, <2>3, HdrFinite DEF From
<1>3. \A R \in X : /\ R \subseteq Free /\ firstFreeSegment \in R /\ IsFiniteSet(R)
                   /\ Cardinality(R) \in 0 .. From(firstFreeSegment)
  <2> TAKE R \in X
  <2>1. R \in SUBSET Free /\ firstFreeSegment \in R
    OBVIOUS
  <2>2. IsFiniteSet(R) /\ Cardinality(R) <= Cardinality(Free)
    BY <1>1, <2>1, FS_Subset
  <2>3. Cardinality(R) \in Nat /\ Cardinality(Free) \in Nat
    BY <1>1, <2>2, FS_CardinalityType
  <2> QED
    BY <1>2, <2>1, <2>2, <2>3
<1>4. mu \in [X -> 0 .. From(firstFreeSegment)] /\ \A R \in X : mu[R] = Cardinality(R)
  BY <1>3
<1>5. {firstFreeSegment} \in X
  BY DEF Ordered
<1>6. \A R : R \subseteq Free /\ firstFreeSegment \in R => R \in X
  OBVIOUS
<1>7. \A R \in X : Reach[R] = R \cup ({hdr[a].nextFreeSegment : a \in R} \ {0})
  BY <1>1, <1>3 DEF Reach
<1> HIDE DEF X, mu
<1>8. ASSUME NEW R \in X PROVE Reach[R] \in X /\ (Reach[R] = R \/ mu[R] < mu[Reach[R]])
  <2>1. \A a \in R : hdr[a].nextFreeSegment # 0 => hdr[a].nextFreeSegment \in Free
    BY <1>3, FreeNext
  <2>2. PICK Q : Q = Reach[R]
    OBVIOUS
  <2>3. Q \subseteq Free /\ R \subseteq Q
    BY <1>3, <1>7, <2>1, <2>2
  <2>4. Q \in X
    BY <1>3, <1>6, <2>3
  <2>5. Q = R \/ Cardinality(R) < Cardinality(Q)
    <3>1. Cardinality(R) <= Cardinality(Q) /\ (Cardinality(R) = Cardinality(Q) => R = Q)
      BY <1>3, <2>3, <2>4, FS_Subset
    <3>2. Cardinality(R) \in Nat /\ Cardinality(Q) \in Nat
      BY <1>3, <2>4, FS_CardinalityType
    <3> QED
      BY <3>1, <3>2
  <2> QED
    BY <1>4, <2>2, <2>4, <2>5
<1>9. PICK Q : Q = Iterate(Reach, {firstFreeSegment}, From(firstFreeSegment))
  OBVIOUS
<1>10. Q \in X /\ Reach[Q] = Q
  BY <1>2, <1>4, <1>5, <1>8, <1>9, Settles
<1>11. Q \subseteq Free /\ firstFreeSegment \in Q
  BY <1>3, <1>10
<1>12. \A a \in Q : hdr[a].nextFreeSegment # 0 => hdr[a].nextFreeSegment \in Q
  BY <1>7, <1>10
<1>13. ASSUME NEW m \in Free, m \notin Q PROVE FALSE
  <2> DEFINE K == {k \in Nat : \E b \in Q : b < m /\ k = m - b}
  <2>1. m \in Nat /\ firstFreeSegment \in Nat /\ firstFreeSegment < m
    BY <1>1, <1>11, <1>13 DEF Ordered
  <2>2. m - firstFreeSegment \in K
    BY <1>11, <2>1
  <2>3. K \in SUBSET Nat /\ K # {}
    BY <2>2
  <2>4. PICK k \in K : \A i \in K : k <= i
    <3> HIDE DEF K
    <3> QED
      BY <2>3, MinInSet
  <2>5. PICK p \in Q : p < m /\ k = m - p
    OBVIOUS
  <2>6. p \in Free /\ p \in Nat
    BY <1>1, <1>11
  <2>7. \A b \in Q : b < m => b <= p
    <3> TAKE b \in Q
    <3> HAVE b < m
    <3>1. b \in Nat
      BY <1>1, <1>11
    <3>2. m - b \in K
      BY <2>1, <3>1
    <3>3. m - p <= m - b
      <4> HIDE DEF K
      <4> QED
        BY <2>4, <2>5, <3>2
    <3> QED
      BY <2>1, <2>6, <3>1, <3>3
  <2> HIDE DEF K
  <2>8. hdr[p].nextFreeSegment # 0
    <3> SUFFICES ASSUME hdr[p].nextFreeSegment = 0 PROVE FALSE
      OBVIOUS
    <3>1. m <= p
      BY <2>6 DEF Ordered
    <3> QED
      BY <2>1, <2>5, <2>6, <3>1
  <2>9. PICK n : n = hdr[p].nextFreeSegment
    OBVIOUS
  <2>10. n \in Q /\ p < n /\ (m <= p \/ n <= m)
    BY <1>12, <2>6, <2>8, <2>9 DEF Ordered
  <2>11. n \in Nat /\ n # m
    BY <1>1, <1>11, <1>13, <2>10
  <2>12. n < m
    BY <2>1, <2>5, <2>6, <2>10, <2>11
  <2> QED
    BY <2>6, <2>7, <2>10, <2>11, <2>12
<1> QED
  BY <1>9, <1>11, <1>13 DEF Reached
-------------------------------------------------------------------------------
(* Programs that ask for one size. *)

LEMMA OneSize ==
  ASSUME Uniform, TypeInv, NEW s \in sizes PROVE sizes = {s}
BY DEF Uniform, TypeInv

\* A search ends at the rest of the first page, or at the last free segment, which is
\* too small, like all the others.
Found(c, s) ==
  /\ c \in Free /\ c \in DOMAIN hdr
  /\ \/ Roomy(c) /\ ~ TooSmall(hdr[c], s) /\ hdr[c].MemoryLength \in Nat
     \/ /\ hdr[c].nextFreeSegment = 0 /\ TooSmall(hdr[c], s)
        /\ \A b \in Free : b <= c /\ hdr[b].MemoryLength < s

LEMMA FoundIs ==
  ASSUME Uniform, TypeInv, Lengths, Ordered, NEW s \in sizes PROVE Found(Search(s), s)
<1>1. PICK c : c = Search(s)
  OBVIOUS
<1>2. c \in Free /\ (TooSmall(hdr[c], s) => hdr[c].nextFreeSegment = 0)
  BY <1>1, SearchIs
<1>3. \A a \in Free : hdr[a].MemoryLength \in Nat /\ (TooSmall(hdr[a], s) <=> hdr[a].MemoryLength < s)
  <2> TAKE a \in Free
  <2>1. PICK l : l = hdr[a].MemoryLength
    OBVIOUS
  <2>2. l \in 0 .. PGSIZE
    BY <2>1 DEF Lengths
  <2>3. l % WordMod = l /\ l \in Nat
    BY <2>2, HeapSizes
  <2> QED
    BY <2>1, <2>3 DEF TooSmall
<1>4. \A a \in Free : hdr[a].MemoryLength < s \/ Roomy(a)
  BY OneSize DEF Lengths
<1>5. CASE TooSmall(hdr[c], s)
  <2>1. hdr[c].nextFreeSegment = 0 /\ \A b \in Free : b <= c
    BY <1>2, <1>5 DEF Ordered
  <2>2. ASSUME NEW b \in Free PROVE hdr[b].MemoryLength < s
    <3>1. CASE Roomy(b)
      <4>1. b = c
        BY <1>2, <3>1 DEF Roomy
      <4> QED
        BY <1>2, <1>3, <1>5, <4>1
    <3> QED
      BY <1>4, <3>1
  <2> QED
    BY <1>1, <1>2, <1>5, <2>1, <2>2 DEF Found, Free
<1>6. CASE ~ TooSmall(hdr[c], s)
  <2>1. ~ (hdr[c].MemoryLength < s)
    BY <1>2, <1>3, <1>6
  <2> QED
    BY <1>1, <1>2, <1>3, <1>4, <1>6, <2>1 DEF Found, Free
<1> QED
  BY <1>5, <1>6

\* What no step but these may change.
LEMMA SoundStill ==
  ASSUME Sound, UNCHANGED <<sizes, pages, hdr, firstFreeSegment, blocks>> PROVE Sound'
BY DEF Sound, Lengths, Ordered, Apart, Free, Roomy, End

\* The blocks with one more.
LEMMA BlocksMore ==
  ASSUME Apart, NEW a \in Nat, NEW s \in Nat, blocks' = Append(blocks, <<a, s>>)
  PROVE  /\ blocks' \in Seq(Nat \X Nat) /\ Len(blocks) \in Nat
         /\ DOMAIN blocks = 1 .. Len(blocks) /\ DOMAIN blocks' = 1 .. Len(blocks) + 1
         /\ \A i \in DOMAIN blocks : blocks'[i] = blocks[i]
         /\ blocks'[Len(blocks) + 1] = <<a, s>>
         /\ \A i \in DOMAIN blocks : Ends(blocks[i]) \in Nat /\ blocks[i][1] \in Nat
<1>1. blocks \in Seq(Nat \X Nat)
  BY DEF Apart
<1>2. <<a, s>> \in Nat \X Nat
  OBVIOUS
<1>3. Len(blocks) \in Nat /\ DOMAIN blocks = 1 .. Len(blocks)
  BY <1>1, LenProperties
<1>4. /\ blocks' \in Seq(Nat \X Nat) /\ Len(blocks') = Len(blocks) + 1
      /\ \A i \in 1 .. Len(blocks) : blocks'[i] = blocks[i]
      /\ blocks'[Len(blocks) + 1] = <<a, s>>
  BY <1>1, <1>2, AppendProperties
<1>5. DOMAIN blocks' = 1 .. Len(blocks) + 1
  BY <1>4, LenProperties
<1>6. \A i \in DOMAIN blocks : Ends(blocks[i]) \in Nat /\ blocks[i][1] \in Nat
  <2> TAKE i \in DOMAIN blocks
  <2>1. PICK b \in Nat \X Nat : b = blocks[i]
    BY <1>1, <1>3, ElementOfSeq
  <2>2. b[1] \in Nat /\ b[2] \in Nat
    OBVIOUS
  <2> QED
    BY <2>1, <2>2 DEF Ends
<1> QED
  BY <1>3, <1>4, <1>5, <1>6

\* A block behind all the others, among headers that are before it or behind.
LEMMA ApartMore ==
  ASSUME Apart, NEW a \in Nat, NEW s \in Nat, blocks' = Append(blocks, <<a, s>>),
         End' \in Nat, a + s <= End',
         \A i \in DOMAIN blocks : Ends(blocks[i]) <= a /\ Ends(blocks[i]) <= End',
         \A x \in DOMAIN hdr' : x + Header <= a \/ a + s <= x,
         \A x \in DOMAIN hdr' :
            x \in DOMAIN hdr \/ \A i \in DOMAIN blocks : Ends(blocks[i]) <= x
  PROVE  Apart'
<1>1. PICK n \in Nat : n = Len(blocks)
  BY BlocksMore
<1>2. /\ blocks' \in Seq(Nat \X Nat)
      /\ DOMAIN blocks = 1 .. n /\ DOMAIN blocks' = 1 .. n + 1
      /\ \A i \in 1 .. n : blocks'[i] = blocks[i]
      /\ blocks'[n + 1] = <<a, s>>
      /\ \A i \in 1 .. n : Ends(blocks[i]) \in Nat /\ blocks[i][1] \in Nat
  BY <1>1, BlocksMore
<1>3. Ends(blocks'[n + 1]) = a + s /\ blocks'[n + 1][1] = a
  BY <1>2 DEF Ends
<1>4. ASSUME NEW i \in 1 .. n + 1
      PROVE  /\ Ends(blocks'[i]) <= End'
             /\ \A j \in 1 .. i - 1 : Ends(blocks'[j]) <= blocks'[i][1]
             /\ \A x \in DOMAIN hdr' : x + Header <= blocks'[i][1] \/ Ends(blocks'[i]) <= x
  <2>1. CASE i = n + 1
    <3>1. \A j \in 1 .. i - 1 : Ends(blocks'[j]) <= a
      <4>1. 1 .. i - 1 = 1 .. n
        BY <2>1
      <4> QED
        BY <1>2, <4>1
    <3> QED
      BY <1>3, <2>1, <3>1
  <2>2. CASE i \in 1 .. n
    <3>1. blocks'[i] = blocks[i] /\ Ends(blocks[i]) <= End'
      BY <1>2, <2>2
    <3>2. \A j \in 1 .. i - 1 : Ends(blocks'[j]) <= blocks'[i][1]
      <4> TAKE j \in 1 .. i - 1
      <4>1. j \in 1 .. n
        BY <2>2
      <4> QED
        BY <1>2, <2>2, <3>1, <4>1 DEF Apart
    <3>3. \A x \in DOMAIN hdr' : x + Header <= blocks'[i][1] \/ Ends(blocks'[i]) <= x
      BY <1>2, <2>2, <3>1 DEF Apart
    <3> QED
      BY <3>1, <3>2, <3>3
  <2>3. i = n + 1 \/ i \in 1 .. n
    OBVIOUS
  <2> QED
    BY <2>1, <2>2, <2>3, Zenon
<1> QED
  BY <1>2, <1>4 DEF Apart, Ends

\* What is left of the first page gives the next block, or there is a page fault.
LEMMA SplitSound ==
  ASSUME TypeInv, Sound, NEW s \in sizes, NEW c \in DOMAIN hdr, Roomy(c),
         hdr[c].MemoryLength \in Nat, Split(c, s)
  PROVE  Sound' /\ (Fits => Fits')
<1>1. PICK D : D = DOMAIN hdr
  OBVIOUS
<1>2. PICK n : n = Rest(c, s)
  OBVIOUS
<1>3. PICK l : l = hdr[c].MemoryLength
  OBVIOUS
<1>4. /\ s \in Nat /\ 1 <= s /\ End \in Nat /\ Header \in Nat /\ Header # 0 /\ c \in Nat
      /\ l \in Nat /\ PGSIZE \in Nat /\ \A a \in D : a \in Nat
  BY <1>1, <1>3, SizeIs, EndIs, HeapSizes
<1>5. n \in Nat /\ n = c + Header + s /\ c < n
  BY <1>2, <1>4 DEF Rest
<1>6. /\ pages = 1 /\ c = firstFreeSegment /\ Free = {c} /\ \A b \in D : b <= c
      /\ c + Header + l = End /\ \A i \in DOMAIN blocks : Ends(blocks[i]) <= c
  BY <1>1, <1>3 DEF Roomy
<1>7. End = PGSIZE
  BY <1>4, <1>6 DEF End
<1>8. CASE Fault
  <2>1. UNCHANGED <<sizes, pages, hdr, firstFreeSegment, blocks>>
    BY <1>8 DEF Fault
  <2>2. Fits' = Fits
    BY <2>1 DEF Fits, Free, End
  <2> QED
    BY <2>1, <2>2, SoundStill
<1>9. CASE /\ n + Header <= End /\ hdr' = SplitSegments(c, n, s)
           /\ firstFreeSegment' = IF c = firstFreeSegment THEN n ELSE firstFreeSegment
           /\ blocks' = Append(blocks, <<c + Header, s>>) /\ UNCHANGED <<sizes, pages>>
  <2>1. PICK E : E = D \cup {n}
    OBVIOUS
  <2>2. n \notin D /\ n # c
    BY <1>4, <1>5, <1>6
  <2>3. SplitLeaves(D, c, n, s, E, SplitSegments(c, n, s))
    <3>1. s \in Int /\ Header \in Int
      BY <1>4
    <3>2. hdr \in [D -> Segment(D)] /\ 0 \in D /\ c \in D
      BY <1>1 DEF TypeInv, HdrOK
    <3> QED
      BY <2>1, <2>2, <3>1, <3>2, SplitIs
  <2>4. /\ hdr' \in [E -> Segment(E)] /\ hdr'[n].free = TRUE /\ hdr'[c].free = FALSE
        /\ hdr'[n].MemoryLength = l - (Header + s)
        /\ \A x \in D : x # c => hdr'[x].free = hdr[x].free
        /\ hdr'[n].nextFreeSegment = hdr[c].nextFreeSegment
    BY <1>3, <1>9, <2>2, <2>3 DEF SplitLeaves
  <2>5. DOMAIN hdr' = E /\ firstFreeSegment' = n /\ pages' = 1 /\ End' = End
    BY <1>6, <1>9, <2>4 DEF End
  <2>6. Free' = {n}
    <3>1. \A x \in D : x # c => ~ hdr[x].free
      BY <1>1, <1>6 DEF Free
    <3>2. \A x \in E : hdr'[x].free <=> x = n
      <4>1. \A x \in D : hdr[x].free \in BOOLEAN
        BY <1>1 DEF TypeInv, HdrOK, Segment
      <4> QED
        BY <2>1, <2>4, <3>1, <4>1
    <3>3. Free' = {x \in E : hdr'[x].free}
      BY <2>5 DEF Free
    <3>4. n \in E
      BY <2>1
    <3> QED
      BY <3>2, <3>3, <3>4
  <2>7. /\ hdr'[n].MemoryLength \in 0 .. PGSIZE
        /\ n + Header + hdr'[n].MemoryLength = End
    <3>1. PICK r : r = l - (Header + s)
      OBVIOUS
    <3>2. c + Header + l = End /\ n + Header <= End
      BY <1>6, <1>9
    <3>3. n + Header + r = End
      BY <1>4, <1>5, <3>1, <3>2
    <3>4. r \in 0 .. PGSIZE
      BY <1>4, <1>5, <1>7, <3>1, <3>2, <3>3
    <3>5. hdr'[n].MemoryLength = r
      BY <2>4, <3>1
    <3> QED
      BY <3>3, <3>4, <3>5, Zenon
  <2>8. hdr'[n].nextFreeSegment = 0
    <3>1. PICK m : m = hdr[c].nextFreeSegment
      OBVIOUS
    <3>2. m = 0 \/ (m \in Free /\ c < m)
      BY <1>6, <3>1 DEF Sound, Ordered
    <3>3. m = 0
      BY <1>4, <1>6, <3>2
    <3> QED
      BY <2>4, <3>1, <3>3
  <2>9. \A x \in E : x <= n
    BY <1>4, <1>5, <1>6, <2>1
  <2>10. c + Header \in Nat /\ Ends(<<c + Header, s>>) = n /\ Apart
    BY <1>4, <1>5 DEF Ends, Sound
  <2>11. \A i \in DOMAIN blocks : Ends(blocks[i]) <= n /\ Ends(blocks[i]) <= c + Header
                                   /\ Ends(blocks[i]) <= End
    <3> TAKE i \in DOMAIN blocks
    <3>1. PICK e \in Nat : e = Ends(blocks[i])
      BY <1>9, <2>10, <1>4, BlocksMore
    <3>2. e <= c
      BY <1>6, <3>1
    <3>3. e <= n /\ e <= c + Header /\ e <= End
      BY <1>4, <1>5, <1>6, <3>2
    <3> QED
      BY <3>1, <3>3
  <2>12. \A i \in DOMAIN blocks' : Ends(blocks'[i]) <= n
    <3>1. PICK k \in Nat : k = Len(blocks)
      BY <1>4, <1>9, <2>10, BlocksMore
    <3>2. /\ DOMAIN blocks = 1 .. k /\ DOMAIN blocks' = 1 .. k + 1
          /\ \A i \in DOMAIN blocks : blocks'[i] = blocks[i]
          /\ blocks'[k + 1] = <<c + Header, s>>
      BY <1>4, <1>9, <2>10, <3>1, BlocksMore
    <3>3. \A i \in 1 .. k + 1 : i = k + 1 \/ i \in 1 .. k
      OBVIOUS
    <3>4. Ends(blocks'[k + 1]) <= n
      BY <1>5, <2>10, <3>2
    <3> QED
      BY <2>11, <3>2, <3>3, <3>4
  <2>13. Roomy(n)'
    BY <2>5, <2>6, <2>7, <2>9, <2>12 DEF Roomy
  <2>14. Lengths'
    BY <2>6, <2>7, <2>13 DEF Lengths
  <2>15. Ordered'
    BY <1>5, <2>5, <2>6, <2>8 DEF Ordered
  <2>16. Apart'
    <3>1. \A x \in DOMAIN hdr' : x + Header <= c + Header \/ c + Header + s <= x
      BY <1>4, <1>5, <1>6, <2>1, <2>5
    <3>2. \A x \in DOMAIN hdr' :
            x \in DOMAIN hdr \/ \A i \in DOMAIN blocks : Ends(blocks[i]) <= x
      BY <1>1, <2>1, <2>5, <2>11
    <3>3. c + Header + s <= End' /\ End' \in Nat
      BY <1>4, <1>5, <1>9, <2>5
    <3>4. \A i \in DOMAIN blocks : Ends(blocks[i]) <= c + Header /\ Ends(blocks[i]) <= End'
      BY <2>5, <2>11
    <3> HIDE DEF Ends
    <3> QED
      BY <1>4, <1>9, <2>10, <3>1, <3>2, <3>3, <3>4, ApartMore
  <2>17. Fits'
    <3>1. ASSUME NEW b \in E \cup {End}, n < b PROVE n + Header + hdr'[n].MemoryLength <= b
      <4>1. b = End
        <5>1. \A x \in E : ~ (n < x)
          <6>1. \A x \in E : x \in Nat
            BY <1>4, <1>5, <2>1
          <6> QED
            BY <1>5, <2>9, <6>1
        <5> QED
          BY <3>1, <5>1
      <4>2. End <= End
        BY <1>4
      <4> QED
        BY <2>7, <4>1, <4>2, Zenon
    <3> QED
      BY <2>5, <2>6, <3>1 DEF Fits
  <2> QED
    BY <2>14, <2>15, <2>16, <2>17 DEF Sound
<1> QED
  <2>1. IF n + Header > End THEN Fault
        ELSE /\ hdr' = SplitSegments(c, n, s)
             /\ firstFreeSegment' = IF c = firstFreeSegment THEN n ELSE firstFreeSegment
             /\ blocks' = Append(blocks, <<c + Header, s>>) /\ UNCHANGED <<sizes, pages>>
    BY <1>2 DEF Split
  <2>2. n + Header > End \/ n + Header <= End
    BY <1>4, <1>5
  <2> QED
    BY <1>8, <1>9, <2>1, <2>2

\* With pages that are new the block lies behind all there was, and a free segment that
\* is too small behind the block; or there is a page fault.
LEMMA GrowSound ==
  ASSUME TypeInv, Sound, NEW s \in sizes, NEW c \in Free, c \in DOMAIN hdr,
         hdr[c].nextFreeSegment = 0, \A b \in Free : b <= c /\ hdr[b].MemoryLength < s,
         Grow(c, s)
  PROVE  Sound' /\ (Small /\ Fits => Fits')
<1>1. PICK D : D = DOMAIN hdr
  OBVIOUS
<1>2. PICK n : n = Behind(s)
  OBVIOUS
<1>3. PICK E : E = DOMAIN hdr \cup {End} \cup (IF n = 0 THEN {} ELSE {n})
  OBVIOUS
<1>4. /\ n \in Nat /\ pages' \in 2 .. MaxPages /\ End' \in Nat /\ End + Header + s < End'
      /\ UNCHANGED <<sizes, firstFreeSegment>>
      /\ \/ halt' = "fault" /\ UNCHANGED <<hdr, blocks>>
         \/ /\ halt' = halt /\ blocks' = Append(blocks, <<End + Header, s>>)
            /\ n + Header <= End' /\ Grown(c, s, n, E)
  BY <1>2, <1>3, GrowIs
<1>5. /\ s \in Nat /\ 1 <= s /\ s < PGSIZE /\ PGSIZE \in Nat /\ Header \in Nat /\ 1 <= Header
      /\ End \in Nat /\ \A a \in D : a \in Nat /\ a + Header <= End
  BY <1>1, SizeIs, EndIs, HeapSizes
<1>6. /\ hdr \in [D -> Segment(D)] /\ firstFreeSegment \in D
      /\ Free = {a \in D : hdr[a].free} /\ \A a \in D : hdr[a].free \in BOOLEAN
  BY <1>1 DEF TypeInv, HdrOK, Free, Segment
<1>7. End <= End' /\ sizes' = sizes /\ firstFreeSegment' = firstFreeSegment
  BY <1>4, <1>5
<1>8. \A a \in Free : a \in D /\ hdr[a].MemoryLength \in 0 .. PGSIZE /\ hdr[a].MemoryLength < s
  BY <1>1 DEF Free, Sound, Lengths
<1>9. \A i \in DOMAIN blocks : Ends(blocks[i]) \in Nat /\ Ends(blocks[i]) <= End
  <2> TAKE i \in DOMAIN blocks
  <2>1. blocks \in Seq(Nat \X Nat) /\ Ends(blocks[i]) <= End
    BY DEF Sound, Apart
  <2>2. PICK b \in Nat \X Nat : b = blocks[i]
    <3>1. i \in 1 .. Len(blocks)
      BY <2>1, LenProperties
    <3> QED
      BY <2>1, <3>1, ElementOfSeq
  <2>3. b[1] \in Nat /\ b[2] \in Nat
    OBVIOUS
  <2> QED
    BY <2>1, <2>2, <2>3 DEF Ends
<1>10. CASE UNCHANGED <<hdr, blocks>>
  <2>1. Free' = Free
    BY <1>10 DEF Free
  <2>2. Lengths'
    BY <1>7, <1>8, <1>10, <2>1 DEF Lengths
  <2>3. Ordered'
    BY <1>7, <1>10, <2>1 DEF Sound, Ordered
  <2>4. Apart'
    <3>1. \A i \in DOMAIN blocks : Ends(blocks[i]) <= End'
      BY <1>4, <1>5, <1>7, <1>9
    <3> QED
      BY <1>10, <3>1 DEF Sound, Apart, Ends
  <2>5. Fits => Fits'
    <3> SUFFICES ASSUME Fits, NEW a \in Free, NEW b \in D \cup {End'}, a < b
                 PROVE  a + Header + hdr[a].MemoryLength <= b
      BY <1>1, <1>10, <2>1 DEF Fits
    <3>1. a \in Nat /\ a < End /\ hdr[a].MemoryLength \in Nat
      BY <1>5, <1>8
    <3>2. a + Header + hdr[a].MemoryLength <= End
      BY <3>1 DEF Fits
    <3>3. CASE b \in D
      BY <1>1, <3>3 DEF Fits
    <3>4. CASE b = End'
      <4>1. PICK x \in Nat : x = a + Header + hdr[a].MemoryLength
        BY <1>5, <3>1
      <4> QED
        BY <1>4, <1>5, <1>7, <3>2, <3>4, <4>1
    <3> QED
      BY <3>3, <3>4
  <2> QED
    BY <2>2, <2>3, <2>4, <2>5 DEF Sound
<1>11. CASE /\ blocks' = Append(blocks, <<End + Header, s>>)
            /\ n + Header <= End' /\ Grown(c, s, n, E)
  <2>1. /\ hdr' \in [E -> Segment(E)] /\ hdr'[End].free = FALSE
        /\ n # 0 => /\ hdr'[n].free = TRUE /\ hdr'[n].nextFreeSegment = 0
                    /\ hdr'[n].MemoryLength = s - Header
        /\ \A x \in D :
             /\ hdr'[x].free = hdr[x].free /\ hdr'[x].MemoryLength = hdr[x].MemoryLength
             /\ x # c => hdr'[x].nextFreeSegment = hdr[x].nextFreeSegment
        /\ hdr'[c].nextFreeSegment = n
    BY <1>1, <1>11 DEF Grown
  <2>2. DOMAIN hdr' = E /\ c \in D
    BY <1>1, <2>1
  <2>3. n # 0 => n = End + Header + s /\ Header < s
    BY <1>2, <1>5 DEF Behind
  <2>4. PICK N : N = IF n = 0 THEN {} ELSE {n}
    OBVIOUS
  <2>5. E = D \cup {End} \cup N /\ \A x \in N : x = n /\ n # 0
    BY <1>1, <1>3, <2>4
  <2>6. /\ \A a \in D : a < End /\ a # End /\ (n # 0 => a < n)
        /\ (n # 0 => End < n /\ n # End)
    BY <1>5, <2>3
  <2>7. Free' = Free \cup N
    <3>1. Free' = {x \in E : hdr'[x].free}
      BY <2>2 DEF Free
    <3>2. \A x \in E : hdr'[x].free <=> x \in Free \cup N
      <4> TAKE x \in E
      <4>1. CASE x \in D
        <5>1. x \notin N
          BY <1>5, <2>3, <2>5, <4>1
        <5> QED
          BY <1>6, <2>1, <4>1, <5>1
      <4>2. CASE x = End
        <5>1. x \notin D /\ x \notin N
          BY <2>5, <2>6, <4>2
        <5> QED
          BY <1>6, <2>1, <4>2, <5>1
      <4>3. CASE x \in N
        BY <2>1, <2>5, <4>3
      <4> QED
        BY <2>5, <4>1, <4>2, <4>3
    <3>3. Free \cup N \subseteq E
      BY <1>8, <2>5
    <3> QED
      BY <3>1, <3>2, <3>3
  <2>8. \A a \in Free : hdr'[a].MemoryLength = hdr[a].MemoryLength
    BY <1>8, <2>1
  <2>9. \A a \in N : /\ hdr'[a].MemoryLength \in 0 .. PGSIZE /\ hdr'[a].MemoryLength < s
                     /\ hdr'[a].MemoryLength = s - Header
    <3>1. n # 0 => s - Header \in 0 .. PGSIZE /\ s - Header < s
      BY <1>5, <2>3
    <3> QED
      BY <2>1, <2>5, <3>1
  <2>10. Lengths'
    BY <1>7, <1>8, <2>7, <2>8, <2>9 DEF Lengths
  <2>11. Ordered'
    <3>1. firstFreeSegment' \in Free' /\ \A a \in Free' : firstFreeSegment' <= a
      <4>1. firstFreeSegment \in Free /\ \A a \in Free : firstFreeSegment <= a
        BY DEF Sound, Ordered
      <4>2. n # 0 => firstFreeSegment <= n
        <5>1. firstFreeSegment \in Nat /\ (n # 0 => firstFreeSegment < n)
          BY <1>5, <1>6, <2>6
        <5> QED
          BY <1>4, <5>1
      <4> QED
        BY <1>7, <2>5, <2>7, <4>1, <4>2
    <3>2. ASSUME NEW a \in Free', NEW m, m = hdr'[a].nextFreeSegment
          PROVE  IF m = 0 THEN \A b \in Free' : b <= a
                 ELSE m \in Free' /\ a < m /\ \A b \in Free' : b <= a \/ m <= b
      <4>1. CASE a \in N
        <5>1. a = n /\ n # 0 /\ m = 0
          BY <2>1, <2>5, <3>2, <4>1
        <5>2. \A b \in Free : b <= n
          BY <1>4, <1>5, <1>8, <2>6, <5>1
        <5>3. \A b \in N : b <= n
          BY <1>4, <2>5
        <5> QED
          BY <2>7, <5>1, <5>2, <5>3
      <4>2. CASE a \in Free /\ a = c
        <5>1. m = n
          BY <2>1, <3>2, <4>2
        <5>2. CASE n = 0
          <6>1. Free' = Free
            BY <2>4, <2>7, <5>2
          <6> QED
            BY <4>2, <5>1, <5>2, <6>1
        <5>3. CASE n # 0
          <6>1. n \in Free' /\ c < n
            BY <2>2, <2>4, <2>6, <2>7, <5>3
          <6>2. \A b \in N : n <= b
            BY <1>4, <2>5
          <6> QED
            BY <2>7, <4>2, <5>1, <5>3, <6>1, <6>2
        <5> QED
          BY <5>2, <5>3
      <4>3. CASE a \in Free /\ a # c
        <5>1. m = hdr[a].nextFreeSegment
          BY <1>8, <2>1, <3>2, <4>3
        <5>2. IF m = 0 THEN \A b \in Free : b <= a
              ELSE m \in Free /\ a < m /\ \A b \in Free : b <= a \/ m <= b
          BY <4>3, <5>1 DEF Sound, Ordered
        <5>3. m # 0
          <6> SUFFICES ASSUME m = 0 PROVE FALSE
            OBVIOUS
          <6>1. c <= a /\ a <= c /\ a \in Nat /\ c \in Nat
            BY <1>5, <1>8, <4>3, <5>2
          <6> QED
            BY <4>3, <6>1
        <5>4. \A b \in N : m <= b
          <6>1. m \in D /\ m \in Nat
            BY <1>5, <1>8, <5>2, <5>3
          <6> QED
            BY <1>4, <2>5, <2>6, <6>1
        <5> QED
          BY <2>7, <5>2, <5>3, <5>4
      <4> QED
        BY <2>7, <3>2, <4>1, <4>2, <4>3
    <3> QED
      BY <3>1, <3>2 DEF Ordered
  <2>12. Apart'
    <3>1. Apart /\ End + Header \in Nat
      BY <1>5 DEF Sound
    <3>2. End + Header + s <= End'
      BY <1>4, <1>5
    <3>3. \A i \in DOMAIN blocks : Ends(blocks[i]) <= End + Header /\ Ends(blocks[i]) <= End'
      BY <1>4, <1>5, <1>7, <1>9
    <3>4. \A x \in DOMAIN hdr' : x + Header <= End + Header \/ End + Header + s <= x
      <4>1. \A x \in D : x + Header <= End + Header
        BY <1>5
      <4>2. End + Header <= End + Header
        BY <1>5
      <4>3. \A x \in N : End + Header + s <= x
        BY <1>5, <2>3, <2>5
      <4> QED
        BY <2>2, <2>5, <4>1, <4>2, <4>3
    <3>5. \A x \in DOMAIN hdr' :
            x \in DOMAIN hdr \/ \A i \in DOMAIN blocks : Ends(blocks[i]) <= x
      <4>1. \A x \in N, i \in DOMAIN blocks : Ends(blocks[i]) <= x
        BY <1>4, <1>5, <1>9, <2>5, <2>6
      <4> QED
        BY <1>1, <1>9, <2>2, <2>5, <4>1
    <3> QED
      BY <1>4, <1>5, <1>11, <3>1, <3>2, <3>3, <3>4, <3>5, ApartMore
  <2>13. Small /\ Fits => Fits'
    <3> SUFFICES ASSUME Small, Fits, NEW a \in Free', NEW b \in E \cup {End'}, a < b
                 PROVE  a + Header + hdr'[a].MemoryLength <= b
      BY <2>2 DEF Fits
    <3>1. b \in Nat /\ (b \in D \/ End <= b)
      BY <1>4, <1>5, <1>7, <2>5, <2>6
    <3>2. CASE a \in Free
      <4>1. PICK x : x = a + Header + hdr[a].MemoryLength
        OBVIOUS
      <4>2. a \in D /\ hdr[a].MemoryLength \in Nat /\ hdr'[a].MemoryLength = hdr[a].MemoryLength
        BY <1>8, <2>8, <3>2
      <4>3. x \in Nat /\ a < End
        BY <1>5, <2>6, <4>1, <4>2
      <4>4. x <= End /\ (b \in D => x <= b)
        BY <1>1, <3>2, <4>1, <4>3 DEF Fits
      <4>5. x <= b
        BY <1>5, <3>1, <4>3, <4>4
      <4> QED
        BY <4>1, <4>2, <4>5
    <3>3. CASE a \in N
      <4>1. a = n /\ n = End + Header + s /\ hdr'[a].MemoryLength = s - Header
        BY <2>3, <2>5, <2>9, <3>3
      <4>2. b = End'
        <5>1. \A x \in D \cup {End} : ~ (n < x)
          <6>1. \A x \in D \cup {End} : x \in Nat /\ x < n
            BY <1>5, <2>5, <2>6, <3>3
          <6> QED
            BY <1>4, <6>1
        <5>2. \A x \in N : ~ (n < x)
          BY <1>4, <2>5
        <5> QED
          BY <2>5, <4>1, <5>1, <5>2
      <4>3. 2 * s + Header <= PGSIZE
        BY DEF Small, TypeInv
      <4>4. End + PGSIZE <= End'
        <5>1. pages \in Nat \ {0} /\ NumPages(s) \in Nat \ {0}
          BY <1>5, EndIs, NumPagesIs
        <5>2. pages' = pages + NumPages(s)
          BY DEF Grow
        <5>3. /\ (pages + NumPages(s)) * PGSIZE = pages * PGSIZE + NumPages(s) * PGSIZE
              /\ NumPages(s) * PGSIZE \in Nat /\ NumPages(s) * PGSIZE >= PGSIZE
          BY <5>1, PagesAre
        <5>4. End' = End + NumPages(s) * PGSIZE
          BY <5>2, <5>3 DEF End
        <5> QED
          BY <1>4, <1>5, <5>3, <5>4
      <4>5. n + Header + (s - Header) <= End'
        BY <1>4, <1>5, <4>1, <4>3, <4>4
      <4> QED
        BY <4>1, <4>2, <4>5, Zenon
    <3> QED
      BY <2>7, <3>2, <3>3
  <2> QED
    BY <2>10, <2>11, <2>12, <2>13 DEF Sound
<1> QED
  BY <1>4, <1>10, <1>11

\* malloc with what its search finds.
LEMMA AllocateSound ==
  ASSUME Uniform, TypeInv, Sound, Small => Fits, NEW s \in sizes, Allocate(Search(s), s)
  PROVE  Sound' /\ (Small => Fits')
<1>1. PICK c : c = Search(s)
  OBVIOUS
<1>2. Found(c, s)
  BY <1>1, FoundIs DEF Sound
<1>3. c \in Free /\ c \in DOMAIN hdr
  BY <1>2 DEF Found
<1>4. CASE Split(c, s)
  <2>1. Roomy(c) /\ hdr[c].MemoryLength \in Nat
    BY <1>2, <1>4 DEF Found, Split
  <2> QED
    BY <1>3, <1>4, <2>1, SplitSound
<1>5. CASE Grow(c, s)
  <2>1. hdr[c].nextFreeSegment = 0 /\ \A b \in Free : b <= c /\ hdr[b].MemoryLength < s
    BY <1>2, <1>5 DEF Found, Grow
  <2> QED
    BY <1>3, <1>5, <2>1, GrowSound
<1>6. CASE OutOfPages(c, s)
  <2>1. UNCHANGED <<sizes, pages, hdr, firstFreeSegment, blocks>>
    BY <1>6 DEF OutOfPages, Fault
  <2>2. Fits' = Fits
    BY <2>1 DEF Fits, Free, End
  <2> QED
    BY <2>1, <2>2, SoundStill
<1> QED
  BY <1>1, <1>4, <1>5, <1>6 DEF Allocate

LEMMA HeapInit ==
  ASSUME Init PROVE HeapInv
<1>1. TypeInv
  BY TypeInit
<1>2. /\ DOMAIN hdr = {0} /\ hdr[0].free = TRUE /\ hdr[0].nextFreeSegment = 0
      /\ hdr[0].MemoryLength = PGSIZE - Header /\ firstFreeSegment = 0 /\ blocks = <<>>
      /\ pages = 1 /\ End = PGSIZE /\ PGSIZE \in Nat /\ Header \in Nat /\ Header <= PGSIZE
  BY HeapSizes DEF Init, End
<1>3. Free = {0}
  BY <1>2 DEF Free
<1>4. 0 + Header + hdr[0].MemoryLength = End /\ hdr[0].MemoryLength \in 0 .. PGSIZE
  BY <1>2
<1>5. Roomy(0)
  BY <1>2, <1>3, <1>4 DEF Roomy
<1>6. Lengths
  BY <1>3, <1>4, <1>5 DEF Lengths
<1>7. Ordered
  BY <1>2, <1>3 DEF Ordered
<1>8. Apart
  BY <1>2 DEF Apart
<1>9. Fits
  <2>1. \A b \in {0} \cup {End} : 0 < b => b = End /\ End <= End
    BY <1>2
  <2> QED
    BY <1>2, <1>3, <1>4, <2>1 DEF Fits
<1>10. Fresh
  BY DEF Init, Fresh
<1> QED
  BY <1>1, <1>6, <1>7, <1>8, <1>9, <1>10 DEF HeapInv, Sound

LEMMA HeapStep ==
  ASSUME Uniform, HeapInv, [Next]_vars PROVE HeapInv'
<1>1. TypeInv /\ TypeInv' /\ raced \in BOOLEAN
  BY TypeStep DEF HeapInv, TypeInv
<1>2. pending = NoMalloc \/ pending \in [c : DOMAIN hdr, size : sizes, late : BOOLEAN]
  BY <1>1 DEF TypeInv, HdrOK
<1>3. ASSUME NEW size \in sizes, malloc(size) PROVE HeapInv'
  <2>1. ~ raced /\ ~ raced'
    BY <1>3 DEF malloc, Up
  <2>2. Sound /\ (Small => Fits)
    BY <2>1 DEF HeapInv
  <2>3. Sound' /\ (Small => Fits')
    BY <1>1, <1>3, <2>2, AllocateSound DEF malloc
  <2>4. pending' = NoMalloc \/ pending'.late
    <3>1. CASE pending = NoMalloc
      BY <1>3, <3>1 DEF malloc
    <3>2. CASE pending # NoMalloc
      BY <1>2, <1>3, <3>2 DEF malloc
    <3> QED
      BY <3>1, <3>2
  <2>5. Fresh'
    BY <2>4 DEF Fresh
  <2> QED
    BY <1>1, <2>3, <2>5 DEF HeapInv
<1>4. ASSUME NEW size \in sizes, mallocSearch(size) PROVE HeapInv'
  <2>1. UNCHANGED <<sizes, pages, hdr, firstFreeSegment, blocks, raced>>
    BY <1>4 DEF mallocSearch
  <2>2. ~ raced /\ Sound /\ (Small => Fits)
    BY <1>4 DEF mallocSearch, Up, HeapInv
  <2>3. Sound' /\ (Small => Fits')
    <3>1. Fits' = Fits
      BY <2>1 DEF Fits, Free, End
    <3> QED
      BY <2>1, <2>2, <3>1, SoundStill
  <2>4. Fresh'
    <3>1. pending'.c = Search(size) /\ pending'.size = size
      BY <1>4 DEF mallocSearch
    <3>2. Search(pending.size)' = Search(size)
      BY <2>1, <3>1 DEF Search, Onward, TooSmall, From
    <3> QED
      BY <3>1, <3>2 DEF Fresh
  <2> QED
    BY <1>1, <2>3, <2>4 DEF HeapInv
<1>5. ASSUME mallocFound PROVE HeapInv'
  <2>1. pending \in [c : DOMAIN hdr, size : sizes, late : BOOLEAN] /\ ~ raced
    BY <1>2, <1>5 DEF mallocFound, Up
  <2>2. Fresh'
    BY <1>5 DEF mallocFound, Fresh
  <2>3. CASE pending.late
    BY <1>1, <1>5, <2>3 DEF mallocFound, HeapInv
  <2>4. CASE ~ pending.late
    <3>1. Sound /\ (Small => Fits) /\ Fresh
      BY <2>1 DEF HeapInv
    <3>2. pending.c = Search(pending.size) /\ pending.size \in sizes
      BY <1>5, <2>1, <2>4, <3>1 DEF Fresh, mallocFound
    <3>3. Allocate(Search(pending.size), pending.size)
      BY <1>5, <3>2 DEF mallocFound
    <3>4. Sound' /\ (Small => Fits')
      BY <1>1, <3>1, <3>2, <3>3, AllocateSound
    <3> QED
      BY <1>1, <2>2, <3>4 DEF HeapInv
  <2> QED
    BY <2>3, <2>4
<1>6. ASSUME UNCHANGED vars PROVE HeapInv'
  <2>1. UNCHANGED <<sizes, pages, hdr, firstFreeSegment, blocks, pending, raced>>
    BY <1>6 DEF vars, race
  <2>2. Fits' = Fits
    BY <2>1 DEF Fits, Free, End
  <2>3. Sound => Sound'
    BY <2>1, SoundStill
  <2>4. Fresh' = Fresh
    BY <2>1 DEF Fresh, Search, Onward, TooSmall, From
  <2> QED
    BY <1>1, <2>1, <2>2, <2>3, <2>4 DEF HeapInv
<1> QED
  BY <1>3, <1>4, <1>5, <1>6 DEF Next

LEMMA SpecHeap == ASSUME Uniform PROVE Spec => []HeapInv
<1>1. Init => HeapInv
  BY HeapInit
<1>2. HeapInv /\ [Next]_vars => HeapInv'
  BY HeapStep
<1> QED
  BY <1>1, <1>2, PTL DEF Spec

\* Whatever the size a program asks for, and however much its heap grows: the blocks it
\* gets lie in the heap, and no block shares memory with another or with a header.
THEOREM BlocksStayApart == ASSUME Uniform PROVE Spec => []BlocksDisjoint
<1>1. HeapInv => BlocksDisjoint
  BY DEF HeapInv, Sound, Apart, Ends, BlocksDisjoint, BlocksApart
<1> QED
  BY <1>1, SpecHeap, PTL

\* If the size is small, what a search can reach are the free segments, all of them, and
\* each of them ends before the next header.
THEOREM FreeListIsExact == ASSUME Uniform, Small PROVE Spec => []FreeListExact
<1>1. HeapInv => FreeListExact
  <2> SUFFICES ASSUME HeapInv, ~ raced PROVE FreeListExact
    BY DEF FreeListExact
  <2>1. TypeInv /\ Ordered /\ Fits
    BY DEF HeapInv, Sound
  <2>2. Reached = Free
    BY <2>1, ReachedIs
  <2> QED
    BY <2>1, <2>2 DEF Fits, Free, FreeListExact
<1> QED
  BY <1>1, SpecHeap, PTL
===============================================================================
