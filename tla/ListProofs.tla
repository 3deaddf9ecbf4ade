------------------------------ MODULE ListProofs ------------------------------
(***************************************************************************)
(* Proofs about List, for lists of any length and any number of calls.     *)
(***************************************************************************)
EXTENDS List, Induction, FiniteSetTheorems, SequenceTheorems

-------------------------------------------------------------------------------
(* Chains. *)

\* c is the chain of s elements that begins at h: they follow each other by nx, end at
\* NULL, are different, and were handed out by malloc before b.
IsChain(c, s, h, nx, b) ==
  /\ s \in Nat /\ b \in Cells /\ s <= b
  /\ c \in [0 .. s -> Cells] /\ c[0] = h /\ c[s] = NULL
  /\ \A i \in 0 .. s - 1 : c[i] \in 1 .. b /\ nx[c[i]] = c[i + 1]
  /\ \A i, j \in 0 .. s - 1 : c[i] = c[j] => i = j

\* It can be walked backwards too, from t on.
IsDouble(c, s, t, pv) ==
  s > 0 => /\ t = c[s - 1] /\ pv[c[0]] = NULL
           /\ \A i \in 1 .. s - 1 : pv[c[i]] = c[i - 1]

LEMMA NullIsMapped == NULL \in Cells
  BY ListAssumption DEF Cells, NULL

\* A recursive definition like that of Node is what it says.
LEMMA Following ==
  ASSUME NEW h \in Cells, NEW nx \in [Cells -> Cells], NEW N,
         N = CHOOSE F : F = [n \in 0 .. MaxElems |-> IF n = 0 THEN h ELSE nx[F[n - 1]]]
  PROVE  N[0] = h /\ \A i \in 1 .. MaxElems : N[i] = nx[N[i - 1]]
<1> DEFINE body(F) == [n \in 0 .. MaxElems |-> IF n = 0 THEN h ELSE nx[F[n - 1]]]
<1>1. MaxElems \in Nat
  BY ListAssumption
<1>2. \E F : F = body(F)
  <2> DEFINE g == [p \in (1 .. MaxElems) \X Cells |-> nx[p[2]]]
  <2>1. g \in [(1 .. MaxElems) \X Cells -> Cells]
    OBVIOUS
  <2>2. \A i \in 1 .. MaxElems, a \in Cells : g[<<i, a>>] = nx[a]
    OBVIOUS
  <2> HIDE DEF g
  <2>3. PICK F \in [0 .. MaxElems -> Cells] : Recurs(F, MaxElems, h, g)
    BY <1>1, <2>1, Recursion
  <2>4. \A i \in 0 .. MaxElems : i # 0 => i \in 1 .. MaxElems /\ i - 1 \in 0 .. MaxElems
    BY <1>1
  <2>5. ASSUME NEW i \in 0 .. MaxElems
        PROVE  F[i] = IF i = 0 THEN h ELSE nx[F[i - 1]]
    <3>1. i # 0 => F[i - 1] \in Cells /\ F[i] = g[<<i, F[i - 1]>>]
      BY <2>3, <2>4 DEF Recurs
    <3> QED
      BY <2>2, <2>3, <2>4, <3>1 DEF Recurs
  <2>6. F = [i \in 0 .. MaxElems |-> F[i]]
    BY <2>3
  <2>7. F = body(F)
    BY <2>5, <2>6, Zenon
  <2> QED
    BY <2>7
<1>3. N = body(N)
  BY <1>2
<1>4. 0 \in 0 .. MaxElems /\ \A i \in 1 .. MaxElems : i \in 0 .. MaxElems /\ i # 0
  BY <1>1
<1>5. body(N)[0] = h
  BY <1>4
<1>6. ASSUME NEW i \in 1 .. MaxElems PROVE body(N)[i] = nx[N[i - 1]]
  BY <1>4
<1> HIDE DEF body
<1> QED
  BY <1>3, <1>5, <1>6

\* Following next from the head is to go along the chain.
LEMMA OnChain ==
  ASSUME NEW h \in Cells, NEW nx \in [Cells -> Cells], NEW N,
         N = CHOOSE F : F = [n \in 0 .. MaxElems |-> IF n = 0 THEN h ELSE nx[F[n - 1]]],
         NEW c, NEW s, NEW b, IsChain(c, s, h, nx, b)
  PROVE  \A i \in 0 .. s : N[i] = c[i]
<1>1. N[0] = h /\ \A i \in 1 .. MaxElems : N[i] = nx[N[i - 1]]
  BY Following
<1> DEFINE P == {i \in 0 .. s : N[i] = c[i]}
<1>2. s \in Nat /\ s <= MaxElems /\ MaxElems \in Nat
  BY ListAssumption DEF IsChain, Cells, NULL
<1>3. 0 \in P
  BY <1>1, <1>2 DEF IsChain
<1>4. ASSUME NEW i \in 1 .. s, i - 1 \in P PROVE i \in P
  <2>1. i \in 0 .. s /\ i \in 1 .. MaxElems /\ i - 1 \in 0 .. s - 1 /\ (i - 1) + 1 = i
    BY <1>2
  <2>2. N[i] = nx[c[i - 1]]
    BY <1>1, <1>4, <2>1
  <2> QED
    BY <2>1, <2>2 DEF IsChain
<1> HIDE DEF P
<1>5. \A i \in 0 .. s : i \in P
  BY <1>2, <1>3, <1>4, UpTo
<1> QED
  BY <1>5 DEF P

\* Node and Contents, in a state with a chain and in one that follows.
LEMMA ContentsAre ==
  ASSUME TypeOK, NEW c, IsChain(c, size, head, next, brk)
  PROVE  /\ \A i \in 0 .. size : Node[i] = c[i]
         /\ Contents = [i \in 1 .. size |-> data[c[i - 1]]]
         /\ Contents \in Seq(Data \cup {NULL}) /\ Len(Contents) = size
<1>1. head \in Cells /\ next \in [Cells -> Cells] /\ size \in Nat
  BY DEF TypeOK
<1>2. Node = CHOOSE F : F = [n \in 0 .. MaxElems |-> IF n = 0 THEN head ELSE next[F[n - 1]]]
  BY DEF Node
<1>3. \A i \in 0 .. size : Node[i] = c[i]
  BY <1>1, <1>2, OnChain
<1>4. \A i \in 1 .. size : i - 1 \in 0 .. size
  BY <1>1
<1>5. \A i \in 1 .. size : data[Node[i - 1]] = data[c[i - 1]]
  BY <1>3, <1>4
<1>6. Contents = [i \in 1 .. size |-> data[c[i - 1]]]
  BY <1>5 DEF Contents
<1>7. \A i \in 1 .. size : data[c[i - 1]] \in Data \cup {NULL}
  <2>1. \A i \in 1 .. size : c[i - 1] \in Cells
    BY <1>4 DEF IsChain
  <2> QED
    BY <2>1 DEF TypeOK
<1>8. Contents \in [1 .. size -> Data \cup {NULL}]
  BY <1>6, <1>7
<1> QED
  BY <1>1, <1>3, <1>6, <1>8, IsSequence

LEMMA ContentsWillBe ==
  ASSUME TypeOK', NEW c, IsChain(c, size', head', next', brk')
  PROVE  /\ Contents' = [i \in 1 .. size' |-> data'[c[i - 1]]]
         /\ Contents' \in Seq(Data \cup {NULL}) /\ Len(Contents') = size'
<1>1. head' \in Cells /\ next' \in [Cells -> Cells] /\ size' \in Nat
  BY DEF TypeOK
<1>2. Node' = CHOOSE F : F = [n \in 0 .. MaxElems |-> IF n = 0 THEN head' ELSE next'[F[n - 1]]]
  BY DEF Node
<1>3. \A i \in 0 .. size' : Node'[i] = c[i]
  BY <1>1, <1>2, OnChain
<1>4. \A i \in 1 .. size' : i - 1 \in 0 .. size'
  BY <1>1
<1>5. \A i \in 1 .. size' : data'[Node'[i - 1]] = data'[c[i - 1]]
  BY <1>3, <1>4
<1>6. Contents' = [i \in 1 .. size' |-> data'[c[i - 1]]]
  BY <1>5 DEF Contents
<1>7. \A i \in 1 .. size' : data'[c[i - 1]] \in Data \cup {NULL}
  <2>1. \A i \in 1 .. size' : c[i - 1] \in Cells
    BY <1>4 DEF IsChain
  <2> QED
    BY <2>1 DEF TypeOK
<1>8. Contents' \in [1 .. size' -> Data \cup {NULL}]
  BY <1>6, <1>7
<1> QED
  BY <1>1, <1>6, <1>8, IsSequence
-------------------------------------------------------------------------------
(* The inductive invariant: there is a chain, of the length size says, and, when *)
(* push is not used, it can be walked both ways.                                 *)

Shape(c) ==
  /\ IsChain(c, size, head, next, brk)
  /\ "push" \notin ops => IsDouble(c, size, tail, prev)

ListInv == TypeOK /\ HeapHeaderIntact /\ \E c : Shape(c)

\* The kernel creates its lists with a chain of none or of one.
LEMMA InitList ==
  ASSUME Use, Init
  PROVE  ListInv /\ Abs!Init
<1>1. MaxElems \in Nat /\ 0 \in Cells /\ 1 \in Cells
  BY ListAssumption DEF Cells, NULL
<1>2. ret = NULL /\ ops \in Ops /\ Fresh = {NULL}
  BY DEF Init, Use
<1>3. CASE Empty
  <2> DEFINE c == [i \in 0 .. 0 |-> NULL]
  <2>1. TypeOK
    BY <1>1, <1>2, <1>3 DEF Empty, Blank, TypeOK, NULL
  <2>2. HeapHeaderIntact
    BY <1>1, <1>3 DEF Empty, Blank, HeapHeaderIntact, NULL
  <2>3. IsChain(c, size, head, next, brk)
    BY <1>1, <1>3 DEF Empty, IsChain, NULL
  <2>4. IsDouble(c, size, tail, prev)
    BY <1>3 DEF Empty, IsDouble
  <2> HIDE DEF c
  <2>5. Contents = [i \in 1 .. size |-> data[c[i - 1]]]
    BY <2>1, <2>3, ContentsAre
  <2>6. Contents = <<>>
    BY <1>3, <2>5 DEF Empty
  <2> QED
    BY <1>2, <2>1, <2>2, <2>3, <2>4, <2>6 DEF ListInv, Shape, Abs!Init
<1>4. ASSUME NEW d \in Data, One(d) PROVE ListInv /\ Abs!Init
  <2> DEFINE c == [i \in 0 .. 1 |-> IF i = 0 THEN 1 ELSE NULL]
  <2>0. /\ size = 1 /\ head = 1 /\ tail = 1 /\ brk = 1
        /\ data = [Blank EXCEPT ![1] = d] /\ next = Blank /\ prev = Blank
    BY <1>1, <1>2, <1>4 DEF One, Blank, NULL
  <2>1. TypeOK
    BY <1>1, <1>2, <2>0 DEF Blank, TypeOK, NULL
  <2>2. HeapHeaderIntact
    BY <1>1, <2>0 DEF Blank, HeapHeaderIntact, NULL
  <2>3. IsChain(c, size, head, next, brk)
    BY <1>1, <2>0 DEF IsChain, Blank, NULL
  <2>4. IsDouble(c, size, tail, prev)
    BY <1>1, <2>0 DEF IsDouble, Blank, NULL
  <2>5. c[0] = 1
    OBVIOUS
  <2> HIDE DEF c
  <2>6. Contents = [i \in 1 .. size |-> data[c[i - 1]]]
    BY <2>1, <2>3, ContentsAre
  <2>7. data[1] = d
    BY <1>1, <2>0 DEF Blank
  <2>8. Contents = [i \in 1 .. 1 |-> d]
    BY <2>0, <2>5, <2>6, <2>7
  <2>9. Contents = <<d>>
    BY <2>8
  <2> QED
    BY <1>2, <2>1, <2>2, <2>3, <2>4, <2>9 DEF ListInv, Shape, Abs!Init
<1> QED
  BY <1>3, <1>4 DEF Init

\* append puts the new element behind the last one.
LEMMA AppendStep ==
  ASSUME Use, ListInv, NEW d \in Data, append(d)
  PROVE  ListInv' /\ Abs!Append_(d)
<1> DEFINE e == brk + 1
<1>1. PICK c : Shape(c)
  BY DEF ListInv
<1>2. /\ TypeOK /\ HeapHeaderIntact /\ "push" \notin ops
      /\ IsChain(c, size, head, next, brk) /\ IsDouble(c, size, tail, prev)
  BY <1>1 DEF Use, ListInv, TypeOK, Shape, append
<1>3. /\ brk \in Nat /\ MaxElems \in Nat /\ e \in Cells /\ e # NULL /\ size \in Nat
      /\ e \in 1 .. e /\ size <= brk
      /\ \A i \in 0 .. size - 1 : c[i] # e /\ c[i] # NULL /\ c[i] \in Cells /\ c[i] \in 1 .. e
  BY <1>2, ListAssumption DEF TypeOK, IsChain, append, Cells, NULL
<1>4. /\ brk' = e /\ size' = size + 1 /\ tail' = e /\ ret' = NULL /\ ops' = ops
      /\ data' = [data EXCEPT ![e] = d]
  BY DEF append
<1>5. size > 0 => tail = c[size - 1] /\ tail # e /\ tail \in Cells /\ tail # NULL
  BY <1>2, <1>3 DEF IsDouble
<1>6. /\ head' = IF size = 0 THEN e ELSE head
      /\ next' = IF size = 0 THEN [next EXCEPT ![e] = NULL] ELSE [next EXCEPT ![e] = NULL, ![tail] = e]
      /\ prev' = IF size = 0 THEN [prev EXCEPT ![e] = NULL] ELSE [prev EXCEPT ![e] = tail]
  BY <1>4 DEF append, is_empty, LinkLast, Use
<1>0. /\ NULL \in Cells /\ head \in Cells /\ next \in [Cells -> Cells] /\ prev \in [Cells -> Cells]
      /\ data \in [Cells -> Data \cup {NULL}]
  <2>1. NULL \in Cells
    BY <1>3 DEF Cells, NULL
  <2> QED
    BY <1>2, <2>1 DEF TypeOK
<1>7. TypeOK'
  <2>1. data' \in [Cells -> Data \cup {NULL}]
    BY <1>0, <1>4
  <2>2. next' \in [Cells -> Cells]
    BY <1>0, <1>3, <1>5, <1>6
  <2>3. prev' \in [Cells -> Cells]
    BY <1>0, <1>3, <1>5, <1>6
  <2>4. head' \in Cells
    BY <1>0, <1>3, <1>6
  <2>5. size' \in Nat
    BY <1>3, <1>4
  <2> QED
    BY <1>2, <1>3, <1>4, <2>1, <2>2, <2>3, <2>4, <2>5 DEF TypeOK
<1>8. HeapHeaderIntact'
  <2>1. next'[NULL] = next[NULL] /\ prev'[NULL] = prev[NULL] /\ data'[NULL] = data[NULL]
    <3>1. CASE size = 0
      BY <1>0, <1>3, <1>4, <1>6, <3>1
    <3>2. CASE size > 0
      BY <1>0, <1>3, <1>4, <1>5, <1>6, <3>2
    <3> QED
      BY <1>3, <3>1, <3>2
  <2> QED
    BY <1>2, <1>4, <2>1 DEF HeapHeaderIntact
<1>9. /\ next'[e] = NULL /\ prev'[e] = IF size = 0 THEN NULL ELSE c[size - 1]
      /\ size > 0 => next'[c[size - 1]] = e
      /\ \A i \in 0 .. size - 1 : prev'[c[i]] = prev[c[i]]
      /\ \A i \in 0 .. size - 1 : i # size - 1 => next'[c[i]] = next[c[i]]
  <2>1. /\ next'[e] = NULL /\ prev'[e] = IF size = 0 THEN NULL ELSE c[size - 1]
        /\ size > 0 => next'[c[size - 1]] = e
    <3>1. CASE size = 0
      BY <1>0, <1>3, <1>6, <3>1
    <3>2. CASE size > 0
      BY <1>0, <1>3, <1>5, <1>6, <3>2
    <3> QED
      BY <1>3, <3>1, <3>2
  <2>2. ASSUME NEW i \in 0 .. size - 1
        PROVE  prev'[c[i]] = prev[c[i]] /\ (i # size - 1 => next'[c[i]] = next[c[i]])
    <3>1. size > 0 /\ size - 1 \in 0 .. size - 1
      BY <1>3
    <3>2. i # size - 1 => c[i] # tail
      BY <1>2, <1>5, <3>1 DEF IsChain
    <3> QED
      BY <1>2, <1>3, <1>5, <1>6, <3>1, <3>2 DEF TypeOK
  <2> QED
    BY <2>1, <2>2
<1> DEFINE k == [i \in 0 .. size + 1 |-> IF i < size THEN c[i] ELSE IF i = size THEN e ELSE NULL]
<1>10. /\ k[size] = e /\ k[size + 1] = NULL
       /\ \A i \in 0 .. size - 1 : k[i] = c[i]
  BY <1>3
<1>11. k \in [0 .. size + 1 -> Cells]
  <2>1. NULL \in Cells
    BY <1>3 DEF Cells, NULL
  <2> QED
    BY <1>3, <2>1
<1> HIDE DEF k, e
<1>12. IsChain(k, size + 1, head', next', e)
  <2>1. size + 1 \in Nat /\ size + 1 <= e
    BY <1>3 DEF e
  <2>2. k[0] = head'
    BY <1>2, <1>3, <1>6, <1>10 DEF IsChain
  <2>3. ASSUME NEW i \in 0 .. size PROVE k[i] \in 1 .. e /\ next'[k[i]] = k[i + 1]
    <3>1. CASE i = size
      BY <1>3, <1>9, <1>10, <3>1
    <3>2. CASE i = size - 1
      BY <1>3, <1>9, <1>10, <3>2
    <3>3. CASE i # size /\ i # size - 1
      <4>1. i \in 0 .. size - 1 /\ i + 1 \in 0 .. size - 1
        BY <1>3, <3>3
      <4>2. next'[c[i]] = next[c[i]] /\ next[c[i]] = c[i + 1]
        BY <1>2, <1>9, <3>3, <4>1 DEF IsChain
      <4> QED
        BY <1>3, <1>10, <4>1, <4>2
    <3> QED
      BY <3>1, <3>2, <3>3
  <2>4. ASSUME NEW i \in 0 .. size, NEW j \in 0 .. size, k[i] = k[j] PROVE i = j
    <3>1. \A m \in 0 .. size : m = size \/ m \in 0 .. size - 1
      BY <1>3
    <3> QED
      BY <1>2, <1>3, <1>10, <2>4, <3>1 DEF IsChain
  <2>5. (size + 1) - 1 = size
    BY <1>3
  <2> QED
    BY <1>3, <1>10, <1>11, <2>1, <2>2, <2>3, <2>4, <2>5 DEF IsChain
<1>13. IsDouble(k, size + 1, tail', prev')
  <2>1. k[(size + 1) - 1] = e
    BY <1>3, <1>10
  <2>2. prev'[k[0]] = NULL
    BY <1>2, <1>3, <1>9, <1>10 DEF IsDouble
  <2>3. ASSUME NEW i \in 1 .. size PROVE prev'[k[i]] = k[i - 1]
    <3>1. i - 1 \in 0 .. size - 1 /\ (i = size \/ i \in 0 .. size - 1)
      BY <1>3
    <3>2. k[i - 1] = c[i - 1]
      BY <1>10, <3>1
    <3>3. CASE i = size
      BY <1>3, <1>9, <1>10, <3>1, <3>2, <3>3
    <3>4. CASE i \in 0 .. size - 1
      BY <1>2, <1>3, <1>9, <1>10, <3>1, <3>2, <3>4 DEF IsDouble
    <3> QED
      BY <3>1, <3>3, <3>4
  <2> QED
    BY <1>3, <1>4, <2>1, <2>2, <2>3 DEF IsDouble, e
<1>14. brk' = e
  BY <1>4 DEF e
<1>15. ListInv'
  BY <1>4, <1>7, <1>8, <1>12, <1>13, <1>14 DEF ListInv, Shape
<1>16. Contents' = [i \in 1 .. size + 1 |-> data'[k[i - 1]]]
  BY <1>4, <1>7, <1>12, <1>14, ContentsWillBe
<1>17. Contents = [i \in 1 .. size |-> data[c[i - 1]]]
  BY <1>2, ContentsAre
<1>18. /\ data'[k[size]] = d /\ \A i \in 1 .. size : data'[k[i - 1]] = data[c[i - 1]]
  <2>1. \A i \in 1 .. size : i - 1 \in 0 .. size - 1
    BY <1>3
  <2> QED
    BY <1>2, <1>3, <1>4, <1>10, <2>1 DEF TypeOK, e
<1>19. Contents' = Append(Contents, d)
  <2>1. /\ Contents \in Seq(Data \cup {NULL}) /\ Len(Contents) = size
    BY <1>2, ContentsAre
  <2>2. /\ Append(Contents, d) \in Seq(Data \cup {NULL})
        /\ Len(Append(Contents, d)) = size + 1 /\ Append(Contents, d)[size + 1] = d
        /\ \A i \in 1 .. size : Append(Contents, d)[i] = Contents[i]
    BY <2>1, AppendProperties
  <2>3. /\ Contents' \in Seq(Data \cup {NULL}) /\ Len(Contents') = size + 1
    BY <1>4, <1>7, <1>12, <1>14, ContentsWillBe
  <2>4. ASSUME NEW i \in 1 .. size + 1 PROVE Contents'[i] = Append(Contents, d)[i]
    <3>1. CASE i = size + 1
      BY <1>3, <1>16, <1>18, <2>2, <3>1
    <3>2. CASE i # size + 1
      <4>1. i \in 1 .. size
        BY <1>3, <3>2
      <4> QED
        BY <1>16, <1>17, <1>18, <2>2, <4>1
    <3> QED
      BY <3>1, <3>2
  <2> QED
    BY <2>2, <2>3, <2>4, SeqEqual
<1> QED
  BY <1>4, <1>15, <1>19 DEF Abs!Append_
-------------------------------------------------------------------------------
(* Taking an element out. *)

\* The chain c of s elements without its n-th.
Cut(c, s, n) == [i \in 0 .. s - 1 |-> IF i < n THEN c[i] ELSE c[i + 1]]

\* It is the chain of pointers that lead past the n-th element.
LEMMA CutChain ==
  ASSUME NEW c, NEW s, NEW h, NEW nx, NEW b, IsChain(c, s, h, nx, b),
         NEW n \in 0 .. s - 1, NEW g, NEW ny,
         g = IF n = 0 THEN c[1] ELSE h,
         n > 0 => ny[c[n - 1]] = c[n + 1],
         \A i \in 0 .. s - 1 : i # n - 1 => ny[c[i]] = nx[c[i]]
  PROVE  IsChain(Cut(c, s, n), s - 1, g, ny, b)
<1> DEFINE k == Cut(c, s, n)
<1>1. /\ s \in Nat /\ b \in Nat /\ s <= b /\ b \in Cells /\ n \in 0 .. s - 1 /\ s > 0
      /\ c \in [0 .. s -> Cells] /\ c[0] = h /\ c[s] = NULL
      /\ \A i \in 0 .. s - 1 : c[i] \in 1 .. b /\ nx[c[i]] = c[i + 1]
  BY ListAssumption DEF IsChain, Cells, NULL
<1>2. \A i \in 0 .. s - 1 : i \in 0 .. s /\ i + 1 \in 0 .. s /\ i < s
  BY <1>1
<1>3. k \in [0 .. s - 1 -> Cells]
  BY <1>1, <1>2 DEF Cut
<1>4. \A i \in 0 .. s - 1 : k[i] = IF i < n THEN c[i] ELSE c[i + 1]
  BY DEF Cut
<1> HIDE DEF k
<1>5. k[0] = g
  BY <1>1, <1>4
<1>6. k[s - 1] = NULL
  BY <1>1, <1>4
<1>7. ASSUME NEW i \in 0 .. s - 2 PROVE k[i] \in 1 .. b /\ ny[k[i]] = k[i + 1]
  <2>1. i \in 0 .. s - 1 /\ i + 1 \in 0 .. s - 1 /\ (i + 1) + 1 = i + 2
    BY <1>1
  <2>2. CASE i + 1 < n
    <3>1. k[i] = c[i] /\ k[i + 1] = c[i + 1] /\ i # n - 1
      BY <1>1, <1>4, <2>1, <2>2
    <3> QED
      BY <1>1, <2>1, <3>1
  <2>3. CASE i + 1 = n
    <3>1. k[i] = c[i] /\ k[i + 1] = c[n + 1] /\ i = n - 1 /\ n > 0
      BY <1>1, <1>4, <2>1, <2>3
    <3> QED
      BY <1>1, <2>1, <3>1
  <2>4. CASE n < i + 1
    <3>1. k[i] = c[i + 1] /\ k[i + 1] = c[(i + 1) + 1] /\ i + 1 # n - 1
      BY <1>1, <1>4, <2>1, <2>4
    <3> QED
      BY <1>1, <2>1, <3>1
  <2> QED
    BY <1>1, <2>1, <2>2, <2>3, <2>4
<1>8. ASSUME NEW i \in 0 .. s - 2, NEW j \in 0 .. s - 2, k[i] = k[j] PROVE i = j
  <2> DEFINE up(m) == IF m < n THEN m ELSE m + 1
  <2>1. \A m \in 0 .. s - 2 : k[m] = c[up(m)] /\ up(m) \in 0 .. s - 1
    BY <1>1, <1>4
  <2>2. up(i) = up(j)
    <3>1. c[up(i)] = c[up(j)]
      BY <1>8, <2>1
    <3>2. up(i) \in 0 .. s - 1 /\ up(j) \in 0 .. s - 1
      BY <2>1
    <3> HIDE DEF up
    <3> QED
      BY <3>1, <3>2 DEF IsChain
  <2> QED
    BY <1>1, <2>2
<1>9. s - 1 \in Nat /\ s - 1 <= b /\ (s - 1) - 1 = s - 2
  BY <1>1
<1> QED
  BY <1>1, <1>3, <1>5, <1>6, <1>7, <1>8, <1>9 DEF IsChain, k

LEMMA CutDouble ==
  ASSUME NEW c, NEW s, NEW h, NEW nx, NEW b, IsChain(c, s, h, nx, b),
         NEW t, NEW pv, IsDouble(c, s, t, pv),
         NEW n \in 0 .. s - 1, NEW u, NEW pw,
         s > 1 => u = IF n = s - 1 THEN c[s - 2] ELSE t,
         n < s - 1 => pw[c[n + 1]] = IF n = 0 THEN NULL ELSE c[n - 1],
         \A i \in 0 .. s - 1 : i # n + 1 => pw[c[i]] = pv[c[i]]
  PROVE  IsDouble(Cut(c, s, n), s - 1, u, pw)
<1> DEFINE k == Cut(c, s, n)
<1> SUFFICES ASSUME s - 1 > 0
             PROVE  /\ u = k[s - 2] /\ pw[k[0]] = NULL
                    /\ \A i \in 1 .. s - 2 : pw[k[i]] = k[i - 1]
  <2>1. s \in Nat /\ (s - 1) - 1 = s - 2
    BY DEF IsChain
  <2> QED
    BY <2>1 DEF IsDouble
<1>1. /\ s \in Nat /\ s > 1 /\ n \in 0 .. s - 1
      /\ t = c[s - 1] /\ pv[c[0]] = NULL /\ \A i \in 1 .. s - 1 : pv[c[i]] = c[i - 1]
  BY DEF IsChain, IsDouble
<1>2. \A i \in 0 .. s - 1 : k[i] = IF i < n THEN c[i] ELSE c[i + 1]
  BY DEF Cut
<1> HIDE DEF k
<1>3. u = k[s - 2]
  <2>1. s - 2 \in 0 .. s - 1 /\ (s - 2) + 1 = s - 1
    BY <1>1
  <2>2. CASE n = s - 1
    BY <1>1, <1>2, <2>1, <2>2
  <2>3. CASE n # s - 1
    BY <1>1, <1>2, <2>1, <2>3
  <2> QED
    BY <2>2, <2>3
<1>4. pw[k[0]] = NULL
  <2>1. 0 \in 0 .. s - 1 /\ 0 + 1 = 1
    BY <1>1
  <2>2. CASE n = 0
    BY <1>1, <1>2, <2>1, <2>2
  <2>3. CASE n # 0
    BY <1>1, <1>2, <2>1, <2>3
  <2> QED
    BY <2>2, <2>3
<1>5. ASSUME NEW i \in 1 .. s - 2 PROVE pw[k[i]] = k[i - 1]
  <2>1. i \in 1 .. s - 1 /\ i \in 0 .. s - 1 /\ i + 1 \in 1 .. s - 1 /\ i + 1 \in 0 .. s - 1
        /\ i - 1 \in 0 .. s - 1 /\ (i - 1) + 1 = i /\ (i + 1) - 1 = i
    BY <1>1
  <2>2. CASE i < n
    <3>1. k[i] = c[i] /\ k[i - 1] = c[i - 1] /\ i # n + 1
      BY <1>1, <1>2, <2>1, <2>2
    <3> QED
      BY <1>1, <2>1, <3>1
  <2>3. CASE i = n
    <3>1. k[i] = c[n + 1] /\ k[i - 1] = c[n - 1] /\ n < s - 1 /\ n # 0
      BY <1>1, <1>2, <2>1, <2>3
    <3> QED
      BY <3>1
  <2>4. CASE n < i
    <3>1. k[i] = c[i + 1] /\ k[i - 1] = c[i] /\ i + 1 # n + 1
      BY <1>1, <1>2, <2>1, <2>4
    <3> QED
      BY <1>1, <2>1, <3>1
  <2> QED
    BY <1>1, <2>1, <2>2, <2>3, <2>4
<1> QED
  BY <1>3, <1>4, <1>5

\* The contents go with the chain.
LEMMA CutContents ==
  ASSUME TypeOK, TypeOK', NEW c, IsChain(c, size, head, next, brk),
         NEW n \in 0 .. size - 1, size' = size - 1, data' = data,
         IsChain(Cut(c, size, n), size', head', next', brk')
  PROVE  Contents' \in Seq(Data \cup {NULL}) /\ IsCut(Contents', Contents, n + 1)
<1> DEFINE k == Cut(c, size, n)
<1>1. /\ Contents = [i \in 1 .. size |-> data[c[i - 1]]] /\ Len(Contents) = size
  BY ContentsAre
<1>2. /\ Contents' = [i \in 1 .. size' |-> data'[k[i - 1]]]
      /\ Contents' \in Seq(Data \cup {NULL}) /\ Len(Contents') = size'
  <2> HIDE DEF k
  <2>1. IsChain(k, size', head', next', brk')
    BY DEF k
  <2> QED
    BY <2>1, ContentsWillBe
<1>3. size \in Nat /\ size > 0
  BY DEF IsChain
<1>4. \A i \in 0 .. size - 1 : k[i] = IF i < n THEN c[i] ELSE c[i + 1]
  BY DEF Cut
<1> HIDE DEF k
<1>5. ASSUME NEW i \in 1 .. size - 1
      PROVE  Contents'[i] = IF i < n + 1 THEN Contents[i] ELSE Contents[i + 1]
  <2>1. i - 1 \in 0 .. size - 1 /\ i \in 1 .. size /\ i + 1 \in 1 .. size
        /\ (i - 1) + 1 = i /\ (i + 1) - 1 = i /\ (i - 1 < n <=> i < n + 1)
    BY <1>3
  <2>2. Contents'[i] = data[k[i - 1]] /\ Contents[i] = data[c[i - 1]] /\ Contents[i + 1] = data[c[i]]
    BY <1>1, <1>2, <2>1
  <2>3. k[i - 1] = IF i < n + 1 THEN c[i - 1] ELSE c[i]
    BY <1>4, <2>1
  <2> QED
    BY <2>2, <2>3
<1> QED
  BY <1>1, <1>2, <1>5 DEF IsCut
-------------------------------------------------------------------------------
(* The other calls. *)

\* pop takes the first element, whatever the list is used as.
LEMMA PopStep ==
  ASSUME ListInv, pop
  PROVE  ListInv' /\ Abs!Pop
<1>1. PICK c : Shape(c)
  BY DEF ListInv
<1>2. /\ TypeOK /\ HeapHeaderIntact /\ IsChain(c, size, head, next, brk)
      /\ size \in Nat /\ ops' = ops /\ tail' = tail /\ data' = data /\ next' = next /\ brk' = brk
  BY <1>1 DEF ListInv, TypeOK, Shape, pop
<1>3. Contents \in Seq(Data \cup {NULL}) /\ Len(Contents) = size
  BY <1>2, ContentsAre
<1>4. CASE size = 0
  <2>1. ret' = NULL /\ size' = size /\ head' = head /\ prev' = prev
    BY <1>4 DEF pop, is_empty
  <2>2. TypeOK' /\ HeapHeaderIntact' /\ Shape(c)'
    BY <1>1, <1>2, <2>1 DEF TypeOK, HeapHeaderIntact, Shape
  <2>3. Contents' = Contents
    BY <1>2, <2>1 DEF Contents, Node
  <2>4. Contents = <<>>
    BY <1>3, <1>4, EmptySeq
  <2> QED
    BY <2>1, <2>2, <2>3, <2>4 DEF ListInv, Abs!Pop
<1>5. CASE size > 0
  <2>0. /\ NULL \in Cells /\ head \in Cells /\ head = c[0] /\ next[head] = c[1] /\ c[1] \in Cells
        /\ prev \in [Cells -> Cells] /\ 0 \in 0 .. size - 1 /\ 1 \in 0 .. size
    <3>1. 0 \in 0 .. size - 1 /\ 1 \in 0 .. size /\ 0 + 1 = 1
      BY <1>2, <1>5
    <3>2. head \in Cells /\ prev \in [Cells -> Cells]
      BY <1>2 DEF TypeOK
    <3>3. head = c[0] /\ next[c[0]] = c[0 + 1] /\ c[1] \in Cells
      BY <1>2, <3>1 DEF IsChain
    <3> QED
      BY <3>1, <3>2, <3>3, NullIsMapped
  <2>1. /\ ret' = data[head] /\ head' = c[1] /\ size' = size - 1
        /\ prev' = [prev EXCEPT ![c[1]] = NULL]
    BY <1>5, <2>0 DEF pop, is_empty
  <2>2. /\ prev' \in [Cells -> Cells] /\ prev'[c[1]] = NULL
        /\ \A a \in Cells : a # c[1] => prev'[a] = prev[a]
    BY <2>0, <2>1, Store
  <2>3. TypeOK'
    <3>1. size' \in Nat
      BY <1>2, <1>5, <2>1
    <3>2. ret' \in Data \cup {NULL, true, PANIC}
      BY <1>2, <2>0, <2>1 DEF TypeOK
    <3> QED
      BY <1>2, <2>0, <2>1, <2>2, <3>1, <3>2 DEF TypeOK
  <2>4. HeapHeaderIntact'
    BY <1>2, <2>0, <2>2 DEF HeapHeaderIntact
  <2> DEFINE k == Cut(c, size, 0)
  <2>5. IsChain(k, size - 1, head', next', brk)
    BY <1>2, <2>0, <2>1, CutChain
  <2>6. ASSUME "push" \notin ops PROVE IsDouble(k, size - 1, tail, prev')
    <3>1. IsDouble(c, size, tail, prev)
      BY <1>1, <2>6 DEF Shape
    <3>2. ASSUME NEW i \in 0 .. size - 1, i # 0 + 1 PROVE prev'[c[i]] = prev[c[i]]
      <4>1. c[i] \in Cells
        BY <1>2, <3>2 DEF IsChain
      <4>2. c[i] # c[1]
        <5>1. CASE size = 1
          BY <1>2, <3>2, <5>1 DEF IsChain, NULL
        <5>2. CASE size > 1
          <6>1. 1 \in 0 .. size - 1
            BY <1>2, <5>2
          <6> QED
            BY <1>2, <3>2, <6>1 DEF IsChain
        <5> QED
          BY <1>2, <1>5, <5>1, <5>2
      <4> QED
        BY <2>2, <4>1, <4>2
    <3>3. 0 < size - 1 => prev'[c[0 + 1]] = NULL
      BY <2>2
    <3>4. size > 1 => 0 # size - 1
      BY <1>2
    <3> QED
      BY <1>2, <2>0, <3>1, <3>2, <3>3, <3>4, CutDouble
  <2> HIDE DEF k
  <2>7. ListInv'
    BY <1>2, <2>1, <2>3, <2>4, <2>5, <2>6 DEF ListInv, Shape
  <2>8. Contents' \in Seq(Data \cup {NULL}) /\ IsCut(Contents', Contents, 0 + 1)
    BY <1>2, <2>0, <2>1, <2>3, <2>5, CutContents DEF k
  <2>9. Contents # <<>>
    BY <1>3, <1>5, EmptySeq
  <2>10. /\ Tail(Contents) \in Seq(Data \cup {NULL}) /\ Len(Tail(Contents)) = size - 1
         /\ \A i \in 1 .. size - 1 : Tail(Contents)[i] = Contents[i + 1]
    BY <1>3, <2>9, HeadTailProperties
  <2>11. Len(Contents') = size - 1 /\ \A i \in 1 .. size - 1 : Contents'[i] = Contents[i + 1]
    BY <1>2, <1>3, <2>8 DEF IsCut
  <2>12. Contents' = Tail(Contents)
    BY <2>8, <2>10, <2>11, SeqEqual
  <2>13. ret' = Head(Contents)
    <3>1. Contents = [i \in 1 .. size |-> data[c[i - 1]]]
      BY <1>2, ContentsAre
    <3>2. Contents[1] = data[c[0]]
      BY <1>2, <1>5, <3>1
    <3> QED
      BY <1>3, <2>0, <2>1, <2>9, <3>2
  <2> QED
    BY <2>7, <2>9, <2>12, <2>13 DEF Abs!Pop
<1> QED
  BY <1>2, <1>4, <1>5

\* push puts the new element before the first one.
LEMMA PushStep ==
  ASSUME Use, ListInv, NEW d \in Data, push(d)
  PROVE  ListInv' /\ Abs!Push(d)
<1> DEFINE e == brk + 1
<1>1. PICK c : Shape(c)
  BY DEF ListInv
<1>2. /\ TypeOK /\ "push" \in ops /\ IsChain(c, size, head, next, brk)
  BY <1>1 DEF ListInv, Shape, push
<1>3. /\ brk \in Nat /\ e \in Cells /\ size \in Nat /\ e \in 1 .. e /\ size <= brk
      /\ \A i \in 0 .. size - 1 : c[i] # e /\ c[i] \in Cells /\ c[i] \in 1 .. e
  <2>1. MaxElems \in Nat /\ brk \in 0 .. MaxElems /\ brk < MaxElems /\ size \in Nat
    BY <1>2, ListAssumption DEF TypeOK, push, Cells, NULL
  <2>2. size <= brk /\ \A i \in 0 .. size - 1 : c[i] \in 1 .. brk
    BY <1>2 DEF IsChain
  <2> QED
    BY <2>1, <2>2 DEF Cells, NULL
<1>4. /\ NULL \in Cells /\ head \in Cells /\ next \in [Cells -> Cells] /\ prev \in [Cells -> Cells]
      /\ data \in [Cells -> Data \cup {NULL}]
  BY <1>2, NullIsMapped DEF TypeOK
<1>5. /\ brk' = e /\ size' = size + 1 /\ head' = e /\ tail' = tail /\ ret' = NULL /\ ops' = ops
      /\ data' = [data EXCEPT ![e] = d] /\ next' = [next EXCEPT ![e] = head]
  BY DEF push, LinkFirst
<1>6. prev' = [prev EXCEPT ![e] = NULL, ![head] = e]
  BY <1>5 DEF push, Use
<1> HIDE DEF e
<1>7. /\ next' \in [Cells -> Cells] /\ next'[e] = head
      /\ \A a \in Cells : a # e => next'[a] = next[a]
  BY <1>3, <1>4, <1>5, Store
<1>8. /\ data' \in [Cells -> Data \cup {NULL}] /\ data'[e] = d
      /\ \A a \in Cells : a # e => data'[a] = data[a]
  BY <1>3, <1>4, <1>5, Store
<1>9. prev' \in [Cells -> Cells]
  BY <1>3, <1>4, <1>6
<1>10. TypeOK'
  <2>1. size' \in Nat
    BY <1>3, <1>5
  <2> QED
    BY <1>2, <1>3, <1>5, <1>7, <1>8, <1>9, <2>1 DEF TypeOK
<1> DEFINE k == [i \in 0 .. size + 1 |-> IF i = 0 THEN e ELSE c[i - 1]]
<1>11. \A i \in 0 .. size : i + 1 \in 0 .. size + 1 /\ i + 1 # 0 /\ (i + 1) - 1 = i
  BY <1>3
<1>12. k[0] = e /\ \A i \in 0 .. size : k[i + 1] = c[i]
  BY <1>3, <1>11
<1>13. k \in [0 .. size + 1 -> Cells]
  <2>1. \A i \in 0 .. size + 1 : i # 0 => i - 1 \in 0 .. size
    BY <1>3
  <2> QED
    BY <1>2, <1>3, <2>1 DEF IsChain
<1> HIDE DEF k
<1>14. IsChain(k, size + 1, head', next', e)
  <2>1. size + 1 \in Nat /\ size + 1 <= e
    BY <1>3 DEF e
  <2>2. ASSUME NEW i \in 0 .. size PROVE i = 0 \/ (i - 1 \in 0 .. size - 1 /\ k[i] = c[i - 1])
    <3>1. i # 0 => i - 1 \in 0 .. size - 1 /\ i - 1 \in 0 .. size /\ (i - 1) + 1 = i
      BY <1>3
    <3> QED
      BY <1>12, <3>1
  <2>3. ASSUME NEW i \in 0 .. size PROVE k[i] \in 1 .. e /\ next'[k[i]] = k[i + 1]
    <3>1. CASE i = 0
      BY <1>2, <1>3, <1>7, <1>12, <3>1 DEF IsChain
    <3>2. CASE i # 0
      <4>1. i - 1 \in 0 .. size - 1 /\ k[i] = c[i - 1] /\ (i - 1) + 1 = i
        BY <2>2, <3>2
      <4>2. next'[c[i - 1]] = c[i]
        BY <1>2, <1>3, <1>7, <4>1 DEF IsChain
      <4> QED
        BY <1>3, <1>12, <4>1, <4>2
    <3> QED
      BY <3>1, <3>2
  <2>4. ASSUME NEW i \in 0 .. size, NEW j \in 0 .. size, k[i] = k[j] PROVE i = j
    <3>1. CASE i = 0 \/ j = 0
      BY <1>3, <1>12, <2>2, <2>4, <3>1
    <3>2. CASE i # 0 /\ j # 0
      <4>1. i - 1 \in 0 .. size - 1 /\ j - 1 \in 0 .. size - 1 /\ c[i - 1] = c[j - 1]
        BY <2>2, <2>4, <3>2
      <4>2. i - 1 = j - 1
        BY <1>2, <4>1 DEF IsChain
      <4> QED
        BY <1>3, <4>2
    <3> QED
      BY <3>1, <3>2
  <2>5. (size + 1) - 1 = size /\ k[size + 1] = NULL
    BY <1>2, <1>3, <1>12 DEF IsChain
  <2> QED
    BY <1>3, <1>5, <1>12, <1>13, <2>1, <2>3, <2>4, <2>5 DEF IsChain
<1>15. ListInv'
  BY <1>2, <1>5, <1>10, <1>14 DEF ListInv, Shape, HeapHeaderIntact
<1>16. /\ Contents = [i \in 1 .. size |-> data[c[i - 1]]]
       /\ Contents \in Seq(Data \cup {NULL}) /\ Len(Contents) = size
  BY <1>2, ContentsAre
<1>17. /\ Contents' = [i \in 1 .. size + 1 |-> data'[k[i - 1]]]
       /\ Contents' \in Seq(Data \cup {NULL}) /\ Len(Contents') = size + 1
  BY <1>5, <1>10, <1>14, ContentsWillBe
<1>18. Contents' = <<d>> \o Contents
  <2>1. <<d>> \in Seq(Data \cup {NULL}) /\ Len(<<d>>) = 1 /\ <<d>>[1] = d
    OBVIOUS
  <2>2. /\ <<d>> \o Contents \in Seq(Data \cup {NULL}) /\ Len(<<d>> \o Contents) = 1 + size
        /\ \A i \in 1 .. 1 + size :
             (<<d>> \o Contents)[i] = IF i <= 1 THEN <<d>>[i] ELSE Contents[i - 1]
    <3>1. PICK one : one = <<d>>
      OBVIOUS
    <3>0. one \in Seq(Data \cup {NULL})
      BY <2>1, <3>1, Zenon
    <3>2. /\ one \o Contents \in Seq(Data \cup {NULL})
          /\ Len(one \o Contents) = Len(one) + Len(Contents)
          /\ \A i \in 1 .. Len(one) + Len(Contents) :
               (one \o Contents)[i] = IF i <= Len(one) THEN one[i] ELSE Contents[i - Len(one)]
      BY <1>16, <3>0, ConcatProperties
    <3>3. Len(one) = 1 /\ Len(Contents) = size
      BY <1>16, <2>1, <3>1
    <3>4. /\ Len(one \o Contents) = 1 + size
          /\ \A i \in 1 .. 1 + size :
               (one \o Contents)[i] = IF i <= 1 THEN one[i] ELSE Contents[i - 1]
      <4>1. Len(one) + Len(Contents) = 1 + size
        BY <3>3
      <4>2. ASSUME NEW i \in 1 .. 1 + size
            PROVE  (one \o Contents)[i] = IF i <= 1 THEN one[i] ELSE Contents[i - 1]
        <5>1. (one \o Contents)[i] = IF i <= Len(one) THEN one[i] ELSE Contents[i - Len(one)]
          BY <3>2, <4>1, Zenon
        <5> QED
          BY <3>3, <5>1, Zenon
      <4> QED
        BY <3>2, <4>1, <4>2
    <3> QED
      BY <3>1, <3>2, <3>4, Zenon
  <2>3. ASSUME NEW i \in 1 .. size + 1 PROVE Contents'[i] = (<<d>> \o Contents)[i]
    <3>1. CASE i = 1
      BY <1>3, <1>8, <1>12, <1>17, <2>1, <2>2, <3>1
    <3>2. CASE i # 1
      <4>1. i - 1 \in 1 .. size /\ i - 2 \in 0 .. size - 1 /\ i - 2 \in 0 .. size /\ (i - 2) + 1 = i - 1
            /\ (i - 1) - 1 = i - 2 /\ i \in 1 .. 1 + size /\ ~(i <= 1)
        BY <1>3, <3>2
      <4>2. k[i - 1] = c[i - 2] /\ c[i - 2] # e /\ c[i - 2] \in Cells
        BY <1>3, <1>12, <4>1
      <4>3. Contents'[i] = data[c[i - 2]] /\ Contents[i - 1] = data[c[i - 2]]
        BY <1>8, <1>16, <1>17, <4>1, <4>2
      <4> QED
        BY <2>2, <4>1, <4>3
    <3> QED
      BY <3>1, <3>2
  <2>4. 1 + size = size + 1
    BY <1>3
  <2> QED
    BY <1>17, <2>2, <2>3, <2>4, SeqEqual
<1> QED
  BY <1>5, <1>15, <1>18 DEF Abs!Push
\* list_get reads.
LEMMA GetStep ==
  ASSUME ListInv, NEW i \in 0 .. size, list_get(i)
  PROVE  ListInv' /\ Abs!Get(i)
<1>1. PICK c : Shape(c)
  BY DEF ListInv
<1>2. /\ TypeOK /\ HeapHeaderIntact /\ IsChain(c, size, head, next, brk) /\ size \in Nat
      /\ UNCHANGED <<ops, size, head, tail, data, next, prev, brk>>
  BY <1>1 DEF ListInv, TypeOK, Shape, list_get, heap
<1>3. /\ Contents = [j \in 1 .. size |-> data[c[j - 1]]] /\ Len(Contents) = size
      /\ \A j \in 0 .. size : Node[j] = c[j]
  BY <1>2, ContentsAre
<1>4. i < size => data[Node[i]] \in Data \cup {NULL}
  <2>1. i < size => c[i] \in Cells
    BY <1>2 DEF IsChain
  <2> QED
    BY <1>2, <1>3, <2>1 DEF TypeOK
<1>5. ret' = IF i < size THEN data[Node[i]] ELSE PANIC
  BY DEF list_get
<1>6. ret' \in Data \cup {NULL, true, PANIC}
  BY <1>4, <1>5
<1>7. TypeOK' /\ HeapHeaderIntact' /\ Shape(c)'
  BY <1>1, <1>2, <1>6 DEF TypeOK, HeapHeaderIntact, Shape
<1>8. Contents' = Contents
  BY <1>2 DEF Contents, Node
<1>9. i < size => Contents[i + 1] = data[Node[i]]
  <2>1. i < size => i + 1 \in 1 .. size /\ (i + 1) - 1 = i
    BY <1>2
  <2> QED
    BY <1>3, <2>1
<1> QED
  BY <1>3, <1>5, <1>7, <1>8, <1>9 DEF ListInv, Abs!Get

\* The loop of remove stops at the first element that holds d, or at the last; on an
\* empty list it stops at once, at what lies at address 0.
LEMMA WalkStops ==
  ASSUME ListInv, "push" \notin ops, NEW d \in Data,
         NEW c, IsChain(c, size, head, next, brk)
  PROVE  \/ /\ data[Walk(d)] # d /\ \A i \in 1 .. size : Contents[i] # d
         \/ \E n \in 0 .. size - 1 :
              /\ Walk(d) = c[n] /\ Contents[n + 1] = d
              /\ \A i \in 1 .. n : Contents[i] # d
<1>1. /\ Contents = [j \in 1 .. size |-> data[c[j - 1]]]
      /\ \A j \in 0 .. size : Node[j] = c[j]
  BY ContentsAre DEF ListInv
<1>2. /\ size \in Nat /\ MaxElems \in Nat /\ size <= MaxElems
      /\ next[NULL] = NULL /\ data[NULL] = NULL /\ d # NULL
  BY ListAssumption DEF ListInv, HeapHeaderIntact, IsChain, Cells, NULL
<1> DEFINE I == {n \in 0 .. MaxElems : StopsAt(n, d)}
           first(n) == StopsAt(n, d) /\ \A k \in 0 .. n - 1 : ~StopsAt(k, d)
           last == IF size = 0 THEN 0 ELSE size - 1
<1>3. last \in 0 .. size /\ last \in 0 .. MaxElems
  BY <1>2
<1>4. next[c[last]] = NULL
  <2>1. CASE size = 0
    BY <1>2, <2>1 DEF IsChain
  <2>2. CASE size # 0
    <3>1. size - 1 \in 0 .. size - 1 /\ (size - 1) + 1 = size
      BY <1>2, <2>2
    <3> QED
      BY <2>2, <3>1 DEF IsChain
  <2> QED
    BY <2>1, <2>2
<1>5. StopsAt(last, d)
  BY <1>1, <1>3, <1>4 DEF StopsAt
<1> HIDE DEF last
<1>6. PICK m \in I : \A n \in I : m <= n
  <2>1. last \in I /\ I \in SUBSET Nat
    BY <1>3, <1>5
  <2> HIDE DEF I
  <2> QED
    BY <2>1, MinInSet
<1>7. m \in 0 .. MaxElems /\ first(m) /\ m <= last
  <2>1. m \in 0 .. MaxElems /\ StopsAt(m, d) /\ m <= last
    BY <1>3, <1>5, <1>6
  <2>2. ASSUME NEW k \in 0 .. m - 1 PROVE ~StopsAt(k, d)
    <3>1. k \in 0 .. MaxElems /\ ~(m <= k)
      BY <1>2, <2>1
    <3> QED
      BY <1>6, <3>1
  <2> QED
    BY <2>1, <2>2
<1>8. PICK n \in 0 .. MaxElems : first(n) /\ n = CHOOSE k \in 0 .. MaxElems : first(k)
  BY <1>7
<1>9. n <= last
  <2>1. ~(last < n)
    <3> SUFFICES ASSUME last < n PROVE FALSE
      OBVIOUS
    <3>1. last \in 0 .. n - 1
      BY <1>2, <1>3, <1>8
    <3> QED
      BY <1>5, <1>8, <3>1
  <2> QED
    BY <1>2, <1>3, <1>8, <2>1
<1>10. n \in 0 .. size /\ Node[n] = c[n]
  BY <1>1, <1>2, <1>3, <1>9
<1>11. Walk(d) = c[n]
  <2>1. Walk(d) = Node[n]
    BY <1>8 DEF Walk
  <2> QED
    BY <1>10, <2>1
<1>12. \A i \in 1 .. n : data[c[i - 1]] # d
  <2>1. \A i \in 1 .. n : i - 1 \in 0 .. n - 1 /\ i - 1 \in 0 .. size
    BY <1>2, <1>10
  <2> QED
    BY <1>1, <1>8, <2>1 DEF StopsAt
<1>13. CASE size = 0
  <2>1. n = 0 /\ c[0] = NULL
    BY <1>10, <1>13 DEF IsChain
  <2>2. data[Walk(d)] # d
    BY <1>2, <1>11, <2>1
  <2> QED
    BY <1>13, <2>2
<1>14. CASE size # 0
  <2>1. n \in 0 .. size - 1 /\ last = size - 1
    BY <1>2, <1>3, <1>9, <1>14 DEF last
  <2>2. \A i \in 1 .. n + 1 : i \in 1 .. size
    BY <1>2, <2>1
  <2>3. \A i \in 1 .. n : Contents[i] # d
    <3>1. \A i \in 1 .. n : i \in 1 .. size
      BY <1>2, <2>1
    <3> QED
      BY <1>1, <1>12, <3>1
  <2>4. Contents[n + 1] = data[c[n]]
    <3>1. n + 1 \in 1 .. size /\ (n + 1) - 1 = n
      BY <1>2, <2>1
    <3> QED
      BY <1>1, <3>1
  <2>5. CASE data[c[n]] = d
    BY <1>11, <2>1, <2>3, <2>4, <2>5
  <2>6. CASE data[c[n]] # d
    <3>1. next[c[n]] = NULL
      BY <1>8, <1>10, <2>6 DEF StopsAt
    <3>2. n = size - 1
      <4> SUFFICES ASSUME n # size - 1 PROVE FALSE
        OBVIOUS
      <4>1. n + 1 \in 0 .. size - 1
        BY <1>2, <2>1
      <4>2. next[c[n]] = c[n + 1] /\ c[n + 1] \in 1 .. brk
        BY <2>1, <4>1 DEF IsChain
      <4> QED
        BY <3>1, <4>2 DEF NULL
    <3>3. \A i \in 1 .. size : i = n + 1 \/ i \in 1 .. n
      BY <1>2, <3>2
    <3>4. \A i \in 1 .. size : Contents[i] # d
      BY <2>3, <2>4, <2>6, <3>3
    <3> QED
      BY <1>11, <2>6, <3>4
  <2> QED
    BY <2>5, <2>6
<1> QED
  BY <1>13, <1>14
\* remove takes out the first element that holds d, from the front, the middle or the end.
LEMMA RemoveStep ==
  ASSUME Use, ListInv, NEW d \in Data, remove(d)
  PROVE  ListInv' /\ Abs!Remove_(d)
<1>1. PICK c : Shape(c)
  BY DEF ListInv
<1>2. /\ TypeOK /\ HeapHeaderIntact /\ "push" \notin ops
      /\ IsChain(c, size, head, next, brk) /\ IsDouble(c, size, tail, prev)
      /\ ops' = ops /\ data' = data /\ brk' = brk /\ size \in Nat
  BY <1>1 DEF Use, ListInv, TypeOK, Shape, remove
<1>3. Contents \in Seq(Data \cup {NULL}) /\ Len(Contents) = size
  BY <1>2, ContentsAre
<1>4. PICK e : e = Walk(d)
  OBVIOUS
<1>5. CASE data[e] # d /\ \A i \in 1 .. size : Contents[i] # d
  <2>1. ret' = false /\ UNCHANGED <<size, head, tail, next, prev>>
    BY <1>4, <1>5 DEF remove
  <2>2. TypeOK' /\ HeapHeaderIntact' /\ Shape(c)'
    BY <1>1, <1>2, <2>1 DEF TypeOK, HeapHeaderIntact, Shape, false, NULL
  <2>3. Contents' = Contents
    BY <1>2, <2>1 DEF Contents, Node
  <2>4. ~Abs!Contains(Contents, d) /\ Abs!RemoveFirst(Contents, d) = Contents
    BY <1>3, <1>5 DEF Abs!Contains, Abs!RemoveFirst
  <2> QED
    BY <2>1, <2>2, <2>3, <2>4 DEF ListInv, Abs!Remove_
<1>6. ASSUME NEW n \in 0 .. size - 1, e = c[n], Contents[n + 1] = d,
             \A i \in 1 .. n : Contents[i] # d
      PROVE  ListInv' /\ Abs!Remove_(d)
  <2>1. /\ n + 1 \in 0 .. size /\ size > 0 /\ size - 1 \in 0 .. size - 1 /\ 0 \in 0 .. size - 1
        /\ n + 1 \in 1 .. size /\ (n + 1) - 1 = n /\ (n > 0 => n - 1 \in 0 .. size - 1)
    BY <1>2, <1>6
  <2>2. data[e] = d
    <3>1. Contents = [i \in 1 .. size |-> data[c[i - 1]]]
      BY <1>2, ContentsAre
    <3> QED
      BY <1>6, <2>1, <3>1
  <2>3. /\ \A i \in 0 .. size : c[i] \in Cells
        /\ \A i \in 0 .. size - 1 : c[i] \in 1 .. brk /\ c[i] # NULL
        /\ head = c[0] /\ next[c[n]] = c[n + 1] /\ tail = c[size - 1]
        /\ prev[c[n]] = IF n = 0 THEN NULL ELSE c[n - 1]
    <3>1. /\ \A i \in 0 .. size : c[i] \in Cells
          /\ \A i \in 0 .. size - 1 : c[i] \in 1 .. brk /\ c[i] # NULL
          /\ head = c[0] /\ next[c[n]] = c[n + 1]
      BY <1>2, <1>6 DEF IsChain, NULL
    <3>2. tail = c[size - 1] /\ prev[c[n]] = IF n = 0 THEN NULL ELSE c[n - 1]
      BY <1>2, <1>6, <2>1 DEF IsDouble
    <3> QED
      BY <3>1, <3>2
  <2>4. (e = head <=> n = 0) /\ (e = tail <=> n = size - 1)
    BY <1>2, <1>6, <2>1, <2>3 DEF IsChain
  <2>5. \A i \in 0 .. size - 1 : i # n + 1 => c[i] # c[n + 1]
    <3>1. CASE n = size - 1
      BY <1>2, <2>3, <3>1 DEF IsChain
    <3>2. CASE n # size - 1
      <4>1. n + 1 \in 0 .. size - 1
        BY <1>2, <1>6, <3>2
      <4> QED
        BY <1>2, <4>1 DEF IsChain
    <3> QED
      BY <3>1, <3>2
  <2>6. /\ head' = IF n = 0 THEN c[n + 1] ELSE head
        /\ tail' = IF n = size - 1 THEN prev[e] ELSE tail
        /\ next' = UnlinkNext(e) /\ prev' = UnlinkPrev(e)
        /\ size' = size - 1 /\ ret' = true
    BY <1>4, <1>6, <2>2, <2>3, <2>4 DEF remove
  <2>7. /\ next \in [Cells -> Cells] /\ prev \in [Cells -> Cells] /\ head \in Cells /\ tail \in Cells
        /\ NULL \in Cells /\ c[n + 1] \in Cells /\ e \in Cells /\ prev[e] \in Cells
    BY <1>2, <1>6, <2>1, <2>3, NullIsMapped DEF TypeOK
  <2>8. /\ next' \in [Cells -> Cells] /\ (n > 0 => next'[c[n - 1]] = c[n + 1])
        /\ \A a \in Cells : n = 0 \/ a # c[n - 1] => next'[a] = next[a]
    <3>1. CASE n = 0
      BY <2>4, <2>6, <2>7, <3>1 DEF UnlinkNext
    <3>2. CASE n # 0
      <4>1. n > 0 /\ c[n - 1] \in Cells
        <5>1. n > 0 /\ n - 1 \in 0 .. size
          BY <1>2, <3>2
        <5> QED
          BY <2>3, <5>1
      <4>2. next' = [next EXCEPT ![c[n - 1]] = c[n + 1]]
        <5>1. prev[e] = c[n - 1] /\ next[e] = c[n + 1] /\ e # head
          BY <1>6, <2>3, <2>4, <3>2
        <5> QED
          BY <2>6, <5>1 DEF UnlinkNext
      <4> QED
        BY <2>7, <3>2, <4>1, <4>2, Store
    <3> QED
      BY <3>1, <3>2
  <2>9. /\ prev' \in [Cells -> Cells] /\ \A a \in Cells : a # c[n + 1] => prev'[a] = prev[a]
        /\ n < size - 1 => prev'[c[n + 1]] = IF n = 0 THEN NULL ELSE c[n - 1]
        /\ prev'[c[n + 1]] \in {prev[c[n + 1]], NULL} \/ n < size - 1
    <3>0. PICK cut : cut = IF n = 0 THEN [prev EXCEPT ![c[n + 1]] = NULL] ELSE prev
      OBVIOUS
    <3>1. prev' = IF n = size - 1 THEN cut ELSE [cut EXCEPT ![c[n + 1]] = cut[e]]
      <4>1. next[e] = c[n + 1]
        BY <1>6, <2>3
      <4>2. UnlinkPrev(e) =
              IF e = tail THEN (IF e = head THEN [prev EXCEPT ![next[e]] = NULL] ELSE prev)
              ELSE [(IF e = head THEN [prev EXCEPT ![next[e]] = NULL] ELSE prev)
                      EXCEPT ![next[e]] =
                        (IF e = head THEN [prev EXCEPT ![next[e]] = NULL] ELSE prev)[e]]
        BY Zenon DEF UnlinkPrev
      <4>3. cut = IF e = head THEN [prev EXCEPT ![next[e]] = NULL] ELSE prev
        BY <2>4, <3>0, <4>1, Zenon
      <4>4. UnlinkPrev(e) = IF e = tail THEN cut ELSE [cut EXCEPT ![next[e]] = cut[e]]
        BY <4>2, <4>3, Zenon
      <4> QED
        BY <2>4, <2>6, <4>1, <4>4, Zenon
    <3>2. /\ cut \in [Cells -> Cells] /\ \A a \in Cells : a # c[n + 1] => cut[a] = prev[a]
          /\ cut[c[n + 1]] \in {prev[c[n + 1]], NULL}
      <4>1. CASE n = 0
        BY <2>7, <3>0, <4>1, Store
      <4>2. CASE n # 0
        BY <2>7, <3>0, <4>2
      <4> QED
        BY <4>1, <4>2
    <3>3. cut[e] = IF n = 0 THEN NULL ELSE c[n - 1]
      <4>1. e # c[n + 1]
        BY <1>6, <2>1, <2>5
      <4> QED
        BY <1>6, <2>3, <2>7, <3>2, <4>1
    <3>4. CASE n = size - 1
      BY <1>2, <3>1, <3>2, <3>4
    <3>5. CASE n # size - 1
      <4>1. cut[e] \in Cells /\ n < size - 1
        BY <1>2, <1>6, <2>7, <3>2, <3>5
      <4>2. prev' = [cut EXCEPT ![c[n + 1]] = cut[e]]
        BY <3>1, <3>5
      <4>3. /\ prev' \in [Cells -> Cells] /\ prev'[c[n + 1]] = cut[e]
            /\ \A a \in Cells : a # c[n + 1] => prev'[a] = cut[a]
        BY <2>7, <3>2, <4>1, <4>2, Store
      <4> QED
        BY <3>2, <3>3, <4>1, <4>3
    <3> QED
      BY <3>4, <3>5
  <2>10. TypeOK'
    <3>1. size' \in Nat /\ ret' \in Data \cup {NULL, true, PANIC}
      BY <1>2, <2>1, <2>6
    <3>2. head' \in Cells /\ tail' \in Cells
      BY <2>6, <2>7
    <3> QED
      BY <1>2, <2>8, <2>9, <3>1, <3>2 DEF TypeOK
  <2>11. HeapHeaderIntact'
    <3>1. next'[NULL] = next[NULL]
      BY <1>6, <2>1, <2>3, <2>7, <2>8
    <3>2. prev'[NULL] = NULL
      <4>1. prev[NULL] = NULL
        BY <1>2 DEF HeapHeaderIntact
      <4>2. CASE c[n + 1] = NULL
        <5>1. ~ (n < size - 1)
          <6> SUFFICES ASSUME n < size - 1 PROVE FALSE
            OBVIOUS
          <6>1. n + 1 \in 0 .. size - 1
            BY <1>2, <1>6
          <6> QED
            BY <2>3, <4>2, <6>1
        <5> QED
          BY <2>9, <4>1, <4>2, <5>1
      <4>3. CASE c[n + 1] # NULL
        BY <2>7, <2>9, <4>1, <4>3
      <4> QED
        BY <4>2, <4>3
    <3> QED
      BY <1>2, <3>1, <3>2 DEF HeapHeaderIntact
  <2> DEFINE k == Cut(c, size, n)
  <2>12. IsChain(k, size - 1, head', next', brk)
    <3>1. head' = IF n = 0 THEN c[1] ELSE head
      BY <2>6
    <3>2. ASSUME NEW i \in 0 .. size - 1, i # n - 1 PROVE next'[c[i]] = next[c[i]]
      <4>1. c[i] \in Cells
        BY <1>2, <2>3
      <4>2. n = 0 \/ c[i] # c[n - 1]
        <5>1. CASE n = 0
          BY <5>1
        <5>2. CASE n # 0
          <6>1. n - 1 \in 0 .. size - 1
            BY <1>6, <2>1, <5>2
          <6> QED
            BY <1>2, <3>2, <6>1 DEF IsChain
        <5> QED
          BY <5>1, <5>2
      <4> QED
        BY <2>8, <4>1, <4>2
    <3> QED
      BY <1>2, <2>8, <3>1, <3>2, CutChain
  <2>13. IsDouble(k, size - 1, tail', prev')
    <3>1. size > 1 => tail' = IF n = size - 1 THEN c[size - 2] ELSE tail
      <4>1. CASE n = size - 1
        <5>1. size > 1 => n # 0 /\ n - 1 = size - 2
          BY <1>2, <4>1
        <5> QED
          BY <1>6, <2>3, <2>6, <4>1, <5>1
      <4>2. CASE n # size - 1
        BY <2>6, <4>2
      <4> QED
        BY <4>1, <4>2
    <3>2. ASSUME NEW i \in 0 .. size - 1, i # n + 1 PROVE prev'[c[i]] = prev[c[i]]
      <4>1. c[i] \in Cells /\ c[i] # c[n + 1]
        BY <1>2, <2>3, <2>5, <3>2
      <4> QED
        BY <2>9, <4>1
    <3> QED
      BY <1>2, <2>9, <3>1, <3>2, CutDouble
  <2> HIDE DEF k
  <2>14. ListInv'
    BY <1>2, <2>6, <2>10, <2>11, <2>12, <2>13 DEF ListInv, Shape
  <2>15. Contents' \in Seq(Data \cup {NULL}) /\ IsCut(Contents', Contents, n + 1)
    BY <1>2, <2>6, <2>10, <2>12, CutContents DEF k
  <2>16. Abs!Contains(Contents, d)
    BY <1>3, <1>6, <2>1 DEF Abs!Contains
  <2>17. RemoveFirst(Contents, d) = Contents'
    <3>1. PICK q : q = Contents
      OBVIOUS
    <3>2. PICK r : r = RemoveFirst(q, d)
      OBVIOUS
    <3>3. /\ r \in Seq(Data \cup {NULL})
          /\ \E j \in 1 .. Len(q) : q[j] = d /\ IsCut(r, q, j) /\ \A i \in 1 .. j - 1 : q[i] # d
      BY <1>3, <1>6, <2>1, <3>1, <3>2, RemoveFirstCuts
    <3>4. PICK j \in 1 .. Len(q) : q[j] = d /\ IsCut(r, q, j) /\ \A i \in 1 .. j - 1 : q[i] # d
      BY <3>3
    <3>5. j = n + 1
      <4>1. ~(j < n + 1)
        BY <1>3, <1>6, <3>1, <3>4
      <4>2. ~(n + 1 < j)
        BY <1>3, <1>6, <2>1, <3>1, <3>4
      <4> QED
        BY <1>3, <3>1, <3>4, <4>1, <4>2
    <3>6. Len(r) = Len(Contents') /\ \A i \in 1 .. Len(r) : r[i] = Contents'[i]
      BY <2>15, <3>1, <3>4, <3>5 DEF IsCut
    <3>7. r = Contents'
      BY <2>15, <3>3, <3>6, SeqEqual
    <3> QED
      BY <3>1, <3>2, <3>7
  <2>18. Abs!RemoveFirst(Contents, d) = RemoveFirst(Contents, d)
    BY DEF Abs!RemoveFirst, Abs!RemoveAt, Abs!SelectInSeq, Abs!Min, RemoveFirst, RemoveAt,
           SelectInSeq, Min
  <2> QED
    BY <2>6, <2>14, <2>16, <2>17, <2>18 DEF Abs!Remove_
<1> QED
  BY <1>2, <1>4, <1>5, <1>6, WalkStops
-------------------------------------------------------------------------------
(* The theorems. *)

LEMMA NextList ==
  ASSUME Use, ListInv, [Next]_vars
  PROVE  ListInv' /\ [Abs!Next]_<<Contents, ret>>
<1>1. CASE UNCHANGED vars
  <2>1. UNCHANGED <<ops, size, head, tail, data, next, prev, brk, ret>>
    BY <1>1 DEF vars
  <2>2. ListInv'
    BY <2>1 DEF ListInv, TypeOK, HeapHeaderIntact, Shape
  <2>3. Contents' = Contents
    BY <2>1 DEF Contents, Node
  <2> QED
    BY <2>1, <2>2, <2>3
<1>2. CASE pop
  BY <1>2, PopStep DEF Abs!Next
<1>3. ASSUME NEW d \in Data, append(d) PROVE ListInv' /\ Abs!Next
  BY <1>3, AppendStep DEF Abs!Next
<1>4. ASSUME NEW d \in Data, push(d) PROVE ListInv' /\ Abs!Next
  BY <1>4, PushStep DEF Abs!Next
<1>5. ASSUME NEW d \in Data, remove(d) PROVE ListInv' /\ Abs!Next
  BY <1>5, RemoveStep DEF Abs!Next
<1>6. ASSUME NEW i \in 0 .. size, list_get(i) PROVE ListInv' /\ Abs!Next
  <2>1. Len(Contents) = size
    <3>1. PICK c : Shape(c)
      BY DEF ListInv
    <3> QED
      BY <3>1, ContentsAre DEF ListInv, Shape
  <2> QED
    BY <1>6, <2>1, GetStep DEF Abs!Next
<1> QED
  BY <1>1, <1>2, <1>3, <1>4, <1>5, <1>6 DEF Next

LEMMA SpecList == ASSUME Use PROVE Spec => []ListInv
<1>1. Init => ListInv
  BY InitList
<1>2. ListInv /\ [Next]_vars => ListInv'
  BY NextList
<1> QED
  BY <1>1, <1>2, PTL DEF Spec

\* However many calls there are, the fields of a list and of its elements stay addresses
\* and counts: no call stores an address that is none, and size never wraps around.
THEOREM ListTypes == ASSUME Use PROVE Spec => []TypeOK
<1>1. ListInv => TypeOK
  BY DEF ListInv
<1> QED
  BY <1>1, SpecList, PTL

\* pop and remove of the last element store NULL through NULL, and nothing else ever
\* changes the header of the heap's first segment.
THEOREM HeaderKept == ASSUME Use PROVE Spec => []HeapHeaderIntact
<1>1. ListInv => HeapHeaderIntact
  BY DEF ListInv
<1> QED
  BY <1>1, SpecList, PTL

\* The chain of a queue has size different elements and can be walked both ways between
\* the ends head and tail name, at every length.
THEOREM QueueLinked == ASSUME Use PROVE Spec => []Linked
<1>1. ListInv => Linked
  <2> SUFFICES ASSUME ListInv, "push" \notin ops
               PROVE  /\ size = 0 => head = NULL
                      /\ size > 0 => /\ tail = Node[size - 1] /\ next[tail] = NULL
                                     /\ prev[head] = NULL
                                     /\ \A i \in 1 .. size - 1 : prev[Node[i]] = Node[i - 1]
                      /\ Cardinality({Node[i] : i \in 0 .. size - 1}) = size
    BY DEF Linked
  <2>1. PICK c : Shape(c)
    BY DEF ListInv
  <2>2. /\ IsChain(c, size, head, next, brk) /\ IsDouble(c, size, tail, prev) /\ size \in Nat
        /\ \A i \in 0 .. size : Node[i] = c[i]
    BY <2>1, ContentsAre DEF ListInv, Shape, TypeOK
  <2>3. size = 0 => head = NULL
    BY <2>2 DEF IsChain
  <2>4. ASSUME size > 0
        PROVE  /\ tail = Node[size - 1] /\ next[tail] = NULL /\ prev[head] = NULL
               /\ \A i \in 1 .. size - 1 : prev[Node[i]] = Node[i - 1]
    <3>1. size - 1 \in 0 .. size /\ size - 1 \in 0 .. size - 1 /\ (size - 1) + 1 = size
      BY <2>2, <2>4
    <3>2. tail = c[size - 1] /\ next[c[size - 1]] = c[(size - 1) + 1] /\ c[size] = NULL
      BY <2>2, <2>4, <3>1 DEF IsChain, IsDouble
    <3>3. prev[head] = NULL
      BY <2>2, <2>4 DEF IsChain, IsDouble
    <3>4. \A i \in 1 .. size - 1 : prev[c[i]] = c[i - 1] /\ i \in 0 .. size /\ i - 1 \in 0 .. size
      BY <2>2, <2>4 DEF IsDouble
    <3> QED
      BY <2>2, <3>1, <3>2, <3>3, <3>4
  <2>5. Cardinality({Node[i] : i \in 0 .. size - 1}) = size
    <3> DEFINE S == {Node[i] : i \in 0 .. size - 1}
               f == [i \in 1 .. size |-> Node[i - 1]]
    <3>1. \A i \in 0 .. size - 1 : Node[i] = c[i] /\ i + 1 \in 1 .. size /\ (i + 1) - 1 = i
      BY <2>2
    <3>2. \A i \in 1 .. size : i - 1 \in 0 .. size - 1
      BY <2>2
    <3>3. f \in [1 .. size -> S]
      BY <3>2
    <3>4. ASSUME NEW i \in 1 .. size, NEW j \in 1 .. size, f[i] = f[j] PROVE i = j
      <4>1. c[i - 1] = c[j - 1]
        BY <3>1, <3>2, <3>4
      <4>2. i - 1 = j - 1
        BY <2>2, <3>2, <4>1 DEF IsChain
      <4> QED
        BY <2>2, <4>2
    <3>5. ASSUME NEW a \in S PROVE \E i \in 1 .. size : f[i] = a
      <4>1. PICK i \in 0 .. size - 1 : a = Node[i]
        BY <3>5
      <4> QED
        BY <3>1, <4>1
    <3> HIDE DEF f, S
    <3>6. f \in Bijection(1 .. size, S)
      <4>1. DOMAIN f = 1 .. size
        BY <3>3
      <4> QED
        BY <3>3, <3>4, <3>5, <4>1, Zenon DEF Bijection, Injection, Surjection, IsInjective
    <3>7. ExistsBijection(1 .. size, S)
      BY <3>6 DEF ExistsBijection
    <3>8. Cardinality(S) = size
      BY <2>2, <3>7, FS_CountingElements
    <3> QED
      BY <3>8 DEF S
  <2> QED
    BY <2>3, <2>4, <2>5
<1> QED
  BY <1>1, SpecList, PTL

\* Every call of list.c is the call of the same name on the sequence its callers have in
\* mind: lists of any length, in any order of append, pop, remove and list_get, or of
\* push, pop and list_get.
THEOREM ListImplementsQueue == ASSUME Use PROVE Spec => ListIsQueue
<1>1. Init => Abs!Init
  BY InitList
<1>2. ListInv /\ [Next]_vars => [Abs!Next]_<<Contents, ret>>
  BY NextList
<1> QED
  BY <1>1, <1>2, SpecList, PTL DEF Spec, ListIsQueue, Abs!Spec
===============================================================================
