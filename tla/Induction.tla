------------------------------- MODULE Induction -------------------------------
(***************************************************************************)
(* Induction and recursion over the naturals, stated with a set and a      *)
(* function in the place of the predicate and the operator: facts the      *)
(* provers can use.  What the removal of an element does to a sequence,    *)
(* which goes back to the minimum of a set of naturals.  And division.     *)
(***************************************************************************)
EXTENDS Integers, SequencesExt, SequenceTheorems, WellFoundedInduction, TLAPS

\* A non-empty set of naturals has its minimum.
LEMMA MinInSet ==
  ASSUME NEW I \in SUBSET Nat, I # {}
  PROVE  Min(I) \in I /\ \A i \in I : Min(I) <= i
<1> DEFINE R == OpToRel(<, Nat)
<1>1. IsWellFoundedOn(R, Nat)
  BY NatLessThanWellFounded
<1>2. \A m, n \in Nat : m < n => <<m, n>> \in R
  BY DEF OpToRel
<1> HIDE DEF R
<1>3. PICK x \in I : \A y \in I : ~ (<<y, x>> \in R)
  BY <1>1, WFMin
<1>4. ASSUME NEW y \in I PROVE x =< y
  <2>1. ~ (y < x)
    BY <1>2, <1>3
  <2> QED
    BY <2>1
<1> QED
  BY <1>4 DEF Min

\* P has 0, and with every number below n the next one.
LEMMA UpTo ==
  ASSUME NEW n \in Nat, NEW P, 0 \in P, \A i \in 1 .. n : i - 1 \in P => i \in P
  PROVE  \A i \in 0 .. n : i \in P
<1> DEFINE I == {i \in 0 .. n : i \notin P}
<1> SUFFICES ASSUME I # {} PROVE FALSE
  OBVIOUS
<1>1. I \in SUBSET Nat
  OBVIOUS
<1>2. PICK m \in I : \A i \in I : m <= i
  <2> HIDE DEF I
  <2> QED
    BY <1>1, MinInSet
<1>3. m \in 1 .. n /\ m - 1 \in 0 .. n
  BY <1>2
<1>4. m - 1 \notin I
  BY <1>2, <1>3
<1> QED
  BY <1>2, <1>3, <1>4

\* F starts with x and goes on with g.
Recurs(F, n, x, g) == F[0] = x /\ \A i \in 1 .. n : F[i] = g[<<i, F[i - 1]>>]

\* A recursive definition has a solution.
LEMMA Recursion ==
  ASSUME NEW n \in Nat, NEW X, NEW x \in X, NEW g \in [(1 .. n) \X X -> X]
  PROVE  \E F \in [0 .. n -> X] : Recurs(F, n, x, g)
<1> DEFINE P == {k \in 0 .. n : \E F \in [0 .. k -> X] : Recurs(F, k, x, g)}
<1>1. 0 \in P
  <2> DEFINE F == [i \in 0 .. 0 |-> x]
  <2>1. F \in [0 .. 0 -> X] /\ Recurs(F, 0, x, g)
    BY DEF Recurs
  <2> QED
    BY <2>1
<1>2. ASSUME NEW k \in 1 .. n, k - 1 \in P PROVE k \in P
  <2>1. PICK F \in [0 .. k - 1 -> X] : Recurs(F, k - 1, x, g)
    BY <1>2
  <2> DEFINE G == [i \in 0 .. k |-> IF i = k THEN g[<<k, F[k - 1]>>] ELSE F[i]]
  <2>2. k \in Nat /\ k # 0 /\ k - 1 \in 0 .. k - 1 /\ \A i \in 0 .. k : i # k => i \in 0 .. k - 1
    OBVIOUS
  <2>3. F[k - 1] \in X /\ g[<<k, F[k - 1]>>] \in X
    BY <2>1, <2>2
  <2>4. G \in [0 .. k -> X]
    BY <2>1, <2>2, <2>3
  <2>5. G[0] = x
    BY <2>1, <2>2 DEF Recurs
  <2>6. ASSUME NEW i \in 1 .. k PROVE G[i] = g[<<i, G[i - 1]>>]
    <3>1. i - 1 \in 0 .. k /\ i - 1 # k /\ i \in 0 .. k
      BY <2>2
    <3>2. G[i - 1] = F[i - 1]
      BY <3>1
    <3>3. CASE i = k
      BY <3>1, <3>2, <3>3
    <3>4. CASE i # k
      <4>1. i \in 1 .. k - 1
        BY <3>4
      <4> QED
        BY <2>1, <3>1, <3>2, <3>4, <4>1 DEF Recurs
    <3> QED
      BY <3>3, <3>4
  <2> HIDE DEF G
  <2> QED
    BY <2>4, <2>5, <2>6 DEF Recurs
<1> HIDE DEF P
<1>3. n \in P
  BY <1>1, <1>2, UpTo
<1> QED
  BY <1>3 DEF P
-------------------------------------------------------------------------------
\* r is q without its entry k.
IsCut(r, q, k) ==
  Len(r) = Len(q) - 1 /\ \A i \in 1 .. Len(r) : r[i] = IF i < k THEN q[i] ELSE q[i + 1]

\* Removing the first of the elements that are e closes the gap it leaves.
LEMMA RemoveFirstCuts ==
  ASSUME NEW S, NEW q \in Seq(S), NEW e, \E i \in 1 .. Len(q) : q[i] = e
  PROVE  /\ RemoveFirst(q, e) \in Seq(S)
         /\ \E k \in 1 .. Len(q) :
              /\ q[k] = e /\ IsCut(RemoveFirst(q, e), q, k)
              /\ \A i \in 1 .. k - 1 : q[i] # e
<1> DEFINE r == RemoveFirst(q, e)
           I == {i \in 1 .. Len(q) : q[i] = e}
           k == SelectInSeq(q, LAMBDA v : v = e)
           a == SubSeq(q, 1, k - 1)
           b == SubSeq(q, k + 1, Len(q))
<1>0. Len(q) \in Nat
  BY LenProperties
<1>1. I # {} /\ I \in SUBSET Nat /\ I \in SUBSET (1 .. Len(q))
  OBVIOUS
<1>2. k = Min(I)
  BY <1>1 DEF SelectInSeq
<1>3. r = a \o b
  BY DEF RemoveFirst, RemoveAt
<1>4. k \in I /\ \A i \in I : k <= i
  <2> HIDE DEF I, k
  <2> QED BY <1>1, <1>2, MinInSet
<1>5. k \in 1 .. Len(q) /\ q[k] = e /\ \A i \in 1 .. k - 1 : q[i] # e
  <2>1. k \in 1 .. Len(q) /\ q[k] = e
    BY <1>4
  <2> HIDE DEF k
  <2>2. ASSUME NEW i \in 1 .. k - 1 PROVE i \notin I /\ i \in 1 .. Len(q)
    <3> HIDE DEF I
    <3> QED BY <1>0, <1>4, <2>1
  <2> QED
    BY <2>1, <2>2
<1> HIDE DEF k
<1>6. /\ a \in Seq(S) /\ Len(a) = k - 1
      /\ \A i \in 1 .. k - 1 : a[i] = q[i]
  BY <1>5, SubSeqProperties, LenProperties
<1>7. /\ b \in Seq(S) /\ Len(b) = Len(q) - k
      /\ \A i \in 1 .. Len(q) - k : b[i] = q[k + i]
  BY <1>5, SubSeqProperties, LenProperties
<1> HIDE DEF a, b
<1>8. /\ a \o b \in Seq(S) /\ Len(a \o b) = Len(a) + Len(b)
      /\ \A i \in 1 .. Len(a) + Len(b) :
           (a \o b)[i] = IF i <= Len(a) THEN a[i] ELSE b[i - Len(a)]
  BY <1>6, <1>7, ConcatProperties
<1> HIDE DEF r
<1>9. Len(q) \in Nat
  BY LenProperties
<1>10. ASSUME NEW i \in 1 .. Len(q) - 1 PROVE r[i] = IF i < k THEN q[i] ELSE q[i + 1]
  <2>1. CASE i < k
    BY <1>3, <1>5, <1>6, <1>7, <1>8, <1>9, <2>1
  <2>2. CASE ~ (i < k)
    <3>1. i \in 1 .. Len(a) + Len(b) /\ ~ (i <= Len(a)) /\ i - Len(a) = i - k + 1
      BY <1>5, <1>6, <1>7, <1>9, <2>2
    <3>2. i - k + 1 \in 1 .. Len(q) - k /\ k + (i - k + 1) = i + 1
      BY <1>5, <1>9, <2>2
    <3> QED
      BY <1>3, <1>7, <1>8, <2>2, <3>1, <3>2
  <2> QED
    BY <2>1, <2>2
<1>11. r \in Seq(S) /\ Len(r) = Len(q) - 1
  BY <1>3, <1>5, <1>6, <1>7, <1>8, <1>9
<1> QED
  BY <1>5, <1>10, <1>11 DEF r, IsCut

(* Division by a number that is a parameter. *)

LEMMA Divided ==
  ASSUME NEW P \in Nat \ {0}, NEW v \in Nat
  PROVE  \E a \in Nat, b \in 0 .. P - 1 :
            a = v \div P /\ b = v % P /\ v = P * a + b
<1>1. v \div P \in Nat /\ v % P \in 0 .. P - 1
  OBVIOUS
<1>2. PICK a \in Nat, b \in 0 .. P - 1 : a = v \div P /\ b = v % P
  BY <1>1
<1>3. v = P * a + b
  BY <1>2
<1> QED
  BY <1>2, <1>3

LEMMA Times ==
  ASSUME NEW P \in Nat \ {0}, NEW a \in Nat, NEW b \in Nat, a < b
  PROVE  P * a + P <= P * b
<1>1. PICK c \in Nat : b = a + 1 + c
  <2> WITNESS b - a - 1 \in Nat
  <2> QED
    OBVIOUS
<1>2. P * b = P * a + P + P * c
  BY <1>1
<1>3. P * c >= 0
  OBVIOUS
<1> QED
  BY <1>2, <1>3

\* There is one way to divide.
LEMMA DividedIs ==
  ASSUME NEW P \in Nat \ {0}, NEW q \in Nat, NEW r \in 0 .. P - 1
  PROVE  (P * q + r) \div P = q /\ (P * q + r) % P = r
<1> DEFINE v == P * q + r
<1>1. v \in Nat
  OBVIOUS
<1> HIDE DEF v
<1>2. PICK a \in Nat, b \in 0 .. P - 1 : a = v \div P /\ b = v % P /\ v = P * a + b
  BY <1>1, Divided
<1>3. ~ (a < q)
  BY <1>2, Times DEF v
<1>4. ~ (q < a)
  BY <1>2, Times DEF v
<1>5. a = q
  BY <1>3, <1>4, <1>2
<1>6. b = r
  BY <1>5, <1>2 DEF v
<1> QED
  BY <1>5, <1>6, <1>2 DEF v

\* A function on 1 .. n is a sequence of n entries.
LEMMA IsSequence ==
  ASSUME NEW S, NEW n \in Nat, NEW f \in [1 .. n -> S]
  PROVE  f \in Seq(S) /\ Len(f) = n
<1>1. f \in Seq(S)
  BY SeqDef, Zenon
<1>2. 1 .. n = 1 .. Len(f) /\ Len(f) \in Nat
  BY <1>1, LenProperties
<1> QED
  BY <1>1, <1>2

\* A store changes the word it is meant for.
LEMMA Store ==
  ASSUME NEW S, NEW T, NEW f \in [S -> T], NEW a, NEW v \in T
  PROVE  /\ [f EXCEPT ![a] = v] \in [S -> T]
         /\ a \in S => [f EXCEPT ![a] = v][a] = v
         /\ \A x \in S : x # a => [f EXCEPT ![a] = v][x] = f[x]
  OBVIOUS
===============================================================================
