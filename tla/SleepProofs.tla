------------------------------ MODULE SleepProofs ------------------------------
(***************************************************************************)
(* Proofs about Sleep: the invariants of PlaceProofs with the sleepers put *)
(* aside, and how late sleep_tick wakes them.                              *)
(***************************************************************************)
EXTENDS Sleep, PlaceProofs

-------------------------------------------------------------------------------
(* The entries sleep_tick keeps and wakes. *)

\* The entries of r are those of the first n of q that are for ts: the a-th is at h[a].
Selects(r, q, ts, n, h) ==
  /\ h \in [1 .. Len(r) -> 1 .. n]
  /\ \A a \in 1 .. Len(r) : r[a] = q[h[a]] /\ q[h[a]].t \in ts
  /\ \A a, b \in 1 .. Len(r) : a < b => h[a] < h[b]
  /\ \A i \in 1 .. n : q[i].t \in ts => \E a \in 1 .. Len(r) : h[a] = i

LEMMA SelectsMore ==
  ASSUME NEW S, NEW q \in Seq(S), NEW ts, NEW k \in 1 .. Len(q), NEW r \in Seq(S),
         \E h : Selects(r, q, ts, k - 1, h),
         NEW s, s = IF q[k].t \in ts THEN Append(r, q[k]) ELSE r
  PROVE  s \in Seq(S) /\ \E h : Selects(s, q, ts, k, h)
<1>1. PICK h : Selects(r, q, ts, k - 1, h)
  OBVIOUS
<1>2. Len(r) \in Nat /\ q[k] \in S
  BY LenProperties, ElementOfSeq
<1>3. CASE q[k].t \notin ts
  <2>1. h \in [1 .. Len(r) -> 1 .. k]
    BY <1>1 DEF Selects
  <2>2. \A i \in 1 .. k : i \in 1 .. k - 1 \/ i = k
    OBVIOUS
  <2>3. Selects(r, q, ts, k, h)
    BY <1>1, <1>3, <2>1, <2>2 DEF Selects
  <2> QED
    BY <1>3, <2>3
<1>4. CASE q[k].t \in ts
  <2> DEFINE m == Len(r) + 1
             g == [a \in 1 .. m |-> IF a = m THEN k ELSE h[a]]
  <2>1. /\ s \in Seq(S) /\ Len(s) = m /\ s[m] = q[k]
        /\ \A a \in 1 .. Len(r) : s[a] = r[a]
    BY <1>2, <1>4, LenProperties
  <2>2. /\ \A a \in 1 .. m : a = m \/ (a \in 1 .. Len(r) /\ a < m)
        /\ \A a \in 1 .. Len(r) : a \in 1 .. m /\ a # m /\ h[a] \in 1 .. k - 1
        /\ m \in 1 .. m
    <3> DEFINE l == Len(r)
    <3>1. h \in [1 .. l -> 1 .. k - 1] /\ l \in Nat
      BY <1>1, <1>2 DEF Selects
    <3> HIDE DEF l
    <3>2. \A a \in 1 .. l : h[a] \in 1 .. k - 1
      BY <3>1
    <3>3. /\ \A a \in 1 .. l + 1 : a = l + 1 \/ (a \in 1 .. l /\ a < l + 1)
          /\ \A a \in 1 .. l : a \in 1 .. l + 1 /\ a # l + 1
          /\ l + 1 \in 1 .. l + 1
      BY <3>1
    <3> QED
      BY <3>2, <3>3 DEF l
  <2>3. g[m] = k /\ \A a \in 1 .. Len(r) : g[a] = h[a]
    BY <2>2
  <2>4. g \in [1 .. m -> 1 .. k]
    BY <2>2
  <2> HIDE DEF g
  <2>5. \A a \in 1 .. m : s[a] = q[g[a]] /\ q[g[a]].t \in ts
    BY <1>1, <1>4, <2>1, <2>2, <2>3 DEF Selects
  <2>6. \A a, b \in 1 .. m : a < b => g[a] < g[b]
    <3> SUFFICES ASSUME NEW a \in 1 .. m, NEW b \in 1 .. m, a < b PROVE g[a] < g[b]
      OBVIOUS
    <3>1. a \in 1 .. Len(r)
      BY <1>2, <2>2
    <3>2. CASE b = m
      BY <2>2, <2>3, <3>1, <3>2
    <3>3. CASE b # m
      BY <1>1, <2>2, <2>3, <3>1, <3>3 DEF Selects
    <3> QED
      BY <3>2, <3>3
  <2>7. ASSUME NEW i \in 1 .. k, q[i].t \in ts PROVE \E a \in 1 .. m : g[a] = i
    <3>1. CASE i = k
      BY <2>2, <2>3, <3>1
    <3>2. CASE i # k
      <4>1. i \in 1 .. k - 1
        BY <3>2
      <4>2. PICK a \in 1 .. Len(r) : h[a] = i
        BY <1>1, <2>7, <4>1 DEF Selects
      <4> QED
        BY <2>2, <2>3, <4>2
    <3> QED
      BY <3>1, <3>2
  <2>8. Selects(s, q, ts, k, g)
    BY <2>1, <2>4, <2>5, <2>6, <2>7 DEF Selects
  <2> QED
    BY <2>1, <2>8
<1> QED
  BY <1>3, <1>4

\* EntriesOf is the loop it is written as: its entries are those for ts, in order.
LEMMA EntriesAre ==
  ASSUME NEW S, NEW q \in Seq(S), NEW ts
  PROVE  EntriesOf(q, ts) \in Seq(S) /\ \E h : Selects(EntriesOf(q, ts), q, ts, Len(q), h)
<1> DEFINE n == Len(q)
           body(F) == [i \in 0 .. n |->
                         IF i = 0 THEN <<>>
                         ELSE IF q[i].t \in ts THEN Append(F[i - 1], q[i]) ELSE F[i - 1]]
           U == CHOOSE F : F = body(F)
<1>1. EntriesOf(q, ts) = U[n]
  BY DEF EntriesOf
<1>2. n \in Nat
  BY LenProperties
<1>3. \E F : F = body(F)
  <2> DEFINE g == [p \in (1 .. n) \X Seq(S) |->
                     IF q[p[1]].t \in ts THEN Append(p[2], q[p[1]]) ELSE p[2]]
  <2>0. \A i \in 1 .. n : q[i] \in S
    BY ElementOfSeq
  <2>1. g \in [(1 .. n) \X Seq(S) -> Seq(S)]
    BY <2>0
  <2>2. \A i \in 1 .. n, r \in Seq(S) :
          g[<<i, r>>] = IF q[i].t \in ts THEN Append(r, q[i]) ELSE r
    OBVIOUS
  <2>3. <<>> \in Seq(S)
    OBVIOUS
  <2> HIDE DEF g, n
  <2>4. PICK F \in [0 .. n -> Seq(S)] : Recurs(F, n, <<>>, g)
    BY <1>2, <2>1, <2>3, Recursion
  <2>5. \A i \in 0 .. n : i # 0 => i \in 1 .. n /\ i - 1 \in 0 .. n
    BY <1>2
  <2>6. F = body(F)
    BY <2>2, <2>4, <2>5 DEF Recurs
  <2> QED
    BY <2>6
<1>4. U = body(U)
  BY <1>3
<1> HIDE DEF U, n
<1>5. /\ U[0] = <<>>
      /\ \A i \in 1 .. n : U[i] = IF q[i].t \in ts THEN Append(U[i - 1], q[i]) ELSE U[i - 1]
  <2>1. 0 \in 0 .. n /\ \A i \in 1 .. n : i \in 0 .. n /\ i # 0
    BY <1>2
  <2>2. body(U)[0] = <<>>
    BY <2>1
  <2>3. ASSUME NEW i \in 1 .. n
        PROVE  body(U)[i] = IF q[i].t \in ts THEN Append(U[i - 1], q[i]) ELSE U[i - 1]
    BY <2>1
  <2> HIDE DEF body
  <2> QED
    BY <1>4, <2>2, <2>3
<1> DEFINE P == {k \in 0 .. n : U[k] \in Seq(S) /\ \E h : Selects(U[k], q, ts, k, h)}
<1>6. 0 \in P
  <2> DEFINE h == [a \in 1 .. 0 |-> a]
  <2>1. Len(<<>>) = 0 /\ h \in [1 .. 0 -> 1 .. 0]
    OBVIOUS
  <2>2. Selects(<<>>, q, ts, 0, h)
    BY <2>1 DEF Selects
  <2>3. 0 \in 0 .. n /\ <<>> \in Seq(S)
    BY <1>2
  <2>4. U[0] \in Seq(S) /\ Selects(U[0], q, ts, 0, h)
    BY <1>5, <2>2, <2>3
  <2> HIDE DEF h
  <2> QED
    BY <2>3, <2>4
<1>7. ASSUME NEW k \in 1 .. n, k - 1 \in P PROVE k \in P
  <2>1. U[k - 1] \in Seq(S) /\ \E h : Selects(U[k - 1], q, ts, k - 1, h)
    BY <1>7
  <2>2. k \in 0 .. n
    BY <1>2
  <2> HIDE DEF P
  <2>3. U[k] = IF q[k].t \in ts THEN Append(U[k - 1], q[k]) ELSE U[k - 1]
    BY <1>5
  <2>4. k \in 1 .. Len(q)
    BY DEF n
  <2>5. U[k] \in Seq(S) /\ \E h : Selects(U[k], q, ts, k, h)
    BY <2>1, <2>3, <2>4, SelectsMore
  <2> QED
    BY <2>2, <2>5 DEF P
<1> HIDE DEF P
<1>8. n \in P
  <2>1. \A i \in 1 .. n : i - 1 \in P => i \in P
    BY <1>7
  <2>2. \A i \in 0 .. n : i \in P
    BY <1>2, <1>6, <2>1, UpTo
  <2> QED
    BY <1>2, <2>2
<1> QED
  BY <1>1, <1>8 DEF P, n

-------------------------------------------------------------------------------
(* How late sleep_tick wakes. *)

\* An entry of the list: tick_remaining is a word and never 0, left has no bound.
Entry == [t : Threads, tick_remaining : 1 .. WordMod - 1, left : Int, joined : Nat]

\* Nobody is in the list q twice.
NapsOnce(q) ==
  /\ q \in Seq(Entry)
  /\ \A i, j \in 1 .. Len(q) : q[i].t = q[j].t => i = j

\* Who is in it, and whom a walk w of sleep_tick wakes.
Napping(q) == {q[i].t : i \in DOMAIN q}
Due(w) == {sleeper_list[i].t : i \in {j \in DOMAIN sleeper_list : w[j]}}

\* SleepOnTime of the list q.
OnTime(q) ==
  \A i \in 1 .. Len(q) :
    /\ q[i].left <= q[i].tick_remaining
    /\ q[i].tick_remaining - q[i].left <= q[i].joined - i

LEMMA Increasing ==
  ASSUME NEW n \in Nat, NEW m \in Nat, NEW h \in [1 .. n -> 1 .. m],
         \A a, b \in 1 .. n : a < b => h[a] < h[b]
  PROVE  \A a \in 1 .. n : a <= h[a]
<1> DEFINE P == {a \in 0 .. n : a = 0 \/ a <= h[a]}
<1>1. 0 \in P
  OBVIOUS
<1>2. ASSUME NEW a \in 1 .. n, a - 1 \in P PROVE a \in P
  <2>1. CASE a = 1
    BY <2>1
  <2>2. CASE a # 1
    <3>1. a - 1 \in 1 .. n /\ a - 1 < a
      BY <2>2
    <3>2. h[a - 1] < h[a] /\ h[a] \in Nat /\ h[a - 1] \in Nat
      BY <3>1
    <3>3. a - 1 <= h[a - 1]
      BY <1>2, <3>1
    <3> QED
      BY <3>2, <3>3
  <2> QED
    BY <2>1, <2>2
<1> HIDE DEF P
<1>3. \A a \in 0 .. n : a \in P
  BY <1>1, <1>2, UpTo
<1> QED
  BY <1>3 DEF P

\* The walk of sleep_tick does what Wakings says of it.
LEMMA WakingsAre ==
  ASSUME NapsOnce(sleeper_list), NEW w, w = Wakings
  PROVE  \A i \in 1 .. Len(sleeper_list) :
           w[i] <=> Counted(i, w) /\ sleeper_list[i].tick_remaining = 1
<1> DEFINE n == Len(sleeper_list)
           one(i) == sleeper_list[i].tick_remaining = 1
           body(F) == [i \in DOMAIN sleeper_list |->
                         Counted(i, F) /\ sleeper_list[i].tick_remaining = 1]
<1>1. n \in Nat /\ DOMAIN sleeper_list = 1 .. n
  BY LenProperties DEF NapsOnce
<1>2. w = CHOOSE F : F = body(F)
  BY DEF Wakings
<1>3. \E F : F = body(F)
  <2> DEFINE g == [p \in (1 .. n) \X BOOLEAN |-> ~p[2] /\ one(p[1])]
  <2>1. g \in [(1 .. n) \X BOOLEAN -> BOOLEAN]
    OBVIOUS
  <2>2. \A i \in 1 .. n, r \in BOOLEAN : g[<<i, r>>] = (~r /\ one(i))
    OBVIOUS
  <2> HIDE DEF g, n
  <2>3. PICK F \in [0 .. n -> BOOLEAN] : Recurs(F, n, FALSE, g)
    BY <1>1, <2>1, Recursion
  <2> DEFINE G == [i \in 1 .. n |-> F[i]]
  <2>4. ASSUME NEW i \in 1 .. n PROVE G[i] = (Counted(i, G) /\ one(i))
    <3>1. i - 1 \in 0 .. n /\ (i # 1 => i - 1 \in 1 .. n) /\ i \in 0 .. n /\ (i = 1 => i - 1 = 0)
      BY <1>1
    <3>2. F[i - 1] \in BOOLEAN /\ F[i] = g[<<i, F[i - 1]>>] /\ F[0] = FALSE
      BY <2>3, <3>1 DEF Recurs
    <3>3. F[i] = (~F[i - 1] /\ one(i))
      BY <2>2, <3>2
    <3>4. ~F[i - 1] <=> Counted(i, G)
      BY <3>1, <3>2 DEF Counted
    <3> QED
      BY <3>3, <3>4
  <2>5. G = [i \in 1 .. n |-> G[i]]
    OBVIOUS
  <2> HIDE DEF G
  <2>6. G = body(G)
    BY <1>1, <2>4, <2>5
  <2> QED
    BY <2>6
<1>4. w = body(w)
  BY <1>2, <1>3
<1>5. ASSUME NEW i \in 1 .. n PROVE body(w)[i] = (Counted(i, w) /\ one(i))
  BY <1>1
<1> HIDE DEF body
<1> QED
  BY <1>4, <1>5

\* An entry when it has been counted down, before the sleepers that are due are removed.
Counting == [t : Threads, tick_remaining : 0 .. WordMod - 1, left : Int, joined : Nat]

LEMMA CountedDownIs ==
  ASSUME NapsOnce(sleeper_list), NEW w, NEW d, d = CountedDown(w)
  PROVE  /\ d \in Seq(Counting) /\ Len(d) = Len(sleeper_list)
         /\ \A i \in 1 .. Len(d) :
              /\ d[i].t = sleeper_list[i].t /\ d[i].joined = sleeper_list[i].joined
              /\ d[i].left = sleeper_list[i].left - 1
              /\ d[i].tick_remaining = sleeper_list[i].tick_remaining
                                       - (IF Counted(i, w) THEN 1 ELSE 0)
<1> DEFINE n == Len(sleeper_list)
           s(i) == sleeper_list[i]
<1>1. n \in Nat /\ DOMAIN sleeper_list = 1 .. n /\ \A i \in 1 .. n : s(i) \in Entry
  BY LenProperties, ElementOfSeq DEF NapsOnce
<1>2. d = [i \in 1 .. n |->
             [s(i) EXCEPT !.left = @ - 1,
                !.tick_remaining = IF Counted(i, w) THEN (@ - 1) % WordMod ELSE @]]
  BY <1>1 DEF CountedDown
<1>3. WordMod \in Nat /\ \A k \in 1 .. WordMod - 1 :
                           (k - 1) % WordMod = k - 1 /\ k - 1 \in 0 .. WordMod - 1
                           /\ k \in 0 .. WordMod - 1
  BY SleepAssumption
<1> HIDE DEF n, s
<1>4. ASSUME NEW i \in 1 .. n
      PROVE  /\ d[i] \in Counting /\ d[i].t = s(i).t /\ d[i].joined = s(i).joined
             /\ d[i].left = s(i).left - 1
             /\ d[i].tick_remaining = s(i).tick_remaining - (IF Counted(i, w) THEN 1 ELSE 0)
  <2>1. s(i) \in Entry
    BY <1>1
  <2>2. PICK e \in Entry : e = s(i)
    BY <2>1
  <2>3. e.tick_remaining \in 1 .. WordMod - 1 /\ e.left \in Int
    BY DEF Entry
  <2> DEFINE k == e.tick_remaining
             m == IF Counted(i, w) THEN (k - 1) % WordMod ELSE k
  <2>4. d[i] = [e EXCEPT !.left = @ - 1, !.tick_remaining = m]
    BY <1>2, <2>2
  <2>5. m = k - (IF Counted(i, w) THEN 1 ELSE 0) /\ m \in 0 .. WordMod - 1
    BY <1>3, <2>3
  <2> HIDE DEF m
  <2>6. /\ d[i].t = e.t /\ d[i].joined = e.joined
        /\ d[i].left = e.left - 1 /\ d[i].tick_remaining = m
    BY <2>4 DEF Entry
  <2>7. d[i] = [t |-> e.t, tick_remaining |-> m, left |-> e.left - 1, joined |-> e.joined]
    BY <2>4 DEF Entry
  <2>8. e.t \in Threads /\ e.joined \in Nat /\ e.left - 1 \in Int
    BY <2>3 DEF Entry
  <2>9. d[i] \in Counting
    BY <2>5, <2>7, <2>8 DEF Counting
  <2> QED
    BY <2>2, <2>5, <2>6, <2>9
<1>5. d \in Seq(Counting) /\ Len(d) = n
  <2>1. DOMAIN d = 1 .. n /\ d = [i \in 1 .. n |-> d[i]]
    BY <1>2
  <2>2. d \in [1 .. n -> Counting]
    BY <1>4, <2>1
  <2> QED
    BY <1>1, <2>2, LenProperties
<1> QED
  BY <1>4, <1>5 DEF n, s

\* The list after the tick: it keeps its sleepers except those that are woken, and a
\* sleeper that the walk skips moves up, past the one that was woken in front of it.
LEMMA KeptOnTime ==
  ASSUME NapsOnce(sleeper_list), OnTime(sleeper_list), NEW w, w = Wakings,
         NEW woken, woken = Due(w),
         NEW q, q = EntriesOf(CountedDown(w), Threads \ woken)
  PROVE  /\ NapsOnce(q) /\ OnTime(q)
         /\ Napping(q) = Sleepers \ woken
<1> DEFINE n == Len(sleeper_list)
           m == Len(q)
           s(i) == sleeper_list[i]
<1>1. n \in Nat /\ DOMAIN sleeper_list = 1 .. n /\ \A i \in 1 .. n : s(i) \in Entry
  BY LenProperties, ElementOfSeq DEF NapsOnce
<1>2. \A i \in 1 .. n : s(i).t \in woken <=> w[i]
  BY <1>1 DEF NapsOnce, Due
<1>3. PICK d : d = CountedDown(w)
  OBVIOUS
<1>4. /\ d \in Seq(Counting) /\ Len(d) = n
      /\ \A i \in 1 .. n :
           /\ d[i].t = s(i).t /\ d[i].joined = s(i).joined /\ d[i].left = s(i).left - 1
           /\ d[i].tick_remaining = s(i).tick_remaining - (IF Counted(i, w) THEN 1 ELSE 0)
  BY <1>3, CountedDownIs
<1>5. q \in Seq(Counting) /\ \E h : Selects(q, d, Threads \ woken, n, h)
  BY <1>3, <1>4, EntriesAre
<1>6. PICK h : Selects(q, d, Threads \ woken, n, h)
  BY <1>5
<1>7. m \in Nat /\ DOMAIN q = 1 .. m
  BY <1>5, LenProperties
<1>8. \A i \in 1 .. n : w[i] <=> Counted(i, w) /\ s(i).tick_remaining = 1
  BY WakingsAre
<1>9. \A i \in 1 .. n : s(i).t \in Threads
  BY <1>1 DEF Entry
<1>10. /\ h \in [1 .. m -> 1 .. n]
       /\ \A a \in 1 .. m : q[a] = d[h[a]] /\ d[h[a]].t \in Threads \ woken
       /\ \A a, b \in 1 .. m : a < b => h[a] < h[b]
       /\ \A i \in 1 .. n : d[i].t \in Threads \ woken => \E a \in 1 .. m : h[a] = i
  BY <1>6 DEF Selects
<1>11. \A i, j \in 1 .. n : s(i).t = s(j).t => i = j
  BY DEF NapsOnce
<1>12. Sleepers = {s(i).t : i \in 1 .. n}
  BY <1>1 DEF Sleepers
<1>13. \A i \in 1 .. n :
         /\ s(i).left <= s(i).tick_remaining
         /\ s(i).tick_remaining - s(i).left <= s(i).joined - i
  BY DEF OnTime
<1> HIDE DEF n, m, s
<1>14. \A a \in 1 .. m : h[a] \in 1 .. n /\ ~w[h[a]] /\ a <= h[a]
  <2>1. ASSUME NEW a \in 1 .. m PROVE h[a] \in 1 .. n /\ ~w[h[a]]
    <3>1. h[a] \in 1 .. n /\ d[h[a]].t \notin woken
      BY <1>10
    <3>2. d[h[a]].t = s(h[a]).t
      BY <1>4, <3>1
    <3> QED
      BY <1>2, <3>1, <3>2
  <2>2. \A a \in 1 .. m : a <= h[a]
    BY <1>1, <1>7, <1>10, Increasing
  <2> QED
    BY <2>1, <2>2
<1>15. ASSUME NEW a \in 1 .. m, ~ Counted(h[a], w) PROVE a <= h[a] - 1
  <2>1. h[a] \in 1 .. n /\ h[a] # 1 /\ w[h[a] - 1]
    BY <1>14, <1>15 DEF Counted
  <2>2. CASE a = 1
    BY <2>1, <2>2
  <2>3. CASE a # 1
    <3>1. a - 1 \in 1 .. m /\ a - 1 < a
      BY <1>7, <2>3
    <3>2. h[a - 1] < h[a] /\ h[a - 1] \in 1 .. n /\ a - 1 <= h[a - 1] /\ ~w[h[a - 1]]
      BY <1>10, <1>14, <3>1
    <3>3. h[a - 1] # h[a] - 1
      BY <2>1, <3>2
    <3> QED
      BY <1>1, <1>7, <2>1, <3>2, <3>3
  <2> QED
    BY <2>2, <2>3
<1>16. ASSUME NEW a \in 1 .. m
       PROVE  /\ q[a].tick_remaining \in 1 .. WordMod - 1
              /\ q[a].left <= q[a].tick_remaining
              /\ q[a].tick_remaining - q[a].left <= q[a].joined - a
              /\ q[a].t = s(h[a]).t
  <2> DEFINE i == h[a]
             r == s(i).tick_remaining
             l == s(i).left
             jn == s(i).joined
  <2>1. i \in 1 .. n /\ i \in Nat /\ a \in Nat /\ a <= i /\ ~w[i]
    BY <1>1, <1>7, <1>14
  <2>2. r \in 1 .. WordMod - 1 /\ l \in Int /\ jn \in Nat /\ WordMod \in Nat
    BY <1>1, <2>1, SleepAssumption DEF Entry
  <2>3. /\ q[a].t = s(i).t /\ q[a].joined = jn /\ q[a].left = l - 1
        /\ q[a].tick_remaining = r - (IF Counted(i, w) THEN 1 ELSE 0)
    <3>1. q[a] = d[i]
      BY <1>10
    <3>2. /\ d[i].t = s(i).t /\ d[i].joined = jn /\ d[i].left = l - 1
          /\ d[i].tick_remaining = r - (IF Counted(i, w) THEN 1 ELSE 0)
      BY <1>4, <2>1
    <3> QED
      BY <3>1, <3>2
  <2>4. l <= r /\ r - l <= jn - i
    BY <1>13, <2>1
  <2>5. Counted(i, w) => r # 1
    BY <1>8, <2>1
  <2>6. ~ Counted(i, w) => a <= i - 1
    BY <1>15
  <2> HIDE DEF i, r, l, jn
  <2> DEFINE k == q[a].tick_remaining
  <2>7. k \in 1 .. WordMod - 1 /\ l - 1 <= k /\ k - (l - 1) <= jn - a
    <3>1. CASE Counted(i, w)
      <4>1. k = r - 1
        BY <2>3, <3>1
      <4> HIDE DEF k
      <4> QED
        BY <2>1, <2>2, <2>4, <2>5, <3>1, <4>1
    <3>2. CASE ~ Counted(i, w)
      <4>1. k = r
        BY <2>2, <2>3, <3>2
      <4> HIDE DEF k
      <4> QED
        BY <2>1, <2>2, <2>4, <2>6, <3>2, <4>1
    <3> QED
      BY <3>1, <3>2
  <2> QED
    BY <2>3, <2>7 DEF i
<1>17. q \in Seq(Entry)
  <2>1. ASSUME NEW a \in 1 .. m PROVE q[a] \in Entry
    <3>1. q[a] \in Counting
      BY <1>5, ElementOfSeq DEF m
    <3>2. q[a].tick_remaining \in 1 .. WordMod - 1
      BY <1>16
    <3> QED
      BY <3>1, <3>2 DEF Counting, Entry
  <2>2. q \in [1 .. m -> Counting]
    BY <1>5, LenProperties DEF m
  <2>3. q \in [1 .. m -> Entry]
    BY <2>1, <2>2
  <2> QED
    BY <1>7, <2>3, SeqDef, Zenon
<1>18. \A a, b \in 1 .. m : q[a].t = q[b].t => a = b
  <2> SUFFICES ASSUME NEW a \in 1 .. m, NEW b \in 1 .. m, q[a].t = q[b].t PROVE a = b
    OBVIOUS
  <2>1. h[a] \in 1 .. n /\ h[b] \in 1 .. n /\ s(h[a]).t = s(h[b]).t
    BY <1>14, <1>16
  <2>2. h[a] = h[b] /\ h[a] \in Nat
    BY <1>1, <1>11, <2>1
  <2>3. ~ (a < b) /\ ~ (b < a)
    BY <1>10, <2>2
  <2> QED
    BY <1>7, <2>3
<1>19. {q[i].t : i \in 1 .. m} = Sleepers \ woken
  <2>1. ASSUME NEW a \in 1 .. m PROVE q[a].t \in Sleepers /\ q[a].t \notin woken
    BY <1>2, <1>12, <1>14, <1>16
  <2>2. ASSUME NEW i \in 1 .. n, s(i).t \notin woken PROVE \E a \in 1 .. m : q[a].t = s(i).t
    <3>1. PICK a \in 1 .. m : h[a] = i
      BY <1>4, <1>9, <1>10, <2>2
    <3> QED
      BY <1>16, <3>1
  <2>3. \A x : (\E a \in 1 .. m : x = q[a].t) <=> x \in Sleepers /\ x \notin woken
    <3>1. \A x : x \in Sleepers <=> \E i \in 1 .. n : x = s(i).t
      BY <1>12
    <3>2. ASSUME NEW x, NEW a \in 1 .. m, x = q[a].t PROVE x \in Sleepers /\ x \notin woken
      BY <2>1, <3>2
    <3>3. ASSUME NEW x, x \in Sleepers, x \notin woken PROVE \E a \in 1 .. m : x = q[a].t
      <4>1. PICK i \in 1 .. n : x = s(i).t
        BY <3>1, <3>3
      <4>2. \E a \in 1 .. m : q[a].t = s(i).t
        BY <2>2, <3>3, <4>1
      <4> QED
        BY <4>1, <4>2
    <3> QED
      BY <3>2, <3>3
  <2> QED
    BY <2>3
<1>20. NapsOnce(q)
  BY <1>17, <1>18 DEF NapsOnce, m
<1>21. OnTime(q)
  BY <1>16 DEF OnTime, m
<1> QED
  BY <1>7, <1>19, <1>20, <1>21 DEF Napping

\* Whoever is woken joins the ready queue, in the order of the list.
LEMMA ConcatExact ==
  ASSUME NEW S, NEW q \in Seq(S), NEW p \in Seq(S), IsInjective(q), IsInjective(p),
         \A x : ~ (InSeq(x, q) /\ InSeq(x, p)), NEW r, r = q \o p
  PROVE  /\ r \in Seq(S) /\ IsInjective(r)
         /\ \A x : InSeq(x, r) <=> InSeq(x, q) \/ InSeq(x, p)
<1> DEFINE m == Len(q)
           n == Len(p)
<1>1. m \in Nat /\ DOMAIN q = 1 .. m /\ n \in Nat /\ DOMAIN p = 1 .. n
  BY LenProperties
<1>2. /\ r \in Seq(S) /\ DOMAIN r = 1 .. m + n
      /\ \A i \in 1 .. m + n : r[i] = IF i <= m THEN q[i] ELSE p[i - m]
  BY ConcatProperties, LenProperties
<1> HIDE DEF m, n
<1>3. \A i \in 1 .. m + n : IF i <= m THEN i \in 1 .. m ELSE i - m \in 1 .. n
  BY <1>1
<1>4. /\ \A i \in 1 .. m : i \in 1 .. m + n /\ i <= m
      /\ \A i \in 1 .. n : i + m \in 1 .. m + n /\ ~ (i + m <= m) /\ (i + m) - m = i
  BY <1>1
<1>5. \A i \in 1 .. m : r[i] = q[i]
  BY <1>2, <1>4
<1>6. \A i \in 1 .. n : r[i + m] = p[i]
  BY <1>2, <1>4
<1>7. \A x : InSeq(x, q) \/ InSeq(x, p) => InSeq(x, r)
  <2>1. ASSUME NEW x, InSeq(x, q) PROVE InSeq(x, r)
    BY <1>1, <1>2, <1>4, <1>5, <2>1 DEF InSeq
  <2>2. ASSUME NEW x, InSeq(x, p) PROVE InSeq(x, r)
    <3>1. PICK i \in 1 .. n : p[i] = x
      BY <1>1, <2>2 DEF InSeq
    <3>2. i + m \in DOMAIN r /\ r[i + m] = x
      BY <1>2, <1>4, <1>6, <3>1
    <3> QED
      BY <3>2 DEF InSeq
  <2> QED
    BY <2>1, <2>2
<1>8. ASSUME NEW i \in 1 .. m + n PROVE IF i <= m THEN InSeq(r[i], q) ELSE InSeq(r[i], p)
  <2>1. ASSUME i <= m PROVE InSeq(r[i], q)
    BY <1>1, <1>3, <1>5, <2>1 DEF InSeq
  <2>2. ASSUME ~ (i <= m) PROVE InSeq(r[i], p)
    <3>1. i - m \in 1 .. n /\ r[i] = p[i - m]
      BY <1>2, <1>3, <2>2
    <3> QED
      BY <1>1, <3>1 DEF InSeq
  <2> QED
    BY <2>1, <2>2
<1>9. IsInjective(r)
  <2> SUFFICES ASSUME NEW i \in 1 .. m + n, NEW j \in 1 .. m + n, r[i] = r[j] PROVE i = j
    BY <1>2 DEF IsInjective
  <2>1. i <= m <=> j <= m
    BY <1>8
  <2>2. CASE i <= m
    BY <1>1, <1>2, <1>3, <2>1, <2>2 DEF IsInjective
  <2>3. CASE ~ (i <= m)
    <3>1. /\ i - m \in 1 .. n /\ j - m \in 1 .. n /\ p[i - m] = p[j - m]
      BY <1>2, <1>3, <2>1, <2>3
    <3>2. i - m = j - m
      BY <1>1, <3>1 DEF IsInjective
    <3> QED
      BY <1>1, <3>2
  <2> QED
    BY <2>2, <2>3
<1>10. ASSUME NEW x, InSeq(x, r) PROVE InSeq(x, q) \/ InSeq(x, p)
  <2>1. PICK i \in 1 .. m + n : r[i] = x
    BY <1>2, <1>10 DEF InSeq
  <2> QED
    BY <1>8, <2>1
<1> QED
  BY <1>2, <1>7, <1>9, <1>10

LEMMA WokenOrder ==
  ASSUME NapsOnce(sleeper_list), NEW woken, woken \subseteq Sleepers,
         NEW order, order = EntriesOf(sleeper_list, woken),
         NEW p, p = [i \in DOMAIN order |-> order[i].t]
  PROVE  /\ p \in Seq(Threads) /\ IsInjective(p)
         /\ \A x : InSeq(x, p) <=> x \in woken
<1> DEFINE n == Len(sleeper_list)
           m == Len(order)
           s(i) == sleeper_list[i]
<1>1. n \in Nat /\ DOMAIN sleeper_list = 1 .. n /\ \A i \in 1 .. n : s(i).t \in Threads
  <2>1. \A i \in 1 .. n : s(i) \in Entry
    BY ElementOfSeq DEF NapsOnce
  <2> QED
    BY <2>1, LenProperties DEF NapsOnce, Entry
<1>2. \A i, j \in 1 .. n : s(i).t = s(j).t => i = j
  BY DEF NapsOnce
<1>3. \A x : x \in Sleepers <=> \E i \in 1 .. n : x = s(i).t
  BY <1>1 DEF Sleepers
<1>4. order \in Seq(Entry) /\ \E h : Selects(order, sleeper_list, woken, n, h)
  BY EntriesAre DEF NapsOnce
<1>5. PICK h : Selects(order, sleeper_list, woken, n, h)
  BY <1>4
<1>6. m \in Nat /\ DOMAIN order = 1 .. m
  BY <1>4, LenProperties
<1>7. /\ h \in [1 .. m -> 1 .. n]
      /\ \A a \in 1 .. m : order[a] = s(h[a]) /\ s(h[a]).t \in woken
      /\ \A a, b \in 1 .. m : a < b => h[a] < h[b]
      /\ \A i \in 1 .. n : s(i).t \in woken => \E a \in 1 .. m : h[a] = i
  BY <1>5 DEF Selects
<1> HIDE DEF n, m, s
<1>8. /\ DOMAIN p = 1 .. m
      /\ \A a \in 1 .. m : h[a] \in 1 .. n /\ p[a] = s(h[a]).t /\ p[a] \in woken
  BY <1>6, <1>7
<1>9. p \in Seq(Threads)
  <2>1. p \in [1 .. m -> Threads]
    BY <1>1, <1>6, <1>8
  <2> QED
    BY <1>6, <2>1
<1>10. IsInjective(p)
  <2> SUFFICES ASSUME NEW a \in 1 .. m, NEW b \in 1 .. m, p[a] = p[b] PROVE a = b
    BY <1>8 DEF IsInjective
  <2>1. h[a] = h[b] /\ h[a] \in Nat
    BY <1>1, <1>2, <1>8
  <2>2. ~ (a < b) /\ ~ (b < a)
    BY <1>7, <2>1
  <2> QED
    BY <1>6, <2>2
<1>11. ASSUME NEW x PROVE InSeq(x, p) <=> x \in woken
  <2>1. ASSUME x \in woken PROVE InSeq(x, p)
    <3>1. PICK i \in 1 .. n : x = s(i).t
      BY <1>3, <2>1
    <3>2. PICK a \in 1 .. m : h[a] = i
      BY <1>7, <2>1, <3>1
    <3> QED
      BY <1>8, <3>1, <3>2 DEF InSeq
  <2> QED
    BY <1>8, <2>1 DEF InSeq
<1> QED
  BY <1>9, <1>10, <1>11

\* thread_sleep adds a sleeper that has its whole time before it; in seconds too the
\* product fits into the word.
LEMMA AskedFits ==
  ASSUME NEW ticks \in Durations, ticks # 0, NEW flag \in {"UNIT_TICK", "UNIT_SEC"}
  PROVE  Asked(ticks, flag) \in 1 .. WordMod - 1 /\ Remaining(ticks, flag) = Asked(ticks, flag)
<1>1. /\ ticks \in Nat /\ ticks # 0 /\ TicksPerSecond \in Nat /\ TicksPerSecond # 0
      /\ WordMod \in Nat /\ ticks * TicksPerSecond < WordMod
  BY SleepAssumption
<1>2. ticks <= ticks * TicksPerSecond /\ ticks * TicksPerSecond \in Nat
  BY <1>1
<1> DEFINE a == Asked(ticks, flag)
<1>3. a \in 1 .. WordMod - 1
  <2>1. a = ticks \/ a = ticks * TicksPerSecond
    BY DEF Asked
  <2> QED
    BY <1>1, <1>2, <2>1
<1> HIDE DEF a
<1>4. a % WordMod = a
  BY <1>1, <1>3
<1> QED
  BY <1>3, <1>4 DEF a, Remaining

LEMMA SleeperAdded ==
  ASSUME NapsOnce(sleeper_list), OnTime(sleeper_list), NEW t \in Threads, t \notin Sleepers,
         NEW k \in 1 .. WordMod - 1, NEW e,
         e = [t |-> t, tick_remaining |-> k, left |-> k, joined |-> Len(sleeper_list) + 1],
         NEW q, q = Append(sleeper_list, e)
  PROVE  /\ NapsOnce(q) /\ OnTime(q)
         /\ Napping(q) = Sleepers \cup {t}
<1> DEFINE n == Len(sleeper_list)
           s(i) == sleeper_list[i]
<1>1. n \in Nat /\ DOMAIN sleeper_list = 1 .. n /\ WordMod \in Nat
  BY LenProperties, SleepAssumption DEF NapsOnce
<1>2. e \in Entry /\ e.t = t /\ e.left = k /\ e.tick_remaining = k /\ e.joined = n + 1
  BY <1>1 DEF Entry
<1>3. /\ q \in Seq(Entry) /\ Len(q) = n + 1 /\ DOMAIN q = 1 .. n + 1 /\ q[n + 1] = e
      /\ \A i \in 1 .. n : q[i] = s(i)
  BY <1>2, LenProperties DEF NapsOnce
<1>4. \A i, j \in 1 .. n : s(i).t = s(j).t => i = j
  BY DEF NapsOnce
<1>5. \A x : x \in Sleepers <=> \E i \in 1 .. n : x = s(i).t
  BY <1>1 DEF Sleepers
<1>6. \A i \in 1 .. n :
        /\ s(i).left <= s(i).tick_remaining
        /\ s(i).tick_remaining - s(i).left <= s(i).joined - i
  BY DEF OnTime
<1> HIDE DEF n, s
<1>7. /\ \A i \in 1 .. n + 1 : i \in 1 .. n \/ i = n + 1
      /\ n + 1 \in 1 .. n + 1 /\ \A i \in 1 .. n : i \in 1 .. n + 1
  BY <1>1
<1>8. OnTime(q)
  <2> SUFFICES ASSUME NEW i \in 1 .. n + 1
               PROVE  /\ q[i].left <= q[i].tick_remaining
                      /\ q[i].tick_remaining - q[i].left <= q[i].joined - i
    BY <1>3 DEF OnTime
  <2>1. CASE i \in 1 .. n
    BY <1>3, <1>6, <2>1
  <2>2. CASE i = n + 1
    BY <1>1, <1>2, <1>3, <2>2
  <2> QED
    BY <1>7, <2>1, <2>2
<1>9. \A i \in 1 .. n : q[i].t # t
  BY <1>3, <1>5
<1>10. \A i, j \in 1 .. n + 1 : q[i].t = q[j].t => i = j
  BY <1>2, <1>3, <1>4, <1>7, <1>9
<1>11. NapsOnce(q)
  BY <1>3, <1>10 DEF NapsOnce
<1>12. \A x : (\E i \in 1 .. n + 1 : x = q[i].t) <=> x \in Sleepers \/ x = t
  <2>1. ASSUME NEW x, NEW i \in 1 .. n + 1, x = q[i].t PROVE x \in Sleepers \/ x = t
    BY <1>2, <1>3, <1>5, <1>7, <2>1
  <2>2. ASSUME NEW x, x \in Sleepers PROVE \E i \in 1 .. n + 1 : x = q[i].t
    BY <1>3, <1>5, <1>7, <2>2
  <2>3. q[n + 1].t = t
    BY <1>2, <1>3
  <2> QED
    BY <1>7, <2>1, <2>2, <2>3
<1>13. {q[i].t : i \in 1 .. n + 1} = Sleepers \cup {t}
  <2>1. \A x : x \in Sleepers \cup {t} <=> x \in Sleepers \/ x = t
    OBVIOUS
  <2>2. \A x : x \in {q[i].t : i \in 1 .. n + 1} <=> \E i \in 1 .. n + 1 : x = q[i].t
    OBVIOUS
  <2> QED
    BY <1>12, <2>1, <2>2, Zenon
<1> QED
  BY <1>3, <1>8, <1>11, <1>13 DEF Napping

-------------------------------------------------------------------------------
(* The threads, with the sleepers put aside. *)

\* The invariant of the kernel with the threads A put aside.  Between sleep_tick and
\* the rest of the tick the ready queue may have grown under an idle thread that
\* halts; but then the timer has not been held back.
AsideInv(A) ==
  /\ TypeInv /\ BootInv /\ PlaceInv(A) /\ LevelInv(A)
  /\ IF ticking THEN ~inService ELSE HaltInv

LEMMA UntimedAside ==
  ASSUME NEW A, AsideInv(A), Untimed
  PROVE  AsideInv(A)'
<1>1. Next /\ ~ticking /\ ticking' = ticking
  BY DEF Untimed, sleepVars, Next, Irq
<1>2. TypeInv /\ BootInv /\ PlaceInv(A) /\ LevelInv(A) /\ HaltInv
  BY <1>1 DEF AsideInv
<1>3. TypeInv' /\ BootInv'
  BY <1>1, <1>2, NextTypeInv, NextBootInv
<1>4. PlaceInv(A)'
  BY <1>1, <1>2, NextPlaceInv
<1>5. LevelInv(A)' /\ HaltInv'
  BY <1>1, <1>2, <1>4, NextLevelInv
<1> QED
  BY <1>1, <1>3, <1>4, <1>5 DEF AsideInv

LEMMA TickAside ==
  ASSUME NEW A, AsideInv(A), Tick
  PROVE  AsideInv(A)'
<1>1. Next /\ HardwareTick /\ ticking' = FALSE
  BY DEF Tick, Next, Irq
<1>2. TypeInv /\ BootInv /\ PlaceInv(A) /\ LevelInv(A)
  BY DEF AsideInv
<1>3. TypeInv' /\ BootInv'
  BY <1>1, <1>2, NextTypeInv, NextBootInv
<1>4. PlaceInv(A)'
  BY <1>1, <1>2, NextPlaceInv
<1>5. LevelInv(A)' /\ HaltInv'
  BY <1>1, <1>2, <1>4, TickLevelInv
<1> QED
  BY <1>1, <1>3, <1>4, <1>5 DEF AsideInv

\* thread_sleep puts a ready thread aside.
LEMMA SleepAside ==
  ASSUME NEW A, AsideInv(A), NEW u \in Threads, NEW t \in Threads \ {Idle}, NEW ticks, NEW flag,
         thread_sleep(u, t, ticks, flag), panic' = "none", NEW B, B = A \cup {t}
  PROVE  t \notin A /\ AsideInv(B)'
<1>1. TypeInv /\ BootInv /\ PlaceInv(A) /\ LevelInv(A) /\ HaltInv /\ ~ticking
  BY DEF AsideInv, thread_sleep
<1>2. /\ status \in [Threads -> Status] /\ pc \in [Threads -> Places]
      /\ ready_threads \in Seq(Threads) /\ Kernel \in Threads /\ Idle \in Threads
      /\ NULL \notin Threads /\ idle_thread \in {NULL, Idle}
  BY <1>1, ThreadAssumption DEF TypeInv, TypeOK
<1>3. /\ panic = "none" /\ current = u /\ ~inTick[u] /\ pc[u] = "user" /\ IsReady(t)
      /\ status' = [status EXCEPT ![t] = "BLOCKED"]
      /\ ready_threads' = RemoveFirst(ready_threads, t)
      /\ UNCHANGED <<panic, iflag, current, inService, pc, arg, saved, inTick, seen, all_threads,
                     torn, level, idle_thread, tick_count, value, waiters, holder, ticking>>
  BY DEF thread_sleep, Runs, StatusAsleep, ReadyWithout, callVars, synchVars
<1>4. Threaded /\ pc[Kernel] \notin Booting
  BY <1>1, <1>2, <1>3 DEF Threaded, PlaceInv, BootLists, BootInv, Booting, TypeInv, UnbornPlaces
<1>5. Exact(A) /\ LevelExact(A) /\ IdleInv
  BY <1>1, <1>4 DEF PlaceInv, LevelInv
<1>6. InSeq(t, ready_threads)
  BY <1>3 DEF IsReady, Positions, InSeq
<1>7. status[t] = "READY" /\ t # current /\ t \notin A /\ t # idle_thread
  BY <1>5, <1>6 DEF Exact, ReadyExact, CpuExact, BlockedExact
<1>8. /\ ready_threads' \in Seq(Threads) /\ IsInjective(ready_threads')
      /\ \A x : InSeq(x, ready_threads') <=> InSeq(x, ready_threads) /\ x # t
  BY <1>2, <1>3, <1>5, RemoveExact DEF Exact, ReadyExact
<1>9. /\ status' \in [Threads -> Status] /\ status'[t] = "BLOCKED"
      /\ \A v \in Threads : v # t => status'[v] = status[v]
  BY <1>2, <1>3 DEF Status
<1>10. TypeInv'
  <2>1. TypeOK'
    BY <1>1, <1>3, <1>8, <1>9 DEF TypeInv, TypeOK
  <2>2. ArgOK' /\ IdlePlaces'
    BY <1>1, <1>3 DEF TypeInv, ArgOK, IdlePlaces
  <2>3. UnbornPlaces'
    BY <1>1, <1>3, <1>9 DEF TypeInv, UnbornPlaces
  <2>4. IdleKnown'
    BY <1>1, <1>2, <1>3, <1>4, <1>8 DEF TypeInv, IdleKnown, Threaded
  <2> QED
    BY <2>1, <2>2, <2>3, <2>4 DEF TypeInv
<1>11. BootInv'
  BY <1>3, <1>4 DEF BootInv, Booting
<1>12. Exact(B)'
  <2>1. CpuExact' /\ DyingExact'
    BY <1>3, <1>5, <1>7, <1>9 DEF Exact, CpuExact, DyingExact
  <2>2. ReadyExact'
    BY <1>3, <1>5, <1>7, <1>8, <1>9 DEF Exact, ReadyExact
  <2>3. WaitExact(B)'
    BY <1>3, <1>5, <1>7, <1>9 DEF Exact, WaitExact, InSeq
  <2>4. CreateExact(B)'
    <3>1. \A v \in Threads : UnderCreation(v)' <=> UnderCreation(v)
      BY <1>3 DEF UnderCreation
    <3> QED
      BY <1>3, <1>5, <1>7, <1>9, <3>1 DEF Exact, CreateExact, Creating
  <2>5. BlockedExact(B)'
    BY <1>3, <1>5, <1>7, <1>9 DEF Exact, BlockedExact
  <2> QED
    BY <2>1, <2>2, <2>3, <2>4, <2>5 DEF Exact
<1>13. PlaceInv(B)'
  BY <1>1, <1>3, <1>4, <1>12 DEF PlaceInv, BootLists, IdleInv
<1>14. Threaded'
  BY <1>2, <1>3, <1>4, <1>9 DEF Threaded
<1>15. LevelExact(B)'
  <2>1. CpuLevel' /\ EoiPending'
    BY <1>3, <1>5 DEF LevelExact, CpuLevel, EoiPending, Off
  <2>2. ASSUME NEW v \in Threads PROVE FrameLevel(v, B)'
    <3>1. FrameLevel(v, A)
      BY <1>5 DEF LevelExact
    <3> QED
      BY <1>3, <1>7, <1>9, <3>1 DEF FrameLevel, Off
  <2> QED
    BY <2>1, <2>2 DEF LevelExact
<1>16. HaltInv'
  BY <1>3 DEF HaltInv, HaltEmpty
<1> QED
  BY <1>1, <1>3, <1>7, <1>10, <1>11, <1>13, <1>14, <1>15, <1>16 DEF AsideInv, LevelInv, BootLevel

\* sleep_tick makes sleepers ready that are due, all of them blocked: thread_unblock's
\* assertion holds for each.
LEMMA WakeAside ==
  ASSUME NapsOnce(sleeper_list), NEW A, A = Sleepers, AsideInv(A), sleep_tick,
         NEW woken, woken = Due(Wakings),
         NEW B, B = A \ woken
  PROVE  /\ panic' = panic /\ AsideInv(B)'
         /\ sleeper_list' = EntriesOf(CountedDown(Wakings), Threads \ woken)
<1>1. TypeInv /\ BootInv /\ PlaceInv(A) /\ LevelInv(A) /\ ~ticking /\ HaltInv
  BY DEF AsideInv, sleep_tick
<1>2. /\ status \in [Threads -> Status] /\ pc \in [Threads -> Places]
      /\ ready_threads \in Seq(Threads) /\ Kernel \in Threads /\ Idle \in Threads
      /\ NULL \notin Threads /\ idle_thread \in {NULL, Idle}
  BY <1>1, ThreadAssumption DEF TypeInv, TypeOK
<1>3. woken \subseteq A
  BY DEF Sleepers, Due
<1>4. A \subseteq Threads
  <2>1. \A i \in DOMAIN sleeper_list : sleeper_list[i] \in Entry
    BY LenProperties, ElementOfSeq DEF NapsOnce
  <2> QED
    BY <2>1 DEF Sleepers, Entry
<1>5. panic = "none" /\ iflag /\ ~inService
  BY DEF sleep_tick, IrqAccepted
<1>6. ~ Threaded => A = {}
  BY <1>1, <1>2, <1>5 DEF PlaceInv, BootLists, Booting, Threaded, TypeInv, UnbornPlaces
<1>7. Threaded => Exact(A) /\ LevelExact(A)
  BY <1>1 DEF PlaceInv, LevelInv
<1>8. \A t \in A : status[t] = "BLOCKED" /\ t # Idle
  BY <1>4, <1>6, <1>7 DEF Exact, BlockedExact
<1>9. PICK p : p = [i \in DOMAIN EntriesOf(sleeper_list, woken) |->
                      EntriesOf(sleeper_list, woken)[i].t]
  OBVIOUS
<1>10. /\ panic' = panic /\ iflag' = iflag /\ ticking' = TRUE
       /\ sleeper_list' = EntriesOf(CountedDown(Wakings), Threads \ woken)
       /\ ready_threads' = ready_threads \o p
       /\ status' = [t \in Threads |-> IF t \in woken THEN "READY" ELSE status[t]]
       /\ UNCHANGED <<current, inService, pc, arg, saved, inTick, seen, all_threads,
                      torn, level, idle_thread, tick_count, value, waiters, holder>>
  BY <1>3, <1>8, <1>9 DEF sleep_tick, Due, callVars, synchVars
<1>11. p \in Seq(Threads) /\ IsInjective(p) /\ \A x : InSeq(x, p) <=> x \in woken
  BY <1>3, <1>9, WokenOrder
<1>12. /\ status' \in [Threads -> Status]
       /\ \A t \in Threads : status'[t] = IF t \in woken THEN "READY" ELSE status[t]
       /\ \A t \in Threads : status'[t] = "unborn" <=> status[t] = "unborn"
  BY <1>2, <1>3, <1>8, <1>10 DEF Status
<1>13. ready_threads' \in Seq(Threads) /\ \A x : InSeq(x, ready_threads) => InSeq(x, ready_threads')
  <2>1. CASE Threaded
    <3>1. IsInjective(ready_threads) /\ \A x \in woken : ~ InSeq(x, ready_threads)
      BY <1>3, <1>4, <1>7, <1>8, <2>1 DEF Exact, ReadyExact
    <3> QED
      BY <1>2, <1>10, <1>11, <3>1, ConcatExact
  <2>2. CASE ~ Threaded
    <3>1. woken = {}
      BY <1>3, <1>6, <2>2
    <3>2. DOMAIN p = {}
      BY <1>11, <3>1 DEF InSeq
    <3>3. p = <<>>
      <4>1. p \in Seq(Threads) /\ DOMAIN p = 1 .. Len(p) /\ Len(p) \in Nat
        BY <1>11, LenProperties
      <4>2. Len(p) = 0
        BY <3>2, <4>1
      <4> QED
        BY <4>1, <4>2, EmptySeq
    <3>4. ready_threads' = ready_threads
      BY <1>2, <1>10, <3>3
    <3> QED
      BY <1>2, <3>4
  <2> QED
    BY <2>1, <2>2
<1>14. Threaded' <=> Threaded
  BY <1>2, <1>10, <1>12 DEF Threaded
<1>15. TypeInv'
  <2>1. TypeOK'
    BY <1>1, <1>10, <1>12, <1>13 DEF TypeInv, TypeOK
  <2>2. ArgOK' /\ IdlePlaces'
    BY <1>1, <1>10 DEF TypeInv, ArgOK, IdlePlaces
  <2>3. UnbornPlaces'
    BY <1>1, <1>10, <1>12 DEF TypeInv, UnbornPlaces
  <2>4. IdleKnown'
    BY <1>1, <1>2, <1>10, <1>12, <1>13 DEF TypeInv, IdleKnown
  <2> QED
    BY <2>1, <2>2, <2>3, <2>4 DEF TypeInv
<1>16. BootInv'
  BY <1>1, <1>10, <1>12 DEF BootInv
<1>17. ASSUME Threaded PROVE Exact(B)'
  <2>1. Exact(A)
    BY <1>7, <1>17
  <2>2. CpuExact' /\ DyingExact'
    BY <1>3, <1>8, <1>10, <1>12, <2>1 DEF Exact, CpuExact, DyingExact
  <2>3. ReadyExact'
    <3>1. IsInjective(ready_threads) /\ \A x \in woken : ~ InSeq(x, ready_threads)
      BY <1>3, <1>4, <1>8, <2>1 DEF Exact, ReadyExact
    <3>2. /\ IsInjective(ready_threads')
          /\ \A x : InSeq(x, ready_threads') <=> InSeq(x, ready_threads) \/ x \in woken
      BY <1>2, <1>10, <1>11, <3>1, ConcatExact
    <3>3. \A x \in woken : x # idle_thread
      BY <1>2, <1>3, <1>4, <1>8
    <3> QED
      BY <1>10, <1>12, <2>1, <3>2, <3>3 DEF Exact, ReadyExact
  <2>4. WaitExact(B)'
    BY <1>3, <1>8, <1>10, <1>12, <2>1 DEF Exact, WaitExact, InSeq
  <2>5. CreateExact(B)'
    <3>1. \A v \in Threads : UnderCreation(v)' <=> UnderCreation(v)
      BY <1>10 DEF UnderCreation
    <3> QED
      BY <1>3, <1>8, <1>10, <1>12, <2>1, <3>1 DEF Exact, CreateExact, Creating
  <2>6. BlockedExact(B)'
    BY <1>3, <1>8, <1>10, <1>12, <2>1 DEF Exact, BlockedExact
  <2> QED
    BY <2>2, <2>3, <2>4, <2>5, <2>6 DEF Exact
<1>18. PlaceInv(B)'
  BY <1>1, <1>10, <1>14, <1>17 DEF PlaceInv, BootLists, IdleInv
<1>19. ASSUME Threaded PROVE LevelExact(B)'
  <2>1. LevelExact(A)
    BY <1>7, <1>19
  <2>2. CpuLevel' /\ EoiPending'
    BY <1>10, <2>1 DEF LevelExact, CpuLevel, EoiPending, Off
  <2>3. ASSUME NEW v \in Threads PROVE FrameLevel(v, B)'
    <3>1. FrameLevel(v, A)
      BY <2>1 DEF LevelExact
    <3> QED
      BY <1>8, <1>10, <1>12, <3>1 DEF FrameLevel, Off
  <2> QED
    BY <2>2, <2>3 DEF LevelExact
<1>20. LevelInv(B)'
  BY <1>1, <1>10, <1>14, <1>19 DEF LevelInv, BootLevel
<1> QED
  BY <1>5, <1>10, <1>15, <1>16, <1>18, <1>20 DEF AsideInv

-------------------------------------------------------------------------------
(* The inductive invariant. *)

SleepInv ==
  /\ NapsOnce(sleeper_list) /\ OnTime(sleeper_list)
  /\ panic = "none" => \A A \in {Sleepers} : AsideInv(A)

\* A kernel that has panicked does nothing more.
LEMMA PanicStays ==
  ASSUME SleepNext \/ UNCHANGED <<vars, sleepVars>>, panic # "none"
  PROVE  UNCHANGED <<vars, sleepVars>>
<1> USE DEF Runs, IrqAccepted
<1>1. CASE UNCHANGED <<vars, sleepVars>>
  BY <1>1
<1>2. CASE sleep_tick \/ Tick
  BY <1>2 DEF sleep_tick, Tick, HardwareTick
<1>3. ASSUME NEW u, NEW t, NEW ticks, NEW flag, thread_sleep(u, t, ticks, flag) PROVE FALSE
  BY <1>3 DEF thread_sleep
<1>4. ASSUME NEW t, Call(t) PROVE FALSE
  BY <1>4 DEF Call, SoftwareTick, IntDisable, IntEnable, CallYield, CreatePage, RunReturn,
              CallDown, CallUp, LockAcquire, LockRelease
<1>5. ASSUME NEW t, Continue(t) PROVE FALSE
  BY <1>5 DEF Continue, YieldReturn, CreateList, CreateTail, CreateLink, CreateUnblock, Run, RunSchedule, IdleStart,
              IdleBlock, IdleHalt, SemaDown, SemaDownResume, IdleUp, LockAcquired, LockReleased
<1>6. CASE Untimed
  BY <1>4, <1>5, <1>6
    DEF Untimed, Boot, IdtInit, ThreadInit, OtherIrq, Resume, TickReturn, Compute, Halted
<1> QED
  BY <1>1, <1>2, <1>3, <1>6 DEF SleepNext

LEMMA StutterAside ==
  ASSUME NEW A, AsideInv(A), UNCHANGED <<vars, sleepVars>>
  PROVE  AsideInv(A)'
<1>1. TypeInv /\ BootInv /\ PlaceInv(A) /\ LevelInv(A) /\ UNCHANGED vars /\ ticking' = ticking
  BY DEF AsideInv, sleepVars
<1>2. TypeInv' /\ BootInv'
  BY <1>1, NextTypeInv, NextBootInv
<1>3. PlaceInv(A)'
  BY <1>1, NextPlaceInv
<1>4. LevelInv(A)' /\ (HaltInv' <=> HaltInv) /\ inService' = inService
  BY <1>1 DEF vars, threadVars, cpuVars, callVars, listVars, LevelInv, HaltInv, BootLevel, Threaded,
              LevelExact, FrameLevel, CpuLevel, EoiPending, HaltEmpty, Off
<1> QED
  BY <1>1, <1>2, <1>3, <1>4 DEF AsideInv

LEMMA NextSleepInv ==
  ASSUME SleepInv, SleepNext \/ UNCHANGED <<vars, sleepVars>>
  PROVE  SleepInv'
<1>1. CASE panic # "none"
  <2>1. UNCHANGED <<vars, sleepVars>>
    BY <1>1, PanicStays
  <2>2. panic' = panic /\ sleeper_list' = sleeper_list
    BY <2>1 DEF vars, threadVars, cpuVars, sleepVars
  <2> QED
    BY <1>1, <2>2 DEF SleepInv
<1>2. CASE panic = "none"
  <2>1. NapsOnce(sleeper_list) /\ OnTime(sleeper_list)
    BY DEF SleepInv
  <2>2. PICK A : A = Sleepers
    OBVIOUS
  <2>3. AsideInv(A)
    BY <1>2, <2>2 DEF SleepInv
  <2>4. CASE UNCHANGED <<vars, sleepVars>> \/ Untimed \/ Tick
    <3>1. sleeper_list' = sleeper_list
      BY <2>4 DEF Untimed, Tick, sleepVars
    <3>2. Sleepers' = A
      BY <2>2, <3>1 DEF Sleepers
    <3>3. AsideInv(A)'
      BY <2>3, <2>4, UntimedAside, TickAside, StutterAside
    <3> QED
      BY <2>1, <3>1, <3>2, <3>3 DEF SleepInv
  <2>5. CASE sleep_tick
    <3>1. PICK woken : woken = Due(Wakings)
      OBVIOUS
    <3>2. PICK B : B = A \ woken
      OBVIOUS
    <3>3. PICK q : q = EntriesOf(CountedDown(Wakings), Threads \ woken)
      OBVIOUS
    <3>4. sleeper_list' = q /\ AsideInv(B)'
      BY <2>1, <2>2, <2>3, <2>5, <3>1, <3>2, <3>3, WakeAside
    <3>5. NapsOnce(q) /\ OnTime(q) /\ Napping(q) = Sleepers \ woken
      BY <2>1, <3>1, <3>3, KeptOnTime
    <3>6. Sleepers' = B
      <4>1. Sleepers' = Napping(q)
        BY <3>4 DEF Sleepers, Napping
      <4> QED
        BY <2>2, <3>2, <3>5, <4>1
    <3> QED
      BY <3>4, <3>5, <3>6 DEF SleepInv
  <2>6. ASSUME NEW u \in Threads, NEW t \in Threads \ {Idle}, NEW ticks \in Durations,
               NEW flag \in {"UNIT_TICK", "UNIT_SEC"}, thread_sleep(u, t, ticks, flag)
        PROVE  SleepInv'
    <3>1. CASE panic' # "none"
      <4>1. sleeper_list' = sleeper_list
        BY <1>2, <2>6, <3>1 DEF thread_sleep
      <4> QED
        BY <2>1, <3>1, <4>1 DEF SleepInv
    <3>2. CASE panic' = "none"
      <4>1. PICK B : B = A \cup {t}
        OBVIOUS
      <4>2. t \notin A /\ AsideInv(B)'
        BY <2>3, <2>6, <3>2, <4>1, SleepAside
      <4>3. PICK k \in 1 .. WordMod - 1 :
              k = Asked(ticks, flag) /\ k = Remaining(ticks, flag)
        BY <2>6, AskedFits DEF thread_sleep
      <4>4. PICK e : e = [t |-> t, tick_remaining |-> k, left |-> k,
                          joined |-> Len(sleeper_list) + 1]
        OBVIOUS
      <4>5. PICK q : q = Append(sleeper_list, e)
        OBVIOUS
      <4>6. sleeper_list' = q
        BY <1>2, <2>6, <3>2, <4>3, <4>4, <4>5 DEF thread_sleep
      <4>7. NapsOnce(q) /\ OnTime(q) /\ Napping(q) = Sleepers \cup {t}
        BY <2>1, <2>2, <4>2, <4>4, <4>5, SleeperAdded
      <4>8. Sleepers' = B
        <5>1. Sleepers' = Napping(q)
          BY <4>6 DEF Sleepers, Napping
        <5> QED
          BY <2>2, <4>1, <4>7, <5>1
      <4> QED
        BY <4>2, <4>6, <4>7, <4>8 DEF SleepInv
    <3> QED
      BY <3>1, <3>2
  <2> QED
    BY <2>4, <2>5, <2>6 DEF SleepNext
<1> QED
  BY <1>1, <1>2

LEMMA SpecSleepInv == SleepSpec => []SleepInv
<1>1. ASSUME SleepInit PROVE SleepInv
  <2>1. Init /\ sleeper_list = <<>> /\ ~ticking
    BY <1>1 DEF SleepInit
  <2>2. NapsOnce(sleeper_list) /\ OnTime(sleeper_list) /\ Sleepers = {}
    BY <2>1 DEF NapsOnce, OnTime, Sleepers
  <2>3. TypeInv /\ BootInv
    BY <2>1, InitTypeInv, ThreadAssumption DEF Init, BootInv
  <2>4. AsideInv({})
    BY <2>1, <2>3, InitPlaceInv, InitLevelInv DEF AsideInv
  <2> QED
    BY <2>2, <2>4 DEF SleepInv
<1>2. SleepInv /\ [SleepNext]_<<vars, sleepVars>> => SleepInv'
  BY NextSleepInv
<1> QED
  BY <1>1, <1>2, PTL DEF SleepSpec

\* What the invariant says while the kernel runs threads.
LEMMA SleepersExact ==
  ASSUME SleepInv, Threaded
  PROVE  \E A : /\ A = Sleepers /\ TypeInv /\ IdleInv /\ Exact(A) /\ LevelExact(A)
                /\ IF ticking THEN ~inService ELSE HaltEmpty
<1>1. PICK A : A = Sleepers
  OBVIOUS
<1>2. AsideInv(A)
  BY <1>1 DEF SleepInv, Threaded
<1> QED
  BY <1>1, <1>2 DEF AsideInv, PlaceInv, LevelInv, HaltInv

\* Asleep or not, a thread is in exactly one place: thread_sleep takes it out of the
\* ready queue, and sleep_tick puts it back when it takes it off the list.
THEOREM OnePlaceWithSleep == SleepSpec => []OnePlaceAsleep
<1>1. ASSUME SleepInv PROVE OnePlaceAsleep
  <2> SUFFICES ASSUME Threaded, NEW t \in Threads
               PROVE  Cardinality(Holds(t)) + Cardinality(Naps(t)) =
                        IF status[t] = "unborn" \/ pc[t] = "dead" THEN 0 ELSE 1
    BY DEF OnePlaceAsleep, Threaded
  <2>1. PICK A : A = Sleepers /\ TypeInv /\ IdleInv /\ Exact(A)
    BY <1>1, SleepersExact
  <2>2. IF status[t] = "unborn" \/ pc[t] = "dead" \/ t \in A
        THEN Holds(t) = {} ELSE \E h : Holds(t) = {h}
    BY <2>1, HoldsExact
  <2>3. t \in A => status[t] = "BLOCKED" /\ pc[t] # "dead"
    BY <2>1 DEF Exact, BlockedExact, DyingExact
  <2>4. IF t \in A THEN \E i : Naps(t) = {i} ELSE Naps(t) = {}
    <3>1. /\ DOMAIN sleeper_list = 1 .. Len(sleeper_list)
          /\ \A i, j \in 1 .. Len(sleeper_list) : sleeper_list[i].t = sleeper_list[j].t => i = j
      BY <1>1, LenProperties DEF SleepInv, NapsOnce
    <3>2. CASE t \in A
      <4>1. PICK i \in DOMAIN sleeper_list : sleeper_list[i].t = t
        BY <2>1, <3>2 DEF Sleepers
      <4>2. Naps(t) = {i}
        BY <3>1, <4>1 DEF Naps
      <4> QED
        BY <3>2, <4>2
    <3>3. CASE t \notin A
      BY <2>1, <3>3 DEF Sleepers, Naps
    <3> QED
      BY <3>2, <3>3
  <2>5. /\ Holds(t) = {} => Cardinality(Holds(t)) = 0
        /\ (\E h : Holds(t) = {h}) => Cardinality(Holds(t)) = 1
        /\ Naps(t) = {} => Cardinality(Naps(t)) = 0
        /\ (\E i : Naps(t) = {i}) => Cardinality(Naps(t)) = 1
    BY FS_EmptySet, FS_Singleton
  <2> DEFINE h == Cardinality(Holds(t))
             n == Cardinality(Naps(t))
  <2>6. h = IF status[t] = "unborn" \/ pc[t] = "dead" \/ t \in A THEN 0 ELSE 1
    BY <2>2, <2>5
  <2>7. n = IF t \in A THEN 1 ELSE 0
    BY <2>4, <2>5
  <2> HIDE DEF h, n
  <2>8. h + n = IF status[t] = "unborn" \/ pc[t] = "dead" THEN 0 ELSE 1
    BY <2>3, <2>6, <2>7
  <2> QED
    BY <2>8 DEF h, n
<1> QED
  BY <1>1, SpecSleepInv, PTL

\* The status of every thread tells where it is, and a sleeper is blocked: what
\* thread_unblock asserts when sleep_tick wakes it.
THEOREM StatusIsTold == SleepSpec => []StatusTold
<1>1. ASSUME SleepInv PROVE StatusTold
  <2> SUFFICES ASSUME Threaded, NEW t \in Threads
               PROVE  StatusTells(t, Sleepers) /\ (t \in Sleepers => status[t] = "BLOCKED")
    BY DEF StatusTold, Threaded
  <2>1. PICK A : A = Sleepers /\ TypeInv /\ IdleInv /\ Exact(A)
    BY <1>1, SleepersExact
  <2>2. t \in Sleepers => status[t] = "BLOCKED"
    BY <2>1 DEF Exact, BlockedExact
  <2>3. status[t] = "RUNNING" => current = t
    BY <2>1 DEF Exact, CpuExact
  <2>4. ASSUME status[t] = "READY"
        PROVE  \/ \E i \in DOMAIN ready_threads : ready_threads[i] = t
               \/ t = idle_thread /\ current # t
    BY <2>1, <2>4 DEF Exact, CpuExact, ReadyExact, InSeq
  <2>5. ASSUME status[t] = "BLOCKED", t \notin A, pc[t] = "wait"
        PROVE  Positions(waiters[arg[t]], t) # {}
    <3>1. arg[t] \in Semas
      BY <2>1, <2>5 DEF TypeInv, ArgOK
    <3>2. InSeq(t, waiters[arg[t]])
      BY <2>1, <2>5, <3>1 DEF Exact, WaitExact
    <3> QED
      BY <3>2 DEF InSeq, Positions
  <2>6. ASSUME status[t] = "BLOCKED", t \notin A, pc[t] = "fresh" PROVE UnderCreation(t)
    BY <2>1, <2>6 DEF Exact, CreateExact, Creating
  <2>7. status[t] = "BLOCKED" =>
          t \in A \/ pc[t] \in {"wait", "fresh"} \/ (t = idle_thread /\ pc[t] = "idle_blocked")
    BY <2>1 DEF Exact, BlockedExact
  <2> QED
    BY <2>1, <2>2, <2>3, <2>4, <2>5, <2>6, <2>7 DEF StatusTells
<1> QED
  BY <1>1, SpecSleepInv, PTL

\* The idle thread halts with the timer held back only when the thread that owes the
\* EOI was put to sleep: every other such thread is ready, and idle() does not halt then.
THEOREM OnlySleepersHalt == SleepSpec => []HaltedBySleeper
<1>1. ASSUME SleepInv PROVE HaltedBySleeper
  <2> SUFFICES ASSUME panic = "none", pc[current] = "hlt", ~inTick[current]
               PROVE  iflag /\ (inService => \E t \in Sleepers : inTick[t])
    BY DEF HaltedBySleeper
  <2>1. PICK A : A = Sleepers
    OBVIOUS
  <2>2. AsideInv(A)
    BY <1>1, <2>1 DEF SleepInv
  <2>3. current \in Threads /\ Kernel \in Threads /\ Idle \in Threads /\ NULL \notin Threads
    BY <2>2, ThreadAssumption DEF AsideInv, TypeInv, TypeOK
  <2>4. current = Idle
    BY <2>2, <2>3 DEF AsideInv, TypeInv, IdlePlaces
  <2>5. Threaded
    BY <2>2, <2>3
      DEF AsideInv, PlaceInv, BootLists, Booting, BootInv, TypeInv, UnbornPlaces, Threaded
  <2>6. Exact(A) /\ LevelExact(A)
    BY <2>2, <2>5 DEF AsideInv, PlaceInv, LevelInv
  <2>7. iflag
    BY <2>3, <2>6 DEF LevelExact, FrameLevel, CpuLevel, Off, Switched, Unchosen
  <2>8. idle_thread = Idle
    BY <2>2, <2>4 DEF AsideInv, PlaceInv, IdleInv, TypeInv, TypeOK
  <2>9. ASSUME inService PROVE \E t \in Sleepers : inTick[t]
    <3>1. ready_threads = <<>>
      BY <2>2, <2>4, <2>5, <2>9 DEF AsideInv, HaltInv, HaltEmpty
    <3>2. PICK t \in Threads : inTick[t]
      BY <2>6, <2>9 DEF LevelExact, EoiPending
    <3>3. t # current /\ (status[t] \in {"READY", "RUNNING"} \/ t \in A)
      BY <2>6, <3>2 DEF LevelExact, FrameLevel
    <3>4. status[t] # "RUNNING"
      BY <2>6, <3>3 DEF Exact, CpuExact
    <3>5. status[t] = "READY" => InSeq(t, ready_threads)
      BY <2>4, <2>6, <2>8, <3>3 DEF Exact, ReadyExact
    <3>6. ~ InSeq(t, ready_threads)
      BY <3>1 DEF InSeq
    <3> QED
      BY <2>1, <3>2, <3>3, <3>4, <3>5, <3>6
  <2> QED
    BY <2>7, <2>9
<1> QED
  BY <1>1, SpecSleepInv, PTL

\* A sleeper is never woken early, and late by at most one tick for every sleeper in
\* front of it that was woken: whenever the walk of sleep_tick skips a sleeper, that
\* sleeper has moved up by one.
THEOREM SleepersOnTime == SleepSpec => []SleepOnTime
<1>1. SleepInv => SleepOnTime
  <2>1. SleepInv => DOMAIN sleeper_list = 1 .. Len(sleeper_list)
    BY LenProperties DEF SleepInv, NapsOnce
  <2> QED
    BY <2>1 DEF SleepInv, OnTime, SleepOnTime
<1> QED
  BY <1>1, SpecSleepInv, PTL

-------------------------------------------------------------------------------
(* all_threads, interrupt levels and locks, with sleep. *)

\* What the two new actions leave alone.
LEMMA SleepFrame ==
  ASSUME TypeInv,
         sleep_tick \/ \E u, t, ticks, flag : t \in Threads /\ thread_sleep(u, t, ticks, flag)
  PROVE  /\ LockFrame
         /\ torn' = torn /\ (panic' = "none" => ListFrame /\ (Threaded' <=> Threaded))
<1>1. /\ panic = "none" /\ UNCHANGED <<pc, arg, all_threads, torn, value, holder>>
      /\ status \in [Threads -> Status] /\ Kernel \in Threads
  BY ThreadAssumption DEF sleep_tick, IrqAccepted, thread_sleep, Runs, callVars, synchVars,
                          TypeInv, TypeOK
<1>2. LockFrame
  BY <1>1 DEF LockFrame
<1>3. ASSUME panic' = "none"
      PROVE  \A v \in Threads : status'[v] = "unborn" <=> status[v] = "unborn"
  <2>1. CASE sleep_tick
    <3>1. PICK woken : woken = Due(Wakings)
      OBVIOUS
    <3>2. /\ \A v \in woken : status[v] = "BLOCKED"
          /\ status' = [v \in Threads |-> IF v \in woken THEN "READY" ELSE status[v]]
      BY <1>1, <1>3, <2>1, <3>1 DEF sleep_tick, Due
    <3> QED
      BY <3>2
  <2>2. ASSUME NEW u, NEW t \in Threads, NEW ticks, NEW flag, thread_sleep(u, t, ticks, flag)
        PROVE  \A v \in Threads : status'[v] = "unborn" <=> status[v] = "unborn"
    BY <1>1, <1>3, <2>2 DEF thread_sleep, StatusAsleep
  <2> QED
    BY <2>1, <2>2
<1>4. panic' = "none" => ListFrame
  BY <1>1, <1>3 DEF ListFrame, Listing
<1>5. panic' = "none" => (Threaded' <=> Threaded)
  BY <1>1, <1>3 DEF Threaded
<1> QED
  BY <1>1, <1>2, <1>4, <1>5

LEMMA NextSleepOthers ==
  ASSUME SleepInv, ListInv, LockInv, SleepNext \/ UNCHANGED <<vars, sleepVars>>
  PROVE  ListInv' /\ LockInv' /\ OwnerStep
<1>1. ASSUME LockFrame PROVE LockInv' /\ OwnerStep
  BY <1>1, FrameLockInv DEF OwnerStep, OwnersKept
<1>2. CASE UNCHANGED <<vars, sleepVars>>
  <2>1. LockFrame /\ ListFrame /\ (Threaded' <=> Threaded) /\ torn' = torn
    BY <1>2 DEF vars, threadVars, cpuVars, callVars, listVars, synchVars,
                LockFrame, ListFrame, Listing, Threaded
  <2> QED
    BY <1>1, <2>1, FrameListExact DEF ListInv
<1>3. ASSUME panic = "none", SleepNext PROVE ListInv' /\ LockInv' /\ OwnerStep
  <2>1. PICK A : A = Sleepers
    OBVIOUS
  <2>2. TypeInv /\ BootInv /\ PlaceInv(A)
    BY <1>3, <2>1 DEF SleepInv, AsideInv
  <2>3. CASE Untimed \/ Tick
    <3>1. Next
      BY <2>3 DEF Untimed, Tick, Next, Irq
    <3>2. ListInv'
      BY <2>2, <3>1, NextListInv
    <3>3. LockInv' /\ OwnerStep
      BY <2>2, <3>1, NextLockInv DEF LockTypeInv
    <3> QED
      BY <3>2, <3>3
  <2>4. CASE sleep_tick \/ \E u, t, ticks, flag : t \in Threads /\ thread_sleep(u, t, ticks, flag)
    <3>1. LockFrame /\ torn' = torn /\ (panic' = "none" => ListFrame /\ (Threaded' <=> Threaded))
      BY <2>2, <2>4, SleepFrame
    <3>2. ListInv'
      BY <3>1, FrameListExact DEF ListInv, Threaded
    <3> QED
      BY <1>1, <3>1, <3>2
  <2> QED
    BY <1>3, <2>3, <2>4 DEF SleepNext
<1> QED
  BY <1>2, <1>3, PanicStays

LEMMA SpecSleepOthers == SleepSpec => [](SleepInv /\ ListInv /\ LockInv)
<1>1. SleepInit => ListInv /\ LockInv
  BY InitLockInv, ThreadAssumption DEF SleepInit, Init, ListInv, Threaded
<1>2. SleepInv /\ (ListInv /\ LockInv) /\ [SleepNext]_<<vars, sleepVars>> => (ListInv /\ LockInv)'
  BY NextSleepOthers
<1> QED
  BY <1>1, <1>2, SpecSleepInv, PTL DEF SleepSpec

\* Sleep makes no difference to all_threads: a sleeper stays in it, until an append that
\* was interrupted is overtaken by another or by the end of the thread it links to.
THEOREM SleepersAreListed == SleepSpec => []AllThreadsExact
<1>1. ListInv => AllThreadsExact
  BY ListedOnce DEF ListInv, Threaded, Listed, Listing, AllThreadsExact
<1> QED
  BY <1>1, SpecSleepOthers, PTL

\* Nor to the levels: a thread that was put to sleep inside a call or inside the handler
\* of a tick finds the level its own function chose when it is back there, although
\* others turned interrupts off or on meanwhile.
THEOREM SleepersKeepLevel == SleepSpec => []LevelRestored
<1>1. ASSUME SleepInv PROVE LevelRestored
  <2>1. Threaded => CpuLevel
    BY <1>1, SleepersExact DEF LevelExact
  <2> QED
    BY <2>1 DEF CpuLevel, Off, LevelRestored, Threaded
<1> QED
  BY <1>1, SpecSleepInv, PTL

\* Nor to the locks: with threads that sleep, holding locks or waiting for them, the
\* kernel still implements the abstract mutex.
THEOREM LocksOfSleepers == SleepSpec => MutexSpec
<1> DEFINE owner == [l \in Locks |-> Owner(l)]
<1>1. ASSUME SleepInv, ListInv, LockInv, LockInv', [SleepNext]_<<vars, sleepVars>>
      PROVE  [Abs!Next]_owner
  <2>1. OwnerStep
    BY <1>1, NextSleepOthers
  <2> QED
    BY <1>1, <2>1, StepMutex
<1>2. SleepInit => Abs!Init
  BY InitMutex DEF SleepInit
<1>3. SleepSpec => []LockInv
  BY SpecSleepOthers, PTL
<1> QED
  BY <1>1, <1>2, <1>3, SpecSleepOthers, PTL DEF SleepSpec, MutexSpec, Abs!Spec
===============================================================================
