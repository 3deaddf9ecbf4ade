------------------------------ MODULE ScreenProofs ------------------------------
(***************************************************************************)
(* Proofs about Screen, for every size of the screen and of the stack of   *)
(* attempts.  The invariant has four parts: what is still to be done is    *)
(* the rest of boot() or of a panic (Planned); while no print_char was     *)
(* torn, ports and offset are where print_char says (Steady); a bracket    *)
(* that is being printed is where push_row will look for it (Begun); and   *)
(* the bracket of an attempt that is open is where it was, less what has   *)
(* scrolled (Kept).                                                        *)
(***************************************************************************)
EXTENDS Screen, Induction, TLAPS

Places == {"idle", "in15", "read15", "in14", "read14", "set", "out14", "wrote14", "out15"}
Reading == {"in15", "read15", "in14", "read14"}
Setting == {"set", "out14", "wrote14", "out15"}

\* What main() has still to do, and where in it a handler has found it.
Main == IF frame = <<>> THEN todo ELSE frame[1]
MainAt == IF frame = <<>> THEN at ELSE frame[2]

\* Something else happens in q between two times a.
Between(q, a, b) ==
  \A i, j \in DOMAIN q : q[i] = a /\ q[j] = a /\ i < j =>
     \E k \in DOMAIN q : q[k] = b /\ i < k /\ k < j

\* The first a of q comes after a b.
After(q, a, b) == \A j \in DOMAIN q : q[j] = a => \E i \in DOMAIN q : q[i] = b /\ i < j

\* push_row and print_ok of q alternate, from a stack of d rows on.
Balanced(q, d) ==
  /\ Between(q, "push_row", "print_ok") /\ Between(q, "print_ok", "push_row")
  /\ d = 0 => After(q, "print_ok", "push_row")
  /\ d = 1 => After(q, "push_row", "print_ok")

\* push_row follows the bracket at the start of a line.
Bracketed(q) ==
  \A j \in DOMAIN q : q[j] = "push_row" =>
     /\ j > 1 => q[j - 1] = "blank"
     /\ j > 2 => q[j - 2] = "bracket"
     /\ j > 3 => q[j - 3] = "NL"

\* Interrupts are turned on once, when there is one more push_row at most.
LateIrq(q) ==
  /\ \A i, j \in DOMAIN q : q[i] = "idt_init" /\ q[j] = "idt_init" => i = j
  /\ \A i, j \in DOMAIN q : q[i] = "push_row" /\ q[j] = "push_row" /\ i < j =>
        \E k \in DOMAIN q : q[k] = "idt_init" /\ i < k

Script(q, d) == Balanced(q, d) /\ Bracketed(q) /\ LateIrq(q)

Lacks(q, a) == \A i \in DOMAIN q : q[i] # a

\* In the middle of print_char or push_row, or of the end of draw_panic_screen.
Middle(q, a) ==
  a # "idle" =>
    /\ q # <<>>
    /\ a \in Reading => Head(q) \in Chars \cup {"NL", "push_row"}
    /\ a \in Setting => Head(q) \in Chars \cup {"NL", "draw_panic_screen"}

Offsets == 0 .. Byte * Byte
Frames == {<<>>} \cup Seq(Items) \X Places \X Offsets

Planned ==
  /\ frame \in Frames
  /\ Middle(todo, at) /\ Middle(Main, MainAt)
  /\ irq => frame = <<>>
  /\ frame # <<>> => todo \in {<<"NL", "s", "iret">>, <<"s", "iret">>, <<"iret">>}
  /\ Lacks(Main, "iret")
  /\ Lacks(Main, "draw_panic_screen") \/ Lacks(Main, "push_row")
  /\ irq \/ frame # <<>> => Lacks(Main, "idt_init")
  /\ stack_idx \in {0, 1} /\ Script(Main, stack_idx)

Steady ==
  ~torn =>
    /\ ~stray
    /\ frame # <<>> => frame[2] = "idle"
    /\ Cursor \in Cells
    /\ at = "in15" => ctrl = 15
    /\ at = "read15" => offset = reg[15]
    /\ at = "in14" => ctrl = 14 /\ offset = reg[15]
    /\ at = "read14" => offset = 2 * Cursor
    /\ at = "out14" => ctrl = 14
    /\ at \in {"wrote14", "out15"} => reg[14] = Cursor \div Byte
    /\ at = "out15" => ctrl = 15
    /\ attempt_stack[0] \in 0 .. MAX_ROWS - 1

\* The k-th thing to be done once the cursor is set is push_row.
PushIn(k) ==
  IF at \in Setting THEN k + 1 \in DOMAIN todo /\ todo[k + 1] = "push_row"
  ELSE k \in DOMAIN todo /\ todo[k] = "push_row"

\* The cursor is k places behind the start of a line with a bracket.
Behind(k) ==
  \E r \in 0 .. MAX_ROWS - 1 :
     Cursor = r * MAX_COLS + k /\ (k > 0 => vidmem[r * MAX_COLS] = "bracket")

Begun ==
  ~torn /\ ~irq /\ frame = <<>> =>
    /\ PushIn(3) => Behind(0)
    /\ PushIn(2) => Behind(1)
    /\ PushIn(1) => Behind(2)

Row == attempt_stack[0] - scrolled

Kept ==
  ~torn /\ stack_idx = 1 /\ ~ Lacks(Main, "push_row") /\ Row >= 0 =>
    /\ Cursor > Row * MAX_COLS
    /\ vidmem[Row * MAX_COLS] = "bracket" \/ (Row = 0 /\ vidmem[0] = "k")

ScreenInv == TypeOK /\ Planned /\ Steady /\ Begun /\ Kept
-------------------------------------------------------------------------------
(* The script: what is still to be done. *)

\* The elements of a concatenation.
LEMMA Cat ==
  ASSUME NEW S, NEW s \in Seq(S), NEW t \in Seq(S)
  PROVE  /\ s \o t \in Seq(S)
         /\ DOMAIN (s \o t) = 1 .. Len(s) + Len(t)
         /\ DOMAIN s = 1 .. Len(s) /\ DOMAIN t = 1 .. Len(t)
         /\ Len(s) \in Nat /\ Len(t) \in Nat
         /\ \A i \in 1 .. Len(s) : (s \o t)[i] = s[i]
         /\ \A i \in 1 .. Len(t) : (s \o t)[Len(s) + i] = t[i]
         /\ \A i \in Len(s) + 1 .. Len(s) + Len(t) : (s \o t)[i] = t[i - Len(s)]
OBVIOUS

\* An item at i of a concatenation is in one of its parts.
LEMMA CatWhere ==
  ASSUME NEW S, NEW s \in Seq(S), NEW t \in Seq(S), NEW i \in DOMAIN (s \o t)
  PROVE  \/ i \in DOMAIN s /\ (s \o t)[i] = s[i]
         \/ /\ i - Len(s) \in DOMAIN t /\ i > Len(s)
            /\ (s \o t)[i] = t[i - Len(s)]
<1>1. CASE i <= Len(s)
  BY <1>1, Cat
<1>2. CASE i > Len(s)
  BY <1>2, Cat
<1> QED
  BY <1>1, <1>2, Cat

\* What is in a part is in the concatenation.
LEMMA CatHas ==
  ASSUME NEW S, NEW s \in Seq(S), NEW t \in Seq(S)
  PROVE  /\ \A i \in DOMAIN s : i \in DOMAIN (s \o t) /\ (s \o t)[i] = s[i]
                                 /\ i \in 1 .. Len(s)
         /\ \A i \in DOMAIN t : i + Len(s) \in DOMAIN (s \o t) /\ (s \o t)[i + Len(s)] = t[i]
                                 /\ i \in 1 .. Len(t)
BY Cat

\* What is left when the first thing is done.
LEMMA Rest ==
  ASSUME NEW S, NEW q \in Seq(S), q # <<>>
  PROVE  /\ Tail(q) \in Seq(S) /\ Len(q) \in Nat /\ Len(q) >= 1
         /\ DOMAIN q = 1 .. Len(q) /\ DOMAIN Tail(q) = 1 .. Len(q) - 1
         /\ \A i \in 1 .. Len(q) - 1 : Tail(q)[i] = q[i + 1]
         /\ Head(q) = q[1]
OBVIOUS

\* A part of boot() that leaves no attempt open.
Whole(q) ==
  /\ Between(q, "push_row", "print_ok") /\ Between(q, "print_ok", "push_row")
  /\ After(q, "print_ok", "push_row")
  /\ \A j \in DOMAIN q : q[j] = "push_row" =>
        /\ j > 3 /\ q[j - 1] = "blank" /\ q[j - 2] = "bracket" /\ q[j - 3] = "NL"
        /\ \E k \in DOMAIN q : q[k] = "print_ok" /\ j < k
  /\ Lacks(q, "iret") /\ Lacks(q, "draw_panic_screen")

LEMMA WholeCat ==
  ASSUME NEW s \in Seq(Items), NEW t \in Seq(Items), Whole(s), Whole(t)
  PROVE  s \o t \in Seq(Items) /\ Whole(s \o t)
<1> DEFINE q == s \o t
<1> DEFINE n == Len(s)
<1>0. q \in Seq(Items) /\ n \in Nat
  BY Cat
<1>1. \A i \in DOMAIN q : \/ i \in DOMAIN s /\ q[i] = s[i]
                          \/ i - n \in DOMAIN t /\ i > n /\ q[i] = t[i - n]
  BY CatWhere
<1>2. /\ \A i \in DOMAIN s : i \in DOMAIN q /\ q[i] = s[i] /\ i \in 1 .. n
      /\ \A i \in DOMAIN t : i + n \in DOMAIN q /\ q[i + n] = t[i] /\ i \in 1 .. Len(t)
  BY CatHas
<1>d. DOMAIN s = 1 .. n /\ DOMAIN t = 1 .. Len(t) /\ Len(t) \in Nat /\ DOMAIN q \subseteq Nat
  BY Cat
<1> HIDE DEF q, n
<1>3. ASSUME NEW i \in DOMAIN q, NEW j \in DOMAIN q, i < j,
             q[i] = "push_row", q[j] = "push_row"
      PROVE  \E k \in DOMAIN q : q[k] = "print_ok" /\ i < k /\ k < j
  <2>1. CASE i \in DOMAIN s /\ q[i] = s[i] /\ j \in DOMAIN s /\ q[j] = s[j]
    BY <1>3, <2>1, <1>2 DEF Whole, Between
  <2>2. CASE i \in DOMAIN s /\ q[i] = s[i] /\ j - n \in DOMAIN t /\ j > n
    <3>1. PICK k \in DOMAIN s : s[k] = "print_ok" /\ i < k
      BY <1>3, <2>2 DEF Whole
    <3>2. k \in DOMAIN q /\ q[k] = "print_ok"
      BY <3>1, <1>2
    <3>3. k < j /\ i < k
      BY <3>1, <2>2, <1>d, <1>0
    <3> QED
      BY <3>2, <3>3
  <2>3. CASE i - n \in DOMAIN t /\ i > n /\ q[i] = t[i - n] /\ j - n \in DOMAIN t /\ q[j] = t[j - n]
    <3>0. PICK u \in DOMAIN t, w \in DOMAIN t : u = i - n /\ w = j - n
      BY <2>3
    <3>u. u < w /\ t[u] = "push_row" /\ t[w] = "push_row"
      BY <1>3, <2>3, <3>0, <1>d, <1>0
    <3>b. Between(t, "push_row", "print_ok")
      BY DEF Whole
    <3>1. PICK k \in DOMAIN t : t[k] = "print_ok" /\ i - n < k /\ k < j - n
      BY <3>0, <3>u, <3>b DEF Between
    <3>2. k + n \in DOMAIN q /\ q[k + n] = "print_ok"
      BY <3>1, <1>2
    <3>3. i < k + n /\ k + n < j
      BY <3>1, <2>3, <1>d, <1>0, SMTT(30)
    <3> QED
      BY <3>2, <3>3
  <2> QED
    BY <2>1, <2>2, <2>3, <1>1, <1>3, <1>d, <1>0
<1>4. ASSUME NEW i \in DOMAIN q, NEW j \in DOMAIN q, i < j,
             q[i] = "print_ok", q[j] = "print_ok"
      PROVE  \E k \in DOMAIN q : q[k] = "push_row" /\ i < k /\ k < j
  <2>1. CASE i \in DOMAIN s /\ q[i] = s[i] /\ j \in DOMAIN s /\ q[j] = s[j]
    BY <1>4, <2>1, <1>2 DEF Whole, Between
  <2>2. CASE i \in DOMAIN s /\ j - n \in DOMAIN t /\ j > n /\ q[j] = t[j - n]
    <3>1. PICK k \in DOMAIN t : t[k] = "push_row" /\ k < j - n
      BY <1>4, <2>2 DEF Whole, After
    <3>2. k + n \in DOMAIN q /\ q[k + n] = "push_row"
      BY <3>1, <1>2
    <3>3. i < k + n /\ k + n < j
      BY <3>1, <2>2, <1>d, <1>0
    <3> QED
      BY <3>2, <3>3
  <2>3. CASE i - n \in DOMAIN t /\ i > n /\ q[i] = t[i - n] /\ j - n \in DOMAIN t /\ q[j] = t[j - n]
    <3>0. PICK u \in DOMAIN t, w \in DOMAIN t : u = i - n /\ w = j - n
      BY <2>3
    <3>u. u < w /\ t[u] = "print_ok" /\ t[w] = "print_ok"
      BY <1>4, <2>3, <3>0, <1>d, <1>0
    <3>b. Between(t, "print_ok", "push_row")
      BY DEF Whole
    <3>1. PICK k \in DOMAIN t : t[k] = "push_row" /\ i - n < k /\ k < j - n
      BY <3>0, <3>u, <3>b DEF Between
    <3>2. k + n \in DOMAIN q /\ q[k + n] = "push_row"
      BY <3>1, <1>2
    <3>3. i < k + n /\ k + n < j
      BY <3>1, <2>3, <1>d, <1>0, SMTT(30)
    <3> QED
      BY <3>2, <3>3
  <2> QED
    BY <2>1, <2>2, <2>3, <1>1, <1>4, <1>d, <1>0
<1>5. ASSUME NEW j \in DOMAIN q, q[j] = "print_ok"
      PROVE  \E i \in DOMAIN q : q[i] = "push_row" /\ i < j
  <2>1. CASE j \in DOMAIN s /\ q[j] = s[j]
    BY <1>5, <2>1, <1>2 DEF Whole, After
  <2>2. CASE j - n \in DOMAIN t /\ j > n /\ q[j] = t[j - n]
    <3>1. PICK k \in DOMAIN t : t[k] = "push_row" /\ k < j - n
      BY <1>5, <2>2 DEF Whole, After
    <3> QED
      BY <3>1, <1>2, <1>d, <1>0
  <2> QED
    BY <2>1, <2>2, <1>1
<1>6. ASSUME NEW j \in DOMAIN q, q[j] = "push_row"
      PROVE  /\ j > 3 /\ q[j - 1] = "blank" /\ q[j - 2] = "bracket" /\ q[j - 3] = "NL"
             /\ \E k \in DOMAIN q : q[k] = "print_ok" /\ j < k
  <2>1. CASE j \in DOMAIN s /\ q[j] = s[j]
    <3>1. /\ j > 3 /\ s[j - 1] = "blank" /\ s[j - 2] = "bracket" /\ s[j - 3] = "NL"
          /\ \E k \in DOMAIN s : s[k] = "print_ok" /\ j < k
      BY <1>6, <2>1 DEF Whole
    <3>2. j - 1 \in DOMAIN s /\ j - 2 \in DOMAIN s /\ j - 3 \in DOMAIN s
      <4>1. j > 3
        BY <3>1
      <4> QED
        BY <4>1, <2>1, <1>d, <1>0
    <3> QED
      BY <3>1, <3>2, <1>2
  <2>2. CASE j - n \in DOMAIN t /\ j > n /\ q[j] = t[j - n]
    <3> DEFINE l == j - n
    <3>1. /\ l > 3 /\ t[l - 1] = "blank" /\ t[l - 2] = "bracket" /\ t[l - 3] = "NL"
          /\ \E k \in DOMAIN t : t[k] = "print_ok" /\ l < k
      BY <1>6, <2>2 DEF Whole
    <3>2. l - 1 \in DOMAIN t /\ l - 2 \in DOMAIN t /\ l - 3 \in DOMAIN t
      BY <3>1, <2>2, <1>d
    <3>3. l - 1 + n = j - 1 /\ l - 2 + n = j - 2 /\ l - 3 + n = j - 3 /\ j \in Nat
      BY <1>d, <1>0
    <3>4. q[j - 1] = "blank" /\ q[j - 2] = "bracket" /\ q[j - 3] = "NL"
      BY <3>1, <3>2, <3>3, <1>2
    <3>5. \E k \in DOMAIN q : q[k] = "print_ok" /\ j < k
      BY <3>1, <1>2, <1>d, <1>0
    <3>6. j > 3
      <4>1. l > 3
        BY <3>1
      <4> QED
        BY <4>1, <3>3, <1>0
    <3> QED
      BY <3>4, <3>5, <3>6
  <2> QED
    BY <2>1, <2>2, <1>1, <1>6
<1>7. Lacks(q, "iret") /\ Lacks(q, "draw_panic_screen")
  BY <1>1 DEF Whole, Lacks
<1> QED
  BY <1>0, <1>3, <1>4, <1>5, <1>6, <1>7 DEF Whole, Between, After, q

\* The parts of boot().
LEMMA WholeParts ==
  /\ println \in Seq(Items) /\ Whole(println) /\ Len(println) = 2
  /\ println[1] = "NL" /\ println[2] = "a"
  /\ <<"work">> \in Seq(Items) /\ Whole(<<"work">>) /\ Lacks(<<"work">>, "push_row")
  /\ Lacks(<<"work">>, "idt_init")
<1>1. /\ println \in Seq(Items) /\ Len(println) = 2 /\ DOMAIN println = 1 .. 2
      /\ println[1] = "NL" /\ println[2] = "a"
  BY DEF println, Items, Chars
<1>2. /\ <<"work">> \in Seq(Items) /\ DOMAIN <<"work">> = 1 .. 1 /\ <<"work">>[1] = "work"
  BY DEF Items
<1>3. Whole(println)
  BY <1>1 DEF Whole, Between, After, Lacks
<1>4. Whole(<<"work">>) /\ Lacks(<<"work">>, "push_row") /\ Lacks(<<"work">>, "idt_init")
  BY <1>2 DEF Whole, Between, After, Lacks
<1> QED
  BY <1>1, <1>2, <1>3, <1>4

LEMMA WholeAttempt ==
  ASSUME NEW d \in {"clear_bss", "work", "idt_init"}
  PROVE  /\ attempt(d) \in Seq(Items) /\ Whole(attempt(d))
         /\ DOMAIN attempt(d) = 1 .. 7 /\ attempt(d)[6] = d
         /\ \A i \in 1 .. 7 : attempt(d)[i] = "push_row" <=> i = 4
         /\ \A i \in 1 .. 7 : attempt(d)[i] = "idt_init" => i = 6
<1> DEFINE q == attempt(d)
<1> DEFINE s == print_attempt
<1> DEFINE t == <<d, "print_ok">>
<1>1. /\ s \in Seq(Items) /\ Len(s) = 5 /\ s[1] = "NL" /\ s[2] = "bracket"
      /\ s[3] = "blank" /\ s[4] = "push_row" /\ s[5] = "a"
  BY DEF print_attempt, Items, Chars
<1>2. t \in Seq(Items) /\ Len(t) = 2 /\ t[1] = d /\ t[2] = "print_ok"
  BY DEF Items
<1> HIDE DEF s, t
<1>3. q = s \o t
  BY DEF attempt, s, t
<1> HIDE DEF q
<1>0. s \in Seq(Items) /\ t \in Seq(Items)
  BY <1>1, <1>2
<1>a. /\ q \in Seq(Items) /\ DOMAIN q = 1 .. Len(s) + Len(t)
      /\ \A i \in 1 .. Len(s) : q[i] = s[i]
      /\ \A i \in 1 .. Len(t) : q[Len(s) + i] = t[i]
  BY <1>0, <1>3, Cat
<1>b. Len(s) = 5 /\ Len(t) = 2
  BY <1>1, <1>2
<1>4. q \in Seq(Items) /\ DOMAIN q = 1 .. 7
  BY <1>a, <1>b
<1>5. /\ \A i \in 1 .. 5 : q[i] = s[i]
      /\ \A i \in 1 .. 2 : q[5 + i] = t[i]
  BY <1>a, <1>b
<1>6. /\ q[1] = "NL" /\ q[2] = "bracket" /\ q[3] = "blank" /\ q[4] = "push_row" /\ q[5] = "a"
      /\ q[6] = d /\ q[7] = "print_ok"
  <2>1. q[6] = t[1] /\ q[7] = t[2]
    <3>1. q[5 + 1] = t[1] /\ q[5 + 2] = t[2]
      BY <1>5
    <3> QED
      BY <3>1
  <2> QED
    BY <2>1, <1>1, <1>2, <1>5
<1>7. \A i \in 1 .. 7 : i \in {1, 2, 3, 4, 5, 6, 7}
  OBVIOUS
<1>8. \A i \in 1 .. 7 : /\ q[i] = "push_row" <=> i = 4
                        /\ q[i] = "print_ok" <=> i = 7
                        /\ q[i] = "idt_init" => i = 6
                        /\ q[i] # "iret" /\ q[i] # "draw_panic_screen"
  BY <1>6, <1>7
<1>9. Whole(q)
  BY <1>4, <1>6, <1>8 DEF Whole, Between, After, Lacks
<1> QED
  BY <1>4, <1>6, <1>8, <1>9 DEF q

\* Something that no part of a concatenation has.
LEMMA CatLacks ==
  ASSUME NEW S, NEW s \in Seq(S), NEW t \in Seq(S), NEW a, Lacks(s, a), Lacks(t, a)
  PROVE  Lacks(s \o t, a)
BY CatWhere DEF Lacks

LEMMA BootScript ==
  /\ boot \in Seq(Items) /\ Script(boot, 0)
  /\ Lacks(boot, "iret") /\ Lacks(boot, "draw_panic_screen")
  /\ \A j \in DOMAIN boot : boot[j] = "push_row" => j > 3
<1> DEFINE s1 == println \o attempt("clear_bss")
<1> DEFINE s2 == s1 \o attempt("work")
<1> DEFINE s3 == s2 \o attempt("idt_init")
<1> DEFINE s4 == s3 \o attempt("work")
<1> DEFINE s5 == s4 \o <<"work">>
<1>1. s1 \in Seq(Items) /\ Whole(s1)
  BY WholeParts, WholeAttempt, WholeCat
<1>2. Lacks(s1, "idt_init")
  <2>1. Lacks(println, "idt_init") /\ Lacks(attempt("clear_bss"), "idt_init")
    <3>1. \A i \in DOMAIN println : println[i] # "idt_init"
      <4>1. println \in Seq(Items) /\ Len(println) = 2 /\ println[1] = "NL" /\ println[2] = "a"
        BY WholeParts
      <4>2. \A i \in DOMAIN println : i = 1 \/ i = 2
        BY <4>1
      <4> QED
        BY <4>1, <4>2
    <3>2. \A i \in DOMAIN attempt("clear_bss") : attempt("clear_bss")[i] # "idt_init"
      BY WholeAttempt
    <3> QED
      BY <3>1, <3>2 DEF Lacks
  <2> QED
    BY <2>1, WholeParts, WholeAttempt, CatLacks
<1> HIDE DEF s1
<1>3. s2 \in Seq(Items) /\ Whole(s2)
  BY <1>1, WholeAttempt, WholeCat
<1>4. Lacks(s2, "idt_init")
  <2>1. Lacks(attempt("work"), "idt_init")
    BY WholeAttempt DEF Lacks
  <2> QED
    BY <2>1, <1>1, <1>2, WholeAttempt, CatLacks
<1> HIDE DEF s2
<1>5. s3 \in Seq(Items) /\ Whole(s3)
  BY <1>3, WholeAttempt, WholeCat
<1>6. PICK p \in DOMAIN s3 :
        /\ s3[p] = "idt_init"
        /\ \A i \in DOMAIN s3 : s3[i] = "idt_init" => i = p
        /\ \A i \in DOMAIN s3 : s3[i] = "push_row" => i < p
  <2> DEFINE t == attempt("idt_init")
  <2> DEFINE n == Len(s2)
  <2>1. /\ t \in Seq(Items) /\ DOMAIN t = 1 .. 7 /\ t[6] = "idt_init"
        /\ \A i \in 1 .. 7 : t[i] = "push_row" <=> i = 4
        /\ \A i \in 1 .. 7 : t[i] = "idt_init" => i = 6
    BY WholeAttempt
  <2>2. \A i \in DOMAIN s3 : \/ i \in DOMAIN s2 /\ s3[i] = s2[i]
                             \/ i - n \in DOMAIN t /\ i > n /\ s3[i] = t[i - n]
    BY <2>1, <1>3, CatWhere
  <2>3. 6 + n \in DOMAIN s3 /\ s3[6 + n] = t[6]
    <3>1. t \in Seq(Items) /\ 6 \in DOMAIN t
      BY <2>1
    <3>2. s3 = s2 \o t
      OBVIOUS
    <3> HIDE DEF s3, t
    <3> QED
      BY <3>1, <3>2, <1>3, CatHas
  <2>4. n \in Nat /\ DOMAIN s2 = 1 .. n /\ DOMAIN s3 \subseteq Nat
    BY <2>1, <1>3, Cat
  <2> HIDE DEF t, n, s3
  <2>5. ASSUME NEW i \in DOMAIN s3, s3[i] = "idt_init" PROVE i = 6 + n
    <3>1. i - n \in 1 .. 7 /\ t[i - n] = "idt_init"
      BY <2>2, <2>5, <2>1, <1>4 DEF Lacks
    <3>2. i - n = 6
      BY <3>1, <2>1
    <3> QED
      BY <3>2, <2>4
  <2>6. ASSUME NEW i \in DOMAIN s3, s3[i] = "push_row" PROVE i < 6 + n
    <3>1. CASE i \in DOMAIN s2
      BY <3>1, <2>4
    <3>2. CASE i - n \in DOMAIN t /\ s3[i] = t[i - n]
      <4>1. i - n = 4
        BY <3>2, <2>1, <2>6
      <4> QED
        BY <4>1, <2>4
    <3> QED
      BY <3>1, <3>2, <2>2
  <2> QED
    BY <2>1, <2>3, <2>5, <2>6
<1> HIDE DEF s3
<1>7. s4 \in Seq(Items) /\ Whole(s4)
  BY <1>5, WholeAttempt, WholeCat
<1>8. LateIrq(s4)
  <2> DEFINE t == attempt("work")
  <2> DEFINE n == Len(s3)
  <2>1. /\ t \in Seq(Items) /\ DOMAIN t = 1 .. 7
        /\ \A i \in 1 .. 7 : t[i] = "push_row" <=> i = 4
        /\ \A i \in 1 .. 7 : t[i] # "idt_init"
    BY WholeAttempt
  <2>2. \A i \in DOMAIN s4 : \/ i \in DOMAIN s3 /\ s4[i] = s3[i]
                             \/ i - n \in DOMAIN t /\ i > n /\ s4[i] = t[i - n]
    BY <2>1, <1>5, CatWhere
  <2>3. p \in DOMAIN s4 /\ s4[p] = "idt_init"
    BY <2>1, <1>5, <1>6, CatHas
  <2>4. n \in Nat /\ DOMAIN s3 = 1 .. n /\ DOMAIN s4 \subseteq Nat
    BY <2>1, <1>5, Cat
  <2> HIDE DEF t, n, s4
  <2>5. ASSUME NEW i \in DOMAIN s4, s4[i] = "idt_init" PROVE i = p
    BY <2>5, <2>2, <2>1, <1>6
  <2>6. ASSUME NEW i \in DOMAIN s4, NEW j \in DOMAIN s4, i < j,
               s4[i] = "push_row", s4[j] = "push_row"
        PROVE  i < p
    <3>1. CASE i \in DOMAIN s3 /\ s4[i] = s3[i]
      BY <3>1, <1>6, <2>6
    <3>2. CASE i > n /\ i - n \in DOMAIN t /\ s4[i] = t[i - n]
      <4>1. i - n = 4
        BY <3>2, <2>1, <2>6
      <4>2. j > n
        BY <3>2, <2>6, <2>4
      <4>3. j - n \in DOMAIN t /\ s4[j] = t[j - n]
        BY <4>2, <2>2, <2>4
      <4>4. j - n = 4
        BY <4>3, <2>1, <2>6
      <4> QED
        BY <4>1, <4>4, <2>4, <2>6
    <3> QED
      BY <3>1, <3>2, <2>2
  <2> QED
    BY <2>3, <2>5, <2>6 DEF LateIrq
<1> HIDE DEF s4
<1>9. s5 \in Seq(Items) /\ Whole(s5)
  BY <1>7, WholeParts, WholeCat
<1>10. LateIrq(s5)
  <2> DEFINE t == <<"work">>
  <2> DEFINE n == Len(s4)
  <2>1. t \in Seq(Items) /\ Lacks(t, "push_row") /\ Lacks(t, "idt_init")
    BY WholeParts
  <2>2. \A i \in DOMAIN s5 : \/ i \in DOMAIN s4 /\ s5[i] = s4[i]
                             \/ i - n \in DOMAIN t /\ i > n /\ s5[i] = t[i - n]
    BY <2>1, <1>7, CatWhere
  <2>3. \A i \in DOMAIN s4 : i \in DOMAIN s5 /\ s5[i] = s4[i]
    BY <2>1, <1>7, CatHas
  <2> HIDE DEF t, n, s5
  <2>4. \A i \in DOMAIN s5 : s5[i] \in {"push_row", "idt_init"} => i \in DOMAIN s4 /\ s5[i] = s4[i]
    BY <2>1, <2>2 DEF Lacks
  <2> QED
    BY <2>3, <2>4, <1>8 DEF LateIrq
<1>11. boot = s5
  BY DEF boot, s1, s2, s3, s4
<1>12. /\ Script(s5, 0) /\ Lacks(s5, "iret") /\ Lacks(s5, "draw_panic_screen")
       /\ \A j \in DOMAIN s5 : s5[j] = "push_row" => j > 3
  BY <1>9, <1>10 DEF Script, Whole, Balanced, Bracketed
<1> QED
  BY <1>9, <1>11, <1>12

\* One thing of the script is done.
LEMMA LacksRest ==
  ASSUME NEW q \in Seq(Items), q # <<>>, NEW a, Lacks(q, a)
  PROVE  Lacks(Tail(q), a) /\ Head(q) # a
BY Rest DEF Lacks

LEMMA ScriptRest ==
  ASSUME NEW q \in Seq(Items), q # <<>>, NEW d \in {0, 1}, Script(q, d)
  PROVE  /\ Head(q) \notin {"push_row", "print_ok"} => Script(Tail(q), d)
         /\ Head(q) = "push_row" => d = 0 /\ Script(Tail(q), 1)
         /\ Head(q) = "print_ok" => d = 1 /\ Script(Tail(q), 0)
         /\ Head(q) = "idt_init" => Lacks(Tail(q), "idt_init")
         /\ Head(q) = "push_row" /\ Lacks(q, "idt_init") => Lacks(Tail(q), "push_row")
<1> DEFINE t == Tail(q)
<1> DEFINE n == Len(q)
<1>1. /\ t \in Seq(Items) /\ n \in Nat /\ n >= 1 /\ DOMAIN q = 1 .. n
      /\ DOMAIN t = 1 .. n - 1 /\ \A i \in 1 .. n - 1 : t[i] = q[i + 1]
      /\ Head(q) = q[1]
  BY Rest
<1> HIDE DEF t, n
<1>2. \A i \in DOMAIN t : i + 1 \in DOMAIN q /\ q[i + 1] = t[i] /\ i \in Nat /\ i >= 1
  BY <1>1
<1>3. \A i \in DOMAIN q : i > 1 => i - 1 \in DOMAIN t /\ t[i - 1] = q[i]
  BY <1>1
<1>4. 1 \in DOMAIN q /\ \A i \in DOMAIN q : i \in Nat /\ i >= 1
  BY <1>1
<1>5. ASSUME NEW a, NEW b, Between(q, a, b) PROVE Between(t, a, b)
  <2> SUFFICES ASSUME NEW i \in DOMAIN t, NEW j \in DOMAIN t, t[i] = a, t[j] = a, i < j
               PROVE  \E k \in DOMAIN t : t[k] = b /\ i < k /\ k < j
    BY DEF Between
  <2>1. PICK k \in DOMAIN q : q[k] = b /\ i + 1 < k /\ k < j + 1
    <3>1. i + 1 \in DOMAIN q /\ j + 1 \in DOMAIN q /\ q[i + 1] = a /\ q[j + 1] = a /\ i + 1 < j + 1
      BY <1>2
    <3> QED
      BY <3>1, <1>5 DEF Between
  <2>2. k - 1 \in DOMAIN t /\ t[k - 1] = b /\ i < k - 1 /\ k - 1 < j
    BY <2>1, <1>2, <1>3, <1>4
  <2> QED
    BY <2>2
<1>6. ASSUME NEW a, NEW b, After(q, a, b), q[1] # b PROVE After(t, a, b)
  <2> SUFFICES ASSUME NEW j \in DOMAIN t, t[j] = a
               PROVE  \E i \in DOMAIN t : t[i] = b /\ i < j
    BY DEF After
  <2>1. PICK k \in DOMAIN q : q[k] = b /\ k < j + 1
    BY <1>2, <1>6 DEF After
  <2>2. k - 1 \in DOMAIN t /\ t[k - 1] = b /\ k - 1 < j
    BY <2>1, <1>2, <1>3, <1>4, <1>6
  <2> QED
    BY <2>2
<1>7. ASSUME NEW a, NEW b, Between(q, a, b), q[1] = a PROVE After(t, a, b)
  <2> SUFFICES ASSUME NEW j \in DOMAIN t, t[j] = a
               PROVE  \E i \in DOMAIN t : t[i] = b /\ i < j
    BY DEF After
  <2>1. PICK k \in DOMAIN q : q[k] = b /\ 1 < k /\ k < j + 1
    <3>1. j + 1 \in DOMAIN q /\ q[j + 1] = a /\ 1 < j + 1
      BY <1>2
    <3> QED
      BY <3>1, <1>4, <1>7 DEF Between
  <2>2. k - 1 \in DOMAIN t /\ t[k - 1] = b /\ k - 1 < j
    <3>1. k \in Nat /\ j \in Nat /\ k > 1
      BY <2>1, <1>2, <1>4
    <3>2. k - 1 \in DOMAIN t /\ t[k - 1] = b
      BY <2>1, <3>1, <1>3
    <3> QED
      BY <2>1, <3>1, <3>2
  <2> QED
    BY <2>2
<1>8. Bracketed(t)
  <2> SUFFICES ASSUME NEW j \in DOMAIN t, t[j] = "push_row"
               PROVE  /\ j > 1 => t[j - 1] = "blank"
                      /\ j > 2 => t[j - 2] = "bracket"
                      /\ j > 3 => t[j - 3] = "NL"
    BY DEF Bracketed
  <2>1. j + 1 \in DOMAIN q /\ q[j + 1] = "push_row"
    BY <1>2
  <2>2. PICK m \in Nat, a \in Int, b \in Int, c \in Int :
          m = j + 1 /\ a = j - 1 /\ b = j - 2 /\ c = j - 3 /\ m \in DOMAIN q /\ q[m] = "push_row"
    <3>1. j \in Nat
      BY <1>2
    <3> QED
      BY <2>1, <3>1
  <2>3. /\ m > 1 => q[m - 1] = "blank"
        /\ m > 2 => q[m - 2] = "bracket"
        /\ m > 3 => q[m - 3] = "NL"
    BY <2>2 DEF Script, Bracketed
  <2>4. j \in Nat /\ j >= 1 /\ m = j + 1 /\ m - 1 = j /\ m - 2 = a /\ m - 3 = b
    BY <1>2, <2>2, SMTT(30)
  <2>5. q[j] = "blank" /\ (j > 1 => q[a] = "bracket") /\ (j > 2 => q[b] = "NL")
    <3>1. m > 1 /\ (j > 1 => m > 2) /\ (j > 2 => m > 3)
      BY <2>4, SMTT(30)
    <3> QED
      BY <2>3, <2>4, <3>1, Zenon
  <2>6. /\ j > 1 => a \in 1 .. n - 1 /\ a + 1 = j
        /\ j > 2 => b \in 1 .. n - 1 /\ b + 1 = a
        /\ j > 3 => c \in 1 .. n - 1 /\ c + 1 = b
    <3>1. n \in Nat /\ j \in 1 .. n - 1
      BY <1>1
    <3>2. a = j - 1 /\ b = j - 2 /\ c = j - 3
      BY <2>2
    <3> QED
      BY <3>1, <3>2, SMTT(30)
  <2>7. (j > 1 => t[a] = q[j]) /\ (j > 2 => t[b] = q[a]) /\ (j > 3 => t[c] = q[b])
    <3>1. \A i \in 1 .. n - 1 : t[i] = q[i + 1]
      BY <1>1
    <3> QED
      BY <2>6, <3>1
  <2>8. /\ j > 1 => t[a] = "blank"
        /\ j > 2 => t[b] = "bracket"
        /\ j > 3 => t[c] = "NL"
    <3>1. (j > 2 => j > 1) /\ (j > 3 => j > 2)
      BY <2>4, SMTT(30)
    <3> QED
      BY <2>5, <2>7, <3>1, Zenon
  <2> QED
    BY <2>2, <2>8
<1>9. LateIrq(t)
  <2>1. \A i, j \in DOMAIN t : t[i] = "idt_init" /\ t[j] = "idt_init" => i = j
    <3> SUFFICES ASSUME NEW i \in DOMAIN t, NEW j \in DOMAIN t,
                        t[i] = "idt_init", t[j] = "idt_init"
                 PROVE  i = j
      OBVIOUS
    <3>1. i + 1 = j + 1
      BY <1>2 DEF Script, LateIrq
    <3> QED
      BY <3>1, <1>2
  <2>2. ASSUME NEW i \in DOMAIN t, NEW j \in DOMAIN t, t[i] = "push_row", t[j] = "push_row", i < j
        PROVE  \E k \in DOMAIN t : t[k] = "idt_init" /\ i < k
    <3>1. PICK k \in DOMAIN q : q[k] = "idt_init" /\ i + 1 < k
      <4>1. i + 1 \in DOMAIN q /\ j + 1 \in DOMAIN q /\ q[i + 1] = "push_row"
            /\ q[j + 1] = "push_row" /\ i + 1 < j + 1
        BY <1>2, <2>2
      <4> QED
        BY <4>1 DEF Script, LateIrq
    <3>2. k - 1 \in DOMAIN t /\ t[k - 1] = "idt_init" /\ i < k - 1
      BY <3>1, <1>2, <1>3, <1>4
    <3> QED
      BY <3>2
  <2> QED
    BY <2>1, <2>2 DEF LateIrq
<1>10. Between(t, "push_row", "print_ok") /\ Between(t, "print_ok", "push_row")
  BY <1>5 DEF Script, Balanced
<1>11. CASE Head(q) \notin {"push_row", "print_ok"}
  <2>1. /\ d = 0 => After(t, "print_ok", "push_row")
        /\ d = 1 => After(t, "push_row", "print_ok")
    BY <1>1, <1>6, <1>11 DEF Script, Balanced
  <2>2. Script(t, d)
    BY <2>1, <1>8, <1>9, <1>10 DEF Script, Balanced
  <2>3. ASSUME q[1] = "idt_init" PROVE Lacks(t, "idt_init")
    <3>1. \A i \in DOMAIN q : q[i] = "idt_init" => i = 1
      BY <2>3, <1>4 DEF Script, LateIrq
    <3>2. \A i \in DOMAIN t : t[i] = "idt_init" => i + 1 = 1
      BY <3>1, <1>2
    <3> QED
      BY <3>2, <1>2 DEF Lacks
  <2> QED
    BY <2>2, <2>3, <1>1, <1>11 DEF t
<1>12. CASE Head(q) = "push_row"
  <2>1. d = 0
    <3>1. d # 1
      <4> SUFFICES ASSUME d = 1 PROVE FALSE
        OBVIOUS
      <4>1. \E i \in DOMAIN q : q[i] = "print_ok" /\ i < 1
        BY <1>1, <1>4, <1>12 DEF Script, Balanced, After
      <4> QED
        BY <4>1, <1>4
    <3> QED
      BY <3>1
  <2>2. Script(t, 1)
    BY <1>1, <1>7, <1>8, <1>9, <1>10, <1>12 DEF Script, Balanced
  <2>3. ASSUME Lacks(q, "idt_init") PROVE Lacks(t, "push_row")
    <3> SUFFICES ASSUME NEW i \in DOMAIN t, t[i] = "push_row" PROVE FALSE
      BY DEF Lacks
    <3>1. i + 1 \in DOMAIN q /\ q[i + 1] = "push_row" /\ 1 < i + 1
      BY <1>2
    <3> QED
      BY <3>1, <1>1, <1>4, <1>12, <2>3 DEF Script, LateIrq, Lacks
  <2> QED
    BY <2>1, <2>2, <2>3, <1>12 DEF t
<1>13. CASE Head(q) = "print_ok"
  <2>1. d = 1
    <3>1. d # 0
      <4> SUFFICES ASSUME d = 0 PROVE FALSE
        OBVIOUS
      <4>1. \E i \in DOMAIN q : q[i] = "push_row" /\ i < 1
        BY <1>1, <1>4, <1>13 DEF Script, Balanced, After
      <4> QED
        BY <4>1, <1>4
    <3> QED
      BY <3>1
  <2>2. Script(t, 0)
    BY <1>1, <1>7, <1>8, <1>9, <1>10, <1>13 DEF Script, Balanced
  <2> QED
    BY <2>1, <2>2, <1>13 DEF t
<1> QED
  BY <1>11, <1>12, <1>13

\* A line is to be printed before the rest.
LEMMA ScriptPrint ==
  ASSUME NEW q \in Seq(Items), q # <<>>, NEW d \in {0, 1}, Script(q, d), Head(q) = "work"
  PROVE  /\ println \o q \in Seq(Items) /\ Script(println \o q, d)
         /\ Lacks(q, "iret") => Lacks(println \o q, "iret")
         /\ Lacks(q, "idt_init") => Lacks(println \o q, "idt_init")
         /\ Lacks(q, "push_row") => Lacks(println \o q, "push_row")
         /\ Lacks(q, "draw_panic_screen") => Lacks(println \o q, "draw_panic_screen")
         /\ \A k \in 1 .. 5 : k \in DOMAIN (println \o q) => (println \o q)[k] # "push_row"
<1> DEFINE s == println \o q
<1> DEFINE n == Len(q)
<1>0. /\ println \in Seq(Items) /\ Len(println) = 2 /\ println[1] = "NL" /\ println[2] = "a"
  BY WholeParts
<1>1. /\ s \in Seq(Items) /\ n \in Nat /\ n >= 1 /\ DOMAIN q = 1 .. n /\ q[1] = "work"
      /\ DOMAIN s = 1 .. n + 2 /\ s[1] = "NL" /\ s[2] = "a"
      /\ \A i \in 1 .. n : s[i + 2] = q[i]
  <2>1. /\ s \in Seq(Items) /\ DOMAIN s = 1 .. Len(println) + n /\ n \in Nat
        /\ \A i \in 1 .. Len(println) : s[i] = println[i]
        /\ \A i \in 1 .. n : s[Len(println) + i] = q[i]
    <3>1. println \in Seq(Items)
      BY <1>0
    <3> QED
      BY <3>1, Cat
  <2>2. n >= 1 /\ DOMAIN q = 1 .. n /\ q[1] = "work"
    BY Rest
  <2> HIDE DEF s, n
  <2> QED
    BY <2>1, <2>2, <1>0
<1> HIDE DEF s, n
<1>2. \A i \in DOMAIN q : i + 2 \in DOMAIN s /\ s[i + 2] = q[i] /\ i \in Nat /\ i >= 1
  BY <1>1
<1>3. \A i \in DOMAIN s : s[i] \notin {"NL", "a"} => i - 2 \in DOMAIN q /\ q[i - 2] = s[i]
                                                      /\ i \in Nat /\ i > 2
  <2> SUFFICES ASSUME NEW i \in DOMAIN s, s[i] \notin {"NL", "a"}
               PROVE  i - 2 \in DOMAIN q /\ q[i - 2] = s[i] /\ i \in Nat /\ i > 2
    OBVIOUS
  <2>1. i > 2 /\ i - 2 \in 1 .. n
    BY <1>1
  <2>2. s[i - 2 + 2] = q[i - 2] /\ i - 2 + 2 = i
    BY <2>1, <1>1
  <2> QED
    BY <2>1, <2>2, <1>1
<1>4. ASSUME NEW a \in {"push_row", "print_ok"}, NEW b \in {"push_row", "print_ok"},
             Between(q, a, b)
      PROVE  Between(s, a, b)
  <2> SUFFICES ASSUME NEW i \in DOMAIN s, NEW j \in DOMAIN s, s[i] = a, s[j] = a, i < j
               PROVE  \E k \in DOMAIN s : s[k] = b /\ i < k /\ k < j
    BY DEF Between
  <2>1. /\ i - 2 \in DOMAIN q /\ q[i - 2] = a /\ i \in Nat
        /\ j - 2 \in DOMAIN q /\ q[j - 2] = a /\ j \in Nat
    BY <1>3
  <2>2. i - 2 < j - 2
    BY <2>1
  <2>3. PICK k \in DOMAIN q : q[k] = b /\ i - 2 < k /\ k < j - 2
    BY <2>1, <2>2, <1>4 DEF Between
  <2>4. k + 2 \in DOMAIN s /\ s[k + 2] = b /\ k \in Nat
    BY <2>3, <1>2
  <2>5. i < k + 2 /\ k + 2 < j
    BY <2>1, <2>3, <2>4
  <2> QED
    BY <2>4, <2>5
<1>5. ASSUME NEW a \in {"push_row", "print_ok"}, NEW b \in {"push_row", "print_ok"},
             After(q, a, b)
      PROVE  After(s, a, b)
  <2> SUFFICES ASSUME NEW j \in DOMAIN s, s[j] = a
               PROVE  \E i \in DOMAIN s : s[i] = b /\ i < j
    BY DEF After
  <2>1. j - 2 \in DOMAIN q /\ q[j - 2] = a /\ j \in Nat
    BY <1>3
  <2>2. PICK k \in DOMAIN q : q[k] = b /\ k < j - 2
    BY <2>1, <1>5 DEF After
  <2>3. k + 2 \in DOMAIN s /\ s[k + 2] = b /\ k \in Nat
    BY <2>2, <1>2
  <2>4. k + 2 < j
    BY <2>1, <2>2, <2>3
  <2> QED
    BY <2>3, <2>4
<1>6. ASSUME NEW j \in DOMAIN q, q[j] = "push_row"
      PROVE  /\ j > 4 /\ q[j - 1] = "blank" /\ q[j - 2] = "bracket" /\ q[j - 3] = "NL"
  <2>1. /\ j > 1 => q[j - 1] = "blank"
        /\ j > 2 => q[j - 2] = "bracket"
        /\ j > 3 => q[j - 3] = "NL"
    BY <1>6 DEF Script, Bracketed
  <2>2. j # 1
    BY <1>6, <1>1
  <2>3. j # 2
    <3> SUFFICES ASSUME j = 2 PROVE FALSE
      OBVIOUS
    <3>1. q[2 - 1] = "blank"
      BY <2>1
    <3> QED
      BY <3>1, <1>1
  <2>4. j # 3
    <3> SUFFICES ASSUME j = 3 PROVE FALSE
      OBVIOUS
    <3>1. q[3 - 2] = "bracket"
      BY <2>1
    <3> QED
      BY <3>1, <1>1
  <2>5. j # 4
    <3> SUFFICES ASSUME j = 4 PROVE FALSE
      OBVIOUS
    <3>1. q[4 - 3] = "NL"
      BY <2>1
    <3> QED
      BY <3>1, <1>1
  <2>6. j > 4
    BY <2>2, <2>3, <2>4, <2>5, <1>1
  <2> QED
    BY <2>1, <2>6, <1>1
<1>7. Bracketed(s) /\ \A j \in DOMAIN s : s[j] = "push_row" => j > 6
  <2> SUFFICES ASSUME NEW j \in DOMAIN s, s[j] = "push_row"
               PROVE  /\ s[j - 1] = "blank" /\ s[j - 2] = "bracket" /\ s[j - 3] = "NL"
                      /\ j > 6
    BY DEF Bracketed
  <2>1. PICK m \in DOMAIN q : m = j - 2 /\ q[m] = "push_row" /\ j \in Nat
    BY <1>3
  <2>2. m > 4 /\ q[m - 1] = "blank" /\ q[m - 2] = "bracket" /\ q[m - 3] = "NL"
    BY <2>1, <1>6
  <2>3. m - 1 \in 1 .. n /\ m - 2 \in 1 .. n /\ m - 3 \in 1 .. n
    <3>1. m > 4 /\ m \in 1 .. n /\ n \in Nat
      BY <2>2, <1>1
    <3> QED
      BY <3>1
  <2>4. s[m - 1 + 2] = q[m - 1] /\ s[m - 2 + 2] = q[m - 2] /\ s[m - 3 + 2] = q[m - 3]
    <3>1. \A i \in 1 .. n : s[i + 2] = q[i]
      BY <1>1
    <3> QED
      BY <2>3, <3>1, Zenon
  <2>5. m - 1 + 2 = j - 1 /\ m - 2 + 2 = j - 2 /\ m - 3 + 2 = j - 3
    BY <2>1
  <2> QED
    BY <2>1, <2>2, <2>4, <2>5, SMTT(30)
<1>8. LateIrq(s)
  <2>1. ASSUME NEW i \in DOMAIN s, NEW j \in DOMAIN s, s[i] = "idt_init", s[j] = "idt_init"
        PROVE  i = j
    <3>1. i - 2 = j - 2
      BY <1>3, <2>1 DEF Script, LateIrq
    <3> QED
      BY <3>1, <1>1
  <2>2. ASSUME NEW i \in DOMAIN s, NEW j \in DOMAIN s, s[i] = "push_row", s[j] = "push_row", i < j
        PROVE  \E k \in DOMAIN s : s[k] = "idt_init" /\ i < k
    <3>1. /\ i - 2 \in DOMAIN q /\ q[i - 2] = "push_row" /\ i \in Nat
          /\ j - 2 \in DOMAIN q /\ q[j - 2] = "push_row" /\ j \in Nat
      BY <1>3, <2>2
    <3>2. i - 2 < j - 2
      BY <3>1, <2>2
    <3>3. PICK k \in DOMAIN q : q[k] = "idt_init" /\ i - 2 < k
      BY <3>1, <3>2 DEF Script, LateIrq
    <3>4. k + 2 \in DOMAIN s /\ s[k + 2] = "idt_init" /\ k \in Nat
      BY <3>3, <1>2
    <3>5. i < k + 2
      BY <3>1, <3>3, <3>4
    <3> QED
      BY <3>4, <3>5
  <2> QED
    BY <2>1, <2>2 DEF LateIrq
<1>9. Script(s, d)
  BY <1>4, <1>5, <1>7, <1>8 DEF Script, Balanced
<1>10. ASSUME NEW a \in {"iret", "idt_init", "push_row", "draw_panic_screen"},
               Lacks(q, a)
        PROVE Lacks(s, a)
  BY <1>3, <1>10 DEF Lacks
<1>11. \A k \in 1 .. 5 : k \in DOMAIN s => s[k] # "push_row"
  BY <1>7
<1> QED
  BY <1>1, <1>9, <1>10, <1>11 DEF s

\* A panic.
LEMMA PanicScript ==
  /\ PANIC \in Seq(Items) /\ \A d \in {0, 1} : Script(PANIC, d)
  /\ Lacks(PANIC, "iret") /\ Lacks(PANIC, "idt_init") /\ Lacks(PANIC, "push_row")
<1> DEFINE s == <<"draw_panic_screen">>
<1> DEFINE t == <<"halt">>
<1>1. /\ println \in Seq(Items) /\ Len(println) = 2 /\ println[1] = "NL" /\ println[2] = "a"
  BY WholeParts
<1>2. s \in Seq(Items) /\ t \in Seq(Items) /\ Len(s) = 1 /\ Len(t) = 1
      /\ s[1] = "draw_panic_screen" /\ t[1] = "halt"
  BY DEF Items
<1>3. ASSUME NEW a \in {"iret", "idt_init", "push_row", "print_ok"}
      PROVE  Lacks(PANIC, a)
  <2>1. Lacks(s, a) /\ Lacks(t, a)
    BY <1>2 DEF Lacks
  <2>2. Lacks(println, a)
    <3>1. \A i \in DOMAIN println : i = 1 \/ i = 2
      BY <1>1
    <3> QED
      BY <3>1, <1>1 DEF Lacks
  <2>3. s \o println \in Seq(Items) /\ Lacks(s \o println, a)
    BY <1>1, <1>2, <2>1, <2>2, Cat, CatLacks
  <2>4. Lacks((s \o println) \o t, a)
    BY <1>2, <2>1, <2>3, CatLacks
  <2> QED
    BY <2>4 DEF PANIC
<1>4. PANIC \in Seq(Items)
  <2>1. s \o println \in Seq(Items)
    BY <1>1, <1>2, Cat
  <2>2. (s \o println) \o t \in Seq(Items)
    BY <1>2, <2>1, Cat
  <2> QED
    BY <2>2 DEF PANIC
<1>5. \A d \in {0, 1} : Script(PANIC, d)
  BY <1>3 DEF Lacks, Script, Balanced, Bracketed, LateIrq, Between, After
<1> QED
  BY <1>3, <1>4, <1>5
-------------------------------------------------------------------------------
(* Offsets, cells, and rows and columns. *)

LEMMA Sizes ==
  /\ MAX_ROWS \in Nat \ {0} /\ MAX_COLS \in Nat \ {0} /\ MAX_COLS >= 3
  /\ 2 * MAX_COLS \in Nat \ {0} /\ Byte \in Nat \ {0}
  /\ MAX_ROWS * MAX_COLS \in Nat /\ MAX_COLS <= MAX_ROWS * MAX_COLS
  /\ Byte * Byte \in Nat \ {0} /\ 2 * (MAX_ROWS * MAX_COLS) < Byte * Byte
  /\ MAX_ROWS * MAX_COLS = MAX_COLS * MAX_ROWS
  /\ 0 \in Cells /\ \A c \in Cells : c \in Nat
<1>1. /\ MAX_ROWS \in Nat \ {0} /\ MAX_COLS \in Nat \ {0} /\ MAX_COLS >= 3
      /\ Byte \in Nat /\ 2 * MAX_ROWS * MAX_COLS < Byte * Byte
  BY ScreenAssumption
<1>2. MAX_ROWS * MAX_COLS \in Nat /\ 2 * MAX_COLS \in Nat \ {0}
  BY <1>1
<1>3. PICK k \in Nat : MAX_ROWS = 1 + k
  <2>1. MAX_ROWS - 1 \in Nat /\ MAX_ROWS = 1 + (MAX_ROWS - 1)
    BY <1>1
  <2> QED
    BY <2>1
<1>4. MAX_ROWS * MAX_COLS = MAX_COLS + k * MAX_COLS /\ k * MAX_COLS >= 0
  BY <1>1, <1>3
<1>5. MAX_COLS <= MAX_ROWS * MAX_COLS
  BY <1>1, <1>4
<1>6. 2 * MAX_ROWS * MAX_COLS = 2 * (MAX_ROWS * MAX_COLS)
  BY <1>1
<1>7. Byte # 0
  <2> SUFFICES ASSUME Byte = 0 PROVE FALSE
    OBVIOUS
  <2>1. Byte * Byte = 0
    OBVIOUS
  <2> QED
    BY <2>1, <1>1, <1>2, <1>6
<1>8. MAX_ROWS * MAX_COLS = MAX_COLS * MAX_ROWS
  BY <1>1
<1>9. 0 \in Cells /\ \A c \in Cells : c \in Nat
  BY <1>1, <1>2, <1>5 DEF Cells
<1>10. Byte * Byte \in Nat \ {0} /\ 2 * (MAX_ROWS * MAX_COLS) < Byte * Byte
  BY <1>1, <1>2, <1>6
<1> QED
  BY <1>1, <1>2, <1>5, <1>7, <1>8, <1>9, <1>10

\* The cell in row r and column k, counted from 0.
LEMMA CellAt ==
  ASSUME NEW r \in 0 .. MAX_ROWS - 1, NEW k \in 0 .. MAX_COLS - 1
  PROVE  /\ r * MAX_COLS + k \in Cells /\ MAX_COLS * r + k = r * MAX_COLS + k
         /\ (r * MAX_COLS + k) \div MAX_COLS = r /\ (r * MAX_COLS + k) % MAX_COLS = k
<1>1. MAX_COLS * r + MAX_COLS <= MAX_COLS * MAX_ROWS
  BY Times, Sizes
<1>2. r * MAX_COLS = MAX_COLS * r /\ r * MAX_COLS \in Nat
  BY Sizes
<1>3. r * MAX_COLS + k \in Cells
  BY <1>1, <1>2, Sizes DEF Cells
<1>4. (MAX_COLS * r + k) \div MAX_COLS = r /\ (MAX_COLS * r + k) % MAX_COLS = k
  BY DividedIs, Sizes
<1> QED
  BY <1>2, <1>3, <1>4

LEMMA RowStart ==
  ASSUME NEW r \in 0 .. MAX_ROWS - 1
  PROVE  r * MAX_COLS \in Cells /\ r * MAX_COLS \in Nat
<1>0. 0 \in 0 .. MAX_COLS - 1
  BY Sizes
<1>1. r * MAX_COLS + 0 \in Cells
  BY <1>0, CellAt
<1>2. r * MAX_COLS \in Nat
  BY Sizes
<1>3. r * MAX_COLS + 0 = r * MAX_COLS
  BY <1>2
<1> QED
  BY <1>1, <1>2, <1>3

LEMMA PlaceOf ==
  ASSUME NEW c \in Cells
  PROVE  \E a \in 0 .. MAX_ROWS - 1, b \in 0 .. MAX_COLS - 1 :
            /\ a = c \div MAX_COLS /\ b = c % MAX_COLS
            /\ c = a * MAX_COLS + b /\ c = MAX_COLS * a + b
<1>1. c \in Nat /\ c < MAX_COLS * MAX_ROWS
  BY Sizes DEF Cells
<1>2. PICK a \in Nat, b \in 0 .. MAX_COLS - 1 :
        a = c \div MAX_COLS /\ b = c % MAX_COLS /\ c = MAX_COLS * a + b
  BY <1>1, Divided, Sizes
<1>3. ~ (MAX_ROWS <= a)
  <2> SUFFICES ASSUME MAX_ROWS <= a PROVE FALSE
    OBVIOUS
  <2>1. CASE a = MAX_ROWS
    BY <2>1, <1>1, <1>2, Sizes
  <2>2. CASE MAX_ROWS < a
    <3>1. MAX_COLS * MAX_ROWS + MAX_COLS <= MAX_COLS * a
      BY <2>2, <1>2, Times, Sizes
    <3> QED
      BY <3>1, <1>1, <1>2, Sizes
  <2> QED
    BY <2>1, <2>2, <1>2, Sizes
<1>4. MAX_COLS * a = a * MAX_COLS
  BY <1>2, Sizes
<1>5. a \in 0 .. MAX_ROWS - 1 /\ c = a * MAX_COLS + b
  BY <1>2, <1>3, <1>4, Sizes
<1> QED
  BY <1>2, <1>5

\* An offset is two bytes a cell.
LEMMA Halves ==
  ASSUME NEW c \in Nat
  PROVE  (2 * c) \div 2 = c /\ (2 * c) \div (2 * MAX_COLS) = c \div MAX_COLS
<1>1. (2 * c) \div 2 = c
  OBVIOUS
<1>2. PICK a \in Nat, b \in 0 .. MAX_COLS - 1 :
        a = c \div MAX_COLS /\ b = c % MAX_COLS /\ c = MAX_COLS * a + b
  BY Divided, Sizes
<1>3. 2 * b \in 0 .. 2 * MAX_COLS - 1
  BY <1>2, Sizes
<1>4. 2 * c = (2 * MAX_COLS) * a + 2 * b
  <2>1. PICK m \in Nat : m = MAX_COLS
    BY Sizes
  <2>2. c = m * a + b
    BY <1>2, <2>1
  <2>3. 2 * (m * a + b) = (2 * m) * a + 2 * b
    OBVIOUS
  <2> QED
    BY <2>1, <2>2, <2>3, Zenon
<1>5. ((2 * MAX_COLS) * a + 2 * b) \div (2 * MAX_COLS) = a
  BY <1>2, <1>3, DividedIs, Sizes
<1> QED
  BY <1>1, <1>2, <1>4, <1>5

\* Where the cursor goes from cell c, before the screen scrolls.
LEMMA LineEndIs ==
  ASSUME NEW o \in Nat
  PROVE  /\ LineEnd(o) + 2 = 2 * (MAX_COLS * (o \div (2 * MAX_COLS)) + MAX_COLS)
         /\ 2 * (MAX_COLS * (o \div (2 * MAX_COLS))) <= o
         /\ MAX_COLS * (o \div (2 * MAX_COLS)) \in Nat
<1>1. PICK a \in Nat, b \in 0 .. 2 * MAX_COLS - 1 :
        a = o \div (2 * MAX_COLS) /\ o = (2 * MAX_COLS) * a + b
  BY Divided, Sizes
<1>2. LineEnd(o) = (a * MAX_COLS + (MAX_COLS - 1)) * 2
  BY <1>1 DEF LineEnd, get_screen_offset
<1>3. MAX_COLS * a \in Nat /\ a * MAX_COLS = MAX_COLS * a /\ (2 * MAX_COLS) * a = 2 * (MAX_COLS * a)
  BY <1>1, Sizes
<1>4. LineEnd(o) + 2 = 2 * (MAX_COLS * a + MAX_COLS)
  BY <1>2, <1>3, Sizes
<1>5. 2 * (MAX_COLS * a) <= o
  BY <1>1, <1>3, Sizes
<1> QED
  BY <1>1, <1>3, <1>4, <1>5
-------------------------------------------------------------------------------
(* What is still to be done stays the rest of the script. *)

LEMMA Triple ==
  ASSUME NEW A, NEW B, NEW C, NEW f \in A \X B \X C
  PROVE  f[1] \in A /\ f[2] \in B /\ f[3] \in C /\ Len(f) = 3
<1>1. f[1] \in A /\ f[2] \in B /\ f[3] \in C
  OBVIOUS
<1>2. f = <<f[1], f[2], f[3]>>
  OBVIOUS
<1>3. Len(<<f[1], f[2], f[3]>>) = 3
  OBVIOUS
<1> QED
  BY <1>1, <1>2, <1>3, Zenon

LEMMA FrameOf ==
  ASSUME NEW f \in Frames, f # <<>>
  PROVE  f[1] \in Seq(Items) /\ f[2] \in Places /\ f[3] \in Offsets /\ Len(f) = 3
<1>1. f \in Seq(Items) \X Places \X Offsets
  BY DEF Frames
<1> QED
  BY <1>1, Triple

LEMMA MainTyped ==
  ASSUME TypeOK, Planned
  PROVE  Main \in Seq(Items)
BY FrameOf DEF TypeOK, Planned, Main

\* Only the place in the middle of something has changed.
LEMMA PlanKept ==
  ASSUME TypeOK, Planned, UNCHANGED <<todo, frame, irq, stack_idx>>, Middle(todo, at')
  PROVE  Planned'
<1>1. CASE frame = <<>>
  <2>1. Main' = Main /\ MainAt' = at' /\ Main = todo
    BY <1>1 DEF Main, MainAt
  <2> QED
    BY <1>1, <2>1 DEF Planned
<1>2. CASE frame # <<>>
  <2>1. Main' = Main /\ MainAt' = MainAt
    BY <1>2 DEF Main, MainAt
  <2> QED
    BY <1>2, <2>1 DEF Planned
<1> QED
  BY <1>1, <1>2

\* No handler is under way, and todo is what main() has to do now.
LEMMA PlanIs ==
  ASSUME frame' = <<>>, at' = "idle",
         Lacks(todo', "iret"), irq' => Lacks(todo', "idt_init"),
         Lacks(todo', "draw_panic_screen") \/ Lacks(todo', "push_row"),
         stack_idx' \in {0, 1}, Script(todo', stack_idx')
  PROVE  Planned'
<1>1. Main' = todo' /\ MainAt' = "idle"
  BY DEF Main, MainAt
<1>2. frame' \in Frames
  BY DEF Frames
<1> QED
  BY <1>1, <1>2 DEF Planned, Middle

\* What a handler does after what it has done.
LEMMA HandlerRest ==
  ASSUME frame # <<>>, Planned, todo # <<>>, Head(todo) # "iret"
  PROVE  /\ Tail(todo) \in {<<"NL", "s", "iret">>, <<"s", "iret">>, <<"iret">>}
         /\ Tail(todo) \in Seq(Items)
<1>1. todo \in {<<"NL", "s", "iret">>, <<"s", "iret">>, <<"iret">>}
  BY DEF Planned
<1>2. CASE todo = <<"NL", "s", "iret">>
  <2>1. Tail(<<"NL", "s", "iret">>) = <<"s", "iret">> /\ <<"s", "iret">> \in Seq(Items)
    BY DEF Items, Chars
  <2> QED
    BY <1>2, <2>1
<1>3. CASE todo = <<"s", "iret">>
  <2>1. Tail(<<"s", "iret">>) = <<"iret">> /\ <<"iret">> \in Seq(Items)
    BY DEF Items, Chars
  <2> QED
    BY <1>3, <2>1
<1>4. CASE todo = <<"iret">>
  BY <1>4
<1> QED
  BY <1>1, <1>2, <1>3, <1>4

\* Something that does not concern the stack is done.
LEMMA PlanDone ==
  ASSUME TypeOK, Planned, todo # <<>>, todo' = Tail(todo), at' = "idle",
         UNCHANGED <<frame, irq, stack_idx>>,
         Head(todo) \notin {"push_row", "print_ok", "iret"}
  PROVE  Planned' /\ todo' \in Seq(Items)
<1>1. CASE frame = <<>>
  <2>1. Main = todo /\ todo \in Seq(Items)
    BY <1>1 DEF Main, TypeOK
  <2>2. Script(Tail(todo), stack_idx) /\ Tail(todo) \in Seq(Items)
    BY <2>1, ScriptRest, Rest DEF Planned
  <2>3. /\ Lacks(Tail(todo), "iret") /\ (irq => Lacks(Tail(todo), "idt_init"))
        /\ Lacks(Tail(todo), "draw_panic_screen") \/ Lacks(Tail(todo), "push_row")
    BY <2>1, LacksRest DEF Planned
  <2>4. stack_idx' \in {0, 1} /\ irq' = irq /\ stack_idx' = stack_idx /\ frame' = <<>>
    BY <1>1 DEF Planned
  <2>5. /\ Lacks(todo', "iret") /\ (irq' => Lacks(todo', "idt_init"))
        /\ Lacks(todo', "draw_panic_screen") \/ Lacks(todo', "push_row")
        /\ Script(todo', stack_idx')
    <3>1. todo' = Tail(todo) /\ irq' = irq /\ stack_idx' = stack_idx
      OBVIOUS
    <3> QED
      BY <2>2, <2>3, <3>1
  <2>6. Planned'
    BY <2>4, <2>5, PlanIs
  <2> QED
    BY <2>2, <2>6
<1>2. CASE frame # <<>>
  <2>1. /\ todo' \in {<<"NL", "s", "iret">>, <<"s", "iret">>, <<"iret">>}
        /\ todo' \in Seq(Items)
    BY <1>2, HandlerRest
  <2>2. Main' = Main /\ MainAt' = MainAt
    BY <1>2 DEF Main, MainAt
  <2>3. Middle(todo, at)'
    BY DEF Middle
  <2>4. Middle(Main, MainAt)'
    BY <2>2 DEF Planned, Middle
  <2>5. /\ Lacks(Main, "iret")' /\ Lacks(Main, "idt_init")' /\ Script(Main, stack_idx)'
        /\ Lacks(Main, "draw_panic_screen")' \/ Lacks(Main, "push_row")'
    BY <1>2, <2>2 DEF Planned, Lacks, Script, Balanced, Bracketed, LateIrq, Between, After
  <2>6. irq' = irq /\ frame' = frame /\ stack_idx' = stack_idx
    OBVIOUS
  <2> QED
    BY <1>2, <2>1, <2>3, <2>4, <2>5, <2>6 DEF Planned
<1> QED
  BY <1>1, <1>2

\* Steps on the controller, and print_char up to set_cursor.
LEMMA PlannedPorts ==
  ASSUME TypeOK, Planned,
         \/ get_cursor \/ print_char \/ Select(14, "set", "out14")
         \/ Out("out14", "wrote14", CharOffset(offset) \div Byte)
         \/ Select(15, "wrote14", "out15")
  PROVE  Planned' /\ todo' \in Seq(Items)
<1>0. todo \in Seq(Items)
  BY DEF TypeOK
<1>1. UNCHANGED <<todo, frame, irq, stack_idx>>
  BY DEF get_cursor, print_char, Select, In, Out, Steps, handler, attempts
<1>2. Middle(todo, at')
  <2>1. CASE UsesCursor /\ Select(15, "idle", "in15")
    BY <2>1 DEF UsesCursor, Select, Steps, Middle, Reading, Setting
  <2>2. CASE In("in15", "read15", reg[ctrl])
    BY <2>2 DEF In, Steps, Planned, Middle, Reading, Setting
  <2>3. CASE Select(14, "read15", "in14")
    BY <2>3 DEF Select, Steps, Planned, Middle, Reading, Setting
  <2>4. CASE In("in14", "read14", (2 * (offset + Byte * reg[ctrl])) % (Byte * Byte))
    BY <2>4 DEF In, Steps, Planned, Middle, Reading, Setting
  <2>5. CASE print_char
    <3>1. at = "read14" /\ Head(todo) # "push_row" /\ at' \in {"read14", "set"}
      BY <2>5 DEF print_char
    <3> QED
      BY <3>1 DEF Planned, Middle, Reading, Setting
  <2>6. CASE Select(14, "set", "out14")
    BY <2>6 DEF Select, Steps, Planned, Middle, Reading, Setting
  <2>7. CASE Out("out14", "wrote14", CharOffset(offset) \div Byte)
    BY <2>7 DEF Out, Steps, Planned, Middle, Reading, Setting
  <2>8. CASE Select(15, "wrote14", "out15")
    BY <2>8 DEF Select, Steps, Planned, Middle, Reading, Setting
  <2> QED
    BY <2>1, <2>2, <2>3, <2>4, <2>5, <2>6, <2>7, <2>8 DEF get_cursor
<1>3. Planned'
  BY <1>1, <1>2, PlanKept
<1> QED
  BY <1>0, <1>1, <1>3

LEMMA PlannedSteps ==
  ASSUME TypeOK, Planned,
         \/ Out("out15", "idle", CharOffset(offset))
         \/ push_row \/ print_ok \/ draw_panic_screen \/ clear_bss \/ idt_init \/ Work
         \/ keyboard_handler
  PROVE  Planned' /\ todo' \in Seq(Items)
<1>0. todo \in Seq(Items)
  BY DEF TypeOK
<1>a. ASSUME Head(todo) \notin {"NL", "s", "iret"}, todo # <<>>
      PROVE  frame = <<>> /\ Main = todo /\ MainAt = at
  <2>1. frame = <<>>
    <3> SUFFICES ASSUME todo \in {<<"NL", "s", "iret">>, <<"s", "iret">>, <<"iret">>}
                 PROVE  FALSE
      BY DEF Planned
    <3> QED
      BY <1>a
  <2> QED
    BY <2>1 DEF Main, MainAt
<1>1. CASE Out("out15", "idle", CharOffset(offset))
  <2>1. todo # <<>> /\ Head(todo) \in Chars \cup {"NL", "draw_panic_screen"}
    BY <1>1 DEF Out, Steps, Ready, Planned, Middle, Setting
  <2>2. /\ todo' = Tail(todo) /\ at' = "idle" /\ UNCHANGED <<frame, irq, stack_idx>>
        /\ Head(todo) \notin {"push_row", "print_ok", "iret"}
    BY <1>1, <2>1 DEF Out, Steps, Chars, handler, attempts
  <2> QED
    BY <2>1, <2>2, PlanDone
<1>2. CASE push_row
  <2>1. /\ todo # <<>> /\ Head(todo) = "push_row" /\ todo' = Tail(todo) /\ at' = "idle"
        /\ stack_idx' = stack_idx + 1 /\ UNCHANGED <<frame, irq>>
    BY <1>2 DEF push_row, Ready, handler
  <2>2. frame = <<>> /\ Main = todo
    BY <1>a, <2>1
  <2>3. Script(todo, stack_idx) /\ stack_idx \in {0, 1}
    BY <2>2 DEF Planned
  <2>4. stack_idx = 0 /\ Script(Tail(todo), 1) /\ Tail(todo) \in Seq(Items)
    BY <1>0, <2>1, <2>3, ScriptRest, Rest
  <2>5. /\ Lacks(Tail(todo), "iret") /\ (irq => Lacks(Tail(todo), "idt_init"))
        /\ Lacks(Tail(todo), "draw_panic_screen") \/ Lacks(Tail(todo), "push_row")
    BY <1>0, <2>1, <2>2, LacksRest DEF Planned
  <2>6. stack_idx' = 1
    BY <2>1, <2>4
  <2>7. Planned'
    BY <2>1, <2>2, <2>4, <2>5, <2>6, PlanIs
  <2> QED
    BY <2>1, <2>4, <2>7
<1>3. CASE print_ok
  <2>1. /\ todo # <<>> /\ Head(todo) = "print_ok" /\ todo' = Tail(todo) /\ at' = "idle"
        /\ stack_idx' = stack_idx - 1 /\ UNCHANGED <<frame, irq>>
    BY <1>3 DEF print_ok, Popped, Does, Ready, handler
  <2>2. frame = <<>> /\ Main = todo
    BY <1>a, <2>1
  <2>3. Script(todo, stack_idx) /\ stack_idx \in {0, 1}
    BY <2>2 DEF Planned
  <2>4. stack_idx = 1 /\ Script(Tail(todo), 0) /\ Tail(todo) \in Seq(Items)
    BY <1>0, <2>1, <2>3, ScriptRest, Rest
  <2>5. /\ Lacks(Tail(todo), "iret") /\ (irq => Lacks(Tail(todo), "idt_init"))
        /\ Lacks(Tail(todo), "draw_panic_screen") \/ Lacks(Tail(todo), "push_row")
    BY <1>0, <2>1, <2>2, LacksRest DEF Planned
  <2>6. stack_idx' = 0
    BY <2>1, <2>4
  <2>7. Planned'
    BY <2>1, <2>2, <2>4, <2>5, <2>6, PlanIs
  <2> QED
    BY <2>1, <2>4, <2>7
<1>4. CASE draw_panic_screen
  <2>1. /\ todo # <<>> /\ Head(todo) = "draw_panic_screen" /\ at' = "set"
        /\ UNCHANGED <<todo, frame, irq, stack_idx>>
    BY <1>4 DEF draw_panic_screen, Does, Ready, handler, attempts
  <2>2. Middle(todo, at')
    BY <2>1 DEF Middle, Reading, Setting
  <2> QED
    BY <1>0, <2>1, <2>2, PlanKept
<1>5. CASE clear_bss
  <2>1. /\ todo # <<>> /\ todo' = Tail(todo) /\ at' = "idle"
        /\ UNCHANGED <<frame, irq, stack_idx>>
        /\ Head(todo) \notin {"push_row", "print_ok", "iret"}
    BY <1>5 DEF clear_bss, Cleared, Does, Ready, handler
  <2> QED
    BY <2>1, PlanDone
<1>6. CASE idt_init
  <2>1. /\ todo # <<>> /\ Head(todo) = "idt_init" /\ todo' = Tail(todo) /\ at' = "idle"
        /\ UNCHANGED <<frame, stack_idx>>
    BY <1>6 DEF idt_init, Does, Ready, attempts
  <2>2. frame = <<>> /\ Main = todo
    BY <1>a, <2>1
  <2>3. Script(todo, stack_idx) /\ stack_idx \in {0, 1}
    BY <2>2 DEF Planned
  <2>4. Script(Tail(todo), stack_idx) /\ Tail(todo) \in Seq(Items) /\ Lacks(Tail(todo), "idt_init")
    BY <1>0, <2>1, <2>3, ScriptRest, Rest
  <2>5. /\ Lacks(Tail(todo), "iret")
        /\ Lacks(Tail(todo), "draw_panic_screen") \/ Lacks(Tail(todo), "push_row")
    BY <1>0, <2>1, <2>2, LacksRest DEF Planned
  <2>6. stack_idx' = stack_idx /\ stack_idx' \in {0, 1}
    BY <2>1, <2>3
  <2>7. Planned'
    BY <2>1, <2>2, <2>4, <2>5, <2>6, PlanIs
  <2> QED
    BY <2>1, <2>4, <2>7
<1>7. CASE Work
  <2>1. /\ todo # <<>> /\ Head(todo) = "work" /\ at' = "idle"
        /\ UNCHANGED <<frame, irq, stack_idx>>
        /\ todo' = println \o todo \/ todo' = PANIC \/ todo' = Tail(todo)
    BY <1>7 DEF Work, Does, Ready, attempts, handler
  <2>2. frame = <<>> /\ Main = todo
    BY <1>a, <2>1
  <2>3. /\ Script(todo, stack_idx) /\ stack_idx \in {0, 1} /\ Lacks(todo, "iret")
        /\ Lacks(todo, "draw_panic_screen") \/ Lacks(todo, "push_row")
        /\ irq => Lacks(todo, "idt_init")
    BY <2>2 DEF Planned
  <2>4. CASE todo' = println \o todo
    <3>1. /\ println \o todo \in Seq(Items) /\ Script(println \o todo, stack_idx)
          /\ Lacks(println \o todo, "iret")
          /\ Lacks(println \o todo, "draw_panic_screen") \/ Lacks(println \o todo, "push_row")
          /\ irq => Lacks(println \o todo, "idt_init")
      BY <1>0, <2>1, <2>3, ScriptPrint
    <3>2. /\ todo' \in Seq(Items) /\ Script(todo', stack_idx') /\ Lacks(todo', "iret")
          /\ Lacks(todo', "draw_panic_screen") \/ Lacks(todo', "push_row")
          /\ irq' => Lacks(todo', "idt_init")
      BY <2>1, <2>4, <3>1
    <3> QED
      BY <2>1, <2>2, <2>3, <3>2, PlanIs
  <2>5. CASE todo' = PANIC
    <3>1. /\ todo' \in Seq(Items) /\ Script(todo', stack_idx') /\ Lacks(todo', "iret")
          /\ Lacks(todo', "idt_init") /\ Lacks(todo', "push_row")
      BY <2>1, <2>3, <2>5, PanicScript
    <3> QED
      BY <2>1, <2>2, <2>3, <3>1, PlanIs
  <2>6. CASE todo' = Tail(todo)
    BY <2>1, <2>6, PlanDone
  <2> QED
    BY <2>1, <2>4, <2>5, <2>6
<1>8. CASE keyboard_handler
  <2>1. UNCHANGED <<todo, at, frame, irq, stack_idx>>
    BY <1>8 DEF keyboard_handler, handler, attempts
  <2>2. Middle(todo, at')
    BY <2>1 DEF Planned
  <2> QED
    BY <1>0, <2>1, <2>2, PlanKept
<1> QED
  BY <1>1, <1>2, <1>3, <1>4, <1>5, <1>6, <1>7, <1>8

LEMMA PlannedHandler ==
  ASSUME TypeOK, Planned, Tick \/ Iret
  PROVE  Planned' /\ todo' \in Seq(Items)
<1>0. todo \in Seq(Items)
  BY DEF TypeOK
<1>1. CASE Tick /\ Silent
  <2>1. UNCHANGED <<todo, at, frame, irq, stack_idx>>
    BY <1>1 DEF Tick, Silent, attempts
  <2>2. Middle(todo, at')
    BY <2>1 DEF Planned
  <2> QED
    BY <1>0, <2>1, <2>2, PlanKept
<1>2. CASE Tick /\ Prints
  <2>1. /\ irq /\ irq' = FALSE /\ frame' = <<todo, at, offset>>
        /\ todo' = <<"NL", "s", "iret">> /\ at' = "idle" /\ stack_idx' = stack_idx
    BY <1>2 DEF Tick, Prints, attempts
  <2>2. frame = <<>> /\ Main = todo /\ MainAt = at /\ Lacks(todo, "idt_init")
    BY <2>1 DEF Planned, Main, MainAt
  <2>3. frame' # <<>> /\ frame'[1] = todo /\ frame'[2] = at
    BY <2>1
  <2>4. Main' = Main /\ MainAt' = MainAt
    BY <2>2, <2>3 DEF Main, MainAt
  <2>5. frame' \in Frames
    <3>1. at \in Places /\ offset \in Offsets
      BY DEF TypeOK, Places, Offsets
    <3>2. <<todo, at, offset>> \in Seq(Items) \X Places \X Offsets
      BY <1>0, <3>1
    <3> QED
      BY <2>1, <3>2 DEF Frames
  <2>6. todo' \in Seq(Items)
    <3>1. <<"NL", "s", "iret">> \in Seq(Items)
      BY DEF Items, Chars
    <3> QED
      BY <2>1, <3>1
  <2>7. Middle(todo, at)' /\ Middle(Main, MainAt)'
    BY <2>1, <2>4 DEF Planned, Middle
  <2>8. /\ Lacks(Main, "iret")' /\ Lacks(Main, "idt_init")'
        /\ Lacks(Main, "draw_panic_screen")' \/ Lacks(Main, "push_row")'
        /\ stack_idx' \in {0, 1} /\ Script(Main, stack_idx)'
    BY <2>1, <2>2, <2>4 DEF Planned
  <2> QED
    BY <2>1, <2>5, <2>6, <2>7, <2>8 DEF Planned
<1>3. CASE Iret
  <2>1. /\ todo # <<>> /\ Head(todo) = "iret" /\ todo' = frame[1] /\ at' = frame[2]
        /\ frame' = <<>> /\ irq' = TRUE /\ stack_idx' = stack_idx
    BY <1>3 DEF Iret, Does, Ready, attempts
  <2>2. frame # <<>>
    <3> SUFFICES ASSUME frame = <<>> PROVE FALSE
      OBVIOUS
    <3>1. Lacks(todo, "iret")
      BY DEF Planned, Main
    <3> QED
      BY <1>0, <2>1, <3>1, LacksRest
  <2>3. Main = frame[1] /\ MainAt = frame[2] /\ Main' = Main /\ MainAt' = MainAt
    BY <2>1, <2>2 DEF Main, MainAt
  <2>4. todo' \in Seq(Items)
    BY <2>1, <2>3, MainTyped
  <2>5. Middle(todo, at)' /\ Middle(Main, MainAt)'
    BY <2>1, <2>3 DEF Planned
  <2>6. frame' \in Frames
    BY <2>1 DEF Frames
  <2>7. /\ Lacks(Main, "iret")' /\ Lacks(Main, "idt_init")'
        /\ Lacks(Main, "draw_panic_screen")' \/ Lacks(Main, "push_row")'
        /\ stack_idx' \in {0, 1} /\ Script(Main, stack_idx)'
    BY <2>1, <2>2, <2>3 DEF Planned
  <2> QED
    BY <2>1, <2>4, <2>5, <2>6, <2>7 DEF Planned
<1> QED
  BY <1>1, <1>2, <1>3 DEF Tick
-------------------------------------------------------------------------------
(* Types. *)

LEMMA OffsetTyped ==
  ASSUME NEW o \in Offsets, NEW m,
         m = LineEnd(o) + 2 \/ (m = o + 2 /\ o \div 2 \in Cells)
  PROVE  m \in Int /\ (OnScreen(m) => m \in Offsets) /\ (~ OnScreen(m) => m - 2 * MAX_COLS \in Offsets)
<1>0. o \in Nat /\ o <= Byte * Byte
  BY Sizes DEF Offsets
<1>1. PICK R \in Nat : R = MAX_ROWS * MAX_COLS /\ MAX_COLS <= R /\ 2 * R < Byte * Byte
  BY Sizes
<1>2. \A n \in Int : OnScreen(n) <=> n < 2 * R
  <2>1. MAX_ROWS * MAX_COLS * 2 = 2 * R
    BY <1>1, Sizes
  <2> QED
    BY <2>1 DEF OnScreen
<1>3. PICK B \in Nat : B = Byte * Byte
  BY Sizes
<1>4. Offsets = 0 .. B
  BY <1>3 DEF Offsets
<1>5. MAX_COLS \in Nat /\ MAX_COLS >= 3
  BY Sizes
<1>6. CASE m = LineEnd(o) + 2
  <2>1. PICK h \in Nat : m = 2 * (h + MAX_COLS) /\ 2 * h <= o
    BY <1>0, <1>6, LineEndIs
  <2> QED
    BY <2>1, <1>0, <1>1, <1>2, <1>3, <1>4, <1>5
<1>7. CASE m = o + 2 /\ o \div 2 \in Cells
  <2>1. o \div 2 < R
    BY <1>1, <1>7 DEF Cells
  <2>2. o < 2 * R
    BY <1>0, <2>1, <1>1
  <2> QED
    BY <2>2, <1>7, <1>0, <1>1, <1>2, <1>3, <1>4, <1>5
<1> QED
  BY <1>6, <1>7

\* What is kept in a register.
LEMMA ByteTyped ==
  ASSUME NEW n \in Nat PROVE LowByte(n) \in 0 .. Byte - 1
BY Sizes DEF LowByte

\* The variables but todo, stack_idx and frame.
Fields ==
  /\ vidmem \in [Cells -> Chars \cup {ZERO}]
  /\ ctrl \in {14, 15} /\ reg \in [{14, 15} -> 0 .. Byte - 1]
  /\ attempt_stack \in [0 .. StackSize - 1 -> Nat]
  /\ ticks \in 0 .. Second - 1 /\ irq \in BOOLEAN /\ torn \in BOOLEAN
  /\ offset \in Offsets /\ at \in Places
  /\ scrolled \in 0 .. MAX_ROWS /\ stray \in BOOLEAN

LEMMA StepType ==
  ASSUME TypeOK, Planned, Next, Planned', todo' \in Seq(Items)
  PROVE  TypeOK'
<1>1. Fields /\ stack_idx \in {0, 1}
  BY DEF TypeOK, Planned, Places, Offsets, Fields
<1>2. SUFFICES Fields'
  <2>1. stack_idx' \in 0 .. StackSize
    BY ScreenAssumption DEF Planned
  <2>2. Len(frame') \in {0, 3}
    BY FrameOf DEF Planned
  <2> QED
    BY <2>1, <2>2 DEF TypeOK, Places, Offsets, Fields
<1>3. 0 \in Offsets /\ \A n \in 0 .. Byte - 1 : n \in Offsets
  <2>1. PICK B \in Nat : B = Byte * Byte /\ Byte - 1 <= B
    <3>1. PICK k \in Nat : Byte = k + 1
      <4>1. Byte - 1 \in Nat /\ Byte = (Byte - 1) + 1
        BY Sizes
      <4> QED
        BY <4>1
    <3>2. Byte * Byte = k * k + 2 * k + 1 /\ k * k >= 0
      BY <3>1
    <3> QED
      BY <3>1, <3>2, Sizes
  <2> QED
    BY <2>1, Sizes DEF Offsets
<1>4. CASE get_cursor
  <2>1. ASSUME NEW r \in {14, 15}, NEW a \in Places, NEW b \in Places, Select(r, a, b)
        PROVE  Fields'
    BY <1>1, <2>1 DEF Select, Steps, attempts, handler, Fields
  <2>2. ASSUME NEW a \in Places, NEW b \in Places, NEW v \in Offsets, In(a, b, v)
        PROVE  Fields'
    BY <1>1, <2>2 DEF In, Steps, port, attempts, handler, Fields
  <2>3. reg[ctrl] \in Offsets
    BY <1>1, <1>3 DEF Fields
  <2>4. (2 * (offset + Byte * reg[ctrl])) % (Byte * Byte) \in Offsets
    <3>1. PICK v \in Nat : v = 2 * (offset + Byte * reg[ctrl])
      <4>1. reg[ctrl] \in Nat /\ offset \in Nat /\ Byte \in Nat
        BY <1>1, Sizes DEF Offsets, Fields
      <4>2. Byte * reg[ctrl] \in Nat
        BY <4>1
      <4> QED
        BY <4>1, <4>2
    <3>2. PICK B \in Nat \ {0} : B = Byte * Byte
      BY Sizes
    <3>3. v % B \in 0 .. B
      BY <3>1, <3>2
    <3> QED
      BY <3>1, <3>2, <3>3 DEF Offsets
  <2>5. /\ "idle" \in Places /\ "in15" \in Places /\ "read15" \in Places
        /\ "in14" \in Places /\ "read14" \in Places
    BY DEF Places
  <2> QED
    BY <1>4, <2>1, <2>2, <2>3, <2>4, <2>5 DEF get_cursor
<1>5. CASE set_cursor
  <2>1. ASSUME NEW r \in {14, 15}, NEW a \in Places, NEW b \in Places, Select(r, a, b)
        PROVE  Fields'
    BY <1>1, <2>1 DEF Select, Steps, attempts, handler, Fields
  <2>2. ASSUME NEW a \in Places, NEW b \in Places, NEW v \in Nat, Out(a, b, v)
        PROVE  Fields'
    <3>1. reg' \in [{14, 15} -> 0 .. Byte - 1]
      BY <1>1, <2>2, ByteTyped DEF Out, Fields
    <3> QED
      BY <1>1, <2>2, <3>1 DEF Out, Steps, attempts, handler, Fields
  <2>3. CharOffset(offset) \in Nat /\ CharOffset(offset) \div Byte \in Nat
    <3>1. CharOffset(offset) \in Nat
      BY <1>1, Sizes DEF CharOffset, Offsets, Fields
    <3> QED
      BY <3>1, Divided, Sizes
  <2>4. /\ "idle" \in Places /\ "set" \in Places /\ "out14" \in Places
        /\ "wrote14" \in Places /\ "out15" \in Places
    BY DEF Places
  <2> QED
    BY <1>5, <2>1, <2>2, <2>3, <2>4 DEF set_cursor
<1>6. CASE print_char
  <2> DEFINE c == Head(todo)
  <2> DEFINE moved == (IF c = "NL" THEN LineEnd(offset) ELSE offset) + 2
  <2> DEFINE drawn == IF c = "NL" THEN vidmem ELSE [vidmem EXCEPT ![offset \div 2] = c]
  <2>1. c = "NL" \/ c \in Chars
    BY <1>6 DEF print_char, Planned, Middle, Reading
  <2>2. drawn \in [Cells -> Chars \cup {ZERO}] /\ Shuffled(drawn) \in [Cells -> Chars \cup {ZERO}]
    <3>1. drawn \in [Cells -> Chars \cup {ZERO}]
      BY <1>1, <2>1 DEF Fields
    <3> HIDE DEF drawn
    <3> QED
      BY <3>1 DEF Shuffled
  <2>3. ASSUME c = "NL" \/ offset \div 2 \in Cells
        PROVE  /\ OnScreen(moved) => moved \in Offsets
               /\ ~ OnScreen(moved) => moved - 2 * MAX_COLS \in Offsets
    BY <1>1, <2>3, OffsetTyped DEF Fields
  <2>4. /\ UNCHANGED <<ctrl, reg, attempt_stack, ticks, irq, torn>>
        /\ \/ stray' = TRUE /\ UNCHANGED <<vidmem, offset, at, scrolled>>
           \/ /\ c = "NL" \/ offset \div 2 \in Cells
              /\ \/ OnScreen(moved) /\ vidmem' = drawn /\ offset' = moved /\ scrolled' = scrolled
                 \/ /\ ~ OnScreen(moved)
                    /\ vidmem' = Shuffled(drawn) /\ offset' = moved - 2 * MAX_COLS
                    /\ scrolled' = IF scrolled < MAX_ROWS THEN scrolled + 1 ELSE scrolled
              /\ at' = "set" /\ stray' = stray
    BY <1>6 DEF print_char, port, handler
  <2> HIDE DEF c, moved, drawn
  <2>5. scrolled' \in 0 .. MAX_ROWS
    BY <1>1, <2>4, Sizes DEF Fields
  <2>6. vidmem' \in [Cells -> Chars \cup {ZERO}] /\ offset' \in Offsets
    BY <1>1, <2>2, <2>3, <2>4 DEF Fields
  <2>7. at' \in Places /\ stray' \in BOOLEAN
    BY <1>1, <2>4 DEF Places, Fields
  <2> QED
    BY <1>1, <2>4, <2>5, <2>6, <2>7 DEF Fields
<1>7. CASE push_row
  <2>1. offset \div (2 * MAX_COLS) \in Nat
    <3>1. offset \in Nat
      BY <1>1, Sizes DEF Offsets, Fields
    <3> QED
      BY <3>1, Divided, Sizes
  <2>2. attempt_stack' \in [0 .. StackSize - 1 -> Nat]
    BY <1>1, <1>7, <2>1 DEF push_row, Fields
  <2>3. scrolled' \in 0 .. MAX_ROWS
    BY <1>7, Sizes DEF push_row
  <2> QED
    BY <1>1, <1>7, <2>2, <2>3 DEF push_row, port, handler, Places, Fields
<1>8. CASE print_ok \/ keyboard_handler
  <2>1. ASSUME NEW ch \in Chars, NEW k, NEW r, print_char_loc(ch, k, r)
        PROVE  vidmem' \in [Cells -> Chars \cup {ZERO}] /\ stray' \in BOOLEAN
    BY <1>1, <2>1 DEF print_char_loc, Fields
  <2>2. vidmem' \in [Cells -> Chars \cup {ZERO}] /\ stray' \in BOOLEAN
    BY <1>8, <2>1 DEF print_ok, Popped, keyboard_handler, Chars
  <2> QED
    BY <1>1, <1>8, <2>2 DEF print_ok, Popped, keyboard_handler, port, handler, attempts, Fields
<1>9. CASE draw_panic_screen
  <2>1. offset' \in Offsets
    <3>1. get_screen_offset(0, 0) = 0
      BY Sizes DEF get_screen_offset
    <3> QED
      BY <1>3, <1>9, <3>1 DEF draw_panic_screen
  <2>2. vidmem' \in [Cells -> Chars \cup {ZERO}]
    BY <1>9 DEF draw_panic_screen, Chars
  <2> QED
    BY <1>1, <1>9, <2>1, <2>2 DEF draw_panic_screen, port, attempts, handler, Places, Fields
<1>10. CASE clear_bss \/ idt_init \/ Work
  BY <1>1, <1>10 DEF clear_bss, Cleared, idt_init, Work, port, attempts, handler, Fields
<1>11. CASE Tick
  <2>1. ticks' \in 0 .. Second - 1
    BY <1>1, <1>11, ScreenAssumption DEF Tick, Fields
  <2>2. irq' \in BOOLEAN /\ torn' \in BOOLEAN /\ at' \in Places /\ offset' \in Offsets
    BY <1>1, <1>3, <1>11 DEF Tick, Silent, Prints, Places, Fields
  <2> QED
    BY <1>1, <1>11, <2>1, <2>2 DEF Tick, Silent, Prints, port, attempts, Fields
<1>12. CASE Iret
  <2>1. frame # <<>>
    <3> SUFFICES ASSUME frame = <<>> PROVE FALSE
      OBVIOUS
    <3>1. Lacks(todo, "iret") /\ todo \in Seq(Items) /\ todo # <<>> /\ Head(todo) = "iret"
      BY <1>12 DEF Planned, Main, TypeOK, Iret, Does, Ready
    <3> QED
      BY <3>1, LacksRest
  <2>2. at' \in Places /\ offset' \in Offsets
    BY <2>1, <1>12, FrameOf DEF Iret, Planned
  <2> QED
    BY <1>1, <1>12, <2>2 DEF Iret, port, attempts, Fields
<1> QED
  BY <1>4, <1>5, <1>6, <1>7, <1>8, <1>9, <1>10, <1>11, <1>12 DEF Next
-------------------------------------------------------------------------------
(* The cursor, in the controller's registers and on its way there. *)

\* A cell in two registers.
LEMMA TwoBytes ==
  ASSUME NEW c \in Cells
  PROVE  /\ LowByte(c \div Byte) = c \div Byte
         /\ Byte * (c \div Byte) + LowByte(c) = c
<1>1. c \in Nat /\ 2 * c < Byte * Byte
  BY Sizes DEF Cells
<1>2. PICK a \in Nat, b \in 0 .. Byte - 1 : a = c \div Byte /\ b = c % Byte /\ c = Byte * a + b
  BY <1>1, Divided, Sizes
<1>3. a < Byte
  <2> SUFFICES ASSUME Byte <= a PROVE FALSE
    BY <1>2, Sizes
  <2>1. CASE a = Byte
    BY <2>1, <1>1, <1>2, Sizes
  <2>2. CASE Byte < a
    <3>1. Byte * Byte + Byte <= Byte * a
      BY <2>2, <1>2, Times, Sizes
    <3> QED
      BY <3>1, <1>1, <1>2, Sizes
  <2> QED
    BY <2>1, <2>2, <1>2, Sizes
<1>4. a % Byte = a
  BY <1>2, <1>3, Sizes
<1>5. LowByte(c \div Byte) = c \div Byte
  BY <1>2, <1>4 DEF LowByte
<1>6. LowByte(c) = b
  BY <1>2 DEF LowByte
<1> QED
  BY <1>2, <1>5, <1>6

\* Where print_char goes from cell c with a character.
LEMMA PrintedChar ==
  ASSUME NEW c \in Cells
  PROVE  LET m == 2 * c + 2 IN
         /\ OnScreen(m) => c + 1 \in Cells /\ m \div 2 = c + 1
         /\ ~ OnScreen(m) => /\ c + 1 = MAX_ROWS * MAX_COLS
                             /\ (m - 2 * MAX_COLS) \div 2 = c + 1 - MAX_COLS
                             /\ c + 1 - MAX_COLS \in Cells
<1>1. PICK R \in Nat : R = MAX_ROWS * MAX_COLS /\ MAX_COLS <= R
  BY Sizes
<1>2. MAX_ROWS * MAX_COLS * 2 = 2 * R /\ MAX_COLS \in Nat /\ MAX_COLS >= 3
  BY <1>1, Sizes
<1>3. Cells = 0 .. R - 1
  BY <1>1 DEF Cells
<1> QED
  BY <1>1, <1>2, <1>3 DEF OnScreen

\* And with a '\n': to the start of the next row.
LEMMA PrintedLine ==
  ASSUME NEW c \in Cells, NEW a, a = c \div MAX_COLS
  PROVE  LET m == LineEnd(2 * c) + 2 IN
         /\ a \in 0 .. MAX_ROWS - 1
         /\ OnScreen(m) => a + 1 \in 0 .. MAX_ROWS - 1 /\ m \div 2 = (a + 1) * MAX_COLS
         /\ ~ OnScreen(m) => a = MAX_ROWS - 1 /\ (m - 2 * MAX_COLS) \div 2 = a * MAX_COLS
<1>1. c \in Nat
  BY Sizes
<1>2. a \in 0 .. MAX_ROWS - 1
  BY PlaceOf
<1>3. (2 * c) \div (2 * MAX_COLS) = a
  BY <1>1, Halves
<1>4. PICK h \in Nat : h = MAX_COLS * a /\ LineEnd(2 * c) + 2 = 2 * (h + MAX_COLS)
  BY <1>1, <1>3, LineEndIs
<1>5. a * MAX_COLS = h /\ (a + 1) * MAX_COLS = h + MAX_COLS
  BY <1>2, <1>4, Sizes
<1>6. PICK R \in Nat : R = MAX_ROWS * MAX_COLS
  BY Sizes
<1>7. MAX_ROWS * MAX_COLS * 2 = 2 * R /\ MAX_COLS \in Nat /\ MAX_COLS >= 3
  BY <1>6, Sizes
<1>8. h + MAX_COLS < R <=> a + 1 < MAX_ROWS
  <2>1. CASE a + 1 < MAX_ROWS
    <3>1. MAX_COLS * (a + 1) + MAX_COLS <= MAX_COLS * MAX_ROWS
      BY <2>1, <1>2, Times, Sizes
    <3>2. MAX_COLS * (a + 1) = h + MAX_COLS /\ MAX_COLS * MAX_ROWS = R
      BY <1>2, <1>4, <1>6, Sizes
    <3> QED
      BY <2>1, <3>1, <3>2, <1>7
  <2>2. CASE a + 1 = MAX_ROWS
    <3>1. R = h + MAX_COLS
      BY <2>2, <1>5, <1>6
    <3> QED
      BY <2>2, <3>1
  <2> QED
    BY <2>1, <2>2, <1>2, Sizes
<1>9. OnScreen(LineEnd(2 * c) + 2) <=> a + 1 < MAX_ROWS
  BY <1>4, <1>7, <1>8 DEF OnScreen
<1> QED
  BY <1>2, <1>4, <1>5, <1>7, <1>9, Sizes

\* The cell of print_char_loc.
LEMMA LocIs ==
  ASSUME NEW r \in 0 .. MAX_ROWS - 1, NEW k \in 0 .. MAX_COLS - 1
  PROVE  /\ get_screen_offset(k, r) \div 2 = r * MAX_COLS + k
         /\ r * MAX_COLS + k \in Cells
<1>1. r * MAX_COLS + k \in Cells
  BY CellAt
<1>2. PICK c \in Nat : c = r * MAX_COLS + k
  BY <1>1, Sizes
<1>3. get_screen_offset(k, r) = c * 2
  BY <1>2 DEF get_screen_offset
<1>4. (c * 2) \div 2 = c
  OBVIOUS
<1> QED
  BY <1>1, <1>2, <1>3, <1>4

\* The screen scrolls, and the count of it goes on to the number of rows.
Scrolls(v) ==
  /\ vidmem' = Shuffled(v)
  /\ scrolled' = IF scrolled < MAX_ROWS THEN scrolled + 1 ELSE scrolled

Stays(v) == vidmem' = v /\ scrolled' = scrolled

\* What print_char does with a character, and with a '\n'.
CharDrawn(ch) ==
  LET v == [vidmem EXCEPT ![Cursor] = ch] IN
  \/ Cursor + 1 \in Cells /\ Cursor' = Cursor + 1 /\ Stays(v)
  \/ /\ Cursor + 1 = MAX_ROWS * MAX_COLS /\ Cursor' = Cursor + 1 - MAX_COLS
     /\ Scrolls(v)

LineDrawn(a) ==
  \/ a + 1 \in 0 .. MAX_ROWS - 1 /\ Cursor' = (a + 1) * MAX_COLS /\ Stays(vidmem)
  \/ a = MAX_ROWS - 1 /\ Cursor' = a * MAX_COLS /\ Scrolls(vidmem)

LEMMA PrintCharIs ==
  ASSUME TypeOK, Planned, Steady, ~torn, print_char
  PROVE  /\ at' = "set" /\ stray' = stray /\ Cursor \in Cells /\ Cursor' \in Cells
         /\ \/ Head(todo) \in Chars /\ CharDrawn(Head(todo))
            \/ Head(todo) = "NL" /\ LineDrawn(Cursor \div MAX_COLS)
<1>1. at = "read14" /\ offset = 2 * Cursor /\ Cursor \in Cells
  BY DEF print_char, Steady
<1>2. PICK c \in Cells : c = Cursor
  BY <1>1
<1>3. c \in Nat /\ (2 * c) \div 2 = c
  BY <1>2, Sizes, Halves
<1>4. offset = 2 * c /\ offset \div 2 = c
  BY <1>1, <1>2, <1>3
<1>5. Head(todo) = "NL" \/ (Head(todo) \in Chars /\ Head(todo) # "NL")
  BY <1>1 DEF print_char, Planned, Middle, Reading, Chars
<1>6. at' = "set" => Cursor' = offset' \div 2
  BY DEF Cursor
<1>7. CASE Head(todo) = "NL"
  <2>1. PICK m : m = LineEnd(2 * c) + 2
    OBVIOUS
  <2>2. PICK a : a = c \div MAX_COLS
    OBVIOUS
  <2>3. /\ a \in 0 .. MAX_ROWS - 1
        /\ OnScreen(m) => a + 1 \in 0 .. MAX_ROWS - 1 /\ m \div 2 = (a + 1) * MAX_COLS
        /\ ~ OnScreen(m) => a = MAX_ROWS - 1 /\ (m - 2 * MAX_COLS) \div 2 = a * MAX_COLS
    BY <2>1, <2>2, PrintedLine
  <2>4. /\ at' = "set" /\ stray' = stray
        /\ OnScreen(m) => offset' = m /\ Stays(vidmem)
        /\ ~ OnScreen(m) => offset' = m - 2 * MAX_COLS /\ Scrolls(vidmem)
    BY <1>7, <1>4, <2>1 DEF print_char, Stays, Scrolls
  <2>5. LineDrawn(a) 
    BY <1>6, <2>3, <2>4 DEF LineDrawn
  <2>6. Cursor' \in Cells
    <3>1. \A r \in 0 .. MAX_ROWS - 1 : r * MAX_COLS \in Cells
      <4> TAKE r \in 0 .. MAX_ROWS - 1
      <4> QED
        BY RowStart
    <3> QED
      BY <2>3, <2>5, <3>1 DEF LineDrawn
  <2> QED
    BY <1>1, <1>2, <1>7, <2>2, <2>4, <2>5, <2>6
<1>8. CASE Head(todo) \in Chars /\ Head(todo) # "NL"
  <2>1. PICK m : m = 2 * c + 2
    OBVIOUS
  <2>2. PICK v : v = [vidmem EXCEPT ![c] = Head(todo)]
    OBVIOUS
  <2>3. /\ OnScreen(m) => c + 1 \in Cells /\ m \div 2 = c + 1
        /\ ~ OnScreen(m) => /\ c + 1 = MAX_ROWS * MAX_COLS
                            /\ (m - 2 * MAX_COLS) \div 2 = c + 1 - MAX_COLS
                            /\ c + 1 - MAX_COLS \in Cells
    BY <2>1, PrintedChar
  <2>4. /\ at' = "set" /\ stray' = stray
        /\ OnScreen(m) => offset' = m /\ Stays(v)
        /\ ~ OnScreen(m) => offset' = m - 2 * MAX_COLS /\ Scrolls(v)
    BY <1>8, <1>4, <2>1, <2>2 DEF print_char, Stays, Scrolls
  <2>5. /\ \/ c + 1 \in Cells /\ Cursor' = c + 1 /\ Stays(v)
           \/ /\ c + 1 = MAX_ROWS * MAX_COLS /\ Cursor' = c + 1 - MAX_COLS
              /\ Scrolls(v)
        /\ Cursor' \in Cells
    BY <1>6, <2>3, <2>4
  <2>6. CharDrawn(Head(todo))
    BY <1>2, <2>2, <2>5 DEF CharDrawn
  <2> QED
    BY <1>1, <1>8, <2>4, <2>5, <2>6
<1> QED
  BY <1>5, <1>7, <1>8

\* get_cursor and set_cursor do not move it.
LEMMA PortsKeep ==
  ASSUME TypeOK, Planned, Steady, ~torn, get_cursor \/ set_cursor
  PROVE  Cursor' = Cursor /\ Steady' /\ UNCHANGED <<vidmem, attempts, handler, stray>>
<1>0. UNCHANGED <<vidmem, attempts, handler, stray>>
  BY DEF get_cursor, set_cursor, Select, In, Out
<1>1. /\ ~ torn' /\ ~ stray' /\ (frame' # <<>> => frame'[2] = "idle")
      /\ attempt_stack'[0] \in 0 .. MAX_ROWS - 1
  BY <1>0 DEF Steady, attempts, handler
<1>2. Cursor \in Cells /\ ctrl \in {14, 15} /\ reg \in [{14, 15} -> 0 .. Byte - 1]
  BY DEF Steady, TypeOK
<1>3. CASE UsesCursor /\ Select(15, "idle", "in15")
  <2>1. at = "idle" /\ at' = "in15" /\ ctrl' = 15 /\ reg' = reg
    BY <1>3 DEF Select, Steps
  <2>2. Cursor' = Cursor
    BY <2>1 DEF Cursor
  <2> QED
    BY <1>0, <1>1, <1>2, <2>1, <2>2 DEF Steady
<1>4. CASE In("in15", "read15", reg[ctrl])
  <2>1. at = "in15" /\ at' = "read15" /\ ctrl = 15 /\ reg' = reg /\ offset' = reg[ctrl]
    BY <1>4 DEF In, Steps, Steady, port
  <2>2. Cursor' = Cursor
    BY <2>1 DEF Cursor
  <2> QED
    BY <1>0, <1>1, <1>2, <2>1, <2>2 DEF Steady
<1>5. CASE Select(14, "read15", "in14")
  <2>1. /\ at = "read15" /\ at' = "in14" /\ ctrl' = 14 /\ reg' = reg /\ offset' = offset
        /\ offset = reg[15]
    BY <1>5 DEF Select, Steps, Steady
  <2>2. Cursor' = Cursor
    BY <2>1 DEF Cursor
  <2> QED
    BY <1>0, <1>1, <1>2, <2>1, <2>2 DEF Steady
<1>6. CASE In("in14", "read14", (2 * (offset + Byte * reg[ctrl])) % (Byte * Byte))
  <2>1. /\ at = "in14" /\ at' = "read14" /\ ctrl = 14 /\ reg' = reg /\ offset = reg[15]
        /\ offset' = (2 * (offset + Byte * reg[ctrl])) % (Byte * Byte)
    BY <1>6 DEF In, Steps, Steady, port
  <2>2. Cursor' = Cursor /\ Cursor = Byte * reg[14] + reg[15]
    BY <2>1 DEF Cursor
  <2>3. PICK h \in Nat, l \in Nat : h = Byte * reg[14] /\ l = reg[15]
    <3>1. reg[14] \in Nat /\ reg[15] \in Nat
      BY <1>2, Sizes
    <3>2. Byte * reg[14] \in Nat
      BY <3>1, Sizes
    <3> QED
      BY <3>1, <3>2
  <2>4. Cursor = h + l /\ offset' = (2 * (l + h)) % (Byte * Byte)
    BY <2>1, <2>2, <2>3
  <2>5. PICK B \in Nat \ {0} : B = Byte * Byte /\ 2 * (h + l) < B
    BY <1>2, <2>3, <2>4, Sizes DEF Cells
  <2>6. (2 * (l + h)) % B = 2 * (h + l)
    BY <2>3, <2>5
  <2>7. offset' = 2 * Cursor'
    BY <2>2, <2>4, <2>5, <2>6
  <2> QED
    BY <1>0, <1>1, <1>2, <2>1, <2>2, <2>7 DEF Steady
<1>7. CASE Select(14, "set", "out14")
  <2>1. /\ at = "set" /\ at' = "out14" /\ ctrl' = 14 /\ reg' = reg /\ offset' = offset
    BY <1>7 DEF Select, Steps
  <2>2. Cursor' = Cursor
    BY <2>1 DEF Cursor
  <2> QED
    BY <1>0, <1>1, <1>2, <2>1, <2>2 DEF Steady
<1>8. CASE Out("out14", "wrote14", CharOffset(offset) \div Byte)
  <2>1. /\ at = "out14" /\ at' = "wrote14" /\ ctrl = 14 /\ offset' = offset
        /\ reg' = [reg EXCEPT ![14] = LowByte(CharOffset(offset) \div Byte)]
    BY <1>8 DEF Out, Steps, Steady
  <2>2. Cursor' = Cursor /\ Cursor = CharOffset(offset)
    BY <2>1 DEF Cursor, CharOffset
  <2>3. reg'[14] = Cursor' \div Byte
    BY <1>2, <2>1, <2>2, TwoBytes
  <2> QED
    BY <1>0, <1>1, <1>2, <2>1, <2>2, <2>3 DEF Steady
<1>9. CASE Select(15, "wrote14", "out15")
  <2>1. /\ at = "wrote14" /\ at' = "out15" /\ ctrl' = 15 /\ reg' = reg /\ offset' = offset
        /\ reg[14] = Cursor \div Byte
    BY <1>9 DEF Select, Steps, Steady
  <2>2. Cursor' = Cursor
    BY <2>1 DEF Cursor
  <2> QED
    BY <1>0, <1>1, <1>2, <2>1, <2>2 DEF Steady
<1>10. CASE Out("out15", "idle", CharOffset(offset))
  <2>1. /\ at = "out15" /\ at' = "idle" /\ ctrl = 15 /\ reg[14] = Cursor \div Byte
        /\ reg' = [reg EXCEPT ![15] = LowByte(CharOffset(offset))]
    BY <1>10 DEF Out, Steps, Steady
  <2>2. Cursor = CharOffset(offset) /\ Cursor' = Byte * reg'[14] + reg'[15]
    BY <2>1 DEF Cursor, CharOffset
  <2>3. reg'[14] = Cursor \div Byte /\ reg'[15] = LowByte(Cursor)
    BY <1>2, <2>1, <2>2
  <2>4. Cursor' = Cursor
    BY <1>2, <2>2, <2>3, TwoBytes
  <2> QED
    BY <1>0, <1>1, <1>2, <2>1, <2>4 DEF Steady
<1> QED
  BY <1>0, <1>3, <1>4, <1>5, <1>6, <1>7, <1>8, <1>9, <1>10 DEF get_cursor, set_cursor

\* The cursor of a step that leaves registers and offset alone.
LEMMA CursorSame ==
  ASSUME reg' = reg, at' = at, offset' = offset PROVE Cursor' = Cursor
BY DEF Cursor

LEMMA IdleSame ==
  ASSUME reg' = reg, at = "idle", at' = "idle" PROVE Cursor' = Cursor
BY DEF Cursor

LEMMA StepSteady ==
  ASSUME TypeOK, Planned, Steady, Next, Planned'
  PROVE  Steady'
<1> SUFFICES ASSUME ~ torn' PROVE Steady'
  BY DEF Steady
<1>1. ~ torn
  BY DEF Next, get_cursor, set_cursor, Select, In, Out, print_char, push_row, print_ok,
         draw_panic_screen, clear_bss, idt_init, Work, Tick, Silent, Prints, Iret, keyboard_handler, handler
<1>2. /\ ~ stray /\ (frame # <<>> => frame[2] = "idle") /\ Cursor \in Cells
      /\ attempt_stack[0] \in 0 .. MAX_ROWS - 1
      /\ attempt_stack \in [0 .. StackSize - 1 -> Nat] /\ 0 \in 0 .. StackSize - 1
  BY <1>1, ScreenAssumption DEF Steady, TypeOK
<1>3. CASE get_cursor \/ set_cursor
  BY <1>1, <1>3, PortsKeep
<1>4. CASE print_char
  <2>1. at' = "set" /\ stray' = stray /\ Cursor' \in Cells
    BY <1>1, <1>4, PrintCharIs
  <2>2. frame' = frame /\ attempt_stack' = attempt_stack
    BY <1>4 DEF print_char, handler
  <2> QED
    BY <1>2, <2>1, <2>2 DEF Steady
<1>5. CASE push_row
  <2>1. /\ at = "read14" /\ at' = "idle" /\ reg' = reg /\ UNCHANGED <<stray, frame>>
        /\ attempt_stack' = [attempt_stack EXCEPT ![stack_idx] = offset \div (2 * MAX_COLS)]
        /\ stack_idx' = stack_idx + 1
    BY <1>5 DEF push_row, port, handler
  <2>2. Cursor' = Cursor
    BY <2>1 DEF Cursor
  <2>3. offset = 2 * Cursor /\ stack_idx = 0
    BY <1>1, <2>1 DEF Steady, Planned
  <2>4. offset \div (2 * MAX_COLS) = Cursor \div MAX_COLS
    BY <1>2, <2>3, Sizes, Halves
  <2>5. attempt_stack'[0] \in 0 .. MAX_ROWS - 1
    BY <1>2, <2>1, <2>3, <2>4, PlaceOf
  <2> QED
    BY <1>2, <2>1, <2>2, <2>5 DEF Steady
<1>6. CASE print_ok
  <2>1. /\ at = "idle" /\ at' = "idle" /\ reg' = reg /\ UNCHANGED <<frame, attempt_stack>>
        /\ stack_idx' = stack_idx - 1
        /\ print_char_loc("K", 1, attempt_stack[stack_idx - 1])
    BY <1>6 DEF print_ok, Popped, Does, port, handler
  <2>2. stack_idx = 1
    BY <2>1 DEF Planned
  <2>3. attempt_stack[stack_idx - 1] \in 0 .. MAX_ROWS - 1 /\ 1 \in 0 .. MAX_COLS - 1
    BY <1>2, <2>2, Sizes
  <2>4. get_screen_offset(1, attempt_stack[stack_idx - 1]) \div 2 \in Cells
    BY <2>3, LocIs
  <2>5. stray' = stray
    BY <2>1, <2>4 DEF print_char_loc
  <2> QED
    BY <1>2, <2>1, <2>5, IdleSame DEF Steady
<1>7. CASE draw_panic_screen
  <2>1. at' = "set" /\ offset' = 0 /\ UNCHANGED <<stray, frame, attempt_stack>>
    <3>1. get_screen_offset(0, 0) = 0
      BY Sizes DEF get_screen_offset
    <3> QED
      BY <1>7, <3>1 DEF draw_panic_screen, handler, attempts
  <2>2. Cursor' = 0
    BY <2>1 DEF Cursor
  <2> QED
    BY <1>2, <2>1, <2>2, Sizes DEF Steady
<1>8. CASE clear_bss \/ idt_init \/ Work
  <2>1. at = "idle" /\ at' = "idle" /\ reg' = reg /\ UNCHANGED <<stray, frame, attempt_stack>>
    BY <1>8 DEF clear_bss, Cleared, idt_init, Work, Does, port, handler, attempts
  <2> QED
    BY <1>2, <2>1, IdleSame DEF Steady
<1>9. CASE Tick
  <2>1. CASE Silent
    <3>1. UNCHANGED <<ctrl, reg, attempt_stack, frame, at, offset, stray>>
      BY <1>9, <2>1 DEF Tick, Silent, port, attempts
    <3>2. Cursor' = Cursor
      BY <3>1, CursorSame
    <3> QED
      BY <1>1, <3>1, <3>2 DEF Steady
  <2>2. CASE Prints
    <3>1. /\ at = "idle" /\ at' = "idle" /\ frame' = <<todo, at, offset>>
          /\ UNCHANGED <<reg, attempt_stack, stray>>
      BY <1>9, <2>2 DEF Tick, Prints, port, attempts
    <3>2. frame'[2] = "idle"
      BY <3>1
    <3> QED
      BY <1>2, <3>1, <3>2, IdleSame DEF Steady
  <2> QED
    BY <1>9, <2>1, <2>2 DEF Tick
<1>10. CASE Iret
  <2>1. /\ at = "idle" /\ at' = frame[2] /\ frame' = <<>> /\ todo # <<>> /\ Head(todo) = "iret"
        /\ UNCHANGED <<reg, attempt_stack, stray>>
    BY <1>10 DEF Iret, Does, Ready, port, attempts
  <2>2. frame # <<>>
    <3> SUFFICES ASSUME frame = <<>> PROVE FALSE
      OBVIOUS
    <3>1. Lacks(todo, "iret") /\ todo \in Seq(Items)
      BY DEF Planned, Main, TypeOK
    <3> QED
      BY <2>1, <3>1, LacksRest
  <2>3. at' = "idle"
    BY <1>2, <2>1, <2>2
  <2> QED
    BY <1>2, <2>1, <2>3, IdleSame DEF Steady
<1>11. CASE keyboard_handler
  <2>1. /\ UNCHANGED <<ctrl, reg, attempt_stack, frame, at, offset>>
        /\ print_char_loc("k", 0, 0)
    BY <1>11 DEF keyboard_handler, port, attempts, handler
  <2>2. get_screen_offset(0, 0) \div 2 \in Cells
    BY LocIs, Sizes
  <2>3. stray' = stray
    BY <2>1, <2>2 DEF print_char_loc
  <2>4. Cursor' = Cursor
    BY <2>1, CursorSame
  <2> QED
    BY <1>1, <2>1, <2>3, <2>4 DEF Steady
<1> QED
  BY <1>3, <1>4, <1>5, <1>6, <1>7, <1>8, <1>9, <1>10, <1>11 DEF Next
-------------------------------------------------------------------------------
(* The bracket of an attempt. *)

\* Before the bracket and its line end no push_row is near.
LEMMA FarPush ==
  ASSUME NEW q \in Seq(Items), q # <<>>, Bracketed(q),
         NEW j \in DOMAIN q, q[j] = "push_row"
  PROVE  /\ j \in Nat
         /\ j = 2 => Head(q) = "blank"
         /\ j = 3 => Head(q) = "bracket"
         /\ j = 4 => Head(q) = "NL"
<1>1. j \in Nat /\ Head(q) = q[1]
  BY Rest
<1>2. /\ j > 1 => q[j - 1] = "blank"
      /\ j > 2 => q[j - 2] = "bracket"
      /\ j > 3 => q[j - 3] = "NL"
  BY DEF Bracketed
<1>3. ASSUME j = 2 PROVE q[1] = "blank"
  <2>1. q[2 - 1] = "blank"
    BY <1>2, <1>3
  <2> QED
    BY <2>1
<1>4. ASSUME j = 3 PROVE q[1] = "bracket"
  <2>1. q[3 - 2] = "bracket"
    BY <1>2, <1>4
  <2> QED
    BY <2>1
<1>5. ASSUME j = 4 PROVE q[1] = "NL"
  <2>1. q[4 - 3] = "NL"
    BY <1>2, <1>5
  <2> QED
    BY <2>1
<1> QED
  BY <1>1, <1>3, <1>4, <1>5

\* The first thing is done and was no part of a bracket: no push_row is near.
LEMMA NoPushNear ==
  ASSUME NEW q \in Seq(Items), q # <<>>, Bracketed(q),
         Head(q) \notin {"blank", "bracket", "NL"}, NEW k \in {1, 2, 3}
  PROVE  /\ ~ (k + 1 \in DOMAIN q /\ q[k + 1] = "push_row")
         /\ ~ (k \in DOMAIN Tail(q) /\ Tail(q)[k] = "push_row")
<1>1. ASSUME k + 1 \in DOMAIN q, q[k + 1] = "push_row" PROVE FALSE
  BY <1>1, FarPush
<1>2. k \in DOMAIN Tail(q) => k + 1 \in DOMAIN q /\ Tail(q)[k] = q[k + 1]
  BY Rest
<1> QED
  BY <1>1, <1>2

\* No push_row is near: there is nothing to ask of the cursor.
LEMMA BegunIs ==
  ASSUME \A k \in {1, 2, 3} : ~ PushIn(k)' PROVE Begun'
BY DEF Begun

LEMMA StepBegun ==
  ASSUME TypeOK, Planned, Steady, Begun, Next, Planned', Steady'
  PROVE  Begun'
<1> SUFFICES ASSUME ~ torn', ~ irq', frame' = <<>> PROVE Begun'
  BY DEF Begun
<1>0. todo \in Seq(Items)
  BY DEF TypeOK
<1>1. ~ torn /\ ~ irq /\ frame = <<>>
  <2>1. ~ torn
    BY DEF Next, get_cursor, set_cursor, Select, In, Out, print_char, push_row, print_ok,
           draw_panic_screen, clear_bss, idt_init, Work, Tick, Silent, Prints, Iret, keyboard_handler, handler
  <2>2. ~ Iret /\ ~ idt_init
    BY DEF Iret, idt_init
  <2>3. frame' # <<>> \/ ~ Tick \/ irq'
    <3> SUFFICES ASSUME Tick, Prints PROVE frame' # <<>>
      BY DEF Tick, Silent
    <3>1. frame' = <<todo, at, offset>>
      BY DEF Prints
    <3> QED
      BY <3>1
  <2> QED
    BY <2>1, <2>2, <2>3 DEF Next, get_cursor, set_cursor, Select, In, Out, print_char,
           push_row, print_ok, draw_panic_screen, clear_bss, Work, keyboard_handler, handler
<1>2. Main = todo /\ Bracketed(todo)
  BY <1>1 DEF Main, Planned, Script
<1>3. /\ PushIn(3) => Behind(0)
      /\ PushIn(2) => Behind(1)
      /\ PushIn(1) => Behind(2)
  BY <1>1 DEF Begun
<1>4. ASSUME NEW k \in {0, 1, 2}, Cursor' = Cursor, vidmem' = vidmem, Behind(k)
      PROVE  Behind(k)'
  BY <1>4 DEF Behind
<1>5. CASE get_cursor \/ set_cursor
  <2>1. Cursor' = Cursor /\ vidmem' = vidmem
    BY <1>1, <1>5, PortsKeep
  <2>2. ASSUME NEW k \in {1, 2, 3}, PushIn(k)' PROVE PushIn(k)
    <3>1. CASE Out("out15", "idle", CharOffset(offset))
      <4>1. at = "out15" /\ at' = "idle" /\ todo' = Tail(todo) /\ todo # <<>>
        BY <3>1 DEF Out, Steps, Ready
      <4>2. k \in DOMAIN Tail(todo) /\ Tail(todo)[k] = "push_row"
        BY <2>2, <4>1 DEF PushIn, Setting
      <4>3. k + 1 \in DOMAIN todo /\ todo[k + 1] = "push_row"
        BY <1>0, <4>1, <4>2, Rest
      <4> QED
        BY <4>1, <4>3 DEF PushIn, Setting
    <3>2. CASE ~ Out("out15", "idle", CharOffset(offset))
      <4>1. todo' = todo /\ (at \in Setting <=> at' \in Setting)
        BY <1>5, <3>2 DEF get_cursor, set_cursor, Select, In, Out, Steps, Setting
      <4> QED
        BY <2>2, <4>1 DEF PushIn
    <3> QED
      BY <3>1, <3>2
  <2> QED
    BY <1>3, <1>4, <2>1, <2>2 DEF Begun
<1>6. CASE print_char
  <2>1. /\ at' = "set" /\ Cursor \in Cells
        /\ \/ Head(todo) \in Chars /\ CharDrawn(Head(todo))
           \/ Head(todo) = "NL" /\ LineDrawn(Cursor \div MAX_COLS)
    BY <1>1, <1>6, PrintCharIs
  <2>2. at = "read14" /\ todo' = todo /\ todo # <<>>
    BY <1>6 DEF print_char, Ready
  <2>3. \A k \in {1, 2, 3} : PushIn(k)' => k + 1 \in DOMAIN todo /\ todo[k + 1] = "push_row"
    BY <2>1, <2>2 DEF PushIn, Setting
  <2>5. vidmem \in [Cells -> Chars \cup {ZERO}] /\ "NL" \notin Chars
    BY DEF TypeOK, Chars
  <2>6. ASSUME PushIn(3)' PROVE Behind(0)'
    <3>1. 4 \in DOMAIN todo /\ todo[4] = "push_row"
      <4>1. 3 + 1 \in DOMAIN todo /\ todo[3 + 1] = "push_row"
        BY <2>3, <2>6
      <4> QED
        BY <4>1
    <3>2. Head(todo) = "NL"
      BY <1>0, <1>2, <2>2, <3>1, FarPush
    <3>3. PICK a \in 0 .. MAX_ROWS - 1 : a = Cursor \div MAX_COLS
      BY <2>1, PlaceOf
    <3>4. LineDrawn(a)
      BY <2>1, <2>5, <3>2, <3>3
    <3>5. PICK r \in 0 .. MAX_ROWS - 1 : Cursor' = r * MAX_COLS
      BY <3>3, <3>4 DEF LineDrawn
    <3>6. Cursor' = r * MAX_COLS + 0
      BY <3>5, RowStart
    <3> QED
      BY <3>6 DEF Behind
  <2>7. ASSUME NEW r \in 0 .. MAX_ROWS - 1, NEW k \in {0, 1}, Cursor = r * MAX_COLS + k,
               Head(todo) \in Chars, CharDrawn(Head(todo))
        PROVE  Cursor' = r * MAX_COLS + (k + 1) /\ vidmem' = [vidmem EXCEPT ![Cursor] = Head(todo)]
    <3>1. k + 1 \in 0 .. MAX_COLS - 1
      BY Sizes
    <3>2. r * MAX_COLS + (k + 1) \in Cells
      BY <3>1, CellAt
    <3>3. PICK h \in Nat : h = r * MAX_COLS
      BY RowStart
    <3>4. Cursor = h + k /\ h + (k + 1) \in Cells
      BY <2>7, <3>2, <3>3
    <3>5. Cursor + 1 = h + (k + 1)
      BY <3>4
    <3>6. Cursor + 1 # MAX_ROWS * MAX_COLS
      BY <3>4, <3>5, Sizes DEF Cells
    <3>7. Cursor' = Cursor + 1 /\ vidmem' = [vidmem EXCEPT ![Cursor] = Head(todo)]
      BY <2>7, <3>6 DEF CharDrawn, Stays
    <3> QED
      BY <3>3, <3>5, <3>7
  <2>8. ASSUME PushIn(2)' PROVE Behind(1)'
    <3>1. 3 \in DOMAIN todo /\ todo[3] = "push_row"
      <4>1. 2 + 1 \in DOMAIN todo /\ todo[2 + 1] = "push_row"
        BY <2>3, <2>8
      <4> QED
        BY <4>1
    <3>2. Head(todo) = "bracket"
      BY <1>0, <1>2, <2>2, <3>1, FarPush
    <3>3. Behind(0)
      <4>1. PushIn(3)
        BY <2>2, <3>1 DEF PushIn, Setting
      <4> QED
        BY <4>1, <1>3
    <3>4. PICK r \in 0 .. MAX_ROWS - 1 : Cursor = r * MAX_COLS + 0
      BY <3>3 DEF Behind
    <3>5. Head(todo) \in Chars /\ CharDrawn(Head(todo))
      BY <2>1, <3>2
    <3>6. Cursor' = r * MAX_COLS + (0 + 1) /\ vidmem' = [vidmem EXCEPT ![Cursor] = Head(todo)]
      BY <2>7, <3>4, <3>5
    <3>7. Cursor = r * MAX_COLS
      BY <3>4, RowStart
    <3>8. vidmem'[r * MAX_COLS] = "bracket"
      BY <2>1, <2>5, <3>2, <3>6, <3>7
    <3>9. Cursor' = r * MAX_COLS + 1
      BY <3>6
    <3> QED
      BY <3>8, <3>9 DEF Behind
  <2>9. ASSUME PushIn(1)' PROVE Behind(2)'
    <3>1. 2 \in DOMAIN todo /\ todo[2] = "push_row"
      <4>1. 1 + 1 \in DOMAIN todo /\ todo[1 + 1] = "push_row"
        BY <2>3, <2>9
      <4> QED
        BY <4>1
    <3>2. Head(todo) = "blank"
      BY <1>0, <1>2, <2>2, <3>1, FarPush
    <3>3. Behind(1)
      <4>1. PushIn(2)
        BY <2>2, <3>1 DEF PushIn, Setting
      <4> QED
        BY <4>1, <1>3
    <3>4. PICK r \in 0 .. MAX_ROWS - 1 : Cursor = r * MAX_COLS + 1 /\ vidmem[r * MAX_COLS] = "bracket"
      BY <3>3 DEF Behind
    <3>5. Head(todo) \in Chars /\ CharDrawn(Head(todo))
      BY <2>1, <3>2
    <3>6. Cursor' = r * MAX_COLS + (1 + 1) /\ vidmem' = [vidmem EXCEPT ![Cursor] = Head(todo)]
      BY <2>7, <3>4, <3>5
    <3>7. Cursor # r * MAX_COLS /\ r * MAX_COLS \in Cells
      BY <3>4, RowStart
    <3>8. vidmem'[r * MAX_COLS] = "bracket"
      BY <2>5, <3>4, <3>6, <3>7
    <3>9. Cursor' = r * MAX_COLS + 2
      BY <3>6
    <3> QED
      BY <3>8, <3>9 DEF Behind
  <2> QED
    BY <2>6, <2>8, <2>9 DEF Begun
<1>7. CASE push_row \/ print_ok \/ clear_bss
  <2>1. /\ at' = "idle" /\ todo' = Tail(todo) /\ todo # <<>>
        /\ Head(todo) \notin {"blank", "bracket", "NL"}
    BY <1>7 DEF push_row, print_ok, clear_bss, Does, Ready
  <2>2. \A k \in {1, 2, 3} : ~ PushIn(k)'
    BY <1>0, <1>2, <2>1, NoPushNear DEF PushIn, Setting
  <2> QED
    BY <2>2, BegunIs
<1>8. CASE draw_panic_screen
  <2>1. /\ at' = "set" /\ todo' = todo /\ todo # <<>>
        /\ Head(todo) \notin {"blank", "bracket", "NL"}
    BY <1>8 DEF draw_panic_screen, Does, Ready
  <2>2. \A k \in {1, 2, 3} : ~ PushIn(k)'
    BY <1>0, <1>2, <2>1, NoPushNear DEF PushIn, Setting
  <2> QED
    BY <2>2, BegunIs
<1>9. CASE Work
  <2>1. /\ at' = "idle" /\ todo # <<>> /\ Head(todo) = "work"
        /\ todo' = println \o todo \/ todo' = PANIC \/ todo' = Tail(todo)
    BY <1>9 DEF Work, Does, Ready
  <2>2. CASE todo' = println \o todo
    <3>1. Script(todo, stack_idx) /\ stack_idx \in {0, 1}
      BY <1>2 DEF Planned
    <3>2. \A k \in 1 .. 5 : k \in DOMAIN (println \o todo) => (println \o todo)[k] # "push_row"
      BY <1>0, <2>1, <3>1, ScriptPrint
    <3>3. \A k \in {1, 2, 3} : ~ PushIn(k)'
      BY <2>1, <2>2, <3>2 DEF PushIn, Setting
    <3> QED
      BY <3>3, BegunIs
  <2>3. CASE todo' = PANIC
    <3>1. \A k \in {1, 2, 3} : ~ PushIn(k)'
      BY <2>1, <2>3, PanicScript DEF PushIn, Setting, Lacks
    <3> QED
      BY <3>1, BegunIs
  <2>4. CASE todo' = Tail(todo)
    <3>1. \A k \in {1, 2, 3} : ~ PushIn(k)'
      BY <1>0, <1>2, <2>1, <2>4, NoPushNear DEF PushIn, Setting
    <3> QED
      BY <3>1, BegunIs
  <2> QED
    BY <2>1, <2>2, <2>3, <2>4
<1>10. ~ idt_init /\ ~ Tick /\ ~ Iret /\ ~ keyboard_handler
  BY <1>1 DEF idt_init, Tick, Iret, keyboard_handler
<1> QED
  BY <1>5, <1>6, <1>7, <1>8, <1>9, <1>10 DEF Next

\* The row of an open attempt is on the screen, or has scrolled off it.
LEMMA RowOn ==
  ASSUME TypeOK, Steady, ~torn, Row >= 0
  PROVE  /\ Row \in 0 .. MAX_ROWS - 1 /\ scrolled < MAX_ROWS
         /\ Row * MAX_COLS \in Cells /\ Row * MAX_COLS \in Nat
         /\ Row > 0 => Row * MAX_COLS # 0
<1>1. attempt_stack[0] \in 0 .. MAX_ROWS - 1 /\ scrolled \in 0 .. MAX_ROWS
  BY DEF Steady, TypeOK
<1>2. Row \in 0 .. MAX_ROWS - 1 /\ scrolled < MAX_ROWS
  BY <1>1, Sizes DEF Row
<1>3. PICK r \in 0 .. MAX_ROWS - 1 : r = Row
  BY <1>2
<1>4. r > 0 => r * MAX_COLS # 0
  BY <1>3, Sizes
<1> QED
  BY <1>2, <1>3, <1>4, RowStart

\* The bracket stays where it is, on the screen and before the cursor.
LEMMA KeptBy ==
  ASSUME Kept, UNCHANGED <<vidmem, attempt_stack, scrolled, stack_idx>>, Cursor' = Cursor,
         torn' \/ ~torn, ~ Lacks(Main, "push_row")' => ~ Lacks(Main, "push_row")
  PROVE  Kept'
<1>1. Row' = Row
  BY DEF Row
<1> QED
  BY <1>1 DEF Kept

LEMMA KeptPrint ==
  ASSUME TypeOK, Planned, Steady, Kept, ~torn, print_char
  PROVE  Kept'
<1>1. /\ at' = "set" /\ Cursor \in Cells
      /\ \/ Head(todo) \in Chars /\ CharDrawn(Head(todo))
         \/ Head(todo) = "NL" /\ LineDrawn(Cursor \div MAX_COLS)
  BY PrintCharIs
<1>2. UNCHANGED <<attempt_stack, stack_idx, torn, Main>>
  BY DEF print_char, handler, Main
<1> SUFFICES ASSUME stack_idx = 1, ~ Lacks(Main, "push_row"), Row' >= 0
             PROVE  /\ Cursor' > Row' * MAX_COLS
                    /\ vidmem'[Row' * MAX_COLS] = "bracket" \/ (Row' = 0 /\ vidmem'[0] = "k")
  BY <1>2 DEF Kept, Lacks
<1>3. attempt_stack[0] \in 0 .. MAX_ROWS - 1 /\ scrolled \in 0 .. MAX_ROWS
  BY DEF Steady, TypeOK
<1>4. scrolled' = scrolled \/ scrolled' = (IF scrolled < MAX_ROWS THEN scrolled + 1 ELSE scrolled)
  BY <1>1 DEF CharDrawn, LineDrawn, Stays, Scrolls
<1>5. Row >= 0 /\ scrolled < MAX_ROWS
  BY <1>2, <1>3, <1>4, Sizes DEF Row
<1>6. PICK r \in 0 .. MAX_ROWS - 1 : r = Row /\ r * MAX_COLS \in Cells
  BY <1>5, RowOn
<1>7. Cursor > r * MAX_COLS /\ (vidmem[r * MAX_COLS] = "bracket" \/ (r = 0 /\ vidmem[0] = "k"))
  BY <1>5, <1>6 DEF Kept
<1>8. PICK h \in Nat : h = r * MAX_COLS /\ h \in Cells
  BY <1>6, RowStart
<1>9. PICK c \in Cells : c = Cursor /\ c \in Nat /\ c > h
  BY <1>1, <1>7, <1>8, Sizes
<1>10. PICK v \in [Cells -> Chars \cup {ZERO}] :
         /\ v[h] = vidmem[h]
         /\ r = 0 => v[0] = vidmem[0]
         /\ \/ /\ Stays(v) /\ Cursor' > h
            \/ /\ Scrolls(v) /\ Cursor' \in Nat
               /\ Cursor' >= h + 1 - MAX_COLS
               /\ r > 0 => Cursor' > h - MAX_COLS
  <2>0. vidmem \in [Cells -> Chars \cup {ZERO}] /\ MAX_COLS \in Nat
    BY Sizes DEF TypeOK
  <2>1. CASE Head(todo) \in Chars /\ CharDrawn(Head(todo))
    <3>1. PICK v : v = [vidmem EXCEPT ![c] = Head(todo)]
      OBVIOUS
    <3>2. v \in [Cells -> Chars \cup {ZERO}] /\ v[h] = vidmem[h]
      BY <1>8, <1>9, <2>0, <2>1, <3>1
    <3>3. r = 0 => h = 0
      BY <1>8, Sizes
    <3>4. \/ c + 1 \in Cells /\ Cursor' = c + 1 /\ Stays(v)
          \/ c + 1 = MAX_ROWS * MAX_COLS /\ Cursor' = c + 1 - MAX_COLS /\ Scrolls(v)
      BY <1>9, <2>1, <3>1 DEF CharDrawn
    <3>5. \/ Stays(v) /\ Cursor' > h
          \/ Scrolls(v) /\ Cursor' \in Nat /\ Cursor' >= h + 1 - MAX_COLS /\ Cursor' > h - MAX_COLS
      BY <1>8, <1>9, <2>0, <3>4, Sizes
    <3> QED
      BY <3>2, <3>3, <3>5
  <2>2. CASE LineDrawn(Cursor \div MAX_COLS)
    <3>1. PICK a \in 0 .. MAX_ROWS - 1, b \in 0 .. MAX_COLS - 1 :
            a = c \div MAX_COLS /\ c = a * MAX_COLS + b
      BY <1>9, PlaceOf
    <3>2. LineDrawn(a)
      BY <1>9, <2>2, <3>1
    <3>3. PICK g \in Nat : g = a * MAX_COLS /\ (a + 1) * MAX_COLS = g + MAX_COLS
      <4>1. a * MAX_COLS \in Nat
        BY <3>1, RowStart
      <4>2. (a + 1) * MAX_COLS = a * MAX_COLS + MAX_COLS
        BY <3>1, Sizes
      <4> QED
        BY <4>1, <4>2
    <3>4. h < g + MAX_COLS
      BY <1>8, <1>9, <3>1, <3>3, Sizes
    <3>5. \/ Stays(vidmem) /\ Cursor' = g + MAX_COLS
          \/ Scrolls(vidmem) /\ Cursor' = g /\ a = MAX_ROWS - 1
      BY <3>2, <3>3 DEF LineDrawn
    <3>6. h - MAX_COLS < g /\ g >= h + 1 - MAX_COLS
      BY <1>8, <2>0, <3>3, <3>4
    <3>7. \/ Stays(vidmem) /\ Cursor' > h
          \/ Scrolls(vidmem) /\ Cursor' \in Nat /\ Cursor' >= h + 1 - MAX_COLS /\ Cursor' > h - MAX_COLS
      BY <3>3, <3>4, <3>5, <3>6
    <3> QED
      BY <2>0, <3>7
  <2> QED
    BY <1>1, <2>1, <2>2
<1>11. CASE Stays(v) /\ Cursor' > h
  <2>1. Row' = r
    BY <1>2, <1>6, <1>11 DEF Row, Stays
  <2>2. vidmem' = v
    BY <1>11 DEF Stays
  <2> QED
    BY <1>7, <1>8, <1>10, <1>11, <2>1, <2>2
<1>12. CASE Scrolls(v) /\ Cursor' \in Nat /\ (r > 0 => Cursor' > h - MAX_COLS)
  <2>1. Row' = r - 1 /\ r > 0
    BY <1>2, <1>3, <1>5, <1>6, <1>12 DEF Row, Scrolls
  <2>2. PICK s \in 0 .. MAX_ROWS - 1 : s = r - 1
    BY <2>1, <1>6, Sizes
  <2>3. s * MAX_COLS \in Cells /\ s * MAX_COLS \in Nat
    BY RowStart
  <2>4. r * MAX_COLS = s * MAX_COLS + MAX_COLS
    <3>1. r = s + 1
      BY <1>6, <2>2
    <3> QED
      BY <3>1, <2>2, Sizes
  <2>5. PICK g \in Nat : g = s * MAX_COLS /\ g \in Cells /\ g + MAX_COLS = h
    BY <1>8, <2>3, <2>4
  <2>6. vidmem'[g] = v[h]
    BY <1>8, <1>12, <2>5 DEF Scrolls, Shuffled
  <2>7. v[h] = "bracket"
    BY <1>7, <1>8, <1>10, <2>1
  <2>8. Cursor' > g
    BY <1>12, <2>1, <2>5, Sizes
  <2> QED
    BY <2>1, <2>2, <2>5, <2>6, <2>7, <2>8
<1> QED
  BY <1>10, <1>11, <1>12

LEMMA StepKept ==
  ASSUME TypeOK, Planned, Steady, Begun, Kept, Next, Planned', Steady'
  PROVE  Kept'
<1> SUFFICES ASSUME ~ torn', stack_idx' = 1, ~ Lacks(Main, "push_row")' PROVE Kept'
  BY DEF Kept
<1>0. todo \in Seq(Items) /\ vidmem \in [Cells -> Chars \cup {ZERO}]
  BY DEF TypeOK
<1>1. ~ torn
  BY DEF Next, get_cursor, set_cursor, Select, In, Out, print_char, push_row, print_ok,
         draw_panic_screen, clear_bss, idt_init, Work, Tick, Silent, Prints, Iret, keyboard_handler, handler
<1>2. Cursor \in Cells /\ stack_idx \in {0, 1}
  BY <1>1 DEF Steady, Planned
<1>a. ASSUME frame' = frame, todo' = todo \/ (todo # <<>> /\ todo' = Tail(todo))
      PROVE  ~ Lacks(Main, "push_row")
  <2>1. CASE frame = <<>>
    <3>1. Main = todo /\ Main' = todo'
      BY <1>a, <2>1 DEF Main
    <3>2. ~ Lacks(todo', "push_row")
      BY <3>1
    <3>3. CASE todo' = todo
      BY <3>1, <3>2, <3>3
    <3>4. CASE todo # <<>> /\ todo' = Tail(todo)
      <4>1. ~ Lacks(Tail(todo), "push_row")
        BY <3>2, <3>4
      <4> QED
        BY <1>0, <3>1, <3>4, <4>1, LacksRest
    <3> QED
      BY <1>a, <3>3, <3>4
  <2>2. CASE frame # <<>>
    <3>1. Main' = Main
      BY <1>a, <2>2 DEF Main
    <3> QED
      BY <3>1 DEF Lacks
  <2> QED
    BY <2>1, <2>2
<1>3. CASE get_cursor \/ set_cursor
  <2>1. /\ Cursor' = Cursor /\ UNCHANGED <<vidmem, attempt_stack, stack_idx, scrolled, frame>>
    BY <1>1, <1>3, PortsKeep DEF attempts, handler
  <2>2. todo' = todo \/ (todo # <<>> /\ todo' = Tail(todo))
    BY <1>3 DEF get_cursor, set_cursor, Select, In, Out, Steps, Ready
  <2> QED
    BY <1>1, <1>a, <2>1, <2>2, KeptBy
<1>4. CASE print_char
  BY <1>1, <1>4, KeptPrint
<1>5. CASE push_row
  <2>1. /\ at = "read14" /\ at' = "idle" /\ todo # <<>> /\ Head(todo) = "push_row"
        /\ attempt_stack' = [attempt_stack EXCEPT ![stack_idx] = offset \div (2 * MAX_COLS)]
        /\ stack_idx' = stack_idx + 1 /\ scrolled' = 0 /\ todo' = Tail(todo)
        /\ UNCHANGED <<vidmem, reg, frame, irq>>
    BY <1>5 DEF push_row, Ready, port, handler
  <2>2. stack_idx = 0
    BY <1>2, <2>1
  <2>3. frame = <<>>
    <3> SUFFICES ASSUME todo \in {<<"NL", "s", "iret">>, <<"s", "iret">>, <<"iret">>}
                 PROVE  FALSE
      BY DEF Planned
    <3> QED
      BY <2>1
  <2>4. Main = todo /\ Main' = Tail(todo)
    BY <2>1, <2>3 DEF Main
  <2>5. ~ irq
    <3> SUFFICES ASSUME irq PROVE FALSE
      OBVIOUS
    <3>1. Lacks(todo, "idt_init") /\ Script(todo, stack_idx)
      BY <2>4 DEF Planned
    <3>2. Lacks(Tail(todo), "push_row")
      BY <1>0, <1>2, <2>1, <3>1, ScriptRest
    <3> QED
      BY <2>4, <3>2 DEF Lacks
  <2>6. PushIn(1)
    BY <1>0, <2>1, Rest DEF PushIn, Setting
  <2>7. PICK r \in 0 .. MAX_ROWS - 1 :
          Cursor = r * MAX_COLS + 2 /\ vidmem[r * MAX_COLS] = "bracket"
    BY <1>1, <2>3, <2>5, <2>6 DEF Begun, Behind
  <2>8. offset = 2 * Cursor /\ Cursor' = Cursor
    BY <1>1, <2>1 DEF Steady, Cursor
  <2>9. offset \div (2 * MAX_COLS) = r
    <3>1. offset \div (2 * MAX_COLS) = Cursor \div MAX_COLS
      BY <1>2, <2>8, Sizes, Halves
    <3>2. 2 \in 0 .. MAX_COLS - 1
      BY Sizes
    <3> QED
      BY <2>7, <3>1, <3>2, CellAt
  <2>10. attempt_stack'[0] = r
    <3>1. attempt_stack \in [0 .. StackSize - 1 -> Nat] /\ 0 \in 0 .. StackSize - 1
      BY ScreenAssumption DEF TypeOK
    <3> QED
      BY <2>1, <2>2, <2>9, <3>1
  <2>11. Row' = r
    BY <2>1, <2>10 DEF Row
  <2>12. Cursor' > r * MAX_COLS
    BY <2>7, <2>8, RowStart
  <2>13. vidmem'[r * MAX_COLS] = "bracket"
    BY <2>1, <2>7
  <2> QED
    BY <2>11, <2>12, <2>13 DEF Kept
<1>6. CASE print_ok
  <2>1. stack_idx' = stack_idx - 1
    BY <1>6 DEF print_ok, Popped
  <2> QED
    BY <1>2, <2>1
<1>7. CASE draw_panic_screen
  <2>1. /\ todo # <<>> /\ Head(todo) = "draw_panic_screen" /\ UNCHANGED <<todo, frame>>
    BY <1>7 DEF draw_panic_screen, Does, Ready, handler
  <2>2. frame = <<>>
    <3> SUFFICES ASSUME todo \in {<<"NL", "s", "iret">>, <<"s", "iret">>, <<"iret">>}
                 PROVE  FALSE
      BY DEF Planned
    <3> QED
      BY <2>1
  <2>3. ~ Lacks(todo, "draw_panic_screen")
    BY <1>0, <2>1, LacksRest
  <2>4. Main = todo /\ ~ Lacks(Main, "push_row")
    BY <1>a, <2>1, <2>2 DEF Main
  <2> QED
    BY <2>3, <2>4 DEF Planned
<1>8. CASE clear_bss \/ idt_init
  <2>1. /\ at = "idle" /\ at' = "idle" /\ todo # <<>> /\ todo' = Tail(todo)
        /\ UNCHANGED <<vidmem, reg, attempt_stack, stack_idx, scrolled, frame>>
    BY <1>8 DEF clear_bss, Cleared, idt_init, Does, Ready, port, handler, attempts
  <2> QED
    BY <1>1, <1>a, <2>1, IdleSame, KeptBy
<1>9. CASE Work
  <2>1. /\ at = "idle" /\ at' = "idle" /\ todo # <<>> /\ Head(todo) = "work"
        /\ todo' = println \o todo \/ todo' = PANIC \/ todo' = Tail(todo)
        /\ UNCHANGED <<vidmem, reg, attempt_stack, stack_idx, scrolled, frame>>
    BY <1>9 DEF Work, Does, Ready, port, handler, attempts
  <2>2. frame = <<>>
    <3> SUFFICES ASSUME todo \in {<<"NL", "s", "iret">>, <<"s", "iret">>, <<"iret">>}
                 PROVE  FALSE
      BY DEF Planned
    <3> QED
      BY <2>1
  <2>3. Main = todo /\ Main' = todo' /\ Script(todo, stack_idx)
    BY <2>1, <2>2 DEF Main, Planned
  <2>4. ~ Lacks(todo', "push_row")
    BY <2>3
  <2>5. ~ Lacks(todo, "push_row")
    <3>1. CASE todo' = println \o todo
      BY <1>0, <1>2, <2>1, <2>3, <2>4, <3>1, ScriptPrint
    <3>2. CASE todo' = PANIC
      BY <2>4, <3>2, PanicScript
    <3>3. CASE todo' = Tail(todo)
      BY <1>0, <2>1, <2>4, <3>3, LacksRest
    <3> QED
      BY <2>1, <3>1, <3>2, <3>3
  <2> QED
    BY <1>1, <2>1, <2>3, <2>5, IdleSame, KeptBy
<1>10. CASE Tick
  <2>1. UNCHANGED <<vidmem, reg, attempt_stack, stack_idx, scrolled>>
    BY <1>10 DEF Tick, port, attempts
  <2>2. CASE Silent
    <3>1. UNCHANGED <<todo, frame, at, offset>>
      BY <1>10, <2>2 DEF Tick, Silent
    <3> QED
      BY <1>1, <1>a, <2>1, <3>1, CursorSame, KeptBy
  <2>3. CASE Prints
    <3>1. /\ irq /\ frame' = <<todo, at, offset>> /\ at = "idle" /\ at' = "idle"
      BY <1>10, <2>3 DEF Tick, Prints
    <3>2. frame = <<>> /\ frame' # <<>> /\ frame'[1] = todo
      BY <3>1 DEF Planned
    <3>3. Main = todo /\ Main' = todo
      BY <3>2 DEF Main
    <3>4. ~ Lacks(Main, "push_row")
      BY <3>3 DEF Lacks
    <3> QED
      BY <1>1, <2>1, <3>1, <3>4, IdleSame, KeptBy
  <2> QED
    BY <1>10, <2>2, <2>3 DEF Tick
<1>11. CASE Iret
  <2>1. /\ at = "idle" /\ at' = frame[2] /\ todo' = frame[1] /\ frame' = <<>>
        /\ todo # <<>> /\ Head(todo) = "iret"
        /\ UNCHANGED <<vidmem, reg, attempt_stack, stack_idx, scrolled>>
    BY <1>11 DEF Iret, Does, Ready, port, attempts
  <2>2. frame # <<>>
    <3> SUFFICES ASSUME frame = <<>> PROVE FALSE
      OBVIOUS
    <3>1. Lacks(todo, "iret")
      BY DEF Planned, Main
    <3> QED
      BY <1>0, <2>1, <3>1, LacksRest
  <2>3. at' = "idle"
    BY <1>1, <2>1, <2>2 DEF Steady
  <2>4. Main' = Main
    BY <2>1, <2>2 DEF Main
  <2>5. ~ Lacks(Main, "push_row")
    BY <2>4 DEF Lacks
  <2> QED
    BY <1>1, <2>1, <2>3, <2>5, IdleSame, KeptBy
<1>12. CASE keyboard_handler
  <2>1. /\ UNCHANGED <<reg, attempt_stack, stack_idx, scrolled, todo, frame, at, offset>>
        /\ print_char_loc("k", 0, 0)
    BY <1>12 DEF keyboard_handler, port, attempts, handler
  <2>2. get_screen_offset(0, 0) \div 2 = 0
    BY Sizes DEF get_screen_offset
  <2>3. vidmem' = [vidmem EXCEPT ![0] = "k"]
    BY <2>1, <2>2, Sizes DEF print_char_loc
  <2>4. Cursor' = Cursor /\ Row' = Row /\ ~ Lacks(Main, "push_row")
    BY <1>a, <2>1, CursorSame DEF Row
  <2> SUFFICES ASSUME Row >= 0
               PROVE  /\ Cursor > Row * MAX_COLS
                      /\ vidmem'[Row * MAX_COLS] = "bracket" \/ (Row = 0 /\ vidmem'[0] = "k")
    BY <2>4 DEF Kept
  <2>5. /\ Cursor > Row * MAX_COLS
        /\ vidmem[Row * MAX_COLS] = "bracket" \/ (Row = 0 /\ vidmem[0] = "k")
    BY <1>1, <2>1, <2>4 DEF Kept
  <2>6. /\ Row \in 0 .. MAX_ROWS - 1 /\ Row * MAX_COLS \in Cells
        /\ Row > 0 => Row * MAX_COLS # 0
    BY <1>1, RowOn
  <2>7. CASE Row = 0
    <3>1. vidmem'[0] = "k"
      BY <1>0, <2>3, Sizes
    <3> QED
      BY <2>5, <2>7, <3>1
  <2>8. CASE Row > 0
    <3>1. vidmem'[Row * MAX_COLS] = vidmem[Row * MAX_COLS]
      BY <1>0, <2>3, <2>6, <2>8
    <3> QED
      BY <2>5, <2>6, <2>8, <3>1
  <2> QED
    BY <2>6, <2>7, <2>8
<1> QED
  BY <1>3, <1>4, <1>5, <1>6, <1>7, <1>8, <1>9, <1>10, <1>11, <1>12 DEF Next
-------------------------------------------------------------------------------
(* The invariant, and what follows from it. *)

LEMMA InitScreen == Init => ScreenInv
<1> SUFFICES ASSUME Init PROVE ScreenInv
  OBVIOUS
<1>1. /\ vidmem = [c \in Cells |-> ZERO] /\ ctrl = 15
      /\ attempt_stack = [i \in 0 .. StackSize - 1 |-> 0] /\ stack_idx = 0
      /\ ticks = 0 /\ irq = FALSE /\ frame = <<>>
      /\ todo = boot /\ at = "idle" /\ offset = 0
      /\ torn = FALSE /\ scrolled = 0 /\ stray = FALSE
  BY DEF Init
<1>2. PICK c \in Cells : reg = [r \in {14, 15} |-> IF r = 15 THEN c % Byte ELSE c \div Byte]
  BY DEF Init
<1>3. /\ reg[14] = LowByte(c \div Byte) /\ reg[15] = LowByte(c)
      /\ reg = [r \in {14, 15} |-> IF r = 15 THEN reg[15] ELSE reg[14]]
  <2>1. reg[14] = c \div Byte /\ reg[15] = c % Byte
    BY <1>2
  <2> QED
    BY <1>2, <2>1, TwoBytes DEF LowByte
<1>4. c \in Nat /\ c \div Byte \in Nat
  BY Sizes, Divided
<1>5. reg \in [{14, 15} -> 0 .. Byte - 1]
  <2>1. reg[14] \in 0 .. Byte - 1 /\ reg[15] \in 0 .. Byte - 1
    BY <1>3, <1>4, ByteTyped
  <2> QED
    BY <1>3, <2>1
<1>6. Cursor = c
  <2>1. Cursor = Byte * reg[14] + reg[15]
    BY <1>1 DEF Cursor
  <2>2. reg[14] = c \div Byte /\ reg[15] = LowByte(c)
    BY <1>3, TwoBytes
  <2> QED
    BY <2>1, <2>2, TwoBytes
<1>7. TypeOK
  <2>1. offset \in 0 .. Byte * Byte /\ ticks \in 0 .. Second - 1 /\ stack_idx \in 0 .. StackSize
    BY <1>1, Sizes, ScreenAssumption
  <2>2. scrolled \in 0 .. MAX_ROWS /\ Len(frame) \in {0, 3}
    BY <1>1, Sizes
  <2>3. vidmem \in [Cells -> Chars \cup {ZERO}] /\ attempt_stack \in [0 .. StackSize - 1 -> Nat]
    BY <1>1
  <2> QED
    BY <1>1, <1>5, <2>1, <2>2, <2>3, BootScript DEF TypeOK
<1>8. Planned
  <2>1. Main = boot /\ MainAt = "idle" /\ frame \in Frames
    BY <1>1 DEF Main, MainAt, Frames
  <2> QED
    BY <1>1, <2>1, BootScript DEF Planned, Middle
<1>9. Steady
  <2>1. attempt_stack[0] \in 0 .. MAX_ROWS - 1
    BY <1>1, Sizes, ScreenAssumption
  <2> QED
    BY <1>1, <1>6, <2>1 DEF Steady
<1>10. Begun
  <2>1. \A k \in {1, 2, 3} : ~ PushIn(k)
    BY <1>1, BootScript DEF PushIn, Setting
  <2> QED
    BY <2>1 DEF Begun
<1>11. Kept
  BY <1>1 DEF Kept
<1> QED
  BY <1>7, <1>8, <1>9, <1>10, <1>11 DEF ScreenInv

LEMMA NextScreen == ScreenInv /\ [Next]_vars => ScreenInv'
<1> SUFFICES ASSUME ScreenInv, [Next]_vars PROVE ScreenInv'
  OBVIOUS
<1>0. TypeOK /\ Planned /\ Steady /\ Begun /\ Kept
  BY DEF ScreenInv
<1>1. CASE Next
  <2>1. Planned' /\ todo' \in Seq(Items)
    BY <1>0, <1>1, PlannedPorts, PlannedSteps, PlannedHandler DEF Next, set_cursor
  <2>2. TypeOK'
    BY <1>0, <1>1, <2>1, StepType
  <2>3. Steady'
    BY <1>0, <1>1, <2>1, StepSteady
  <2>4. Begun'
    BY <1>0, <1>1, <2>1, <2>3, StepBegun
  <2>5. Kept'
    BY <1>0, <1>1, <2>1, <2>3, StepKept
  <2> QED
    BY <2>1, <2>2, <2>3, <2>4, <2>5 DEF ScreenInv
<1>2. CASE UNCHANGED vars
  <2>1. /\ UNCHANGED <<vidmem, ctrl, reg, attempt_stack, stack_idx, ticks, irq>>
        /\ UNCHANGED <<todo, at, offset, frame, torn, scrolled, stray>>
    BY <1>2 DEF vars, port, attempts, handler
  <2>2. TypeOK'
    BY <1>0, <2>1, Zenon DEF TypeOK
  <2>3. Main' = Main /\ MainAt' = MainAt /\ Cursor' = Cursor /\ Row' = Row
    BY <2>1 DEF Main, MainAt, Cursor, Row
  <2>4. Planned'
    BY <1>0, <2>1, <2>3 DEF Planned
  <2>5. Steady'
    BY <1>0, <2>1, <2>3 DEF Steady
  <2>6. Begun'
    BY <1>0, <2>1, <2>3 DEF Begun, PushIn, Behind
  <2>7. Kept'
    BY <1>0, <2>1, <2>3 DEF Kept
  <2> QED
    BY <2>2, <2>4, <2>5, <2>6, <2>7 DEF ScreenInv
<1> QED
  BY <1>1, <1>2

LEMMA SpecScreen == Spec => []ScreenInv
BY InitScreen, NextScreen, PTL DEF Spec

\* Types, for every screen: every pop_row finds the row of a push_row before it, so the
\* stack of attempts neither overflows nor underflows, and the offset print_char works
\* with fits in the two registers also when a handler has torn it.
THEOREM ScreenTypes == Spec => []TypeOK
<1>1. ScreenInv => TypeOK
  BY DEF ScreenInv
<1> QED
  BY <1>1, SpecScreen, PTL

\* An attempt that began with interrupts off keeps its row, and its bracket is there.
THEOREM AttemptKeepsRow == Spec => []AttemptMarked
<1>1. ScreenInv => AttemptMarked
  <2> SUFFICES ASSUME ScreenInv,
                      \E i, j \in DOMAIN Main :
                        /\ Main[i] = "print_ok" /\ i < j /\ Main[j] = "push_row"
                        /\ \A k \in 1 .. i - 1 : Main[k] # "push_row",
                      ~ torn
               PROVE  /\ stack_idx = 1
                      /\ Row >= 0 => \/ vidmem[Row * MAX_COLS] = "bracket"
                                     \/ Row = 0 /\ vidmem[0] = "k"
    BY DEF AttemptMarked, Main, Row
  <2>1. Main \in Seq(Items)
    BY MainTyped DEF ScreenInv
  <2>2. ~ Lacks(Main, "push_row")
    BY DEF Lacks
  <2>3. stack_idx = 1
    <3> SUFFICES ASSUME stack_idx = 0 PROVE FALSE
      BY DEF ScreenInv, Planned
    <3>1. After(Main, "print_ok", "push_row")
      BY DEF ScreenInv, Planned, Script, Balanced
    <3>2. PICK i \in DOMAIN Main : /\ Main[i] = "print_ok"
                                   /\ \A k \in 1 .. i - 1 : Main[k] # "push_row"
      OBVIOUS
    <3>3. PICK k \in DOMAIN Main : Main[k] = "push_row" /\ k < i
      BY <3>1, <3>2 DEF After
    <3>4. k \in 1 .. i - 1
      BY <2>1, <3>2, <3>3
    <3> QED
      BY <3>2, <3>3, <3>4
  <2> QED
    BY <2>2, <2>3 DEF ScreenInv, Kept
<1> QED
  BY <1>1, SpecScreen, PTL

\* As long as no handler has printed in the middle of a print_char, no character is
\* written outside the screen: the interleaving is the only way to it.
THEOREM StrayOnlyTorn == Spec => [](torn \/ WritesOnScreen)
<1>1. ScreenInv => torn \/ WritesOnScreen
  BY DEF ScreenInv, Steady, WritesOnScreen
<1> QED
  BY <1>1, SpecScreen, PTL
-------------------------------------------------------------------------------
(* The screen is a terminal. *)

Grid(v) ==
  [r \in 1 .. MAX_ROWS |-> [c \in 1 .. MAX_COLS |-> v[(r - 1) * MAX_COLS + c - 1]]]

\* The cell of a place of the grid.
LEMMA GridCell ==
  ASSUME NEW r \in 1 .. MAX_ROWS, NEW k \in 1 .. MAX_COLS
  PROVE  /\ (r - 1) * MAX_COLS + k - 1 \in Cells
         /\ ((r - 1) * MAX_COLS + k - 1) \div MAX_COLS = r - 1
         /\ ((r - 1) * MAX_COLS + k - 1) % MAX_COLS = k - 1
<1>1. PICK s \in 0 .. MAX_ROWS - 1, l \in 0 .. MAX_COLS - 1 : s = r - 1 /\ l = k - 1
  BY Sizes
<1>2. s * MAX_COLS \in Nat
  BY RowStart
<1>3. (r - 1) * MAX_COLS + k - 1 = s * MAX_COLS + l
  BY <1>1, <1>2
<1> QED
  BY <1>1, <1>3, CellAt

\* A place is where its cell is.
LEMMA GridPlace ==
  ASSUME NEW c \in Cells, NEW r \in 1 .. MAX_ROWS, NEW k \in 1 .. MAX_COLS
  PROVE  ((r - 1) * MAX_COLS + k - 1 = c) <=> (r = c \div MAX_COLS + 1 /\ k = (c % MAX_COLS) + 1)
<1>1. PICK a \in 0 .. MAX_ROWS - 1, b \in 0 .. MAX_COLS - 1 :
        a = c \div MAX_COLS /\ b = c % MAX_COLS /\ c = a * MAX_COLS + b
  BY PlaceOf
<1>2. PICK d : d = (r - 1) * MAX_COLS + k - 1
  OBVIOUS
<1>3. d \div MAX_COLS = r - 1 /\ d % MAX_COLS = k - 1
  BY <1>2, GridCell
<1>i. r \in Int /\ k \in Int /\ a \in Int /\ b \in Int
  BY Sizes
<1>4. ASSUME d = c PROVE r = a + 1 /\ k = b + 1
  <2>1. r - 1 = a /\ k - 1 = b
    BY <1>1, <1>3, <1>4, Zenon
  <2> QED
    BY <2>1, <1>i
<1>5. ASSUME r = a + 1, k = b + 1 PROVE d = c
  <2>1. r - 1 = a /\ k - 1 = b
    BY <1>i, <1>5
  <2>2. PICK h \in Nat : h = a * MAX_COLS
    BY <1>1, RowStart
  <2>3. d = h + k - 1
    BY <1>2, <2>1, <2>2, Zenon
  <2>4. d = h + b
    BY <2>3, <2>1, <2>2, <1>i
  <2>5. c = h + b
    BY <1>1, <2>2, Zenon
  <2> QED
    BY <2>4, <2>5, Zenon
<1> QED
  BY <1>1, <1>2, <1>4, <1>5

\* The row and the column of a cell, counted from 1.
PlacedAt(c, r, k) == r = c \div MAX_COLS + 1 /\ k = (c % MAX_COLS) + 1

Marked(g, r, k, ch) == [g EXCEPT ![r][k] = ch]
Drawn(v, c, ch) == [v EXCEPT ![c] = ch]

LEMMA GridPut ==
  ASSUME NEW v \in [Cells -> Chars \cup {ZERO}], NEW c \in Cells, NEW ch,
         NEW a, NEW b, PlacedAt(c, a, b)
  PROVE  /\ a \in 1 .. MAX_ROWS /\ b \in 1 .. MAX_COLS
         /\ Grid(Drawn(v, c, ch)) = Marked(Grid(v), a, b, ch)
<1>1. a \in 1 .. MAX_ROWS /\ b \in 1 .. MAX_COLS
  <2>1. PICK s \in 0 .. MAX_ROWS - 1, l \in 0 .. MAX_COLS - 1 :
          s = c \div MAX_COLS /\ l = c % MAX_COLS
    BY PlaceOf
  <2> QED
    BY <2>1, Sizes DEF PlacedAt
<1>2. PICK w : w = [v EXCEPT ![c] = ch]
  OBVIOUS
<1>3. ASSUME NEW r \in 1 .. MAX_ROWS, NEW k \in 1 .. MAX_COLS
      PROVE  Grid(w)[r][k] = IF r = a /\ k = b THEN ch ELSE Grid(v)[r][k]
  <2>1. PICK d \in Cells : d = (r - 1) * MAX_COLS + k - 1
    BY GridCell
  <2>2. Grid(w)[r][k] = w[d] /\ Grid(v)[r][k] = v[d]
    BY <2>1 DEF Grid
  <2>3. d = c <=> (r = a /\ k = b)
    BY <2>1, GridPlace DEF PlacedAt
  <2>4. w[d] = IF d = c THEN ch ELSE v[d]
    BY <1>2
  <2> QED
    BY <2>2, <2>3, <2>4
<1>4. PICK G, H : G = Grid(v) /\ H = Grid(w)
  OBVIOUS
<1>5. /\ DOMAIN G = 1 .. MAX_ROWS /\ DOMAIN H = 1 .. MAX_ROWS
      /\ G = [r \in 1 .. MAX_ROWS |-> G[r]] /\ H = [r \in 1 .. MAX_ROWS |-> H[r]]
      /\ \A r \in 1 .. MAX_ROWS : /\ G[r] = [k \in 1 .. MAX_COLS |-> G[r][k]]
                                  /\ H[r] = [k \in 1 .. MAX_COLS |-> H[r][k]]
  BY <1>4 DEF Grid
<1>6. H[a] = [G[a] EXCEPT ![b] = ch]
  BY <1>1, <1>3, <1>4, <1>5
<1>7. \A r \in 1 .. MAX_ROWS : r # a => H[r] = G[r]
  BY <1>3, <1>4, <1>5, ZenonT(30)
<1>8. H = [G EXCEPT ![a][b] = ch]
  BY <1>1, <1>5, <1>6, <1>7
<1> QED
  BY <1>1, <1>2, <1>4, <1>8, Zenon DEF Marked, Drawn

LEMMA GridSeq ==
  ASSUME NEW v \in [Cells -> Chars \cup {ZERO}]
  PROVE  /\ Grid(v) \in Seq(Seq(Chars \cup {ZERO})) /\ Len(Grid(v)) = MAX_ROWS
         /\ DOMAIN Grid(v) = 1 .. MAX_ROWS
<1>1. PICK X : X = Chars \cup {ZERO}
  OBVIOUS
<1>2. \A r \in 1 .. MAX_ROWS : Grid(v)[r] \in [1 .. MAX_COLS -> X]
  BY <1>1, GridCell DEF Grid
<1>3. ASSUME NEW r \in 1 .. MAX_ROWS PROVE Grid(v)[r] \in Seq(X)
  <2>1. MAX_COLS \in Nat
    BY Sizes
  <2>2. PICK f \in [1 .. MAX_COLS -> X] : f = Grid(v)[r]
    BY <1>2
  <2> QED
    BY <2>1, <2>2, IsSequence
<1>4. Grid(v) = [r \in 1 .. MAX_ROWS |-> Grid(v)[r]]
  BY DEF Grid
<1>5. PICK G, S : G = Grid(v) /\ S = Seq(X)
  OBVIOUS
<1>6. G \in [1 .. MAX_ROWS -> S]
  BY <1>2, <1>3, <1>4, <1>5
<1>7. MAX_ROWS \in Nat
  BY Sizes
<1>8. G \in Seq(S)
  BY <1>6, <1>7, IsSequence
<1>9. Len(G) = MAX_ROWS /\ DOMAIN G = 1 .. MAX_ROWS
  BY <1>6, <1>7, <1>8
<1> QED
  BY <1>1, <1>5, <1>8, <1>9

LEMMA GridShuffled ==
  ASSUME NEW v \in [Cells -> Chars \cup {ZERO}]
  PROVE  Grid(Shuffled(v)) = Append(Tail(Grid(v)), [c \in 1 .. MAX_COLS |-> ZERO])
<1>1. PICK G, H, E : /\ G = Grid(v) /\ H = Grid(Shuffled(v))
                     /\ E = [c \in 1 .. MAX_COLS |-> ZERO]
  OBVIOUS
<1>2. PICK S : G \in Seq(S) /\ Len(G) = MAX_ROWS /\ E \in S
  <2>1. G \in Seq(Seq(Chars \cup {ZERO})) /\ Len(G) = MAX_ROWS
    BY <1>1, GridSeq
  <2>2. E \in [1 .. MAX_COLS -> Chars \cup {ZERO}]
    BY <1>1
  <2>3. MAX_COLS \in Nat
    BY Sizes
  <2>4. E \in Seq(Chars \cup {ZERO})
    BY <2>2, <2>3, SeqDef, Zenon
  <2> QED
    BY <2>1, <2>4
<1>3. H = [r \in 1 .. MAX_ROWS |-> H[r]]
  BY <1>1 DEF Grid
<1>4. ASSUME NEW r \in 1 .. MAX_ROWS
      PROVE  H[r] = IF r < MAX_ROWS THEN G[r + 1] ELSE E
  <2>1. ASSUME NEW k \in 1 .. MAX_COLS
        PROVE  H[r][k] = IF r < MAX_ROWS THEN G[r + 1][k] ELSE ZERO
    <3>1. PICK d \in Cells : d = (r - 1) * MAX_COLS + k - 1
      BY GridCell
    <3>2. H[r][k] = IF d + MAX_COLS \in Cells THEN v[d + MAX_COLS] ELSE ZERO
      BY <1>1, <3>1 DEF Grid, Shuffled
    <3>3. d + MAX_COLS = ((r + 1) - 1) * MAX_COLS + k - 1
      <4>1. PICK s \in Nat : s = r - 1
        <5>1. r - 1 \in Nat
          BY Sizes
        <5> QED
          BY <5>1
      <4>2. (r + 1) - 1 = s + 1
        BY <4>1, Sizes
      <4>3. PICK C \in Nat : C = MAX_COLS
        BY Sizes
      <4>4. d = s * C + k - 1
        BY <3>1, <4>1, <4>3
      <4>5. (s + 1) * C + k - 1 = (s * C + k - 1) + C
        BY <4>1, <4>3, Sizes
      <4> QED
        BY <4>2, <4>3, <4>4, <4>5
    <3>4. CASE r < MAX_ROWS
      <4>1. r + 1 \in 1 .. MAX_ROWS
        BY <3>4, Sizes
      <4>2. d + MAX_COLS \in Cells
        BY <3>3, <4>1, GridCell
      <4>3. G[r + 1][k] = v[((r + 1) - 1) * MAX_COLS + k - 1]
        BY <1>1, <4>1 DEF Grid
      <4> QED
        BY <3>2, <3>3, <3>4, <4>2, <4>3
    <3>5. CASE r = MAX_ROWS
      <4>1. d + MAX_COLS \notin Cells
        <5>1. d + MAX_COLS = MAX_ROWS * MAX_COLS + k - 1
          <6>1. (r + 1) - 1 = MAX_ROWS
            BY <3>5, Sizes
          <6> QED
            BY <3>3, <6>1
        <5> QED
          BY <5>1, Sizes DEF Cells
      <4> QED
        BY <3>2, <3>5, <4>1, Sizes
    <3> QED
      BY <3>4, <3>5, Sizes
  <2>2. H[r] = [k \in 1 .. MAX_COLS |-> H[r][k]]
    BY <1>1 DEF Grid
  <2>3. CASE r < MAX_ROWS
    <3>1. r + 1 \in 1 .. MAX_ROWS
      BY <2>3, Sizes
    <3>2. G[r + 1] = [k \in 1 .. MAX_COLS |-> G[r + 1][k]]
      BY <1>1, <3>1 DEF Grid
    <3> QED
      BY <2>1, <2>2, <2>3, <3>2
  <2>4. CASE ~ (r < MAX_ROWS)
    BY <1>1, <2>1, <2>2, <2>4
  <2> QED
    BY <2>3, <2>4
<1>5. PICK T : T = Append(Tail(G), E)
  OBVIOUS
<1>6. /\ Tail(G) \in Seq(S) /\ Len(Tail(G)) = MAX_ROWS - 1
      /\ \A i \in 1 .. MAX_ROWS - 1 : Tail(G)[i] = G[i + 1]
  <2>1. G # <<>>
    BY <1>2, Sizes
  <2> QED
    BY <1>2, <2>1, Rest
<1>7. /\ T \in Seq(S) /\ Len(T) = MAX_ROWS
      /\ \A i \in 1 .. MAX_ROWS : T[i] = IF i < MAX_ROWS THEN G[i + 1] ELSE E
  <2>1. PICK U \in Seq(S) : U = Tail(G)
    BY <1>6
  <2>2. /\ T \in Seq(S) /\ Len(T) = Len(U) + 1
        /\ \A i \in 1 .. Len(U) : T[i] = U[i]
        /\ T[Len(U) + 1] = E
    BY <1>2, <1>5, <2>1
  <2>3. Len(U) = MAX_ROWS - 1
    BY <1>6, <2>1
  <2> QED
    BY <1>6, <2>1, <2>2, <2>3, Sizes
<1>8. T = [i \in 1 .. MAX_ROWS |-> T[i]]
  BY <1>7
<1>9. H = T
  BY <1>3, <1>4, <1>7, <1>8
<1> QED
  BY <1>1, <1>5, <1>9

\* The place behind a cell: in its row, at the start of the next one, or below the screen.
LEMMA NextPlace ==
  ASSUME NEW c \in Cells, NEW a \in 0 .. MAX_ROWS - 1, NEW b \in 0 .. MAX_COLS - 1,
         c = a * MAX_COLS + b
  PROVE  /\ b + 1 < MAX_COLS =>
              /\ c + 1 \in Cells
              /\ (c + 1) \div MAX_COLS = a /\ (c + 1) % MAX_COLS = b + 1
         /\ b + 1 = MAX_COLS /\ a + 1 < MAX_ROWS =>
              /\ c + 1 \in Cells
              /\ (c + 1) \div MAX_COLS = a + 1 /\ (c + 1) % MAX_COLS = 0
         /\ b + 1 = MAX_COLS /\ a + 1 = MAX_ROWS =>
              /\ c + 1 \notin Cells
              /\ (c + 1 - MAX_COLS) \div MAX_COLS = a /\ (c + 1 - MAX_COLS) % MAX_COLS = 0
<1>1. PICK h \in Nat : h = a * MAX_COLS
  BY RowStart
<1>i. MAX_ROWS \in Nat /\ MAX_COLS \in Nat /\ a \in Int /\ b \in Int /\ 0 \in 0 .. MAX_COLS - 1
  BY Sizes
<1>2. ASSUME b + 1 < MAX_COLS
      PROVE  /\ c + 1 \in Cells
             /\ (c + 1) \div MAX_COLS = a /\ (c + 1) % MAX_COLS = b + 1
  <2>1. b + 1 \in 0 .. MAX_COLS - 1
    BY <1>2, <1>i
  <2>2. c + 1 = a * MAX_COLS + (b + 1)
    BY <1>1, <1>i
  <2> QED
    BY <2>1, <2>2, CellAt
<1>3. ASSUME b + 1 = MAX_COLS, a + 1 < MAX_ROWS
      PROVE  /\ c + 1 \in Cells
             /\ (c + 1) \div MAX_COLS = a + 1 /\ (c + 1) % MAX_COLS = 0
  <2>1. a + 1 \in 0 .. MAX_ROWS - 1
    BY <1>3, <1>i
  <2>2. (a + 1) * MAX_COLS = h + MAX_COLS
    BY <1>1, <1>i
  <2>3. c + 1 = (a + 1) * MAX_COLS + 0
    BY <1>1, <1>3, <1>i, <2>2
  <2> QED
    BY <1>i, <2>1, <2>3, CellAt
<1>4. ASSUME b + 1 = MAX_COLS, a + 1 = MAX_ROWS
      PROVE  /\ c + 1 \notin Cells
             /\ (c + 1 - MAX_COLS) \div MAX_COLS = a /\ (c + 1 - MAX_COLS) % MAX_COLS = 0
  <2>1. c + 1 - MAX_COLS = a * MAX_COLS + 0
    BY <1>1, <1>4, <1>i
  <2>2. (a + 1) * MAX_COLS = h + MAX_COLS
    BY <1>1, <1>i
  <2>3. c + 1 = MAX_ROWS * MAX_COLS
    BY <1>1, <1>4, <1>i, <2>2
  <2>4. c + 1 \notin Cells
    BY <2>3, Sizes DEF Cells
  <2> QED
    BY <1>i, <2>1, <2>4, CellAt
<1> QED
  BY <1>2, <1>3, <1>4

\* The cursor's place on the terminal.
TermRow == (Cursor \div MAX_COLS) + 1
TermCol == (Cursor % MAX_COLS) + 1

\* The start of the next row, or of a new one at the bottom.
LEMMA NextRowIs ==
  ASSUME NEW v \in [Cells -> Chars \cup {ZERO}], TermRow \in Nat,
         TermCol' = 1,
         \/ TermRow < MAX_ROWS /\ TermRow' = TermRow + 1 /\ vidmem' = v
         \/ TermRow = MAX_ROWS /\ TermRow' = TermRow /\ vidmem' = Shuffled(v)
  PROVE  Abs!NextRow(Grid(v))
<1>1. /\ TermCol' = 1
      /\ IF TermRow < MAX_ROWS THEN TermRow' = TermRow + 1 /\ Grid(vidmem)' = Grid(v)
         ELSE /\ TermRow' = TermRow
              /\ Grid(vidmem)' = Append(Tail(Grid(v)), [c \in 1 .. MAX_COLS |-> ZERO])
  <2>1. CASE TermRow < MAX_ROWS
    <3>1. TermRow' = TermRow + 1 /\ vidmem' = v
      BY <2>1, Sizes
    <3> QED
      BY <2>1, <3>1 DEF Grid
  <2>2. CASE ~ (TermRow < MAX_ROWS)
    <3>1. TermRow' = TermRow /\ vidmem' = Shuffled(v)
      BY <2>2
    <3>2. Grid(vidmem)' = Grid(Shuffled(v))
      BY <3>1 DEF Grid
    <3> QED
      BY <2>2, <3>1, <3>2, GridShuffled
  <2> QED
    BY <2>1, <2>2
<1> QED
  BY <1>1, Zenon DEF Abs!NextRow, Abs!EmptyRow, Grid, TermRow, TermCol

\* print_char with a character puts it at the cursor, which goes on.
LEMMA PutIs ==
  ASSUME TypeOK, Cursor \in Cells, NEW ch \in Chars, CharDrawn(ch)
  PROVE  Abs!Put(ch)
<1>1. PICK c \in Cells, a \in 0 .. MAX_ROWS - 1, b \in 0 .. MAX_COLS - 1 :
        /\ c = Cursor /\ a = c \div MAX_COLS /\ b = c % MAX_COLS
        /\ c = a * MAX_COLS + b
  BY PlaceOf
<1>i. MAX_ROWS \in Nat /\ MAX_COLS \in Nat /\ a \in Nat /\ b \in Nat
  BY Sizes
<1>2. TermRow = a + 1 /\ TermCol = b + 1
  BY <1>1 DEF TermRow, TermCol
<1>3. PICK v : v = [vidmem EXCEPT ![c] = ch]
  OBVIOUS
<1>4. v \in [Cells -> Chars \cup {ZERO}]
  BY <1>1, <1>3 DEF TypeOK
<1>5. Grid(v) = [Grid(vidmem) EXCEPT ![TermRow][TermCol] = ch]
  <2>1. PICK w \in [Cells -> Chars \cup {ZERO}] : w = vidmem
    BY DEF TypeOK
  <2>2. PICK r, k : PlacedAt(c, r, k)
    BY DEF PlacedAt
  <2>3. r = TermRow /\ k = TermCol
    BY <1>1, <2>2, Zenon DEF TermRow, TermCol, PlacedAt
  <2>4. Grid(Drawn(w, c, ch)) = Marked(Grid(w), r, k, ch)
    BY <2>2, GridPut
  <2> QED
    BY <1>3, <2>1, <2>3, <2>4, Zenon DEF Marked, Drawn
<1>6. \/ c + 1 \in Cells /\ Cursor' = c + 1 /\ vidmem' = v
      \/ c + 1 \notin Cells /\ Cursor' = c + 1 - MAX_COLS /\ vidmem' = Shuffled(v)
  <2>1. c + 1 = MAX_ROWS * MAX_COLS => c + 1 \notin Cells
    BY Sizes DEF Cells
  <2> QED
    BY <1>1, <1>3, <2>1 DEF CharDrawn, Stays, Scrolls
<1>7. CASE b + 1 < MAX_COLS
  <2>1. Cursor' = c + 1 /\ vidmem' = v
    BY <1>1, <1>6, <1>7, NextPlace
  <2>2. (c + 1) \div MAX_COLS = a /\ (c + 1) % MAX_COLS = b + 1
    BY <1>1, <1>7, NextPlace
  <2>3. TermRow' = TermRow /\ TermCol' = TermCol + 1
    BY <1>2, <2>1, <2>2, Zenon DEF TermRow, TermCol
  <2>4. Grid(vidmem)' = Grid(v)
    BY <2>1 DEF Grid
  <2>5. TermCol < MAX_COLS
    BY <1>2, <1>7
  <2>6. Grid(vidmem)' = [Grid(vidmem) EXCEPT ![TermRow][TermCol] = ch]
    BY <1>5, <2>4
  <2> QED
    BY <2>3, <2>5, <2>6, Zenon DEF Abs!Put, Grid, TermRow, TermCol
<1>8. CASE b + 1 = MAX_COLS
  <2>1. TermCol' = 1 /\ \/ TermRow < MAX_ROWS /\ TermRow' = TermRow + 1 /\ vidmem' = v
                        \/ TermRow = MAX_ROWS /\ TermRow' = TermRow /\ vidmem' = Shuffled(v)
    <3>1. CASE a + 1 < MAX_ROWS
      <4>1. c + 1 \in Cells /\ (c + 1) \div MAX_COLS = a + 1 /\ (c + 1) % MAX_COLS = 0
        <5>1. c = a * MAX_COLS + b
          BY <1>1
        <5> QED
          BY <1>8, <3>1, <5>1, NextPlace
      <4>2. Cursor' = c + 1 /\ vidmem' = v
        BY <1>6, <4>1
      <4>3. TermRow' = TermRow + 1 /\ TermCol' = 0 + 1
        BY <1>2, <4>1, <4>2, Zenon DEF TermRow, TermCol
      <4> QED
        BY <1>2, <3>1, <4>2, <4>3
    <3>2. CASE a + 1 = MAX_ROWS
      <4>1. /\ c + 1 \notin Cells /\ (c + 1 - MAX_COLS) \div MAX_COLS = a
            /\ (c + 1 - MAX_COLS) % MAX_COLS = 0
        BY <1>1, <1>8, <3>2, NextPlace
      <4>2. Cursor' = c + 1 - MAX_COLS /\ vidmem' = Shuffled(v)
        BY <1>6, <4>1
      <4>3. TermRow' = TermRow /\ TermCol' = 0 + 1
        BY <1>2, <4>1, <4>2, Zenon DEF TermRow, TermCol
      <4> QED
        BY <1>2, <3>2, <4>2, <4>3
    <3> QED
      BY <1>1, <1>i, <3>1, <3>2
  <2>2. TermRow \in Nat
    BY <1>2, <1>i
  <2>3. Abs!NextRow(Grid(v))
    BY <1>4, <2>1, <2>2, NextRowIs
  <2>4. ~ (TermCol < MAX_COLS)
    BY <1>2, <1>8, <1>i
  <2>5. Abs!NextRow([Grid(vidmem) EXCEPT ![TermRow][TermCol] = ch])
    BY <1>5, <2>3, Zenon DEF Abs!NextRow
  <2> QED
    BY <2>4, <2>5 DEF Abs!Put, Grid, TermRow, TermCol
<1> QED
  BY <1>1, <1>i, <1>7, <1>8

\* print_char with '\n' goes to the start of the next row.
LEMMA NewLineIs ==
  ASSUME TypeOK, Cursor \in Cells, LineDrawn(Cursor \div MAX_COLS)
  PROVE  Abs!NewLine
<1>1. PICK a \in 0 .. MAX_ROWS - 1 : a = Cursor \div MAX_COLS
  BY PlaceOf
<1>i. MAX_ROWS \in Nat /\ MAX_COLS \in Nat /\ a \in Nat /\ 0 \in 0 .. MAX_COLS - 1
  BY Sizes
<1>2. TermRow = a + 1
  BY <1>1 DEF TermRow
<1>3. ASSUME NEW s \in 0 .. MAX_ROWS - 1, Cursor' = s * MAX_COLS
      PROVE  TermRow' = s + 1 /\ TermCol' = 1
  <2>1. PICK h \in Nat : h = s * MAX_COLS
    BY RowStart
  <2>2. s * MAX_COLS = s * MAX_COLS + 0
    BY <2>1
  <2>3. (s * MAX_COLS) \div MAX_COLS = s /\ (s * MAX_COLS) % MAX_COLS = 0
    BY <1>i, <2>2, CellAt
  <2>4. TermRow' = s + 1 /\ TermCol' = 0 + 1
    BY <1>3, <2>3, Zenon DEF TermRow, TermCol
  <2> QED
    BY <2>4
<1>4. TermCol' = 1 /\ \/ TermRow < MAX_ROWS /\ TermRow' = TermRow + 1 /\ vidmem' = vidmem
                      \/ TermRow = MAX_ROWS /\ TermRow' = TermRow /\ vidmem' = Shuffled(vidmem)
  <2>1. CASE a + 1 \in 0 .. MAX_ROWS - 1 /\ Cursor' = (a + 1) * MAX_COLS /\ Stays(vidmem)
    <3>1. TermRow' = (a + 1) + 1 /\ TermCol' = 1
      BY <1>3, <2>1
    <3> QED
      BY <1>2, <1>i, <2>1, <3>1 DEF Stays
  <2>2. CASE a = MAX_ROWS - 1 /\ Cursor' = a * MAX_COLS /\ Scrolls(vidmem)
    <3>1. TermRow' = a + 1 /\ TermCol' = 1
      BY <1>3, <2>2
    <3> QED
      BY <1>2, <1>i, <2>2, <3>1 DEF Scrolls
  <2> QED
    BY <1>1, <2>1, <2>2 DEF LineDrawn
<1>5. TermRow \in Nat
  BY <1>2, <1>i
<1>6. Abs!NextRow(Grid(vidmem))
  <2>1. PICK v : v = vidmem
    OBVIOUS
  <2>2. Abs!NextRow(Grid(v))
    BY <1>4, <1>5, <2>1, NextRowIs DEF TypeOK
  <2> QED
    BY <2>1, <2>2, Zenon DEF Abs!NextRow
<1> QED
  BY <1>6 DEF Abs!NewLine, Grid

\* print_char_loc leaves the cursor where it is.
LEMMA MarkIs ==
  ASSUME TypeOK, NEW r \in 0 .. MAX_ROWS - 1, NEW k \in 0 .. MAX_COLS - 1, NEW ch \in Chars,
         print_char_loc(ch, k, r), Cursor' = Cursor
  PROVE  Abs!Mark(r + 1, k + 1, ch) /\ r + 1 \in 1 .. MAX_ROWS /\ k + 1 \in 1 .. MAX_COLS
<1>1. PICK c \in Cells : c = r * MAX_COLS + k
  BY LocIs
<1>2. get_screen_offset(k, r) \div 2 = c
  BY <1>1, LocIs
<1>3. vidmem' = [vidmem EXCEPT ![c] = ch]
  BY <1>2 DEF print_char_loc
<1>4. c \div MAX_COLS = r /\ c % MAX_COLS = k
  BY <1>1, CellAt
<1>5. PICK v \in [Cells -> Chars \cup {ZERO}] : v = vidmem
  BY DEF TypeOK
<1>6. Grid([v EXCEPT ![c] = ch]) = [Grid(v) EXCEPT ![r + 1][k + 1] = ch]
  <2>1. PICK a, b : a = r + 1 /\ b = k + 1
    OBVIOUS
  <2>2. PlacedAt(c, a, b)
    BY <1>4, <2>1, Zenon DEF PlacedAt
  <2>3. Grid(Drawn(v, c, ch)) = Marked(Grid(v), a, b, ch)
    BY <2>2, GridPut
  <2> QED
    BY <2>1, <2>3, Zenon DEF Marked, Drawn
<1>7. Grid(vidmem)' = [Grid(vidmem) EXCEPT ![r + 1][k + 1] = ch]
  BY <1>3, <1>5, <1>6 DEF Grid
<1>8. TermRow' = TermRow /\ TermCol' = TermCol
  BY Zenon DEF TermRow, TermCol
<1>9. r + 1 \in 1 .. MAX_ROWS /\ k + 1 \in 1 .. MAX_COLS
  BY Sizes
<1> QED
  BY <1>7, <1>8, <1>9 DEF Abs!Mark, Grid, TermRow, TermCol

\* draw_panic_screen fills the screen and sets the cursor to its start.
LEMMA FillIs ==
  ASSUME draw_panic_screen PROVE Abs!Fill("space")
<1>1. at' = "set" /\ offset' = 0 /\ vidmem' = [c \in Cells |-> "space"]
  <2>1. get_screen_offset(0, 0) = 0
    BY Sizes DEF get_screen_offset
  <2> QED
    BY <2>1 DEF draw_panic_screen
<1>2. Cursor' = 0
  BY <1>1 DEF Cursor
<1>3. TermRow' = 1 /\ TermCol' = 1
  <2>1. 0 \div MAX_COLS = 0 /\ 0 % MAX_COLS = 0
    BY Sizes
  <2>2. TermRow' = 0 + 1 /\ TermCol' = 0 + 1
    BY <1>2, <2>1, Zenon DEF TermRow, TermCol
  <2> QED
    BY <2>2
<1>4. Grid(vidmem)' = [r \in 1 .. MAX_ROWS |-> [c \in 1 .. MAX_COLS |-> "space"]]
  BY <1>1, GridCell DEF Grid
<1> QED
  BY <1>3, <1>4 DEF Abs!Fill, Grid, TermRow, TermCol

\* What a terminal shows does not change.
TermKept == UNCHANGED <<Grid(vidmem), TermRow, TermCol>>

LEMMA KeptIs == ASSUME vidmem' = vidmem, Cursor' = Cursor PROVE TermKept
BY Zenon DEF TermKept, Grid, TermRow, TermCol

LEMMA StepTerminal ==
  ASSUME ScreenInv, ScreenInv', Next, ~ torn'
  PROVE  Abs!Next \/ TermKept
<1>1. ~ torn
  BY DEF Next, get_cursor, set_cursor, Select, In, Out, print_char, push_row, print_ok,
         draw_panic_screen, clear_bss, idt_init, Work, Tick, Silent, Prints, Iret, keyboard_handler, handler
<1>2. TypeOK /\ Planned /\ Steady
  BY DEF ScreenInv
<1>3. /\ (frame # <<>> => frame[2] = "idle") /\ Cursor \in Cells
      /\ attempt_stack[0] \in 0 .. MAX_ROWS - 1
  BY <1>1, <1>2 DEF Steady
<1>4. CASE get_cursor \/ set_cursor
  BY <1>1, <1>2, <1>4, PortsKeep, KeptIs
<1>5. CASE print_char
  <2>1. \/ Head(todo) \in Chars /\ CharDrawn(Head(todo))
        \/ LineDrawn(Cursor \div MAX_COLS)
    BY <1>1, <1>2, <1>5, PrintCharIs
  <2>2. CASE Head(todo) \in Chars /\ CharDrawn(Head(todo))
    <3>1. PICK ch \in Chars : ch = Head(todo)
      BY <2>2
    <3>2. Abs!Put(ch)
      BY <1>2, <1>3, <2>2, <3>1, PutIs
    <3> QED
      BY <3>2 DEF Abs!Next
  <2>3. CASE LineDrawn(Cursor \div MAX_COLS)
    <3>1. Abs!NewLine
      BY <1>2, <1>3, <2>3, NewLineIs
    <3> QED
      BY <3>1 DEF Abs!Next
  <2> QED
    BY <2>1, <2>2, <2>3
<1>6. CASE push_row
  <2>1. at = "read14" /\ at' = "idle" /\ reg' = reg /\ vidmem' = vidmem
    BY <1>6 DEF push_row, port
  <2>2. Cursor' = Cursor
    BY <2>1 DEF Cursor
  <2> QED
    BY <2>1, <2>2, KeptIs
<1>7. CASE print_ok
  <2>1. /\ at = "idle" /\ at' = "idle" /\ reg' = reg
        /\ stack_idx' = stack_idx - 1
        /\ print_char_loc("K", 1, attempt_stack[stack_idx - 1])
    BY <1>7 DEF print_ok, Popped, Does, port
  <2>2. stack_idx = 1
    BY <1>2, <2>1 DEF Planned, ScreenInv
  <2>3. PICK r \in 0 .. MAX_ROWS - 1 : r = attempt_stack[stack_idx - 1]
    BY <1>3, <2>2
  <2>4. 1 \in 0 .. MAX_COLS - 1
    BY Sizes
  <2>5. Abs!Mark(r + 1, 1 + 1, "K") /\ r + 1 \in 1 .. MAX_ROWS /\ 1 + 1 \in 1 .. MAX_COLS
    BY <1>2, <2>1, <2>3, <2>4, IdleSame, MarkIs DEF Chars
  <2> QED
    BY <2>5 DEF Abs!Next, Chars
<1>8. CASE draw_panic_screen
  BY <1>8, FillIs DEF Abs!Next, Chars
<1>9. CASE clear_bss \/ idt_init \/ Work
  <2>1. at = "idle" /\ at' = "idle" /\ reg' = reg /\ vidmem' = vidmem
    BY <1>9 DEF clear_bss, Cleared, idt_init, Work, Does, port
  <2> QED
    BY <2>1, IdleSame, KeptIs
<1>10. CASE Tick
  <2>1. vidmem' = vidmem /\ reg' = reg
    BY <1>10 DEF Tick, port
  <2>2. CASE Silent
    <3>1. at' = at /\ offset' = offset
      BY <1>10, <2>2 DEF Tick, Silent
    <3> QED
      BY <2>1, <3>1, CursorSame, KeptIs
  <2>3. CASE Prints
    <3>1. at = "idle" /\ at' = "idle"
      BY <1>10, <2>3 DEF Tick, Prints
    <3> QED
      BY <2>1, <3>1, IdleSame, KeptIs
  <2> QED
    BY <1>10, <2>2, <2>3 DEF Tick
<1>11. CASE Iret
  <2>1. /\ at = "idle" /\ at' = frame[2] /\ todo # <<>> /\ Head(todo) = "iret"
        /\ reg' = reg /\ vidmem' = vidmem
    BY <1>11 DEF Iret, Does, Ready, port
  <2>2. frame # <<>>
    <3> SUFFICES ASSUME frame = <<>> PROVE FALSE
      OBVIOUS
    <3>1. Lacks(todo, "iret") /\ todo \in Seq(Items)
      BY <1>2 DEF Planned, Main, TypeOK
    <3> QED
      BY <2>1, <3>1, LacksRest
  <2> QED
    BY <1>3, <2>1, <2>2, IdleSame, KeptIs
<1>12. CASE keyboard_handler
  <2>1. reg' = reg /\ at' = at /\ offset' = offset /\ print_char_loc("k", 0, 0)
    BY <1>12 DEF keyboard_handler, port
  <2>2. 0 \in 0 .. MAX_ROWS - 1 /\ 0 \in 0 .. MAX_COLS - 1
    BY Sizes
  <2>3. Abs!Mark(0 + 1, 0 + 1, "k") /\ 0 + 1 \in 1 .. MAX_ROWS /\ 0 + 1 \in 1 .. MAX_COLS
    BY <1>2, <2>1, <2>2, CursorSame, MarkIs DEF Chars
  <2> QED
    BY <2>3 DEF Abs!Next, Chars
<1> QED
  BY <1>4, <1>5, <1>6, <1>7, <1>8, <1>9, <1>10, <1>11, <1>12 DEF Next

LEMMA InitTerminal == Init => Abs!Init
<1> SUFFICES ASSUME Init PROVE Abs!Init
  OBVIOUS
<1>1. vidmem \in [Cells -> Chars \cup {ZERO}] /\ Cursor \in Cells
  BY InitScreen DEF Init, ScreenInv, TypeOK, Steady
<1>2. PICK a \in 0 .. MAX_ROWS - 1, b \in 0 .. MAX_COLS - 1 :
        a = Cursor \div MAX_COLS /\ b = Cursor % MAX_COLS
  BY <1>1, PlaceOf
<1>3. a + 1 \in 1 .. MAX_ROWS /\ b + 1 \in 1 .. MAX_COLS
  BY Sizes
<1>4. TermRow \in 1 .. MAX_ROWS /\ TermCol \in 1 .. MAX_COLS
  BY <1>2, <1>3, Zenon DEF TermRow, TermCol
<1>5. Grid(vidmem) \in Seq(Seq(Chars \cup {ZERO}))
  BY <1>1, GridSeq
<1> QED
  BY <1>4, <1>5, Zenon DEF Abs!Init, Grid, TermRow, TermCol

\* The text screen implements the terminal, for every size of the screen and of the
\* controller's registers: until a handler prints in the middle of a print_char, every
\* step of lib/screen.c and of those who print with it puts a character at the cursor,
\* ends a row, places a character elsewhere, fills the screen, or changes nothing.
THEOREM ScreenImplementsTerminal == Spec => ScreenIsTerminal
<1>1. ASSUME ScreenInv, ScreenInv', [Next]_vars
      PROVE  [(~ torn)' => Abs!Next]_(Abs!place)
  <2>1. CASE Next /\ ~ torn'
    <3>1. Abs!Next \/ TermKept
      BY <1>1, <2>1, StepTerminal
    <3> QED
      BY <3>1 DEF TermKept, Grid, TermRow, TermCol, Abs!place
  <2>2. CASE torn'
    BY <2>2
  <2>3. CASE UNCHANGED vars
    <3>1. vidmem' = vidmem /\ Cursor' = Cursor
      BY <2>3 DEF vars, port, Cursor
    <3>2. TermKept
      BY <3>1, KeptIs
    <3> QED
      BY <3>2 DEF TermKept, Grid, TermRow, TermCol, Abs!place
  <2> QED
    BY <1>1, <2>1, <2>2, <2>3
<1> QED
  BY <1>1, InitTerminal, SpecScreen, PTL DEF Spec, ScreenIsTerminal, Abs!Spec
===============================================================================
