------------------------------ MODULE PagingProofs ------------------------------
(***************************************************************************)
(* On a machine laid out like a PC (Layout), for every size of memory and  *)
(* every memory map: the frames in use keep what they hold and their user, *)
(* and the tables map them, and nothing else in the low half.              *)
(*                                                                         *)
(* What the argument rests on: the boot tables of the kernel's half        *)
(* already map every frame that is ever handed out, so map_page at a       *)
(* kernel address changes nothing (KernelMapped); frames are handed out in *)
(* ascending order, so what memset and memcpy write beyond a page lies     *)
(* among the frames that are still free (NextHeld, NothingBehind); the     *)
(* tables of the low half are frames of their own (TablesOK); and as long  *)
(* as nobody has raced, the entry an interrupted caller has found is the   *)
(* first that is free, or another's already (Waiting).                     *)
(***************************************************************************)
EXTENDS Paging, Induction

\* The frames the boot tables map, and the page directory's entries below the kernel's.
Span == PagesCount * PtSpan
Low == 0 .. pd_no(KernBase) - 1

(* Addresses. *)

LEMMA Machine ==
  ASSUME Layout
  PROVE  /\ KernelPages \in Nat \ {0} /\ PoolPages \in Nat \ {0} /\ VideoFrame \in Nat
         /\ WordSize \in Nat \ {0} /\ TablesFrame \in Nat /\ PagesCount \in Nat \ {0}
         /\ PtSpan \in Nat \ {0} /\ LastFrame \in Nat /\ Span \in Nat /\ KernBase \in Nat
         /\ pd_no(KernBase) \in Nat /\ PagesCount <= pd_no(KernBase)
         /\ KernBase = PtSpan * pd_no(KernBase)
         /\ WordSize <= PoolPages + 1 /\ KernelPages + PoolPages < VideoFrame
         /\ VideoFrame < TablesFrame /\ KernTables \in Nat
         /\ TablesFrame + PagesCount <= KernTables /\ KernTables + PagesCount <= Span
         /\ KernTables + PagesCount <= LastFrame + 1
<1>1. /\ PtSpan \in Nat \ {0} /\ KernBase \in Nat /\ KernBase % PtSpan = 0
      /\ PagesCount \in 1 .. KernBase \div PtSpan
  BY PagingAssumption DEF pt_no, pd_no
<1>2. KernBase \div PtSpan \in Nat /\ KernBase = PtSpan * (KernBase \div PtSpan)
  <2>1. PICK a \in Nat, b \in 0 .. PtSpan - 1 :
          a = KernBase \div PtSpan /\ b = KernBase % PtSpan /\ KernBase = PtSpan * a + b
    BY <1>1, Divided
  <2> QED
    BY <1>1, <2>1
<1>3. PagesCount \in Nat \ {0} /\ PagesCount <= KernBase \div PtSpan
  BY <1>1, <1>2
<1>4. PagesCount * PtSpan \in Nat
  BY <1>1, <1>3
<1>5. /\ KernelPages \in Nat \ {0} /\ PoolPages \in Nat \ {0} /\ VideoFrame \in Nat
      /\ WordSize \in Nat \ {0} /\ TablesFrame \in Nat /\ LastFrame \in Nat
      /\ KernTables \in Nat /\ TablesFrame + PagesCount <= KernTables
      /\ KernTables + PagesCount <= LastFrame + 1
  BY PagingAssumption DEF Frames
<1> QED
  BY <1>1, <1>2, <1>3, <1>4, <1>5 DEF Layout, Span, pd_no

\* Those that are linear.
LEMMA Sizes ==
  ASSUME Layout
  PROVE  /\ KernelPages \in Nat \ {0} /\ PoolPages \in Nat \ {0} /\ VideoFrame \in Nat
         /\ WordSize \in Nat \ {0} /\ TablesFrame \in Nat /\ PagesCount \in Nat \ {0}
         /\ LastFrame \in Nat /\ Span \in Nat /\ KernBase \in Nat
         /\ WordSize <= PoolPages + 1 /\ KernelPages + PoolPages < VideoFrame
         /\ VideoFrame < TablesFrame /\ KernTables \in Nat
         /\ TablesFrame + PagesCount <= KernTables /\ KernTables + PagesCount <= Span
         /\ KernTables + PagesCount <= LastFrame + 1
  BY Machine

\* Where the address of a page lies in the tables.
LEMMA Parts ==
  ASSUME Layout, NEW v \in Nat
  PROVE  pd_no(v) \in Nat /\ pt_no(v) \in Pt /\ v = PtSpan * pd_no(v) + pt_no(v)
<1>1. PICK a \in Nat, b \in 0 .. PtSpan - 1 :
        a = v \div PtSpan /\ b = v % PtSpan /\ v = PtSpan * a + b
  BY Machine, Divided
<1> QED
  BY <1>1 DEF pd_no, pt_no, Pt

LEMMA OnePart ==
  ASSUME Layout, NEW v \in Nat, NEW w \in Nat, pd_no(v) = pd_no(w), pt_no(v) = pt_no(w)
  PROVE  v = w
<1>1. PtSpan * pd_no(v) + pt_no(v) = PtSpan * pd_no(w) + pt_no(w)
  OBVIOUS
<1> QED
  BY <1>1, Parts

LEMMA Ascending ==
  ASSUME Layout, NEW v \in Nat, NEW w \in Nat, v <= w
  PROVE  pd_no(v) <= pd_no(w)
<1> DEFINE a == pd_no(v)
           b == pd_no(w)
<1>1. /\ a \in Nat /\ pt_no(v) \in 0 .. PtSpan - 1 /\ v = PtSpan * a + pt_no(v)
      /\ b \in Nat /\ pt_no(w) \in 0 .. PtSpan - 1 /\ w = PtSpan * b + pt_no(w)
  BY Parts DEF Pt
<1> HIDE DEF a, b
<1>2. ~ (b < a)
  <2> SUFFICES ASSUME b < a PROVE FALSE
    OBVIOUS
  <2>1. PtSpan * b + PtSpan <= PtSpan * a
    BY <1>1, Machine, Times
  <2>2. PtSpan * a \in Nat /\ PtSpan * b \in Nat /\ PtSpan \in Nat
    BY <1>1, Machine
  <2> QED
    BY <1>1, <2>1, <2>2
<1>3. a <= b
  BY <1>1, <1>2
<1> QED
  BY <1>3 DEF a, b

\* The low half has the entries of the page directory below the kernel's.
LEMMA LowAddress ==
  ASSUME Layout, NEW v \in 0 .. KernBase - 1
  PROVE  v \in Nat /\ pd_no(v) \in Low /\ pd_no(v) \in Pd /\ pt_no(v) \in Pt
<1>1. /\ v \in Nat /\ KernBase \in Nat /\ KernBase = PtSpan * pd_no(KernBase)
      /\ pd_no(v) \in Nat /\ pd_no(KernBase) \in Nat /\ pt_no(v) \in 0 .. PtSpan - 1
      /\ PtSpan \in Nat /\ v = PtSpan * pd_no(v) + pt_no(v) /\ pt_no(v) \in Pt
  BY Machine, Parts DEF Pt
<1>2. pd_no(v) <= pd_no(KernBase)
  BY <1>1, Ascending
<1>3. pd_no(v) # pd_no(KernBase)
  <2> SUFFICES ASSUME pd_no(v) = pd_no(KernBase) PROVE FALSE
    OBVIOUS
  <2>1. v = KernBase + pt_no(v)
    BY <1>1
  <2> QED
    BY <1>1, <2>1
<1>4. Kptov(LastFrame) \in Nat /\ KernBase <= Kptov(LastFrame)
  BY Machine DEF Kptov
<1>5. pd_no(KernBase) <= pd_no(Kptov(LastFrame)) /\ pd_no(Kptov(LastFrame)) \in Nat
  BY <1>1, <1>4, Ascending, Parts
<1>6. pd_no(v) \in 0 .. pd_no(KernBase) - 1 /\ pd_no(v) \in 0 .. pd_no(Kptov(LastFrame))
  BY <1>1, <1>2, <1>3, <1>5
<1> QED
  BY <1>1, <1>6 DEF Low, Pd

\* The kernel's address of a frame is in the kernel's half.
LEMMA KernelAddress ==
  ASSUME Layout, NEW f \in Frames
  PROVE  /\ Kptov(f) \in Nat /\ pd_no(Kptov(f)) \in Pd /\ pd_no(Kptov(f)) \notin Low
         /\ pt_no(Kptov(f)) \in Pt
<1>1. /\ Kptov(f) \in Nat /\ Kptov(LastFrame) \in Nat /\ KernBase \in Nat
      /\ KernBase <= Kptov(f) /\ Kptov(f) <= Kptov(LastFrame)
  BY Machine DEF Kptov, Frames
<1>2. /\ pd_no(KernBase) <= pd_no(Kptov(f)) /\ pd_no(Kptov(f)) <= pd_no(Kptov(LastFrame))
      /\ pd_no(KernBase) \in Nat /\ pd_no(Kptov(f)) \in Nat /\ pd_no(Kptov(LastFrame)) \in Nat
      /\ pt_no(Kptov(f)) \in Pt
  BY <1>1, Ascending, Parts
<1>3. pd_no(Kptov(f)) \in 0 .. pd_no(Kptov(LastFrame))
      /\ ~ (pd_no(Kptov(f)) \in 0 .. pd_no(KernBase) - 1)
  BY <1>2
<1> QED
  BY <1>1, <1>2, <1>3 DEF Low, Pd

LEMMA LowInPd ==
  ASSUME Layout
  PROVE  Low \subseteq Pd
<1>1. /\ Kptov(LastFrame) \in Nat /\ KernBase <= Kptov(LastFrame) /\ KernBase \in Nat
      /\ pd_no(KernBase) \in Nat
  BY Machine DEF Kptov
<1>2. pd_no(KernBase) <= pd_no(Kptov(LastFrame)) /\ pd_no(Kptov(LastFrame)) \in Nat
  BY <1>1, Ascending, Parts
<1> QED
  BY <1>1, <1>2 DEF Low, Pd

-------------------------------------------------------------------------------
(* What holds of the tables and the frames. *)

\* The kernel's half maps every frame the boot tables map, by tables that stay.
HighOK(m) ==
  \A f \in Frames : f < Span =>
    LET d == pd_no(Kptov(f))
    IN  m.pd[d] \in Frames /\ TablesFrame <= m.pd[d] /\ m.pt[m.pd[d]][pt_no(Kptov(f))] = f

\* A frame that is no part of the kernel's image, of the video memory or of the boot
\* tables, and has room for what memset and memcpy write.
Roomy(f) ==
  /\ f \in Frames /\ KernelPages <= f /\ f + WordSize <= TablesFrame
  /\ VideoFrame < f \/ f + WordSize <= VideoFrame

LEMMA RoomyFrame ==
  ASSUME Layout, NEW f, Roomy(f)
  PROVE  /\ f \in Frames /\ f \in Nat /\ KernelPages <= f /\ f # VideoFrame /\ f < TablesFrame
         /\ f < Span /\ f + WordSize <= TablesFrame /\ f + WordSize <= Span
         /\ f + WordSize <= LastFrame + 1
  BY Sizes DEF Roomy, Frames

\* Free frames are roomy and come in ascending order.
FreeOK(m) ==
  \A i \in Free(m) : Roomy(m.addr[i]) /\ \A j \in Free(m) : i < j => m.addr[i] < m.addr[j]

\* Frame f is below the free ones.
Below(m, f) == \A i \in Free(m) : f < m.addr[i]

\* A frame in use is below the free ones, or where no frame is ever free.
UsedOK(m) ==
  \A f \in Frames : m.owner[f] # "none" =>
    f < Span /\ (f < KernelPages \/ f = VideoFrame \/ TablesFrame <= f \/ Below(m, f))

\* What a frame is in use for, it holds.
Intact(m) == \A f \in Frames : m.owner[f] # "none" => m.contents[f] = m.owner[f]

Core(m) == m \in Mem /\ m.halt = "no" /\ HighOK(m) /\ FreeOK(m) /\ UsedOK(m)

\* A frame nobody uses, and every free one comes after it.
Held(m, f) == Roomy(f) /\ m.owner[f] = "none" /\ Below(m, f)

\* The fields of a memory.
LEMMA Fields ==
  ASSUME NEW m \in Mem
  PROVE  /\ m.type \in [Entries -> {"none", "M_FREE", "M_ALLOCATED", "M_RESERVED"}]
         /\ m.addr \in [Entries -> Frames] /\ m.pd \in [Pd -> Frames \cup {NONE}]
         /\ m.pt \in [Frames -> [Pt -> Frames \cup {NONE}]]
         /\ m.contents \in [Frames -> Uses \cup {"zero", "copied", "garbage table"}]
         /\ m.owner \in [Frames -> Uses] /\ m.index \in Nat /\ m.halt \in {"no", "PANIC", "fault"}
         /\ m = [type |-> m.type, addr |-> m.addr, pd |-> m.pd, pt |-> m.pt,
                 contents |-> m.contents, owner |-> m.owner, index |-> m.index, halt |-> m.halt]
  BY DEF Mem

LEMMA IsMem ==
  ASSUME NEW a \in [Entries -> {"none", "M_FREE", "M_ALLOCATED", "M_RESERVED"}],
         NEW b \in [Entries -> Frames], NEW c \in [Pd -> Frames \cup {NONE}],
         NEW d \in [Frames -> [Pt -> Frames \cup {NONE}]],
         NEW e \in [Frames -> Uses \cup {"zero", "copied", "garbage table"}],
         NEW f \in [Frames -> Uses]
  PROVE  [type |-> a, addr |-> b, pd |-> c, pt |-> d, contents |-> e, owner |-> f,
          index |-> 0, halt |-> "no"] \in Mem
  BY DEF Mem

\* Two memories that differ in the types of their entries only.
SameButTypes(m, n) ==
  /\ n.addr = m.addr /\ n.pd = m.pd /\ n.pt = m.pt /\ n.contents = m.contents
  /\ n.owner = m.owner /\ n.index = m.index /\ n.halt = m.halt

\* get_next_free_physical_page takes the first free entry.
TakesNext(m, n, f) ==
  /\ f = NextFrame(m) /\ f # NONE /\ n \in Mem /\ SameButTypes(m, n)
  /\ \E e \in Free(m) : f = m.addr[e] /\ Free(n) = Free(m) \ {e} /\ \A i \in Free(m) : e <= i

\* An entry is marked.
Marks(m, n, e) ==
  /\ n \in Mem /\ SameButTypes(m, n)
  /\ \A i \in Entries : n.type[i] = IF i = e THEN "M_ALLOCATED" ELSE m.type[i]
  /\ Free(n) = Free(m) \ {e}

LEMMA MarkedIs ==
  ASSUME NEW m \in Mem, NEW e \in Entries
  PROVE  Marks(m, Marked(m, e), e)
<1> DEFINE t == [m.type EXCEPT ![e] = "M_ALLOCATED"]
           n == Marked(m, e)
<1>1. n = [m EXCEPT !.type = t]
  BY DEF Marked
<1>2. /\ t \in [Entries -> {"none", "M_FREE", "M_ALLOCATED", "M_RESERVED"}]
      /\ \A i \in Entries : t[i] = IF i = e THEN "M_ALLOCATED" ELSE m.type[i]
  BY Fields
<1> HIDE DEF t, n
<1>3. n \in Mem /\ SameButTypes(m, n) /\ n.type = t
  BY <1>1, <1>2 DEF Mem, SameButTypes
<1>4. Free(n) = Free(m) \ {e}
  BY <1>2, <1>3 DEF Free
<1> QED
  BY <1>2, <1>3, <1>4 DEF Marks, n

LEMMA TakenNext ==
  ASSUME NEW m \in Mem, Free(m) # {}
  PROVE  TakesNext(m, Taken(m), NextFrame(m))
<1>1. Free(m) \in SUBSET Nat
  BY DEF Free, Entries
<1>2. \E i \in Free(m) : \A j \in Free(m) : i <= j
  BY <1>1, MinInSet
<1> DEFINE e == NextEntry(m)
<1>3. e \in Free(m) /\ \A j \in Free(m) : e <= j
  BY <1>2 DEF NextEntry
<1> HIDE DEF e
<1>4. e \in Entries
  BY <1>3 DEF Free
<1>5. NextFrame(m) = m.addr[e] /\ m.addr[e] \in Frames /\ NONE \notin Frames
  BY <1>4, Fields, PagingAssumption DEF NextFrame, e
<1>6. Taken(m) = Marked(m, e)
  BY DEF Taken, e
<1>7. Marks(m, Taken(m), e)
  BY <1>4, <1>6, MarkedIs
<1> QED
  BY <1>3, <1>5, <1>7 DEF TakesNext, Marks

\* Mapping a frame at its kernel address changes nothing: it is mapped there already.
LEMMA KernelMapped ==
  ASSUME Layout, NEW m \in Mem, HighOK(m), NEW f \in Frames, f < Span
  PROVE  /\ ~ NoTable(m, Kptov(f)) /\ SetPte(m, f, Kptov(f)) = m
         /\ m.halt = "no" => MapPage(m, f, Kptov(f)) = m
         /\ Translate(m, Kptov(f)) = f
<1> DEFINE d == pd_no(Kptov(f))
           e == pt_no(Kptov(f))
<1>1. d \in Pd /\ e \in Pt
  BY KernelAddress
<1>2. m.pd[d] \in Frames /\ m.pt[m.pd[d]][e] = f /\ m.pd[d] # NONE /\ f # NONE
  BY PagingAssumption DEF HighOK
<1>3. Translate(m, Kptov(f)) = f /\ ~ NoTable(m, Kptov(f))
  BY <1>1, <1>2 DEF Translate, NoTable, pd_no, pt_no
<1>4. SetPte(m, f, Kptov(f)) = [m EXCEPT !.pt[m.pd[d]][e] = f]
  BY DEF SetPte
<1> HIDE DEF d, e
<1>5. [m.pt EXCEPT ![m.pd[d]][e] = f] = m.pt
  BY <1>1, <1>2, Fields
<1>6. [m EXCEPT !.pt[m.pd[d]][e] = f] = m
  <2> DEFINE t == [m.pt EXCEPT ![m.pd[d]][e] = f]
  <2>1. [m EXCEPT !.pt[m.pd[d]][e] = f] = [m EXCEPT !.pt = t]
    OBVIOUS
  <2>2. t = m.pt
    BY <1>5
  <2> HIDE DEF t
  <2>3. [m EXCEPT !.pt = m.pt] = m
    BY DEF Mem
  <2> QED
    BY <2>1, <2>2, <2>3
<1>7. MapPage(m, f, Kptov(f)) = IF m.halt # "no" THEN m ELSE SetPte(m, f, Kptov(f))
  BY <1>2, <1>3 DEF MapPage
<1> QED
  BY <1>3, <1>4, <1>6, <1>7

\* The frames behind n kernel addresses.
LEMMA KernelArea ==
  ASSUME Layout, NEW m \in Mem, HighOK(m), NEW f \in Frames, NEW n \in Nat, f + n <= Span,
         f + n <= LastFrame + 1
  PROVE  Area(m, Kptov(f), n) = f .. f + n - 1 /\ NONE \notin Area(m, Kptov(f), n)
<1>1. f \in Nat /\ KernBase \in Nat /\ LastFrame \in Nat /\ Span \in Nat
  BY Sizes DEF Frames
<1>2. ASSUME NEW k \in 0 .. n - 1 PROVE Translate(m, Kptov(f) + k) = f + k
  <2>1. f + k \in Frames /\ f + k < Span /\ Kptov(f) + k = Kptov(f + k)
    BY <1>1 DEF Frames, Kptov
  <2> QED
    BY <2>1, KernelMapped
<1>3. Area(m, Kptov(f), n) = {f + k : k \in 0 .. n - 1}
  BY <1>2 DEF Area
<1>4. {f + k : k \in 0 .. n - 1} = f .. f + n - 1
  <2>1. ASSUME NEW g \in f .. f + n - 1 PROVE g \in {f + k : k \in 0 .. n - 1}
    <3>1. g - f \in 0 .. n - 1 /\ g = f + (g - f)
      BY <1>1
    <3> QED
      BY <3>1
  <2> QED
    BY <1>1, <2>1
<1>5. f .. f + n - 1 \subseteq Frames
  BY <1>1 DEF Frames
<1> QED
  BY <1>3, <1>4, <1>5, PagingAssumption

\* What is free is not in use.
LEMMA NextHeld ==
  ASSUME Layout, NEW m, Core(m), NEW n, NEW f, TakesNext(m, n, f)
  PROVE  Core(n) /\ Held(n, f) /\ m.owner[f] = "none"
<1>1. PICK e \in Free(m) :
        f = m.addr[e] /\ Free(n) = Free(m) \ {e} /\ \A i \in Free(m) : e <= i
  BY DEF TakesNext
<1>2. m \in Mem /\ m.halt = "no" /\ HighOK(m) /\ FreeOK(m) /\ UsedOK(m)
  BY DEF Core
<1>3. n \in Mem /\ n.addr = m.addr /\ n.owner = m.owner /\ n.pd = m.pd /\ n.pt = m.pt
      /\ n.halt = m.halt
  BY DEF TakesNext, SameButTypes
<1>4. Roomy(f)
  BY <1>1, <1>2 DEF FreeOK
<1>5. \A i \in Free(m) : i \in Nat
  BY DEF Free, Entries
<1>6. Below(n, f)
  BY <1>1, <1>2, <1>3, <1>5 DEF Below, FreeOK
<1>7. m.owner[f] = "none"
  <2> SUFFICES ASSUME m.owner[f] # "none" PROVE FALSE
    OBVIOUS
  <2>1. f < KernelPages \/ f = VideoFrame \/ TablesFrame <= f \/ Below(m, f)
    BY <1>2, <1>4 DEF UsedOK, Roomy
  <2>2. f \in Nat /\ ~ (f < f)
    BY <1>4 DEF Roomy, Frames
  <2>3. ~ Below(m, f)
    BY <1>1, <2>2 DEF Below
  <2>4. ~ (f < KernelPages) /\ f # VideoFrame /\ ~ (TablesFrame <= f)
    BY <1>4, RoomyFrame, Sizes
  <2> QED
    BY <1>4, <2>1, <2>2, <2>3, <2>4
<1>8. HighOK(n)
  BY <1>2, <1>3 DEF HighOK
<1>9. FreeOK(n)
  BY <1>1, <1>2, <1>3 DEF FreeOK
<1>10. UsedOK(n)
  BY <1>1, <1>2, <1>3 DEF UsedOK, Below
<1> QED
  BY <1>2, <1>3, <1>4, <1>6, <1>7, <1>8, <1>9, <1>10 DEF Core, Held
-------------------------------------------------------------------------------
(* Frames that are put to use. *)

Contents == Uses \cup {"zero", "copied", "garbage table"}

\* What Holding and InUse change.
Holds(m, n, fs, c) ==
  /\ n \in Mem /\ n.contents = [f \in Frames |-> IF f \in fs THEN c ELSE m.contents[f]]
  /\ n.type = m.type /\ n.addr = m.addr /\ n.pd = m.pd /\ n.pt = m.pt /\ n.owner = m.owner
  /\ n.index = m.index /\ n.halt = m.halt

PutsInUse(m, n, fs, u) ==
  /\ n \in Mem /\ n.owner = [f \in Frames |-> IF f \in fs THEN u ELSE m.owner[f]]
  /\ n.type = m.type /\ n.addr = m.addr /\ n.pd = m.pd /\ n.pt = m.pt
  /\ n.contents = m.contents /\ n.index = m.index /\ n.halt = m.halt

LEMMA HoldingIs ==
  ASSUME NEW m \in Mem, NEW fs, NEW c \in Contents
  PROVE  Holds(m, Holding(m, fs, c), fs, c)
<1> DEFINE t == [f \in Frames |-> IF f \in fs THEN c ELSE m.contents[f]]
<1>1. t \in [Frames -> Contents]
  BY Fields DEF Contents
<1>2. Holding(m, fs, c) = [m EXCEPT !.contents = t]
  BY DEF Holding
<1>3. t = [f \in Frames |-> IF f \in fs THEN c ELSE m.contents[f]]
  OBVIOUS
<1> HIDE DEF t
<1>4. /\ Holding(m, fs, c) \in Mem /\ Holding(m, fs, c).contents = t
      /\ Holding(m, fs, c).type = m.type /\ Holding(m, fs, c).addr = m.addr
      /\ Holding(m, fs, c).pd = m.pd /\ Holding(m, fs, c).pt = m.pt
      /\ Holding(m, fs, c).owner = m.owner /\ Holding(m, fs, c).index = m.index
      /\ Holding(m, fs, c).halt = m.halt
  BY <1>1, <1>2 DEF Mem, Contents
<1> QED
  BY <1>3, <1>4 DEF Holds

LEMMA InUseIs ==
  ASSUME NEW m \in Mem, NEW fs, NEW u \in Uses
  PROVE  PutsInUse(m, InUse(m, fs, u), fs, u)
<1> DEFINE t == [f \in Frames |-> IF f \in fs THEN u ELSE m.owner[f]]
<1>1. t \in [Frames -> Uses]
  BY Fields
<1>2. InUse(m, fs, u) = [m EXCEPT !.owner = t]
  BY DEF InUse
<1>3. t = [f \in Frames |-> IF f \in fs THEN u ELSE m.owner[f]]
  OBVIOUS
<1> HIDE DEF t
<1>4. /\ InUse(m, fs, u) \in Mem /\ InUse(m, fs, u).owner = t
      /\ InUse(m, fs, u).type = m.type /\ InUse(m, fs, u).addr = m.addr
      /\ InUse(m, fs, u).pd = m.pd /\ InUse(m, fs, u).pt = m.pt
      /\ InUse(m, fs, u).contents = m.contents /\ InUse(m, fs, u).index = m.index
      /\ InUse(m, fs, u).halt = m.halt
  BY <1>1, <1>2 DEF Mem
<1> QED
  BY <1>3, <1>4 DEF PutsInUse

\* A frame is put to use.
PutToUse(m, n, f, u) ==
  /\ n.type = m.type /\ n.addr = m.addr
  /\ n.owner = [g \in Frames |-> IF g \in {f} THEN u ELSE m.owner[g]]

\* One that nobody used.
LEMMA UsedKeeps ==
  ASSUME Layout, NEW m, FreeOK(m), UsedOK(m), NEW f, Held(m, f), NEW n, NEW u,
         PutToUse(m, n, f, u)
  PROVE  FreeOK(n) /\ UsedOK(n)
<1>0. /\ n.type = m.type /\ n.addr = m.addr
      /\ \A g \in Frames : n.owner[g] = IF g = f THEN u ELSE m.owner[g]
  BY DEF PutToUse
<1>1. Free(n) = Free(m)
  BY <1>0 DEF Free
<1>2. f \in Frames /\ f < Span /\ Below(m, f)
  BY RoomyFrame DEF Held
<1>3. FreeOK(n)
  <2>1. ASSUME NEW i \in Free(n)
        PROVE  Roomy(n.addr[i]) /\ \A j \in Free(n) : i < j => n.addr[i] < n.addr[j]
    <3>1. i \in Free(m) /\ n.addr[i] = m.addr[i]
      BY <1>0, <1>1
    <3>2. Roomy(m.addr[i]) /\ \A j \in Free(m) : i < j => m.addr[i] < m.addr[j]
      BY <3>1 DEF FreeOK
    <3> QED
      BY <1>0, <1>1, <3>1, <3>2
  <2> QED
    BY <2>1 DEF FreeOK
<1>4. ASSUME NEW g \in Frames PROVE Below(n, g) <=> Below(m, g)
  BY <1>0, <1>1 DEF Below
<1>5. ASSUME NEW g \in Frames, n.owner[g] # "none"
      PROVE  g < Span /\ (g < KernelPages \/ g = VideoFrame \/ TablesFrame <= g \/ Below(n, g))
  <2>1. CASE g = f
    BY <1>2, <1>4, <2>1
  <2>2. CASE g # f
    <3>1. m.owner[g] # "none"
      BY <1>0, <1>5, <2>2
    <3> QED
      BY <1>4, <3>1 DEF UsedOK
  <2> QED
    BY <2>1, <2>2
<1> QED
  BY <1>3, <1>5 DEF UsedOK

\* Nobody uses what memset and memcpy write when the next frame is handed out.
LEMMA NothingBehind ==
  ASSUME Layout, NEW m, Core(m), NEW n, NEW f, TakesNext(m, n, f),
         NEW g \in f .. f + WordSize - 1, g \in Frames
  PROVE  m.owner[g] = "none"
<1>1. PICK e \in Free(m) : f = m.addr[e]
  BY DEF TakesNext
<1>2. Roomy(f) /\ UsedOK(m)
  BY <1>1 DEF Core, FreeOK
<1>3. ~ Below(m, g)
  BY <1>1, <1>2 DEF Below, Roomy, Frames
<1>4. ~ (g < KernelPages \/ g = VideoFrame \/ TablesFrame <= g)
  BY <1>2, Sizes DEF Roomy, Frames
<1> QED
  BY <1>2, <1>3, <1>4 DEF UsedOK

\* A step that puts only frames of free entries to use, frees no entry and takes no frame
\* from its user.
Keeps(m, n) ==
  /\ n.addr = m.addr /\ Free(n) \subseteq Free(m)
  /\ \A f \in Frames : n.owner[f] # m.owner[f] =>
       m.owner[f] = "none" /\ \E i \in Free(m) : f = m.addr[i]

LEMMA KeepsTwice ==
  ASSUME NEW m, NEW n, NEW o, Keeps(m, n), Keeps(n, o)
  PROVE  Keeps(m, o)
  BY DEF Keeps

\* Only frame f gets another user.
OnlyUses(m, n, f) ==
  n.type = m.type /\ n.addr = m.addr /\ \A g \in Frames : g # f => n.owner[g] = m.owner[g]

LEMMA NextKept ==
  ASSUME Layout, NEW m, Core(m), NEW t, NEW f, TakesNext(m, t, f), NEW n, OnlyUses(t, n, f)
  PROVE  Keeps(m, n)
<1>1. PICK e \in Free(m) : f = m.addr[e] /\ Free(t) = Free(m) \ {e}
  BY DEF TakesNext
<1>2. t.addr = m.addr /\ t.owner = m.owner
  BY DEF TakesNext, SameButTypes
<1>3. m.owner[f] = "none"
  BY NextHeld
<1>4. Free(n) = Free(t) /\ n.addr = t.addr
  BY DEF OnlyUses, Free
<1> QED
  BY <1>1, <1>2, <1>3, <1>4 DEF Keeps, OnlyUses

\* A page of palloc_kern for use u, not yet cleared.
Gets(m, n, e, f, u) ==
  /\ n \in Mem /\ n.addr = m.addr /\ n.pd = m.pd /\ n.pt = m.pt /\ n.index = m.index
  /\ n.halt = "no" /\ n.type = Marked(m, e).type /\ Free(n) = Free(m) \ {e}
  /\ n.owner = [g \in Frames |-> IF g \in {f} THEN u ELSE m.owner[g]]
  /\ n.contents = [g \in Frames |-> IF g \in {f} THEN u ELSE m.contents[g]]

\* Whosever the entry is.
LEMMA PageGot ==
  ASSUME Layout, NEW m \in Mem, m.halt = "no", HighOK(m), NEW e \in Entries, Roomy(m.addr[e]),
         NEW u \in Uses
  PROVE  Gets(m, KernPage(m, e, u), e, m.addr[e], u)
<1> DEFINE f == m.addr[e]
           t == Marked(m, e)
           n == KernPage(m, e, u)
<1>1. Marks(m, t, e)
  BY MarkedIs
<1>2. f \in Frames /\ f < Span
  BY RoomyFrame
<1> HIDE DEF t, f
<1>3. t \in Mem /\ t.halt = "no" /\ HighOK(t) /\ SameButTypes(m, t) /\ Free(t) = Free(m) \ {e}
  BY <1>1 DEF Marks, SameButTypes, HighOK
<1>4. MapPage(t, f, Kptov(f)) = t
  BY <1>2, <1>3, KernelMapped
<1> DEFINE h == Holding(t, {f}, u)
<1>5. n = InUse(h, {f}, u)
  BY <1>3, <1>4 DEF KernPage, f, t
<1>6. Holds(t, h, {f}, u)
  BY <1>3, HoldingIs DEF Contents
<1>7. h \in Mem
  BY <1>6 DEF Holds
<1> HIDE DEF h, n
<1>8. PutsInUse(h, n, {f}, u)
  BY <1>5, <1>7, InUseIs
<1>9. /\ n \in Mem /\ n.addr = m.addr /\ n.pd = m.pd /\ n.pt = m.pt /\ n.index = m.index
      /\ n.halt = "no" /\ n.type = t.type
  BY <1>3, <1>6, <1>8 DEF Holds, PutsInUse, SameButTypes
<1>10. n.owner = [g \in Frames |-> IF g \in {f} THEN u ELSE m.owner[g]]
  BY <1>3, <1>6, <1>8 DEF Holds, PutsInUse, SameButTypes
<1>11. n.contents = [g \in Frames |-> IF g \in {f} THEN u ELSE m.contents[g]]
  BY <1>3, <1>6, <1>8 DEF Holds, PutsInUse, SameButTypes
<1>12. Free(n) = Free(t)
  BY <1>9 DEF Free
<1> QED
  BY <1>3, <1>9, <1>10, <1>11, <1>12 DEF Gets, f, t, n

LEMMA NextIs ==
  ASSUME NEW m, NEW e \in Free(m), \A i \in Free(m) : e <= i
  PROVE  NextEntry(m) = e
<1>1. NextEntry(m) \in Free(m) /\ \A i \in Free(m) : NextEntry(m) <= i
  BY DEF NextEntry
<1>2. NextEntry(m) \in Nat /\ e \in Nat
  BY <1>1 DEF Free, Entries
<1> QED
  BY <1>1, <1>2

\* The first free entry's page.
LEMMA PageTaken ==
  ASSUME Layout, NEW m, Core(m), Free(m) # {}, NEW u \in Uses \ {"none"}
  PROVE  LET e == NextEntry(m) f == NextFrame(m) n == KernPage(m, e, u)
         IN  /\ e \in Free(m) /\ f = m.addr[e] /\ TakesNext(m, Taken(m), f)
             /\ Gets(m, n, e, f, u) /\ Core(n) /\ Keeps(m, n) /\ (Intact(m) => Intact(n))
<1> DEFINE e == NextEntry(m)
           f == NextFrame(m)
           t == Taken(m)
           n == KernPage(m, e, u)
<1>1. TakesNext(m, t, f)
  BY TakenNext DEF Core
<1>2. PICK x \in Free(m) :
        f = m.addr[x] /\ Free(t) = Free(m) \ {x} /\ \A i \in Free(m) : x <= i
  BY <1>1 DEF TakesNext
<1>3. e = x /\ e \in Entries /\ e \in Free(m) /\ f = m.addr[e]
  BY <1>2, NextIs DEF Free
<1>4. t = Marked(m, e)
  BY DEF Taken
<1> HIDE DEF e, f, t
<1>5. Core(t) /\ Held(t, f) /\ SameButTypes(m, t)
  <2>1. Core(t) /\ Held(t, f)
    BY <1>1, NextHeld
  <2> QED
    BY <1>1, <2>1 DEF TakesNext
<1>6. Roomy(m.addr[e]) /\ m \in Mem /\ m.halt = "no" /\ HighOK(m)
  BY <1>3, <1>5 DEF Core, Held
<1>7. Gets(m, n, e, f, u)
  BY <1>3, <1>6, PageGot
<1> HIDE DEF n
<1>8. /\ n \in Mem /\ n.addr = m.addr /\ n.pd = m.pd /\ n.pt = m.pt /\ n.halt = "no"
      /\ n.type = t.type
      /\ n.owner = [g \in Frames |-> IF g \in {f} THEN u ELSE m.owner[g]]
      /\ n.contents = [g \in Frames |-> IF g \in {f} THEN u ELSE m.contents[g]]
  BY <1>4, <1>7 DEF Gets
<1>9. FreeOK(n) /\ UsedOK(n)
  <2>1. FreeOK(t) /\ UsedOK(t) /\ PutToUse(t, n, f, u)
    BY <1>5, <1>8 DEF Core, SameButTypes, PutToUse
  <2> QED
    BY <1>5, <2>1, UsedKeeps
<1>10. HighOK(n)
  BY <1>6, <1>8 DEF HighOK
<1>11. Core(n)
  BY <1>8, <1>9, <1>10 DEF Core
<1>12. Keeps(m, n)
  <2>1. OnlyUses(t, n, f)
    BY <1>5, <1>8 DEF OnlyUses, SameButTypes
  <2> QED
    BY <1>1, <2>1, NextKept
<1>13. Intact(m) => Intact(n)
  BY <1>8 DEF Intact
<1> QED
  BY <1>1, <1>3, <1>7, <1>11, <1>12, <1>13 DEF n, t, f, e

\* memset of a page that is in use.
Clears(m, n, f, u, c) ==
  /\ n \in Mem /\ n.type = m.type /\ n.addr = m.addr /\ n.pd = m.pd /\ n.pt = m.pt
  /\ n.owner = m.owner /\ n.index = m.index /\ n.halt = "no"
  /\ n.contents = [g \in Frames |-> IF g = f THEN u
                                    ELSE IF g \in f .. f + WordSize - 1 THEN c ELSE m.contents[g]]

LEMMA PageCleared ==
  ASSUME Layout, NEW m \in Mem, m.halt = "no", HighOK(m), NEW f, Roomy(f),
         NEW u \in Uses, NEW c \in {"zero", "copied"}
  PROVE  /\ Clears(m, ClearPage(m, f, u, c), f, u, c)
         /\ Area(m, Kptov(f), WordSize) = f .. f + WordSize - 1
<1> DEFINE area == f .. f + WordSize - 1
           n1 == Holding(m, area, c)
           n == ClearPage(m, f, u, c)
<1>1. /\ f \in Frames /\ f \in Nat /\ WordSize \in Nat
      /\ f + WordSize <= Span /\ f + WordSize <= LastFrame + 1
  BY Sizes, RoomyFrame
<1>2. Area(m, Kptov(f), WordSize) = area /\ NONE \notin area
  BY <1>1, KernelArea
<1>3. n = Holding(n1, {f}, u)
  BY <1>2 DEF ClearPage
<1> HIDE DEF area
<1>4. Holds(m, n1, area, c)
  BY HoldingIs DEF Contents
<1>5. n1 \in Mem
  BY <1>4 DEF Holds
<1> HIDE DEF n1, n
<1>6. Holds(n1, n, {f}, u)
  BY <1>3, <1>5, HoldingIs DEF Contents
<1>7. /\ n \in Mem /\ n.type = m.type /\ n.addr = m.addr /\ n.pd = m.pd /\ n.pt = m.pt
      /\ n.owner = m.owner /\ n.index = m.index /\ n.halt = "no"
  BY <1>4, <1>6 DEF Holds
<1>8. n.contents = [g \in Frames |-> IF g = f THEN u ELSE IF g \in area THEN c ELSE m.contents[g]]
  <2>1. n.contents = [g \in Frames |-> IF g \in {f} THEN u ELSE n1.contents[g]]
    BY <1>6 DEF Holds
  <2>2. n1.contents = [g \in Frames |-> IF g \in area THEN c ELSE m.contents[g]]
    BY <1>4 DEF Holds
  <2> QED
    BY <2>1, <2>2
<1> QED
  BY <1>2, <1>7, <1>8 DEF Clears, n, area

\* When nobody uses what it runs over.
LEMMA ClearedCore ==
  ASSUME Layout, NEW m, Core(m), NEW f, NEW u, m.owner[f] = u, NEW c, NEW n, Clears(m, n, f, u, c),
         \A g \in f .. f + WordSize - 1 : g \in Frames /\ g # f => m.owner[g] = "none"
  PROVE  Core(n) /\ Keeps(m, n) /\ (Intact(m) => Intact(n))
<1>1. /\ n \in Mem /\ n.type = m.type /\ n.addr = m.addr /\ n.pd = m.pd /\ n.pt = m.pt
      /\ n.owner = m.owner /\ n.halt = "no"
  BY DEF Clears
<1>2. Free(n) = Free(m)
  BY <1>1 DEF Free
<1>3. Core(n)
  BY <1>1, <1>2 DEF Core, HighOK, FreeOK, UsedOK, Below
<1>4. Keeps(m, n)
  BY <1>1, <1>2 DEF Keeps
<1>5. ASSUME Intact(m), NEW g \in Frames, m.owner[g] # "none" PROVE n.contents[g] = m.owner[g]
  BY <1>5 DEF Clears, Intact
<1> QED
  BY <1>1, <1>3, <1>4, <1>5 DEF Intact

\* A page of palloc_kern for use u.
Grants(m, n, f, u, c) ==
  /\ n \in Mem /\ n.addr = m.addr /\ n.pd = m.pd /\ n.pt = m.pt /\ n.index = m.index
  /\ n.halt = "no"
  /\ n.owner = [g \in Frames |-> IF g \in {f} THEN u ELSE m.owner[g]]
  /\ n.contents = [g \in Frames |-> IF g = f THEN u
                                    ELSE IF g \in f .. f + WordSize - 1 THEN c ELSE m.contents[g]]

LEMMA Granted ==
  ASSUME Layout, NEW m, Core(m), Free(m) # {}, NEW u \in Uses \ {"none"},
         NEW c \in {"zero", "copied"}
  PROVE  LET f == NextFrame(m) n == PallocKern(m, u, c)
         IN  /\ TakesNext(m, Taken(m), f) /\ Grants(m, n, f, u, c) /\ n.type = Taken(m).type
             /\ Core(n) /\ Keeps(m, n) /\ (Intact(m) => Intact(n))
<1> DEFINE f == NextFrame(m)
           e == NextEntry(m)
           k == KernPage(m, e, u)
           n == PallocKern(m, u, c)
<1>1. /\ e \in Free(m) /\ f = m.addr[e] /\ TakesNext(m, Taken(m), f)
      /\ Gets(m, k, e, f, u) /\ Core(k) /\ Keeps(m, k) /\ (Intact(m) => Intact(k))
  BY PageTaken
<1>2. n = ClearPage(k, f, u, c) /\ Taken(m) = Marked(m, e)
  BY DEF PallocKern, Taken
<1> HIDE DEF f, e, k, n
<1>3. Roomy(f) /\ f \in Frames /\ u \in Uses
  <2>1. Roomy(f)
    BY <1>1 DEF Core, FreeOK
  <2> QED
    BY <2>1 DEF Roomy
<1>4. k \in Mem /\ k.halt = "no" /\ HighOK(k)
  BY <1>1 DEF Core
<1>5. Clears(k, n, f, u, c)
  BY <1>2, <1>3, <1>4, PageCleared
<1>6. /\ n \in Mem /\ n.type = k.type /\ n.addr = m.addr /\ n.pd = m.pd /\ n.pt = m.pt
      /\ n.owner = k.owner /\ n.index = m.index /\ n.halt = "no"
  BY <1>1, <1>5 DEF Clears, Gets
<1>7. /\ k.owner = [g \in Frames |-> IF g \in {f} THEN u ELSE m.owner[g]]
      /\ k.contents = [g \in Frames |-> IF g \in {f} THEN u ELSE m.contents[g]]
      /\ k.type = Marked(m, e).type
  BY <1>1 DEF Gets
<1>8. n.contents = [g \in Frames |-> IF g = f THEN u
                      ELSE IF g \in f .. f + WordSize - 1 THEN c ELSE m.contents[g]]
  <2>1. n.contents = [g \in Frames |-> IF g = f THEN u
                        ELSE IF g \in f .. f + WordSize - 1 THEN c ELSE k.contents[g]]
    BY <1>5 DEF Clears
  <2> QED
    BY <1>7, <2>1
<1>9. Grants(m, n, f, u, c) /\ n.type = Taken(m).type
  BY <1>2, <1>6, <1>7, <1>8 DEF Grants
<1>10. \A g \in f .. f + WordSize - 1 : g \in Frames /\ g # f => k.owner[g] = "none"
  BY <1>1, <1>7, NothingBehind
<1>11. k.owner[f] = u
  BY <1>3, <1>7
<1>12. Core(n) /\ Keeps(k, n) /\ (Intact(k) => Intact(n))
  BY <1>1, <1>5, <1>10, <1>11, ClearedCore
<1>13. Keeps(m, n)
  BY <1>1, <1>12, KeepsTwice
<1> QED
  BY <1>1, <1>9, <1>12, <1>13 DEF n, f
-------------------------------------------------------------------------------
(* The tables of boot/paging.asm. *)

\* What was never a page table has no entries.
Blank(m) ==
  \A t \in Frames : t < TablesFrame /\ m.owner[t] # "page table" => \A e \in Pt : m.pt[t][e] = NONE

LEMMA BootEntry ==
  ASSUME Layout, NEW f \in Frames, f < Span
  PROVE  LET d == pd_no(Kptov(f))
         IN  /\ BootPd[d] \in Frames /\ TablesFrame <= BootPd[d]
             /\ BootPt[BootPd[d]][pt_no(Kptov(f))] = f
<1> DEFINE H == pd_no(KernBase)
<1>1. /\ PtSpan \in Nat \ {0} /\ f \in Nat /\ H \in Nat /\ KernBase = PtSpan * H
      /\ PagesCount \in Nat \ {0} /\ PagesCount <= H
  BY Machine DEF Frames
<1> HIDE DEF H
<1>2. PICK a \in Nat, b \in 0 .. PtSpan - 1 : f = PtSpan * a + b
  <2>1. PtSpan \in Nat \ {0} /\ f \in Nat
    BY <1>1
  <2> QED
    BY <2>1, Divided
<1>3. a < PagesCount
  <2> SUFFICES ASSUME ~ (a < PagesCount) PROVE FALSE
    OBVIOUS
  <2>1. PagesCount = a \/ PtSpan * PagesCount + PtSpan <= PtSpan * a
    BY <1>1, <1>2, Times
  <2>2. PtSpan * PagesCount \in Nat /\ PtSpan * a \in Nat /\ f < PtSpan * PagesCount
    BY <1>1, <1>2 DEF Span
  <2>3. CASE PagesCount = a
    <3>1. f < PtSpan * a
      BY <2>2, <2>3
    <3> QED
      BY <1>1, <1>2, <2>2, <3>1
  <2>4. CASE PtSpan * PagesCount + PtSpan <= PtSpan * a
    BY <1>1, <1>2, <2>2, <2>4
  <2> QED
    BY <2>1, <2>3, <2>4
<1>4. Kptov(f) = PtSpan * (H + a) + b
  <2>1. PtSpan * (H + a) = PtSpan * H + PtSpan * a
    BY <1>1, <1>2
  <2>2. Kptov(f) = PtSpan * H + (PtSpan * a + b)
    BY <1>1, <1>2 DEF Kptov
  <2>3. PICK x \in Nat, y \in Nat : x = PtSpan * H /\ y = PtSpan * a
    BY <1>1, <1>2
  <2>4. x + (y + b) = (x + y) + b
    OBVIOUS
  <2> QED
    BY <2>1, <2>2, <2>3, <2>4, Zenon
<1>5. pd_no(Kptov(f)) = H + a /\ pt_no(Kptov(f)) = b
  <2>1. PICK q \in Nat : q = H + a
    BY <1>1, <1>2
  <2>2. PICK w : w = PtSpan * q + b
    OBVIOUS
  <2>3. w \div PtSpan = q /\ w % PtSpan = b
    <3>1. PtSpan \in Nat \ {0}
      BY <1>1
    <3>2. (PtSpan * q + b) \div PtSpan = q /\ (PtSpan * q + b) % PtSpan = b
      BY <3>1, DividedIs
    <3> QED
      BY <2>2, <3>2
  <2>4. Kptov(f) = w
    BY <1>4, <2>1, <2>2, Zenon
  <2> QED
    BY <2>1, <2>3, <2>4 DEF pd_no, pt_no
<1> DEFINE t == KernTables + a
<1>6. BootPd[H + a] = t
  <2>1. H + a \in Pd
    BY <1>5, KernelAddress
  <2>2. H \in Nat /\ PagesCount \in Nat /\ PagesCount <= H
    BY <1>1
  <2>3. PICK d \in Nat : d = H + a
    BY <1>1, <1>2
  <2>4. BootPd[d] = IF d < PagesCount THEN TablesFrame + d
                    ELSE IF d - H \in 0 .. PagesCount - 1 THEN KernTables + d - H ELSE NONE
    BY <2>1, <2>3 DEF BootPd, H
  <2>5. ~ (d < PagesCount) /\ d - H \in 0 .. PagesCount - 1
    BY <1>3, <2>2, <2>3
  <2>6. KernTables \in Nat /\ H \in Nat /\ a \in Nat
    BY <1>1, <1>2, Sizes
  <2>7. KernTables + d - H = t
    BY <2>3, <2>6
  <2> QED
    BY <2>3, <2>4, <2>5, <2>7, Zenon
<1>7. t \in Frames /\ TablesFrame <= t /\ ~ (t < KernTables) /\ t - KernTables = a
  BY <1>1, <1>2, <1>3, Sizes DEF Frames
<1>8. a \in 0 .. PagesCount - 1
  BY <1>1, <1>2, <1>3
<1> HIDE DEF t
<1>9. b \in Pt /\ (a * PtSpan) + b = f
  BY <1>1, <1>2 DEF Pt
<1>10. BootPt[t][b] = f
  <2>1. BootPt[t] = [e \in Pt |-> IF a \in 0 .. PagesCount - 1 /\ (a * PtSpan) + e \in Frames
                                 THEN (a * PtSpan) + e ELSE NONE]
    BY <1>7 DEF BootPt
  <2> QED
    BY <1>8, <1>9, <2>1
<1> QED
  BY <1>5, <1>6, <1>7, <1>10

\* The memory the machine starts with.
LEMMA Booted ==
  ASSUME Layout
  PROVE  /\ BootMem \in Mem /\ BootMem.halt = "no" /\ BootMem.index = 0 /\ Free(BootMem) = {}
         /\ HighOK(BootMem) /\ UsedOK(BootMem) /\ Intact(BootMem) /\ Blank(BootMem)
         /\ \A f \in Frames : BootMem.owner[f] # "none" =>
              f < Span /\ (f < KernelPages \/ f = VideoFrame \/ TablesFrame <= f)
         /\ \A d \in Low : PagesCount <= d => BootMem.pd[d] = NONE
         /\ \A f \in Frames : KernelPages <= f /\ f < TablesFrame /\ f # VideoFrame =>
              BootMem.contents[f] = "zero"
<1>1. /\ BootMem.type = [i \in Entries |-> "none"] /\ BootMem.addr = [i \in Entries |-> 0]
      /\ BootMem.pd = BootPd /\ BootMem.pt = BootPt
      /\ BootMem.contents = [f \in Frames |-> IF BootUse[f] = "none" THEN "zero" ELSE BootUse[f]]
      /\ BootMem.owner = BootUse /\ BootMem.index = 0 /\ BootMem.halt = "no"
  BY DEF BootMem
<1>2. BootUse \in [Frames -> Uses]
  BY DEF BootUse, Uses
<1>3. BootPd \in [Pd -> Frames \cup {NONE}]
  <2>1. ASSUME NEW d \in Pd PROVE BootPd[d] \in Frames \cup {NONE}
    <3>1. d \in Nat /\ pd_no(KernBase) \in Nat /\ pd_no(Kptov(LastFrame)) \in Nat
      <4>1. Kptov(LastFrame) \in Nat
        BY Sizes DEF Kptov
      <4> QED
        BY <4>1, Sizes, Parts DEF Pd
    <3>2. CASE d < PagesCount
      BY <3>1, <3>2, Sizes DEF BootPd, Frames
    <3>3. CASE ~ (d < PagesCount) /\ d - pd_no(KernBase) \in 0 .. PagesCount - 1
      <4>1. BootPd[d] = KernTables + d - pd_no(KernBase)
        BY <3>3 DEF BootPd
      <4>2. KernTables + d - pd_no(KernBase) \in Frames
        BY <3>1, <3>3, Sizes DEF Frames
      <4> QED
        BY <4>1, <4>2
    <3>4. CASE ~ (d < PagesCount) /\ ~ (d - pd_no(KernBase) \in 0 .. PagesCount - 1)
      BY <3>4 DEF BootPd
    <3> QED
      BY <3>2, <3>3, <3>4
  <2>2. BootPd = [d \in Pd |-> BootPd[d]]
    BY DEF BootPd
  <2> QED
    BY <2>1, <2>2
<1>4. BootPt \in [Frames -> [Pt -> Frames \cup {NONE}]]
  BY DEF BootPt
<1>5. BootMem \in Mem
  <2>1. 0 \in Frames
    BY Sizes DEF Frames
  <2>2. BootMem.contents \in [Frames -> Uses \cup {"zero", "copied", "garbage table"}]
    BY <1>1, <1>2
  <2>3. BootMem.type \in [Entries -> {"none", "M_FREE", "M_ALLOCATED", "M_RESERVED"}]
        /\ BootMem.addr \in [Entries -> Frames]
    BY <1>1, <2>1
  <2>4. PICK a \in [Entries -> {"none", "M_FREE", "M_ALLOCATED", "M_RESERVED"}],
             b \in [Entries -> Frames],
             c \in [Frames -> Uses \cup {"zero", "copied", "garbage table"}] :
          a = BootMem.type /\ b = BootMem.addr /\ c = BootMem.contents
    BY <2>2, <2>3
  <2>5. BootMem = [type |-> a, addr |-> b, pd |-> BootPd, pt |-> BootPt,
                   contents |-> c, owner |-> BootUse, index |-> 0, halt |-> "no"]
    BY <1>1, <2>4 DEF BootMem
  <2>6. [type |-> a, addr |-> b, pd |-> BootPd, pt |-> BootPt,
         contents |-> c, owner |-> BootUse, index |-> 0, halt |-> "no"] \in Mem
    BY <1>2, <1>3, <1>4, IsMem
  <2> QED
    BY <2>5, <2>6, Zenon
<1>6. Free(BootMem) = {}
  BY <1>1 DEF Free
<1>7. HighOK(BootMem)
  BY <1>1, BootEntry DEF HighOK
<1>8. ASSUME NEW f \in Frames, BootUse[f] # "none"
      PROVE  f < Span /\ (f < KernelPages \/ f = VideoFrame \/ TablesFrame <= f)
  <2>1. \/ f < KernelPages \/ f = VideoFrame
        \/ f - TablesFrame \in 0 .. PagesCount - 1 \/ f - KernTables \in 0 .. PagesCount - 1
    BY <1>8 DEF BootUse
  <2>2. f \in Nat
    BY DEF Frames
  <2> QED
    BY <2>1, <2>2, Sizes
<1>9. UsedOK(BootMem)
  BY <1>1, <1>8 DEF UsedOK
<1>10. Intact(BootMem)
  BY <1>1 DEF Intact
<1>11. Blank(BootMem)
  <2> SUFFICES ASSUME NEW t \in Frames, t < TablesFrame PROVE \A e \in Pt : BootPt[t][e] = NONE
    BY <1>1 DEF Blank
  <2>1. t < KernTables /\ ~ (t - TablesFrame \in 0 .. PagesCount - 1)
    BY Sizes DEF Frames
  <2> QED
    BY <2>1 DEF BootPt
<1>12. ASSUME NEW d \in Low, PagesCount <= d PROVE BootPd[d] = NONE
  <2>1. pd_no(KernBase) \in Nat
    BY Machine
  <2>2. d \in Pd
    BY LowInPd
  <2>3. ~ (d < PagesCount) /\ ~ (d - pd_no(KernBase) \in 0 .. PagesCount - 1)
    BY <1>12, <2>1, Sizes DEF Low
  <2> QED
    BY <2>2, <2>3 DEF BootPd
<1>13. ASSUME NEW f \in Frames, KernelPages <= f, f < TablesFrame, f # VideoFrame
       PROVE  BootUse[f] = "none"
  <2>1. /\ ~ (f < KernelPages) /\ ~ (f - TablesFrame \in 0 .. PagesCount - 1)
        /\ ~ (f - KernTables \in 0 .. PagesCount - 1)
    BY <1>13, Sizes DEF Frames
  <2> QED
    BY <1>13, <2>1 DEF BootUse
<1> QED
  BY <1>1, <1>5, <1>6, <1>7, <1>8, <1>9, <1>10, <1>11, <1>12, <1>13
-------------------------------------------------------------------------------
(* The memory map. *)

\* A region the machine has memory for.
Fitting == {r \in Region : r.Base + r.Length <= LastFrame + 1}

LEMMA UsableFits ==
  ASSUME NEW map \in Maps
  PROVE  Usable(map) \in Seq(Fitting)
<1>1. map \in Seq(Fitting) /\ Len(map) \in Nat
  <2>1. map \in Seq(Region) /\ \A i \in DOMAIN map : map[i].Base + map[i].Length <= LastFrame + 1
    BY PagingAssumption
  <2>2. Len(map) \in Nat /\ DOMAIN map = 1 .. Len(map) /\ \A i \in 1 .. Len(map) : map[i] \in Region
    BY <2>1, LenProperties
  <2>3. \A i \in 1 .. Len(map) : map[i] \in Fitting
    BY <2>1, <2>2 DEF Fitting
  <2>4. map = [i \in 1 .. Len(map) |-> map[i]]
    BY <2>1, <2>2
  <2>5. map \in [1 .. Len(map) -> Fitting]
    BY <2>3, <2>4
  <2> QED
    BY <2>2, <2>5, IsSequence
<1> DEFINE n == Len(map)
           X == Seq(Fitting)
           Op(i, s) == IF map[i].Type = 1 THEN Append(s, map[i]) ELSE s
           body(F) == [i \in 0 .. n |-> IF i = 0 THEN <<>> ELSE Op(i, F[i - 1])]
           g == [p \in (1 .. n) \X X |-> Op(p[1], p[2])]
<1>2. ASSUME NEW i \in 1 .. n, NEW s \in X PROVE Op(i, s) \in X
  <2>1. map[i] \in Fitting
    BY <1>1
  <2> QED
    BY <2>1, AppendProperties
<1>3. Usable(map) = (CHOOSE F : F = body(F))[n]
  BY DEF Usable
<1> HIDE DEF Op, X
<1>4. g \in [(1 .. n) \X X -> X] /\ \A i \in 1 .. n, s \in X : g[<<i, s>>] = Op(i, s)
  BY <1>2
<1>5. <<>> \in X
  BY EmptySeq DEF X
<1> HIDE DEF g
<1>6. PICK F \in [0 .. n -> X] : Recurs(F, n, <<>>, g)
  BY <1>1, <1>4, <1>5, Recursion
<1>7. F = body(F)
  <2>1. ASSUME NEW i \in 1 .. n PROVE F[i] = Op(i, F[i - 1])
    <3>1. i - 1 \in 0 .. n
      BY <1>1
    <3>2. F[i - 1] \in X
      BY <1>6, <3>1
    <3> QED
      BY <1>4, <1>6, <3>2 DEF Recurs
  <2>2. F[0] = <<>>
    BY <1>6 DEF Recurs
  <2> QED
    BY <1>1, <1>6, <2>1, <2>2
<1> DEFINE N == CHOOSE G : G = body(G)
<1>8. N = body(N)
  BY <1>7
<1> HIDE DEF N
<1>9. N[0] = <<>> /\ \A i \in 1 .. n : N[i] = Op(i, N[i - 1])
  BY <1>1, <1>8
<1> DEFINE P == {i \in 0 .. n : N[i] \in X}
<1>10. 0 \in P /\ \A i \in 1 .. n : i - 1 \in P => i \in P
  BY <1>1, <1>2, <1>5, <1>9
<1> HIDE DEF P
<1>11. \A i \in 0 .. n : i \in P
  BY <1>1, <1>10, UpTo
<1>12. N[n] \in X
  BY <1>1, <1>11 DEF P
<1> QED
  BY <1>3, <1>12 DEF N, X

\* The pages of some regions are those the regions have.
UsablePages(rs) == {f \in Frames : UsablePage(rs, f)}

LEMMA PagesAreUsable ==
  ASSUME NEW rs \in Seq(Fitting)
  PROVE  PagesOf(rs) \in Seq(UsablePages(rs))
<1>1. Len(rs) \in Nat /\ \A i \in 1 .. Len(rs) : rs[i] \in Fitting
  BY LenProperties
<1> DEFINE n == Len(rs)
           X == Seq(UsablePages(rs))
           Op(i, s) == s \o [k \in 1 .. rs[i].Length |-> rs[i].Base + k - 1]
           body(F) == [i \in 0 .. n |-> IF i = 0 THEN <<>> ELSE Op(i, F[i - 1])]
           g == [p \in (1 .. n) \X X |-> Op(p[1], p[2])]
<1>2. ASSUME NEW i \in 1 .. n, NEW s \in X PROVE Op(i, s) \in X
  <2>1. PICK b \in Nat, c \in Nat : b = rs[i].Base /\ c = rs[i].Length /\ b + c <= LastFrame + 1
    BY <1>1 DEF Fitting, Region
  <2>2. [k \in 1 .. c |-> b + k - 1] \in [1 .. c -> UsablePages(rs)]
    <3>1. LastFrame \in Nat /\ b \in Nat /\ c \in Nat /\ b + c <= LastFrame + 1
      BY <2>1, PagingAssumption
    <3>2. ASSUME NEW k \in 1 .. c PROVE b + k - 1 \in UsablePages(rs)
      <4>1. b + k - 1 \in 0 .. LastFrame /\ b + k - 1 \in b .. b + c - 1
        BY <3>1
      <4>2. i \in DOMAIN rs
        BY <1>1
      <4> QED
        BY <2>1, <4>1, <4>2 DEF UsablePages, UsablePage, Frames
    <3> QED
      BY <3>2
  <2>3. [k \in 1 .. c |-> b + k - 1] \in Seq(UsablePages(rs))
    BY <2>2, IsSequence
  <2> QED
    BY <2>1, <2>3, ConcatProperties
<1>3. PagesOf(rs) = (CHOOSE F : F = body(F))[n]
  BY DEF PagesOf
<1> HIDE DEF Op, X
<1>4. g \in [(1 .. n) \X X -> X] /\ \A i \in 1 .. n, s \in X : g[<<i, s>>] = Op(i, s)
  BY <1>2
<1>5. <<>> \in X
  BY EmptySeq DEF X
<1> HIDE DEF g
<1>6. PICK F \in [0 .. n -> X] : Recurs(F, n, <<>>, g)
  BY <1>1, <1>4, <1>5, Recursion
<1>7. F = body(F)
  <2>1. ASSUME NEW i \in 1 .. n PROVE F[i] = Op(i, F[i - 1])
    <3>1. i - 1 \in 0 .. n
      BY <1>1
    <3>2. F[i - 1] \in X
      BY <1>6, <3>1
    <3> QED
      BY <1>4, <1>6, <3>2 DEF Recurs
  <2>2. F[0] = <<>>
    BY <1>6 DEF Recurs
  <2> QED
    BY <1>1, <1>6, <2>1, <2>2
<1> DEFINE N == CHOOSE G : G = body(G)
<1>8. N = body(N)
  BY <1>7
<1> HIDE DEF N
<1>9. N[0] = <<>> /\ \A i \in 1 .. n : N[i] = Op(i, N[i - 1])
  <2>1. n \in Nat /\ 0 \in 0 .. n /\ \A i \in 1 .. n : i \in 0 .. n /\ i # 0
    BY <1>1
  <2>2. \A i \in 0 .. n : N[i] = IF i = 0 THEN <<>> ELSE Op(i, N[i - 1])
    BY <1>8
  <2> QED
    BY <2>1, <2>2
<1> DEFINE P == {i \in 0 .. n : N[i] \in X}
<1>10. 0 \in P /\ \A i \in 1 .. n : i - 1 \in P => i \in P
  BY <1>1, <1>2, <1>5, <1>9
<1> HIDE DEF P
<1>11. \A i \in 0 .. n : i \in P
  BY <1>1, <1>10, UpTo
<1>12. N[n] \in X
  BY <1>1, <1>11 DEF P
<1> QED
  BY <1>3, <1>12 DEF N, X

LEMMA PagesAreFrames ==
  ASSUME NEW rs \in Seq(Fitting)
  PROVE  PagesOf(rs) \in Seq(Frames)
<1> DEFINE p == PagesOf(rs)
<1>1. p \in Seq(UsablePages(rs))
  BY PagesAreUsable
<1> HIDE DEF p
<1>2. Len(p) \in Nat /\ p \in [1 .. Len(p) -> UsablePages(rs)]
  BY <1>1, LenProperties
<1>3. p \in [1 .. Len(p) -> Frames]
  BY <1>2 DEF UsablePages
<1> QED
  BY <1>2, <1>3, IsSequence DEF p
-------------------------------------------------------------------------------
(* setupAvailablePages. *)

LEMMA ReservedIs ==
  ASSUME NEW m \in Mem, NEW i \in Entries
  PROVE  /\ Reserved(m, i) \in Mem /\ SameButTypes(m, Reserved(m, i))
         /\ \A j \in Entries : Reserved(m, i).type[j] = IF j = i THEN "M_RESERVED" ELSE m.type[j]
<1> DEFINE t == [m.type EXCEPT ![i] = "M_RESERVED"]
<1>1. /\ t \in [Entries -> {"none", "M_FREE", "M_ALLOCATED", "M_RESERVED"}]
      /\ \A j \in Entries : t[j] = IF j = i THEN "M_RESERVED" ELSE m.type[j]
  BY Fields
<1>2. Reserved(m, i) = [m EXCEPT !.type = t]
  BY DEF Reserved
<1> HIDE DEF t
<1>3. Reserved(m, i) \in Mem /\ SameButTypes(m, Reserved(m, i)) /\ Reserved(m, i).type = t
  BY <1>1, <1>2 DEF Mem, SameButTypes
<1> QED
  BY <1>1, <1>3

\* Reserving an entry and mapping its frame where it is mapped already.
LEMMA ReservedMapped ==
  ASSUME Layout, NEW m \in Mem, HighOK(m), m.halt = "no", NEW i \in Entries, i < Span, i \in Frames
  PROVE  MapPage(Reserved(m, i), i, Kptov(i)) = Reserved(m, i) /\ HighOK(Reserved(m, i))
<1>1. Reserved(m, i) \in Mem /\ SameButTypes(m, Reserved(m, i))
  BY ReservedIs
<1>2. HighOK(Reserved(m, i)) /\ Reserved(m, i).halt = "no"
  BY <1>1 DEF HighOK, SameButTypes
<1> QED
  BY <1>1, <1>2, KernelMapped

\* n is m with the first k entries reserved.
Reserves(m, n, k) ==
  /\ n \in Mem /\ SameButTypes(m, n)
  /\ \A j \in Entries : n.type[j] = IF j < k THEN "M_RESERVED" ELSE m.type[j]

LEMMA KernelReserved ==
  ASSUME Layout, NEW m \in Mem, HighOK(m), m.halt = "no"
  PROVE  Reserves(m, ReserveKernel(m), KernelPages)
<1> DEFINE K == KernelPages
           Op(i, y) == MapPage(Reserved(y, i - 1), i - 1, Kptov(i - 1))
           body(F) == [i \in 0 .. K |-> IF i = 0 THEN m ELSE Op(i, F[i - 1])]
           upto(F, k) == F = [i \in 0 .. k |-> IF i = 0 THEN m ELSE Op(i, F[i - 1])]
           Q == {k \in 0 .. K : \E F : upto(F, k)}
<1>1. K \in Nat
  BY Sizes
<1>2. ReserveKernel(m) = (CHOOSE F : F = body(F))[K]
  BY DEF ReserveKernel
<1> HIDE DEF Op
<1>3. 0 \in Q
  <2> DEFINE F == [i \in 0 .. 0 |-> m]
  <2>1. F = [i \in 0 .. 0 |-> IF i = 0 THEN m ELSE Op(i, F[i - 1])]
    OBVIOUS
  <2>2. \E G : upto(G, 0)
    BY <2>1
  <2> QED
    BY <1>1, <2>2
<1>4. ASSUME NEW k \in 1 .. K, k - 1 \in Q PROVE k \in Q
  <2>1. PICK F : upto(F, k - 1)
    BY <1>4
  <2> DEFINE G == [i \in 0 .. k |-> IF i = 0 THEN m ELSE Op(i, F[i - 1])]
  <2>2. ASSUME NEW i \in 0 .. k - 1 PROVE G[i] = F[i]
    BY <1>1, <2>1
  <2>3. ASSUME NEW i \in 1 .. k PROVE G[i] = Op(i, G[i - 1])
    <3>1. i - 1 \in 0 .. k - 1 /\ i \in 0 .. k /\ i # 0
      BY <1>1
    <3> QED
      BY <2>2, <3>1
  <2>4. G[0] = m
    BY <1>1
  <2>5. G = [i \in 0 .. k |-> G[i]]
    OBVIOUS
  <2> HIDE DEF G
  <2>6. \A i \in 0 .. k : G[i] = IF i = 0 THEN m ELSE Op(i, G[i - 1])
    BY <1>1, <2>3, <2>4
  <2>7. [i \in 0 .. k |-> G[i]] = [i \in 0 .. k |-> IF i = 0 THEN m ELSE Op(i, G[i - 1])]
    BY <2>6
  <2>8. upto(G, k)
    BY <2>5, <2>7
  <2> QED
    BY <1>1, <2>8
<1>5. \E F : F = body(F)
  <2> HIDE DEF Q
  <2>1. K \in Q
    BY <1>1, <1>3, <1>4, UpTo
  <2> QED
    BY <2>1 DEF Q
<1> DEFINE N == CHOOSE F : F = body(F)
<1>6. N = body(N)
  BY <1>5
<1> HIDE DEF N
<1>7. N[0] = m /\ \A i \in 1 .. K : N[i] = Op(i, N[i - 1])
  BY <1>1, <1>6
<1> DEFINE P == {i \in 0 .. K : Reserves(m, N[i], i)}
<1>8. 0 \in P
  <2>1. \A j \in Entries : ~ (j < 0)
    BY DEF Entries
  <2>2. SameButTypes(m, m)
    BY DEF SameButTypes
  <2> QED
    BY <1>1, <1>7, <2>1, <2>2 DEF Reserves
<1>9. ASSUME NEW i \in 1 .. K, i - 1 \in P PROVE i \in P
  <2>1. PICK y : y = N[i - 1]
    OBVIOUS
  <2>2. y \in Mem /\ SameButTypes(m, y) /\ Reserves(m, y, i - 1)
    BY <1>9, <2>1 DEF Reserves
  <2>3. HighOK(y) /\ y.halt = "no"
    BY <2>2 DEF HighOK, SameButTypes
  <2>4. i - 1 \in Entries /\ i - 1 < Span /\ i - 1 \in Frames
    <3>1. K \in 1 .. MAX_PHYS_PAGES /\ MAX_PHYS_PAGES \in Nat
      BY PagingAssumption
    <3> QED
      BY <3>1, Sizes DEF Entries, Frames
  <2>5. N[i] = Reserved(y, i - 1)
    BY <1>7, <2>1, <2>2, <2>3, <2>4, ReservedMapped DEF Op
  <2>6. /\ N[i] \in Mem /\ SameButTypes(y, N[i])
        /\ \A j \in Entries : N[i].type[j] = IF j = i - 1 THEN "M_RESERVED" ELSE y.type[j]
    BY <2>2, <2>4, <2>5, ReservedIs
  <2>7. SameButTypes(m, N[i])
    BY <2>2, <2>6 DEF SameButTypes
  <2>8. \A j \in Entries : N[i].type[j] = IF j < i THEN "M_RESERVED" ELSE m.type[j]
    <3> SUFFICES ASSUME NEW j \in Entries
                 PROVE  N[i].type[j] = IF j < i THEN "M_RESERVED" ELSE m.type[j]
      OBVIOUS
    <3>1. y.type[j] = IF j < i - 1 THEN "M_RESERVED" ELSE m.type[j]
      BY <2>2 DEF Reserves
    <3>2. j \in Nat /\ (j < i <=> j < i - 1 \/ j = i - 1)
      BY DEF Entries
    <3> QED
      BY <2>6, <3>1, <3>2
  <2> QED
    BY <2>6, <2>7, <2>8 DEF Reserves
<1> HIDE DEF P
<1>10. K \in P
  BY <1>1, <1>8, <1>9, UpTo
<1> QED
  BY <1>2, <1>10 DEF P, N

\* The list of pages.
LEMMA ListedIs ==
  ASSUME Layout, NEW m \in Mem, NEW p \in Seq(Frames)
  PROVE  LET n == Listed(m, p)
         IN  /\ n \in Mem /\ n.pd = m.pd /\ n.pt = m.pt /\ n.contents = m.contents
             /\ n.owner = m.owner /\ n.index = m.index /\ n.halt = m.halt
             /\ \A i \in Entries : n.type[i] = IF i < Len(p) THEN "M_FREE" ELSE "none"
             /\ \A i \in Entries : i < Len(p) => n.addr[i] = p[i + 1]
<1> DEFINE n == Listed(m, p)
           t == [i \in Entries |-> IF i < Len(p) THEN "M_FREE" ELSE "none"]
           a == [i \in Entries |-> IF i < Len(p) THEN p[i + 1] ELSE 0]
<1>1. t \in [Entries -> {"none", "M_FREE", "M_ALLOCATED", "M_RESERVED"}]
      /\ \A i \in Entries : t[i] = IF i < Len(p) THEN "M_FREE" ELSE "none"
  OBVIOUS
<1>2. a \in [Entries -> Frames] /\ \A i \in Entries : i < Len(p) => a[i] = p[i + 1]
  <2>1. ASSUME NEW i \in Entries, i < Len(p) PROVE p[i + 1] \in Frames
    <3>1. Len(p) \in Nat /\ \A j \in 1 .. Len(p) : p[j] \in Frames
      BY LenProperties
    <3>2. i + 1 \in 1 .. Len(p)
      BY <2>1, <3>1 DEF Entries
    <3> QED
      BY <3>1, <3>2
  <2>2. 0 \in Frames
    BY Sizes DEF Frames
  <2> QED
    BY <2>1, <2>2
<1>3. n = [m EXCEPT !.type = t, !.addr = a]
  BY DEF Listed
<1> HIDE DEF t, a
<1>4. /\ n \in Mem /\ n.pd = m.pd /\ n.pt = m.pt /\ n.contents = m.contents
      /\ n.owner = m.owner /\ n.index = m.index /\ n.halt = m.halt /\ n.type = t /\ n.addr = a
  <2> DEFINE l == [m EXCEPT !.type = t]
  <2>1. /\ l \in Mem /\ l.pd = m.pd /\ l.pt = m.pt /\ l.contents = m.contents
        /\ l.owner = m.owner /\ l.index = m.index /\ l.halt = m.halt /\ l.type = t
    BY <1>1 DEF Mem
  <2>2. n = [l EXCEPT !.addr = a]
    BY <1>3
  <2> HIDE DEF l
  <2>3. /\ n \in Mem /\ n.pd = l.pd /\ n.pt = l.pt /\ n.contents = l.contents
        /\ n.owner = l.owner /\ n.index = l.index /\ n.halt = l.halt /\ n.type = l.type
        /\ n.addr = a
    BY <1>2, <2>1, <2>2 DEF Mem
  <2> QED
    BY <2>1, <2>3
<1> QED
  BY <1>1, <1>2, <1>4
\* The pool's frames, and how they are taken: k of them are.
Early(m, k) ==
  /\ KernelPages + k + 1 .. KernelPages + PoolPages \subseteq Free(m)
  /\ \A i \in Free(m) :
       /\ KernelPages + k < i
       /\ i <= KernelPages + PoolPages => m.addr[i] = i
       /\ KernelPages + WordSize <= m.addr[i] => m.contents[m.addr[i]] = "zero"

\* Free are pages of the regions the memory map calls usable.
FromMap(rs, m) == \A i \in Free(m) : UsablePage(rs, m.addr[i])

\* The memory with the pages listed and those of the kernel and the video reserved.
LEMMA Reserving ==
  ASSUME Layout, NEW map \in Maps
  PROVE  LET p == PagesOf(Usable(map))
             r == ReserveVideo(ReserveKernel(Listed(BootMem, p)))
         IN  /\ Core(r) /\ r.pd = BootMem.pd /\ r.pt = BootMem.pt /\ r.owner = BootMem.owner
             /\ r.contents = BootMem.contents /\ r.index = 0
             /\ Free(r) = {i \in Entries : KernelPages <= i /\ i < Len(p) /\ i # VideoFrame}
             /\ \A i \in Free(r) : i <= KernelPages + PoolPages => r.addr[i] = i
             /\ FromMap(Usable(map), r)
<1> DEFINE p == PagesOf(Usable(map))
           l == Listed(BootMem, p)
           k == ReserveKernel(l)
           r == ReserveVideo(k)
<1>1. p \in Seq(Frames) /\ Len(p) \in Nat /\ DOMAIN p = 1 .. Len(p)
  BY UsableFits, PagesAreFrames, LenProperties
<1>0. \A i \in 1 .. Len(p) : p[i] \in UsablePages(Usable(map))
  <2>1. p \in Seq(UsablePages(Usable(map)))
    BY UsableFits, PagesAreUsable
  <2> HIDE DEF p
  <2> QED
    BY <2>1, LenProperties
<1>2. /\ KernelPages + PoolPages < Len(p)
      /\ \A i \in 1 .. MAX_PHYS_PAGES : i \in DOMAIN p =>
           /\ \A j \in 1 .. i - 1 : p[j] < p[i]
           /\ i <= KernelPages + 1 + PoolPages => p[i] = i - 1
           /\ p[i] + WordSize <= TablesFrame
           /\ VideoFrame < p[i] \/ p[i] + WordSize <= VideoFrame
  BY DEF Layout
<1> HIDE DEF p
<1>3. /\ l \in Mem /\ l.pd = BootMem.pd /\ l.pt = BootMem.pt /\ l.contents = BootMem.contents
      /\ l.owner = BootMem.owner /\ l.index = 0 /\ l.halt = "no"
      /\ \A i \in Entries : l.type[i] = IF i < Len(p) THEN "M_FREE" ELSE "none"
      /\ \A i \in Entries : i < Len(p) => l.addr[i] = p[i + 1]
  <2>1. BootMem \in Mem /\ BootMem.index = 0 /\ BootMem.halt = "no"
    BY Booted
  <2>2. /\ l \in Mem /\ l.pd = BootMem.pd /\ l.pt = BootMem.pt /\ l.contents = BootMem.contents
        /\ l.owner = BootMem.owner /\ l.index = BootMem.index /\ l.halt = BootMem.halt
        /\ \A i \in Entries : l.type[i] = IF i < Len(p) THEN "M_FREE" ELSE "none"
        /\ \A i \in Entries : i < Len(p) => l.addr[i] = p[i + 1]
    BY <1>1, <2>1, ListedIs
  <2> QED
    BY <2>1, <2>2
<1>4. HighOK(l)
  BY <1>3, Booted DEF HighOK
<1> HIDE DEF l
<1>5. Reserves(l, k, KernelPages)
  BY <1>3, <1>4, KernelReserved
<1> HIDE DEF k
<1>6. HighOK(k) /\ k \in Mem /\ k.halt = "no"
  BY <1>3, <1>4, <1>5 DEF HighOK, Reserves, SameButTypes
<1>7. VideoFrame \in Entries /\ VideoFrame \in Frames /\ VideoFrame < Span
  BY PagingAssumption, Sizes
<1>8. r = Reserved(k, VideoFrame) /\ HighOK(r)
  BY <1>6, <1>7, ReservedMapped DEF ReserveVideo
<1> HIDE DEF r
<1>9. /\ r \in Mem /\ SameButTypes(k, r)
      /\ \A j \in Entries : r.type[j] = IF j = VideoFrame THEN "M_RESERVED" ELSE k.type[j]
  BY <1>6, <1>7, <1>8, ReservedIs
<1>10. /\ r.pd = BootMem.pd /\ r.pt = BootMem.pt /\ r.owner = BootMem.owner
       /\ r.contents = BootMem.contents /\ r.index = 0 /\ r.halt = "no"
       /\ \A i \in Entries : i < Len(p) => r.addr[i] = p[i + 1]
  BY <1>3, <1>5, <1>9 DEF Reserves, SameButTypes
<1>11. Free(r) = {i \in Entries : KernelPages <= i /\ i < Len(p) /\ i # VideoFrame}
  <2> SUFFICES ASSUME NEW i \in Entries
               PROVE  r.type[i] = "M_FREE" <=> (KernelPages <= i /\ i < Len(p) /\ i # VideoFrame)
    BY DEF Free
  <2>1. k.type[i] = IF i < KernelPages THEN "M_RESERVED" ELSE l.type[i]
    BY <1>5 DEF Reserves
  <2>2. i \in Nat /\ KernelPages \in Nat /\ (KernelPages <= i <=> ~ (i < KernelPages))
    BY Sizes DEF Entries
  <2>3. l.type[i] = IF i < Len(p) THEN "M_FREE" ELSE "none"
    BY <1>3
  <2>4. r.type[i] = IF i = VideoFrame THEN "M_RESERVED" ELSE k.type[i]
    BY <1>9
  <2> QED
    BY <2>1, <2>2, <2>3, <2>4
<1>12. ASSUME NEW i \in Free(r)
       PROVE  /\ i \in Nat /\ KernelPages <= i /\ i + 1 \in 1 .. MAX_PHYS_PAGES /\ i + 1 \in DOMAIN p
              /\ r.addr[i] = p[i + 1] /\ r.addr[i] \in Frames /\ r.addr[i] \in Nat
  <2>1. i \in Entries /\ i < Len(p) /\ KernelPages <= i
    BY <1>11
  <2>2. i \in Nat /\ i + 1 \in 1 .. MAX_PHYS_PAGES /\ i + 1 \in 1 .. Len(p)
    BY <1>1, <2>1, PagingAssumption DEF Entries
  <2>3. r.addr[i] = p[i + 1] /\ r.addr[i] \in Frames
    BY <1>9, <1>10, <2>1, Fields
  <2> QED
    BY <1>1, <2>1, <2>2, <2>3 DEF Frames
<1>13. ASSUME NEW i \in Free(r) PROVE Roomy(r.addr[i])
  <2>1. r.addr[i] + WordSize <= TablesFrame
        /\ (VideoFrame < r.addr[i] \/ r.addr[i] + WordSize <= VideoFrame)
    BY <1>2, <1>12
  <2>2. KernelPages <= r.addr[i]
    <3>1. KernelPages + 1 \in 1 .. MAX_PHYS_PAGES /\ KernelPages + 1 \in DOMAIN p
          /\ KernelPages + 1 <= KernelPages + 1 + PoolPages /\ KernelPages \in Nat
      <4>1. i + 1 \in 1 .. Len(p)
        BY <1>1, <1>12
      <4>2. KernelPages + 1 \in 1 .. MAX_PHYS_PAGES /\ KernelPages + 1 \in 1 .. Len(p)
        BY <1>1, <1>12, <4>1, Sizes, PagingAssumption
      <4> QED
        BY <1>1, <4>2, Sizes
    <3>2. p[KernelPages + 1] = KernelPages
      BY <1>2, <3>1
    <3>3. CASE i = KernelPages
      BY <1>12, <3>1, <3>2, <3>3
    <3>4. CASE i # KernelPages
      <4>1. KernelPages + 1 \in 1 .. (i + 1) - 1
        BY <1>12, <3>1, <3>4
      <4>2. p[KernelPages + 1] < p[i + 1]
        BY <1>2, <1>12, <4>1
      <4> QED
        BY <1>12, <3>1, <3>2, <4>2
    <3> QED
      BY <3>3, <3>4
  <2> QED
    BY <1>12, <2>1, <2>2 DEF Roomy
<1>14. ASSUME NEW i \in Free(r), NEW j \in Free(r), i < j PROVE r.addr[i] < r.addr[j]
  <2>1. i + 1 \in 1 .. (j + 1) - 1
    BY <1>12, <1>14
  <2>2. p[i + 1] < p[j + 1]
    BY <1>2, <1>12, <2>1
  <2> QED
    BY <1>12, <2>2
<1>15. ASSUME NEW i \in Free(r), i <= KernelPages + PoolPages PROVE r.addr[i] = i
  <2>1. i + 1 <= KernelPages + 1 + PoolPages /\ (i + 1) - 1 = i
    BY <1>12, <1>15, Sizes
  <2>2. p[i + 1] = (i + 1) - 1
    BY <1>2, <1>12, <2>1
  <2> QED
    BY <1>12, <2>1, <2>2
<1>16. FreeOK(r)
  BY <1>13, <1>14 DEF FreeOK
<1>17. UsedOK(r)
  BY <1>10, Booted DEF UsedOK
<1>18. Core(r)
  BY <1>8, <1>9, <1>10, <1>16, <1>17 DEF Core
<1>19. FromMap(Usable(map), r)
  BY <1>0, <1>1, <1>12 DEF FromMap, UsablePages
<1> QED
  BY <1>10, <1>11, <1>15, <1>18, <1>19 DEF r, k, l, p

\* What init_pool starts from, but for the tables of the low half.
\* The directory's entries for the low half are those of the boot tables, and nothing
\* else uses the frames from theirs on.
BootTables(m) ==
  /\ m.index = 0 /\ \A d \in Low : PagesCount <= d => m.pd[d] = NONE
  /\ \A g \in Frames : TablesFrame <= g => m.owner[g] \in {"none", "boot table"}

\* Frames that nobody used and the memory map calls usable are put to use.
Allots(rs, m, n) ==
  \A f \in Frames : n.owner[f] # m.owner[f] => m.owner[f] = "none" /\ UsablePage(rs, f)

LEMMA KeepsAllots ==
  ASSUME NEW rs, NEW m, FromMap(rs, m), NEW n, Keeps(m, n)
  PROVE  FromMap(rs, n) /\ Allots(rs, m, n)
  BY DEF FromMap, Keeps, Allots

LEMMA SetUp ==
  ASSUME Layout, NEW map \in Maps
  PROVE  LET p == PagesOf(Usable(map))
             n == PallocKern(ReserveVideo(ReserveKernel(Listed(BootMem, p))), "base_pd", "copied")
         IN  /\ Core(n) /\ Intact(n) /\ Allots(Usable(map), BootMem, n) /\ Early(n, 0) /\ Blank(n)
             /\ BootTables(n) /\ FromMap(Usable(map), n)
<1> DEFINE p == PagesOf(Usable(map))
           r == ReserveVideo(ReserveKernel(Listed(BootMem, p)))
           n == PallocKern(r, "base_pd", "copied")
           f == NextFrame(r)
<1>1. /\ Core(r) /\ r.pd = BootMem.pd /\ r.pt = BootMem.pt /\ r.owner = BootMem.owner
      /\ r.contents = BootMem.contents /\ r.index = 0
      /\ Free(r) = {i \in Entries : KernelPages <= i /\ i < Len(p) /\ i # VideoFrame}
      /\ \A i \in Free(r) : i <= KernelPages + PoolPages => r.addr[i] = i
      /\ FromMap(Usable(map), r)
  BY Reserving
<1>2. KernelPages + PoolPages < Len(p) /\ Len(p) \in Nat
  <2>1. p \in Seq(Frames)
    BY UsableFits, PagesAreFrames
  <2>2. KernelPages + PoolPages < Len(p)
    BY DEF Layout
  <2> QED
    BY <2>1, <2>2, LenProperties
<1> HIDE DEF r, p
<1>3. KernelPages .. KernelPages + PoolPages \subseteq Free(r)
  <2> SUFFICES ASSUME NEW i \in KernelPages .. KernelPages + PoolPages
               PROVE  i \in Entries /\ KernelPages <= i /\ i < Len(p) /\ i # VideoFrame
    BY <1>1
  <2>1. VideoFrame \in 0 .. MAX_PHYS_PAGES - 1 /\ MAX_PHYS_PAGES \in Nat
    BY PagingAssumption DEF Entries
  <2>2. /\ KernelPages \in Nat /\ PoolPages \in Nat /\ VideoFrame \in Nat
        /\ KernelPages + PoolPages < VideoFrame
    BY Sizes
  <2>3. i \in Nat /\ KernelPages <= i /\ i <= KernelPages + PoolPages
    BY <2>2
  <2>4. i < Len(p) /\ i < VideoFrame /\ i \in 0 .. MAX_PHYS_PAGES - 1
    BY <1>2, <2>1, <2>2, <2>3
  <2> QED
    BY <2>2, <2>3, <2>4 DEF Entries
<1>4. KernelPages \in Free(r) /\ \A i \in Free(r) : i \in Nat /\ KernelPages <= i
  <2>1. KernelPages \in KernelPages .. KernelPages + PoolPages
    BY Sizes
  <2>2. \A i \in Entries : i \in Nat
    BY DEF Entries
  <2> QED
    BY <1>1, <1>3, <2>1, <2>2
<1>5. "base_pd" \in Uses \ {"none"} /\ "copied" \in {"zero", "copied"} /\ Free(r) # {}
  BY <1>4 DEF Uses
<1>6. /\ TakesNext(r, Taken(r), f) /\ Grants(r, n, f, "base_pd", "copied")
      /\ n.type = Taken(r).type /\ Core(n) /\ Keeps(r, n) /\ (Intact(r) => Intact(n))
  BY <1>1, <1>5, Granted
<1> HIDE DEF n, f
<1>7. f = KernelPages /\ Free(n) = Free(r) \ {KernelPages}
  <2>1. PICK e \in Free(r) :
          f = r.addr[e] /\ Free(Taken(r)) = Free(r) \ {e} /\ \A i \in Free(r) : e <= i
    BY <1>6 DEF TakesNext
  <2>2. e = KernelPages
    BY <1>4, <2>1, Sizes
  <2>3. r.addr[KernelPages] = KernelPages
    BY <1>1, <1>4, Sizes
  <2>4. Free(n) = Free(Taken(r))
    BY <1>6 DEF Free
  <2> QED
    BY <2>1, <2>2, <2>3, <2>4
<1>8. Intact(n)
  BY <1>1, <1>6, Booted DEF Intact
<1>9. Allots(Usable(map), BootMem, n) /\ FromMap(Usable(map), n)
  <2>1. FromMap(Usable(map), n) /\ Allots(Usable(map), r, n)
    BY <1>1, <1>6, KeepsAllots
  <2> QED
    BY <1>1, <2>1 DEF Allots
<1>10. n.addr = r.addr /\ n.pd = BootMem.pd /\ n.pt = BootMem.pt /\ n.index = 0
       /\ n.owner = [g \in Frames |-> IF g \in {f} THEN "base_pd" ELSE BootMem.owner[g]]
       /\ n.contents = [g \in Frames |-> IF g = f THEN "base_pd"
                          ELSE IF g \in f .. f + WordSize - 1 THEN "copied"
                          ELSE BootMem.contents[g]]
  BY <1>1, <1>6 DEF Grants
<1>11. Blank(n)
  <2>0. n.pt = BootMem.pt
    BY <1>10
  <2> SUFFICES ASSUME NEW t \in Frames, t < TablesFrame, n.owner[t] # "page table"
               PROVE  \A e \in Pt : BootMem.pt[t][e] = NONE
    BY <2>0 DEF Blank
  <2>1. BootMem.owner[t] # "page table"
    <3>1. BootMem.owner = BootUse
      BY DEF BootMem
    <3> QED
      BY <3>1 DEF BootUse
  <2> QED
    BY <2>1, Booted DEF Blank
<1>12. Early(n, 0)
  <2>1. KernelPages + 0 + 1 .. KernelPages + PoolPages \subseteq Free(n)
    <3>1. \A i \in KernelPages + 0 + 1 .. KernelPages + PoolPages :
            i \in KernelPages .. KernelPages + PoolPages /\ i # KernelPages
      BY Sizes
    <3> QED
      BY <1>3, <1>7, <3>1
  <2>2. ASSUME NEW i \in Free(n)
        PROVE  /\ KernelPages + 0 < i
               /\ i <= KernelPages + PoolPages => n.addr[i] = i
               /\ KernelPages + WordSize <= n.addr[i] => n.contents[n.addr[i]] = "zero"
    <3>1. i \in Free(r) /\ i # KernelPages
      BY <1>7
    <3>2. KernelPages + 0 < i
      BY <1>4, <3>1, Sizes
    <3>3. i <= KernelPages + PoolPages => n.addr[i] = i
      BY <1>1, <1>10, <3>1
    <3>4. ASSUME KernelPages + WordSize <= n.addr[i] PROVE n.contents[n.addr[i]] = "zero"
      <4>1. Roomy(n.addr[i])
        BY <1>6 DEF Core, FreeOK
      <4>2. PICK g : g = n.addr[i]
        OBVIOUS
      <4>3. g \in Frames /\ g \in Nat /\ KernelPages <= g /\ g < TablesFrame /\ g # VideoFrame
        BY <4>1, <4>2, RoomyFrame
      <4>4. g # f /\ g \notin f .. f + WordSize - 1
        BY <1>7, <3>4, <4>2, <4>3, Sizes
      <4>5. BootMem.contents[g] = "zero"
        BY <4>3, Booted
      <4> QED
        BY <1>10, <4>2, <4>3, <4>4, <4>5
    <3> QED
      BY <3>2, <3>3, <3>4
  <2> QED
    BY <2>1, <2>2 DEF Early
<1>13. ASSUME NEW g \in Frames, TablesFrame <= g PROVE n.owner[g] \in {"none", "boot table"}
  <2>1. g # f /\ ~ (g < KernelPages) /\ g # VideoFrame
    BY <1>7, <1>13, Sizes DEF Frames
  <2>2. BootUse[g] \in {"none", "boot table"}
    BY <2>1 DEF BootUse
  <2>3. BootMem.owner = BootUse
    BY DEF BootMem
  <2> QED
    BY <1>10, <2>1, <2>2, <2>3
<1>14. BootTables(n)
  BY <1>10, <1>13, Booted DEF BootTables
<1> QED
  BY <1>6, <1>8, <1>9, <1>11, <1>12, <1>14 DEF n, r, p
-------------------------------------------------------------------------------
(* clear_identity_pages and init_pool. *)

\* The low half is not mapped.
Unmapped(m) == \A d \in Low : m.pd[d] = NONE

\* Only the boot tables of the low half lose their use.
GivesUp(m, n) ==
  /\ n.addr = m.addr /\ Free(n) = Free(m)
  /\ \A f \in Frames : n.owner[f] # m.owner[f] => m.owner[f] = "boot table" /\ LowTable(f)

LEMMA Cleared ==
  ASSUME Layout, NEW m, Core(m), Intact(m), Early(m, 0), Blank(m), BootTables(m)
  PROVE  LET n == InUse([m EXCEPT !.pd = [d \in Pd |-> IF d \in Identity THEN NONE ELSE @[d]]],
                        {TablesFrame + i : i \in 0 .. PagesCount - 1}, "none")
         IN  /\ Core(n) /\ Intact(n) /\ GivesUp(m, n) /\ Early(n, 0) /\ Blank(n) /\ n.index = 0
             /\ Unmapped(n)
<1> DEFINE dir == [d \in Pd |-> IF d \in Identity THEN NONE ELSE m.pd[d]]
           c == [m EXCEPT !.pd = [d \in Pd |-> IF d \in Identity THEN NONE ELSE @[d]]]
           fs == {TablesFrame + i : i \in 0 .. PagesCount - 1}
           n == InUse(c, fs, "none")
<1>0. m \in Mem
  BY DEF Core
<1>1. m \in Mem /\ m.halt = "no" /\ HighOK(m) /\ FreeOK(m) /\ UsedOK(m)
  BY DEF Core
<1>2. dir \in [Pd -> Frames \cup {NONE}]
      /\ \A d \in Pd : dir[d] = IF d \in Identity THEN NONE ELSE m.pd[d]
  <2>1. m.pd \in [Pd -> Frames \cup {NONE}]
    BY <1>0, Fields
  <2> QED
    BY <2>1
<1>3. c = [m EXCEPT !.pd = dir]
  OBVIOUS
<1> HIDE DEF dir, c, fs
<1>4. /\ c \in Mem /\ c.type = m.type /\ c.addr = m.addr /\ c.pd = dir /\ c.pt = m.pt
      /\ c.contents = m.contents /\ c.owner = m.owner /\ c.index = m.index /\ c.halt = m.halt
  BY <1>0, <1>2, <1>3 DEF Mem
<1>5. PutsInUse(c, n, fs, "none")
  BY <1>4, InUseIs DEF Uses
<1> HIDE DEF n
<1>6. /\ n \in Mem /\ n.type = m.type /\ n.addr = m.addr /\ n.pd = dir /\ n.pt = m.pt
      /\ n.contents = m.contents /\ n.index = 0 /\ n.halt = "no"
      /\ \A g \in Frames : n.owner[g] = IF g \in fs THEN "none" ELSE m.owner[g]
  <2>1. n.owner = [g \in Frames |-> IF g \in fs THEN "none" ELSE c.owner[g]]
    BY <1>5 DEF PutsInUse
  <2>2. /\ n \in Mem /\ n.type = c.type /\ n.addr = c.addr /\ n.pd = c.pd /\ n.pt = c.pt
        /\ n.contents = c.contents /\ n.index = c.index /\ n.halt = c.halt
    BY <1>5 DEF PutsInUse
  <2>3. m.index = 0 /\ m.halt = "no"
    BY <1>1 DEF BootTables
  <2> QED
    BY <1>4, <2>1, <2>2, <2>3
<1>7. Free(n) = Free(m)
  BY <1>6 DEF Free
<1>8. HighOK(n)
  <2> SUFFICES ASSUME NEW g \in Frames, g < Span PROVE n.pd[pd_no(Kptov(g))] = m.pd[pd_no(Kptov(g))]
    <3>1. n.pt = m.pt /\ HighOK(m)
      BY <1>1, <1>6
    <3> QED
      BY <3>1 DEF HighOK
  <2>1. pd_no(Kptov(g)) \in Pd /\ pd_no(Kptov(g)) \notin Low /\ pd_no(Kptov(g)) \in Nat
    BY KernelAddress, Parts
  <2>2. pd_no(KernBase) \in Nat /\ PagesCount \in Nat /\ PagesCount <= pd_no(KernBase)
    BY Machine
  <2>3. pd_no(Kptov(g)) \notin Identity
    BY <2>1, <2>2 DEF Low, Identity
  <2> QED
    <3>1. n.pd = dir
      BY <1>6
    <3> QED
      BY <1>2, <2>1, <2>3, <3>1
<1>9. n.addr = m.addr /\ n.contents = m.contents
      /\ \A g \in Frames : n.owner[g] # "none" => n.owner[g] = m.owner[g]
  BY <1>6
<1>10. FreeOK(n)
  BY <1>1, <1>7, <1>9 DEF FreeOK
<1>11. UsedOK(n) /\ Intact(n)
  BY <1>1, <1>7, <1>9 DEF UsedOK, Below, Intact
<1>12. GivesUp(m, n)
  <2>1. \A g \in fs : TablesFrame <= g /\ LowTable(g)
    BY Sizes DEF fs, LowTable
  <2>2. \A g \in Frames : n.owner[g] = IF g \in fs THEN "none" ELSE m.owner[g]
    BY <1>6
  <2> QED
    BY <1>7, <1>9, <2>1, <2>2 DEF GivesUp, BootTables
<1>13. Early(n, 0)
  BY <1>7, <1>9 DEF Early
<1>14. Blank(n)
  <2>1. \A g \in fs : ~ (g < TablesFrame)
    BY Sizes DEF fs
  <2>2. \A g \in Frames : n.owner[g] = IF g \in fs THEN "none" ELSE m.owner[g]
    BY <1>6
  <2>3. n.pt = m.pt
    BY <1>6
  <2> QED
    BY <2>1, <2>2, <2>3 DEF Blank
<1>15. Unmapped(n)
  <2> SUFFICES ASSUME NEW d \in Low PROVE dir[d] = NONE
    BY <1>6 DEF Unmapped
  <2>1. d \in Pd /\ (d \in Identity \/ PagesCount <= d)
    BY LowInPd, Sizes DEF Low, Identity
  <2> QED
    BY <1>2, <2>1 DEF BootTables
<1> QED
  BY <1>6, <1>8, <1>9, <1>10, <1>11, <1>12, <1>13, <1>14, <1>15 DEF Core, n, c, fs

LEMMA FreeUnused ==
  ASSUME Layout, NEW m, Core(m), NEW i \in Free(m)
  PROVE  Roomy(m.addr[i]) /\ m.owner[m.addr[i]] = "none"
<1>1. Roomy(m.addr[i])
  BY DEF Core, FreeOK
<1>2. PICK f : f = m.addr[i]
  OBVIOUS
<1>3. f \in Frames /\ f \in Nat /\ ~ (f < KernelPages \/ f = VideoFrame \/ TablesFrame <= f)
  BY <1>1, <1>2, RoomyFrame, Sizes
<1>4. ~ Below(m, f)
  BY <1>2, <1>3 DEF Below
<1> QED
  BY <1>1, <1>2, <1>3, <1>4 DEF Core, UsedOK

\* Free frames are zero.
Clean(m) == \A i \in Free(m) : m.contents[m.addr[i]] = "zero"

\* y is m with k pages of the pool taken.
Pooled(m, y, k) ==
  /\ Core(y) /\ Early(y, k) /\ y.pd = m.pd /\ y.pt = m.pt /\ y.contents = m.contents
  /\ y.index = m.index /\ y.addr = m.addr /\ Free(y) \subseteq Free(m)
  /\ \A g \in Frames : y.owner[g] = IF g \in KernelPages + 1 .. KernelPages + k THEN "pool"
                                    ELSE m.owner[g]

LEMMA EarlyNext ==
  ASSUME Layout, NEW k \in 1 .. PoolPages, NEW m, Core(m), Early(m, k - 1)
  PROVE  /\ KernelPages + k \in Free(m) /\ NextFrame(m) = KernelPages + k
         /\ TakesNext(m, Taken(m), KernelPages + k)
         /\ Free(Taken(m)) = Free(m) \ {KernelPages + k}
<1>1. KernelPages + (k - 1) + 1 = KernelPages + k /\ k \in Nat /\ KernelPages + k \in Nat
      /\ KernelPages + k \in KernelPages + (k - 1) + 1 .. KernelPages + PoolPages
  BY Sizes
<1>2. KernelPages + k \in Free(m)
  BY <1>1 DEF Early
<1>3. ASSUME NEW i \in Free(m) PROVE i \in Nat /\ KernelPages + k <= i
  <2>1. i \in Nat /\ KernelPages + (k - 1) < i
    BY DEF Early, Free, Entries
  <2> QED
    BY <2>1, Sizes
<1>4. m.addr[KernelPages + k] = KernelPages + k
  BY <1>1, <1>2, Sizes DEF Early
<1>5. TakesNext(m, Taken(m), NextFrame(m))
  BY <1>2, TakenNext DEF Core
<1>6. PICK e \in Free(m) :
        /\ NextFrame(m) = m.addr[e] /\ Free(Taken(m)) = Free(m) \ {e}
        /\ \A i \in Free(m) : e <= i
  BY <1>5 DEF TakesNext
<1>7. e = KernelPages + k
  <2>1. e <= KernelPages + k /\ KernelPages + k <= e /\ e \in Nat
    BY <1>2, <1>3, <1>6
  <2> QED
    BY <1>1, <2>1
<1> QED
  BY <1>2, <1>4, <1>5, <1>6, <1>7

LEMMA PoolPageTaken ==
  ASSUME Layout, NEW m, NEW k \in 1 .. PoolPages, NEW y, Pooled(m, y, k - 1)
  PROVE  Pooled(m, PoolPage(y), k)
<1> DEFINE f == KernelPages + k
           t == Taken(y)
           n == PoolPage(y)
<1>1. Core(y) /\ Early(y, k - 1)
  BY DEF Pooled
<1>2. f \in Free(y) /\ NextFrame(y) = f /\ TakesNext(y, t, f) /\ Free(t) = Free(y) \ {f}
  BY <1>1, EarlyNext
<1>3. Core(t) /\ Held(t, f) /\ SameButTypes(y, t) /\ f # NONE
  <2> HIDE DEF t, f
  <2>1. Core(t) /\ Held(t, f)
    BY <1>1, <1>2, NextHeld
  <2> QED
    BY <1>2, <2>1 DEF TakesNext
<1>4. f \in Frames /\ f < Span /\ k \in Nat /\ f = KernelPages + k
  BY <1>3, RoomyFrame DEF Held
<1> HIDE DEF f, t
<1>5. t \in Mem /\ HighOK(t) /\ t.halt = "no" /\ FreeOK(t) /\ UsedOK(t)
  BY <1>3 DEF Core
<1>6. MapPage(t, f, Kptov(f)) = t
  BY <1>4, <1>5, KernelMapped
<1>7. n = InUse(t, {f}, "pool")
  BY <1>2, <1>3, <1>5, <1>6 DEF PoolPage, t
<1> HIDE DEF n
<1>8. PutsInUse(t, n, {f}, "pool")
  BY <1>5, <1>7, InUseIs DEF Uses
<1>9. /\ n \in Mem /\ n.type = t.type /\ n.addr = y.addr /\ n.pd = m.pd /\ n.pt = m.pt
      /\ n.contents = m.contents /\ n.index = m.index /\ n.halt = "no" /\ n.addr = t.addr
      /\ n.owner = [g \in Frames |-> IF g \in {f} THEN "pool" ELSE t.owner[g]]
      /\ n.pd = t.pd /\ n.pt = t.pt
  BY <1>3, <1>5, <1>8 DEF PutsInUse, SameButTypes, Pooled
<1>10. FreeOK(n) /\ UsedOK(n)
  <2>1. PutToUse(t, n, f, "pool")
    BY <1>9 DEF PutToUse
  <2> QED
    BY <1>3, <1>5, <2>1, UsedKeeps
<1>11. HighOK(n)
  BY <1>5, <1>9 DEF HighOK
<1>12. Free(n) = Free(y) \ {f}
  BY <1>2, <1>9 DEF Free
<1>13. Early(n, k)
  <2>1. KernelPages + k + 1 .. KernelPages + PoolPages \subseteq Free(n)
    <3>1. \A i \in KernelPages + k + 1 .. KernelPages + PoolPages :
            i \in KernelPages + (k - 1) + 1 .. KernelPages + PoolPages /\ i # f
      BY <1>4, Sizes
    <3> QED
      BY <1>1, <1>12, <3>1 DEF Early
  <2>2. ASSUME NEW i \in Free(n) PROVE KernelPages + k < i
    <3>1. i \in Free(y) /\ i # KernelPages + k /\ i \in Nat
      BY <1>4, <1>12 DEF Free, Entries
    <3>2. KernelPages + (k - 1) < i
      BY <1>1, <3>1 DEF Early
    <3> QED
      BY <1>4, <3>1, <3>2, Sizes
  <2>3. y.contents = m.contents
    BY DEF Pooled
  <2> QED
    BY <1>1, <1>9, <1>12, <2>1, <2>2, <2>3 DEF Early
<1>14. ASSUME NEW g \in Frames
       PROVE  n.owner[g] = IF g \in KernelPages + 1 .. KernelPages + k THEN "pool" ELSE m.owner[g]
  <2>1. n.owner[g] = IF g = f THEN "pool" ELSE y.owner[g]
    BY <1>3, <1>9 DEF SameButTypes
  <2>2. y.owner[g] = IF g \in KernelPages + 1 .. KernelPages + (k - 1) THEN "pool" ELSE m.owner[g]
    BY DEF Pooled
  <2>3. g \in KernelPages + 1 .. KernelPages + k
          <=> g = f \/ g \in KernelPages + 1 .. KernelPages + (k - 1)
    BY <1>4, Sizes DEF Frames
  <2> QED
    BY <2>1, <2>2, <2>3
<1>15. Core(n)
  BY <1>9, <1>10, <1>11 DEF Core
<1> QED
  BY <1>9, <1>12, <1>13, <1>14, <1>15 DEF Pooled, n
LEMMA PoolTaken ==
  ASSUME Layout, NEW m, Core(m), Early(m, 0)
  PROVE  Pooled(m, PoolOf(m), PoolPages)
<1> DEFINE K == PoolPages
           body(F) == [i \in 0 .. K |-> IF i = 0 THEN m ELSE PoolPage(F[i - 1])]
           upto(F, k) == F = [i \in 0 .. k |-> IF i = 0 THEN m ELSE PoolPage(F[i - 1])]
           Q == {k \in 0 .. K : \E F : upto(F, k)}
<1>1. K \in Nat
  BY Sizes
<1>2. PoolOf(m) = (CHOOSE F : F = body(F))[K]
  BY DEF PoolOf
<1>3. 0 \in Q
  <2> DEFINE F == [i \in 0 .. 0 |-> m]
  <2>1. F = [i \in 0 .. 0 |-> IF i = 0 THEN m ELSE PoolPage(F[i - 1])]
    OBVIOUS
  <2>2. \E G : upto(G, 0)
    BY <2>1
  <2> QED
    BY <1>1, <2>2
<1>4. ASSUME NEW k \in 1 .. K, k - 1 \in Q PROVE k \in Q
  <2>1. PICK F : upto(F, k - 1)
    BY <1>4
  <2> DEFINE G == [i \in 0 .. k |-> IF i = 0 THEN m ELSE PoolPage(F[i - 1])]
  <2>2. ASSUME NEW i \in 0 .. k - 1 PROVE G[i] = F[i]
    BY <1>1, <2>1
  <2>3. ASSUME NEW i \in 1 .. k PROVE G[i] = PoolPage(G[i - 1])
    <3>1. i - 1 \in 0 .. k - 1 /\ i \in 0 .. k /\ i # 0
      BY <1>1
    <3> QED
      BY <2>2, <3>1
  <2>4. G[0] = m
    BY <1>1
  <2>5. G = [i \in 0 .. k |-> G[i]]
    OBVIOUS
  <2> HIDE DEF G
  <2>6. \A i \in 0 .. k : G[i] = IF i = 0 THEN m ELSE PoolPage(G[i - 1])
    BY <1>1, <2>3, <2>4
  <2>7. [i \in 0 .. k |-> G[i]] = [i \in 0 .. k |-> IF i = 0 THEN m ELSE PoolPage(G[i - 1])]
    BY <2>6
  <2>8. upto(G, k)
    BY <2>5, <2>7
  <2> QED
    BY <1>1, <2>8
<1>5. \E F : F = body(F)
  <2> HIDE DEF Q
  <2>1. K \in Q
    BY <1>1, <1>3, <1>4, UpTo
  <2> QED
    BY <2>1 DEF Q
<1> DEFINE N == CHOOSE F : F = body(F)
<1>6. N = body(N)
  BY <1>5
<1> HIDE DEF N
<1>7. N[0] = m /\ \A i \in 1 .. K : N[i] = PoolPage(N[i - 1])
  BY <1>1, <1>6
<1> DEFINE P == {i \in 0 .. K : Pooled(m, N[i], i)}
<1>8. 0 \in P
  <2>1. \A g \in Frames : g \notin KernelPages + 1 .. KernelPages + 0
    BY Sizes DEF Frames
  <2>2. Pooled(m, m, 0)
    BY <2>1 DEF Pooled
  <2> QED
    BY <1>1, <1>7, <2>2
<1>9. ASSUME NEW i \in 1 .. K, i - 1 \in P PROVE i \in P
  <2>1. Pooled(m, N[i - 1], i - 1)
    BY <1>9
  <2>2. Pooled(m, PoolPage(N[i - 1]), i)
    BY <2>1, PoolPageTaken
  <2> QED
    BY <1>1, <1>7, <2>2
<1> HIDE DEF P
<1>10. K \in P
  BY <1>1, <1>8, <1>9, UpTo
<1> QED
  BY <1>2, <1>10 DEF P, N

\* The pool as init_pool leaves it: the memory the heap starts from.
LEMMA PoolMade ==
  ASSUME Layout, NEW m, Core(m), Intact(m), Early(m, 0), Blank(m), m.index = 0, Unmapped(m)
  PROVE  LET f == NextFrame(m)
             got == PoolOf(m)
             area == Area(got, Kptov(f), PoolPages)
             n == [Holding(got, area, "pool") EXCEPT !.index = 0]
         IN  /\ got.halt = "no"
             /\ Core(n) /\ Intact(n) /\ Keeps(m, n) /\ Clean(n) /\ Blank(n) /\ n.index = 0
             /\ Unmapped(n)
<1> DEFINE f == NextFrame(m)
           got == PoolOf(m)
           area == Area(got, Kptov(f), PoolPages)
           pool == KernelPages + 1 .. KernelPages + PoolPages
           h == Holding(got, area, "pool")
           n == [h EXCEPT !.index = 0]
<1>1. Pooled(m, got, PoolPages)
  BY PoolTaken
<1>2. f = KernelPages + 1
  <2>1. 1 \in 1 .. PoolPages /\ 1 - 1 = 0
    BY Sizes
  <2> QED
    BY <2>1, EarlyNext
<1> HIDE DEF got, f
<1>3. /\ Core(got) /\ got.pd = m.pd /\ got.pt = m.pt /\ got.contents = m.contents
      /\ \A g \in Frames : got.owner[g] = IF g \in pool THEN "pool" ELSE m.owner[g]
  BY <1>1 DEF Pooled
<1>4. Early(got, PoolPages)
  BY <1>1 DEF Pooled
<1>5. got \in Mem /\ got.halt = "no" /\ HighOK(got) /\ FreeOK(got) /\ UsedOK(got)
  BY <1>3 DEF Core
<1>6. area = pool
  <2>1. /\ f \in Frames /\ PoolPages \in Nat /\ f + PoolPages <= Span
        /\ f + PoolPages <= LastFrame + 1 /\ f + PoolPages - 1 = KernelPages + PoolPages
    BY <1>2, Sizes DEF Frames
  <2> QED
    BY <1>2, <1>5, <2>1, KernelArea
<1> HIDE DEF area, pool
<1>7. Holds(got, h, pool, "pool")
  BY <1>5, <1>6, HoldingIs DEF Contents, Uses
<1> HIDE DEF h
<1>8. h \in Mem /\ h.type = got.type /\ h.addr = got.addr /\ h.pd = got.pd /\ h.pt = got.pt
      /\ h.owner = got.owner /\ h.halt = "no"
      /\ \A g \in Frames : h.contents[g] = IF g \in pool THEN "pool" ELSE got.contents[g]
  BY <1>5, <1>7 DEF Holds
<1>9. /\ n \in Mem /\ n.type = h.type /\ n.addr = h.addr /\ n.pd = h.pd /\ n.pt = h.pt
      /\ n.owner = h.owner /\ n.halt = h.halt /\ n.contents = h.contents /\ n.index = 0
  <2>1. h \in Mem
    BY <1>8
  <2> QED
    BY <2>1 DEF Mem
<1> HIDE DEF n
<1>10. n.type = got.type /\ n.addr = got.addr /\ n.pd = got.pd /\ n.pt = got.pt
       /\ n.owner = got.owner /\ n.halt = "no"
  BY <1>8, <1>9
<1>11. \A g \in Frames : n.contents[g] = IF g \in pool THEN "pool" ELSE m.contents[g]
  BY <1>3, <1>8, <1>9
<1>12. Free(n) = Free(got)
  BY <1>10 DEF Free
<1>13. Core(n)
  <2>1. HighOK(n)
    BY <1>5, <1>10 DEF HighOK
  <2>2. FreeOK(n)
    BY <1>5, <1>10, <1>12 DEF FreeOK
  <2>3. UsedOK(n)
    BY <1>5, <1>10, <1>12 DEF UsedOK, Below
  <2> QED
    BY <1>9, <1>10, <2>1, <2>2, <2>3 DEF Core
<1>14. Intact(n)
  BY <1>3, <1>10, <1>11 DEF Intact
<1>15. \A g \in pool : m.owner[g] = "none" /\ g \in Free(m) /\ m.addr[g] = g
  <2> SUFFICES ASSUME NEW g \in pool PROVE m.owner[g] = "none" /\ g \in Free(m) /\ m.addr[g] = g
    OBVIOUS
  <2>1. g \in KernelPages + 0 + 1 .. KernelPages + PoolPages /\ g <= KernelPages + PoolPages
    BY Sizes DEF pool
  <2>2. g \in Free(m) /\ m.addr[g] = g
    BY <2>1 DEF Early
  <2> QED
    BY <2>2, FreeUnused
<1>16. Keeps(m, n)
  <2>1. got.addr = m.addr /\ Free(got) \subseteq Free(m)
    BY <1>1 DEF Pooled
  <2> QED
    BY <1>3, <1>10, <1>12, <1>15, <2>1 DEF Keeps
<1>17. Clean(n)
  <2> SUFFICES ASSUME NEW i \in Free(got) PROVE n.contents[got.addr[i]] = "zero"
    BY <1>10, <1>12 DEF Clean
  <2>1. PICK g : g = got.addr[i]
    OBVIOUS
  <2>2. g \in Frames /\ g \in Nat
    BY <1>3, <2>1, FreeUnused, RoomyFrame
  <2>3. KernelPages + PoolPages < g
    <3> DEFINE k == KernelPages + PoolPages
    <3>1. k \in Frames /\ k \in Nat /\ k \in pool /\ ~ (k < KernelPages \/ k = VideoFrame \/ TablesFrame <= k)
      BY Sizes DEF Frames, pool
    <3>2. got.owner[k] = "pool"
      BY <1>3, <3>1
    <3> HIDE DEF k
    <3>3. Below(got, k)
      BY <1>5, <3>1, <3>2 DEF UsedOK
    <3>4. k < g
      BY <2>1, <3>3 DEF Below
    <3> QED
      BY <3>4 DEF k
  <2>4. KernelPages + WordSize <= g /\ g \notin pool
    BY <2>2, <2>3, Sizes DEF pool
  <2>5. m.contents[g] = "zero"
    BY <1>3, <1>4, <2>1, <2>4 DEF Early
  <2> QED
    BY <1>11, <2>1, <2>2, <2>4, <2>5
<1>18. Blank(n)
  <2>1. n.pt = m.pt
    BY <1>3, <1>10
  <2>2. ASSUME NEW t \in Frames, n.owner[t] # "page table" PROVE m.owner[t] # "page table"
    BY <1>3, <1>10, <1>15, <2>2
  <2> QED
    BY <2>1, <2>2 DEF Blank
<1>19. Unmapped(n)
  BY <1>3, <1>10 DEF Unmapped
<1> QED
  BY <1>5, <1>9, <1>13, <1>14, <1>16, <1>17, <1>18, <1>19 DEF n, h, area, got, f
-------------------------------------------------------------------------------
(* The heap. *)

HeapAt(m, v) == Translate(m, v) # NONE /\ m.owner[Translate(m, v)] = "heap"

\* The tables of the low half are frames of their own, one each.
TablesOK(m) ==
  /\ \A d \in Low : m.pd[d] # NONE =>
       m.pd[d] \in Frames /\ m.pd[d] < TablesFrame /\ m.owner[m.pd[d]] = "page table"
  /\ \A d, e \in Low : m.pd[d] # NONE /\ m.pd[d] = m.pd[e] => d = e

\* The low half is the heap, a stretch of addresses from 0 with a frame each.
HeapOK(m) ==
  /\ \A v \in 0 .. KernBase - 1 : IF v < m.index THEN HeapAt(m, v) ELSE Translate(m, v) = NONE
  /\ \A v, w \in 0 .. KernBase - 1 :
       v < m.index /\ w < m.index /\ Translate(m, v) = Translate(m, w) => v = w

LowOK(m) == Blank(m) /\ TablesOK(m) /\ HeapOK(m) /\ m.index <= KernBase

Steady(m) == Core(m) /\ Intact(m) /\ Clean(m) /\ LowOK(m)

\* The machine has stopped for want of a frame.
Exhausted(m) == m \in Mem /\ m.halt = "PANIC" /\ Free(m) = {} /\ Intact(m)

\* How a low address is translated.
LEMMA LowTranslate ==
  ASSUME Layout, NEW m, NEW v \in 0 .. KernBase - 1
  PROVE  /\ NoTable(m, v) <=> m.pd[pd_no(v)] = NONE
         /\ Translate(m, v) = IF m.pd[pd_no(v)] = NONE THEN NONE ELSE m.pt[m.pd[pd_no(v)]][pt_no(v)]
<1>1. pd_no(v) \in Pd
  BY LowAddress
<1> QED
  BY <1>1 DEF NoTable, Translate, pd_no, pt_no

LEMMA NothingLow ==
  ASSUME Layout, NEW m, Blank(m), Unmapped(m), m.index = 0
  PROVE  LowOK(m)
<1>1. \A v \in 0 .. KernBase - 1 : Translate(m, v) = NONE /\ ~ (v < m.index)
  BY LowTranslate, LowAddress DEF Unmapped
<1>2. HeapOK(m)
  BY <1>1 DEF HeapOK
<1>3. TablesOK(m)
  BY DEF TablesOK, Unmapped
<1> QED
  BY <1>2, <1>3, Sizes DEF LowOK

\* A memory of which the tables and the use of the frames are the same.
LEMMA SameLow ==
  ASSUME Layout, NEW m, LowOK(m), NEW n, n.pd = m.pd, n.pt = m.pt, n.owner = m.owner,
         n.index = m.index
  PROVE  LowOK(n)
<1>1. \A v \in 0 .. KernBase - 1 : Translate(n, v) = Translate(m, v)
  BY LowTranslate
<1>2. HeapOK(n)
  BY <1>1 DEF LowOK, HeapOK, HeapAt
<1>3. TablesOK(n)
  BY DEF LowOK, TablesOK
<1>4. Blank(n)
  BY DEF LowOK, Blank
<1> QED
  BY <1>2, <1>3, <1>4 DEF LowOK

LEMMA NextSteady ==
  ASSUME Layout, NEW m, Steady(m), NEW n, NEW f, TakesNext(m, n, f)
  PROVE  Steady(n) /\ Held(n, f) /\ m.contents[f] = "zero" /\ (Held(n, f) => f \in Frames)
         /\ \A g : Held(m, g) => Held(n, g) /\ g < f
<1>1. Core(m) /\ Intact(m) /\ Clean(m) /\ LowOK(m)
  BY DEF Steady
<1>2. Core(n) /\ Held(n, f)
  BY <1>1, NextHeld
<1>3. /\ n.addr = m.addr /\ n.pd = m.pd /\ n.pt = m.pt /\ n.contents = m.contents
      /\ n.owner = m.owner /\ n.index = m.index
  BY DEF TakesNext, SameButTypes
<1>4. PICK e \in Free(m) : f = m.addr[e] /\ Free(n) = Free(m) \ {e}
  BY DEF TakesNext
<1>5. Intact(n)
  BY <1>1, <1>3 DEF Intact
<1>6. Clean(n)
  BY <1>1, <1>3, <1>4 DEF Clean
<1>7. LowOK(n)
  BY <1>1, <1>3, SameLow
<1>8. m.contents[f] = "zero"
  BY <1>1, <1>4 DEF Clean
<1>9. ASSUME NEW g, Held(m, g) PROVE Held(n, g) /\ g < f
  BY <1>3, <1>4, <1>9 DEF Held, Below
<1>10. Held(n, f) => f \in Frames
  BY DEF Held, Roomy
<1> QED
  BY <1>1, <1>2, <1>5, <1>6, <1>7, <1>8, <1>9, <1>10 DEF Steady

\* A heap page has a frame.
LEMMA HeapFrame ==
  ASSUME Layout, NEW m \in Mem, TablesOK(m), NEW v \in 0 .. KernBase - 1, HeapAt(m, v)
  PROVE  Translate(m, v) \in Frames
<1>1. Translate(m, v) # NONE
  BY DEF HeapAt
<1>2. m.pd[pd_no(v)] \in Frames /\ Translate(m, v) = m.pt[m.pd[pd_no(v)]][pt_no(v)]
  BY <1>1, LowTranslate, LowAddress DEF TablesOK
<1>3. m.pt \in [Frames -> [Pt -> Frames \cup {NONE}]] /\ pt_no(v) \in Pt
  BY Fields, LowAddress
<1> QED
  BY <1>1, <1>2, <1>3

\* A page table for address v is made of frame t.
TableMade(m, n, t, v) ==
  /\ n \in Mem /\ n.type = m.type /\ n.addr = m.addr /\ n.pt = m.pt /\ n.index = m.index
  /\ n.halt = m.halt /\ n.pd = [m.pd EXCEPT ![pd_no(v)] = t]
  /\ n.contents = [f \in Frames |-> IF f \in {t} THEN "page table" ELSE m.contents[f]]
  /\ n.owner = [f \in Frames |-> IF f \in {t} THEN "page table" ELSE m.owner[f]]

LEMMA MakeTableIs ==
  ASSUME Layout, NEW m, Steady(m), Free(m) # {}, NEW v \in 0 .. KernBase - 1
  PROVE  TableMade(Taken(m), MakeTable(m, v), NextFrame(m), v)
<1> DEFINE t == NextFrame(m)
           k == Taken(m)
           h == Holding(k, {t}, "page table")
           u == InUse(h, {t}, "page table")
           n == MakeTable(m, v)
<1>1. TakesNext(m, k, t)
  BY TakenNext DEF Steady, Core
<1>2. Steady(k) /\ Held(k, t) /\ m.contents[t] = "zero" /\ t \in Frames
  <2> HIDE DEF t, k
  <2> QED BY <1>1, NextSteady
<1> HIDE DEF t, k
<1>3. k \in Mem /\ HighOK(k) /\ t < Span
  BY <1>2, RoomyFrame DEF Steady, Core, Held
<1>4. SetPte(k, t, Kptov(t)) = k
  BY <1>2, <1>3, KernelMapped
<1>5. n = [u EXCEPT !.pd[pd_no(v)] = t]
  BY <1>2, <1>4 DEF MakeTable, t, k
<1>6. Holds(k, h, {t}, "page table")
  BY <1>3, HoldingIs DEF Contents, Uses
<1>7. h \in Mem
  BY <1>6 DEF Holds
<1> HIDE DEF h
<1>8. PutsInUse(h, u, {t}, "page table")
  BY <1>7, InUseIs DEF Uses
<1>9. u \in Mem
  BY <1>8 DEF PutsInUse
<1> HIDE DEF u
<1> DEFINE dir == [u.pd EXCEPT ![pd_no(v)] = t]
<1>10. dir \in [Pd -> Frames \cup {NONE}]
  BY <1>2, <1>9, Fields
<1>11. n = [u EXCEPT !.pd = dir]
  BY <1>5
<1> HIDE DEF n, dir
<1>12. /\ n \in Mem /\ n.type = u.type /\ n.addr = u.addr /\ n.pd = dir /\ n.pt = u.pt
       /\ n.contents = u.contents /\ n.owner = u.owner /\ n.index = u.index /\ n.halt = u.halt
  BY <1>9, <1>10, <1>11 DEF Mem
<1>13. /\ u.type = k.type /\ u.addr = k.addr /\ u.pd = k.pd /\ u.pt = k.pt /\ u.index = k.index
       /\ u.halt = k.halt
       /\ u.contents = [f \in Frames |-> IF f \in {t} THEN "page table" ELSE k.contents[f]]
       /\ u.owner = [f \in Frames |-> IF f \in {t} THEN "page table" ELSE k.owner[f]]
  BY <1>6, <1>8 DEF Holds, PutsInUse
<1>14. n.pd = [k.pd EXCEPT ![pd_no(v)] = t]
  BY <1>12, <1>13 DEF dir
<1>15. /\ n \in Mem /\ n.type = k.type /\ n.addr = k.addr /\ n.pt = k.pt /\ n.index = k.index
       /\ n.halt = k.halt
  BY <1>12, <1>13
<1>16. n.contents = [f \in Frames |-> IF f \in {t} THEN "page table" ELSE k.contents[f]]
  BY <1>12, <1>13
<1>17. n.owner = [f \in Frames |-> IF f \in {t} THEN "page table" ELSE k.owner[f]]
  BY <1>12, <1>13
<1> QED
  BY <1>14, <1>15, <1>16, <1>17 DEF TableMade, n, t, k
\* The new table has no entries, so that nothing else is mapped by it.
LEMMA TableSteady ==
  ASSUME Layout, NEW m, Steady(m), NEW v \in 0 .. KernBase - 1, m.pd[pd_no(v)] = NONE,
         NEW t, Held(m, t), NEW n, TableMade(m, n, t, v)
  PROVE  /\ Steady(n) /\ OnlyUses(m, n, t) /\ n.pd[pd_no(v)] # NONE /\ n.index = m.index
         /\ \A f : Held(m, f) /\ f # t => Held(n, f)
<1> DEFINE d == pd_no(v)
<1>1. Core(m) /\ Intact(m) /\ Clean(m) /\ LowOK(m)
  BY DEF Steady
<1>2. m \in Mem /\ m.halt = "no" /\ HighOK(m) /\ FreeOK(m) /\ UsedOK(m)
  BY <1>1 DEF Core
<1>3. Blank(m) /\ TablesOK(m) /\ HeapOK(m) /\ m.index <= KernBase
  BY <1>1 DEF LowOK
<1>4. /\ t \in Frames /\ t < TablesFrame /\ t # NONE /\ m.owner[t] = "none" /\ Below(m, t)
      /\ t \in Nat
  BY RoomyFrame, PagingAssumption DEF Held
<1>5. d \in Low /\ d \in Pd
  BY LowAddress
<1>6. n.pd[d] = t /\ \A c \in Pd : c # d => n.pd[c] = m.pd[c]
  <2>1. m.pd \in [Pd -> Frames \cup {NONE}]
    BY <1>2, Fields
  <2>2. n.pd = [m.pd EXCEPT ![d] = t]
    BY DEF TableMade
  <2> HIDE DEF d
  <2> QED
    BY <1>5, <2>1, <2>2
<1>7. n.pd[d] # NONE
  BY <1>4, <1>6
<1> HIDE DEF d
<1>8. /\ n \in Mem /\ n.type = m.type /\ n.addr = m.addr /\ n.pt = m.pt /\ n.index = m.index
      /\ n.halt = "no"
  BY <1>2 DEF TableMade
<1>9. n.owner = [f \in Frames |-> IF f \in {t} THEN "page table" ELSE m.owner[f]]
  BY DEF TableMade
<1>10. \A f \in Frames : n.owner[f] = IF f = t THEN "page table" ELSE m.owner[f]
  BY <1>9
<1>11. \A f \in Frames : n.contents[f] = IF f = t THEN "page table" ELSE m.contents[f]
  BY DEF TableMade
<1>12. Free(n) = Free(m)
  BY <1>8 DEF Free
<1>13. HighOK(n)
  <2> SUFFICES ASSUME NEW g \in Frames, g < Span PROVE n.pd[pd_no(Kptov(g))] = m.pd[pd_no(Kptov(g))]
    <3>1. n.pt = m.pt /\ HighOK(m)
      BY <1>2, <1>8
    <3> QED
      BY <3>1 DEF HighOK
  <2>1. pd_no(Kptov(g)) \in Pd /\ pd_no(Kptov(g)) # d
    BY <1>5, KernelAddress
  <2> QED
    BY <1>6, <2>1
<1>14. FreeOK(n) /\ UsedOK(n)
  <2>1. PutToUse(m, n, t, "page table")
    BY <1>8, <1>9 DEF PutToUse
  <2> QED
    BY <1>2, <2>1, UsedKeeps
<1>15. Core(n)
  BY <1>8, <1>13, <1>14 DEF Core
<1>16. Intact(n)
  BY <1>1, <1>10, <1>11 DEF Intact
<1>17. Clean(n)
  <2> SUFFICES ASSUME NEW i \in Free(m) PROVE n.contents[m.addr[i]] = "zero"
    BY <1>8, <1>12 DEF Clean
  <2>1. t < m.addr[i] /\ m.addr[i] \in Frames /\ m.addr[i] \in Nat
    BY <1>1, <1>4, FreeUnused, RoomyFrame DEF Below
  <2>2. m.addr[i] # t
    BY <1>4, <2>1
  <2> QED
    BY <1>1, <1>11, <2>1, <2>2 DEF Clean
<1>18. OnlyUses(m, n, t)
  BY <1>8, <1>10 DEF OnlyUses
<1>19. Blank(n)
  <2>1. n.pt = m.pt
    BY <1>8
  <2> QED
    BY <1>3, <1>10, <2>1 DEF Blank
<1>20. ASSUME NEW c \in Low, c # d PROVE n.pd[c] = m.pd[c] /\ (m.pd[c] # NONE => m.pd[c] # t)
  <2>1. c \in Pd
    BY LowInPd
  <2>2. m.pd[c] # NONE => m.owner[m.pd[c]] = "page table"
    BY <1>3 DEF TablesOK
  <2> QED
    BY <1>4, <1>6, <1>20, <2>1, <2>2
<1>21. TablesOK(n)
  <2>1. ASSUME NEW c \in Low, n.pd[c] # NONE
        PROVE  n.pd[c] \in Frames /\ n.pd[c] < TablesFrame /\ n.owner[n.pd[c]] = "page table"
    <3>1. CASE c = d
      BY <1>4, <1>6, <1>10, <3>1
    <3>2. CASE c # d
      <4>1. n.pd[c] = m.pd[c] /\ m.pd[c] # NONE /\ m.pd[c] # t
        BY <1>20, <2>1, <3>2
      <4>2. m.pd[c] \in Frames /\ m.pd[c] < TablesFrame /\ m.owner[m.pd[c]] = "page table"
        BY <1>3, <4>1 DEF TablesOK
      <4> QED
        BY <1>10, <4>1, <4>2
    <3> QED
      BY <3>1, <3>2
  <2>2. ASSUME NEW c \in Low, NEW e \in Low, n.pd[c] # NONE, n.pd[c] = n.pd[e] PROVE c = e
    <3>1. CASE c = d \/ e = d
      BY <1>4, <1>6, <1>20, <2>2, <3>1
    <3>2. CASE c # d /\ e # d
      <4>1. n.pd[c] = m.pd[c] /\ n.pd[e] = m.pd[e]
        BY <1>20, <3>2
      <4> QED
        BY <1>3, <2>2, <4>1 DEF TablesOK
    <3> QED
      BY <3>1, <3>2
  <2> QED
    BY <2>1, <2>2 DEF TablesOK
<1>22. ASSUME NEW w \in 0 .. KernBase - 1 PROVE Translate(n, w) = Translate(m, w)
  <2>1. pd_no(w) \in Low /\ pt_no(w) \in Pt
    BY LowAddress
  <2>2. n.pt = m.pt
    BY <1>8
  <2>3. CASE pd_no(w) = d
    <3>1. Translate(m, w) = NONE
      BY <2>3, LowTranslate DEF d
    <3>2. m.pt[t][pt_no(w)] = NONE
      BY <1>3, <1>4, <2>1 DEF Blank
    <3>3. Translate(n, w) = n.pt[t][pt_no(w)]
      BY <1>4, <1>6, <2>3, LowTranslate
    <3> QED
      BY <2>2, <3>1, <3>2, <3>3
  <2>4. CASE pd_no(w) # d
    BY <1>20, <2>1, <2>2, <2>4, LowTranslate
  <2> QED
    BY <2>3, <2>4
<1>23. HeapOK(n)
  <2>1. ASSUME NEW w \in 0 .. KernBase - 1
        PROVE  IF w < n.index THEN HeapAt(n, w) ELSE Translate(n, w) = NONE
    <3>1. IF w < m.index THEN HeapAt(m, w) ELSE Translate(m, w) = NONE
      BY <1>3 DEF HeapOK
    <3>2. ASSUME HeapAt(m, w) PROVE HeapAt(n, w)
      <4>1. Translate(n, w) # NONE /\ m.owner[Translate(n, w)] = "heap"
        BY <1>22, <3>2 DEF HeapAt
      <4>2. Translate(n, w) \in Frames
        BY <1>2, <1>3, <1>22, <3>2, HeapFrame
      <4> QED
        BY <1>4, <1>10, <4>1, <4>2 DEF HeapAt
    <3> QED
      BY <1>8, <1>22, <3>1, <3>2
  <2>2. \A x, y \in 0 .. KernBase - 1 :
          x < n.index /\ y < n.index /\ Translate(n, x) = Translate(n, y) => x = y
    BY <1>3, <1>8, <1>22 DEF HeapOK
  <2> QED
    BY <2>1, <2>2 DEF HeapOK
<1>24. Steady(n)
  BY <1>3, <1>8, <1>15, <1>16, <1>17, <1>19, <1>21, <1>23 DEF Steady, LowOK
<1>25. ASSUME NEW f, Held(m, f), f # t PROVE Held(n, f)
  <2>1. Below(n, f)
    BY <1>8, <1>12, <1>25 DEF Below, Held
  <2> QED
    BY <1>10, <1>25, <2>1 DEF Held, Roomy
<1> QED
  BY <1>7, <1>8, <1>18, <1>24, <1>25 DEF d
\* The frame f is entered for address v and is the heap's.
EntryMade(m, n, f, v) ==
  /\ n \in Mem /\ n.type = m.type /\ n.addr = m.addr /\ n.pd = m.pd /\ n.index = m.index + 1
  /\ n.halt = m.halt
  /\ \A t \in Frames, e \in Pt :
       n.pt[t][e] = IF t = m.pd[pd_no(v)] /\ e = pt_no(v) THEN f ELSE m.pt[t][e]
  /\ n.contents = [g \in Frames |-> IF g \in {f} THEN "heap" ELSE m.contents[g]]
  /\ n.owner = [g \in Frames |-> IF g \in {f} THEN "heap" ELSE m.owner[g]]

LEMMA EntryIs ==
  ASSUME NEW m \in Mem, NEW v, pd_no(v) \in Pd, pt_no(v) \in Pt, m.pd[pd_no(v)] # NONE,
         NEW f \in Frames
  PROVE  EntryMade(m, [InUse(Holding(SetPte(m, f, v), {f}, "heap"), {f}, "heap")
                         EXCEPT !.index = @ + 1], f, v)
<1> DEFINE d == m.pd[pd_no(v)]
           e == pt_no(v)
           s == SetPte(m, f, v)
           h == Holding(s, {f}, "heap")
           u == InUse(h, {f}, "heap")
           n == [u EXCEPT !.index = @ + 1]
           tables == [m.pt EXCEPT ![d][e] = f]
<1>1. d \in Frames /\ e \in Pt
  <2>1. m.pd \in [Pd -> Frames \cup {NONE}]
    BY Fields
  <2> QED
    BY <2>1
<1>2. /\ tables \in [Frames -> [Pt -> Frames \cup {NONE}]]
      /\ \A t \in Frames, x \in Pt : tables[t][x] = IF t = d /\ x = e THEN f ELSE m.pt[t][x]
  <2>1. m.pt \in [Frames -> [Pt -> Frames \cup {NONE}]]
    BY Fields
  <2> HIDE DEF d, e
  <2> QED
    BY <1>1, <2>1
<1>3. s = [m EXCEPT !.pt = tables]
  BY DEF SetPte
<1> HIDE DEF s, tables
<1>4. /\ s \in Mem /\ s.type = m.type /\ s.addr = m.addr /\ s.pd = m.pd /\ s.pt = tables
      /\ s.contents = m.contents /\ s.owner = m.owner /\ s.index = m.index /\ s.halt = m.halt
  BY <1>2, <1>3 DEF Mem
<1>5. Holds(s, h, {f}, "heap")
  BY <1>4, HoldingIs DEF Contents, Uses
<1>6. h \in Mem
  BY <1>5 DEF Holds
<1> HIDE DEF h
<1>7. PutsInUse(h, u, {f}, "heap")
  BY <1>6, InUseIs DEF Uses
<1>8. u \in Mem
  BY <1>7 DEF PutsInUse
<1> HIDE DEF u
<1>9. /\ n \in Mem /\ n.type = u.type /\ n.addr = u.addr /\ n.pd = u.pd /\ n.pt = u.pt
      /\ n.contents = u.contents /\ n.owner = u.owner /\ n.index = u.index + 1 /\ n.halt = u.halt
  <2>1. u.index + 1 \in Nat
    <3>1. u.index \in Nat
      BY <1>8 DEF Mem
    <3> QED
      BY <3>1
  <2>2. PICK i \in Nat : i = u.index + 1
    BY <2>1
  <2>3. n = [u EXCEPT !.index = i]
    <3>1. n = [u EXCEPT !.index = u.index + 1]
      OBVIOUS
    <3> QED
      BY <2>2, <3>1, Zenon
  <2> HIDE DEF n
  <2> QED
    BY <1>8, <2>2, <2>3 DEF Mem
<1> HIDE DEF n
<1>10. /\ u.type = m.type /\ u.addr = m.addr /\ u.pd = m.pd /\ u.pt = tables /\ u.index = m.index
       /\ u.halt = m.halt
       /\ u.contents = [g \in Frames |-> IF g \in {f} THEN "heap" ELSE m.contents[g]]
       /\ u.owner = [g \in Frames |-> IF g \in {f} THEN "heap" ELSE m.owner[g]]
  BY <1>4, <1>5, <1>7 DEF Holds, PutsInUse
<1>11. n.contents = [g \in Frames |-> IF g \in {f} THEN "heap" ELSE m.contents[g]]
  BY <1>9, <1>10
<1>12. n.owner = [g \in Frames |-> IF g \in {f} THEN "heap" ELSE m.owner[g]]
  BY <1>9, <1>10
<1>13. /\ n \in Mem /\ n.type = m.type /\ n.addr = m.addr /\ n.pd = m.pd /\ n.pt = tables
       /\ n.index = m.index + 1 /\ n.halt = m.halt
  BY <1>9, <1>10
<1> QED
  BY <1>2, <1>11, <1>12, <1>13 DEF EntryMade, n, u, h, s, d, e

\* The next page of the heap.
LEMMA EntrySteady ==
  ASSUME Layout, NEW m, Steady(m), NEW v \in 0 .. KernBase - 1, v = m.index,
         m.pd[pd_no(v)] # NONE, NEW f, Held(m, f), NEW n, EntryMade(m, n, f, v)
  PROVE  Steady(n) /\ OnlyUses(m, n, f) /\ n.index = m.index + 1
<1> DEFINE d == m.pd[pd_no(v)]
<1>1. Core(m) /\ Intact(m) /\ Clean(m) /\ LowOK(m)
  BY DEF Steady
<1>2. m \in Mem /\ m.halt = "no" /\ HighOK(m) /\ FreeOK(m) /\ UsedOK(m)
  BY <1>1 DEF Core
<1>3. Blank(m) /\ TablesOK(m) /\ HeapOK(m) /\ m.index <= KernBase
  BY <1>1 DEF LowOK
<1>4. /\ f \in Frames /\ f < TablesFrame /\ f # NONE /\ m.owner[f] = "none" /\ Below(m, f)
      /\ f \in Nat
  BY RoomyFrame, PagingAssumption DEF Held
<1>5. pd_no(v) \in Low /\ pd_no(v) \in Pd /\ pt_no(v) \in Pt /\ v \in Nat
  BY LowAddress
<1>6. d \in Frames /\ d < TablesFrame /\ m.owner[d] = "page table" /\ d # f
  BY <1>3, <1>4, <1>5 DEF TablesOK
<1> HIDE DEF d
<1>7. /\ n \in Mem /\ n.type = m.type /\ n.addr = m.addr /\ n.pd = m.pd /\ n.halt = "no"
  BY <1>2 DEF EntryMade
<1>8. n.index = m.index + 1 /\ n.index = v + 1 /\ n.index <= KernBase
  <2>1. n.index = m.index + 1
    BY DEF EntryMade
  <2> QED
    BY <2>1, Sizes
<1>9. \A t \in Frames, e \in Pt :
        n.pt[t][e] = IF t = d /\ e = pt_no(v) THEN f ELSE m.pt[t][e]
  BY DEF EntryMade, d
<1>10. n.owner = [g \in Frames |-> IF g \in {f} THEN "heap" ELSE m.owner[g]]
  BY DEF EntryMade
<1>11. \A g \in Frames : n.owner[g] = IF g = f THEN "heap" ELSE m.owner[g]
  BY <1>10
<1>12. \A g \in Frames : n.contents[g] = IF g = f THEN "heap" ELSE m.contents[g]
  BY DEF EntryMade
<1>13. Free(n) = Free(m)
  BY <1>7 DEF Free
<1>14. HighOK(n)
  <2> SUFFICES ASSUME NEW g \in Frames, g < Span
               PROVE  /\ m.pd[pd_no(Kptov(g))] \in Frames /\ TablesFrame <= m.pd[pd_no(Kptov(g))]
                      /\ n.pt[m.pd[pd_no(Kptov(g))]][pt_no(Kptov(g))] = g
    <3>1. n.pd = m.pd
      BY <1>7
    <3> QED
      BY <3>1 DEF HighOK
  <2>1. PICK t : t = m.pd[pd_no(Kptov(g))]
    OBVIOUS
  <2>2. t \in Frames /\ TablesFrame <= t /\ m.pt[t][pt_no(Kptov(g))] = g
    BY <1>2, <2>1 DEF HighOK
  <2>3. t # d
    <3>1. d \in Frames /\ d < TablesFrame /\ TablesFrame \in Nat
      BY <1>6, Sizes
    <3> QED
      BY <2>2, <3>1 DEF Frames
  <2>4. pt_no(Kptov(g)) \in Pt
    BY KernelAddress
  <2> QED
    BY <1>9, <2>1, <2>2, <2>3, <2>4
<1>15. FreeOK(n) /\ UsedOK(n)
  <2>1. PutToUse(m, n, f, "heap")
    BY <1>7, <1>10 DEF PutToUse
  <2> QED
    BY <1>2, <2>1, UsedKeeps
<1>16. Core(n)
  BY <1>7, <1>14, <1>15 DEF Core
<1>17. Intact(n)
  BY <1>1, <1>11, <1>12 DEF Intact
<1>18. Clean(n)
  <2> SUFFICES ASSUME NEW i \in Free(m) PROVE n.contents[m.addr[i]] = "zero"
    BY <1>7, <1>13 DEF Clean
  <2>1. f < m.addr[i] /\ m.addr[i] \in Frames /\ m.addr[i] \in Nat
    BY <1>1, <1>4, FreeUnused, RoomyFrame DEF Below
  <2>2. m.addr[i] # f
    BY <1>4, <2>1
  <2> QED
    BY <1>1, <1>12, <2>1, <2>2 DEF Clean
<1>19. OnlyUses(m, n, f)
  BY <1>7, <1>11 DEF OnlyUses
<1>20. Blank(n)
  <2> SUFFICES ASSUME NEW t \in Frames, t < TablesFrame, n.owner[t] # "page table", NEW e \in Pt
               PROVE  n.pt[t][e] = NONE
    BY DEF Blank
  <2>1. m.owner[t] # "page table"
    BY <1>4, <1>11
  <2>2. m.pt[t][e] = NONE
    BY <1>3, <2>1 DEF Blank
  <2> QED
    BY <1>6, <1>9, <2>1, <2>2
<1>21. TablesOK(n)
  <2>1. n.pd = m.pd
    BY <1>7
  <2>2. \A g \in Frames : m.owner[g] = "page table" => n.owner[g] = "page table"
    BY <1>4, <1>11
  <2> QED
    BY <1>3, <2>1, <2>2 DEF TablesOK
<1>22. ASSUME NEW w \in 0 .. KernBase - 1
       PROVE  Translate(n, w) = IF w = v THEN f ELSE Translate(m, w)
  <2>1. pd_no(w) \in Low /\ pt_no(w) \in Pt /\ w \in Nat
    BY LowAddress
  <2>2. n.pd = m.pd
    BY <1>7
  <2>3. PICK c : c = m.pd[pd_no(w)]
    OBVIOUS
  <2>4. Translate(n, w) = IF c = NONE THEN NONE ELSE n.pt[c][pt_no(w)]
    BY <2>2, <2>3, LowTranslate
  <2>5. Translate(m, w) = IF c = NONE THEN NONE ELSE m.pt[c][pt_no(w)]
    BY <2>3, LowTranslate
  <2>6. c # NONE => c \in Frames
    BY <1>3, <2>1, <2>3 DEF TablesOK
  <2>7. CASE w = v
    BY <1>5, <1>6, <1>9, <2>3, <2>4, <2>6, <2>7 DEF d
  <2>8. CASE w # v
    <3>1. ~ (c = d /\ c # NONE /\ pt_no(w) = pt_no(v))
      <4> SUFFICES ASSUME c = d, c # NONE, pt_no(w) = pt_no(v) PROVE FALSE
        OBVIOUS
      <4>1. pd_no(w) = pd_no(v)
        BY <1>3, <1>5, <2>1, <2>3 DEF TablesOK, d
      <4> QED
        BY <1>5, <2>1, <2>8, <4>1, OnePart
    <3> QED
      BY <1>9, <2>1, <2>4, <2>5, <2>6, <2>8, <3>1
  <2> QED
    BY <2>7, <2>8
<1>23. ASSUME NEW w \in 0 .. KernBase - 1, w < m.index
       PROVE  /\ Translate(m, w) \in Frames /\ m.owner[Translate(m, w)] = "heap"
              /\ Translate(m, w) # f /\ Translate(m, w) # NONE
  <2>1. Translate(m, w) # NONE /\ m.owner[Translate(m, w)] = "heap"
    BY <1>3, <1>23 DEF HeapOK, HeapAt
  <2>2. Translate(m, w) \in Frames
    <3>1. HeapAt(m, w)
      BY <1>3, <1>23 DEF HeapOK
    <3> QED
      BY <1>2, <1>3, <3>1, HeapFrame
  <2> QED
    BY <1>4, <2>1, <2>2
<1>24. HeapOK(n)
  <2>1. ASSUME NEW w \in 0 .. KernBase - 1
        PROVE  IF w < n.index THEN HeapAt(n, w) ELSE Translate(n, w) = NONE
    <3>1. CASE w = v
      BY <1>4, <1>5, <1>8, <1>11, <1>22, <3>1 DEF HeapAt
    <3>2. CASE w < v
      <4>1. Translate(n, w) = Translate(m, w) /\ w < n.index
        BY <1>5, <1>8, <1>22, <3>2
      <4> QED
        BY <1>11, <1>23, <3>2, <4>1 DEF HeapAt
    <3>3. CASE v < w
      <4>1. Translate(n, w) = Translate(m, w) /\ ~ (w < n.index) /\ ~ (w < m.index)
        BY <1>5, <1>8, <1>22, <3>3
      <4> QED
        BY <1>3, <4>1 DEF HeapOK
    <3> QED
      BY <1>5, <3>1, <3>2, <3>3
  <2>2. ASSUME NEW x \in 0 .. KernBase - 1, NEW y \in 0 .. KernBase - 1, x < n.index, y < n.index,
               Translate(n, x) = Translate(n, y)
        PROVE  x = y
    <3>1. x \in Nat /\ y \in Nat /\ (x = v \/ x < v) /\ (y = v \/ y < v)
      BY <1>5, <1>8, <2>2
    <3>2. CASE x = v \/ y = v
      BY <1>22, <1>23, <2>2, <3>1, <3>2
    <3>3. CASE x # v /\ y # v
      <4>1. x < m.index /\ y < m.index /\ Translate(m, x) = Translate(m, y)
        BY <1>22, <2>2, <3>1, <3>3
      <4> QED
        BY <1>3, <4>1 DEF HeapOK
    <3> QED
      BY <3>2, <3>3
  <2> QED
    BY <2>1, <2>2 DEF HeapOK
<1>25. Steady(n)
  BY <1>8, <1>16, <1>17, <1>18, <1>20, <1>21, <1>24 DEF Steady, LowOK
<1> QED
  BY <1>8, <1>19, <1>25
\* What a call for the heap leaves of m.
HeapGrown(m, n, k) ==
  (Steady(n) \/ Exhausted(n)) /\ Keeps(m, n) /\ n.index \in Nat /\ n.index <= m.index + k

LEMMA NoFrame ==
  ASSUME NEW m \in Mem
  PROVE  NextFrame(m) = NONE <=> Free(m) = {}
  BY TakenNext DEF TakesNext, NextFrame

LEMMA StoppedIs ==
  ASSUME NEW m \in Mem, Intact(m), Free(m) = {}
  PROVE  /\ Exhausted(Stopped(m, "PANIC")) /\ Stopped(m, "PANIC").owner = m.owner
         /\ Stopped(m, "PANIC").index = m.index /\ Stopped(m, "PANIC").addr = m.addr
         /\ Keeps(m, Stopped(m, "PANIC"))
<1> DEFINE n == Stopped(m, "PANIC")
<1>1. /\ n \in Mem /\ n.type = m.type /\ n.contents = m.contents /\ n.owner = m.owner
      /\ n.halt = "PANIC" /\ n.index = m.index /\ n.addr = m.addr
  BY DEF Mem, Stopped
<1> HIDE DEF n
<1>2. Free(n) = {} /\ Intact(n)
  BY <1>1 DEF Free, Intact
<1> QED
  BY <1>1, <1>2 DEF Exhausted, Keeps, n

\* An entry in a table that is there.
LEMMA EntryGrown ==
  ASSUME Layout, NEW m, Steady(m), m.index < KernBase, m.pd[pd_no(m.index)] # NONE,
         NEW f, Held(m, f)
  PROVE  LET map == SetPte(m, f, m.index)
             n == [InUse(Holding(map, {f}, "heap"), {f}, "heap") EXCEPT !.index = @ + 1]
         IN  map.halt = "no" /\ Steady(n) /\ OnlyUses(m, n, f) /\ n.index = m.index + 1
<1>1. PICK v : v = m.index
  OBVIOUS
<1>2. m \in Mem /\ m.halt = "no"
  BY DEF Steady, Core
<1>3. v \in 0 .. KernBase - 1
  <2>1. v \in Nat /\ v < KernBase
    BY <1>1, <1>2 DEF Mem
  <2> QED
    BY <2>1, Sizes
<1>4. pd_no(v) \in Pd /\ pt_no(v) \in Pt /\ f \in Frames /\ m.pd[pd_no(v)] # NONE
  BY <1>1, <1>3, LowAddress, RoomyFrame DEF Held
<1> DEFINE n == [InUse(Holding(SetPte(m, f, v), {f}, "heap"), {f}, "heap") EXCEPT !.index = @ + 1]
<1>5. EntryMade(m, n, f, v)
  BY <1>2, <1>4, EntryIs
<1>6. SetPte(m, f, v).halt = "no"
  BY <1>2 DEF SetPte, Mem
<1> HIDE DEF n
<1>7. Steady(n) /\ OnlyUses(m, n, f) /\ n.index = m.index + 1
  BY <1>1, <1>3, <1>4, <1>5, EntrySteady
<1> QED
  BY <1>1, <1>6, <1>7 DEF n

LEMMA HeapPageGrown ==
  ASSUME Layout, NEW m, Steady(m), m.index < KernBase
  PROVE  HeapGrown(m, HeapPage(m), 1) /\ (HeapPage(m).halt = "no" => Steady(HeapPage(m)))
<1> DEFINE f == NextFrame(m)
           t == Taken(m)
           v == m.index
           n == HeapPage(m)
<1>0. ASSUME Steady(n) \/ Exhausted(n) PROVE n.halt = "no" => Steady(n)
  BY <1>0 DEF Exhausted
<1>1. m \in Mem /\ m.halt = "no" /\ v \in Nat /\ Intact(m)
  BY DEF Steady, Core, Mem
<1>2. CASE Free(m) = {}
  <2>1. n = m
    BY <1>1, <1>2, NoFrame DEF HeapPage
  <2>2. Keeps(m, m)
    BY DEF Keeps
  <2> QED
    BY <1>0, <1>1, <2>1, <2>2 DEF HeapGrown
<1>3. CASE Free(m) # {}
  <2>1. TakesNext(m, t, f)
    BY <1>1, <1>3, TakenNext
  <2>2. Steady(t) /\ Held(t, f) /\ f \in Frames
    <3> HIDE DEF f, t
    <3> QED BY <2>1, NextSteady
  <2>3. f # NONE /\ t.owner = m.owner /\ t.index = v /\ t \in Mem
    BY <2>1 DEF TakesNext, SameButTypes
  <2>4. t.halt = "no" /\ Intact(t)
    BY <2>2 DEF Steady, Core
  <2>5. v \in 0 .. KernBase - 1
    BY <1>1, Sizes
  <2>6. n = LET map == MapPage(t, f, v)
            IN  IF map.halt # "no" THEN map
                ELSE [InUse(Holding(map, {f}, "heap"), {f}, "heap") EXCEPT !.index = @ + 1]
    BY <1>1, <2>3 DEF HeapPage
  <2> HIDE DEF f, t, n
  <2>7. CASE t.pd[pd_no(v)] # NONE
    <3>1. ~ NoTable(t, v)
      BY <2>5, <2>7, LowTranslate
    <3>2. MapPage(t, f, v) = SetPte(t, f, v)
      BY <2>3, <2>4, <3>1 DEF MapPage
    <3>3. /\ SetPte(t, f, v).halt = "no"
          /\ LET q == [InUse(Holding(SetPte(t, f, v), {f}, "heap"), {f}, "heap") EXCEPT !.index = @ + 1]
             IN  Steady(q) /\ OnlyUses(t, q, f) /\ q.index = v + 1
      BY <2>2, <2>3, <2>5, <2>7, EntryGrown
    <3>4. Steady(n) /\ OnlyUses(t, n, f) /\ n.index = v + 1
      BY <2>6, <3>2, <3>3
    <3>5. Keeps(m, n)
      BY <1>1, <2>1, <3>4, NextKept DEF Steady
    <3> QED
      BY <1>0, <1>1, <3>4, <3>5 DEF HeapGrown, n
  <2>8. CASE t.pd[pd_no(v)] = NONE /\ Free(t) = {}
    <3>1. NoTable(t, v)
      BY <2>5, <2>8, LowTranslate
    <3>2. MapPage(t, f, v) = Stopped(t, "PANIC")
      BY <2>3, <2>4, <2>8, <3>1, NoFrame DEF MapPage
    <3>3. Exhausted(Stopped(t, "PANIC")) /\ Stopped(t, "PANIC").owner = m.owner
          /\ Stopped(t, "PANIC").index = v /\ Keeps(t, Stopped(t, "PANIC"))
      BY <2>3, <2>4, <2>8, StoppedIs
    <3>4. n = Stopped(t, "PANIC")
      BY <2>6, <3>2, <3>3 DEF Exhausted
    <3>5. Exhausted(n) /\ n.owner = m.owner /\ n.index = v
      BY <3>3, <3>4
    <3>6. Keeps(m, n)
      <4>1. Keeps(m, t)
        BY <2>1 DEF TakesNext, SameButTypes, Keeps
      <4> QED
        BY <3>3, <3>4, <4>1, KeepsTwice
    <3> QED
      BY <1>0, <1>1, <3>5, <3>6 DEF HeapGrown, n
  <2>9. CASE t.pd[pd_no(v)] = NONE /\ Free(t) # {}
    <3> DEFINE g == NextFrame(t)
               k == Taken(t)
               w == MakeTable(t, v)
    <3>1. TakesNext(t, k, g)
      BY <2>3, <2>9, TakenNext
    <3>2. TableMade(k, w, g, v)
      BY <2>2, <2>5, <2>9, MakeTableIs
    <3> HIDE DEF g, k, w
    <3>3. Steady(k) /\ Held(k, g) /\ Held(k, f) /\ f < g
      BY <2>2, <3>1, NextSteady
    <3>4. k.pd = t.pd /\ k.owner = m.owner /\ k.index = v /\ g # NONE
      BY <2>3, <3>1 DEF TakesNext, SameButTypes
    <3>5. f # g
      BY <2>2, <3>3 DEF Frames
    <3>6. k.pd[pd_no(v)] = NONE
      BY <2>9, <3>4
    <3>7. Steady(w) /\ OnlyUses(k, w, g) /\ w.pd[pd_no(v)] # NONE /\ w.index = v /\ Held(w, f)
      BY <2>5, <3>2, <3>3, <3>4, <3>5, <3>6, TableSteady
    <3>8. ~ NoTable(t, Kptov(g))
      <4>1. g \in Frames /\ g < Span
        BY <3>3, RoomyFrame DEF Held
      <4>2. HighOK(t)
        BY <2>2 DEF Steady, Core
      <4> QED
        BY <2>3, <4>1, <4>2, KernelMapped
    <3>9. NoTable(t, v)
      BY <2>5, <2>9, LowTranslate
    <3>10. MapPage(t, f, v) = SetPte(w, f, v)
      BY <2>3, <2>4, <3>4, <3>8, <3>9 DEF MapPage, g, w
    <3>11. /\ SetPte(w, f, v).halt = "no"
           /\ LET q == [InUse(Holding(SetPte(w, f, v), {f}, "heap"), {f}, "heap") EXCEPT !.index = @ + 1]
              IN  Steady(q) /\ OnlyUses(w, q, f) /\ q.index = v + 1
      BY <3>7, EntryGrown
    <3>12. Steady(n) /\ OnlyUses(w, n, f) /\ n.index = v + 1
      BY <2>6, <3>10, <3>11
    <3>13. Keeps(m, n)
      <4>1. Core(m) /\ Core(t)
        BY <2>2 DEF Steady
      <4>2. Keeps(t, w)
        BY <3>1, <3>7, <4>1, NextKept
      <4>3. PICK e \in Free(m) : f = m.addr[e] /\ Free(t) = Free(m) \ {e}
        BY <2>1 DEF TakesNext
      <4>4. t.addr = m.addr /\ t.owner = m.owner /\ m.owner[f] = "none"
        BY <2>1, <4>1, NextHeld DEF TakesNext, SameButTypes
      <4>5. Free(n) = Free(w) /\ n.addr = w.addr /\ \A h \in Frames : h # f => n.owner[h] = w.owner[h]
        BY <3>12 DEF OnlyUses, Free
      <4>6. /\ w.addr = t.addr /\ Free(w) \subseteq Free(t)
            /\ \A h \in Frames : w.owner[h] # t.owner[h] =>
                 t.owner[h] = "none" /\ \E i \in Free(t) : h = t.addr[i]
        BY <4>2 DEF Keeps
      <4> QED
        BY <4>3, <4>4, <4>5, <4>6 DEF Keeps
    <3> QED
      BY <1>0, <1>1, <3>12, <3>13 DEF HeapGrown, n
  <2> QED
    BY <2>7, <2>8, <2>9 DEF n
<1> QED
  BY <1>2, <1>3
LEMMA PallocHeapGrown ==
  ASSUME Layout, NEW m, Steady(m), NEW K \in Nat, m.index + K <= KernBase
  PROVE  HeapGrown(m, PallocHeap(m, K), K)
<1> DEFINE body(F) == [i \in 0 .. K |-> IF i = 0 THEN m ELSE HeapPage(F[i - 1])]
           upto(F, k) == F = [i \in 0 .. k |-> IF i = 0 THEN m ELSE HeapPage(F[i - 1])]
           Q == {k \in 0 .. K : \E F : upto(F, k)}
<1>1. K \in Nat
  OBVIOUS
<1>2. PallocHeap(m, K) = (CHOOSE F : F = body(F))[K]
  BY DEF PallocHeap
<1>3. 0 \in Q
  <2> DEFINE F == [i \in 0 .. 0 |-> m]
  <2>1. F = [i \in 0 .. 0 |-> IF i = 0 THEN m ELSE HeapPage(F[i - 1])]
    OBVIOUS
  <2>2. \E G : upto(G, 0)
    BY <2>1
  <2> QED
    BY <1>1, <2>2
<1>4. ASSUME NEW k \in 1 .. K, k - 1 \in Q PROVE k \in Q
  <2>1. PICK F : upto(F, k - 1)
    BY <1>4
  <2> DEFINE G == [i \in 0 .. k |-> IF i = 0 THEN m ELSE HeapPage(F[i - 1])]
  <2>2. ASSUME NEW i \in 0 .. k - 1 PROVE G[i] = F[i]
    BY <1>1, <2>1
  <2>3. ASSUME NEW i \in 1 .. k PROVE G[i] = HeapPage(G[i - 1])
    <3>1. i - 1 \in 0 .. k - 1 /\ i \in 0 .. k /\ i # 0
      BY <1>1
    <3> QED
      BY <2>2, <3>1
  <2>4. G[0] = m
    BY <1>1
  <2>5. G = [i \in 0 .. k |-> G[i]]
    OBVIOUS
  <2> HIDE DEF G
  <2>6. \A i \in 0 .. k : G[i] = IF i = 0 THEN m ELSE HeapPage(G[i - 1])
    BY <1>1, <2>3, <2>4
  <2>7. [i \in 0 .. k |-> G[i]] = [i \in 0 .. k |-> IF i = 0 THEN m ELSE HeapPage(G[i - 1])]
    BY <2>6
  <2>8. upto(G, k)
    BY <2>5, <2>7
  <2> QED
    BY <1>1, <2>8
<1>5. \E F : F = body(F)
  <2> HIDE DEF Q
  <2>1. K \in Q
    BY <1>1, <1>3, <1>4, UpTo
  <2> QED
    BY <2>1 DEF Q
<1> DEFINE N == CHOOSE F : F = body(F)
<1>6. N = body(N)
  BY <1>5
<1> HIDE DEF N
<1>7. N[0] = m /\ \A i \in 1 .. K : N[i] = HeapPage(N[i - 1])
  BY <1>1, <1>6
<1> DEFINE P == {i \in 0 .. K : HeapGrown(m, N[i], i)}
<1>8. m.index \in Nat
  BY DEF Steady, Core, Mem
<1>9. 0 \in P
  <2>1. Keeps(m, m)
    BY DEF Keeps
  <2>2. HeapGrown(m, m, 0)
    BY <1>8, <2>1 DEF HeapGrown
  <2> QED
    BY <1>7, <2>2
<1>10. ASSUME NEW i \in 1 .. K, i - 1 \in P PROVE i \in P
  <2>1. PICK y : y = N[i - 1]
    OBVIOUS
  <2>2. HeapGrown(m, y, i - 1)
    BY <1>10, <2>1
  <2>3. (Steady(y) \/ Exhausted(y)) /\ Keeps(m, y) /\ y.index \in Nat /\ y.index <= m.index + (i - 1)
    BY <2>2 DEF HeapGrown
  <2>4. N[i] = HeapPage(y)
    BY <1>7, <2>1
  <2>5. HeapGrown(m, N[i], i)
    <3>1. CASE Steady(y)
      <4>1. y.index < KernBase
        BY <1>8, <2>3, Sizes
      <4>2. HeapGrown(y, N[i], 1)
        BY <2>4, <3>1, <4>1, HeapPageGrown
      <4>3. /\ Steady(N[i]) \/ Exhausted(N[i])
            /\ Keeps(y, N[i]) /\ N[i].index \in Nat /\ N[i].index <= y.index + 1
        BY <4>2 DEF HeapGrown
      <4>4. Keeps(m, N[i])
        BY <2>3, <4>3, KeepsTwice
      <4>5. N[i].index <= m.index + i
        BY <1>8, <2>3, <4>3
      <4> QED
        BY <4>3, <4>4, <4>5 DEF HeapGrown
    <3>2. CASE Exhausted(y)
      <4>1. y.halt # "no"
        BY <3>2 DEF Exhausted
      <4>2. N[i] = y
        BY <2>4, <4>1 DEF HeapPage
      <4>3. y.index <= m.index + i
        BY <1>8, <2>3
      <4> QED
        BY <2>3, <4>2, <4>3 DEF HeapGrown
    <3> QED
      BY <2>3, <3>1, <3>2
  <2> QED
    BY <2>5
<1> HIDE DEF P
<1>11. K \in P
  BY <1>1, <1>9, <1>10, UpTo
<1> QED
  BY <1>2, <1>11 DEF P, N

\* A page for a thread leaves the heap as it is, when it is taken and when it is cleared.
LEMMA ThreadGot ==
  ASSUME Layout, NEW m, Steady(m), NEW e \in Free(m), \A i \in Free(m) : e <= i
  PROVE  LET n == KernPage(m, e, "thread")
         IN  Steady(n) /\ Keeps(m, n) /\ Gets(m, n, e, m.addr[e], "thread")
<1> DEFINE n == KernPage(m, e, "thread")
           f == m.addr[e]
<1>1. Core(m) /\ Intact(m) /\ Clean(m) /\ LowOK(m)
  BY DEF Steady
<1>2. "thread" \in Uses \ {"none"} /\ NextEntry(m) = e
  BY NextIs DEF Uses
<1>3. /\ f = NextFrame(m) /\ TakesNext(m, Taken(m), f) /\ Gets(m, n, e, f, "thread")
      /\ Core(n) /\ Keeps(m, n) /\ Intact(n)
  BY <1>1, <1>2, PageTaken
<1>4. m.owner[f] = "none" /\ f \in Frames
  BY <1>1, FreeUnused DEF Roomy
<1> HIDE DEF n, f
<1>5. /\ n.addr = m.addr /\ n.pd = m.pd /\ n.pt = m.pt /\ n.index = m.index
      /\ Free(n) = Free(m) \ {e}
  BY <1>3 DEF Gets
<1>6. \A g \in Frames : n.owner[g] = IF g = f THEN "thread" ELSE m.owner[g]
  BY <1>3 DEF Gets
<1>7. \A g \in Frames : g # f => n.contents[g] = m.contents[g]
  BY <1>3 DEF Gets
<1>8. Clean(n)
  <2> SUFFICES ASSUME NEW i \in Free(m), i # e PROVE n.contents[m.addr[i]] = "zero"
    BY <1>5 DEF Clean
  <2>1. e \in Nat /\ i \in Nat /\ e < i
    <3>1. e \in Nat /\ i \in Nat /\ e <= i
      BY DEF Free, Entries
    <3> QED
      BY <3>1
  <2>2. m.addr[e] < m.addr[i]
    BY <1>1, <2>1 DEF Core, FreeOK
  <2>3. m.addr[i] \in Frames /\ m.addr[i] \in Nat /\ m.addr[e] \in Nat
    BY <1>1, FreeUnused, RoomyFrame
  <2>4. m.addr[i] # f
    BY <2>2, <2>3 DEF f
  <2> QED
    BY <1>1, <1>7, <2>3, <2>4 DEF Clean
<1>9. Blank(m) /\ TablesOK(m) /\ HeapOK(m) /\ m.index <= KernBase /\ m \in Mem
  BY <1>1 DEF LowOK, Core
<1>10. Blank(n)
  BY <1>4, <1>5, <1>6, <1>9 DEF Blank
<1>11. TablesOK(n)
  <2>1. \A g \in Frames : m.owner[g] = "page table" => n.owner[g] = "page table"
    BY <1>4, <1>6
  <2>2. TablesOK(m) /\ n.pd = m.pd
    BY <1>5, <1>9
  <2>3. \A d \in Low : n.pd[d] # NONE =>
          n.pd[d] \in Frames /\ n.pd[d] < TablesFrame /\ n.owner[n.pd[d]] = "page table"
    BY <2>1, <2>2 DEF TablesOK
  <2>4. \A d, c \in Low : n.pd[d] # NONE /\ n.pd[d] = n.pd[c] => d = c
    BY <2>2 DEF TablesOK
  <2> QED
    BY <2>3, <2>4 DEF TablesOK
<1>12. HeapOK(n)
  <2>1. \A v \in 0 .. KernBase - 1 : Translate(n, v) = Translate(m, v)
    BY <1>5, LowTranslate
  <2>2. ASSUME NEW v \in 0 .. KernBase - 1, HeapAt(m, v) PROVE HeapAt(n, v)
    <3>1. Translate(m, v) \in Frames
      BY <1>9, <2>2, HeapFrame
    <3> QED
      BY <1>4, <1>6, <2>1, <2>2, <3>1 DEF HeapAt
  <2> QED
    BY <1>5, <1>9, <2>1, <2>2 DEF HeapOK
<1> QED
  BY <1>3, <1>5, <1>8, <1>9, <1>10, <1>11, <1>12 DEF Steady, LowOK, n, f

LEMMA ThreadCleared ==
  ASSUME Layout, NEW m, Steady(m), NEW f, Roomy(f), m.owner[f] = "thread",
         \A g \in f .. f + WordSize - 1 : g \in Frames /\ g # f => m.owner[g] = "none"
  PROVE  LET n == ClearPage(m, f, "thread", "zero") IN Steady(n) /\ Keeps(m, n)
<1> DEFINE n == ClearPage(m, f, "thread", "zero")
<1>1. Core(m) /\ Intact(m) /\ Clean(m) /\ LowOK(m) /\ f \in Frames
  BY DEF Steady, Roomy
<1>2. m \in Mem /\ m.halt = "no" /\ HighOK(m) /\ "thread" \in Uses
  BY <1>1 DEF Core, Uses
<1>3. Clears(m, n, f, "thread", "zero")
  BY <1>2, PageCleared
<1> HIDE DEF n
<1>4. Core(n) /\ Keeps(m, n) /\ Intact(n)
  BY <1>1, <1>3, ClearedCore
<1>5. /\ n.type = m.type /\ n.addr = m.addr /\ n.pd = m.pd /\ n.pt = m.pt /\ n.owner = m.owner
      /\ n.index = m.index
      /\ \A g \in Frames : g # f => n.contents[g] = "zero" \/ n.contents[g] = m.contents[g]
  BY <1>3 DEF Clears
<1>6. Clean(n)
  <2> SUFFICES ASSUME NEW i \in Free(m) PROVE n.contents[m.addr[i]] = "zero"
    BY <1>5 DEF Clean, Free
  <2>1. m.addr[i] \in Frames /\ m.owner[m.addr[i]] = "none"
    BY <1>1, FreeUnused DEF Roomy
  <2>2. m.addr[i] # f
    BY <2>1
  <2> QED
    BY <1>1, <1>5, <2>1, <2>2 DEF Clean
<1>7. LowOK(n)
  BY <1>1, <1>5, SameLow
<1> QED
  BY <1>4, <1>6, <1>7 DEF Steady, n

\* And when both happen at once.
LEMMA ThreadGranted ==
  ASSUME Layout, NEW m, Steady(m), Free(m) # {}
  PROVE  LET n == PallocKern(m, "thread", "zero") IN Steady(n) /\ Keeps(m, n)
<1> DEFINE e == NextEntry(m)
           f == NextFrame(m)
           k == KernPage(m, e, "thread")
<1>1. Core(m) /\ "thread" \in Uses \ {"none"}
  BY DEF Steady, Uses
<1>2. e \in Free(m) /\ f = m.addr[e] /\ TakesNext(m, Taken(m), f)
  BY <1>1, PageTaken
<1>3. \A i \in Free(m) : e <= i
  <2>1. Free(m) \in SUBSET Nat
    BY DEF Free, Entries
  <2>2. \E x \in Free(m) : \A y \in Free(m) : x <= y
    BY <2>1, MinInSet
  <2> QED
    BY <2>2 DEF NextEntry
<1>4. PallocKern(m, "thread", "zero") = ClearPage(k, f, "thread", "zero")
  BY DEF PallocKern
<1> HIDE DEF e, f
<1>5. Steady(k) /\ Keeps(m, k) /\ Gets(m, k, e, f, "thread")
  BY <1>2, <1>3, ThreadGot
<1> HIDE DEF k
<1>6. Roomy(f) /\ f \in Frames
  BY <1>1, <1>2, FreeUnused DEF Roomy
<1>7. k.owner[f] = "thread"
  BY <1>5, <1>6 DEF Gets
<1>8. \A g \in f .. f + WordSize - 1 : g \in Frames /\ g # f => k.owner[g] = "none"
  BY <1>1, <1>2, <1>5, NothingBehind DEF Gets
<1>9. LET n == ClearPage(k, f, "thread", "zero") IN Steady(n) /\ Keeps(k, n)
  BY <1>5, <1>6, <1>7, <1>8, ThreadCleared
<1> QED
  BY <1>4, <1>5, <1>9, KeepsTwice
-------------------------------------------------------------------------------
(* The inductive invariant, and the theorems. *)

\* What boot() has made of the memory when it has come as far as s.
Stage(s, r, m) ==
  \/ s = "regions" /\ m = BootMem
  \/ s = "pages" /\ m = BootMem /\ \E map \in Maps : r = Usable(map)
  \/ s = "identity" /\ Core(m) /\ Early(m, 0) /\ Blank(m) /\ BootTables(m)
  \/ s = "pool" /\ Core(m) /\ Early(m, 0) /\ Blank(m) /\ Unmapped(m) /\ m.index = 0
  \/ s = "heap" /\ Core(m) /\ Clean(m) /\ Blank(m) /\ Unmapped(m) /\ m.index = 0
  \/ s = "up" /\ Steady(m)

Fine(s, r, m) ==
  /\ r \in Seq(Region) /\ m \in Mem /\ Intact(m) /\ FromMap(r, m)
  /\ (m.halt = "no" /\ Stage(s, r, m)) \/ Exhausted(m)

\* The interrupted callers: nothing before the entry one has found is free, and the page
\* one has yet to clear is a thread's.
Waiting(s, m, es, fs) ==
  /\ es \in SUBSET Entries /\ fs \in SUBSET Frames
  /\ s = "up" \/ (es = {} /\ fs = {})
  /\ \A e \in es : Roomy(m.addr[e]) /\ \A i \in Free(m) : e <= i
  /\ \A f \in fs : Roomy(f) /\ m.owner[f] = "thread"

\* After a race, which comes when the kernel is up.
AfterRace(s, r, m, es, fs) ==
  /\ r \in Seq(Region) /\ m \in Mem /\ m.halt = "no" /\ s = "up"
  /\ es \in SUBSET Entries /\ fs \in SUBSET Frames
  /\ \A v \in 0 .. KernBase - 1 : Translate(m, v) # NONE => v < m.index

PagingInv ==
  \/ raced = TRUE /\ AfterRace(step, regions, mem, found, unclear)
  \/ raced = FALSE /\ Fine(step, regions, mem) /\ Waiting(step, mem, found, unclear)

\* The body of NeverRegranted.
Rightful ==
  ~raced' => \A f \in Frames : mem'.owner[f] # mem.owner[f] =>
    \/ mem.owner[f] = "none" /\ UsablePage(regions, f)
    \/ mem.owner[f] = "boot table" /\ step = "identity" /\ LowTable(f)

LEMMA FineExhausted ==
  ASSUME NEW s, NEW r \in Seq(Region), NEW m, Exhausted(m)
  PROVE  Fine(s, r, m)
  BY DEF Fine, Exhausted, FromMap

LEMMA FineSteady ==
  ASSUME NEW r \in Seq(Region), NEW m, Steady(m), FromMap(r, m)
  PROVE  Fine("up", r, m)
  BY DEF Fine, Stage, Steady, Core

LEMMA StartsFine ==
  ASSUME Layout, Init
  PROVE  PagingInv
<1>1. /\ step = "regions" /\ regions = <<>> /\ mem = BootMem
      /\ found = {} /\ unclear = {} /\ raced = FALSE
  BY DEF Init
<1>2. Fine("regions", <<>>, BootMem)
  <2>1. FromMap(<<>>, BootMem) /\ BootMem \in Mem /\ Intact(BootMem) /\ BootMem.halt = "no"
    BY Booted DEF FromMap
  <2> QED
    BY <2>1, EmptySeq DEF Fine, Stage
<1> QED
  BY <1>1, <1>2 DEF PagingInv, Waiting

\* Callers that wait are not disturbed by the frames others get.
LEMMA WaitingKept ==
  ASSUME NEW s, NEW m, NEW n, NEW es, NEW fs, Waiting(s, m, es, fs), Keeps(m, n)
  PROVE  Waiting(s, n, es, fs)
<1>1. ASSUME NEW e \in es PROVE Roomy(n.addr[e]) /\ \A i \in Free(n) : e <= i
  BY DEF Waiting, Keeps
<1>2. ASSUME NEW f \in fs PROVE n.owner[f] = "thread"
  <2>1. f \in Frames /\ m.owner[f] = "thread"
    BY DEF Waiting
  <2> QED
    BY <2>1 DEF Keeps
<1> QED
  BY <1>1, <1>2 DEF Waiting

\* A step nobody waits for, and one that only puts frames to use.
LEMMA BootStep ==
  ASSUME PagingInv, ~ raced, step # "up", UNCHANGED callers, Fine(step', regions', mem')
  PROVE  PagingInv'
<1>1. found' = found /\ unclear' = unclear /\ raced' = raced
  BY DEF callers
<1>2. found = {} /\ unclear = {} /\ raced = FALSE
  BY DEF PagingInv, Waiting
<1> QED
  BY <1>1, <1>2 DEF PagingInv, Waiting

LEMMA UpStep ==
  ASSUME PagingInv, ~ raced, step = "up", step' = "up", regions' = regions, UNCHANGED callers,
         Steady(mem') \/ Exhausted(mem'), Keeps(mem, mem')
  PROVE  PagingInv' /\ Rightful
<1>1. found' = found /\ unclear' = unclear /\ raced' = raced
  BY DEF callers
<1>2. raced = FALSE /\ Fine(step, regions, mem) /\ Waiting(step, mem, found, unclear)
  BY DEF PagingInv
<1>3. regions \in Seq(Region) /\ FromMap(regions, mem)
  BY <1>2 DEF Fine
<1>4. FromMap(regions, mem') /\ Allots(regions, mem, mem')
  BY <1>3, KeepsAllots
<1>5. Fine("up", regions, mem')
  BY <1>3, <1>4, FineSteady, FineExhausted
<1>6. Waiting("up", mem', found, unclear)
  BY <1>2, WaitingKept
<1> QED
  BY <1>1, <1>2, <1>4, <1>5, <1>6 DEF PagingInv, Rightful, Allots

LEMMA UsableRegionsFine ==
  ASSUME Layout, PagingInv, UsableRegions
  PROVE  PagingInv' /\ Rightful
<1>1. /\ step = "regions" /\ mem.halt = "no" /\ step' = "pages" /\ ~ raced /\ UNCHANGED callers
  BY DEF UsableRegions, Step
<1>2. mem = BootMem
  BY <1>1 DEF PagingInv, Fine, Exhausted, Stage
<1>3. PICK map \in Maps : regions' = Usable(map)
  BY DEF UsableRegions
<1>4. regions' \in Seq(Region)
  <2>1. Usable(map) \in Seq(Fitting) /\ Fitting \subseteq Region
    BY UsableFits DEF Fitting
  <2>2. Len(Usable(map)) \in Nat /\ Usable(map) \in [1 .. Len(Usable(map)) -> Fitting]
    BY <2>1, LenProperties
  <2>3. Usable(map) \in [1 .. Len(Usable(map)) -> Region]
    BY <2>1, <2>2
  <2> QED
    BY <1>3, <2>2, <2>3, IsSequence
<1>5. Fine(step', regions', mem') /\ mem'.owner = mem.owner
  <2>1. CASE regions' = <<>>
    <3>1. mem' = Stopped(BootMem, "PANIC")
      BY <1>2, <2>1 DEF UsableRegions
    <3>2. Exhausted(mem') /\ mem'.owner = mem.owner
      BY <1>2, <3>1, Booted, StoppedIs
    <3> QED
      BY <1>4, <3>2, FineExhausted
  <2>2. CASE regions' # <<>>
    <3>1. mem' = BootMem
      BY <1>2, <2>2 DEF UsableRegions
    <3>2. Stage(step', regions', mem')
      BY <1>1, <1>3, <3>1 DEF Stage
    <3>3. FromMap(regions', mem')
      BY <3>1, Booted DEF FromMap
    <3> QED
      BY <1>2, <1>4, <3>1, <3>2, <3>3, Booted DEF Fine
  <2> QED
    BY <2>1, <2>2
<1> QED
  BY <1>1, <1>5, BootStep DEF Rightful

LEMMA SetupAvailablePagesFine ==
  ASSUME Layout, PagingInv, SetupAvailablePages
  PROVE  PagingInv' /\ Rightful
<1>1. /\ step = "pages" /\ mem.halt = "no" /\ step' = "identity" /\ regions' = regions
      /\ ~ raced /\ UNCHANGED callers
  BY DEF SetupAvailablePages, Step
<1>2. mem = BootMem /\ (\E map \in Maps : regions = Usable(map)) /\ regions \in Seq(Region)
  BY <1>1 DEF PagingInv, Fine, Exhausted, Stage
<1>3. PICK map \in Maps : regions = Usable(map)
  BY <1>2
<1>4. mem' = PallocKern(ReserveVideo(ReserveKernel(Listed(BootMem, PagesOf(Usable(map))))),
                        "base_pd", "copied")
  BY <1>2, <1>3 DEF SetupAvailablePages
<1>5. /\ Core(mem') /\ Intact(mem') /\ Allots(regions, mem, mem') /\ Early(mem', 0)
      /\ Blank(mem') /\ BootTables(mem') /\ FromMap(regions, mem')
  BY <1>2, <1>3, <1>4, SetUp
<1>6. Fine(step', regions', mem')
  BY <1>1, <1>2, <1>5 DEF Fine, Stage, Core
<1> QED
  BY <1>1, <1>5, <1>6, BootStep DEF Rightful, Allots

LEMMA ClearIdentityPagesFine ==
  ASSUME Layout, PagingInv, ClearIdentityPages
  PROVE  PagingInv' /\ Rightful
<1>1. /\ step = "identity" /\ mem.halt = "no" /\ step' = "pool" /\ regions' = regions
      /\ ~ raced /\ UNCHANGED callers
  BY DEF ClearIdentityPages, Step
<1>2. /\ Core(mem) /\ Intact(mem) /\ Early(mem, 0) /\ Blank(mem) /\ BootTables(mem)
      /\ regions \in Seq(Region) /\ FromMap(regions, mem)
  BY <1>1 DEF PagingInv, Fine, Exhausted, Stage
<1>3. mem' = InUse([mem EXCEPT !.pd = [d \in Pd |-> IF d \in Identity THEN NONE ELSE @[d]]],
                   {TablesFrame + i : i \in 0 .. PagesCount - 1}, "none")
  BY DEF ClearIdentityPages
<1>4. /\ Core(mem') /\ Intact(mem') /\ GivesUp(mem, mem') /\ Early(mem', 0) /\ Blank(mem')
      /\ mem'.index = 0 /\ Unmapped(mem')
  BY <1>2, <1>3, Cleared
<1>5. FromMap(regions, mem')
  BY <1>2, <1>4 DEF FromMap, GivesUp
<1>6. Fine(step', regions', mem')
  BY <1>1, <1>2, <1>4, <1>5 DEF Fine, Stage, Core
<1> QED
  BY <1>1, <1>4, <1>6, BootStep DEF Rightful, GivesUp

LEMMA InitPoolFine ==
  ASSUME Layout, PagingInv, InitPool
  PROVE  PagingInv' /\ Rightful
<1>1. /\ step = "pool" /\ mem.halt = "no" /\ step' = "heap" /\ regions' = regions
      /\ ~ raced /\ UNCHANGED callers
  BY DEF InitPool, Step
<1>2. /\ Core(mem) /\ Intact(mem) /\ Early(mem, 0) /\ Blank(mem) /\ Unmapped(mem)
      /\ mem.index = 0 /\ regions \in Seq(Region) /\ FromMap(regions, mem)
  BY <1>1 DEF PagingInv, Fine, Exhausted, Stage
<1> DEFINE got == PoolOf(mem)
           h == Holding(got, Area(got, Kptov(NextFrame(mem)), PoolPages), "pool")
           n == [h EXCEPT !.index = 0]
<1>3. /\ got.halt = "no"
      /\ Core(n) /\ Intact(n) /\ Keeps(mem, n) /\ Clean(n) /\ Blank(n) /\ n.index = 0
      /\ Unmapped(n)
  BY <1>2, PoolMade
<1>4. mem' = n
  <2>1. PICK i \in IF mem.contents[NextFrame(mem)] = "zero" THEN {0} ELSE LowMemory :
          mem' = [h EXCEPT !.index = i]
    BY <1>3 DEF InitPool
  <2>2. i = 0
    BY DEF Layout
  <2> QED
    BY <2>1, <2>2
<1> HIDE DEF n
<1>5. /\ Core(mem') /\ Intact(mem') /\ Keeps(mem, mem') /\ Clean(mem') /\ Blank(mem')
      /\ mem'.index = 0 /\ Unmapped(mem')
  BY <1>3, <1>4
<1>6. FromMap(regions, mem') /\ Allots(regions, mem, mem')
  BY <1>2, <1>5, KeepsAllots
<1>7. Fine(step', regions', mem')
  BY <1>1, <1>2, <1>5, <1>6 DEF Fine, Stage, Core
<1> QED
  BY <1>1, <1>6, <1>7, BootStep DEF Rightful, Allots

LEMMA InitHeapPageFine ==
  ASSUME Layout, PagingInv, InitHeapPage
  PROVE  PagingInv' /\ Rightful
<1>1. /\ step = "heap" /\ mem.halt = "no" /\ step' = "up" /\ regions' = regions
      /\ ~ raced /\ UNCHANGED callers
  BY DEF InitHeapPage, Step
<1>2. /\ Core(mem) /\ Intact(mem) /\ Clean(mem) /\ Blank(mem) /\ Unmapped(mem)
      /\ mem.index = 0 /\ regions \in Seq(Region) /\ mem \in Mem /\ FromMap(regions, mem)
  BY <1>1 DEF PagingInv, Fine, Exhausted, Stage
<1>3. Steady(mem)
  BY <1>2, NothingLow DEF Steady
<1>4. (Steady(mem') \/ Exhausted(mem')) /\ Keeps(mem, mem')
  <2>1. CASE NextFrame(mem) = NONE
    <3>1. mem' = Stopped(mem, "PANIC")
      BY <2>1 DEF InitHeapPage
    <3> QED
      BY <1>2, <2>1, <3>1, NoFrame, StoppedIs
  <2>2. CASE NextFrame(mem) # NONE
    <3>1. mem' = HeapPage(mem)
      BY <1>2, <2>2 DEF InitHeapPage, Initialised
    <3>2. mem.index < KernBase
      <4>1. KernBase \in Nat \ {0}
        BY PagingAssumption
      <4> QED
        BY <1>2, <4>1
    <3> QED
      BY <1>3, <3>1, <3>2, HeapPageGrown DEF HeapGrown
  <2> QED
    BY <2>1, <2>2
<1>5. FromMap(regions, mem') /\ Allots(regions, mem, mem')
  BY <1>2, <1>4, KeepsAllots
<1>6. Fine(step', regions', mem')
  BY <1>1, <1>2, <1>4, <1>5, FineSteady, FineExhausted
<1> QED
  BY <1>1, <1>5, <1>6, BootStep DEF Rightful, Allots

LEMMA ThreadPageFine ==
  ASSUME Layout, PagingInv, ThreadPage
  PROVE  PagingInv' /\ Rightful
<1>1. /\ step = "up" /\ mem.halt = "no" /\ step' = "up" /\ regions' = regions
      /\ ~ raced /\ UNCHANGED callers
  BY DEF ThreadPage, Step
<1>2. Steady(mem) /\ mem \in Mem /\ Intact(mem)
  BY <1>1 DEF PagingInv, Fine, Exhausted, Stage
<1>3. mem' = PallocKern(mem, "thread", "zero")
  BY DEF ThreadPage
<1>4. (Steady(mem') \/ Exhausted(mem')) /\ Keeps(mem, mem')
  <2>1. CASE Free(mem) = {}
    <3>1. mem' = Stopped(mem, "PANIC")
      BY <1>3, <2>1 DEF PallocKern
    <3> QED
      BY <1>2, <2>1, <3>1, StoppedIs
  <2>2. CASE Free(mem) # {}
    BY <1>2, <1>3, <2>2, ThreadGranted
  <2> QED
    BY <2>1, <2>2
<1> QED
  BY <1>1, <1>4, UpStep

LEMMA HeapPagesFine ==
  ASSUME Layout, PagingInv, NEW n \in 1 .. 2, HeapPages(n)
  PROVE  PagingInv' /\ Rightful
<1>1. /\ step = "up" /\ mem.halt = "no" /\ step' = "up" /\ regions' = regions
      /\ mem.index + n <= MaxHeap /\ mem' = PallocHeap(mem, n)
      /\ ~ raced /\ UNCHANGED callers
  BY DEF HeapPages, Step
<1>2. Steady(mem) /\ mem.index \in Nat
  BY <1>1 DEF PagingInv, Fine, Exhausted, Stage, Mem
<1>3. n \in Nat /\ mem.index + n <= KernBase
  <2>1. MaxHeap \in Nat /\ KernBase \in Nat /\ MaxHeap <= KernBase
    BY PagingAssumption
  <2> QED
    BY <1>1, <1>2, <2>1
<1>4. HeapGrown(mem, mem', n)
  BY <1>1, <1>2, <1>3, PallocHeapGrown
<1> QED
  BY <1>1, <1>4, UpStep DEF HeapGrown

LEMMA ThreadPageFoundFine ==
  ASSUME Layout, PagingInv, ThreadPageFound
  PROVE  PagingInv' /\ Rightful
<1>1. /\ step = "up" /\ mem.halt = "no" /\ step' = "up" /\ regions' = regions /\ mem' = mem
      /\ ~ raced /\ unclear' = unclear /\ raced' = raced
      /\ found' = {NextEntry(mem)} /\ Free(mem) # {}
  BY DEF ThreadPageFound, Step
<1>2. raced = FALSE /\ Fine(step, regions, mem) /\ Waiting(step, mem, found, unclear)
      /\ Steady(mem)
  BY <1>1 DEF PagingInv, Fine, Exhausted, Stage
<1>3. NextEntry(mem) \in Free(mem) /\ \A i \in Free(mem) : NextEntry(mem) <= i
  <2>1. Free(mem) \in SUBSET Nat
    BY DEF Free, Entries
  <2>2. \E x \in Free(mem) : \A y \in Free(mem) : x <= y
    BY <1>1, <2>1, MinInSet
  <2> QED
    BY <2>2 DEF NextEntry
<1>4. Roomy(mem.addr[NextEntry(mem)]) /\ NextEntry(mem) \in Entries
  BY <1>2, <1>3 DEF Steady, Core, FreeOK, Free
<1>5. Waiting("up", mem, {NextEntry(mem)}, unclear)
  BY <1>2, <1>3, <1>4 DEF Waiting
<1> QED
  BY <1>1, <1>2, <1>5 DEF PagingInv, Rightful

\* What a race leaves of the low half.
LEMMA RaceLow ==
  ASSUME Layout, NEW m, Steady(m), NEW n, n.pd = m.pd, n.pt = m.pt, n.index = m.index
  PROVE  \A v \in 0 .. KernBase - 1 : Translate(n, v) # NONE => v < n.index
<1>1. HeapOK(m)
  BY DEF Steady, LowOK
<1>2. \A v \in 0 .. KernBase - 1 : Translate(n, v) = Translate(m, v)
  BY LowTranslate
<1> QED
  BY <1>1, <1>2 DEF HeapOK

LEMMA ThreadPageTakenFine ==
  ASSUME Layout, PagingInv, ThreadPageTaken
  PROVE  PagingInv' /\ Rightful
<1>1. /\ step = "up" /\ mem.halt = "no" /\ step' = "up" /\ regions' = regions
      /\ ~ raced /\ unclear = {} /\ found' = {}
  BY DEF ThreadPageTaken, Step
<1>2. PICK e \in found : /\ mem' = KernPage(mem, e, "thread") /\ unclear' = {mem.addr[e]}
                         /\ raced' = (e \notin Free(mem))
  BY DEF ThreadPageTaken
<1>3. Fine(step, regions, mem) /\ Waiting(step, mem, found, unclear) /\ Steady(mem)
      /\ regions \in Seq(Region) /\ FromMap(regions, mem)
  BY <1>1 DEF PagingInv, Fine, Exhausted, Stage
<1>4. e \in Entries /\ Roomy(mem.addr[e]) /\ \A i \in Free(mem) : e <= i
  BY <1>3 DEF Waiting
<1>5. mem.addr[e] \in Frames
  BY <1>4 DEF Roomy
<1>6. CASE e \in Free(mem)
  <2>1. Steady(mem') /\ Keeps(mem, mem') /\ Gets(mem, mem', e, mem.addr[e], "thread")
    BY <1>2, <1>3, <1>4, <1>6, ThreadGot
  <2>2. FromMap(regions, mem') /\ Allots(regions, mem, mem')
    BY <1>3, <2>1, KeepsAllots
  <2>3. Fine("up", regions, mem')
    BY <1>3, <2>1, <2>2, FineSteady
  <2>4. mem'.owner[mem.addr[e]] = "thread"
    BY <1>5, <2>1 DEF Gets
  <2>5. Waiting("up", mem', {}, {mem.addr[e]})
    BY <1>4, <1>5, <2>4 DEF Waiting
  <2>6. raced' = FALSE
    BY <1>2, <1>6
  <2> QED
    BY <1>1, <1>2, <2>2, <2>3, <2>5, <2>6 DEF PagingInv, Rightful, Allots
<1>7. CASE e \notin Free(mem)
  <2>1. mem \in Mem /\ HighOK(mem) /\ "thread" \in Uses
    BY <1>3 DEF Steady, Core, Uses
  <2>2. Gets(mem, mem', e, mem.addr[e], "thread")
    BY <1>1, <1>2, <1>4, <2>1, PageGot
  <2>3. /\ mem' \in Mem /\ mem'.halt = "no" /\ mem'.pd = mem.pd /\ mem'.pt = mem.pt
        /\ mem'.index = mem.index
    BY <2>2 DEF Gets
  <2>4. AfterRace("up", regions, mem', {}, {mem.addr[e]})
    BY <1>3, <1>5, <2>3, RaceLow DEF AfterRace
  <2>5. raced' = TRUE
    BY <1>2, <1>7
  <2> QED
    BY <1>1, <1>2, <2>4, <2>5 DEF PagingInv, Rightful
<1> QED
  BY <1>6, <1>7

LEMMA ThreadPageClearedFine ==
  ASSUME Layout, PagingInv, ThreadPageCleared
  PROVE  PagingInv' /\ Rightful
<1>1. /\ step = "up" /\ mem.halt = "no" /\ step' = "up" /\ regions' = regions
      /\ ~ raced /\ found' = found /\ unclear' = {}
  BY DEF ThreadPageCleared, Step
<1>2. PICK f \in unclear :
        /\ mem' = ClearPage(mem, f, "thread", "zero")
        /\ raced' = \E g \in Area(mem, Kptov(f), WordSize) \ {f, NONE} : mem.owner[g] # "none"
  BY DEF ThreadPageCleared
<1>3. Fine(step, regions, mem) /\ Waiting(step, mem, found, unclear) /\ Steady(mem)
      /\ regions \in Seq(Region) /\ FromMap(regions, mem)
  BY <1>1 DEF PagingInv, Fine, Exhausted, Stage
<1>4. Roomy(f) /\ mem.owner[f] = "thread"
  BY <1>3 DEF Waiting
<1>5. mem \in Mem /\ HighOK(mem) /\ "thread" \in Uses
  BY <1>3 DEF Steady, Core, Uses
<1>6. /\ Clears(mem, mem', f, "thread", "zero")
      /\ Area(mem, Kptov(f), WordSize) = f .. f + WordSize - 1
  BY <1>1, <1>2, <1>4, <1>5, PageCleared
<1>7. CASE raced' = FALSE
  <2>1. \A g \in f .. f + WordSize - 1 : g \in Frames /\ g # f => mem.owner[g] = "none"
    BY <1>2, <1>6, <1>7, PagingAssumption
  <2>2. Steady(mem') /\ Keeps(mem, mem')
    BY <1>2, <1>3, <1>4, <2>1, ThreadCleared
  <2>3. FromMap(regions, mem') /\ Allots(regions, mem, mem')
    BY <1>3, <2>2, KeepsAllots
  <2>4. Fine("up", regions, mem')
    BY <1>3, <2>2, <2>3, FineSteady
  <2>5. Waiting("up", mem', found, unclear)
    BY <1>1, <1>3, <2>2, WaitingKept
  <2>6. Waiting("up", mem', found, {})
    BY <2>5 DEF Waiting
  <2> QED
    BY <1>1, <1>7, <2>3, <2>4, <2>6 DEF PagingInv, Rightful, Allots
<1>8. CASE raced' = TRUE
  <2>1. /\ mem' \in Mem /\ mem'.halt = "no" /\ mem'.pd = mem.pd /\ mem'.pt = mem.pt
        /\ mem'.index = mem.index
    BY <1>6 DEF Clears
  <2>2. found \in SUBSET Entries
    BY <1>3 DEF Waiting
  <2>3. AfterRace("up", regions, mem', found, {})
    BY <1>3, <2>1, <2>2, RaceLow DEF AfterRace
  <2> QED
    BY <1>1, <1>8, <2>3 DEF PagingInv, Rightful
<1> QED
  BY <1>2, <1>7, <1>8

LEMMA StepsFine ==
  ASSUME Layout, PagingInv, [Next]_vars
  PROVE  PagingInv' /\ Rightful
<1>1. CASE UsableRegions
  BY <1>1, UsableRegionsFine
<1>2. CASE SetupAvailablePages
  BY <1>2, SetupAvailablePagesFine
<1>3. CASE ClearIdentityPages
  BY <1>3, ClearIdentityPagesFine
<1>4. CASE InitPool
  BY <1>4, InitPoolFine
<1>5. CASE InitHeapPage
  BY <1>5, InitHeapPageFine
<1>6. CASE ThreadPage
  BY <1>6, ThreadPageFine
<1>7. CASE \E n \in 1 .. 2 : HeapPages(n)
  BY <1>7, HeapPagesFine
<1>8. CASE ThreadPageFound
  BY <1>8, ThreadPageFoundFine
<1>9. CASE ThreadPageTaken
  BY <1>9, ThreadPageTakenFine
<1>10. CASE ThreadPageCleared
  BY <1>10, ThreadPageClearedFine
<1>11. CASE UNCHANGED vars
  <2>1. mem' = mem
    BY <1>11 DEF vars
  <2>2. Rightful
    BY <2>1 DEF Rightful
  <2> QED
    BY <1>11, <2>2 DEF vars, PagingInv
<1> QED
  BY <1>1, <1>2, <1>3, <1>4, <1>5, <1>6, <1>7, <1>8, <1>9, <1>10, <1>11 DEF Next

LEMMA SpecPaging == ASSUME Layout PROVE Spec => []PagingInv
<1>1. Init => PagingInv
  BY StartsFine
<1>2. PagingInv /\ [Next]_vars => PagingInv'
  BY StepsFine
<1> QED
  BY <1>1, <1>2, PTL DEF Spec

\* The tables, the memory and the list of regions have their types.
THEOREM PagingTypes == ASSUME Layout PROVE Spec => []TypeOK
<1>1. PagingInv => TypeOK
  BY DEF PagingInv, Fine, AfterRace, Waiting, TypeOK
<1> QED
  BY <1>1, SpecPaging, PTL

\* On a machine laid out like a PC no page that palloc_kern clears, no copy of the page
\* directory and no page table made by map_page destroys what another frame holds, until
\* an interrupted palloc_kern finds its entry or the pages behind its own given away.
THEOREM UsedStaysIntact == ASSUME Layout PROVE Spec => []InUseIntact
<1>1. PagingInv => InUseIntact
  BY DEF PagingInv, Fine, Intact, InUseIntact
<1> QED
  BY <1>1, SpecPaging, PTL

\* get_next_free_physical_page hands out frames nobody uses that lie in a usable region of
\* the memory map, so none of its holes; and no step but clear_identity_pages, which gives
\* up the boot tables of the low half and no others, takes a frame from its user: the kernel
\* keeps its image, the video memory and the tables of its half, and everybody the frames
\* he got. It holds for interrupted callers of palloc_kern, up to the step in which one
\* marks an entry that another has got meanwhile.
THEOREM FramesKept == ASSUME Layout PROVE Spec => NeverRegranted
<1>1. PagingInv /\ [Next]_vars => [Rightful]_vars
  BY StepsFine
<1>2. Spec => [][Rightful]_vars
  BY <1>1, SpecPaging, PTL DEF Spec
<1> QED
  BY <1>2 DEF Rightful, NeverRegranted

LEMMA CoreMapped ==
  ASSUME Layout, NEW m \in Mem, HighOK(m), UsedOK(m), NEW f \in Frames, m.owner[f] # "none"
  PROVE  Translate(m, Kptov(f)) = f
<1>1. f < Span
  BY DEF UsedOK
<1> QED
  BY <1>1, KernelMapped

\* While the kernel runs, palloc_kern's addresses are right for every frame in use, and
\* the heap's pages are mapped one after the other, each to its own frame.
THEOREM UsedIsMapped == ASSUME Layout PROVE Spec => []Mapped
<1>1. PagingInv => Mapped
  <2> SUFFICES ASSUME PagingInv, mem.halt = "no", ~ raced PROVE Mapped
    BY DEF Mapped
  <2>1. mem \in Mem /\ Stage(step, regions, mem)
    BY DEF PagingInv, Fine, Exhausted
  <2>2. HighOK(mem) /\ UsedOK(mem)
    BY <2>1, Booted DEF Stage, Steady, Core
  <2>3. \A f \in Frames : mem.owner[f] # "none" => Translate(mem, Kptov(f)) = f
    BY <2>1, <2>2, CoreMapped
  <2>4. CASE step = "up"
    <3>1. HeapOK(mem) /\ mem.index <= KernBase
      BY <2>1, <2>4 DEF Stage, Steady, LowOK
    <3>2. mem.index \in Nat /\ KernBase \in Nat
      BY <2>1, Sizes DEF Mem
    <3>3. \A v \in 0 .. mem.index - 1 : v \in 0 .. KernBase - 1 /\ v < mem.index
      BY <3>1, <3>2
    <3>4. \A v \in 0 .. mem.index - 1 : HeapAt(mem, v)
      BY <3>1, <3>3 DEF HeapOK
    <3>5. \A v, w \in 0 .. mem.index - 1 : Translate(mem, v) = Translate(mem, w) => v = w
      BY <3>1, <3>3 DEF HeapOK
    <3> QED
      BY <2>3, <3>4, <3>5 DEF Mapped, HeapAt
  <2> QED
    BY <2>3, <2>4 DEF Mapped
<1> QED
  BY <1>1, SpecPaging, PTL

\* The machine never faults, and PANICs only when all frames are given away: in
\* palloc_kern, and in map_page when no frame is left for a page table.
THEOREM OnlyExhaustion == ASSUME Layout PROVE Spec => []OnlyExhaustionStops
<1>1. PagingInv => OnlyExhaustionStops
  BY DEF PagingInv, Fine, AfterRace, Exhausted, OnlyExhaustionStops
<1> QED
  BY <1>1, SpecPaging, PTL

\* From clear_identity_pages on no address below KERN_BASE is mapped, but for the pages
\* palloc_heap has mapped.
THEOREM LowHalfOnlyHeap == ASSUME Layout PROVE Spec => []LowHalfIsHeap
<1>1. PagingInv => LowHalfIsHeap
  <2> SUFFICES ASSUME PagingInv, step \in {"pool", "heap", "up"}, mem.halt = "no",
                      NEW v \in 0 .. KernBase - 1, Translate(mem, v) # NONE
               PROVE  step = "up" /\ v < mem.index
    BY DEF LowHalfIsHeap
  <2>1. CASE raced = TRUE
    <3>1. AfterRace(step, regions, mem, found, unclear)
      BY <2>1 DEF PagingInv
    <3> QED
      BY <3>1 DEF AfterRace
  <2>2. CASE raced = FALSE
    <3>0. Fine(step, regions, mem)
      BY <2>2 DEF PagingInv
    <3>1. Stage(step, regions, mem)
      BY <3>0 DEF Fine, Exhausted
    <3>2. ~ Unmapped(mem)
      BY LowAddress, LowTranslate DEF Unmapped
    <3>3. step = "up" /\ HeapOK(mem)
      BY <3>1, <3>2 DEF Stage, Steady, LowOK
    <3> QED
      BY <3>3 DEF HeapOK
  <2> QED
    BY <2>1, <2>2 DEF PagingInv
<1> QED
  BY <1>1, SpecPaging, PTL
===============================================================================
