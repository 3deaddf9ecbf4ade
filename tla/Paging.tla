--------------------------------- MODULE Paging ---------------------------------
(***************************************************************************)
(* Physical frames and page tables: paging/paging.c and paging/pte.h, the  *)
(* list of usable regions of lib/smap.c it starts from, the page directory *)
(* boot/paging.asm left it, and memset and memcpy of lib/string.c, which   *)
(* count n words where their callers count n bytes.                        *)
(*                                                                         *)
(* Addresses are page numbers.  All of it runs on one CPU; the actions are *)
(* the steps of boot() in kernel/start.c and, from then on, the calls of   *)
(* thread_create (a page for a thread) and of malloc (pages of heap).      *)
(* thread_create calls palloc_kern with interrupts on: it can be stopped   *)
(* between the test and the set of an entry, and before memset is through, *)
(* and the other calls then run in between.                                *)
(***************************************************************************)
EXTENDS Integers, Sequences

CONSTANTS
  MAX_PHYS_PAGES, \* entries of physical_page_entries
  LastFrame,      \* the machine's last frame
  Maps,           \* the E820 memory maps: sequences of [Base, Length, Type]
  KernelPages,    \* frames of BIOS data, page directory, stack and kernel image
  VideoFrame,     \* 0xb8000/PGSIZE
  PtSpan,         \* entries of a page table (and PTSPAN/PGSIZE)
  KernBase,       \* the page of KERN_BASE
  PagesCount,     \* page tables boot/paging.asm fills for each half
  TablesFrame,    \* the frame of PAGE_TABLES_BASE, the first table of the low half
  KernTables,     \* the frame of the first table of the kernel's half
  WordSize,       \* sizeof(uint32_t)
  PoolPages,      \* sizeof(pool) in pages, rounded up
  LowMemory,      \* what the second word of the page after kernel_pd may hold
  MaxHeap,        \* bound: pages of heap
  NONE            \* no frame: an entry that is not present, NO_ADDR

Frames == 0 .. LastFrame
Entries == 0 .. MAX_PHYS_PAGES - 1
Pt == 0 .. PtSpan - 1

\* Mutant: the mask of the table index is a bit short.
pt_noShort(v) == v % (PtSpan \div 2)

\* Page directory and table index, and the kernel's address of a frame.
pd_no(v) == v \div PtSpan
pt_no(v) == v % PtSpan
Kptov(f) == KernBase + f
Pd == 0 .. pd_no(Kptov(LastFrame))

\* A MemoryMapEntry.
Region == [Base : Nat, Length : Nat, Type : Nat]

ASSUME PagingAssumption ==
  /\ MAX_PHYS_PAGES \in Nat /\ LastFrame \in Nat /\ PtSpan \in Nat \ {0}
  /\ KernelPages \in 1 .. MAX_PHYS_PAGES /\ VideoFrame \in Frames \cap Entries
  /\ KernBase \in Nat /\ pt_no(KernBase) = 0
  /\ PagesCount \in 1 .. pd_no(KernBase)
  /\ TablesFrame \in Nat /\ KernTables \in Nat
  /\ TablesFrame + PagesCount <= KernTables /\ KernTables + PagesCount <= LastFrame + 1
  /\ WordSize \in Nat \ {0} /\ PoolPages \in Nat \ {0} /\ LowMemory \subseteq Nat
  /\ MaxHeap \in 1 .. KernBase
  /\ NONE \notin Frames
  /\ Maps \subseteq Seq(Region)
  /\ \A map \in Maps : \A i \in DOMAIN map : map[i].Base + map[i].Length <= LastFrame + 1

VARIABLES
  step,      \* how far boot() has come
  regions,   \* usableMemoryRegions
  mem,       \* the tables and the frames, see Mem
  found,     \* the entry a thread_create has found free when it is interrupted
  unclear,   \* the page a thread_create has got but not cleared when it is interrupted
  raced      \* an entry found free was another's when it was set, or memset of a page
             \* ran over one that came into use meanwhile

callers == <<found, unclear, raced>>
vars == <<step, regions, mem, found, unclear, raced>>

Uses == {"none", "kernel", "video", "boot table", "page table", "base_pd", "pool",
         "heap", "thread"}

\* physical_page_entries as two functions, the page directory, and what each frame
\* says when it is read as a page table; what the frames hold (or are promised to hold,
\* while a caller has yet to write its page) and what they are in use for;
\* kernel_pool->next_free_page_index; and why the machine stopped.
Mem == [type : [Entries -> {"none", "M_FREE", "M_ALLOCATED", "M_RESERVED"}],
        addr : [Entries -> Frames],
        pd : [Pd -> Frames \cup {NONE}],
        pt : [Frames -> [Pt -> Frames \cup {NONE}]],
        contents : [Frames -> Uses \cup {"zero", "copied", "garbage table"}],
        owner : [Frames -> Uses],
        index : Nat,
        halt : {"no", "PANIC", "fault"}]
-------------------------------------------------------------------------------
(* The operations of paging.c, as functions from Mem to Mem. *)

Free(m) == {i \in Entries : m.type[i] = "M_FREE"}
NextEntry(m) == CHOOSE i \in Free(m) : \A j \in Free(m) : i <= j

\* Mutant: the entry that is handed out stays free.
MarkedNot(m, e) == m

Marked(m, e) == [m EXCEPT !.type[e] = "M_ALLOCATED"]

\* get_next_free_physical_page when nobody comes in between: the first free entry, which
\* is no longer free, or NO_ADDR.
NextFrame(m) == IF Free(m) = {} THEN NONE ELSE m.addr[NextEntry(m)]
Taken(m) == Marked(m, NextEntry(m))

Stopped(m, why) == [m EXCEPT !.halt = why]

\* The frames fs hold c, or are in use for u.
Holding(m, fs, c) ==
  [m EXCEPT !.contents = [f \in Frames |-> IF f \in fs THEN c ELSE @[f]]]
InUse(m, fs, u) ==
  [m EXCEPT !.owner = [f \in Frames |-> IF f \in fs THEN u ELSE @[f]]]

NoTable(m, v) == pd_no(v) \notin Pd \/ m.pd[pd_no(v)] = NONE

\* How the processor reads the tables.
Translate(m, v) ==
  IF v \div PtSpan \notin Pd \/ m.pd[v \div PtSpan] = NONE THEN NONE
  ELSE m.pt[m.pd[v \div PtSpan]][v % PtSpan]

\* The frames behind n pages of addresses from v.
Area(m, v, n) == {Translate(m, v + k) : k \in 0 .. n - 1}

\* Mutant: the entry gets the virtual address.
SetPteVirtual(m, f, v) == [m EXCEPT !.pt[m.pd[pd_no(v)]][pt_no(v)] = v]

SetPte(m, f, v) == [m EXCEPT !.pt[m.pd[pd_no(v)]][pt_no(v)] = f]

\* A page table is made of the next free frame, which is first mapped for the kernel.
\* It is not cleared: what the frame held is what the table says.
MakeTable(m, v) ==
  LET t == NextFrame(m)
      c == IF m.contents[t] = "zero" THEN "page table" ELSE "garbage table"
  IN  [InUse(Holding(SetPte(Taken(m), t, Kptov(t)), {t}, c), {t}, "page table")
          EXCEPT !.pd[pd_no(v)] = t]

\* map_page.  NO_ADDR is not a page boundary, so it panics; and a frame for a page
\* table that the kernel's own tables do not reach makes it recurse until no frame
\* is left.
MapPage(m, f, v) ==
  IF m.halt # "no" THEN m
  ELSE IF f = NONE \/ (NoTable(m, v) /\ (NextFrame(m) = NONE \/ NoTable(m, Kptov(NextFrame(m)))))
  THEN Stopped(m, "PANIC")
  ELSE SetPte(IF NoTable(m, v) THEN MakeTable(m, v) ELSE m, f, v)

\* palloc_kern up to its memset, for a caller that puts the page of entry e to use u.
KernPage(m, e, u) ==
  LET f   == m.addr[e]
      map == MapPage(Marked(m, e), f, Kptov(f))
  IN  IF map.halt # "no" THEN map ELSE InUse(Holding(map, {f}, u), {f}, u)

\* memset clears PGSIZE words from page f on; spill is what the pages after it hold when
\* the caller is done.
ClearPage(m, f, u, spill) ==
  LET area == Area(m, Kptov(f), WordSize)
  IN  IF m.halt # "no" THEN m
      ELSE IF NONE \in area THEN Stopped(m, "fault")
      ELSE Holding(Holding(m, area, spill), {f}, u)

\* palloc_kern(1, F_ZERO | F_ASSERT) when nobody comes in between.
PallocKern(m, u, spill) ==
  IF Free(m) = {} THEN Stopped(m, "PANIC")
  ELSE ClearPage(KernPage(m, NextEntry(m), u), NextFrame(m), u, spill)

\* A page of palloc_heap, at the address its index gives it.  With no frame left the
\* call returns NO_ADDR and the pages it had got stay with the heap.
HeapPage(m) ==
  LET f   == NextFrame(m)
      map == MapPage(Taken(m), f, m.index)
  IN  IF f = NONE \/ m.halt # "no" THEN m
      ELSE IF map.halt # "no" THEN map
      ELSE [InUse(Holding(map, {f}, "heap"), {f}, "heap") EXCEPT !.index = @ + 1]

PallocHeap(m, n) ==
  LET grown[k \in 0 .. n] == IF k = 0 THEN m ELSE HeapPage(grown[k - 1])
  IN  grown[n]
-------------------------------------------------------------------------------
(* The page directory of boot/paging.asm: the first PagesCount tables map the *)
(* frames where they are, the others map them from KERN_BASE on.              *)

BootPd ==
  [d \in Pd |-> IF d < PagesCount THEN TablesFrame + d
                ELSE IF d - pd_no(KernBase) \in 0 .. PagesCount - 1
                THEN KernTables + d - pd_no(KernBase) ELSE NONE]
BootPt ==
  [t \in Frames |->
     LET i == IF t < KernTables THEN t - TablesFrame ELSE t - KernTables
     IN  [e \in Pt |-> IF i \in 0 .. PagesCount - 1 /\ i * PtSpan + e \in Frames
                       THEN i * PtSpan + e ELSE NONE]]
BootUse ==
  [f \in Frames |-> IF f < KernelPages THEN "kernel"
                    ELSE IF f = VideoFrame THEN "video"
                    ELSE IF \/ f - TablesFrame \in 0 .. PagesCount - 1
                            \/ f - KernTables \in 0 .. PagesCount - 1
                    THEN "boot table" ELSE "none"]

\* The machine starts with its memory cleared, physical_page_entries is in .bss.
BootMem ==
  [type |-> [i \in Entries |-> "none"], addr |-> [i \in Entries |-> 0],
   pd |-> BootPd, pt |-> BootPt,
   contents |-> [f \in Frames |-> IF BootUse[f] = "none" THEN "zero" ELSE BootUse[f]],
   owner |-> BootUse, index |-> 0, halt |-> "no"]

Init ==
  /\ step = "regions" /\ regions = <<>> /\ mem = BootMem
  /\ found = {} /\ unclear = {} /\ raced = FALSE

\* What becomes of the machine after a race is not followed.
Step(from, to) == step = from /\ mem.halt = "no" /\ ~raced /\ step' = to

\* The usable regions of a memory map.
Usable(map) ==
  LET upto[i \in 0 .. Len(map)] ==
        IF i = 0 THEN <<>>
        ELSE IF map[i].Type = 1 THEN Append(upto[i - 1], map[i]) ELSE upto[i - 1]
  IN  upto[Len(map)]

\* The pages of some regions in order.
PagesOf(rs) ==
  LET upto[i \in 0 .. Len(rs)] ==
        IF i = 0 THEN <<>>
        ELSE upto[i - 1] \o [k \in 1 .. rs[i].Length |-> rs[i].Base + k - 1]
  IN  upto[Len(rs)]

\* getUsableMemoryRegions.
UsableRegions ==
  /\ Step("regions", "pages")
  /\ \E map \in Maps : regions' = Usable(map)
  /\ mem' = IF regions' = <<>> THEN Stopped(mem, "PANIC") ELSE mem
  /\ UNCHANGED callers

Reserved(m, i) == [m EXCEPT !.type[i] = "M_RESERVED"]

\* Mutant: the kernel's pages are not reserved.
ReserveKernelNot(m) == m

ReserveKernel(m) ==
  LET upto[i \in 0 .. KernelPages] ==
        IF i = 0 THEN m
        ELSE MapPage(Reserved(upto[i - 1], i - 1), i - 1, Kptov(i - 1))
  IN  upto[KernelPages]

ReserveVideo(m) == MapPage(Reserved(m, VideoFrame), VideoFrame, Kptov(VideoFrame))

\* The usable pages get entries, as many as there are.
Listed(m, p) ==
  [m EXCEPT !.type = [i \in Entries |-> IF i < Len(p) THEN "M_FREE" ELSE "none"],
            !.addr = [i \in Entries |-> IF i < Len(p) THEN p[i + 1] ELSE 0]]

\* setupAvailablePages.  base_pd is a page of palloc_kern, and memcpy fills it, and the
\* pages after it, with PGSIZE words of the memory from kernel_pd on.
SetupAvailablePages ==
  /\ Step("pages", "identity")
  /\ LET listed == Listed(mem, PagesOf(regions))
     IN  mem' = PallocKern(ReserveVideo(ReserveKernel(listed)), "base_pd", "copied")
  /\ UNCHANGED <<regions, callers>>

\* Mutant: one table of the low half stays.
IdentityShort == 0 .. PagesCount - 2

Identity == 0 .. PagesCount - 1

ClearIdentityPages ==
  /\ Step("identity", "pool")
  /\ mem' = InUse([mem EXCEPT !.pd = [d \in Pd |-> IF d \in Identity THEN NONE ELSE @[d]]],
                  {TablesFrame + i : i \in 0 .. PagesCount - 1}, "none")
  /\ UNCHANGED <<regions, callers>>

\* A page of the pool; nobody looks whether there was one.
PoolPage(m) ==
  LET f   == NextFrame(m)
      map == MapPage(IF f = NONE THEN m ELSE Taken(m), f, Kptov(f))
  IN  IF map.halt # "no" THEN map ELSE InUse(map, {f}, "pool")

PoolOf(m) ==
  LET upto[k \in 0 .. PoolPages] == IF k = 0 THEN m ELSE PoolPage(upto[k - 1])
  IN  upto[PoolPages]

\* init_pool.  The pool is the PoolPages pages of addresses from the first one on; its
\* next_free_page_index is what that memory held.
InitPool ==
  /\ Step("pool", "heap")
  /\ LET f    == NextFrame(mem)
         got  == PoolOf(mem)
         area == Area(got, Kptov(f), PoolPages)
     IN  IF got.halt # "no" THEN mem' = got
         ELSE \E i \in IF mem.contents[f] = "zero" THEN {0} ELSE LowMemory :
                mem' = [Holding(got, area, "pool") EXCEPT !.index = i]
  /\ UNCHANGED <<regions, callers>>

\* Mutant: the test is negated.
InitialisedNot(m) == m.index = 0

Initialised(m) == m.index # 0

\* init_heap_page: a page for the pool's first heap page, at address 0.
InitHeapPage ==
  /\ Step("heap", "up")
  /\ mem' = IF Initialised(mem) \/ NextFrame(mem) = NONE THEN Stopped(mem, "PANIC")
            ELSE HeapPage(mem)
  /\ UNCHANGED <<regions, callers>>

\* thread_create takes a page for the thread without being interrupted.
ThreadPage ==
  /\ Step("up", "up")
  /\ mem' = PallocKern(mem, "thread", "zero")
  /\ UNCHANGED <<regions, callers>>

\* thread_create is interrupted when it has found an entry free.
ThreadPageFound ==
  /\ Step("up", "up") /\ found = {} /\ Free(mem) # {}
  /\ found' = {NextEntry(mem)}
  /\ UNCHANGED <<regions, mem, unclear, raced>>

\* It goes on, marks the entry whosever it is now, maps the page and is interrupted again.
ThreadPageTaken ==
  /\ Step("up", "up") /\ unclear = {}
  /\ \E e \in found :
       /\ mem' = KernPage(mem, e, "thread")
       /\ unclear' = {mem.addr[e]}
       /\ raced' = (e \notin Free(mem))
  /\ found' = {}
  /\ UNCHANGED regions

\* It goes on, and memset clears the page and what follows it.
ThreadPageCleared ==
  /\ Step("up", "up")
  /\ \E f \in unclear :
       /\ mem' = ClearPage(mem, f, "thread", "zero")
       /\ raced' = \E g \in Area(mem, Kptov(f), WordSize) \ {f, NONE} : mem.owner[g] # "none"
  /\ unclear' = {}
  /\ UNCHANGED <<regions, found>>

\* malloc takes n pages for the heap.
HeapPages(n) ==
  /\ Step("up", "up") /\ mem.index + n <= MaxHeap
  /\ mem' = PallocHeap(mem, n)
  /\ UNCHANGED <<regions, callers>>

Next ==
  \/ UsableRegions \/ SetupAvailablePages \/ ClearIdentityPages
  \/ InitPool \/ InitHeapPage
  \/ ThreadPage \/ ThreadPageFound \/ ThreadPageTaken \/ ThreadPageCleared
  \/ \E n \in 1 .. 2 : HeapPages(n)

Spec == Init /\ [][Next]_vars
-------------------------------------------------------------------------------
(* What paging.c guarantees. *)

\* The layout of a PC, which the rest relies on: what memset and memcpy write beyond a
\* page ends before the video memory or begins behind it, and ends before the boot
\* tables, which lie where they map; the map lists the memory in order, the first of it
\* in one piece and enough for the kernel and the pool; and the pool, whose next page
\* index nobody sets, covers what memcpy has overrun.
Layout ==
  /\ WordSize <= PoolPages + 1 /\ LowMemory = {0}
  /\ KernelPages + PoolPages < VideoFrame /\ VideoFrame < TablesFrame
  /\ KernTables + PagesCount <= PagesCount * PtSpan
  /\ \A map \in Maps :
       LET p == PagesOf(Usable(map))
       IN  /\ KernelPages + PoolPages < Len(p)
           /\ \A i \in 1 .. MAX_PHYS_PAGES : i \in DOMAIN p =>
                /\ \A j \in 1 .. i - 1 : p[j] < p[i]
                /\ i <= KernelPages + 1 + PoolPages => p[i] = i - 1
                /\ p[i] + WordSize <= TablesFrame
                /\ VideoFrame < p[i] \/ p[i] + WordSize <= VideoFrame

TypeOK ==
  /\ regions \in Seq(Region) /\ mem \in Mem
  /\ found \in SUBSET Entries /\ unclear \in SUBSET Frames /\ raced \in BOOLEAN

\* Whatever a frame is in use for, it holds: no page that is handed out, cleared or
\* copied to, with the words memset and memcpy write beyond its end, destroys a page
\* in use, and no page table is made of memory that is not zero; all of this until an
\* interrupted palloc_kern of thread_create meets another caller.
InUseIntact ==
  ~raced => \A f \in Frames : mem.owner[f] # "none" => mem.contents[f] = mem.owner[f]

\* A page of the regions the memory map calls usable.
UsablePage(rs, f) ==
  \E i \in DOMAIN rs : f \in rs[i].Base .. rs[i].Base + rs[i].Length - 1

\* The tables of the low half, which clear_identity_pages gives up.
LowTable(f) == f \in TablesFrame .. TablesFrame + PagesCount - 1

\* get_next_free_physical_page hands out frames that nobody uses, and only such as lie in
\* a usable region of the memory map, never one of its holes; and nobody's frame is taken
\* away, not the kernel's image, the video memory or the boot tables of the kernel's half
\* either: the one use that ends is that of the boot tables of the low half.  So it is
\* until the entry an interrupted palloc_kern has found free is somebody else's.
NeverRegranted ==
  [][~raced' => \A f \in Frames : mem'.owner[f] # mem.owner[f] =>
       \/ mem.owner[f] = "none" /\ UsablePage(regions, f)
       \/ mem.owner[f] = "boot table" /\ step = "identity" /\ LowTable(f)]_vars

\* Every frame in use is at its kernel address, and the heap is one stretch of
\* addresses from 0, each with a heap frame of its own.
Mapped ==
  mem.halt = "no" /\ ~raced =>
  /\ \A f \in Frames : mem.owner[f] # "none" => Translate(mem, Kptov(f)) = f
  /\ step = "up" =>
       /\ \A v \in 0 .. mem.index - 1 :
             LET f == Translate(mem, v) IN f # NONE /\ mem.owner[f] = "heap"
       /\ \A v, w \in 0 .. mem.index - 1 :
             Translate(mem, v) = Translate(mem, w) => v = w

\* The machine stops only when it is out of frames: no page fault, and no PANIC of
\* map_page or init_heap_page while a frame is left.
OnlyExhaustionStops ==
  mem.halt # "no" => mem.halt = "PANIC" /\ Free(mem) = {}

\* Once clear_identity_pages has run, what translates below the kernel's half is the
\* heap and nothing else, also when page tables are made for the low addresses again:
\* a null or stale low pointer beyond the heap faults, the one to the video memory too.
LowHalfIsHeap ==
  step \in {"pool", "heap", "up"} /\ mem.halt = "no" =>
    \A v \in 0 .. KernBase - 1 :
      Translate(mem, v) # NONE => step = "up" /\ v < mem.index
===============================================================================
