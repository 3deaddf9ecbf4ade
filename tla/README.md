# NickOS3 in TLA+

NickOS3 is a small 32-bit x86 kernel: a boot loader that turns on paging, a
frame and heap allocator, kernel threads with a preemptive scheduler,
semaphores and locks, and a screen to print to. This directory holds a
specification of the parts of it that keep state worth arguing about, the
configurations that model-check those specifications on small instances, and
machine-checked proofs of the most important results for all instances.

Paths below are relative to the repository's `src/`.

## 1. Inventory

| Component | Source | State it keeps | Operations |
|---|---|---|---|
| Threads and scheduler | `thread/thread.c`, `thread/tswitch.asm` | `ready_threads`, `all_threads`, `sleeper_list`, `idle_thread`, `tick_count`, a control block (status, stack, magic) at the bottom of each thread's page | `thread_init`, `thread_create`, `thread_yield`, `thread_block`, `thread_unblock`, `thread_kill`, `schedule`, `switch_complete`, `run`, `idle`, `thread_tick`, `thread_sleep`, `sleep_tick` |
| Semaphores and locks | `thread/synch.c` | `value`, `waiters`; `holder` | `sema_init/down/up`, `lock_init/accquire/release`; the condition variables have no body |
| Interrupts | `interrupt/idt.c`, `interrupt/interrupt.asm` | EFLAGS.IF, the in-service bit of the PIC, the IDT | `int_disable/enable/set`, the common wrapper, the EOI |
| Boot sequence | `kernel/start.c` | how far `boot()` has come | `boot`, `main` |
| Linked list | `lib/list.c` | `size`, `head`, `tail`; `data`, `next`, `prev` | `append`, `push`, `pop`, `remove`, `list_get`, `list_init(_with)` |
| Heap | `heap/heap.c` | headers of segments, `firstFreeSegment` | `initialiseHeap`, `malloc`; `free` is marked TODO and uncalled |
| Frames and page tables | `paging/paging.c`, `paging/pte.h` | `physical_page_entries`, `kernel_pd`, page tables, `kernel_pool` | `setupAvailablePages`, `palloc_kern`, `palloc_heap`, `map_page`, `clear_identity_pages`, `init_pool`, `init_heap_page` |
| Memory map | `lib/smap.c` | `usableMemoryRegions` | `getUsableMemoryRegions` |
| memset, memcpy | `lib/string.c` | none | both count words where callers count bytes |
| Boot loader | `boot/*.asm` | page directory, 6+6 boot page tables | straight-line set-up |
| Panic | `lib/panic.c` | none | prints, `cli; hlt` |
| Screen, ports | `lib/screen.c`, `lib/memory.c`, `drivers/low_level.c` | the video memory, the selected register and the two cursor registers of the controller, `attempt_stack` | `get_cursor`, `set_cursor`, `print_char`, `handle_scrolling`, `print_char_loc`, `print(ln)`, `print_attempt`, `print_ok` |
| Timer, keyboard | `lib/timer.c`, `interrupt/handlers.c` | `ticks` | `time_tick`, `keyboard_handler` |
| itoa, GDT/TSS | `lib/int.c`, `gdt/`, `process/` | tables | formatting and set-up |
| File system, key-value list, shell, graveyard | `filesystem/` ... | | not linked into the kernel |

**How they interact.** There is one CPU and everything is a direct call or an
interrupt. The timer interrupt calls `thread_tick`, which calls `thread_yield`
from inside the interrupt handler; the handler sends its EOI only when that
call returns, which is after the interrupted thread has been switched back in.
`schedule` hands `prev` to the thread it switches to, and that thread reaps
`prev` if it died. Semaphores use `thread_block` and `thread_unblock`. All of
them keep their queues in `lib/list.c`, which takes every element from
`malloc`, whose heap starts at *virtual address 0*: a store through NULL is a
store to the first heap header, not a fault. `malloc` takes pages from
`palloc_heap`, `thread_create` from `palloc_kern`, and both take frames from
`get_next_free_physical_page`. Everybody prints, from threads as well as from
the handlers of the timer and the keyboard, and where the next character goes is
known to the screen's controller only.

**What is hard here.** Preemption at any instruction with interrupts on; a
context switch in the middle of an interrupt handler and of `sema_down`; the
missing EOI of a thread that first runs out of a timer handler; a thread that
is dying while still preemptible; a boot that enables interrupts before there
is a thread; a malloc and a cursor that are read, used and written back with
interrupts on; a thread that sleeps while it owes the PIC an EOI; a list whose end is found in memory nobody initialised; an
allocator at the end of a page; helpers that write four times what their
caller meant, over neighbours that happen to be free. `PROJECT.json` lists each
of them under `hazards` at the line where it bites, with the properties that
watch it, or with the reason there is none.

**What makes each component correct.**

* threads: a thread is in exactly one place, nobody is lost or run twice, the
  scheduler's assertions hold, every ready thread gets the CPU;
* interrupts: a thread finds the level its own function chose after a switch, and the CPU
  never halts in a state no interrupt can end;
* sleep: a sleeper is nowhere else, wakes when it should, and not much later;
* semaphores: no lost wake-up; locks: one owner, also in the windows in which
  `holder` does not say so;
* list: a call on the pointers is the call on a sequence;
* heap: blocks share no byte with each other or with headers; the free list is
  exactly the free segments; no access outside the heap;
* paging: a frame in use is never handed out, cleared or overwritten, nor is a hole of the
  memory map handed out, and a frame in use is
  mapped where the kernel looks for it; below the kernel's half only the heap is;
* screen: whoever prints sees a terminal of rows and columns that scrolls.

## 2. Modules

```
                       /--> Sleep --> MCSleep     Queue <== List --> MCList
Thread --> Synch --> Kernel --> MCKernel          Heap --> MCHeap
                       |  \==> Mutex              Paging --> MCPaging
                       v                          Terminal <== Screen
                 KernelProofs --> PlaceProofs --> SleepProofs
                       ^
                       |
                   Induction --> ListProofs, HeapProofs, PagingProofs, ScreenProofs
        --> is extended by      ==> implements
```

(`SleepProofs` extends `Sleep` too, and `ListProofs`, `HeapProofs`, `PagingProofs` and
`ScreenProofs` the modules they are about.)

`PROJECT.json` maps every definition to the lines it models.

### Thread, Synch, Kernel

`Thread` has the control blocks, queues, interrupt level and timer dispatch;
`Synch` adds semaphores and locks; `Kernel` composes them with `boot()` and
holds the specification and the properties.

* **Grain.** Code that runs with interrupts off is one step, up to the switch.
  With interrupts on, a tick may come between any two steps, and a function
  that touches shared state more than once with interrupts on is several
  steps: `thread_create` is `CreatePage`, the three steps of its append to
  `all_threads` (below) and `CreateUnblock`; the end
  of `run` is `RunReturn`, `RunSchedule`; `lock_accquire` is `LockAcquire`,
  `SemaDown` / `SemaDownResume`, `LockAcquired`.
* **Stacks.** `pc[t]`, `arg[t]`, `saved[t]` are what matters of a thread's
  kernel stack: where it continues, the object of the call it is in, and the
  interrupt level that call will restore. `inTick[t]` says that there is also a
  timer handler on that stack, whose EOI and iret are still to come
  (`TickReturn`).
* **The append to `all_threads`** is the one change of a list with interrupts on
  (`thread.c:102`). `CreateList` reads the tail into `prev` of the new element
  (`seen`), `CreateTail` makes the element the tail, `CreateLink` stores it as `next` of
  its `prev`. Between the last two a walk from the head ends in front of the element
  (`Gaps`). `all_threads` is the list as it will be when every append under way has
  linked its element. If the tail has changed meanwhile, the elements behind `prev`
  are lost; if `thread_kill` comes while its walk cannot reach the dead thread it
  removes nothing, and if it removes the thread a new element is about to be linked to, it
  takes that element along. These cases set `torn`, a history variable: the behaviour
  goes on, and only `AllThreadsExact` looks at `torn`.
* **PIC.** `inService` is set when a hardware tick is delivered and cleared by
  the EOI. While it is set no interrupt of the same or a lower priority comes.
  `int $32` (`SoftwareTick`) runs the same handler without the PIC, and ends
  with the same EOI.
* **Panics** are terminal, with the message as the value of `panic`. They are
  outcomes of actions, not disabled actions. A panic inside a call leaves
  `current`, the queues and statuses as the code had them by then.
* **Quirks kept.** When `schedule` keeps the thread it has, `switch_complete`
  tests a `prev` that is 0, so it reads the word at address 24, the size of
  `all_threads` (`PrevDying`). A semaphore can be taken by a thread that never
  waited while the woken one is on its way (`DownLoop` is re-entered).
* **Abstracted.** Pages for control blocks are the members of `Threads` and are
  not recycled (`thread_kill` frees nothing). Lists are sequences, which `List`
  justifies. The PANICs of `schedule` and `thread_block` for interrupts that are on are
  left out: every caller has turned them off just before.

`Ops` says which services thread functions call in an instance, so that each
run asks one question: `create`, `yield`, `cli`, `sema`, `lock`, `exit`,
`int32`, `sleep`.

`Sleep` adds `thread_sleep` and `sleep_tick`. Both of their calls are commented
out in the code (`start.c:17`, `thread.c:114`); the module has them where the
comments have them, and assumes of the callers of `thread_sleep` what that one
use does: the thread is ready, and its duration fits a word. A tick is two steps
here, `sleep_tick` and the rest of the handler (`Tick`), with nothing in between
(`ticking`). That `sleep_tick` removes from the list it walks by index is kept:
`Counted` says which sleepers a walk reaches, `Wakings` which of them it wakes, and
`CountedDown` and `EntriesOf` what is left of the list. `left` and `joined` are history,
as is `level` in `Thread`: the interrupt level the function of a thread has last chosen.

`Mutex` is the abstract lock: an owner per lock, taken when free, given back by
its owner. `MutexSpec` states that `Kernel` implements it, where the owner of a
lock is the thread between the end of its `sema_down` and the end of its
`sema_up`.

### List, Queue

`List` is `lib/list.c` pointer for pointer. Addresses are numbers, elements are
numbered as the heap hands them out, and cell 0 is what lies at NULL: the first
heap header. `Fresh` is what newly allocated memory may hold, because `append`
never sets `next` of an element behind others. It is zero in the run: the
Makefile's target is QEMU, which clears memory, and no heap memory is used
twice. `Queue` is the sequence the callers believe in, and `ListIsQueue` the
refinement.

### Heap

`malloc` and `initialiseHeap`, in units of 8 bytes. `hdr` maps the address of
every `MemorySegmentHeader` to its fields. `Split` is the path that takes a
block off a segment, `Grow` the one that takes pages, `OutOfPages` the one that
returns `NO_ADDR`. The unsigned comparison of a signed length is kept
(`TooSmall`). A call with interrupts off is one step, `malloc`; one with
interrupts on is two, `mallocSearch` and `mallocFound`, and a `malloc` may come in
between, as that of a tick does. After such a race the behaviour is not followed
any further (`raced`). A write outside the heap's pages ends the behaviour with
`halt = "fault"`.

### Paging

Addresses are page numbers. The state is one record `mem`: types and addresses
of `physical_page_entries`, the page directory, every frame read as a page
table, what each frame holds (`contents`), what it is in use for (`owner`) and
the pool's `next_free_page_index`. The operations of `paging.c` are functions
from such records to such records; the actions are the steps of `boot()` in
their order and then the calls of `thread_create` and `malloc`. `memset` and
`memcpy` write the pages they really write: four for every one
(`WordSize`). `contents` and `owner` differ when something in use was destroyed.
`palloc_kern` is called with interrupts on by `thread_create` alone. Its call is one step
(`ThreadPage`) when no tick comes in between, and else three: `ThreadPageFound` ends with
the test of an entry, `ThreadPageTaken` sets it and maps the page, `ThreadPageCleared` is
the memset; any other calls run in between. One call at most is held up at each of the
two places. When the entry that is set has been another's since the test, or the memset
runs over a page that has come into use since, `raced` is set, and what becomes of the
machine is not followed.
The initial memory is that of `boot/paging.asm`: `PagesCount` tables for the low half
from `TablesFrame` on, and as many for the kernel's from `KernTables` on. (The code
fills 24 tables where its directory uses 6; the others are left out.)

`Layout` is what makes a machine a PC, as far as the properties depend on it; a
hypothesis of the theorems, and evaluated for the instance in `MCPaging`. Its parts:
what `memset` and `memcpy` overrun is covered by the pool (three pages, and
`sizeof(pool)` rounded up is three); the kernel and the pool fit below the video memory, and
that lies below the boot tables; the boot tables lie where they map (17 to 21 MB of
24); the usable memory is listed in ascending order, starts at 0 in one piece that
holds the kernel, `base_pd` and the pool, and has no page so close below the
video memory or the boot tables that an overrun would reach them. For the first 4096
pages that holds of the map a BIOS gives: the first region ends at 0x9f000 or so, 25
pages below 0xb8000, and with the hole up to 1 MB left out the 4096th page is near
16.4 MB. And the word at `kernel_pd` plus a page and 4 bytes is zero
(`LowMemory`), since `init_pool` does not set what becomes `next_free_page_index`.

### Screen, Terminal

`Screen` takes `print_char` apart at its accesses to the ports: select register
15, read it, select 14, read it, compute and write the character, and the same
way back (`at`). Everything between two port accesses is one step. `todo` is what
the running code has still to print or do, starting with `boot()`; `Work` stands
for the parts of it that print any number of lines, or panic. From `idt_init` on
`Tick` may come at every step and prints a line to the end before the interrupted code
goes on (`frame`): every `Second`-th time that of `time_tick`, and at any time that of
`schedule`, which announces every switch; a preempted thread's printing has the same shape. `keyboard_handler` writes the corner of the screen.
A character is one of seven; attributes and the length of messages are left out.
`clear_bss` is part of the model because it runs between an attempt and its OK.

`Terminal` knows rows, columns, a place for the next character and an empty row
at the bottom; `ScreenIsTerminal` is the refinement, for as long as no handler
has printed inside a `print_char`.

## 3. Runs

All twelve are listed in `PROJECT.json`.

| Run | What it asks | Result |
|---|---|---|
| `sync` | `TypeOK`, `OnePlace`, `HaltWakes`, `NoLostWakeup`, `LockExclusion`, `AssertionsHold`, `LevelRestored` with create, yield, cli/sti, a semaphore and a lock | holds, 1.04 million states |
| `sleep` | `OnePlaceAsleep`, `StatusTold`, `HaltedBySleeper`, `SleepOnTime`, `AllThreadsExact`, `MutexSpec` with threads that return, locks, yield and sleep | holds, 88 500 states |
| `echo` | `BootCompletes`, `EchoRoundRobin` for the threads `main()` creates | holds, 649 states |
| `list` | `TypeOK`, `Linked`, `HeapHeaderIntact`, `ListIsQueue` | holds, 559 000 states |
| `heap` | `TypeOK`, `BlocksDisjoint`, `FreeListExact` for each single request size of 8 to 96 bytes, with and without a call under way | holds, 61 400 states |
| `paging` | `TypeOK`, `InUseIntact`, `Mapped`, `OnlyExhaustionStops`, `LowHalfIsHeap`, `NeverRegranted` | holds, 10 500 states |
| `screen` | `TypeOK`, `AttemptMarked`, `ScreenIsTerminal` | holds, 4 million states |
| `preemption` | round robin for threads that only compute | violated |
| `exit_race` | `schedule`'s assertion when threads return | violated |
| `heap_fault` | `malloc` stays inside the heap | violated at the 102nd request |
| `heap_race` | blocks stay apart when a tick comes inside `malloc` | violated |
| `screen_torn` | characters land on the screen when a tick comes inside `print_char` | violated |

### What the passing runs show, and under which bounds

**Kernel instances.** Four threads: `main`, the idle thread and two that
`thread_create` makes. That is the least number with which one thread waits,
one is woken and a third takes the unit in between, and with which a thread
dies while another is ready and a third is blocked. One semaphore, one lock
and `init_started`. `MaxValue = 2` bounds the value of a semaphore no lock
uses, enough for two threads to be woken at once. `TIME_SLICE` is 2 instead of
4 (`thread.h:128`): the count has a value at which the tick does nothing and
one at which it switches. `sync` uses the symmetry of the two pages
`thread_create` hands out, and so does `sleep` (neither has a liveness property).
Instances differ in `Ops` only. In `sleep` a second is 3 ticks and durations are
one tick and one second, so that two sleepers come due in the same tick, in both
orders, and in different ones; two threads can sleep while a third runs or ends.

`LevelRestored` is checked in `sync`, where threads turn interrupts off and on
themselves: a thread with the level off yields, waits or tries a lock, others run with
the level on, and back. `int $32` with interrupts off, the one way to a handler that has to come back
to a level that is off, is left to the theorem (`sync` takes four times as long with it).

`AllThreadsExact` needs threads that end, and is checked in `sleep`, where an append can be
interrupted at each of its steps and the thread it links to end meanwhile; without `~torn`
the property is violated. For an append that is overtaken by another one it takes two
threads that create and two pages they can create in, five threads in all: that case is
the theorem's.

In `sleep`, panics are reachable (see `exit_race`); the invariants are claims
about all states before one. In `echo`, the exception in `EchoRoundRobin`
(`MainUnpreempted`) is real: if a tick takes the CPU from the idle thread after
its `sema_up` and before its `thread_block`, `main()` resumes by a normal
return with IRQ0 in service and nobody to send the EOI, and its `while(1)` then
runs unpreempted. Every other behaviour is a round robin.

`sleep` does not check deadlock, because the machine can really stop:
a thread that was preempted by a tick owes the PIC the EOI, and if it is put to
sleep and the others end or wait, the idle thread halts with the timer held back,
and the tick that would wake the sleeper never comes. `HaltedBySleeper` says that
this is the only way.

**List.** Up to five elements allocated in a behaviour, three different data
pointers and repeated ones. Five give each removal a first, a middle and a last
element with neighbours on both sides, twice. A list is used either as the
kernel does (append, pop, remove, get) or as a stack (push, pop, get): `push`,
which nothing calls, does not maintain `tail` or `prev` and stores through
`head` when it is NULL, so `Linked` and `HeapHeaderIntact` are claimed for
queues only. `ListIsQueue` holds for both.

**Heap.** Real sizes: a page of 512 units, a header of 3. Every kernel request
is 12 bytes, rounded to 16. A program that asks for one size only is
deterministic but for where the interruptible calls are, so each of the twelve
goes through the whole first page and on into grown pages or into the fault, with
a search left waiting at every point. At most six pages. Programs that mix sizes
are left out: with requests of 8 and 16 bytes and a grown heap, the header of a
remainder that does not fit (see `heap_fault`) overwrites the next page, with a
negative length read as a huge one, and blocks overlap without any race.

**Paging.** A machine with the layout of a PC scaled down: 16 entries, 45
frames, page tables of 6 entries, 8 boot tables per half, in two places above the
last frame with an entry, a kernel of 3 pages, a hole with the video frame; and
three memory maps (much memory, little, a split high region). Every order of
thread and heap pages is taken until the frames run out, through the creation
of page tables and through a `palloc_heap` that fails half-way, with one thread
interrupted at its free entry and one before its memset, and both may meet other
callers. Without `~raced` the properties `NeverRegranted`, `InUseIntact` and `Mapped` are violated. Two facts the
result rests on: `MAX_PHYS_PAGES` keeps all frames that are handed out below
the boot tables at 17 MB, and the memory that `memset` and `memcpy` overrun is
always memory not yet handed out, because frames are taken in ascending order
and memory maps are sorted. The pool's `next_free_page_index` is a word the
overrun of `memcpy` has copied from low memory, zero on this machine
(`LowMemory`); `OnlyExhaustionStops` would fail otherwise. `LowHalfIsHeap` has a
consequence worth knowing: `screen.c` goes on writing to 0xb8000, which only the
identity tables mapped; the mapping `paging.c:85` makes for the video memory is the
one in the kernel's half. After `clear_identity_pages` the screen works by
translations that are still cached.

**Screen.** 3 rows of 3 characters, the cursor anywhere at first. A message is one
character, so that with its bracket it fills a row and wraps, and `Work` can print
often enough to scroll any number of rows away. `Byte = 8` makes the nine cells
need both registers. The timer prints on every second tick, a switch on any, and a tick may
come at every step, so a line falls between any two port accesses of every
character. One attempt is open at a time, as in `boot()`; `StackSize = 2` suffices: boot()
makes four attempts, so the stack would run over if one were not taken off.
`AttemptMarked` says where the bracket of the open attempt is: in the row that was
remembered, less the rows scrolled since. `print_ok` does not subtract them, so after a
scroll the OK is printed in a lower row than its bracket; that is no claim of the model,
and the hazard is listed without a property. That the registers stay bytes is due to
`port_byte_out`, which takes an `unsigned char`.

Deadlock is checked in the runs of `MCKernel` (a halted machine stutters in `Halted`).
List, Heap, Paging and Screen stop at a panic or a fault, or at the bound, so
their configurations do not check it.

### What the violations show

* **preemption**. A thread that first runs out of a timer handler enters `run()`
  with IRQ0 in service. If it never makes an `int $32`, no tick comes again
  until some other thread's handler returns, which needs the CPU. Ready threads
  starve. The fairness of `FairSpec` is in force.
* **exit_race**. `run()` sets `TS_DYING` with interrupts on. A tick before its
  `int_disable` requeues the thread as READY; when it runs again it is RUNNING,
  and `schedule` panics. For a thread that never called `int $32` the missing
  EOI hides the race, hence `int32` in this run's `Ops`.
* **heap_fault**. The 101st block leaves 32 bytes. The 102nd request takes
  Header + 16 of them and writes the header of a remainder that lies behind the
  page, at 0x1004, which the to-do list in `filesystem/initrd.c` mentions.
* **heap_race**. `thread_create` appends to `all_threads` with interrupts on. A
  tick that ends the slice after the search of that `malloc` appends to
  `ready_threads`; its `malloc` takes the same segment, and the first one then
  returns the same block: one list element in two lists.
* **screen_torn**. The "1 second" of a tick between the selection of register 14
  and its read leaves register 15 selected: the low byte of the cursor is taken for
  the high one, and the character goes to memory behind the screen.

Smaller disagreements between comment and code, met on the way and not given a
run: `thread.c:21` ("should already be disabled", but `idt_init` has ended with
`sti`, and a slice of ticks before `thread_init` has set `T_MAGIC` panics in
`current_thread`), `paging.c:51` ("i is 1 to skip first space", the loop starts at 0),
`paging.c:318` ("Returns 0 if no page is available", it returns `NO_ADDR`), the
entry reserved for video memory is number 184 of the list of usable pages,
which is not the frame 184, and `unmap_page` negates before it takes the
remainder in its boundary test.

## 4. Fairness

`FairSpec` assumes: the boot code, an interrupted handler that has the CPU
again, and the timer make progress whenever they can for ever (weak fairness:
the CPU executes, the PIT ticks). A thread that gets the CPU again and again
completes the call it is in (strong fairness on `Continue(t)`): between two
ticks there are 55 ms, and a handler takes a small part of it, so that the
steps of a call, a few hundred instructions, are not interrupted for ever.
Nothing is assumed about what thread functions choose to call or about the
thread a scheduler picks. `EchoSpec` adds that the threads `main()` creates go
on calling `int $32`, since `thread_echo` does that in a loop.

## 5. Proofs

The proofs hold for every value of the constants: any set of threads, semaphores
and locks, any time slice, any `Ops`, lists of any length, heaps, pages and screens of
any size. They
rest on the named assumptions next to the constants alone: `ThreadAssumption` (the
kernel thread and the idle thread are two of the threads, NULL is none),
`SynchAssumption` (locks have an initial value of 1 and `init_started` of 0),
`SleepAssumption` (the durations callers ask for fit a word, and threads that sleep make
no `int $32`), `ListAssumption`, `HeapAssumption` (a header fits a page, requests are
shorter than a page, the heap's bytes fit a word), `PagingAssumption` (the numbers are
in range, the kernel's half starts with a page table of its own, and the map lists memory
that exists) and `ScreenAssumption`. Where a theorem is about some of the instances only, its
statement says so: `Use`, `Uniform`, `Small`, `Layout`, each explained below or above.

**Induction.** The library's induction theorems take an operator as a parameter,
which the provers cannot instantiate. `Induction` states what is needed with sets and
functions: a non-empty set of naturals has its minimum (`MinInSet`, from the
well-foundedness of `<`), a set that has 0 and is closed under successor up to n has
all of `0 .. n` (`UpTo`), and a recursive definition over `0 .. n` has a solution
(`Recursion`), without which nothing is known of a TLA+ recursive function. With these,
`EntriesOf`, `Wakings`, `Node` and `RemoveFirst` are what they are meant to be, for every
argument.

**Types** (`KernelProofs`). `TypeCorrect`: `Spec => []TypeOK`. Beyond types it says that
`tick_count` stays below the slice and that `schedule` always has a thread to switch to.
`TypeOK` is not inductive. `TypeInv` adds that the object of a call fits the call
(`ArgOK`), only the idle thread is in `idle()` (`IdlePlaces`), pages without a magic have
run nothing (`UnbornPlaces`), and, the heart of it, that as long as `idle_thread` is not
set the idle thread has the CPU or is in the ready queue (`IdleKnown`): otherwise
`get_next_thread` would return NULL.

**Locks** (`KernelProofs`). `MutualExclusion`: `LockInv` says that the unit of a lock is in
its semaphore or with exactly one thread, and that a thread on its way to give it back is
no longer the holder. Steps are split into those that leave the locks alone
(`LockFrame`) and the four that do not (`DownTakes`, `AcquiredKeeps`, `ReleaseKeeps`,
`ReleasedGives`). The argument needs neither the ready queue nor the waiting lists: only
that nothing but `lock_accquire` and `lock_release` touches a lock's semaphore, and that
the loop of `sema_down` tests the value with interrupts off. `LocksImplementMutex`,
`Spec => MutexSpec`, follows from the same invariant: the four lemmas say who owns what
after a step, and `Owner` is then determined.

**Places** (`PlaceProofs`). `OnePlaceEach` (`OnePlace`), `UnblockAsserts`,
`AssertionsNeverFire` (`AssertionsHold`), `AllThreadsAreListed` (`AllThreadsExact`).
The invariant `PlaceInv(A)` turns "exactly one place" into equivalences a step can be
checked against, with the status of a thread as the link: the running thread is the
current one (`CpuExact`), the ready queue has the READY threads, once each, without the
idle thread (`ReadyExact`), a waiting list has blocked threads inside `sema_down` of that
semaphore, once, and nobody waits twice (`WaitExact`), a thread being created belongs to
one `thread_create` (`CreateExact`), every other blocked thread is accounted for
(`BlockedExact`), and DYING threads are between the end of their function and their death
(`DyingExact`). `A` is a set of threads put aside, empty here and the sleepers below. Two
lemmas carry the steps: `SwitchExact` for everything that ends in `schedule`, and
`QuietExact` for what moves nobody. That `schedule`'s assertion holds needs
`ExitInv` besides (with threads that return it does not hold, see `exit_race`); that of
`thread_unblock` holds in every instance. `AllThreadsExact` needs `ListInv`, the same
kind of equivalence for `all_threads` as long as no append was overtaken (`torn`). When the word at address 24 that `switch_complete`
takes for a status reads as TS_DYING, what it reaps is NULL, which is in no list
(`RemoveAbsent`).

**Levels and wake-ups** (`PlaceProofs`). `LevelIsRestored` (`LevelRestored`) and
`HaltIsWoken` (`HaltWakes`): `LevelInv` says of every stack that the level its
innermost call or handler will restore is the one its function chose (`level`), also with
`int $32` inside a function that has turned interrupts off, and that an EOI that is due is due on the stack
of some thread (`EoiPending`); `HaltInv` that the idle thread only halts with an empty
ready queue. Together: a thread inside a handler is READY or running, so the idle thread
does not halt while the timer is held back. `NoWakeupIsLost` (`NoLostWakeup`): `WakeInv`
keeps for each semaphore the number of units below the number of woken threads while
anybody waits; the steps that matter are `sema_up`, which adds a unit and a woken
thread, and the test of the loop, which takes away one of each or only a unit.

**Sleep** (`SleepProofs`). All six properties of the `sleep` run, and the levels:
`OnePlaceWithSleep`,
`StatusIsTold`, `OnlySleepersHalt`, `SleepersOnTime`, `SleepersAreListed`,
`SleepersKeepLevel`, `LocksOfSleepers`. The invariant is that of the kernel with the
sleepers put aside (`AsideInv`), so that its steps are those already proved; only
`thread_sleep` and `sleep_tick` are new. In the middle of a tick, when `sleep_tick` has made
threads ready under an idle thread that halts, `HaltInv` is false, and what holds in
its place is that the timer is not held back. `OnTime` is the invariant behind
`SleepOnTime`: an entry is behind by at most the number of places it has moved up in the
list since it joined. It relies on `WakingsAre` and `KeptOnTime`, the only places
where the walk over a list that shrinks is argued about.

**Lists** (`ListProofs`). `ListTypes` (`TypeOK`), `HeaderKept` (`HeapHeaderIntact`),
`QueueLinked` (`Linked`) and `ListImplementsQueue` (`ListIsQueue`), for lists of any length
and any history, under `Use`: fresh memory is zero, and a list is a queue or a stack.
Both are needed. `append` leaves `next` of a second element as malloc's memory has it,
and `push` does not maintain what `append` and `remove` use; with other memory or mixed
uses the properties are false. `MCList` evaluates `Use` for the instance that is
model-checked. `ListInv` says that there is a chain of `size` different elements from
`head` to NULL, which for a queue `prev` undoes and `tail` ends. The chain is a witness in
the invariant, not a function of the state: each call gives the new one (an element more
at one end, or `Cut`), and `ContentsAre` connects it with `Node`. `WalkStops` is the loop
of `remove`, with the case of an empty list, where it reads the heap's header.

**Heap** (`HeapProofs`). `HeapTypes` (`TypeOK`) holds for every program. `BlocksStayApart`
(`BlocksDisjoint`) is about programs that ask for one size (`Uniform`), any size, and
`FreeListIsExact` (`FreeListExact`) about those for which two blocks of that size and a
header fit a page (`Small`). Neither hypothesis can go. With two sizes blocks overlap (see
section 3), and the second segment of a growth says it has `remainder` less a header
although a page need not have room for that behind the block. `MCHeap` evaluates both. What
`HeapInv` says is why one size is enough (`Lengths`): a free segment either is the rest of
the first page, the only free one (`Roomy`), or is too small for ever, so that only `Roomy` is ever
split and growth always starts from the last free segment. `Ordered` is the free list
in increasing addresses, `Apart` the blocks in the order of their making, each behind the
ones before it, and `Fresh` that what an interrupted call has found is what it would find
now. Searches are loops (`Iterate`); `Settles` proves of any loop that gets
higher with each step, and not above the number of its steps, that it has arrived.
`SearchIs` uses it with the number of segments passed, `ReachedIs` with the number of
segments reached. `SplitIs` and `GrowIs` are what the pointer updates amount to.

**Frames and page tables** (`PagingProofs`). `PagingTypes` (`TypeOK`), `UsedStaysIntact`
(`InUseIntact`), `FramesKept` (`NeverRegranted`), `UsedIsMapped` (`Mapped`),
`OnlyExhaustion` (`OnlyExhaustionStops`) and `LowHalfOnlyHeap` (`LowHalfIsHeap`), all six
properties of the `paging` run, for every machine and every memory map with the
`Layout` of a PC, up to the step in which an interrupted `palloc_kern` meets another caller. None of them is inductive: that a page may be cleared depends on
where the other frames in use are. `PagingInv` says what boot() has made of the memory
at each of its steps (`Stage`), or that the machine has stopped for want of a frame
(`Exhausted`). From the first step to the last: the boot tables of the kernel's half map
every frame that will ever be handed out (`HighOK`), so that `map_page` at a kernel
address never makes a table and changes nothing (`KernelMapped`); the free entries
are frames in ascending order, away from what boot() has laid out (`FreeOK`, `Roomy`);
and a frame in use lies below all free ones or where none is ever free (`UsedOK`).
Hence what lies behind the next frame, as far as `memset` and `memcpy` write, is in
nobody's use (`NothingBehind`). During boot, `Early` says which entry is which frame,
because the pool, of all things, must end up over the copied words; from then on free
frames are zero (`Clean`), the low half has a table of its own for each entry of the
directory (`TablesOK`), tables nobody made are empty (`Blank`), and the heap is one
stretch (`HeapOK`): a fresh table for a heap page is a frame that says nothing
(`TableSteady`), and a new entry changes one translation (`EntrySteady`). The loops
of boot() are recursive functions and go by `Recursion` and `UpTo` (`KernelReserved`,
`PoolTaken`, `PallocHeapGrown`).

**Screen** (`ScreenProofs`). `ScreenTypes` (`TypeOK`), `AttemptKeepsRow` (`AttemptMarked`),
`StrayOnlyTorn` and `ScreenImplementsTerminal` (`ScreenIsTerminal`), from
`ScreenAssumption`: at least three columns, and twice the cells of the screen fit two
registers. `TypeOK` alone is not inductive, and neither is `AttemptMarked`. `ScreenInv`
adds four parts. `Planned` is about the script: what is still to be done is a rest of
`boot()`, in which `push_row` and `print_ok` alternate (`Balanced`), each `push_row`
follows the bracket of a new line (`Bracketed`) and at most one comes after `idt_init`
(`LateIrq`); this is what keeps `attempt_stack` at one entry. `Steady` follows the cursor
through the port accesses: while nothing was torn, each half of `get_cursor` and
`set_cursor` has the register selected and the byte in hand that its place says, and
the cursor is a cell of the screen. `Begun` is the bracket that is being printed, `Kept`
the bracket of the attempt that is open: it is above the cursor, so that nothing
printed later overwrites it, and it moves up as the screen scrolls. The refinement needs
`Planned` and `Steady`, and the arithmetic that takes a cell apart into row and column
(`CellAt`, `PlaceOf`, `NextPlace`, `GridPut`, `GridShuffled`), from division by a parameter
(`Divided`, `DividedIs` and `Times` in `Induction`).

**Only model-checked**: liveness (`BootCompletes`, `EchoRoundRobin`), which is out of the
prover's reach: their conclusions, and that the fairness of section 4 suffices for them.
Every invariant, action property and refinement of a passing run is a theorem.

## 6. Not modelled

* What the machine does after an interrupted `palloc_kern` has raced with another, or
  two calls of `malloc`. That `malloc` takes its heap pages, and `map_page` its tables, with
  interrupts on when the append of `thread_create` runs out of heap: one step each.
  The increment of `size` in that append: one step with the store before it.
* The PANICs of `schedule` and `thread_block` about interrupts that are on, which no
  caller can meet.
* `thread_sleep` on a thread that is not ready: the running one would be marked
  blocked and keep the CPU. No use of it exists, not even a commented-out one.
* `malloc` for programs that mix sizes or ask for a page and more: the kernel asks
  for 12 bytes only.
* `clear_screen`, `print_at`, `print_fail`, `get_position`, `test_colours`,
  `timer_phase`: no caller.
* `free` and `CombineFreeSegments` (marked "TODO FIX"), `unmap_page` and
  `lookup_phys`: no caller. The condition variables: no body.
* Exception names and register dumps, integer formatting, the GDT and the TSS:
  formatting or straight-line set-up.
* The file system, the key-value list, the shell and the graveyard: not linked.

## 7. Plan

Done: threads, synchronisation and boot first, since everything else runs on
them; then the list, the heap and the frames underneath; then what preemption does
to the parts that have no protection, the heap and the screen, and sleep.

Then the proofs, of what the runs check: the kernel, sleep, the list, the screen, the
heap and the frames. Next: what the hypotheses of these theorems leave open (`Layout` asks
for more than each of the six theorems about frames needs), and the steps towards the
liveness properties that are safety properties (a handler that has the CPU again gets
nearer to its end).
