-------------------------------- MODULE Thread --------------------------------
(***************************************************************************)
(* The threads of the kernel: thread/thread.c, the context switch of       *)
(* thread/tswitch.asm and the interrupt level and timer dispatch of        *)
(* interrupt/idt.c and interrupt/interrupt.asm that drive it.              *)
(*                                                                         *)
(* There is one CPU.  Code that runs with interrupts off is one step, up   *)
(* to the context switch that hands the CPU to another thread; with        *)
(* interrupts on, a timer interrupt may come between any two steps.  pc[t] *)
(* is the place where t continues when it next owns the CPU.               *)
(*                                                                         *)
(* thread_create fills a page for the thread control block; here the pages *)
(* are the members of Threads, and the lists of lib/list.c are sequences.  *)
(* Only thread_create changes a list with interrupts on: its append to     *)
(* all_threads is three steps.                                             *)
(***************************************************************************)
EXTENDS Integers, Sequences, SequencesExt

CONSTANTS Threads,    \* the pages that can hold a thread control block
          Kernel,     \* the one at K_THREAD_BASE: the boot stack and main()
          Idle,       \* the page thread_init gets for the idle thread
          NULL,       \* (thread*) 0
          TIME_SLICE, \* ticks a thread may run before it is preempted
          Ops         \* the services that thread functions call in a model

ASSUME ThreadAssumption ==
  /\ Kernel \in Threads /\ Idle \in Threads /\ Kernel # Idle
  /\ NULL \notin Threads
  /\ TIME_SLICE \in Nat \ {0}

VARIABLES
  current,        \* the thread whose page holds the stack pointer
  iflag,          \* EFLAGS.IF: interrupts are enabled
  inService,      \* the PIC delivered IRQ0 and has had no EOI since
  panic,          \* the message PANIC halted the machine with, or "none"
  status,         \* thread.status, "unborn" for a page without T_MAGIC
  pc,             \* where the thread continues
  arg,            \* the object of the call the thread is in
  saved,          \* the interrupt level the thread's current call restores
  seen,           \* elem->prev of the append the thread is in: the tail it read
  inTick,         \* the thread was switched out inside thread_tick
  ready_threads, all_threads, idle_thread, tick_count,
  torn,           \* history: an append to all_threads has been overtaken by another
                  \* or by the end of the thread it links to
  level           \* history: the interrupt level the thread's function has chosen

cpuVars  == <<current, iflag, inService, panic>>
callVars == <<pc, arg, saved, inTick, seen>>
listVars == <<status, ready_threads, all_threads, idle_thread, tick_count,
              torn, level>>
threadVars == <<cpuVars, callVars, listVars>>

Status == {"unborn", "READY", "RUNNING", "BLOCKED", "DYING"}

\* The value of TS_DYING in the enum thread_status.
TS_DYING == 3

\* t owns the CPU, is not inside the timer handler, and stands at p.
Runs(t, p) ==
  /\ panic = "none" /\ current = t /\ ~inTick[t]
  /\ pc[t] = p

Goto(t, p) == pc' = [pc EXCEPT ![t] = p]

\* A call returns: its frame, with the level and the object in it, is gone.
Return(t, p) ==
  /\ Goto(t, p)
  /\ arg' = [arg EXCEPT ![t] = NULL]
  /\ saved' = [saved EXCEPT ![t] = FALSE]

-------------------------------------------------------------------------------
(* Scheduling.  The operators take the ready queue rq and the statuses st as  *)
(* their caller has left them, for a caller changes both and then schedules   *)
(* in one stretch with interrupts off.                                        *)

\* Mutant: the last ready thread is overlooked.
GetNextThreadShort(rq) ==
  IF rq = <<>> \/ (Len(rq) = 1 /\ idle_thread # NULL) THEN idle_thread ELSE Head(rq)

\* get_next_thread: the head of the queue, or the idle thread.
GetNextThread(rq) == IF rq = <<>> THEN idle_thread ELSE Head(rq)

\* Mutant: the queue keeps the thread that runs.
PoppedKept(rq) == rq

\* What pop leaves of the queue.
Popped(rq) == IF rq = <<>> THEN rq ELSE Tail(rq)

\* Mutant: nobody reaps the dead.
PrevDyingNever(prev, st) == FALSE

\* switch_complete's test of prev->status.  When schedule keeps the thread it
\* has, prev is 0 and the test reads the word at address 24: the size field of
\* all_threads, the first object of the heap, which starts at address 0.
PrevDying(prev, st) ==
  IF prev = NULL THEN Len(all_threads) = TS_DYING ELSE st[prev] = "DYING"

\* The places in all_threads of the elements that an append has made the tail and not
\* yet linked to the one before: a walk from the head ends there.
Gaps ==
  {i \in DOMAIN all_threads : \E u \in Threads : pc[u] = "create_link" /\ arg[u] = all_threads[i]}

\* The walk of remove(all_threads,t) ends before t, or t is the element an append is
\* about to link to.
Unreached(t) == \E i \in DOMAIN all_threads, j \in Gaps : all_threads[i] = t /\ j <= i
LinkedTo(t)  == \E i \in DOMAIN all_threads : all_threads[i] = t /\ i + 1 \in Gaps

\* The list in front of t.
Before(t) == SubSeq(all_threads, 1, (CHOOSE i \in DOMAIN all_threads : all_threads[i] = t) - 1)

\* thread_kill, which removes t from both lists (and frees nothing).  An element that
\* is removed before the next one is linked to it takes that and all behind it away.
ThreadKill(t, rq) ==
  /\ all_threads' = IF Unreached(t) THEN all_threads
                    ELSE IF LinkedTo(t) THEN Before(t) ELSE RemoveFirst(all_threads, t)
  /\ torn' = (torn \/ Unreached(t) \/ LinkedTo(t))
  /\ ready_threads' = RemoveFirst(rq, t)

\* switch_complete(prev), on the stack of the thread that now runs.
SwitchComplete(prev, next, st, rq) ==
  /\ status' = [st EXCEPT ![next] = "RUNNING"]
  /\ tick_count' = 0
  /\ IF PrevDying(prev, st)
     THEN ThreadKill(prev, rq)
     ELSE ready_threads' = rq /\ UNCHANGED <<all_threads, torn>>

\* schedule(), called by t with interrupts off.  The next thread is popped
\* before the assertion is tested.
Schedule(t, st, rq) ==
  LET next == GetNextThread(rq)
  IN  /\ iflag' = FALSE
      /\ IF st[t] = "RUNNING"
         THEN /\ panic' = "current process is still running"
              /\ status' = st /\ ready_threads' = Popped(rq)
              /\ UNCHANGED <<current, all_threads, torn, tick_count>>
         ELSE /\ current' = next
              /\ SwitchComplete(IF next = t THEN NULL ELSE t, next, st, Popped(rq))
              /\ UNCHANGED panic

\* Mutant: the thread that yields goes to the head.
RequeuedFirst(t) == <<t>> \o ready_threads

\* The ready queue after thread_yield: the idle thread never enters it.
Requeued(t) ==
  IF t # idle_thread THEN Append(ready_threads, t) ELSE ready_threads

\* thread_yield, up to and including the switch.
ThreadYield(t) == Schedule(t, [status EXCEPT ![t] = "READY"], Requeued(t))

\* thread_block.
ThreadBlock(t) == Schedule(t, [status EXCEPT ![t] = "BLOCKED"], ready_threads)

\* thread_unblock(u).
ThreadUnblock(u) ==
  IF status[u] # "BLOCKED"
  THEN /\ panic' = "UNBLOCKING NON-BLOCKED Thread"
       /\ UNCHANGED <<status, ready_threads>>
  ELSE /\ ready_threads' = Append(ready_threads, u)
       /\ status' = [status EXCEPT ![u] = "READY"]
       /\ UNCHANGED panic

-------------------------------------------------------------------------------
(* Interrupts. *)

\* Mutant: interrupts are enabled whatever the level was.
IntSetOn(lvl) == iflag' = TRUE

\* int_set(lvl), which can only enable.  It is called with interrupts off:
\* a thread gets there from an int_disable() or from a switch.
IntSet(lvl) == iflag' = lvl

\* The interrupt has woken the idle thread's hlt: it continues with its loop.
Woken(t) == IF pc[t] = "hlt" THEN Goto(t, "idle_loop") ELSE UNCHANGED pc

\* Mutant: tick_count++ instead of ++tick_count.
SliceOverLate == tick_count >= TIME_SLICE

\* The time slice of the running thread ends with this tick.
SliceOver == tick_count + 1 >= TIME_SLICE

\* idt_int32 and idt_global_int_wrapper: the stub's cli, thread_tick, the EOI
\* and the iret.  svc is the in-service bit while the handler runs.  When the
\* slice is over, the EOI waits until t is switched back in (TickReturn).
\* Before thread_init, current_thread() finds no T_MAGIC and panics.
TimerHandler(t, svc) ==
  /\ Woken(t)
  /\ UNCHANGED <<arg, seen, idle_thread, level>>
  /\ \/ /\ ~SliceOver
        /\ tick_count' = tick_count + 1
        /\ inService' = FALSE
        /\ UNCHANGED <<current, iflag, panic, saved, inTick, status,
                       ready_threads, all_threads, torn>>
     \/ /\ SliceOver /\ status[t] = "unborn"
        /\ panic' = "TRIED TO RETRIEVE NON-THREAD PAGE"
        /\ iflag' = FALSE /\ inService' = svc
        /\ tick_count' = tick_count + 1
        /\ UNCHANGED <<current, saved, inTick, status, ready_threads,
                       all_threads, torn>>
     \/ /\ SliceOver /\ status[t] # "unborn"
        /\ ThreadYield(t)
        /\ inService' = svc
        /\ inTick' = [inTick EXCEPT ![t] = TRUE]
        /\ saved' = [saved EXCEPT ![t] = iflag]

\* The PIC holds back IRQ0, and the lower IRQs, while IRQ0 is in service.
IrqAccepted == panic = "none" /\ iflag /\ ~inService

\* A timer interrupt of the PIT.
HardwareTick == IrqAccepted /\ TimerHandler(current, TRUE)

\* Another interrupt, such as the keyboard's: its handler ends with the EOI
\* and changes nothing the threads see, except that it wakes the idle thread.
OtherIrq ==
  /\ IrqAccepted /\ pc[current] = "hlt"
  /\ Woken(current)
  /\ UNCHANGED <<cpuVars, arg, saved, inTick, seen, listVars>>

\* t is back from the switch inside its timer handler: int_set(0), EOI, iret.
TickReturn(t) ==
  /\ panic = "none" /\ current = t /\ inTick[t]
  /\ inService' = FALSE
  /\ iflag' = saved[t]
  /\ inTick' = [inTick EXCEPT ![t] = FALSE]
  /\ saved' = [saved EXCEPT ![t] = FALSE]
  /\ UNCHANGED <<current, panic, pc, arg, seen, listVars>>

-------------------------------------------------------------------------------
(* What a thread function calls.  Compute steps between them are in Kernel.   *)

\* asm("int $32"): the same handler, without the PIC.
SoftwareTick(t) ==
  /\ "int32" \in Ops /\ Runs(t, "user")
  /\ TimerHandler(t, inService)

\* The function of t chooses its interrupt level.
Chosen(t, lvl) ==
  /\ level' = [level EXCEPT ![t] = lvl]
  /\ UNCHANGED <<status, ready_threads, all_threads, idle_thread, tick_count, torn>>

\* int_disable() and int_enable().
IntDisable(t) ==
  /\ "cli" \in Ops /\ Runs(t, "user") /\ iflag
  /\ iflag' = FALSE
  /\ Chosen(t, FALSE)
  /\ UNCHANGED <<current, inService, panic, callVars>>

IntEnable(t) ==
  /\ "cli" \in Ops /\ Runs(t, "user") /\ ~iflag
  /\ iflag' = TRUE
  /\ Chosen(t, TRUE)
  /\ UNCHANGED <<current, inService, panic, callVars>>

\* thread_yield(): the level it found is restored after the switch back.
CallYield(t) ==
  /\ "yield" \in Ops /\ Runs(t, "user")
  /\ ThreadYield(t)
  /\ saved' = [saved EXCEPT ![t] = iflag]
  /\ Goto(t, "yield")
  /\ UNCHANGED <<inService, arg, inTick, seen, idle_thread, level>>

YieldReturn(t) ==
  /\ Runs(t, "yield")
  /\ IntSet(saved[t])
  /\ Return(t, "user")
  /\ UNCHANGED <<current, inService, panic, inTick, seen, listVars>>

\* thread_create: the page, the control block and the three stack frames ...
CreatePage(t, new) ==
  /\ "create" \in Ops /\ Runs(t, "user")
  /\ status[new] = "unborn"
  /\ status' = [status EXCEPT ![new] = "BLOCKED"]
  /\ pc' = [pc EXCEPT ![t] = "create_list", ![new] = "fresh"]
  /\ arg' = [arg EXCEPT ![t] = new]
  /\ UNCHANGED <<cpuVars, saved, inTick, seen, ready_threads, all_threads,
                 idle_thread, tick_count, torn, level>>

\* all_threads->tail.
ListTail == IF all_threads = <<>> THEN NULL ELSE Last(all_threads)

\* ... append(all_threads,new), with interrupts as the caller had them: the element
\* remembers the tail as its prev, ...
CreateList(t) ==
  /\ Runs(t, "create_list")
  /\ seen' = [seen EXCEPT ![t] = ListTail]
  /\ Goto(t, "create_tail")
  /\ UNCHANGED <<cpuVars, arg, saved, inTick, listVars>>

\* ... becomes the tail, whatever the tail is by now; the list is what it will be when
\* the element is linked, so elements behind that prev are lost, ...
CreateTail(t) ==
  /\ Runs(t, "create_tail")
  /\ all_threads' = IF seen[t] = ListTail THEN Append(all_threads, arg[t])
                    ELSE IF Contains(all_threads, seen[t])
                    THEN Before(seen[t]) \o <<seen[t], arg[t]>> ELSE all_threads
  /\ torn' = (torn \/ seen[t] # ListTail)
  /\ seen' = [seen EXCEPT ![t] = NULL]
  /\ Goto(t, "create_link")
  /\ UNCHANGED <<cpuVars, arg, saved, inTick, status, ready_threads,
                 idle_thread, tick_count, level>>

\* ... and its prev gets it as next, which closes the chain again; ...
CreateLink(t) ==
  /\ Runs(t, "create_link")
  /\ Goto(t, "create_unblock")
  /\ UNCHANGED <<cpuVars, arg, saved, inTick, seen, listVars>>

\* ... and thread_unblock(new).
CreateUnblock(t) ==
  /\ Runs(t, "create_unblock")
  /\ ThreadUnblock(arg[t])
  /\ Return(t, "user")
  /\ UNCHANGED <<current, iflag, inService, inTick, seen, all_threads, idle_thread,
                 tick_count, torn, level>>

\* The first switch to a thread: first_switch, then run() up to function(aux).
Run(t) ==
  /\ Runs(t, "fresh")
  /\ iflag' = TRUE
  /\ Goto(t, IF t = Idle THEN "idle" ELSE "user")
  /\ UNCHANGED <<current, inService, panic, arg, saved, inTick, seen, listVars>>

\* The function returns to run(), which marks the thread ...
RunReturn(t) ==
  /\ "exit" \in Ops /\ Runs(t, "user") /\ t # Kernel
  /\ status' = [status EXCEPT ![t] = "DYING"]
  /\ Goto(t, "exit")
  /\ UNCHANGED <<cpuVars, arg, saved, inTick, seen, ready_threads, all_threads,
                 idle_thread, tick_count, torn, level>>

\* ... and only then disables interrupts and schedules.
RunSchedule(t) ==
  /\ Runs(t, "exit")
  /\ Schedule(t, status, ready_threads)
  /\ Goto(t, "dead")
  /\ UNCHANGED <<inService, arg, saved, inTick, seen, idle_thread, level>>

\* idle(): the thread makes itself known (its sema_up is in Synch), ...
IdleStart(t) ==
  /\ Runs(t, "idle")
  /\ idle_thread' = t
  /\ Goto(t, "idle_up")
  /\ UNCHANGED <<cpuVars, arg, saved, inTick, seen, status, ready_threads,
                 all_threads, tick_count, torn, level>>

\* ... then gives the CPU away, for ever, ...
IdleBlock(t) ==
  /\ Runs(t, "idle_loop")
  /\ ThreadBlock(t)
  /\ Goto(t, "idle_blocked")
  /\ UNCHANGED <<inService, arg, saved, inTick, seen, idle_thread, level>>

\* ... and when nothing else is ready, waits for an interrupt: sti; hlt.
IdleHalt(t) ==
  /\ Runs(t, "idle_blocked")
  /\ iflag' = TRUE
  /\ Goto(t, "hlt")
  /\ UNCHANGED <<current, inService, panic, arg, saved, inTick, seen, listVars>>
===============================================================================
