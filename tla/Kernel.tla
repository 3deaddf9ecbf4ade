-------------------------------- MODULE Kernel --------------------------------
(***************************************************************************)
(* The kernel from the end of paging_init on: boot() of kernel/start.c     *)
(* enables interrupts in idt_init, makes its own stack the first thread in *)
(* thread_init and waits there for the idle thread; main() then creates    *)
(* threads and spins.  Composes Thread and Synch.                          *)
(***************************************************************************)
EXTENDS Synch, FiniteSets

Init ==
  /\ current = Kernel
  /\ iflag = FALSE /\ inService = FALSE /\ panic = "none"
  /\ status = [t \in Threads |-> "unborn"]
  /\ pc = [t \in Threads |-> IF t = Kernel THEN "boot" ELSE "none"]
  /\ arg = [t \in Threads |-> NULL]
  /\ saved = [t \in Threads |-> FALSE]
  /\ inTick = [t \in Threads |-> FALSE]
  /\ ready_threads = <<>> /\ all_threads = <<>>
  /\ idle_thread = NULL /\ tick_count = 0
  /\ seen = [t \in Threads |-> NULL] /\ torn = FALSE
  /\ level = [t \in Threads |-> TRUE]
  /\ SynchInit

\* idt_init() ends with sti.
IdtInit ==
  /\ Runs(Kernel, "boot")
  /\ iflag' = TRUE
  /\ Goto(Kernel, "thread_init")
  /\ UNCHANGED <<current, inService, panic, arg, saved, inTick, seen, listVars, synchVars>>

\* thread_init(), which runs with interrupts off until its call of sema_down:
\* the kernel thread, the lists, and thread_create("idle thread",...).
ThreadInit ==
  /\ Runs(Kernel, "thread_init")
  /\ status' = [status EXCEPT ![Kernel] = "RUNNING", ![Idle] = "READY"]
  /\ all_threads' = <<Kernel, Idle>>
  /\ ready_threads' = <<Idle>>
  /\ pc' = [pc EXCEPT ![Kernel] = "down", ![Idle] = "fresh"]
  /\ arg' = [arg EXCEPT ![Kernel] = InitStarted]
  /\ iflag' = TRUE
  /\ UNCHANGED <<current, inService, panic, saved, inTick, seen, idle_thread,
                 tick_count, torn, level, synchVars>>

\* A thread function computes, or main() spins.
Compute == panic = "none" /\ pc[current] = "user" /\ UNCHANGED vars

\* PANIC ends in cli; hlt.
Halted == panic # "none" /\ UNCHANGED vars

-------------------------------------------------------------------------------
\* The timer and the other devices.
Irq == (HardwareTick \/ OtherIrq) /\ UNCHANGED synchVars

\* What a thread function chooses to call.
Call(t) ==
  \/ /\ \/ SoftwareTick(t) \/ IntDisable(t) \/ IntEnable(t) \/ CallYield(t)
        \/ \E new \in Threads \ {Idle} : CreatePage(t, new)
        \/ RunReturn(t)
     /\ UNCHANGED synchVars
  \/ \E s \in Semas : CallDown(t, s) \/ CallUp(t, s)
  \/ \E l \in Locks : LockAcquire(t, l) \/ LockRelease(t, l)

\* The steps a thread takes by itself once a call is under way.
Continue(t) ==
  \/ /\ \/ YieldReturn(t) \/ CreateList(t) \/ CreateTail(t) \/ CreateLink(t)
        \/ CreateUnblock(t) \/ Run(t) \/ RunSchedule(t)
        \/ IdleStart(t) \/ IdleBlock(t) \/ IdleHalt(t)
     /\ UNCHANGED synchVars
  \/ SemaDown(t) \/ SemaDownResume(t) \/ IdleUp(t)
  \/ LockAcquired(t) \/ LockReleased(t)

Boot == IdtInit \/ ThreadInit

\* The end of a timer handler that was switched out.
Resume == (\E t \in Threads : TickReturn(t)) /\ UNCHANGED synchVars

Next ==
  \/ Boot \/ Irq \/ Resume \/ Compute \/ Halted
  \/ \E t \in Threads : Call(t) \/ Continue(t)

Spec == Init /\ [][Next]_vars

\* The CPU executes: boot() and the timer handler go on, and the PIT, once its
\* interrupt can be accepted, delivers it.  A thread that has the CPU again and
\* again gets on with its call: a tick comes every 55 ms, and its handler takes
\* a small part of that.  Nothing is assumed of what threads call.
Fairness ==
  /\ WF_vars(Boot) /\ WF_vars(Resume) /\ WF_vars(Irq)
  /\ \A t \in Threads : SF_vars(Continue(t))

FairSpec == Spec /\ Fairness

\* The threads main() creates run thread_echo, which calls int $32 for ever.
EchoCalls(t) == SoftwareTick(t) /\ UNCHANGED synchVars

EchoSpec ==
  FairSpec /\ \A t \in Threads \ {Kernel, Idle} : SF_vars(EchoCalls(t))

-------------------------------------------------------------------------------
(* Types. *)

Places == {"none", "boot", "thread_init", "fresh", "user", "yield",
           "create_list", "create_tail", "create_link", "create_unblock",
           "exit", "dead",
           "idle", "idle_up", "idle_loop", "idle_blocked", "hlt",
           "down", "wait", "acquired", "release"}

Panics == {"none", "TRIED TO RETRIEVE NON-THREAD PAGE",
           "current process is still running", "UNBLOCKING NON-BLOCKED Thread",
           "Lock already held by this thread",
           "Attempted release of lock not held by current thread"}

\* Every variable has its type, and tick_count stays below the time slice: the
\* comparison in thread_tick never lets a thread run longer.
TypeOK ==
  /\ current \in Threads /\ panic \in Panics
  /\ iflag \in BOOLEAN /\ inService \in BOOLEAN
  /\ status \in [Threads -> Status] /\ pc \in [Threads -> Places]
  /\ arg \in [Threads -> Threads \cup Semas \cup {NULL}]
  /\ saved \in [Threads -> BOOLEAN] /\ inTick \in [Threads -> BOOLEAN]
  /\ ready_threads \in Seq(Threads) /\ all_threads \in Seq(Threads)
  /\ idle_thread \in {NULL, Idle}
  /\ seen \in [Threads -> Threads \cup {NULL}]
  /\ torn \in BOOLEAN /\ level \in [Threads -> BOOLEAN]
  /\ tick_count \in 0 .. TIME_SLICE /\ (panic = "none" => tick_count < TIME_SLICE)
  /\ value \in [Semas -> Nat]
  /\ waiters \in [Semas -> Seq(Threads)]
  /\ holder \in [Locks -> Threads \cup {NULL}]

-------------------------------------------------------------------------------
(* Where a thread is. *)

Positions(q, t) == {i \in DOMAIN q : q[i] = t}

\* t is being made by thread_create, which has not yet unblocked it.
UnderCreation(t) ==
  \E u \in Threads :
    pc[u] \in {"create_list", "create_tail", "create_link", "create_unblock"} /\ arg[u] = t

\* Every hold the kernel has on t: the CPU, an entry of the ready queue, an
\* entry of a waiting list, idle_thread, a thread_create that is not done.
Holds(t) ==
  {<<"cpu", i>> : i \in {j \in {0} : current = t}}
  \cup {<<"idle", i>> : i \in {j \in {0} : idle_thread = t /\ current # t}}
  \cup {<<"create", i>> : i \in {j \in {0} : UnderCreation(t)}}
  \cup {<<"ready", i>> : i \in Positions(ready_threads, t)}
  \cup UNION {{<<s, i>> : i \in Positions(waiters[s], t)} : s \in Semas}

\* A thread is in exactly one place: it is never lost by a switch, a wake-up or
\* a kill (which would leave it with no way back to the CPU), and it is never in
\* two queues or twice in one (which would run one stack twice).  Dead threads
\* are nowhere.
OnePlace ==
  panic = "none" /\ status[Kernel] # "unborn" =>
    \A t \in Threads :
      Cardinality(Holds(t)) = IF status[t] = "unborn" \/ pc[t] = "dead" THEN 0 ELSE 1

\* thread.status tells where t is, which schedule, thread_unblock and
\* switch_complete rely on; aside are the threads that are blocked outside the
\* queues.  (A thread whose function has returned is DYING while it still runs.)
StatusTells(t, aside) ==
  /\ status[t] = "RUNNING" => current = t
  /\ status[t] = "READY" =>
       \/ \E i \in DOMAIN ready_threads : ready_threads[i] = t
       \/ t = idle_thread /\ current # t
  /\ status[t] = "BLOCKED" =>
       \/ UnderCreation(t) \/ t \in aside
       \/ t = idle_thread /\ pc[t] = "idle_blocked"
       \/ pc[t] = "wait" /\ Positions(waiters[arg[t]], t) # {}

\* The append of thread_create has not come to its assignment of the tail.
Unlisted(t) ==
  \E u \in Threads : pc[u] \in {"create_list", "create_tail"} /\ arg[u] = t

\* thread_kill has run for every thread whose function returned, as soon as another
\* thread has the CPU, and for no other, and no append has lost a thread, although
\* thread_create appends with interrupts on: all_threads is exactly the threads that
\* were created and are not dead, until a tick in the middle of an append lets another
\* thread append, or the end of a thread change what the append builds on.
AllThreadsExact ==
  panic = "none" /\ status[Kernel] # "unborn" /\ ~torn =>
    \A t \in Threads :
      Cardinality(Positions(all_threads, t)) =
        IF status[t] = "unborn" \/ pc[t] = "dead" \/ Unlisted(t) THEN 0 ELSE 1

-------------------------------------------------------------------------------
(* Assertions. *)

\* When no thread function returns, the assertions by which schedule and
\* thread_unblock check the scheduler's own bookkeeping never fire; those that
\* check what a thread function asks for (a lock it holds, say) may.
AssertionsHold ==
  "exit" \notin Ops =>
    panic \notin {"current process is still running", "UNBLOCKING NON-BLOCKED Thread"}

\* schedule() asserts that the thread it takes the CPU from is not RUNNING.
ScheduleAssertion == panic # "current process is still running"

-------------------------------------------------------------------------------
(* Interrupts. *)

\* Places at which a thread comes back from a switch, inside a call.
Switched == {"fresh", "yield", "wait", "dead", "idle_blocked"}

\* However ticks, int $32 and calls switch threads in between, a thread that is back
\* in its function finds the interrupt level it chose there itself, never that of the
\* thread which ran in between; and interrupts are off on the way back from every
\* switch, as the assertions in schedule and thread_block demand.
LevelRestored ==
  panic = "none" /\ status[Kernel] # "unborn" =>
    IF inTick[current] \/ pc[current] \in Switched THEN ~iflag ELSE iflag = level[current]

\* The idle thread never halts the CPU while the PIC holds back the timer: the
\* interrupt that ends its hlt can always come.
HaltWakes ==
  panic = "none" /\ pc[current] = "hlt" /\ ~inTick[current] => iflag /\ ~inService

-------------------------------------------------------------------------------
(* Semaphores and locks. *)

\* Threads that sema_up woke and that have not yet tested the value again.
WokenFor(s) ==
  {t \in Threads : pc[t] = "wait" /\ arg[t] = s /\ Positions(waiters[s], t) = {}}

\* No wake-up is lost, although a thread that never waited may take the unit
\* of one that was woken: while threads wait for s, each unit of s has a woken
\* thread on its way to take it.
NoLostWakeup ==
  panic = "none" =>
    \A s \in Semas : waiters[s] # <<>> => value[s] <= Cardinality(WokenFor(s))

\* t is between its sema_down and its sema_up of the lock l.
Owns(t, l) ==
  holder[l] = t \/ (pc[t] \in {"acquired", "release"} /\ arg[t] = l)

\* A lock is free exactly when its semaphore has its unit, and otherwise has
\* one owner, also in the windows in which holder does not name it.
LockExclusion ==
  panic = "none" =>
    \A l \in Locks :
      LET owners == {t \in Threads : Owns(t, l)}
      IN  value[l] \in {0, 1} /\ Cardinality(owners) = 1 - value[l]

\* The locks of synch.c implement the locks of Mutex: an owner is the thread
\* between the end of its sema_down and the end of its sema_up.
Owner(l) ==
  IF \E t \in Threads : Owns(t, l) THEN CHOOSE t \in Threads : Owns(t, l) ELSE NULL

Abs == INSTANCE Mutex WITH owner <- [l \in Locks |-> Owner(l)]

MutexSpec == Abs!Spec

-------------------------------------------------------------------------------
(* Liveness. *)

\* thread_init comes back from its wait for the idle thread, unless a tick came
\* before the kernel thread had its T_MAGIC.
BootCompletes == <>(pc[Kernel] = "user" \/ panic # "none")

IsReady(t) == Positions(ready_threads, t) # {}

\* Round robin: every ready thread gets the CPU.
RoundRobin == \A t \in Threads : IsReady(t) ~> current = t

\* main() runs with the timer held back: the tick that took the CPU from the
\* idle thread, after its sema_up and before its thread_block, has no EOI yet.
MainUnpreempted == current = Kernel /\ inService /\ ~inTick[Kernel]

\* With threads that call int $32 for ever, as thread_echo does, every ready
\* thread gets the CPU, unless the first tick left main() without preemption.
EchoRoundRobin == \A t \in Threads : IsReady(t) ~> (current = t \/ MainUnpreempted)
===============================================================================
