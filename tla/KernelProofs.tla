----------------------------- MODULE KernelProofs -----------------------------
(***************************************************************************)
(* Proofs about Kernel, for any number of threads, semaphores and locks    *)
(* and any time slice.                                                     *)
(***************************************************************************)
EXTENDS Kernel, Induction, FiniteSetTheorems, SequenceTheorems

InSeq(x, q) == \E i \in DOMAIN q : q[i] = x

-------------------------------------------------------------------------------
(* Sequences. *)

\* The same for an element that is in the sequence, wherever.
LEMMA RemoveFirstIs ==
  ASSUME NEW S, NEW q \in Seq(S), NEW e, InSeq(e, q)
  PROVE  /\ RemoveFirst(q, e) \in Seq(S)
         /\ \E k \in 1 .. Len(q) : q[k] = e /\ IsCut(RemoveFirst(q, e), q, k)
<1>1. \E i \in 1 .. Len(q) : q[i] = e
  BY LenProperties DEF InSeq
<1> QED
  BY <1>1, RemoveFirstCuts

\* Removing an element of a sequence leaves a sequence, and every other element.
LEMMA RemoveFirstSeq ==
  ASSUME NEW S, NEW q \in Seq(S), NEW e
  PROVE  /\ RemoveFirst(q, e) \in Seq(S)
         /\ \A x : InSeq(x, q) /\ x # e => InSeq(x, RemoveFirst(q, e))
<1>1. CASE ~ InSeq(e, q)
  BY <1>1, LenProperties DEF RemoveFirst, InSeq
<1>2. CASE InSeq(e, q)
  <2> DEFINE r == RemoveFirst(q, e)
  <2>1. r \in Seq(S)
    BY <1>2, RemoveFirstIs
  <2>2. PICK k \in 1 .. Len(q) : q[k] = e /\ IsCut(r, q, k)
    BY <1>2, RemoveFirstIs
  <2> HIDE DEF r
  <2> USE DEF IsCut
  <2>3. DOMAIN q = 1 .. Len(q) /\ Len(q) \in Nat /\ DOMAIN r = 1 .. Len(q) - 1
    BY <2>1, <2>2, LenProperties
  <2>4. ASSUME NEW x, InSeq(x, q), x # e PROVE InSeq(x, r)
    <3>1. PICK i \in 1 .. Len(q) : q[i] = x
      BY <2>3, <2>4 DEF InSeq
    <3>2. CASE i < k
      BY <2>2, <2>3, <3>1, <3>2 DEF InSeq
    <3>3. CASE i > k
      <4>1. i - 1 \in 1 .. Len(q) - 1 /\ ~ (i - 1 < k) /\ (i - 1) + 1 = i
        BY <2>2, <2>3, <3>1, <3>3
      <4>2. r[i - 1] = x
        BY <2>2, <3>1, <4>1
      <4> QED
        BY <2>3, <4>1, <4>2 DEF InSeq
    <3> QED
      BY <2>2, <2>4, <3>1, <3>2, <3>3
  <2> QED
    BY <2>1, <2>4 DEF r
<1> QED BY <1>1, <1>2

-------------------------------------------------------------------------------
(* The inductive invariant behind TypeOK. *)

\* The object of a call under way is of the kind that call works on.
ArgOK ==
  \A t \in Threads :
    /\ pc[t] \in {"down", "wait"} => arg[t] \in Semas
    /\ pc[t] \in {"acquired", "release"} => arg[t] \in Locks
    /\ pc[t] \in {"create_list", "create_tail", "create_link", "create_unblock"} => arg[t] \in Threads

\* Only the idle thread is in idle().
IdlePlaces ==
  \A t \in Threads :
    pc[t] \in {"idle", "idle_up", "idle_loop", "idle_blocked", "hlt"} => t = Idle

\* A page without T_MAGIC has never run a thread.
UnbornPlaces ==
  \A t \in Threads :
    status[t] = "unborn" => pc[t] \in {"none", "boot", "thread_init"}

\* Until idle() has set idle_thread, get_next_thread never finds the queue empty:
\* thread_init has not begun, or the idle thread has the CPU or is in the queue.
IdleKnown ==
  panic = "none" /\ idle_thread = NULL =>
    \/ /\ current = Kernel /\ pc[Kernel] \in {"boot", "thread_init"}
       /\ status[Kernel] = "unborn"
    \/ pc[Idle] \in {"fresh", "idle"} /\ (current = Idle \/ InSeq(Idle, ready_threads))

TypeInv == TypeOK /\ ArgOK /\ IdlePlaces /\ UnbornPlaces /\ IdleKnown

\* The list in front of an element of it.
LEMMA BeforeTypes ==
  ASSUME all_threads \in Seq(Threads), NEW t, InSeq(t, all_threads)
  PROVE  Before(t) \in Seq(Threads)
<1> DEFINE k == CHOOSE i \in DOMAIN all_threads : all_threads[i] = t
<1>1. k \in DOMAIN all_threads
  BY DEF InSeq
<1>2. DOMAIN all_threads = 1 .. Len(all_threads) /\ Len(all_threads) \in Nat
  BY LenProperties
<1>3. Before(t) = SubSeq(all_threads, 1, k - 1)
  BY DEF Before
<1> HIDE DEF k
<1>4. \A i \in 1 .. k - 1 : all_threads[i] \in Threads
  BY <1>1, <1>2, ElementOfSeq
<1> QED
  BY <1>1, <1>2, <1>3, <1>4, SubSeqProperties

LEMMA KillTypes ==
  ASSUME all_threads \in Seq(Threads), NEW t, NEW rq \in Seq(Threads), ThreadKill(t, rq)
  PROVE  /\ all_threads' \in Seq(Threads) /\ ready_threads' \in Seq(Threads)
         /\ torn' \in BOOLEAN
<1>1. ready_threads' \in Seq(Threads) /\ torn' \in BOOLEAN
  BY RemoveFirstSeq DEF ThreadKill
<1>2. CASE Unreached(t)
  BY <1>1, <1>2 DEF ThreadKill
<1>3. CASE ~ Unreached(t) /\ LinkedTo(t)
  <2>1. InSeq(t, all_threads)
    BY <1>3 DEF LinkedTo, InSeq
  <2> QED
    BY <1>1, <1>3, <2>1, BeforeTypes DEF ThreadKill
<1>4. CASE ~ Unreached(t) /\ ~ LinkedTo(t)
  BY <1>1, <1>4, RemoveFirstSeq DEF ThreadKill
<1> QED
  BY <1>2, <1>3, <1>4

\* What schedule leaves of its caller's types.
LEMMA ScheduleTypes ==
  ASSUME TypeOK, panic = "none", NEW t \in Threads,
         NEW st \in [Threads -> Status], NEW rq \in Seq(Threads),
         GetNextThread(rq) \in Threads, Schedule(t, st, rq)
  PROVE  /\ current' \in Threads /\ iflag' \in BOOLEAN /\ panic' \in Panics
         /\ status' \in [Threads -> Status]
         /\ ready_threads' \in Seq(Threads) /\ all_threads' \in Seq(Threads)
         /\ torn' \in BOOLEAN
         /\ tick_count' \in 0 .. TIME_SLICE /\ (panic' = "none" => tick_count' < TIME_SLICE)
         /\ \A u \in Threads : status'[u] = "unborn" => st[u] = "unborn"
<1> DEFINE next == GetNextThread(rq)
           prev == IF next = t THEN NULL ELSE t
<1>1. Popped(rq) \in Seq(Threads)
  BY HeadTailProperties DEF Popped
<1>2. CASE st[t] = "RUNNING"
  <2>1. /\ iflag' = FALSE /\ panic' = "current process is still running"
        /\ status' = st /\ ready_threads' = Popped(rq)
        /\ UNCHANGED <<current, all_threads, torn, tick_count>>
    BY <1>2 DEF Schedule
  <2>2. current' \in Threads /\ all_threads' \in Seq(Threads) /\ torn' \in BOOLEAN
    BY <2>1 DEF TypeOK
  <2>3. tick_count' \in 0 .. TIME_SLICE /\ (panic' = "none" => tick_count' < TIME_SLICE)
    BY <2>1, ThreadAssumption DEF TypeOK
  <2>4. panic' \in Panics /\ iflag' \in BOOLEAN
    BY <2>1 DEF Panics
  <2> QED
    BY <1>1, <2>1, <2>2, <2>3, <2>4
<1>3. CASE st[t] # "RUNNING"
  <2>1. /\ current' = next /\ iflag' = FALSE /\ panic' = "none"
        /\ SwitchComplete(prev, next, st, Popped(rq))
    BY <1>3 DEF Schedule
  <2>2. /\ all_threads' \in Seq(Threads) /\ ready_threads' \in Seq(Threads)
        /\ torn' \in BOOLEAN
    <3>1. CASE PrevDying(prev, st)
      <4>1. ThreadKill(prev, Popped(rq))
        BY <2>1, <3>1 DEF SwitchComplete
      <4>2. all_threads \in Seq(Threads)
        BY DEF TypeOK
      <4> HIDE DEF prev
      <4> QED
        BY <1>1, <4>1, <4>2, KillTypes
    <3>2. CASE ~ PrevDying(prev, st)
      BY <1>1, <2>1, <3>2 DEF SwitchComplete, TypeOK
    <3> QED
      BY <3>1, <3>2
  <2>3. status' = [st EXCEPT ![next] = "RUNNING"] /\ tick_count' = 0
    BY <2>1 DEF SwitchComplete
  <2>4. tick_count' \in 0 .. TIME_SLICE /\ (panic' = "none" => tick_count' < TIME_SLICE)
    BY <2>1, <2>3, ThreadAssumption
  <2>5. panic' \in Panics /\ iflag' \in BOOLEAN
    BY <2>1 DEF Panics
  <2>6. /\ status' \in [Threads -> Status]
        /\ \A u \in Threads : status'[u] = "unborn" => st[u] = "unborn"
    BY <2>3 DEF Status
  <2> QED
    BY <2>1, <2>2, <2>4, <2>5, <2>6
<1> QED
  BY <1>2, <1>3

\* schedule loses no thread of the queue it is given, unless it is the one that
\* dies.
LEMMA ScheduleKeeps ==
  ASSUME NEW t \in Threads, NEW st \in [Threads -> Status],
         NEW rq \in Seq(Threads), GetNextThread(rq) \in Threads,
         Schedule(t, st, rq), panic' = "none", panic = "none",
         NEW u \in Threads, InSeq(u, rq), u # t \/ st[t] # "DYING"
  PROVE  current' = u \/ InSeq(u, ready_threads')
<1> DEFINE next == GetNextThread(rq)
           prev == IF next = t THEN NULL ELSE t
<1>1. rq # <<>> /\ next = Head(rq) /\ Popped(rq) = Tail(rq)
  BY DEF InSeq, GetNextThread, Popped
<1>2. /\ current' = next
      /\ SwitchComplete(prev, next, st, Popped(rq))
  BY DEF Schedule
<1>3. Tail(rq) \in Seq(Threads) /\ (Head(rq) = u \/ InSeq(u, Tail(rq)))
  <2>1. PICK i \in 1 .. Len(rq) : rq[i] = u
    BY LenProperties DEF InSeq
  <2>2. /\ Tail(rq) \in Seq(Threads) /\ Len(Tail(rq)) = Len(rq) - 1
        /\ \A j \in 1 .. Len(Tail(rq)) : Tail(rq)[j] = rq[j + 1]
    BY <1>1, HeadTailProperties
  <2>3. CASE i = 1
    BY <1>1, <2>1, <2>2, <2>3
  <2>4. CASE i # 1
    <3>1. i - 1 \in 1 .. Len(Tail(rq)) /\ (i - 1) + 1 = i
      BY <2>1, <2>2, <2>4, LenProperties
    <3>2. Tail(rq)[i - 1] = u
      BY <2>1, <2>2, <3>1
    <3> QED
      BY <2>2, <3>1, <3>2, LenProperties DEF InSeq
  <2> QED
    BY <2>3, <2>4
<1>4. CASE PrevDying(prev, st)
  <2>1. ready_threads' = RemoveFirst(Tail(rq), prev)
    BY <1>1, <1>2, <1>4 DEF SwitchComplete, ThreadKill
  <2>2. u # prev
    BY <1>4, ThreadAssumption DEF PrevDying
  <2> QED
    BY <1>1, <1>2, <1>3, <2>1, <2>2, RemoveFirstSeq
<1>5. CASE ~ PrevDying(prev, st)
  BY <1>1, <1>2, <1>3, <1>5 DEF SwitchComplete
<1> QED
  BY <1>4, <1>5

\* The initial state.
LEMMA InitTypeInv == Init => TypeInv
<1> SUFFICES ASSUME Init PROVE TypeInv
  OBVIOUS
<1> USE ThreadAssumption, SynchAssumption DEF Init, SynchInit
<1>1. TypeOK
  <2>1. /\ current \in Threads /\ panic \in Panics
        /\ iflag \in BOOLEAN /\ inService \in BOOLEAN
    BY DEF Panics
  <2>2. status \in [Threads -> Status] /\ pc \in [Threads -> Places]
    BY DEF Status, Places
  <2>3. /\ arg \in [Threads -> Threads \cup Semas \cup {NULL}]
        /\ saved \in [Threads -> BOOLEAN] /\ inTick \in [Threads -> BOOLEAN]
        /\ seen \in [Threads -> Threads \cup {NULL}]
        /\ torn \in BOOLEAN /\ level \in [Threads -> BOOLEAN]
    OBVIOUS
  <2>4. /\ ready_threads \in Seq(Threads) /\ all_threads \in Seq(Threads)
        /\ idle_thread \in {NULL, Idle}
    BY EmptySeq
  <2>5. tick_count \in 0 .. TIME_SLICE /\ (panic = "none" => tick_count < TIME_SLICE)
    OBVIOUS
  <2>6. /\ value \in [Semas -> Nat] /\ waiters \in [Semas -> Seq(Threads)]
        /\ holder \in [Locks -> Threads \cup {NULL}]
    BY EmptySeq
  <2> QED
    BY <2>1, <2>2, <2>3, <2>4, <2>5, <2>6 DEF TypeOK
<1>2. ArgOK /\ IdlePlaces /\ UnbornPlaces
  BY DEF ArgOK, IdlePlaces, UnbornPlaces
<1>3. IdleKnown
  BY DEF IdleKnown
<1> QED
  BY <1>1, <1>2, <1>3 DEF TypeInv

\* idt_init and thread_init.
LEMMA BootTypeInv == TypeInv /\ Boot => TypeInv'
<1> USE ThreadAssumption, SynchAssumption DEF TypeInv
<1>1. ASSUME TypeInv, IdtInit PROVE TypeInv'
  <2> USE <1>1 DEF IdtInit, Runs, Goto, listVars, synchVars
  <2>1. TypeOK'
    BY DEF TypeOK, Places
  <2>2. ArgOK' /\ IdlePlaces' /\ UnbornPlaces'
    BY DEF TypeOK, ArgOK, IdlePlaces, UnbornPlaces
  <2>3. IdleKnown'
    BY DEF TypeOK, IdleKnown, InSeq
  <2> QED
    BY <2>1, <2>2, <2>3
<1>2. ASSUME TypeInv, ThreadInit PROVE TypeInv'
  <2> USE <1>2 DEF ThreadInit, Runs, Goto, synchVars
  <2>1. TypeOK'
    <3>1. all_threads' \in Seq(Threads) /\ ready_threads' \in Seq(Threads)
      OBVIOUS
    <3>2. status' \in [Threads -> Status] /\ pc' \in [Threads -> Places]
      BY DEF TypeOK, Status, Places
    <3>3. arg' \in [Threads -> Threads \cup Semas \cup {NULL}]
      BY DEF TypeOK
    <3> QED
      BY <3>1, <3>2, <3>3 DEF TypeOK
  <2>2. ArgOK' /\ IdlePlaces' /\ UnbornPlaces'
    BY DEF TypeOK, ArgOK, IdlePlaces, UnbornPlaces
  <2>3. IdleKnown'
    BY DEF TypeOK, IdleKnown, InSeq
  <2> QED
    BY <2>1, <2>2, <2>3
<1> QED
  BY <1>1, <1>2 DEF Boot

\* Appending to a sequence keeps its elements and adds the new one.
LEMMA AppendSeq ==
  ASSUME NEW S, NEW q \in Seq(S), NEW e \in S
  PROVE  /\ Append(q, e) \in Seq(S) /\ InSeq(e, Append(q, e))
         /\ \A x : InSeq(x, q) => InSeq(x, Append(q, e))
<1>1. /\ Append(q, e) \in Seq(S) /\ DOMAIN Append(q, e) = 1 .. Len(q) + 1
      /\ DOMAIN q = 1 .. Len(q) /\ Len(q) \in Nat
      /\ Append(q, e)[Len(q) + 1] = e
      /\ \A i \in 1 .. Len(q) : Append(q, e)[i] = q[i]
  BY LenProperties
<1>2. Len(q) + 1 \in 1 .. Len(q) + 1 /\ \A i \in 1 .. Len(q) : i \in 1 .. Len(q) + 1
  BY <1>1
<1> QED
  BY <1>1, <1>2 DEF InSeq

\* What every call of schedule gives: the types of what it changes, no page
\* loses its T_MAGIC, and the idle thread is not lost before it is known.
Scheduled ==
  /\ current' \in Threads /\ iflag' \in BOOLEAN /\ panic' \in Panics
  /\ status' \in [Threads -> Status]
  /\ ready_threads' \in Seq(Threads) /\ all_threads' \in Seq(Threads)
  /\ torn' \in BOOLEAN
  /\ tick_count' \in 0 .. TIME_SLICE /\ (panic' = "none" => tick_count' < TIME_SLICE)
  /\ \A u \in Threads : status'[u] = "unborn" => status[u] = "unborn"
  /\ panic' = "none" /\ idle_thread = NULL =>
       current' = Idle \/ InSeq(Idle, ready_threads')

LEMMA ScheduleScheduled ==
  ASSUME TypeInv, panic = "none", NEW t \in Threads,
         NEW st \in [Threads -> Status], NEW rq \in Seq(Threads),
         \A u \in Threads : st[u] = "unborn" => status[u] = "unborn",
         idle_thread = NULL => InSeq(Idle, rq) /\ (t # Idle \/ st[t] # "DYING"),
         Schedule(t, st, rq)
  PROVE  Scheduled
<1>1. GetNextThread(rq) \in Threads
  <2>1. CASE rq = <<>>
    BY <2>1, ThreadAssumption DEF GetNextThread, InSeq, TypeInv, TypeOK
  <2>2. CASE rq # <<>>
    BY <2>2, HeadTailProperties DEF GetNextThread
  <2> QED
    BY <2>1, <2>2
<1>2. panic' = "none" /\ idle_thread = NULL =>
        current' = Idle \/ InSeq(Idle, ready_threads')
  BY <1>1, ScheduleKeeps, ThreadAssumption
<1> QED
  BY <1>1, <1>2, ScheduleTypes DEF Scheduled, TypeInv

LEMMA YieldScheduled ==
  ASSUME TypeInv, panic = "none", status[current] # "unborn", ThreadYield(current)
  PROVE  Scheduled
<1> DEFINE t == current
           st == [status EXCEPT ![t] = "READY"]
           rq == Requeued(t)
<1>1. t \in Threads /\ ready_threads \in Seq(Threads) /\ status \in [Threads -> Status]
  BY DEF TypeInv, TypeOK
<1>2. st \in [Threads -> Status] /\ \A u \in Threads : st[u] = "unborn" => status[u] = "unborn"
  BY <1>1 DEF Status
<1>3. rq \in Seq(Threads)
  BY <1>1, AppendSeq DEF Requeued
<1>4. st[t] # "DYING"
  BY <1>1
<1>5. ASSUME idle_thread = NULL PROVE InSeq(Idle, rq)
  <2>1. t = Idle \/ InSeq(Idle, ready_threads)
    BY <1>5 DEF TypeInv, IdleKnown
  <2>2. rq = Append(ready_threads, t)
    BY <1>1, <1>5, ThreadAssumption DEF Requeued
  <2> QED
    BY <1>1, <2>1, <2>2, AppendSeq
<1>6. Schedule(t, st, rq)
  BY DEF ThreadYield
<1> HIDE DEF t, st, rq
<1> QED
  BY <1>1, <1>2, <1>3, <1>4, <1>5, <1>6, ScheduleScheduled

\* A thread that is inside a call, and so not on its way through the boot code
\* or to idle(), blocks.
LEMMA BlockScheduled ==
  ASSUME TypeInv, panic = "none", ThreadBlock(current),
         pc[current] \notin {"boot", "thread_init", "fresh", "idle"}
  PROVE  Scheduled
<1> DEFINE t == current
           st == [status EXCEPT ![t] = "BLOCKED"]
<1>1. t \in Threads /\ ready_threads \in Seq(Threads) /\ status \in [Threads -> Status]
  BY DEF TypeInv, TypeOK
<1>2. /\ st \in [Threads -> Status] /\ st[t] # "DYING"
      /\ \A u \in Threads : st[u] = "unborn" => status[u] = "unborn"
  BY <1>1 DEF Status
<1>3. idle_thread = NULL => InSeq(Idle, ready_threads)
  BY DEF TypeInv, IdleKnown
<1>4. Schedule(t, st, ready_threads)
  BY DEF ThreadBlock
<1> HIDE DEF t, st
<1> QED
  BY <1>1, <1>2, <1>3, <1>4, ScheduleScheduled

\* The timer's handler, for the hardware's interrupt and for int $32.
LEMMA TimerTypeInv ==
  ASSUME TypeInv, panic = "none", NEW svc \in BOOLEAN,
         TimerHandler(current, svc), UNCHANGED synchVars
  PROVE  TypeInv'
<1> USE ThreadAssumption, SynchAssumption DEF TypeInv, synchVars
<1>1. \/ pc' = [pc EXCEPT ![current] = "idle_loop"] /\ pc[current] = "hlt"
      \/ UNCHANGED pc
  BY DEF TimerHandler, Woken, Goto
<1>2. pc' \in [Threads -> Places] /\ UNCHANGED <<arg, seen, idle_thread, level>>
  BY <1>1 DEF TimerHandler, TypeOK, Places
<1>3. ArgOK' /\ IdlePlaces'
  BY <1>1, <1>2 DEF ArgOK, IdlePlaces, TypeOK
<1>4. CASE ~SliceOver
  <2>1. /\ tick_count' = tick_count + 1 /\ inService' = FALSE
        /\ UNCHANGED <<current, iflag, panic, saved, inTick, status,
                       ready_threads, all_threads, torn>>
    BY <1>4 DEF TimerHandler
  <2>2. TypeOK'
    <3>1. tick_count' \in 0 .. TIME_SLICE /\ tick_count' < TIME_SLICE
      BY <1>4, <2>1 DEF TypeOK, SliceOver
    <3> QED
      BY <1>2, <2>1, <3>1 DEF TypeOK
  <2>3. UnbornPlaces' /\ IdleKnown'
    BY <1>1, <1>2, <2>1 DEF TypeOK, UnbornPlaces, IdlePlaces, IdleKnown, InSeq
  <2> QED
    BY <1>3, <2>2, <2>3
<1>5. CASE SliceOver /\ status[current] = "unborn"
  <2>1. /\ panic' = "TRIED TO RETRIEVE NON-THREAD PAGE"
        /\ iflag' = FALSE /\ inService' = svc
        /\ tick_count' = tick_count + 1
        /\ UNCHANGED <<current, saved, inTick, status, ready_threads, all_threads, torn>>
    BY <1>5 DEF TimerHandler
  <2>2. TypeOK'
    <3>1. tick_count' \in 0 .. TIME_SLICE
      <4>1. tick_count \in 0 .. TIME_SLICE /\ tick_count < TIME_SLICE
        BY DEF TypeOK
      <4>2. tick_count' = tick_count + 1 /\ TIME_SLICE \in Nat
        BY <2>1
      <4> HIDE ThreadAssumption, SynchAssumption DEF TypeInv
      <4> QED
        BY <4>1, <4>2
    <3>2. panic' \in Panics /\ panic' # "none"
      BY <2>1 DEF Panics
    <3> QED
      BY <1>2, <2>1, <3>1, <3>2 DEF TypeOK
  <2>3. UnbornPlaces' /\ IdleKnown'
    BY <1>1, <1>2, <2>1 DEF TypeOK, UnbornPlaces, IdleKnown
  <2> QED
    BY <1>3, <2>2, <2>3
<1>6. CASE SliceOver /\ status[current] # "unborn"
  <2>1. /\ ThreadYield(current) /\ inService' = svc
        /\ inTick' = [inTick EXCEPT ![current] = TRUE]
        /\ saved' = [saved EXCEPT ![current] = iflag]
    BY <1>6 DEF TimerHandler
  <2>2. Scheduled
    BY <1>6, <2>1, YieldScheduled
  <2>3. TypeOK'
    BY <1>2, <2>1, <2>2 DEF TypeOK, Scheduled
  <2>4. UnbornPlaces'
    BY <1>1, <2>2 DEF TypeOK, UnbornPlaces, Scheduled
  <2>5. IdleKnown'
    BY <1>1, <1>2, <1>6, <2>2 DEF TypeOK, IdleKnown, Scheduled
  <2> QED
    BY <1>3, <2>3, <2>4, <2>5
<1> QED
  BY <1>4, <1>5, <1>6

\* The devices, and the return of a switched-out handler.
LEMMA IrqTypeInv == TypeInv /\ (Irq \/ Resume) => TypeInv'
<1> USE ThreadAssumption, SynchAssumption DEF TypeInv
<1>1. ASSUME TypeInv, HardwareTick, UNCHANGED synchVars PROVE TypeInv'
  BY <1>1, TimerTypeInv DEF HardwareTick, IrqAccepted
<1>2. ASSUME TypeInv, OtherIrq, UNCHANGED synchVars PROVE TypeInv'
  <2> USE <1>2 DEF cpuVars, listVars, synchVars
  <2>1. /\ pc' = [pc EXCEPT ![current] = "idle_loop"] /\ pc[current] = "hlt"
        /\ UNCHANGED <<cpuVars, arg, saved, inTick, seen, listVars>>
    BY DEF OtherIrq, Woken, Goto
  <2>2. TypeOK'
    BY <2>1 DEF TypeOK, Places
  <2>3. ArgOK' /\ IdlePlaces'
    BY <2>1 DEF TypeOK, ArgOK, IdlePlaces
  <2>4. UnbornPlaces'
    BY <2>1 DEF TypeOK, UnbornPlaces
  <2>5. IdleKnown'
    BY <2>1 DEF TypeOK, IdleKnown, IdlePlaces, InSeq
  <2> QED
    BY <2>2, <2>3, <2>4, <2>5
<1>3. ASSUME TypeInv, NEW t \in Threads, TickReturn(t), UNCHANGED synchVars PROVE TypeInv'
  <2> USE <1>3 DEF TickReturn, listVars, synchVars
  <2>1. TypeOK'
    BY DEF TypeOK, Places
  <2>2. ArgOK' /\ IdlePlaces' /\ UnbornPlaces'
    BY DEF TypeOK, ArgOK, IdlePlaces, UnbornPlaces
  <2>3. IdleKnown'
    BY DEF TypeOK, IdleKnown, InSeq
  <2> QED
    BY <2>1, <2>2, <2>3
<1> QED
  BY <1>1, <1>2, <1>3 DEF Irq, Resume

\* What thread functions call without touching semaphores.
LEMMA ThreadCallTypeInv ==
  ASSUME TypeInv, NEW t \in Threads, UNCHANGED synchVars,
         \/ SoftwareTick(t) \/ IntDisable(t) \/ IntEnable(t) \/ CallYield(t)
         \/ \E new \in Threads \ {Idle} : CreatePage(t, new)
         \/ RunReturn(t)
  PROVE  TypeInv'
<1> USE ThreadAssumption, SynchAssumption DEF TypeInv, synchVars
<1>1. ASSUME SoftwareTick(t) PROVE TypeInv'
  <2>1. panic = "none" /\ current = t /\ inService \in BOOLEAN /\ TimerHandler(t, inService)
    BY <1>1 DEF SoftwareTick, Runs, TypeOK
  <2> QED
    BY <2>1, TimerTypeInv DEF synchVars
<1>2. ASSUME IntDisable(t) \/ IntEnable(t) PROVE TypeInv'
  <2> USE <1>2 DEF IntDisable, IntEnable, Chosen, Runs, callVars
  <2>1. TypeOK'
    BY DEF TypeOK, Places
  <2>2. ArgOK' /\ IdlePlaces' /\ UnbornPlaces'
    BY DEF TypeOK, ArgOK, IdlePlaces, UnbornPlaces
  <2>3. IdleKnown'
    BY DEF TypeOK, IdleKnown, InSeq
  <2> QED
    BY <2>1, <2>2, <2>3
<1>3. ASSUME CallYield(t) PROVE TypeInv'
  <2> USE <1>3 DEF CallYield, Runs, Goto
  <2>1. status[current] # "unborn"
    BY DEF UnbornPlaces, TypeOK
  <2>2. Scheduled
    BY <2>1, YieldScheduled
  <2>3. TypeOK'
    BY <2>2 DEF TypeOK, Scheduled, Places
  <2>4. ArgOK' /\ IdlePlaces'
    BY DEF TypeOK, ArgOK, IdlePlaces
  <2>5. UnbornPlaces' /\ IdleKnown'
    BY <2>1, <2>2 DEF TypeOK, UnbornPlaces, IdleKnown, Scheduled
  <2> QED
    BY <2>3, <2>4, <2>5
<1>4. ASSUME NEW new \in Threads \ {Idle}, CreatePage(t, new) PROVE TypeInv'
  <2> USE <1>4 DEF CreatePage, Runs, cpuVars
  <2>1. TypeOK'
    BY DEF TypeOK, Places, Status
  <2>2. ArgOK' /\ IdlePlaces' /\ UnbornPlaces'
    BY DEF TypeOK, ArgOK, IdlePlaces, UnbornPlaces
  <2>3. IdleKnown'
    BY DEF TypeOK, IdleKnown, InSeq
  <2> QED
    BY <2>1, <2>2, <2>3
<1>5. ASSUME RunReturn(t) PROVE TypeInv'
  <2> USE <1>5 DEF RunReturn, Runs, Goto, cpuVars
  <2>1. TypeOK'
    BY DEF TypeOK, Places, Status
  <2>2. ArgOK' /\ IdlePlaces' /\ UnbornPlaces'
    BY DEF TypeOK, ArgOK, IdlePlaces, UnbornPlaces
  <2>3. IdleKnown'
    BY DEF TypeOK, IdleKnown, InSeq
  <2> QED
    BY <2>1, <2>2, <2>3
<1> QED
  BY <1>1, <1>2, <1>3, <1>4, <1>5

\* thread_unblock, of a thread.
LEMMA UnblockTypes ==
  ASSUME TypeOK, panic = "none", NEW u \in Threads, ThreadUnblock(u)
  PROVE  /\ panic' \in Panics /\ status' \in [Threads -> Status]
         /\ ready_threads' \in Seq(Threads)
         /\ \A v \in Threads : status'[v] = "unborn" => status[v] = "unborn"
         /\ \A v : InSeq(v, ready_threads) => InSeq(v, ready_threads')
<1>1. CASE status[u] # "BLOCKED"
  BY <1>1 DEF ThreadUnblock, TypeOK, Panics
<1>2. CASE status[u] = "BLOCKED"
  <2>1. /\ ready_threads' = Append(ready_threads, u)
        /\ status' = [status EXCEPT ![u] = "READY"]
        /\ panic' = panic
    BY <1>2 DEF ThreadUnblock
  <2> QED
    BY <2>1, AppendSeq DEF TypeOK, Status
<1> QED
  BY <1>1, <1>2

\* The three steps of thread_create's append.
LEMMA CreateTypes ==
  ASSUME TypeOK, NEW t \in Threads, arg[t] \in Threads,
         CreateList(t) \/ CreateTail(t) \/ CreateLink(t)
  PROVE  /\ all_threads' \in Seq(Threads) /\ torn' \in BOOLEAN
         /\ seen' \in [Threads -> Threads \cup {NULL}]
<1>1. /\ all_threads \in Seq(Threads) /\ torn \in BOOLEAN
      /\ seen \in [Threads -> Threads \cup {NULL}]
  BY DEF TypeOK
<1>2. CASE CreateList(t)
  <2>1. ListTail \in Threads \cup {NULL}
    <3>1. CASE all_threads # <<>>
      <4>1. Len(all_threads) \in 1 .. Len(all_threads)
        BY <1>1, <3>1, EmptySeq, LenProperties
      <4> QED
        BY <1>1, <3>1, <4>1, ElementOfSeq DEF ListTail, Last
    <3> QED
      BY <3>1 DEF ListTail
  <2> QED
    BY <1>1, <1>2, <2>1 DEF CreateList, listVars
<1>3. CASE CreateTail(t)
  <2>1. torn' \in BOOLEAN /\ seen' \in [Threads -> Threads \cup {NULL}]
    BY <1>1, <1>3 DEF CreateTail
  <2>2. CASE seen[t] = ListTail
    BY <1>1, <1>3, <2>1, <2>2, AppendProperties DEF CreateTail
  <2>3. CASE seen[t] # ListTail /\ Contains(all_threads, seen[t])
    <3>1. InSeq(seen[t], all_threads) /\ seen[t] \in Threads
      BY <1>1, <2>3, LenProperties, ElementOfSeq DEF Contains, InSeq
    <3>2. <<seen[t], arg[t]>> \in Seq(Threads)
      BY <3>1
    <3>3. Before(seen[t]) \in Seq(Threads)
      BY <1>1, <3>1, BeforeTypes
    <3>4. Before(seen[t]) \o <<seen[t], arg[t]>> \in Seq(Threads)
      BY <3>2, <3>3, ConcatProperties
    <3> QED
      BY <1>3, <2>1, <2>3, <3>4 DEF CreateTail
  <2>4. CASE seen[t] # ListTail /\ ~ Contains(all_threads, seen[t])
    BY <1>1, <1>3, <2>1, <2>4 DEF CreateTail
  <2> QED
    BY <2>1, <2>2, <2>3, <2>4
<1>4. CASE CreateLink(t)
  BY <1>1, <1>4 DEF CreateLink, listVars
<1> QED
  BY <1>2, <1>3, <1>4

\* What threads do inside calls without touching semaphores.
LEMMA ThreadContinueTypeInv ==
  ASSUME TypeInv, NEW t \in Threads, UNCHANGED synchVars,
         \/ YieldReturn(t) \/ CreateList(t) \/ CreateTail(t) \/ CreateLink(t) \/ CreateUnblock(t)
         \/ Run(t) \/ RunSchedule(t)
         \/ IdleStart(t) \/ IdleBlock(t) \/ IdleHalt(t)
  PROVE  TypeInv'
<1> USE ThreadAssumption, SynchAssumption DEF TypeInv, synchVars
<1>1. ASSUME YieldReturn(t) PROVE TypeInv'
  <2> USE <1>1 DEF YieldReturn, Runs, Return, Goto, IntSet, listVars
  <2>1. TypeOK'
    BY DEF TypeOK, Places
  <2>2. ArgOK' /\ IdlePlaces' /\ UnbornPlaces'
    BY DEF TypeOK, ArgOK, IdlePlaces, UnbornPlaces
  <2>3. IdleKnown'
    BY DEF TypeOK, IdleKnown, InSeq
  <2> QED
    BY <2>1, <2>2, <2>3
<1>2. ASSUME CreateList(t) \/ CreateTail(t) \/ CreateLink(t) PROVE TypeInv'
  <2> USE <1>2 DEF CreateList, CreateTail, CreateLink, Runs, Goto, cpuVars, listVars
  <2>1. /\ all_threads' \in Seq(Threads) /\ torn' \in BOOLEAN
        /\ seen' \in [Threads -> Threads \cup {NULL}]
    BY CreateTypes DEF ArgOK
  <2>2. TypeOK'
    <3>1. pc' \in [Threads -> Places]
      <4>1. pc \in [Threads -> Places]
        BY DEF TypeOK
      <4>2. /\ "create_tail" \in Places /\ "create_link" \in Places
            /\ "create_unblock" \in Places
        BY DEF Places
      <4>3. \E p \in Places : pc' = [pc EXCEPT ![t] = p]
        BY <4>2
      <4> HIDE <1>2 DEF CreateList, CreateTail, CreateLink, Runs, Goto, listVars
      <4> QED
        BY <4>1, <4>3
    <3>2. UNCHANGED <<cpuVars, arg, saved, inTick, status, ready_threads, idle_thread,
                      tick_count, level>>
      OBVIOUS
    <3> HIDE <1>2 DEF CreateList, CreateTail, CreateLink, Runs, Goto, listVars
    <3> QED
      BY <2>1, <3>1, <3>2 DEF TypeOK
  <2>3. ArgOK' /\ IdlePlaces' /\ UnbornPlaces'
    <3>1. /\ pc[t] \in {"create_list", "create_tail", "create_link"}
          /\ \E p \in {"create_tail", "create_link", "create_unblock"} :
               pc' = [pc EXCEPT ![t] = p]
          /\ UNCHANGED <<arg, status>>
      OBVIOUS
    <3>2. pc \in [Threads -> Places]
      BY DEF TypeOK
    <3> HIDE <1>2 DEF CreateList, CreateTail, CreateLink, Runs, Goto, listVars
    <3> QED
      BY <3>1, <3>2 DEF ArgOK, IdlePlaces, UnbornPlaces
  <2>4. IdleKnown'
    BY DEF TypeOK, IdleKnown, InSeq
  <2> QED
    BY <2>2, <2>3, <2>4
<1>3. ASSUME CreateUnblock(t) PROVE TypeInv'
  <2> USE <1>3 DEF CreateUnblock, Runs, Return, Goto
  <2>1. arg[t] \in Threads
    BY DEF ArgOK
  <2>2. /\ panic' \in Panics /\ status' \in [Threads -> Status]
        /\ ready_threads' \in Seq(Threads)
        /\ \A v \in Threads : status'[v] = "unborn" => status[v] = "unborn"
        /\ \A v : InSeq(v, ready_threads) => InSeq(v, ready_threads')
    BY <2>1, UnblockTypes
  <2>3. TypeOK'
    BY <2>2 DEF TypeOK, Places
  <2>4. ArgOK' /\ IdlePlaces'
    BY DEF TypeOK, ArgOK, IdlePlaces
  <2>5. UnbornPlaces' /\ IdleKnown'
    BY <2>2 DEF TypeOK, UnbornPlaces, IdleKnown
  <2> QED
    BY <2>3, <2>4, <2>5
<1>4. ASSUME Run(t) PROVE TypeInv'
  <2> USE <1>4 DEF Run, Runs, Goto, listVars
  <2>1. TypeOK'
    BY DEF TypeOK, Places
  <2>2. ArgOK' /\ IdlePlaces' /\ UnbornPlaces'
    BY DEF TypeOK, ArgOK, IdlePlaces, UnbornPlaces
  <2>3. IdleKnown'
    BY DEF TypeOK, IdleKnown, InSeq
  <2> QED
    BY <2>1, <2>2, <2>3
<1>5. ASSUME RunSchedule(t) PROVE TypeInv'
  <2> USE <1>5 DEF RunSchedule, Runs, Goto
  <2>1. idle_thread = NULL => InSeq(Idle, ready_threads) /\ t # Idle
    BY DEF IdleKnown
  <2>2. Scheduled
    BY <2>1, ScheduleScheduled DEF TypeOK
  <2>3. TypeOK'
    BY <2>2 DEF TypeOK, Scheduled, Places
  <2>4. ArgOK' /\ IdlePlaces'
    BY DEF TypeOK, ArgOK, IdlePlaces
  <2>5. UnbornPlaces' /\ IdleKnown'
    BY <2>1, <2>2 DEF TypeOK, UnbornPlaces, IdleKnown, Scheduled
  <2> QED
    BY <2>3, <2>4, <2>5
<1>6. ASSUME IdleStart(t) PROVE TypeInv'
  <2> USE <1>6 DEF IdleStart, Runs, Goto, cpuVars
  <2>1. TypeOK'
    BY DEF TypeOK, Places, IdlePlaces
  <2>2. ArgOK' /\ IdlePlaces' /\ UnbornPlaces'
    BY DEF TypeOK, ArgOK, IdlePlaces, UnbornPlaces
  <2>3. IdleKnown'
    BY DEF TypeOK, IdleKnown
  <2> QED
    BY <2>1, <2>2, <2>3
<1>7. ASSUME IdleBlock(t) PROVE TypeInv'
  <2> USE <1>7 DEF IdleBlock, Runs, Goto
  <2>1. Scheduled
    BY BlockScheduled
  <2>2. TypeOK'
    BY <2>1 DEF TypeOK, Scheduled, Places
  <2>3. ArgOK' /\ IdlePlaces'
    BY DEF TypeOK, ArgOK, IdlePlaces
  <2>4. UnbornPlaces' /\ IdleKnown'
    BY <2>1 DEF TypeOK, UnbornPlaces, IdleKnown, IdlePlaces, Scheduled
  <2> QED
    BY <2>2, <2>3, <2>4
<1>8. ASSUME IdleHalt(t) PROVE TypeInv'
  <2> USE <1>8 DEF IdleHalt, Runs, Goto, listVars
  <2>1. TypeOK'
    BY DEF TypeOK, Places
  <2>2. ArgOK' /\ IdlePlaces' /\ UnbornPlaces'
    BY DEF TypeOK, ArgOK, IdlePlaces, UnbornPlaces
  <2>3. IdleKnown'
    BY DEF TypeOK, IdleKnown, InSeq
  <2> QED
    BY <2>1, <2>2, <2>3
<1> QED
  BY <1>1, <1>2, <1>3, <1>4, <1>5, <1>6, <1>7, <1>8

\* sema_up.
LEMMA SemaUpTypeInv ==
  ASSUME TypeInv, panic = "none", NEW t \in Threads, NEW s \in Semas,
         NEW p \in {"user", "idle_loop"}, SemaUp(t, s, p),
         current = t, pc[t] \notin {"none", "boot", "thread_init", "fresh", "idle"},
         p = "idle_loop" => t = Idle
  PROVE  TypeInv'
<1> USE DEF TypeInv
<1>1. /\ panic' \in Panics /\ status' \in [Threads -> Status]
      /\ ready_threads' \in Seq(Threads)
      /\ waiters' \in [Semas -> Seq(Threads)]
      /\ \A v \in Threads : status'[v] = "unborn" => status[v] = "unborn"
      /\ \A v : InSeq(v, ready_threads) => InSeq(v, ready_threads')
  <2>1. CASE waiters[s] = <<>>
    BY <2>1 DEF SemaUp, Wakes, TypeOK
  <2>2. CASE waiters[s] # <<>>
    <3>1. Head(waiters[s]) \in Threads /\ Tail(waiters[s]) \in Seq(Threads)
      BY <2>2, HeadTailProperties DEF TypeOK
    <3>2. /\ ThreadUnblock(Head(waiters[s]))
          /\ waiters' = [waiters EXCEPT ![s] = Tail(waiters[s])]
      BY <2>2 DEF SemaUp, Wakes, PoppedWaiters
    <3>3. waiters' \in [Semas -> Seq(Threads)]
      BY <3>1, <3>2 DEF TypeOK
    <3> QED
      BY <3>1, <3>2, <3>3, UnblockTypes
  <2> QED
    BY <2>1, <2>2
<1>2. /\ value' = [value EXCEPT ![s] = @ + 1] /\ Return(t, p)
      /\ UNCHANGED <<current, iflag, inService, inTick, seen, all_threads, idle_thread,
                     tick_count, torn, level, holder>>
  BY DEF SemaUp
<1>3. TypeOK'
  <2>1. value' \in [Semas -> Nat]
    BY <1>2 DEF TypeOK
  <2>2. /\ pc' \in [Threads -> Places] /\ saved' \in [Threads -> BOOLEAN]
        /\ arg' \in [Threads -> Threads \cup Semas \cup {NULL}]
    BY <1>2 DEF TypeOK, Places, Return, Goto
  <2>3. panic' = "none" => tick_count' < TIME_SLICE
    BY <1>2 DEF TypeOK
  <2> QED
    BY <1>1, <1>2, <2>1, <2>2, <2>3 DEF TypeOK
<1>4. ArgOK' /\ IdlePlaces'
  BY <1>2 DEF TypeOK, ArgOK, IdlePlaces, Return, Goto
<1>5. UnbornPlaces'
  BY <1>1, <1>2 DEF TypeOK, UnbornPlaces, Return, Goto
<1>6. IdleKnown'
  <2> SUFFICES ASSUME panic' = "none", idle_thread = NULL
               PROVE  /\ pc'[Idle] \in {"fresh", "idle"}
                      /\ current = Idle \/ InSeq(Idle, ready_threads')
    BY <1>2 DEF IdleKnown
  <2>1. \/ current = Kernel /\ pc[Kernel] \in {"boot", "thread_init"}
        \/ pc[Idle] \in {"fresh", "idle"} /\ (current = Idle \/ InSeq(Idle, ready_threads))
    BY DEF IdleKnown
  <2> QED
    BY <1>1, <1>2, <2>1 DEF TypeOK, Return, Goto
<1> QED
  BY <1>3, <1>4, <1>5, <1>6

\* A step that only moves threads in their calls and sets the interrupt level.
LEMMA CalledTypes ==
  ASSUME TypeOK,
         UNCHANGED <<current, inService, panic, inTick, seen, listVars, waiters, holder>>,
         iflag' \in BOOLEAN, value' \in [Semas -> Nat],
         pc' \in [Threads -> Places], saved' \in [Threads -> BOOLEAN],
         arg' \in [Threads -> Threads \cup Semas \cup {NULL}]
  PROVE  TypeOK'
  BY DEF TypeOK, listVars

\* One round of sema_down's loop.
LEMMA DownLoopTypeInv ==
  ASSUME TypeInv, panic = "none", NEW t \in Threads, current = t,
         pc[t] \in {"down", "wait"}, NEW lvl \in BOOLEAN, DownLoop(t, arg[t], lvl)
  PROVE  TypeInv'
<1> USE SynchAssumption, ThreadAssumption DEF TypeInv
<1> DEFINE s == arg[t]
<1>1. s \in Semas
  BY DEF ArgOK
<1>2. CASE value[s] > 0
  <2>1. /\ value' = [value EXCEPT ![s] = @ - 1] /\ iflag' = lvl /\ AfterDown(t, s)
        /\ UNCHANGED <<current, inService, panic, inTick, seen, listVars, waiters, holder>>
    BY <1>1, <1>2 DEF DownLoop, IntSet, TypeOK
  <2>2. /\ \/ pc' = [pc EXCEPT ![t] = "user"] /\ arg' = [arg EXCEPT ![t] = NULL]
           \/ s \in Locks /\ pc' = [pc EXCEPT ![t] = "acquired"] /\ UNCHANGED arg
        /\ saved' = [saved EXCEPT ![t] = FALSE]
    BY <2>1 DEF AfterDown, Return, Goto
  <2>3. value' \in [Semas -> Nat]
    BY <1>1, <1>2, <2>1 DEF TypeOK
  <2>4. TypeOK'
    <3>1. /\ pc' \in [Threads -> Places] /\ saved' \in [Threads -> BOOLEAN]
          /\ arg' \in [Threads -> Threads \cup Semas \cup {NULL}]
      BY <2>2 DEF TypeOK, Places
    <3>2. iflag' \in BOOLEAN
      BY <2>1
    <3> QED
      BY <2>1, <2>3, <3>1, <3>2, CalledTypes
  <2>5. ArgOK' /\ IdlePlaces' /\ UnbornPlaces'
    <3>1. ArgOK'
      <4>1. pc \in [Threads -> Places] /\ arg \in [Threads -> Threads \cup Semas \cup {NULL}]
        BY DEF TypeOK
      <4>2. ASSUME NEW u \in Threads, u # t PROVE pc'[u] = pc[u] /\ arg'[u] = arg[u]
        BY <2>2, <4>1, <4>2
      <4>3. pc'[t] = "user" \/ (pc'[t] = "acquired" /\ arg'[t] \in Locks)
        BY <2>2, <4>1
      <4> QED
        BY <4>2, <4>3 DEF ArgOK
    <3>2. IdlePlaces'
      BY <2>2 DEF TypeOK, IdlePlaces
    <3>3. UnbornPlaces'
      BY <2>1, <2>2 DEF TypeOK, UnbornPlaces, listVars
    <3> QED
      BY <3>1, <3>2, <3>3
  <2>6. IdleKnown'
    BY <2>1, <2>2 DEF TypeOK, IdleKnown, InSeq, listVars
  <2> QED
    BY <2>4, <2>5, <2>6
<1>3. CASE ~ (value[s] > 0)
  <2>1. /\ waiters' = [waiters EXCEPT ![s] = Append(@, t)]
        /\ ThreadBlock(t) /\ saved' = [saved EXCEPT ![t] = lvl]
        /\ pc' = [pc EXCEPT ![t] = "wait"]
        /\ UNCHANGED <<inService, arg, inTick, seen, idle_thread, level, value, holder>>
    BY <1>3 DEF DownLoop, Goto
  <2>2. Scheduled
    BY <2>1, BlockScheduled
  <2>3. waiters' \in [Semas -> Seq(Threads)]
    BY <1>1, <2>1, AppendSeq DEF TypeOK
  <2>4. TypeOK'
    BY <2>1, <2>2, <2>3 DEF TypeOK, Scheduled, Places
  <2>5. ArgOK' /\ IdlePlaces'
    BY <1>1, <2>1 DEF TypeOK, ArgOK, IdlePlaces
  <2>6. UnbornPlaces' /\ IdleKnown'
    BY <2>1, <2>2 DEF TypeOK, UnbornPlaces, IdleKnown, Scheduled
  <2> QED
    BY <2>4, <2>5, <2>6
<1> QED
  BY <1>2, <1>3

\* Semaphores and locks.
LEMMA SynchTypeInv ==
  ASSUME TypeInv, NEW t \in Threads,
         \/ \E s \in Semas : CallDown(t, s) \/ CallUp(t, s)
         \/ \E l \in Locks : LockAcquire(t, l) \/ LockRelease(t, l)
         \/ SemaDown(t) \/ SemaDownResume(t) \/ IdleUp(t)
         \/ LockAcquired(t) \/ LockReleased(t)
  PROVE  TypeInv'
<1> USE ThreadAssumption, SynchAssumption DEF TypeInv
<1>1. ASSUME NEW s \in Semas, CallDown(t, s) PROVE TypeInv'
  <2> USE <1>1 DEF CallDown, Runs, Goto, cpuVars, listVars, synchVars
  <2>1. TypeOK'
    BY DEF TypeOK, Places
  <2>2. ArgOK' /\ IdlePlaces' /\ UnbornPlaces'
    BY DEF TypeOK, ArgOK, IdlePlaces, UnbornPlaces
  <2>3. IdleKnown'
    BY DEF TypeOK, IdleKnown, InSeq
  <2> QED
    BY <2>1, <2>2, <2>3
<1>2. ASSUME NEW s \in Semas, CallUp(t, s) PROVE TypeInv'
  BY <1>2, SemaUpTypeInv DEF CallUp, Runs
<1>3. ASSUME NEW l \in Locks, LockAcquire(t, l) PROVE TypeInv'
  <2> USE <1>3 DEF Runs, Goto, listVars, synchVars
  <2>1. CASE holder[l] = t
    <3>1. /\ panic' \in Panics /\ panic' # "none" /\ iflag' = FALSE
          /\ UNCHANGED <<current, inService, saved, inTick, seen, listVars, synchVars, pc, arg>>
      BY <2>1 DEF LockAcquire, Panics
    <3>2. TypeOK'
      BY <3>1 DEF TypeOK
    <3>3. ArgOK' /\ IdlePlaces' /\ UnbornPlaces' /\ IdleKnown'
      BY <3>1 DEF ArgOK, IdlePlaces, UnbornPlaces, IdleKnown
    <3> QED
      BY <3>2, <3>3
  <2>2. CASE ~ (holder[l] = t)
    <3>1. /\ pc' = [pc EXCEPT ![t] = "down"] /\ arg' = [arg EXCEPT ![t] = l]
          /\ UNCHANGED holder
          /\ UNCHANGED <<current, inService, saved, inTick, seen, listVars, value, waiters,
                         panic, iflag>>
      BY <2>2 DEF LockAcquire
    <3>2. TypeOK'
      BY <3>1 DEF TypeOK, Places
    <3>3. ArgOK'
      BY <3>1 DEF TypeOK, ArgOK
    <3>4. IdlePlaces' /\ UnbornPlaces'
      BY <3>1 DEF TypeOK, IdlePlaces, UnbornPlaces, LockAcquire
    <3>5. IdleKnown'
      BY <3>1 DEF TypeOK, IdleKnown, InSeq, LockAcquire
    <3> QED
      BY <3>2, <3>3, <3>4, <3>5
  <2> QED
    BY <2>1, <2>2
<1>4. ASSUME NEW l \in Locks, LockRelease(t, l) PROVE TypeInv'
  <2> USE <1>4 DEF Runs, Goto, listVars, synchVars
  <2>1. CASE holder[l] # t
    <3>1. /\ panic' \in Panics /\ panic' # "none" /\ iflag' = FALSE
          /\ UNCHANGED <<current, inService, saved, inTick, seen, listVars, synchVars, pc, arg>>
      BY <2>1 DEF LockRelease, Panics
    <3>2. TypeOK'
      BY <3>1 DEF TypeOK
    <3>3. ArgOK' /\ IdlePlaces' /\ UnbornPlaces' /\ IdleKnown'
      BY <3>1 DEF ArgOK, IdlePlaces, UnbornPlaces, IdleKnown
    <3> QED
      BY <3>2, <3>3
  <2>2. CASE ~ (holder[l] # t)
    <3>1. /\ pc' = [pc EXCEPT ![t] = "release"] /\ arg' = [arg EXCEPT ![t] = l]
          /\ holder' = [holder EXCEPT ![l] = NULL]
          /\ UNCHANGED <<current, inService, saved, inTick, seen, listVars, value, waiters,
                         panic, iflag>>
      BY <2>2 DEF LockRelease
    <3>2. TypeOK'
      BY <3>1 DEF TypeOK, Places
    <3>3. ArgOK'
      BY <3>1 DEF TypeOK, ArgOK
    <3>4. IdlePlaces' /\ UnbornPlaces'
      BY <3>1 DEF TypeOK, IdlePlaces, UnbornPlaces, LockRelease
    <3>5. IdleKnown'
      BY <3>1 DEF TypeOK, IdleKnown, InSeq, LockRelease
    <3> QED
      BY <3>2, <3>3, <3>4, <3>5
  <2> QED
    BY <2>1, <2>2
<1>5. ASSUME SemaDown(t) \/ SemaDownResume(t) PROVE TypeInv'
  <2>1. iflag \in BOOLEAN /\ saved[t] \in BOOLEAN
    BY DEF TypeOK
  <2> QED
    BY <1>5, <2>1, DownLoopTypeInv DEF SemaDown, SemaDownResume, Runs
<1>6. ASSUME IdleUp(t) PROVE TypeInv'
  BY <1>6, SemaUpTypeInv DEF IdleUp, Runs, IdlePlaces
<1>7. ASSUME LockAcquired(t) PROVE TypeInv'
  <2> USE <1>7 DEF LockAcquired, Runs, Return, Goto, cpuVars, listVars
  <2>1. TypeOK'
    BY DEF TypeOK, Places, ArgOK
  <2>2. ArgOK' /\ IdlePlaces' /\ UnbornPlaces'
    BY DEF TypeOK, ArgOK, IdlePlaces, UnbornPlaces
  <2>3. IdleKnown'
    BY DEF TypeOK, IdleKnown, InSeq
  <2> QED
    BY <2>1, <2>2, <2>3
<1>8. ASSUME LockReleased(t) PROVE TypeInv'
  <2>1. arg[t] \in Semas
    BY <1>8 DEF LockReleased, Runs, ArgOK
  <2> QED
    BY <1>8, <2>1, SemaUpTypeInv DEF LockReleased, Runs
<1> QED
  BY <1>1, <1>2, <1>3, <1>4, <1>5, <1>6, <1>7, <1>8

\* Every step keeps the invariant.
LEMMA NextTypeInv == TypeInv /\ [Next]_vars => TypeInv'
<1> SUFFICES ASSUME TypeInv, [Next]_vars PROVE TypeInv'
  OBVIOUS
<1>1. CASE UNCHANGED vars
  BY <1>1 DEF vars, threadVars, cpuVars, callVars, listVars, synchVars,
              TypeInv, TypeOK, ArgOK, IdlePlaces, UnbornPlaces, IdleKnown, InSeq
<1>2. CASE Boot \/ Irq \/ Resume
  BY <1>2, BootTypeInv, IrqTypeInv
<1>3. ASSUME NEW t \in Threads, Call(t) PROVE TypeInv'
  BY <1>3, ThreadCallTypeInv, SynchTypeInv DEF Call
<1>4. ASSUME NEW t \in Threads, Continue(t) PROVE TypeInv'
  BY <1>4, ThreadContinueTypeInv, SynchTypeInv DEF Continue
<1> QED
  BY <1>1, <1>2, <1>3, <1>4 DEF Next, Compute, Halted

\* Every variable keeps its type, whatever the threads call and whenever the
\* timer ticks: get_next_thread always has a thread to give, also in the window
\* in which idle_thread is not yet set.
THEOREM TypeCorrect == Spec => []TypeOK
<1>1. Spec => []TypeInv
  BY InitTypeInv, NextTypeInv, PTL DEF Spec
<1>2. TypeInv => TypeOK
  BY DEF TypeInv
<1> QED
  BY <1>1, <1>2, PTL

-------------------------------------------------------------------------------
(* Locks: they exclude each other and implement Mutex, for any number of   *)
(* threads and locks.  The argument does not look at the ready queue or at *)
(* waiting lists: it only needs that a lock's semaphore is touched by      *)
(* nothing but lock_accquire and lock_release.                             *)

\* The unit of a lock is in its semaphore or with exactly one thread; a thread
\* that is on its way to give it back is no longer the holder.
LockInv ==
  \A l \in Locks :
    /\ value[l] = 1 => \A t \in Threads : ~ Owns(t, l)
    /\ value[l] # 1 =>
         value[l] = 0 /\ \E t \in Threads : \A u \in Threads : Owns(u, l) <=> u = t
    /\ \A t \in Threads : pc[t] = "release" /\ arg[t] = l => holder[l] # t

LEMMA InitLockInv == Init => LockInv
  BY ThreadAssumption, SynchAssumption DEF Init, SynchInit, LockInv, Owns

\* Steps that leave the locks alone: no value or holder of a lock changes, and
\* nobody comes or goes between.
LockFrame ==
  /\ \A l \in Locks : value'[l] = value[l] /\ holder'[l] = holder[l]
  /\ \A t \in Threads :
       \/ pc'[t] = pc[t] /\ arg'[t] = arg[t]
       \/ pc[t] \notin {"acquired", "release"} /\ pc'[t] \notin {"acquired", "release"}

LEMMA FrameLockInv ==
  ASSUME LockInv, LockFrame
  PROVE  LockInv' /\ \A t \in Threads, l \in Locks : Owns(t, l)' <=> Owns(t, l)
<1>1. \A t \in Threads, l \in Locks : Owns(t, l)' <=> Owns(t, l)
  BY DEF LockFrame, Owns
<1>2. \A t \in Threads, l \in Locks :
        (pc[t] = "release" /\ arg[t] = l)' <=> (pc[t] = "release" /\ arg[t] = l)
  BY DEF LockFrame
<1>3. ASSUME NEW l \in Locks
      PROVE  /\ (value[l] = 1 => \A t \in Threads : ~ Owns(t, l))'
             /\ (value[l] # 1 =>
                  value[l] = 0 /\ \E t \in Threads : \A u \in Threads : Owns(u, l) <=> u = t)'
             /\ (\A t \in Threads : pc[t] = "release" /\ arg[t] = l => holder[l] # t)'
  <2>1. value'[l] = value[l] /\ holder'[l] = holder[l]
    BY DEF LockFrame
  <2>2. /\ value[l] = 1 => \A t \in Threads : ~ Owns(t, l)
        /\ value[l] # 1 =>
             value[l] = 0 /\ \E t \in Threads : \A u \in Threads : Owns(u, l) <=> u = t
        /\ \A t \in Threads : pc[t] = "release" /\ arg[t] = l => holder[l] # t
    BY DEF LockInv
  <2> HIDE DEF Owns
  <2> QED
    BY <1>1, <1>2, <2>1, <2>2
<1> QED
  BY <1>1, <1>3 DEF LockInv

-------------------------------------------------------------------------------
(* What a step does to the owners. *)

OwnersKept == \A u \in Threads, m \in Locks : Owns(u, m)' <=> Owns(u, m)

Takes(t, l) ==
  /\ \A u \in Threads : ~ Owns(u, l)
  /\ \A u \in Threads, m \in Locks : Owns(u, m)' <=> Owns(u, m) \/ (u = t /\ m = l)

Gives(t, l) ==
  /\ Owns(t, l)
  /\ \A u \in Threads, m \in Locks : Owns(u, m)' <=> Owns(u, m) /\ ~ (u = t /\ m = l)

OwnerStep ==
  OwnersKept \/ \E t \in Threads, l \in Locks : Takes(t, l) \/ Gives(t, l)

\* Threads, the timer and the boot code leave the locks alone.
LEMMA ThreadsFrame ==
  ASSUME TypeInv, NEW t \in Threads, UNCHANGED synchVars,
         \/ SoftwareTick(t) \/ IntDisable(t) \/ IntEnable(t) \/ CallYield(t)
         \/ \E new \in Threads \ {Idle} : CreatePage(t, new)
         \/ RunReturn(t)
         \/ YieldReturn(t) \/ CreateList(t) \/ CreateTail(t) \/ CreateLink(t) \/ CreateUnblock(t)
         \/ Run(t) \/ RunSchedule(t)
         \/ IdleStart(t) \/ IdleBlock(t) \/ IdleHalt(t)
         \/ HardwareTick \/ OtherIrq \/ TickReturn(t)
  PROVE  LockFrame
<1>1. pc \in [Threads -> Places] /\ arg \in [Threads -> Threads \cup Semas \cup {NULL}]
  BY DEF TypeInv, TypeOK
<1>2. current \in Threads
  BY DEF TypeInv, TypeOK
<1>3. CASE SoftwareTick(t) \/ HardwareTick
  BY <1>1, <1>2, <1>3 DEF SoftwareTick, HardwareTick, TimerHandler, Woken, Goto, Runs,
                          LockFrame, synchVars
<1>4. CASE IntDisable(t) \/ IntEnable(t) \/ TickReturn(t) \/ OtherIrq
  BY <1>1, <1>2, <1>4 DEF IntDisable, IntEnable, TickReturn, OtherIrq, Woken, Goto, Runs,
                          callVars, LockFrame, synchVars
<1>5. CASE CallYield(t) \/ YieldReturn(t)
  BY <1>1, <1>5 DEF CallYield, YieldReturn, Return, Goto, Runs, LockFrame, synchVars
<1>6. ASSUME NEW new \in Threads, CreatePage(t, new) PROVE LockFrame
  <2>1. pc[new] \in {"none", "boot", "thread_init"}
    BY <1>6 DEF CreatePage, TypeInv, UnbornPlaces
  <2> QED
    BY <1>1, <1>6, <2>1 DEF CreatePage, Runs, LockFrame, synchVars
<1>7. CASE CreateList(t) \/ CreateTail(t) \/ CreateLink(t) \/ CreateUnblock(t)
  BY <1>1, <1>7 DEF CreateList, CreateTail, CreateLink, CreateUnblock, Return, Goto, Runs, LockFrame, synchVars
<1>8. CASE Run(t) \/ RunReturn(t) \/ RunSchedule(t)
  BY <1>1, <1>8 DEF Run, RunReturn, RunSchedule, Goto, Runs, LockFrame, synchVars
<1>9. CASE IdleStart(t) \/ IdleBlock(t) \/ IdleHalt(t)
  BY <1>1, <1>9 DEF IdleStart, IdleBlock, IdleHalt, Goto, Runs, LockFrame, synchVars
<1> QED
  BY <1>3, <1>4, <1>5, <1>6, <1>7, <1>8, <1>9

\* While boot() has not called thread_init, there is no thread.
BootInv ==
  pc[Kernel] \in {"boot", "thread_init"} =>
    current = Kernel /\ \A t \in Threads : status[t] = "unborn"

\* A thread that is past the boot code has the CPU, and stays past it.
LEMMA PastBoot ==
  ASSUME TypeInv, NEW t \in Threads, Call(t) \/ Continue(t)
  PROVE  /\ current = t /\ pc[t] \notin {"boot", "thread_init"}
         /\ pc'[Kernel] \in {"boot", "thread_init"} => pc[Kernel] \in {"boot", "thread_init"}
<1>1. pc \in [Threads -> Places] /\ Kernel \in Threads /\ current \in Threads
  BY ThreadAssumption DEF TypeInv, TypeOK
<1> USE <1>1 DEF Runs, Goto, Return
<1>2. CASE SoftwareTick(t)
  BY <1>2 DEF SoftwareTick, TimerHandler, Woken
<1>3. CASE IntDisable(t) \/ IntEnable(t) \/ CallYield(t) \/ RunReturn(t)
  BY <1>3 DEF IntDisable, IntEnable, CallYield, RunReturn, callVars
<1>4. ASSUME NEW new \in Threads, CreatePage(t, new)
      PROVE  /\ current = t /\ pc[t] \notin {"boot", "thread_init"}
             /\ pc'[Kernel] \in {"boot", "thread_init"} => pc[Kernel] \in {"boot", "thread_init"}
  BY <1>4 DEF CreatePage
<1>5. CASE YieldReturn(t) \/ CreateList(t) \/ CreateTail(t) \/ CreateLink(t) \/ CreateUnblock(t) \/ Run(t) \/ RunSchedule(t)
  BY <1>5 DEF YieldReturn, CreateList, CreateTail, CreateLink, CreateUnblock, Run, RunSchedule
<1>6. CASE IdleStart(t) \/ IdleBlock(t) \/ IdleHalt(t)
  BY <1>6 DEF IdleStart, IdleBlock, IdleHalt
<1>7. ASSUME NEW s, CallDown(t, s) \/ CallUp(t, s)
      PROVE  /\ current = t /\ pc[t] \notin {"boot", "thread_init"}
             /\ pc'[Kernel] \in {"boot", "thread_init"} => pc[Kernel] \in {"boot", "thread_init"}
  BY <1>7 DEF CallDown, CallUp, SemaUp
<1>8. ASSUME NEW l, LockAcquire(t, l) \/ LockRelease(t, l)
      PROVE  /\ current = t /\ pc[t] \notin {"boot", "thread_init"}
             /\ pc'[Kernel] \in {"boot", "thread_init"} => pc[Kernel] \in {"boot", "thread_init"}
  BY <1>8 DEF LockAcquire, LockRelease
<1>9. CASE SemaDown(t) \/ SemaDownResume(t)
  BY <1>9 DEF SemaDown, SemaDownResume, DownLoop, AfterDown
<1>10. CASE IdleUp(t) \/ LockAcquired(t) \/ LockReleased(t)
  BY <1>10 DEF IdleUp, LockAcquired, LockReleased, SemaUp
<1> QED
  BY <1>2, <1>3, <1>4, <1>5, <1>6, <1>7, <1>8, <1>9, <1>10 DEF Call, Continue

LEMMA NextBootInv == TypeInv /\ BootInv /\ [Next]_vars => BootInv'
<1> SUFFICES ASSUME TypeInv, BootInv, [Next]_vars PROVE BootInv'
  OBVIOUS
<1>1. pc \in [Threads -> Places] /\ Kernel \in Threads /\ current \in Threads
  BY ThreadAssumption DEF TypeInv, TypeOK
<1>2. CASE UNCHANGED vars
  BY <1>2 DEF BootInv, vars, threadVars, cpuVars, callVars, listVars
<1>3. CASE Boot
  BY <1>1, <1>3, ThreadAssumption DEF Boot, IdtInit, ThreadInit, Runs, Goto, BootInv, listVars
<1>4. CASE HardwareTick
  BY <1>1, <1>4 DEF HardwareTick, TimerHandler, Woken, Goto, BootInv, listVars
<1>5. CASE OtherIrq \/ Resume
  BY <1>1, <1>5 DEF OtherIrq, Resume, TickReturn, Woken, Goto, BootInv, cpuVars, listVars
<1>6. ASSUME NEW t \in Threads, Call(t) \/ Continue(t) PROVE BootInv'
  BY <1>6, PastBoot DEF BootInv
<1> QED
  BY <1>2, <1>3, <1>4, <1>5, <1>6 DEF Next, Irq, Compute, Halted

LEMMA BootFrame == TypeInv /\ BootInv /\ Boot => LockFrame
<1> SUFFICES ASSUME TypeInv, BootInv, Boot PROVE LockFrame
  OBVIOUS
<1>1. /\ pc \in [Threads -> Places] /\ Kernel \in Threads /\ Idle \in Threads
      /\ arg \in [Threads -> Threads \cup Semas \cup {NULL}]
  BY ThreadAssumption DEF TypeInv, TypeOK
<1>2. CASE IdtInit
  BY <1>1, <1>2 DEF IdtInit, Runs, Goto, LockFrame, synchVars
<1>3. CASE ThreadInit
  <2>1. pc[Idle] \in {"none", "boot", "thread_init"}
    BY <1>1, <1>3 DEF ThreadInit, Runs, BootInv, TypeInv, UnbornPlaces
  <2> QED
    BY <1>1, <1>3, <2>1 DEF ThreadInit, Runs, LockFrame, synchVars
<1> QED
  BY <1>2, <1>3 DEF Boot

-------------------------------------------------------------------------------
(* The steps of synch.c. *)

\* sema_up of a semaphore that is no lock's leaves the locks alone.
LEMMA UpFrame ==
  ASSUME TypeInv, NEW t \in Threads, NEW s \in Semas \ Locks, NEW p, SemaUp(t, s, p),
         pc[t] \notin {"acquired", "release"}, p \notin {"acquired", "release"}
  PROVE  LockFrame
<1>1. /\ value \in [Semas -> Nat] /\ pc \in [Threads -> Places]
      /\ arg \in [Threads -> Threads \cup Semas \cup {NULL}] /\ Locks \subseteq Semas
  BY SynchAssumption DEF TypeInv, TypeOK
<1> QED
  BY <1>1 DEF SemaUp, Return, Goto, LockFrame

\* The end of lock_release: the unit goes back.
LEMMA ReleasedGives ==
  ASSUME TypeInv, LockInv, NEW t \in Threads, LockReleased(t)
  PROVE  LockInv' /\ Gives(t, arg[t])
<1> DEFINE l == arg[t]
<1>1. /\ value \in [Semas -> Nat] /\ pc \in [Threads -> Places]
      /\ arg \in [Threads -> Threads \cup Semas \cup {NULL}]
      /\ Locks \subseteq Semas /\ NULL \notin Semas /\ l \in Locks /\ pc[t] = "release"
  BY SynchAssumption DEF TypeInv, TypeOK, ArgOK, LockReleased, Runs
<1>2. /\ value' = [value EXCEPT ![l] = @ + 1] /\ holder' = holder
      /\ pc' = [pc EXCEPT ![t] = "user"] /\ arg' = [arg EXCEPT ![t] = NULL]
  BY DEF LockReleased, SemaUp, Return, Goto
<1>3. Owns(t, l) /\ holder[l] # t
  BY <1>1 DEF Owns, LockInv
<1>4. value[l] = 0 /\ \A u \in Threads : Owns(u, l) <=> u = t
  BY <1>1, <1>3 DEF LockInv
<1>5. \A u \in Threads, m \in Locks : Owns(u, m)' <=> Owns(u, m) /\ ~ (u = t /\ m = l)
  BY <1>1, <1>2, <1>3 DEF Owns
<1>6. \A m \in Locks : value'[m] = IF m = l THEN 1 ELSE value[m]
  BY <1>1, <1>2, <1>4
<1>7. \A u \in Threads, m \in Locks :
        pc'[u] = "release" /\ arg'[u] = m => pc[u] = "release" /\ arg[u] = m
  BY <1>1, <1>2
<1>8. ASSUME NEW m \in Locks
      PROVE  /\ (value[m] = 1 => \A u \in Threads : ~ Owns(u, m))'
             /\ (value[m] # 1 =>
                  value[m] = 0 /\ \E u \in Threads : \A v \in Threads : Owns(v, m) <=> u = v)'
             /\ (\A u \in Threads : pc[u] = "release" /\ arg[u] = m => holder[m] # u)'
  <2>1. /\ value[m] = 1 => \A u \in Threads : ~ Owns(u, m)
        /\ value[m] # 1 =>
             value[m] = 0 /\ \E u \in Threads : \A v \in Threads : Owns(v, m) <=> v = u
        /\ \A u \in Threads : pc[u] = "release" /\ arg[u] = m => holder[m] # u
    BY DEF LockInv
  <2> QED
    BY <1>2, <1>4, <1>5, <1>6, <1>7, <2>1
<1> QED
  BY <1>3, <1>5, <1>8 DEF LockInv, Gives

\* lock_accquire writes holder: the owner stays.
LEMMA AcquiredKeeps ==
  ASSUME TypeInv, LockInv, NEW t \in Threads, LockAcquired(t)
  PROVE  LockInv' /\ OwnersKept
<1>0. PICK l \in Locks : l = arg[t] /\ pc[t] = "acquired"
  BY DEF TypeInv, ArgOK, LockAcquired, Runs
<1>1. /\ value \in [Semas -> Nat] /\ pc \in [Threads -> Places]
      /\ arg \in [Threads -> Threads \cup Semas \cup {NULL}]
      /\ holder \in [Locks -> Threads \cup {NULL}]
      /\ Locks \subseteq Semas /\ NULL \notin Semas /\ NULL \notin Threads
      /\ l = arg[t] /\ pc[t] = "acquired"
  BY <1>0, ThreadAssumption, SynchAssumption DEF TypeInv, TypeOK
<1>2. /\ value' = value /\ holder' = [holder EXCEPT ![l] = t]
      /\ pc' = [pc EXCEPT ![t] = "user"] /\ arg' = [arg EXCEPT ![t] = NULL]
  BY <1>0 DEF LockAcquired, Return, Goto
<1>3. Owns(t, l)
  BY <1>1 DEF Owns
<1>4. value[l] = 0 /\ \A u \in Threads : Owns(u, l) <=> u = t
  BY <1>1, <1>3 DEF LockInv
<1>5. \A u \in Threads, m \in Locks : Owns(u, m)' <=> Owns(u, m)
  <2>1. ASSUME NEW u \in Threads PROVE Owns(u, l)' <=> Owns(u, l)
    <3>1. CASE u = t
      BY <1>1, <1>2, <1>3, <3>1 DEF Owns
    <3>2. CASE u # t
      BY <1>1, <1>2, <1>4, <3>2 DEF Owns
    <3> QED
      BY <3>1, <3>2
  <2>2. ASSUME NEW u \in Threads, NEW m \in Locks, m # l PROVE Owns(u, m)' <=> Owns(u, m)
    BY <1>1, <1>2, <2>2 DEF Owns
  <2> QED
    BY <2>1, <2>2
<1>6. \A u \in Threads, m \in Locks :
        pc'[u] = "release" /\ arg'[u] = m =>
          pc[u] = "release" /\ arg[u] = m /\ holder'[m] # u
  <2> SUFFICES ASSUME NEW u \in Threads, NEW m \in Locks, pc'[u] = "release", arg'[u] = m
               PROVE  pc[u] = "release" /\ arg[u] = m /\ holder'[m] # u
    OBVIOUS
  <2>1. u # t /\ pc[u] = "release" /\ arg[u] = m
    BY <1>1, <1>2
  <2>2. holder[m] # u
    BY <2>1 DEF LockInv
  <2> QED
    BY <1>1, <1>2, <2>1, <2>2
<1>8. ASSUME NEW m \in Locks
      PROVE  /\ (value[m] = 1 => \A u \in Threads : ~ Owns(u, m))'
             /\ (value[m] # 1 =>
                  value[m] = 0 /\ \E u \in Threads : \A v \in Threads : Owns(v, m) <=> v = u)'
             /\ (\A u \in Threads : pc[u] = "release" /\ arg[u] = m => holder[m] # u)'
  <2>1. /\ value[m] = 1 => \A u \in Threads : ~ Owns(u, m)
        /\ value[m] # 1 =>
             value[m] = 0 /\ \E u \in Threads : \A v \in Threads : Owns(v, m) <=> v = u
        /\ \A u \in Threads : pc[u] = "release" /\ arg[u] = m => holder[m] # u
    BY DEF LockInv
  <2> QED
    BY <1>2, <1>5, <1>6, <2>1
<1> QED
  BY <1>5, <1>8 DEF LockInv, OwnersKept

\* lock_release clears holder: the owner stays until its sema_up.
LEMMA ReleaseKeeps ==
  ASSUME TypeInv, LockInv, NEW t \in Threads, NEW l \in Locks, LockRelease(t, l)
  PROVE  LockInv' /\ OwnersKept
<1>1. /\ value \in [Semas -> Nat] /\ pc \in [Threads -> Places]
      /\ arg \in [Threads -> Threads \cup Semas \cup {NULL}]
      /\ holder \in [Locks -> Threads \cup {NULL}]
      /\ Locks \subseteq Semas /\ NULL \notin Semas /\ NULL \notin Threads
      /\ pc[t] = "user"
  BY ThreadAssumption, SynchAssumption DEF TypeInv, TypeOK, LockRelease, Runs
<1>2. CASE holder[l] # t
  <2>1. LockFrame
    BY <1>2 DEF LockRelease, LockFrame
  <2> QED
    BY <2>1, FrameLockInv DEF OwnersKept
<1>3. CASE holder[l] = t
  <2>1. /\ value' = value /\ holder' = [holder EXCEPT ![l] = NULL]
        /\ pc' = [pc EXCEPT ![t] = "release"] /\ arg' = [arg EXCEPT ![t] = l]
    BY <1>3 DEF LockRelease, Goto
  <2>2. \A u \in Threads, m \in Locks : Owns(u, m)' <=> Owns(u, m)
    <3>1. ASSUME NEW m \in Locks PROVE Owns(t, m)' <=> Owns(t, m)
      BY <1>1, <1>3, <2>1 DEF Owns
    <3>2. ASSUME NEW u \in Threads, NEW m \in Locks, u # t PROVE Owns(u, m)' <=> Owns(u, m)
      BY <1>1, <1>3, <2>1, <3>2 DEF Owns
    <3> QED
      BY <3>1, <3>2
  <2>3. \A u \in Threads, m \in Locks :
          pc'[u] = "release" /\ arg'[u] = m => holder'[m] # u
    <3> SUFFICES ASSUME NEW u \in Threads, NEW m \in Locks, pc'[u] = "release", arg'[u] = m
                 PROVE  holder'[m] # u
      OBVIOUS
    <3>1. CASE u = t
      BY <1>1, <2>1, <3>1
    <3>2. CASE u # t
      <4>1. holder[m] # u
        BY <1>1, <2>1, <3>2 DEF LockInv
      <4> QED
        BY <1>1, <2>1, <4>1
    <3> QED
      BY <3>1, <3>2
  <2>8. ASSUME NEW m \in Locks
        PROVE  /\ (value[m] = 1 => \A u \in Threads : ~ Owns(u, m))'
               /\ (value[m] # 1 =>
                    value[m] = 0 /\ \E u \in Threads : \A v \in Threads : Owns(v, m) <=> v = u)'
               /\ (\A u \in Threads : pc[u] = "release" /\ arg[u] = m => holder[m] # u)'
    <3>1. /\ value[m] = 1 => \A u \in Threads : ~ Owns(u, m)
          /\ value[m] # 1 =>
               value[m] = 0 /\ \E u \in Threads : \A v \in Threads : Owns(v, m) <=> v = u
          /\ \A u \in Threads : pc[u] = "release" /\ arg[u] = m => holder[m] # u
      BY DEF LockInv
    <3> QED
      BY <2>1, <2>2, <2>3, <3>1
  <2> QED
    BY <2>2, <2>8 DEF LockInv, OwnersKept
<1> QED
  BY <1>2, <1>3

\* One round of sema_down: of a lock, it takes the unit when there is one.
LEMMA DownTakes ==
  ASSUME TypeInv, LockInv, NEW t \in Threads, pc[t] \in {"down", "wait"},
         NEW lvl, DownLoop(t, arg[t], lvl)
  PROVE  LockInv' /\ (OwnersKept \/ \E l \in Locks : Takes(t, l))
<1> DEFINE l == arg[t]
<1>1. /\ value \in [Semas -> Nat] /\ pc \in [Threads -> Places]
      /\ arg \in [Threads -> Threads \cup Semas \cup {NULL}]
      /\ holder \in [Locks -> Threads \cup {NULL}]
      /\ Locks \subseteq Semas /\ NULL \notin Semas /\ NULL \notin Threads
      /\ l \in Semas
  BY ThreadAssumption, SynchAssumption DEF TypeInv, TypeOK, ArgOK
<1>2. CASE ~ (value[l] > 0 /\ l \in Locks)
  <2>1. LockFrame
    <3>1. CASE value[l] > 0
      BY <1>1, <1>2, <3>1 DEF DownLoop, AfterDown, Return, Goto, LockFrame
    <3>2. CASE ~ (value[l] > 0)
      BY <1>1, <3>2 DEF DownLoop, Goto, LockFrame
    <3> QED
      BY <3>1, <3>2
  <2> QED
    BY <2>1, FrameLockInv DEF OwnersKept
<1>3. CASE value[l] > 0 /\ l \in Locks
  <2>1. /\ value' = [value EXCEPT ![l] = @ - 1] /\ holder' = holder
        /\ pc' = [pc EXCEPT ![t] = "acquired"] /\ arg' = arg
    BY <1>1, <1>3 DEF DownLoop, AfterDown, Goto
  <2>2. value[l] = 1 /\ \A u \in Threads : ~ Owns(u, l)
    BY <1>1, <1>3 DEF LockInv
  <2>3. \A u \in Threads, m \in Locks : Owns(u, m)' <=> Owns(u, m) \/ (u = t /\ m = l)
    BY <1>1, <2>1 DEF Owns
  <2>4. \A m \in Locks : value'[m] = IF m = l THEN 0 ELSE value[m]
    BY <1>1, <1>3, <2>1, <2>2
  <2>5. \A u \in Threads, m \in Locks :
          pc'[u] = "release" /\ arg'[u] = m => pc[u] = "release" /\ arg[u] = m
    BY <1>1, <2>1
  <2>8. ASSUME NEW m \in Locks
        PROVE  /\ (value[m] = 1 => \A u \in Threads : ~ Owns(u, m))'
               /\ (value[m] # 1 =>
                    value[m] = 0 /\ \E u \in Threads : \A v \in Threads : Owns(v, m) <=> v = u)'
               /\ (\A u \in Threads : pc[u] = "release" /\ arg[u] = m => holder[m] # u)'
    <3>1. /\ value[m] = 1 => \A u \in Threads : ~ Owns(u, m)
          /\ value[m] # 1 =>
               value[m] = 0 /\ \E u \in Threads : \A v \in Threads : Owns(v, m) <=> v = u
          /\ \A u \in Threads : pc[u] = "release" /\ arg[u] = m => holder[m] # u
      BY DEF LockInv
    <3> QED
      BY <2>1, <2>2, <2>3, <2>4, <2>5, <3>1
  <2> QED
    BY <1>3, <2>2, <2>3, <2>8 DEF LockInv, Takes
<1> QED
  BY <1>2, <1>3

-------------------------------------------------------------------------------
(* The theorems. *)

LockTypeInv == TypeInv /\ BootInv /\ LockInv

\* Every step keeps the lock invariant, and keeps the owners, adds one to a free
\* lock or takes it away.
LEMMA NextLockInv ==
  ASSUME LockTypeInv, [Next]_vars
  PROVE  LockInv' /\ OwnerStep
<1> USE DEF LockTypeInv
<1>1. ASSUME LockFrame PROVE LockInv' /\ OwnerStep
  BY <1>1, FrameLockInv DEF OwnerStep, OwnersKept
<1>2. CASE UNCHANGED vars
  <2>1. LockFrame
    BY <1>2 DEF LockFrame, vars, threadVars, callVars, synchVars
  <2> QED
    BY <1>1, <2>1
<1>3. CASE Boot
  BY <1>1, <1>3, BootFrame
<1>4. CASE Irq \/ Resume
  <2>1. Kernel \in Threads
    BY ThreadAssumption
  <2> QED
    BY <1>1, <1>4, <2>1, ThreadsFrame DEF Irq, Resume
<1>5. ASSUME NEW t \in Threads, Call(t) PROVE LockInv' /\ OwnerStep
  <2>1. ASSUME NEW s \in Semas, CallDown(t, s) PROVE LockFrame
    <3>1. /\ pc \in [Threads -> Places]
          /\ arg \in [Threads -> Threads \cup Semas \cup {NULL}]
      BY DEF TypeInv, TypeOK
    <3> QED
      BY <2>1, <3>1 DEF CallDown, Runs, Goto, LockFrame, synchVars
  <2>2. ASSUME NEW s \in Semas, CallUp(t, s) PROVE LockFrame
    BY <2>2, UpFrame DEF CallUp, Runs
  <2>3. ASSUME NEW l \in Locks, LockAcquire(t, l) PROVE LockFrame
    <3>1. /\ pc \in [Threads -> Places]
          /\ arg \in [Threads -> Threads \cup Semas \cup {NULL}]
      BY DEF TypeInv, TypeOK
    <3> QED
      BY <2>3, <3>1 DEF LockAcquire, Runs, Goto, LockFrame, synchVars
  <2>4. ASSUME NEW l \in Locks, LockRelease(t, l) PROVE LockInv' /\ OwnerStep
    BY <2>4, ReleaseKeeps DEF OwnerStep
  <2> QED
    BY <1>1, <1>5, <2>1, <2>2, <2>3, <2>4, ThreadsFrame DEF Call
<1>6. ASSUME NEW t \in Threads, Continue(t) PROVE LockInv' /\ OwnerStep
  <2>1. CASE SemaDown(t) \/ SemaDownResume(t)
    BY <2>1, DownTakes DEF SemaDown, SemaDownResume, Runs, OwnerStep
  <2>2. CASE IdleUp(t)
    <3>1. LockFrame
      BY <2>2, UpFrame, SynchAssumption DEF IdleUp, Runs
    <3> QED
      BY <1>1, <3>1
  <2>3. CASE LockAcquired(t)
    BY <2>3, AcquiredKeeps DEF OwnerStep
  <2>4. CASE LockReleased(t)
    <3>1. arg[t] \in Locks
      BY <2>4 DEF LockReleased, Runs, TypeInv, ArgOK
    <3> QED
      BY <2>4, <3>1, ReleasedGives DEF OwnerStep
  <2> QED
    BY <1>1, <1>6, <2>1, <2>2, <2>3, <2>4, ThreadsFrame DEF Continue
<1> QED
  BY <1>2, <1>3, <1>4, <1>5, <1>6 DEF Next, Compute, Halted

LEMMA SpecLockTypeInv == Spec => []LockTypeInv
<1>1. Init => LockTypeInv
  <2>1. Init => BootInv
    BY ThreadAssumption DEF Init, BootInv
  <2> QED
    BY <2>1, InitTypeInv, InitLockInv DEF LockTypeInv
<1>2. LockTypeInv /\ [Next]_vars => LockTypeInv'
  <2> SUFFICES ASSUME LockTypeInv, [Next]_vars PROVE LockTypeInv'
    OBVIOUS
  <2>1. TypeInv'
    BY NextTypeInv DEF LockTypeInv
  <2>2. BootInv'
    BY NextBootInv DEF LockTypeInv
  <2>3. LockInv'
    BY NextLockInv
  <2> QED
    BY <2>1, <2>2, <2>3 DEF LockTypeInv
<1> QED
  BY <1>1, <1>2, PTL DEF Spec

\* A lock never has two owners, and its semaphore has its unit exactly when it
\* has none, however lock_accquire and lock_release are interleaved by ticks.
THEOREM MutualExclusion == Spec => []LockExclusion
<1>1. LockTypeInv => LockExclusion
  <2> SUFFICES ASSUME LockInv, NEW l \in Locks
               PROVE  LET owners == {t \in Threads : Owns(t, l)}
                      IN  value[l] \in {0, 1} /\ Cardinality(owners) = 1 - value[l]
    BY DEF LockTypeInv, LockExclusion
  <2> DEFINE owners == {t \in Threads : Owns(t, l)}
  <2>1. CASE value[l] = 1
    <3>1. owners = {}
      BY <2>1 DEF LockInv
    <3>2. Cardinality(owners) = 0
      BY <3>1, FS_EmptySet
    <3> QED
      BY <2>1, <3>2
  <2>2. CASE value[l] # 1
    <3>1. value[l] = 0
      BY <2>2 DEF LockInv
    <3>2. PICK t \in Threads : \A u \in Threads : Owns(u, l) <=> u = t
      BY <2>2 DEF LockInv
    <3>3. owners = {t}
      BY <3>2
    <3>4. Cardinality(owners) = 1
      BY <3>3, FS_Singleton
    <3> QED
      BY <3>1, <3>4
  <2> QED
    BY <2>1, <2>2
<1> QED
  BY <1>1, SpecLockTypeInv, PTL

\* A lock's owner, as Mutex sees it, is the thread that owns it.
LEMMA OwnerIs ==
  ASSUME LockInv, NEW l \in Locks, NEW t \in Threads, Owns(t, l)
  PROVE  Owner(l) = t
<1>1. \A u \in Threads : Owns(u, l) => u = t
  BY DEF LockInv
<1> QED
  BY <1>1 DEF Owner

LEMMA OwnerNone ==
  ASSUME NEW l \in Locks, \A t \in Threads : ~ Owns(t, l)
  PROVE  Owner(l) = NULL
  BY DEF Owner

\* The same facts of the next state.
LEMMA OwnerIsNext ==
  ASSUME LockInv', NEW l \in Locks, NEW t \in Threads, Owns(t, l)'
  PROVE  Owner(l)' = t
<1>1. \A u \in Threads : Owns(u, l)' => u = t
  BY DEF LockInv
<1> QED
  BY <1>1 DEF Owner

LEMMA OwnerNoneNext ==
  ASSUME NEW l \in Locks, \A t \in Threads : ~ Owns(t, l)'
  PROVE  Owner(l)' = NULL
  BY DEF Owner

LEMMA InitMutex == Init => Abs!Init
<1>1. ASSUME Init, NEW l \in Locks PROVE Owner(l) = NULL
  <2>1. \A t \in Threads : ~ Owns(t, l)
    BY <1>1, ThreadAssumption, SynchAssumption DEF Init, SynchInit, Owns
  <2> QED
    BY <2>1, OwnerNone
<1> QED
  BY <1>1 DEF Abs!Init

\* What OwnerStep says of the owners is a step of the mutex, or none.
LEMMA StepMutex ==
  ASSUME LockInv, LockInv', OwnerStep
  PROVE  Abs!Next \/ UNCHANGED [l \in Locks |-> Owner(l)]
<1> DEFINE owner == [l \in Locks |-> Owner(l)]
<1>1. ASSUME NEW l \in Locks, \A u \in Threads : Owns(u, l)' <=> Owns(u, l)
      PROVE  Owner(l)' = Owner(l)
  <2>1. CASE \E t \in Threads : Owns(t, l)
    <3>1. PICK t \in Threads : Owns(t, l)
      BY <2>1
    <3>2. Owner(l) = t
      BY <3>1, OwnerIs
    <3>3. Owner(l)' = t
      BY <1>1, <3>1, OwnerIsNext
    <3> QED
      BY <3>2, <3>3
  <2>2. CASE \A t \in Threads : ~ Owns(t, l)
    BY <1>1, <2>2, OwnerNone, OwnerNoneNext
  <2> QED
    BY <2>1, <2>2
<1>2. CASE OwnersKept
  <2>1. \A l \in Locks : Owner(l)' = Owner(l)
    BY <1>1, <1>2 DEF OwnersKept
  <2> QED
    BY <2>1
<1>3. ASSUME NEW t \in Threads, NEW l \in Locks, Takes(t, l) PROVE Abs!Next
  <2>1. Owner(l) = NULL
    BY <1>3, OwnerNone DEF Takes
  <2>2. Owner(l)' = t
    <3>1. Owns(t, l)'
      BY <1>3 DEF Takes
    <3> QED
      BY <3>1, OwnerIsNext
  <2>3. \A m \in Locks : m # l => Owner(m)' = Owner(m)
    BY <1>1, <1>3 DEF Takes
  <2>4. owner[l] = NULL /\ owner' = [owner EXCEPT ![l] = t]
    BY <2>1, <2>2, <2>3
  <2> QED
    BY <2>4 DEF Abs!Next, Abs!Acquire
<1>4. ASSUME NEW t \in Threads, NEW l \in Locks, Gives(t, l) PROVE Abs!Next
  <2>1. Owner(l) = t
    BY <1>4, OwnerIs DEF Gives
  <2>2. Owner(l)' = NULL
    <3>1. \A u \in Threads : Owns(u, l) => u = t
      BY <1>4 DEF Gives, LockInv
    <3>2. \A u \in Threads : ~ Owns(u, l)'
      BY <1>4, <3>1 DEF Gives
    <3> QED
      BY <3>2, OwnerNoneNext
  <2>3. \A m \in Locks : m # l => Owner(m)' = Owner(m)
    BY <1>1, <1>4 DEF Gives
  <2>4. owner[l] = t /\ owner' = [owner EXCEPT ![l] = NULL]
    BY <2>1, <2>2, <2>3
  <2> QED
    BY <2>4 DEF Abs!Next, Abs!Release
<1> QED
  BY <1>2, <1>3, <1>4 DEF OwnerStep

\* Locks of the kernel implement the abstract mutex: every step of the kernel is
\* an acquire of a free lock, a release by the owner, or changes no owner.
THEOREM LocksImplementMutex == Spec => MutexSpec
<1> DEFINE owner == [l \in Locks |-> Owner(l)]
<1>1. ASSUME LockTypeInv, LockInv', [Next]_vars
      PROVE  [Abs!Next]_owner
  <2>1. LockInv /\ OwnerStep
    BY <1>1, NextLockInv DEF LockTypeInv
  <2> QED
    BY <1>1, <2>1, StepMutex
<1>2. LockTypeInv => LockInv
  BY DEF LockTypeInv
<1> QED
  BY <1>1, <1>2, InitMutex, SpecLockTypeInv, PTL DEF Spec, MutexSpec, Abs!Spec
===============================================================================
