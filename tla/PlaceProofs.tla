------------------------------ MODULE PlaceProofs ------------------------------
(***************************************************************************)
(* Where the threads of Kernel are: each is in one place, its status tells *)
(* which, and all_threads has those that live.  The invariant says of each *)
(* list exactly which threads are in it.  It has a parameter, the set of   *)
(* threads that are put aside (blocked, and in none of the kernel's        *)
(* lists): none are here, the sleepers will be elsewhere.                  *)
(*                                                                         *)
(* And what wakes them: interrupts, which are off on the way back from     *)
(* every switch and on again after it, the timer, which the PIC never      *)
(* holds back from an idle thread that halts, and the units of a           *)
(* semaphore, each of which has a woken thread on its way.                 *)
(***************************************************************************)
EXTENDS KernelProofs

-------------------------------------------------------------------------------
(* Sequences without repetition. *)

LEMMA AppendExact ==
  ASSUME NEW S, NEW q \in Seq(S), NEW e \in S
  PROVE  /\ Append(q, e) \in Seq(S)
         /\ \A x : InSeq(x, Append(q, e)) <=> InSeq(x, q) \/ x = e
         /\ IsInjective(q) /\ ~ InSeq(e, q) => IsInjective(Append(q, e))
<1> DEFINE r == Append(q, e)
<1>1. /\ r \in Seq(S) /\ DOMAIN r = 1 .. Len(q) + 1
      /\ DOMAIN q = 1 .. Len(q) /\ Len(q) \in Nat
      /\ r[Len(q) + 1] = e /\ \A i \in 1 .. Len(q) : r[i] = q[i]
  BY LenProperties
<1> HIDE DEF r
<1>2. \A i \in 1 .. Len(q) + 1 : i \in 1 .. Len(q) \/ i = Len(q) + 1
  BY <1>1
<1>3. Len(q) + 1 \in 1 .. Len(q) + 1 /\ \A i \in 1 .. Len(q) : i \in 1 .. Len(q) + 1
  BY <1>1
<1>4. \A x : InSeq(x, r) <=> InSeq(x, q) \/ x = e
  BY <1>1, <1>2, <1>3 DEF InSeq
<1>5. IsInjective(q) /\ ~ InSeq(e, q) => IsInjective(r)
  BY <1>1, <1>2 DEF InSeq, IsInjective
<1> QED
  BY <1>1, <1>4, <1>5 DEF r

LEMMA TailExact ==
  ASSUME NEW S, NEW q \in Seq(S), q # <<>>, IsInjective(q)
  PROVE  /\ Tail(q) \in Seq(S) /\ IsInjective(Tail(q))
         /\ Head(q) \in S /\ InSeq(Head(q), q)
         /\ \A x : InSeq(x, Tail(q)) <=> InSeq(x, q) /\ x # Head(q)
<1> DEFINE r == Tail(q)
<1>1. /\ r \in Seq(S) /\ Len(r) = Len(q) - 1 /\ Head(q) = q[1] /\ Head(q) \in S
      /\ \A i \in 1 .. Len(r) : r[i] = q[i + 1]
  BY HeadTailProperties
<1>2. /\ DOMAIN q = 1 .. Len(q) /\ Len(q) \in Nat /\ Len(q) # 0
      /\ DOMAIN r = 1 .. Len(q) - 1
  BY <1>1, LenProperties, EmptySeq
<1> HIDE DEF r
<1>3. \A i \in 1 .. Len(q) - 1 : i + 1 \in 1 .. Len(q) /\ i + 1 # 1
  BY <1>2
<1>4. IsInjective(r)
  <2> SUFFICES ASSUME NEW i \in 1 .. Len(q) - 1, NEW j \in 1 .. Len(q) - 1, r[i] = r[j]
               PROVE  i = j
    BY <1>2 DEF IsInjective
  <2>1. q[i + 1] = q[j + 1]
    BY <1>1, <1>2
  <2>2. i + 1 \in DOMAIN q /\ j + 1 \in DOMAIN q
    BY <1>2, <1>3
  <2>3. i + 1 = j + 1
    BY <2>1, <2>2 DEF IsInjective
  <2> QED
    BY <2>3
<1>5. 1 \in DOMAIN q
  BY <1>2
<1>6. ASSUME NEW x PROVE InSeq(x, r) <=> InSeq(x, q) /\ x # Head(q)
  <2>1. ASSUME InSeq(x, r) PROVE InSeq(x, q) /\ x # Head(q)
    <3>1. PICK i \in 1 .. Len(q) - 1 : r[i] = x
      BY <1>2, <2>1 DEF InSeq
    <3>2. q[i + 1] = x
      BY <1>1, <1>2, <3>1
    <3> QED
      BY <1>1, <1>2, <1>3, <1>5, <3>2 DEF InSeq, IsInjective
  <2>2. ASSUME InSeq(x, q), x # Head(q) PROVE InSeq(x, r)
    <3>1. PICK i \in 1 .. Len(q) : q[i] = x
      BY <1>2, <2>2 DEF InSeq
    <3>2. i - 1 \in 1 .. Len(q) - 1 /\ (i - 1) + 1 = i
      BY <1>1, <1>2, <2>2, <3>1
    <3>3. r[i - 1] = x
      BY <1>1, <1>2, <3>1, <3>2
    <3> QED
      BY <1>2, <3>2, <3>3 DEF InSeq
  <2> QED
    BY <2>1, <2>2
<1> QED
  BY <1>1, <1>4, <1>5, <1>6 DEF r, InSeq

LEMMA RemoveExact ==
  ASSUME NEW S, NEW q \in Seq(S), NEW e, IsInjective(q)
  PROVE  /\ RemoveFirst(q, e) \in Seq(S) /\ IsInjective(RemoveFirst(q, e))
         /\ \A x : InSeq(x, RemoveFirst(q, e)) <=> InSeq(x, q) /\ x # e
         /\ ~ InSeq(e, q) => RemoveFirst(q, e) = q
<1>1. CASE ~ InSeq(e, q)
  <2>1. RemoveFirst(q, e) = q
    BY <1>1, LenProperties DEF RemoveFirst, InSeq
  <2> QED
    BY <1>1, <2>1
<1>2. CASE InSeq(e, q)
  <2> DEFINE r == RemoveFirst(q, e)
  <2>1. r \in Seq(S)
    BY <1>2, RemoveFirstIs
  <2>2. PICK k \in 1 .. Len(q) : q[k] = e /\ IsCut(r, q, k)
    BY <1>2, RemoveFirstIs
  <2> HIDE DEF r
  <2>3. DOMAIN q = 1 .. Len(q) /\ Len(q) \in Nat /\ DOMAIN r = 1 .. Len(q) - 1
    BY <2>1, <2>2, LenProperties DEF IsCut
  <2> DEFINE at(i) == IF i < k THEN i ELSE i + 1
  <2>4. \A i \in DOMAIN r : at(i) \in DOMAIN q /\ at(i) # k /\ r[i] = q[at(i)]
    BY <2>2, <2>3 DEF IsCut
  <2>5. \A i, j \in DOMAIN r : at(i) = at(j) => i = j
    BY <2>2, <2>3
  <2>6. \A i \in DOMAIN q : i # k => \E j \in DOMAIN r : at(j) = i
    <3> SUFFICES ASSUME NEW i \in 1 .. Len(q), i # k PROVE \E j \in 1 .. Len(q) - 1 : at(j) = i
      BY <2>3
    <3>1. CASE i < k
      BY <2>2, <2>3, <3>1
    <3>2. CASE i > k
      <4>1. i - 1 \in 1 .. Len(q) - 1 /\ ~ (i - 1 < k) /\ (i - 1) + 1 = i
        BY <2>2, <2>3, <3>2
      <4> QED
        BY <4>1
    <3> QED
      BY <2>2, <2>3, <3>1, <3>2
  <2> HIDE DEF at
  <2>7. IsInjective(r)
    BY <2>4, <2>5 DEF IsInjective
  <2>8. k \in DOMAIN q
    BY <2>2, <2>3
  <2>9. \A x : InSeq(x, r) <=> InSeq(x, q) /\ x # e
    BY <2>2, <2>4, <2>6, <2>8 DEF InSeq, IsInjective
  <2> QED
    BY <1>2, <2>1, <2>7, <2>9 DEF r
<1> QED
  BY <1>1, <1>2

\* Removing what is not there changes nothing.
LEMMA RemoveAbsent ==
  ASSUME NEW S, NEW q \in Seq(S), NEW e, ~ InSeq(e, q)
  PROVE  RemoveFirst(q, e) = q
  BY LenProperties DEF RemoveFirst, InSeq

-------------------------------------------------------------------------------
(* The invariant. *)

Booting == {"boot", "thread_init"}
Creating == {"create_list", "create_tail", "create_link", "create_unblock"}
InIdle == {"idle_up", "idle_loop", "idle_blocked", "hlt"}

\* The kernel thread is in boot() or past it; until thread_init nobody waits or
\* is put aside.
BootLists(A) ==
  /\ pc[Kernel] # "none"
  /\ pc[Kernel] \in Booting =>
       idle_thread = NULL /\ A = {} /\ \A s \in Semas : waiters[s] = <<>>

\* The idle thread only runs idle(), and idle_thread tells how far it is.
IdleInv ==
  /\ idle_thread = NULL => pc[Idle] \in {"none", "fresh", "idle"}
  /\ idle_thread = Idle => pc[Idle] \in InIdle

\* The thread that has the CPU is RUNNING, or DYING when its function returned.
CpuExact ==
  \A t \in Threads :
    t = current <=> status[t] = "RUNNING" \/ (status[t] = "DYING" /\ pc[t] = "exit")

\* The ready queue has the READY threads once each, but never the idle thread
\* that is known as such.
ReadyExact ==
  /\ IsInjective(ready_threads)
  /\ \A t \in Threads : InSeq(t, ready_threads) <=> status[t] = "READY" /\ t # idle_thread

\* A waiting list has the threads that are blocked in a sema_down of it, once
\* each.
WaitExact(A) ==
  \A s \in Semas :
    /\ IsInjective(waiters[s])
    /\ \A t \in Threads :
         InSeq(t, waiters[s]) <=>
           status[t] = "BLOCKED" /\ t \notin A /\ pc[t] = "wait" /\ arg[t] = s

\* A new thread that is blocked has one creator, which will unblock it.
CreateExact(A) ==
  /\ \A t \in Threads :
       UnderCreation(t) <=> status[t] = "BLOCKED" /\ t \notin A /\ pc[t] = "fresh"
  /\ \A u, v \in Threads : pc[u] \in Creating /\ pc[v] \in Creating /\ arg[u] = arg[v] => u = v

\* No other thread is blocked, except the idle thread, and those put aside.
BlockedExact(A) ==
  \A t \in Threads :
    /\ t \in A => status[t] = "BLOCKED" /\ t # Idle
    /\ status[t] = "BLOCKED" =>
         t \in A \/ pc[t] \in {"wait", "fresh"} \/ (t = idle_thread /\ pc[t] = "idle_blocked")

\* A thread is DYING from the return of its function on, unless the timer takes
\* the CPU from it before it is dead.
DyingExact ==
  \A t \in Threads :
    /\ status[t] = "DYING" => pc[t] \in {"exit", "dead"}
    /\ pc[t] = "dead" => status[t] = "DYING"

Exact(A) ==
  /\ CpuExact /\ ReadyExact /\ WaitExact(A) /\ CreateExact(A) /\ BlockedExact(A)
  /\ DyingExact

Threaded == panic = "none" /\ status[Kernel] # "unborn"

PlaceInv(A) == BootLists(A) /\ IdleInv /\ (Threaded => Exact(A))

-------------------------------------------------------------------------------
(* Scheduling. *)

\* What schedule does for t, with the statuses st: next gets the CPU, and t is
\* reaped if it died.
Switches(t, st, next) ==
  /\ next \in Threads /\ current' = next /\ panic' = "none" /\ iflag' = FALSE
  /\ status' = [st EXCEPT ![next] = "RUNNING"]
  /\ IF next = idle_thread
     THEN \A u \in Threads : st[u] = "READY" => u = idle_thread
     ELSE st[next] = "READY"
  /\ IsInjective(ready_threads')
  /\ \A u \in Threads :
       InSeq(u, ready_threads') <=> st[u] = "READY" /\ u # idle_thread /\ u # next
  /\ next = idle_thread => ready_threads' = <<>>
  /\ IF t # next /\ st[t] = "DYING"
     THEN ~ torn' => all_threads' = RemoveFirst(all_threads, t)
     ELSE all_threads' = all_threads

\* schedule, when its caller has left the queue as the statuses say.
LEMMA ScheduleSwitches ==
  ASSUME TypeInv, panic = "none", NEW t \in Threads,
         NEW st \in [Threads -> Status], NEW rq \in Seq(Threads), IsInjective(rq),
         \A u \in Threads : InSeq(u, rq) <=> st[u] = "READY" /\ u # idle_thread,
         st[t] # "RUNNING", idle_thread = NULL => rq # <<>>,
         Schedule(t, st, rq)
  PROVE  \E next \in Threads : Switches(t, st, next)
<1> DEFINE next == GetNextThread(rq)
           prev == IF next = t THEN NULL ELSE t
           pop  == Popped(rq)
<1>1. /\ next \in Threads /\ (next = idle_thread <=> rq = <<>>)
      /\ next # idle_thread => st[next] = "READY"
      /\ pop \in Seq(Threads) /\ IsInjective(pop)
      /\ \A u \in Threads : InSeq(u, pop) <=> InSeq(u, rq) /\ u # next
      /\ rq = <<>> => pop = <<>>
  <2>1. CASE rq = <<>>
    <3>1. next = idle_thread /\ idle_thread = Idle /\ pop = <<>>
      BY <2>1 DEF GetNextThread, Popped, TypeInv, TypeOK
    <3>2. \A u : ~ InSeq(u, rq)
      BY <2>1 DEF InSeq
    <3> QED
      BY <2>1, <3>1, <3>2, ThreadAssumption
  <2>2. CASE rq # <<>>
    <3>1. next = Head(rq) /\ pop = Tail(rq)
      BY <2>2 DEF GetNextThread, Popped
    <3>2. /\ pop \in Seq(Threads) /\ IsInjective(pop) /\ next \in Threads /\ InSeq(next, rq)
          /\ \A u : InSeq(u, pop) <=> InSeq(u, rq) /\ u # next
      BY <2>2, <3>1, TailExact
    <3> QED
      BY <2>2, <3>2
  <2> QED
    BY <2>1, <2>2
<1>2. /\ current' = next /\ panic' = "none" /\ iflag' = FALSE
      /\ SwitchComplete(prev, next, st, pop)
  BY DEF Schedule
<1> HIDE DEF next, pop
<1>3. all_threads \in Seq(Threads) /\ NULL \notin Threads
  BY ThreadAssumption DEF TypeInv, TypeOK
<1>4. ~ InSeq(NULL, all_threads) /\ ~ InSeq(NULL, pop)
  BY <1>1, <1>3, LenProperties, ElementOfSeq DEF InSeq
<1>5. /\ ready_threads' = pop
      /\ IF t # next /\ st[t] = "DYING"
         THEN ~ torn' => all_threads' = RemoveFirst(all_threads, t)
         ELSE all_threads' = all_threads
  <2>1. CASE ~ PrevDying(prev, st)
    BY <1>2, <1>3, <2>1 DEF SwitchComplete, PrevDying
  <2>2. CASE PrevDying(prev, st)
    <3>1. ThreadKill(prev, pop)
      BY <1>2, <2>2 DEF SwitchComplete
    <3> HIDE DEF prev
    <3>2. CASE next = t
      <4>1. prev = NULL
        BY <3>2 DEF prev
      <4>2. ~ Unreached(prev) /\ ~ LinkedTo(prev)
        BY <1>4, <4>1 DEF Unreached, LinkedTo, InSeq
      <4>3. all_threads' = RemoveFirst(all_threads, NULL) /\ ready_threads' = RemoveFirst(pop, NULL)
        BY <3>1, <4>1, <4>2 DEF ThreadKill
      <4> QED
        BY <1>1, <1>3, <1>4, <3>2, <4>3, RemoveAbsent
    <3>3. CASE next # t
      <4>1. prev = t /\ st[t] = "DYING"
        BY <1>3, <2>2, <3>3 DEF PrevDying, prev
      <4>2. ~ InSeq(t, pop)
        BY <1>1, <4>1
      <4>3. /\ ready_threads' = RemoveFirst(pop, t)
            /\ ~ torn' => all_threads' = RemoveFirst(all_threads, t)
        BY <3>1, <4>1 DEF ThreadKill
      <4> QED
        BY <1>1, <3>3, <4>1, <4>2, <4>3, RemoveAbsent
    <3> QED
      BY <3>2, <3>3
  <2> QED
    BY <2>1, <2>2
<1>6. status' = [st EXCEPT ![next] = "RUNNING"]
  BY <1>2 DEF SwitchComplete
<1>7. next = idle_thread => \A u \in Threads : st[u] = "READY" => u = idle_thread
  BY <1>1 DEF InSeq
<1> QED
  BY <1>1, <1>2, <1>5, <1>6, <1>7 DEF Switches

\* Who is blocked in a sema_down, and the waiting lists, stay as they are.
LEMMA WaitFrame ==
  ASSUME NEW A, WaitExact(A), UNCHANGED waiters,
         \A u \in Threads, s \in Semas :
           (status[u] = "BLOCKED" /\ u \notin A /\ pc[u] = "wait" /\ arg[u] = s)'
           <=> status[u] = "BLOCKED" /\ u \notin A /\ pc[u] = "wait" /\ arg[u] = s
  PROVE  WaitExact(A)'
  BY DEF WaitExact

\* No thread_create begins or ends.
CreateKept ==
  \A u \in Threads :
    (pc'[u] \in Creating <=> pc[u] \in Creating) /\ (pc[u] \in Creating => arg'[u] = arg[u])

LEMMA KeptCreation ==
  ASSUME CreateKept, NEW t \in Threads
  PROVE  UnderCreation(t)' <=> UnderCreation(t)
  BY DEF CreateKept, UnderCreation, Creating

\* The CPU goes from t to next; t is ready, waits, is idle or is dead.
LEMMA SwitchExact ==
  ASSUME TypeInv, IdleInv, NEW A, Exact(A), NEW t \in Threads, t = current,
         NEW st \in [Threads -> Status], st = [status EXCEPT ![t] = st[t]],
         NEW next \in Threads, Switches(t, st, next),
         \A u \in Threads : u # t => pc'[u] = pc[u] /\ arg'[u] = arg[u],
         CreateKept, UNCHANGED idle_thread,
         \/ st[t] = "READY" /\ pc'[t] # "dead" /\ UNCHANGED waiters
         \/ st[t] = "DYING" /\ t # idle_thread /\ pc'[t] = "dead" /\ UNCHANGED waiters
         \/ /\ st[t] = "BLOCKED" /\ t = idle_thread /\ pc'[t] = "idle_blocked"
            /\ UNCHANGED waiters
         \/ /\ st[t] = "BLOCKED" /\ t # idle_thread /\ t \notin A
            /\ pc'[t] = "wait" /\ arg'[t] \in Semas
            /\ waiters' = [waiters EXCEPT ![arg'[t]] = Append(@, t)]
  PROVE  Exact(A)'
<1>1. /\ \A u \in Threads : u # t => st[u] = status[u]
      /\ current' = next /\ status' = [st EXCEPT ![next] = "RUNNING"]
      /\ current \in Threads /\ status \in [Threads -> Status]
      /\ waiters \in [Semas -> Seq(Threads)] /\ idle_thread \in {NULL, Idle}
      /\ NULL \notin Threads
      /\ st[next] = "READY" \/ next = idle_thread
  BY ThreadAssumption DEF TypeInv, TypeOK, Switches
<1>2. status[t] = "RUNNING" \/ (status[t] = "DYING" /\ pc[t] = "exit")
  BY DEF Exact, CpuExact
<1>3. idle_thread # NULL => pc[idle_thread] \in InIdle
  BY <1>1 DEF IdleInv
<1>4. CpuExact'
  <2> SUFFICES ASSUME NEW u \in Threads
               PROVE  u = next <=>
                        status'[u] = "RUNNING" \/ (status'[u] = "DYING" /\ pc'[u] = "exit")
    BY <1>1 DEF CpuExact
  <2>1. CASE u = t
    BY <1>1, <2>1
  <2>2. CASE u # t
    BY <1>1, <2>2 DEF Exact, CpuExact
  <2> QED
    BY <2>1, <2>2
<1>5. ReadyExact'
  BY <1>1 DEF Switches, ReadyExact
<1>6. WaitExact(A)'
  <2> SUFFICES ASSUME NEW s \in Semas
               PROVE  /\ IsInjective(waiters'[s])
                      /\ \A u \in Threads :
                           InSeq(u, waiters'[s]) <=>
                             status'[u] = "BLOCKED" /\ u \notin A /\ pc'[u] = "wait" /\ arg'[u] = s
    BY DEF WaitExact
  <2> DEFINE joins == st[t] = "BLOCKED" /\ pc'[t] = "wait" /\ arg'[t] = s
  <2>1. ~ InSeq(t, waiters[s]) /\ IsInjective(waiters[s]) /\ waiters[s] \in Seq(Threads)
    BY <1>1, <1>2 DEF Exact, WaitExact
  <2>2. /\ IsInjective(waiters'[s])
        /\ \A u \in Threads : InSeq(u, waiters'[s]) <=> InSeq(u, waiters[s]) \/ (u = t /\ joins)
    <3>1. CASE joins
      <4>1. waiters'[s] = Append(waiters[s], t)
        BY <1>1, <3>1
      <4> QED
        BY <2>1, <3>1, <4>1, AppendExact
    <3>2. CASE ~ joins
      <4>1. waiters'[s] = waiters[s]
        BY <1>1, <3>2
      <4> QED
        BY <2>1, <3>2, <4>1
    <3> QED
      BY <3>1, <3>2
  <2>3. ASSUME NEW u \in Threads
        PROVE  InSeq(u, waiters'[s]) <=>
                 status'[u] = "BLOCKED" /\ u \notin A /\ pc'[u] = "wait" /\ arg'[u] = s
    <3>1. InSeq(u, waiters[s]) <=>
            status[u] = "BLOCKED" /\ u \notin A /\ pc[u] = "wait" /\ arg[u] = s
      BY DEF Exact, WaitExact
    <3>2. CASE u = t
      BY <1>1, <1>3, <2>1, <2>2, <3>2 DEF InIdle
    <3>3. CASE u # t
      BY <1>1, <1>3, <2>2, <3>1, <3>3 DEF InIdle
    <3> QED
      BY <3>2, <3>3
  <2> QED
    BY <2>2, <2>3
<1>7. CreateExact(A)'
  <2>1. ASSUME NEW u \in Threads
        PROVE  UnderCreation(u)' <=> status'[u] = "BLOCKED" /\ u \notin A /\ pc'[u] = "fresh"
    <3>1. UnderCreation(u) <=> status[u] = "BLOCKED" /\ u \notin A /\ pc[u] = "fresh"
      BY DEF Exact, CreateExact
    <3>2. UnderCreation(u)' <=> UnderCreation(u)
      BY KeptCreation
    <3>3. CASE u = t
      BY <1>1, <1>2, <3>1, <3>2, <3>3
    <3>4. CASE u # t
      BY <1>1, <1>3, <3>1, <3>2, <3>4 DEF InIdle
    <3> QED
      BY <3>3, <3>4
  <2>2. \A u, v \in Threads :
          pc'[u] \in Creating /\ pc'[v] \in Creating /\ arg'[u] = arg'[v] => u = v
    BY DEF Exact, CreateExact, CreateKept
  <2> QED
    BY <2>1, <2>2 DEF CreateExact
<1>8. BlockedExact(A)'
  <2> SUFFICES ASSUME NEW u \in Threads
               PROVE  /\ u \in A => status'[u] = "BLOCKED" /\ u # Idle
                      /\ status'[u] = "BLOCKED" =>
                           \/ u \in A \/ pc'[u] \in {"wait", "fresh"}
                           \/ u = idle_thread /\ pc'[u] = "idle_blocked"
    BY DEF BlockedExact
  <2>1. /\ u \in A => status[u] = "BLOCKED" /\ u # Idle
        /\ status[u] = "BLOCKED" =>
             u \in A \/ pc[u] \in {"wait", "fresh"} \/ (u = idle_thread /\ pc[u] = "idle_blocked")
    BY DEF Exact, BlockedExact
  <2>2. CASE u = t
    BY <1>1, <1>2, <2>1, <2>2
  <2>3. CASE u # t
    BY <1>1, <2>1, <2>3
  <2> QED
    BY <2>2, <2>3
<1>9. DyingExact'
  <2> SUFFICES ASSUME NEW u \in Threads
               PROVE  /\ status'[u] = "DYING" => pc'[u] \in {"exit", "dead"}
                      /\ pc'[u] = "dead" => status'[u] = "DYING"
    BY DEF DyingExact
  <2>1. /\ status[u] = "DYING" => pc[u] \in {"exit", "dead"}
        /\ pc[u] = "dead" => status[u] = "DYING"
    BY DEF Exact, DyingExact
  <2>2. next = t => st[t] # "DYING"
    BY <1>1, <1>2, <1>3 DEF InIdle
  <2>3. CASE u = t
    BY <1>1, <2>2, <2>3
  <2>4. CASE u # t
    BY <1>1, <1>3, <2>1, <2>4 DEF InIdle
  <2> QED
    BY <2>3, <2>4
<1> QED
  BY <1>4, <1>5, <1>6, <1>7, <1>8, <1>9 DEF Exact

\* thread_yield, by the timer or by the thread itself.
LEMMA YieldSwitches ==
  ASSUME TypeInv, panic = "none", NEW A, Exact(A), ThreadYield(current)
  PROVE  \E next \in Threads :
           Switches(current, [status EXCEPT ![current] = "READY"], next)
<1> DEFINE t == current
           st == [status EXCEPT ![t] = "READY"]
           rq == Requeued(t)
<1>1. /\ t \in Threads /\ ready_threads \in Seq(Threads) /\ status \in [Threads -> Status]
      /\ NULL \notin Threads
  BY ThreadAssumption DEF TypeInv, TypeOK
<1>2. st \in [Threads -> Status] /\ st[t] = "READY" /\ \A u \in Threads : u # t => st[u] = status[u]
  BY <1>1 DEF Status
<1>3. ~ InSeq(t, ready_threads) /\ IsInjective(ready_threads)
  BY <1>1 DEF Exact, CpuExact, ReadyExact
<1>4. /\ rq \in Seq(Threads) /\ IsInjective(rq)
      /\ \A u \in Threads : InSeq(u, rq) <=> InSeq(u, ready_threads) \/ (u = t /\ t # idle_thread)
  BY <1>1, <1>3, AppendExact DEF Requeued
<1>5. \A u \in Threads : InSeq(u, rq) <=> st[u] = "READY" /\ u # idle_thread
  BY <1>1, <1>2, <1>3, <1>4 DEF Exact, ReadyExact
<1>6. idle_thread = NULL => rq # <<>>
  <2> SUFFICES ASSUME idle_thread = NULL, rq = <<>> PROVE FALSE
    OBVIOUS
  <2>1. InSeq(t, rq)
    BY <1>1, <1>4
  <2> QED
    BY <2>1 DEF InSeq
<1>7. Schedule(t, st, rq)
  BY DEF ThreadYield
<1> HIDE DEF t, st, rq
<1> QED
  BY <1>1, <1>2, <1>4, <1>5, <1>6, <1>7, ScheduleSwitches DEF t, st

\* thread_block, and the end of run(): the caller leaves the queue alone.
LEMMA LeaveSwitches ==
  ASSUME TypeInv, panic = "none", NEW A, Exact(A),
         pc[current] \notin Booting \cup {"fresh", "idle"},
         NEW x \in {"BLOCKED", "DYING"},
         Schedule(current, [status EXCEPT ![current] = x], ready_threads)
  PROVE  \E next \in Threads :
           Switches(current, [status EXCEPT ![current] = x], next)
<1> DEFINE t == current
           st == [status EXCEPT ![t] = x]
<1>1. /\ t \in Threads /\ ready_threads \in Seq(Threads) /\ status \in [Threads -> Status]
      /\ NULL \notin Threads
  BY ThreadAssumption DEF TypeInv, TypeOK
<1>2. st \in [Threads -> Status] /\ st[t] = x /\ \A u \in Threads : u # t => st[u] = status[u]
  BY <1>1 DEF Status
<1>3. ~ InSeq(t, ready_threads) /\ IsInjective(ready_threads)
  BY <1>1 DEF Exact, CpuExact, ReadyExact
<1>4. \A u \in Threads : InSeq(u, ready_threads) <=> st[u] = "READY" /\ u # idle_thread
  BY <1>1, <1>2, <1>3 DEF Exact, ReadyExact
<1>5. idle_thread = NULL => ready_threads # <<>>
  BY DEF TypeInv, IdleKnown, InSeq, Booting
<1>6. Schedule(t, st, ready_threads)
  OBVIOUS
<1> HIDE DEF t, st
<1> QED
  BY <1>1, <1>2, <1>3, <1>4, <1>5, <1>6, ScheduleSwitches DEF t, st

-------------------------------------------------------------------------------
(* Steps that move no thread. *)

\* Only the place of the thread that runs changes, and not by the end of its
\* function; no thread_create begins or ends.
Quiet ==
  /\ UNCHANGED <<current, status, ready_threads, waiters, idle_thread>>
  /\ \A u \in Threads : u # current => pc'[u] = pc[u] /\ arg'[u] = arg[u]
  /\ pc'[current] = pc[current] \/ {pc[current], pc'[current]} \cap {"exit", "dead"} = {}
  /\ CreateKept

LEMMA QuietExact ==
  ASSUME TypeInv, NEW A, Exact(A), Quiet
  PROVE  Exact(A)'
<1>1. current \in Threads
  BY DEF TypeInv, TypeOK
<1>2. status[current] = "RUNNING" \/ (status[current] = "DYING" /\ pc[current] = "exit")
  BY <1>1 DEF Exact, CpuExact
<1>3. CpuExact' /\ DyingExact'
  BY <1>1, <1>2 DEF Exact, CpuExact, DyingExact, Quiet
<1>4. ReadyExact'
  BY DEF Exact, ReadyExact, Quiet, InSeq
<1>5. WaitExact(A)'
  BY <1>1, <1>2 DEF Exact, WaitExact, Quiet, InSeq
<1>6. CreateExact(A)'
  <2>1. \A u \in Threads : UnderCreation(u)' <=> UnderCreation(u)
    BY KeptCreation DEF Quiet
  <2>2. \A u \in Threads :
          UnderCreation(u)' <=> status'[u] = "BLOCKED" /\ u \notin A /\ pc'[u] = "fresh"
    BY <1>1, <1>2, <2>1 DEF Exact, CreateExact, Quiet
  <2>3. \A u, v \in Threads :
          pc'[u] \in Creating /\ pc'[v] \in Creating /\ arg'[u] = arg'[v] => u = v
    BY DEF Exact, CreateExact, CreateKept, Quiet
  <2> QED
    BY <2>2, <2>3 DEF CreateExact
<1>7. BlockedExact(A)'
  BY <1>1, <1>2 DEF Exact, BlockedExact, Quiet
<1> QED
  BY <1>3, <1>4, <1>5, <1>6, <1>7 DEF Exact

-------------------------------------------------------------------------------
(* Steps that move a thread. *)

\* thread_unblock of a thread that is blocked: it joins the ready queue.
LEMMA UnblockReady ==
  ASSUME TypeInv, NEW A, Exact(A), NEW u \in Threads, status[u] = "BLOCKED",
         u # idle_thread, ThreadUnblock(u), UNCHANGED idle_thread
  PROVE  /\ panic' = panic /\ status' = [status EXCEPT ![u] = "READY"] /\ ReadyExact'
<1>1. /\ panic' = panic /\ status' = [status EXCEPT ![u] = "READY"]
      /\ ready_threads' = Append(ready_threads, u)
  BY DEF ThreadUnblock
<1>2. ready_threads \in Seq(Threads) /\ status \in [Threads -> Status]
  BY DEF TypeInv, TypeOK
<1>3. IsInjective(ready_threads) /\ ~ InSeq(u, ready_threads)
  BY DEF Exact, ReadyExact
<1>4. /\ IsInjective(ready_threads')
      /\ \A v \in Threads : InSeq(v, ready_threads') <=> InSeq(v, ready_threads) \/ v = u
  BY <1>1, <1>2, <1>3, AppendExact
<1>5. \A v \in Threads :
        InSeq(v, ready_threads') <=> status'[v] = "READY" /\ v # idle_thread'
  BY <1>1, <1>2, <1>4 DEF Exact, ReadyExact
<1> QED
  BY <1>1, <1>4, <1>5 DEF ReadyExact

\* thread_init makes the first two threads.
LEMMA ThreadInitExact ==
  ASSUME TypeInv, BootInv, IdleInv, BootLists({}), ThreadInit
  PROVE  Exact({})'
<1>1. /\ \A t \in Threads : status[t] = "unborn" /\ pc[t] \in {"none", "boot", "thread_init"}
      /\ \A s \in Semas : waiters[s] = <<>>
      /\ current = Kernel /\ idle_thread = NULL
  BY ThreadAssumption DEF ThreadInit, Runs, BootInv, BootLists, Booting, TypeInv, UnbornPlaces
<1>2. /\ status' = [status EXCEPT ![Kernel] = "RUNNING", ![Idle] = "READY"]
      /\ ready_threads' = <<Idle>> /\ current' = current /\ idle_thread' = idle_thread
      /\ waiters' = waiters
      /\ pc' = [pc EXCEPT ![Kernel] = "down", ![Idle] = "fresh"]
  BY DEF ThreadInit, synchVars
<1>3. /\ status \in [Threads -> Status] /\ pc \in [Threads -> Places]
      /\ Kernel \in Threads /\ Idle \in Threads /\ Kernel # Idle /\ NULL \notin Threads
  BY ThreadAssumption DEF TypeInv, TypeOK
<1>4. CpuExact' /\ DyingExact' /\ BlockedExact({})'
  BY <1>1, <1>2, <1>3 DEF CpuExact, DyingExact, BlockedExact
<1>5. ReadyExact'
  <2>1. IsInjective(<<Idle>>) /\ \A x : InSeq(x, <<Idle>>) <=> x = Idle
    BY DEF IsInjective, InSeq
  <2> QED
    BY <1>1, <1>2, <1>3, <2>1 DEF ReadyExact
<1>6. WaitExact({})'
  <2>1. \A s \in Semas : IsInjective(waiters'[s]) /\ \A t \in Threads : ~ InSeq(t, waiters'[s])
    BY <1>1, <1>2 DEF IsInjective, InSeq
  <2> QED
    BY <1>1, <1>2, <1>3, <2>1 DEF WaitExact
<1>7. CreateExact({})'
  BY <1>1, <1>2, <1>3 DEF CreateExact, UnderCreation, Creating
<1> QED
  BY <1>4, <1>5, <1>6, <1>7 DEF Exact

\* thread_create fills a page.
LEMMA CreatePageExact ==
  ASSUME TypeInv, NEW A, Exact(A), NEW t \in Threads, NEW new \in Threads \ {Idle},
         CreatePage(t, new), UNCHANGED synchVars
  PROVE  Exact(A)'
<1>1. /\ t = current /\ pc[t] = "user" /\ status[new] = "unborn"
      /\ status' = [status EXCEPT ![new] = "BLOCKED"]
      /\ pc' = [pc EXCEPT ![t] = "create_list", ![new] = "fresh"]
      /\ arg' = [arg EXCEPT ![t] = new]
      /\ UNCHANGED <<current, ready_threads, idle_thread, waiters>>
  BY DEF CreatePage, Runs, cpuVars, synchVars
<1>2. /\ status \in [Threads -> Status] /\ pc \in [Threads -> Places]
      /\ arg \in [Threads -> Threads \cup Semas \cup {NULL}]
      /\ pc[new] \in {"none", "boot", "thread_init"}
  BY <1>1 DEF TypeInv, TypeOK, UnbornPlaces
<1>3. t # new /\ status[t] = "RUNNING" /\ new \notin A
  BY <1>1 DEF Exact, CpuExact, BlockedExact
<1>4. CpuExact' /\ DyingExact' /\ BlockedExact(A)'
  BY <1>1, <1>2, <1>3 DEF Exact, CpuExact, DyingExact, BlockedExact
<1>5. ReadyExact'
  <2>1. \A u \in Threads : (status'[u] = "READY" <=> status[u] = "READY")
    BY <1>1, <1>2
  <2> QED
    BY <1>1, <2>1 DEF Exact, ReadyExact, InSeq
<1>6. WaitExact(A)'
  <2>1. \A u \in Threads, s \in Semas :
          (status[u] = "BLOCKED" /\ u \notin A /\ pc[u] = "wait" /\ arg[u] = s)'
          <=> status[u] = "BLOCKED" /\ u \notin A /\ pc[u] = "wait" /\ arg[u] = s
    <3> SUFFICES ASSUME NEW u \in Threads, NEW s \in Semas
                 PROVE  (status[u] = "BLOCKED" /\ u \notin A /\ pc[u] = "wait" /\ arg[u] = s)'
                        <=> status[u] = "BLOCKED" /\ u \notin A /\ pc[u] = "wait" /\ arg[u] = s
      OBVIOUS
    <3>1. CASE u = t \/ u = new
      BY <1>1, <1>2, <1>3, <3>1
    <3>2. CASE u # t /\ u # new
      BY <1>1, <1>2, <3>2
    <3> QED
      BY <3>1, <3>2
  <2> QED
    BY <1>1, <2>1, WaitFrame DEF Exact
<1>7. CreateExact(A)'
  <2>1. ~ UnderCreation(new)
    BY <1>1 DEF Exact, CreateExact
  <2>2. \A u \in Threads : UnderCreation(u)' <=> UnderCreation(u) \/ u = new
    BY <1>1, <1>2, <1>3 DEF UnderCreation
  <2>3. \A u \in Threads :
          UnderCreation(u)' <=> status'[u] = "BLOCKED" /\ u \notin A /\ pc'[u] = "fresh"
    BY <1>1, <1>2, <1>3, <2>2 DEF Exact, CreateExact
  <2>4. ASSUME NEW u \in Threads, NEW v \in Threads,
               pc'[u] \in Creating, pc'[v] \in Creating, arg'[u] = arg'[v]
        PROVE  u = v
    <3>1. CASE u # t /\ v # t
      BY <1>1, <1>2, <2>4, <3>1 DEF Exact, CreateExact, Creating
    <3>2. CASE u = t /\ v # t
      BY <1>1, <1>2, <2>1, <2>4, <3>2 DEF UnderCreation, Creating
    <3>3. CASE v = t /\ u # t
      BY <1>1, <1>2, <2>1, <2>4, <3>3 DEF UnderCreation, Creating
    <3> QED
      BY <3>1, <3>2, <3>3
  <2> QED
    BY <2>3, <2>4 DEF CreateExact
<1> QED
  BY <1>4, <1>5, <1>6, <1>7 DEF Exact

\* thread_create unblocks the new thread.
LEMMA CreateUnblockExact ==
  ASSUME TypeInv, IdleInv, NEW A, Exact(A), NEW t \in Threads,
         CreateUnblock(t), UNCHANGED synchVars
  PROVE  panic' = "none" /\ Exact(A)'
<1> DEFINE new == arg[t]
<1>1. /\ t = current /\ pc[t] = "create_unblock" /\ ThreadUnblock(new) /\ panic = "none"
      /\ pc' = [pc EXCEPT ![t] = "user"] /\ arg' = [arg EXCEPT ![t] = NULL]
      /\ UNCHANGED <<current, idle_thread, waiters>>
  BY DEF CreateUnblock, Runs, Return, Goto, synchVars
<1>2. /\ status \in [Threads -> Status] /\ pc \in [Threads -> Places]
      /\ arg \in [Threads -> Threads \cup Semas \cup {NULL}]
      /\ new \in Threads /\ idle_thread \in {NULL, Idle} /\ NULL \notin Threads
  BY <1>1, ThreadAssumption DEF TypeInv, TypeOK, ArgOK
<1>3. UnderCreation(new)
  BY <1>1 DEF UnderCreation
<1>4. status[new] = "BLOCKED" /\ pc[new] = "fresh" /\ new \notin A
  BY <1>2, <1>3 DEF Exact, CreateExact
<1>5. new # idle_thread /\ new # t /\ status[t] = "RUNNING"
  BY <1>1, <1>2, <1>4 DEF IdleInv, InIdle, Exact, CpuExact
<1> HIDE DEF new
<1>6. panic' = "none" /\ status' = [status EXCEPT ![new] = "READY"] /\ ReadyExact'
  BY <1>1, <1>2, <1>4, <1>5, UnblockReady
<1>7. CpuExact' /\ DyingExact' /\ BlockedExact(A)'
  BY <1>1, <1>2, <1>4, <1>5, <1>6 DEF Exact, CpuExact, DyingExact, BlockedExact
<1>8. WaitExact(A)'
  <2>1. \A u \in Threads, s \in Semas :
          (status[u] = "BLOCKED" /\ u \notin A /\ pc[u] = "wait" /\ arg[u] = s)'
          <=> status[u] = "BLOCKED" /\ u \notin A /\ pc[u] = "wait" /\ arg[u] = s
    BY <1>1, <1>2, <1>4, <1>5, <1>6
  <2> QED
    BY <1>1, <2>1, WaitFrame DEF Exact
<1>9. CreateExact(A)'
  <2>1. \A u \in Threads : pc'[u] \in Creating <=> pc[u] \in Creating /\ u # t
    BY <1>1, <1>2 DEF Creating
  <2>2. \A u \in Threads : UnderCreation(u)' <=> UnderCreation(u) /\ u # new
    BY <1>1, <1>2, <2>1 DEF Exact, CreateExact, UnderCreation, Creating, new
  <2>3. \A u \in Threads :
          UnderCreation(u)' <=> status'[u] = "BLOCKED" /\ u \notin A /\ pc'[u] = "fresh"
    BY <1>1, <1>2, <1>4, <1>5, <1>6, <2>2 DEF Exact, CreateExact
  <2>4. \A u, v \in Threads :
          pc'[u] \in Creating /\ pc'[v] \in Creating /\ arg'[u] = arg'[v] => u = v
    BY <1>1, <1>2, <2>1 DEF Exact, CreateExact
  <2> QED
    BY <2>3, <2>4 DEF CreateExact
<1> QED
  BY <1>6, <1>7, <1>8, <1>9 DEF Exact

\* sema_up wakes the thread that has waited longest, if one waits.
LEMMA SemaUpExact ==
  ASSUME TypeInv, IdleInv, NEW A, Exact(A), panic = "none", NEW t \in Threads,
         NEW s \in Semas, NEW p \in {"user", "idle_loop"}, SemaUp(t, s, p),
         current = t, pc[t] \notin Creating \cup {"exit", "dead"}
  PROVE  panic' = "none" /\ Exact(A)'
<1>1. /\ pc' = [pc EXCEPT ![t] = p] /\ arg' = [arg EXCEPT ![t] = NULL]
      /\ UNCHANGED <<current, idle_thread>>
  BY DEF SemaUp, Return, Goto
<1>2. /\ status \in [Threads -> Status] /\ pc \in [Threads -> Places]
      /\ arg \in [Threads -> Threads \cup Semas \cup {NULL}]
      /\ waiters \in [Semas -> Seq(Threads)]
      /\ idle_thread \in {NULL, Idle} /\ NULL \notin Threads
  BY ThreadAssumption DEF TypeInv, TypeOK
<1>3. CreateKept /\ pc'[t] \notin {"exit", "dead"}
  BY <1>1, <1>2 DEF CreateKept, Creating
<1>4. CASE waiters[s] = <<>>
  <2>1. UNCHANGED <<panic, status, ready_threads, waiters>>
    BY <1>4 DEF SemaUp, Wakes
  <2>2. Quiet
    BY <1>1, <1>2, <1>3, <2>1 DEF Quiet
  <2> QED
    BY <2>1, <2>2, QuietExact
<1>5. CASE waiters[s] # <<>>
  <2> DEFINE u == Head(waiters[s])
  <2>1. ThreadUnblock(u) /\ waiters' = [waiters EXCEPT ![s] = Tail(waiters[s])]
    BY <1>5 DEF SemaUp, Wakes, PoppedWaiters
  <2>2. waiters[s] \in Seq(Threads) /\ IsInjective(waiters[s])
    BY <1>2 DEF Exact, WaitExact
  <2>3. /\ u \in Threads /\ InSeq(u, waiters[s]) /\ IsInjective(Tail(waiters[s]))
        /\ \A x : InSeq(x, Tail(waiters[s])) <=> InSeq(x, waiters[s]) /\ x # u
    BY <1>5, <2>2, TailExact
  <2> HIDE DEF u
  <2>4. status[u] = "BLOCKED" /\ pc[u] = "wait" /\ arg[u] = s /\ u \notin A
    BY <2>3 DEF Exact, WaitExact
  <2>5. u # idle_thread /\ u # t /\ status[t] = "RUNNING"
    BY <1>2, <2>3, <2>4 DEF IdleInv, InIdle, Exact, CpuExact
  <2>6. panic' = "none" /\ status' = [status EXCEPT ![u] = "READY"] /\ ReadyExact'
    BY <1>1, <2>1, <2>3, <2>4, <2>5, UnblockReady
  <2>7. CpuExact'
    BY <1>1, <1>2, <1>3, <2>3, <2>4, <2>5, <2>6 DEF Exact, CpuExact
  <2>8. DyingExact' /\ BlockedExact(A)'
    BY <1>1, <1>2, <1>3, <2>3, <2>4, <2>5, <2>6 DEF Exact, DyingExact, BlockedExact
  <2>9. WaitExact(A)'
    <3> SUFFICES ASSUME NEW r \in Semas
                 PROVE  /\ IsInjective(waiters'[r])
                        /\ \A v \in Threads :
                             InSeq(v, waiters'[r]) <=>
                               status'[v] = "BLOCKED" /\ v \notin A /\ pc'[v] = "wait" /\ arg'[v] = r
      BY DEF WaitExact
    <3>1. /\ IsInjective(waiters[r])
          /\ \A v \in Threads :
               InSeq(v, waiters[r]) <=>
                 status[v] = "BLOCKED" /\ v \notin A /\ pc[v] = "wait" /\ arg[v] = r
      BY DEF Exact, WaitExact
    <3>2. ASSUME NEW v \in Threads
          PROVE  (status'[v] = "BLOCKED" /\ v \notin A /\ pc'[v] = "wait" /\ arg'[v] = r) <=>
                  status[v] = "BLOCKED" /\ v \notin A /\ pc[v] = "wait" /\ arg[v] = r /\ v # u
      BY <1>1, <1>2, <2>3, <2>5, <2>6
    <3>3. CASE r = s
      <4>1. waiters'[r] = Tail(waiters[r])
        BY <1>2, <2>1, <3>3
      <4> QED
        BY <2>3, <3>1, <3>2, <3>3, <4>1
    <3>4. CASE r # s
      <4>1. waiters'[r] = waiters[r] /\ arg[u] # r
        BY <1>2, <2>1, <2>4, <3>4
      <4> QED
        BY <3>1, <3>2, <4>1
    <3> QED
      BY <3>3, <3>4
  <2>10. CreateExact(A)'
    <3>1. \A v \in Threads : UnderCreation(v)' <=> UnderCreation(v)
      BY <1>3, KeptCreation
    <3>2. \A v \in Threads :
            (status'[v] = "BLOCKED" /\ v \notin A /\ pc'[v] = "fresh") <=>
             status[v] = "BLOCKED" /\ v \notin A /\ pc[v] = "fresh"
      BY <1>1, <1>2, <2>3, <2>4, <2>5, <2>6
    <3>3. \A v, w \in Threads :
            pc'[v] \in Creating /\ pc'[w] \in Creating /\ arg'[v] = arg'[w] => v = w
      BY <1>3 DEF Exact, CreateExact, CreateKept
    <3> QED
      BY <3>1, <3>2, <3>3 DEF Exact, CreateExact
  <2> QED
    BY <2>6, <2>7, <2>8, <2>9, <2>10 DEF Exact
<1> QED
  BY <1>4, <1>5

\* One round of sema_down's loop: the unit is there, or the thread blocks.
LEMMA DownLoopExact ==
  ASSUME TypeInv, IdleInv, NEW A, Exact(A), panic = "none", NEW t \in Threads,
         current = t, pc[t] \in {"down", "wait"}, NEW lvl, DownLoop(t, arg[t], lvl)
  PROVE  panic' = "none" /\ Exact(A)'
<1> DEFINE s == arg[t]
<1>1. /\ s \in Semas /\ pc \in [Threads -> Places] /\ status \in [Threads -> Status]
      /\ arg \in [Threads -> Threads \cup Semas \cup {NULL}] /\ value \in [Semas -> Nat]
      /\ idle_thread \in {NULL, Idle} /\ NULL \notin Threads
  BY ThreadAssumption DEF TypeInv, TypeOK, ArgOK
<1>2. CASE value[s] > 0
  <2>1. /\ UNCHANGED <<current, panic, listVars, waiters>>
        /\ \/ pc' = [pc EXCEPT ![t] = "user"] /\ arg' = [arg EXCEPT ![t] = NULL]
           \/ pc' = [pc EXCEPT ![t] = "acquired"] /\ UNCHANGED arg
    BY <1>1, <1>2 DEF DownLoop, AfterDown, Return, Goto
  <2>2. Quiet
    BY <1>1, <2>1 DEF Quiet, CreateKept, Creating, listVars
  <2> QED
    BY <2>1, <2>2, QuietExact
<1>3. CASE ~ (value[s] > 0)
  <2> DEFINE st == [status EXCEPT ![t] = "BLOCKED"]
  <2>1. /\ waiters' = [waiters EXCEPT ![s] = Append(@, t)]
        /\ Schedule(t, st, ready_threads) /\ pc' = [pc EXCEPT ![t] = "wait"]
        /\ UNCHANGED <<arg, idle_thread>>
    BY <1>3 DEF DownLoop, ThreadBlock, Goto
  <2>2. PICK next \in Threads : Switches(t, st, next)
    BY <2>1, LeaveSwitches DEF Booting
  <2>3. st \in [Threads -> Status] /\ st[t] = "BLOCKED" /\ st = [status EXCEPT ![t] = st[t]]
    BY <1>1 DEF Status
  <2>4. t # idle_thread /\ t \notin A
    BY <1>1 DEF IdleInv, InIdle, Exact, CpuExact, BlockedExact
  <2>5. CreateKept
    BY <1>1, <2>1 DEF CreateKept, Creating
  <2>6. /\ \A u \in Threads : u # t => pc'[u] = pc[u] /\ arg'[u] = arg[u]
        /\ pc'[t] = "wait" /\ arg'[t] = s
    BY <1>1, <2>1
  <2> HIDE DEF st
  <2>7. Exact(A)'
    BY <1>1, <2>1, <2>2, <2>3, <2>4, <2>5, <2>6, SwitchExact
  <2> QED
    BY <2>2, <2>7 DEF Switches
<1> QED
  BY <1>2, <1>3

\* The timer's handler, after thread_init: the thread goes on, or yields.
LEMMA TimerExact ==
  ASSUME TypeInv, BootInv, IdleInv, NEW A, Exact(A), Threaded, NEW svc,
         TimerHandler(current, svc), UNCHANGED synchVars
  PROVE  panic' = "none" /\ Exact(A)'
<1> DEFINE t == current
           st == [status EXCEPT ![t] = "READY"]
<1>1. /\ t \in Threads /\ pc \in [Threads -> Places] /\ status \in [Threads -> Status]
      /\ panic = "none"
  BY DEF TypeInv, TypeOK, Threaded
<1>2. status[t] \in {"RUNNING", "DYING"} /\ pc[t] # "dead"
  BY <1>1 DEF Exact, CpuExact, DyingExact
<1>3. /\ UNCHANGED <<arg, idle_thread, waiters>>
      /\ UNCHANGED pc \/ (pc[t] = "hlt" /\ pc' = [pc EXCEPT ![t] = "idle_loop"])
  BY DEF TimerHandler, Woken, Goto, synchVars
<1>4. /\ CreateKept /\ \A u \in Threads : u # t => pc'[u] = pc[u] /\ arg'[u] = arg[u]
      /\ pc'[t] # "dead" /\ (pc'[t] = pc[t] \/ {pc[t], pc'[t]} \cap {"exit", "dead"} = {})
  BY <1>1, <1>2, <1>3 DEF CreateKept, Creating
<1>5. CASE ~SliceOver
  <2>1. UNCHANGED <<current, panic, status, ready_threads>>
    BY <1>5 DEF TimerHandler
  <2>2. Quiet
    BY <1>3, <1>4, <2>1 DEF Quiet
  <2> QED
    BY <1>1, <2>1, <2>2, QuietExact
<1>6. CASE SliceOver
  <2>1. ThreadYield(t)
    BY <1>2, <1>6 DEF TimerHandler
  <2>2. PICK next \in Threads : Switches(t, st, next)
    BY <1>1, <2>1, YieldSwitches
  <2>3. st \in [Threads -> Status] /\ st[t] = "READY" /\ st = [status EXCEPT ![t] = st[t]]
    BY <1>1 DEF Status
  <2> HIDE DEF st
  <2>4. Exact(A)'
    BY <1>1, <1>3, <1>4, <2>2, <2>3, SwitchExact
  <2> QED
    BY <2>2, <2>4 DEF Switches
<1> QED
  BY <1>5, <1>6

\* thread_yield as a thread function calls it.
LEMMA CallYieldExact ==
  ASSUME TypeInv, IdleInv, NEW A, Exact(A), NEW t \in Threads, CallYield(t),
         UNCHANGED synchVars
  PROVE  panic' = "none" /\ Exact(A)'
<1> DEFINE st == [status EXCEPT ![t] = "READY"]
<1>1. /\ t = current /\ pc[t] = "user" /\ panic = "none" /\ ThreadYield(t)
      /\ pc' = [pc EXCEPT ![t] = "yield"] /\ UNCHANGED <<arg, idle_thread, waiters>>
  BY DEF CallYield, Runs, Goto, synchVars
<1>2. pc \in [Threads -> Places] /\ status \in [Threads -> Status]
  BY DEF TypeInv, TypeOK
<1>3. PICK next \in Threads : Switches(t, st, next)
  BY <1>1, YieldSwitches
<1>4. st \in [Threads -> Status] /\ st[t] = "READY" /\ st = [status EXCEPT ![t] = st[t]]
  BY <1>2 DEF Status
<1>5. /\ CreateKept /\ \A u \in Threads : u # t => pc'[u] = pc[u] /\ arg'[u] = arg[u]
      /\ pc'[t] = "yield"
  BY <1>1, <1>2 DEF CreateKept, Creating
<1> HIDE DEF st
<1>6. Exact(A)'
  BY <1>1, <1>3, <1>4, <1>5, SwitchExact
<1> QED
  BY <1>3, <1>6 DEF Switches

\* The end of run(): when the timer has not come in between, the thread is dead
\* now; when it has, schedule's assertion fires.
LEMMA RunScheduleExact ==
  ASSUME TypeInv, IdleInv, NEW A, Exact(A), NEW t \in Threads, RunSchedule(t),
         UNCHANGED synchVars
  PROVE  \/ panic' = "current process is still running" /\ status[t] = "RUNNING"
         \/ panic' = "none" /\ Exact(A)'
<1>1. /\ t = current /\ pc[t] = "exit" /\ panic = "none"
      /\ Schedule(t, status, ready_threads)
      /\ pc' = [pc EXCEPT ![t] = "dead"] /\ UNCHANGED <<arg, idle_thread, waiters>>
  BY DEF RunSchedule, Runs, Goto, synchVars
<1>2. /\ pc \in [Threads -> Places] /\ status \in [Threads -> Status]
      /\ idle_thread \in {NULL, Idle} /\ NULL \notin Threads
  BY ThreadAssumption DEF TypeInv, TypeOK
<1>3. CASE status[t] = "RUNNING"
  BY <1>1, <1>3 DEF Schedule
<1>4. CASE status[t] # "RUNNING"
  <2> DEFINE st == [status EXCEPT ![t] = "DYING"]
  <2>1. status[t] = "DYING"
    BY <1>1, <1>4 DEF Exact, CpuExact
  <2>2. st = status /\ st[t] = "DYING"
    BY <1>2, <2>1
  <2>3. PICK next \in Threads : Switches(t, st, next)
    BY <1>1, <2>2, LeaveSwitches DEF Booting
  <2>4. /\ CreateKept /\ \A u \in Threads : u # t => pc'[u] = pc[u] /\ arg'[u] = arg[u]
        /\ pc'[t] = "dead" /\ t # idle_thread
    BY <1>1, <1>2 DEF CreateKept, Creating, IdleInv, InIdle
  <2>5. st \in [Threads -> Status] /\ st = [status EXCEPT ![t] = st[t]]
    BY <1>2, <2>2
  <2> HIDE DEF st
  <2>6. Exact(A)'
    BY <1>1, <2>2, <2>3, <2>4, <2>5, SwitchExact
  <2> QED
    BY <2>3, <2>6 DEF Switches
<1> QED
  BY <1>3, <1>4

\* The idle thread gives the CPU away.
LEMMA IdleBlockExact ==
  ASSUME TypeInv, IdleInv, NEW A, Exact(A), NEW t \in Threads, IdleBlock(t),
         UNCHANGED synchVars
  PROVE  panic' = "none" /\ Exact(A)'
<1> DEFINE st == [status EXCEPT ![t] = "BLOCKED"]
<1>1. /\ t = current /\ pc[t] = "idle_loop" /\ panic = "none"
      /\ Schedule(t, st, ready_threads)
      /\ pc' = [pc EXCEPT ![t] = "idle_blocked"] /\ UNCHANGED <<arg, idle_thread, waiters>>
  BY DEF IdleBlock, ThreadBlock, Runs, Goto, synchVars
<1>2. /\ pc \in [Threads -> Places] /\ status \in [Threads -> Status]
      /\ idle_thread \in {NULL, Idle} /\ NULL \notin Threads
  BY ThreadAssumption DEF TypeInv, TypeOK
<1>3. t = idle_thread
  BY <1>1, <1>2 DEF TypeInv, IdlePlaces, IdleInv
<1>4. PICK next \in Threads : Switches(t, st, next)
  BY <1>1, LeaveSwitches DEF Booting
<1>5. st \in [Threads -> Status] /\ st[t] = "BLOCKED" /\ st = [status EXCEPT ![t] = st[t]]
  BY <1>2 DEF Status
<1>6. /\ CreateKept /\ \A u \in Threads : u # t => pc'[u] = pc[u] /\ arg'[u] = arg[u]
      /\ pc'[t] = "idle_blocked"
  BY <1>1, <1>2 DEF CreateKept, Creating
<1> HIDE DEF st
<1>7. Exact(A)'
  BY <1>1, <1>3, <1>4, <1>5, <1>6, SwitchExact
<1> QED
  BY <1>4, <1>7 DEF Switches

\* The function of a thread returns, and the idle thread makes itself known.
LEMMA MarkExact ==
  ASSUME TypeInv, IdleInv, NEW A, Exact(A), NEW t \in Threads, RunReturn(t) \/ IdleStart(t),
         UNCHANGED synchVars
  PROVE  panic' = "none" /\ Exact(A)'
<1>1. /\ pc \in [Threads -> Places] /\ status \in [Threads -> Status]
      /\ arg \in [Threads -> Threads \cup Semas \cup {NULL}]
      /\ idle_thread \in {NULL, Idle} /\ NULL \notin Threads
  BY ThreadAssumption DEF TypeInv, TypeOK
<1>2. /\ t = current /\ pc[t] \in {"user", "idle"} /\ panic = "none"
      /\ UNCHANGED <<current, arg, panic, ready_threads, waiters>>
      /\ \/ /\ status' = [status EXCEPT ![t] = "DYING"] /\ pc' = [pc EXCEPT ![t] = "exit"]
            /\ UNCHANGED idle_thread
         \/ /\ pc[t] = "idle" /\ UNCHANGED status /\ idle_thread' = t
            /\ pc' = [pc EXCEPT ![t] = "idle_up"]
  BY DEF RunReturn, IdleStart, Runs, Goto, cpuVars, synchVars
<1>3. status[t] = "RUNNING" /\ t \notin A /\ ~ InSeq(t, ready_threads)
  BY <1>2 DEF Exact, CpuExact, BlockedExact, ReadyExact
<1>4. CreateKept
  BY <1>1, <1>2 DEF CreateKept, Creating
<1>5. idle_thread' # idle_thread => idle_thread = NULL
  BY <1>1, <1>2 DEF TypeInv, IdleInv, InIdle, IdlePlaces
<1>6. CpuExact' /\ DyingExact' /\ BlockedExact(A)'
  BY <1>1, <1>2, <1>3, <1>5 DEF Exact, CpuExact, DyingExact, BlockedExact
<1>7. ReadyExact'
  <2>1. \A u \in Threads :
          (status'[u] = "READY" /\ u # idle_thread') <=> status[u] = "READY" /\ u # idle_thread
    BY <1>1, <1>2, <1>3, <1>5
  <2> QED
    BY <1>2, <2>1 DEF Exact, ReadyExact
<1>8. WaitExact(A)'
  <2>1. \A u \in Threads, s \in Semas :
          (status[u] = "BLOCKED" /\ u \notin A /\ pc[u] = "wait" /\ arg[u] = s)'
          <=> status[u] = "BLOCKED" /\ u \notin A /\ pc[u] = "wait" /\ arg[u] = s
    BY <1>1, <1>2, <1>3
  <2> QED
    BY <1>2, <2>1, WaitFrame DEF Exact
<1>9. CreateExact(A)'
  <2>1. \A v \in Threads : UnderCreation(v)' <=> UnderCreation(v)
    BY <1>4, KeptCreation
  <2>2. \A v \in Threads :
          (status'[v] = "BLOCKED" /\ v \notin A /\ pc'[v] = "fresh") <=>
           status[v] = "BLOCKED" /\ v \notin A /\ pc[v] = "fresh"
    BY <1>1, <1>2, <1>3
  <2>3. \A v, w \in Threads :
          pc'[v] \in Creating /\ pc'[w] \in Creating /\ arg'[v] = arg'[w] => v = w
    BY <1>4 DEF Exact, CreateExact, CreateKept
  <2> QED
    BY <2>1, <2>2, <2>3 DEF Exact, CreateExact
<1> QED
  BY <1>2, <1>6, <1>7, <1>8, <1>9 DEF Exact

-------------------------------------------------------------------------------
(* Every step. *)

\* What a thread does leaves the idle thread in idle() and the kernel thread
\* past boot().
LEMMA ThreadPlaces ==
  ASSUME TypeInv, IdleInv, pc[Kernel] # "none", NEW t \in Threads, Call(t) \/ Continue(t)
  PROVE  IdleInv' /\ pc'[Kernel] # "none"
<1>1. /\ pc \in [Threads -> Places] /\ Kernel \in Threads /\ Idle \in Threads
      /\ Kernel # Idle /\ idle_thread \in {NULL, Idle} /\ NULL \notin Threads
  BY ThreadAssumption DEF TypeInv, TypeOK
<1> DEFINE Goal == IdleInv' /\ pc'[Kernel] # "none"
<1> USE <1>1 DEF Runs, Goto, Return, IdleInv, InIdle
<1>2. CASE SoftwareTick(t)
  BY <1>2 DEF SoftwareTick, TimerHandler, Woken
<1>3. CASE IntDisable(t) \/ IntEnable(t) \/ CallYield(t) \/ RunReturn(t)
  BY <1>3 DEF IntDisable, IntEnable, CallYield, RunReturn, Chosen, callVars, listVars
<1>4. ASSUME NEW new \in Threads \ {Idle}, CreatePage(t, new) PROVE Goal
  BY <1>4 DEF CreatePage
<1>5. CASE YieldReturn(t) \/ CreateList(t) \/ CreateTail(t) \/ CreateLink(t) \/ CreateUnblock(t) \/ Run(t) \/ RunSchedule(t)
  BY <1>5 DEF YieldReturn, CreateList, CreateTail, CreateLink, CreateUnblock, Run, RunSchedule, listVars
<1>6. CASE IdleStart(t) \/ IdleBlock(t) \/ IdleHalt(t)
  BY <1>6 DEF IdleStart, IdleBlock, IdleHalt, listVars, TypeInv, IdlePlaces
<1>7. ASSUME NEW s, CallDown(t, s) \/ CallUp(t, s) PROVE Goal
  BY <1>7 DEF CallDown, CallUp, SemaUp, listVars
<1>8. ASSUME NEW l, LockAcquire(t, l) \/ LockRelease(t, l) PROVE Goal
  BY <1>8 DEF LockAcquire, LockRelease, listVars
<1>9. CASE SemaDown(t) \/ SemaDownResume(t)
  BY <1>9 DEF SemaDown, SemaDownResume, DownLoop, AfterDown, listVars
<1>10. CASE IdleUp(t) \/ LockAcquired(t) \/ LockReleased(t)
  BY <1>10 DEF IdleUp, LockAcquired, LockReleased, SemaUp, listVars
<1> QED
  BY <1>2, <1>3, <1>4, <1>5, <1>6, <1>7, <1>8, <1>9, <1>10 DEF Call, Continue

\* A thread that takes a step is past boot().
LEMMA ThreadThreaded ==
  ASSUME TypeInv, BootInv, pc[Kernel] # "none", NEW t \in Threads, Call(t) \/ Continue(t)
  PROVE  Threaded /\ pc'[Kernel] \notin Booting
<1>1. pc[Kernel] \notin Booting /\ pc'[Kernel] \notin Booting
  BY PastBoot DEF BootInv, Booting
<1>2. status[Kernel] # "unborn"
  BY <1>1, ThreadAssumption DEF TypeInv, UnbornPlaces, Booting
<1>3. panic = "none"
  <2> USE DEF Runs
  <2>1. CASE Call(t)
    BY <2>1 DEF Call, SoftwareTick, IntDisable, IntEnable, CallYield, CreatePage, RunReturn,
                CallDown, CallUp, LockAcquire, LockRelease
  <2>2. CASE Continue(t)
    BY <2>2 DEF Continue, YieldReturn, CreateList, CreateTail, CreateLink, CreateUnblock, Run, RunSchedule, IdleStart,
                IdleBlock, IdleHalt, SemaDown, SemaDownResume, IdleUp, LockAcquired, LockReleased
  <2> QED
    BY <2>1, <2>2
<1> QED
  BY <1>1, <1>2, <1>3 DEF Threaded

\* What a thread function calls.
LEMMA CallExact ==
  ASSUME TypeInv, BootInv, IdleInv, NEW A, Exact(A), Threaded, NEW t \in Threads, Call(t),
         panic' = "none"
  PROVE  Exact(A)'
<1>1. /\ pc \in [Threads -> Places] /\ current \in Threads
      /\ arg \in [Threads -> Threads \cup Semas \cup {NULL}]
  BY DEF TypeInv, TypeOK
<1> USE DEF Runs, Goto, listVars, synchVars
<1>2. ASSUME SoftwareTick(t), UNCHANGED synchVars PROVE Exact(A)'
  BY <1>2, TimerExact DEF SoftwareTick
<1>3. ASSUME IntDisable(t) \/ IntEnable(t), UNCHANGED synchVars PROVE Exact(A)'
  <2>1. Quiet
    BY <1>1, <1>3 DEF IntDisable, IntEnable, Chosen, callVars, Quiet, CreateKept
  <2> QED
    BY <2>1, QuietExact
<1>4. ASSUME CallYield(t), UNCHANGED synchVars PROVE Exact(A)'
  BY <1>4, CallYieldExact
<1>5. ASSUME NEW new \in Threads \ {Idle}, CreatePage(t, new), UNCHANGED synchVars
      PROVE  Exact(A)'
  BY <1>5, CreatePageExact
<1>6. ASSUME RunReturn(t), UNCHANGED synchVars PROVE Exact(A)'
  BY <1>6, MarkExact
<1>7. ASSUME NEW s \in Semas, CallDown(t, s) PROVE Exact(A)'
  <2>1. Quiet
    BY <1>1, <1>7 DEF CallDown, cpuVars, Quiet, CreateKept, Creating
  <2> QED
    BY <2>1, QuietExact
<1>8. ASSUME NEW s \in Semas, CallUp(t, s) PROVE Exact(A)'
  <2>1. /\ SemaUp(t, s, "user") /\ current = t /\ panic = "none"
        /\ pc[t] \notin Creating \cup {"exit", "dead"}
    BY <1>8 DEF CallUp, Creating
  <2> QED
    BY <2>1, SemaUpExact
<1>9. ASSUME NEW l \in Locks, LockAcquire(t, l) \/ LockRelease(t, l) PROVE Exact(A)'
  <2>1. CASE pc' = pc /\ arg' = arg
    <3>1. Quiet
      BY <1>1, <1>9, <2>1 DEF LockAcquire, LockRelease, Quiet, CreateKept
    <3> QED
      BY <3>1, QuietExact
  <2>2. CASE \E p \in {"down", "release"} :
               pc' = [pc EXCEPT ![t] = p] /\ arg' = [arg EXCEPT ![t] = l]
    <3>1. Quiet
      BY <1>1, <1>9, <2>2 DEF LockAcquire, LockRelease, Quiet, CreateKept, Creating
    <3> QED
      BY <3>1, QuietExact
  <2> QED
    BY <1>9, <2>1, <2>2 DEF LockAcquire, LockRelease
<1> QED
  BY <1>2, <1>3, <1>4, <1>5, <1>6, <1>7, <1>8, <1>9 DEF Call

\* What a thread does inside a call.
LEMMA ContinueExact ==
  ASSUME TypeInv, BootInv, IdleInv, NEW A, Exact(A), Threaded, NEW t \in Threads, Continue(t),
         panic' = "none"
  PROVE  Exact(A)'
<1>1. /\ pc \in [Threads -> Places] /\ current \in Threads
      /\ arg \in [Threads -> Threads \cup Semas \cup {NULL}]
  BY DEF TypeInv, TypeOK
<1> USE DEF Runs, Goto, Return, listVars, synchVars
<1>2. ASSUME YieldReturn(t) \/ CreateList(t) \/ CreateTail(t) \/ CreateLink(t) \/ Run(t) \/ IdleHalt(t), UNCHANGED synchVars
      PROVE  Exact(A)'
  <2>1. Quiet
    BY <1>1, <1>2 DEF YieldReturn, CreateList, CreateTail, CreateLink, Run, IdleHalt, cpuVars, Quiet, CreateKept, Creating
  <2> QED
    BY <2>1, QuietExact
<1>3. ASSUME CreateUnblock(t), UNCHANGED synchVars PROVE Exact(A)'
  BY <1>3, CreateUnblockExact
<1>4. ASSUME RunSchedule(t), UNCHANGED synchVars PROVE Exact(A)'
  BY <1>4, RunScheduleExact
<1>5. ASSUME IdleStart(t), UNCHANGED synchVars PROVE Exact(A)'
  BY <1>5, MarkExact
<1>6. ASSUME IdleBlock(t), UNCHANGED synchVars PROVE Exact(A)'
  BY <1>6, IdleBlockExact
<1>7. CASE SemaDown(t) \/ SemaDownResume(t)
  BY <1>7, DownLoopExact DEF SemaDown, SemaDownResume
<1>8. CASE IdleUp(t)
  <2>1. InitStarted \in Semas /\ pc[t] = "idle_up" /\ current = t /\ panic = "none"
    BY <1>8, SynchAssumption DEF IdleUp
  <2> QED
    BY <1>8, <2>1, SemaUpExact DEF IdleUp, Creating
<1>9. CASE LockAcquired(t)
  <2>1. Quiet
    BY <1>1, <1>9 DEF LockAcquired, cpuVars, Quiet, CreateKept, Creating
  <2> QED
    BY <2>1, QuietExact
<1>10. CASE LockReleased(t)
  <2>1. arg[t] \in Semas /\ pc[t] = "release" /\ current = t /\ panic = "none"
    BY <1>10, SynchAssumption DEF LockReleased, TypeInv, ArgOK
  <2> QED
    BY <1>10, <2>1, SemaUpExact DEF LockReleased, Creating
<1> QED
  BY <1>2, <1>3, <1>4, <1>5, <1>6, <1>7, <1>8, <1>9, <1>10 DEF Continue

\* Every step of the kernel keeps the invariant; A is any set of threads put aside.
LEMMA NextPlaceInv ==
  ASSUME TypeInv, BootInv, NEW A, PlaceInv(A), [Next]_vars
  PROVE  PlaceInv(A)'
<1>1. /\ pc \in [Threads -> Places] /\ current \in Threads /\ Kernel \in Threads
      /\ Idle \in Threads /\ Kernel # Idle /\ idle_thread \in {NULL, Idle}
      /\ arg \in [Threads -> Threads \cup Semas \cup {NULL}]
  BY ThreadAssumption DEF TypeInv, TypeOK
<1>2. status[Kernel] = "unborn" <=> pc[Kernel] \in Booting
  BY <1>1 DEF PlaceInv, BootLists, Booting, BootInv, TypeInv, UnbornPlaces
<1>3. CASE UNCHANGED vars
  <2> USE <1>3 DEF vars, threadVars, cpuVars, callVars, listVars, synchVars
  <2>1. BootLists(A)' /\ IdleInv'
    BY DEF PlaceInv, BootLists, IdleInv
  <2>2. Quiet
    BY DEF Quiet, CreateKept
  <2>3. Threaded' <=> Threaded
    BY DEF Threaded
  <2> QED
    BY <2>1, <2>2, <2>3, QuietExact DEF PlaceInv
<1>4. CASE IdtInit
  <2> USE <1>4 DEF IdtInit, Runs, Goto, listVars, synchVars
  <2>1. BootLists(A)' /\ IdleInv'
    BY <1>1 DEF PlaceInv, BootLists, IdleInv, Booting
  <2>2. ~ Threaded'
    BY <1>2 DEF Threaded, Booting
  <2> QED
    BY <2>1, <2>2 DEF PlaceInv
<1>5. CASE ThreadInit
  <2>1. A = {} /\ idle_thread = NULL
    BY <1>5 DEF PlaceInv, BootLists, Booting, ThreadInit, Runs
  <2>2. Exact({})'
    BY <1>5, <2>1, ThreadInitExact DEF PlaceInv
  <2>3. BootLists(A)' /\ IdleInv'
    BY <1>1, <1>5, <2>1, ThreadAssumption
      DEF ThreadInit, synchVars, BootLists, IdleInv, Booting, InIdle
  <2> QED
    BY <2>1, <2>2, <2>3 DEF PlaceInv
<1>6. ASSUME HardwareTick, UNCHANGED synchVars PROVE PlaceInv(A)'
  <2>1. /\ TimerHandler(current, TRUE) /\ panic = "none" /\ UNCHANGED <<idle_thread, waiters>>
        /\ UNCHANGED pc \/ (pc[current] = "hlt" /\ pc' = [pc EXCEPT ![current] = "idle_loop"])
    BY <1>6 DEF HardwareTick, IrqAccepted, TimerHandler, Woken, Goto, synchVars
  <2>2. BootLists(A)' /\ IdleInv'
    BY <1>1, <2>1 DEF PlaceInv, BootLists, IdleInv, Booting, InIdle, TypeInv, IdlePlaces
  <2>3. CASE Threaded
    BY <1>6, <2>1, <2>2, <2>3, TimerExact DEF PlaceInv
  <2>4. CASE ~ Threaded
    <3>1. status[current] = "unborn"
      BY <1>1, <1>2, <2>1, <2>4 DEF Threaded, BootInv, Booting
    <3>2. status' = status
      BY <2>1, <3>1 DEF TimerHandler
    <3> QED
      BY <2>1, <2>2, <2>4, <3>2 DEF PlaceInv, Threaded
  <2> QED
    BY <2>3, <2>4
<1>7. ASSUME OtherIrq \/ Resume, UNCHANGED synchVars PROVE PlaceInv(A)'
  <2>1. /\ UNCHANGED <<panic, current, arg, status, ready_threads, idle_thread, waiters>>
        /\ UNCHANGED pc \/ (pc[current] = "hlt" /\ pc' = [pc EXCEPT ![current] = "idle_loop"])
    BY <1>7 DEF OtherIrq, Resume, TickReturn, Woken, Goto, cpuVars, listVars, synchVars
  <2>2. BootLists(A)' /\ IdleInv'
    BY <1>1, <2>1 DEF PlaceInv, BootLists, IdleInv, Booting, InIdle, TypeInv, IdlePlaces
  <2>3. Quiet
    BY <1>1, <2>1 DEF Quiet, CreateKept, Creating
  <2>4. Threaded' <=> Threaded
    BY <2>1 DEF Threaded
  <2> QED
    BY <2>2, <2>3, <2>4, QuietExact DEF PlaceInv
<1>8. ASSUME NEW t \in Threads, Call(t) \/ Continue(t) PROVE PlaceInv(A)'
  <2>1. pc[Kernel] # "none" /\ IdleInv
    BY DEF PlaceInv, BootLists
  <2>2. IdleInv' /\ pc'[Kernel] # "none"
    BY <1>8, <2>1, ThreadPlaces
  <2>3. Threaded /\ pc'[Kernel] \notin Booting
    BY <1>8, <2>1, ThreadThreaded
  <2>4. Exact(A)
    BY <2>3 DEF PlaceInv
  <2>5. Threaded' => Exact(A)'
    BY <1>8, <2>1, <2>3, <2>4, CallExact, ContinueExact DEF Threaded
  <2> QED
    BY <2>2, <2>3, <2>5 DEF PlaceInv, BootLists
<1> QED
  BY <1>3, <1>4, <1>5, <1>6, <1>7, <1>8 DEF Next, Boot, Irq, Resume, Compute, Halted

LEMMA InitPlaceInv == Init => PlaceInv({})
  BY ThreadAssumption
    DEF Init, SynchInit, PlaceInv, BootLists, IdleInv, Threaded, Booting

LEMMA SpecPlaceInv == Spec => [](TypeInv /\ BootInv /\ PlaceInv({}))
<1>1. Spec => [](TypeInv /\ BootInv)
  BY SpecLockTypeInv, PTL DEF LockTypeInv
<1>2. (TypeInv /\ BootInv) /\ PlaceInv({}) /\ [Next]_vars => PlaceInv({})'
  BY NextPlaceInv
<1> QED
  BY <1>1, <1>2, InitPlaceInv, PTL DEF Spec

-------------------------------------------------------------------------------
(* One place. *)

LEMMA PositionsExact ==
  ASSUME NEW q, IsInjective(q), NEW t
  PROVE  IF InSeq(t, q) THEN \E i : Positions(q, t) = {i} ELSE Positions(q, t) = {}
<1>1. CASE InSeq(t, q)
  <2>1. PICK i \in DOMAIN q : q[i] = t
    BY <1>1 DEF InSeq
  <2>2. Positions(q, t) = {i}
    BY <2>1 DEF Positions, IsInjective
  <2> QED
    BY <1>1, <2>2
<1>2. CASE ~ InSeq(t, q)
  BY <1>2 DEF InSeq, Positions
<1> QED
  BY <1>1, <1>2

\* The kernel has one hold on every thread that lives and is not put aside.
LEMMA HoldsExact ==
  ASSUME TypeInv, IdleInv, NEW A, Exact(A), NEW t \in Threads
  PROVE  IF status[t] = "unborn" \/ pc[t] = "dead" \/ t \in A
         THEN Holds(t) = {}
         ELSE \E h : Holds(t) = {h}
<1> DEFINE cpu    == {<<"cpu", i>> : i \in {j \in {0} : current = t}}
           idle   == {<<"idle", i>> : i \in {j \in {0} : idle_thread = t /\ current # t}}
           create == {<<"create", i>> : i \in {j \in {0} : UnderCreation(t)}}
           ready  == {<<"ready", i>> : i \in Positions(ready_threads, t)}
           wait   == UNION {{<<s, i>> : i \in Positions(waiters[s], t)} : s \in Semas}
<1>1. Holds(t) = cpu \cup idle \cup create \cup ready \cup wait
  BY DEF Holds
<1>2. /\ current = t => cpu = {<<"cpu", 0>>}
      /\ current # t => cpu = {}
  OBVIOUS
<1>3. /\ idle_thread = t /\ current # t => idle = {<<"idle", 0>>}
      /\ ~ (idle_thread = t /\ current # t) => idle = {}
  OBVIOUS
<1>4. /\ UnderCreation(t) => create = {<<"create", 0>>}
      /\ ~ UnderCreation(t) => create = {}
  OBVIOUS
<1>5. /\ InSeq(t, ready_threads) => \E h : ready = {h}
      /\ ~ InSeq(t, ready_threads) => ready = {}
  <2>1. IF InSeq(t, ready_threads)
        THEN \E i : Positions(ready_threads, t) = {i}
        ELSE Positions(ready_threads, t) = {}
    BY PositionsExact DEF Exact, ReadyExact
  <2>2. ASSUME NEW i, Positions(ready_threads, t) = {i} PROVE ready = {<<"ready", i>>}
    BY <2>2
  <2>3. Positions(ready_threads, t) = {} => ready = {}
    OBVIOUS
  <2> HIDE DEF ready
  <2> QED
    BY <2>1, <2>2, <2>3
<1>6. /\ \A s \in Semas : InSeq(t, waiters[s]) => \E h : wait = {h}
      /\ (\A s \in Semas : ~ InSeq(t, waiters[s])) => wait = {}
  <2>1. \A s \in Semas : IsInjective(waiters[s])
    BY DEF Exact, WaitExact
  <2>2. \A s \in Semas : ~ InSeq(t, waiters[s]) => Positions(waiters[s], t) = {}
    BY <2>1, PositionsExact
  <2>3. ASSUME NEW s \in Semas, InSeq(t, waiters[s]) PROVE \E h : wait = {h}
    <3>1. PICK i : Positions(waiters[s], t) = {i}
      BY <2>1, <2>3, PositionsExact
    <3>2. \A r \in Semas : r # s => Positions(waiters[r], t) = {}
      BY <2>2, <2>3 DEF Exact, WaitExact
    <3>3. wait = {<<s, i>>}
      BY <3>1, <3>2
    <3> QED
      BY <3>3
  <2> QED
    BY <2>2, <2>3
<1> HIDE DEF cpu, idle, create, ready, wait
<1>7. /\ t = current <=> status[t] = "RUNNING" \/ (status[t] = "DYING" /\ pc[t] = "exit")
      /\ InSeq(t, ready_threads) <=> status[t] = "READY" /\ t # idle_thread
      /\ UnderCreation(t) <=> status[t] = "BLOCKED" /\ t \notin A /\ pc[t] = "fresh"
      /\ \A s \in Semas :
           InSeq(t, waiters[s]) <=> status[t] = "BLOCKED" /\ t \notin A /\ pc[t] = "wait" /\ arg[t] = s
      /\ t \in A => status[t] = "BLOCKED" /\ t # Idle
      /\ status[t] = "BLOCKED" =>
           t \in A \/ pc[t] \in {"wait", "fresh"} \/ (t = idle_thread /\ pc[t] = "idle_blocked")
      /\ status[t] = "DYING" => pc[t] \in {"exit", "dead"}
      /\ pc[t] = "dead" => status[t] = "DYING"
  BY DEF Exact, CpuExact, ReadyExact, WaitExact, CreateExact, BlockedExact, DyingExact
<1>8. /\ t = idle_thread => t = Idle /\ pc[t] \in InIdle
      /\ status[t] = "unborn" => pc[t] \in {"none", "boot", "thread_init"}
      /\ status[t] \in Status
      /\ pc[t] = "wait" => arg[t] \in Semas
  BY ThreadAssumption DEF TypeInv, TypeOK, ArgOK, IdleInv, UnbornPlaces
<1>9. CASE status[t] = "unborn"
  BY <1>1, <1>2, <1>3, <1>4, <1>5, <1>6, <1>7, <1>8, <1>9 DEF InIdle
<1>10. CASE status[t] = "RUNNING"
  BY <1>1, <1>2, <1>3, <1>4, <1>5, <1>6, <1>7, <1>10
<1>11. CASE status[t] = "READY"
  BY <1>1, <1>2, <1>3, <1>4, <1>5, <1>6, <1>7, <1>11
<1>12. CASE status[t] = "BLOCKED"
  <2>1. cpu = {} /\ ready = {}
    BY <1>2, <1>5, <1>7, <1>12
  <2>2. CASE t \in A
    <3>1. idle = {} /\ create = {} /\ wait = {}
      BY <1>3, <1>4, <1>6, <1>7, <1>8, <2>2
    <3> QED
      BY <1>1, <2>1, <2>2, <3>1
  <2>3. CASE t \notin A /\ pc[t] = "wait"
    <3>1. idle = {} /\ create = {} /\ \E h : wait = {h}
      BY <1>3, <1>4, <1>6, <1>7, <1>8, <1>12, <2>3 DEF InIdle
    <3> QED
      BY <1>1, <1>12, <2>1, <2>3, <3>1
  <2>4. CASE t \notin A /\ pc[t] = "fresh"
    <3>1. idle = {} /\ create = {<<"create", 0>>} /\ wait = {}
      BY <1>3, <1>4, <1>6, <1>7, <1>8, <1>12, <2>4 DEF InIdle
    <3> QED
      BY <1>1, <1>12, <2>1, <2>4, <3>1
  <2>5. CASE t \notin A /\ t = idle_thread /\ pc[t] = "idle_blocked"
    <3>1. idle = {<<"idle", 0>>} /\ create = {} /\ wait = {}
      BY <1>3, <1>4, <1>6, <1>7, <1>12, <2>5
    <3> QED
      BY <1>1, <1>12, <2>1, <2>5, <3>1
  <2> QED
    BY <1>7, <1>12, <2>2, <2>3, <2>4, <2>5
<1>13. CASE status[t] = "DYING"
  BY <1>1, <1>2, <1>3, <1>4, <1>5, <1>6, <1>7, <1>8, <1>13 DEF InIdle
<1> QED
  BY <1>8, <1>9, <1>10, <1>11, <1>12, <1>13 DEF Status

\* Every thread is in exactly one place - on the CPU, in the ready queue, in one
\* waiting list, idle, or under creation - and a dead one in none: no switch,
\* wake-up, creation or kill loses a thread or puts it into two lists.
THEOREM OnePlaceEach == Spec => []OnePlace
<1>1. TypeInv /\ BootInv /\ PlaceInv({}) => OnePlace
  <2> SUFFICES ASSUME TypeInv, PlaceInv({}), Threaded, NEW t \in Threads
               PROVE  Cardinality(Holds(t)) =
                        IF status[t] = "unborn" \/ pc[t] = "dead" THEN 0 ELSE 1
    BY DEF OnePlace, Threaded
  <2>1. IF status[t] = "unborn" \/ pc[t] = "dead" THEN Holds(t) = {} ELSE \E h : Holds(t) = {h}
    BY HoldsExact DEF PlaceInv
  <2> QED
    BY <2>1, FS_EmptySet, FS_Singleton
<1> QED
  BY <1>1, SpecPlaceInv, PTL

-------------------------------------------------------------------------------
(* The assertions of schedule and thread_unblock. *)

\* Only a thread whose function returned is between run()'s mark and its death.
ExitInv == \A t \in Threads : pc[t] = "exit" => "exit" \in Ops

LEMMA NextExitInv == TypeInv /\ ExitInv /\ [Next]_vars => ExitInv'
<1> SUFFICES ASSUME TypeInv, ExitInv, [Next]_vars PROVE ExitInv'
  OBVIOUS
<1>1. pc \in [Threads -> Places]
  BY DEF TypeInv, TypeOK
<1> USE <1>1 DEF ExitInv, Runs, Goto, Return
<1>2. CASE UNCHANGED vars
  BY <1>2 DEF vars, threadVars, callVars
<1>3. CASE Boot
  BY <1>3 DEF Boot, IdtInit, ThreadInit
<1>4. CASE HardwareTick \/ OtherIrq \/ Resume
  BY <1>4 DEF HardwareTick, TimerHandler, OtherIrq, Resume, TickReturn, Woken
<1>5. ASSUME NEW t \in Threads, Call(t) PROVE ExitInv'
  <2>1. CASE SoftwareTick(t)
    BY <2>1 DEF SoftwareTick, TimerHandler, Woken
  <2>2. CASE IntDisable(t) \/ IntEnable(t) \/ CallYield(t) \/ RunReturn(t)
    BY <2>2 DEF IntDisable, IntEnable, CallYield, RunReturn, callVars
  <2>3. ASSUME NEW new \in Threads, CreatePage(t, new) PROVE ExitInv'
    BY <2>3 DEF CreatePage
  <2>4. ASSUME NEW s, CallDown(t, s) \/ CallUp(t, s) PROVE ExitInv'
    BY <2>4 DEF CallDown, CallUp, SemaUp
  <2>5. ASSUME NEW l, LockAcquire(t, l) \/ LockRelease(t, l) PROVE ExitInv'
    BY <2>5 DEF LockAcquire, LockRelease
  <2> QED
    BY <1>5, <2>1, <2>2, <2>3, <2>4, <2>5 DEF Call
<1>6. ASSUME NEW t \in Threads, Continue(t) PROVE ExitInv'
  <2>1. CASE YieldReturn(t) \/ CreateList(t) \/ CreateTail(t) \/ CreateLink(t) \/ CreateUnblock(t) \/ Run(t) \/ RunSchedule(t)
    BY <2>1 DEF YieldReturn, CreateList, CreateTail, CreateLink, CreateUnblock, Run, RunSchedule
  <2>2. CASE IdleStart(t) \/ IdleBlock(t) \/ IdleHalt(t)
    BY <2>2 DEF IdleStart, IdleBlock, IdleHalt
  <2>3. CASE SemaDown(t) \/ SemaDownResume(t)
    BY <2>3 DEF SemaDown, SemaDownResume, DownLoop, AfterDown
  <2>4. CASE IdleUp(t) \/ LockAcquired(t) \/ LockReleased(t)
    BY <2>4 DEF IdleUp, LockAcquired, LockReleased, SemaUp
  <2> QED
    BY <1>6, <2>1, <2>2, <2>3, <2>4 DEF Continue
<1> QED
  BY <1>2, <1>3, <1>4, <1>5, <1>6 DEF Next, Irq, Compute, Halted

\* What a step can panic with: never thread_unblock's assertion, and schedule's
\* only at the end of run().
LEMMA NextPanics ==
  ASSUME TypeInv, BootInv, NEW A, PlaceInv(A), [Next]_vars
  PROVE  \/ panic' = panic
         \/ panic' \notin {"current process is still running", "UNBLOCKING NON-BLOCKED Thread"}
         \/ panic' = "current process is still running" /\ pc[current] = "exit"
<1> DEFINE Goal == \/ panic' = panic
                   \/ panic' \notin {"current process is still running",
                                     "UNBLOCKING NON-BLOCKED Thread"}
                   \/ panic' = "current process is still running" /\ pc[current] = "exit"
<1> USE DEF Runs
<1>1. CASE UNCHANGED vars \/ Boot \/ OtherIrq \/ Resume
  BY <1>1 DEF vars, threadVars, cpuVars, Boot, IdtInit, ThreadInit, OtherIrq, Resume, TickReturn
<1>2. ASSUME HardwareTick, UNCHANGED synchVars PROVE Goal
  <2>1. TimerHandler(current, TRUE) /\ panic = "none"
    BY <1>2 DEF HardwareTick, IrqAccepted
  <2>2. CASE Threaded
    BY <1>2, <2>1, <2>2, TimerExact DEF PlaceInv
  <2>3. CASE ~ Threaded
    <3>1. status[current] = "unborn"
      BY <2>1, <2>3, ThreadAssumption
        DEF Threaded, PlaceInv, BootLists, BootInv, TypeInv, UnbornPlaces
    <3> QED
      BY <2>1, <3>1 DEF TimerHandler
  <2> QED
    BY <2>2, <2>3
<1>3. ASSUME NEW t \in Threads, Call(t) \/ Continue(t) PROVE Goal
  <2>1. Threaded /\ panic = "none"
    BY <1>3, ThreadThreaded DEF PlaceInv, BootLists, Threaded
  <2>2. Exact(A) /\ IdleInv
    BY <2>1 DEF PlaceInv
  <2>3. ASSUME SoftwareTick(t), UNCHANGED synchVars PROVE Goal
    BY <2>1, <2>2, <2>3, TimerExact DEF SoftwareTick
  <2>4. ASSUME CallYield(t) \/ CreateUnblock(t) \/ RunSchedule(t) \/ IdleBlock(t),
               UNCHANGED synchVars
        PROVE  Goal
    <3>1. RunSchedule(t) => t = current /\ pc[t] = "exit"
      BY DEF RunSchedule
    <3> QED
      BY <2>1, <2>2, <2>4, <3>1, CallYieldExact, CreateUnblockExact, RunScheduleExact, IdleBlockExact
  <2>5. CASE \/ IntDisable(t) \/ IntEnable(t) \/ RunReturn(t)
             \/ \E new \in Threads \ {Idle} : CreatePage(t, new)
    BY <2>5 DEF IntDisable, IntEnable, RunReturn, CreatePage, cpuVars
  <2>6. CASE \/ \E s \in Semas : CallDown(t, s)
             \/ \E l \in Locks : LockAcquire(t, l) \/ LockRelease(t, l)
    BY <2>6 DEF CallDown, LockAcquire, LockRelease, cpuVars
  <2>7. ASSUME NEW s \in Semas, CallUp(t, s) PROVE Goal
    BY <2>1, <2>2, <2>7, SemaUpExact DEF CallUp, Creating
  <2>8. CASE \/ YieldReturn(t) \/ CreateList(t) \/ CreateTail(t) \/ CreateLink(t) \/ Run(t) \/ IdleStart(t) \/ IdleHalt(t)
             \/ LockAcquired(t)
    BY <2>8 DEF YieldReturn, CreateList, CreateTail, CreateLink, Run, IdleStart, IdleHalt, LockAcquired, cpuVars
  <2>9. CASE SemaDown(t) \/ SemaDownResume(t)
    BY <2>1, <2>2, <2>9, DownLoopExact DEF SemaDown, SemaDownResume
  <2>10. CASE IdleUp(t)
    <3>1. InitStarted \in Semas /\ pc[t] = "idle_up" /\ current = t
      BY <2>10, SynchAssumption DEF IdleUp
    <3> QED
      BY <2>1, <2>2, <2>10, <3>1, SemaUpExact DEF IdleUp, Creating
  <2>11. CASE LockReleased(t)
    <3>1. arg[t] \in Semas /\ pc[t] = "release" /\ current = t
      BY <2>11, SynchAssumption DEF LockReleased, TypeInv, ArgOK
    <3> QED
      BY <2>1, <2>2, <2>11, <3>1, SemaUpExact DEF LockReleased, Creating
  <2> QED
    BY <1>3, <2>3, <2>4, <2>5, <2>6, <2>7, <2>8, <2>9, <2>10, <2>11 DEF Call, Continue
<1> QED
  BY <1>1, <1>2, <1>3 DEF Next, Irq, Compute, Halted

\* thread_unblock() asserts that the thread it is given is BLOCKED.
UnblockAssertion == panic # "UNBLOCKING NON-BLOCKED Thread"

\* The assertion of thread_unblock never fires: sema_up and thread_create only
\* unblock threads that are blocked, also when functions return.
THEOREM UnblockAsserts == Spec => []UnblockAssertion
<1>1. Init => UnblockAssertion
  BY DEF Init, UnblockAssertion
<1>2. ASSUME TypeInv, BootInv, PlaceInv({}), [Next]_vars, UnblockAssertion
      PROVE  UnblockAssertion'
  BY <1>2, NextPanics DEF UnblockAssertion
<1> QED
  BY <1>1, <1>2, SpecPlaceInv, PTL DEF Spec

\* When no thread function returns, the assertions of schedule and
\* thread_unblock never fire.
THEOREM AssertionsNeverFire == Spec => []AssertionsHold
<1>1. Init => ExitInv /\ AssertionsHold
  BY ThreadAssumption DEF Init, ExitInv, AssertionsHold
<1>2. ASSUME TypeInv, BootInv, PlaceInv({}), [Next]_vars, ExitInv, AssertionsHold
      PROVE  ExitInv' /\ AssertionsHold'
  <2>1. ExitInv'
    BY <1>2, NextExitInv
  <2>2. current \in Threads
    BY <1>2 DEF TypeInv, TypeOK
  <2>3. AssertionsHold'
    BY <1>2, <2>2, NextPanics DEF AssertionsHold, ExitInv
  <2> QED
    BY <2>1, <2>3
<1>3. Spec => [](ExitInv /\ AssertionsHold)
  BY <1>1, <1>2, SpecPlaceInv, PTL DEF Spec
<1> QED
  BY <1>3, PTL

-------------------------------------------------------------------------------
(* all_threads. *)

\* thread_create has filled a page and not yet made it the tail of all_threads.
Listing == {"create_list", "create_tail"}

Listed(t) == status[t] # "unborn" /\ pc[t] # "dead" /\ ~ Unlisted(t)

\* all_threads has the threads that live, once each.
ListExact ==
  IsInjective(all_threads) /\ \A t \in Threads : InSeq(t, all_threads) <=> Listed(t)

ListInv == Threaded /\ ~ torn => ListExact

\* Steps that make, list and kill no thread.
ListFrame ==
  /\ UNCHANGED all_threads
  /\ \A u \in Threads :
       /\ status'[u] = "unborn" <=> status[u] = "unborn"
       /\ pc'[u] = "dead" <=> pc[u] = "dead"
       /\ pc'[u] \in Listing <=> pc[u] \in Listing
       /\ pc[u] \in Listing => arg'[u] = arg[u]

LEMMA FrameListExact ==
  ASSUME ListExact, ListFrame
  PROVE  ListExact'
<1>1. \A t \in Threads : Unlisted(t)' <=> Unlisted(t)
  BY DEF ListFrame, Unlisted, Listing
<1>2. \A t \in Threads : Listed(t)' <=> Listed(t)
  BY <1>1 DEF ListFrame, Listed
<1> QED
  BY <1>2 DEF ListExact, ListFrame, Listing

\* A switch between threads that live is such a step.
LEMMA SwitchListFrame ==
  ASSUME TypeInv, NEW t \in Threads, NEW x \in {"READY", "BLOCKED"},
         status[t] # "unborn", NEW next \in Threads,
         Switches(t, [status EXCEPT ![t] = x], next),
         idle_thread # NULL => status[idle_thread] # "unborn",
         \A u \in Threads : /\ pc'[u] = "dead" <=> pc[u] = "dead"
                            /\ pc'[u] \in Listing <=> pc[u] \in Listing,
         UNCHANGED arg
  PROVE  ListFrame
<1>1. status \in [Threads -> Status] /\ NULL \notin Threads
  BY ThreadAssumption DEF TypeInv, TypeOK
<1>2. /\ status' = [[status EXCEPT ![t] = x] EXCEPT ![next] = "RUNNING"]
      /\ status[next] # "unborn" /\ all_threads' = all_threads
  BY <1>1 DEF Switches
<1>3. \A u \in Threads : status'[u] = "unborn" <=> status[u] = "unborn"
  BY <1>1, <1>2
<1> QED
  BY <1>2, <1>3 DEF ListFrame, Listing

\* The timer's handler, after thread_init.
LEMMA TimerListExact ==
  ASSUME TypeInv, IdleInv, NEW A, Exact(A), ListExact, Threaded, ~ torn', NEW svc,
         TimerHandler(current, svc)
  PROVE  ListExact'
<1> DEFINE t == current
<1>1. t \in Threads /\ pc \in [Threads -> Places] /\ idle_thread \in {NULL, Idle}
  BY DEF TypeInv, TypeOK
<1>2. status[t] # "unborn"
  BY <1>1 DEF Exact, CpuExact
<1>3. idle_thread # NULL => status[idle_thread] # "unborn"
  BY <1>1, ThreadAssumption DEF IdleInv, InIdle, TypeInv, UnbornPlaces
<1>4. /\ UNCHANGED arg
      /\ UNCHANGED pc \/ (pc[t] = "hlt" /\ pc' = [pc EXCEPT ![t] = "idle_loop"])
  BY DEF TimerHandler, Woken, Goto
<1>5. \A u \in Threads : /\ pc'[u] = "dead" <=> pc[u] = "dead"
                         /\ pc'[u] \in Listing <=> pc[u] \in Listing
  BY <1>1, <1>4 DEF Listing
<1>6. CASE ~SliceOver
  <2>1. UNCHANGED <<status, all_threads>>
    BY <1>6 DEF TimerHandler
  <2>2. ListFrame
    BY <1>4, <1>5, <2>1 DEF ListFrame, Listing
  <2> QED
    BY <2>2, FrameListExact
<1>7. CASE SliceOver
  <2>1. ThreadYield(t) /\ panic = "none"
    BY <1>2, <1>7 DEF TimerHandler, Threaded
  <2>2. PICK next \in Threads : Switches(t, [status EXCEPT ![t] = "READY"], next)
    BY <2>1, YieldSwitches
  <2>3. ListFrame
    BY <1>1, <1>2, <1>3, <1>4, <1>5, <2>2, SwitchListFrame
  <2> QED
    BY <2>3, FrameListExact
<1> QED
  BY <1>6, <1>7

\* What a thread function calls.
LEMMA CallListExact ==
  ASSUME TypeInv, IdleInv, NEW A, Exact(A), ListExact, Threaded, ~ torn', NEW t \in Threads, Call(t),
         panic' = "none"
  PROVE  ListExact'
<1>1. /\ pc \in [Threads -> Places] /\ status \in [Threads -> Status]
      /\ arg \in [Threads -> Threads \cup Semas \cup {NULL}]
      /\ idle_thread \in {NULL, Idle} /\ panic = "none"
  BY DEF TypeInv, TypeOK, Threaded
<1> USE DEF Runs, Goto, Return, listVars
<1>2. CASE SoftwareTick(t)
  BY <1>2, TimerListExact DEF SoftwareTick
<1>3. CASE IntDisable(t) \/ IntEnable(t)
  <2>1. ListFrame
    BY <1>3 DEF IntDisable, IntEnable, Chosen, callVars, ListFrame, Listing
  <2> QED
    BY <2>1, FrameListExact
<1>4. CASE CallYield(t)
  <2>1. /\ t = current /\ pc[t] = "user" /\ ThreadYield(t)
        /\ pc' = [pc EXCEPT ![t] = "yield"] /\ UNCHANGED arg
    BY <1>4 DEF CallYield
  <2>2. PICK next \in Threads : Switches(t, [status EXCEPT ![t] = "READY"], next)
    BY <1>1, <2>1, YieldSwitches
  <2>3. status[t] # "unborn" /\ (idle_thread # NULL => status[idle_thread] # "unborn")
    BY <1>1, <2>1, ThreadAssumption DEF IdleInv, InIdle, TypeInv, UnbornPlaces
  <2>4. \A u \in Threads : /\ pc'[u] = "dead" <=> pc[u] = "dead"
                           /\ pc'[u] \in Listing <=> pc[u] \in Listing
    BY <1>1, <2>1 DEF Listing
  <2>5. ListFrame
    BY <2>1, <2>2, <2>3, <2>4, SwitchListFrame
  <2> QED
    BY <2>5, FrameListExact
<1>5. ASSUME NEW new \in Threads \ {Idle}, CreatePage(t, new) PROVE ListExact'
  <2>1. /\ status[new] = "unborn" /\ status' = [status EXCEPT ![new] = "BLOCKED"]
        /\ pc' = [pc EXCEPT ![t] = "create_list", ![new] = "fresh"]
        /\ arg' = [arg EXCEPT ![t] = new] /\ UNCHANGED all_threads
        /\ t # new /\ pc[t] = "user" /\ pc[new] \in {"none", "boot", "thread_init"}
    BY <1>5 DEF CreatePage, TypeInv, UnbornPlaces
  <2>2. \A u \in Threads : Unlisted(u)' <=> Unlisted(u) \/ u = new
    BY <1>1, <2>1 DEF Unlisted
  <2>3. \A u \in Threads : Listed(u)' <=> Listed(u)
    BY <1>1, <2>1, <2>2 DEF Listed
  <2> QED
    BY <2>1, <2>3 DEF ListExact
<1>6. CASE RunReturn(t)
  <2>1. ListFrame
    BY <1>1, <1>6 DEF RunReturn, ListFrame, Listing, TypeInv, UnbornPlaces
  <2> QED
    BY <2>1, FrameListExact
<1>7. ASSUME NEW s \in Semas, CallDown(t, s) PROVE ListExact'
  <2>1. ListFrame
    BY <1>1, <1>7 DEF CallDown, ListFrame, Listing
  <2> QED
    BY <2>1, FrameListExact
<1>8. ASSUME NEW s \in Semas, CallUp(t, s) PROVE ListExact'
  <2>1. /\ pc[t] = "user" /\ pc' = [pc EXCEPT ![t] = "user"] /\ arg' = [arg EXCEPT ![t] = NULL]
        /\ UNCHANGED all_threads
        /\ \A u \in Threads : status'[u] = "unborn" <=> status[u] = "unborn"
    BY <1>1, <1>8 DEF CallUp, SemaUp, ThreadUnblock
  <2>2. ListFrame
    BY <1>1, <2>1 DEF ListFrame, Listing
  <2> QED
    BY <2>2, FrameListExact
<1>9. ASSUME NEW l \in Locks, LockAcquire(t, l) \/ LockRelease(t, l) PROVE ListExact'
  <2>1. ListFrame
    BY <1>1, <1>9 DEF LockAcquire, LockRelease, ListFrame, Listing
  <2> QED
    BY <2>1, FrameListExact
<1> QED
  BY <1>2, <1>3, <1>4, <1>5, <1>6, <1>7, <1>8, <1>9 DEF Call

\* What a thread does inside a call: thread_create lists the new thread, and the
\* switch away from a dead one reaps it.
LEMMA ContinueListExact ==
  ASSUME TypeInv, IdleInv, NEW A, Exact(A), ListExact, Threaded, ~ torn', NEW t \in Threads, Continue(t),
         panic' = "none"
  PROVE  ListExact'
<1>1. /\ pc \in [Threads -> Places] /\ status \in [Threads -> Status]
      /\ arg \in [Threads -> Threads \cup Semas \cup {NULL}]
      /\ idle_thread \in {NULL, Idle} /\ panic = "none"
      /\ all_threads \in Seq(Threads) /\ NULL \notin Threads
  BY ThreadAssumption DEF TypeInv, TypeOK, Threaded
<1>2. idle_thread # NULL => status[idle_thread] # "unborn"
  BY <1>1, ThreadAssumption DEF IdleInv, InIdle, TypeInv, UnbornPlaces
<1> USE DEF Runs, Goto, Return, listVars
<1>3. CASE YieldReturn(t) \/ Run(t) \/ IdleStart(t) \/ IdleHalt(t) \/ LockAcquired(t)
  <2>1. ListFrame
    BY <1>1, <1>3 DEF YieldReturn, Run, IdleStart, IdleHalt, LockAcquired, ListFrame, Listing
  <2> QED
    BY <2>1, FrameListExact
<1>4. CASE CreateTail(t)
  <2>1. /\ pc[t] = "create_tail" /\ pc' = [pc EXCEPT ![t] = "create_link"]
        /\ UNCHANGED <<arg, status>> /\ all_threads' = Append(all_threads, arg[t])
    BY <1>4 DEF CreateTail
  <2>2. PICK new \in Threads : new = arg[t]
    BY <2>1 DEF TypeInv, ArgOK
  <2>3. Unlisted(new) /\ UnderCreation(new)
    BY <2>1, <2>2 DEF Unlisted, UnderCreation
  <2>4. status[new] # "unborn" /\ pc[new] # "dead" /\ new # t
    BY <2>1, <2>3 DEF Exact, CreateExact
  <2>5. \A u, v \in Threads : pc[u] \in Creating /\ pc[v] \in Creating /\ arg[u] = arg[v] => u = v
    BY DEF Exact, CreateExact
  <2>6. \A u \in Threads : Unlisted(u)' <=> Unlisted(u) /\ u # new
    BY <1>1, <2>1, <2>2, <2>5 DEF Unlisted, Creating
  <2>7. \A u \in Threads : Listed(u)' <=> Listed(u) \/ u = new
    BY <1>1, <2>1, <2>3, <2>4, <2>6 DEF Listed
  <2>8. IsInjective(all_threads) /\ ~ InSeq(new, all_threads)
    BY <2>3 DEF ListExact, Listed
  <2>9. /\ IsInjective(all_threads')
        /\ \A u \in Threads : InSeq(u, all_threads') <=> InSeq(u, all_threads) \/ u = new
    BY <1>1, <2>1, <2>2, <2>8, AppendExact
  <2> QED
    BY <2>7, <2>9 DEF ListExact
<1>10. CASE CreateList(t) \/ CreateLink(t)
  <2>1. ListFrame
    BY <1>1, <1>10 DEF CreateList, CreateLink, ListFrame, Listing
  <2> QED
    BY <2>1, FrameListExact
<1>5. CASE CreateUnblock(t)
  <2>1. /\ pc[t] = "create_unblock" /\ pc' = [pc EXCEPT ![t] = "user"]
        /\ arg' = [arg EXCEPT ![t] = NULL] /\ UNCHANGED all_threads
        /\ \A u \in Threads : status'[u] = "unborn" <=> status[u] = "unborn"
    BY <1>1, <1>5 DEF CreateUnblock, ThreadUnblock
  <2>2. ListFrame
    BY <1>1, <2>1 DEF ListFrame, Listing
  <2> QED
    BY <2>2, FrameListExact
<1>6. CASE RunSchedule(t)
  <2> DEFINE st == [status EXCEPT ![t] = "DYING"]
  <2>1. /\ t = current /\ pc[t] = "exit" /\ Schedule(t, status, ready_threads)
        /\ pc' = [pc EXCEPT ![t] = "dead"] /\ UNCHANGED arg
    BY <1>6 DEF RunSchedule
  <2>2. status[t] = "DYING"
    BY <1>1, <2>1 DEF Exact, CpuExact, Schedule
  <2>3. st = status /\ st[t] = "DYING"
    BY <1>1, <2>2
  <2>4. PICK next \in Threads : Switches(t, st, next)
    BY <1>1, <2>1, <2>3, LeaveSwitches DEF Booting
  <2>5. /\ next # t /\ status[next] # "unborn"
        /\ status' = [status EXCEPT ![next] = "RUNNING"]
        /\ all_threads' = RemoveFirst(all_threads, t)
    <3>1. t # idle_thread
      BY <1>1, <2>1 DEF IdleInv, InIdle
    <3> QED
      BY <1>1, <1>2, <2>3, <2>4, <3>1 DEF Switches
  <2>6. \A u \in Threads : Unlisted(u)' <=> Unlisted(u)
    BY <1>1, <2>1 DEF Unlisted
  <2>7. \A u \in Threads : Listed(u)' <=> Listed(u) /\ u # t
    BY <1>1, <2>1, <2>5, <2>6 DEF Listed
  <2>8. /\ IsInjective(all_threads')
        /\ \A u : InSeq(u, all_threads') <=> InSeq(u, all_threads) /\ u # t
    BY <1>1, <2>5, RemoveExact DEF ListExact
  <2> QED
    BY <2>7, <2>8 DEF ListExact
<1>7. CASE IdleBlock(t)
  <2>1. /\ t = current /\ pc[t] = "idle_loop"
        /\ Schedule(t, [status EXCEPT ![t] = "BLOCKED"], ready_threads)
        /\ pc' = [pc EXCEPT ![t] = "idle_blocked"] /\ UNCHANGED arg
    BY <1>7 DEF IdleBlock, ThreadBlock
  <2>2. PICK next \in Threads : Switches(t, [status EXCEPT ![t] = "BLOCKED"], next)
    BY <1>1, <2>1, LeaveSwitches DEF Booting
  <2>3. /\ status[t] # "unborn"
        /\ \A u \in Threads : /\ pc'[u] = "dead" <=> pc[u] = "dead"
                              /\ pc'[u] \in Listing <=> pc[u] \in Listing
    BY <1>1, <2>1 DEF TypeInv, UnbornPlaces, Listing
  <2>4. ListFrame
    BY <1>2, <2>1, <2>2, <2>3, SwitchListFrame
  <2> QED
    BY <2>4, FrameListExact
<1>8. CASE SemaDown(t) \/ SemaDownResume(t)
  <2>1. /\ t = current /\ pc[t] \in {"down", "wait"} /\ arg[t] \in Semas
        /\ \E lvl : DownLoop(t, arg[t], lvl)
    BY <1>8 DEF SemaDown, SemaDownResume, TypeInv, ArgOK
  <2>2. CASE value[arg[t]] > 0
    <3>1. value \in [Semas -> Nat]
      BY DEF TypeInv, TypeOK
    <3>2. /\ UNCHANGED <<status, all_threads>>
          /\ \/ pc' = [pc EXCEPT ![t] = "user"] /\ arg' = [arg EXCEPT ![t] = NULL]
             \/ pc' = [pc EXCEPT ![t] = "acquired"] /\ UNCHANGED arg
      BY <2>1, <2>2, <3>1 DEF DownLoop, AfterDown
    <3>3. ListFrame
      BY <1>1, <2>1, <3>2 DEF ListFrame, Listing
    <3> QED
      BY <3>3, FrameListExact
  <2>3. CASE ~ (value[arg[t]] > 0)
    <3>1. /\ Schedule(t, [status EXCEPT ![t] = "BLOCKED"], ready_threads)
          /\ pc' = [pc EXCEPT ![t] = "wait"] /\ UNCHANGED arg
      BY <2>1, <2>3 DEF DownLoop, ThreadBlock
    <3>2. PICK next \in Threads : Switches(t, [status EXCEPT ![t] = "BLOCKED"], next)
      BY <1>1, <2>1, <3>1, LeaveSwitches DEF Booting
    <3>3. /\ status[t] # "unborn"
          /\ \A u \in Threads : /\ pc'[u] = "dead" <=> pc[u] = "dead"
                                /\ pc'[u] \in Listing <=> pc[u] \in Listing
      BY <1>1, <2>1, <3>1 DEF TypeInv, UnbornPlaces, Listing
    <3>4. ListFrame
      BY <1>2, <3>1, <3>2, <3>3, SwitchListFrame
    <3> QED
      BY <3>4, FrameListExact
  <2> QED
    BY <2>2, <2>3
<1>9. CASE IdleUp(t) \/ LockReleased(t)
  <2>1. /\ pc[t] \in {"idle_up", "release"} /\ UNCHANGED all_threads
        /\ pc' = [pc EXCEPT ![t] = IF pc[t] = "release" THEN "user" ELSE "idle_loop"]
        /\ arg' = [arg EXCEPT ![t] = NULL]
        /\ \A u \in Threads : status'[u] = "unborn" <=> status[u] = "unborn"
    BY <1>1, <1>9 DEF IdleUp, LockReleased, SemaUp, ThreadUnblock
  <2>2. ListFrame
    BY <1>1, <2>1 DEF ListFrame, Listing
  <2> QED
    BY <2>2, FrameListExact
<1> QED
  BY <1>3, <1>4, <1>5, <1>6, <1>7, <1>8, <1>9, <1>10 DEF Continue

\* An append that has been overtaken stays overtaken.
LEMMA ScheduleTorn ==
  ASSUME torn, NEW t, NEW st, NEW rq, Schedule(t, st, rq)
  PROVE  torn'
  BY DEF Schedule, SwitchComplete, ThreadKill

LEMMA NextTorn ==
  ASSUME torn, [Next]_vars
  PROVE  torn'
<1> USE DEF listVars
<1>1. CASE UNCHANGED vars
  BY <1>1 DEF vars, threadVars
<1>2. CASE Boot \/ OtherIrq \/ Resume
  BY <1>2 DEF Boot, IdtInit, ThreadInit, OtherIrq, Resume, TickReturn
<1>3. ASSUME NEW svc, TimerHandler(current, svc) PROVE torn'
  BY <1>3, ScheduleTorn DEF TimerHandler, ThreadYield
<1>4. ASSUME NEW t \in Threads, Call(t) PROVE torn'
  <2>1. CASE SoftwareTick(t)
    BY <1>3, <2>1 DEF SoftwareTick, Runs
  <2>2. CASE IntDisable(t) \/ IntEnable(t) \/ RunReturn(t)
             \/ \E new \in Threads \ {Idle} : CreatePage(t, new)
    BY <2>2 DEF IntDisable, IntEnable, Chosen, RunReturn, CreatePage
  <2>3. CASE CallYield(t)
    BY <2>3, ScheduleTorn DEF CallYield, ThreadYield
  <2>4. ASSUME NEW s \in Semas, CallDown(t, s) \/ CallUp(t, s) PROVE torn'
    BY <2>4 DEF CallDown, CallUp, SemaUp
  <2>5. ASSUME NEW l \in Locks, LockAcquire(t, l) \/ LockRelease(t, l) PROVE torn'
    BY <2>5 DEF LockAcquire, LockRelease
  <2> QED
    BY <1>4, <2>1, <2>2, <2>3, <2>4, <2>5 DEF Call
<1>5. ASSUME NEW t \in Threads, Continue(t) PROVE torn'
  <2>1. CASE YieldReturn(t) \/ CreateList(t) \/ CreateTail(t) \/ CreateLink(t) \/ CreateUnblock(t)
             \/ Run(t) \/ IdleStart(t) \/ IdleHalt(t) \/ LockAcquired(t)
    BY <2>1 DEF YieldReturn, CreateList, CreateTail, CreateLink, CreateUnblock, Run, IdleStart,
                IdleHalt, LockAcquired
  <2>2. CASE RunSchedule(t) \/ IdleBlock(t)
    BY <2>2, ScheduleTorn DEF RunSchedule, IdleBlock, ThreadBlock
  <2>3. CASE SemaDown(t) \/ SemaDownResume(t)
    BY <2>3, ScheduleTorn DEF SemaDown, SemaDownResume, DownLoop, ThreadBlock
  <2>4. CASE IdleUp(t) \/ LockReleased(t)
    BY <2>4 DEF IdleUp, LockReleased, SemaUp
  <2> QED
    BY <1>5, <2>1, <2>2, <2>3, <2>4 DEF Continue
<1> QED
  BY <1>1, <1>2, <1>3, <1>4, <1>5 DEF Next, Irq, HardwareTick, Compute, Halted

LEMMA NextListInv ==
  ASSUME TypeInv, BootInv, NEW A, PlaceInv(A), ListInv, [Next]_vars
  PROVE  ListInv'
<1>0. torn => torn'
  BY NextTorn
<1>1. /\ pc \in [Threads -> Places] /\ status \in [Threads -> Status]
      /\ Kernel \in Threads /\ Idle \in Threads /\ Kernel # Idle
      /\ arg \in [Threads -> Threads \cup Semas \cup {NULL}]
  BY ThreadAssumption DEF TypeInv, TypeOK
<1>2. CASE UNCHANGED vars
  BY <1>2 DEF vars, threadVars, cpuVars, callVars, listVars, ListInv, Threaded, ListExact,
              Listed, Unlisted
<1>3. CASE IdtInit
  <2>1. ~ Threaded'
    BY <1>1, <1>3 DEF IdtInit, Runs, BootInv, listVars, Threaded
  <2> QED
    BY <2>1 DEF ListInv
<1>4. CASE ThreadInit
  <2>1. \A t \in Threads : status[t] = "unborn" /\ pc[t] \in {"none", "boot", "thread_init"}
    BY <1>4 DEF ThreadInit, Runs, BootInv, TypeInv, UnbornPlaces
  <2>2. /\ status' = [status EXCEPT ![Kernel] = "RUNNING", ![Idle] = "READY"]
        /\ all_threads' = <<Kernel, Idle>>
        /\ pc' = [pc EXCEPT ![Kernel] = "down", ![Idle] = "fresh"]
    BY <1>4 DEF ThreadInit
  <2>3. /\ IsInjective(<<Kernel, Idle>>)
        /\ \A x : InSeq(x, <<Kernel, Idle>>) <=> x \in {Kernel, Idle}
    <3> DEFINE q == <<Kernel, Idle>>
    <3>1. DOMAIN q = {1, 2} /\ q[1] = Kernel /\ q[2] = Idle
      OBVIOUS
    <3> HIDE DEF q
    <3>2. IsInjective(q) /\ \A x : InSeq(x, q) <=> x \in {Kernel, Idle}
      BY <1>1, <3>1 DEF IsInjective, InSeq
    <3> QED
      BY <3>2 DEF q
  <2>4. \A t \in Threads : Listed(t)' <=> t \in {Kernel, Idle}
    BY <1>1, <2>1, <2>2 DEF Listed, Unlisted
  <2> QED
    BY <2>2, <2>3, <2>4 DEF ListInv, ListExact
<1>5. CASE HardwareTick
  <2>1. TimerHandler(current, TRUE) /\ panic = "none"
    BY <1>5 DEF HardwareTick, IrqAccepted
  <2>2. CASE Threaded
    BY <1>0, <2>1, <2>2, TimerListExact DEF PlaceInv, ListInv
  <2>3. CASE ~ Threaded
    <3>1. status[current] = "unborn"
      BY <2>1, <2>3, ThreadAssumption
        DEF Threaded, PlaceInv, BootLists, BootInv, TypeInv, UnbornPlaces
    <3>2. status' = status
      BY <2>1, <3>1 DEF TimerHandler
    <3> QED
      BY <2>1, <2>3, <3>2 DEF ListInv, Threaded
  <2> QED
    BY <2>2, <2>3
<1>6. CASE OtherIrq \/ Resume
  <2>1. /\ UNCHANGED <<panic, arg, status, all_threads>>
        /\ UNCHANGED pc \/ (pc[current] = "hlt" /\ pc' = [pc EXCEPT ![current] = "idle_loop"])
    BY <1>6 DEF OtherIrq, Resume, TickReturn, Woken, Goto, cpuVars, listVars
  <2>2. ListFrame
    BY <1>1, <2>1 DEF ListFrame, Listing
  <2> QED
    BY <1>0, <2>1, <2>2, FrameListExact DEF ListInv, Threaded
<1>7. ASSUME NEW t \in Threads, Call(t) \/ Continue(t) PROVE ListInv'
  <2>1. Threaded /\ Exact(A) /\ IdleInv
    BY <1>7, ThreadThreaded DEF PlaceInv, BootLists
  <2> QED
    BY <1>0, <1>7, <2>1, CallListExact, ContinueListExact DEF ListInv, Threaded
<1> QED
  BY <1>2, <1>3, <1>4, <1>5, <1>6, <1>7 DEF Next, Boot, Irq, Compute, Halted

\* What ListExact says of the positions in all_threads.
LEMMA ListedOnce ==
  ASSUME ListExact, NEW t \in Threads
  PROVE  Cardinality(Positions(all_threads, t)) = IF Listed(t) THEN 1 ELSE 0
<1>1. IF Listed(t) THEN \E i : Positions(all_threads, t) = {i}
                   ELSE Positions(all_threads, t) = {}
  BY PositionsExact DEF ListExact
<1> QED
  BY <1>1, FS_EmptySet, FS_Singleton

\* all_threads is exactly the threads that were created and are not dead: the
\* switch away from a thread whose function returned reaps it, and no other,
\* although switch_complete tests the word at address 24 when it has no thread to
\* test; and the appends of thread_create, which ticks interrupt, lose none, until
\* one of them is overtaken by another or by the end of the thread it links to.
THEOREM AllThreadsAreListed == Spec => []AllThreadsExact
<1>1. Init => ListInv
  BY ThreadAssumption DEF Init, ListInv, Threaded
<1>2. ASSUME TypeInv, BootInv, PlaceInv({}), ListInv, [Next]_vars PROVE ListInv'
  BY <1>2, NextListInv
<1>3. Spec => []ListInv
  BY <1>1, <1>2, SpecPlaceInv, PTL DEF Spec
<1>4. ListInv => AllThreadsExact
  BY ListedOnce DEF ListInv, Threaded, Listed, AllThreadsExact
<1> QED
  BY <1>3, <1>4, PTL
-------------------------------------------------------------------------------
(* Interrupt levels. *)

\* t comes back from a switch: inside the timer's handler, or inside a call.
Off(t) == inTick[t] \/ pc[t] \in Switched

\* Places at which no thread function has chosen a level yet, or ever will.
Unchosen == {"none", "boot", "thread_init", "fresh",
             "idle", "idle_up", "idle_loop", "idle_blocked", "hlt"}

\* What the frames on t's stack say.  A thread without the CPU is in a switch, and
\* is ready (or put aside) if that switch is the timer's; the level it will restore
\* is the one its function chose, and that is on where no function has run.
FrameLevel(t, A) ==
  /\ inTick[t] => /\ pc[t] \notin Switched \cup {"hlt"}
                  /\ status[t] \in {"READY", "RUNNING"} \/ t \in A
  /\ t # current /\ status[t] # "unborn" => Off(t)
  /\ inTick[t] \/ pc[t] \in {"yield", "wait"} => saved[t] = level[t]
  /\ pc[t] \in Unchosen => level[t]

\* The interrupt flag is what the thread that runs needs.
CpuLevel == IF Off(current) THEN ~iflag ELSE iflag = level[current]

\* The EOI that the PIC waits for is sent by a thread switched out in its handler.
EoiPending == inService => \E u \in Threads : inTick[u]

LevelExact(A) == (\A t \in Threads : FrameLevel(t, A)) /\ CpuLevel /\ EoiPending

\* The idle thread only halts when no thread is ready.
HaltEmpty == current = Idle /\ pc[Idle] \in {"idle_blocked", "hlt"} => ready_threads = <<>>

\* Before thread_init no tick is half done.
BootLevel ==
  panic = "none" /\ ~ Threaded => ~inService /\ \A t \in Threads : ~inTick[t] /\ level[t]

LevelInv(A) == BootLevel /\ (Threaded => LevelExact(A))

HaltInv == Threaded => HaltEmpty

\* t keeps the CPU and leaves its switch, if it was in one, behind.
LEMMA LocalLevel ==
  ASSUME TypeInv, NEW A, LevelExact(A), NEW t \in Threads, t = current, ~inTick[t],
         UNCHANGED <<current, inTick>>, inService' => inService,
         \A u \in Threads : inTick[u] => status'[u] \in {status[u], "READY"},
         \A u \in Threads : u # t =>
           /\ saved'[u] = saved[u] /\ level'[u] = level[u]
           /\ \/ pc'[u] = pc[u] /\ (status'[u] = "unborn" <=> status[u] = "unborn")
              \/ ~inTick[u] /\ pc'[u] = "fresh" /\ level[u],
         pc'[t] \notin Switched, pc'[t] \in Unchosen => level'[t], iflag' = level'[t]
  PROVE  LevelExact(A)'
<1>1. "fresh" \in Switched /\ "yield" \in Switched /\ "wait" \in Switched
  BY DEF Switched
<1>2. CpuLevel' /\ EoiPending'
  BY DEF CpuLevel, Off, EoiPending, LevelExact
<1>3. ASSUME NEW u \in Threads PROVE FrameLevel(u, A)'
  <2>1. FrameLevel(u, A)
    BY DEF LevelExact
  <2>2. CASE u = t
    BY <1>1, <2>2 DEF FrameLevel
  <2>3. CASE u # t /\ pc'[u] = pc[u] /\ (status'[u] = "unborn" <=> status[u] = "unborn")
    BY <2>1, <2>3 DEF FrameLevel, Off
  <2>4. CASE u # t /\ ~inTick[u] /\ pc'[u] = "fresh" /\ level[u]
    BY <1>1, <2>4 DEF FrameLevel, Off
  <2> QED
    BY <2>2, <2>3, <2>4
<1> QED
  BY <1>2, <1>3 DEF LevelExact

\* The CPU goes from t to next, which comes back from its switch.
LEMMA SwitchLevel ==
  ASSUME TypeInv, IdleInv, NEW A, Exact(A), LevelExact(A), NEW t \in Threads, t = current,
         ~inTick[t], NEW x \in {"READY", "BLOCKED", "DYING"},
         NEW next \in Threads, Switches(t, [status EXCEPT ![t] = x], next),
         \A u \in Threads : u # t => pc'[u] = pc[u] /\ saved'[u] = saved[u] /\ inTick'[u] = inTick[u],
         inService' => inService \/ inTick'[t],
         inTick'[t] => pc'[t] \notin Switched \cup {"hlt"} /\ x = "READY",
         inTick'[t] \/ pc'[t] \in Switched,
         inTick'[t] \/ pc'[t] \in {"yield", "wait"} => saved'[t] = level[t],
         pc'[t] \in Unchosen => level[t], UNCHANGED level,
         idle_thread' = idle_thread, IdleInv'
  PROVE  LevelExact(A)' /\ HaltEmpty'
<1>1. /\ status \in [Threads -> Status] /\ NULL \notin Threads /\ idle_thread \in {NULL, Idle}
      /\ current' = next /\ iflag' = FALSE
      /\ status' = [[status EXCEPT ![t] = x] EXCEPT ![next] = "RUNNING"]
      /\ status[next] # "unborn" \/ next = t
  <2>1. idle_thread # NULL => status[idle_thread] # "unborn"
    BY ThreadAssumption DEF IdleInv, InIdle, TypeInv, TypeOK, UnbornPlaces
  <2> QED
    BY <2>1, ThreadAssumption DEF TypeInv, TypeOK, Switches
<1>2. Off(next)'
  BY <1>1 DEF LevelExact, FrameLevel, Off
<1>3. CpuLevel' /\ EoiPending'
  BY <1>1, <1>2 DEF CpuLevel, EoiPending, LevelExact
<1>4. ASSUME NEW u \in Threads PROVE FrameLevel(u, A)'
  <2>1. FrameLevel(u, A)
    BY DEF LevelExact
  <2>2. CASE u = t
    BY <1>1, <2>2 DEF FrameLevel, Off
  <2>3. CASE u # t
    BY <1>1, <2>1, <2>3 DEF FrameLevel, Off
  <2> QED
    BY <2>2, <2>3
<1>5. HaltEmpty'
  <2> SUFFICES ASSUME next = Idle, pc'[Idle] \in {"idle_blocked", "hlt"}
               PROVE  ready_threads' = <<>>
    BY <1>1 DEF HaltEmpty
  <2>1. idle_thread = Idle
    BY <1>1 DEF IdleInv
  <2> QED
    BY <2>1 DEF Switches
<1> QED
  BY <1>3, <1>4, <1>5 DEF LevelExact

\* The timer's handler, when it interrupts a thread and not a switch.
LEMMA TimerLevel ==
  ASSUME TypeInv, IdleInv, NEW A, Exact(A), LevelExact(A), Threaded, ~ Off(current), IdleInv',
         NEW svc, TimerHandler(current, svc)
  PROVE  LevelExact(A)' /\ HaltEmpty'
<1> DEFINE t == current
<1>1. /\ t \in Threads /\ pc \in [Threads -> Places] /\ inTick \in [Threads -> BOOLEAN]
      /\ saved \in [Threads -> BOOLEAN] /\ status[t] # "unborn" /\ panic = "none"
      /\ pc[t] \notin Switched /\ ~inTick[t]
  BY DEF TypeInv, TypeOK, Exact, CpuExact, Threaded, Off
<1>2. /\ UNCHANGED <<idle_thread, level>>
      /\ \A u \in Threads : u # t => pc'[u] = pc[u]
      /\ pc'[t] \notin Switched \cup {"hlt"}
      /\ pc'[t] = pc[t] \/ pc[t] = "hlt"
  BY <1>1 DEF TimerHandler, Woken, Goto, Switched
<1>8. iflag = level[t] /\ (pc'[t] \in Unchosen => level[t])
  BY <1>1, <1>2 DEF LevelExact, CpuLevel, FrameLevel, Unchosen
<1>3. CASE ~SliceOver
  <2>1. /\ UNCHANGED <<current, iflag, inTick, saved, status, ready_threads>>
        /\ inService' = FALSE
    BY <1>3 DEF TimerHandler
  <2>2. LevelExact(A)'
    BY <1>1, <1>2, <1>8, <2>1, LocalLevel
  <2>3. HaltEmpty'
    BY <1>2, <2>1 DEF HaltEmpty, Switched
  <2> QED
    BY <2>2, <2>3
<1>4. CASE SliceOver
  <2>1. /\ ThreadYield(t) /\ inTick' = [inTick EXCEPT ![t] = TRUE]
        /\ saved' = [saved EXCEPT ![t] = iflag]
    BY <1>1, <1>4 DEF TimerHandler
  <2>2. PICK next \in Threads : Switches(t, [status EXCEPT ![t] = "READY"], next)
    BY <1>1, <2>1, YieldSwitches
  <2>3. /\ inTick'[t] /\ saved'[t] = level[t]
        /\ \A u \in Threads : u # t => saved'[u] = saved[u] /\ inTick'[u] = inTick[u]
    BY <1>1, <1>8, <2>1
  <2> HIDE DEF t
  <2> QED
    BY <1>1, <1>2, <1>8, <2>2, <2>3, SwitchLevel DEF t
<1> QED
  BY <1>3, <1>4

\* What a thread function calls.
LEMMA CallLevel ==
  ASSUME TypeInv, IdleInv, NEW A, Exact(A), LevelExact(A), Threaded, NEW t \in Threads, Call(t),
         panic' = "none", IdleInv'
  PROVE  LevelExact(A)' /\ HaltEmpty'
<1>1. /\ pc \in [Threads -> Places] /\ status \in [Threads -> Status]
      /\ saved \in [Threads -> BOOLEAN] /\ inTick \in [Threads -> BOOLEAN]
      /\ level \in [Threads -> BOOLEAN]
      /\ Idle \in Threads /\ idle_thread \in {NULL, Idle} /\ panic = "none"
  BY ThreadAssumption DEF TypeInv, TypeOK, Threaded
<1>2. t = current /\ pc[t] = "user" /\ ~inTick[t]
  BY DEF Call, SoftwareTick, IntDisable, IntEnable, CallYield, CreatePage, RunReturn, CallDown,
         CallUp, LockAcquire, LockRelease, Runs
<1>3. t # Idle
  BY <1>1, <1>2 DEF IdleInv, InIdle
<1>4. ~ Off(t) /\ iflag = level[t]
  BY <1>1, <1>2 DEF LevelExact, CpuLevel, Off, Switched
<1>5. \A u \in Threads : inTick[u] => status[u] # "unborn"
  BY DEF LevelExact, FrameLevel, Exact, BlockedExact
<1> USE DEF Goto, Return, listVars, callVars, cpuVars
<1>6. CASE SoftwareTick(t)
  BY <1>2, <1>4, <1>6, TimerLevel DEF SoftwareTick
<1>7. CASE CallYield(t)
  <2>1. /\ ThreadYield(t) /\ pc' = [pc EXCEPT ![t] = "yield"]
        /\ saved' = [saved EXCEPT ![t] = iflag]
        /\ UNCHANGED <<inTick, idle_thread, inService, level>>
    BY <1>7 DEF CallYield
  <2>2. PICK next \in Threads : Switches(t, [status EXCEPT ![t] = "READY"], next)
    BY <1>1, <1>2, <2>1, YieldSwitches
  <2>3. /\ pc'[t] = "yield" /\ saved'[t] = level[t] /\ ~inTick'[t]
        /\ \A u \in Threads :
             u # t => pc'[u] = pc[u] /\ saved'[u] = saved[u] /\ inTick'[u] = inTick[u]
    BY <1>1, <1>2, <1>4, <2>1
  <2>4. "yield" \in Switched /\ "yield" \notin Unchosen
    BY DEF Switched, Unchosen
  <2> QED
    BY <1>2, <2>1, <2>2, <2>3, <2>4, SwitchLevel
<1>8. ASSUME NEW new \in Threads, CreatePage(t, new) PROVE LevelExact(A)' /\ HaltEmpty'
  <2>1. /\ UNCHANGED <<current, inTick, inService, iflag, saved, level>> /\ status[new] = "unborn"
        /\ status' = [status EXCEPT ![new] = "BLOCKED"]
        /\ pc' = [pc EXCEPT ![t] = "create_list", ![new] = "fresh"]
    BY <1>8 DEF CreatePage
  <2>2. new # t /\ ~inTick[new] /\ level[new]
    BY <1>2, <1>5, <2>1 DEF TypeInv, UnbornPlaces, LevelExact, FrameLevel, Unchosen
  <2>3. pc'[t] = "create_list" /\ "create_list" \notin Switched /\ "create_list" \notin Unchosen
    BY <1>1, <2>1, <2>2 DEF Switched, Unchosen
  <2>4. /\ \A u \in Threads : inTick[u] => status'[u] = status[u]
        /\ \A u \in Threads : u # t =>
             \/ pc'[u] = pc[u] /\ (status'[u] = "unborn" <=> status[u] = "unborn")
             \/ ~inTick[u] /\ pc'[u] = "fresh" /\ level[u]
    BY <1>1, <2>1, <2>2
  <2>5. LevelExact(A)'
    BY <1>2, <1>4, <2>1, <2>3, <2>4, LocalLevel
  <2> QED
    BY <1>2, <1>3, <2>1, <2>5 DEF HaltEmpty
<1>9. CASE \/ IntDisable(t) \/ IntEnable(t) \/ RunReturn(t)
           \/ \E s \in Semas : CallDown(t, s) \/ CallUp(t, s)
           \/ \E l \in Locks : LockAcquire(t, l) \/ LockRelease(t, l)
  <2>1. /\ UNCHANGED <<current, inTick, inService>>
        /\ \A u \in Threads :
             u # t => saved'[u] = saved[u] /\ pc'[u] = pc[u] /\ level'[u] = level[u]
    BY <1>1, <1>9
      DEF IntDisable, IntEnable, Chosen, RunReturn, CallDown, CallUp, SemaUp, LockAcquire, LockRelease
  <2>2. /\ pc'[t] \in {"user", "exit", "down", "release"}
        /\ iflag' = level'[t]
    BY <1>1, <1>2, <1>4, <1>9
      DEF IntDisable, IntEnable, Chosen, RunReturn, CallDown, CallUp, SemaUp, LockAcquire, LockRelease
  <2>3. \A u \in Threads : u # t =>
          status'[u] = status[u] \/ (status[u] = "BLOCKED" /\ status'[u] = "READY")
    BY <1>1, <1>9
      DEF IntDisable, IntEnable, Chosen, RunReturn, CallDown, CallUp, SemaUp, ThreadUnblock,
          LockAcquire, LockRelease
  <2>4. pc'[t] \notin Switched \cup Unchosen
    BY <2>2 DEF Switched, Unchosen
  <2>5. LevelExact(A)'
    BY <1>2, <1>4, <2>1, <2>2, <2>3, <2>4, LocalLevel
  <2> QED
    BY <1>2, <1>3, <2>1, <2>5 DEF HaltEmpty
<1> QED
  BY <1>6, <1>7, <1>8, <1>9 DEF Call

\* What a thread does inside a call.
LEMMA ContinueLevel ==
  ASSUME TypeInv, IdleInv, NEW A, Exact(A), LevelExact(A), HaltEmpty, Threaded,
         NEW t \in Threads, Continue(t), panic' = "none", IdleInv'
  PROVE  LevelExact(A)' /\ HaltEmpty'
<1>1. /\ pc \in [Threads -> Places] /\ status \in [Threads -> Status]
      /\ saved \in [Threads -> BOOLEAN] /\ inTick \in [Threads -> BOOLEAN]
      /\ Idle \in Threads /\ idle_thread \in {NULL, Idle} /\ panic = "none"
      /\ value \in [Semas -> Nat]
  BY ThreadAssumption DEF TypeInv, TypeOK, Threaded
<1>2. t = current /\ ~inTick[t]
  BY DEF Continue, YieldReturn, CreateList, CreateTail, CreateLink, CreateUnblock, Run, RunSchedule, IdleStart, IdleBlock,
         IdleHalt, SemaDown, SemaDownResume, IdleUp, LockAcquired, LockReleased, Runs
<1>3. /\ pc[t] \notin Switched => iflag = level[t]
      /\ pc[t] \in {"yield", "wait"} => saved[t] = level[t]
      /\ pc[t] \in Unchosen => level[t]
  BY <1>2 DEF LevelExact, CpuLevel, FrameLevel, Off
<1> USE DEF Goto, Return, listVars, callVars, cpuVars, Runs
<1>4. CASE \/ YieldReturn(t) \/ CreateList(t) \/ CreateTail(t) \/ CreateLink(t) \/ CreateUnblock(t) \/ Run(t) \/ IdleStart(t)
           \/ IdleHalt(t) \/ IdleUp(t) \/ LockAcquired(t) \/ LockReleased(t)
  <2>1. /\ UNCHANGED <<current, inTick, inService, level>>
        /\ \A u \in Threads : u # t => saved'[u] = saved[u] /\ pc'[u] = pc[u]
    BY <1>1, <1>4
      DEF YieldReturn, CreateList, CreateTail, CreateLink, CreateUnblock, Run, IdleStart, IdleHalt, IdleUp, LockAcquired,
          LockReleased, SemaUp
  <2>2. \A u \in Threads :
          status'[u] = status[u] \/ (status[u] = "BLOCKED" /\ status'[u] = "READY")
    BY <1>1, <1>4
      DEF YieldReturn, CreateList, CreateTail, CreateLink, CreateUnblock, Run, IdleStart, IdleHalt, IdleUp, LockAcquired,
          LockReleased, SemaUp, ThreadUnblock
  <2>3. /\ pc'[t] \notin Switched
        /\ pc'[t] = "hlt" => pc[t] = "idle_blocked" /\ UNCHANGED ready_threads
        /\ pc'[t] \in Unchosen => pc[t] \in Unchosen
    BY <1>1, <1>4
      DEF YieldReturn, CreateList, CreateTail, CreateLink, CreateUnblock, Run, IdleStart, IdleHalt, IdleUp, LockAcquired,
          LockReleased, SemaUp, Switched, Unchosen
  <2>4. iflag' = level[t]
    <3>1. CASE YieldReturn(t)
      BY <1>1, <1>3, <3>1 DEF YieldReturn, IntSet
    <3>2. CASE Run(t) \/ IdleHalt(t)
      BY <1>3, <3>2 DEF Run, IdleHalt, Unchosen
    <3>3. CASE \/ CreateList(t) \/ CreateTail(t) \/ CreateLink(t) \/ CreateUnblock(t) \/ IdleStart(t) \/ IdleUp(t)
               \/ LockAcquired(t) \/ LockReleased(t)
      <4>1. UNCHANGED iflag /\ pc[t] \notin Switched
        BY <1>1, <3>3
          DEF CreateList, CreateTail, CreateLink, CreateUnblock, IdleStart, IdleUp, LockAcquired, LockReleased, SemaUp,
              Switched
      <4> QED
        BY <1>3, <4>1
    <3> QED
      BY <1>4, <3>1, <3>2, <3>3
  <2>5. LevelExact(A)'
    BY <1>2, <1>3, <2>1, <2>2, <2>3, <2>4, LocalLevel
  <2>6. HaltEmpty'
    BY <1>2, <2>1, <2>3 DEF HaltEmpty, Switched
  <2> QED
    BY <2>5, <2>6
<1>5. CASE RunSchedule(t) \/ IdleBlock(t)
  <2> DEFINE x == IF pc[t] = "exit" THEN "DYING" ELSE "BLOCKED"
  <2>1. /\ pc[t] \in {"exit", "idle_loop"}
        /\ UNCHANGED <<saved, inTick, inService, idle_thread, level>>
        /\ pc' = [pc EXCEPT ![t] = IF pc[t] = "exit" THEN "dead" ELSE "idle_blocked"]
    BY <1>5 DEF RunSchedule, IdleBlock
  <2>2. Schedule(t, [status EXCEPT ![t] = x], ready_threads)
    <3>1. CASE RunSchedule(t)
      <4>1. status[t] = "DYING" /\ Schedule(t, status, ready_threads) /\ pc[t] = "exit"
        BY <1>1, <1>2, <3>1 DEF RunSchedule, Exact, CpuExact, Schedule
      <4>2. status = [status EXCEPT ![t] = "DYING"]
        BY <1>1, <4>1
      <4> QED
        BY <4>1, <4>2
    <3>2. CASE IdleBlock(t)
      BY <3>2 DEF IdleBlock, ThreadBlock
    <3> QED
      BY <1>5, <3>1, <3>2
  <2>3. x \in {"BLOCKED", "DYING"}
    OBVIOUS
  <2> HIDE DEF x
  <2>4. PICK next \in Threads : Switches(t, [status EXCEPT ![t] = x], next)
    BY <1>1, <1>2, <2>1, <2>2, <2>3, LeaveSwitches DEF Booting
  <2>5. /\ pc'[t] \in {"dead", "idle_blocked"} /\ ~inTick'[t]
        /\ \A u \in Threads : u # t => pc'[u] = pc[u]
        /\ pc'[t] \in Unchosen => level[t]
    BY <1>1, <1>2, <1>3, <2>1 DEF Unchosen
  <2>6. "dead" \in Switched /\ "idle_blocked" \in Switched
    BY DEF Switched
  <2> QED
    BY <1>2, <2>1, <2>3, <2>4, <2>5, <2>6, SwitchLevel
<1>6. CASE SemaDown(t) \/ SemaDownResume(t)
  <2>1. PICK lvl \in BOOLEAN :
          /\ pc[t] \in {"down", "wait"} /\ DownLoop(t, arg[t], lvl) /\ arg[t] \in Semas
          /\ lvl = level[t]
    BY <1>1, <1>2, <1>3, <1>6 DEF SemaDown, SemaDownResume, TypeInv, TypeOK, ArgOK, Switched
  <2>2. CASE value[arg[t]] > 0
    <3>1. /\ UNCHANGED <<current, inTick, inService, status, level>> /\ iflag' = lvl
          /\ pc'[t] \in {"user", "acquired"}
          /\ \A u \in Threads : u # t => saved'[u] = saved[u] /\ pc'[u] = pc[u]
      BY <1>1, <2>1, <2>2 DEF DownLoop, AfterDown, IntSet
    <3>2. pc'[t] \notin Switched \cup Unchosen
      BY <3>1 DEF Switched, Unchosen
    <3>3. LevelExact(A)'
      BY <1>2, <2>1, <3>1, <3>2, LocalLevel
    <3>4. HaltEmpty'
      BY <1>2, <3>1, <3>2 DEF HaltEmpty, Unchosen
    <3> QED
      BY <3>3, <3>4
  <2>3. CASE ~ (value[arg[t]] > 0)
    <3>1. /\ Schedule(t, [status EXCEPT ![t] = "BLOCKED"], ready_threads)
          /\ pc' = [pc EXCEPT ![t] = "wait"] /\ saved' = [saved EXCEPT ![t] = lvl]
          /\ UNCHANGED <<inTick, inService, idle_thread, level>>
      BY <2>1, <2>3 DEF DownLoop, ThreadBlock
    <3>2. PICK next \in Threads : Switches(t, [status EXCEPT ![t] = "BLOCKED"], next)
      BY <1>1, <1>2, <2>1, <3>1, LeaveSwitches DEF Booting
    <3>3. /\ pc'[t] = "wait" /\ saved'[t] = level[t] /\ ~inTick'[t]
          /\ \A u \in Threads : u # t => pc'[u] = pc[u] /\ saved'[u] = saved[u]
      BY <1>1, <1>2, <2>1, <3>1
    <3>4. "wait" \in Switched /\ "wait" \notin Unchosen
      BY DEF Switched, Unchosen
    <3> QED
      BY <1>2, <3>1, <3>2, <3>3, <3>4, SwitchLevel
  <2> QED
    BY <2>2, <2>3
<1> QED
  BY <1>4, <1>5, <1>6 DEF Continue

\* A tick of the timer, whatever the ready queue was: it restores HaltInv.
LEMMA TickLevelInv ==
  ASSUME TypeInv, BootInv, NEW A, PlaceInv(A), LevelInv(A), PlaceInv(A)', HardwareTick
  PROVE  LevelInv(A)' /\ HaltInv'
<1>1. /\ status \in [Threads -> Status] /\ Kernel \in Threads /\ current \in Threads
      /\ IdleInv /\ IdleInv'
  BY ThreadAssumption DEF TypeInv, TypeOK, PlaceInv
<1>2. status[Kernel] = "unborn" <=> pc[Kernel] \in Booting
  BY <1>1 DEF PlaceInv, BootLists, Booting, BootInv, TypeInv, UnbornPlaces
<1>3. panic = "none" /\ iflag /\ TimerHandler(current, TRUE)
  BY DEF HardwareTick, IrqAccepted
<1>4. CASE Threaded
  <2>1. Exact(A) /\ LevelExact(A)
    BY <1>4 DEF PlaceInv, LevelInv
  <2>2. ~ Off(current)
    BY <1>3, <2>1 DEF LevelExact, CpuLevel
  <2>3. LevelExact(A)' /\ HaltEmpty'
    BY <1>1, <1>3, <1>4, <2>1, <2>2, TimerLevel
  <2>4. status'[Kernel] # "unborn"
    <3>1. CASE ~SliceOver
      BY <1>3, <1>4, <3>1 DEF TimerHandler, Threaded
    <3>2. CASE SliceOver
      <4>1. ThreadYield(current)
        BY <1>1, <1>3, <2>1, <3>2 DEF TimerHandler, Exact, CpuExact
      <4>2. PICK next \in Threads :
              Switches(current, [status EXCEPT ![current] = "READY"], next)
        BY <1>3, <2>1, <4>1, YieldSwitches
      <4> QED
        BY <1>1, <1>4, <4>2 DEF Switches, Threaded
    <3> QED
      BY <3>1, <3>2
  <2> QED
    BY <2>3, <2>4 DEF LevelInv, HaltInv, BootLevel, Threaded
<1>5. CASE ~ Threaded
  <2>1. status[current] = "unborn"
    BY <1>1, <1>2, <1>3, <1>5 DEF Threaded, BootInv, Booting
  <2>2. /\ status' = status /\ UNCHANGED <<inTick, level>>
        /\ panic' = "none" => inService' = FALSE
    BY <1>3, <2>1 DEF TimerHandler
  <2> QED
    BY <1>3, <1>5, <2>2 DEF LevelInv, HaltInv, BootLevel, Threaded
<1> QED
  BY <1>4, <1>5

LEMMA NextLevelInv ==
  ASSUME TypeInv, BootInv, NEW A, PlaceInv(A), LevelInv(A), HaltInv, PlaceInv(A)', [Next]_vars
  PROVE  LevelInv(A)' /\ HaltInv'
<1>1. /\ pc \in [Threads -> Places] /\ status \in [Threads -> Status]
      /\ saved \in [Threads -> BOOLEAN] /\ inTick \in [Threads -> BOOLEAN]
      /\ Kernel \in Threads /\ Idle \in Threads /\ Kernel # Idle /\ current \in Threads
      /\ iflag \in BOOLEAN /\ idle_thread \in {NULL, Idle} /\ IdleInv /\ IdleInv'
  BY ThreadAssumption DEF TypeInv, TypeOK, PlaceInv
<1>2. status[Kernel] = "unborn" <=> pc[Kernel] \in Booting
  BY <1>1 DEF PlaceInv, BootLists, Booting, BootInv, TypeInv, UnbornPlaces
<1>3. CASE UNCHANGED vars
  BY <1>3 DEF vars, threadVars, cpuVars, callVars, listVars, LevelInv, HaltInv, BootLevel, Threaded,
              LevelExact, FrameLevel, CpuLevel, EoiPending, HaltEmpty, Off
<1>4. CASE IdtInit
  <2>1. /\ ~ Threaded /\ ~ Threaded' /\ panic = "none" /\ UNCHANGED <<inService, inTick, level>>
    BY <1>2, <1>4 DEF IdtInit, Runs, listVars, Threaded, Booting
  <2> QED
    BY <2>1 DEF LevelInv, HaltInv, BootLevel
<1>5. CASE ThreadInit
  <2>1. /\ pc[Kernel] = "thread_init" /\ current = Kernel /\ panic = "none"
        /\ UNCHANGED <<inService, inTick, current, level>> /\ iflag' = TRUE
        /\ pc' = [pc EXCEPT ![Kernel] = "down", ![Idle] = "fresh"]
        /\ status' = [status EXCEPT ![Kernel] = "RUNNING", ![Idle] = "READY"]
    BY <1>5 DEF ThreadInit, Runs
  <2>2. /\ ~inService /\ \A u \in Threads : ~inTick[u] /\ status[u] = "unborn" /\ level[u]
    BY <1>2, <2>1 DEF LevelInv, BootLevel, Threaded, Booting, BootInv
  <2>3. /\ pc'[Kernel] = "down" /\ pc'[Idle] = "fresh"
        /\ \A u \in Threads : u \in {Kernel, Idle} \/ status'[u] = "unborn"
        /\ \A u \in Threads : pc'[u] \notin {"yield", "wait"}
    BY <1>1, <2>1, <2>2 DEF TypeInv, UnbornPlaces
  <2>4. \A u \in Threads : FrameLevel(u, A)'
    BY <1>1, <2>1, <2>2, <2>3 DEF FrameLevel, Off, Switched
  <2>5. CpuLevel' /\ EoiPending' /\ HaltEmpty' /\ BootLevel'
    BY <1>1, <2>1, <2>2, <2>3 DEF CpuLevel, EoiPending, HaltEmpty, Off, BootLevel, Switched
  <2> QED
    BY <2>4, <2>5 DEF LevelInv, HaltInv, LevelExact
<1>6. CASE HardwareTick
  BY <1>6, TickLevelInv
<1>7. CASE OtherIrq
  <2>1. /\ panic = "none" /\ iflag /\ pc[current] = "hlt"
        /\ pc' = [pc EXCEPT ![current] = "idle_loop"]
        /\ UNCHANGED <<current, iflag, inService, panic, saved, inTick, status, level>>
    BY <1>7 DEF OtherIrq, IrqAccepted, Woken, Goto, cpuVars, listVars
  <2>2. Threaded /\ Threaded'
    BY <1>1, <1>2, <2>1 DEF Threaded, BootInv, Booting
  <2>3. LevelExact(A) /\ ~inTick[current] /\ level[current] /\ iflag = level[current]
    BY <1>1, <2>1, <2>2 DEF LevelInv, LevelExact, FrameLevel, CpuLevel, Off, Switched, Unchosen
  <2>4. pc'[current] = "idle_loop" /\ \A u \in Threads : u # current => pc'[u] = pc[u]
    BY <1>1, <2>1
  <2>5. LevelExact(A)'
    BY <1>1, <2>1, <2>3, <2>4, LocalLevel DEF Switched
  <2>6. HaltEmpty'
    BY <2>1, <2>4 DEF HaltEmpty
  <2> QED
    BY <2>2, <2>5, <2>6 DEF LevelInv, HaltInv, BootLevel
<1>8. CASE Resume
  <2> DEFINE t == current
  <2>1. /\ panic = "none" /\ inTick[t] /\ inService' = FALSE /\ iflag' = saved[t]
        /\ inTick' = [inTick EXCEPT ![t] = FALSE] /\ saved' = [saved EXCEPT ![t] = FALSE]
        /\ UNCHANGED <<current, panic, pc, status, ready_threads, level>>
    BY <1>8 DEF Resume, TickReturn, listVars
  <2>2. Threaded /\ Threaded'
    BY <1>1, <2>1 DEF LevelInv, BootLevel, Threaded
  <2>3. LevelExact(A) /\ HaltEmpty
    BY <2>2 DEF LevelInv, HaltInv
  <2>4. FrameLevel(t, A)
    BY <1>1, <2>3 DEF LevelExact
  <2>5. /\ pc[t] \notin Switched \cup {"hlt"} /\ ~inTick'[t]
        /\ iflag' = level[t]
    BY <1>1, <2>1, <2>4 DEF FrameLevel
  <2>6. ASSUME NEW u \in Threads PROVE FrameLevel(u, A)'
    <3>1. FrameLevel(u, A)
      BY <2>3 DEF LevelExact
    <3>2. CASE u = t
      BY <2>1, <2>4, <2>5, <3>2 DEF FrameLevel, Switched
    <3>3. CASE u # t
      BY <1>1, <2>1, <3>1, <3>3 DEF FrameLevel, Off
    <3> QED
      BY <3>2, <3>3
  <2>7. CpuLevel' /\ EoiPending' /\ HaltEmpty'
    BY <2>1, <2>3, <2>5 DEF CpuLevel, EoiPending, HaltEmpty, Off
  <2> QED
    BY <2>2, <2>6, <2>7 DEF LevelInv, HaltInv, BootLevel, LevelExact
<1>9. ASSUME NEW t \in Threads, Call(t) \/ Continue(t) PROVE LevelInv(A)' /\ HaltInv'
  <2>1. Threaded /\ pc'[Kernel] \notin Booting /\ pc'[Kernel] # "none"
    BY <1>1, <1>9, ThreadThreaded DEF PlaceInv, BootLists
  <2>2. Exact(A) /\ LevelExact(A) /\ HaltEmpty
    BY <2>1 DEF PlaceInv, LevelInv, HaltInv
  <2>3. panic' = "none" => LevelExact(A)' /\ HaltEmpty'
    BY <1>1, <1>9, <2>1, <2>2, CallLevel, ContinueLevel
  <2>4. status'[Kernel] # "unborn"
    BY <2>1, NextTypeInv, <1>1 DEF TypeInv, UnbornPlaces, Booting
  <2> QED
    BY <2>3, <2>4 DEF LevelInv, HaltInv, BootLevel, Threaded
<1> QED
  BY <1>3, <1>4, <1>5, <1>6, <1>7, <1>8, <1>9 DEF Next, Boot, Irq, Compute, Halted

LEMMA InitLevelInv == Init => LevelInv({}) /\ HaltInv
  BY ThreadAssumption DEF Init, LevelInv, HaltInv, BootLevel, Threaded

CpuInv == TypeInv /\ BootInv /\ PlaceInv({}) /\ LevelInv({}) /\ HaltInv

LEMMA SpecCpuInv == Spec => []CpuInv
<1>1. Init => LevelInv({}) /\ HaltInv
  BY InitLevelInv
<1>2. /\ TypeInv /\ BootInv /\ PlaceInv({}) /\ PlaceInv({})' /\ LevelInv({}) /\ HaltInv
      /\ [Next]_vars
      => (LevelInv({}) /\ HaltInv)'
  BY NextLevelInv
<1> QED
  BY <1>1, <1>2, SpecPlaceInv, PTL DEF Spec, CpuInv

\* A thread comes back from every switch, and from every nesting of the timer's
\* handler with a call, to the interrupt level its own function chose, also when other
\* functions turn interrupts off and call int $32 with them off: LevelRestored.
THEOREM LevelIsRestored == Spec => []LevelRestored
<1>1. CpuInv => LevelRestored
  BY DEF CpuInv, LevelInv, LevelExact, CpuLevel, Off, LevelRestored, Threaded
<1> QED
  BY <1>1, SpecCpuInv, PTL

\* The idle thread never halts with the timer held back: the thread that owes the PIC
\* its EOI is ready, and idle() only gets to its hlt when none is.
THEOREM HaltIsWoken == Spec => []HaltWakes
<1>1. ASSUME CpuInv PROVE HaltWakes
  <2> SUFFICES ASSUME panic = "none", pc[current] = "hlt", ~inTick[current]
               PROVE  iflag /\ ~inService
    BY DEF HaltWakes
  <2>1. current \in Threads /\ Kernel \in Threads /\ Idle \in Threads /\ NULL \notin Threads
    BY <1>1, ThreadAssumption DEF CpuInv, TypeInv, TypeOK
  <2>2. current = Idle
    BY <1>1, <2>1 DEF CpuInv, TypeInv, IdlePlaces
  <2>3. Threaded
    BY <1>1, <2>1
      DEF CpuInv, PlaceInv, BootLists, Booting, BootInv, TypeInv, UnbornPlaces, Threaded
  <2>4. Exact({}) /\ LevelExact({}) /\ ready_threads = <<>>
    BY <1>1, <2>2, <2>3 DEF CpuInv, PlaceInv, LevelInv, HaltInv, HaltEmpty
  <2>5. iflag
    BY <2>1, <2>4 DEF LevelExact, FrameLevel, CpuLevel, Off, Switched, Unchosen
  <2>6. idle_thread = Idle
    BY <1>1, <2>2 DEF CpuInv, PlaceInv, IdleInv, TypeInv, TypeOK
  <2>7. ASSUME NEW u \in Threads, inTick[u] PROVE FALSE
    <3>1. status[u] \in {"READY", "RUNNING"} /\ u # Idle
      BY <2>2, <2>4, <2>7 DEF LevelExact, FrameLevel
    <3>2. status[u] = "READY"
      BY <2>2, <2>4, <3>1 DEF Exact, CpuExact
    <3>3. InSeq(u, ready_threads)
      BY <2>4, <2>6, <3>1, <3>2 DEF Exact, ReadyExact
    <3> QED
      BY <2>4, <3>3 DEF InSeq
  <2> QED
    BY <2>4, <2>5, <2>7 DEF LevelExact, EoiPending
<1> QED
  BY <1>1, SpecCpuInv, PTL

-------------------------------------------------------------------------------
(* Wake-ups. *)

\* While threads wait for s, each unit of s has a woken thread on its way to take it.
WakeExact(s) ==
  /\ IsFiniteSet(WokenFor(s))
  /\ waiters[s] # <<>> => value[s] <= Cardinality(WokenFor(s))

WakeInv == panic = "none" => \A s \in Semas : WakeExact(s)

\* t is in the loop of sema_down of s.
InDown(t, s) == pc[t] = "wait" /\ arg[t] = s

LEMMA WokenIs ==
  ASSUME NEW s
  PROVE  WokenFor(s) = {t \in Threads : InDown(t, s) /\ ~ InSeq(t, waiters[s])}
  BY DEF WokenFor, Positions, InSeq, InDown

LEMMA WokenIsNext ==
  ASSUME NEW s
  PROVE  WokenFor(s)' = {t \in Threads : InDown(t, s)' /\ ~ InSeq(t, waiters'[s])}
  BY DEF WokenFor, Positions, InSeq, InDown

\* Steps that touch no semaphore and no wait.
WakeFrame ==
  /\ UNCHANGED <<value, waiters>>
  /\ \A t \in Threads :
       (pc'[t] = "wait" <=> pc[t] = "wait") /\ (pc[t] = "wait" => arg'[t] = arg[t])

LEMMA FrameWake ==
  ASSUME NEW s, WakeExact(s), value'[s] = value[s], waiters'[s] = waiters[s],
         \A t \in Threads : InDown(t, s)' <=> InDown(t, s)
  PROVE  WakeExact(s)'
<1>1. WokenFor(s)' = WokenFor(s)
  BY WokenIs, WokenIsNext
<1> QED
  BY <1>1 DEF WakeExact

\* sema_up of s: the unit it adds has the thread it wakes.
LEMMA UpWake ==
  ASSUME TypeInv, NEW A, Exact(A), NEW s \in Semas, WakeExact(s), NEW t \in Threads,
         NEW p, SemaUp(t, s, p), pc[t] # "wait", p # "wait"
  PROVE  WakeExact(s)'
<1>1. /\ value \in [Semas -> Nat] /\ waiters \in [Semas -> Seq(Threads)]
      /\ pc \in [Threads -> Places]
  BY DEF TypeInv, TypeOK
<1>2. \A u \in Threads : InDown(u, s)' <=> InDown(u, s)
  BY <1>1 DEF SemaUp, Return, Goto, InDown, TypeInv, TypeOK
<1>3. CASE waiters[s] = <<>>
  <2>1. waiters' = waiters
    BY <1>3 DEF SemaUp, Wakes
  <2>2. WokenFor(s)' = WokenFor(s)
    BY <1>2, <2>1, WokenIs, WokenIsNext
  <2> QED
    BY <1>3, <2>1, <2>2 DEF WakeExact
<1>4. CASE waiters[s] # <<>>
  <2> DEFINE q == waiters[s]
             h == Head(q)
  <2>1. waiters' = [waiters EXCEPT ![s] = Tail(q)] /\ value' = [value EXCEPT ![s] = @ + 1]
    BY <1>4 DEF SemaUp, Wakes, PoppedWaiters
  <2>2. q \in Seq(Threads) /\ IsInjective(q)
    BY <1>1 DEF Exact, WaitExact
  <2>3. /\ h \in Threads /\ InSeq(h, q)
        /\ \A x : InSeq(x, Tail(q)) <=> InSeq(x, q) /\ x # h
    BY <1>4, <2>2, TailExact
  <2>4. InDown(h, s)
    BY <2>3 DEF Exact, WaitExact, InDown
  <2>5. waiters'[s] = Tail(q) /\ value'[s] = value[s] + 1 /\ value[s] \in Nat
    BY <1>1, <2>1
  <2>6. WokenFor(s)' = WokenFor(s) \cup {h} /\ h \notin WokenFor(s)
    BY <1>2, <2>3, <2>4, <2>5, WokenIs, WokenIsNext
  <2>7. IsFiniteSet(WokenFor(s)) /\ value[s] <= Cardinality(WokenFor(s))
    BY <1>4 DEF WakeExact
  <2>8. Cardinality(WokenFor(s)) \in Nat
    BY <2>7, FS_CardinalityType
  <2>9. /\ IsFiniteSet(WokenFor(s) \cup {h})
        /\ Cardinality(WokenFor(s) \cup {h}) = Cardinality(WokenFor(s)) + 1
    BY <2>6, <2>7, FS_AddElement
  <2> QED
    BY <2>5, <2>6, <2>7, <2>8, <2>9 DEF WakeExact
<1> QED
  BY <1>3, <1>4

\* The loop of sema_down of s: a thread takes a unit, and is no longer on its way if
\* it was woken, or it goes to wait and there is none.
LEMMA DownWake ==
  ASSUME TypeInv, NEW A, Exact(A), NEW t \in Threads, t = current, pc[t] \in {"down", "wait"},
         NEW s \in Semas, s = arg[t], WakeExact(s), NEW lvl, DownLoop(t, s, lvl), t \notin A
  PROVE  WakeExact(s)'
<1>1. /\ value \in [Semas -> Nat] /\ waiters \in [Semas -> Seq(Threads)]
      /\ pc \in [Threads -> Places] /\ arg \in [Threads -> Threads \cup Semas \cup {NULL}]
      /\ ~ InSeq(t, waiters[s])
  BY DEF TypeInv, TypeOK, Exact, WaitExact, CpuExact
<1>2. /\ IsFiniteSet(WokenFor(s)) /\ Cardinality(WokenFor(s)) \in Nat
      /\ waiters[s] # <<>> => value[s] <= Cardinality(WokenFor(s))
  BY FS_CardinalityType DEF WakeExact
<1>3. IsFiniteSet(WokenFor(s) \ {t}) /\ Cardinality(WokenFor(s) \ {t}) \in Nat
  <2>1. IsFiniteSet(WokenFor(s) \ {t})
    BY <1>2, FS_RemoveElement
  <2> QED
    BY <2>1, FS_CardinalityType
<1>4. Cardinality(WokenFor(s) \ {t}) >= Cardinality(WokenFor(s)) - 1
  <2>1. \/ Cardinality(WokenFor(s) \ {t}) = Cardinality(WokenFor(s)) - 1
        \/ Cardinality(WokenFor(s) \ {t}) = Cardinality(WokenFor(s))
    BY <1>2, FS_RemoveElement
  <2> QED
    BY <1>2, <1>3, <2>1
<1>5. CASE value[s] > 0
  <2>1. /\ value' = [value EXCEPT ![s] = @ - 1] /\ waiters' = waiters
        /\ pc'[t] # "wait"
        /\ \A u \in Threads : u # t => pc'[u] = pc[u] /\ arg'[u] = arg[u]
    BY <1>1, <1>5 DEF DownLoop, AfterDown, Goto, Return
  <2>2. WokenFor(s)' = WokenFor(s) \ {t}
    BY <1>1, <2>1, WokenIs, WokenIsNext DEF InDown
  <2>3. value'[s] = value[s] - 1 /\ value[s] \in Nat
    BY <1>1, <2>1
  <2> QED
    BY <1>2, <1>3, <1>4, <2>1, <2>2, <2>3 DEF WakeExact
<1>6. CASE ~ (value[s] > 0)
  <2>1. /\ value' = value /\ waiters' = [waiters EXCEPT ![s] = Append(@, t)]
        /\ pc' = [pc EXCEPT ![t] = "wait"] /\ arg' = arg /\ value[s] = 0
    BY <1>1, <1>6 DEF DownLoop, Goto
  <2>2. /\ waiters'[s] = Append(waiters[s], t)
        /\ \A x : InSeq(x, waiters'[s]) <=> InSeq(x, waiters[s]) \/ x = t
    BY <1>1, <2>1, AppendExact
  <2>3. WokenFor(s)' = WokenFor(s) \ {t}
    BY <1>1, <2>1, <2>2, WokenIs, WokenIsNext DEF InDown
  <2> QED
    BY <1>3, <2>1, <2>3 DEF WakeExact
<1> QED
  BY <1>5, <1>6

\* The other steps of a thread leave the semaphores and the waits alone.
LEMMA ThreadWakeFrame ==
  ASSUME TypeInv, NEW t \in Threads, Call(t) \/ Continue(t),
         \A s \in Semas : ~ CallUp(t, s), ~ SemaDown(t), ~ SemaDownResume(t),
         ~ IdleUp(t), ~ LockReleased(t)
  PROVE  WakeFrame
<1>1. /\ pc \in [Threads -> Places] /\ arg \in [Threads -> Threads \cup Semas \cup {NULL}]
      /\ status \in [Threads -> Status]
  BY DEF TypeInv, TypeOK
<1> USE <1>1 DEF Goto, Return, listVars, callVars, cpuVars, Runs, synchVars, WakeFrame
<1>2. CASE SoftwareTick(t) /\ UNCHANGED synchVars
  BY <1>2 DEF SoftwareTick, TimerHandler, Woken
<1>3. CASE (IntDisable(t) \/ IntEnable(t) \/ CallYield(t) \/ RunReturn(t)) /\ UNCHANGED synchVars
  BY <1>3 DEF IntDisable, IntEnable, CallYield, RunReturn
<1>4. ASSUME NEW new \in Threads, CreatePage(t, new), UNCHANGED synchVars PROVE WakeFrame
  <2>1. pc[new] # "wait" /\ pc[t] = "user"
    BY <1>4 DEF CreatePage, TypeInv, UnbornPlaces
  <2> QED
    BY <1>4, <2>1 DEF CreatePage
<1>5. CASE /\ YieldReturn(t) \/ CreateList(t) \/ CreateTail(t) \/ CreateLink(t) \/ CreateUnblock(t) \/ Run(t) \/ RunSchedule(t)
           /\ UNCHANGED synchVars
  BY <1>5 DEF YieldReturn, CreateList, CreateTail, CreateLink, CreateUnblock, Run, RunSchedule
<1>6. CASE (IdleStart(t) \/ IdleBlock(t) \/ IdleHalt(t)) /\ UNCHANGED synchVars
  BY <1>6 DEF IdleStart, IdleBlock, IdleHalt
<1>7. ASSUME NEW s, CallDown(t, s) PROVE WakeFrame
  BY <1>7 DEF CallDown
<1>8. ASSUME NEW l, LockAcquire(t, l) \/ LockRelease(t, l) PROVE WakeFrame
  BY <1>8 DEF LockAcquire, LockRelease
<1>9. CASE LockAcquired(t)
  BY <1>9 DEF LockAcquired
<1> QED
  BY <1>2, <1>3, <1>4, <1>5, <1>6, <1>7, <1>8, <1>9 DEF Call, Continue

LEMMA NextWakeInv ==
  ASSUME TypeInv, BootInv, PlaceInv({}), WakeInv, [Next]_vars
  PROVE  WakeInv'
<1>1. /\ pc \in [Threads -> Places] /\ arg \in [Threads -> Threads \cup Semas \cup {NULL}]
      /\ value \in [Semas -> Nat] /\ waiters \in [Semas -> Seq(Threads)]
      /\ current \in Threads /\ Kernel \in Threads /\ Idle \in Threads
  BY ThreadAssumption DEF TypeInv, TypeOK
<1>2. ASSUME WakeFrame, panic' = "none" => panic = "none" PROVE WakeInv'
  <2>1. \A t \in Threads : \A s \in Semas : InDown(t, s)' <=> InDown(t, s)
    BY <1>2 DEF InDown, WakeFrame
  <2>2. value' = value /\ waiters' = waiters
    BY <1>2 DEF WakeFrame
  <2> SUFFICES ASSUME panic = "none", NEW s \in Semas PROVE WakeExact(s)'
    BY <1>2 DEF WakeInv
  <2>3. WakeExact(s)
    BY DEF WakeInv
  <2> QED
    BY <2>1, <2>2, <2>3, FrameWake
<1>3. CASE UNCHANGED vars
  <2>1. WakeFrame /\ UNCHANGED panic
    BY <1>3 DEF vars, threadVars, cpuVars, callVars, synchVars, WakeFrame
  <2> QED
    BY <1>2, <2>1
<1>4. CASE Boot
  <2>1. \A t \in Threads : pc[t] # "wait"
    BY <1>1, <1>4 DEF Boot, IdtInit, ThreadInit, Runs, BootInv, TypeInv, UnbornPlaces
  <2>2. WakeFrame /\ UNCHANGED panic
    BY <1>1, <1>4, <2>1 DEF Boot, IdtInit, ThreadInit, Goto, WakeFrame, synchVars
  <2> QED
    BY <1>2, <2>2
<1>5. CASE Irq
  <2>1. WakeFrame /\ panic = "none"
    BY <1>1, <1>5 DEF Irq, HardwareTick, OtherIrq, IrqAccepted, TimerHandler, Woken, Goto,
                      WakeFrame, synchVars
  <2> QED
    BY <1>2, <2>1
<1>6. CASE Resume
  <2>1. WakeFrame /\ UNCHANGED panic
    BY <1>6 DEF Resume, TickReturn, WakeFrame, synchVars
  <2> QED
    BY <1>2, <2>1
<1>7. ASSUME NEW t \in Threads, Call(t) \/ Continue(t) PROVE WakeInv'
  <2>1. Threaded /\ current = t
    BY <1>7, ThreadThreaded, PastBoot DEF PlaceInv, BootLists
  <2>2. Exact({}) /\ panic = "none" /\ \A s \in Semas : WakeExact(s)
    BY <2>1 DEF Threaded, PlaceInv, WakeInv
  <2>3. ASSUME NEW s \in Semas, NEW p \in {"user", "idle_loop"}, SemaUp(t, s, p), pc[t] # "wait"
        PROVE  WakeInv'
    <3>1. WakeExact(s)'
      BY <2>2, <2>3, UpWake
    <3>2. ASSUME NEW r \in Semas, r # s PROVE WakeExact(r)'
      <4>1. value'[r] = value[r] /\ waiters'[r] = waiters[r]
        BY <1>1, <2>3, <3>2 DEF SemaUp
      <4>2. \A u \in Threads : InDown(u, r)' <=> InDown(u, r)
        BY <1>1, <2>3 DEF SemaUp, Return, Goto, InDown
      <4> QED
        BY <2>2, <4>1, <4>2, FrameWake
    <3> QED
      BY <3>1, <3>2 DEF WakeInv
  <2>4. ASSUME NEW lvl, pc[t] \in {"down", "wait"}, DownLoop(t, arg[t], lvl) PROVE WakeInv'
    <3>0. PICK s \in Semas : s = arg[t]
      BY <2>4 DEF TypeInv, ArgOK
    <3>1. WakeExact(s)'
      BY <2>1, <2>2, <2>4, <3>0, DownWake
    <3>2. ASSUME NEW r \in Semas, r # s PROVE WakeExact(r)'
      <4>1. value'[r] = value[r] /\ waiters'[r] = waiters[r]
        BY <1>1, <2>4, <3>0, <3>2 DEF DownLoop
      <4>2. \A u \in Threads : u # t => pc'[u] = pc[u] /\ arg'[u] = arg[u]
        BY <1>1, <2>4 DEF DownLoop, AfterDown, Return, Goto
      <4>3. ~ InDown(t, r) /\ ~ InDown(t, r)'
        BY <1>1, <2>4, <3>0, <3>2 DEF DownLoop, AfterDown, Return, Goto, InDown
      <4>4. \A u \in Threads : InDown(u, r)' <=> InDown(u, r)
        BY <4>2, <4>3 DEF InDown
      <4> QED
        BY <2>2, <4>1, <4>4, FrameWake
    <3> QED
      BY <3>1, <3>2 DEF WakeInv
  <2>5. CASE \E s \in Semas : CallUp(t, s)
    BY <2>3, <2>5 DEF CallUp, Runs
  <2>6. CASE SemaDown(t) \/ SemaDownResume(t)
    BY <2>4, <2>6 DEF SemaDown, SemaDownResume, Runs
  <2>7. CASE IdleUp(t)
    BY <2>3, <2>7, SynchAssumption DEF IdleUp, Runs
  <2>8. CASE LockReleased(t)
    <3>1. arg[t] \in Semas /\ pc[t] = "release" /\ SemaUp(t, arg[t], "user")
      BY <2>8, SynchAssumption DEF LockReleased, Runs, TypeInv, ArgOK
    <3> QED
      BY <2>3, <3>1
  <2> QED
    BY <1>2, <1>7, <2>2, <2>5, <2>6, <2>7, <2>8, ThreadWakeFrame
<1> QED
  BY <1>3, <1>4, <1>5, <1>6, <1>7 DEF Next, Compute, Halted

\* No wake-up of sema_up is lost, whatever other thread takes the unit before the
\* one that was woken tests for it: NoLostWakeup, for any number of threads.
THEOREM NoWakeupIsLost == Spec => []NoLostWakeup
<1>1. Init => WakeInv
  <2> SUFFICES ASSUME Init, NEW s \in Semas PROVE WakeExact(s)
    BY DEF WakeInv
  <2>1. waiters[s] = <<>> /\ WokenFor(s) = {}
    BY DEF Init, SynchInit, WokenFor
  <2> QED
    BY <2>1, FS_EmptySet DEF WakeExact
<1>2. TypeInv /\ BootInv /\ PlaceInv({}) /\ WakeInv /\ [Next]_vars => WakeInv'
  BY NextWakeInv
<1>3. WakeInv => NoLostWakeup
  BY DEF WakeInv, WakeExact, NoLostWakeup
<1> QED
  BY <1>1, <1>2, <1>3, SpecPlaceInv, PTL DEF Spec
===============================================================================
