--------------------------------- MODULE Synch ---------------------------------
(***************************************************************************)
(* Semaphores and locks: thread/synch.c, on top of the threads of Thread.  *)
(*                                                                         *)
(* A lock is identified with the semaphore inside it: Locks is a subset of *)
(* Semas, and thread functions touch the semaphore of a lock only through  *)
(* lock_accquire and lock_release.  The condition variables of synch.c     *)
(* have no code behind them and are left out.                              *)
(***************************************************************************)
EXTENDS Thread

CONSTANTS Semas,       \* the semaphores
          Locks,       \* those that sit in a lock
          InitStarted, \* init_started, on the stack of thread_init
          InitValue,   \* the value sema_init gives each semaphore
          MaxValue     \* bound on the value of a semaphore that is no lock's

ASSUME SynchAssumption ==
  /\ Locks \subseteq Semas
  /\ InitStarted \in Semas \ Locks
  /\ InitValue \in [Semas -> Nat]
  /\ \A l \in Locks : InitValue[l] = 1
  /\ InitValue[InitStarted] = 0
  /\ MaxValue \in Nat
  /\ NULL \notin Semas /\ Semas \cap Threads = {}

VARIABLES
  value,    \* semaphore.value
  waiters,  \* semaphore.waiters
  holder    \* lock.holder

synchVars == <<value, waiters, holder>>
vars == <<threadVars, synchVars>>

\* sema_init and lock_init.
SynchInit ==
  /\ value = InitValue
  /\ waiters = [s \in Semas |-> <<>>]
  /\ holder = [l \in Locks |-> NULL]

-------------------------------------------------------------------------------
(* Semaphores. *)

\* Mutant: a thread is only woken when the value was 0.
WakesAtZero(s) == waiters[s] # <<>> /\ value[s] = 0

\* sema_up wakes a thread whenever one waits, whatever the value is.
Wakes(s) == waiters[s] # <<>>

\* Mutant: the waiter that is woken stays in the list.
PoppedWaitersKept(s) == waiters[s]

\* The head of the waiting list is popped before it is unblocked.
PoppedWaiters(s) == Tail(waiters[s])

\* sema_up(s), called by t, which continues at p; interrupts end as they were.
SemaUp(t, s, p) ==
  /\ IF Wakes(s)
     THEN /\ ThreadUnblock(Head(waiters[s]))
          /\ waiters' = [waiters EXCEPT ![s] = PoppedWaiters(s)]
     ELSE UNCHANGED <<panic, status, ready_threads, waiters>>
  /\ value' = [value EXCEPT ![s] = @ + 1]
  /\ Return(t, p)
  /\ UNCHANGED <<current, iflag, inService, inTick, seen, all_threads, idle_thread,
                 tick_count, torn, level, holder>>

\* Where a thread continues after sema_down: lock_accquire has more to do.
AfterDown(t, s) ==
  IF s \in Locks
  THEN /\ Goto(t, "acquired")
       /\ saved' = [saved EXCEPT ![t] = FALSE]
       /\ UNCHANGED arg
  ELSE Return(t, "user")

\* The loop of sema_down(s), with interrupts off; lvl is itr_level.  A thread
\* that finds no unit blocks inside the loop and tests again when it is back.
DownLoop(t, s, lvl) ==
  \/ /\ value[s] > 0
     /\ value' = [value EXCEPT ![s] = @ - 1]
     /\ IntSet(lvl)
     /\ AfterDown(t, s)
     /\ UNCHANGED <<current, inService, panic, inTick, seen, listVars, waiters, holder>>
  \/ /\ value[s] = 0
     /\ waiters' = [waiters EXCEPT ![s] = Append(@, t)]
     /\ ThreadBlock(t)
     /\ saved' = [saved EXCEPT ![t] = lvl]
     /\ Goto(t, "wait")
     /\ UNCHANGED <<inService, arg, inTick, seen, idle_thread, level, value, holder>>

\* sema_down from its int_disable on, and again from its thread_block on.
SemaDown(t) == Runs(t, "down") /\ DownLoop(t, arg[t], iflag)

\* Mutant: if instead of while.
SemaDownOnce(t) ==
  /\ Runs(t, "wait")
  /\ value' = [value EXCEPT ![arg[t]] = @ - 1]
  /\ IntSet(saved[t])
  /\ AfterDown(t, arg[t])
  /\ UNCHANGED <<current, inService, panic, inTick, seen, listVars, waiters, holder>>

SemaDownResume(t) == Runs(t, "wait") /\ DownLoop(t, arg[t], saved[t])

\* A thread function calls sema_down or sema_up.
CallDown(t, s) ==
  /\ "sema" \in Ops /\ Runs(t, "user") /\ s \notin Locks
  /\ Goto(t, "down")
  /\ arg' = [arg EXCEPT ![t] = s]
  /\ UNCHANGED <<cpuVars, saved, inTick, seen, listVars, synchVars>>

CallUp(t, s) ==
  /\ "sema" \in Ops /\ Runs(t, "user") /\ s \notin Locks
  /\ value[s] < MaxValue
  /\ SemaUp(t, s, "user")

\* Mutant: the idle thread forgets to.
IdleUpForgotten(t) ==
  /\ Runs(t, "idle_up") /\ Goto(t, "idle_loop")
  /\ UNCHANGED <<cpuVars, arg, saved, inTick, seen, listVars, synchVars>>

\* The idle thread tells thread_init that it has started.
IdleUp(t) == Runs(t, "idle_up") /\ SemaUp(t, InitStarted, "idle_loop")

-------------------------------------------------------------------------------
(* Locks. *)

\* lock_accquire(l): the assertion, then sema_down, then the holder.
LockAcquire(t, l) ==
  /\ "lock" \in Ops /\ Runs(t, "user")
  /\ IF holder[l] = t
     THEN /\ panic' = "Lock already held by this thread"
          /\ iflag' = FALSE
          /\ UNCHANGED <<pc, arg>>
     ELSE /\ Goto(t, "down") /\ arg' = [arg EXCEPT ![t] = l]
          /\ UNCHANGED <<panic, iflag>>
  /\ UNCHANGED <<current, inService, saved, inTick, seen, listVars, synchVars>>

LockAcquired(t) ==
  /\ Runs(t, "acquired")
  /\ holder' = [holder EXCEPT ![arg[t]] = t]
  /\ Return(t, "user")
  /\ UNCHANGED <<cpuVars, inTick, seen, listVars, value, waiters>>

\* Mutant: lock_release does not look at the holder.
LockReleaseAny(t, l) ==
  /\ "lock" \in Ops /\ Runs(t, "user")
  /\ holder' = [holder EXCEPT ![l] = NULL]
  /\ Goto(t, "release") /\ arg' = [arg EXCEPT ![t] = l]
  /\ UNCHANGED <<cpuVars, saved, inTick, seen, listVars, value, waiters>>

\* lock_release(l): the assertion and the holder, then sema_up.
LockRelease(t, l) ==
  /\ "lock" \in Ops /\ Runs(t, "user")
  /\ IF holder[l] # t
     THEN /\ panic' = "Attempted release of lock not held by current thread"
          /\ iflag' = FALSE
          /\ UNCHANGED <<pc, arg, holder>>
     ELSE /\ holder' = [holder EXCEPT ![l] = NULL]
          /\ Goto(t, "release") /\ arg' = [arg EXCEPT ![t] = l]
          /\ UNCHANGED <<panic, iflag>>
  /\ UNCHANGED <<current, inService, saved, inTick, seen, listVars, value, waiters>>

LockReleased(t) == Runs(t, "release") /\ SemaUp(t, arg[t], "user")
===============================================================================
