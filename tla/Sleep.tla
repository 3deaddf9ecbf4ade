--------------------------------- MODULE Sleep ---------------------------------
(***************************************************************************)
(* thread_sleep and sleep_tick of thread/thread.c, on top of Kernel.       *)
(*                                                                         *)
(* The call of sleep_tick in thread_tick is commented out, and so is the   *)
(* one call of thread_sleep, in main(): as the kernel stands nobody sleeps *)
(* and a sleeper would not be woken.  This module has both calls where the *)
(* comments have them: every tick starts with sleep_tick, and a thread     *)
(* puts another one to sleep that is ready.                                *)
(***************************************************************************)
EXTENDS Kernel

CONSTANTS
  TicksPerSecond, \* 18
  Durations,      \* the arguments ticks of thread_sleep; in seconds they do not overflow
  WordMod         \* 2^32

ASSUME SleepAssumption ==
  /\ TicksPerSecond \in Nat \ {0} /\ WordMod \in Nat \ {0}
  /\ Durations \subseteq Nat /\ \A n \in Durations : n * TicksPerSecond < WordMod
  /\ "int32" \notin Ops

VARIABLES
  sleeper_list, \* [t, tick_remaining], and as history left, the ticks t has still to
                \* sleep, and joined, its place in the list when it went to sleep
  ticking       \* a tick is being handled: sleep_tick is done, the rest is not

sleepVars == <<sleeper_list, ticking>>

SleepInit == Init /\ sleeper_list = <<>> /\ ticking = FALSE
-------------------------------------------------------------------------------
\* What ticks and flags ask for, and what fits into tick_remaining.
Asked(ticks, flag) == IF flag = "UNIT_SEC" THEN ticks * TicksPerSecond ELSE ticks
Remaining(ticks, flag) == Asked(ticks, flag) % WordMod

\* Mutant: the sleeper stays in the ready queue.
ReadyWithoutNot(t) == ready_threads

ReadyWithout(t) == RemoveFirst(ready_threads, t)

\* Mutant: the sleeper is only taken out of the queue.
StatusAsleepNot(t) == status

StatusAsleep(t) == [status EXCEPT ![t] = "BLOCKED"]

\* thread_sleep(t, ticks, flag), called by u.  Zero ticks are no sleep.
thread_sleep(u, t, ticks, flag) ==
  /\ "sleep" \in Ops /\ Runs(u, "user") /\ ~ticking
  /\ ticks # 0
  /\ status[t] = "unborn" \/ IsReady(t)
  /\ IF status[t] = "unborn"
     THEN /\ panic' = "ATTEMPTED TO SLEEP NON-THREAD" /\ iflag' = FALSE
          /\ UNCHANGED <<sleeper_list, status, ready_threads>>
     ELSE /\ sleeper_list' = Append(sleeper_list,
               [t |-> t, tick_remaining |-> Remaining(ticks, flag),
                left |-> Asked(ticks, flag), joined |-> Len(sleeper_list) + 1])
          /\ status' = StatusAsleep(t)
          /\ ready_threads' = ReadyWithout(t)
          /\ UNCHANGED <<panic, iflag>>
  /\ UNCHANGED <<current, inService, callVars, all_threads, idle_thread, tick_count,
                 torn, level, synchVars, ticking>>

\* Mutant: the loop starts at 1.
CountedLate(i, w) == i # 1 /\ (i = 2 \/ ~w[i - 1])

\* sleep_tick walks the list by index and removes from it on the way: with w the
\* sleepers it wakes, the one at i is counted down unless the one before it is woken.
Counted(i, w) == i = 1 \/ ~w[i - 1]

\* The places in the list at which the walk wakes a sleeper.
Wakings ==
  LET wakes[i \in DOMAIN sleeper_list] ==
        Counted(i, wakes) /\ sleeper_list[i].tick_remaining = 1
  IN  wakes

\* The list with the sleepers counted down.
CountedDown(wakes) ==
  [i \in DOMAIN sleeper_list |->
     [sleeper_list[i] EXCEPT !.left = @ - 1,
        !.tick_remaining = IF Counted(i, wakes) THEN (@ - 1) % WordMod ELSE @]]

\* The entries of q for the threads ts, in order.
EntriesOf(q, ts) ==
  LET upto[i \in 0 .. Len(q)] ==
        IF i = 0 THEN <<>>
        ELSE IF q[i].t \in ts THEN Append(upto[i - 1], q[i]) ELSE upto[i - 1]
  IN  upto[Len(q)]

\* sleep_tick, at the start of the handler of a tick.
sleep_tick ==
  LET woken == {sleeper_list[i].t : i \in {j \in DOMAIN sleeper_list : Wakings[j]}}
      order == EntriesOf(sleeper_list, woken)
  IN  /\ IrqAccepted /\ ~ticking
      /\ IF \E t \in woken : status[t] # "BLOCKED"
         THEN /\ panic' = "UNBLOCKING NON-BLOCKED Thread" /\ iflag' = FALSE
              /\ UNCHANGED <<sleepVars, status, ready_threads>>
         ELSE /\ sleeper_list' = EntriesOf(CountedDown(Wakings), Threads \ woken)
              /\ ready_threads' = ready_threads \o [i \in DOMAIN order |-> order[i].t]
              /\ status' = [t \in Threads |-> IF t \in woken THEN "READY" ELSE status[t]]
              /\ ticking' = TRUE /\ UNCHANGED <<panic, iflag>>
      /\ UNCHANGED <<current, inService, callVars, all_threads, idle_thread, tick_count,
                     torn, level, synchVars>>

\* The rest of the tick's handler.
Tick == /\ ticking /\ HardwareTick
        /\ ticking' = FALSE /\ UNCHANGED <<sleeper_list, synchVars>>

\* What happens between ticks.
Untimed ==
  /\ ~ticking
  /\ \/ Boot \/ (OtherIrq /\ UNCHANGED synchVars) \/ Resume \/ Compute \/ Halted
     \/ \E t \in Threads : Call(t) \/ Continue(t)
  /\ UNCHANGED sleepVars

SleepNext ==
  \/ Untimed \/ sleep_tick \/ Tick
  \/ \E u \in Threads, t \in Threads \ {Idle}, ticks \in Durations :
       \E flag \in {"UNIT_TICK", "UNIT_SEC"} : thread_sleep(u, t, ticks, flag)

SleepSpec == SleepInit /\ [][SleepNext]_<<vars, sleepVars>>
-------------------------------------------------------------------------------
Sleepers == {sleeper_list[i].t : i \in DOMAIN sleeper_list}
Naps(t) == {i \in DOMAIN sleeper_list : sleeper_list[i].t = t}

\* A thread is in exactly one place also when it may sleep: asleep it is in no queue
\* from which it could be run or woken, and it is back in one when it is woken.
OnePlaceAsleep ==
  panic = "none" /\ status[Kernel] # "unborn" =>
    \A t \in Threads :
      Cardinality(Holds(t)) + Cardinality(Naps(t)) =
        IF status[t] = "unborn" \/ pc[t] = "dead" THEN 0 ELSE 1

\* Through creation, preemption, waiting, sleep and exit the status tells where each
\* thread is; a blocked one is being made, waits, is idle or sleeps.
StatusTold ==
  panic = "none" /\ status[Kernel] # "unborn" =>
    \A t \in Threads : StatusTells(t, Sleepers) /\ (t \in Sleepers => status[t] = "BLOCKED")

\* The idle thread halts with the timer held back only while a thread sleeps that was
\* preempted before its handler could send the EOI.  Then the machine stands still:
\* it is the next tick that would wake that thread.
HaltedBySleeper ==
  panic = "none" /\ pc[current] = "hlt" /\ ~inTick[current] =>
    iflag /\ (inService => \E t \in Sleepers : inTick[t])

\* A sleeper is never woken early, and late by at most one tick for every sleeper that
\* was in front of it and has been woken: the walk over the list loses no more, however
\* the wake-ups fall together.
SleepOnTime ==
  \A i \in DOMAIN sleeper_list :
    LET s == sleeper_list[i]
    IN  s.left <= s.tick_remaining /\ s.tick_remaining - s.left <= s.joined - i
===============================================================================
