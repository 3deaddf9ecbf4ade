SPECIFICATION SleepSpec
CONSTANTS
  main = main
  idle = idle
  a = a
  b = b
  lk = lk
  started = started
  Threads <- MCThreads
  Kernel = main
  Idle = idle
  NULL = NULL
  TIME_SLICE = 2
  InitStarted = started
  InitValue <- MCInitValue
  Ops = {"create", "lock", "exit", "yield", "sleep"}
  Semas = {lk, started}
  Locks = {lk}
  MaxValue = 2
  TicksPerSecond = 3
  Durations = {0, 1}
  WordMod = 16
SYMMETRY Workers
INVARIANTS OnePlaceAsleep StatusTold HaltedBySleeper SleepOnTime AllThreadsExact
PROPERTY MutexSpec
\* The machine stands still when the idle thread halts with the timer held back.
CHECK_DEADLOCK FALSE
