SPECIFICATION Spec
CONSTANTS
  main = main
  idle = idle
  a = a
  b = b
  lk = lk
  sem = sem
  started = started
  Threads <- MCThreads
  Kernel = main
  Idle = idle
  NULL = NULL
  TIME_SLICE = 2
  InitStarted = started
  InitValue <- MCInitValue
  Ops = {"create", "sema", "lock", "cli", "yield"}
  Semas = {lk, sem, started}
  Locks = {lk}
  MaxValue = 2
SYMMETRY Workers
INVARIANT TypeOK
INVARIANT OnePlace
INVARIANT HaltWakes
INVARIANT LevelRestored
INVARIANT NoLostWakeup
INVARIANT LockExclusion
INVARIANT AssertionsHold
