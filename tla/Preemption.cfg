SPECIFICATION FairSpec
CONSTANTS
  main = main
  idle = idle
  a = a
  b = b
  lk = lk
  sem = sem
  started = started
  Threads <- MCThreads
  Kernel = main
  Idle = idle
  NULL = NULL
  TIME_SLICE = 2
  InitStarted = started
  InitValue <- MCInitValue
  Ops = {"create"}
  Semas = {started}
  Locks = {}
  MaxValue = 2
PROPERTY RoundRobin
