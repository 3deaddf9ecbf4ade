SPECIFICATION Spec
CONSTANTS
  main = main
  idle = idle
  a = a
  b = b
  lk = lk
  sem = sem
  started = started
  Threads <- MCThreads
  Kernel = main
  Idle = idle
  NULL = NULL
  TIME_SLICE = 2
  InitStarted = started
  InitValue <- MCInitValue
  Ops = {"create", "exit", "int32"}
  Semas = {started}
  Locks = {}
  MaxValue = 2
INVARIANT ScheduleAssertion
