\* Two Java threads call show_splash at once: nothing serialises them.
CONSTANTS
  t1 = t1
  t2 = t2
  Threads <- MCTwoThreads
  RunResults <- MCRunResults
  VMArgCounts <- MCVMArgCounts
  SecondThread = FALSE
SPECIFICATION Spec
INVARIANTS SetupAtMostOnce
CHECK_DEADLOCK FALSE
