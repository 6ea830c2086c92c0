\* Embedded launch with one Java thread driving the splash natives.
CONSTANTS
  t1 = t1
  t2 = t2
  Threads <- MCOneThread
  RunResults <- MCRunResults
  VMArgCounts <- MCVMArgCounts
  SecondThread = FALSE
SPECIFICATION Spec
INVARIANTS ExitCodeOfRun SetupAtMostOnce
PROPERTIES ImplementsEmbeddedLaunch
\* The launcher process ends after cleanupVM.
CHECK_DEADLOCK FALSE
