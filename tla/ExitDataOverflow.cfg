\* Two Java threads passing a short and a long string to set_exit_data.
CONSTANTS
  t1 = t1
  t2 = t2
  Threads <- MCTwoThreads
  Lengths = {1, 5}
  MaxCalls = 2
  PtrSize = 4
  CharSize = 2
  Unicode = TRUE
  MaxBytesPerChar = 3
SPECIFICATION Spec
INVARIANTS NoOverflow
\* The Java side stops calling after MaxCalls calls.
CHECK_DEADLOCK FALSE
