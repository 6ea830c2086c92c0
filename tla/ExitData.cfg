\* One Java thread calling set_exit_data three times; 32-bit Unicode build.
CONSTANTS
  t1 = t1
  t2 = t2
  Threads <- MCOneThread
  Lengths = {0, 1, 3}
  MaxCalls = 3
  PtrSize = 4
  CharSize = 2
  Unicode = TRUE
  MaxBytesPerChar = 3
SPECIFICATION Spec
INVARIANTS NoOverflow ExitDataIsLastString
\* The Java side stops calling after MaxCalls calls.
CHECK_DEADLOCK FALSE
