\* POSIX findFile over well-formed bundle names, int 8 bits, long 16 bits.
CONSTANTS
  Platform = "posix"
  Names <- MCNames
  MaxEntries = 3
  IntBits = 8
  LongBits = 16
  Garbage <- MCGarbage
SPECIFICATION Spec
INVARIANTS LatestFound
\* findFile returns once the scan is over.
CHECK_DEADLOCK FALSE
