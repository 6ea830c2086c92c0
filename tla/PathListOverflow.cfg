\* checkPathList on lists of one to three one-character segments: the
\* result buffer is sized by the list's length and written past its end.
CONSTANTS
  Entries <- MCEntries
  MaxPathDirs = 1
  SegLens = {1}
  MaxSegs = 3
  CwdLen = 2
  BaseLen = 3
SPECIFICATION Spec
INVARIANTS NoOverflow
CHECK_DEADLOCK FALSE
