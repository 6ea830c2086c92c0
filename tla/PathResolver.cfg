\* findCommand over PATHs of directories and ".", checkPathList over lists
\* of segments, empty ones included.
CONSTANTS
  Entries <- MCEntries
  MaxPathDirs = 3
  SegLens = {0, 1, 2}
  MaxSegs = 3
  CwdLen = 2
  BaseLen = 3
SPECIFICATION Spec
INVARIANTS CommandFound ListChecked
\* Each behaviour is one call, which returns.
CHECK_DEADLOCK FALSE
