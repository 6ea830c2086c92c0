\* compareVersions(v, v) on versions that end with a segment.
CONSTANTS
  Platform = "posix"
  Names <- MCNamesNoQualifier
  MaxEntries = 3
  IntBits = 8
  LongBits = 16
  Garbage <- MCGarbage
SPECIFICATION Spec
INVARIANTS VersionReflexive
\* findFile returns once the scan is over.
CHECK_DEADLOCK FALSE
