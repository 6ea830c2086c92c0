\* findVMLibrary with three fixed locations and up to two registry subkeys.
CONSTANTS
  Platform = "win32"
  Commands <- MCCommands
  NumLocations = 3
  Keys <- MCKeysSameLength
  MaxKeys = 2
  MAX_PATH = 260
SPECIFICATION Spec
INVARIANTS LayoutFirst ClassifiedAsSpec
\* findVMLibrary returns after its search.
CHECK_DEADLOCK FALSE
