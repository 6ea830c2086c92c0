\* findVMLibrary falling back to a registry with two subkeys.
CONSTANTS
  Platform = "win32"
  Commands <- MCCommands
  NumLocations = 3
  Keys <- MCKeysSameLength
  MaxKeys = 2
  MAX_PATH = 260
SPECIFICATION Spec
INVARIANTS RegistryFound
\* findVMLibrary returns after its search.
CHECK_DEADLOCK FALSE
