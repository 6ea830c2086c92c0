\* A JVM that exits with code 259 (STILL_ACTIVE) is never seen to exit.
CONSTANTS
  ChildCodes <- MCChildCodesStillActive
  Errnos <- MCErrnos
  OSErrors <- MCOSErrors
  MaxLaunches <- MCMaxLaunches
  MaxRestarts <- MCMaxRestarts
SPECIFICATION Spec
PROPERTIES ExitObserved
CHECK_DEADLOCK FALSE
