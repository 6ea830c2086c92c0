\* launchJavaVM returns the child's exit code, and only once it has exited.
CONSTANTS
  ChildCodes <- MCChildCodes
  Errnos <- MCErrnos
  OSErrors <- MCOSErrors
  MaxLaunches <- MCMaxLaunches
  MaxRestarts <- MCMaxRestarts
SPECIFICATION Spec
INVARIANTS ReturnsChildCode
PROPERTIES ExitObserved ImplementsSpawnedLaunch
\* The launcher process ends after its last call of launchJavaVM.
CHECK_DEADLOCK FALSE
