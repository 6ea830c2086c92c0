--------------------------- MODULE MCSpawnLauncher ---------------------------
(***************************************************************************)
(* Model-checking instances of SpawnLauncher.  Exit codes: 0 (normal), 13  *)
(* (the JVM reported an error) and 23 (restart requested); the launcher    *)
(* calls launchJavaVM up to three times, as its restart loop does.         *)
(***************************************************************************)
EXTENDS SpawnLauncher

\* Exit codes of a JVM that never exits with STILL_ACTIVE.
MCChildCodes == {0, 13, 23}

\* The same, with a JVM that calls System.exit(259).
MCChildCodesStillActive == {0, 23, STILL_ACTIVE}

\* errno is 0 or a stale ENOENT (2) left by an earlier failed _tstat.
MCErrnos == {0, 2}

\* ERROR_FILE_NOT_FOUND (2) and ERROR_ACCESS_DENIED (5).
MCOSErrors == {2, 5}

MCMaxLaunches == 3

MCMaxRestarts == 1
=============================================================================
