---------------------------- MODULE SpawnLauncher ----------------------------
(***************************************************************************)
(* The out-of-process launch strategy of the Win32 launcher                *)
(* (library/win32/eclipseWin.c): launchJavaVM starts the JVM with          *)
(* CreateProcess, arms a WM_TIMER whose callback detectJvmExit polls       *)
(* GetExitCodeProcess, and pumps the message queue until the callback has  *)
(* cleared jvmProcess.  restartLauncher starts a detached new launcher.    *)
(*                                                                         *)
(* The command line built by buildCommandLine is data and is left out      *)
(* here; the launcher's own thread is the only thread, and the JVM child   *)
(* process is the only other actor: it exits whenever it likes, with any   *)
(* code of ChildCodes.                                                     *)
(***************************************************************************)
EXTENDS Integers

CONSTANTS
  ChildCodes,   \* exit codes the spawned JVM process may terminate with
  Errnos,       \* values the C runtime's errno may hold when CreateProcess fails
  OSErrors,     \* GetLastError codes with which CreateProcess may fail
  MaxLaunches,  \* bound on the calls of launchJavaVM made by the launcher
  MaxRestarts   \* bound on the calls of restartLauncher

ASSUME ConstantsAssumption ==
  /\ ChildCodes \subseteq Int
  /\ Errnos \subseteq Int
  /\ OSErrors \subseteq Int \ {0}
  /\ Errnos # {} /\ OSErrors # {}
  /\ MaxLaunches \in Nat \ {0}
  /\ MaxRestarts \in Nat

(* Win32's STILL_ACTIVE: what GetExitCodeProcess reports for a live process *)
STILL_ACTIVE == 259

VARIABLES
  pc,           \* launcher thread: "idle" before a call, "loop" in the
                \* GetMessage loop, "done" after launchJavaVM returned
  jvmProcess,   \* static int jvmProcess: 0, or the handle of the child
  jvmExitCode,  \* static int jvmExitCode
  timer,        \* is the jvmExitTimerId timer of topWindow armed?
  child,        \* the process of the last successful CreateProcess
  launches,     \* calls of launchJavaVM so far; launch n gets handle n
  spawned,      \* did the last call of launchJavaVM create a process?
  osError,      \* GetLastError of the last failed CreateProcess (0: none)
  ret,          \* the value the last call of launchJavaVM returned
  restarts      \* detached launchers started by restartLauncher

vars == <<pc, jvmProcess, jvmExitCode, timer, child, launches, spawned,
          osError, ret, restarts>>

ProcState == [state : {"none", "running", "exited"}, code : Int]

(* The exit code GetExitCodeProcess reports for the current child. *)
ExitCodeOf(p) == IF p.state = "running" THEN STILL_ACTIVE ELSE p.code

Init ==
  /\ pc = "idle"
  /\ jvmProcess = 0
  /\ jvmExitCode = 0
  /\ timer = FALSE
  /\ child = [state |-> "none", code |-> 0]
  /\ launches = 0
  /\ spawned = FALSE
  /\ osError = 0
  /\ ret = 0
  /\ restarts = 0

(* launchJavaVM, CreateProcess succeeds: the handle is kept in jvmProcess, *)
(* the exit-detection timer is set and the thread enters its GetMessage    *)
(* loop.                                                                   *)
LaunchSpawned ==
  /\ pc \in {"idle", "done"}
  /\ launches < MaxLaunches
  /\ launches' = launches + 1
  /\ jvmProcess' = launches + 1
  /\ child' = [state |-> "running", code |-> 0]
  /\ timer' = TRUE
  /\ spawned' = TRUE
  /\ pc' = "loop"
  /\ UNCHANGED <<jvmExitCode, osError, ret, restarts>>

(* A variant of LaunchFailed that leaves out jvmExitCode = errno, so the *)
(* call returns the exit code of the previous launch.                     *)
LaunchFailedStaleCode ==
  /\ pc \in {"idle", "done"}
  /\ launches < MaxLaunches
  /\ launches' = launches + 1
  /\ \E e \in OSErrors : osError' = e
  /\ ret' = jvmExitCode
  /\ jvmProcess' = 0
  /\ spawned' = FALSE
  /\ pc' = "done"
  /\ UNCHANGED <<jvmExitCode, timer, child, restarts>>

(* launchJavaVM, CreateProcess fails with the OS error e: the code stores  *)
(* errno, not the OS error, in jvmExitCode and returns it at once.         *)
LaunchFailed ==
  /\ pc \in {"idle", "done"}
  /\ launches < MaxLaunches
  /\ launches' = launches + 1
  /\ \E e \in OSErrors, stale \in Errnos :
       /\ osError' = e
       /\ jvmExitCode' = stale
       /\ ret' = stale
  /\ jvmProcess' = 0
  /\ spawned' = FALSE
  /\ pc' = "done"
  /\ UNCHANGED <<timer, child, restarts>>

(* The JVM process terminates with exit code c. *)
ChildExit ==
  /\ child.state = "running"
  /\ \E c \in ChildCodes : child' = [state |-> "exited", code |-> c]
  /\ UNCHANGED <<pc, jvmProcess, jvmExitCode, timer, launches, spawned,
                 osError, ret, restarts>>

(* A variant of detectJvmExit that takes any answer of GetExitCodeProcess, *)
(* STILL_ACTIVE included, as the exit code.                              *)
DetectJvmExitNoActiveTest ==
  /\ pc = "loop"
  /\ jvmProcess # 0
  /\ timer
  /\ jvmExitCode' = ExitCodeOf(child)
  /\ jvmProcess' = 0
  /\ UNCHANGED <<pc, timer, child, launches, spawned, osError, ret, restarts>>

(* A variant of detectJvmExit that saves the exit code but never clears  *)
(* jvmProcess.                                                            *)
DetectJvmExitNoClear ==
  /\ pc = "loop"
  /\ jvmProcess # 0
  /\ timer
  /\ IF ExitCodeOf(child) # STILL_ACTIVE
       THEN jvmExitCode' = ExitCodeOf(child)
       ELSE UNCHANGED jvmExitCode
  /\ UNCHANGED <<pc, jvmProcess, timer, child, launches, spawned, osError,
                 ret, restarts>>

(* GetMessage delivers WM_TIMER and DispatchMessage runs detectJvmExit: if *)
(* the process no longer reports STILL_ACTIVE its exit code is saved and   *)
(* jvmProcess is cleared.                                                  *)
DetectJvmExit ==
  /\ pc = "loop"
  /\ jvmProcess # 0
  /\ timer
  /\ IF ExitCodeOf(child) # STILL_ACTIVE
       THEN /\ jvmExitCode' = ExitCodeOf(child)
            /\ jvmProcess' = 0
       ELSE UNCHANGED <<jvmExitCode, jvmProcess>>
  /\ UNCHANGED <<pc, timer, child, launches, spawned, osError, ret, restarts>>

(* The loop sees jvmProcess = 0, kills the timer and returns jvmExitCode. *)
LoopExit ==
  /\ pc = "loop"
  /\ jvmProcess = 0
  /\ timer' = FALSE
  /\ ret' = jvmExitCode
  /\ pc' = "done"
  /\ UNCHANGED <<jvmProcess, jvmExitCode, child, launches, spawned, osError,
                 restarts>>

(* restartLauncher: CreateProcess of a detached launcher, whose result is *)
(* ignored; the current launcher does not wait for it.                    *)
RestartLauncher ==
  /\ pc \in {"idle", "done"}
  /\ restarts < MaxRestarts
  /\ \E ok \in BOOLEAN : restarts' = IF ok THEN restarts + 1 ELSE restarts
  /\ UNCHANGED <<pc, jvmProcess, jvmExitCode, timer, child, launches, spawned,
                 osError, ret>>

Next ==
  \/ LaunchSpawned
  \/ LaunchFailed
  \/ ChildExit
  \/ DetectJvmExit
  \/ LoopExit
  \/ RestartLauncher

(* WM_TIMER keeps arriving every jvmExitTimeout ms while the thread waits  *)
(* in GetMessage, and the loop re-tests jvmProcess after every dispatch.   *)
Fairness == WF_vars(DetectJvmExit) /\ WF_vars(LoopExit)

Spec == Init /\ [][Next]_vars /\ Fairness

-----------------------------------------------------------------------------

TypeOK ==
  /\ pc \in {"idle", "loop", "done"}
  /\ jvmProcess \in 0..MaxLaunches
  /\ jvmExitCode \in Int
  /\ timer \in BOOLEAN
  /\ child \in ProcState
  /\ launches \in 0..MaxLaunches
  /\ spawned \in BOOLEAN
  /\ osError \in Int
  /\ ret \in Int
  /\ restarts \in 0..MaxRestarts

(* launchJavaVM blocks until the JVM it started has terminated, and then  *)
(* returns that process's exit code (spec 4.6, Spawned strategy).         *)
ReturnsChildCode ==
  pc = "done" /\ spawned => child.state = "exited" /\ ret = child.code

(* Once the spawned JVM has exited, launchJavaVM eventually returns.      *)
ExitObserved == (pc = "loop" /\ child.state = "exited") ~> (pc = "done")
-----------------------------------------------------------------------------

(* The refinement mapping to SpawnedLaunch: the launcher's thread before  *)
(* its first call, in the GetMessage loop, or after launchJavaVM returned; *)
(* the child process as it is; the value launchJavaVM returned.           *)
AbstractPhase ==
  IF pc = "idle" THEN "Idle" ELSE IF pc = "loop" THEN "Supervising" ELSE "Terminated"

SL == INSTANCE SpawnedLaunch WITH
        ExitCodes <- ChildCodes, FailCodes <- Errnos,
        phase <- AbstractPhase, proc <- child.state, code <- child.code,
        exitCode <- ret, launches <- launches

(* launchJavaVM, with its timer, its message loop and detectJvmExit,      *)
(* implements the spawned launch of spec 4.6: a failed CreateProcess      *)
(* ends the call at once, and a successful one returns only after the     *)
(* child has exited, with the exit code the child exited with, and        *)
(* changes the reported code at no other step.                            *)
ImplementsSpawnedLaunch == SL!Spec
=============================================================================
