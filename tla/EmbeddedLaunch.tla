--------------------------- MODULE EmbeddedLaunch ---------------------------
(***************************************************************************)
(* What the embedded launch strategy promises (spec 4.6), with no JNI in  *)
(* it: Idle -> LibraryLoaded -> RuntimeCreated -> EntryInvoked, a result  *)
(* surfaced as the exit code (Finished), and an unconditional shutdown    *)
(* (Terminated) that asks the runtime to exit unless it opted out, and    *)
(* otherwise releases it.  Every failure before the entry point returns   *)
(* finishes with the exit code -1.                                         *)
(***************************************************************************)
EXTENDS Integers

CONSTANTS
  RunResults,   \* values the runtime's entry point may return
  FaultCodes,   \* exit codes the host reports for an entry call that faulted
  VMArgCounts   \* numbers of runtime-level arguments a configuration may have

VARIABLES
  state,        \* "Idle", "LibraryLoaded", "RuntimeCreated", "EntryInvoked",
                \* "Finished" or "Terminated"
  numArgs,      \* runtime-level arguments of the configuration
  exitCode,     \* the exit code surfaced to the caller
  runtime,      \* "none", "alive", "exited" (graceful exit) or "released"
  status        \* the status the runtime's graceful exit was given

absVars == <<state, numArgs, exitCode, runtime, status>>

Init ==
  /\ state = "Idle"
  /\ numArgs \in VMArgCounts
  /\ exitCode = -1
  /\ runtime = "none"
  /\ status = 0

(* A failure surfaces -1 and ends the startup call. *)
Fail ==
  /\ state' = "Finished"
  /\ exitCode' = -1
  /\ UNCHANGED <<numArgs, runtime, status>>

LoadLibrary ==
  /\ state = "Idle"
  /\ state' = "LibraryLoaded"
  /\ UNCHANGED <<numArgs, exitCode, runtime, status>>

(* LibraryLoadError: the library cannot be opened or has no entry point. *)
LibraryLoadError ==
  /\ state \in {"Idle", "LibraryLoaded"}
  /\ Fail

(* A configuration without runtime arguments is a caller error. *)
RejectConfiguration ==
  /\ state = "LibraryLoaded"
  /\ numArgs = 0
  /\ Fail

CreateRuntime ==
  /\ state = "LibraryLoaded"
  /\ numArgs > 0
  /\ state' = "RuntimeCreated"
  /\ runtime' = "alive"
  /\ UNCHANGED <<numArgs, exitCode, status>>

(* VMInitError *)
CreateRuntimeError ==
  /\ state = "LibraryLoaded"
  /\ numArgs > 0
  /\ Fail

InvokeEntry ==
  /\ state = "RuntimeCreated"
  /\ state' = "EntryInvoked"
  /\ UNCHANGED <<numArgs, exitCode, runtime, status>>

(* The entry point of the runtime cannot be resolved or called. *)
EntryUnavailable ==
  /\ state = "RuntimeCreated"
  /\ Fail

EntryReturns ==
  /\ state = "EntryInvoked"
  /\ \E r \in RunResults \cup FaultCodes :
       /\ state' = "Finished"
       /\ exitCode' = r
  /\ UNCHANGED <<numArgs, runtime, status>>

(* Shutdown: a created runtime exits gracefully with the exit code, or is *)
(* released when it opted out.                                            *)
Shutdown ==
  /\ state = "Finished"
  /\ state' = "Terminated"
  /\ IF runtime = "alive"
       THEN \/ runtime' = "exited" /\ status' = exitCode
            \/ runtime' = "released" /\ UNCHANGED status
       ELSE UNCHANGED <<runtime, status>>
  /\ UNCHANGED <<numArgs, exitCode>>

Next ==
  \/ LoadLibrary
  \/ LibraryLoadError
  \/ RejectConfiguration
  \/ CreateRuntime
  \/ CreateRuntimeError
  \/ InvokeEntry
  \/ EntryUnavailable
  \/ EntryReturns
  \/ Shutdown

Spec == Init /\ [][Next]_absVars

=============================================================================
