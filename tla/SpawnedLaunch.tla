---------------------------- MODULE SpawnedLaunch ----------------------------
(***************************************************************************)
(* What the spawned launch strategy promises (spec 4.6), with no timer or *)
(* message queue in it: a launch either fails at once, with no            *)
(* supervision, or starts a child and supervises it until the child has   *)
(* exited, whose exit code then becomes the launcher's exit code.  The    *)
(* caller may launch again after a launch has ended.                      *)
(*                                                                         *)
(* Spec 4.6 names the phases Idle -> Spawned -> Supervising -> Terminated; *)
(* the child is created and supervised in one step here, because nothing  *)
(* in between is observable.  The spec says a failure reports the OS      *)
(* error; which value is reported is left open (FailCodes), as the        *)
(* launcher returns errno instead.                                        *)
(***************************************************************************)
EXTENDS Integers

CONSTANTS
  ExitCodes,    \* exit codes the child process may terminate with
  FailCodes     \* codes a failed launch may report

VARIABLES
  phase,        \* "Idle", "Supervising" or "Terminated"
  proc,         \* the last child: "none", "running" or "exited"
  code,         \* the last child's exit code once it has exited
  exitCode,     \* the exit code the last launch reported
  launches      \* the launches made so far

absVars == <<phase, proc, code, exitCode, launches>>

Init ==
  /\ phase = "Idle"
  /\ proc = "none"
  /\ code = 0
  /\ exitCode = 0
  /\ launches = 0

(* A launch whose child process is created: supervision starts. *)
Spawn ==
  /\ phase \in {"Idle", "Terminated"}
  /\ phase' = "Supervising"
  /\ proc' = "running"
  /\ code' = 0
  /\ launches' = launches + 1
  /\ UNCHANGED exitCode

(* LaunchError: the child cannot be created; reported at once. *)
LaunchError ==
  /\ phase \in {"Idle", "Terminated"}
  /\ phase' = "Terminated"
  /\ exitCode' \in FailCodes
  /\ launches' = launches + 1
  /\ UNCHANGED <<proc, code>>

(* The child terminates on its own, with any exit code. *)
ChildExits ==
  /\ proc = "running"
  /\ proc' = "exited"
  /\ code' \in ExitCodes
  /\ UNCHANGED <<phase, exitCode, launches>>

(* Supervision ends once the child has exited, with its exit code. *)
Observe ==
  /\ phase = "Supervising"
  /\ proc = "exited"
  /\ phase' = "Terminated"
  /\ exitCode' = code
  /\ UNCHANGED <<proc, code, launches>>

Next == Spawn \/ LaunchError \/ ChildExits \/ Observe

Spec == Init /\ [][Next]_absVars

=============================================================================
