------------------------- MODULE SpawnLauncherProofs -------------------------
(***************************************************************************)
(* Proofs about SpawnLauncher for every value of the constants: the type   *)
(* invariant, and that launchJavaVM returns only after the JVM it spawned  *)
(* has exited, with that process's exit code.                             *)
(***************************************************************************)
EXTENDS SpawnLauncher, TLAPS

(***************************************************************************)
(* The strengthening of ReturnsChildCode.  A running child means the       *)
(* launcher is still in its GetMessage loop holding the handle; the loop   *)
(* with a cleared jvmProcess has saved the exit code of an exited child.   *)
(***************************************************************************)
ChildRunsOnlyInLoop ==
  child.state = "running" => pc = "loop" /\ jvmProcess # 0

LoopHasChild ==
  pc = "loop" => spawned /\ child.state # "none"

ClearedHandleHasCode ==
  pc = "loop" /\ jvmProcess = 0 =>
    child.state = "exited" /\ jvmExitCode = child.code

IInv ==
  /\ TypeOK
  /\ ChildRunsOnlyInLoop
  /\ LoopHasChild
  /\ ClearedHandleHasCode
  /\ ReturnsChildCode

(* TypeOK split into its Boolean flags, which Zenon handles, and the rest, *)
(* which is arithmetic for SMT.                                           *)
FlagsOK == timer \in BOOLEAN /\ spawned \in BOOLEAN

DataOK ==
  /\ pc \in {"idle", "loop", "done"}
  /\ jvmProcess \in 0..MaxLaunches
  /\ jvmExitCode \in Int
  /\ child \in ProcState
  /\ launches \in 0..MaxLaunches
  /\ osError \in Int
  /\ ret \in Int
  /\ restarts \in 0..MaxRestarts

(* The bounds are natural numbers. *)
LEMMA Bounds == MaxLaunches \in Nat /\ MaxRestarts \in Nat
  BY ConstantsAssumption

LEMMA TypeSplit == TypeOK <=> FlagsOK /\ DataOK
  BY Zenon DEF TypeOK, FlagsOK, DataOK

(* Every step keeps the two flags Boolean. *)
LEMMA FlagsStep == FlagsOK /\ [Next]_vars => FlagsOK'
  BY Zenon
  DEF FlagsOK, Next, vars, LaunchSpawned, LaunchFailed, ChildExit,
      DetectJvmExit, LoopExit, RestartLauncher

(* Every step keeps the counters, handles and codes in their ranges. *)
LEMMA DataStep == DataOK /\ [Next]_vars => DataOK'
<1> SUFFICES ASSUME DataOK, [Next]_vars PROVE DataOK'
  OBVIOUS
<1>1. CASE LaunchSpawned
  BY <1>1, Bounds DEF LaunchSpawned, DataOK, ProcState
<1>2. CASE LaunchFailed
  BY <1>2, Bounds, ConstantsAssumption DEF LaunchFailed, DataOK
<1>3. CASE ChildExit
  BY <1>3, ConstantsAssumption DEF ChildExit, DataOK, ProcState
<1>4. CASE DetectJvmExit
  BY <1>4, Bounds
  DEF DetectJvmExit, DataOK, ProcState, ExitCodeOf, STILL_ACTIVE
<1>5. CASE LoopExit
  BY <1>5 DEF LoopExit, DataOK
<1>6. CASE RestartLauncher
  BY <1>6, Bounds DEF RestartLauncher, DataOK
<1>7. CASE UNCHANGED vars
  BY <1>7 DEF vars, DataOK
<1>8. QED
  BY <1>1, <1>2, <1>3, <1>4, <1>5, <1>6, <1>7 DEF Next

LEMMA InitType == Init => TypeOK
<1> SUFFICES ASSUME Init PROVE FlagsOK /\ DataOK
  BY TypeSplit
<1>1. FlagsOK
  BY Zenon DEF Init, FlagsOK
<1>2. DataOK
  BY Bounds DEF Init, DataOK, ProcState
<1>3. QED
  BY <1>1, <1>2

(* Each step of the launcher keeps the type of its state. *)
LEMMA TypeStep == TypeOK /\ [Next]_vars => TypeOK'
<1> SUFFICES ASSUME TypeOK, [Next]_vars PROVE FlagsOK' /\ DataOK'
  BY Zenon DEF TypeOK, FlagsOK, DataOK
<1>1. FlagsOK /\ DataOK
  BY TypeSplit
<1>2. QED
  BY <1>1, FlagsStep, DataStep

(* The launcher's state keeps its type in every reachable state. *)
THEOREM TypeCorrect == Spec => []TypeOK
  BY InitType, TypeStep, PTL DEF Spec

(* The initial state satisfies the strengthened invariant. *)
LEMMA InitIInv == Init => IInv
<1> SUFFICES ASSUME Init PROVE IInv
  OBVIOUS
<1>1. TypeOK
  BY InitType
<1>2. QED
  BY <1>1 DEF Init, IInv, ChildRunsOnlyInLoop, LoopHasChild,
              ClearedHandleHasCode, ReturnsChildCode
(* Every step of the launcher or of its child keeps it. *)
LEMMA IInvStep == IInv /\ [Next]_vars => IInv'
<1> SUFFICES ASSUME IInv, [Next]_vars PROVE IInv'
  OBVIOUS
<1>0. TypeOK'
  BY TypeStep DEF IInv
<1>1. CASE LaunchSpawned
  BY <1>0, <1>1
  DEF LaunchSpawned, IInv, ChildRunsOnlyInLoop, LoopHasChild,
      ClearedHandleHasCode, ReturnsChildCode, TypeOK
<1>2. CASE LaunchFailed
  BY <1>0, <1>2
  DEF LaunchFailed, IInv, ChildRunsOnlyInLoop, LoopHasChild,
      ClearedHandleHasCode, ReturnsChildCode, TypeOK
<1>3. CASE ChildExit
  BY <1>0, <1>3
  DEF ChildExit, IInv, ChildRunsOnlyInLoop, LoopHasChild,
      ClearedHandleHasCode, ReturnsChildCode, TypeOK
<1>4. CASE DetectJvmExit
  BY <1>0, <1>4
  DEF DetectJvmExit, ExitCodeOf, IInv, ChildRunsOnlyInLoop, LoopHasChild,
      ClearedHandleHasCode, ReturnsChildCode, TypeOK, ProcState
<1>5. CASE LoopExit
  BY <1>0, <1>5
  DEF LoopExit, IInv, ChildRunsOnlyInLoop, LoopHasChild,
      ClearedHandleHasCode, ReturnsChildCode, TypeOK
<1>6. CASE RestartLauncher
  BY <1>0, <1>6
  DEF RestartLauncher, IInv, ChildRunsOnlyInLoop, LoopHasChild,
      ClearedHandleHasCode, ReturnsChildCode
<1>7. CASE UNCHANGED vars
  BY <1>0, <1>7
  DEF vars, IInv, ChildRunsOnlyInLoop, LoopHasChild,
      ClearedHandleHasCode, ReturnsChildCode
<1>8. QED
  BY <1>1, <1>2, <1>3, <1>4, <1>5, <1>6, <1>7 DEF Next

(* launchJavaVM returns only after the JVM it started has exited, and it   *)
(* returns that process's exit code (detectJvmExit / launchJavaVM).       *)
THEOREM ChildCodeReturned == Spec => []ReturnsChildCode
<1>1. IInv => ReturnsChildCode
  BY DEF IInv
<1>2. QED
  BY <1>1, InitIInv, IInvStep, PTL DEF Spec

(***************************************************************************)
(* Refinement of SpawnedLaunch.  The only step that needs more than the    *)
(* mapping is LoopExit: it returns jvmExitCode, which ClearedHandleHasCode *)
(* shows is the exit code of the child that has exited.  DetectJvmExit    *)
(* and restartLauncher change nothing the abstract launch can see.        *)
(***************************************************************************)
LEMMA InitRefines == Init => SL!Init
  BY DEF Init, SL!Init, AbstractPhase

LEMMA StepRefines == IInv /\ [Next]_vars => [SL!Next]_SL!absVars
<1> SUFFICES ASSUME IInv, [Next]_vars PROVE [SL!Next]_SL!absVars
  OBVIOUS
<1> USE DEF SL!absVars
<1>1. CASE LaunchSpawned
  <2>1. SL!Spawn
    BY <1>1 DEF LaunchSpawned, SL!Spawn, AbstractPhase
  <2>2. QED
    BY <2>1 DEF SL!Next
<1>2. CASE LaunchFailed
  <2>1. ret' \in Errnos
    BY <1>2 DEF LaunchFailed
  <2>2. SL!LaunchError
    BY <1>2, <2>1 DEF LaunchFailed, SL!LaunchError, AbstractPhase
  <2>3. QED
    BY <2>2 DEF SL!Next
<1>3. CASE ChildExit
  <2>1. SL!ChildExits
    BY <1>3 DEF ChildExit, SL!ChildExits, AbstractPhase
  <2>2. QED
    BY <2>1 DEF SL!Next
<1>4. CASE DetectJvmExit
  BY <1>4 DEF DetectJvmExit, AbstractPhase
<1>5. CASE LoopExit
  <2>1. child.state = "exited" /\ jvmExitCode = child.code
    BY <1>5 DEF LoopExit, IInv, ClearedHandleHasCode
  <2>2. SL!Observe
    BY <1>5, <2>1 DEF LoopExit, SL!Observe, AbstractPhase
  <2>3. QED
    BY <2>2 DEF SL!Next
<1>6. CASE RestartLauncher
  BY <1>6 DEF RestartLauncher, AbstractPhase
<1>7. CASE UNCHANGED vars
  BY <1>7 DEF vars, AbstractPhase
<1>8. QED
  BY <1>1, <1>2, <1>3, <1>4, <1>5, <1>6, <1>7 DEF Next

(* launchJavaVM, with its WM_TIMER, its GetMessage loop and detectJvmExit, *)
(* implements the spawned launch of spec 4.6 for every value of the       *)
(* constants: a failed CreateProcess ends the call at once, a successful  *)
(* one returns only once its child has exited and with that child's exit  *)
(* code, and no other step changes what the caller sees.                  *)
THEOREM RefinesSpawnedLaunch == Spec => ImplementsSpawnedLaunch
<1>1. Spec => []IInv
  BY InitIInv, IInvStep, PTL DEF Spec
<1>2. QED
  BY <1>1, InitRefines, StepRefines, PTL
  DEF Spec, ImplementsSpawnedLaunch, SL!Spec
=============================================================================
