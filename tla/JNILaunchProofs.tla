--------------------------- MODULE JNILaunchProofs ---------------------------
(***************************************************************************)
(* Proofs about JNILaunch for every value of the constants: startJavaJNI   *)
(* returns what Main.run returned, or -1 when Main.run never ran, and      *)
(* System.exit gets that code (ExitCodeOfRun); and, on a launcher that     *)
(* runs the VM on its own thread, startJavaJNI with cleanupVM implements   *)
(* the embedded strategy EmbeddedLaunch under the refinement mapping of    *)
(* JNILaunch.                                                              *)
(***************************************************************************)
EXTENDS JNILaunch, TLAPS

(***************************************************************************)
(* The strengthening.  Main.run is entered only from "running", so before  *)
(* that ran is "no" and jvmExitCode is still -1; jvmExitCode is the run's  *)
(* result once it returned; the code startJavaJNI returned is jvmExitCode  *)
(* (an early return happens with jvmExitCode = -1); the VM leaves "alive"  *)
(* only in cleanupVM, and jvm is set exactly when a VM was created.        *)
(***************************************************************************)
JNIFlagsOK ==
  /\ jvm \in BOOLEAN
  /\ phase \in Phases
  /\ vm \in {"none", "alive", "destroyed", "exited"}
  /\ ran \in {"no", "returned", "threw"}
  /\ numVMArgs \in VMArgCounts

RanBeforeReturn ==
  phase \in {"load", "symbol", "count", "create", "main", "running"} => ran = "no"

NoRunNoCode == ran = "no" => jvmExitCode = -1

RunCodeKept == ran = "returned" => jvmExitCode = runResult

ReturnedCode == phase \in {"returned", "cleaned"} => ret = jvmExitCode

ExitOnlyAtCleanup == vm \in {"exited", "destroyed"} => phase = "cleaned"

VMCreated == jvm <=> vm # "none"

ArgsBeforeCreate == phase = "create" => numVMArgs > 0

ExitedWithRet == vm = "exited" => exitStatus = ret

JInv ==
  /\ JNIFlagsOK
  /\ RanBeforeReturn
  /\ NoRunNoCode
  /\ RunCodeKept
  /\ ReturnedCode
  /\ ExitOnlyAtCleanup
  /\ VMCreated
  /\ ArgsBeforeCreate
  /\ ExitedWithRet

(* The callbacks of the Java threads leave the launcher's variables alone. *)
CallbackStep ==
  \E t \in Threads :
    /\ CallbacksRun
    /\ \/ ShowCheck(t) \/ ShowInitWindowSystem(t) \/ ShowLoadImage(t)
       \/ ShowSetUpWindow(t) \/ ShowMark(t) \/ GetSplashHandle(t)
       \/ TakeDownSplash(t)
    /\ UNCHANGED jniVars

LEMMA NextSplit ==
  Next <=> \/ LoadLibrary \/ FindCreateJavaVM \/ CountVMArgs \/ CreateJavaVM
           \/ CreateJavaVMFails \/ FindMainRun \/ RunReturns \/ RunThrows
           \/ ReturnExitCode \/ CleanupVM \/ CallbackStep
  BY Zenon DEF Next, CallbackStep

LEMMA InitJInv == Init => JInv
  BY JNIAssumption
  DEF Init, SplashInit, JInv, JNIFlagsOK, Phases, RanBeforeReturn, NoRunNoCode,
      RunCodeKept, ReturnedCode, ExitOnlyAtCleanup, VMCreated, ArgsBeforeCreate,
      ExitedWithRet

LEMMA JInvStep == JInv /\ [Next]_vars => JInv'
<1> SUFFICES ASSUME JInv, [Next]_vars PROVE JInv'
  OBVIOUS
<1> USE DEF JInv, JNIFlagsOK, Phases, RanBeforeReturn, NoRunNoCode, RunCodeKept,
            ReturnedCode, ExitOnlyAtCleanup, VMCreated, ArgsBeforeCreate,
            ExitedWithRet
<1>1. CASE LoadLibrary
  BY <1>1 DEF LoadLibrary, EarlyReturn
<1>2. CASE FindCreateJavaVM
  BY <1>2 DEF FindCreateJavaVM, EarlyReturn
<1>3. CASE CountVMArgs
  BY <1>3, JNIAssumption DEF CountVMArgs, EarlyReturn
<1>4. CASE CreateJavaVM
  BY <1>4 DEF CreateJavaVM
<1>5. CASE CreateJavaVMFails
  BY <1>5 DEF CreateJavaVMFails
<1>6. CASE FindMainRun
  BY <1>6 DEF FindMainRun
<1>7. CASE RunReturns
  BY <1>7 DEF RunReturns
<1>8. CASE RunThrows
  BY <1>8 DEF RunThrows
<1>9. CASE ReturnExitCode
  BY <1>9 DEF ReturnExitCode
<1>10. CASE CleanupVM
  BY <1>10 DEF CleanupVM
<1>11. CASE CallbackStep
  BY <1>11 DEF CallbackStep, jniVars
<1>12. CASE UNCHANGED vars
  BY <1>12 DEF vars, jniVars
<1>13. QED
  BY <1>1, <1>2, <1>3, <1>4, <1>5, <1>6, <1>7, <1>8, <1>9, <1>10, <1>11,
     <1>12, NextSplit

(* startJavaJNI returns Main.run's result, or -1 when Main.run was never  *)
(* called, and a process ended by System.exit in cleanupVM ends with that *)
(* code: ExitCodeOfRun holds in every reachable state.                    *)
THEOREM ExitCodeCorrect == Spec => []ExitCodeOfRun
<1>1. JInv => ExitCodeOfRun
  BY DEF JInv, ExitCodeOfRun, ReturnedCode, RunCodeKept, NoRunNoCode,
         ExitedWithRet
<1>2. QED
  BY <1>1, InitJInv, JInvStep, PTL DEF Spec

(* The initial state of startJavaJNI maps to an initial state of the     *)
(* embedded strategy.                                                    *)
LEMMA InitRefines == Init => EL!Init
  BY DEF Init, EL!Init, AbstractState, AbstractExitCode, AbstractRuntime

(* Every step of the launcher's thread is a step of the embedded         *)
(* strategy or leaves its state alone; the callbacks are stutters.       *)
LEMMA StepRefines ==
  ASSUME ~SecondThread, JInv, [Next]_vars
  PROVE  [EL!Next]_EL!absVars
<1> USE DEF JInv, JNIFlagsOK, Phases, RanBeforeReturn, NoRunNoCode,
            ExitOnlyAtCleanup, VMCreated, ArgsBeforeCreate,
            AbstractState, AbstractExitCode, AbstractRuntime, EL!absVars
<1>1. CASE LoadLibrary
  <2>1. CASE phase' = "symbol"
    BY <1>1, <2>1 DEF LoadLibrary, EL!Next, EL!LoadLibrary
  <2>2. CASE EarlyReturn
    BY <1>1, <2>2 DEF LoadLibrary, EarlyReturn, EL!Next, EL!LibraryLoadError,
       EL!Fail
  <2>3. QED
    BY <1>1, <2>1, <2>2 DEF LoadLibrary
<1>2. CASE FindCreateJavaVM
  <2>1. CASE phase' = "count"
    BY <1>2, <2>1 DEF FindCreateJavaVM
  <2>2. CASE EarlyReturn
    BY <1>2, <2>2 DEF FindCreateJavaVM, EarlyReturn, EL!Next,
       EL!LibraryLoadError, EL!Fail
  <2>3. QED
    BY <1>2, <2>1, <2>2 DEF FindCreateJavaVM
<1>3. CASE CountVMArgs
  <2>1. CASE numVMArgs <= 0
    BY <1>3, <2>1, JNIAssumption DEF CountVMArgs, EarlyReturn, EL!Next,
       EL!RejectConfiguration, EL!Fail
  <2>2. CASE ~(numVMArgs <= 0)
    BY <1>3, <2>2 DEF CountVMArgs
  <2>3. QED
    BY <2>1, <2>2
<1>4. CASE CreateJavaVM
  BY <1>4 DEF CreateJavaVM, EL!Next, EL!CreateRuntime
<1>5. CASE CreateJavaVMFails
  BY <1>5 DEF CreateJavaVMFails, EL!Next, EL!CreateRuntimeError, EL!Fail
<1>6. CASE FindMainRun
  BY <1>6 DEF FindMainRun, EL!Next, EL!InvokeEntry, EL!EntryUnavailable,
     EL!Fail
<1>7. CASE RunReturns
  BY <1>7 DEF RunReturns, EL!Next, EL!EntryReturns
<1>8. CASE RunThrows
  BY <1>8 DEF RunThrows, EL!Next, EL!EntryReturns
<1>9. CASE ReturnExitCode
  BY <1>9 DEF ReturnExitCode
<1>10. CASE CleanupVM
  BY <1>10 DEF CleanupVM, EL!Next, EL!Shutdown
<1>11. CASE CallbackStep
  BY <1>11 DEF CallbackStep, jniVars
<1>12. CASE UNCHANGED vars
  BY <1>12 DEF vars, jniVars
<1>13. QED
  BY <1>1, <1>2, <1>3, <1>4, <1>5, <1>6, <1>7, <1>8, <1>9, <1>10, <1>11,
     <1>12, NextSplit

(* On a launcher that starts the VM on its own thread (secondThread is    *)
(* false), startJavaJNI followed by cleanupVM implements the embedded     *)
(* strategy of spec 4.6: ImplementsEmbeddedLaunch holds.                  *)
THEOREM RefinesEmbeddedLaunch ==
  ASSUME ~SecondThread PROVE Spec => ImplementsEmbeddedLaunch
<1>1. Spec => []JInv
  BY InitJInv, JInvStep, PTL DEF Spec
<1>2. JInv /\ [Next]_vars => [EL!Next]_EL!absVars
  BY StepRefines
<1>3. QED
  BY <1>1, <1>2, InitRefines, PTL DEF Spec, ImplementsEmbeddedLaunch, EL!Spec

(***************************************************************************)
(* The splash setup with one Java thread T.  splashing is set only by the *)
(* mark that follows a setup, and once it is set ShowCheck turns every     *)
(* later show_splash back: so setups is 0 until the one setup, and 1 from *)
(* then on.  SetupAtMostOnce alone is not inductive (a thread at "setup"  *)
(* with setups = 1 would break it), hence SInv.                           *)
(***************************************************************************)
SInv(T) ==
  /\ splashing \in BOOLEAN
  /\ setups \in Nat
  /\ spc \in [Threads -> ShowPc]
  /\ splashing => spc[T] = "idle" /\ setups = 1
  /\ ~splashing => IF spc[T] = "mark" THEN setups = 1 ELSE setups = 0

(* The steps of the launcher's own thread. *)
LauncherStep ==
  \/ LoadLibrary \/ FindCreateJavaVM \/ CountVMArgs \/ CreateJavaVM
  \/ CreateJavaVMFails \/ FindMainRun \/ RunReturns \/ RunThrows
  \/ ReturnExitCode \/ CleanupVM

LEMMA LauncherKeepsSplash == LauncherStep => UNCHANGED splashVars
  BY DEF LauncherStep, LoadLibrary, FindCreateJavaVM, CountVMArgs,
         CreateJavaVM, CreateJavaVMFails, FindMainRun, RunReturns, RunThrows,
         ReturnExitCode, CleanupVM

LEMMA SInvStep ==
  ASSUME NEW T, Threads = {T}, SInv(T), [Next]_vars
  PROVE  SInv(T)'
<1> USE DEF SInv, ShowPc
<1>1. CASE LauncherStep
  BY <1>1, LauncherKeepsSplash DEF splashVars
<1>2. CASE \E t \in Threads : CallbacksRun /\ ShowCheck(t)
  BY <1>2 DEF ShowCheck
<1>3. CASE \E t \in Threads : CallbacksRun /\ ShowInitWindowSystem(t)
  BY <1>3 DEF ShowInitWindowSystem
<1>4. CASE \E t \in Threads : CallbacksRun /\ ShowLoadImage(t)
  BY <1>4 DEF ShowLoadImage
<1>5. CASE \E t \in Threads : CallbacksRun /\ ShowSetUpWindow(t)
  BY <1>5 DEF ShowSetUpWindow
<1>6. CASE \E t \in Threads : CallbacksRun /\ ShowMark(t)
  BY <1>6 DEF ShowMark
<1>7. CASE \E t \in Threads : CallbacksRun /\ GetSplashHandle(t)
  BY <1>7 DEF GetSplashHandle
<1>8. CASE \E t \in Threads : CallbacksRun /\ TakeDownSplash(t)
  BY <1>8 DEF TakeDownSplash
<1>9. CASE UNCHANGED vars
  BY <1>9 DEF vars, splashVars
<1>10. QED
  BY <1>1, <1>2, <1>3, <1>4, <1>5, <1>6, <1>7, <1>8, <1>9
  DEF Next, LauncherStep

(* With one Java thread calling the natives, show_splash sets the splash  *)
(* window up at most once however often it is called, whatever the       *)
(* launcher's thread does meanwhile (showSplash's splashing flag):        *)
(* SetupAtMostOnce holds in every reachable state.                        *)
THEOREM SplashSetupOnce ==
  ASSUME NEW T, Threads = {T} PROVE Spec => []SetupAtMostOnce
<1>1. Init => SInv(T)
  <2> SUFFICES ASSUME Init PROVE SInv(T)
    OBVIOUS
  <2>1. splashing = FALSE /\ setups = 0 /\ spc = [t \in Threads |-> "idle"]
    BY DEF Init, SplashInit
  <2>2. QED
    BY <2>1 DEF SInv, ShowPc
<1>2. SInv(T) => SetupAtMostOnce
  BY DEF SInv, SetupAtMostOnce
<1>3. SInv(T) /\ [Next]_vars => SInv(T)'
  BY SInvStep
<1>4. QED
  BY <1>1, <1>2, <1>3, PTL DEF Spec


=============================================================================
