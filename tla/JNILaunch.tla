----------------------------- MODULE JNILaunch -----------------------------
(***************************************************************************)
(* The embedded launch strategy (library/eclipseJNI.c): startJavaJNI loads *)
(* the JVM library, resolves JNI_CreateJavaVM, checks the VM arguments,    *)
(* creates the VM, registers the JNIBridge natives, and calls              *)
(* Main.run(String[]) on the launcher's thread; cleanupVM later calls      *)
(* System.exit unless osgi.noShutdown is set, and destroys the VM.         *)
(*                                                                         *)
(* While the VM is alive and Main.run has been entered, the Java threads   *)
(* of SplashBridge call back into the splash natives, interleaved with     *)
(* each other and with the launcher's thread.                              *)
(***************************************************************************)
EXTENDS Integers, SplashBridge

CONSTANTS
  RunResults,   \* values Main.run may return
  VMArgCounts,  \* numbers of VM arguments the caller may pass
  SecondThread  \* secondThread: the VM was started on a second thread

ASSUME JNIAssumption ==
  /\ RunResults \subseteq Int
  /\ VMArgCounts \subseteq Nat
  /\ VMArgCounts # {}
  /\ SecondThread \in BOOLEAN

VARIABLES
  phase,        \* where the launcher's thread is in startJavaJNI/cleanupVM
  numVMArgs,    \* number of entries of vmArgs[]
  libCalled,    \* has startJavaJNI called into the JVM library (loadLibrary)?
  jvm,          \* static JavaVM *jvm is set (the VM was created)
  vm,           \* the VM: "none", "alive", "destroyed" or "exited"
  jvmExitCode,  \* local jvmExitCode of startJavaJNI
  ran,          \* what Main.run did: "no" (not called), "returned", "threw"
  runResult,    \* the value Main.run returned
  ret,          \* the value startJavaJNI returned
  exitStatus    \* the process exit status passed to System.exit

jniVars == <<phase, numVMArgs, libCalled, jvm, vm, jvmExitCode, ran,
             runResult, ret, exitStatus>>

vars == <<jniVars, splashVars>>

Phases == {"load", "symbol", "count", "create", "main", "running",
           "return", "returned", "cleaned"}

(* A variant of Init that forgets startJavaJNI's "int jvmExitCode = -1". *)
InitExitCodeZero ==
  /\ phase = "load"
  /\ numVMArgs \in VMArgCounts
  /\ libCalled = FALSE
  /\ jvm = FALSE
  /\ vm = "none"
  /\ jvmExitCode = 0
  /\ ran = "no"
  /\ runResult = 0
  /\ ret = 0
  /\ exitStatus = 0
  /\ SplashInit

Init ==
  /\ phase = "load"
  /\ numVMArgs \in VMArgCounts
  /\ libCalled = FALSE
  /\ jvm = FALSE
  /\ vm = "none"
  /\ jvmExitCode = -1
  /\ ran = "no"
  /\ runResult = 0
  /\ ret = 0
  /\ exitStatus = 0
  /\ SplashInit

(* startJavaJNI returns -1 from the launcher's thread at an early exit. *)
EarlyReturn ==
  /\ ret' = -1
  /\ phase' = "returned"

(* loadLibrary(libPath): NULL makes startJavaJNI return -1. *)
LoadLibrary ==
  /\ phase = "load"
  /\ libCalled' = TRUE
  /\ \/ phase' = "symbol" /\ UNCHANGED ret
     \/ EarlyReturn
  /\ UNCHANGED <<numVMArgs, jvm, vm, jvmExitCode, ran, runResult, exitStatus>>
  /\ UNCHANGED splashVars

(* findSymbol(jniLibrary, "JNI_CreateJavaVM"): NULL returns -1. *)
FindCreateJavaVM ==
  /\ phase = "symbol"
  /\ \/ phase' = "count" /\ UNCHANGED ret
     \/ EarlyReturn
  /\ UNCHANGED <<numVMArgs, libCalled, jvm, vm, jvmExitCode, ran, runResult,
                 exitStatus>>
  /\ UNCHANGED splashVars

(* A variant of CountVMArgs that lets an empty argument list through. *)
CountVMArgsOffByOne ==
  /\ phase = "count"
  /\ IF numVMArgs < 0
       THEN EarlyReturn
       ELSE phase' = "create" /\ UNCHANGED ret
  /\ UNCHANGED <<numVMArgs, libCalled, jvm, vm, jvmExitCode, ran, runResult,
                 exitStatus>>
  /\ UNCHANGED splashVars

(* Count the VM arguments; none at all returns -1. *)
CountVMArgs ==
  /\ phase = "count"
  /\ IF numVMArgs <= 0
       THEN EarlyReturn
       ELSE phase' = "create" /\ UNCHANGED ret
  /\ UNCHANGED <<numVMArgs, libCalled, jvm, vm, jvmExitCode, ran, runResult,
                 exitStatus>>
  /\ UNCHANGED splashVars

(* createJavaVM succeeds: registerNatives registers the JNIBridge natives *)
(* and sets the hooks before anything else runs in the VM.                *)
CreateJavaVM ==
  /\ phase = "create"
  /\ jvm' = TRUE
  /\ vm' = "alive"
  /\ phase' = "main"
  /\ UNCHANGED <<numVMArgs, libCalled, jvmExitCode, ran, runResult, ret,
                 exitStatus>>
  /\ UNCHANGED splashVars

(* createJavaVM fails: no VM, jvmExitCode stays -1. *)
CreateJavaVMFails ==
  /\ phase = "create"
  /\ phase' = "return"
  /\ UNCHANGED <<numVMArgs, libCalled, jvm, vm, jvmExitCode, ran, runResult,
                 ret, exitStatus>>
  /\ UNCHANGED splashVars

(* FindClass Main, its constructor, NewObject, GetMethodID run and        *)
(* createRunArgs: all succeed and CallIntMethod enters Main.run, or one   *)
(* fails and Main.run is never called.                                    *)
FindMainRun ==
  /\ phase = "main"
  /\ phase' \in {"running", "return"}
  /\ UNCHANGED <<numVMArgs, libCalled, jvm, vm, jvmExitCode, ran, runResult,
                 ret, exitStatus>>
  /\ UNCHANGED splashVars

(* Main.run returns r, which CallIntMethod stores in jvmExitCode. *)
RunReturns ==
  /\ phase = "running"
  /\ \E r \in RunResults :
       /\ runResult' = r
       /\ jvmExitCode' = r
  /\ ran' = "returned"
  /\ phase' = "return"
  /\ UNCHANGED <<numVMArgs, libCalled, jvm, vm, ret, exitStatus>>
  /\ UNCHANGED splashVars

(* An exception escapes Main.run: CallIntMethod's result is undefined by  *)
(* JNI; HotSpot returns 0, which becomes jvmExitCode.                     *)
RunThrows ==
  /\ phase = "running"
  /\ jvmExitCode' = 0
  /\ ran' = "threw"
  /\ phase' = "return"
  /\ UNCHANGED <<numVMArgs, libCalled, jvm, vm, runResult, ret, exitStatus>>
  /\ UNCHANGED splashVars

(* ExceptionDescribe/ExceptionClear, free the options, return jvmExitCode. *)
ReturnExitCode ==
  /\ phase = "return"
  /\ ret' = jvmExitCode
  /\ phase' = "returned"
  /\ UNCHANGED <<numVMArgs, libCalled, jvm, vm, jvmExitCode, ran, runResult,
                 exitStatus>>
  /\ UNCHANGED splashVars

(* cleanupVM(exitCode) with the code startJavaJNI returned: nothing when   *)
(* no VM was created, or when on a second thread AttachCurrentThread left  *)
(* no env; else System.exit(exitCode) ends the process unless              *)
(* osgi.noShutdown is set or System.exit cannot be found, and then         *)
(* DestroyJavaVM releases the VM.                                          *)
CleanupVM ==
  /\ phase = "returned"
  /\ phase' = "cleaned"
  /\ IF ~jvm
       THEN UNCHANGED <<vm, exitStatus>>
       ELSE \E attached \in IF SecondThread THEN BOOLEAN ELSE {TRUE} :
              IF ~attached
                THEN UNCHANGED <<vm, exitStatus>>
                ELSE \/ vm' = "exited" /\ exitStatus' = ret
                     \/ vm' = "destroyed" /\ UNCHANGED exitStatus
  /\ UNCHANGED <<numVMArgs, libCalled, jvm, jvmExitCode, ran, runResult, ret>>
  /\ UNCHANGED splashVars

(* The Java threads call back while the VM runs Main.run or outlives it. *)
CallbacksRun == vm = "alive" /\ phase \notin {"main", "create"}

Next ==
  \/ LoadLibrary
  \/ FindCreateJavaVM
  \/ CountVMArgs
  \/ CreateJavaVM
  \/ CreateJavaVMFails
  \/ FindMainRun
  \/ RunReturns
  \/ RunThrows
  \/ ReturnExitCode
  \/ CleanupVM
  \/ \E t \in Threads : CallbacksRun /\ ShowCheck(t) /\ UNCHANGED jniVars
  \/ \E t \in Threads : CallbacksRun /\ ShowInitWindowSystem(t) /\ UNCHANGED jniVars
  \/ \E t \in Threads : CallbacksRun /\ ShowLoadImage(t) /\ UNCHANGED jniVars
  \/ \E t \in Threads : CallbacksRun /\ ShowSetUpWindow(t) /\ UNCHANGED jniVars
  \/ \E t \in Threads : CallbacksRun /\ ShowMark(t) /\ UNCHANGED jniVars
  \/ \E t \in Threads : CallbacksRun /\ GetSplashHandle(t) /\ UNCHANGED jniVars
  \/ \E t \in Threads : CallbacksRun /\ TakeDownSplash(t) /\ UNCHANGED jniVars

Spec == Init /\ [][Next]_vars

-----------------------------------------------------------------------------

TypeOK ==
  /\ phase \in Phases
  /\ numVMArgs \in Nat
  /\ libCalled \in BOOLEAN
  /\ jvm \in BOOLEAN
  /\ vm \in {"none", "alive", "destroyed", "exited"}
  /\ jvmExitCode \in Int
  /\ ran \in {"no", "returned", "threw"}
  /\ runResult \in Int
  /\ ret \in Int
  /\ exitStatus \in Int
  /\ SplashTypeOK

(* startJavaJNI returns what Main.run returned, and -1 when Main.run was  *)
(* never called (spec 6: -1 means the runtime could not be started); when *)
(* the process ends through System.exit, it ends with that code.          *)
ExitCodeOfRun ==
  /\ phase \in {"returned", "cleaned"} /\ ran = "returned" => ret = runResult
  /\ phase \in {"returned", "cleaned"} /\ ran = "no" => ret = -1
  /\ vm = "exited" => exitStatus = ret

-----------------------------------------------------------------------------

(* The refinement mapping to EmbeddedLaunch: where startJavaJNI is, the   *)
(* code it holds (jvmExitCode until it returns, then ret), and the VM.    *)
AbstractState ==
  CASE phase = "load"                         -> "Idle"
    [] phase \in {"symbol", "count", "create"} -> "LibraryLoaded"
    [] phase = "main"                         -> "RuntimeCreated"
    [] phase = "running"                      -> "EntryInvoked"
    [] phase \in {"return", "returned"}       -> "Finished"
    [] phase = "cleaned"                      -> "Terminated"

AbstractExitCode == IF phase \in {"returned", "cleaned"} THEN ret ELSE jvmExitCode

AbstractRuntime == IF vm = "destroyed" THEN "released" ELSE vm

EL == INSTANCE EmbeddedLaunch WITH
        state <- AbstractState, numArgs <- numVMArgs,
        exitCode <- AbstractExitCode, runtime <- AbstractRuntime,
        status <- exitStatus, FaultCodes <- {0}

(* startJavaJNI and cleanupVM, with every early return and every branch   *)
(* of the shutdown, implement the embedded strategy of spec 4.6: library, *)
(* runtime, entry point, exit code, then an unconditional shutdown.       *)
ImplementsEmbeddedLaunch == EL!Spec

=============================================================================
