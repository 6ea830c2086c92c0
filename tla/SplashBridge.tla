---------------------------- MODULE SplashBridge ----------------------------
(***************************************************************************)
(* The splash window of the Win32 launcher as the embedded JVM drives it   *)
(* through the JNIBridge natives (library/eclipseJNI.c): show_splash,      *)
(* get_splash_handle, takedown_splash and update_splash dispatch to        *)
(* showSplash, getSplashHandle, takeDownSplash and dispatchMessages of     *)
(* library/win32/eclipseWin.c.  Every Java thread of Threads may call any  *)
(* of them at any time; nothing in the bridge serialises the calls, so     *)
(* showSplash is modelled at the granularity of its reads and writes of    *)
(* shared state.  initWindowSystem (not under src/) creates the hidden     *)
(* top window once, as the comment in showSplash describes.                *)
(***************************************************************************)
EXTENDS Naturals

CONSTANTS
  Threads       \* the Java threads that call the JNIBridge natives

ASSUME ThreadsAssumption == Threads # {}

(* HWND values: the null handle and the launcher's one top window. *)
NoWindow == 0
TopHwnd == 1

VARIABLES
  splashing,    \* static int splashing of showSplash
  initialized,  \* has initWindowSystem created topWindow?
  topWindow,    \* HWND topWindow
  window,       \* the OS window topWindow names: "none", "hidden",
                \* "shown" or "destroyed"
  setups,       \* times showSplash positioned and showed the window
  spc,          \* where each thread is in showSplash
  held          \* the handle get_splash_handle last returned to a thread

splashVars == <<splashing, initialized, topWindow, window, setups, spc, held>>

ShowPc == {"idle", "init", "load", "setup", "mark"}

(* The launcher may or may not have initialised the window system before  *)
(* the JVM calls back ("if Java was started first ... we might not have   *)
(* initialized the window system yet").                                   *)
SplashInit ==
  /\ splashing = FALSE
  /\ initialized \in BOOLEAN
  /\ topWindow = IF initialized THEN TopHwnd ELSE NoWindow
  /\ window = IF initialized THEN "hidden" ELSE "none"
  /\ setups = 0
  /\ spc = [t \in Threads |-> "idle"]
  /\ held = [t \in Threads |-> NoWindow]

(* A variant of ShowCheck without the test of the splashing flag. *)
ShowCheckNoFlag(t) ==
  /\ spc[t] = "idle"
  /\ spc' = [spc EXCEPT ![t] = "init"]
  /\ UNCHANGED <<splashing, initialized, topWindow, window, setups, held>>

(* show_splash -> splash -> showSplash: if the splash is already showing  *)
(* return 0 at once, else go on to initialise the window system.          *)
ShowCheck(t) ==
  /\ spc[t] = "idle"
  /\ spc' = [spc EXCEPT ![t] = IF splashing THEN "idle" ELSE "init"]
  /\ UNCHANGED <<splashing, initialized, topWindow, window, setups, held>>

(* initWindowSystem(0, NULL, 1): creates the hidden top window once. *)
ShowInitWindowSystem(t) ==
  /\ spc[t] = "init"
  /\ IF initialized
       THEN UNCHANGED <<initialized, topWindow, window>>
       ELSE /\ initialized' = TRUE
            /\ topWindow' = TopHwnd
            /\ window' = "hidden"
  /\ spc' = [spc EXCEPT ![t] = "load"]
  /\ UNCHANGED <<splashing, setups, held>>

(* LoadImage of the feature bitmap: on failure showSplash returns         *)
(* ERROR_FILE_NOT_FOUND and leaves splashing unset.                       *)
ShowLoadImage(t) ==
  /\ spc[t] = "load"
  /\ \E loaded \in BOOLEAN :
       spc' = [spc EXCEPT ![t] = IF loaded THEN "setup" ELSE "idle"]
  /\ UNCHANGED <<splashing, initialized, topWindow, window, setups, held>>

(* SetWindowPos, STM_SETIMAGE, ShowWindow, BringWindowToTop on topWindow: *)
(* a destroyed window cannot be shown again.                              *)
ShowSetUpWindow(t) ==
  /\ spc[t] = "setup"
  /\ window' = IF window = "destroyed" THEN window ELSE "shown"
  /\ setups' = setups + 1
  /\ spc' = [spc EXCEPT ![t] = "mark"]
  /\ UNCHANGED <<splashing, initialized, topWindow, held>>

(* splashing = 1, then dispatchMessages; showSplash returns 0. *)
ShowMark(t) ==
  /\ spc[t] = "mark"
  /\ splashing' = TRUE
  /\ spc' = [spc EXCEPT ![t] = "idle"]
  /\ UNCHANGED <<initialized, topWindow, window, setups, held>>

(* get_splash_handle -> getSplashHandle: returns topWindow. *)
GetSplashHandle(t) ==
  /\ spc[t] = "idle"
  /\ held' = [held EXCEPT ![t] = topWindow]
  /\ UNCHANGED <<splashing, initialized, topWindow, window, setups, spc>>

(* takedown_splash -> takeDownSplash: DestroyWindow(topWindow) and pump   *)
(* the queue when topWindow is not null; topWindow keeps its value.       *)
TakeDownSplash(t) ==
  /\ spc[t] = "idle"
  /\ topWindow # NoWindow
  /\ window' = "destroyed"
  /\ UNCHANGED <<splashing, initialized, topWindow, setups, spc, held>>

SplashStep(t) ==
  \/ ShowCheck(t)
  \/ ShowInitWindowSystem(t)
  \/ ShowLoadImage(t)
  \/ ShowSetUpWindow(t)
  \/ ShowMark(t)
  \/ GetSplashHandle(t)
  \/ TakeDownSplash(t)

SplashNext == \E t \in Threads : SplashStep(t)

SplashSpec == SplashInit /\ [][SplashNext]_splashVars

-----------------------------------------------------------------------------

SplashTypeOK ==
  /\ splashing \in BOOLEAN
  /\ initialized \in BOOLEAN
  /\ topWindow \in {NoWindow, TopHwnd}
  /\ window \in {"none", "hidden", "shown", "destroyed"}
  /\ setups \in Nat
  /\ spc \in [Threads -> ShowPc]
  /\ held \in [Threads -> {NoWindow, TopHwnd}]

(* show_splash called again while the splash is up does not set the      *)
(* window up a second time (spec 8: "performs the window setup only      *)
(* once"): the splashing flag of showSplash.                             *)
SetupAtMostOnce == setups <= 1

(* get_splash_handle never hands out the handle of a window that has been *)
(* destroyed: after takedown_splash it returns the null sentinel (spec 3: *)
(* a handle is valid only while Showing; 4.7 queryWindowHandle).          *)
NoDestroyedHandle ==
  [][\A t \in Threads :
       GetSplashHandle(t) => held'[t] = NoWindow \/ window # "destroyed"]_splashVars

=============================================================================
