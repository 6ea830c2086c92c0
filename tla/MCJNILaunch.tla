----------------------------- MODULE MCJNILaunch -----------------------------
(***************************************************************************)
(* Model-checking instances of JNILaunch: Main.run returns 0 or 23         *)
(* (restart), the caller passes no VM argument or one (the required        *)
(* -Djava.class.path).                                                     *)
(***************************************************************************)
EXTENDS JNILaunch

CONSTANTS t1, t2

\* One Java thread: the callbacks arrive one after the other.
MCOneThread == {t1}

\* Two Java threads calling back concurrently.
MCTwoThreads == {t1, t2}

MCRunResults == {0, 23}

MCVMArgCounts == {0, 1}
=============================================================================
