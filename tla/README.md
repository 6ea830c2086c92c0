# TLA+ models of the Eclipse native launcher library

This directory holds TLA+ models of the C library behind the Eclipse native
launcher: `src/bundles/org.eclipse.equinox.executable/library/`. It contains
TLC configurations that model-check them. It also contains TLAPS proofs of
the central invariants of the spawned launch, the embedded launch, the splash
setup, the exit data, the JVM library search, the runtime classification and
the command and path-list resolution. Two proofs show that the embedded and
the spawned launch each refine an abstract specification of what they
promise. Below, "the library" means that directory.

## The system and its parts

The library locates a Java runtime and a versioned framework bundle. It then
starts the runtime in one of two ways:

- **spawned**: a child process (Win32 `launchJavaVM`), or
- **embedded**: in-process through JNI (`startJavaJNI`).

In the embedded case the Java threads call back into the library for the
splash screen and for exit data, while the launcher's own thread is inside
`Main.run`.

| Part | Code | Module | Status |
|---|---|---|---|
| VersionComparator | `eclipseCommon.c` parseVersion, compareVersions | `Version` | modelled |
| VersionedFileLocator | `eclipseCommon.c` findFile, filter | `FindFile` | partly (path stripping left out) |
| RuntimeLibraryResolver | `win32/eclipseWin.c` findVMLibrary, checkVMRegistryKey | `FindVMLibrary` | modelled |
| RuntimeClassifier | `eclipseUtil.c` isVMLibrary, checkProvidedVMType, isJ9VM | `RuntimeClassifier`, used by `FindVMLibrary` | modelled |
| SpawnLauncher | `win32/eclipseWin.c` launchJavaVM, detectJvmExit, restartLauncher | `SpawnLauncher`, `SpawnLauncherProofs`; abstract spec `SpawnedLaunch` | partly (buildCommandLine left out) |
| JNILaunch | `eclipseJNI.c` startJavaJNI, cleanupVM, shouldShutdown | `JNILaunch`, `JNILaunchProofs`; abstract spec `EmbeddedLaunch` | modelled (string conversions abstracted) |
| SplashBridge | `eclipseJNI.c` natives and hooks; `win32/eclipseWin.c` showSplash, getSplashHandle, takeDownSplash | `SplashBridge`, composed in `JNILaunch` | modelled |
| ExitData | `eclipseJNI.c` setExitData | `ExitData`, `ExitDataProofs` | partly (the shared-memory path is not under src/) |
| PathResolver | `eclipseCommon.c` findCommand, resolveSymlinks; `eclipseUtil.c` checkPath, checkPathList | `PathResolver` | partly (Win32 quoting and ".exe" retry, failing realpath) |
| AIX version probe | getVMVersion, versionCmp | none | not modelled (runs a process and parses its output) |
| Carbon glue | `carbon/eclipseCarbonCommon.c` | none | not modelled (thin OS calls) |

`PROJECT.json` has the full component list, the map from each definition to
the source lines it translates, the runs, mutants, findings, hazards and
theorems.

### How the modules correspond to the code

- **SpawnLauncher** models the launcher's thread with `pc` ("idle", "loop",
  "done") and the JVM child process with `child` (`state`, `code`).
  - `LaunchSpawned` and `LaunchFailed` model the two outcomes of `CreateProcess`
    in `launchJavaVM`.
  - `DetectJvmExit` is the `WM_TIMER` callback. It reads
    `GetExitCodeProcess`, and `ExitCodeOf` answers `STILL_ACTIVE` while the
    child runs.
  - `LoopExit` is the `GetMessage` loop seeing `jvmProcess == 0`.
  - `RestartLauncher` is `restartLauncher`.
  - `ChildExit` is the environment: the JVM terminates with some code.
  - `SpawnedLaunch` is spec 4.6's spawned strategy with no timer or message
    queue. A launch fails at once or starts a child and is supervised until
    the child has exited; then the child's code is the exit code. The
    mapping `SL` sends `pc` to the phase, `child` to the process and `ret`
    to the exit code. `DetectJvmExit` and `RestartLauncher` are stutters.
- **SplashBridge** splits `showSplash` into the steps at which another thread
  can interleave: the `splashing` test, `initWindowSystem`, `LoadImage`, the
  window setup and the `splashing = TRUE` mark. `GetSplashHandle` and
  `TakeDownSplash` are the other two natives. `window` records whether
  `topWindow` is absent, shown, hidden or destroyed.
- **JNILaunch** has one action per step of `startJavaJNI`, each early return
  included (`EarlyReturn` gives -1), and `CleanupVM` for `cleanupVM` with
  `shouldShutdown`. `CleanupVM` includes the `secondThread` branch (constant
  `SecondThread`), where `AttachCurrentThread` may fail. It EXTENDS SplashBridge. The splash actions of every Java
  thread are enabled only while the VM is alive and `Main.run` may be running
  (`CallbacksRun`).
- **Version** gives `parseVersion` and `compareVersions` as operators on
  token strings. A digit run is one token, and the other characters are
  negative codes.
  - `ParseFrom` follows the `while` loop, including `c2++` past the terminator.
    It reads from `Mem(s, g)`: the copy, its NUL, then the heap bytes `g`
    beyond it.
  - `SegmentValue` is `(int)_tcstol`: it saturates at `LONG_MAX`, then
    truncates to int.
  - `Differences` is the int subtraction. An overflow either wraps or keeps its
    mathematical sign, because the behaviour is undefined.
  - `CompareVersions` is the set of signs the code may return over all heap
    contents in `Garbage`.
  - `RefVersion` and `RefCompare` are spec 4.1's reference order, against which
    the code is checked.
- **FindFile** models the state of `findFile`: `pc`, the directory content
  `dir`, the enumeration order `order` (any permutation), `pos` and the
  `candidate` kept so far. The actions are `Stat`, `OpenDir` (which may fail),
  `ReadEntry` (one `readdir` or `FindNextFile` plus the comparison) and
  `Finish`. `Candidate` is `filter()` on POSIX and the `prefix_*` pattern on
  Win32.
- **FindVMLibrary** models the probe of the fixed `jvmLocations`, then the
  registry: `RegOpen`, `QueryCurrent` and the `RegEnumKeyEx` loop `EnumKey`,
  with its in/out `length`. The registry content and the subkey order are
  free in `Init`.
- **EmbeddedLaunch** is the abstract embedded strategy of spec 4.6, with no
  JNI in it. Its states run Idle, LibraryLoaded, RuntimeCreated,
  EntryInvoked, Finished and Terminated. It has the spec's error outcomes, and
  a shutdown that either makes the runtime exit with the exit code or releases
  it. JNILaunch maps onto it with `AbstractState`, `AbstractExitCode` and
  `AbstractRuntime`:
  - the steps before `main` map to LibraryLoaded;
  - "return" and "returned" map to Finished;
  - the exit code is `ret` once startJavaJNI returned, and `jvmExitCode` before that;
  - `EL!Spec` is checked as the property `ImplementsEmbeddedLaunch`.
- **PathResolver** models one call per behaviour, of either findCommand or
  checkPathList.
  - findCommand: a file is a location. "abs", "rel", "cwd" and "root" are the
    candidates for an absolute command, a command with a separator, the
    working directory and "/". A PATH directory stands for itself. `Start` is
    the branch on the command's shape and on an unset PATH. `ScanEntry` is one
    turn of the PATH loop, and `Verify` is the final `_tstat` with
    `resolveSymlinks`. `MoreEntries` is the loop's end test. The read of
    `cmdPath[-1]` for an empty entry is a choice between "/" and the
    working directory. The uninitialised buffer
    that an empty PATH leaves is any location.
  - checkPathList: a segment is its length and whether it is absolute.
    `CheckPath` is checkPath: which of the two bases the segment exists
    under, tried in `reverseOrder`'s order, as the code's two-turn `for`
    loop (`Joined` is base + '/' + path, `Unchanged` the path itself). An
    empty segment is relative and exists under both bases, because
    `cwd/` and `programDir/` are directories. `Segment` keeps the code's
    `bufferLength` and `resultLength` arithmetic and records in `overflow`
    any write at or past the buffer's end. `ListEnd` stops where the code's
    `while` does: when `c1` reaches the list's terminator. That happens after
    the last segment, or at an empty last segment (a trailing separator). An
    empty leading or middle segment goes through `checkPath("")`.
- **RuntimeClassifier** gives isVMLibrary, checkProvidedVMType and isJ9VM as
  operators on a path. A path is a sequence of names, and a name is the
  sequence of its `.`-separated parts. That is all the functions read: where
  the last separator and the last `.` are, and the text after them (`LastDot`,
  `Word`). Case-insensitive comparison is `Fold`. FindVMLibrary's `command`
  is such a path, and its `Start` calls `IsVMLibrary`. `CheckProvidedVMType`
  is an IF chain, not a CASE: the code's early returns are tried in order,
  and a CASE with overlapping arms would leave the choice between them open.
- **ExitData** models each calling thread's position in `setExitData`: `Call`,
  `Malloc`, `Copy` and `Terminate`. It also models the global `exitData`, the
  heap buffers with their capacity, and an `overflow` flag that records any
  write past a buffer's end.

## Runs

Each run uses an MC module (`MC*.tla`) that fixes the constants. "Pass" runs
must succeed. "Violation" runs check one property that the code breaks, and
each such run records a finding in `PROJECT.json`.

| Run | cfg | Expect | What it shows |
|---|---|---|---|
| spawn | SpawnLauncher.cfg | pass | `ReturnsChildCode`: launchJavaVM returns its own child's exit code, and only after that child exited. `ExitObserved`: the exit is always eventually seen. `ImplementsSpawnedLaunch`: launchJavaVM refines SpawnedLaunch. Covers up to 3 launches, restarts, and failed CreateProcess. |
| spawn_still_active | SpawnLauncherStillActive.cfg | violation | A JVM that exits with code 259 is taken to be still running, so the launcher waits for ever. |
| jni | JNILaunch.cfg | pass | `ExitCodeOfRun`: the embedded launch returns Main.run's result, or -1 when Main.run never ran, and System.exit receives that value. `SetupAtMostOnce`: with one Java thread, the splash is set up at most once. `ImplementsEmbeddedLaunch`: startJavaJNI with cleanupVM refines EmbeddedLaunch. |
| splash_concurrent_show | SplashConcurrentShow.cfg | violation | With two Java threads, both pass the `splashing` test and set up two windows. |
| findfile | FindFile.cfg | pass | `LatestFound`: on POSIX, findFile returns a retained entry of the highest version, for every directory of up to 3 entries and every readdir order. |
| version_reflexive | VersionReflexive.cfg | violation | `compareVersions(v, v) != 0` can happen when the heap after `v` holds a letter. |
| vmlib | FindVMLibrary.cfg | pass | `LayoutFirst`: the first fixed location that holds the library wins, before any registry lookup. `ClassifiedAsSpec`: checkProvidedVMType and isVMLibrary classify every candidate path as spec 4.4 does. |
| vmlib_registry | FindVMLibraryRegistry.cfg | violation | A second subkey whose name has the same length as the first is never examined. |
| exitdata | ExitData.cfg | pass | In a UNICODE build, sequential set_exit_data calls never overflow, and they leave exitData equal to the string of the last call. |
| exitdata_overflow | ExitDataOverflow.cfg | violation | Two concurrent calls copy the long string into the short string's buffer. |
| pathresolver | PathResolver.cfg | pass | `CommandFound`: findCommand returns the first PATH entry that holds the command, in order, or an existing absolute or relative command, else NULL. `ListChecked`: for a list that does not end in a separator, checkPathList returns every segment, empty ones included, each checked against the bases in `reverseOrder`'s order. |
| pathlist_overflow | PathListOverflow.cfg | violation | checkPathList on `a:b` writes its terminator one past the buffer: the growth test at eclipseUtil.c:162 leaves out the separator. |

Every property of a passing run has a mutant in `PROJECT.json`. A mutant is a
plausible bug in the mapped definition, and the run's own cfg must catch it:

- a missing `STILL_ACTIVE` test;
- a failed launch without `jvmExitCode = errno`, which returns the previous
  child's code and breaks the refinement;
- a handle that is never cleared;
- an exit code initialised to 0;
- a missing `splashing` test;
- a filter without its dot check;
- a probe loop that stops one location early;
- a malloc with no room for the terminator;
- a copy that is one character short;
- a VM argument check that is off by one (`numVMArgs < 0`), which breaks the refinement;
- a PATH loop that does not stop at the first hit;
- a checkPath that ignores `reverseOrder`;
- an isVMLibrary that compares the suffix with case.

### Disagreements seen while modelling, not kept as runs

TLC also found the following while the modules were written. They are
listed as hazards in `PROJECT.json`, but no run checks them now:

- On Win32 (`Platform = "win32"` in FindFile), findFile compares every
  `prefix_*` entry without `filter()`, so `p_2_q.jar` can win. Spec 4.2 and
  the POSIX branch reject that name.
- A failed `CreateProcess` makes launchJavaVM return `errno`, not the OS
  error code (eclipseWin.c:322). SpawnedLaunch therefore leaves the failure
  code open (`FailCodes`, mapped to the possible errno values).
- startJavaJNI calls `loadLibrary` before it rejects an empty VM argument
  list (eclipseJNI.c:291). The result, -1, is still what the spec asks.
- Two concurrent set_exit_data calls can also leave `exitData` holding a
  mixed, truncated string. This is the same race as exitdata_overflow.
- In an ANSI build, `JNI_GetStringChars` returns the bytes of `getBytes()`.
  A non-ASCII string can have more of them than `GetStringLength`
  characters. `_tcsncpy` copies only `length` of them, so `exitData` holds
  the string cut short. `ExitDataIsLastString` fails with `Unicode = FALSE`:
  TLC stores one byte of a one-character, two-byte string. The exitdata run
  and the theorem are for the UNICODE build, where the conversion copies
  the characters unchanged.
- takeDownSplash destroys `topWindow` but never clears it, so
  get_splash_handle keeps returning a destroyed window's handle.
  `NoDestroyedHandle` in SplashBridge states spec 3's rule, and TLC breaks it
  in two steps.
- Where long is wider than int, compareVersions is not transitive: a wrapped
  segment and an overflowing subtraction cause it. `VersionTransitive` in
  FindFile states the rule. TLC breaks it with int and long of 8 and 16 bits.
- checkPathList drops the empty last segment of a list that ends in a
  separator (`a:`), while spec 4.3's split would pass it to checkPath too.
  An empty middle segment (`a::b`) becomes the working directory with a
  trailing separator. An empty list returns a `malloc(0)` buffer that is
  never terminated.
- findCommand with an empty PATH entry (`:`, a leading `:`) reads
  `cmdPath[-1]`. If that byte is a separator, no separator is added and it
  tests `command` in the working directory. If not, it tests `/command` at
  the root, not the working directory that POSIX means by an empty entry. With `PATH=""`, it stats the uninitialised buffer.
  CommandFound fails on both, which is why the pathresolver run leaves the
  empty entry out.
- With `secondThread` set, a failed `AttachCurrentThread` makes cleanupVM
  return without exiting or releasing the VM. EmbeddedLaunch's unconditional
  shutdown has no such outcome, so the refinement is checked and proved with
  `SecondThread = FALSE` only.

### Bounds, and why they are enough

- **SpawnLauncher**
  - Child exit codes are {0, 13, 23}, or {0, 23, 259} in the STILL_ACTIVE
    run. errno is 0 or a stale ENOENT, and the OS error is 2 or 5.
  - At most 3 launches and 1 restart.
  - Every path through the loop (a timer firing before and after the exit, a
    relaunch, a failure) appears with two launches. The third launch
    exercises the bound.
- **JNILaunch**
  - `Main.run` returns a value in {0, 23}, and the VM gets 0 or 1 arguments.
  - These cover every early return and every branch of cleanupVM.
  - The run uses one Java thread. The concurrent-show violation uses two,
    which is the fewest that can race.
- **FindFile**
  - A directory holds at most 3 names, drawn from 7 well-formed names that
    cover the interesting cases:
    - one bundle as a jar and another as a directory;
    - 1.10 against 1.2, to test numeric rather than textual order;
    - qualifiers `q9` and `q10`;
    - a second `_`;
    - another prefix.
  - No run uses a segment that overflows int. MCFindFile defines such names
    (`MCNamesEdge`, with a segment of 128), but the runs do not use them.
  - Three entries allow a replacement followed by a non-replacement, and the
    transitivity check needs three versions.
  - int and long are 8 and 16 bits, the LP64 relation. With 8 and 8, the
    Win32 relation, transitivity holds.
  - The heap after a string is empty, a letter, or a digit run.
- **FindVMLibrary**
  - 5 commands cover the classifier's cases:
    - an executable under a dotted directory (`jre1.8/bin/javaw.exe`);
    - the library in lower and upper case;
    - a `.ee` descriptor;
    - a name whose last `.` is in a directory.
  - Every command has a separator, since findCommand returns an absolute
    path. Both directory answers of `_tstat` are enumerated.
  - 3 fixed locations in any subset.
  - Registry subkeys 1.3 (with a library), 1.4 (without) and 1.5 (with), at
    most 2 installed, in either order. This covers the `1.4` threshold, a
    usable key behind an unusable one, and names of equal length, which is
    the common case (1.6, 1.7, 1.8).
- **PathResolver**
  - PATH has up to 3 entries from `d1`, `d2` and `.`, the last standing for
    the working directory. Any subset of the 6 locations holds the command.
  - Three entries allow a hit behind a miss, two hits, and `.` against the
    relative command.
  - Path lists have up to 3 segments of length 0, 1 or 2 (an empty one
    is relative and exists under both bases), absolute or not,
    existing under any subset of the two bases, in both orders. The
    overflow run needs only two one-character segments.
- **ExitData**
  - String lengths are {0, 1, 3}, with 4-byte pointers and 2-byte characters,
    and at most 3 calls. Both cfgs set `Unicode = TRUE`, so the native
    string has `GetStringLength` units. `MaxBytesPerChar = 3` bounds the
    bytes per character that `getBytes()` gives in an ANSI build
    (`EncodedLengths`).
  - The overflow run uses two threads and two calls with lengths {1, 5}:
    only there does one call's copy exceed the other call's rounded-up
    buffer.

Int widths are shrunk because TLC's integers are 32 bits. What matters for
each property is the relation between the widths, not their size.

### Fairness

`SpawnLauncher` assumes weak fairness of `DetectJvmExit` and `LoopExit`, and
none of `ChildExit`: the JVM may run for ever, and `ExitObserved` only asks
that an exited JVM is eventually noticed. The code justifies this:
`SetTimer(..., 100, ...)` keeps posting `WM_TIMER` while the loop runs, and
`GetMessage` dispatches it, so the detection step is taken as long as it is
enabled. No other module checks liveness.

## What is proved

`SpawnLauncherProofs` proves three theorems for every value of the constants,
assuming only `ConstantsAssumption`: the bounds are naturals and the codes
are integers.

- `TypeCorrect`: `Spec => []TypeOK`. TypeOK is a lemma for the other proofs.
  No run checks it: only the model's bound on launches could break it.
- `ChildCodeReturned`: `Spec => []ReturnsChildCode`. When the launcher is
  "done" after a successful spawn, `ret` is the exit code of the child that
  exited.

`ReturnsChildCode` alone is not inductive: a step of the loop can produce
"done" from a state it says nothing about. The proof uses a strengthening
`IInv`, the conjunction of:

- `TypeOK`;
- `ChildRunsOnlyInLoop`: a running child exists only while the launcher waits
  in its loop;
- `LoopHasChild`: in the loop with a handle, the child was spawned;
- `ClearedHandleHasCode`: in the loop with a cleared handle, `jvmExitCode` is
  the exited child's code;
- `ReturnsChildCode`.

`IInv` was checked with TLC on the spawn instance before it was proved. The proof takes one step per action, and
under each action one step per conjunct that the action can disturb. The type
lemmas split `TypeOK` into Boolean and control flags, which Zenon handles, and
integer data, which SMT handles.

- `RefinesSpawnedLaunch`: `Spec => ImplementsSpawnedLaunch`. `InitRefines`
  maps the initial state. `StepRefines` maps every step to a SpawnedLaunch
  step or a stutter, using `IInv`. The one step that needs the invariant is
  `LoopExit`: it returns `jvmExitCode`, and `ClearedHandleHasCode` says that
  this is the code of the child that has exited. The abstract spec counts
  launches, so a failed launch is a visible step even when it returns the
  same value as the previous call.

`JNILaunchProofs` proves three theorems about the embedded launch.

- `ExitCodeCorrect`: `Spec => []ExitCodeOfRun`, from `JNIAssumption`. The
  strengthening `JInv` adds:
  - the types;
  - Main.run has not run before "return";
  - `jvmExitCode` is -1 until a run and the run's result after it;
  - `ret` equals `jvmExitCode` once returned;
  - the VM leaves "alive" only in cleanupVM;
  - `jvm` is set exactly when a VM exists;
  - "create" is reached only with VM arguments;
  - an exited VM got `ret`.

  `JInv` was checked with TLC, with both values of `SecondThread`, before it
  was proved. `JInvStep` takes one case per action, and the splash callbacks
  leave the launcher's variables alone.
- `RefinesEmbeddedLaunch`: with `~SecondThread`, `Spec =>
  ImplementsEmbeddedLaunch`. `InitRefines` maps the initial state.
  `StepRefines` maps every step to an EmbeddedLaunch step or a stutter, with
  the same invariant `JInv`. The checks before `main` map to abstract errors
  only on their early-return branch. The splash callbacks are stutters.
- `SplashSetupOnce`: with one Java thread (`Threads = {T}`), `Spec =>
  []SetupAtMostOnce`. The invariant `SInv` says two things. While
  `splashing` is set, the thread is idle and `setups = 1`. Otherwise
  `setups` is 1 exactly when the thread is between the setup and the mark. A
  second thread breaks it, as splash_concurrent_show shows.

`ExitDataProofs` proves `SequentialNoOverflow`: with one Java thread,
`Spec => []NoOverflow`, in UNICODE and ANSI builds alike. It assumes
`ExitDataAssumption`, which includes `CharSize <= PtrSize`, true of every
build. The copy writes `GetStringLength` characters whatever the native
string's length, so the build does not matter. `CapBound` shows that
`((length + 1) * PtrSize) \div CharSize >= length + 1`. The invariant
`RoomForCall` says that between malloc and the terminator, `exitData` names
a buffer with room for the string and its terminator. `StoreKeeps` shows
that a store keeps the buffers' shape and capacities. The race of
exitdata_overflow is what breaks `RoomForCall` with two threads.

`ExitDataProofs` also proves `SequentialExitDataString`: in a UNICODE
build (`Unicode`) with one Java thread, `Spec => []ExitDataIsLastString`.
In a UNICODE build `GetStringChars` gives exactly `GetStringLength`
characters. In an ANSI build `getBytes()` may give more, and the property
fails (see the disagreements above). The strengthening `SInv` adds four
conjuncts to the overflow invariant:

- `BufShape`: every buffer has exactly the positions malloc gave it;
- `exitData` is NULL or an allocated buffer;
- `CallIssued`: from its first call on, the thread's argument is the last
  call issued, and its native string has `GetStringLength` units (the only
  place the UNICODE hypothesis is used);
- `Written`: after the `_tcsncpy`, the buffer holds the call's characters,
  and after the terminator the NUL follows them within the buffer.

`StoreContent` says what a store leaves in each buffer. `SInvString` then
shows that the first NUL of the buffer is the terminator. No copied
character is NUL, because a call's id is at least 1. So the string read back
is the one passed. `CallIssued` makes that call the last one issued.
TLC checked `SInv` on the exitdata instance, and on one
with `PtrSize = CharSize`, where the buffer has no slack, before it was
proved.

`FindVMLibraryProofs` proves two theorems about findVMLibrary, for any
number of fixed locations, any registry content and any command path with a
separator.

- `VInvariant`: `Spec => []VInv`, with no hypothesis. `VInv` says:
  - while probing, the command is not a library and the locations before
    `i` hold none;
  - in the registry half, the command is not a library and no location
    holds one (`NothingBeforeRegistry`);
  - a "command" result comes from a library command, a "location" result is
    the first location holding the library, and a registry or NULL result
    comes only after both failed.
  TLC checked `VInv` on the vmlib instance before it was proved.
  `RegistryStep` covers the three registry actions at once: they leave the
  command, the locations and `i` alone.
- `TryOrder`: on Win32, `Spec => []LayoutFirst`. It follows from `VInv`
  and `LibraryIffSuffix`: on
  Win32, isVMLibrary's test of the text after the last '.' is the spec's
  "ends in the library extension". findVMLibrary is Win32 code, so Win32 is
  the only platform it runs on. On POSIX, the spec compares with case and
  the code without, so the two differ.
- `ClassifiedCorrect`: on Win32, `ClassifiedAsSpec` holds for every command.
  `LastDotOfName` shows that `_tcsrchr(vm, '.')` finds the last part of the
  file name when it is dotted, and otherwise finds no suffix. That step
  needs the greatest dotted component to exist. `MaxExists` gets it from
  the well-foundedness of `<` on the naturals (`WFMin`), without induction.

`PathResolverProofs` proves two theorems, for PATHs and path lists of any
length.

- `CommandResolved`: if PATH has no empty entry, `Spec => []CommandFound`.
  `FInv` is the invariant of the PATH loop:
  - the entries before `idx` do not hold the command (`Missed`);
  - `cmdPath` is the file the previous turn built;
  - at "verify", the `_tstat` of `cmdPath` answers `SpecResolved`.
  `FirstHit` and `NoHit` say what `SpecResolved` is when the loop stops at
  a hit or runs out. An empty entry makes the loop read `cmdPath[-1]`, and
  then test `command` in the working directory or `/command`. The second
  is not what POSIX means by an empty entry. So the theorem, like the
  pathresolver run, excludes empty entries.
- `EverySegmentChecked`: `Spec => []ListChecked`, with no hypothesis.
  Lists with empty leading or middle segments are included, and so are
  lists that end in a separator, for which `ListChecked` says nothing.
  `LInv` says that `result` holds the checked form of each segment before
  `k`, and that a finished loop over a list not ending in a separator has
  passed its last segment. `CheckPathAsSpec` says that checkPath gives
  what spec 4.3's checkPath does.

The following stays with TLC only:

- **Liveness.** `ExitObserved` is outside TLAPS's reach.
- **Version and FindFile.** Version uses recursive operators. FindFile
  reaches them through Version. So no theorem is stated about either, and
  `LatestFound` is model-checked only. TLC checks their properties on
  bounded inputs. Rewriting the parser as recursive functions would not
  change this. `LatestFound` does not hold for every set of names:
  versionreflexive shows that `compareVersions` is not reflexive on some
  names, and a wrapped segment breaks transitivity. A theorem would need a
  hypothesis that `compareVersions` agrees with a total preorder on the
  names, and proving that of the parser is induction over strings. That is
  induction over data, which the installed provers cannot instantiate.
- **The length bound of checkPathList.** The buffer starts at
  `_tcslen(pathList)`, which the model computes as a `FoldLeft` over the
  segments. Any bound on `resultLength` needs that length to be at least
  zero. `FoldLeft` is a recursive function over subsets, and proving its
  sign for every list is again induction over data. pathlist_overflow shows
  by TLC that the terminator can land one past the buffer.
- **The splash window.** No abstract splash specification is refined. The
  code does not follow spec 4.7's lifecycle, even with one thread.
  `takeDownSplash` destroys the hidden window before it was shown.
  `get_splash_handle` returns a destroyed window's handle. A show after
  the takedown sets up the destroyed window again. A mapping onto spec 4.7
  would have to hide these steps, so it would state less than the code
  does.
- **Concurrent set_exit_data.** The two ExitData theorems assume one Java
  thread. With two, both properties fail (exitdata_overflow).

## Not modelled, and why

- `buildCommandLine` and the string conversions (`toNarrow`,
  `newJavaString`, `getVMArgs`) are formatting. No property here depends on
  their output.
- The stripping of trailing separators in findFile is not modelled. Its read
  of `path[-1]` on `""` is listed as a hazard.
- The pointer arithmetic around `_tcsrchr` in findVMLibrary is not modelled.
  It computes `NULL + 1` for a command with no separator, also listed as a
  hazard.
- The thread affinity of `JNIEnv` is not modelled: cleanupVM uses the global
  `env` from a second thread.
- findCommand's Win32 branches are not modelled: quote removal and the
  ".exe" retry. A failing `realpath` is not modelled either. The copy of
  checkPath in eclipseCommon.c is the same code as the one modelled.
- isJ9VM is modelled, but no property checks it. The spec says nothing of
  J9, and its callers are not under src/.
- The AIX version probe and the Carbon glue have no models.

## Next steps

- Model buildCommandLine's quoting against a reference split.
- Write an abstract specification of what the splash code does (not of
  spec 4.7), with the takedown of a hidden window. Show that SplashBridge
  with one thread implements it.
- Model the Win32 branches of findCommand: quote removal and the ".exe"
  retry.
