--------------------------- MODULE FindVMLibrary ---------------------------
(***************************************************************************)
(* findVMLibrary(command) and checkVMRegistryKey of                        *)
(* library/win32/eclipseWin.c: the JVM library is looked for first at the  *)
(* fixed locations jvmLocations[] relative to the java command, then in    *)
(* the registry key "Software\JavaSoft\Java Runtime Environment": its      *)
(* CurrentVersion subkey first, then every subkey RegEnumKeyEx returns     *)
(* whose name is not below "1.4", taking the first whose RuntimeLib value  *)
(* names an existing file.                                                 *)
(*                                                                         *)
(* A location is its index in jvmLocations[]; a registry subkey is a       *)
(* record of its name (a sequence of character codes) and whether its      *)
(* RuntimeLib names a regular file.  The registry's content and the order  *)
(* in which RegEnumKeyEx returns the subkeys are chosen freely.            *)
(***************************************************************************)
EXTENDS Integers, SequencesExt, FiniteSets, RuntimeClassifier

CONSTANTS
  Commands,     \* the java commands findVMLibrary may be given (paths)
  NumLocations, \* entries of jvmLocations[] (10 in the code)
  Keys,         \* the registry subkeys that may be installed
  MaxKeys,      \* bound on the subkeys installed at once
  MAX_PATH      \* the buffer size passed to RegEnumKeyEx, in characters

ASSUME FindVMLibraryAssumption ==
  \* a command has a separator: with none, line 164 computes NULL + 1
  /\ \A c \in Commands : c \in Seq(Seq(STRING)) /\ Len(c) > 1
  /\ NumLocations \in Nat
  /\ MaxKeys \in Nat
  /\ MAX_PATH \in Nat \ {0}
  /\ \A k \in Keys : k.lib \in BOOLEAN /\ Len(k.name) < MAX_PATH

(* "1.4" as character codes. *)
MinVersion == <<49, 46, 52>>

NoKey == [name |-> <<>>, lib |-> FALSE]

(* What findVMLibrary returns: command itself, path at a fixed location,  *)
(* the RuntimeLib of a registry subkey, or NULL.                          *)
Found(kind, loc, key) == [kind |-> kind, loc |-> loc, key |-> key]

NULL == Found("null", 0, NoKey)

(* _tcsncmp(_T("1.4"), name, 3) <= 0: the first three characters of name  *)
(* are not below "1.4" (a shorter name compares with its terminator).     *)
NotBelowMin(name) ==
  LET n == IF Len(name) < 3 THEN Len(name) ELSE 3
      a == SubSeq(name, 1, n)
      below == \E i \in 1..3 :
                 /\ \A k \in 1..(i - 1) : k <= n /\ a[k] = MinVersion[k]
                 /\ i > n \/ a[i] < MinVersion[i]
  IN ~below

VARIABLES
  pc,           \* "start", "probe", "regopen", "current", "enum", "done"
  command,      \* the command path, <<>> for NULL
  present,      \* the fixed locations at which the library exists
  regPresent,   \* does RegOpenKeyEx of the JRE key succeed?
  current,      \* the CurrentVersion subkey, or NoKey when the value is absent
  keys,         \* the subkeys in the order RegEnumKeyEx returns them
  i,            \* next index into jvmLocations[]
  j,            \* next index for RegEnumKeyEx
  length,       \* DWORD length, in/out argument of RegEnumKeyEx
  result        \* what findVMLibrary returned (a Found record)

vmlVars == <<pc, command, present, regPresent, current, keys, i, j,
             length, result>>

Init ==
  /\ pc = "start"
  /\ command \in Commands \cup {<<>>}
  /\ present \in SUBSET (1..NumLocations)
  /\ regPresent \in BOOLEAN
  /\ current \in Keys \cup {NoKey}
  /\ keys \in UNION {SetToSeqs(s) : s \in {s \in SUBSET Keys : Cardinality(s) <= MaxKeys}}
  /\ i = 1
  /\ j = 1
  /\ length = MAX_PATH
  /\ result = NULL

(* command != NULL: return it when it is the library already, else start  *)
(* probing base/jvmLocations[i]/vmLibrary.  A NULL command goes straight  *)
(* to the registry.                                                       *)
Start ==
  /\ pc = "start"
  /\ IF command # <<>> /\ IsVMLibrary(command)
       THEN pc' = "done" /\ result' = Found("command", 0, NoKey)
       ELSE /\ pc' = IF command # <<>> THEN "probe" ELSE "regopen"
            /\ UNCHANGED result
  /\ UNCHANGED <<command, present, regPresent, current, keys, i, j, length>>

(* A variant of Probe whose loop stops one location early. *)
ProbeShort ==
  /\ pc = "probe"
  /\ IF i >= NumLocations
       THEN pc' = "regopen" /\ UNCHANGED <<i, result>>
     ELSE IF i \in present
       THEN pc' = "done" /\ result' = Found("location", i, NoKey) /\ UNCHANGED i
     ELSE i' = i + 1 /\ UNCHANGED <<pc, result>>
  /\ UNCHANGED <<command, present, regPresent, current, keys, j, length>>

(* _tstat(path) of the next fixed location: a regular file is returned. *)
Probe ==
  /\ pc = "probe"
  /\ IF i > NumLocations
       THEN pc' = "regopen" /\ UNCHANGED <<i, result>>
     ELSE IF i \in present
       THEN pc' = "done" /\ result' = Found("location", i, NoKey) /\ UNCHANGED i
     ELSE i' = i + 1 /\ UNCHANGED <<pc, result>>
  /\ UNCHANGED <<command, present, regPresent, current, keys, j, length>>

(* RegOpenKeyEx of the JRE key; on failure findVMLibrary returns NULL. *)
RegOpen ==
  /\ pc = "regopen"
  /\ pc' = IF regPresent THEN "current" ELSE "done"
  /\ UNCHANGED <<command, present, regPresent, current, keys, i, j,
                 length, result>>

(* RegQueryValueEx of CurrentVersion, and checkVMRegistryKey on it; then   *)
(* j = 0 and length = MAX_PATH for the enumeration.                        *)
QueryCurrent ==
  /\ pc = "current"
  /\ IF current # NoKey /\ current.lib
       THEN pc' = "done" /\ result' = Found("registry", 0, current)
       ELSE pc' = "enum" /\ UNCHANGED result
  /\ length' = MAX_PATH
  /\ UNCHANGED <<command, present, regPresent, current, keys, i, j>>

(* RegEnumKeyEx(jreKey, j++, keyName, &length, ...): it fails with         *)
(* ERROR_NO_MORE_ITEMS after the last subkey, and with ERROR_MORE_DATA     *)
(* when the name and its terminator do not fit in length characters; it    *)
(* sets length to the length of the name it returns.  The loop never      *)
(* resets length.                                                          *)
EnumKey ==
  /\ pc = "enum"
  /\ j' = j + 1
  /\ IF j > Len(keys) \/ Len(keys[j].name) >= length
       THEN pc' = "done" /\ UNCHANGED <<length, result>>
       ELSE /\ length' = Len(keys[j].name)
            /\ IF NotBelowMin(keys[j].name) /\ keys[j].lib
                 THEN pc' = "done" /\ result' = Found("registry", 0, keys[j])
                 ELSE UNCHANGED <<pc, result>>
  /\ UNCHANGED <<command, present, regPresent, current, keys, i>>

Next == Start \/ Probe \/ RegOpen \/ QueryCurrent \/ EnumKey

Spec == Init /\ [][Next]_vmlVars

-----------------------------------------------------------------------------

Usable(k) == NotBelowMin(k.name) /\ k.lib

(* Spec 4.4: a path is a library when its file name ends in the          *)
(* platform's shared-library extension (compared as the platform compares *)
(* file names: without case on Win32).                                    *)
EndsInLibSuffix(p) ==
  LET n == p[Len(p)]
  IN Len(n) > 1 /\ (IF Platform = "win32" THEN Fold(n[Len(n)]) ELSE n[Len(n)]) = LibSuffix

(* Spec 4.4: classify gives Directory for a directory, else Library for   *)
(* the shared-library extension, DescriptorFile for ".ee", else Other.    *)
SpecKind(p, isDir) ==
  LET n == p[Len(p)]
      ext == IF Len(n) > 1 THEN Fold(n[Len(n)]) ELSE "none"
  IN IF isDir                  THEN "VM_DIRECTORY"
     ELSE IF EndsInLibSuffix(p) THEN "VM_LIBRARY"
     ELSE IF ext = "ee"         THEN "VM_EE_PROPS"
     ELSE "VM_OTHER"

(* Spec 4.4: checkProvidedVMType classifies every candidate path as the   *)
(* spec's classify does, whether or not it names a directory, and         *)
(* isVMLibrary agrees with it on what is a library.                       *)
ClassifiedAsSpec ==
  \A c \in Commands, d \in BOOLEAN :
    /\ CheckProvidedVMType(c, d) = SpecKind(c, d)
    /\ IsVMLibrary(c) <=> SpecKind(c, FALSE) = "VM_LIBRARY"

(* Spec 4.5, try-order: when the command is not the library itself, the   *)
(* first fixed location holding the library is returned, and the registry *)
(* is consulted only when no fixed location holds it (findVMLibrary's     *)
(* jvmLocations loop before RegOpenKeyEx).                                *)
LayoutFirst ==
  pc = "done" /\ command # <<>> /\ ~EndsInLibSuffix(command) =>
    IF present = {}
      THEN result.kind # "location"
      ELSE result = Found("location", CHOOSE l \in present : \A m \in present : l <= m, NoKey)

(* Spec 4.5: findVMLibrary returns NULL only when neither a fixed         *)
(* location, nor CurrentVersion, nor any subkey not below 1.4 yields a    *)
(* library (the RegEnumKeyEx loop of findVMLibrary).                      *)
RegistryFound ==
  pc = "done" /\ result = NULL =>
    /\ command # <<>> => present = {}
    /\ regPresent => ~current.lib /\ \A k \in ToSet(keys) : ~Usable(k)

=============================================================================
