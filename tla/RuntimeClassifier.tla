------------------------- MODULE RuntimeClassifier -------------------------
(***************************************************************************)
(* isVMLibrary, checkProvidedVMType and isJ9VM of library/eclipseUtil.c.   *)
(*                                                                         *)
(* A path is a sequence of names, one per component between separators;  *)
(* an absolute path starts with the empty name.  A name is the sequence   *)
(* of its parts between '.' characters: "libjvm.so" is <<"libjvm", "so">>, *)
(* "java" is <<"java">>.  That is all of a string the three functions     *)
(* look at: where its last separator and its last '.' are, and what       *)
(* follows them.                                                          *)
(***************************************************************************)
EXTENDS Integers, Sequences

CONSTANT
  Platform      \* "posix" or "win32"

ASSUME RuntimeClassifierAssumption == Platform \in {"posix", "win32"}

(* _tcsicmp against the fixed lower-case words of these functions: the    *)
(* upper-case spellings the models use fold to them.                      *)
Fold(s) ==
  CASE s = "SO" -> "so" [] s = "DLL" -> "dll" [] s = "EE" -> "ee"
    [] s = "J9" -> "j9" [] s = "J9VM" -> "j9vm" [] OTHER -> s

(* The shared-library suffix of the platform, without its dot. *)
LibSuffix == IF Platform = "win32" THEN "dll" ELSE "so"

(* _tcsrchr(vm, '.'): the text from the last '.' of the path on.  "none"  *)
(* when the path has no '.'; "dir" when the last '.' is in a directory    *)
(* name, so that a separator follows it and no suffix can match.          *)
LastDot(p) ==
  LET dotted == {i \in DOMAIN p : Len(p[i]) > 1}
      last   == CHOOSE i \in dotted : \A j \in dotted : j <= i
  IN IF dotted = {}      THEN "none"
     ELSE IF last < Len(p) THEN "dir"
     ELSE p[last][Len(p[last])]

(* A variant of IsVMLibrary that compares the suffix with case. *)
IsVMLibraryWithCase(p) ==
  /\ p # <<>>
  /\ LastDot(p) \notin {"none", "dir"}
  /\ LastDot(p) = LibSuffix

(* isVMLibrary(vm): the text after the last '.' is the library suffix,    *)
(* compared without case.  The NULL path is the empty sequence.           *)
IsVMLibrary(p) ==
  /\ p # <<>>
  /\ LastDot(p) \notin {"none", "dir"}
  /\ Fold(LastDot(p)) = LibSuffix

(* checkProvidedVMType(vm): a directory first, then the suffix; the      *)
(* code's early returns are tried in order.                              *)
CheckProvidedVMType(p, isDir) ==
  IF p = <<>>                           THEN "VM_NOTHING"
  ELSE IF isDir                         THEN "VM_DIRECTORY"
  ELSE IF LastDot(p) \in {"none", "dir"} THEN "VM_OTHER"
  ELSE IF Fold(LastDot(p)) = LibSuffix  THEN "VM_LIBRARY"
  ELSE IF Fold(LastDot(p)) = "ee"       THEN "VM_EE_PROPS"
  ELSE "VM_OTHER"

(* The name a component denotes, as the string the code compares: the    *)
(* parts joined back; only single-part names are compared with words.     *)
Word(n) == IF Len(n) = 1 THEN Fold(n[1]) ELSE "dotted"

(* isJ9VM(vm): a library is J9 when the directory holding it is named     *)
(* "j9vm" and a separator precedes that directory; anything else is J9    *)
(* when its last component is "j9".                                       *)
IsJ9VM(p) ==
  /\ p # <<>>
  /\ IF IsVMLibrary(p)
       THEN Len(p) > 2 /\ Word(p[Len(p) - 1]) = "j9vm"
       ELSE Word(p[Len(p)]) = "j9"

=============================================================================
