------------------------ MODULE FindVMLibraryProofs ------------------------
(***************************************************************************)
(* Proofs about findVMLibrary (library/win32/eclipseWin.c) and the         *)
(* classification of library/eclipseUtil.c it relies on.                  *)
(*                                                                         *)
(* The inductive invariant VInv records what the code has established at  *)
(* each point of findVMLibrary: the fixed locations already probed hold   *)
(* no library, a "location" result is the first location that does, and a *)
(* registry or NULL result comes only after every location failed.  It    *)
(* speaks of isVMLibrary, the code's test; the lemma LibraryIffSuffix     *)
(* relates that test to the spec's "ends in the library extension", which *)
(* needs the last '.' of a path (a CHOOSE over the dotted names) to be    *)
(* found, and so the existence of a greatest dotted name (MaxExists).     *)
(***************************************************************************)
EXTENDS FindVMLibrary, WellFoundedInduction, TLAPS

PCs == {"start", "probe", "regopen", "current", "enum", "done"}

(* The registry half of findVMLibrary, before it has returned. *)
InRegistry == pc \in {"regopen", "current", "enum"}

(* Nothing before the registry found the library: the command is not a   *)
(* library and no fixed location holds one.                               *)
NothingBeforeRegistry ==
  command # <<>> => ~IsVMLibrary(command) /\ present = {}

(* The inductive invariant of findVMLibrary. *)
VInv ==
  /\ pc \in PCs
  /\ command \in Commands \cup {<<>>}
  /\ present \in SUBSET (1..NumLocations)
  /\ i \in 1..(NumLocations + 1)
  /\ pc # "done" => result = NULL
  /\ pc = "start" => i = 1
  /\ pc = "probe" =>
       /\ command # <<>> /\ ~IsVMLibrary(command)
       /\ \A l \in 1..(i - 1) : l \notin present
  /\ InRegistry => NothingBeforeRegistry
  /\ pc = "done" =>
       \/ result = Found("command", 0, NoKey) /\ command # <<>>
            /\ IsVMLibrary(command)
       \/ /\ result = Found("location", result.loc, NoKey)
          /\ command # <<>> /\ ~IsVMLibrary(command)
          /\ result.loc \in present
          /\ \A l \in 1..(result.loc - 1) : l \notin present
       \/ result.kind \in {"registry", "null"} /\ NothingBeforeRegistry

-----------------------------------------------------------------------------
(* A non-empty set of numbers below a bound has a greatest element (the   *)
(* last '.' of a path exists when the path has one).                      *)
LEMMA MaxExists ==
  ASSUME NEW S \in SUBSET Nat, NEW n \in Nat, S \subseteq 0..n, S # {}
  PROVE  \E m \in S : \A k \in S : k <= m
<1> DEFINE T == {n - x : x \in S}
<1>1. T \subseteq Nat /\ T # {}
  <2>1. T \subseteq Nat BY SMT
  <2>2. T # {} BY Zenon
  <2> QED BY <2>1, <2>2
<1>2. PICK y \in T : \A z \in T : ~(<<z, y>> \in OpToRel(<, Nat))
  BY <1>1, NatLessThanWellFounded, WFMin
<1>3. PICK m \in S : y = n - m BY <1>2
<1>4. \A k \in S : k <= m
  <2> TAKE k \in S
  <2>1. n - k \in T /\ n - k \in Nat /\ n - m \in Nat OBVIOUS
  <2>2. ~(<<n - k, n - m>> \in OpToRel(<, Nat)) BY <2>1, <1>2, <1>3
  <2>3. ~(n - k < n - m) BY <2>1, <2>2 DEF OpToRel
  <2> QED BY <2>3
<1> QED BY <1>4

(* _tcsrchr(vm, '.') finds the last part of the file name when the file  *)
(* name is dotted, and no suffix at all (none, or one inside a directory) *)
(* when it is not.                                                        *)
LEMMA LastDotOfName ==
  ASSUME NEW p \in Seq(Seq(STRING)), Len(p) >= 1
  PROVE  /\ Len(p[Len(p)]) > 1 => LastDot(p) = p[Len(p)][Len(p[Len(p)])]
         /\ Len(p[Len(p)]) <= 1 => LastDot(p) \in {"none", "dir"}
<1> DEFINE dotted == {x \in DOMAIN p : Len(p[x]) > 1}
           last   == CHOOSE x \in dotted : \A y \in dotted : y <= x
<1>1. dotted \subseteq 1..Len(p) OBVIOUS
<1>2. dotted # {} => last \in dotted /\ \A y \in dotted : y <= last
  <2> HAVE dotted # {}
  <2>1. dotted \in SUBSET Nat /\ Len(p) \in Nat /\ dotted \subseteq 0..Len(p)
    BY <1>1
  <2>2. \E m \in dotted : \A k \in dotted : k <= m
    BY <2>1, MaxExists
  <2> QED BY <2>2
<1>3. ASSUME Len(p[Len(p)]) > 1 PROVE LastDot(p) = p[Len(p)][Len(p[Len(p)])]
  <2>1. Len(p) \in dotted BY <1>3
  <2>2. last = Len(p) BY <1>1, <1>2, <2>1
  <2> QED BY <2>1, <2>2 DEF LastDot
<1>4. ASSUME Len(p[Len(p)]) <= 1 PROVE LastDot(p) \in {"none", "dir"}
  <2>1. CASE dotted = {} BY <2>1 DEF LastDot
  <2>2. CASE dotted # {}
    <3>1. last \in dotted BY <1>2, <2>2
    <3>2. last < Len(p) BY <1>1, <1>4, <3>1
    <3> QED BY <2>2, <3>2 DEF LastDot
  <2> QED BY <2>1, <2>2
<1> QED BY <1>3, <1>4

(* On Win32, isVMLibrary's test of the text after the last '.' is the     *)
(* spec's test that the file name ends in the library extension.          *)
LEMMA LibraryIffSuffix ==
  ASSUME Platform = "win32", NEW p \in Seq(Seq(STRING)), Len(p) >= 1
  PROVE  IsVMLibrary(p) <=> EndsInLibSuffix(p)
<1> DEFINE n == p[Len(p)]
<1>1. CASE Len(n) > 1
  <2>1. LastDot(p) = n[Len(n)] BY <1>1, LastDotOfName
  <2>2. Fold(n[Len(n)]) = "dll" => n[Len(n)] \notin {"none", "dir"}
    BY DEF Fold
  <2> QED BY <1>1, <2>1, <2>2 DEF IsVMLibrary, EndsInLibSuffix, LibSuffix
<1>2. CASE Len(n) <= 1
  <2>1. LastDot(p) \in {"none", "dir"} BY <1>2, LastDotOfName
  <2> QED BY <1>2, <2>1 DEF IsVMLibrary, EndsInLibSuffix
<1> QED BY <1>1, <1>2

-----------------------------------------------------------------------------
(* The bound of the fixed-location loop is a number. *)
LEMMA NumLocationsNat == NumLocations \in Nat
BY FindVMLibraryAssumption

LEMMA InitVInv == Init => VInv
<1> SUFFICES ASSUME Init PROVE VInv
  OBVIOUS
<1>1. /\ pc = "start" /\ command \in Commands \cup {<<>>}
      /\ present \in SUBSET (1..NumLocations) /\ i = 1 /\ result = NULL
  BY DEF Init
<1> QED BY <1>1, NumLocationsNat DEF VInv, PCs, InRegistry

(* Every step of findVMLibrary keeps VInv. *)
(* A step of the registry half keeps VInv when it stays in the registry  *)
(* with no result, or returns a registry result or NULL.                 *)
LEMMA RegistryStep ==
  ASSUME VInv, InRegistry, UNCHANGED <<command, present, i>>,
         \/ pc' \in {"current", "enum"} /\ result' = NULL
         \/ pc' = "done" /\ result'.kind \in {"registry", "null"}
  PROVE  VInv'
<1>1. NothingBeforeRegistry /\ result = NULL BY DEF VInv, InRegistry
<1>2. NothingBeforeRegistry' BY <1>1 DEF NothingBeforeRegistry
<1> QED BY <1>2 DEF VInv, PCs, InRegistry

(* Every step of findVMLibrary keeps VInv. *)
LEMMA VInvStep == VInv /\ [Next]_vmlVars => VInv'
<1> SUFFICES ASSUME VInv, [Next]_vmlVars PROVE VInv'
  OBVIOUS
<1> USE NumLocationsNat
<1>1. CASE Start
  <2>1. pc = "start" /\ i = 1 /\ result = NULL BY <1>1 DEF Start, VInv
  <2>2. UNCHANGED <<command, present, i>> BY <1>1 DEF Start
  <2>3. CASE command # <<>> /\ IsVMLibrary(command)
    <3>1. pc' = "done" /\ result' = Found("command", 0, NoKey)
      BY <1>1, <2>3 DEF Start
    <3> QED BY <2>1, <2>2, <2>3, <3>1 DEF VInv, PCs, InRegistry
  <2>4. CASE ~(command # <<>> /\ IsVMLibrary(command))
    <3>1. /\ pc' = IF command # <<>> THEN "probe" ELSE "regopen"
          /\ result' = result
      BY <1>1, <2>4 DEF Start
    <3> QED BY <2>1, <2>2, <2>4, <3>1
            DEF VInv, PCs, InRegistry, NothingBeforeRegistry
  <2> QED BY <2>3, <2>4
<1>2. CASE Probe
  <2>1. /\ pc = "probe" /\ result = NULL
        /\ command # <<>> /\ ~IsVMLibrary(command)
        /\ \A l \in 1..(i - 1) : l \notin present
        /\ i \in 1..(NumLocations + 1)
        /\ present \subseteq 1..NumLocations
    BY <1>2 DEF Probe, VInv
  <2>2. UNCHANGED <<command, present>> BY <1>2 DEF Probe
  <2>3. CASE i > NumLocations
    <3>1. pc' = "regopen" /\ UNCHANGED <<i, result>> BY <1>2, <2>3 DEF Probe
    <3>2. present = {} BY <2>1, <2>3
    <3> QED BY <2>1, <2>2, <3>1, <3>2
            DEF VInv, PCs, InRegistry, NothingBeforeRegistry
  <2>4. CASE i <= NumLocations /\ i \in present
    <3>1. pc' = "done" /\ result' = Found("location", i, NoKey) /\ i' = i
      BY <1>2, <2>1, <2>4 DEF Probe
    <3>2. result'.loc = i /\ result' = Found("location", result'.loc, NoKey)
      BY <3>1 DEF Found
    <3> QED BY <2>1, <2>2, <2>4, <3>1, <3>2 DEF VInv, PCs, InRegistry
  <2>5. CASE i <= NumLocations /\ i \notin present
    <3>1. i' = i + 1 /\ pc' = pc /\ result' = result BY <1>2, <2>1, <2>5 DEF Probe
    <3>2. \A l \in 1..(i' - 1) : l \notin present BY <2>1, <2>5, <3>1
    <3> QED BY <2>1, <2>2, <2>5, <3>1, <3>2 DEF VInv, PCs, InRegistry
  <2> QED BY <2>1, <2>3, <2>4, <2>5
<1>3. CASE RegOpen
  <2>1. InRegistry /\ result = NULL BY <1>3 DEF RegOpen, VInv, InRegistry
  <2>2. NULL.kind = "null" BY DEF NULL, Found
  <2> QED BY <1>3, <2>1, <2>2, RegistryStep DEF RegOpen
<1>4. CASE QueryCurrent
  <2>1. InRegistry /\ result = NULL BY <1>4 DEF QueryCurrent, VInv, InRegistry
  <2>2. Found("registry", 0, current).kind = "registry" BY DEF Found
  <2> QED BY <1>4, <2>1, <2>2, RegistryStep DEF QueryCurrent
<1>5. CASE EnumKey
  <2>1. InRegistry /\ result = NULL BY <1>5 DEF EnumKey, VInv, InRegistry
  <2>2. NULL.kind = "null" /\ Found("registry", 0, keys[j]).kind = "registry"
    BY DEF NULL, Found
  <2> QED BY <1>5, <2>1, <2>2, RegistryStep DEF EnumKey
<1>6. CASE UNCHANGED vmlVars
  BY <1>6 DEF vmlVars, VInv, PCs, InRegistry, NothingBeforeRegistry
<1> QED BY <1>1, <1>2, <1>3, <1>4, <1>5, <1>6 DEF Next

(* findVMLibrary's state is always one VInv describes: the locations    *)
(* probed so far hold no library, a fixed-location result is the first  *)
(* location that holds one, and the registry is opened only when the    *)
(* command is not a library and no location holds one.                 *)
THEOREM VInvariant == Spec => []VInv
BY InitVInv, VInvStep, PTL DEF Spec

(* A command of Commands is a path with a file name. *)
LEMMA CommandIsPath ==
  ASSUME NEW c \in Commands
  PROVE  c \in Seq(Seq(STRING)) /\ Len(c) >= 1
BY FindVMLibraryAssumption

(* On Win32, in a state VInv describes, LayoutFirst holds. *)
LEMMA VInvResults ==
  ASSUME Platform = "win32", VInv
  PROVE  LayoutFirst
<1> SUFFICES ASSUME pc = "done", command # <<>>
             PROVE  LayoutFirst
  BY DEF LayoutFirst
<1>1. command \in Commands BY DEF VInv
<1>2. IsVMLibrary(command) <=> EndsInLibSuffix(command)
  BY <1>1, CommandIsPath, LibraryIffSuffix
<1>4. ASSUME ~EndsInLibSuffix(command) PROVE LayoutFirst
  <2>1. ~IsVMLibrary(command) BY <1>2, <1>4
  <2>2. CASE present = {}
    BY <2>1, <2>2 DEF VInv, LayoutFirst, Found
  <2>3. CASE present # {}
    <3>1. /\ result = Found("location", result.loc, NoKey)
          /\ result.loc \in present
          /\ \A l \in 1..(result.loc - 1) : l \notin present
      BY <2>1, <2>3 DEF VInv, NothingBeforeRegistry, Found
    <3> DEFINE loc == result.loc
    <3>2. present \subseteq 1..NumLocations /\ loc \in 1..NumLocations
      BY <3>1 DEF VInv
    <3>3. \A m \in present : loc <= m BY <3>1, <3>2, NumLocationsNat
    <3>5. \A x \in present : (\A m \in present : x <= m) => x = loc
      BY <3>1, <3>2, <3>3, NumLocationsNat
    <3>4. (CHOOSE l \in present : \A m \in present : l <= m) = loc
      BY <3>1, <3>3, <3>5
    <3> QED BY <1>4, <2>3, <3>1, <3>4 DEF LayoutFirst
  <2> QED BY <2>2, <2>3
<1> QED BY <1>4 DEF LayoutFirst

(* On Win32, when the command does not name the library, findVMLibrary   *)
(* tries the fixed locations in order before the registry: Spec 4.5's    *)
(* try-order holds of every behaviour.                                   *)
THEOREM TryOrder ==
  ASSUME Platform = "win32"
  PROVE  Spec => []LayoutFirst
<1>1. VInv => LayoutFirst BY VInvResults
<1> QED BY <1>1, VInvariant, PTL

(* On Win32, checkProvidedVMType and isVMLibrary classify every command  *)
(* as Spec 4.4's classify does: a directory, then the library extension  *)
(* (without case), then ".ee", else other, looking only at the last '.'  *)
(* of the file name.                                                     *)
THEOREM ClassifiedCorrect ==
  ASSUME Platform = "win32"
  PROVE  ClassifiedAsSpec
<1> SUFFICES ASSUME NEW c \in Commands, NEW d \in BOOLEAN
             PROVE  /\ CheckProvidedVMType(c, d) = SpecKind(c, d)
                    /\ IsVMLibrary(c) <=> SpecKind(c, FALSE) = "VM_LIBRARY"
  BY DEF ClassifiedAsSpec
<1>1. c \in Seq(Seq(STRING)) /\ Len(c) >= 1 /\ c # <<>> BY CommandIsPath
<1> DEFINE n == c[Len(c)]
           x == n[Len(n)]
<1>2. n \in Seq(STRING) /\ Len(n) \in Nat BY <1>1
<1>3. IsVMLibrary(c) <=> SpecKind(c, FALSE) = "VM_LIBRARY"
  <2>1. IsVMLibrary(c) <=> EndsInLibSuffix(c) BY <1>1, LibraryIffSuffix
  <2>2. EndsInLibSuffix(c) => SpecKind(c, FALSE) = "VM_LIBRARY"
    BY DEF SpecKind
  <2>3. ~EndsInLibSuffix(c) => SpecKind(c, FALSE) \in {"VM_EE_PROPS", "VM_OTHER"}
    BY DEF SpecKind
  <2> QED BY <2>1, <2>2, <2>3
<1>4. CheckProvidedVMType(c, d) = SpecKind(c, d)
  <2>1. CASE d
    BY <1>1, <2>1 DEF CheckProvidedVMType, SpecKind
  <2>2. CASE ~d /\ Len(n) > 1
    <3>1. LastDot(c) = x BY <1>1, <2>2, LastDotOfName
    <3>2. EndsInLibSuffix(c) <=> Fold(x) = "dll"
      BY <2>2 DEF EndsInLibSuffix, LibSuffix
    <3>3. SpecKind(c, d) = IF Fold(x) = "dll" THEN "VM_LIBRARY"
                           ELSE IF Fold(x) = "ee" THEN "VM_EE_PROPS"
                           ELSE "VM_OTHER"
      BY <2>2, <3>2 DEF SpecKind
    <3>4. CASE x \in {"none", "dir"}
      <4>1. Fold(x) = x BY <3>4 DEF Fold
      <4>2. CheckProvidedVMType(c, d) = "VM_OTHER"
        BY <1>1, <2>2, <3>1, <3>4 DEF CheckProvidedVMType
      <4> QED BY <3>3, <3>4, <4>1, <4>2
    <3>5. CASE x \notin {"none", "dir"}
      <4>1. CheckProvidedVMType(c, d) =
              IF Fold(x) = "dll" THEN "VM_LIBRARY"
              ELSE IF Fold(x) = "ee" THEN "VM_EE_PROPS"
              ELSE "VM_OTHER"
        BY <1>1, <2>2, <3>1, <3>5 DEF CheckProvidedVMType, LibSuffix
      <4> QED BY <3>3, <4>1
    <3> QED BY <3>4, <3>5
  <2>3. CASE ~d /\ Len(n) <= 1
    <3>1. LastDot(c) \in {"none", "dir"} BY <1>1, <2>3, LastDotOfName
    <3>2. CheckProvidedVMType(c, d) = "VM_OTHER"
      BY <1>1, <2>3, <3>1 DEF CheckProvidedVMType
    <3>3. SpecKind(c, d) = "VM_OTHER"
      BY <1>2, <2>3 DEF SpecKind, EndsInLibSuffix
    <3> QED BY <3>2, <3>3
  <2> QED BY <1>2, <2>1, <2>2, <2>3
<1> QED BY <1>3, <1>4
=============================================================================
