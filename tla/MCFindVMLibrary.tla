-------------------------- MODULE MCFindVMLibrary --------------------------
(* Registry subkeys for findVMLibrary; names are character codes. *)
EXTENDS FindVMLibrary

\* "1.3", "1.4" and "1.5"
K13 == <<49, 46, 51>>
K14 == <<49, 46, 52>>
K15 == <<49, 46, 53>>

\* subkeys whose names have the same length, with or without a RuntimeLib
MCKeysSameLength ==
  {[name |-> K13, lib |-> TRUE], [name |-> K14, lib |-> FALSE],
   [name |-> K15, lib |-> TRUE]}

\* java commands: an executable under a dotted directory, the library in
\* lower and upper case, a descriptor, and a name whose last '.' is in a
\* directory
MCCommands ==
  {<<<<"">>, <<"jre1", "8">>, <<"bin">>, <<"javaw", "exe">>>>,
   <<<<"">>, <<"jre">>, <<"bin">>, <<"jvm", "dll">>>>,
   <<<<"">>, <<"jre">>, <<"bin">>, <<"JVM", "DLL">>>>,
   <<<<"">>, <<"jre">>, <<"lib">>, <<"jre", "ee">>>>,
   <<<<"">>, <<"jre1", "8">>, <<"bin">>, <<"java">>>>}
=============================================================================
