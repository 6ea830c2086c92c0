------------------------------ MODULE FindFile ------------------------------
(***************************************************************************)
(* findFile(path, prefix) of library/eclipseCommon.c: scan a directory    *)
(* and keep the entry prefix_version with the highest version.  On POSIX  *)
(* readdir enumerates every entry and filter() selects the candidates; on *)
(* Win32 FindFirstFile/FindNextFile enumerate the entries matching        *)
(* "prefix_*" and no filter is applied.  Each comparison is a call of     *)
(* compareVersions (module Version).  The order of enumeration is the     *)
(* file system's and is chosen freely.                                    *)
(*                                                                         *)
(* The prefix is the one-token string <<PrefixP>> (prefixLength 1), so  *)
(* the version of a candidate, candidate + prefixLength + 1, starts at    *)
(* token 3.  Building the result path from path and candidate is left    *)
(* out: the result is the chosen entry name.                              *)
(***************************************************************************)
EXTENDS Version, FiniteSets

CONSTANTS
  Platform,     \* "posix" or "win32"
  Names,        \* the entry names a directory may hold
  MaxEntries    \* bound on the entries of the scanned directory

ASSUME FindFileAssumption ==
  /\ Platform \in {"posix", "win32"}
  /\ MaxEntries \in Nat

None == <<>>

Prefix == PrefixP

(* Index of the first t in s, 0 if none (strchr). *)
FirstIndex(s, t) ==
  IF \E i \in 1..Len(s) : s[i] = t
    THEN CHOOSE i \in 1..Len(s) : s[i] = t /\ \A j \in 1..(i - 1) : s[j] # t
    ELSE 0

(* candidate + prefixLength + 1 *)
VersionOf(name) == SubSeq(name, 3, Len(name))

(* A variant of filter that accepts a second '_' wherever it comes. *)
FilterNoDotCheck(name) ==
  /\ Len(name) > 1
  /\ name[1] = Prefix
  /\ name[2] = Underscore

(* filter(dir): longer than the prefix, starts with prefix and '_', and   *)
(* a second '_' after it comes only after a '.'.                          *)
Filter(name) ==
  /\ Len(name) > 1
  /\ name[1] = Prefix
  /\ name[2] = Underscore
  /\ LET c1 == FirstIndex(VersionOf(name), Underscore)
         c2 == FirstIndex(VersionOf(name), Dot)
     IN c1 # 0 => c2 # 0 /\ c2 < c1

(* The entries the scan compares: filter() on POSIX, the pattern          *)
(* "prefix_*" of FindFirstFile on Win32.                                  *)
Candidate(name) ==
  IF Platform = "posix"
    THEN Filter(name)
    ELSE Len(name) >= 2 /\ name[1] = Prefix /\ name[2] = Underscore

VARIABLES
  pc,         \* "stat", "open", "scan", "notfound" or "done"
  exists,     \* does path exist (_tstat succeeds)?
  dir,        \* the entries of the directory
  order,      \* the order in which the system enumerates them
  pos,        \* index in order of the next entry to read
  candidate,  \* the best entry so far, or None
  result      \* what findFile returned

ffVars == <<pc, exists, dir, order, pos, candidate, result>>

Init ==
  /\ pc = "stat"
  /\ exists \in BOOLEAN
  /\ dir \in {d \in SUBSET Names : Cardinality(d) <= MaxEntries}
  /\ ~exists => dir = {}
  /\ order \in SetToSeqs(dir)
  /\ pos = 1
  /\ candidate = None
  /\ result = None

(* _tstat(path): a missing path returns NULL.  On Win32 the scan starts   *)
(* with FindFirstFile; on POSIX opendir comes first.                      *)
Stat ==
  /\ pc = "stat"
  /\ pc' = IF ~exists THEN "notfound"
           ELSE IF Platform = "posix" THEN "open" ELSE "scan"
  /\ UNCHANGED <<exists, dir, order, pos, candidate, result>>

(* opendir(path) may fail on an existing path (EACCES, EMFILE): NULL. *)
OpenDir ==
  /\ pc = "open"
  /\ pc' \in {"scan", "notfound"}
  /\ UNCHANGED <<exists, dir, order, pos, candidate, result>>

(* The next entry: the first candidate is kept, a later one replaces the  *)
(* kept one when compareVersions(kept, entry) < 0.                        *)
ReadEntry ==
  /\ pc = "scan"
  /\ pos <= Len(order)
  /\ LET e == order[pos] IN
       IF ~Candidate(e) THEN UNCHANGED candidate
       ELSE IF candidate = None THEN candidate' = e
       ELSE \E r \in CompareVersions(VersionOf(candidate), VersionOf(e)) :
              candidate' = IF r < 0 THEN e ELSE candidate
  /\ pos' = pos + 1
  /\ UNCHANGED <<pc, exists, dir, order, result>>

(* The enumeration is over: return path/candidate, or NULL. *)
Finish ==
  /\ pc = "scan"
  /\ pos > Len(order)
  /\ result' = candidate
  /\ pc' = "done"
  /\ UNCHANGED <<exists, dir, order, pos, candidate>>

Next == Stat \/ OpenDir \/ ReadEntry \/ Finish

Spec == Init /\ [][Next]_ffVars

-----------------------------------------------------------------------------

(* Spec 4.2: the entries findLatest retains begin with prefix and '_', and *)
(* after that marker no '_' comes before a '.'.                            *)
Retained(name) ==
  /\ Len(name) >= 2
  /\ SubSeq(name, 1, 2) = <<Prefix, Underscore>>
  /\ \A i \in 3..Len(name) :
       name[i] = Underscore => \E j \in 3..(i - 1) : name[j] = Dot

(* A scan that ran to its end returns a retained entry of the highest     *)
(* version (spec 4.1 order), and NULL exactly when no entry is retained   *)
(* (findFile's readdir loop with filter and compareVersions).             *)
LatestFound ==
  pc = "done" =>
    IF \E e \in dir : Retained(e)
      THEN /\ result # None
           /\ Retained(result)
           /\ \A e \in dir : Retained(e) => RefCompare(VersionOf(result), VersionOf(e)) >= 0
      ELSE result = None

Versions == {VersionOf(n) : n \in dir}

(* compareVersions(v, v) is 0 for the version of every entry findFile may *)
(* compare (spec 5, reflexivity).                                         *)
VersionReflexive == \A v \in Versions : CompareVersions(v, v) = {0}

(* compareVersions is transitive on the versions of the entries findFile  *)
(* compares (spec 5): a < b and b < c give a < c.                         *)
VersionTransitive ==
  \A a, b, c \in Versions :
    -1 \in CompareVersions(a, b) /\ -1 \in CompareVersions(b, c) =>
      CompareVersions(a, c) = {-1}

=============================================================================
