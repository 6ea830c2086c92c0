---------------------------- MODULE PathResolver ----------------------------
(***************************************************************************)
(* findCommand, checkPath and checkPathList of library/eclipseCommon.c     *)
(* (checkPath and checkPathList also in library/eclipseUtil.c), on POSIX.  *)
(* Each behaviour is one call of findCommand or of checkPathList.          *)
(*                                                                         *)
(* findCommand: a file is a location.  "abs" is an absolute command,      *)
(* "rel" the file cwd/command for a command with a separator, "cwd" the    *)
(* file command in the working directory, "root" the file /command, and a *)
(* directory of PATH the file dir/command.  A PATH entry is a directory,   *)
(* "." or the empty entry "".  Which locations hold the command as a      *)
(* regular file is chosen freely; resolveSymlinks (realpath) names the    *)
(* same file, so the result is its location.                              *)
(*                                                                         *)
(* checkPathList: a segment of the list is its length and whether it is   *)
(* absolute; what matters of the strings is how long they are, which      *)
(* decides where the bytes go in the result buffer.                       *)
(***************************************************************************)
EXTENDS Integers, SequencesExt

CONSTANTS
  Entries,      \* the entries PATH may have: directories, "." and ""
  MaxPathDirs,  \* bound on the entries of PATH
  SegLens,      \* lengths of the segments of a path list
  MaxSegs,      \* bound on the segments of a path list
  CwdLen,       \* _tcslen of the working directory
  BaseLen       \* _tcslen of programDir

ASSUME PathResolverAssumption ==
  /\ MaxPathDirs \in Nat /\ MaxSegs \in Nat
  /\ SegLens \subseteq Nat
  /\ CwdLen \in Nat \ {0} /\ BaseLen \in Nat \ {0}
  \* PATH names no directory by the names the model gives other files
  /\ Entries \cap {"null", "uninit", "abs", "rel", "cwd", "root"} = {}

NULL == "null"

(* The empty PATH entry, as between two adjacent ':'. *)
EmptyEntry == ""

Locations == (Entries \ {".", EmptyEntry}) \cup {"abs", "rel", "cwd", "root"}

(* The file dir/command that the PATH entry e names. *)
EntryLocation(e) == IF e = "." THEN "cwd" ELSE e

VARIABLES
  call,         \* "findCommand" or "checkPathList"
  \* findCommand
  fpc,          \* "start", "scan", "verify" or "done"
  kind,         \* the command: "absolute", "relative" (has a separator), "bare"
  pathEnv,      \* the entries of PATH, or <<>> when PATH is unset
  where,        \* the locations holding the command as a regular file
  idx,          \* the PATH entry the loop is at (dir)
  cmdPath,      \* the file cmdPath names, "uninit" before anything is copied
  found,        \* what findCommand returned
  \* checkPathList
  lpc,          \* "loop" or "done"
  segs,         \* the segments of pathList: [len, abs]
  exists,       \* exists[i]: the bases ("cwd", "base") under which segment i exists
  reverse,      \* reverseOrder
  k,            \* the segment c1 is at
  bufLen,       \* bufferLength: the characters result has room for
  resLen,       \* resultLength
  result,       \* the checked segments copied into result so far
  overflow      \* has a write gone past the end of result?

fcVars == <<fpc, kind, pathEnv, where, idx, cmdPath, found>>
plVars == <<lpc, segs, exists, reverse, k, bufLen, resLen, result, overflow>>
vars == <<call, fcVars, plVars>>

(* _tcslen(pathList): the segments and the separators between them. *)
ListLength(s) ==
  IF s = <<>> THEN 0
  ELSE FoldLeft(LAMBDA acc, seg : acc + seg.len, 0, s) + Len(s) - 1

(* checkPath's result for segment i under base b: b + '/' + path. *)
Joined(i, b) ==
  [seg |-> i, base |-> b,
   len |-> (IF b = "cwd" THEN CwdLen ELSE BaseLen) + 1 + segs[i].len]

(* checkPath's result for segment i when it returns the path itself. *)
Unchanged(i) == [seg |-> i, base |-> "none", len |-> segs[i].len]

(* A variant of CheckPath that ignores reverseOrder. *)
CheckPathNoReverse(i) ==
  IF segs[i].abs THEN Unchanged(i)
  ELSE IF "cwd" \in exists[i] THEN Joined(i, "cwd")
  ELSE IF "base" \in exists[i] THEN Joined(i, "base")
  ELSE Unchanged(i)

(* checkPath(path, programDir, reverseOrder) on segment i: an absolute    *)
(* path is returned as it is; else paths[0] and paths[1], in the order   *)
(* reverseOrder gives, are tried by the for loop, and the first under     *)
(* which the path exists wins; else the path is returned.                 *)
CheckPath(i) ==
  LET paths == IF reverse THEN <<"base", "cwd">> ELSE <<"cwd", "base">>
  IN IF segs[i].abs THEN Unchanged(i)
     ELSE IF paths[1] \in exists[i] THEN Joined(i, paths[1])
     ELSE IF paths[2] \in exists[i] THEN Joined(i, paths[2])
     ELSE Unchanged(i)

FCIdle ==
  /\ fpc = "done" /\ kind = "bare" /\ pathEnv = <<>> /\ where = {}
  /\ idx = 1 /\ cmdPath = "uninit" /\ found = NULL

PLIdle ==
  /\ lpc = "done" /\ segs = <<>> /\ exists = <<>> /\ reverse = FALSE
  /\ k = 1 /\ bufLen = 0 /\ resLen = 0 /\ result = <<>> /\ overflow = FALSE

Init ==
  \/ /\ call = "findCommand"
     /\ fpc = "start"
     /\ kind \in {"absolute", "relative", "bare"}
     /\ pathEnv \in BoundedSeq(Entries, MaxPathDirs)
     /\ where \in SUBSET Locations
     /\ idx = 1
     /\ cmdPath = "uninit"
     /\ found = NULL
     /\ PLIdle
  \/ /\ call = "checkPathList"
     /\ FCIdle
     /\ lpc = "loop"
     /\ segs \in BoundedSeq([len : SegLens, abs : BOOLEAN], MaxSegs)
     /\ exists \in [1..Len(segs) -> SUBSET {"cwd", "base"}]
     \* an empty segment is relative, and cwd/ and programDir/ exist
     /\ \A i \in 1..Len(segs) :
          segs[i].len = 0 => ~segs[i].abs /\ exists[i] = {"cwd", "base"}
     /\ reverse \in BOOLEAN
     /\ k = 1
     /\ bufLen = ListLength(segs)
     /\ resLen = 0
     /\ result = <<>>
     /\ overflow = FALSE

-----------------------------------------------------------------------------
(* findCommand *)

(* An absolute command is copied as it is; a command with a separator is  *)
(* appended to the working directory; otherwise PATH is searched, and an  *)
(* unset PATH returns NULL.                                               *)
Start ==
  /\ fpc = "start"
  /\ CASE kind = "absolute" -> fpc' = "verify" /\ cmdPath' = "abs"
       [] kind = "relative" -> fpc' = "verify" /\ cmdPath' = "rel"
       [] kind = "bare" /\ pathEnv = <<>> -> fpc' = "done" /\ UNCHANGED cmdPath
       [] kind = "bare" /\ pathEnv # <<>> -> fpc' = "scan" /\ UNCHANGED cmdPath
  /\ UNCHANGED <<kind, pathEnv, where, idx, found>>

(* while (dir != NULL && *dir != '\0'): dir is at an entry, and not at   *)
(* the terminator after a trailing separator (an empty last entry).       *)
MoreEntries ==
  /\ idx <= Len(pathEnv)
  /\ ~(idx = Len(pathEnv) /\ pathEnv[idx] = EmptyEntry)

(* A variant of ScanEntry whose loop runs past the entry that holds the  *)
(* command.                                                              *)
ScanNoStop ==
  /\ fpc = "scan"
  /\ IF ~MoreEntries
       THEN fpc' = "verify" /\ UNCHANGED <<idx, cmdPath>>
       ELSE /\ \E l \in IF pathEnv[idx] = EmptyEntry THEN {"root", "cwd"}
                                             ELSE {EntryLocation(pathEnv[idx])} :
                 cmdPath' = l
            /\ idx' = idx + 1 /\ UNCHANGED fpc
  /\ UNCHANGED <<kind, pathEnv, where, found>>

(* One turn of the PATH loop: copy the entry to cmdPath ("." becomes the   *)
(* working directory), add a separator unless cmdPath[len - 1] is one,    *)
(* append the command, and stop when the file is regular.  For the empty  *)
(* entry cmdPath[-1] is read: a byte before the buffer, a separator or    *)
(* not.  The loop ends at the last entry or at an empty last entry.       *)
ScanEntry ==
  /\ fpc = "scan"
  /\ IF ~MoreEntries
       THEN fpc' = "verify" /\ UNCHANGED <<idx, cmdPath>>
       ELSE /\ \E l \in IF pathEnv[idx] = EmptyEntry THEN {"root", "cwd"}
                                             ELSE {EntryLocation(pathEnv[idx])} :
                 /\ cmdPath' = l
                 /\ IF l \in where
                      THEN fpc' = "verify" /\ UNCHANGED idx
                      ELSE idx' = idx + 1 /\ UNCHANGED fpc
  /\ UNCHANGED <<kind, pathEnv, where, found>>

(* _tstat(cmdPath): not a regular file returns NULL, else resolveSymlinks. *)
(* An uninitialised cmdPath (PATH set but empty) names whatever the heap  *)
(* held.                                                                  *)
Verify ==
  /\ fpc = "verify"
  /\ \E l \in IF cmdPath = "uninit" THEN Locations ELSE {cmdPath} :
       found' = IF l \in where THEN l ELSE NULL
  /\ fpc' = "done"
  /\ UNCHANGED <<kind, pathEnv, where, idx, cmdPath>>

-----------------------------------------------------------------------------
(* checkPathList *)

(* One turn of the loop while c1 is not at the list's terminator (an empty *)
(* segment other than the last is checked too): checkPath, grow result    *)
(* when resultLength + checkedLength + 1 > bufferLength, write the        *)
(* separator and a terminator after a previous segment, then _tcscpy the  *)
(* checked path with its terminator.                                      *)
Segment ==
  /\ lpc = "loop"
  /\ k <= Len(segs)
  /\ k < Len(segs) \/ segs[k].len > 0
  /\ LET c     == CheckPath(k)
         newLen == IF resLen + c.len + 1 > bufLen THEN bufLen + c.len + 1 ELSE bufLen
         start == resLen + (IF resLen > 0 THEN 1 ELSE 0)
     IN /\ bufLen' = newLen
        /\ overflow' = (overflow \/ start + c.len >= newLen)
        /\ resLen' = start + c.len
        /\ result' = Append(result, c)
  /\ k' = k + 1
  /\ UNCHANGED <<lpc, segs, exists, reverse>>

(* The loop stops when c1 reaches the list's terminator: past the last    *)
(* segment, or at an empty last segment (after a trailing separator).      *)
ListEnd ==
  /\ lpc = "loop"
  /\ k >= Len(segs)
  /\ k <= Len(segs) => segs[k].len = 0
  /\ lpc' = "done"
  /\ UNCHANGED <<segs, exists, reverse, k, bufLen, resLen, result, overflow>>

Next ==
  \/ (Start \/ ScanEntry \/ Verify) /\ UNCHANGED <<call, plVars>>
  \/ (Segment \/ ListEnd) /\ UNCHANGED <<call, fcVars>>

Spec == Init /\ [][Next]_vars

-----------------------------------------------------------------------------

(* Spec 4.3 resolveCommand: an absolute command, or one with a separator, *)
(* is found when that file exists; a bare command is found in the first  *)
(* PATH entry, in order, whose directory holds it, and NotFound when PATH *)
(* is unset or no entry holds it.                                         *)
SpecResolved ==
  LET hits  == {i \in DOMAIN pathEnv : EntryLocation(pathEnv[i]) \in where}
      first == CHOOSE i \in hits : \A j \in hits : i <= j
  IN IF kind = "absolute" THEN IF "abs" \in where THEN "abs" ELSE NULL
     ELSE IF kind = "relative" THEN IF "rel" \in where THEN "rel" ELSE NULL
     ELSE IF hits = {} THEN NULL
     ELSE EntryLocation(pathEnv[first])

(* findCommand returns what spec 4.3's resolveCommand resolves (its PATH  *)
(* loop and the final _tstat of cmdPath).                                 *)
CommandFound ==
  call = "findCommand" /\ fpc = "done" => found = SpecResolved

(* Spec 4.3 checkPath on segment i: an absolute path as it is; else the  *)
(* first existing of its two candidates in the order reverseOrder         *)
(* selects, else the path as it is.                                       *)
SpecChecked(i) ==
  LET first == IF reverse THEN "base" ELSE "cwd"
      other == IF reverse THEN "cwd" ELSE "base"
      base  == IF segs[i].abs THEN "none"
               ELSE IF first \in exists[i] THEN first
               ELSE IF other \in exists[i] THEN other
               ELSE "none"
      extra == IF base = "cwd" THEN CwdLen + 1
               ELSE IF base = "base" THEN BaseLen + 1
               ELSE 0
  IN [seg |-> i, base |-> base, len |-> segs[i].len + extra]

(* pathList does not end in a separator (and is not empty). *)
NoTrailingSeparator == segs = <<>> \/ segs[Len(segs)].len > 0

(* Spec 4.3 checkPathList: every segment is run through checkPath, in     *)
(* order, empty ones included, and the result holds all of them           *)
(* (checkPathList's loop over the pathSeparator-separated list).  A list  *)
(* ending in a separator is left out: the loop drops its empty last       *)
(* segment, and spec 4.3 does not say whether splitting keeps it.         *)
ListChecked ==
  call = "checkPathList" /\ lpc = "done" /\ NoTrailingSeparator =>
    /\ DOMAIN result = DOMAIN segs
    /\ \A i \in DOMAIN segs : result[i] = SpecChecked(i)

(* checkPathList writes only inside the result buffer it allocated and    *)
(* grew (spec 4.3: a fresh result is allocated for the list).             *)
NoOverflow == ~overflow

=============================================================================
