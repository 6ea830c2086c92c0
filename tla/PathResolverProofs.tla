------------------------- MODULE PathResolverProofs -------------------------
(***************************************************************************)
(* Proofs about findCommand and checkPathList (library/eclipseCommon.c,   *)
(* library/eclipseUtil.c).                                                 *)
(*                                                                         *)
(* FInv is the invariant of findCommand's PATH loop: the entries before   *)
(* idx do not hold the command, and cmdPath is the file the last turn     *)
(* built.  At "verify" the _tstat of cmdPath answers what spec 4.3's      *)
(* resolveCommand resolves.  It needs PATH to have no empty entry: for    *)
(* one, the loop reads cmdPath[-1] and may build "/command" (see          *)
(* ScanEntry), which no PATH directory names.                             *)
(*                                                                         *)
(* LInv is the invariant of checkPathList's loop: result holds the        *)
(* checked forms of the segments before c1.  The loop stops at an empty  *)
(* segment, so that result covers the whole list only when no segment is *)
(* empty.                                                                  *)
(***************************************************************************)
EXTENDS PathResolver, SequenceTheorems, TLAPS

(* What the _tstat of cmdPath at "verify" makes findCommand return. *)
Answer(l) == IF l \in where THEN l ELSE NULL

(* No PATH entry before the n-th holds the command. *)
Missed(n) == \A m \in 1..(n - 1) : EntryLocation(pathEnv[m]) \notin where

(* The inductive invariant of findCommand. *)
FInv ==
  call = "findCommand" =>
    /\ lpc = "done"
    /\ fpc \in {"start", "scan", "verify", "done"}
    /\ kind \in {"absolute", "relative", "bare"}
    /\ pathEnv \in Seq(Entries)
    /\ idx \in Nat \ {0}
    /\ fpc = "start" => idx = 1 /\ cmdPath = "uninit" /\ found = NULL
    /\ fpc = "scan" =>
         /\ kind = "bare" /\ pathEnv # <<>>
         /\ idx \in 1..(Len(pathEnv) + 1)
         /\ Missed(idx)
         /\ idx > 1 => cmdPath = EntryLocation(pathEnv[idx - 1])
    /\ fpc = "verify" => cmdPath # "uninit" /\ Answer(cmdPath) = SpecResolved
    /\ fpc = "done" => found = SpecResolved

(* The segments checkPathList may be given. *)
Segs == Seq([len : SegLens, abs : BOOLEAN])

(* The inductive invariant of checkPathList. *)
LInv ==
  call = "checkPathList" =>
    /\ fpc = "done"
    /\ lpc \in {"loop", "done"}
    /\ segs \in Segs
    /\ exists \in [1..Len(segs) -> SUBSET {"cwd", "base"}]
    /\ reverse \in BOOLEAN
    /\ k \in 1..(Len(segs) + 1)
    /\ result \in Seq([seg : Nat, base : {"none", "cwd", "base"}, len : Int])
    /\ Len(result) = k - 1
    /\ \A m \in 1..(k - 1) : result[m] = SpecChecked(m)
    /\ lpc = "done" /\ NoTrailingSeparator => k = Len(segs) + 1

CallTypeOK == call \in {"findCommand", "checkPathList"}

-----------------------------------------------------------------------------
(* Lemmas about the operators findCommand's invariant is built from. *)

(* A PATH read from the environment is a sequence of entries. *)
LEMMA BoundedSeqIsSeq ==
  ASSUME NEW S, NEW n \in Nat
  PROVE  BoundedSeq(S, n) \subseteq Seq(S)
BY DEF BoundedSeq, SeqOf

(* An entry of PATH names a file that is not "uninit". *)
LEMMA EntryIsLocation ==
  ASSUME NEW e \in Entries
  PROVE  EntryLocation(e) # "uninit"
BY PathResolverAssumption DEF EntryLocation

(* resolveCommand depends only on the command, PATH and the files. *)
LEMMA ResolvedKept ==
  ASSUME UNCHANGED <<kind, pathEnv, where>>
  PROVE  SpecResolved' = SpecResolved
BY DEF SpecResolved

(* The first PATH entry holding the command is what resolveCommand       *)
(* resolves a bare command to.                                           *)
LEMMA FirstHit ==
  ASSUME pathEnv \in Seq(Entries), kind = "bare",
         NEW n \in 1..Len(pathEnv), Missed(n),
         EntryLocation(pathEnv[n]) \in where
  PROVE  SpecResolved = EntryLocation(pathEnv[n])
<1> DEFINE hits  == {i \in DOMAIN pathEnv : EntryLocation(pathEnv[i]) \in where}
           first == CHOOSE i \in hits : \A j \in hits : i <= j
<1>1. n \in hits OBVIOUS
<1>2. \A i \in hits : n <= i BY DEF Missed
<1>3. \A x \in hits : (\A j \in hits : x <= j) => x = n BY <1>1, <1>2
<1>4. first = n BY <1>1, <1>2, <1>3
<1> QED BY <1>1, <1>4 DEF SpecResolved

(* When no PATH entry holds a bare command, resolveCommand finds none. *)
LEMMA NoHit ==
  ASSUME pathEnv \in Seq(Entries), kind = "bare", Missed(Len(pathEnv) + 1)
  PROVE  SpecResolved = NULL
<1>1. {i \in DOMAIN pathEnv : EntryLocation(pathEnv[i]) \in where} = {}
  BY DEF Missed
<1> QED BY <1>1 DEF SpecResolved

-----------------------------------------------------------------------------
(* findCommand *)

LEMMA InitFInv == Init => CallTypeOK /\ FInv
<1> SUFFICES ASSUME Init PROVE CallTypeOK /\ FInv
  OBVIOUS
<1>1. CASE call = "findCommand"
  <2>1. /\ fpc = "start" /\ kind \in {"absolute", "relative", "bare"}
        /\ pathEnv \in BoundedSeq(Entries, MaxPathDirs)
        /\ idx = 1 /\ cmdPath = "uninit" /\ found = NULL /\ lpc = "done"
    BY <1>1 DEF Init, PLIdle, FCIdle
  <2>2. pathEnv \in Seq(Entries)
    BY <2>1, BoundedSeqIsSeq, PathResolverAssumption
  <2> QED BY <1>1, <2>1, <2>2 DEF FInv, CallTypeOK
<1>2. CASE call # "findCommand"
  BY <1>2 DEF Init, FInv, CallTypeOK
<1> QED BY <1>1, <1>2

(* Every step keeps FInv, when PATH has no empty entry. *)
LEMMA FInvStep ==
  ASSUME EmptyEntry \notin Entries
  PROVE  CallTypeOK /\ FInv /\ [Next]_vars => CallTypeOK' /\ FInv'
<1> SUFFICES ASSUME CallTypeOK, FInv, [Next]_vars
             PROVE  CallTypeOK' /\ FInv'
  OBVIOUS
<1>0. call' = call BY DEF Next, vars
<1>a. CallTypeOK' BY <1>0 DEF CallTypeOK
<1> SUFFICES ASSUME call = "findCommand" PROVE FInv'
  BY <1>0, <1>a DEF FInv
<1>b. /\ lpc = "done"
      /\ fpc \in {"start", "scan", "verify", "done"}
      /\ kind \in {"absolute", "relative", "bare"}
      /\ pathEnv \in Seq(Entries)
      /\ idx \in Nat \ {0}
  BY DEF FInv
<1>1. CASE Start /\ UNCHANGED <<call, plVars>>
  <2>1. fpc = "start" /\ idx = 1 /\ cmdPath = "uninit" /\ found = NULL
    BY <1>1 DEF Start, FInv
  <2>2. UNCHANGED <<kind, pathEnv, where, idx, found, lpc>>
    BY <1>1 DEF Start, plVars
  <2>3. SpecResolved' = SpecResolved BY <2>2, ResolvedKept
  <2>4. CASE kind = "absolute"
    <3>1. fpc' = "verify" /\ cmdPath' = "abs" BY <1>1, <2>4 DEF Start
    <3>2. Answer(cmdPath)' = SpecResolved
      BY <2>2, <2>4, <3>1 DEF Answer, SpecResolved
    <3> QED BY <1>0, <1>b, <2>2, <2>3, <3>1, <3>2 DEF FInv
  <2>5. CASE kind = "relative"
    <3>1. fpc' = "verify" /\ cmdPath' = "rel" BY <1>1, <2>5 DEF Start
    <3>2. Answer(cmdPath)' = SpecResolved
      BY <2>2, <2>5, <3>1 DEF Answer, SpecResolved
    <3> QED BY <1>0, <1>b, <2>2, <2>3, <3>1, <3>2 DEF FInv
  <2>6. CASE kind = "bare" /\ pathEnv = <<>>
    <3>1. fpc' = "done" BY <1>1, <2>6 DEF Start
    <3>2. SpecResolved = NULL BY <2>6 DEF SpecResolved
    <3> QED BY <1>0, <1>b, <2>1, <2>2, <2>3, <3>1, <3>2 DEF FInv
  <2>7. CASE kind = "bare" /\ pathEnv # <<>>
    <3>1. fpc' = "scan" BY <1>1, <2>7 DEF Start
    <3>2. Missed(1) BY DEF Missed
    <3>3. 1 \in 1..(Len(pathEnv) + 1) BY <1>b
    <3> QED BY <1>0, <1>b, <2>1, <2>2, <2>7, <3>1, <3>2, <3>3 DEF FInv, Missed
  <2> QED BY <1>b, <2>4, <2>5, <2>6, <2>7
<1>2. CASE ScanEntry /\ UNCHANGED <<call, plVars>>
  <2>1. /\ fpc = "scan" /\ kind = "bare" /\ pathEnv # <<>>
        /\ idx \in 1..(Len(pathEnv) + 1)
        /\ Missed(idx)
        /\ idx > 1 => cmdPath = EntryLocation(pathEnv[idx - 1])
    BY <1>2 DEF ScanEntry, MoreEntries, FInv
  <2>2. UNCHANGED <<kind, pathEnv, where, found, lpc>>
    BY <1>2 DEF ScanEntry, MoreEntries, plVars
  <2>3. SpecResolved' = SpecResolved BY <2>2, ResolvedKept
  <2>4. CASE idx > Len(pathEnv)
    <3>1. fpc' = "verify" /\ UNCHANGED <<idx, cmdPath>>
      BY <1>2, <2>1, <2>4 DEF ScanEntry, MoreEntries
    <3>2. idx = Len(pathEnv) + 1 /\ Len(pathEnv) >= 1 BY <1>b, <2>1, <2>4
    <3>3. cmdPath = EntryLocation(pathEnv[Len(pathEnv)]) BY <2>1, <3>2
    <3>4. cmdPath \notin where BY <2>1, <3>2, <3>3 DEF Missed
    <3>5. cmdPath # "uninit" BY <1>b, <3>2, <3>3, EntryIsLocation
    <3>6. SpecResolved = NULL BY <1>b, <2>1, <3>2, NoHit
    <3>7. Answer(cmdPath)' = SpecResolved BY <2>2, <3>1, <3>4, <3>6 DEF Answer
    <3> QED BY <1>0, <1>b, <2>2, <2>3, <3>1, <3>5, <3>7 DEF FInv
  <2>5. CASE idx <= Len(pathEnv)
    <3> DEFINE l == EntryLocation(pathEnv[idx])
    <3>1. pathEnv[idx] \in Entries /\ pathEnv[idx] # EmptyEntry BY <1>b, <2>1, <2>5
    <3>2. cmdPath' = l /\ IF l \in where THEN fpc' = "verify" /\ idx' = idx
                                         ELSE idx' = idx + 1 /\ fpc' = fpc
      BY <1>2, <2>1, <2>5, <3>1 DEF ScanEntry, MoreEntries
    <3>3. l # "uninit" BY <3>1, EntryIsLocation
    <3>4. CASE l \in where
      <4>1. SpecResolved = l BY <1>b, <2>1, <2>5, <3>4, FirstHit
      <4>2. Answer(cmdPath)' = SpecResolved BY <2>2, <3>2, <3>4, <4>1 DEF Answer
      <4> QED BY <1>0, <1>b, <2>2, <2>3, <3>2, <3>3, <3>4, <4>2 DEF FInv
    <3>5. CASE l \notin where
      <4>1. idx' = idx + 1 /\ fpc' = "scan" BY <2>1, <3>2, <3>5
      <4>2. Missed(idx + 1) BY <2>1, <3>5 DEF Missed
      <4>3. idx + 1 \in 1..(Len(pathEnv) + 1) BY <2>1, <2>5
      <4> QED BY <1>0, <1>b, <2>1, <2>2, <3>2, <4>1, <4>2, <4>3 DEF FInv, Missed
    <3> QED BY <3>4, <3>5
  <2> QED BY <1>b, <2>1, <2>4, <2>5
<1>3. CASE Verify /\ UNCHANGED <<call, plVars>>
  <2>1. fpc = "verify" /\ cmdPath # "uninit" /\ Answer(cmdPath) = SpecResolved
    BY <1>3 DEF Verify, FInv
  <2>2. UNCHANGED <<kind, pathEnv, where, idx, cmdPath, lpc>>
    BY <1>3 DEF Verify, plVars
  <2>3. SpecResolved' = SpecResolved BY <2>2, ResolvedKept
  <2>4. fpc' = "done" /\ found' = Answer(cmdPath) BY <1>3, <2>1 DEF Verify, Answer
  <2> QED BY <1>0, <1>b, <2>2, <2>3, <2>4, <2>1 DEF FInv
<1>4. CASE (Segment \/ ListEnd) /\ UNCHANGED <<call, fcVars>>
  BY <1>4, <1>b DEF Segment, ListEnd
<1>5. CASE UNCHANGED vars
  <2>1. UNCHANGED <<call, fpc, kind, pathEnv, where, idx, cmdPath, found, lpc>>
    BY <1>5 DEF vars, fcVars, plVars
  <2>2. SpecResolved' = SpecResolved BY <2>1, ResolvedKept
  <2> QED BY <2>1, <2>2 DEF FInv, Answer, Missed
<1> QED BY <1>1, <1>2, <1>3, <1>4, <1>5 DEF Next

(* With a PATH of non-empty entries, findCommand returns what spec 4.3's *)
(* resolveCommand resolves: an absolute or relative command when that    *)
(* file exists, a bare command from the first PATH directory holding it, *)
(* else NULL.                                                            *)
THEOREM CommandResolved ==
  ASSUME EmptyEntry \notin Entries
  PROVE  Spec => []CommandFound
<1>1. CallTypeOK /\ FInv => CommandFound BY DEF FInv, CommandFound
<1>2. CallTypeOK /\ FInv /\ [Next]_vars => CallTypeOK' /\ FInv' BY FInvStep
<1> QED BY <1>1, <1>2, InitFInv, PTL DEF Spec

-----------------------------------------------------------------------------
(* checkPathList *)

(* The records checkPath returns. *)
Checked == [seg : Nat, base : {"none", "cwd", "base"}, len : Int]

(* checkPath returns, for a segment of the list, what spec 4.3's         *)
(* checkPath gives: the for loop over paths[0] and paths[1] tries the     *)
(* bases in the order reverseOrder selects.                               *)
LEMMA CheckPathAsSpec ==
  ASSUME segs \in Segs, exists \in [1..Len(segs) -> SUBSET {"cwd", "base"}],
         reverse \in BOOLEAN, NEW i \in 1..Len(segs)
  PROVE  CheckPath(i) = SpecChecked(i) /\ CheckPath(i) \in Checked
<1>0. segs[i] \in [len : SegLens, abs : BOOLEAN] BY ElementOfSeq DEF Segs
<1>1. segs[i].len \in Nat /\ segs[i].abs \in BOOLEAN
  BY <1>0, PathResolverAssumption
<1>2. CwdLen \in Nat /\ BaseLen \in Nat BY PathResolverAssumption
<1>3. CheckPath(i) = SpecChecked(i)
  BY <1>1, <1>2 DEF CheckPath, SpecChecked, Joined, Unchanged
<1>4. CheckPath(i) \in Checked
  BY <1>1, <1>2 DEF CheckPath, Joined, Unchanged, Checked
<1> QED BY <1>3, <1>4

LEMMA InitLInv == Init => LInv
<1> SUFFICES ASSUME Init, call = "checkPathList" PROVE LInv
  BY DEF Init, LInv
<1>1. /\ fpc = "done" /\ lpc = "loop"
      /\ segs \in BoundedSeq([len : SegLens, abs : BOOLEAN], MaxSegs)
      /\ exists \in [1..Len(segs) -> SUBSET {"cwd", "base"}]
      /\ reverse \in BOOLEAN /\ k = 1 /\ result = <<>>
  BY DEF Init, FCIdle, PLIdle
<1>2. segs \in Segs
  BY <1>1, BoundedSeqIsSeq, PathResolverAssumption DEF Segs
<1> QED BY <1>1, <1>2 DEF LInv

(* Every step keeps LInv. *)
LEMMA LInvStep == LInv /\ [Next]_vars => LInv'
<1> SUFFICES ASSUME LInv, [Next]_vars PROVE LInv'
  OBVIOUS
<1>0. call' = call BY DEF Next, vars
<1> SUFFICES ASSUME call = "checkPathList" PROVE LInv'
  BY <1>0 DEF LInv
<1>b. /\ fpc = "done" /\ lpc \in {"loop", "done"}
      /\ segs \in Segs
      /\ exists \in [1..Len(segs) -> SUBSET {"cwd", "base"}]
      /\ reverse \in BOOLEAN
      /\ k \in 1..(Len(segs) + 1)
      /\ result \in Seq(Checked)
      /\ Len(result) = k - 1
      /\ \A m \in 1..(k - 1) : result[m] = SpecChecked(m)
      /\ lpc = "done" /\ NoTrailingSeparator => k = Len(segs) + 1
  BY DEF LInv, Checked
<1>1. CASE (Start \/ ScanEntry \/ Verify) /\ UNCHANGED <<call, plVars>>
  BY <1>1, <1>b DEF Start, ScanEntry, Verify
<1>2. CASE Segment /\ UNCHANGED <<call, fcVars>>
  <2>1. lpc = "loop" /\ k <= Len(segs) BY <1>2 DEF Segment
  <2>2. /\ result' = Append(result, CheckPath(k)) /\ k' = k + 1
        /\ UNCHANGED <<lpc, segs, exists, reverse, fpc>>
    BY <1>2 DEF Segment, fcVars
  <2>3. k \in 1..Len(segs) BY <1>b, <2>1
  <2>4. CheckPath(k) = SpecChecked(k) /\ CheckPath(k) \in Checked
    BY <1>b, <2>3, CheckPathAsSpec
  <2>5. result' \in Seq(Checked) /\ Len(result') = k'- 1
    BY <1>b, <2>2, <2>4
  <2>6. \A m \in 1..(k' - 1) : result'[m] = SpecChecked(m)'
    <3> SUFFICES ASSUME NEW m \in 1..(k' - 1) PROVE result'[m] = SpecChecked(m)'
      OBVIOUS
    <3>1. SpecChecked(m)' = SpecChecked(m) BY <2>2 DEF SpecChecked
    <3>2. CASE m = k BY <1>b, <2>2, <2>4, <3>1, <3>2
    <3>3. CASE m # k BY <1>b, <2>2, <3>1, <3>3
    <3> QED BY <3>2, <3>3
  <2> QED BY <1>0, <1>b, <2>1, <2>2, <2>3, <2>5, <2>6 DEF LInv, Checked
<1>3. CASE ListEnd /\ UNCHANGED <<call, fcVars>>
  <2>1. lpc = "loop" /\ k >= Len(segs) /\ (k <= Len(segs) => segs[k].len = 0)
    BY <1>3 DEF ListEnd
  <2>2. lpc' = "done" /\ UNCHANGED <<segs, exists, reverse, k, result, fpc>>
    BY <1>3 DEF ListEnd, fcVars
  <2>3. NoTrailingSeparator => k = Len(segs) + 1
    <3> SUFFICES ASSUME NoTrailingSeparator, k # Len(segs) + 1 PROVE FALSE
      OBVIOUS
    <3>1. k = Len(segs) /\ Len(segs) >= 1 BY <1>b, <2>1
    <3>2. segs # <<>> BY <3>1, <1>b DEF Segs
    <3>3. segs[Len(segs)].len > 0 BY <3>2 DEF NoTrailingSeparator
    <3> QED BY <2>1, <3>1, <3>3
  <2>4. \A m \in 1..(k - 1) : SpecChecked(m)' = SpecChecked(m)
    BY <2>2 DEF SpecChecked
  <2>5. NoTrailingSeparator' = NoTrailingSeparator BY <2>2 DEF NoTrailingSeparator
  <2> QED BY <1>0, <1>b, <2>2, <2>3, <2>4, <2>5 DEF LInv, Checked
<1>4. CASE UNCHANGED vars
  <2>1. UNCHANGED <<call, fpc, lpc, segs, exists, reverse, k, result>>
    BY <1>4 DEF vars, fcVars, plVars
  <2>2. \A m \in 1..(k - 1) : SpecChecked(m)' = SpecChecked(m)
    BY <2>1 DEF SpecChecked
  <2>3. NoTrailingSeparator' = NoTrailingSeparator BY <2>1 DEF NoTrailingSeparator
  <2> QED BY <1>b, <2>1, <2>2, <2>3 DEF LInv, Checked
<1> QED BY <1>1, <1>2, <1>3, <1>4 DEF Next

(* For every list that does not end in a separator, empty segments in it *)
(* included, checkPathList's result holds every segment of the list, in   *)
(* order, each as spec 4.3's checkPath gives it.                          *)
THEOREM EverySegmentChecked == Spec => []ListChecked
<1>1. LInv => ListChecked BY DEF LInv, ListChecked, Segs
<1>2. LInv /\ [Next]_vars => LInv' BY LInvStep
<1> QED BY <1>1, <1>2, InitLInv, PTL DEF Spec

=============================================================================
