------------------------------- MODULE Version -------------------------------
(***************************************************************************)
(* parseVersion and compareVersions of library/eclipseCommon.c.            *)
(*                                                                         *)
(* A string is a sequence of tokens: a natural number stands for a        *)
(* maximal run of decimal digits and carries its value; the negative      *)
(* codes below stand for the other characters (Letter for any letter that *)
(* plays no other part) and Jar for the word "jar".                       *)
(* Where a property looks at characters (_tcscmp of the qualifiers) the    *)
(* tokens are expanded to their character codes, a number to its decimal  *)
(* digits.                                                                 *)
(*                                                                         *)
(* C integer widths are constants: the runs shrink int and long to small   *)
(* widths with the same relation (long as wide as int on Win32, wider on   *)
(* LP64), which keeps the wrap-around of the code reachable in TLC.        *)
(***************************************************************************)
EXTENDS Integers, SequencesExt

CONSTANTS
  IntBits,    \* width of C int (segment[] and the result of compareVersions)
  LongBits,   \* width of C long, the type _tcstol returns
  Garbage     \* what the heap may hold right after a string's terminator

ASSUME VersionAssumption ==
  /\ IntBits \in Nat \ {0}
  /\ LongBits \in Nat /\ LongBits >= IntBits
  /\ Garbage # {}

Dot == -1
Underscore == -2
Letter == -3
Jar == -4
PrefixP == -5   \* the letter p of the prefix "p" of FindFile
PrefixO == -6   \* the letter o of another prefix
NUL == -7

IsNum(t) == t \in Nat

IntMax == 2^(IntBits - 1) - 1

LongMax == 2^(LongBits - 1) - 1

(* x reduced to w bits, two's complement. *)
WrapTo(x, w) == ((x + 2^(w - 1)) % 2^w) - 2^(w - 1)

Sign(x) == IF x < 0 THEN -1 ELSE IF x > 0 THEN 1 ELSE 0

(* (int)_tcstol(c1, &c2, 10) on a digit run of value n: strtol saturates  *)
(* at LONG_MAX, the cast to int keeps the low IntBits bits.               *)
SegmentValue(n) == WrapTo(IF n > LongMax THEN LongMax ELSE n, IntBits)

(* The memory parseVersion walks over: the copy made by _tcsdup, its      *)
(* terminator, then the bytes g that follow the allocation.              *)
Mem(s, g) == s \o <<NUL>> \o g \o <<NUL, NUL>>

(* _tcschr(mem + k - 1, t): index of the first t before the terminator,   *)
(* 0 for NULL.                                                            *)
RECURSIVE FindTok(_, _, _)
FindTok(mem, k, t) ==
  IF mem[k] = NUL THEN 0 ELSE IF mem[k] = t THEN k ELSE FindTok(mem, k + 1, t)

(* The string that starts at index k. *)
RECURSIVE StrAt(_, _)
StrAt(mem, k) == IF mem[k] = NUL THEN <<>> ELSE <<mem[k]>> \o StrAt(mem, k + 1)

(* The Version struct right after memset: segments 0, no qualifier. *)
NoVersion == [segment |-> <<0, 0, 0>>, qualifier |-> <<>>]

(* One turn of the while loop of parseVersion at c1 = k, i = i.  With      *)
(* exact = FALSE segments are converted as the code does; exact = TRUE     *)
(* keeps the digit run's value (the reference).  After the last segment    *)
(* of a string with fewer than four fields, c2++ steps past the           *)
(* terminator and the loop test reads the bytes after it.                 *)
RECURSIVE ParseFrom(_, _, _, _, _)
ParseFrom(mem, k, i, v, exact) ==
  IF mem[k] = NUL THEN v
  ELSE IF i < 3
    THEN LET c2  == IF IsNum(mem[k]) THEN k + 1 ELSE k
             val == IF ~IsNum(mem[k]) THEN 0
                    ELSE IF exact THEN mem[k] ELSE SegmentValue(mem[k])
             v2  == [v EXCEPT !.segment[i + 1] = val]
         IN IF mem[c2] # NUL /\ mem[c2] # Dot
              THEN v2
              ELSE ParseFrom(mem, c2 + 1, i + 1, v2, exact)
    ELSE LET dot == FindTok(mem, k, Dot)
         IN [v EXCEPT !.qualifier =
               IF dot # 0 THEN SubSeq(mem, k, dot - 1)
               ELSE IF StrAt(mem, k) = <<Jar>> THEN <<>>
               ELSE StrAt(mem, k)]

(* parseVersion(str) when the bytes after the copy are g. *)
ParseVersion(s, g) == ParseFrom(Mem(s, g), 1, 0, NoVersion, FALSE)

(* The version spec 4.1 describes: the same fields, read up to the        *)
(* terminator only, segments as unbounded non-negative integers.          *)
RefVersion(s) == ParseFrom(Mem(s, <<>>), 1, 0, NoVersion, TRUE)

(* Character codes of a token, and of a string of tokens. *)
RECURSIVE Decimal(_)
Decimal(n) ==
  IF n < 10 THEN <<48 + n>> ELSE Decimal(n \div 10) \o <<48 + (n % 10)>>

CharsOf(t) ==
  IF IsNum(t) THEN Decimal(t)
  ELSE CASE t = Dot        -> <<46>>
         [] t = Underscore -> <<95>>
         [] t = Letter     -> <<113>>
         [] t = Jar        -> <<106, 97, 114>>
         [] t = PrefixP    -> <<112>>
         [] t = PrefixO    -> <<111>>

Text(s) == FlattenSeq([i \in 1..Len(s) |-> CharsOf(s[i])])

(* The sign of _tcscmp(a, b) on character codes. *)
RECURSIVE StrCmp(_, _)
StrCmp(a, b) ==
  IF a = <<>> \/ b = <<>> THEN Sign(Len(a) - Len(b))
  ELSE IF Head(a) # Head(b) THEN Sign(Head(a) - Head(b))
  ELSE StrCmp(Tail(a), Tail(b))

(* v1->segment[i] - v2->segment[i] in int.  A difference outside int is   *)
(* undefined behaviour: the build either wraps it, or keeps its sign (an  *)
(* optimiser that folds the later test into a comparison).               *)
Differences(a, b) ==
  IF a - b \in -(IntMax + 1)..IntMax THEN {a - b}
  ELSE {a - b, WrapTo(a - b, IntBits)}

(* The values result may hold when the segment loop ends, from segment i. *)
RECURSIVE SegmentResults(_, _, _)
SegmentResults(v1, v2, i) ==
  IF i > 3 THEN {0}
  ELSE UNION {IF r = 0 THEN SegmentResults(v1, v2, i + 1) ELSE {r} :
                r \in Differences(v1.segment[i], v2.segment[i])}

(* The signs compareVersions(s1, s2) may return. *)
CompareVersions(s1, s2) ==
  UNION {LET v1 == ParseVersion(s1, g1)
             v2 == ParseVersion(s2, g2)
         IN {IF r = 0 THEN StrCmp(Text(v1.qualifier), Text(v2.qualifier))
             ELSE Sign(r) : r \in SegmentResults(v1, v2, 1)} :
           g1 \in Garbage, g2 \in Garbage}

(* Spec 4.1: lexicographic over (major, minor, micro, qualifier), the     *)
(* qualifier compared as a string, the empty one first.                   *)
RefCompare(s1, s2) ==
  LET v1 == RefVersion(s1)
      v2 == RefVersion(s2)
      d  == {i \in 1..3 : v1.segment[i] # v2.segment[i]}
      i0 == CHOOSE i \in d : \A j \in d : i <= j
  IN IF d = {} THEN StrCmp(Text(v1.qualifier), Text(v2.qualifier))
     ELSE Sign(v1.segment[i0] - v2.segment[i0])

=============================================================================
