----------------------------- MODULE MCFindFile -----------------------------
(* Directory entries for findFile, written as token strings (Version).    *)
EXTENDS FindFile

\* p_1.0.0.q.jar: a bundle jar; the qualifier is cut at the next dot
Jar100 == <<PrefixP, Underscore, 1, Dot, 0, Dot, 0, Dot, Letter, Dot, Jar>>
\* p_1.2.0.q: a bundle directory
Dir120 == <<PrefixP, Underscore, 1, Dot, 2, Dot, 0, Dot, Letter>>
\* p_1.10.0.q: 10 > 2 as a number
Dir1100 == <<PrefixP, Underscore, 1, Dot, 10, Dot, 0, Dot, Letter>>
\* p_1.0.0.q9 and p_1.0.0.q10: qualifiers compare as text, "q10" < "q9"
Dir100q9 == <<PrefixP, Underscore, 1, Dot, 0, Dot, 0, Dot, Letter, 9>>
Dir100q10 == <<PrefixP, Underscore, 1, Dot, 0, Dot, 0, Dot, Letter, 10>>
\* p_2_q.jar: another name segment after the prefix, not retained
Extra2 == <<PrefixP, Underscore, 2, Underscore, Letter, Dot, Jar>>
\* o_3.q: another prefix
Other3 == <<PrefixO, Underscore, 3, Dot, Letter>>
\* p_1.0.0: a directory without qualifier
Dir100 == <<PrefixP, Underscore, 1, Dot, 0, Dot, 0>>
\* p_128.0.0.q, p_0.0.0.q, p_1.0.0.q: segments at the edge of int
Big == <<PrefixP, Underscore, 128, Dot, 0, Dot, 0, Dot, Letter>>
Zero == <<PrefixP, Underscore, 0, Dot, 0, Dot, 0, Dot, Letter>>
One == <<PrefixP, Underscore, 1, Dot, 0, Dot, 0, Dot, Letter>>

MCNames == {Jar100, Dir120, Dir1100, Dir100q9, Dir100q10, Extra2, Other3}
MCNamesNoQualifier == {Dir100, One}
MCNamesEdge == {Big, Zero, One}
\* the byte after a string's terminator: 0, a letter, or a digit
MCGarbage == {<<>>, <<Letter>>, <<1>>}
=============================================================================
