-------------------------- MODULE MCPathResolver --------------------------
(***************************************************************************)
(* Model-checking instances of PathResolver: a PATH of up to three entries *)
(* naming two directories and ".", path lists of up to three segments.     *)
(***************************************************************************)
EXTENDS PathResolver

\* PATH entries without the empty entry.
MCEntries == {"d1", "d2", "."}
=============================================================================
