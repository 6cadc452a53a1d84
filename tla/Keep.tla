-------------------------------- MODULE Keep --------------------------------
(***************************************************************************)
(* A loop that goes through a slice and appends to another what meets a      *)
(* condition, which here is to be in a set.                                 *)
(***************************************************************************)
EXTENDS Sequences, SequencesExt

KeepIn(T, kept, x) == IF x \in T THEN Append(kept, x) ELSE kept

Keeping(s, T) == FoldLeft(LAMBDA kept, x : KeepIn(T, kept, x), << >>, s)
=============================================================================
