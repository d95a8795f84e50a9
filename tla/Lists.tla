--------------------------------- MODULE Lists ---------------------------------
(* The lists the macros sort the items of their input into.                 *)
EXTENDS SequencesExt

(* Those of a sequence's elements that are in S, in its order: a loop that  *)
(* pushes them, one after the other, on a list of their own.                *)
Only(S, seq) == FoldLeft(LAMBDA l, x : IF x \in S THEN Append(l, x) ELSE l, <<>>, seq)
================================================================================
