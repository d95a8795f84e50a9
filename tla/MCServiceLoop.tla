----------------------------- MODULE MCServiceLoop -----------------------------
(* ServiceLoop for TLC.  Handles are interchangeable, and so are deferred     *)
(* operations: no action tells them apart.                                    *)
EXTENDS ServiceLoop, TLC

Symmetry == Permutations(Handles) \cup Permutations(Deferred)
================================================================================
