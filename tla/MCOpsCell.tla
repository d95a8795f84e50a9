------------------------------ MODULE MCOpsCell ------------------------------
(* OpsCell for TLC.  Operations are interchangeable, and so are methods and *)
(* keys: no action tells them apart.                                        *)
EXTENDS OpsCell, TLC

Symmetry ==
    Permutations(Ops) \cup Permutations(Methods) \cup Permutations(Keys)
==============================================================================
