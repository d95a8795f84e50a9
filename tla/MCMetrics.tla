------------------------------- MODULE MCMetrics -------------------------------
(* Metrics for TLC: two commands of one method and one of another.              *)
EXTENDS Metrics, TLC

CONSTANTS c1, c2, c3

MCIndexOf == c1 :> 0 @@ c2 :> 0 @@ c3 :> 1
MCSymmetry == Permutations({c1, c2})
================================================================================
