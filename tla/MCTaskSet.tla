------------------------------- MODULE MCTaskSet -------------------------------
(* TaskSet for TLC.  WaitsEnd is a liveness property, so that no use is made of  *)
(* the symmetry of tasks, sets and waiters.                                      *)
EXTENDS TaskSet
================================================================================
