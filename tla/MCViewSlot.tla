------------------------------- MODULE MCViewSlot -------------------------------
(* ViewSlot for TLC.  Two of its properties are liveness properties, so that no   *)
(* use is made of the symmetry of watchers and waiters.                           *)
EXTENDS ViewSlot
=================================================================================
