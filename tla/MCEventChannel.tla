---------------------------- MODULE MCEventChannel ----------------------------
(* EventChannel for TLC.  SubscribersEnd is a liveness property, so that no    *)
(* use is made of the symmetry of subscriptions.                               *)
EXTENDS EventChannel
===============================================================================
