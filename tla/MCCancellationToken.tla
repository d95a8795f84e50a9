------------------------- MODULE MCCancellationToken -------------------------
(* CancellationToken for TLC.  The run checks liveness, so no symmetry.     *)
EXTENDS CancellationToken
==============================================================================
