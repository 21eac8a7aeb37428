----------------------------- MODULE MCJobQueue -----------------------------
(* Instances of the deferred path for TLC.                                 *)
EXTENDS JobQueueProps, TLC
=============================================================================
