---------------------------- MODULE MCMmioQueue ----------------------------
(* Model-checking instance of MmioQueue: the bounds live in the .cfg.     *)
EXTENDS MmioQueue, TLC

=============================================================================
