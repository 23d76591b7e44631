--------------------------- MODULE MCVirtioDevice ---------------------------
(* Model-checking instance of VirtioDevice: the bounds live in the .cfg.  *)
EXTENDS VirtioDevice, TLC

=============================================================================
