------------------------- MODULE MCChainController -------------------------
(* Model values and bounds for ChainController are in the .cfg files.      *)
EXTENDS ChainController
=============================================================================
