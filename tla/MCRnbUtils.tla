-------------------------------- MODULE MCRnbUtils --------------------------------
(* The node with a small event pool.                                         *)
EXTENDS RnbUtils
================================================================================
