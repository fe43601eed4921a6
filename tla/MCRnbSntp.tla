-------------------------------- MODULE MCRnbSntp --------------------------------
(* The clock over a few ticks, time for two synchronizations.                *)
EXTENDS RnbSntp
================================================================================
