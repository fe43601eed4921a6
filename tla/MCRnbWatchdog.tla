------------------------------- MODULE MCRnbWatchdog -------------------------------
(* A watchdog whose wake-up period is a few ticks long.                      *)
EXTENDS RnbWatchdog
================================================================================
