----------------------------- MODULE MCRnbEventPool -----------------------------
(* The pool with a few slots and two events that can be told apart.          *)
EXTENDS RnbEventPool
================================================================================
