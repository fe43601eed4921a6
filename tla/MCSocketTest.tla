-------------------------------- MODULE MCSocketTest --------------------------------
(* Three packets in two sessions: one lost between two received, one passed.    *)
EXTENDS SocketTest
================================================================================
