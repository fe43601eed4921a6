--------------------------------- MODULE MCEchoUdp ---------------------------------
(* Two lengths tell the answer to this request from the answer to another one.  *)
EXTENDS EchoUdp
================================================================================
