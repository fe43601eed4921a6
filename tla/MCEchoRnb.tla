--------------------------------- MODULE MCEchoRnb ---------------------------------
(* Payloads of up to two bytes: memcmp can be interrupted halfway.              *)
EXTENDS EchoRnb
================================================================================
