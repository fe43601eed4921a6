------------------------------ MODULE MCRnbRangingSpi ------------------------------
(* Two threads of the ranging driver and the handler of the chip's interrupt.   *)
EXTENDS RnbRangingSpi

CONSTANTS low, high, isr

MCRank == [c \in {low, high, isr} |-> IF c = low THEN 0 ELSE IF c = high THEN 1 ELSE 2]
================================================================================
