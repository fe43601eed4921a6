-------------------------------- MODULE MCBattery --------------------------------
(* The divider of boards/arm/rnl_w1/rnl_w1.dts:57-63; both ends of the ADC, below zero. *)
EXTENDS Battery, BatteryLevel
MCRaws == {-40, 0, 16383}

MCCurves ==
  {curve \in [1 .. 3 -> [lvl_pptt : {0, 3333, 10000}, lvl_mV : {0, 4, 7, 9}]] : IsCurve(curve)}

\* What Battery_proofs proves for all curves (battery.c:337-362).
ASSUME LevelOnSmallCurves ==
  \A curve \in MCCurves, v, w \in 0 .. 10 :
    /\ battery_level_pptt(v, curve) \in 0 .. Full
    /\ v <= w => battery_level_pptt(v, curve) <= battery_level_pptt(w, curve)

\* What SentVoltageIsMeasured asks of the divider, and what follows for every raw result
\* of 16 bits; both directions for other dividers.
ASSUME DividerOfTheBoard ==
  /\ DividerKeepsSign
  /\ \A val \in MilliVolts(-(2 ^ 15)) .. -1 : ToInt(Quotient(val * FullOhm, OutputOhm)) < 0
  /\ \A d \in 1 .. 3000 : 2 * RestOfOnes(d) + 1 >= d <=> ToInt(Quotient(-40 * FullOhm, d)) < 0
================================================================================
