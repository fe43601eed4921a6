------------------------------- MODULE BatteryLevel -------------------------------
(***************************************************************************)
(* battery_level_pptt: the remaining charge, in parts per ten thousand, for a *)
(* voltage and a discharge curve as battery.h asks for it. The products stay   *)
(* below 2^32 for points of 16 bits, so the integers have no bound here.       *)
(***************************************************************************)
EXTENDS Integers, Sequences

Full == 10000

Points == [lvl_pptt : 0 .. Full, lvl_mV : Nat]

IsCurve(curve) ==
  /\ curve \in Seq(Points) /\ Len(curve) > 0
  /\ curve[1].lvl_pptt = Full /\ curve[Len(curve)].lvl_pptt = 0
  /\ \A i, j \in 1 .. Len(curve) : i < j =>
       curve[i].lvl_pptt >= curve[j].lvl_pptt /\ curve[i].lvl_mV >= curve[j].lvl_mV

\* The search down the curve ends there.
Stops(batt_mV, point) == point.lvl_pptt = 0 \/ batt_mV >= point.lvl_mV

IsStop(batt_mV, curve, i) ==
  Stops(batt_mV, curve[i]) /\ \A j \in 1 .. i - 1 : ~Stops(batt_mV, curve[j])

Stop(batt_mV, curve) == CHOOSE i \in 1 .. Len(curve) : IsStop(batt_mV, curve, i)

Between(batt_mV, pb, pa) ==
  pb.lvl_pptt + ((pa.lvl_pptt - pb.lvl_pptt) * (batt_mV - pb.lvl_mV))
                  \div (pa.lvl_mV - pb.lvl_mV)

battery_level_pptt(batt_mV, curve) ==
  LET i == Stop(batt_mV, curve)
  IN  IF batt_mV >= curve[1].lvl_mV \/ batt_mV < curve[i].lvl_mV THEN curve[i].lvl_pptt
      ELSE Between(batt_mV, curve[i], curve[i - 1])
================================================================================
