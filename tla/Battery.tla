--------------------------------- MODULE Battery ---------------------------------
(***************************************************************************)
(* The battery sample: battery_setup, which runs before main; the callback    *)
(* of the charger's status pin, run by the interrupt and once by the set-up     *)
(* itself; and the loop of main that powers the divider, samples and sends.     *)
(* The interrupt can preempt the thread between any two accesses to a pin.      *)
(***************************************************************************)
EXTENDS Integers, Functions

CONSTANTS
  FullOhm, OutputOhm,   \* the divider of the board; without one OutputOhm is 0
  Raws,                 \* results of the ADC, an int16_t: below zero is possible
  MaxPackets            \* bound of the model

Unread == -1            \* gpio_pin_get_dt failed
InternalRef == 600      \* adc_ref_internal, in mV
Resolution == 2 ^ 14

\* adc_raw_to_millivolts with a gain of 1: the shift rounds down.
MilliVolts(raw) == (raw * InternalRef) \div Resolution

Limit == 2 ^ 30         \* of the integers of the model

\* Raw results are integers of 16 bits: their voltages are small.
ASSUME BatteryAssumption ==
  /\ OutputOhm \in Nat /\ OutputOhm < 2 ^ 23 /\ FullOhm \in Nat /\ MaxPackets \in Nat
  /\ Raws \subseteq Int
  /\ \A raw \in Raws :
       MilliVolts(raw) \in -Limit .. Limit /\ MilliVolts(raw) * FullOhm \in -Limit .. Limit

VARIABLES
  batt_stat, pwr_good,  \* the levels of the pins, 0 or 1
  led, led_port,        \* batt_stat_led; led_port is false for NULL
  irq, pending,         \* the callback is installed; an edge waits for it
  cb,                   \* the next step of the callback in either context
  seen,                 \* what it has read there: the status and the power
  at,                   \* the next step of the thread
  battery_ok,
  divider,              \* the feed of the divider
  calibrate,            \* of adc_seq
  batt_mV,
  packets_sent, packet, \* the counter; the voltage of the last packet
  \* history
  excuse,               \* why the LED may be wrong
  adc,                  \* the last read: whether it succeeded, its voltage
  calibrated, spoiled   \* a read was calibrated; the one meant for it failed

Contexts == {"thread", "isr"}
Nothing == [stat |-> 0, power |-> 0]
NoRead == [ok |-> FALSE, mV |-> 0]

pins == <<batt_stat, pwr_good>>
status == <<led, led_port, irq, pending, cb, seen, excuse>>
sampling == <<divider, calibrate, batt_mV, packets_sent, packet, adc, calibrated, spoiled>>
vars == <<pins, status, sampling, at, battery_ok>>

Init ==
  /\ batt_stat \in {0, 1} /\ pwr_good \in {0, 1}
  /\ led = 0 /\ led_port \in BOOLEAN
  /\ irq = FALSE /\ pending = FALSE
  /\ cb = [c \in Contexts |-> "idle"]
  /\ seen = [c \in Contexts |-> Nothing]
  /\ at = "divider" /\ battery_ok = FALSE
  /\ divider = FALSE /\ calibrate = FALSE /\ batt_mV = 0
  /\ packets_sent = 0 /\ packet = 0
  /\ excuse = {} /\ adc = NoRead
  /\ calibrated = FALSE /\ spoiled = FALSE

\* The thread goes on when the interrupt has returned.
Thread(step) == at = step /\ cb["isr"] = "idle"

--------------------------------------------------------------------------------
(* The pins.                                                                *)

StatEdge ==
  /\ batt_stat' = 1 - batt_stat
  /\ pending' = irq
  /\ UNCHANGED <<pwr_good, led, led_port, irq, cb, seen, excuse, sampling, at, battery_ok>>

\* Its callback only writes a log.
PowerEdge ==
  /\ pwr_good' = 1 - pwr_good
  /\ excuse' = excuse \cup {"power"}
  /\ UNCHANGED <<batt_stat, led, led_port, irq, pending, cb, seen, sampling, at, battery_ok>>

--------------------------------------------------------------------------------
(* batt_stat_changed                                                        *)

Interrupt ==
  /\ pending /\ cb["isr"] = "idle"
  /\ pending' = FALSE
  /\ cb' = [cb EXCEPT !["isr"] = "stat"]
  /\ UNCHANGED <<pins, led, led_port, irq, seen, excuse, sampling, at, battery_ok>>

MayRun(c) == c = "isr" \/ cb["isr"] = "idle"

ReadStat(c) ==
  /\ cb[c] = "stat" /\ MayRun(c)
  /\ \E val \in {batt_stat, Unread} : seen' = [seen EXCEPT ![c].stat = val]
  /\ cb' = [cb EXCEPT ![c] = "power"]
  /\ UNCHANGED <<pins, led, led_port, irq, pending, excuse, sampling, at, battery_ok>>

ReadPower(c) ==
  /\ cb[c] = "power" /\ MayRun(c)
  /\ \E val \in {pwr_good, Unread} : seen' = [seen EXCEPT ![c].power = val]
  /\ cb' = [cb EXCEPT ![c] = "show"]
  /\ excuse' = excuse \ {"power"}
  /\ UNCHANGED <<pins, led, led_port, irq, pending, sampling, at, battery_ok>>

\* The interrupt finds the set-up between its reads and its write.
Overtakes(c) == c = "isr" /\ cb["thread"] \in {"power", "show"}

ShowUnread(c) ==         \* faulty: the results are not tested
  /\ cb[c] = "show" /\ MayRun(c)
  /\ led' = IF seen[c].power = 0 THEN 0 ELSE seen[c].stat
  /\ cb' = [cb EXCEPT ![c] = "idle"]
  /\ seen' = [seen EXCEPT ![c] = Nothing]
  /\ UNCHANGED <<pins, led_port, irq, pending, excuse, sampling, at, battery_ok>>

Show(c) ==
  LET read == Unread \notin Range(seen[c])
  IN  /\ cb[c] = "show" /\ MayRun(c)
      /\ led' = IF ~(led_port /\ read) THEN led
                ELSE IF seen[c].power = 0 THEN 0 ELSE seen[c].stat
      /\ cb' = [cb EXCEPT ![c] = "idle"] /\ seen' = [seen EXCEPT ![c] = Nothing]
      /\ excuse' = (excuse \ {"unread", IF c = "isr" THEN "overtaken" ELSE ""})
                     \cup (IF read THEN {} ELSE {"unread"})
                     \cup (IF Overtakes(c) THEN {"overtaken"} ELSE {})
      /\ UNCHANGED <<pins, led_port, irq, pending, sampling, at, battery_ok>>

--------------------------------------------------------------------------------
(* battery_setup                                                            *)

\* The ADC, the feed pin and the channel, each of which can fail.
divider_setup ==
  /\ Thread("divider")
  /\ battery_ok' \in BOOLEAN
  /\ calibrate' \in {battery_ok', TRUE}
  /\ at' = IF battery_ok' THEN "pwr_good" ELSE "start"
  /\ UNCHANGED <<pins, status, divider, batt_mV, packets_sent, packet, adc, calibrated, spoiled>>

pwr_good_setup ==
  /\ Thread("pwr_good")
  /\ at' \in {"batt_stat", "start"}
  /\ UNCHANGED <<pins, status, sampling, battery_ok>>

\* The pin, its interrupt and its callback.
batt_stat_setup ==
  /\ Thread("batt_stat")
  /\ irq' \in BOOLEAN
  /\ at' = IF irq' THEN "led" ELSE "start"
  /\ UNCHANGED <<pins, led, led_port, pending, cb, seen, excuse, sampling, battery_ok>>

LeaveLedDark ==         \* faulty: the callback is left to the first edge
  /\ Thread("led")
  /\ led_port' \in {led_port, FALSE}
  /\ at' = "start"
  /\ UNCHANGED <<pins, led, irq, pending, cb, seen, excuse, sampling, battery_ok>>

\* An LED that cannot be used is forgotten; another one shows the status now.
SetUpLed ==
  /\ Thread("led")
  /\ led_port' \in {led_port, FALSE}
  /\ at' = IF led_port' THEN "show" ELSE "start"
  /\ cb' = [cb EXCEPT !["thread"] = IF led_port' THEN "stat" ELSE "idle"]
  /\ UNCHANGED <<pins, led, irq, pending, seen, excuse, sampling, battery_ok>>

LedIsSetUp ==
  /\ Thread("show") /\ cb["thread"] = "idle"
  /\ at' = "start"
  /\ UNCHANGED <<pins, status, sampling, battery_ok>>

--------------------------------------------------------------------------------
(* The integers of battery_sample: 64 bits unsigned, and an int.             *)

Ints == -Limit - Limit .. Limit - 1 + Limit
Bytes == 0 .. 7         \* from the highest

\* A number below 2^31 in either direction, as 64 bits.
Byte(n, i) ==
  IF i < 4 THEN (IF n < 0 THEN 255 ELSE 0)
           ELSE (n \div 256 ^ (7 - i)) % 256

\* The long division of these 64 bits by d: what remains after each byte.
Remainders(n, d) ==
  LET rest[i \in -1 .. 7] ==
        IF i = -1 THEN 0 ELSE (rest[i - 1] * 256 + Byte(n, i)) % d
  IN  rest

\* The bytes of the quotient.
Quotient(n, d) ==
  LET rest == Remainders(n, d)
  IN  [i \in Bytes |-> (rest[i - 1] * 256 + Byte(n, i)) \div d]

\* Its lower half as an int.
ToInt(q) ==
  LET high == IF q[4] < 128 THEN q[4] ELSE q[4] - 256
  IN  ((high * 256 + q[5]) * 256 + q[6]) * 256 + q[7]

Signless(val) ==        \* faulty: the sign is dropped before the division
  LET n == val * FullOhm IN (IF n < 0 THEN -n ELSE n) \div OutputOhm

\* val * (uint64_t)full_ohm / output_ohm
Undivided(val) ==
  IF OutputOhm = 0 THEN val ELSE ToInt(Quotient(val * FullOhm, OutputOhm))

--------------------------------------------------------------------------------
(* main                                                                     *)

\* Without a socket the client ends.
start_udp ==
  /\ Thread("start")
  /\ at' \in {"enable", "ended"}
  /\ UNCHANGED <<pins, status, sampling, battery_ok>>

Enable ==
  /\ Thread("enable")
  /\ \E ok \in BOOLEAN :
       /\ ok => battery_ok
       /\ divider' = (divider \/ ok)
       /\ at' = IF ok THEN "sample" ELSE "ended"
  /\ UNCHANGED <<pins, status, calibrate, batt_mV, packets_sent, packet, adc, calibrated,
                 spoiled, battery_ok>>

\* After 100 ms. The calibration is not repeated, whether the read succeeded or not.
battery_sample ==
  /\ Thread("sample")
  /\ \E raw \in Raws, ok \in BOOLEAN :
       /\ batt_mV' = IF ok THEN Undivided(MilliVolts(raw)) ELSE -1
       /\ adc' = [ok |-> ok, mV |-> MilliVolts(raw)]
       /\ calibrated' = (calibrated \/ (calibrate /\ ok))
       /\ spoiled' = (spoiled \/ (calibrate /\ ~ok))
  /\ calibrate' = FALSE
  /\ at' = "send"
  /\ UNCHANGED <<pins, status, divider, packets_sent, packet, battery_ok>>

\* A packet that could not be sent is counted too.
send_udp_data ==
  /\ Thread("send") /\ batt_mV >= 0 /\ packets_sent < MaxPackets
  /\ packet' \in {packet, batt_mV}
  /\ packets_sent' = packets_sent + 1
  /\ at' = "disable"
  /\ UNCHANGED <<pins, status, divider, calibrate, batt_mV, adc, calibrated, spoiled, battery_ok>>

SendNothing ==
  /\ Thread("send") /\ batt_mV < 0
  /\ at' = "disable"
  /\ UNCHANGED <<pins, status, sampling, battery_ok>>

\* The result is not looked at. Then the thread sleeps.
Disable ==
  /\ Thread("disable")
  /\ batt_mV' = 0 /\ adc' = NoRead
  /\ divider' \in {FALSE, divider}
  /\ at' = "enable"
  /\ UNCHANGED <<pins, status, calibrate, packets_sent, packet, calibrated, spoiled, battery_ok>>

Next ==
  \/ StatEdge
  \/ PowerEdge
  \/ Interrupt
  \/ \E c \in Contexts : ReadStat(c) \/ ReadPower(c) \/ Show(c)
  \/ divider_setup
  \/ pwr_good_setup
  \/ batt_stat_setup
  \/ SetUpLed
  \/ LedIsSetUp
  \/ start_udp
  \/ Enable
  \/ battery_sample
  \/ send_udp_data
  \/ SendNothing
  \/ Disable

Spec == Init /\ [][Next]_vars

\* Of the divider: no voltage below zero looks like one above it.
NegativesStayNegative ==
  \A raw \in Raws : MilliVolts(raw) < 0 => Undivided(MilliVolts(raw)) < 0

\* What d leaves of four bytes of ones, the upper half of a number below zero.
RestOfOnes(d) ==
  LET Then(r) == (r * 256 + 255) % d
  IN  Then(Then(Then(255 % d)))

\* The dividers for which that is so: the rest is at least half of the resistance.
DividerKeepsSign ==
  OutputOhm = 0 \/ (FullOhm > 0 /\ 2 * RestOfOnes(OutputOhm) + 1 >= OutputOhm)

--------------------------------------------------------------------------------
Steps == {"divider", "pwr_good", "batt_stat", "led", "show", "start", "enable", "sample",
          "send", "disable", "ended"}

TypeOK ==
  /\ batt_stat \in {0, 1} /\ pwr_good \in {0, 1} /\ led \in {0, 1}
  /\ led_port \in BOOLEAN /\ irq \in BOOLEAN /\ pending \in BOOLEAN
  /\ cb \in [Contexts -> {"idle", "stat", "power", "show"}]
  /\ seen \in [Contexts -> [stat : {0, 1, Unread}, power : {0, 1, Unread}]]
  /\ at \in Steps /\ battery_ok \in BOOLEAN /\ divider \in BOOLEAN /\ calibrate \in BOOLEAN
  /\ batt_mV \in Ints /\ packet \in Ints /\ packet >= 0
  /\ packets_sent \in 0 .. MaxPackets
  /\ excuse \subseteq {"power", "unread", "overtaken"}
  /\ adc \in [ok : BOOLEAN, mV : Int] /\ calibrated \in BOOLEAN /\ spoiled \in BOOLEAN

\* The LED shows the charger's status once its set-up is over and nothing of it is
\* under way: although an edge can come between the interrupt's set-up and the
\* first look, and during either. It stays wrong only after an edge of the power
\* pin alone, a pin that could not be read, or an interrupt that ran between the
\* set-up's reads and its write, which then puts the older status back.
LedShowsStatus ==
  irq /\ led_port /\ at \notin {"led", "show"} /\ ~pending /\ cb["isr"] = "idle" /\ excuse = {}
    => led = (IF pwr_good = 0 THEN 0 ELSE batt_stat)

\* A voltage that is sent was measured for it: the read succeeded with the divider
\* on, and the value is the exact quotient, although a raw result below zero goes
\* through an unsigned division and is cut to an int. The ADC was calibrated,
\* unless the read that should have done it failed: it is not asked again.
VoltageIsMeasured ==
  [][packet' # packet =>
       /\ divider /\ adc.ok /\ (calibrated \/ spoiled)
       /\ adc.mV >= 0
       /\ packet' = (IF OutputOhm = 0 THEN adc.mV ELSE (adc.mV * FullOhm) \div OutputOhm)]_vars
================================================================================
