-------------------------------- MODULE RnbTime_proofs --------------------------------
(***************************************************************************)
(* Proofs about the two threads of rnb_utils.c whose correctness is one of  *)
(* times: the watchdog (RnbWatchdog) and the clock (RnbSntp). They share no *)
(* state, so each has an inductive invariant of its own. For every wake-up  *)
(* period, every lateness that WatchdogAssumption allows and every counter  *)
(* that holds more than eight: when a node is reset, when it is not, and    *)
(* that the counter never wraps. For every uptime and every delay of the    *)
(* SNTP thread, whatever a second is: an uncut call of rnb_get_unix_time    *)
(* returns the right time up to that delay and two roundings.               *)
(***************************************************************************)
EXTENDS RnbSntp, RnbWatchdog, TLAPS

--------------------------------------------------------------------------------
(* RnbWatchdog                                                              *)

\* Ticks since the thread went to sleep; a cycle takes Most at most.
Elapsed == (Period - due) + lag
Most == Period + Late

\* The thread is on its way only when its sleep is over.
SleepIsOver == wpc # "sleep" => due = 0

\* How long the hardware has not been fed, by the number of counted cycles: below
\* four, since the cycle began; from four on, one cycle more for each. With six
\* counted cycles the hardware expires before the thread is back at its test.
FedByCycles == armed =>
  /\ cycles <= 6
  /\ wpc \in {"count", "clear"} => cycles <= 5
  /\ wpc # "feed" =>
       /\ cycles <= 3 => fed <= Elapsed
       /\ cycles = 4 => fed <= Elapsed + Most
       /\ cycles = 5 => fed <= Elapsed + 2 * Most
       /\ cycles \in 1 .. 3 => fed >= Elapsed
       /\ cycles = 4 => fed >= Elapsed + Period
       /\ cycles = 5 => fed >= Elapsed + 2 * Period
       /\ cycles = 6 => fed >= Elapsed + 3 * Period
  /\ wpc = "feed" =>
       /\ cycles = 0 => fed <= Elapsed + 2 * Most
       /\ cycles \in 1 .. 4 => fed <= Elapsed
       /\ cycles = 5 => fed <= Elapsed + Most
       /\ cycles = 6 => fed <= Elapsed + 2 * Most
       /\ cycles \in 2 .. 4 => fed >= Elapsed
       /\ cycles = 5 => fed >= Elapsed + Period
       /\ cycles = 6 => fed >= Elapsed + 2 * Period

\* How long it has been silent at least, by the number of counted cycles; a signal
\* that the thread has not cleared yet came before the last of them.
SilentForCycles == armed /\ silence # Tolerated =>
  /\ rx => cycles <= 5 /\ (wpc = "count" => cycles <= 4)
  /\ ~rx =>
       /\ cycles # 6
       /\ wpc # "feed" =>
            /\ cycles = 1 => silence >= Elapsed
            /\ cycles = 2 => silence >= Elapsed + Period
            /\ cycles = 3 => silence >= Elapsed + 2 * Period
            /\ cycles = 4 => silence >= Elapsed + 3 * Period
            /\ cycles = 5 => silence >= Elapsed + 4 * Period
       /\ wpc = "feed" =>
            /\ cycles = 2 => silence >= Elapsed
            /\ cycles = 3 => silence >= Elapsed + Period
            /\ cycles = 4 => silence >= Elapsed + 2 * Period
            /\ cycles = 5 => silence >= Elapsed + 3 * Period

\* How long a started node can have been deaf, by the number of counted cycles: up
\* to two cycles until the flag is cleared, one more for each count, and from four
\* counts on no longer than the hardware was not fed and what was before.
DeafByCycles ==
  /\ ~started => deaf = 0
  /\ armed /\ rx =>
       /\ wpc \in {"sleep", "clear"} => deaf <= Elapsed + Late
       /\ wpc \in {"count", "feed"} => deaf <= lag
  /\ armed /\ ~rx =>
       /\ wpc = "clear" => deaf <= lag
       /\ wpc \in {"sleep", "count"} =>
            /\ cycles = 0 => deaf <= Elapsed + Most + Late
            /\ cycles = 1 => deaf <= Elapsed + 2 * Most + Late
            /\ cycles = 2 => deaf <= Elapsed + 3 * Most + Late
            /\ cycles = 3 => deaf <= Elapsed + 4 * Most + Late
            /\ cycles >= 4 => deaf <= fed + 4 * Most + Late
       /\ wpc = "feed" =>
            /\ cycles = 0 => deaf <= Elapsed + Late
            /\ cycles = 1 => deaf <= Elapsed + Most + Late
            /\ cycles = 2 => deaf <= Elapsed + 2 * Most + Late
            /\ cycles = 3 => deaf <= Elapsed + 3 * Most + Late
            /\ cycles >= 4 => deaf <= fed + 4 * Most + Late

\* How long a node can be at rest while cycles are still counted.
RestByCycles ==
  /\ started => idle = 0
  /\ wpc = "count" => idle <= lag
  /\ wpc = "feed" /\ cycles # 0 => idle <= lag
  /\ wpc \in {"sleep", "clear"} /\ cycles # 0 => idle <= Elapsed + Late

WdtIInv == /\ WdtTypeOK /\ SleepIsOver /\ FedByCycles /\ SilentForCycles
        /\ DeafByCycles /\ RestByCycles

--------------------------------------------------------------------------------
\* A uint8_t that is not about to wrap.
LEMMA CountGoesUp ==
  ASSUME NEW n \in Nat, n + 1 < CycleMod
  PROVE  (n + 1) % CycleMod = n + 1
BY WatchdogAssumption

\* What a cycle can last: 3 * (Period + Late) is below the window of 4 * Period.
LEMMA Lengths ==
  /\ Period \in Nat /\ Period >= 1 /\ Late \in Nat /\ 3 * Late < Period
  /\ Most = Period + Late /\ Most \in Nat
  /\ Window = 4 * Period /\ Tolerated = 5 * Period
  /\ Bound = 8 * Period + 5 * Late /\ IdleBound = Period + 2 * Late
  /\ CycleMod \in Nat /\ CycleMod > 8
BY WatchdogAssumption DEF Most, Window, Tolerated, Bound, IdleBound, MAX_WDT_CYCLES_NO_RX_SIGNAL

\* In any case the count is a byte.
LEMMA CountStaysAByte ==
  ASSUME NEW n \in Nat
  PROVE  (n + 1) % CycleMod \in 0 .. CycleMod - 1
<1>1. CycleMod \in Nat /\ CycleMod > 0 BY Lengths
<1>2. ASSUME NEW m \in Nat, NEW a \in Nat, m > 0 PROVE a % m \in 0 .. m - 1
  BY <1>2
<1> QED BY <1>1, <1>2

\* A cycle takes Most at most.
LEMMA ElapsedIsBounded ==
  ASSUME WdtTypeOK
  PROVE  Elapsed \in Nat /\ Elapsed <= Most /\ (due = 0 => Elapsed = Period + lag)
BY Lengths DEF WdtTypeOK, Elapsed

\* Counting by case, so that no count is multiplied by a length.
LEMMA CountIsSmall ==
  ASSUME WdtTypeOK, cycles <= 6
  PROVE  cycles \in {0, 1, 2, 3, 4, 5, 6}
BY Lengths DEF WdtTypeOK

\* What a tick does to the lengths.
LEMMA TickAddsOne ==
  ASSUME WdtIInv, ~Expired, WdtTick, WdtTypeOK'
  PROVE  /\ Elapsed' = Elapsed + 1
         /\ armed => fed' = fed + 1
         /\ silence' # Tolerated => silence' = silence + 1 /\ silence # Tolerated
         /\ deaf' <= deaf + 1 /\ (~started => deaf' = 0)
         /\ idle' <= idle + 1 /\ (started => idle' = 0)
         /\ due = 0 => lag' = lag + 1
         /\ armed' <=> armed
         /\ rx' <=> rx
         /\ started' <=> started
         /\ wpc' = wpc /\ cycles' = cycles
<1> USE Lengths
<1>1. Elapsed' = Elapsed + 1
  <2>1. CASE due > 0 BY <2>1 DEF WdtIInv, WdtTypeOK, WdtTick, Elapsed
  <2>2. CASE due = 0 BY <2>2 DEF WdtIInv, WdtTypeOK, WdtTick, Elapsed
  <2> QED BY <2>1, <2>2 DEF WdtIInv, WdtTypeOK
<1>2. armed => fed' = fed + 1 BY DEF WdtTick
<1>3. silence' # Tolerated => silence' = silence + 1 /\ silence # Tolerated
  BY DEF WdtIInv, WdtTypeOK, WdtTick, UpTo
<1>4. deaf' <= deaf + 1 /\ (~started => deaf' = 0) BY DEF WdtIInv, WdtTypeOK, WdtTick, UpTo
<1>5. idle' <= idle + 1 /\ (started => idle' = 0) BY DEF WdtIInv, WdtTypeOK, WdtTick, UpTo
<1>6. due = 0 => lag' = lag + 1 BY DEF WdtIInv, WdtTypeOK, WdtTick
<1>7. UNCHANGED <<armed, wpc, cycles, rx, started>> BY DEF WdtTick
<1> QED BY <1>1, <1>2, <1>3, <1>4, <1>5, <1>6, <1>7

\* A tick makes a node deafer by one at most, and the time since the feed longer by one.
LEMMA TickKeepsDeaf == ASSUME WdtIInv, ~Expired, WdtTick, WdtTypeOK' PROVE DeafByCycles'
<1>1. /\ Elapsed \in Nat /\ Elapsed' = Elapsed + 1
      /\ deaf \in Nat /\ deaf' \in Nat /\ deaf' <= deaf + 1 /\ (~started => deaf' = 0)
      /\ fed \in Nat /\ (armed => fed' = fed + 1)
      /\ lag \in Nat /\ (wpc # "sleep" => lag' = lag + 1) /\ cycles \in Nat
  BY TickAddsOne, ElapsedIsBounded, Lengths DEF WdtIInv, WdtTypeOK, SleepIsOver
<1>2. (armed' <=> armed) /\ (rx' <=> rx) /\ (started' <=> started) /\ wpc' = wpc /\ cycles' = cycles
  BY TickAddsOne
<1>3. Most \in Nat /\ Late \in Nat BY Lengths
<1> QED BY <1>1, <1>2, <1>3 DEF WdtIInv, DeafByCycles

\* The invariant at the start (nrf5_wdt_start, rnb_utils.c:831-864).
LEMMA WdtInitIInv == WdtInit => WdtIInv
<1> SUFFICES ASSUME WdtInit PROVE WdtIInv OBVIOUS
<1> USE Lengths DEF WdtInit
<1>1. armed \in BOOLEAN /\ rx \in BOOLEAN /\ started \in BOOLEAN OBVIOUS
<1>2. /\ fed = 0 /\ due = 0 /\ lag = 0 /\ cycles = 0 /\ silence = 0 /\ deaf = 0 /\ idle = 0
      /\ wpc = "sleep"
  OBVIOUS
<1>3. WdtTypeOK
  <2> HIDE DEF WdtInit
  <2> QED BY <1>1, <1>2 DEF WdtTypeOK
<1> QED
  BY <1>3 DEF WdtIInv, SleepIsOver, FedByCycles, SilentForCycles, DeafByCycles, RestByCycles,
              Elapsed

\* The invariant is kept, part by part: each is one step of rnb_wdt_process_thread, the
\* interrupt, the start or stop of the node, a tick or a reset.
LEMMA WdtStepTypeOK == ASSUME WdtIInv, [WdtNext]_wdt_vars PROVE WdtTypeOK'
<1> USE Lengths, ElapsedIsBounded, CountIsSmall DEF WdtIInv, WdtTypeOK, wvars
<1>1. CASE Reset
  <2>1. armed' \in BOOLEAN /\ rx' \in BOOLEAN /\ started' \in BOOLEAN
    BY <1>1 DEF Reset, Boot
  <2>2. /\ fed' = 0 /\ due' = 0 /\ lag' = 0 /\ cycles' = 0 /\ silence' = 0 /\ deaf' = 0 /\ idle' = 0
        /\ wpc' = "sleep"
    BY <1>1 DEF Reset, Boot
  <2> QED BY <2>1, <2>2
<1>2. CASE ~Expired /\ WdtTick BY <1>2 DEF WdtTick, UpTo, Expired
<1>3. CASE ~Expired /\ RxSignal BY <1>3 DEF RxSignal, Expired
<1>4. CASE ~Expired /\ StartStop BY <1>4 DEF StartStop, Expired
<1>5. CASE ~Expired /\ WdtTest BY <1>5 DEF WdtTest, Expired
<1>6. CASE ~Expired /\ WdtCount
  <2>1. cycles' \in 0 .. CycleMod - 1 BY <1>6, CountStaysAByte DEF WdtCount
  <2>2. wpc' = "feed" BY <1>6 DEF WdtCount
  <2>3. UNCHANGED <<armed, fed, due, lag, rx, started, silence, deaf, idle>> BY <1>6 DEF WdtCount
  <2> QED BY <2>1, <2>2, <2>3
<1>7. CASE ~Expired /\ WdtClear
  <2>1. cycles' = 0 /\ silence' = 0 /\ rx' = FALSE /\ wpc' = "feed" BY <1>7 DEF WdtClear
  <2>2. UNCHANGED <<armed, fed, due, lag, started, deaf, idle>> BY <1>7 DEF WdtClear
  <2>3. rx' \in BOOLEAN BY <2>1
  <2> QED BY <2>1, <2>2, <2>3
<1>8. CASE ~Expired /\ WdtFeed BY <1>8 DEF WdtFeed, MAX_WDT_CYCLES_NO_RX_SIGNAL, Expired
<1>9. CASE UNCHANGED wdt_vars BY <1>9 DEF wdt_vars
<1> QED BY <1>1, <1>2, <1>3, <1>4, <1>5, <1>6, <1>7, <1>8, <1>9 DEF WdtNext

\* The thread leaves its sleep at the end of it.
LEMMA StepSleepIsOver == ASSUME WdtIInv, [WdtNext]_wdt_vars PROVE SleepIsOver'
<1> USE DEF WdtIInv, WdtTypeOK, SleepIsOver, wvars
<1>1. CASE Reset BY <1>1 DEF Reset, Boot, Expired
<1>2. CASE ~Expired /\ WdtTick BY <1>2 DEF WdtTick, UpTo, Expired
<1>3. CASE ~Expired /\ RxSignal BY <1>3 DEF RxSignal, Expired
<1>4. CASE ~Expired /\ StartStop BY <1>4 DEF StartStop, Expired
<1>5. CASE ~Expired /\ WdtTest BY <1>5 DEF WdtTest, Expired
<1>6. CASE ~Expired /\ WdtCount BY <1>6, CountGoesUp, CountStaysAByte DEF WdtCount, Expired
<1>7. CASE ~Expired /\ WdtClear BY <1>7 DEF WdtClear, Expired
<1>8. CASE ~Expired /\ WdtFeed BY <1>8 DEF WdtFeed, MAX_WDT_CYCLES_NO_RX_SIGNAL, Expired
<1>9. CASE UNCHANGED wdt_vars BY <1>9 DEF wdt_vars
<1> QED BY <1>1, <1>2, <1>3, <1>4, <1>5, <1>6, <1>7, <1>8, <1>9 DEF WdtNext

\* WdtFeed feeds below four counts only, WdtCount adds one.
LEMMA StepFedByCycles == ASSUME WdtIInv, [WdtNext]_wdt_vars, WdtTypeOK' PROVE FedByCycles'
<1> USE Lengths, ElapsedIsBounded, CountIsSmall DEF WdtIInv, WdtTypeOK, FedByCycles,
        SleepIsOver, wvars, Elapsed
<1>1. CASE Reset BY <1>1 DEF Reset, Boot, Expired
<1>2. CASE ~Expired /\ WdtTick
  <2> USE <1>2, TickAddsOne
  <2> HIDE DEF Elapsed
  <2> QED OBVIOUS
<1>3. CASE ~Expired /\ RxSignal BY <1>3 DEF RxSignal, Expired
<1>4. CASE ~Expired /\ StartStop BY <1>4 DEF StartStop, Expired
<1>5. CASE ~Expired /\ WdtTest BY <1>5 DEF WdtTest, Expired
<1>6. CASE ~Expired /\ WdtCount BY <1>6, CountGoesUp, CountStaysAByte DEF WdtCount, Expired
<1>7. CASE ~Expired /\ WdtClear BY <1>7 DEF WdtClear, Expired
<1>8. CASE ~Expired /\ WdtFeed BY <1>8 DEF WdtFeed, MAX_WDT_CYCLES_NO_RX_SIGNAL, Expired
<1>9. CASE UNCHANGED wdt_vars BY <1>9 DEF wdt_vars
<1> QED BY <1>1, <1>2, <1>3, <1>4, <1>5, <1>6, <1>7, <1>8, <1>9 DEF WdtNext

\* WdtTest counts no cycle in which the flag was set, WdtClear wipes it out.
LEMMA StepSilentForCycles == ASSUME WdtIInv, [WdtNext]_wdt_vars, WdtTypeOK' PROVE SilentForCycles'
<1> USE Lengths, ElapsedIsBounded, CountIsSmall DEF WdtIInv, WdtTypeOK, SilentForCycles,
        SleepIsOver, FedByCycles, wvars, Elapsed
<1>1. CASE Reset BY <1>1 DEF Reset, Boot, Expired
<1>2. CASE ~Expired /\ WdtTick
  <2> USE <1>2, TickAddsOne
  <2> HIDE DEF Elapsed
  <2> QED OBVIOUS
<1>3. CASE ~Expired /\ RxSignal BY <1>3 DEF RxSignal, Expired
<1>4. CASE ~Expired /\ StartStop BY <1>4 DEF StartStop, Expired
<1>5. CASE ~Expired /\ WdtTest BY <1>5 DEF WdtTest, Expired
<1>6. CASE ~Expired /\ WdtCount BY <1>6, CountGoesUp, CountStaysAByte DEF WdtCount, Expired
<1>7. CASE ~Expired /\ WdtClear BY <1>7 DEF WdtClear, Expired
<1>8. CASE ~Expired /\ WdtFeed BY <1>8 DEF WdtFeed, MAX_WDT_CYCLES_NO_RX_SIGNAL, Expired
<1>9. CASE UNCHANGED wdt_vars BY <1>9 DEF wdt_vars
<1> QED BY <1>1, <1>2, <1>3, <1>4, <1>5, <1>6, <1>7, <1>8, <1>9 DEF WdtNext

\* A started node that hears nothing gets one cycle after the other counted.
LEMMA StepDeafByCycles == ASSUME WdtIInv, [WdtNext]_wdt_vars, WdtTypeOK' PROVE DeafByCycles'
<1> USE Lengths, ElapsedIsBounded, CountIsSmall DEF WdtIInv, WdtTypeOK, DeafByCycles,
        SleepIsOver, FedByCycles, wvars, Elapsed
<1>1. CASE Reset BY <1>1 DEF Reset, Boot, Expired
<1>2. CASE ~Expired /\ WdtTick BY <1>2, TickKeepsDeaf
<1>3. CASE ~Expired /\ RxSignal BY <1>3 DEF RxSignal, Expired
<1>4. CASE ~Expired /\ StartStop BY <1>4 DEF StartStop, Expired
<1>5. CASE ~Expired /\ WdtTest BY <1>5 DEF WdtTest, Expired
<1>6. CASE ~Expired /\ WdtCount BY <1>6, CountGoesUp, CountStaysAByte DEF WdtCount, Expired
<1>7. CASE ~Expired /\ WdtClear BY <1>7 DEF WdtClear, Expired
<1>8. CASE ~Expired /\ WdtFeed BY <1>8 DEF WdtFeed, MAX_WDT_CYCLES_NO_RX_SIGNAL, Expired
<1>9. CASE UNCHANGED wdt_vars BY <1>9 DEF wdt_vars
<1> QED BY <1>1, <1>2, <1>3, <1>4, <1>5, <1>6, <1>7, <1>8, <1>9 DEF WdtNext

\* A node at rest is cleared at the next test.
LEMMA StepRestByCycles == ASSUME WdtIInv, [WdtNext]_wdt_vars, WdtTypeOK' PROVE RestByCycles'
<1> USE Lengths, ElapsedIsBounded, CountIsSmall DEF WdtIInv, WdtTypeOK, RestByCycles,
        SleepIsOver, wvars, Elapsed
<1>1. CASE Reset BY <1>1 DEF Reset, Boot, Expired
<1>2. CASE ~Expired /\ WdtTick
  <2> USE <1>2, TickAddsOne
  <2> HIDE DEF Elapsed
  <2> QED OBVIOUS
<1>3. CASE ~Expired /\ RxSignal BY <1>3 DEF RxSignal, Expired
<1>4. CASE ~Expired /\ StartStop BY <1>4 DEF StartStop, Expired
<1>5. CASE ~Expired /\ WdtTest BY <1>5 DEF WdtTest, Expired
<1>6. CASE ~Expired /\ WdtCount BY <1>6, CountGoesUp, CountStaysAByte DEF WdtCount, Expired
<1>7. CASE ~Expired /\ WdtClear BY <1>7 DEF WdtClear, Expired
<1>8. CASE ~Expired /\ WdtFeed BY <1>8 DEF WdtFeed, MAX_WDT_CYCLES_NO_RX_SIGNAL, Expired
<1>9. CASE UNCHANGED wdt_vars BY <1>9 DEF wdt_vars
<1> QED BY <1>1, <1>2, <1>3, <1>4, <1>5, <1>6, <1>7, <1>8, <1>9 DEF WdtNext

\* The invariant of the watchdog holds.
LEMMA WdtInvariant == WdtSpec => []WdtIInv
<1>1. WdtIInv /\ [WdtNext]_wdt_vars => WdtIInv'
  BY WdtStepTypeOK, StepSleepIsOver, StepFedByCycles, StepSilentForCycles, StepDeafByCycles,
     StepRestByCycles DEF WdtIInv
<1> QED BY <1>1, WdtInitIInv, PTL DEF WdtSpec

\* The hardware's clock never passes the window, and no counter leaves its range.
THEOREM WatchdogTypeCorrect == WdtSpec => []WdtTypeOK
<1>1. WdtIInv => WdtTypeOK BY DEF WdtIInv
<1> QED BY <1>1, WdtInvariant, PTL

\* cycles_no_rx_signal stays far from the wrap of its uint8_t: with six counted
\* cycles the hardware expires before the thread counts again (rnb_utils.c:867-893).
THEOREM CounterNeverWraps == WdtSpec => []CountStaysSmall
<1>1. WdtIInv => CountStaysSmall
  BY DEF WdtIInv, FedByCycles, CountStaysSmall, MAX_WDT_CYCLES_NO_RX_SIGNAL
<1> QED BY <1>1, WdtInvariant, PTL

\* A started node that hears nothing is reset within 8 * Period + 5 * Late.
THEOREM DeafNodesAreReset == WdtSpec => []DeafNodeIsReset
<1>1. WdtIInv => DeafNodeIsReset
  BY Lengths, ElapsedIsBounded, CountIsSmall
  DEF WdtIInv, WdtTypeOK, FedByCycles, DeafByCycles, DeafNodeIsReset
<1> QED BY <1>1, WdtInvariant, PTL

\* A node that heard something within 5 * Period is not reset, wherever the signal
\* slips in between the steps of the thread.
THEOREM OnlyDeafNodesAreReset == WdtSpec => []ResetOnlyWhenDeaf
<1>1. WdtIInv => ResetOnlyWhenDeaf
  BY Lengths, ElapsedIsBounded, CountIsSmall
  DEF WdtIInv, WdtTypeOK, FedByCycles, SilentForCycles, ResetOnlyWhenDeaf, Expired
<1> QED BY <1>1, WdtInvariant, PTL

\* A node that has been at rest for Period + 2 * Late has no cycles counted.
THEOREM RestIsNeverCounted == WdtSpec => []RestIsNotCounted
<1>1. WdtIInv => RestIsNotCounted
  BY Lengths, ElapsedIsBounded DEF WdtIInv, WdtTypeOK, RestByCycles, RestIsNotCounted
<1> QED BY <1>1, WdtInvariant, PTL

--------------------------------------------------------------------------------
(* RnbSntp                                                                  *)

\* n seconds are time t, in ticks, without its fraction of a second.
IsWhole(n, t) == n * Second <= t /\ t < n * Second + Second

\* Between the answer and the reference the thread's delay is counted.
AnswerIsRecent ==
  spc = "answered" => held <= uptime /\ IsWhole(seconds, Epoch + (uptime - held))

\* Once the reference is taken it is late by the thread's delay at most.
ReferenceFitsAnswer ==
  spc # "answered" /\ (synchronized \/ spc = "referenced") =>
    \E h \in 0 .. Held : IsWhole(seconds, Epoch + (reference - h))

\* A call that is not cut has read the clock as it is.
CallSeesTheClock ==
  reading /\ ~torn =>
    /\ synchronized /\ spc # "answered"
    /\ called <= uptime /\ reference <= called
    /\ got["uptime"] = NotRead \/ got["uptime"] \in called .. uptime
    /\ got["reference"] \in {NotRead, reference}
    /\ got["seconds"] \in {NotRead, seconds}

\* The reference lies in the past.
ReferenceIsPast == reference <= uptime

IInv ==
  TypeOK /\ AnswerIsRecent /\ ReferenceFitsAnswer /\ ReferenceIsPast /\ CallSeesTheClock

--------------------------------------------------------------------------------
\* The division leaves less than a second.
LEMMA WholeIsWhole ==
  ASSUME NEW t \in Nat
  PROVE  Whole(t) \in Nat /\ IsWhole(Whole(t), t)
BY SntpAssumption DEF Whole, IsWhole

\* A call begins with nothing read.
LEMMA NothingRead ==
  /\ Nothing \in [Fields -> Nat \cup {NotRead}]
  /\ \A f \in Fields : Nothing[f] = NotRead
BY DEF Nothing

\* The invariant of the clock at the start.
LEMMA InitIInv == Init => IInv
<1> SUFFICES ASSUME Init PROVE IInv OBVIOUS
<1>1. got \in [Fields -> Nat \cup {NotRead}] BY NothingRead DEF Init
<1>2. 0 \in Time /\ 0 \in 0 .. Held BY SntpAssumption DEF Time
<1>3. TypeOK
  <2>1. uptime \in Time /\ seconds \in Nat /\ reference \in Time /\ called \in Time
    BY <1>2 DEF Init
  <2>2. held \in 0 .. Held /\ sem \in 0 .. 1 BY <1>2 DEF Init
  <2>3. /\ spc = "test" /\ synchronized \in BOOLEAN /\ connected \in BOOLEAN
        /\ reading \in BOOLEAN /\ torn \in BOOLEAN /\ asked \in BOOLEAN
    BY DEF Init
  <2> QED BY <1>1, <2>1, <2>2, <2>3 DEF TypeOK
<1>4. AnswerIsRecent /\ ReferenceFitsAnswer /\ ReferenceIsPast /\ CallSeesTheClock
  BY DEF Init, AnswerIsRecent, ReferenceFitsAnswer, ReferenceIsPast, CallSeesTheClock
<1> QED BY <1>3, <1>4 DEF IInv

\* The type invariant is preserved; SntpThread and Caller are split as in Next.
LEMMA StepTypeOK == ASSUME IInv, [Next]_vars PROVE TypeOK'
<1> USE SntpAssumption DEF IInv, TypeOK, Time, Fields, NotRead, clock, caller
<1>1. CASE Tick BY <1>1 DEF Tick
<1>2. CASE ConnectOrNot BY <1>2 DEF ConnectOrNot
<1>3. CASE Trigger BY <1>3 DEF Trigger
<1>4. CASE SntpThread
  <2>1. CASE Test BY <2>1 DEF Test
  <2>2. CASE QueryFails BY <2>2 DEF QueryFails
  <2>3. CASE QueryAnswers
    <3>1. Epoch + uptime \in Nat OBVIOUS
    <3>2. seconds' \in Nat BY <2>3, <3>1, WholeIsWhole DEF QueryAnswers
    <3> QED BY <2>3, <3>2 DEF QueryAnswers
  <2>4. CASE TakeReference BY <2>4 DEF TakeReference
  <2>5. CASE SetSynchronized BY <2>5 DEF SetSynchronized
  <2>6. CASE Close BY <2>6 DEF Close
  <2>7. CASE TakeSem BY <2>7 DEF TakeSem
  <2>8. CASE WakeUp BY <2>8 DEF WakeUp
  <2> QED
    BY <1>4, <2>1, <2>2, <2>3, <2>4, <2>5, <2>6, <2>7, <2>8 DEF SntpThread
<1>5. CASE Caller
  <2>1. CASE Call BY <2>1, NothingRead DEF Call
  <2>2. CASE Return
    <3>1. got' \in [Fields -> Nat \cup {NotRead}] BY <2>2, NothingRead DEF Return
    <3>2. called' \in Time BY <2>2 DEF Return
    <3> QED BY <2>2, <3>1, <3>2 DEF Return
  <2>3. ASSUME NEW f \in Fields, Read(f) PROVE TypeOK'
    BY <2>3 DEF Read
  <2> QED BY <1>5, <2>1, <2>2, <2>3 DEF Caller
<1>6. CASE UNCHANGED vars BY <1>6 DEF vars
<1> QED BY <1>1, <1>2, <1>3, <1>4, <1>5, <1>6 DEF Next

\* The thread's delay is counted from its answer on, until the reference.
LEMMA StepAnswer == ASSUME IInv, [Next]_vars PROVE AnswerIsRecent'
<1> USE SntpAssumption DEF IInv, TypeOK, AnswerIsRecent, Time, clock, caller
<1>1. CASE Tick
  <2>1. spc = "answered" => uptime' - held' = uptime - held BY <1>1 DEF Tick
  <2> QED BY <1>1, <2>1 DEF Tick, IsWhole
<1>2. CASE QueryAnswers
  <2>1. Epoch + uptime \in Nat /\ Epoch + (uptime - 0) = Epoch + uptime OBVIOUS
  <2>2. IsWhole(seconds', Epoch + uptime) BY <1>2, <2>1, WholeIsWhole DEF QueryAnswers
  <2>3. uptime' = uptime /\ held' = 0 BY <1>2 DEF QueryAnswers
  <2> QED BY <2>1, <2>2, <2>3 DEF IsWhole
<1>3. CASE SntpThread /\ ~QueryAnswers
  BY <1>3 DEF SntpThread, Test, QueryFails, TakeReference, SetSynchronized, Close,
              TakeSem, WakeUp
<1>4. CASE ConnectOrNot \/ Trigger \/ Caller \/ UNCHANGED vars
  BY <1>4 DEF ConnectOrNot, Trigger, Caller, Call, Return, Read, vars, IsWhole
<1> QED BY <1>1, <1>2, <1>3, <1>4 DEF Next

\* The reference is taken when the answer is as old as the delay.
LEMMA StepReference == ASSUME IInv, [Next]_vars PROVE ReferenceFitsAnswer' /\ ReferenceIsPast'
<1> USE SntpAssumption DEF IInv, TypeOK, ReferenceFitsAnswer, ReferenceIsPast, Time, clock,
                           caller, IsWhole
<1>1. CASE TakeReference
  <2>1. held \in 0 .. Held /\ IsWhole(seconds, Epoch + (uptime - held))
    BY <1>1 DEF TakeReference, AnswerIsRecent
  <2>2. seconds' = seconds /\ reference' = uptime /\ uptime' = uptime
    BY <1>1 DEF TakeReference
  <2> QED BY <2>1, <2>2
<1>2. CASE QueryAnswers BY <1>2 DEF QueryAnswers
<1>4. CASE SntpThread /\ ~QueryAnswers /\ ~TakeReference
  <2>1. UNCHANGED <<seconds, reference, uptime>>
    BY <1>4 DEF SntpThread, Test, QueryFails, SetSynchronized, Close, TakeSem, WakeUp
  <2>2. spc # "answered"
           /\ (synchronized' \/ spc' = "referenced" => synchronized \/ spc = "referenced")
    BY <1>4 DEF SntpThread, Test, QueryFails, SetSynchronized, Close, TakeSem, WakeUp
  <2> QED BY <2>1, <2>2
<1>3. CASE Tick \/ ConnectOrNot \/ Trigger \/ Caller \/ UNCHANGED vars
  BY <1>3 DEF Tick, ConnectOrNot, Trigger, Caller, Call, Return, Read, vars
<1> QED BY <1>1, <1>2, <1>3, <1>4 DEF Next

\* An uncut call: the thread's writes end it (torn), other steps leave what it has read.
LEMMA StepCall == ASSUME IInv, [Next]_vars PROVE CallSeesTheClock'
<1> USE SntpAssumption
    DEF IInv, TypeOK, CallSeesTheClock, Time, Fields, NotRead, clock, caller
<1>1. CASE Tick
  <2>1. /\ called \in Int /\ uptime \in Int /\ uptime' = uptime + 1
        /\ got["uptime"] \in Int
    BY <1>1 DEF Tick
  <2>2. UNCHANGED <<spc, clock, caller>> BY <1>1 DEF Tick
  <2>3. called .. uptime \subseteq called .. uptime' BY <2>1
  <2>4. called <= uptime => called <= uptime' BY <2>1
  <2> QED BY <2>2, <2>3, <2>4
<1>6. CASE ConnectOrNot \/ Trigger \/ UNCHANGED vars
  BY <1>6 DEF ConnectOrNot, Trigger, vars
<1>2. CASE SntpThread
  BY <1>2 DEF SntpThread, Test, QueryFails, QueryAnswers, TakeReference,
              SetSynchronized, Close, TakeSem, WakeUp
<1>3. CASE Call
  <2>1. /\ got'["uptime"] = NotRead /\ got'["reference"] = NotRead
        /\ got'["seconds"] = NotRead
    BY <1>3, NothingRead DEF Call
  <2>2. torn' = FALSE => spc' # "answered" BY <1>3 DEF Call
  <2>3. called' <= uptime' /\ reference' <= called' BY <1>3 DEF Call, ReferenceIsPast
  <2>4. synchronized' BY <1>3 DEF Call
  <2> QED BY <2>1, <2>2, <2>3, <2>4
<1>4. CASE Return BY <1>4 DEF Return
<1>5. ASSUME NEW f \in Fields, Read(f) PROVE CallSeesTheClock'
  <2>1. CASE f = "uptime" BY <1>5, <2>1 DEF Read
  <2>2. CASE f = "reference" BY <1>5, <2>2 DEF Read
  <2>3. CASE f = "seconds" BY <1>5, <2>3 DEF Read
  <2> QED BY <2>1, <2>2, <2>3
<1> QED BY <1>1, <1>2, <1>3, <1>4, <1>5, <1>6 DEF Next, Caller

\* The invariant of the clock holds.
LEMMA SntpInvariant == Spec => []IInv
<1>1. IInv /\ [Next]_vars => IInv'
  <2> SUFFICES ASSUME IInv, [Next]_vars PROVE IInv' OBVIOUS
  <2> QED BY StepTypeOK, StepAnswer, StepReference, StepCall DEF IInv
<1> QED BY <1>1, InitIInv, PTL DEF Spec

--------------------------------------------------------------------------------
\* Type invariant: the clock's variables stay in range, the semaphore keeps one
\* trigger, for every uptime and every delay.
THEOREM SntpTypeCorrect == Spec => []TypeOK
<1>1. IInv => TypeOK BY DEF IInv
<1> QED BY <1>1, SntpInvariant, PTL

\* rnb_get_unix_time, when the thread does not write during the call, returns a
\* second that has begun, and that is behind the call by the thread's delay and the
\* two roundings at most (rnb_utils.c:600-608, 675).
THEOREM UnixTimeIsRight == Spec => []ClockIsRight
<1>1. ASSUME IInv PROVE ClockIsRight
  <2> SUFFICES ASSUME reading, Complete, ~torn
               PROVE UnixTime * Second
                       \in (Epoch + called - Held - 2 * (Second - 1)) .. (Epoch + uptime)
    BY DEF ClockIsRight
  <2> DEFINE age == got["uptime"] - reference
             n == Whole(age)
  <2>1. /\ got["uptime"] \in called .. uptime /\ reference <= called
        /\ got["reference"] = reference /\ got["seconds"] = seconds
    BY <1>1 DEF IInv, CallSeesTheClock, Complete, Fields
  <2>2. PICK h \in 0 .. Held : IsWhole(seconds, Epoch + (reference - h))
    BY <1>1 DEF IInv, CallSeesTheClock, ReferenceFitsAnswer
  <2>3. called \in Int /\ uptime \in Int /\ reference \in Int /\ seconds \in Nat
    BY <1>1, SntpAssumption DEF IInv, TypeOK, Time
  <2>4. age \in Nat BY <2>1, <2>3
  <2>5. UnixTime = n + seconds BY <2>1 DEF UnixTime
  <2>6. n \in Nat /\ IsWhole(n, age) BY <2>4, WholeIsWhole
  <2> HIDE DEF n
  <2>7. (n + seconds) * Second = n * Second + seconds * Second
    BY <2>3, <2>6, SntpAssumption
  <2> QED BY <2>1, <2>2, <2>3, <2>5, <2>6, <2>7, SntpAssumption DEF IsWhole
<1> QED BY <1>1, SntpInvariant, PTL
================================================================================
