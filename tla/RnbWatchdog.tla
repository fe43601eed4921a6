------------------------------- MODULE RnbWatchdog -------------------------------
(***************************************************************************)
(* The watchdog of samples/common/src/rnb_utils.c: rnb_wdt_process_thread   *)
(* wakes up every WATCHDOG_PERIOD / 4, counts the wake-ups of a started     *)
(* node at which no RX signal was noted since the one before, and stops     *)
(* feeding the hardware at four of them. The driver notes RX signals in an  *)
(* interrupt, between any two steps of the thread, and rnb_started changes  *)
(* under its feet. Time is discrete; a wake-up can be late. The names that  *)
(* RnbSntp has too begin with Wdt: RnbTime_proofs is about both.            *)
(***************************************************************************)
EXTENDS Naturals

CONSTANTS
  Period,      \* WATCHDOG_PERIOD / 4, in ticks
  Late,        \* how late a wake-up can be, and how long its code can be preempted
  CycleMod     \* the counter is a uint8_t: 256

MAX_WDT_CYCLES_NO_RX_SIGNAL == 4
Window == 4 * Period                     \* WATCHDOG_PERIOD

ASSUME WatchdogAssumption ==
  /\ Period \in Nat \ {0}
  /\ Late \in Nat /\ 3 * (Period + Late) < Window
  /\ CycleMod \in Nat /\ CycleMod > 2 * MAX_WDT_CYCLES_NO_RX_SIGNAL

VARIABLES
  armed,       \* nrf5_wdt_start got to the end
  fed,         \* ticks since the hardware was fed or set up
  wpc,         \* the thread: sleep, count, clear, feed
  due,         \* ticks until its sleep ends
  lag,         \* ticks it is late
  cycles,      \* cycles_no_rx_signal
  rx,          \* rnb_rx_signal_received
  started,     \* rnb_started
  \* history
  silence,     \* ticks without an RX signal since the count was cleared; once
               \* it has lasted for Tolerated it stays so until it is cleared
  deaf,        \* ticks since the last RX signal or since the node is started
  idle         \* ticks since the node is not started

wvars == <<wpc, due, lag, cycles>>
wdt_vars == <<armed, fed, wpc, due, lag, cycles, rx, started, silence, deaf, idle>>

\* The silence a started node survives in any case, and the one after which it
\* has been reset in any case.
Tolerated == 5 * Period
Bound == 8 * Period + 5 * Late
\* After this long at rest the thread has seen that the node is not started.
IdleBound == Period + 2 * Late

\* The hardware resets the SoC: nothing else happens any more.
Expired == armed /\ fed = Window

UpTo(n, bound) == IF n > bound THEN bound ELSE n

\* From nrf5_wdt_start on, which can fail before the hardware is set up.
Boot(a) ==
  /\ armed' = a /\ fed' = 0
  /\ wpc' = "sleep" /\ due' = 0 /\ lag' = 0 /\ cycles' = 0
  /\ rx' = FALSE /\ started' = FALSE /\ silence' = 0 /\ deaf' = 0 /\ idle' = 0

WdtInit ==
  /\ armed \in BOOLEAN /\ fed = 0
  /\ wpc = "sleep" /\ due = 0 /\ lag = 0 /\ cycles = 0
  /\ rx = FALSE /\ started = FALSE /\ silence = 0 /\ deaf = 0 /\ idle = 0

--------------------------------------------------------------------------------
\* A tick passes while the thread sleeps, or holds it up.
WdtTick ==
  /\ IF due > 0 THEN due' = due - 1 /\ lag' = lag
                ELSE lag < Late /\ lag' = lag + 1 /\ due' = due
  /\ fed' = IF armed THEN fed + 1 ELSE fed
  /\ silence' = UpTo(silence + 1, Tolerated)
  /\ deaf' = IF started THEN UpTo(deaf + 1, Bound + 1) ELSE 0
  /\ idle' = IF started THEN 0 ELSE UpTo(idle + 1, IdleBound + 1)
  /\ UNCHANGED <<armed, wpc, cycles, rx, started>>

\* The SoC starts again.
Reset == Expired /\ \E a \in BOOLEAN : Boot(a)

\* handle_rnb_user_rxtx_signal, REDNODEBUS_USER_RX_SIGNAL
RxSignal ==
  /\ rx' = TRUE /\ deaf' = 0
  /\ silence' = IF silence = Tolerated THEN silence ELSE 0
  /\ UNCHANGED <<armed, fed, wvars, started, idle>>

\* ot_init_work_handler and ot_deinit_work_handler
StartStop ==
  /\ started' = ~started /\ deaf' = 0 /\ idle' = 0
  /\ UNCHANGED <<armed, fed, wvars, rx, silence>>

--------------------------------------------------------------------------------
(* rnb_wdt_process_thread                                                   *)

IgnoreStarted ==            \* faulty: an idle node is counted too
  /\ wpc = "sleep" /\ due = 0
  /\ wpc' = IF ~rx THEN "count" ELSE "clear"
  /\ UNCHANGED <<armed, fed, due, lag, cycles, rx, started, silence, deaf, idle>>

WdtTest ==
  /\ wpc = "sleep" /\ due = 0
  /\ wpc' = IF started /\ ~rx THEN "count" ELSE "clear"
  /\ UNCHANGED <<armed, fed, due, lag, cycles, rx, started, silence, deaf, idle>>

WdtCount ==
  /\ wpc = "count"
  /\ cycles' = (cycles + 1) % CycleMod
  /\ wpc' = "feed"
  /\ UNCHANGED <<armed, fed, due, lag, rx, started, silence, deaf, idle>>

ClearFlagOnly ==            \* faulty: cycles_no_rx_signal = 0 is missing
  /\ wpc = "clear"
  /\ rx' = FALSE
  /\ silence' = 0
  /\ wpc' = "feed"
  /\ UNCHANGED <<armed, fed, due, lag, cycles, started, deaf, idle>>

ClearCyclesOnly ==          \* faulty: rnb_rx_signal_received = false is missing
  /\ wpc = "clear"
  /\ cycles' = 0
  /\ silence' = 0
  /\ wpc' = "feed"
  /\ UNCHANGED <<armed, fed, due, lag, rx, started, deaf, idle>>

WdtClear ==
  /\ wpc = "clear"
  /\ rx' = FALSE /\ cycles' = 0
  /\ silence' = 0
  /\ wpc' = "feed"
  /\ UNCHANGED <<armed, fed, due, lag, started, deaf, idle>>

SleepTwice ==               \* faulty: WATCHDOG_PERIOD / 2
  /\ wpc = "feed"
  /\ fed' = IF cycles < MAX_WDT_CYCLES_NO_RX_SIGNAL THEN 0 ELSE fed
  /\ wpc' = "sleep" /\ due' = 2 * Period /\ lag' = 0
  /\ UNCHANGED <<armed, cycles, rx, started, silence, deaf, idle>>

FeedAlways ==               \* faulty: the hardware is fed whatever the count is
  /\ wpc = "feed"
  /\ fed' = 0
  /\ wpc' = "sleep" /\ due' = Period /\ lag' = 0
  /\ UNCHANGED <<armed, cycles, rx, started, silence, deaf, idle>>

\* wdt_feed below the limit, then k_sleep.
WdtFeed ==
  /\ wpc = "feed"
  /\ fed' = IF cycles < MAX_WDT_CYCLES_NO_RX_SIGNAL THEN 0 ELSE fed
  /\ wpc' = "sleep" /\ due' = Period /\ lag' = 0
  /\ UNCHANGED <<armed, cycles, rx, started, silence, deaf, idle>>

\* Nothing happens between the expiry and the reset.
WdtNext ==
  \/ Reset
  \/ ~Expired /\ WdtTick
  \/ ~Expired /\ RxSignal
  \/ ~Expired /\ StartStop
  \/ ~Expired /\ WdtTest
  \/ ~Expired /\ WdtCount
  \/ ~Expired /\ WdtClear
  \/ ~Expired /\ WdtFeed

WdtSpec == WdtInit /\ [][WdtNext]_wdt_vars

--------------------------------------------------------------------------------
WdtTypeOK ==
  /\ armed \in BOOLEAN /\ fed \in 0 .. Window
  /\ wpc \in {"sleep", "count", "clear", "feed"}
  /\ due \in 0 .. Period /\ lag \in 0 .. Late
  /\ cycles \in 0 .. CycleMod - 1
  /\ rx \in BOOLEAN /\ started \in BOOLEAN
  /\ silence \in 0 .. Tolerated /\ deaf \in 0 .. Bound + 1
  /\ idle \in 0 .. IdleBound + 1

\* The counter never gets near the wrap of its uint8_t, which would feed a deaf
\* node again: the hardware expires first.
CountStaysSmall == armed => cycles <= MAX_WDT_CYCLES_NO_RX_SIGNAL + 2

\* Expired in time: a started node that hears nothing is reset within twice the
\* watchdog's window, whatever RX signal slipped in around the thread's tests.
DeafNodeIsReset == armed => deaf <= Bound

\* No reset without cause: a node is only reset after Tolerated ticks without
\* an RX signal, though a signal noted between the thread's test and its
\* clearing of the flag is wiped out, and one noted too late does not help.
ResetOnlyWhenDeaf == Expired => silence = Tolerated

\* A node at rest is not taken for a deaf one: the thread only sees rnb_started
\* at its tests, but once the node has rested for IdleBound nothing is counted.
RestIsNotCounted == idle > IdleBound => cycles = 0
================================================================================
