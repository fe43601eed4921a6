# Verification of the RedNodeBus samples

TLA+ modules, TLC runs and TLAPS proofs about the C code of the RedNodeBus
samples (Zephyr RTOS, OpenThread, RedNodeBus library). The programs share one
core, `samples/common/src/rnb_utils.c`, which is modelled in the most detail; the
bus of the ranging chip and the applications follow. Paths below are relative to
the repository.

## 1. The system

A node runs a RedNodeBus driver (a closed library), OpenThread, and one sample
application. `init_rnb` in `rnb_utils.c` ties them together.

| Part | State | Operations | Meets the others through |
|---|---|---|---|
| Event pool (`rnb_utils.c:105,395-425,548-566`) | `rnb_utils_events[4]` with `in_use`, `rnb_utils_event_fifo` | the driver's call `handle_rnb_user_event`; the utils thread (priority 3) | the slots, used in place by both sides, without a lock |
| Lifecycle (`:137-235,282-296,447-546,682-821`) | `rnb_configured`, `rnb_connected`, `rnb_started`, `ot_started`, `rnb_initialized` | bus events in the utils thread; `ot_init/deinit/start/stop` work items in the system work queue; button; end of `init_rnb` in main | the flags, `k_work_submit` |
| Watchdog (`:822-894`) | `cycles_no_rx_signal`, `rnb_rx_signal_received`, the hardware counter | thread (priority 5) every 30 s; RX signal of the driver | the flag, `rnb_started` |
| SNTP clock (`:79-83,248-262,568-624,669-679`) | `sntp_time`, `sntp_reference_uptime`, `sntp_synchronized`, `sntp_sem` | thread (priority 4); the CLOCK payload; `rnb_get_unix_time` in any thread | the three variables without a lock, a binary semaphore |
| Ranging SPI (`rnb_ranging_spi.c`, `rnb_ranging_port.c`) | `spi_busy`, `spi_initialized`, speed, chip select | open, close, transfers, wake-up | test-and-set under the interrupt mask for transfers only |
| Echo client (`samples/echo_client`) | the outstanding request, delayed works, receive buffer | request, reply, timeout, connection events, over UDP or bus payloads | sockets, work queue, semaphore, user payload callback |
| Socket test (`samples/socket_test`, `script/socket_test*.py`) | sequence number; the receiver's loss counters | periodic send of two threads with one text, statistics | the network |
| Battery (`samples/battery`) | ADC set-up, sample, charger pins, LED | measurement, level on a discharge curve, status callback | UDP, a pin interrupt |
| Accelerometer (`samples/accelerometer`, `script/accelerometer*.py`) | sensor trigger, sample, sequence number | trigger handler in the system work queue, send | UDP or bus payload |
| Coprocessor (`samples/coprocessor`) | none of its own | vendor properties of a spinel frame | the driver |
| Node main, LEDs, PA/LNA, boards | pins | set-up | - |

What is hard here is the interleaving: five threads or contexts of different
priority write plain `bool`s and share buffers; the kernel merges submissions of
a queued work item; events can be lost when the pool is full; calls into
OpenThread and the driver can fail one by one; timeouts race with answers. What
makes the parts correct:

* pool: an accepted event is handled once, in order and unchanged; one is only
  lost when there was no room;
* lifecycle: Thread follows the connections and disconnections the driver reports, and the
  interface is up when it was asked for, up to the reasons the code accepts;
* watchdog: a deaf node is reset in time, no other one is;
* clock: a returned time is right to its rounding; the clock gets and keeps synchronized;
* SPI: a transfer has the bus for itself, with the chip selected and the
  interface on, and nothing is left selected behind it;
* echo: no lost, doubled or mismatched reply leaves the client stuck, a timeout
  is for an unanswered request, a stopped client is quiet;
* socket test and accelerometer: the statistics count what the network lost;
* battery: the LED shows the charger, only measured voltages are sent, the level
  is monotonic and within 0..10000.

`PROJECT.json` lists the hazards at their lines.

## 2. Modules and their code

**RnbEventChannel** - the abstract specification of the event path: a queue, an
offered event that is accepted or refused, FIFO handling. Refusal is possible only
if there was no room when the event was offered, and there is room whenever fewer
than `PoolSize - 1` events are pending (one slot may belong to an event that is
handled but not returned).

**RnbEventPool** - `handle_rnb_user_event` and `rnb_utils_process_thread` one
access at a time: each test of `in_use` in the loop, claiming, filling (all of
`dev`, the event and its parameters at once: the slot is owned), `k_fifo_put`;
`k_fifo_get`, processing in place, return of the slot. `hpc` and `tpc` are the
places of the two sides. The driver calls the handler from one context, so calls
do not nest. `room` is a history variable that records whether a slot was free at
the call. `Channel` instantiates the abstract module.

**RnbUtils** - the lifecycle. `upc` is the next step of the utils thread inside
`process_rnb_utils_event`; every access to a shared flag or to the work queue is a
step. A work handler is two steps, the test of the flags (`BeginX`) and the rest
behind the OpenThread mutex (`EndX`), with every outcome of the OpenThread calls;
this is what lets the utils thread and the button run in between. `Submit` is
`k_work_submit`: an item that is queued stays in its place, one that is running can
be queued again. Events are the four bus states and a user payload, in any order:
the driver is not ours. `UtilsMayRun` is the scheduling of the start: with
`MainOutranksUtils` the utils thread does not run before `init_rnb` returned, which
holds for every sample but the battery one (`samples/battery/src/main.c:135-138`
lowers the priority of main first). History variables: `bus` (which of CONNECTED and
UNSYNCHRONIZED the driver reported last, if that report was accepted; the `Passive` events,
about which the code does nothing as far as Thread goes, leave it), `overtaken` (the last
request for that item was merged into one queued before its opposite), `asked` (the last
request for the interface), `refused` (OpenThread refused that request) and `down` (OpenThread
refused to run Thread since the bus connected, or the interface took Thread down with it).

**RnbWatchdog** - one unit of `Period` is `WATCHDOG_PERIOD / 4`. `WdtTick` passes time
while the thread sleeps, or delays the thread by at most `Late` ticks per
wake-up, between any two of its steps. `fed` is the hardware counter, which resets
the SoC at `4 * Period`; `armed` says whether `nrf5_wdt_start` got to its end. Three
history variables measure `silence` (since a signal or the last clearing of the
count), `deaf` (since a signal or the start of the node) and `idle`.

**RnbSntp** - the SNTP thread's writes one at a time; a caller reads the uptime and
the two variables in any order, as the compiler may. Uptime and the server's clock pass in
ticks, `Second` of them in a second (1000 in the code), and the server's clock is `Epoch` ticks
ahead of the uptime. As in the code the fraction of an answer is not used, and the
difference of uptimes is divided to whole seconds on its own (`Whole`, the division of C).
An answer is taken as right when it is written: its way through the network is not counted.

**RnbRangingSpi** - `rnb_ranging_spi.c`, `rnb_ranging_port.c` and
`rnb_ranging_sleep.c`. The driver of the chip is closed, so any context of it may make any
call; `MayRun` lets a context run only when no context of the same or a higher rank
is inside a call (one that sleeps in `port_wakeup` is not in the way), and a handler
begins only with the chip's interrupt enabled. `Begin` is the masked test-and-set
of `writetospi` and `readfromspi`, one step; `OpenTest`, `CloseTest`, `SetSpeed` and
`Wakeup` test first and act in later steps. `up`, `rate` and `pin` are the hardware as
against `initialized`, `cfg` and `busy`, the flags. Every transfer half and
`nrfx_spi_init` can fail. History variables: `torn` (the transfer began inside
another context's close or wake-up) and `crossed` (two contexts managed the bus at
once).

**EchoUdp** - `udp.c` and the UDP part of `echo-client.c`. `tcp` and `manager` stand
for any build. The client's thread (`cpc`), the work queue (`timer`, `wq`, `wpc`) and the
network's events are interleaved at each access to shared state; `Withdraw` is
`k_work_cancel_delayable`, which stops a delay or a queued work but not a running
handler. The network loses, doubles and reorders echoes, a full socket drops them.
Where the code leaves what C and the kernel define - initialising a work the kernel
holds, writing past `fds` - the client goes to `"undefined"` and does no
more. History: `answered` (the last request has its reply), `late` (a handler armed
the timeout behind `stop_udp`).

**EchoRnb** - `rnb-user-payload.c` and the bus part. `Deliver` writes length and buffer
in one step, since the utils thread outranks the client; `Compare` is `memcmp` one position
at a time, so a payload can replace the text in the middle. A payload is known by its
length and by which positions hold the text of a request. After an error the works are
initialised again while they may be pending: the delay is then lost, goes on, or the
client is undefined. History: `unread`, `genuine`, `counted`, `raced`.

**SocketTest** - the senders whose packets are counted: the two threads of the socket
test, in any build, with the one text they share, or the accelerometer's trigger handler;
and the statistics of their scripts, which are the same code in `socket_test.py`,
`socket_test_rnb.py`, `accelerometer.py` and `accelerometer_rnb.py`. A sender writes number
and session into the text, then sends; `send()` can block before it reads the text. The
packets of one sender (`stream`) are followed. A restart begins a new session while
packets of the old one are under way.

**Battery** - `battery_setup`, which runs before `main`; the status callback, run by the
interrupt and once by the set-up (`cb` and `seen` for each context), one pin access at a
time; and the loop of `main` with the divider, the calibration and the arithmetic of
`battery_sample` in its widths: `val * (uint64_t)full_ohm / output_ohm` is a long
division over the bytes of the 64-bit product, cut to an `int`. `excuse` records why the LED
may be wrong at the moment.

**BatteryLevel** - `battery_level_pptt`, for any curve that `battery.h` allows.

**RnbEventPool_proofs**, **RnbUtils_proofs**, **RnbTime_proofs** (watchdog and clock, which
is why the operators of RnbWatchdog that RnbSntp has too begin with `Wdt`),
**RnbRangingSpi_proofs**, **EchoUdp_proofs**, **EchoRnb_proofs**, **SocketTest_proofs**,
**Battery_proofs** - the theorems. The **MC** modules instantiate the components for TLC.
Operators marked *faulty* in a component are
variants of an action with a plausible slip; each property is checked to fail when
the variant replaces the action.

External, modelled by how the code uses them: the kernel's work queue, fifo,
semaphore and clock; OpenThread (it accepts or refuses a call); the RedNodeBus
driver; the SNTP server; the button library; the nrfx SPI driver; sockets, network and echo
server; the ADC.

## 3. Runs

| Run | Bounds | Shows |
|---|---|---|
| `mc_event_pool` | the 4 slots of the code, 2 events | ownership of slots, no overwrite, refinement of the channel, and that every call is answered and every accepted event handled |
| `mc_utils` | 2 slots | the flags follow the bus and the requests |
| `mc_watchdog` | `Period` 4, `Late` 1, counter modulo 16 | no reset without cause, a reset in time |
| `mc_sntp` | 5 ticks of uptime, 2 in a second, a delay of 1 | the clock's accuracy, retries and triggers |
| `mc_ranging_spi` | two threads and a handler, 7 MHz | exclusive use of the bus, flags against hardware, the chip select |
| `ranging_reset_pin` | the same | a disagreement: the reset pin is driven |
| `mc_echo_udp` | request lengths 1 and 2, 2 entries of `fds`, room for 2 datagrams | a retry is always scheduled, timeouts are justified, a stopped client is quiet |
| `echo_udp_fds` | the 4 entries of the code, one length | a disagreement: the array overflows |
| `echo_udp_wait` | one length | a disagreement: the client waits although it is connected |
| `mc_echo_rnb` | payloads of at most 2 positions | a retry is always scheduled, no payload is forgotten, exchanges are real |
| `mc_socket_test` | 2 starts, 3 packets each (1 of the thread that is not followed), 2 under way, one disturbance | the statistics are exact and defined |
| `mc_battery` | divider of the boards (1680 and 180 kOhm), raw -40, 0 and 16383, 2 packets | the LED, the voltages sent; the level on small curves; what the division makes of negative results |

Why the bounds are enough. Two events are told apart only by identity, and two
suffice to see one overwrite, overtake or replace another; the pool has its real
size. In `mc_utils` two slots let one event be handled while one waits and
another is lost; the four work items and their merges are there in full, and the
theorems cover every pool size. In `mc_watchdog` the late wake-ups matter as
long as three of them fit in the window (`WatchdogAssumption`: 30 s wake-ups that are
less than 10 s late); Period 5 gives the same verdicts. The bounds
`Tolerated = 5 Period`, `Bound = 8 Period + 5 Late` and
`IdleBound = Period + 2 Late` are exact: TLC refutes each one made stronger by a
tick. A modulus of 16 instead of 256 only makes a wrap of the counter easier to
reach. In `mc_sntp` five ticks hold two synchronizations with a delay
between answer and reference in each, and a call across either; with two ticks in a second and
an odd `Epoch` both roundings take a tick or none, and both ends of the bound in
`ClockIsRight` are exact: TLC refutes either one made narrower by a tick, also with 3 ticks in a
second. In `mc_ranging_spi`
three contexts of three ranks give every nesting of a call in a call in a call, and a
thread that sleeps in a wake-up below two others; 7 MHz is not a rate of the
peripheral, so rounding shows. Two lengths in `mc_echo_udp` tell a matching reply from another
one; the handlers and the two works are there in full; `fds` is smaller than in the
code to reach its end, and has its real size in the run about it. Two positions in
`mc_echo_rnb` let a payload change between two steps of `memcmp`. Three packets hold one
lost between two received and one passed by another, two starts hold a session change.
In `mc_battery` -40 is the raw value whose millivolts are negative, 16383 the full scale.

Deadlock is checked except in the runs of `EchoUdp`, where a build without connection
manager really stops after an error, and `SocketTest`, whose packets are
bounded.

What they say, with the exemptions that are part of the truth:

* `SlotOwnership`, `PendingEventStable`, `ImplementsChannel`: the missing lock is
  not missed, because only the driver sets `in_use` and only the thread clears it.
* `ThreadFollowsConnection`, `ThreadFollowsBus`, `InterfaceFollowsRequest`: Thread follows
  the last CONNECTED or UNSYNCHRONIZED of the driver, unless that report was lost for want
  of a slot, its request was merged into one queued before its opposite (`overtaken`), or
  OpenThread refused to run or was taken down with the interface (`down`); the interface follows
  the last request but for a merge or a refusal (`refused`). That is not the same as
  following the bus: the code does nothing about STOPPED (once it is configured) and
  SYNCHRONIZED (`rnb_utils.c:476-521`), so a node that is told CONNECTED and then STOPPED keeps
  `rnb_connected` and goes on running Thread, and `ThreadFollowsBus` demands just that. Without
  the exemption for merged requests TLC finds a node that stays connected without
  Thread (connect, disconnect, connect before the work queue runs), and a node that
  runs Thread without a bus (the stop is submitted at line 518 before the flag is
  cleared at 520).
* `ConfiguredNodeIsStarted`: with a main thread of low priority the start request
  after the configuration can be dropped by `rnb_utils_start`, and nothing
  repeats it; the property therefore has `MainOutranksUtils` as a premise.
* `ResetOnlyWhenDeaf`: a wiped-out RX signal costs one wake-up, never a reset
  before `5 * Period` of silence. `CountStaysSmall`: the `uint8_t` does not wrap on an
  armed node; on an unarmed one it does, without effect.
* `ClockIsRight`: the time returned is in whole seconds and never ahead. It can be behind: by the
  delay of the thread, and by just below one second for each of the two numbers that are
  rounded before they are added (`rnb_utils.c:675`), so by almost two seconds in all. The
  exemption is a call during an update; without it TLC shows the time jump by the age of
  the last synchronization, in either direction.
* `TriggerIsServed`: a trigger taken while the node is disconnected is lost.
* `OneTransfer`: the mask does its work, without exemption. `TransferHasBus`: a transfer that
  begins inside another context's `closespi`, after its test and before its flag,
  or inside a wake-up pulse does not have the bus or the chip for itself; every other one has,
  whatever it preempts. `FlagsFollowHardware` and `IdleChipDeselected` need the callers
  not to open, close or change the speed from two contexts at once.
* `WaitingClientRetries` (both clients): while the client waits, the next request is
  scheduled, queued or being sent. `TimeoutMeansNoReply`: exempt are the moment between
  the comparison and `k_work_cancel_delayable`, and a reply that is matched while a handler is under
  way, which arms the timeout behind it. `StoppedClientIsQuiet`: a handler that runs
  across `stop_udp` arms the timeout behind it, and the next start initialises a work
  the kernel holds. `WaitsForConnection`: no connection event is lost, the client waits on a
  connected network only after an error.
* `ExchangeIsReal`: a payload that comes while the client compares the one before can be
  counted for an echo it is not.
* `LossIsExact`, `ReceiverSurvives`: a network that reorders or doubles makes the loss wrong, and
  a packet from before the first one received makes the script divide by zero. So
  does the text shared by the two threads of the socket test, when `send()` of the UDP thread
  blocks before it copies.
* `LedShowsStatus`: the LED stays wrong after an edge of the power pin alone (its callback
  only logs), a pin that could not be read, and an interrupt between the reads and the write of
  the set-up. `VoltageIsMeasured`: a voltage below zero would be sent as a
  large one only with another divider than the boards have; an ADC whose first read
  failed is never calibrated.

The exemptions are as small as they can be: TLC refutes each property without
any one of them. They also say what the properties do not do. The merge of work items, the
start dropped in `samples/battery`, the clock read during an update, two contexts that manage
the bus at once, the handler that runs across `stop_udp`, the works initialised while they
are pending, the payload that replaces the one compared, the text of two threads, a network
that reorders, the ADC whose first read failed and the two ways to a wrong LED are
things that do go wrong in this code. A property that exempts one of them documents it and shows
that nothing else leads there; it does not show it absent.

Three runs show where the code does not do what is written about it:

* `ranging_reset_pin`: `setup_DWRSTnIRQ(0)` is to "put the pin back to tri-state"
  (`rnb_ranging_port.c:192`), but makes it an output whose latch is still low, which is
  how `reset_DWIC` holds the chip in reset.
* `echo_udp_fds`: `prepare_fds` (`echo-client.c:111`) appends an entry at each start and
  nothing resets `nfds`; the fifth start writes past the array.
* `echo_udp_wait`: after an error `start_client` "wait[s] for the connection"
  (`echo-client.c:230`) by the semaphore, which only the next connection event
  gives: on a network that stays up the client never comes back.

## 4. Fairness

Weak fairness of a thread's steps where the kernel schedules it: threads are
preemptive with priorities, none of them loops without blocking, handlers return.
`mc_event_pool`: a call of the handler runs to its end and the utils thread runs
while the fifo is not empty. `mc_utils`: main, the utils thread and the work queue.
`mc_sntp`: the SNTP thread (its query and its sleep have timeouts), and strong
fairness of the answer - a server that is asked again and again answers at last;
`Synchronizes` cannot hold without it. Nothing obliges the driver, the user, the
callers or the passing of time. The other runs assume no fairness: the deadlines of
`mc_watchdog` are in the state, and that a client makes progress is said of its state too - a
retry is scheduled whenever it waits - so that nothing depends on a network that answers.

## 5. Proofs

`RnbEventPool_proofs`, from `PoolAssumption` (at least one slot, `NoEvent` is not an
event). The inductive invariant adds to `TypeOK` and `SlotOwnership`: `FreeSlotAhead`
(while the search runs and there was room at the call, some slot not passed yet
is free - only the handler marks slots, so a free one stays free; this is what makes
a refusal imply that there was no room), `FilledWithEvent` (what is about to be put
is the argument of the call) and `PendingAreEvents`. From it: `PoolTypeCorrect`,
`SlotsHaveOneOwner`, `NoOverwrite` and the refinement `PoolImplementsChannel`, with
lemmas on how the pending sequence changes at its ends. That the channel has room
below `PoolSize - 1` pending events is a counting argument over the owners.

`RnbUtils_proofs`, from `UtilsAssumption`. The properties are about what is still to
come in a queue, so each is strengthened by where in the thread and in the queue
the promise is at the moment: `StartAfterFlag` (a start that is tested finds the
flag), `StopSide` and `StartSide` (Thread against the flag, between submission and
flag, in the queue, or running), `InitSide` and `DeinitSide` (the interface against
the last request), `BusSide` (the driver's last report that is not passive is queued with
passive events behind it only, or being processed, or noted) and `ConfiguredNodeIsStarted`.
Lemmas say what submitting and
taking an item do to *queued* and to *last among the two*. From it follow
`UtilsTypeCorrect`, `ThreadFollowsFlag`, `InterfaceFollows`, `StartIsRequested`,
`ThreadFollowsDriver`, for every pool size and both priorities.

`RnbTime_proofs`, second part, from `SntpAssumption`. `ClockIsRight` speaks of the end of a call, so
its invariant follows the clock and the call through their steps: `AnswerIsRecent` (the
delay since the answer is counted), `ReferenceFitsAnswer` (outside an update the reference
is late by at most `Held`), `ReferenceIsPast` and `CallSeesTheClock` (what an uncut call has
read is what the clock still is). Seconds and ticks are compared by `IsWhole`: n seconds are
a time without its fraction. `WholeIsWhole` proves that of the division; the two errors are then
added. `SntpTypeCorrect` and `UnixTimeIsRight` hold for every length of a second, every epoch,
every bound on the uptime and every delay.

`Battery_proofs`, from `BatteryAssumption` (the resistances and raw results keep the model's
products within its integers). The long division over the eight bytes is a recursive function;
`RemaindersEq` shows that the value computed byte by byte solves its equation, `DivisionIsExact`
that the quotient's bytes then are those of the quotient, and `UndividedIsExact` that
what `battery_sample` returns for a voltage that is not negative is the quotient rounded
down. `BatteryTypeCorrect` needs that a conversion to `int` stays in the range of one.
`LedShowsStatus` is not inductive as it stands. `LedInv` adds where the set-up and the two
contexts of `batt_stat_changed` can be (`PlacesOK`) and that what each has read of a pin is its
level, unless an edge waits or there is an excuse (`StatIsFresh`, `PowerIsFresh`).
`SentVoltageIsMeasured` has a hypothesis on the divider: the unsigned division must not make a
voltage below zero look like one above it, and there are resistances for which it does.
`SignOfQuotient` gives the exact criterion,
`DividerKeepsSign`: what the resistance leaves of the upper four bytes of a negative number, all
ones, is at least half of it. `BoardsKeepSign` proves it for the divider of the boards, and
`mc_battery` evaluates it there, with its consequence for every negative result of 16 bits and, in
both directions, for 3000 other dividers.
For every curve that `battery.h` allows and every voltage: the search
down the curve is a CHOOSE of the first point it stops at; that there is one follows from
the well-foundedness of the naturals (`StopExists`), the last point stopping every search.
`Neighbours` says what the points on the two sides of the stop have in common, two lemmas bound
and order the rounded quotients of the interpolation, and `LevelOfSegment` puts the level
between those of the two points. Then `LevelIsBounded` (0..10000) and
`LevelFollowsVoltage` (a higher voltage has no lower level, also across points and
in spite of the rounding). `mc_battery` evaluates the same statements on small curves.

`RnbTime_proofs`, first part, from `WatchdogAssumption`: every period and delay of which three late
wake-ups fit in the window. The deadlines follow from what a counted cycle lasts, so the
invariant bounds each clock by the number of counted cycles and the place of the thread:
`FedByCycles` (below four counts the hardware was fed in this cycle, from four on one
cycle more for each; with six counts it expires before the next test), `SilentForCycles`
(each count but the first was a cycle without a signal, or the silence had lasted already),
`DeafByCycles` (up to two cycles until the flag is cleared, one for each count, and then
as long as the hardware is not fed) and `RestByCycles`. The bounds go by case of the count:
no count is multiplied by a period, which keeps the arithmetic linear. All five invariants of
`mc_watchdog` are theorems.

`RnbRangingSpi_proofs`, from `SpiAssumption`: any finite set of contexts with any ranks. A first
invariant (`PlacesOK`, `TransferIsPlace`, `FlagIsOwned`) puts a transfer between its
test-and-set and its release: `BusHasOneUser`. `TransferHasBus` is about functions that test and act
later, and holds because of who can run: a context that goes on is above everybody who is in
a call and awake. `BusInv` says it of the places - whoever manages the bus during a
transfer was preempted by it and stands still (`ManagersAreBelow`), an opener is alone
(`OpenerIsAlone`), a flag that says more than the hardware has a closer behind it
(`DownMeansClosing`, `UnpinnedMeansClosing`), a selected chip somebody who deselects it
(`ChipIsHeld`), and a transfer that met nobody meets nobody (`NobodyInBetween`). `Phases` follows
the one manager step by step: `FlagsTellTheTruth`, and with `ChipIsHeld`
`NobodyLeavesTheChipSelected`. The rate needs that a greatest supported frequency exists
(`FrequencyIsSupported`). All five invariants of `mc_ranging_spi` are theorems.

`EchoRnb_proofs`, from `EchoRnbAssumption`. `WaitingClientRetries` and `NoPayloadSleeps` are inductive
by themselves: whoever takes the timeout or the token hands it on. `ExchangeIsReal` needs that
an unread payload is in the buffer and uncounted (`UnreadIsThere`), that the client was
woken for one (`WokenForUnread`), and that `memcmp` sees the payload whose length was read
while nothing comes in between (`ComparesTheLast`). The types are proved in two parts,
`NumbersOK` and `FlagsOK`. All four properties of `mc_echo_rnb` are theorems.

`EchoUdp_proofs`, from `EchoUdpAssumption`. A first part is about queues without doubles: what
appending, taking the head and withdrawing (`RemoveFirst`, which picks the least place of a
work) do to the set of the queued works; from there on the queue is a set. `TypeInv`
strengthens `TypeOK` by that no work is queued twice and that nobody sends before a length is
chosen. Each property then has an invariant of its own over the places of the client and
the work queue's thread. `RetryInv`: while the client is in its loop a work is delayed, queued or
being handled, whoever takes the last one. `StopInv`: who left the loop was disconnected, or had an
error. `QuietInv`: a work that is armed after its cancellation was armed by a handler that ran across it.
`AnsweredInv`: for a matched request no handler is on its way, no request is being made,
and the timeout lasts until the cancellation only. All five properties of
`mc_echo_udp` are theorems.

`SocketTest_proofs`, from `SocketTestAssumption`: any number of starts, packets and packets
under way. `Steps` first restates the next-state relation as what a sender, the node, the
network and the script do, so that all builds are treated at once. `SumInv` (received plus
lost is the distance of the numbers plus one) is inductive by itself. The loss is not; it
follows from what is in view, the packets under way and the one received last: what was sent is of
an earlier start or has an earlier number than what is to be sent (`NumberFits`, `SentBefore`);
the packets in view are in the order they were sent, and none of them is lost (`InOrder`); nothing
vanishes (`GapInv`: every number between two packets in view, and between one in view and the
next to be sent, is under way or lost; a session that began after the text was copied has no
packet yet). So the gap before the next packet received consists of lost packets (`GapIsLost`), which
are as many as its numbers by a bijection (`StretchCount`), and the count stays exact (`CountInv`).
All three properties of `mc_socket_test` are theorems.

Only model-checked: liveness (`AnswersAndDelivers`, `ThreadStops`, `Synchronizes`,
`TriggerIsServed`), which is out of the prover's reach. Every other property of a passing run is
stated by a theorem. What the theorems assume of the world is in the assumptions named and in the
specifications themselves; none speaks of fairness.

## 6. Not modelled

The simulated disconnection thread (compiled out); logging, LEDs other than the charger's,
transmit power, the PA/LNA, the EUID; initialisation errors before the threads exist; the
content of payloads and configurations; the driver, OpenThread and the kernel
beyond the calls used; the board files and build files. The coprocessor's hook and the node's
`main` keep no state. Of the port file, the empty stubs and the set-up of
pins and timers before the driver runs; of the SPI file, the mode and bit-order
constants; of the echo clients, the second VLAN interface (`init_vlan`); `battery.py`, whose
loss figure counts failed sends; the printed tables and rates. The 100 ms in which the
divider settles are an order of steps, not a time. Which role the accelerometer's `main` finds
when it looks is left open: it looks once, when it first finds the bus connected.
Reads and writes of one `bool` or pointer are atomic
on the target; the two halves of a 64-bit time are not split.

## 7. Plan

Done, with proofs: 1. event pool and channel; 2. lifecycle; 3. watchdog; 4. clock; 5. ranging
SPI; 6. both echo clients; 7. socket test and accelerometer; 8. battery.

Left: an abstract client (idle, waiting, answered, timed out) that both echo clients implement.
