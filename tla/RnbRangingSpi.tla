------------------------------ MODULE RnbRangingSpi ------------------------------
(***************************************************************************)
(* The bus of the ranging chip: samples/common/src/rnb_ranging_spi.c and    *)
(* rnb_ranging_port.c. The ranging driver is closed: any context of it, a    *)
(* thread or the handler of the chip's interrupt, may make any call at any   *)
(* time, except that a handler does not sleep. A context runs until it ends  *)
(* its call, sleeps, or is preempted by one of a higher rank. The two        *)
(* transfers test and set spi_busy with interrupts masked; the other         *)
(* functions test first and act later.                                       *)
(***************************************************************************)
EXTENDS Integers, FiniteSetsExt

CONSTANTS
  Contexts,       \* the contexts that use the bus
  Rank,           \* [Contexts -> Nat]: who preempts whom
  Handlers,       \* the contexts that are interrupt handlers of the chip
  MaxFrequency    \* spi_max_frequency of the device tree, in kHz

Directions == {"write", "read"}
Speeds == {"slow", "fast"}
\* NRF_SPI_FREQ_125K .. NRF_SPI_FREQ_8M, in kHz.
Supported == {125, 250, 500, 1000, 2000, 4000, 8000}

ASSUME SpiAssumption ==
  /\ IsFiniteSet(Contexts) /\ Handlers \subseteq Contexts
  /\ Rank \in [Contexts -> Nat]
  /\ MaxFrequency \in Nat /\ MaxFrequency >= 125

VARIABLES
  known,          \* driver_initialized
  initialized,    \* spi_initialized
  busy,           \* spi_busy
  cfg,            \* spi_cfg
  up,             \* the nrfx driver is initialised
  rate,           \* the clock rate of the peripheral, in kHz
  pin,            \* the chip select
  rst,            \* the reset pin; its output latch is 0 from power-up on
  irq,            \* the chip's interrupt is enabled
  pc,             \* what each context does next
  xfer,           \* the transfer a context is in
  \* history
  torn,           \* the transfer began inside another context's close or wake-up
  crossed         \* two contexts were in open, close or speed calls at once

hist == <<torn, crossed>>
bus == <<known, initialized, busy, cfg, up, rate, pin>>
vars == <<bus, rst, irq, pc, xfer, hist>>

NextFrequencyUp(f) ==       \* faulty: the lowest frequency that is not below it
  Min({s \in Supported : s >= f} \cup {8000})

\* The highest supported frequency that does not exceed the requested one.
get_nrf_spi_frequency(f) == Max({125} \cup {s \in Supported : s <= f})
RateOf(speed) == get_nrf_spi_frequency(IF speed = "slow" THEN 2000 ELSE MaxFrequency)

Asleep == {"hold", "settle"}
Managing == {"nrfx", "pins", "flag", "uninit", "unpin", "unflag", "slow", "fast"}

Init ==
  /\ known = FALSE /\ initialized = FALSE /\ busy = FALSE /\ cfg = "none"
  /\ up = FALSE /\ rate = RateOf("slow") /\ pin = "disconnected"
  /\ rst = "disconnected" /\ irq = FALSE
  /\ pc = [c \in Contexts |-> "idle"] /\ xfer = [c \in Contexts |-> "none"]
  /\ torn = [c \in Contexts |-> FALSE] /\ crossed = FALSE

\* No other context is in the way, and a call may begin.
MayRun(c) ==
  \A d \in Contexts \ {c} : pc[d] \in {"idle"} \cup Asleep \/ Rank[d] < Rank[c]
At(c, step) == pc[c] = step /\ MayRun(c)
Enter(c) == At(c, "idle") /\ (c \in Handlers => irq)
Goto(c, step) == pc' = [pc EXCEPT ![c] = step]
Others(c, steps) == \E d \in Contexts \ {c} : pc[d] \in steps
Cross(c) == crossed' = (crossed \/ Others(c, Managing))

\* gpio_pin_set_dt reaches the chip only while the pin is connected.
SetPin(level) == pin' = IF pin = "disconnected" THEN pin ELSE level

--------------------------------------------------------------------------------
(* openspi and closespi. A call that is refused changes nothing.            *)

OpenTest(c) ==
  /\ Enter(c) /\ ~busy
  /\ known' = TRUE
  /\ ~initialized
  /\ cfg' = "slow"
  /\ Goto(c, "nrfx") /\ Cross(c)
  /\ UNCHANGED <<initialized, busy, up, rate, pin, rst, irq, xfer, torn>>

\* nrfx_spi_init refuses a driver that is up, and can fail otherwise.
OpenInit(c) ==
  /\ At(c, "nrfx")
  /\ \/ ~up /\ up' = TRUE /\ rate' = RateOf(cfg) /\ Goto(c, "pins")
     \/ UNCHANGED <<up, rate>> /\ Goto(c, "idle")
  /\ UNCHANGED <<known, initialized, busy, cfg, pin, rst, irq, xfer, hist>>

OpenPins(c) ==
  /\ At(c, "pins")
  /\ pin' = "inactive"
  /\ Goto(c, "flag")
  /\ UNCHANGED <<known, initialized, busy, cfg, up, rate, rst, irq, xfer, hist>>

OpenFlag(c) ==
  /\ At(c, "flag")
  /\ initialized' = TRUE
  /\ Goto(c, "idle")
  /\ UNCHANGED <<known, busy, cfg, up, rate, pin, rst, irq, xfer, hist>>

CloseAnyway(c) ==           \* faulty: the test of spi_busy is missing
  /\ Enter(c) /\ initialized
  /\ Goto(c, "uninit") /\ Cross(c)
  /\ UNCHANGED <<bus, rst, irq, xfer, torn>>

CloseTest(c) ==
  /\ Enter(c) /\ ~busy /\ initialized
  /\ Goto(c, "uninit") /\ Cross(c)
  /\ UNCHANGED <<bus, rst, irq, xfer, torn>>

CloseUninit(c) ==
  /\ At(c, "uninit")
  /\ up' = FALSE
  /\ Goto(c, "unpin")
  /\ UNCHANGED <<known, initialized, busy, cfg, rate, pin, rst, irq, xfer, hist>>

CloseWithoutPins(c) ==      \* faulty: the chip select stays configured
  /\ At(c, "unpin")
  /\ Goto(c, "unflag")
  /\ UNCHANGED <<bus, rst, irq, xfer, hist>>

ClosePins(c) ==
  /\ At(c, "unpin")
  /\ pin' = "disconnected"
  /\ Goto(c, "unflag")
  /\ UNCHANGED <<known, initialized, busy, cfg, up, rate, rst, irq, xfer, hist>>

CloseFlag(c) ==
  /\ At(c, "unflag")
  /\ initialized' = FALSE
  /\ Goto(c, "idle")
  /\ UNCHANGED <<known, busy, cfg, up, rate, pin, rst, irq, xfer, hist>>

--------------------------------------------------------------------------------
(* set_spi_speed_slow and set_spi_speed_fast                                *)

\* The test and the assignment; the new rate is written at the next step.
Choose(c, s) ==
  /\ IF initialized /\ ~busy /\ cfg # s THEN cfg' = s /\ Goto(c, s)
                                        ELSE cfg' = cfg /\ Goto(c, "idle")
  /\ Cross(c)
  /\ UNCHANGED <<known, initialized, busy, up, rate, pin, rst, irq, xfer, torn>>

SetSpeed(c, s) ==
  /\ Enter(c) /\ initialized /\ ~busy /\ cfg # s
  /\ Choose(c, s)

\* spi_cfg may be read again, or not.
SetFrequency(c) ==
  /\ pc[c] \in Speeds /\ MayRun(c)
  /\ rate' \in {RateOf(pc[c]), RateOf(cfg)}
  /\ Goto(c, "idle")
  /\ UNCHANGED <<known, initialized, busy, cfg, up, pin, rst, irq, xfer, hist>>

--------------------------------------------------------------------------------
(* writetospi and readfromspi                                               *)

\* With the interrupts masked: one step.
Begin(c, d) ==
  /\ Enter(c) /\ initialized /\ ~busy
  /\ busy' = TRUE
  /\ xfer' = [xfer EXCEPT ![c] = d]
  /\ torn' = [torn EXCEPT ![c] = Others(c, {"unpin", "unflag", "on", "hold", "off"})]
  /\ Goto(c, "select")
  /\ UNCHANGED <<known, initialized, cfg, up, rate, pin, rst, irq, crossed>>

WriteWithoutTest(c) ==      \* faulty: the test of spi_busy is missing
  /\ Enter(c) /\ initialized
  /\ busy' = TRUE
  /\ xfer' = [xfer EXCEPT ![c] = "write"]
  /\ torn' = [torn EXCEPT ![c] = Others(c, {"unpin", "unflag", "on", "hold", "off"})]
  /\ Goto(c, "select")
  /\ UNCHANGED <<known, initialized, cfg, up, rate, pin, rst, irq, crossed>>

writetospi(c) == Begin(c, "write")
readfromspi(c) == Begin(c, "read")

Select(c) ==
  /\ At(c, "select")
  /\ SetPin("active")
  /\ Goto(c, "header")
  /\ UNCHANGED <<known, initialized, busy, cfg, up, rate, rst, irq, xfer, hist>>

\* Each nrfx_spi_xfer can fail; both ways lead to the exit.
HeaderXfer(c) ==
  /\ At(c, "header")
  /\ \E next \in {"body", "exit"} : Goto(c, next)
  /\ UNCHANGED <<bus, rst, irq, xfer, hist>>

BodyXfer(c, d) ==
  /\ At(c, "body") /\ xfer[c] = d
  /\ Goto(c, "exit")
  /\ UNCHANGED <<bus, rst, irq, xfer, hist>>

WriteBody(c) == BodyXfer(c, "write")

ReturnOnError(c) ==         \* faulty: return -EIO instead of goto exit
  /\ At(c, "body") /\ xfer[c] = "read"
  /\ \/ Goto(c, "exit") /\ UNCHANGED <<bus, xfer>>
     \/ /\ Goto(c, "idle") /\ busy' = FALSE
        /\ xfer' = [xfer EXCEPT ![c] = "none"]
        /\ UNCHANGED <<known, initialized, cfg, up, rate, pin>>
  /\ UNCHANGED <<rst, irq, hist>>

ReadBody(c) == BodyXfer(c, "read")

Deselect(c) ==
  /\ At(c, "exit")
  /\ SetPin("inactive")
  /\ Goto(c, "release")
  /\ UNCHANGED <<known, initialized, busy, cfg, up, rate, rst, irq, xfer, hist>>

Release(c) ==
  /\ At(c, "release")
  /\ busy' = FALSE
  /\ xfer' = [xfer EXCEPT ![c] = "none"] /\ torn' = [torn EXCEPT ![c] = FALSE]
  /\ Goto(c, "idle")
  /\ UNCHANGED <<known, initialized, cfg, up, rate, pin, rst, irq, crossed>>

--------------------------------------------------------------------------------
(* port_wakeup: activate_cs, 1 ms, deactivate_cs, 2 ms, the fast rate. A      *)
(* refusal of activate_cs or deactivate_cs is not looked at.                  *)

Wakeup(c) ==
  /\ Enter(c) /\ c \notin Handlers
  /\ Goto(c, IF initialized /\ ~busy THEN "on" ELSE "hold")
  /\ UNCHANGED <<bus, rst, irq, xfer, hist>>

activate_cs(c) ==
  /\ At(c, "on")
  /\ SetPin("active")
  /\ Goto(c, "hold")
  /\ UNCHANGED <<known, initialized, busy, cfg, up, rate, rst, irq, xfer, hist>>

WakeupTest(c) ==
  /\ At(c, "hold")
  /\ Goto(c, IF initialized /\ ~busy THEN "off" ELSE "settle")
  /\ UNCHANGED <<bus, rst, irq, xfer, hist>>

deactivate_cs(c) ==
  /\ At(c, "off")
  /\ SetPin("inactive")
  /\ Goto(c, "settle")
  /\ UNCHANGED <<known, initialized, busy, cfg, up, rate, rst, irq, xfer, hist>>

WakeupRate(c) == At(c, "settle") /\ Choose(c, "fast")

--------------------------------------------------------------------------------
(* The reset pin and the interrupt. GPIO_OUTPUT leaves the latch as it is.    *)

SetRst(c, mode, step) ==
  /\ rst' = mode
  /\ Goto(c, step)
  /\ UNCHANGED <<bus, irq, xfer, hist>>

reset_DWIC(c) == Enter(c) /\ SetRst(c, "driven", "reset")
ResetDone(c) == At(c, "reset") /\ SetRst(c, "disconnected", "idle")
\* An open-drain output with either value of enable, and the latch is not set: the
\* pin is driven low. With enable the edge interrupt is asked for as well.
setup_DWRSTnIRQ(c, enable) ==
  Enter(c) /\ SetRst(c, IF enable THEN "driven_irq" ELSE "driven", "idle")

SetIrq(c, on) ==
  /\ Enter(c) /\ irq' = on
  /\ UNCHANGED <<bus, rst, pc, xfer, hist>>

port_EnableEXT_IRQ(c) == SetIrq(c, TRUE)
port_DisableEXT_IRQ(c) == SetIrq(c, FALSE)
\* It installs the handler, and disables the interrupt.
port_set_dwic_isr(c) == SetIrq(c, FALSE)

Next ==
  \/ \E c \in Contexts : OpenTest(c)
  \/ \E c \in Contexts : OpenInit(c)
  \/ \E c \in Contexts : OpenPins(c)
  \/ \E c \in Contexts : OpenFlag(c)
  \/ \E c \in Contexts : CloseTest(c)
  \/ \E c \in Contexts : CloseUninit(c)
  \/ \E c \in Contexts : ClosePins(c)
  \/ \E c \in Contexts : CloseFlag(c)
  \/ \E c \in Contexts, s \in Speeds : SetSpeed(c, s)
  \/ \E c \in Contexts : SetFrequency(c)
  \/ \E c \in Contexts : writetospi(c)
  \/ \E c \in Contexts : readfromspi(c)
  \/ \E c \in Contexts : Select(c)
  \/ \E c \in Contexts : HeaderXfer(c)
  \/ \E c \in Contexts : WriteBody(c)
  \/ \E c \in Contexts : ReadBody(c)
  \/ \E c \in Contexts : Deselect(c)
  \/ \E c \in Contexts : Release(c)
  \/ \E c \in Contexts : Wakeup(c)
  \/ \E c \in Contexts : activate_cs(c)
  \/ \E c \in Contexts : WakeupTest(c)
  \/ \E c \in Contexts : deactivate_cs(c)
  \/ \E c \in Contexts : WakeupRate(c)
  \/ \E c \in Contexts : reset_DWIC(c)
  \/ \E c \in Contexts : ResetDone(c)
  \/ \E c \in Contexts, enable \in BOOLEAN : setup_DWRSTnIRQ(c, enable)
  \/ \E c \in Contexts : port_EnableEXT_IRQ(c)
  \/ \E c \in Contexts : port_DisableEXT_IRQ(c)
  \/ \E c \in Contexts : port_set_dwic_isr(c)

Spec == Init /\ [][Next]_vars

--------------------------------------------------------------------------------
TypeOK ==
  /\ known \in BOOLEAN /\ initialized \in BOOLEAN /\ busy \in BOOLEAN
  /\ cfg \in Speeds \cup {"none"} /\ up \in BOOLEAN
  /\ rate \in Supported /\ (rate <= 2000 \/ rate <= MaxFrequency)
  /\ pin \in {"disconnected", "inactive", "active"}
  /\ rst \in {"disconnected", "driven", "driven_irq"} /\ irq \in BOOLEAN
  /\ pc \in [Contexts -> {"idle", "select", "header", "body", "exit", "release", "on",
                          "off", "reset"} \cup Asleep \cup Managing]
  /\ xfer \in [Contexts -> Directions \cup {"none"}]
  /\ torn \in [Contexts -> BOOLEAN] /\ crossed \in BOOLEAN

\* Exclusive use: spi_busy is set when and only when a transfer is going on, and
\* there is one, whichever contexts ask for the bus and wherever it fails.
OneTransfer ==
  LET InTransfer == {c \in Contexts : xfer[c] # "none"}
  IN  Cardinality(InTransfer) = IF busy THEN 1 ELSE 0

\* A transfer finds the bus up and the chip deselected, and keeps the chip
\* selected until it is through, although open, close and the chip select
\* functions test spi_busy without the mask and act later. The exceptions are a
\* transfer that begins between the first action of closespi and its flag, or
\* inside a wake-up pulse.
TransferHasBus ==
  \A c \in Contexts : xfer[c] # "none" /\ ~torn[c] =>
    /\ up /\ initialized
    /\ pc[c] = "select" => pin = "inactive"
    /\ pc[c] \in {"header", "body", "exit"} => pin = "active"

\* Between calls the flags tell the truth about the hardware: the bus is up, its
\* pin connected and its rate the chosen one. It takes two contexts that open,
\* close or change the speed at once to break this.
FlagsFollowHardware ==
  ~crossed /\ (\A c \in Contexts : pc[c] \notin Managing) =>
    /\ initialized = up /\ up = (pin # "disconnected")
    /\ up => known /\ rate = RateOf(cfg)

\* Nobody leaves the chip selected: with no call going on, the chip select is not
\* asserted, though calls fail midway, wake-ups are refused their second half
\* and the bus is closed and opened during a pulse.
IdleChipDeselected ==
  ~crossed /\ (\A c \in Contexts : pc[c] = "idle") => pin # "active"

\* setup_DWRSTnIRQ(0) claims to leave the reset pin tri-state, "not active": then
\* only reset_DWIC would ever drive it. (What setup_DWRSTnIRQ(1) drives, with the
\* interrupt, is not looked at here.)
ResetOnlyDrivenByReset ==
  rst = "driven" => \E c \in Contexts : pc[c] = "reset"
================================================================================
