--------------------------- MODULE RnbRangingSpi_proofs ---------------------------
(***************************************************************************)
(* Proofs about RnbRangingSpi, for any set of contexts with any ranks: the    *)
(* bus is used by one transfer at a time, and spi_busy says so; a transfer    *)
(* has the bus and the chip select to itself; between calls the flags agree   *)
(* with the hardware and the chip is deselected; the types.                   *)
(***************************************************************************)
EXTENDS RnbRangingSpi, FiniteSetTheorems, TLAPS

Inside == {"select", "header", "body", "exit", "release"}
Outside == {"idle", "on", "off", "reset"} \cup Asleep \cup Managing

\* Where a context is in its call.
PlacesOK ==
  /\ pc \in [Contexts -> Inside \cup Outside]
  /\ xfer \in [Contexts -> Directions \cup {"none"}]

\* A context is in a transfer from its test-and-set to its release.
TransferIsPlace == \A c \in Contexts : xfer[c] # "none" <=> pc[c] \in Inside

\* The flag belongs to the one transfer.
FlagIsOwned ==
  /\ \A c, d \in Contexts : xfer[c] # "none" /\ xfer[d] # "none" => c = d
  /\ busy <=> \E c \in Contexts : xfer[c] # "none"

IInv == PlacesOK /\ TransferIsPlace /\ FlagIsOwned

--------------------------------------------------------------------------------
LEMMA InitIInv == Init => IInv
BY DEF Init, IInv, PlacesOK, TransferIsPlace, FlagIsOwned, Inside, Outside

\* A context that goes on outside its transfers, or inside one, changes nothing
\* for the others.
LEMMA KeepsPlace ==
  ASSUME IInv, NEW c \in Contexts, NEW step, Goto(c, step), xfer' = xfer, busy' = busy,
         (pc[c] \in Inside /\ step \in Inside) \/ (pc[c] \in Outside /\ step \in Outside)
  PROVE  IInv'
<1>1. Inside \cap Outside = {} BY DEF Inside, Outside, Asleep, Managing
<1>2. PlacesOK' BY DEF IInv, PlacesOK, Goto
<1>3. TransferIsPlace' BY <1>1 DEF IInv, PlacesOK, TransferIsPlace, Goto
<1>4. FlagIsOwned' BY DEF IInv, FlagIsOwned
<1> QED BY <1>2, <1>3, <1>4 DEF IInv

\* The flag was clear, so nobody else is in a transfer.
LEMMA BeginKeeps == ASSUME IInv, NEW c \in Contexts, NEW d \in Directions, Begin(c, d) PROVE IInv'
<1>1. /\ ~busy /\ busy' /\ xfer' = [xfer EXCEPT ![c] = d] /\ pc' = [pc EXCEPT ![c] = "select"]
  BY DEF Begin, Goto
<1>2. d # "none" BY DEF Directions
<1>3. PlacesOK' BY <1>1 DEF IInv, PlacesOK, Inside
<1>4. TransferIsPlace' BY <1>1, <1>2 DEF IInv, PlacesOK, TransferIsPlace, Inside
<1>5. \A e \in Contexts : xfer[e] = "none" BY <1>1 DEF IInv, FlagIsOwned
<1>6. FlagIsOwned' BY <1>1, <1>2, <1>5 DEF IInv, PlacesOK, FlagIsOwned
<1> QED BY <1>3, <1>4, <1>6 DEF IInv

\* The transfer that ends was the only one.
LEMMA ReleaseKeeps == ASSUME IInv, NEW c \in Contexts, Release(c) PROVE IInv'
<1>1. /\ pc[c] = "release" /\ ~busy'
      /\ xfer' = [xfer EXCEPT ![c] = "none"] /\ pc' = [pc EXCEPT ![c] = "idle"]
  BY DEF Release, At, Goto
<1>2. xfer[c] # "none" BY <1>1 DEF IInv, TransferIsPlace, Inside
<1>3. PlacesOK' BY <1>1 DEF IInv, PlacesOK, Inside, Outside
<1>4. TransferIsPlace' BY <1>1 DEF IInv, PlacesOK, TransferIsPlace, Inside
<1>5. \A e \in Contexts : xfer'[e] = "none" BY <1>1, <1>2 DEF IInv, PlacesOK, FlagIsOwned
<1>6. FlagIsOwned' BY <1>1, <1>5 DEF FlagIsOwned
<1> QED BY <1>3, <1>4, <1>6 DEF IInv

LEMMA StepIInv == IInv /\ [Next]_vars => IInv'
<1> SUFFICES ASSUME IInv, [Next]_vars PROVE IInv' OBVIOUS
<1> USE DEF Inside, Outside, Asleep, Managing, Speeds
<1>1. CASE \E c \in Contexts : OpenTest(c)
  BY <1>1, KeepsPlace DEF OpenTest, At, Enter, bus
<1>2. CASE \E c \in Contexts : OpenInit(c)
  <2>1. PICK c \in Contexts : OpenInit(c) BY <1>2
  <2>2. PICK step \in {"pins", "idle"} : Goto(c, step) BY <2>1 DEF OpenInit
  <2> QED BY <2>1, <2>2, KeepsPlace DEF OpenInit, At
<1>3. CASE \E c \in Contexts : OpenPins(c)
  BY <1>3, KeepsPlace DEF OpenPins, At, Enter, bus
<1>4. CASE \E c \in Contexts : OpenFlag(c)
  BY <1>4, KeepsPlace DEF OpenFlag, At, Enter, bus
<1>5. CASE \E c \in Contexts : CloseTest(c)
  BY <1>5, KeepsPlace DEF CloseTest, At, Enter, bus
<1>6. CASE \E c \in Contexts : CloseUninit(c)
  BY <1>6, KeepsPlace DEF CloseUninit, At, Enter, bus
<1>7. CASE \E c \in Contexts : ClosePins(c)
  BY <1>7, KeepsPlace DEF ClosePins, At, Enter, bus
<1>8. CASE \E c \in Contexts : CloseFlag(c)
  BY <1>8, KeepsPlace DEF CloseFlag, At, Enter, bus
<1>9. CASE \E c \in Contexts, s \in Speeds : SetSpeed(c, s)
  <2>1. PICK c \in Contexts, s \in Speeds : SetSpeed(c, s) BY <1>9
  <2> QED BY <2>1, KeepsPlace DEF SetSpeed, Choose, Enter, At
<1>10. CASE \E c \in Contexts : SetFrequency(c)
  BY <1>10, KeepsPlace DEF SetFrequency, At, Enter, bus
<1>11. CASE \E c \in Contexts : writetospi(c)
  BY <1>11, BeginKeeps DEF writetospi, Directions
<1>12. CASE \E c \in Contexts : readfromspi(c)
  BY <1>12, BeginKeeps DEF readfromspi, Directions
<1>13. CASE \E c \in Contexts : Select(c)
  BY <1>13, KeepsPlace DEF Select, At, Enter, bus
<1>14. CASE \E c \in Contexts : HeaderXfer(c)
  <2>1. PICK c \in Contexts : HeaderXfer(c) BY <1>14
  <2>2. PICK step \in {"body", "exit"} : Goto(c, step) BY <2>1 DEF HeaderXfer
  <2> QED BY <2>1, <2>2, KeepsPlace DEF HeaderXfer, At, bus
<1>15. CASE \E c \in Contexts : WriteBody(c)
  BY <1>15, KeepsPlace DEF WriteBody, At, Enter, bus, BodyXfer
<1>16. CASE \E c \in Contexts : ReadBody(c)
  BY <1>16, KeepsPlace DEF ReadBody, At, Enter, bus, BodyXfer
<1>17. CASE \E c \in Contexts : Deselect(c)
  BY <1>17, KeepsPlace DEF Deselect, At, Enter, bus
<1>18. CASE \E c \in Contexts : Release(c)
  BY <1>18, ReleaseKeeps
<1>19. CASE \E c \in Contexts : Wakeup(c)
  BY <1>19, KeepsPlace DEF Wakeup, At, Enter, bus
<1>20. CASE \E c \in Contexts : activate_cs(c)
  BY <1>20, KeepsPlace DEF activate_cs, At, Enter, bus
<1>21. CASE \E c \in Contexts : WakeupTest(c)
  BY <1>21, KeepsPlace DEF WakeupTest, At, Enter, bus
<1>22. CASE \E c \in Contexts : deactivate_cs(c)
  BY <1>22, KeepsPlace DEF deactivate_cs, At, Enter, bus
<1>23. CASE \E c \in Contexts : WakeupRate(c)
  BY <1>23, KeepsPlace DEF WakeupRate, At, Enter, bus, Choose
<1>24. CASE \E c \in Contexts : reset_DWIC(c)
  BY <1>24, KeepsPlace DEF reset_DWIC, At, Enter, bus, SetRst
<1>25. CASE \E c \in Contexts : ResetDone(c)
  BY <1>25, KeepsPlace DEF ResetDone, At, Enter, bus, SetRst
<1>26. CASE \E c \in Contexts, enable \in BOOLEAN : setup_DWRSTnIRQ(c, enable)
  <2>1. PICK c \in Contexts, enable \in BOOLEAN : setup_DWRSTnIRQ(c, enable) BY <1>26
  <2> QED BY <2>1, KeepsPlace DEF setup_DWRSTnIRQ, SetRst, Enter, At, bus
<1>27. CASE \E c \in Contexts :
             port_EnableEXT_IRQ(c) \/ port_DisableEXT_IRQ(c) \/ port_set_dwic_isr(c)
  BY <1>27 DEF port_EnableEXT_IRQ, port_DisableEXT_IRQ, port_set_dwic_isr, SetIrq, bus,
              IInv, PlacesOK, TransferIsPlace, FlagIsOwned
<1>28. CASE UNCHANGED vars
  BY <1>28 DEF vars, bus, IInv, PlacesOK, TransferIsPlace, FlagIsOwned
<1> QED
  BY <1>1, <1>2, <1>3, <1>4, <1>5, <1>6, <1>7, <1>8, <1>9, <1>10, <1>11, <1>12, <1>13,
     <1>14, <1>15, <1>16, <1>17, <1>18, <1>19, <1>20, <1>21, <1>22, <1>23, <1>24, <1>25,
     <1>26, <1>27, <1>28 DEF Next

LEMMA Invariance == Spec => []IInv
<1> QED BY InitIInv, StepIInv, PTL DEF Spec

\* Exclusive use of the bus: the masked test-and-set of writetospi and readfromspi and
\* their one exit keep spi_busy true to the one transfer there is, for any number
\* of contexts and whatever preempts what (rnb_ranging_spi.c:262-420).
THEOREM BusHasOneUser == Spec => []OneTransfer
<1>1. IInv => OneTransfer
  <2> SUFFICES ASSUME IInv PROVE OneTransfer OBVIOUS
  <2> DEFINE InTransfer == {c \in Contexts : xfer[c] # "none"}
  <2>1. CASE busy
    <3>1. PICK c \in Contexts : xfer[c] # "none" BY <2>1 DEF IInv, FlagIsOwned
    <3>2. InTransfer = {c} BY <3>1 DEF IInv, FlagIsOwned
    <3> QED BY <2>1, <3>2, FS_Singleton DEF OneTransfer
  <2>2. CASE ~busy
    <3>1. InTransfer = {} BY <2>2 DEF IInv, FlagIsOwned
    <3> QED BY <2>2, <3>1, FS_EmptySet DEF OneTransfer
  <2> QED BY <2>1, <2>2
<1> QED BY <1>1, Invariance, PTL

--------------------------------------------------------------------------------
(* The transfer and the functions that test without the mask. What they meet    *)
(* is ordered by rank: a context that is not idle, not asleep and below a        *)
(* running one stands still.                                                   *)

Closing == {"unpin", "unflag"}

\* Whoever manages the bus while a transfer is going on was preempted by it: nobody
\* gets past the test of spi_busy in the meantime.
ManagersAreBelow ==
  \A c, d \in Contexts :
    pc[c] \in Inside /\ pc[d] \in {"on", "off"} \cup Managing => Rank[d] < Rank[c]

\* Between nrfx_spi_init and the flag the opener is the only one, and what it
\* preempted stands still.
OpenerIsAlone ==
  \A d \in Contexts : pc[d] \in {"pins", "flag"} =>
    /\ up /\ ~initialized
    /\ pc[d] = "flag" => pin = "inactive"
    /\ \A e \in Contexts : e # d =>
         /\ pc[e] \notin {"pins", "flag"}
         /\ pc[e] \in {"uninit", "on", "off"} \cup Closing \cup Inside => Rank[e] < Rank[d]

\* The flag says more than the hardware only behind nrfx_spi_uninit; an opener that
\* could use the moment was preempted before.
DownMeansClosing ==
  initialized /\ ~up =>
    \E e \in Contexts : pc[e] \in Closing /\ \A d \in Contexts : pc[d] = "nrfx" => Rank[d] < Rank[e]

UnpinnedMeansClosing ==
  initialized /\ pin = "disconnected" => \E e \in Contexts : pc[e] = "unflag"

\* The chip is selected by somebody who is still there, as long as the bus is open.
ChipIsHeld ==
  pin = "active" => ~initialized \/ \E e \in Contexts :
    pc[e] \in {"select", "header", "body", "exit", "hold", "off"}

\* A transfer that met nobody's pulse or close never meets one; and each has
\* deselected the chip when it releases the bus.
NobodyInBetween ==
  \A c \in Contexts : pc[c] \in Inside =>
    /\ pc[c] = "release" => pin # "active"
    /\ ~torn[c] => \A e \in Contexts : e # c => pc[e] \notin {"on", "off"} \cup Closing

\* TransferHasBus, said of the places.
HasBus ==
  \A c \in Contexts : pc[c] \in Inside /\ ~torn[c] =>
    /\ up /\ initialized /\ pin # "disconnected"
    /\ pc[c] = "select" => pin = "inactive"
    /\ pc[c] \in {"header", "body", "exit"} => pin = "active"

MoreOK ==
  /\ torn \in [Contexts -> BOOLEAN] /\ pin \in {"disconnected", "inactive", "active"}
  /\ initialized \in BOOLEAN /\ up \in BOOLEAN

BusInv ==
  /\ IInv /\ MoreOK /\ ManagersAreBelow /\ OpenerIsAlone /\ DownMeansClosing
  /\ UnpinnedMeansClosing /\ ChipIsHeld /\ NobodyInBetween /\ HasBus

\* spi_busy is set while somebody is inside, who is alone there.
LEMMA BusyMeansInside ==
  ASSUME IInv
  PROVE  /\ busy <=> \E c \in Contexts : pc[c] \in Inside
         /\ \A c, d \in Contexts : pc[c] \in Inside /\ pc[d] \in Inside => c = d
BY DEF IInv, TransferIsPlace, FlagIsOwned

\* Who runs is above everybody who is in a call and not asleep.
LEMMA RunnerIsAbove ==
  ASSUME NEW c \in Contexts, MayRun(c), NEW d \in Contexts, d # c, pc[d] \notin {"idle"} \cup Asleep
  PROVE  Rank[d] < Rank[c] /\ ~(Rank[c] < Rank[d])
<1>1. Rank[d] < Rank[c] BY DEF MayRun
<1> QED BY <1>1, SpiAssumption

LEMMA InitBusInv == Init => BusInv
<1> SUFFICES ASSUME Init PROVE BusInv OBVIOUS
<1> QED
  BY InitIInv DEF Init, BusInv, MoreOK, ManagersAreBelow, OpenerIsAlone, DownMeansClosing,
     UnpinnedMeansClosing, ChipIsHeld, NobodyInBetween, HasBus, Inside, Closing, Managing

\* A transfer that begins outside every close and pulse finds the bus as it must be.
LEMMA BeginKeepsBus ==
  ASSUME BusInv, NEW c \in Contexts, NEW d \in Directions, Begin(c, d)
  PROVE  NobodyInBetween' /\ HasBus'
<1>1. /\ ~busy /\ pc[c] = "idle" /\ initialized
      /\ UNCHANGED <<initialized, up, pin>>
      /\ pc' = [pc EXCEPT ![c] = "select"]
  BY DEF Begin, Enter, At, Goto
<1>2. \A e \in Contexts : pc[e] \notin Inside
  BY <1>1, BusyMeansInside DEF BusInv
<1>3. /\ pc'[c] = "select"
      /\ \A e \in Contexts : e # c => pc'[e] = pc[e]
  BY <1>1 DEF BusInv, IInv, PlacesOK
<1>4. torn'[c] = \E e \in Contexts \ {c} : pc[e] \in {"unpin", "unflag", "on", "hold", "off"}
  BY DEF Begin, Others, BusInv, MoreOK
<1>5. NobodyInBetween'
  <2> SUFFICES ASSUME NEW a \in Contexts, pc'[a] \in Inside
      PROVE /\ pc'[a] = "release" => pin' # "active"
            /\ ~torn'[a] => \A e \in Contexts : e # a => pc'[e] \notin {"on", "off"} \cup Closing
    BY DEF NobodyInBetween
  <2>1. a = c BY <1>2, <1>3
  <2> QED BY <2>1, <1>3, <1>4 DEF Closing
<1>6. HasBus'
  <2> SUFFICES ASSUME NEW a \in Contexts, pc'[a] \in Inside, ~torn'[a]
      PROVE /\ up' /\ initialized' /\ pin' # "disconnected"
            /\ pc'[a] = "select" => pin' = "inactive"
            /\ pc'[a] \in {"header", "body", "exit"} => pin' = "active"
    BY DEF HasBus
  <2>1. a = c BY <1>2, <1>3
  <2>2. \A e \in Contexts : pc[e] \notin Closing \cup {"on", "hold", "off"}
    BY <2>1, <1>1, <1>4 DEF Closing
  <2>3. up BY <1>1, <2>2 DEF BusInv, DownMeansClosing
  <2>4. pin # "disconnected" BY <1>1, <2>2 DEF BusInv, UnpinnedMeansClosing, Closing
  <2>5. pin # "active" BY <1>1, <1>2, <2>2 DEF BusInv, ChipIsHeld, Inside
  <2> QED BY <2>1, <2>3, <2>4, <2>5, <1>1, <1>3 DEF BusInv, MoreOK
<1> QED BY <1>5, <1>6

\* The new speed is chosen, and written next.
LEMMA SpeedIsChosen ==
  ASSUME NEW c \in Contexts, NEW s \in Speeds, SetSpeed(c, s)
  PROVE  /\ pc[c] = "idle" /\ MayRun(c) /\ initialized /\ ~busy
         /\ pc' = [pc EXCEPT ![c] = s] /\ s \in {"slow", "fast"}
         /\ UNCHANGED <<initialized, busy, up, pin, torn>>
BY DEF SetSpeed, Choose, Speeds, Enter, At, Goto

LEMMA StepMoreOK == ASSUME BusInv, [Next]_vars PROVE MoreOK'
<1> USE DEF BusInv, MoreOK, hist, bus
<1>1. CASE \E c \in Contexts : OpenTest(c)
  BY <1>1 DEF OpenTest
<1>2. CASE \E c \in Contexts : OpenInit(c)
  BY <1>2 DEF OpenInit
<1>3. CASE \E c \in Contexts : OpenPins(c)
  BY <1>3 DEF OpenPins
<1>4. CASE \E c \in Contexts : OpenFlag(c)
  BY <1>4 DEF OpenFlag
<1>5. CASE \E c \in Contexts : CloseTest(c)
  BY <1>5 DEF CloseTest
<1>6. CASE \E c \in Contexts : CloseUninit(c)
  BY <1>6 DEF CloseUninit
<1>7. CASE \E c \in Contexts : ClosePins(c)
  BY <1>7 DEF ClosePins
<1>8. CASE \E c \in Contexts : CloseFlag(c)
  BY <1>8 DEF CloseFlag
<1>9. CASE \E c \in Contexts, s \in Speeds : SetSpeed(c, s)
  BY <1>9, SpeedIsChosen
<1>10. CASE \E c \in Contexts : SetFrequency(c)
  BY <1>10 DEF SetFrequency, Speeds
<1>11. CASE \E c \in Contexts : writetospi(c)
  BY <1>11 DEF writetospi, Begin, Others, Directions
<1>12. CASE \E c \in Contexts : readfromspi(c)
  BY <1>12 DEF readfromspi, Begin, Others, Directions
<1>13. CASE \E c \in Contexts : Select(c)
  BY <1>13 DEF Select, SetPin
<1>14. CASE \E c \in Contexts : HeaderXfer(c)
  BY <1>14 DEF HeaderXfer
<1>15. CASE \E c \in Contexts : WriteBody(c)
  BY <1>15 DEF WriteBody, BodyXfer
<1>16. CASE \E c \in Contexts : ReadBody(c)
  BY <1>16 DEF ReadBody, BodyXfer
<1>17. CASE \E c \in Contexts : Deselect(c)
  BY <1>17 DEF Deselect, SetPin
<1>18. CASE \E c \in Contexts : Release(c)
  BY <1>18 DEF Release
<1>19. CASE \E c \in Contexts : Wakeup(c)
  BY <1>19 DEF Wakeup
<1>20. CASE \E c \in Contexts : activate_cs(c)
  BY <1>20 DEF activate_cs, SetPin
<1>21. CASE \E c \in Contexts : WakeupTest(c)
  BY <1>21 DEF WakeupTest
<1>22. CASE \E c \in Contexts : deactivate_cs(c)
  BY <1>22 DEF deactivate_cs, SetPin
<1>23. CASE \E c \in Contexts : WakeupRate(c)
  BY <1>23 DEF WakeupRate, Choose
<1>24. CASE \E c \in Contexts : reset_DWIC(c)
  BY <1>24 DEF reset_DWIC, SetRst
<1>25. CASE \E c \in Contexts : ResetDone(c)
  BY <1>25 DEF ResetDone, SetRst
<1>26. CASE \E c \in Contexts, enable \in BOOLEAN : setup_DWRSTnIRQ(c, enable)
  BY <1>26 DEF setup_DWRSTnIRQ, SetRst
<1>27. CASE \E c \in Contexts : port_EnableEXT_IRQ(c)
  BY <1>27 DEF port_EnableEXT_IRQ, SetIrq
<1>28. CASE \E c \in Contexts : port_DisableEXT_IRQ(c)
  BY <1>28 DEF port_DisableEXT_IRQ, SetIrq
<1>29. CASE \E c \in Contexts : port_set_dwic_isr(c)
  BY <1>29 DEF port_set_dwic_isr, SetIrq
<1>30. CASE UNCHANGED vars BY <1>30 DEF vars
<1> QED
  BY <1>1, <1>2, <1>3, <1>4, <1>5, <1>6, <1>7, <1>8, <1>9, <1>10, <1>11, <1>12, <1>13,
     <1>14, <1>15, <1>16, <1>17, <1>18, <1>19, <1>20, <1>21, <1>22, <1>23, <1>24, <1>25,
     <1>26, <1>27, <1>28, <1>29, <1>30 DEF Next

LEMMA StepManagersAreBelow == ASSUME BusInv, [Next]_vars PROVE ManagersAreBelow'
<1> USE SpiAssumption, RunnerIsAbove, BusyMeansInside
<1> USE DEF BusInv, IInv, PlacesOK, ManagersAreBelow, Inside, Closing, Managing,
            Asleep, Goto, At, Enter, bus, hist
<1>1. CASE \E c \in Contexts : OpenTest(c)
  BY <1>1 DEF OpenTest
<1>2. CASE \E c \in Contexts : OpenInit(c)
  BY <1>2 DEF OpenInit
<1>3. CASE \E c \in Contexts : OpenPins(c)
  BY <1>3 DEF OpenPins
<1>4. CASE \E c \in Contexts : OpenFlag(c)
  BY <1>4 DEF OpenFlag
<1>5. CASE \E c \in Contexts : CloseTest(c)
  BY <1>5 DEF CloseTest
<1>6. CASE \E c \in Contexts : CloseUninit(c)
  BY <1>6 DEF CloseUninit
<1>7. CASE \E c \in Contexts : ClosePins(c)
  BY <1>7 DEF ClosePins
<1>8. CASE \E c \in Contexts : CloseFlag(c)
  BY <1>8 DEF CloseFlag
<1>9. CASE \E c \in Contexts, s \in Speeds : SetSpeed(c, s)
  BY <1>9, SpeedIsChosen
<1>10. CASE \E c \in Contexts : SetFrequency(c)
  BY <1>10 DEF SetFrequency, Speeds
<1>11. CASE \E c \in Contexts : writetospi(c)
  BY <1>11 DEF writetospi, Begin, Others, Directions
<1>12. CASE \E c \in Contexts : readfromspi(c)
  BY <1>12 DEF readfromspi, Begin, Others, Directions
<1>13. CASE \E c \in Contexts : Select(c)
  BY <1>13 DEF Select, SetPin
<1>14. CASE \E c \in Contexts : HeaderXfer(c)
  BY <1>14 DEF HeaderXfer
<1>15. CASE \E c \in Contexts : WriteBody(c)
  BY <1>15 DEF WriteBody, BodyXfer
<1>16. CASE \E c \in Contexts : ReadBody(c)
  BY <1>16 DEF ReadBody, BodyXfer
<1>17. CASE \E c \in Contexts : Deselect(c)
  BY <1>17 DEF Deselect, SetPin
<1>18. CASE \E c \in Contexts : Release(c)
  BY <1>18 DEF Release
<1>19. CASE \E c \in Contexts : Wakeup(c)
  BY <1>19 DEF Wakeup
<1>20. CASE \E c \in Contexts : activate_cs(c)
  BY <1>20 DEF activate_cs, SetPin
<1>21. CASE \E c \in Contexts : WakeupTest(c)
  BY <1>21 DEF WakeupTest
<1>22. CASE \E c \in Contexts : deactivate_cs(c)
  BY <1>22 DEF deactivate_cs, SetPin
<1>23. CASE \E c \in Contexts : WakeupRate(c)
  BY <1>23 DEF WakeupRate, Choose
<1>24. CASE \E c \in Contexts : reset_DWIC(c)
  BY <1>24 DEF reset_DWIC, SetRst
<1>25. CASE \E c \in Contexts : ResetDone(c)
  BY <1>25 DEF ResetDone, SetRst
<1>26. CASE \E c \in Contexts, enable \in BOOLEAN : setup_DWRSTnIRQ(c, enable)
  BY <1>26 DEF setup_DWRSTnIRQ, SetRst
<1>27. CASE \E c \in Contexts : port_EnableEXT_IRQ(c)
  BY <1>27 DEF port_EnableEXT_IRQ, SetIrq
<1>28. CASE \E c \in Contexts : port_DisableEXT_IRQ(c)
  BY <1>28 DEF port_DisableEXT_IRQ, SetIrq
<1>29. CASE \E c \in Contexts : port_set_dwic_isr(c)
  BY <1>29 DEF port_set_dwic_isr, SetIrq
<1>30. CASE UNCHANGED vars BY <1>30 DEF vars
<1> QED
  BY <1>1, <1>2, <1>3, <1>4, <1>5, <1>6, <1>7, <1>8, <1>9, <1>10, <1>11, <1>12, <1>13,
     <1>14, <1>15, <1>16, <1>17, <1>18, <1>19, <1>20, <1>21, <1>22, <1>23, <1>24, <1>25,
     <1>26, <1>27, <1>28, <1>29, <1>30 DEF Next

LEMMA StepOpenerIsAlone == ASSUME BusInv, [Next]_vars PROVE OpenerIsAlone'
<1> USE SpiAssumption, RunnerIsAbove, BusyMeansInside
<1> USE DEF BusInv, IInv, PlacesOK, OpenerIsAlone, DownMeansClosing, Inside, Closing,
            Managing, Asleep, Goto, At, Enter, bus, hist
<1>1. CASE \E c \in Contexts : OpenTest(c)
  BY <1>1 DEF OpenTest
<1>2. CASE \E c \in Contexts : OpenInit(c)
  BY <1>2 DEF OpenInit
<1>3. CASE \E c \in Contexts : OpenPins(c)
  BY <1>3 DEF OpenPins
<1>4. CASE \E c \in Contexts : OpenFlag(c)
  BY <1>4 DEF OpenFlag
<1>5. CASE \E c \in Contexts : CloseTest(c)
  BY <1>5 DEF CloseTest
<1>6. CASE \E c \in Contexts : CloseUninit(c)
  BY <1>6 DEF CloseUninit
<1>7. CASE \E c \in Contexts : ClosePins(c)
  BY <1>7 DEF ClosePins
<1>8. CASE \E c \in Contexts : CloseFlag(c)
  BY <1>8 DEF CloseFlag
<1>9. CASE \E c \in Contexts, s \in Speeds : SetSpeed(c, s)
  BY <1>9, SpeedIsChosen
<1>10. CASE \E c \in Contexts : SetFrequency(c)
  BY <1>10 DEF SetFrequency, Speeds
<1>11. CASE \E c \in Contexts : writetospi(c)
  BY <1>11 DEF writetospi, Begin, Others, Directions
<1>12. CASE \E c \in Contexts : readfromspi(c)
  BY <1>12 DEF readfromspi, Begin, Others, Directions
<1>13. CASE \E c \in Contexts : Select(c)
  BY <1>13 DEF Select, SetPin
<1>14. CASE \E c \in Contexts : HeaderXfer(c)
  BY <1>14 DEF HeaderXfer
<1>15. CASE \E c \in Contexts : WriteBody(c)
  BY <1>15 DEF WriteBody, BodyXfer
<1>16. CASE \E c \in Contexts : ReadBody(c)
  BY <1>16 DEF ReadBody, BodyXfer
<1>17. CASE \E c \in Contexts : Deselect(c)
  BY <1>17 DEF Deselect, SetPin
<1>18. CASE \E c \in Contexts : Release(c)
  BY <1>18 DEF Release
<1>19. CASE \E c \in Contexts : Wakeup(c)
  BY <1>19 DEF Wakeup
<1>20. CASE \E c \in Contexts : activate_cs(c)
  BY <1>20 DEF activate_cs, SetPin
<1>21. CASE \E c \in Contexts : WakeupTest(c)
  BY <1>21 DEF WakeupTest
<1>22. CASE \E c \in Contexts : deactivate_cs(c)
  BY <1>22 DEF deactivate_cs, SetPin
<1>23. CASE \E c \in Contexts : WakeupRate(c)
  BY <1>23 DEF WakeupRate, Choose
<1>24. CASE \E c \in Contexts : reset_DWIC(c)
  BY <1>24 DEF reset_DWIC, SetRst
<1>25. CASE \E c \in Contexts : ResetDone(c)
  BY <1>25 DEF ResetDone, SetRst
<1>26. CASE \E c \in Contexts, enable \in BOOLEAN : setup_DWRSTnIRQ(c, enable)
  BY <1>26 DEF setup_DWRSTnIRQ, SetRst
<1>27. CASE \E c \in Contexts : port_EnableEXT_IRQ(c)
  BY <1>27 DEF port_EnableEXT_IRQ, SetIrq
<1>28. CASE \E c \in Contexts : port_DisableEXT_IRQ(c)
  BY <1>28 DEF port_DisableEXT_IRQ, SetIrq
<1>29. CASE \E c \in Contexts : port_set_dwic_isr(c)
  BY <1>29 DEF port_set_dwic_isr, SetIrq
<1>30. CASE UNCHANGED vars BY <1>30 DEF vars
<1> QED
  BY <1>1, <1>2, <1>3, <1>4, <1>5, <1>6, <1>7, <1>8, <1>9, <1>10, <1>11, <1>12, <1>13,
     <1>14, <1>15, <1>16, <1>17, <1>18, <1>19, <1>20, <1>21, <1>22, <1>23, <1>24, <1>25,
     <1>26, <1>27, <1>28, <1>29, <1>30 DEF Next

LEMMA StepDownMeansClosing == ASSUME BusInv, [Next]_vars PROVE DownMeansClosing'
<1> USE SpiAssumption, RunnerIsAbove, BusyMeansInside
<1> USE DEF BusInv, IInv, PlacesOK, DownMeansClosing, OpenerIsAlone, Inside, Closing,
            Managing, Asleep, Goto, At, Enter, bus, hist
<1>1. CASE \E c \in Contexts : OpenTest(c)
  BY <1>1 DEF OpenTest
<1>2. CASE \E c \in Contexts : OpenInit(c)
  BY <1>2 DEF OpenInit
<1>3. CASE \E c \in Contexts : OpenPins(c)
  BY <1>3 DEF OpenPins
<1>4. CASE \E c \in Contexts : OpenFlag(c)
  BY <1>4 DEF OpenFlag
<1>5. CASE \E c \in Contexts : CloseTest(c)
  BY <1>5 DEF CloseTest
<1>6. CASE \E c \in Contexts : CloseUninit(c)
  BY <1>6 DEF CloseUninit
<1>7. CASE \E c \in Contexts : ClosePins(c)
  BY <1>7 DEF ClosePins
<1>8. CASE \E c \in Contexts : CloseFlag(c)
  BY <1>8 DEF CloseFlag
<1>9. CASE \E c \in Contexts, s \in Speeds : SetSpeed(c, s)
  <2>1. PICK c \in Contexts, s \in Speeds : SetSpeed(c, s) BY <1>9
  <2>2. /\ \A e \in Contexts : e # c => pc'[e] = pc[e]
        /\ pc'[c] \in {"slow", "fast"} /\ pc[c] = "idle"
        /\ UNCHANGED <<initialized, up>>
    BY <2>1, SpeedIsChosen
  <2> QED BY <2>2
<1>10. CASE \E c \in Contexts : SetFrequency(c)
  BY <1>10 DEF SetFrequency, Speeds
<1>11. CASE \E c \in Contexts : writetospi(c)
  BY <1>11 DEF writetospi, Begin, Others, Directions
<1>12. CASE \E c \in Contexts : readfromspi(c)
  BY <1>12 DEF readfromspi, Begin, Others, Directions
<1>13. CASE \E c \in Contexts : Select(c)
  BY <1>13 DEF Select, SetPin
<1>14. CASE \E c \in Contexts : HeaderXfer(c)
  BY <1>14 DEF HeaderXfer
<1>15. CASE \E c \in Contexts : WriteBody(c)
  BY <1>15 DEF WriteBody, BodyXfer
<1>16. CASE \E c \in Contexts : ReadBody(c)
  BY <1>16 DEF ReadBody, BodyXfer
<1>17. CASE \E c \in Contexts : Deselect(c)
  BY <1>17 DEF Deselect, SetPin
<1>18. CASE \E c \in Contexts : Release(c)
  BY <1>18 DEF Release
<1>19. CASE \E c \in Contexts : Wakeup(c)
  BY <1>19 DEF Wakeup
<1>20. CASE \E c \in Contexts : activate_cs(c)
  BY <1>20 DEF activate_cs, SetPin
<1>21. CASE \E c \in Contexts : WakeupTest(c)
  BY <1>21 DEF WakeupTest
<1>22. CASE \E c \in Contexts : deactivate_cs(c)
  BY <1>22 DEF deactivate_cs, SetPin
<1>23. CASE \E c \in Contexts : WakeupRate(c)
  BY <1>23 DEF WakeupRate, Choose
<1>24. CASE \E c \in Contexts : reset_DWIC(c)
  BY <1>24 DEF reset_DWIC, SetRst
<1>25. CASE \E c \in Contexts : ResetDone(c)
  BY <1>25 DEF ResetDone, SetRst
<1>26. CASE \E c \in Contexts, enable \in BOOLEAN : setup_DWRSTnIRQ(c, enable)
  BY <1>26 DEF setup_DWRSTnIRQ, SetRst
<1>27. CASE \E c \in Contexts : port_EnableEXT_IRQ(c)
  BY <1>27 DEF port_EnableEXT_IRQ, SetIrq
<1>28. CASE \E c \in Contexts : port_DisableEXT_IRQ(c)
  BY <1>28 DEF port_DisableEXT_IRQ, SetIrq
<1>29. CASE \E c \in Contexts : port_set_dwic_isr(c)
  BY <1>29 DEF port_set_dwic_isr, SetIrq
<1>30. CASE UNCHANGED vars BY <1>30 DEF vars
<1> QED
  BY <1>1, <1>2, <1>3, <1>4, <1>5, <1>6, <1>7, <1>8, <1>9, <1>10, <1>11, <1>12, <1>13,
     <1>14, <1>15, <1>16, <1>17, <1>18, <1>19, <1>20, <1>21, <1>22, <1>23, <1>24, <1>25,
     <1>26, <1>27, <1>28, <1>29, <1>30 DEF Next

LEMMA StepUnpinnedMeansClosing == ASSUME BusInv, [Next]_vars PROVE UnpinnedMeansClosing'
<1> USE DEF BusInv, IInv, PlacesOK, UnpinnedMeansClosing, OpenerIsAlone, Inside,
            Closing, Managing, Asleep, Goto, At, Enter, bus, hist
<1>1. CASE \E c \in Contexts : OpenTest(c)
  BY <1>1 DEF OpenTest
<1>2. CASE \E c \in Contexts : OpenInit(c)
  BY <1>2 DEF OpenInit
<1>3. CASE \E c \in Contexts : OpenPins(c)
  BY <1>3 DEF OpenPins
<1>4. CASE \E c \in Contexts : OpenFlag(c)
  BY <1>4 DEF OpenFlag
<1>5. CASE \E c \in Contexts : CloseTest(c)
  BY <1>5 DEF CloseTest
<1>6. CASE \E c \in Contexts : CloseUninit(c)
  BY <1>6 DEF CloseUninit
<1>7. CASE \E c \in Contexts : ClosePins(c)
  BY <1>7 DEF ClosePins
<1>8. CASE \E c \in Contexts : CloseFlag(c)
  BY <1>8 DEF CloseFlag
<1>9. CASE \E c \in Contexts, s \in Speeds : SetSpeed(c, s)
  BY <1>9, SpeedIsChosen
<1>10. CASE \E c \in Contexts : SetFrequency(c)
  BY <1>10 DEF SetFrequency, Speeds
<1>11. CASE \E c \in Contexts : writetospi(c)
  BY <1>11 DEF writetospi, Begin, Others, Directions
<1>12. CASE \E c \in Contexts : readfromspi(c)
  BY <1>12 DEF readfromspi, Begin, Others, Directions
<1>13. CASE \E c \in Contexts : Select(c)
  BY <1>13 DEF Select, SetPin
<1>14. CASE \E c \in Contexts : HeaderXfer(c)
  BY <1>14 DEF HeaderXfer
<1>15. CASE \E c \in Contexts : WriteBody(c)
  BY <1>15 DEF WriteBody, BodyXfer
<1>16. CASE \E c \in Contexts : ReadBody(c)
  BY <1>16 DEF ReadBody, BodyXfer
<1>17. CASE \E c \in Contexts : Deselect(c)
  BY <1>17 DEF Deselect, SetPin
<1>18. CASE \E c \in Contexts : Release(c)
  BY <1>18 DEF Release
<1>19. CASE \E c \in Contexts : Wakeup(c)
  BY <1>19 DEF Wakeup
<1>20. CASE \E c \in Contexts : activate_cs(c)
  BY <1>20 DEF activate_cs, SetPin
<1>21. CASE \E c \in Contexts : WakeupTest(c)
  BY <1>21 DEF WakeupTest
<1>22. CASE \E c \in Contexts : deactivate_cs(c)
  BY <1>22 DEF deactivate_cs, SetPin
<1>23. CASE \E c \in Contexts : WakeupRate(c)
  BY <1>23 DEF WakeupRate, Choose
<1>24. CASE \E c \in Contexts : reset_DWIC(c)
  BY <1>24 DEF reset_DWIC, SetRst
<1>25. CASE \E c \in Contexts : ResetDone(c)
  BY <1>25 DEF ResetDone, SetRst
<1>26. CASE \E c \in Contexts, enable \in BOOLEAN : setup_DWRSTnIRQ(c, enable)
  BY <1>26 DEF setup_DWRSTnIRQ, SetRst
<1>27. CASE \E c \in Contexts : port_EnableEXT_IRQ(c)
  BY <1>27 DEF port_EnableEXT_IRQ, SetIrq
<1>28. CASE \E c \in Contexts : port_DisableEXT_IRQ(c)
  BY <1>28 DEF port_DisableEXT_IRQ, SetIrq
<1>29. CASE \E c \in Contexts : port_set_dwic_isr(c)
  BY <1>29 DEF port_set_dwic_isr, SetIrq
<1>30. CASE UNCHANGED vars BY <1>30 DEF vars
<1> QED
  BY <1>1, <1>2, <1>3, <1>4, <1>5, <1>6, <1>7, <1>8, <1>9, <1>10, <1>11, <1>12, <1>13,
     <1>14, <1>15, <1>16, <1>17, <1>18, <1>19, <1>20, <1>21, <1>22, <1>23, <1>24, <1>25,
     <1>26, <1>27, <1>28, <1>29, <1>30 DEF Next

LEMMA StepChipIsHeld == ASSUME BusInv, [Next]_vars PROVE ChipIsHeld'
<1> USE BusyMeansInside
<1> USE DEF BusInv, IInv, PlacesOK, ChipIsHeld, OpenerIsAlone, NobodyInBetween,
            Inside, Closing, Managing, Asleep, Goto, At, Enter, bus, hist
<1>1. CASE \E c \in Contexts : OpenTest(c)
  BY <1>1 DEF OpenTest
<1>2. CASE \E c \in Contexts : OpenInit(c)
  BY <1>2 DEF OpenInit
<1>3. CASE \E c \in Contexts : OpenPins(c)
  BY <1>3 DEF OpenPins
<1>4. CASE \E c \in Contexts : OpenFlag(c)
  BY <1>4 DEF OpenFlag
<1>5. CASE \E c \in Contexts : CloseTest(c)
  BY <1>5 DEF CloseTest
<1>6. CASE \E c \in Contexts : CloseUninit(c)
  BY <1>6 DEF CloseUninit
<1>7. CASE \E c \in Contexts : ClosePins(c)
  BY <1>7 DEF ClosePins
<1>8. CASE \E c \in Contexts : CloseFlag(c)
  BY <1>8 DEF CloseFlag
<1>9. CASE \E c \in Contexts, s \in Speeds : SetSpeed(c, s)
  BY <1>9, SpeedIsChosen
<1>10. CASE \E c \in Contexts : SetFrequency(c)
  BY <1>10 DEF SetFrequency, Speeds
<1>11. CASE \E c \in Contexts : writetospi(c)
  BY <1>11 DEF writetospi, Begin, Others, Directions
<1>12. CASE \E c \in Contexts : readfromspi(c)
  BY <1>12 DEF readfromspi, Begin, Others, Directions
<1>13. CASE \E c \in Contexts : Select(c)
  BY <1>13 DEF Select, SetPin
<1>14. CASE \E c \in Contexts : HeaderXfer(c)
  BY <1>14 DEF HeaderXfer
<1>15. CASE \E c \in Contexts : WriteBody(c)
  BY <1>15 DEF WriteBody, BodyXfer
<1>16. CASE \E c \in Contexts : ReadBody(c)
  BY <1>16 DEF ReadBody, BodyXfer
<1>17. CASE \E c \in Contexts : Deselect(c)
  BY <1>17 DEF Deselect, SetPin
<1>18. CASE \E c \in Contexts : Release(c)
  BY <1>18 DEF Release
<1>19. CASE \E c \in Contexts : Wakeup(c)
  BY <1>19 DEF Wakeup
<1>20. CASE \E c \in Contexts : activate_cs(c)
  BY <1>20 DEF activate_cs, SetPin
<1>21. CASE \E c \in Contexts : WakeupTest(c)
  BY <1>21 DEF WakeupTest
<1>22. CASE \E c \in Contexts : deactivate_cs(c)
  BY <1>22 DEF deactivate_cs, SetPin
<1>23. CASE \E c \in Contexts : WakeupRate(c)
  BY <1>23 DEF WakeupRate, Choose
<1>24. CASE \E c \in Contexts : reset_DWIC(c)
  BY <1>24 DEF reset_DWIC, SetRst
<1>25. CASE \E c \in Contexts : ResetDone(c)
  BY <1>25 DEF ResetDone, SetRst
<1>26. CASE \E c \in Contexts, enable \in BOOLEAN : setup_DWRSTnIRQ(c, enable)
  BY <1>26 DEF setup_DWRSTnIRQ, SetRst
<1>27. CASE \E c \in Contexts : port_EnableEXT_IRQ(c)
  BY <1>27 DEF port_EnableEXT_IRQ, SetIrq
<1>28. CASE \E c \in Contexts : port_DisableEXT_IRQ(c)
  BY <1>28 DEF port_DisableEXT_IRQ, SetIrq
<1>29. CASE \E c \in Contexts : port_set_dwic_isr(c)
  BY <1>29 DEF port_set_dwic_isr, SetIrq
<1>30. CASE UNCHANGED vars BY <1>30 DEF vars
<1> QED
  BY <1>1, <1>2, <1>3, <1>4, <1>5, <1>6, <1>7, <1>8, <1>9, <1>10, <1>11, <1>12, <1>13,
     <1>14, <1>15, <1>16, <1>17, <1>18, <1>19, <1>20, <1>21, <1>22, <1>23, <1>24, <1>25,
     <1>26, <1>27, <1>28, <1>29, <1>30 DEF Next

LEMMA StepNobodyInBetween == ASSUME BusInv, [Next]_vars PROVE NobodyInBetween'
<1> USE SpiAssumption, RunnerIsAbove, BusyMeansInside
<1> USE DEF BusInv, IInv, PlacesOK, NobodyInBetween, ManagersAreBelow, ChipIsHeld,
            Inside, Closing, Managing, Asleep, Goto, At, Enter, bus, hist
<1>1. CASE \E c \in Contexts : OpenTest(c)
  BY <1>1 DEF OpenTest
<1>2. CASE \E c \in Contexts : OpenInit(c)
  BY <1>2 DEF OpenInit
<1>3. CASE \E c \in Contexts : OpenPins(c)
  BY <1>3 DEF OpenPins
<1>4. CASE \E c \in Contexts : OpenFlag(c)
  BY <1>4 DEF OpenFlag
<1>5. CASE \E c \in Contexts : CloseTest(c)
  BY <1>5 DEF CloseTest
<1>6. CASE \E c \in Contexts : CloseUninit(c)
  BY <1>6 DEF CloseUninit
<1>7. CASE \E c \in Contexts : ClosePins(c)
  BY <1>7 DEF ClosePins
<1>8. CASE \E c \in Contexts : CloseFlag(c)
  BY <1>8 DEF CloseFlag
<1>9. CASE \E c \in Contexts, s \in Speeds : SetSpeed(c, s)
  BY <1>9, SpeedIsChosen
<1>10. CASE \E c \in Contexts : SetFrequency(c)
  BY <1>10 DEF SetFrequency, Speeds
<1>11. CASE \E c \in Contexts : writetospi(c)
  BY <1>11, BeginKeepsBus DEF writetospi, Directions
<1>12. CASE \E c \in Contexts : readfromspi(c)
  BY <1>12, BeginKeepsBus DEF readfromspi, Directions
<1>13. CASE \E c \in Contexts : Select(c)
  BY <1>13 DEF Select, SetPin
<1>14. CASE \E c \in Contexts : HeaderXfer(c)
  BY <1>14 DEF HeaderXfer
<1>15. CASE \E c \in Contexts : WriteBody(c)
  BY <1>15 DEF WriteBody, BodyXfer
<1>16. CASE \E c \in Contexts : ReadBody(c)
  BY <1>16 DEF ReadBody, BodyXfer
<1>17. CASE \E c \in Contexts : Deselect(c)
  BY <1>17 DEF Deselect, SetPin
<1>18. CASE \E c \in Contexts : Release(c)
  BY <1>18 DEF Release
<1>19. CASE \E c \in Contexts : Wakeup(c)
  BY <1>19 DEF Wakeup
<1>20. CASE \E c \in Contexts : activate_cs(c)
  BY <1>20 DEF activate_cs, SetPin
<1>21. CASE \E c \in Contexts : WakeupTest(c)
  BY <1>21 DEF WakeupTest
<1>22. CASE \E c \in Contexts : deactivate_cs(c)
  BY <1>22 DEF deactivate_cs, SetPin
<1>23. CASE \E c \in Contexts : WakeupRate(c)
  BY <1>23 DEF WakeupRate, Choose
<1>24. CASE \E c \in Contexts : reset_DWIC(c)
  BY <1>24 DEF reset_DWIC, SetRst
<1>25. CASE \E c \in Contexts : ResetDone(c)
  BY <1>25 DEF ResetDone, SetRst
<1>26. CASE \E c \in Contexts, enable \in BOOLEAN : setup_DWRSTnIRQ(c, enable)
  BY <1>26 DEF setup_DWRSTnIRQ, SetRst
<1>27. CASE \E c \in Contexts : port_EnableEXT_IRQ(c)
  BY <1>27 DEF port_EnableEXT_IRQ, SetIrq
<1>28. CASE \E c \in Contexts : port_DisableEXT_IRQ(c)
  BY <1>28 DEF port_DisableEXT_IRQ, SetIrq
<1>29. CASE \E c \in Contexts : port_set_dwic_isr(c)
  BY <1>29 DEF port_set_dwic_isr, SetIrq
<1>30. CASE UNCHANGED vars BY <1>30 DEF vars
<1> QED
  BY <1>1, <1>2, <1>3, <1>4, <1>5, <1>6, <1>7, <1>8, <1>9, <1>10, <1>11, <1>12, <1>13,
     <1>14, <1>15, <1>16, <1>17, <1>18, <1>19, <1>20, <1>21, <1>22, <1>23, <1>24, <1>25,
     <1>26, <1>27, <1>28, <1>29, <1>30 DEF Next

LEMMA StepHasBus == ASSUME BusInv, [Next]_vars PROVE HasBus'
<1> USE SpiAssumption, RunnerIsAbove, BusyMeansInside
<1> USE DEF BusInv, IInv, PlacesOK, HasBus, ManagersAreBelow, NobodyInBetween,
            DownMeansClosing, UnpinnedMeansClosing, ChipIsHeld, Inside, Closing,
            Managing, Asleep, Goto, At, Enter, bus, hist
<1>1. CASE \E c \in Contexts : OpenTest(c)
  BY <1>1 DEF OpenTest
<1>2. CASE \E c \in Contexts : OpenInit(c)
  BY <1>2 DEF OpenInit
<1>3. CASE \E c \in Contexts : OpenPins(c)
  BY <1>3 DEF OpenPins
<1>4. CASE \E c \in Contexts : OpenFlag(c)
  BY <1>4 DEF OpenFlag
<1>5. CASE \E c \in Contexts : CloseTest(c)
  BY <1>5 DEF CloseTest
<1>6. CASE \E c \in Contexts : CloseUninit(c)
  BY <1>6 DEF CloseUninit
<1>7. CASE \E c \in Contexts : ClosePins(c)
  BY <1>7 DEF ClosePins
<1>8. CASE \E c \in Contexts : CloseFlag(c)
  BY <1>8 DEF CloseFlag
<1>9. CASE \E c \in Contexts, s \in Speeds : SetSpeed(c, s)
  BY <1>9, SpeedIsChosen
<1>10. CASE \E c \in Contexts : SetFrequency(c)
  BY <1>10 DEF SetFrequency, Speeds
<1>11. CASE \E c \in Contexts : writetospi(c)
  BY <1>11, BeginKeepsBus DEF writetospi, Directions
<1>12. CASE \E c \in Contexts : readfromspi(c)
  BY <1>12, BeginKeepsBus DEF readfromspi, Directions
<1>13. CASE \E c \in Contexts : Select(c)
  BY <1>13 DEF Select, SetPin
<1>14. CASE \E c \in Contexts : HeaderXfer(c)
  BY <1>14 DEF HeaderXfer
<1>15. CASE \E c \in Contexts : WriteBody(c)
  BY <1>15 DEF WriteBody, BodyXfer
<1>16. CASE \E c \in Contexts : ReadBody(c)
  BY <1>16 DEF ReadBody, BodyXfer
<1>17. CASE \E c \in Contexts : Deselect(c)
  BY <1>17 DEF Deselect, SetPin
<1>18. CASE \E c \in Contexts : Release(c)
  BY <1>18 DEF Release
<1>19. CASE \E c \in Contexts : Wakeup(c)
  BY <1>19 DEF Wakeup
<1>20. CASE \E c \in Contexts : activate_cs(c)
  BY <1>20 DEF activate_cs, SetPin
<1>21. CASE \E c \in Contexts : WakeupTest(c)
  BY <1>21 DEF WakeupTest
<1>22. CASE \E c \in Contexts : deactivate_cs(c)
  BY <1>22 DEF deactivate_cs, SetPin
<1>23. CASE \E c \in Contexts : WakeupRate(c)
  BY <1>23 DEF WakeupRate, Choose
<1>24. CASE \E c \in Contexts : reset_DWIC(c)
  BY <1>24 DEF reset_DWIC, SetRst
<1>25. CASE \E c \in Contexts : ResetDone(c)
  BY <1>25 DEF ResetDone, SetRst
<1>26. CASE \E c \in Contexts, enable \in BOOLEAN : setup_DWRSTnIRQ(c, enable)
  BY <1>26 DEF setup_DWRSTnIRQ, SetRst
<1>27. CASE \E c \in Contexts : port_EnableEXT_IRQ(c)
  BY <1>27 DEF port_EnableEXT_IRQ, SetIrq
<1>28. CASE \E c \in Contexts : port_DisableEXT_IRQ(c)
  BY <1>28 DEF port_DisableEXT_IRQ, SetIrq
<1>29. CASE \E c \in Contexts : port_set_dwic_isr(c)
  BY <1>29 DEF port_set_dwic_isr, SetIrq
<1>30. CASE UNCHANGED vars BY <1>30 DEF vars
<1> QED
  BY <1>1, <1>2, <1>3, <1>4, <1>5, <1>6, <1>7, <1>8, <1>9, <1>10, <1>11, <1>12, <1>13,
     <1>14, <1>15, <1>16, <1>17, <1>18, <1>19, <1>20, <1>21, <1>22, <1>23, <1>24, <1>25,
     <1>26, <1>27, <1>28, <1>29, <1>30 DEF Next

LEMMA StepBusInv == BusInv /\ [Next]_vars => BusInv'
<1> SUFFICES ASSUME BusInv, [Next]_vars PROVE BusInv' OBVIOUS
<1>1. IInv' BY StepIInv DEF BusInv
<1> QED
  BY <1>1, StepMoreOK, StepManagersAreBelow, StepOpenerIsAlone, StepDownMeansClosing,
     StepUnpinnedMeansClosing, StepChipIsHeld, StepNobodyInBetween, StepHasBus DEF BusInv

\* A transfer that began outside every close and wake-up pulse has the bus up and
\* the chip select to itself, although open, close and the chip select functions
\* test spi_busy without the mask and act later (rnb_ranging_spi.c:141-420,
\* rnb_ranging_port.c:252-278): contexts of any number and rank, one processor.
THEOREM TransfersHaveTheBus == Spec => []TransferHasBus
<1>1. Init => BusInv BY InitBusInv
<1>2. BusInv /\ [Next]_vars => BusInv' BY StepBusInv
<1>3. BusInv => TransferHasBus
  BY DEF BusInv, IInv, TransferIsPlace, HasBus, TransferHasBus
<1> QED BY <1>1, <1>2, <1>3, PTL DEF Spec

--------------------------------------------------------------------------------
(* The flags and the hardware. As long as no two calls that manage the bus        *)
(* crossed, the bus goes through the phases of the one that is going on.          *)

Rest ==
  /\ initialized <=> up
  /\ up <=> pin # "disconnected"
  /\ up => known /\ rate = RateOf(cfg)

IsOpen == up /\ pin # "disconnected" /\ known

\* What is true of the bus before each step of a manager.
PhaseOf(c) ==
  /\ pc[c] = "nrfx" => ~initialized /\ ~up /\ pin = "disconnected" /\ known
  /\ pc[c] = "pins" => ~initialized /\ up /\ pin = "disconnected" /\ known /\ rate = RateOf(cfg)
  /\ pc[c] = "flag" => ~initialized /\ IsOpen /\ rate = RateOf(cfg)
  /\ pc[c] = "uninit" => initialized /\ IsOpen
  /\ pc[c] = "unpin" => initialized /\ ~up
  /\ pc[c] = "unflag" => initialized /\ ~up /\ pin = "disconnected"
  /\ pc[c] \in Speeds => initialized /\ IsOpen /\ cfg = pc[c]

OneManager == \A c, d \in Contexts : pc[c] \in Managing /\ pc[d] \in Managing => c = d

Phases ==
  ~crossed =>
    /\ OneManager
    /\ \A c \in Contexts : pc[c] \in Managing => PhaseOf(c)
    /\ (\A c \in Contexts : pc[c] \notin Managing) => Rest

LEMMA InitPhases == Init => Phases
BY DEF Init, Phases, OneManager, Rest, Managing

\* A call enters: it is the only manager, or two have crossed.
LEMMA EntryKeeps ==
  ASSUME IInv, Phases, NEW c \in Contexts, pc[c] \notin Managing, NEW step, Goto(c, step), Cross(c),
         UNCHANGED <<initialized, up, rate, pin>>,
         step \in Managing => (Rest /\ pc'[c] = step => PhaseOf(c)'),
         step \notin Managing => UNCHANGED <<known, cfg>>
  PROVE  Phases'
<1> SUFFICES ASSUME ~crossed'
    PROVE  /\ OneManager'
           /\ \A e \in Contexts : pc'[e] \in Managing => PhaseOf(e)'
           /\ (\A e \in Contexts : pc'[e] \notin Managing) => Rest'
  BY DEF Phases, PhaseOf, IsOpen
<1>1. /\ ~crossed /\ \A e \in Contexts : pc[e] \notin Managing
      /\ pc'[c] = step /\ \A e \in Contexts : e # c => pc'[e] = pc[e]
  BY DEF Cross, Others, Goto, IInv, PlacesOK
<1>2. Rest BY <1>1 DEF Phases
<1>3. OneManager' BY <1>1 DEF OneManager
<1>4. ASSUME NEW e \in Contexts, pc'[e] \in Managing PROVE PhaseOf(e)'
  <2>1. e = c /\ step \in Managing BY <1>1, <1>4
  <2> QED BY <2>1, <1>1, <1>2 DEF PhaseOf, IsOpen
<1>5. (\A e \in Contexts : pc'[e] \notin Managing) => Rest'
  BY <1>1, <1>2 DEF Rest
<1> QED BY <1>3, <1>4, <1>5

\* The one manager goes on, or is through.
LEMMA PhaseKeeps ==
  ASSUME IInv, Phases, NEW c \in Contexts, pc[c] \in Managing, NEW step, Goto(c, step),
         crossed' = crossed,
         step \in Managing => (PhaseOf(c) /\ pc'[c] = step => PhaseOf(c)'),
         step \notin Managing => (PhaseOf(c) => Rest')
  PROVE  Phases'
<1> SUFFICES ASSUME ~crossed'
    PROVE  /\ OneManager'
           /\ \A e \in Contexts : pc'[e] \in Managing => PhaseOf(e)'
           /\ (\A e \in Contexts : pc'[e] \notin Managing) => Rest'
  BY DEF Phases, PhaseOf, IsOpen
<1>1. /\ pc'[c] = step /\ \A e \in Contexts : e # c => pc'[e] = pc[e]
  BY DEF Goto, IInv, PlacesOK
<1>2. /\ PhaseOf(c)
      /\ \A e \in Contexts : e # c => pc[e] \notin Managing
  BY DEF Phases, OneManager
<1>3. OneManager' BY <1>1, <1>2 DEF OneManager
<1>4. ASSUME NEW e \in Contexts, pc'[e] \in Managing PROVE PhaseOf(e)'
  <2>1. e = c /\ step \in Managing BY <1>1, <1>2, <1>4
  <2> QED BY <2>1, <1>1, <1>2 DEF PhaseOf, IsOpen
<1>5. (\A e \in Contexts : pc'[e] \notin Managing) => Rest'
  BY <1>1, <1>2
<1> QED BY <1>3, <1>4, <1>5

\* Everything else leaves the managers and what they look at alone.
LEMMA AsideKeeps ==
  ASSUME IInv, Phases, NEW c \in Contexts, pc[c] \notin Managing, NEW step, step \notin Managing,
         Goto(c, step), crossed' = crossed, UNCHANGED <<known, initialized, cfg, up, rate>>,
         pin' = pin \/ (pin # "disconnected" /\ pin' # "disconnected")
  PROVE  Phases'
<1> SUFFICES ASSUME ~crossed'
    PROVE  /\ OneManager'
           /\ \A e \in Contexts : pc'[e] \in Managing => PhaseOf(e)'
           /\ (\A e \in Contexts : pc'[e] \notin Managing) => Rest'
  BY DEF Phases, PhaseOf, IsOpen
<1>1. \A e \in Contexts :
        /\ pc'[e] \in Managing <=> pc[e] \in Managing
        /\ pc[e] \in Managing => pc'[e] = pc[e]
  BY DEF Goto, IInv, PlacesOK
<1>2. OneManager' BY <1>1 DEF Phases, OneManager
<1>3. ASSUME NEW e \in Contexts, pc'[e] \in Managing PROVE PhaseOf(e)'
  <2>1. pc'[e] = pc[e] /\ PhaseOf(e) BY <1>1, <1>3 DEF Phases
  <2> QED BY <2>1 DEF PhaseOf, IsOpen
<1>4. (\A e \in Contexts : pc'[e] \notin Managing) => Rest'
  BY <1>1 DEF Phases, Rest
<1> QED BY <1>2, <1>3, <1>4

LEMMA StepPhases == ASSUME BusInv, Phases, [Next]_vars PROVE Phases'
<1> USE DEF BusInv, Managing, Asleep
<1>1. CASE \E c \in Contexts : OpenTest(c)
  <2>1. PICK c \in Contexts : OpenTest(c) BY <1>1
  <2> QED BY <2>1, EntryKeeps DEF OpenTest, At, Enter, Rest, PhaseOf, IsOpen, Speeds, bus
<1>2. CASE \E c \in Contexts : OpenInit(c)
  <2>1. PICK c \in Contexts : OpenInit(c) BY <1>2
  <2> QED BY <2>1, PhaseKeeps DEF OpenInit, At, Rest, PhaseOf, IsOpen, Speeds, hist
<1>3. CASE \E c \in Contexts : OpenPins(c)
  <2>1. PICK c \in Contexts : OpenPins(c) BY <1>3
  <2> QED BY <2>1, PhaseKeeps DEF OpenPins, At, Rest, PhaseOf, IsOpen, Speeds, hist
<1>4. CASE \E c \in Contexts : OpenFlag(c)
  <2>1. PICK c \in Contexts : OpenFlag(c) BY <1>4
  <2> QED BY <2>1, PhaseKeeps DEF OpenFlag, At, Rest, PhaseOf, IsOpen, Speeds, hist
<1>5. CASE \E c \in Contexts : CloseTest(c)
  <2>1. PICK c \in Contexts : CloseTest(c) BY <1>5
  <2> QED BY <2>1, EntryKeeps DEF CloseTest, At, Enter, Rest, PhaseOf, IsOpen, Speeds, bus
<1>6. CASE \E c \in Contexts : CloseUninit(c)
  <2>1. PICK c \in Contexts : CloseUninit(c) BY <1>6
  <2> QED BY <2>1, PhaseKeeps DEF CloseUninit, At, Rest, PhaseOf, IsOpen, Speeds, hist
<1>7. CASE \E c \in Contexts : ClosePins(c)
  <2>1. PICK c \in Contexts : ClosePins(c) BY <1>7
  <2> QED BY <2>1, PhaseKeeps DEF ClosePins, At, Rest, PhaseOf, IsOpen, Speeds, hist
<1>8. CASE \E c \in Contexts : CloseFlag(c)
  <2>1. PICK c \in Contexts : CloseFlag(c) BY <1>8
  <2> QED BY <2>1, PhaseKeeps DEF CloseFlag, At, Rest, PhaseOf, IsOpen, Speeds, hist
<1>9. CASE \E c \in Contexts, s \in Speeds : SetSpeed(c, s)
  <2>1. PICK c \in Contexts, s \in Speeds : SetSpeed(c, s) BY <1>9
  <2> QED BY <2>1, EntryKeeps DEF SetSpeed, Choose, At, Enter, Rest, PhaseOf, IsOpen,
     Speeds, bus
<1>10. CASE \E c \in Contexts : SetFrequency(c)
  <2>1. PICK c \in Contexts : SetFrequency(c) BY <1>10
  <2> QED BY <2>1, PhaseKeeps DEF SetFrequency, At, Rest, PhaseOf, IsOpen, Speeds, hist
<1>11. CASE \E c \in Contexts : writetospi(c)
  <2>1. PICK c \in Contexts : writetospi(c) BY <1>11
  <2> QED BY <2>1, AsideKeeps DEF writetospi, Begin, Others, Directions, At, Enter, bus,
     hist
<1>12. CASE \E c \in Contexts : readfromspi(c)
  <2>1. PICK c \in Contexts : readfromspi(c) BY <1>12
  <2> QED BY <2>1, AsideKeeps DEF readfromspi, Begin, Others, Directions, At, Enter, bus,
     hist
<1>13. CASE \E c \in Contexts : Select(c)
  <2>1. PICK c \in Contexts : Select(c) BY <1>13
  <2> QED BY <2>1, AsideKeeps DEF Select, SetPin, At, Enter, bus, hist
<1>14. CASE \E c \in Contexts : HeaderXfer(c)
  <2>1. PICK c \in Contexts : HeaderXfer(c) BY <1>14
  <2> QED BY <2>1, AsideKeeps DEF HeaderXfer, At, Enter, bus, hist
<1>15. CASE \E c \in Contexts : WriteBody(c)
  <2>1. PICK c \in Contexts : WriteBody(c) BY <1>15
  <2> QED BY <2>1, AsideKeeps DEF WriteBody, BodyXfer, At, Enter, bus, hist
<1>16. CASE \E c \in Contexts : ReadBody(c)
  <2>1. PICK c \in Contexts : ReadBody(c) BY <1>16
  <2> QED BY <2>1, AsideKeeps DEF ReadBody, BodyXfer, At, Enter, bus, hist
<1>17. CASE \E c \in Contexts : Deselect(c)
  <2>1. PICK c \in Contexts : Deselect(c) BY <1>17
  <2> QED BY <2>1, AsideKeeps DEF Deselect, SetPin, At, Enter, bus, hist
<1>18. CASE \E c \in Contexts : Release(c)
  <2>1. PICK c \in Contexts : Release(c) BY <1>18
  <2> QED BY <2>1, AsideKeeps DEF Release, At, Enter, bus, hist
<1>19. CASE \E c \in Contexts : Wakeup(c)
  <2>1. PICK c \in Contexts : Wakeup(c) BY <1>19
  <2> QED BY <2>1, AsideKeeps DEF Wakeup, At, Enter, bus, hist
<1>20. CASE \E c \in Contexts : activate_cs(c)
  <2>1. PICK c \in Contexts : activate_cs(c) BY <1>20
  <2> QED BY <2>1, AsideKeeps DEF activate_cs, SetPin, At, Enter, bus, hist
<1>21. CASE \E c \in Contexts : WakeupTest(c)
  <2>1. PICK c \in Contexts : WakeupTest(c) BY <1>21
  <2> QED BY <2>1, AsideKeeps DEF WakeupTest, At, Enter, bus, hist
<1>22. CASE \E c \in Contexts : deactivate_cs(c)
  <2>1. PICK c \in Contexts : deactivate_cs(c) BY <1>22
  <2> QED BY <2>1, AsideKeeps DEF deactivate_cs, SetPin, At, Enter, bus, hist
<1>23. CASE \E c \in Contexts : WakeupRate(c)
  <2>1. PICK c \in Contexts : WakeupRate(c) BY <1>23
  <2> QED BY <2>1, EntryKeeps DEF WakeupRate, Choose, At, Enter, Rest, PhaseOf, IsOpen,
     Speeds, bus
<1>24. CASE \E c \in Contexts : reset_DWIC(c)
  <2>1. PICK c \in Contexts : reset_DWIC(c) BY <1>24
  <2> QED BY <2>1, AsideKeeps DEF reset_DWIC, SetRst, At, Enter, bus, hist
<1>25. CASE \E c \in Contexts : ResetDone(c)
  <2>1. PICK c \in Contexts : ResetDone(c) BY <1>25
  <2> QED BY <2>1, AsideKeeps DEF ResetDone, SetRst, At, Enter, bus, hist
<1>26. CASE \E c \in Contexts, enable \in BOOLEAN : setup_DWRSTnIRQ(c, enable)
  <2>1. PICK c \in Contexts, enable \in BOOLEAN : setup_DWRSTnIRQ(c, enable) BY <1>26
  <2> QED BY <2>1, AsideKeeps DEF setup_DWRSTnIRQ, SetRst, At, Enter, bus, hist
<1>27. CASE \E c \in Contexts :
             port_EnableEXT_IRQ(c) \/ port_DisableEXT_IRQ(c) \/ port_set_dwic_isr(c)
  BY <1>27 DEF port_EnableEXT_IRQ, port_DisableEXT_IRQ, port_set_dwic_isr, SetIrq, bus, hist,
              Phases, OneManager, PhaseOf, Rest, IsOpen
<1>28. CASE UNCHANGED vars
  BY <1>28 DEF vars, bus, hist, Phases, OneManager, PhaseOf, Rest, IsOpen
<1> QED
  BY <1>1, <1>2, <1>3, <1>4, <1>5, <1>6, <1>7, <1>8, <1>9, <1>10, <1>11, <1>12, <1>13,
     <1>14, <1>15, <1>16, <1>17, <1>18, <1>19, <1>20, <1>21, <1>22, <1>23, <1>24, <1>25,
     <1>26, <1>27, <1>28 DEF Next

LEMMA PhaseInvariance == Spec => [](BusInv /\ Phases)
<1>1. Init => BusInv /\ Phases BY InitBusInv, InitPhases
<1>2. BusInv /\ Phases /\ [Next]_vars => (BusInv /\ Phases)' BY StepBusInv, StepPhases
<1> QED BY <1>1, <1>2, PTL DEF Spec

\* Between calls spi_initialized, the driver, the chip select and the rate agree,
\* as long as no two of openspi, closespi and the speed calls were at work at once:
\* the premise is exactly what the missing mask leaves open (rnb_ranging_spi.c:141-260).
THEOREM FlagsTellTheTruth == Spec => []FlagsFollowHardware
<1>1. BusInv /\ Phases => FlagsFollowHardware
  BY DEF BusInv, MoreOK, Phases, Rest, FlagsFollowHardware
<1> QED BY <1>1, PhaseInvariance, PTL

\* With no call going on the chip is not selected: whoever selects it is still
\* there, or has closed the bus, and the pin with it (rnb_ranging_spi.c:262-420,
\* rnb_ranging_port.c:252-278).
THEOREM NobodyLeavesTheChipSelected == Spec => []IdleChipDeselected
<1>1. BusInv /\ Phases => IdleChipDeselected
  <2> SUFFICES ASSUME BusInv, Phases, ~crossed, \A c \in Contexts : pc[c] = "idle", pin = "active"
      PROVE FALSE
    BY DEF IdleChipDeselected
  <2>1. Rest BY DEF Phases, Managing
  <2>2. ~initialized BY DEF BusInv, ChipIsHeld
  <2> QED BY <2>1, <2>2 DEF Rest
<1> QED BY <1>1, PhaseInvariance, PTL

--------------------------------------------------------------------------------
(* Types. The rate is one the peripheral has, and not above the one asked for.   *)

LEMMA FrequencyIsSupported ==
  ASSUME NEW f \in Nat, f >= 125
  PROVE  get_nrf_spi_frequency(f) \in Supported /\ get_nrf_spi_frequency(f) <= f
<1> DEFINE S == {125} \cup {s \in Supported : s <= f}
<1>1. \E x \in S : \A y \in S : x >= y
  <2>1. CASE f >= 8000 BY <2>1 DEF Supported
  <2>2. CASE 4000 <= f /\ f < 8000 BY <2>2 DEF Supported
  <2>3. CASE 2000 <= f /\ f < 4000 BY <2>3 DEF Supported
  <2>4. CASE 1000 <= f /\ f < 2000 BY <2>4 DEF Supported
  <2>5. CASE 500 <= f /\ f < 1000 BY <2>5 DEF Supported
  <2>6. CASE 250 <= f /\ f < 500 BY <2>6 DEF Supported
  <2>7. CASE f < 250 BY <2>7 DEF Supported
  <2> QED BY <2>1, <2>2, <2>3, <2>4, <2>5, <2>6, <2>7
<1>2. Max(S) \in S BY <1>1 DEF Max
<1> QED BY <1>2 DEF get_nrf_spi_frequency, Supported

RateOK == rate \in Supported /\ (rate <= 2000 \/ rate <= MaxFrequency)
FlagsOK ==
  /\ known \in BOOLEAN /\ initialized \in BOOLEAN /\ busy \in BOOLEAN
  /\ cfg \in Speeds \cup {"none"} /\ up \in BOOLEAN
  /\ pin \in {"disconnected", "inactive", "active"}
  /\ rst \in {"disconnected", "driven", "driven_irq"} /\ irq \in BOOLEAN
  /\ torn \in [Contexts -> BOOLEAN] /\ crossed \in BOOLEAN

LEMMA RateOfIsOK ==
  ASSUME NEW speed
  PROVE  RateOf(speed) \in Supported /\ (RateOf(speed) <= 2000 \/ RateOf(speed) <= MaxFrequency)
<1>1. CASE speed = "slow" BY <1>1, FrequencyIsSupported DEF RateOf
<1>2. CASE speed # "slow" BY <1>2, FrequencyIsSupported, SpiAssumption DEF RateOf
<1> QED BY <1>1, <1>2

LEMMA StepRateOK == ASSUME RateOK, [Next]_vars PROVE RateOK'
<1> USE RateOfIsOK DEF RateOK, bus
<1>1. CASE \E c \in Contexts : OpenTest(c)
  BY <1>1 DEF OpenTest
<1>2. CASE \E c \in Contexts : OpenInit(c)
  BY <1>2 DEF OpenInit
<1>3. CASE \E c \in Contexts : OpenPins(c)
  BY <1>3 DEF OpenPins
<1>4. CASE \E c \in Contexts : OpenFlag(c)
  BY <1>4 DEF OpenFlag
<1>5. CASE \E c \in Contexts : CloseTest(c)
  BY <1>5 DEF CloseTest
<1>6. CASE \E c \in Contexts : CloseUninit(c)
  BY <1>6 DEF CloseUninit
<1>7. CASE \E c \in Contexts : ClosePins(c)
  BY <1>7 DEF ClosePins
<1>8. CASE \E c \in Contexts : CloseFlag(c)
  BY <1>8 DEF CloseFlag
<1>9. CASE \E c \in Contexts, s \in Speeds : SetSpeed(c, s)
  BY <1>9 DEF SetSpeed, Choose
<1>10. CASE \E c \in Contexts : SetFrequency(c)
  BY <1>10 DEF SetFrequency
<1>11. CASE \E c \in Contexts : writetospi(c)
  BY <1>11 DEF writetospi, Begin, Others, Directions
<1>12. CASE \E c \in Contexts : readfromspi(c)
  BY <1>12 DEF readfromspi, Begin, Others, Directions
<1>13. CASE \E c \in Contexts : Select(c)
  BY <1>13 DEF Select, SetPin
<1>14. CASE \E c \in Contexts : HeaderXfer(c)
  BY <1>14 DEF HeaderXfer
<1>15. CASE \E c \in Contexts : WriteBody(c)
  BY <1>15 DEF WriteBody, BodyXfer
<1>16. CASE \E c \in Contexts : ReadBody(c)
  BY <1>16 DEF ReadBody, BodyXfer
<1>17. CASE \E c \in Contexts : Deselect(c)
  BY <1>17 DEF Deselect, SetPin
<1>18. CASE \E c \in Contexts : Release(c)
  BY <1>18 DEF Release
<1>19. CASE \E c \in Contexts : Wakeup(c)
  BY <1>19 DEF Wakeup
<1>20. CASE \E c \in Contexts : activate_cs(c)
  BY <1>20 DEF activate_cs, SetPin
<1>21. CASE \E c \in Contexts : WakeupTest(c)
  BY <1>21 DEF WakeupTest
<1>22. CASE \E c \in Contexts : deactivate_cs(c)
  BY <1>22 DEF deactivate_cs, SetPin
<1>23. CASE \E c \in Contexts : WakeupRate(c)
  BY <1>23 DEF WakeupRate, Choose
<1>24. CASE \E c \in Contexts : reset_DWIC(c)
  BY <1>24 DEF reset_DWIC, SetRst
<1>25. CASE \E c \in Contexts : ResetDone(c)
  BY <1>25 DEF ResetDone, SetRst
<1>26. CASE \E c \in Contexts, enable \in BOOLEAN : setup_DWRSTnIRQ(c, enable)
  BY <1>26 DEF setup_DWRSTnIRQ, SetRst
<1>27. CASE \E c \in Contexts : port_EnableEXT_IRQ(c)
  BY <1>27 DEF port_EnableEXT_IRQ, SetIrq
<1>28. CASE \E c \in Contexts : port_DisableEXT_IRQ(c)
  BY <1>28 DEF port_DisableEXT_IRQ, SetIrq
<1>29. CASE \E c \in Contexts : port_set_dwic_isr(c)
  BY <1>29 DEF port_set_dwic_isr, SetIrq
<1>30. CASE UNCHANGED vars BY <1>30 DEF vars
<1> QED
  BY <1>1, <1>2, <1>3, <1>4, <1>5, <1>6, <1>7, <1>8, <1>9, <1>10, <1>11, <1>12, <1>13,
     <1>14, <1>15, <1>16, <1>17, <1>18, <1>19, <1>20, <1>21, <1>22, <1>23, <1>24, <1>25,
     <1>26, <1>27, <1>28, <1>29, <1>30 DEF Next

LEMMA StepFlagsOK == ASSUME FlagsOK, [Next]_vars PROVE FlagsOK'
<1> USE DEF FlagsOK, Speeds, bus, hist
<1>1. CASE \E c \in Contexts : OpenTest(c)
  BY <1>1 DEF OpenTest, Cross
<1>2. CASE \E c \in Contexts : OpenInit(c)
  BY <1>2 DEF OpenInit
<1>3. CASE \E c \in Contexts : OpenPins(c)
  BY <1>3 DEF OpenPins
<1>4. CASE \E c \in Contexts : OpenFlag(c)
  BY <1>4 DEF OpenFlag
<1>5. CASE \E c \in Contexts : CloseTest(c)
  BY <1>5 DEF CloseTest, Cross
<1>6. CASE \E c \in Contexts : CloseUninit(c)
  BY <1>6 DEF CloseUninit
<1>7. CASE \E c \in Contexts : ClosePins(c)
  BY <1>7 DEF ClosePins
<1>8. CASE \E c \in Contexts : CloseFlag(c)
  BY <1>8 DEF CloseFlag
<1>9. CASE \E c \in Contexts, s \in Speeds : SetSpeed(c, s)
  BY <1>9 DEF SetSpeed, Choose, Cross
<1>10. CASE \E c \in Contexts : SetFrequency(c)
  BY <1>10 DEF SetFrequency
<1>11. CASE \E c \in Contexts : writetospi(c)
  BY <1>11 DEF writetospi, Begin, Others, Directions
<1>12. CASE \E c \in Contexts : readfromspi(c)
  BY <1>12 DEF readfromspi, Begin, Others, Directions
<1>13. CASE \E c \in Contexts : Select(c)
  BY <1>13 DEF Select, SetPin
<1>14. CASE \E c \in Contexts : HeaderXfer(c)
  BY <1>14 DEF HeaderXfer
<1>15. CASE \E c \in Contexts : WriteBody(c)
  BY <1>15 DEF WriteBody, BodyXfer
<1>16. CASE \E c \in Contexts : ReadBody(c)
  BY <1>16 DEF ReadBody, BodyXfer
<1>17. CASE \E c \in Contexts : Deselect(c)
  BY <1>17 DEF Deselect, SetPin
<1>18. CASE \E c \in Contexts : Release(c)
  BY <1>18 DEF Release
<1>19. CASE \E c \in Contexts : Wakeup(c)
  BY <1>19 DEF Wakeup
<1>20. CASE \E c \in Contexts : activate_cs(c)
  BY <1>20 DEF activate_cs, SetPin
<1>21. CASE \E c \in Contexts : WakeupTest(c)
  BY <1>21 DEF WakeupTest
<1>22. CASE \E c \in Contexts : deactivate_cs(c)
  BY <1>22 DEF deactivate_cs, SetPin
<1>23. CASE \E c \in Contexts : WakeupRate(c)
  BY <1>23 DEF WakeupRate, Choose, Cross
<1>24. CASE \E c \in Contexts : reset_DWIC(c)
  BY <1>24 DEF reset_DWIC, SetRst
<1>25. CASE \E c \in Contexts : ResetDone(c)
  BY <1>25 DEF ResetDone, SetRst
<1>26. CASE \E c \in Contexts, enable \in BOOLEAN : setup_DWRSTnIRQ(c, enable)
  BY <1>26 DEF setup_DWRSTnIRQ, SetRst
<1>27. CASE \E c \in Contexts : port_EnableEXT_IRQ(c)
  BY <1>27 DEF port_EnableEXT_IRQ, SetIrq
<1>28. CASE \E c \in Contexts : port_DisableEXT_IRQ(c)
  BY <1>28 DEF port_DisableEXT_IRQ, SetIrq
<1>29. CASE \E c \in Contexts : port_set_dwic_isr(c)
  BY <1>29 DEF port_set_dwic_isr, SetIrq
<1>30. CASE UNCHANGED vars BY <1>30 DEF vars
<1> QED
  BY <1>1, <1>2, <1>3, <1>4, <1>5, <1>6, <1>7, <1>8, <1>9, <1>10, <1>11, <1>12, <1>13,
     <1>14, <1>15, <1>16, <1>17, <1>18, <1>19, <1>20, <1>21, <1>22, <1>23, <1>24, <1>25,
     <1>26, <1>27, <1>28, <1>29, <1>30 DEF Next

\* The program keeps to its types, and the peripheral gets a rate it has, not above
\* the 2 MHz or the device tree's rate asked for (rnb_ranging_spi.c:45-77).
THEOREM RangingSpiTypeCorrect == Spec => []TypeOK
<1>1. Init => IInv /\ RateOK /\ FlagsOK
  <2>1. Init => RateOK BY RateOfIsOK DEF Init, RateOK
  <2>2. Init => FlagsOK BY DEF Init, FlagsOK
  <2> QED BY <2>1, <2>2, InitIInv
<1>2. IInv /\ RateOK /\ FlagsOK /\ [Next]_vars => (IInv /\ RateOK /\ FlagsOK)'
  BY StepIInv, StepRateOK, StepFlagsOK
<1>3. IInv /\ RateOK /\ FlagsOK => TypeOK
  BY DEF IInv, PlacesOK, RateOK, FlagsOK, TypeOK, Inside, Outside, Asleep, Managing
<1> QED BY <1>1, <1>2, <1>3, PTL DEF Spec
================================================================================
