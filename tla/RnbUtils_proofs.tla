----------------------------- MODULE RnbUtils_proofs -----------------------------
(***************************************************************************)
(* The lifecycle invariants of RnbUtils for every pool size and for both    *)
(* orders of the thread priorities.                                         *)
(***************************************************************************)
EXTENDS RnbUtils, SequenceTheorems, TLAPS

Distinct(q) == \A j, k \in 1 .. Len(q) : q[j] = q[k] => j = k

\* While the bus is not connected (or is about to be noted so), the stop request
\* is the last of its pair in the queue, or there is nothing left to stop.
StopSide ==
  ~rnb_connected \/ upc = "disconnect" =>
    \/ LastIn(workq, "ot_stop") \/ "ot_stop" \in overtaken
    \/ /\ "ot_start" \notin Queued(workq) /\ running # "ot_start"
       /\ ot_started => running = "ot_stop"

\* ot_start is submitted after the flag is set.
StartAfterFlag == upc = "submit_start" => rnb_connected

\* The same of a connected bus and the start request.
StartSide ==
  rnb_connected /\ upc \notin {"submit_start", "disconnect"} =>
    \/ LastIn(workq, "ot_start") \/ "ot_start" \in overtaken \/ down
    \/ /\ "ot_stop" \notin Queued(workq) /\ running # "ot_stop"
       /\ ot_started \/ running = "ot_start"

\* The same of the two requests for the interface.
InitSide ==
  asked = "ot_init" =>
    \/ LastIn(workq, "ot_init") \/ "ot_init" \in overtaken \/ refused
    \/ /\ "ot_deinit" \notin Queued(workq) /\ running # "ot_deinit"
       /\ rnb_started \/ running = "ot_init"

DeinitSide ==
  asked = "ot_deinit" =>
    \/ LastIn(workq, "ot_deinit") \/ "ot_deinit" \in overtaken \/ refused
    \/ /\ "ot_init" \notin Queued(workq) /\ running # "ot_init"
       /\ ~rnb_started \/ running = "ot_deinit"

\* e is the last report in the pool that is not passive.
LastReport(e) ==
  \E k \in 1 .. Len(events) :
    events[k] = e /\ \A j \in k + 1 .. Len(events) : events[j] \in Passive

OnlyPassive == \A k \in 1 .. Len(events) : events[k] \in Passive

\* The thread has no event, or is configuring the driver on a STOPPED.
Aside == upc \in {"get", "init_config", "update_config", "submit_init"}

\* The driver's last report that is not passive is still queued, being processed,
\* or noted; passive ones that come behind it take nothing back.
BusSide ==
  /\ bus = "UNSYNCHRONIZED" =>
       \/ LastReport("UNSYNCHRONIZED")
       \/ /\ OnlyPassive
          /\ upc \in {"submit_stop", "disconnect"} \/ (Aside /\ ~rnb_connected)
  /\ bus = "CONNECTED" =>
       \/ LastReport("CONNECTED")
       \/ /\ OnlyPassive
          /\ upc = "connect" \/ ((Aside \/ upc = "submit_start") /\ rnb_connected)

\* The inductive invariant.
IInv ==
  /\ TypeOK /\ StartAfterFlag /\ StopSide /\ StartSide /\ InitSide /\ DeinitSide /\ BusSide
  /\ ConfiguredNodeIsStarted

--------------------------------------------------------------------------------
(* The queue                                                                *)

\* Taking the first item keeps the order of the others; an item that was last of
\* its pair leaves its opposite nowhere in the queue.
LEMMA PopQueue ==
  ASSUME NEW q \in Seq(Work), q # <<>>, Distinct(q)
  PROVE  /\ Tail(q) \in Seq(Work) /\ Distinct(Tail(q)) /\ Head(q) \in Work
         /\ Queued(Tail(q)) = Queued(q) \ {Head(q)}
         /\ \A w \in Work : LastIn(q, w) /\ w # Head(q) => LastIn(Tail(q), w)
         /\ LastIn(q, Head(q)) => Opposite(Head(q)) \notin Queued(Tail(q))
<1>1. /\ Len(q) \in Nat \ {0} /\ Head(q) = q[1] /\ Head(q) \in Work
      /\ Tail(q) \in Seq(Work) /\ Len(Tail(q)) = Len(q) - 1
      /\ \A k \in 1 .. Len(Tail(q)) : Tail(q)[k] = q[k + 1]
  BY EmptySeq, LenProperties, HeadTailProperties
<1> DEFINE t == Tail(q)
<1> HIDE DEF t
<1>2. /\ Len(t) \in Nat /\ Len(q) = Len(t) + 1 /\ \A k \in 1 .. Len(t) : t[k] = q[k + 1]
  BY <1>1 DEF t
<1>3. Distinct(t)
  BY <1>2 DEF Distinct
<1>4. Queued(t) = Queued(q) \ {Head(q)}
  <2>1. \A k \in 1 .. Len(t) : t[k] \in Queued(q) /\ t[k] # Head(q)
    BY <1>1, <1>2 DEF Queued, Distinct
  <2>2. ASSUME NEW k \in 1 .. Len(q), q[k] # Head(q) PROVE q[k] \in Queued(t)
    <3>1. k - 1 \in 1 .. Len(t) /\ t[k - 1] = q[k]
      BY <1>1, <1>2, <2>2
    <3> QED BY <3>1 DEF Queued
  <2> QED BY <2>1, <2>2 DEF Queued
<1>5. ASSUME NEW w \in Work, LastIn(q, w), w # Head(q) PROVE LastIn(t, w)
  <2>1. PICK k \in 1 .. Len(q) :
          q[k] = w /\ \A j \in k + 1 .. Len(q) : q[j] # Opposite(w)
    BY <1>5 DEF LastIn
  <2>2. k - 1 \in 1 .. Len(t) /\ t[k - 1] = w
    BY <1>1, <1>2, <1>5, <2>1
  <2>3. \A j \in (k - 1) + 1 .. Len(t) : t[j] # Opposite(w)
    BY <1>2, <2>1
  <2> QED BY <2>2, <2>3 DEF LastIn
<1>6. ASSUME LastIn(q, Head(q)) PROVE Opposite(Head(q)) \notin Queued(t)
  <2>1. PICK k \in 1 .. Len(q) :
          q[k] = q[1] /\ \A j \in k + 1 .. Len(q) : q[j] # Opposite(Head(q))
    BY <1>1, <1>6 DEF LastIn
  <2>2. k = 1
    BY <1>1, <2>1 DEF Distinct
  <2> QED BY <1>2, <2>1, <2>2 DEF Queued
<1> QED BY <1>1, <1>3, <1>4, <1>5, <1>6 DEF t

LEMMA AppendQueue ==
  ASSUME NEW q \in Seq(Work), NEW w \in Work
  PROVE  /\ Append(q, w) \in Seq(Work)
         /\ Queued(Append(q, w)) = Queued(q) \cup {w}
         /\ LastIn(Append(q, w), w)
         /\ \A v \in Work : LastIn(q, v) /\ w # Opposite(v) => LastIn(Append(q, w), v)
         /\ Distinct(q) /\ w \notin Queued(q) => Distinct(Append(q, w))
<1> DEFINE a == Append(q, w)
<1>1. /\ a \in Seq(Work) /\ Len(q) \in Nat /\ Len(a) = Len(q) + 1
      /\ \A k \in 1 .. Len(q) : a[k] = q[k]
      /\ a[Len(q) + 1] = w
  BY AppendProperties, LenProperties
<1> HIDE DEF a
<1>2. Queued(a) = Queued(q) \cup {w}
  BY <1>1 DEF Queued
<1>3. LastIn(a, w)
  <2>1. Len(a) \in 1 .. Len(a) /\ a[Len(a)] = w
    BY <1>1
  <2>2. \A j \in Len(a) + 1 .. Len(a) : FALSE
    BY <1>1
  <2> QED BY <2>1, <2>2 DEF LastIn
<1>4. ASSUME NEW v \in Work, LastIn(q, v), w # Opposite(v) PROVE LastIn(a, v)
  <2>1. PICK k \in 1 .. Len(q) :
          q[k] = v /\ \A j \in k + 1 .. Len(q) : q[j] # Opposite(v)
    BY <1>4 DEF LastIn
  <2>2. \A j \in k + 1 .. Len(a) : a[j] # Opposite(v)
    BY <1>1, <1>4, <2>1
  <2>3. k \in 1 .. Len(a) /\ a[k] = v
    BY <1>1, <2>1
  <2> QED BY <2>2, <2>3 DEF LastIn
<1>5. Distinct(q) /\ w \notin Queued(q) => Distinct(a)
  BY <1>1 DEF Distinct, Queued
<1> QED BY <1>1, <1>2, <1>3, <1>4, <1>5 DEF a

\* What a submission leaves: w is the last of its pair, or known to be overtaken;
\* the other pair is left alone.
LEMMA SubmitQueue ==
  ASSUME TypeOK, NEW w \in Work, Submit(w)
  PROVE  /\ workq' \in Seq(Work) /\ Distinct(workq')
         /\ LastIn(workq', w) \/ w \in overtaken'
         /\ overtaken' \subseteq Work
         /\ \A v \in Work \ {w, Opposite(w)} :
              /\ LastIn(workq, v) => LastIn(workq', v)
              /\ v \in overtaken => v \in overtaken'
              /\ v \notin Queued(workq) => v \notin Queued(workq')
<1>1. workq \in Seq(Work) /\ Distinct(workq) /\ overtaken \subseteq Work
  BY DEF TypeOK, Distinct
<1>2. \A v \in Work \ {w, Opposite(w)} : w # Opposite(v)
  BY DEF Work, Opposite
<1>3. w # Opposite(w)
  BY DEF Work, Opposite
<1>4. \A v \in Work \ {w, Opposite(w)} : v \in overtaken => v \in overtaken'
  BY DEF Submit
<1>5. CASE w \in Queued(workq)
  <2>1. workq' = workq
    BY <1>5 DEF Submit
  <2>2. LastIn(workq', w) \/ w \in overtaken'
    BY <1>3, <1>5, <2>1 DEF Submit
  <2>3. overtaken' \subseteq Work
    BY <1>1 DEF Submit
  <2> QED BY <1>1, <1>4, <2>1, <2>2, <2>3
<1>6. CASE w \notin Queued(workq)
  <2>1. workq' = Append(workq, w)
    BY <1>6 DEF Submit
  <2>2. overtaken' \subseteq Work
    BY <1>1, <1>6 DEF Submit
  <2> QED BY <1>1, <1>2, <1>4, <1>6, <2>1, <2>2, AppendQueue
<1> QED BY <1>5, <1>6

\* What taking an item leaves.
LEMMA TakeQueue ==
  ASSUME TypeOK, NEW w \in Work, NEW Test \in BOOLEAN, BeginWork(w, Test)
  PROVE  /\ workq' \in Seq(Work) /\ Distinct(workq')
         /\ running = "none" /\ running' = (IF Test THEN w ELSE "none")
         /\ w \in Queued(workq) /\ Queued(workq') = Queued(workq) \ {w}
         /\ \A v \in Work : LastIn(workq, v) /\ v # w => LastIn(workq', v)
         /\ LastIn(workq, w) => Opposite(w) \notin Queued(workq')
<1>1. workq \in Seq(Work) /\ Distinct(workq) /\ workq # <<>> /\ Head(workq) = w
  BY DEF TypeOK, Distinct, BeginWork
<1>2. workq' = Tail(workq) /\ running = "none" /\ running' = (IF Test THEN w ELSE "none")
  BY DEF BeginWork
<1>3. w \in Queued(workq)
  BY <1>1, EmptySeq DEF Queued
<1> QED BY <1>1, <1>2, <1>3, PopQueue

--------------------------------------------------------------------------------
(* Types                                                                    *)

LEMMA SubmitType ==
  ASSUME TypeOK, NEW w \in Work, Submit(w)
  PROVE  /\ workq' \in Seq(Work) /\ Distinct(workq') /\ overtaken' \subseteq Work
         /\ asked' \in {"none", "ot_init", "ot_deinit"} /\ refused' \in BOOLEAN
         /\ w = "ot_init" => asked' = "ot_init"
         /\ w \in {"ot_start", "ot_stop"} => asked' = asked /\ refused' = refused
<1>1. workq' \in Seq(Work) /\ Distinct(workq') /\ overtaken' \subseteq Work
  BY SubmitQueue
<1>2. asked \in {"none", "ot_init", "ot_deinit"} /\ refused \in BOOLEAN
  BY DEF TypeOK
<1>3. /\ asked' = (IF w \in {"ot_init", "ot_deinit"} THEN w ELSE asked)
      /\ refused' = (refused /\ w \notin {"ot_init", "ot_deinit"})
  BY DEF Submit
<1> QED BY <1>1, <1>2, <1>3

LEMMA GuardedSubmitType ==
  ASSUME TypeOK, NEW w \in Work, SubmitIfInitialized(w)
  PROVE  /\ workq' \in Seq(Work) /\ Distinct(workq') /\ overtaken' \subseteq Work
         /\ asked' \in {"none", "ot_init", "ot_deinit"} /\ refused' \in BOOLEAN
<1>1. CASE rnb_initialized
  BY <1>1, SubmitType DEF SubmitIfInitialized
<1>2. CASE ~rnb_initialized
  BY <1>2 DEF SubmitIfInitialized, wvars, TypeOK, Distinct
<1> QED BY <1>1, <1>2

LEMMA TypeStep ==
  ASSUME TypeOK, [Next]_vars
  PROVE  TypeOK'
<1> USE UtilsAssumption
<1>q. /\ workq \in Seq(Work) /\ Distinct(workq) /\ overtaken \subseteq Work
      /\ events \in Seq(Event) /\ Len(events) \in Nat
  BY LenProperties DEF TypeOK, Distinct
<1>1. CASE MainStep
  BY <1>1 DEF MainStep, MainConfigure, MainFinish, TypeOK, uvars, flags, wvars, Outstanding
<1>2. ASSUME NEW e \in Event, Report(e) PROVE TypeOK'
  <2>1. events' \in Seq(Event) /\ Outstanding' <= PoolSize
    <3>1. CASE Outstanding < PoolSize
      <4>1. events' = Append(events, e) /\ upc' = upc
        BY <1>2, <3>1 DEF Report, Accept
      <4>2. events' \in Seq(Event) /\ Len(events') = Len(events) + 1
        BY <1>q, <4>1, AppendProperties
      <4> QED BY <1>q, <3>1, <4>1, <4>2 DEF Outstanding
    <3>2. CASE ~(Outstanding < PoolSize)
      BY <1>q, <1>2, <3>2 DEF Report, Accept, Outstanding, TypeOK
    <3> QED BY <3>1, <3>2
  <2>2. bus' \in {"none", "UNSYNCHRONIZED", "CONNECTED"}
    BY <1>2 DEF Report, Accept, TypeOK, Event, BusState, Passive
  <2> QED BY <1>2, <2>1, <2>2 DEF Report, TypeOK, flags, wvars
<1>3. CASE Button
  <2>1. (IF rnb_started THEN "ot_deinit" ELSE "ot_init") \in Work
    BY DEF Work
  <2>2. /\ workq' \in Seq(Work) /\ Distinct(workq') /\ overtaken' \subseteq Work
        /\ asked' \in {"none", "ot_init", "ot_deinit"} /\ refused' \in BOOLEAN
    BY <1>3, <2>1, GuardedSubmitType DEF Button
  <2>3. Outstanding' = Outstanding
    BY <1>3 DEF Button, uvars, Outstanding
  <2> QED BY <1>3, <2>2, <2>3 DEF Button, TypeOK, uvars, flags, Distinct
<1>4. CASE UtilsThread
  <2> USE DEF UtilsStep
  <2>1. CASE UtilsGet
    <3>1. /\ events' \in Seq(Event) /\ Len(events') = Len(events) - 1
          /\ upc = "get" /\ upc' \in Label
      BY <1>q, <2>1, HeadTailProperties DEF UtilsGet, FirstStep, Label
    <3>2. Outstanding' <= PoolSize
      BY <1>q, <3>1 DEF TypeOK, Outstanding
    <3> QED BY <2>1, <3>1, <3>2 DEF UtilsGet, TypeOK, wvars
  <2>2. CASE UtilsInitConfig
    <3>1. Outstanding' <= PoolSize /\ upc' \in Label
      BY <1>q, <2>2 DEF UtilsInitConfig, TypeOK, Outstanding, Label
    <3>2. UNCHANGED <<events, wvars>> /\ rnb_configured' \in BOOLEAN
          /\ rnb_connected' \in BOOLEAN /\ down' \in BOOLEAN
      BY <2>2 DEF UtilsInitConfig, TypeOK
    <3>3. UNCHANGED <<mpc, rnb_initialized, bus, rnb_started, ot_started, running>>
      BY <2>2 DEF UtilsInitConfig
    <3> QED BY <3>1, <3>2, <3>3 DEF TypeOK, wvars
  <2>3. CASE UtilsUpdateConfig
    <3>1. Outstanding' <= PoolSize /\ upc' \in Label
      BY <1>q, <2>3 DEF UtilsUpdateConfig, TypeOK, Outstanding, Label
    <3>2. UNCHANGED <<events, wvars>> /\ rnb_configured' \in BOOLEAN
          /\ rnb_connected' \in BOOLEAN /\ down' \in BOOLEAN
      BY <2>3 DEF UtilsUpdateConfig, TypeOK
    <3>3. UNCHANGED <<mpc, rnb_initialized, bus, rnb_started, ot_started, running>>
      BY <2>3 DEF UtilsUpdateConfig
    <3> QED BY <3>1, <3>2, <3>3 DEF TypeOK, wvars
  <2>4. CASE UtilsSubmitInit
    <3>1. /\ workq' \in Seq(Work) /\ Distinct(workq') /\ overtaken' \subseteq Work
          /\ asked' \in {"none", "ot_init", "ot_deinit"} /\ refused' \in BOOLEAN
      BY <2>4, GuardedSubmitType DEF UtilsSubmitInit, Work
    <3>2. Outstanding' <= PoolSize /\ upc' \in Label
      BY <1>q, <2>4 DEF UtilsSubmitInit, TypeOK, Outstanding, Label
    <3> QED BY <2>4, <3>1, <3>2 DEF UtilsSubmitInit, TypeOK, Distinct
  <2>5. CASE UtilsConnect
    <3>1. Outstanding' <= PoolSize /\ upc' \in Label
      BY <1>q, <2>5 DEF UtilsConnect, TypeOK, Outstanding, Label
    <3>2. UNCHANGED <<events, wvars>> /\ rnb_configured' \in BOOLEAN
          /\ rnb_connected' \in BOOLEAN /\ down' \in BOOLEAN
      BY <2>5 DEF UtilsConnect, TypeOK
    <3>3. UNCHANGED <<mpc, rnb_initialized, bus, rnb_started, ot_started, running>>
      BY <2>5 DEF UtilsConnect
    <3> QED BY <3>1, <3>2, <3>3 DEF TypeOK, wvars
  <2>6. CASE UtilsSubmitStart
    <3>1. /\ workq' \in Seq(Work) /\ Distinct(workq') /\ overtaken' \subseteq Work
          /\ asked' \in {"none", "ot_init", "ot_deinit"} /\ refused' \in BOOLEAN
      BY <2>6, SubmitType DEF UtilsSubmitStart, Work
    <3>2. Outstanding' <= PoolSize /\ upc' \in Label
      BY <1>q, <2>6 DEF UtilsSubmitStart, TypeOK, Outstanding, Label
    <3> QED BY <2>6, <3>1, <3>2 DEF UtilsSubmitStart, TypeOK, Distinct
  <2>7. CASE UtilsSubmitStop
    <3>1. /\ workq' \in Seq(Work) /\ Distinct(workq') /\ overtaken' \subseteq Work
          /\ asked' \in {"none", "ot_init", "ot_deinit"} /\ refused' \in BOOLEAN
      BY <2>7, SubmitType DEF UtilsSubmitStop, Work
    <3>2. Outstanding' <= PoolSize /\ upc' \in Label
      BY <1>q, <2>7 DEF UtilsSubmitStop, TypeOK, Outstanding, Label
    <3> QED BY <2>7, <3>1, <3>2 DEF UtilsSubmitStop, TypeOK, Distinct
  <2>8. CASE UtilsDisconnect
    <3>1. Outstanding' <= PoolSize /\ upc' \in Label
      BY <1>q, <2>8 DEF UtilsDisconnect, TypeOK, Outstanding, Label
    <3>2. UNCHANGED <<events, wvars>> /\ rnb_configured' \in BOOLEAN
          /\ rnb_connected' \in BOOLEAN /\ down' \in BOOLEAN
      BY <2>8 DEF UtilsDisconnect, TypeOK
    <3>3. UNCHANGED <<mpc, rnb_initialized, bus, rnb_started, ot_started, running>>
      BY <2>8 DEF UtilsDisconnect
    <3> QED BY <3>1, <3>2, <3>3 DEF TypeOK, wvars
  <2> QED BY <1>4, <2>1, <2>2, <2>3, <2>4, <2>5, <2>6, <2>7, <2>8 DEF UtilsThread
<1>5. CASE WorkQueue
  <2>1. ASSUME NEW w \in Work, NEW Test \in BOOLEAN, BeginWork(w, Test) PROVE TypeOK'
    <3>1. workq' \in Seq(Work) /\ Distinct(workq') /\ running' \in Work \cup {"none"}
      BY <2>1, TakeQueue
    <3> QED BY <2>1, <3>1 DEF BeginWork, TypeOK, uvars, flags, Distinct, Outstanding
  <2>2. BeginInit \/ BeginDeinit \/ BeginStart \/ BeginStop => TypeOK'
    BY <2>1 DEF BeginInit, BeginDeinit, BeginStart, BeginStop, Work, TypeOK
  <2>3. EndInit \/ EndDeinit \/ EndStart \/ EndStop => TypeOK'
    <3> SUFFICES ASSUME EndInit \/ EndDeinit \/ EndStart \/ EndStop PROVE TypeOK'
      OBVIOUS
    <3>1. Outstanding' = Outstanding
      BY DEF EndInit, EndDeinit, EndStart, EndStop, EndWork, uvars, Outstanding
    <3>2. /\ running' = "none" /\ UNCHANGED <<mpc, rnb_initialized, uvars, workq, overtaken>>
          /\ UNCHANGED <<rnb_configured, rnb_connected, asked>>
      BY DEF EndInit, EndDeinit, EndStart, EndStop, EndWork
    <3>3. /\ rnb_started' \in BOOLEAN /\ ot_started' \in BOOLEAN
          /\ refused' \in BOOLEAN /\ down' \in BOOLEAN
      BY DEF EndInit, EndDeinit, EndStart, EndStop, TypeOK
    <3> QED BY <3>1, <3>2, <3>3 DEF TypeOK, uvars
  <2> QED BY <1>5, <2>2, <2>3 DEF WorkQueue
<1>6. CASE UNCHANGED vars
  BY <1>6 DEF vars, uvars, flags, wvars, TypeOK, Outstanding
<1> QED BY <1>1, <1>2, <1>3, <1>4, <1>5, <1>6 DEF Next

--------------------------------------------------------------------------------
(* The four sides                                                           *)

\* A request of the one pair does not disturb the other one.
LEMMA OtherPair ==
  ASSUME TypeOK, NEW v \in Work, NEW w \in Work, v \notin {w, Opposite(w)},
         Submit(w) \/ SubmitIfInitialized(w)
  PROVE  /\ LastIn(workq, v) => LastIn(workq', v)
         /\ v \in overtaken => v \in overtaken'
         /\ v \notin Queued(workq) => v \notin Queued(workq')
<1>1. CASE Submit(w)
  BY <1>1, SubmitQueue
<1>2. CASE UNCHANGED wvars
  BY <1>2 DEF wvars
<1> QED BY <1>1, <1>2 DEF SubmitIfInitialized

LEMMA FlagStep ==
  ASSUME TypeOK, StartAfterFlag, [Next]_vars
  PROVE  StartAfterFlag'
<1>1. CASE UtilsThread
  BY <1>1 DEF UtilsThread, UtilsGet, UtilsInitConfig, UtilsUpdateConfig, UtilsSubmitInit,
              UtilsConnect, UtilsSubmitStart, UtilsSubmitStop, UtilsDisconnect, UtilsStep,
              FirstStep, StartAfterFlag
<1>2. CASE ~UtilsThread
  <2>1. UNCHANGED <<upc, rnb_connected>>
    BY <1>2 DEF Next, MainStep, MainConfigure, MainFinish, Report, Button, WorkQueue,
                BeginInit, BeginDeinit, BeginStart, BeginStop, BeginWork,
                EndInit, EndDeinit, EndStart, EndStop, EndWork, vars, uvars, flags
  <2> QED BY <2>1 DEF StartAfterFlag
<1> QED BY <1>1, <1>2

\* Steps that change nothing the Thread pair depends on.
ThreadPairIdle ==
  UNCHANGED <<rnb_connected, ot_started, running, workq, overtaken, down>>

LEMMA IdleSteps ==
  ASSUME \/ MainStep \/ (\E e \in Event : Report(e)) \/ UNCHANGED vars
         \/ UtilsGet \/ UtilsInitConfig \/ UtilsUpdateConfig
  PROVE  ThreadPairIdle /\ (upc' = upc \/ upc' \notin {"disconnect", "submit_start"})
<1>1. CASE MainStep \/ (\E e \in Event : Report(e)) \/ UNCHANGED vars
  BY <1>1 DEF MainStep, MainConfigure, MainFinish, Report, vars, uvars, flags, wvars,
              ThreadPairIdle
<1>2. CASE UtilsGet \/ UtilsInitConfig \/ UtilsUpdateConfig
  BY <1>2 DEF UtilsGet, UtilsInitConfig, UtilsUpdateConfig, UtilsStep, FirstStep, wvars,
              ThreadPairIdle
<1> QED BY <1>1, <1>2

\* The request for the interface that Button and UtilsSubmitInit make.
LEMMA InterfaceRequest ==
  ASSUME TypeOK, Button \/ UtilsSubmitInit, NEW v \in {"ot_start", "ot_stop"}
  PROVE  /\ LastIn(workq, v) => LastIn(workq', v)
         /\ v \in overtaken => v \in overtaken'
         /\ v \notin Queued(workq) => v \notin Queued(workq')
         /\ UNCHANGED <<rnb_connected, ot_started, running, down>>
         /\ upc' = upc \/ (upc' = "get" /\ upc = "submit_init")
<1>1. \E w \in {"ot_init", "ot_deinit"} : SubmitIfInitialized(w)
  BY DEF Button, UtilsSubmitInit
<1>2. PICK w \in {"ot_init", "ot_deinit"} : SubmitIfInitialized(w)
  BY <1>1
<1>3. v \in Work /\ w \in Work /\ v \notin {w, Opposite(w)}
  BY DEF Work, Opposite
<1>4. /\ UNCHANGED <<rnb_connected, ot_started, running, down>>
      /\ upc' = upc \/ (upc' = "get" /\ upc = "submit_init")
  BY DEF Button, UtilsSubmitInit, UtilsStep, flags, uvars
<1>5. /\ LastIn(workq, v) => LastIn(workq', v)
      /\ v \in overtaken => v \in overtaken'
      /\ v \notin Queued(workq) => v \notin Queued(workq')
  BY <1>2, <1>3, OtherPair
<1> QED BY <1>4, <1>5

LEMMA StopSideStep ==
  ASSUME TypeOK, StartAfterFlag, StopSide, [Next]_vars
  PROVE  StopSide'
<1> USE DEF StopSide
<1>1. CASE \/ MainStep \/ (\E e \in Event : Report(e)) \/ UNCHANGED vars
           \/ UtilsGet \/ UtilsInitConfig \/ UtilsUpdateConfig
  BY <1>1, IdleSteps DEF ThreadPairIdle
<1>2. CASE Button \/ UtilsSubmitInit
  BY <1>2, InterfaceRequest
<1>3. CASE UtilsConnect
  BY <1>3 DEF UtilsConnect, UtilsStep
<1>4. CASE UtilsSubmitStart
  BY <1>4 DEF UtilsSubmitStart, UtilsStep, StartAfterFlag
<1>5. CASE UtilsSubmitStop
  BY <1>5, SubmitQueue DEF UtilsSubmitStop, Work
<1>6. CASE UtilsDisconnect
  BY <1>6 DEF UtilsDisconnect, UtilsStep, wvars
<1>7. ASSUME NEW w \in Work, NEW Test \in BOOLEAN, BeginWork(w, Test),
             w = "ot_stop" => Test = ot_started
      PROVE  StopSide'
  <2>1. UNCHANGED <<rnb_connected, ot_started, upc, overtaken>>
    BY <1>7 DEF BeginWork, uvars, flags
  <2>2. /\ running = "none" /\ running' = (IF Test THEN w ELSE "none")
        /\ w \in Queued(workq) /\ Queued(workq') = Queued(workq) \ {w}
        /\ LastIn(workq, "ot_stop") /\ w # "ot_stop" => LastIn(workq', "ot_stop")
        /\ LastIn(workq, "ot_stop") /\ w = "ot_stop" => "ot_start" \notin Queued(workq')
    BY <1>7, TakeQueue DEF Work, Opposite
  <2> QED BY <1>7, <2>1, <2>2
<1>8. CASE BeginInit \/ BeginDeinit \/ BeginStart \/ BeginStop
  BY <1>7, <1>8 DEF BeginInit, BeginDeinit, BeginStart, BeginStop, Work, TypeOK
<1>9. CASE EndInit \/ EndDeinit \/ EndStart \/ EndStop
  <2>1. UNCHANGED <<rnb_connected, upc, workq, overtaken>> /\ running' = "none"
    BY <1>9 DEF EndInit, EndDeinit, EndStart, EndStop, EndWork, uvars
  <2>2. (ot_started' => ot_started) \/ running = "ot_start"
    BY <1>9 DEF EndInit, EndDeinit, EndStart, EndStop, EndWork
  <2>3. running = "ot_stop" => ~ot_started'
    BY <1>9 DEF EndInit, EndDeinit, EndStart, EndStop, EndWork
  <2> QED BY <2>1, <2>2, <2>3
<1> QED
  BY <1>1, <1>2, <1>3, <1>4, <1>5, <1>6, <1>8, <1>9 DEF Next, UtilsThread, WorkQueue

LEMMA StartSideStep ==
  ASSUME TypeOK, StartSide, [Next]_vars
  PROVE  StartSide'
<1> USE DEF StartSide
<1>1. CASE \/ MainStep \/ (\E e \in Event : Report(e)) \/ UNCHANGED vars
           \/ UtilsGet \/ UtilsInitConfig \/ UtilsUpdateConfig
  <2>1. upc' \notin {"disconnect", "submit_start"} => upc \notin {"disconnect", "submit_start"}
    BY <1>1 DEF MainStep, MainConfigure, MainFinish, Report, vars, uvars,
                UtilsGet, UtilsInitConfig, UtilsUpdateConfig, UtilsStep
  <2> QED BY <1>1, <2>1, IdleSteps DEF ThreadPairIdle
<1>2. CASE Button \/ UtilsSubmitInit
  BY <1>2, InterfaceRequest
<1>3. CASE UtilsConnect
  BY <1>3 DEF UtilsConnect, UtilsStep
<1>4. CASE UtilsSubmitStart
  BY <1>4, SubmitQueue DEF UtilsSubmitStart, Work
<1>5. CASE UtilsSubmitStop
  BY <1>5 DEF UtilsSubmitStop, UtilsStep
<1>6. CASE UtilsDisconnect
  BY <1>6 DEF UtilsDisconnect, UtilsStep
<1>7. ASSUME NEW w \in Work, NEW Test \in BOOLEAN, BeginWork(w, Test),
             w = "ot_start" => Test = (rnb_connected /\ ~ot_started)
      PROVE  StartSide'
  <2>1. UNCHANGED <<rnb_connected, ot_started, upc, overtaken, down>>
    BY <1>7 DEF BeginWork, uvars, flags
  <2>2. /\ running = "none" /\ running' = (IF Test THEN w ELSE "none")
        /\ w \in Queued(workq) /\ Queued(workq') = Queued(workq) \ {w}
        /\ LastIn(workq, "ot_start") /\ w # "ot_start" => LastIn(workq', "ot_start")
        /\ LastIn(workq, "ot_start") /\ w = "ot_start" => "ot_stop" \notin Queued(workq')
    BY <1>7, TakeQueue DEF Work, Opposite
  <2> QED BY <1>7, <2>1, <2>2
<1>8. CASE BeginInit \/ BeginDeinit \/ BeginStart \/ BeginStop
  BY <1>7, <1>8 DEF BeginInit, BeginDeinit, BeginStart, BeginStop, Work, TypeOK
<1>9. CASE EndInit \/ EndDeinit \/ EndStart \/ EndStop
  <2>1. UNCHANGED <<rnb_connected, upc, workq, overtaken>> /\ running' = "none"
    BY <1>9 DEF EndInit, EndDeinit, EndStart, EndStop, EndWork, uvars
  <2>2. /\ down => down'
        /\ ot_started => ot_started' \/ down' \/ running = "ot_stop"
        /\ running = "ot_start" => ot_started' \/ down'
    <3>1. CASE EndInit \/ EndStop
      BY <3>1 DEF EndInit, EndStop, EndWork
    <3>2. CASE EndDeinit
      BY <3>2 DEF EndDeinit, EndWork
    <3>3. CASE EndStart
      <4>1. PICK accepted \in BOOLEAN :
              ot_started' = accepted /\ down' = (down \/ ~accepted)
        BY <3>3 DEF EndStart
      <4>2. running = "ot_start"
        BY <3>3 DEF EndStart, EndWork
      <4>3. CASE accepted
        BY <4>1, <4>2, <4>3
      <4>4. CASE ~accepted
        BY <4>1, <4>2, <4>4
      <4> QED BY <4>3, <4>4
    <3> QED BY <1>9, <3>1, <3>2, <3>3
  <2> QED BY <2>1, <2>2
<1> QED
  BY <1>1, <1>2, <1>3, <1>4, <1>5, <1>6, <1>8, <1>9 DEF Next, UtilsThread, WorkQueue

\* InitSide and DeinitSide step by step.
LEMMA InterfaceSidesStep ==
  ASSUME TypeOK, InitSide, DeinitSide, [Next]_vars
  PROVE  InitSide' /\ DeinitSide'
<1> USE DEF InitSide, DeinitSide
<1>1. CASE \/ MainStep \/ (\E e \in Event : Report(e)) \/ UNCHANGED vars
           \/ UtilsGet \/ UtilsInitConfig \/ UtilsUpdateConfig
           \/ UtilsConnect \/ UtilsDisconnect
  <2>1. UNCHANGED <<workq, overtaken, asked, refused, running, rnb_started>>
    BY <1>1 DEF MainStep, MainConfigure, MainFinish, Report, vars, uvars, flags, wvars, UtilsGet,
                UtilsInitConfig, UtilsUpdateConfig, UtilsConnect, UtilsDisconnect, UtilsStep
  <2> QED BY <2>1
<1>2. ASSUME NEW w \in {"ot_start", "ot_stop"}, Submit(w), UNCHANGED <<running, rnb_started>>
      PROVE  InitSide' /\ DeinitSide'
  <2>1. \A v \in {"ot_init", "ot_deinit"} :
          /\ LastIn(workq, v) => LastIn(workq', v)
          /\ v \in overtaken => v \in overtaken'
          /\ v \notin Queued(workq) => v \notin Queued(workq')
    BY <1>2, OtherPair DEF Work, Opposite
  <2>2. asked' = asked /\ refused' = refused
    BY <1>2, SubmitType DEF Work
  <2> QED BY <1>2, <2>1, <2>2
<1>3. CASE UtilsSubmitStart \/ UtilsSubmitStop
  BY <1>2, <1>3 DEF UtilsSubmitStart, UtilsSubmitStop, UtilsStep
<1>4. ASSUME NEW w \in {"ot_init", "ot_deinit"}, Submit(w)
      PROVE  InitSide' /\ DeinitSide'
  <2>1. LastIn(workq', w) \/ w \in overtaken'
    BY <1>4, SubmitQueue DEF Work
  <2>2. asked' = w
    BY <1>4 DEF Submit
  <2> QED BY <2>1, <2>2
<1>5. ASSUME UNCHANGED wvars, UNCHANGED <<running, rnb_started>>
      PROVE  InitSide' /\ DeinitSide'
  BY <1>5 DEF wvars
<1>6. CASE Button \/ UtilsSubmitInit
  <2>1. UNCHANGED <<running, rnb_started>>
    BY <1>6 DEF Button, UtilsSubmitInit, UtilsStep, flags
  <2>2. \E w \in {"ot_init", "ot_deinit"} : SubmitIfInitialized(w)
    BY <1>6 DEF Button, UtilsSubmitInit
  <2> QED BY <1>4, <1>5, <2>1, <2>2 DEF SubmitIfInitialized
<1>7. ASSUME NEW w \in Work, NEW Test \in BOOLEAN, BeginWork(w, Test),
             w = "ot_init" => Test = ~rnb_started,
             w = "ot_deinit" => Test = rnb_started
      PROVE  InitSide' /\ DeinitSide'
  <2>1. UNCHANGED <<rnb_started, overtaken, asked, refused>>
    BY <1>7 DEF BeginWork, flags
  <2>2. /\ running = "none" /\ running' = (IF Test THEN w ELSE "none")
        /\ w \in Queued(workq) /\ Queued(workq') = Queued(workq) \ {w}
        /\ LastIn(workq, "ot_init") /\ w # "ot_init" => LastIn(workq', "ot_init")
        /\ LastIn(workq, "ot_deinit") /\ w # "ot_deinit" => LastIn(workq', "ot_deinit")
        /\ LastIn(workq, "ot_init") /\ w = "ot_init" => "ot_deinit" \notin Queued(workq')
        /\ LastIn(workq, "ot_deinit") /\ w = "ot_deinit" => "ot_init" \notin Queued(workq')
    BY <1>7, TakeQueue DEF Work, Opposite
  <2>3. InitSide'
    BY <1>7, <2>1, <2>2
  <2>4. DeinitSide'
    BY <1>7, <2>1, <2>2
  <2> QED BY <2>3, <2>4
<1>8. CASE BeginInit \/ BeginDeinit \/ BeginStart \/ BeginStop
  BY <1>7, <1>8 DEF BeginInit, BeginDeinit, BeginStart, BeginStop, Work, TypeOK
<1>9. CASE EndInit \/ EndDeinit \/ EndStart \/ EndStop
  <2>1. UNCHANGED <<workq, overtaken, asked>> /\ running' = "none"
    BY <1>9 DEF EndInit, EndDeinit, EndStart, EndStop, EndWork
  <2>2. /\ refused => refused'
        /\ running = "ot_init" => rnb_started' \/ refused'
        /\ running = "ot_deinit" => ~rnb_started' \/ refused'
        /\ running \notin {"ot_init", "ot_deinit"} => rnb_started' = rnb_started
    <3>1. CASE EndStart \/ EndStop
      BY <3>1 DEF EndStart, EndStop, EndWork
    <3>2. CASE EndInit \/ EndDeinit
      <4>1. PICK accepted \in BOOLEAN :
              /\ refused' = (refused \/ ~accepted)
              /\ EndInit => rnb_started' = accepted
              /\ EndDeinit => rnb_started' = ~accepted
        BY <3>2 DEF EndInit, EndDeinit, EndWork
      <4>2. /\ EndInit => running = "ot_init"
            /\ EndDeinit => running = "ot_deinit"
        BY DEF EndInit, EndDeinit, EndWork
      <4>3. CASE accepted
        BY <3>2, <4>1, <4>2, <4>3
      <4>4. CASE ~accepted
        BY <3>2, <4>1, <4>2, <4>4
      <4> QED BY <4>3, <4>4
    <3> QED BY <1>9, <3>1, <3>2
  <2> QED BY <1>9, <2>1, <2>2 DEF EndInit, EndDeinit, EndStart, EndStop, EndWork
<1> QED
  BY <1>1, <1>3, <1>6, <1>8, <1>9 DEF Next, UtilsThread, WorkQueue

--------------------------------------------------------------------------------
(* The configuration, and what the driver said last                         *)

LEMMA ConfiguredStep ==
  ASSUME TypeOK, ConfiguredNodeIsStarted, [Next]_vars
  PROVE  ConfiguredNodeIsStarted'
<1> USE DEF ConfiguredNodeIsStarted
<1>1. ASSUME NEW w \in Work, Submit(w) PROVE asked # "none" => asked' # "none"
  BY <1>1 DEF Submit, Work
<1>2. CASE Button
  <2>1. asked # "none" => asked' # "none"
    BY <1>1, <1>2 DEF Button, SubmitIfInitialized, wvars, Work
  <2> QED BY <1>2, <2>1 DEF Button, uvars, flags
<1>3. CASE UtilsSubmitInit
  <2>1. MainOutranksUtils => rnb_initialized
    BY <1>3 DEF UtilsSubmitInit, UtilsStep, UtilsMayRun, TypeOK
  <2>2. rnb_initialized => asked' = "ot_init"
    BY <1>3, SubmitType DEF UtilsSubmitInit, SubmitIfInitialized, Work
  <2> QED BY <2>1, <2>2
<1>4. CASE UtilsSubmitStart \/ UtilsSubmitStop
  <2>1. asked # "none" => asked' # "none"
    BY <1>1, <1>4 DEF UtilsSubmitStart, UtilsSubmitStop, Work
  <2> QED BY <1>4, <2>1 DEF UtilsSubmitStart, UtilsSubmitStop, UtilsStep
<1>5. CASE UtilsUpdateConfig
  BY <1>5 DEF UtilsUpdateConfig, UtilsStep, wvars
<1>6. CASE UtilsGet \/ UtilsInitConfig \/ UtilsConnect \/ UtilsDisconnect
  BY <1>6 DEF UtilsGet, UtilsInitConfig, UtilsConnect, UtilsDisconnect, UtilsStep, FirstStep, wvars
<1>7. CASE MainStep \/ (\E e \in Event : Report(e)) \/ WorkQueue \/ UNCHANGED vars
  <2>1. UNCHANGED <<rnb_configured, upc, asked>>
    BY <1>7 DEF MainStep, MainConfigure, MainFinish, Report, WorkQueue,
                BeginInit, BeginDeinit, BeginStart, BeginStop, BeginWork,
                EndInit, EndDeinit, EndStart, EndStop, EndWork, vars, uvars, flags, wvars
  <2> QED BY <2>1
<1> QED BY <1>2, <1>3, <1>4, <1>5, <1>6, <1>7 DEF Next, UtilsThread

LEMMA BusSideStep ==
  ASSUME TypeOK, StartAfterFlag, BusSide, [Next]_vars
  PROVE  BusSide'
<1> USE DEF BusSide, Aside
<1>0. events \in Seq(Event) /\ Len(events) \in Nat
  BY LenProperties DEF TypeOK
<1>1. ASSUME UNCHANGED <<events, bus, upc, rnb_connected>> PROVE BusSide'
  BY <1>1 DEF LastReport, OnlyPassive
<1>2. CASE MainStep \/ Button \/ WorkQueue \/ UNCHANGED vars
  <2>1. UNCHANGED <<events, bus, upc, rnb_connected>>
    BY <1>2 DEF MainStep, MainConfigure, MainFinish, Button, WorkQueue,
                BeginInit, BeginDeinit, BeginStart, BeginStop, BeginWork,
                EndInit, EndDeinit, EndStart, EndStop, EndWork, vars, uvars, flags, wvars
  <2> QED BY <1>1, <2>1
<1>3. ASSUME NEW e \in Event, Report(e) PROVE BusSide'
  <2>1. UNCHANGED <<upc, rnb_connected>>
    BY <1>3 DEF Report, flags
  <2>2. CASE events' = events /\ (bus' = bus \/ bus' = "none")
    BY <2>1, <2>2 DEF LastReport, OnlyPassive
  <2>3. CASE events' = Append(events, e)
    <3>1. /\ Len(events') = Len(events) + 1 /\ events'[Len(events) + 1] = e
          /\ \A k \in 1 .. Len(events) : events'[k] = events[k]
      BY <1>0, <2>3, AppendProperties
    <3>2. CASE e \in Passive
      <4>1. bus' = bus
        BY <1>3, <3>2 DEF Report, Accept
      <4>2. OnlyPassive => OnlyPassive'
        BY <1>0, <3>1, <3>2 DEF OnlyPassive
      <4>3. ASSUME NEW r, LastReport(r) PROVE LastReport(r)'
        <5>1. PICK k \in 1 .. Len(events) :
                events[k] = r /\ \A j \in k + 1 .. Len(events) : events[j] \in Passive
          BY <4>3 DEF LastReport
        <5>2. k \in 1 .. Len(events') /\ events'[k] = r
          BY <1>0, <3>1, <5>1
        <5>3. \A j \in k + 1 .. Len(events') : events'[j] \in Passive
          BY <1>0, <3>1, <3>2, <5>1
        <5> QED BY <5>2, <5>3 DEF LastReport
      <4> QED BY <2>1, <4>1, <4>2, <4>3
    <3>3. CASE e \notin Passive
      <4>1. bus' = e \/ bus' = "none"
        BY <1>3, <3>3 DEF Report, Accept
      <4>2. LastReport(e)'
        BY <1>0, <3>1 DEF LastReport
      <4> QED BY <4>1, <4>2
    <3> QED BY <3>2, <3>3
  <2>4. events' = Append(events, e) \/ (events' = events /\ (bus' = bus \/ bus' = "none"))
    BY <1>3 DEF Report, Accept
  <2> QED BY <2>2, <2>3, <2>4
<1>4. CASE UtilsGet
  <2> DEFINE h == Head(events)
  <2>1. /\ events # <<>> /\ h = events[1] /\ Len(events) >= 1
        /\ Len(events') = Len(events) - 1
        /\ \A k \in 1 .. Len(events') : events'[k] = events[k + 1]
    BY <1>0, <1>4, EmptySeq, HeadTailProperties DEF UtilsGet
  <2>2. upc = "get" /\ upc' = FirstStep(h) /\ UNCHANGED <<bus, rnb_connected>>
    BY <1>4 DEF UtilsGet, UtilsStep
  <2>3. OnlyPassive => OnlyPassive' /\ upc' \in {"get", "init_config"}
    <3>1. OnlyPassive => OnlyPassive' /\ h \in Passive
      BY <1>0, <2>1 DEF OnlyPassive
    <3>2. h \in Passive => upc' \in {"get", "init_config"}
      BY <2>2 DEF FirstStep, Passive
    <3> QED BY <3>1, <3>2
  <2>4. ASSUME NEW r, LastReport(r)
        PROVE  LastReport(r)' \/ (OnlyPassive' /\ h = r)
    <3>1. PICK k \in 1 .. Len(events) :
            events[k] = r /\ \A j \in k + 1 .. Len(events) : events[j] \in Passive
      BY <2>4 DEF LastReport
    <3>2. CASE k = 1
      BY <1>0, <2>1, <3>1, <3>2 DEF OnlyPassive
    <3>3. CASE k # 1
      <4>1. k - 1 \in 1 .. Len(events') /\ events'[k - 1] = r
        BY <1>0, <2>1, <3>1, <3>3
      <4>2. \A j \in (k - 1) + 1 .. Len(events') : events'[j] \in Passive
        BY <1>0, <2>1, <3>1
      <4> QED BY <4>1, <4>2 DEF LastReport
    <3> QED BY <3>2, <3>3
  <2>5. /\ h = "UNSYNCHRONIZED" => upc' = "submit_stop"
        /\ h = "CONNECTED" => upc' = "connect"
    BY <2>2 DEF FirstStep
  <2> HIDE DEF h
  <2> QED BY <2>2, <2>3, <2>4, <2>5
<1>5. CASE UtilsThread /\ ~UtilsGet
  <2>1. UNCHANGED <<events, bus>> /\ (OnlyPassive' <=> OnlyPassive)
        /\ \A r : LastReport(r)' <=> LastReport(r)
    BY <1>5 DEF UtilsThread, UtilsInitConfig, UtilsUpdateConfig, UtilsSubmitInit,
                UtilsConnect, UtilsSubmitStart, UtilsSubmitStop, UtilsDisconnect, UtilsStep,
                OnlyPassive, LastReport
  <2>2. CASE UtilsInitConfig \/ UtilsUpdateConfig \/ UtilsSubmitInit
    <3>1. upc \in {"init_config", "update_config", "submit_init"}
      BY <2>2 DEF UtilsInitConfig, UtilsUpdateConfig, UtilsSubmitInit, UtilsStep
    <3>2. upc' \in {"get", "update_config", "submit_init"} /\ rnb_connected' = rnb_connected
      BY <2>2 DEF UtilsInitConfig, UtilsUpdateConfig, UtilsSubmitInit, UtilsStep
    <3> QED BY <2>1, <3>1, <3>2
  <2>3. CASE UtilsConnect
    BY <2>1, <2>3 DEF UtilsConnect, UtilsStep
  <2>4. CASE UtilsSubmitStart
    BY <2>1, <2>4 DEF UtilsSubmitStart, UtilsStep, StartAfterFlag
  <2>5. CASE UtilsSubmitStop
    BY <2>1, <2>5 DEF UtilsSubmitStop, UtilsStep
  <2>6. CASE UtilsDisconnect
    BY <2>1, <2>6 DEF UtilsDisconnect, UtilsStep
  <2> QED BY <1>5, <2>2, <2>3, <2>4, <2>5, <2>6 DEF UtilsThread
<1> QED BY <1>2, <1>3, <1>4, <1>5 DEF Next

--------------------------------------------------------------------------------
(* The theorems                                                             *)

LEMMA InitIInv == Init => IInv
<1> SUFFICES ASSUME Init PROVE IInv
  OBVIOUS
<1> USE UtilsAssumption DEF Init
<1>1. Len(events) = 0 /\ events \in Seq(Event) /\ Queued(workq) = {} /\ workq \in Seq(Work)
  BY DEF Queued
<1>2. TypeOK
  <2>1. Outstanding <= PoolSize
    BY <1>1 DEF Outstanding
  <2>2. \A j, k \in 1 .. Len(workq) : workq[j] = workq[k] => j = k
    OBVIOUS
  <2>3. workq \in Seq(Work) /\ overtaken \subseteq Work
    BY <1>1
  <2> QED BY <1>1, <2>1, <2>2, <2>3 DEF TypeOK, Label
<1>3. StopSide /\ StartSide /\ InitSide /\ DeinitSide /\ StartAfterFlag
  BY <1>1 DEF StopSide, StartSide, InitSide, DeinitSide, StartAfterFlag
<1>4. BusSide /\ ConfiguredNodeIsStarted
  BY <1>1 DEF BusSide, ConfiguredNodeIsStarted
<1> QED BY <1>2, <1>3, <1>4 DEF IInv

\* Every reachable state satisfies the inductive invariant.
THEOREM UtilsInvariant == Spec => []IInv
<1>1. IInv /\ [Next]_vars => IInv'
  BY TypeStep, FlagStep, StopSideStep, StartSideStep, InterfaceSidesStep, BusSideStep,
     ConfiguredStep DEF IInv
<1> QED BY <1>1, InitIInv, PTL DEF Spec

LEMMA LastIsQueued ==
  ASSUME NEW q, NEW w, LastIn(q, w)
  PROVE  w \in Queued(q)
BY DEF LastIn, Queued

\* No item is queued twice and the pool bounds the events, for every pool size.
THEOREM UtilsTypeCorrect == Spec => []TypeOK
<1>1. IInv => TypeOK
  BY DEF IInv
<1> QED BY <1>1, UtilsInvariant, PTL

\* The Thread protocol follows rnb_connected, whatever the work queue merges,
\* delays or is refused, with the exceptions ThreadFollowsConnection names.
THEOREM ThreadFollowsFlag == Spec => []ThreadFollowsConnection
<1>1. IInv => ThreadFollowsConnection
  <2> SUFFICES ASSUME IInv PROVE ThreadFollowsConnection
    OBVIOUS
  <2>1. ~rnb_connected /\ ot_started => Coming("ot_stop") \/ "ot_stop" \in overtaken
    BY LastIsQueued DEF IInv, StopSide, Coming
  <2>2. rnb_connected /\ ~ot_started =>
          \/ Coming("ot_start") \/ "ot_start" \in overtaken \/ down
          \/ upc \in {"submit_start", "disconnect"}
    BY LastIsQueued DEF IInv, StartSide, Coming
  <2> QED BY <2>1, <2>2 DEF ThreadFollowsConnection
<1> QED BY <1>1, UtilsInvariant, PTL

\* The interface follows the last request of the button or the configuration.
THEOREM InterfaceFollows == Spec => []InterfaceFollowsRequest
<1>1. IInv => InterfaceFollowsRequest
  <2> SUFFICES ASSUME IInv PROVE InterfaceFollowsRequest
    OBVIOUS
  <2>1. asked = "ot_init" /\ ~rnb_started =>
          Coming("ot_init") \/ "ot_init" \in overtaken \/ refused
    BY LastIsQueued DEF IInv, InitSide, Coming
  <2>2. asked = "ot_deinit" /\ rnb_started =>
          Coming("ot_deinit") \/ "ot_deinit" \in overtaken \/ refused
    BY LastIsQueued DEF IInv, DeinitSide, Coming
  <2> QED BY <2>1, <2>2 DEF InterfaceFollowsRequest
<1> QED BY <1>1, UtilsInvariant, PTL

\* With a main thread above the utils thread the start request is never lost.
THEOREM StartIsRequested == Spec => []ConfiguredNodeIsStarted
<1>1. IInv => ConfiguredNodeIsStarted
  BY DEF IInv
<1> QED BY <1>1, UtilsInvariant, PTL

\* Once the threads are idle Thread runs, or not, as the driver's last CONNECTED or
\* UNSYNCHRONIZED asks, whatever passive event came after it (a STOPPED takes nothing
\* back), with the exceptions ThreadFollowsBus names (rnb_utils.c:476-521).
THEOREM ThreadFollowsDriver == Spec => []ThreadFollowsBus
<1>1. IInv => ThreadFollowsBus
  <2> SUFFICES ASSUME IInv, Settled PROVE ThreadFollowsBus
    BY DEF ThreadFollowsBus
  <2>1. /\ events = <<>> /\ upc = "get" /\ workq = <<>> /\ running = "none"
        /\ Len(events) = 0 /\ Len(workq) = 0
    BY DEF Settled
  <2>2. /\ bus = "UNSYNCHRONIZED" => ~rnb_connected
        /\ bus = "CONNECTED" => rnb_connected
    BY <2>1 DEF IInv, BusSide, LastReport, Aside
  <2>3. \A w : ~LastIn(workq, w)
    BY <2>1 DEF LastIn
  <2>4. ~rnb_connected => ~ot_started \/ "ot_stop" \in overtaken
    BY <2>1, <2>3 DEF IInv, StopSide
  <2>5. rnb_connected => ot_started \/ "ot_start" \in overtaken \/ down
    BY <2>1, <2>3 DEF IInv, StartSide
  <2> QED BY <2>2, <2>4, <2>5 DEF ThreadFollowsBus
<1> QED BY <1>1, UtilsInvariant, PTL
================================================================================
