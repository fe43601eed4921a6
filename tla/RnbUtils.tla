-------------------------------- MODULE RnbUtils --------------------------------
(***************************************************************************)
(* The lifecycle of a node in samples/common/src/rnb_utils.c: the end of    *)
(* init_rnb, the events of the RedNodeBus driver taken one by one by        *)
(* rnb_utils_process_thread, the four OpenThread work items run by the      *)
(* system work queue, and the button. The threads meet in shared flags that *)
(* nothing protects; a step here ends where another thread can run.         *)
(*                                                                          *)
(* The event pool is taken at the granularity of its calls (RnbEventPool    *)
(* has its steps); of a USER_PAYLOAD event only its slot matters here.      *)
(***************************************************************************)
EXTENDS Naturals, Sequences

CONSTANTS
  PoolSize,           \* REDNODEBUS_UTILS_EVENT_BUFFER_SIZE
  MainOutranksUtils   \* the main thread has a higher priority than the utils
                      \* thread while init_rnb runs: not so in samples/battery

ASSUME UtilsAssumption == PoolSize \in Nat \ {0} /\ MainOutranksUtils \in BOOLEAN

BusState == {"STOPPED", "UNSYNCHRONIZED", "SYNCHRONIZED", "CONNECTED"}
Event == BusState \cup {"USER_PAYLOAD"}
\* What the code does nothing about as far as Thread goes: a bus that stops after
\* it was connected included.
Passive == {"STOPPED", "SYNCHRONIZED", "USER_PAYLOAD"}
Work == {"ot_init", "ot_deinit", "ot_start", "ot_stop"}

VARIABLES
  mpc,                \* init_rnb: configure, finish, done
  rnb_initialized,
  events,             \* accepted events, oldest first
  upc,                \* next step of the utils thread, get when it has no event
  rnb_configured, rnb_connected, rnb_started, ot_started,
  workq,              \* the system work queue's pending items
  running,            \* the item whose handler is past its first test, or none
  \* history
  bus,                \* CONNECTED or UNSYNCHRONIZED, whichever the driver reported
                      \* last; none when there was no such report, or no slot for
                      \* the last one. Passive events leave it
  overtaken,          \* items whose last submission found them queued already,
                      \* with the opposite item queued behind them
  asked,              \* which of ot_init and ot_deinit was submitted last
  refused,            \* OpenThread refused the interface change asked for
  down                \* the Thread protocol was refused, or taken down with the
                      \* interface, since the bus connected

flags == <<rnb_configured, rnb_connected, rnb_started, ot_started>>
wvars == <<workq, overtaken, asked, refused>>
uvars == <<events, upc, bus>>
vars == <<mpc, rnb_initialized, uvars, flags, wvars, running, down>>

Init ==
  /\ mpc = "configure" /\ rnb_initialized = FALSE
  /\ events = <<>> /\ upc = "get" /\ bus = "none"
  /\ rnb_configured = FALSE /\ rnb_connected = FALSE
  /\ rnb_started = FALSE /\ ot_started = FALSE
  /\ workq = <<>> /\ running = "none"
  /\ overtaken = {} /\ asked = "none" /\ refused = FALSE /\ down = FALSE

--------------------------------------------------------------------------------
(* The system work queue                                                    *)

Opposite(w) ==
  CASE w = "ot_init" -> "ot_deinit" [] w = "ot_deinit" -> "ot_init"
    [] w = "ot_start" -> "ot_stop" [] w = "ot_stop" -> "ot_start"

Queued(q) == {q[k] : k \in 1 .. Len(q)}

\* w is queued and its opposite is not queued behind it.
LastIn(q, w) ==
  \E k \in 1 .. Len(q) : q[k] = w /\ \A j \in k + 1 .. Len(q) : q[j] # Opposite(w)

\* k_work_submit: an item that is still queued stays where it is.
Submit(w) ==
  /\ workq' = IF w \in Queued(workq) THEN workq ELSE Append(workq, w)
  /\ overtaken' = IF w \in Queued(workq) /\ ~LastIn(workq, w)
                    THEN (overtaken \cup {w}) \ {Opposite(w)}
                    ELSE overtaken \ {w, Opposite(w)}
  /\ asked' = IF w \in {"ot_init", "ot_deinit"} THEN w ELSE asked
  /\ refused' = (refused /\ w \notin {"ot_init", "ot_deinit"})

\* rnb_utils_start and rnb_utils_stop do nothing before init_rnb is done.
SubmitIfInitialized(w) == IF rnb_initialized THEN Submit(w) ELSE UNCHANGED wvars

\* The work queue takes item w; its handler returns at once unless Test holds.
BeginWork(w, Test) ==
  /\ running = "none" /\ workq # <<>> /\ Head(workq) = w
  /\ workq' = Tail(workq)
  /\ running' = IF Test THEN w ELSE "none"
  /\ UNCHANGED <<mpc, rnb_initialized, uvars, flags, overtaken, asked, refused, down>>

BeginStopIfDisconnected ==  \* faulty: the flag is tested as in the start handler
  BeginWork("ot_stop", ot_started /\ ~rnb_connected)

BeginInit == BeginWork("ot_init", ~rnb_started)
BeginDeinit == BeginWork("ot_deinit", rnb_started)
BeginStart == BeginWork("ot_start", rnb_connected /\ ~ot_started)
BeginStop == BeginWork("ot_stop", ot_started)

\* Past its test a handler waits for openthread_api_mutex (inside
\* openthread_start for ot_start), then calls OpenThread, which may refuse.
EndWork(w) ==
  /\ running = w
  /\ running' = "none"
  /\ UNCHANGED <<mpc, rnb_initialized, uvars, rnb_configured, rnb_connected,
                 workq, overtaken, asked>>

EndInit ==
  /\ EndWork("ot_init")
  /\ \E accepted \in BOOLEAN :
       /\ rnb_started' = accepted
       /\ refused' = (refused \/ ~accepted)
  /\ UNCHANGED <<ot_started, down>>

EndDeinitKeepStarted ==     \* faulty: rnb_started is not cleared
  /\ EndWork("ot_deinit")
  /\ ot_started' = FALSE /\ down' = TRUE
  /\ UNCHANGED <<rnb_started, refused>>

EndDeinit ==
  /\ EndWork("ot_deinit")
  /\ \E accepted \in BOOLEAN :
       /\ ot_started' = (ot_started /\ ~accepted)
       /\ down' = (down \/ accepted)
  /\ \E accepted \in BOOLEAN :
       /\ rnb_started' = ~accepted
       /\ refused' = (refused \/ ~accepted)

EndStart ==
  /\ EndWork("ot_start")
  /\ \E accepted \in BOOLEAN :
       /\ ot_started' = accepted
       /\ down' = (down \/ ~accepted)
  /\ UNCHANGED <<rnb_started, refused>>

StopNeverEnds ==            \* faulty: the mutex is not given back
  /\ running = "ot_stop"
  /\ UNCHANGED vars

EndStop ==
  /\ EndWork("ot_stop")
  /\ ot_started' = FALSE
  /\ UNCHANGED <<rnb_started, refused, down>>

--------------------------------------------------------------------------------
(* init_rnb, from where the utils thread exists on                          *)

MainConfigure ==
  /\ mpc = "configure"
  /\ mpc' = "finish"
  /\ UNCHANGED <<rnb_initialized, uvars, flags, wvars, running, down>>

MainFinish ==
  /\ mpc = "finish"
  /\ mpc' = "done" /\ rnb_initialized' = TRUE
  /\ UNCHANGED <<uvars, flags, wvars, running, down>>

--------------------------------------------------------------------------------
(* The driver and the button                                                *)

\* Slots in use: the thread returns the slot of an event after its last step.
Outstanding == Len(events) + (IF upc = "get" THEN 0 ELSE 1)

AcceptPastTheEnd(e) ==      \* faulty: i <= ARRAY_SIZE(rnb_utils_events)
  /\ events' = IF Outstanding <= PoolSize THEN Append(events, e) ELSE events
  /\ bus' = IF e \in Passive THEN bus ELSE e

Accept(e) ==
  LET found == Outstanding < PoolSize
  IN  /\ events' = IF found THEN Append(events, e) ELSE events
      /\ bus' = CASE e \in Passive -> bus
                  [] e \notin Passive /\ found -> e
                  [] OTHER -> "none"

\* handle_rnb_user_event, once it is configured: a new state of the bus, or a
\* payload, takes a slot, or is lost when there is none. The driver may report
\* any state after any other one.
Report(e) ==
  /\ mpc # "configure"
  /\ Accept(e)
  /\ UNCHANGED <<mpc, rnb_initialized, upc, flags, wvars, running, down>>

\* on_button_changed
Button ==
  /\ SubmitIfInitialized(IF rnb_started THEN "ot_deinit" ELSE "ot_init")
  /\ UNCHANGED <<mpc, rnb_initialized, uvars, flags, running, down>>

--------------------------------------------------------------------------------
(* process_rnb_utils_event in rnb_utils_process_thread                      *)

RunsBeforeMain == TRUE      \* faulty: the priorities do not matter

UtilsMayRun == MainOutranksUtils => mpc = "done"

\* A step of the thread at label here, which goes on at label next.
UtilsStep(here, next) ==
  /\ UtilsMayRun
  /\ upc = here /\ upc' = next
  /\ UNCHANGED <<mpc, rnb_initialized, bus, rnb_started, ot_started, running>>

\* k_fifo_get, and the tests on the event up to its first effect; the slot is
\* returned with the last one. SYNCHRONIZED and USER_PAYLOAD have none here.
FirstStep(e) ==
  CASE e = "STOPPED" /\ ~rnb_configured -> "init_config"
    [] e = "CONNECTED" -> "connect"
    [] e = "UNSYNCHRONIZED" -> "submit_stop"
    [] OTHER -> "get"

UtilsGet ==
  /\ events # <<>>
  /\ UtilsStep("get", FirstStep(Head(events)))
  /\ events' = Tail(events)
  /\ UNCHANGED <<rnb_configured, rnb_connected, wvars, down>>

\* init_rnb_user_config; on an error the event is done with.
UtilsInitConfig ==
  /\ \E next \in {"update_config", "get"} : UtilsStep("init_config", next)
  /\ UNCHANGED <<events, rnb_configured, rnb_connected, wvars, down>>

\* update_rnb_user_runtime_config
UtilsUpdateConfig ==
  /\ \/ UtilsStep("update_config", "submit_init") /\ rnb_configured' = TRUE
     \/ UtilsStep("update_config", "get") /\ UNCHANGED rnb_configured
  /\ UNCHANGED <<events, rnb_connected, wvars, down>>

\* rnb_utils_start
UtilsSubmitInit ==
  /\ UtilsStep("submit_init", "get")
  /\ SubmitIfInitialized("ot_init")
  /\ UNCHANGED <<events, rnb_configured, rnb_connected, down>>

UtilsConnect ==
  /\ UtilsStep("connect", "submit_start")
  /\ rnb_connected' = TRUE /\ down' = FALSE
  /\ UNCHANGED <<events, rnb_configured, wvars>>

UtilsSubmitStart ==
  /\ UtilsStep("submit_start", "get")
  /\ Submit("ot_start")
  /\ UNCHANGED <<events, rnb_configured, rnb_connected, down>>

SkipSubmitStop ==           \* faulty: the bus is lost and nothing is stopped
  /\ UtilsStep("submit_stop", "disconnect")
  /\ UNCHANGED <<events, rnb_configured, rnb_connected, wvars, down>>

UtilsSubmitStop ==
  /\ UtilsStep("submit_stop", "disconnect")
  /\ Submit("ot_stop")
  /\ UNCHANGED <<events, rnb_configured, rnb_connected, down>>

\* The flag is cleared after the submission.
UtilsDisconnect ==
  /\ UtilsStep("disconnect", "get")
  /\ rnb_connected' = FALSE
  /\ UNCHANGED <<events, rnb_configured, wvars, down>>

--------------------------------------------------------------------------------
MainStep == MainConfigure \/ MainFinish

UtilsThread ==
  \/ UtilsGet
  \/ UtilsInitConfig \/ UtilsUpdateConfig \/ UtilsSubmitInit
  \/ UtilsConnect \/ UtilsSubmitStart
  \/ UtilsSubmitStop \/ UtilsDisconnect

WorkQueue ==
  \/ BeginInit \/ BeginDeinit \/ BeginStart \/ BeginStop
  \/ EndInit \/ EndDeinit \/ EndStart \/ EndStop

Next == MainStep \/ (\E e \in Event : Report(e)) \/ Button \/ UtilsThread \/ WorkQueue

Spec == Init /\ [][Next]_vars

\* Preemptive priorities, and no thread loops without blocking: main, the work
\* queue and the utils thread all run in the end. The driver and the user owe
\* nothing.
FairSpec == Spec /\ WF_vars(MainStep) /\ WF_vars(UtilsThread) /\ WF_vars(WorkQueue)

--------------------------------------------------------------------------------
Label == {"get", "init_config", "update_config", "submit_init",
          "connect", "submit_start", "submit_stop", "disconnect"}

\* Type invariant; the slots bound the events, no item is queued twice.
TypeOK ==
  /\ mpc \in {"configure", "finish", "done"}
  /\ rnb_initialized = (mpc = "done")
  /\ events \in Seq(Event) /\ Outstanding <= PoolSize
  /\ upc \in Label
  /\ bus \in {"none", "UNSYNCHRONIZED", "CONNECTED"}
  /\ rnb_configured \in BOOLEAN /\ rnb_connected \in BOOLEAN
  /\ rnb_started \in BOOLEAN /\ ot_started \in BOOLEAN
  /\ workq \in Seq(Work)
  /\ \A j, k \in 1 .. Len(workq) : workq[j] = workq[k] => j = k
  /\ running \in Work \cup {"none"}
  /\ overtaken \subseteq Work
  /\ asked \in {"none", "ot_init", "ot_deinit"}
  /\ refused \in BOOLEAN /\ down \in BOOLEAN

\* The effect of item w is still to come.
Coming(w) == w \in Queued(workq) \/ running = w

\* The Thread protocol follows the flag the utils thread keeps, though the work
\* queue runs behind it and re-submissions are merged. A node that lost the bus
\* and still runs Thread has its stop ahead, and a connected node without Thread
\* has its start ahead, unless that request was merged into one queued before
\* its opposite, or OpenThread refused or the interface went down meanwhile.
ThreadFollowsConnection ==
  /\ ~rnb_connected /\ ot_started => Coming("ot_stop") \/ "ot_stop" \in overtaken
  /\ rnb_connected /\ ~ot_started =>
       \/ Coming("ot_start") \/ "ot_start" \in overtaken \/ down
       \/ upc \in {"submit_start", "disconnect"}

\* The interface follows the last of the start and stop requests of the button
\* and of the configuration.
InterfaceFollowsRequest ==
  /\ asked = "ot_init" /\ ~rnb_started =>
       Coming("ot_init") \/ "ot_init" \in overtaken \/ refused
  /\ asked = "ot_deinit" /\ rnb_started =>
       Coming("ot_deinit") \/ "ot_deinit" \in overtaken \/ refused

\* The configuration is done once, so the start request that goes with it must
\* not fall into the void of a rnb_initialized that is not set yet: nothing
\* would repeat it. It depends on the thread priorities.
ConfiguredNodeIsStarted ==
  MainOutranksUtils /\ rnb_configured /\ upc # "submit_init" => asked # "none"

Settled == events = <<>> /\ upc = "get" /\ workq = <<>> /\ running = "none"

\* Once every thread is idle the Thread protocol matches the last CONNECTED or
\* UNSYNCHRONIZED of the driver (rnb_utils.c:510-521), unless that report found no
\* slot, the request was merged (overtaken), or OpenThread refused to run or was
\* taken down with the interface (down). What comes after that report does not
\* count: a node whose bus is STOPPED, or SYNCHRONIZED again, right after CONNECTED
\* keeps rnb_connected and goes on running Thread.
ThreadFollowsBus ==
  Settled =>
    /\ bus = "UNSYNCHRONIZED" => ~rnb_connected /\ (~ot_started \/ "ot_stop" \in overtaken)
    /\ bus = "CONNECTED" => rnb_connected /\ (ot_started \/ "ot_start" \in overtaken \/ down)

\* A node that runs Thread without a bus stops it in the end.
ThreadStops ==
  ~rnb_connected /\ ot_started ~> rnb_connected \/ ~ot_started \/ "ot_stop" \in overtaken
================================================================================
