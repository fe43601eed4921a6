--------------------------------- MODULE RnbSntp ---------------------------------
(***************************************************************************)
(* The clock of samples/common/src/rnb_utils.c: rnb_sntp_process_thread     *)
(* queries an SNTP server once the node is connected and again when a CLOCK *)
(* payload gives sntp_sem, and rnb_get_unix_time computes the time from     *)
(* sntp_time and sntp_reference_uptime, which the thread writes one after   *)
(* the other and without a lock. Time passes in ticks, the unit of          *)
(* k_uptime_get, and the server's clock with it; what the node keeps of the  *)
(* answer and what it returns are whole seconds. An answer is right when it  *)
(* is written: its way back from the server is not counted.                  *)
(***************************************************************************)
EXTENDS Integers

CONSTANTS
  Second,      \* ticks in a second: 1000
  Epoch,       \* ticks from the epoch to power-up
  MaxUptime,   \* bound on the time that passes
  Held         \* how long the thread can be held between the answer and k_uptime_get

ASSUME SntpAssumption ==
  Second \in Nat \ {0} /\ Epoch \in Nat /\ MaxUptime \in Nat /\ Held \in Nat

VARIABLES
  uptime,
  spc,           \* the SNTP thread: test, query, answered, referenced, closed, wait, sleep
  held,          \* ticks since the answer, until the reference is taken
  seconds,       \* sntp_time.seconds
  reference,     \* sntp_reference_uptime
  synchronized,  \* sntp_synchronized
  sem,           \* sntp_sem, K_SEM_DEFINE(sntp_sem, 0, 1)
  connected,     \* rnb_connected
  reading,       \* a thread is in rnb_get_unix_time
  got,           \* what it has read there
  \* history
  called,        \* the uptime of that call
  torn,          \* the thread wrote the clock during that call
  asked          \* a CLOCK trigger came, no query was tried and the node was
                 \* connected since then

vars == <<uptime, spc, held, seconds, reference, synchronized, sem, connected,
          reading, got, called, torn, asked>>
clock == <<seconds, reference, synchronized>>
caller == <<reading, got, called, torn>>

Time == 0 .. MaxUptime
Fields == {"uptime", "reference", "seconds"}
NotRead == -1
Nothing == [f \in Fields |-> NotRead]
Complete == \A f \in Fields : got[f] # NotRead

Init ==
  /\ uptime = 0 /\ spc = "test" /\ held = 0
  /\ seconds = 0 /\ reference = 0 /\ synchronized = FALSE
  /\ sem = 0 /\ connected = FALSE
  /\ reading = FALSE /\ got = Nothing /\ called = 0 /\ torn = FALSE /\ asked = FALSE

--------------------------------------------------------------------------------
Tick ==
  /\ uptime < MaxUptime /\ uptime' = uptime + 1
  /\ IF spc = "answered" THEN held < Held /\ held' = held + 1 ELSE held' = held
  /\ UNCHANGED <<spc, clock, sem, connected, caller, asked>>

\* The utils thread, on REDNODEBUS_USER_EVENT_CONNECTED and _UNSYNC.
ConnectOrNot ==
  /\ connected' = ~connected /\ asked' = FALSE
  /\ UNCHANGED <<uptime, spc, held, clock, sem, caller>>

CountTriggers ==            \* faulty: a semaphore without a limit
  /\ sem' = sem + 1 /\ asked' = connected
  /\ UNCHANGED <<uptime, spc, held, clock, connected, caller>>

\* rnb_utils_user_payload: k_sem_give of a semaphore whose limit is 1.
Trigger ==
  /\ sem' = 1 /\ asked' = connected
  /\ UNCHANGED <<uptime, spc, held, clock, connected, caller>>

--------------------------------------------------------------------------------
(* rnb_sntp_process_thread                                                  *)

\* is_rnb_connected(), sntp_init, the request of sntp_query
Test ==
  /\ spc = "test"
  /\ spc' = IF connected THEN "query" ELSE "closed"
  /\ asked' = FALSE
  /\ UNCHANGED <<uptime, held, clock, sem, connected, caller>>

\* sntp_init or sntp_query fails: the old clock is kept.
QueryFails ==
  /\ spc = "query" /\ spc' = "closed"
  /\ UNCHANGED <<uptime, held, clock, sem, connected, caller, asked>>

\* The whole seconds of a time; the division of C rounds to zero.
Whole(t) == IF t >= 0 THEN t \div Second ELSE -((-t) \div Second)

\* sntp_query writes sntp_time; its fraction is only logged.
QueryAnswers ==
  /\ spc = "query" /\ spc' = "answered"
  /\ seconds' = Whole(Epoch + uptime) /\ held' = 0
  /\ torn' = reading
  /\ UNCHANGED <<uptime, reference, synchronized, sem, connected, reading, got, called, asked>>

ReferenceBeforeQuery ==     \* faulty: the reference is not taken again
  /\ spc = "answered" /\ spc' = "referenced"
  /\ reference' = IF synchronized THEN reference ELSE uptime
  /\ held' = 0 /\ torn' = reading
  /\ UNCHANGED <<uptime, seconds, synchronized, sem, connected, reading, got, called, asked>>

TakeReference ==
  /\ spc = "answered" /\ spc' = "referenced"
  /\ reference' = uptime
  /\ held' = 0 /\ torn' = reading
  /\ UNCHANGED <<uptime, seconds, synchronized, sem, connected, reading, got, called, asked>>

SetSynchronized ==
  /\ spc = "referenced" /\ spc' = "closed"
  /\ synchronized' = TRUE
  /\ UNCHANGED <<uptime, held, seconds, reference, sem, connected, caller, asked>>

AlwaysTake ==               \* faulty: waits for a trigger although not synchronized
  /\ spc = "closed"
  /\ spc' = "wait"
  /\ UNCHANGED <<uptime, held, clock, sem, connected, caller, asked>>

ResetBeforeTake ==          \* faulty: forgets the triggers of the query
  /\ spc = "closed"
  /\ spc' = IF synchronized THEN "wait" ELSE "sleep"
  /\ sem' = 0
  /\ UNCHANGED <<uptime, held, clock, connected, caller, asked>>

\* sntp_close, then k_sem_take or k_sleep(10 s)
Close ==
  /\ spc = "closed"
  /\ spc' = IF synchronized THEN "wait" ELSE "sleep"
  /\ UNCHANGED <<uptime, held, clock, sem, connected, caller, asked>>

TakeSem ==
  /\ spc = "wait" /\ sem = 1
  /\ sem' = 0 /\ spc' = "test"
  /\ UNCHANGED <<uptime, held, clock, connected, caller, asked>>

WakeUp ==
  /\ spc = "sleep" /\ spc' = "test"
  /\ UNCHANGED <<uptime, held, clock, sem, connected, caller, asked>>

--------------------------------------------------------------------------------
(* rnb_get_unix_time, in a thread that runs beside the SNTP thread          *)

\* -1 is returned before the first synchronization.
Call ==
  /\ ~reading /\ synchronized
  /\ reading' = TRUE /\ got' = Nothing /\ called' = uptime
  /\ torn' = (spc = "answered")
  /\ UNCHANGED <<uptime, spc, held, clock, sem, connected, asked>>

\* The operands of the sum are read in the order the compiler chooses.
Read(f) ==
  /\ reading /\ got[f] = NotRead
  /\ LET value == CASE f = "uptime" -> uptime
                    [] f = "reference" -> reference
                    [] f = "seconds" -> seconds
     IN got' = [got EXCEPT ![f] = value]
  /\ UNCHANGED <<uptime, spc, held, clock, sem, connected, reading, called, torn, asked>>

Return ==
  /\ reading /\ Complete
  /\ reading' = FALSE /\ got' = Nothing /\ called' = 0 /\ torn' = FALSE
  /\ UNCHANGED <<uptime, spc, held, clock, sem, connected, asked>>

--------------------------------------------------------------------------------
SntpThread == \/ Test \/ QueryFails \/ QueryAnswers \/ TakeReference
              \/ SetSynchronized \/ Close \/ TakeSem \/ WakeUp
Caller == Call \/ Return \/ \E f \in Fields : Read(f)

Next == Tick \/ ConnectOrNot \/ Trigger \/ SntpThread \/ Caller

Spec == Init /\ [][Next]_vars

\* The thread is scheduled and the timeouts of sntp_query and k_sleep expire; a
\* server that is asked again and again answers at last.
Fairness == WF_vars(SntpThread) /\ SF_vars(QueryAnswers)
FairSpec == Spec /\ Fairness

--------------------------------------------------------------------------------
TypeOK ==
  /\ uptime \in Time /\ seconds \in Nat /\ reference \in Time
  /\ spc \in {"test", "query", "answered", "referenced", "closed", "wait", "sleep"}
  /\ held \in 0 .. Held
  /\ synchronized \in BOOLEAN /\ connected \in BOOLEAN
  /\ sem \in 0 .. 1
  /\ got \in [Fields -> Nat \cup {NotRead}]
  /\ reading \in BOOLEAN /\ called \in Time /\ torn \in BOOLEAN /\ asked \in BOOLEAN

\* What rnb_get_unix_time returns once it has read all three: a sum of two numbers
\* of seconds, each of them rounded on its own.
UnixTime == Whole(got["uptime"] - got["reference"]) + got["seconds"]

\* The clock does not run ahead, although two numbers of seconds that are rounded
\* apart are added (rnb_utils.c:675): the second returned has begun. It is behind
\* the call by the delay of the thread before it took the reference and by what
\* is rounded away at most, just below two seconds. Exempt is a call during which
\* the thread wrote the clock: it is wrong by up to the time between two
\* synchronizations, in either direction.
ClockIsRight ==
  reading /\ Complete /\ ~torn =>
    UnixTime * Second \in (Epoch + called - Held - 2 * (Second - 1)) .. (Epoch + uptime)

\* A node that stays connected synchronizes: failed first queries are retried.
Synchronizes == []<>~connected \/ <>synchronized

\* A CLOCK trigger leads to an attempt at a query after it, though the semaphore
\* keeps one trigger only, unless the node is disconnected meanwhile; the attempt may
\* fail, and is not repeated once the clock has been synchronized. (A trigger
\* that the thread takes while the node is disconnected is lost.)
TriggerIsServed == asked ~> ~asked
================================================================================
