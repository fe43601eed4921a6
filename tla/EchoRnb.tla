--------------------------------- MODULE EchoRnb ---------------------------------
(***************************************************************************)
(* The echo client over user payloads of the bus:                           *)
(* samples/echo_client/src/rnb-user-payload.c and the bus part of            *)
(* echo-client.c. Whatever the broker sends to the node arrives: echoes, late *)
(* or doubled, and payloads of other senders. The utils thread writes the one *)
(* receive buffer at once, as the client's thread, which has a lower priority, *)
(* sees it; the timeout's handler can block in the driver.                   *)
(***************************************************************************)
EXTENDS Naturals

CONSTANT MaxLength          \* REDNODEBUS_USER_PAYLOAD_MAX_LENGTH, the mtu

ASSUME EchoRnbAssumption == MaxLength \in Nat \ {0}

Positions == 1 .. MaxLength

VARIABLES
  sem,            \* wait_rnb_data
  received,       \* the length of the last payload
  recv_buf,       \* the positions of the buffer that hold the text of a request
  expecting,
  timer,          \* the delay of the work recv is running
  queued,         \* the work is queued
  wpc,            \* the work queue's thread: idle, send, rearm
  cpc,            \* the client's thread
  ret,            \* its last result: ok, error
  got, pos,       \* compare_rnb_data: the length, the position memcmp is at
  \* history
  unread,         \* the client has not looked at the last payload
  genuine,        \* the last payload is the text of a request
  counted,        \* an exchange was counted for it
  raced           \* a payload came while the client looked at the one before, or
                  \* the token it took was for a payload it had looked at

buffer == <<sem, received, recv_buf>>
works == <<timer, queued, wpc>>
client == <<cpc, ret, got, pos>>
hist == <<unread, genuine, counted, raced>>
vars == <<buffer, expecting, works, client, hist>>

Init ==
  /\ sem = 0 /\ received = 0 /\ recv_buf = {} /\ expecting = 0
  /\ timer = FALSE /\ queued = FALSE /\ wpc = "idle"
  /\ cpc = "init" /\ ret = "ok" /\ got = 0 /\ pos = 0
  /\ unread = FALSE /\ genuine = FALSE /\ counted = FALSE /\ raced = FALSE

At(step) == cpc = step
Goto(step) == cpc' = step
Looking == cpc \in {"test", "length", "compare"}

--------------------------------------------------------------------------------
DeliverWithoutToken ==      \* faulty: the token is given only to a waiting client
  /\ \E len \in 0 .. MaxLength : \E good \in SUBSET (1 .. len) :
       /\ recv_buf' = (recv_buf \ (1 .. len)) \cup good
       /\ received' = len
       /\ genuine' = (good = 1 .. len)
  /\ sem' = IF At("wait") THEN 1 ELSE sem
  /\ unread' = TRUE /\ counted' = FALSE /\ raced' = (raced \/ Looking)
  /\ UNCHANGED <<expecting, works, client>>

DeliverCounts ==            \* faulty: the semaphore has no limit of one
  /\ received' \in 0 .. MaxLength
  /\ sem' = sem + 1
  /\ unread' = TRUE /\ genuine' = FALSE /\ counted' = FALSE
  /\ UNCHANGED <<recv_buf, expecting, works, client, raced>>

\* rnb_utils_handle_user_payload
Deliver ==
  /\ \E len \in 0 .. MaxLength : \E good \in SUBSET (1 .. len) :
       /\ recv_buf' = (recv_buf \ (1 .. len)) \cup good
       /\ received' = len
       /\ genuine' = (good = 1 .. len)
  /\ sem' = 1
  /\ unread' = TRUE /\ counted' = FALSE /\ raced' = (raced \/ Looking)
  /\ UNCHANGED <<expecting, works, client>>

--------------------------------------------------------------------------------
(* The work queue: wait_reply                                                *)

Expire ==
  /\ timer
  /\ timer' = FALSE /\ queued' = TRUE
  /\ UNCHANGED <<buffer, expecting, wpc, client, hist>>

\* The first step of send_rnb_data.
wait_reply ==
  /\ wpc = "idle" /\ queued
  /\ queued' = FALSE /\ wpc' = "send"
  /\ expecting' \in Positions
  /\ UNCHANGED <<buffer, timer, client, hist>>

\* Whether the driver takes the payload or not, the timeout is armed.
HandlerSend ==
  /\ wpc = "send"
  /\ wpc' = "rearm"
  /\ UNCHANGED <<buffer, expecting, timer, queued, client, hist>>

HandlerRearm ==
  /\ wpc = "rearm"
  /\ timer' = TRUE /\ wpc' = "idle"
  /\ UNCHANGED <<buffer, expecting, queued, client, hist>>

--------------------------------------------------------------------------------
(* start_client_rnb, start_rnb_proto                                         *)

\* After an error the works are initialised again, and the kernel may hold them:
\* the delay is lost or goes on, or the kernel's lists break.
InitWorks ==
  /\ At("init")
  /\ timer' \in {FALSE, timer} /\ queued' \in {FALSE, queued}
  /\ IF timer \/ queued THEN Goto("expect") \/ Goto("undefined")
                        ELSE Goto("expect")
  /\ received' = 0 /\ unread' = FALSE
  /\ ret' = "ok"
  /\ UNCHANGED <<sem, recv_buf, expecting, wpc, got, pos, genuine, counted, raced>>

(* send_rnb_data, for start_rnb_user_payload and process_rnb_proto            *)

Expect ==
  /\ At("expect")
  /\ expecting' \in Positions
  /\ Goto("send")
  /\ UNCHANGED <<buffer, works, ret, got, pos, hist>>

Send ==
  /\ At("send")
  /\ ret' \in {"ok", "error"}
  /\ Goto("rearm")
  /\ UNCHANGED <<buffer, expecting, works, got, pos, hist>>

RearmNothing ==             \* faulty: k_work_reschedule only after an error
  /\ At("rearm")
  /\ timer' = (timer \/ ret = "error")
  /\ Goto(IF ret = "ok" THEN "wait" ELSE "init")
  /\ UNCHANGED <<buffer, expecting, queued, wpc, ret, got, pos, hist>>

Rearm ==
  /\ At("rearm")
  /\ timer' = TRUE
  /\ Goto(IF ret = "ok" THEN "wait" ELSE "init")
  /\ UNCHANGED <<buffer, expecting, queued, wpc, ret, got, pos, hist>>

--------------------------------------------------------------------------------
(* wait_rnb_user_payload_reply and process_rnb_proto                          *)

Wait ==
  /\ At("wait") /\ sem = 1
  /\ sem' = 0
  /\ raced' = ~unread
  /\ Goto("test")
  /\ UNCHANGED <<received, recv_buf, expecting, works, ret, got, pos, unread, genuine, counted>>

\* received is never negative; 0 is an error.
Test ==
  /\ At("test")
  /\ IF received = 0 THEN ret' = "error" /\ unread' = FALSE /\ Goto("init")
                     ELSE UNCHANGED <<ret, unread>> /\ Goto("length")
  /\ UNCHANGED <<buffer, expecting, works, got, pos, genuine, counted, raced>>

LengthOnly ==               \* faulty: the text is not compared
  /\ At("length")
  /\ got' = received /\ pos' = received + 1
  /\ unread' = FALSE
  /\ Goto(IF received = expecting THEN "compare" ELSE "wait")
  /\ UNCHANGED <<buffer, expecting, works, ret, genuine, counted, raced>>

Length ==
  /\ At("length")
  /\ got' = received /\ pos' = 1
  /\ unread' = FALSE
  /\ Goto(IF received = expecting THEN "compare" ELSE "wait")
  /\ UNCHANGED <<buffer, expecting, works, ret, genuine, counted, raced>>

\* memcmp, one position at a time.
Compare ==
  /\ At("compare") /\ pos <= got
  /\ IF pos \in recv_buf THEN pos' = pos + 1 /\ UNCHANGED cpc
                         ELSE pos' = pos /\ Goto("wait")
  /\ UNCHANGED <<buffer, expecting, works, ret, got, hist>>

\* ++counter, for the payload it looked at, which may have been replaced since.
Count ==
  /\ At("compare") /\ pos > got
  /\ counted' = (counted \/ ~unread)
  /\ Goto("cancel")
  /\ UNCHANGED <<buffer, expecting, works, ret, got, pos, unread, genuine, raced>>

\* k_work_cancel_delayable: the delay and the queue, not a running handler.
Cancel ==
  /\ At("cancel")
  /\ timer' = FALSE /\ queued' = FALSE
  /\ Goto("expect")
  /\ UNCHANGED <<buffer, expecting, wpc, ret, got, pos, hist>>

Next ==
  \/ Deliver
  \/ Expire
  \/ wait_reply
  \/ HandlerSend
  \/ HandlerRearm
  \/ InitWorks
  \/ Expect
  \/ Send
  \/ Rearm
  \/ Wait
  \/ Test
  \/ Length
  \/ Compare
  \/ Count
  \/ Cancel

Spec == Init /\ [][Next]_vars

--------------------------------------------------------------------------------
TypeOK ==
  /\ sem \in 0 .. 1 /\ received \in 0 .. MaxLength /\ recv_buf \subseteq Positions
  /\ expecting \in 0 .. MaxLength
  /\ timer \in BOOLEAN /\ queued \in BOOLEAN /\ wpc \in {"idle", "send", "rearm"}
  /\ cpc \in {"init", "expect", "send", "rearm", "wait", "test", "length", "compare",
              "cancel", "undefined"}
  /\ ret \in {"ok", "error"} /\ got \in 0 .. MaxLength /\ pos \in 0 .. MaxLength + 1
  /\ unread \in BOOLEAN /\ genuine \in BOOLEAN
  /\ counted \in BOOLEAN /\ raced \in BOOLEAN

\* The client never waits in vain: while it waits for a payload or looks at one,
\* the timeout runs, is queued or is handled, whoever armed or cancelled it last.
WaitingClientRetries ==
  cpc = "wait" \/ Looking => timer \/ queued \/ wpc # "idle"

\* No payload sleeps in the buffer: while the client has not looked at the last
\* one, the token is there or the client is about to look, although the token
\* counts to one and the buffer holds one payload.
NoPayloadSleeps ==
  unread => sem = 1 \/ cpc \in {"test", "length"}

\* An exchange is counted for a payload that is the text of the length that was
\* compared, and once: the client is misled only by a payload that comes while it
\* looks at the one before, during which the buffer and the length change.
ExchangeIsReal ==
  [][Count => raced \/ (genuine /\ received = got /\ ~counted)]_vars
================================================================================
