--------------------------------- MODULE EchoUdp ---------------------------------
(***************************************************************************)
(* The echo client over UDP: samples/echo_client/src/udp.c and the UDP part  *)
(* of echo-client.c, against script/echo_server.py and a network that loses, *)
(* doubles and reorders. A request is known by its length only. The client's *)
(* thread has the lowest priority: the network's events and the work queue,  *)
(* whose handlers send too and can block in send(), come between any two of  *)
(* its steps.                                                               *)
(***************************************************************************)
EXTENDS Naturals, SequencesExt

CONSTANTS
  Lengths,        \* the lengths a request can have: 1 .. min(mtu, ipsum_len - 1)
  FdsSize,        \* the length of fds: 4
  SocketRoom      \* datagrams a socket keeps for its reader

ASSUME EchoUdpAssumption ==
  /\ Lengths \subseteq Nat \ {0} /\ Lengths # {}
  /\ FdsSize \in Nat \ {0} /\ SocketRoom \in Nat \ {0}

VARIABLES
  tcp, manager,   \* CONFIG_NET_TCP, CONFIG_NET_CONNECTION_MANAGER: any build
  connected, run_app,   \* the flag and the count of the semaphore
  nfds,
  sock,           \* none (negative), open, closed
  expecting,      \* the length sent last, 0 before
  timer,          \* the works whose delay is running: recv, transmit
  wq,             \* the works queued
  wpc,            \* the work queue's thread: idle, send, rearm
  cpc,            \* the client's thread
  ret,            \* its last result: ok, error
  got,            \* the length it received
  net,            \* the echoes under way
  rxq,            \* the datagrams in the socket
  \* history
  answered,       \* a reply has matched the last request, with no handler under way
  late            \* a handler armed the timeout after stop_udp had cancelled it

link == <<tcp, manager, connected, run_app>>
works == <<timer, wq, wpc>>
sockets == <<nfds, sock, net, rxq>>
client == <<cpc, ret, got>>
hist == <<answered, late>>
vars == <<link, works, sockets, client, expecting, hist>>

Works == {"recv", "transmit"}

Init ==
  /\ tcp \in BOOLEAN /\ manager \in BOOLEAN
  /\ connected = ~manager /\ run_app = IF manager THEN 0 ELSE 1
  /\ nfds = 0 /\ sock = "none" /\ expecting = 0
  /\ timer = {} /\ wq = <<>> /\ wpc = "idle"
  /\ cpc = "take" /\ ret = "ok" /\ got = 0
  /\ net = {} /\ rxq = <<>>
  /\ answered = FALSE /\ late = FALSE

At(step) == cpc = step
Goto(step) == cpc' = step

--------------------------------------------------------------------------------
(* event_handler: it runs in a thread the others do not preempt.             *)

Connect ==
  /\ manager /\ connected' = TRUE /\ run_app' = 1
  /\ UNCHANGED <<tcp, manager, works, sockets, client, expecting, hist>>

Disconnect ==
  /\ manager /\ connected' = FALSE /\ run_app' = 0
  /\ UNCHANGED <<tcp, manager, works, sockets, client, expecting, hist>>

--------------------------------------------------------------------------------
(* The network and the server, which returns what it gets.                   *)

\* An echo arrives; a copy of it can follow. A full socket drops it.
Arrive ==
  /\ sock = "open"
  /\ \E len \in net :
       /\ net' \in {net, net \ {len}}
       /\ rxq' = IF Len(rxq) < SocketRoom THEN Append(rxq, len) ELSE rxq
  /\ UNCHANGED <<link, works, nfds, sock, client, expecting, hist>>

Lose ==
  /\ \E len \in net : net' = net \ {len}
  /\ UNCHANGED <<link, works, nfds, sock, rxq, client, expecting, hist>>

--------------------------------------------------------------------------------
(* The work queue                                                           *)

\* The delay of a work has passed: it is queued, once.
Expire ==
  /\ \E w \in timer :
       /\ timer' = timer \ {w}
       /\ wq' = IF w \in ToSet(wq) THEN wq ELSE Append(wq, w)
  /\ UNCHANGED <<link, wpc, sockets, client, expecting, hist>>

\* The first step of send_udp_data, in whatever thread.
Expect == expecting' \in Lengths /\ answered' = FALSE

\* send(): it fails, or the echo is under way.
Transmit(ok) ==
  /\ ok => sock = "open"
  /\ net' = IF ok THEN net \cup {expecting} ELSE net

Handle(w) ==
  /\ wpc = "idle" /\ wq # <<>> /\ Head(wq) = w
  /\ wq' = Tail(wq) /\ wpc' = "send"
  /\ Expect
  /\ UNCHANGED <<link, timer, sockets, client, late>>

wait_reply == Handle("recv")
wait_transmit == Handle("transmit")

HandlerSend ==
  /\ wpc = "send"
  /\ \E ok \in BOOLEAN : Transmit(ok)
  /\ wpc' = "rearm"
  /\ UNCHANGED <<link, timer, wq, nfds, sock, rxq, client, expecting, hist>>

RearmAfterSuccess ==        \* faulty: a failed send does not arm the timeout
  /\ wpc = "rearm"
  /\ timer' \in {timer, timer \cup {"recv"}} /\ wpc' = "idle"
  /\ UNCHANGED <<link, wq, sockets, client, expecting, hist>>

\* k_work_reschedule; the result of the send is not looked at.
HandlerRearm ==
  /\ wpc = "rearm"
  /\ timer' = timer \cup {"recv"} /\ wpc' = "idle"
  /\ late' = (late \/ cpc \in {"cancel2", "close", "take", "init"})
  /\ UNCHANGED <<link, wq, sockets, client, expecting, answered>>

--------------------------------------------------------------------------------
(* start_client, start and start_udp                                        *)

Take ==
  /\ At("take") /\ run_app = 1
  /\ run_app' = 0
  /\ ret' = "ok" /\ Goto("init")
  /\ UNCHANGED <<tcp, manager, connected, works, sockets, got, expecting, hist>>

\* k_work_init_delayable on a work the kernel still holds corrupts its lists.
InitWorks ==
  /\ At("init")
  /\ Goto(IF timer = {} /\ wq = <<>> THEN "socket" ELSE "undefined")
  /\ late' = FALSE
  /\ UNCHANGED <<link, works, sockets, ret, got, expecting, answered>>

OpenSocket ==
  /\ At("socket")
  /\ \/ sock' = "none" /\ ret' = "error" /\ Goto("stop")
     \/ sock' = "open" /\ ret' = "error" /\ Goto("stop")
     \/ sock' = "open" /\ ret' = "ok" /\ Goto("first_expect")
  /\ UNCHANGED <<link, works, nfds, net, rxq, got, expecting, hist>>

PrepareAnyway ==            \* faulty: the array is not looked at, nfds grows
  /\ At("prepare")
  /\ nfds' = nfds + 1 /\ Goto("loop")
  /\ UNCHANGED <<link, works, sock, net, rxq, ret, got, expecting, hist>>

\* prepare_fds appends; at the end of the array it writes past it.
prepare_fds ==
  /\ At("prepare")
  /\ IF nfds < FdsSize THEN nfds' = nfds + 1 /\ Goto("loop")
                       ELSE nfds' = nfds /\ Goto("undefined")
  /\ UNCHANGED <<link, works, sock, net, rxq, ret, got, expecting, hist>>

\* while (connected && (ret == 0))
Loop ==
  /\ At("loop")
  /\ Goto(IF connected /\ ret = "ok" THEN "poll" ELSE "stop")
  /\ UNCHANGED <<link, works, sockets, ret, got, expecting, hist>>

--------------------------------------------------------------------------------
(* send_udp_data in the client's thread: from start_udp and, without TCP, for *)
(* each reply.                                                              *)

ClientExpect ==
  /\ cpc \in {"first_expect", "expect"}
  /\ Goto(IF At("expect") THEN "send" ELSE "first_send")
  /\ Expect
  /\ UNCHANGED <<link, works, sockets, ret, got, late>>

ClientSend ==
  /\ cpc \in {"first_send", "send"}
  /\ \E ok \in BOOLEAN : Transmit(ok) /\ ret' = IF ok THEN "ok" ELSE "error"
  /\ Goto(IF At("send") THEN "rearm" ELSE "first_rearm")
  /\ UNCHANGED <<link, works, nfds, sock, rxq, got, expecting, hist>>

ClientRearm ==
  /\ cpc \in {"first_rearm", "rearm"}
  /\ timer' = timer \cup {"recv"}
  /\ Goto(IF At("rearm") THEN "loop" ELSE IF ret = "ok" THEN "prepare" ELSE "stop")
  /\ UNCHANGED <<link, wq, wpc, sockets, ret, got, expecting, hist>>

--------------------------------------------------------------------------------
(* run and process_udp_proto                                                *)

\* poll waits for a datagram, but may return at once when fds holds entries of
\* sockets closed since.
Poll ==
  /\ At("poll") /\ (rxq # <<>> \/ nfds > 1)
  /\ Goto("recv")
  /\ UNCHANGED <<link, works, sockets, ret, got, expecting, hist>>

Recv ==
  /\ At("recv") /\ rxq # <<>>
  /\ got' = Head(rxq) /\ rxq' = Tail(rxq)
  /\ Goto("compare")
  /\ UNCHANGED <<link, works, nfds, sock, net, ret, expecting, hist>>

\* EAGAIN is no error, others are.
RecvNothing ==
  /\ At("recv")
  /\ ret' \in IF rxq = <<>> THEN {"ok", "error"} ELSE {"error"}
  /\ Goto("loop")
  /\ UNCHANGED <<link, works, sockets, got, expecting, hist>>

\* A mismatch is ignored: it may be the answer to an earlier request.
Compare ==
  /\ At("compare")
  /\ answered' = (answered \/ (got = expecting /\ wpc = "idle"))
  /\ Goto(IF got = expecting THEN "cancel" ELSE "loop")
  /\ UNCHANGED <<link, works, sockets, ret, got, expecting, late>>

CancelNothing ==            \* faulty: k_work_cancel_delayable is missing
  /\ At("cancel")
  /\ Goto(IF tcp THEN "transmit" ELSE "expect")
  /\ UNCHANGED <<link, works, sockets, ret, got, expecting, hist>>

\* k_work_cancel_delayable: the delay and the queue, not a running handler.
Withdraw(w) == timer' = timer \ {w} /\ wq' = RemoveFirst(wq, w)

Cancel ==
  /\ At("cancel")
  /\ Withdraw("recv")
  /\ Goto(IF tcp THEN "transmit" ELSE "expect")
  /\ UNCHANGED <<link, wpc, sockets, ret, got, expecting, hist>>

Reschedule ==
  /\ At("transmit")
  /\ timer' = timer \cup {"transmit"}
  /\ Goto("loop")
  /\ UNCHANGED <<link, wq, wpc, sockets, ret, got, expecting, hist>>

--------------------------------------------------------------------------------
(* stop_udp                                                                 *)

StopRecv ==
  /\ At("stop")
  /\ Withdraw("recv")
  /\ Goto("cancel2")
  /\ UNCHANGED <<link, wpc, sockets, ret, got, expecting, hist>>

SkipStopTransmit ==         \* faulty: the second work is not cancelled
  /\ At("cancel2")
  /\ Goto("close")
  /\ UNCHANGED <<link, works, sockets, ret, got, expecting, hist>>

StopTransmit ==
  /\ At("cancel2")
  /\ Withdraw("transmit")
  /\ Goto("close")
  /\ UNCHANGED <<link, wpc, sockets, ret, got, expecting, hist>>

CloseAndReset ==            \* faulty: stop forgets the connection too
  /\ At("close")
  /\ sock' = IF sock = "open" THEN "closed" ELSE sock
  /\ net' = {} /\ rxq' = <<>> /\ run_app' = 0
  /\ Goto("take")
  /\ UNCHANGED <<tcp, manager, connected, works, nfds, ret, got, expecting, hist>>

\* What is under way finds no socket any more.
Close ==
  /\ At("close")
  /\ sock' = IF sock = "open" THEN "closed" ELSE sock
  /\ net' = {} /\ rxq' = <<>>
  /\ Goto("take")
  /\ UNCHANGED <<link, works, nfds, ret, got, expecting, hist>>

Next ==
  \/ Connect
  \/ Disconnect
  \/ Arrive
  \/ Lose
  \/ Expire
  \/ wait_reply
  \/ wait_transmit
  \/ HandlerSend
  \/ HandlerRearm
  \/ Take
  \/ InitWorks
  \/ OpenSocket
  \/ prepare_fds
  \/ Loop
  \/ ClientExpect
  \/ ClientSend
  \/ ClientRearm
  \/ Poll
  \/ Recv
  \/ RecvNothing
  \/ Compare
  \/ Cancel
  \/ Reschedule
  \/ StopRecv
  \/ StopTransmit
  \/ Close

Spec == Init /\ [][Next]_vars

--------------------------------------------------------------------------------
TypeOK ==
  /\ tcp \in BOOLEAN /\ manager \in BOOLEAN
  /\ connected \in BOOLEAN /\ run_app \in 0 .. 1
  /\ nfds \in 0 .. FdsSize /\ sock \in {"none", "open", "closed"}
  /\ expecting \in Lengths \cup {0} /\ got \in Lengths \cup {0}
  /\ timer \subseteq Works /\ wq \in Seq(Works) /\ Len(wq) <= 2
  /\ wpc \in {"idle", "send", "rearm"} /\ ret \in {"ok", "error"}
  /\ cpc \in {"take", "init", "socket", "first_expect", "first_send", "first_rearm",
              "prepare", "loop", "poll", "recv", "compare", "cancel", "transmit",
              "expect", "send", "rearm", "stop", "cancel2", "close", "undefined"}
  /\ net \subseteq Lengths /\ rxq \in Seq(Lengths) /\ Len(rxq) <= SocketRoom
  /\ answered \in BOOLEAN /\ late \in BOOLEAN

\* The client never waits in vain: while it polls, a timeout or a transmission is
\* scheduled, queued or running, whatever request the reply before belonged to
\* and whichever side armed or cancelled last.
WaitingClientRetries ==
  cpc \in {"loop", "poll", "recv", "compare"} /\ ret = "ok" =>
    timer # {} \/ wq # <<>> \/ wpc # "idle"

\* "This means that we did not receive response in time": a timeout is handled for
\* a request without a matching reply, or in the moment between the match and
\* the cancellation of the timeout. A reply that is matched while a handler is under
\* way, between its transmission and its next arming of the timeout, does not count
\* as the request's: the timeout armed behind it can be handled all the same.
TimeoutMeansNoReply ==
  [][wait_reply => ~answered \/ cpc = "cancel"]_vars

\* The client waits for the semaphore although the network is connected, and the
\* semaphore is not there, only after an error: no connection event is lost
\* between its loop and its next wait.
WaitsForConnection ==
  cpc = "take" /\ connected /\ run_app = 0 => ret = "error"

\* A stopped client is quiet, and initialises its works only when the kernel does
\* not hold them: the exception is a handler that ran across stop_udp.
StoppedClientIsQuiet ==
  cpc \in {"take", "init"} /\ ~late => timer = {} /\ wq = <<>>

\* "Wait for the connection": the client waits only while there is none.
WaitsOnlyForConnection ==
  cpc = "take" /\ connected => run_app = 1

\* "Wait for event on any socket used": there is an entry of fds for each start.
EveryStartHasItsEntry == cpc = "prepare" => nfds < FdsSize
================================================================================
