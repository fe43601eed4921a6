-------------------------------- MODULE SocketTest --------------------------------
(***************************************************************************)
(* The packets that are counted: the two sending threads of                  *)
(* samples/socket_test or the trigger handler of samples/accelerometer, the   *)
(* network, and the statistics, the same in script/socket_test.py,            *)
(* socket_test_rnb.py, accelerometer.py and accelerometer_rnb.py. The number   *)
(* of a packet is the count of those sent before. The threads of the socket    *)
(* test write it, and their session, into the one text they share. They have   *)
(* the same priority: one runs until it sleeps or blocks in send(). The node    *)
(* can restart, which begins a new session. The packets of one sender, any, are *)
(* followed to their script.                                                 *)
(***************************************************************************)
EXTENDS Integers, FiniteSets, SequencesExt

CONSTANTS
  MaxBoots, MaxPackets,     \* bounds of the model: starts, packets of a start,
  MaxOther,                 \* those of the thread that is not followed
  NetRoom                   \* packets under way

Streams == {"udp", "rnb", "acc"}
TestThreads == {"udp", "rnb"}
Builds == (SUBSET TestThreads \ {{}}) \cup {{"acc"}}

ASSUME SocketTestAssumption ==
  /\ MaxBoots \in Nat \ {0} /\ MaxPackets \in Nat \ {0} /\ NetRoom \in Nat \ {0}
  /\ MaxOther \in 0 .. MaxPackets

VARIABLES
  build,          \* the senders of the build
  stream,         \* the one whose packets are followed
  boot,           \* counts the starts of the node
  pc,             \* each sender: init, start, put, send, ended
  text,           \* lorem_ipsum or packet_buffer: session and number
  payload,        \* rnb_user_payload_params
  packets_sent,
  net,            \* the packets of the stream, in the order they were sent
  stats,          \* stats_dic of its script, for this node
  crashed,        \* the script died of an exception
  \* history
  first,          \* the number of the first packet of the statistics
  dropped,        \* the packets the network lost
  disturbed       \* the network doubled a packet or let one pass another

config == <<build, stream>>
node == <<boot, pc, text, payload, packets_sent>>
scripts == <<stats, crashed, first>>
faults == <<dropped, disturbed>>
vars == <<config, node, net, scripts, faults>>

Sessions == (1 .. MaxBoots) \X Streams
NoSession == <<0, "none">>
NoStats == [session |-> NoSession, last |-> 0, received |-> 0, lost |-> 0]
Blank == [session |-> NoSession, number |-> 0]

Init ==
  /\ build \in Builds /\ stream \in build
  /\ boot = 1
  /\ pc = [s \in Streams |-> "init"] /\ text = Blank /\ payload = Blank
  /\ packets_sent = [s \in Streams |-> 0]
  /\ net = <<>> /\ stats = NoStats /\ crashed = FALSE
  /\ first = 0 /\ dropped = {} /\ disturbed = FALSE

At(s, step) == s \in build /\ pc[s] = step
Goto(s, step) == pc' = [pc EXCEPT ![s] = step]

\* The node loses its memory, what is under way goes on.
Restart ==
  /\ boot < MaxBoots
  /\ boot' = boot + 1
  /\ pc' = [s \in Streams |-> "init"] /\ text' = Blank /\ payload' = Blank
  /\ packets_sent' = [s \in Streams |-> 0]
  /\ UNCHANGED <<config, net, scripts, faults>>

--------------------------------------------------------------------------------
(* socket-test.c                                                            *)

NoSessionYet(s) ==          \* faulty: the session is not written
  /\ At(s, "init")
  /\ Goto(s, "start")
  /\ UNCHANGED <<config, boot, text, payload, packets_sent, net, scripts, faults>>

SameSession(s) ==           \* faulty: the random number is the same after a restart
  /\ At(s, "init")
  /\ text' = [text EXCEPT !.session = <<1, s>>]
  /\ Goto(s, "start")
  /\ UNCHANGED <<config, boot, payload, packets_sent, net, scripts, faults>>

\* The random session differs from all others.
BeginSession(s) ==
  /\ At(s, "init")
  /\ text' = [text EXCEPT !.session = <<boot, s>>]
  /\ Goto(s, "start")
  /\ UNCHANGED <<config, boot, payload, packets_sent, net, scripts, faults>>

init_app == BeginSession("udp")
init_app_rnb == BeginSession("rnb")

\* Until it succeeds: the socket is closed and opened again.
Start(s) ==
  /\ At(s, "start")
  /\ Goto(s, "put")
  /\ UNCHANGED <<config, boot, text, payload, packets_sent, net, scripts, faults>>

start_udp == Start("udp")
start_rnb_user_payload == Start("rnb")

\* Each time the thread has slept.
PutUdp ==
  /\ At("udp", "put")
  /\ text' = [text EXCEPT !.number = packets_sent["udp"]]
  /\ Goto("udp", "send")
  /\ UNCHANGED <<config, boot, payload, packets_sent, net, scripts, faults>>

\* The number is written and the text copied without a break.
PutRnb ==
  /\ At("rnb", "put")
  /\ text' = [text EXCEPT !.number = packets_sent["rnb"]]
  /\ payload' = text'
  /\ Goto("rnb", "send")
  /\ UNCHANGED <<config, boot, packets_sent, net, scripts, faults>>

More(s) == packets_sent[s] < IF s = stream THEN MaxPackets ELSE MaxOther

\* A packet leaves, or the call fails. With the bounds of the model.
Leave(s, packet, ok) ==
  /\ ok => More(s) /\ Len(net) < NetRoom
  /\ net' = IF ok /\ s = stream THEN Append(net, packet) ELSE net

CountEveryTry(s, packet) == \* faulty: packets_sent++ also after an error
  /\ At(s, "send")
  /\ \E ok \in BOOLEAN : Leave(s, packet, ok)
  /\ packets_sent' = [packets_sent EXCEPT ![s] = IF More(s) THEN @ + 1 ELSE @]
  /\ Goto(s, "put")
  /\ UNCHANGED <<config, boot, text, payload, scripts, faults>>

Send(s, packet) ==
  /\ At(s, "send")
  /\ \E ok \in BOOLEAN :
       /\ Leave(s, packet, ok)
       /\ packets_sent' = IF ok THEN [packets_sent EXCEPT ![s] = @ + 1] ELSE packets_sent
  /\ Goto(s, "put")
  /\ UNCHANGED <<config, boot, text, payload, scripts, faults>>

\* send() can block before it reads the text.
send_udp_data == Send("udp", text)
send_rnb_data == Send("rnb", payload)

--------------------------------------------------------------------------------
(* accelerometer.c: main, which ends, and the handler in the work queue.      *)

init_accelerometer == BeginSession("acc")

\* Once, and only a node whose last report said it is a tag. The socket or the
\* sensor can be missing.
start_client ==
  /\ At("acc", "start")
  /\ \E next \in {"put", "ended"} : Goto("acc", next)
  /\ UNCHANGED <<config, boot, text, payload, packets_sent, net, scripts, faults>>

\* A sample that was read, or overwritten before; one that failed changes nothing.
fetch_and_display ==
  /\ At("acc", "put")
  /\ text' = [text EXCEPT !.number = packets_sent["acc"]]
  /\ Goto("acc", "send")
  /\ UNCHANGED <<config, boot, payload, packets_sent, net, scripts, faults>>

SendSample == Send("acc", text)

--------------------------------------------------------------------------------
Lose ==
  /\ \E i \in DOMAIN net :
       net' = RemoveAt(net, i) /\ dropped' = dropped \cup {net[i]}
  /\ UNCHANGED <<config, node, scripts, disturbed>>

--------------------------------------------------------------------------------
(* The script gets a packet.                                                *)

Anew(p) == [session |-> p.session, last |-> p.number, received |-> 1, lost |-> 0]

\* In integers without bounds: the gap is negative when a packet was passed.
Account(st, p) ==
  [st EXCEPT !.last = p.number, !.received = @ + 1, !.lost = @ + p.number - st.last - 1]

\* The error rate divides by the sum of the two counters.
Receive(p) ==
  LET new == IF stats.session = p.session THEN Account(stats, p) ELSE Anew(p)
  IN  /\ ~crashed
      /\ stats' = new
      /\ first' = IF stats.session = p.session THEN first ELSE p.number
      /\ crashed' = (new.lost + new.received = 0)

\* The model lets the stream be disturbed once.
Deliver ==
  /\ \E i \in DOMAIN net, doubled \in BOOLEAN :
       /\ doubled \/ i > 1 => ~disturbed
       /\ Receive(net[i])
       /\ net' = IF doubled THEN net ELSE RemoveAt(net, i)
       /\ disturbed' = (disturbed \/ doubled \/ i > 1)
  /\ UNCHANGED <<config, node, dropped>>

Next ==
  \/ Restart
  \/ init_app
  \/ init_app_rnb
  \/ start_udp
  \/ start_rnb_user_payload
  \/ PutUdp
  \/ PutRnb
  \/ send_udp_data
  \/ send_rnb_data
  \/ init_accelerometer
  \/ start_client
  \/ fetch_and_display
  \/ SendSample
  \/ Lose
  \/ Deliver

Spec == Init /\ [][Next]_vars

--------------------------------------------------------------------------------
Packet(p) == p.session \in Sessions /\ p.number \in 0 .. MaxPackets

TypeOK ==
  /\ build \in Builds /\ stream \in build /\ boot \in 1 .. MaxBoots
  /\ pc \in [Streams -> {"init", "start", "put", "send", "ended"}]
  /\ packets_sent \in [Streams -> 0 .. MaxPackets]
  /\ Len(net) <= NetRoom /\ \A i \in DOMAIN net : Packet(net[i])
  /\ stats.session \in Sessions \cup {NoSession}
  /\ stats.last \in 0 .. MaxPackets /\ stats.received \in Nat /\ stats.lost \in Int
  /\ crashed \in BOOLEAN /\ first \in 0 .. MaxPackets
  /\ disturbed \in BOOLEAN /\ \A p \in dropped : Packet(p)
  /\ text.number \in 0 .. MaxPackets /\ payload.number \in 0 .. MaxPackets

\* The UDP thread shares the text with another thread.
Shared == stream = "udp" /\ build = TestThreads

\* What the table calls lost is what the network lost: of the session shown and
\* between its first and its last packet, although sends fail and the node
\* restarts. It takes a network that reorders or doubles, or a build whose other
\* thread writes into the text of the UDP packets, to make it wrong.
LossIsExact ==
  ~disturbed /\ ~Shared =>
    stats.lost = Cardinality({p \in dropped :
      p.session = stats.session /\ p.number \in first .. stats.last})

\* The statistics survive: the divisor of the error rate, which is one more than the
\* distance from the first number to the last, is only 0 when an earlier packet
\* than the first one comes late, or the numbers of two threads are mixed.
ReceiverSurvives ==
  /\ crashed => disturbed \/ Shared
  /\ stats.received # 0 => stats.received + stats.lost = stats.last - first + 1
================================================================================
