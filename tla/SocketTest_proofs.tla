------------------------------ MODULE SocketTest_proofs ------------------------------
(***************************************************************************)
(* Proofs about SocketTest, for every number of starts and packets and      *)
(* every room of the network: what the table calls lost is what the network *)
(* lost (socket-test.c, accelerometer.c and script/socket_test.py).         *)
(***************************************************************************)
EXTENDS SocketTest, SequenceTheorems, FiniteSetTheorems, TLAPS

(* Types.                                                                   *)

Numbered(s, n) == [session |-> s, number |-> n]
Items == [session : Sessions, number : 0 .. MaxPackets]
Texts == [session : Sessions \cup {NoSession}, number : 0 .. MaxPackets]

NodeOK ==
  /\ build \in Builds /\ stream \in build /\ boot \in 1 .. MaxBoots
  /\ pc \in [Streams -> {"init", "start", "put", "send", "ended"}]
  /\ text \in Texts /\ payload \in Texts
  /\ packets_sent \in [Streams -> 0 .. MaxPackets]

NetOK ==
  /\ net \in Seq(Items) /\ Len(net) <= NetRoom
  /\ dropped \in SUBSET Items /\ IsFiniteSet(dropped)

StatsOK ==
  /\ stats \in [session : Sessions \cup {NoSession}, last : 0 .. MaxPackets,
                received : Nat, lost : Int]
  /\ crashed \in BOOLEAN /\ first \in 0 .. MaxPackets /\ disturbed \in BOOLEAN

\* A text that the sender has not begun itself, or another thread in the same start.
Mine(x) == x.session \in Sessions /\ x.session[1] = boot /\ pc[x.session[2]] # "init"

\* Who is past its beginning finds a session in the text, and in what it copied.
TextOK ==
  /\ \A s \in build : pc[s] # "init" => Mine(text)
  /\ pc["rnb"] = "send" => Mine(payload)

TypeInv == NodeOK /\ NetOK /\ StatsOK /\ TextOK

--------------------------------------------------------------------------------
(* The steps, by what they do.                                              *)

\* What a sender hands to send().
Copied(s) == IF s = "rnb" THEN payload ELSE text

Put(s) ==
  /\ pc[s] = "put" /\ Goto(s, "send")
  /\ text' = [text EXCEPT !.number = packets_sent[s]]
  /\ payload' = IF s = "rnb" THEN text' ELSE payload
  /\ UNCHANGED <<config, boot, packets_sent, net, scripts, faults>>

Proceed(s) ==
  /\ pc[s] = "start" /\ \E next \in {"put", "ended"} : Goto(s, next)
  /\ UNCHANGED <<config, boot, text, payload, packets_sent, net, scripts, faults>>

Sender(s) == BeginSession(s) \/ Proceed(s) \/ Put(s) \/ Send(s, Copied(s))

\* A step is the sender's, the node's, the network's or the script's.
LEMMA Steps ==
  ASSUME TypeInv, [Next]_vars
  PROVE  \/ \E s \in build : Sender(s)
         \/ Restart \/ Lose \/ Deliver \/ UNCHANGED vars
<1>1. build \subseteq Streams BY DEF TypeInv, NodeOK, Builds, TestThreads, Streams
<1>2. CASE init_app \/ init_app_rnb \/ init_accelerometer
  BY <1>1, <1>2 DEF init_app, init_app_rnb, init_accelerometer, BeginSession, At, Sender
<1>3. CASE start_udp \/ start_rnb_user_payload
  <2>1. PICK s \in build : Start(s) BY <1>3 DEF start_udp, start_rnb_user_payload, Start, At
  <2> QED BY <2>1 DEF Start, At, Proceed, Sender
<1>4. CASE start_client
  <2>1. "acc" \in build /\ Proceed("acc") BY <1>4 DEF start_client, At, Proceed
  <2> QED BY <2>1 DEF Sender
<1>5. CASE PutUdp
  <2>1. "udp" \in build /\ Put("udp") BY <1>5 DEF PutUdp, At, Put
  <2> QED BY <2>1 DEF Sender
<1>6. CASE PutRnb
  <2>1. "rnb" \in build /\ Put("rnb") BY <1>6 DEF PutRnb, At, Put
  <2> QED BY <2>1 DEF Sender
<1>7. CASE fetch_and_display
  <2>1. "acc" \in build /\ Put("acc") BY <1>7 DEF fetch_and_display, At, Put
  <2> QED BY <2>1 DEF Sender
<1>8. CASE send_udp_data
  <2>1. "udp" \in build /\ Send("udp", Copied("udp"))
    BY <1>8 DEF send_udp_data, Send, At, Copied
  <2> QED BY <2>1 DEF Sender
<1>9. CASE send_rnb_data
  <2>1. "rnb" \in build /\ Send("rnb", Copied("rnb"))
    BY <1>9 DEF send_rnb_data, Send, At, Copied
  <2> QED BY <2>1 DEF Sender
<1>10. CASE SendSample
  <2>1. "acc" \in build /\ Send("acc", Copied("acc")) BY <1>10 DEF SendSample, Send, At, Copied
  <2> QED BY <2>1 DEF Sender
<1> QED BY <1>2, <1>3, <1>4, <1>5, <1>6, <1>7, <1>8, <1>9, <1>10 DEF Next

--------------------------------------------------------------------------------
(* The packets under way.                                                   *)

\* The places before a removed one keep their number, the others move up.
LEMMA RemoveAtIs ==
  ASSUME NEW S, NEW q \in Seq(S), NEW k \in 1 .. Len(q)
  PROVE  /\ RemoveAt(q, k) \in Seq(S) /\ Len(RemoveAt(q, k)) = Len(q) - 1
         /\ \A i \in 1 .. Len(q) - 1 : RemoveAt(q, k)[i] = IF i < k THEN q[i] ELSE q[i + 1]
<1> DEFINE s == SubSeq(q, 1, k - 1)
           t == SubSeq(q, k + 1, Len(q))
<1>1. Len(q) \in Nat /\ \A i \in 1 .. Len(q) : q[i] \in S OBVIOUS
<1>2. /\ s \in Seq(S) /\ Len(s) = k - 1 /\ \A i \in 1 .. k - 1 : s[i] = q[i]
  <2>1. \A i \in 1 .. k - 1 : q[i] \in S BY <1>1
  <2>2. /\ s \in Seq(S) /\ Len(s) = IF 1 <= k - 1 THEN (k - 1) - 1 + 1 ELSE 0
        /\ \A i \in 1 .. (k - 1) - 1 + 1 : s[i] = q[1 + i - 1]
    BY <1>1, <2>1, SubSeqProperties
  <2> HIDE DEF s
  <2> QED BY <2>2
<1>3. /\ t \in Seq(S) /\ Len(t) = Len(q) - k /\ \A i \in 1 .. Len(q) - k : t[i] = q[k + i]
  <2>1. \A i \in k + 1 .. Len(q) : q[i] \in S BY <1>1
  <2>2. /\ t \in Seq(S) /\ Len(t) = IF k + 1 <= Len(q) THEN Len(q) - (k + 1) + 1 ELSE 0
        /\ \A i \in 1 .. Len(q) - (k + 1) + 1 : t[i] = q[k + 1 + i - 1]
    BY <1>1, <2>1, SubSeqProperties
  <2> HIDE DEF t
  <2> QED BY <1>1, <2>2
<1>4. RemoveAt(q, k) = s \o t BY DEF RemoveAt
<1> HIDE DEF s, t
<1>5. /\ s \o t \in Seq(S) /\ Len(s \o t) = Len(s) + Len(t)
      /\ \A i \in 1 .. Len(s) + Len(t) : (s \o t)[i] = IF i <= Len(s) THEN s[i] ELSE t[i - Len(s)]
  BY <1>2, <1>3, ConcatProperties
<1>6. ASSUME NEW i \in 1 .. Len(q) - 1 PROVE (s \o t)[i] = IF i < k THEN q[i] ELSE q[i + 1]
  <2>1. i \in 1 .. Len(s) + Len(t) BY <1>1, <1>2, <1>3
  <2>2. CASE i < k BY <1>2, <1>3, <1>5, <2>1, <2>2
  <2>3. CASE i >= k
    <3>1. (s \o t)[i] = t[i - Len(s)] BY <1>2, <1>5, <2>1, <2>3
    <3>2. i - Len(s) \in 1 .. Len(q) - k /\ k + (i - Len(s)) = i + 1 BY <1>1, <1>2, <2>3
    <3>3. t[i - Len(s)] = q[i + 1] BY <1>3, <3>2
    <3> QED BY <2>3, <3>1, <3>3
  <2>4. i < k \/ i >= k BY <1>1
  <2> QED BY <2>2, <2>3, <2>4
<1> QED BY <1>1, <1>2, <1>3, <1>4, <1>5, <1>6

\* What was at a place before place k is taken out of the net.
From(k, j) == IF j < k THEN j ELSE j + 1

\* Taking out one packet leaves the others in their order.
LEMMA TakeOut ==
  ASSUME NetOK, NEW k \in DOMAIN net, net' = RemoveAt(net, k)
  PROVE  /\ net' \in Seq(Items) /\ Len(net') = Len(net) - 1
         /\ net[k] \in Items
         /\ \A j \in DOMAIN net' : From(k, j) \in DOMAIN net /\ net'[j] = net[From(k, j)]
         /\ ToSet(net') \subseteq ToSet(net)
         /\ ToSet(net) = ToSet(net') \cup {net[k]}
<1>1. net \in Seq(Items) /\ Len(net) \in Nat /\ DOMAIN net = 1 .. Len(net) BY DEF NetOK
<1>2. /\ net' \in Seq(Items) /\ Len(net') = Len(net) - 1
      /\ \A i \in 1 .. Len(net) - 1 : net'[i] = IF i < k THEN net[i] ELSE net[i + 1]
  BY <1>1, RemoveAtIs
<1>3. DOMAIN net' = 1 .. Len(net) - 1 BY <1>2
<1>4. \A j \in DOMAIN net' : From(k, j) \in DOMAIN net /\ net'[j] = net[From(k, j)]
  BY <1>1, <1>2, <1>3 DEF From
<1>5. \A x \in ToSet(net') : x \in ToSet(net) BY <1>4 DEF ToSet
<1>6. ASSUME NEW i \in DOMAIN net, i # k PROVE net[i] \in ToSet(net')
  <2>1. CASE i < k
    <3>1. i \in DOMAIN net' /\ net'[i] = net[i] BY <1>1, <1>2, <1>3, <2>1
    <3> QED BY <3>1 DEF ToSet
  <2>2. CASE i > k
    <3>1. i - 1 \in DOMAIN net' /\ ~(i - 1 < k) /\ (i - 1) + 1 = i BY <1>1, <1>3, <2>2
    <3>2. net'[i - 1] = net[i] BY <1>2, <1>3, <3>1
    <3> QED BY <3>1, <3>2 DEF ToSet
  <2> QED BY <1>1, <1>6, <2>1, <2>2
<1>7. net[k] \in Items BY <1>1
<1> QED BY <1>2, <1>4, <1>5, <1>6, <1>7 DEF ToSet

\* A packet that leaves is the last one.
LEMMA PutIn ==
  ASSUME NetOK, NEW p \in Items, net' = Append(net, p)
  PROVE  /\ net' \in Seq(Items) /\ Len(net') = Len(net) + 1
         /\ net'[Len(net) + 1] = p
         /\ DOMAIN net' = 1 .. Len(net) + 1 /\ DOMAIN net = 1 .. Len(net) /\ Len(net) \in Nat
         /\ \A i \in DOMAIN net : net'[i] = net[i]
         /\ ToSet(net') = ToSet(net) \cup {p}
<1>1. net \in Seq(Items) /\ Len(net) \in Nat /\ DOMAIN net = 1 .. Len(net) BY DEF NetOK
<1>2. /\ net' \in Seq(Items) /\ Len(net') = Len(net) + 1 /\ net'[Len(net) + 1] = p
      /\ \A i \in 1 .. Len(net) : net'[i] = net[i]
  BY <1>1, AppendProperties
<1>3. DOMAIN net' = 1 .. Len(net) + 1 BY <1>1, <1>2
<1>4. \A i \in 1 .. Len(net) + 1 : i \in 1 .. Len(net) \/ i = Len(net) + 1 BY <1>1
<1>5. \A x \in ToSet(net') : x \in ToSet(net) \cup {p}
  BY <1>1, <1>2, <1>3, <1>4 DEF ToSet
<1>6. \A x \in ToSet(net) \cup {p} : x \in ToSet(net')
  BY <1>1, <1>2, <1>3 DEF ToSet
<1> QED BY <1>1, <1>2, <1>3, <1>5, <1>6

--------------------------------------------------------------------------------
(* Types                                                                    *)

\* The sessions of the starts, and none.
LEMMA SessionsAre ==
  /\ NoSession \notin Sessions
  /\ \A s \in Sessions : s[1] \in 1 .. MaxBoots /\ s[2] \in Streams
  /\ \A b \in 1 .. MaxBoots, s \in Streams :
       <<b, s>> \in Sessions /\ <<b, s>>[1] = b /\ <<b, s>>[2] = s
BY SocketTestAssumption DEF Sessions, NoSession

\* The types, at the start: nothing is begun, sent or received.
LEMMA TypeInit == Init => TypeInv
<1> SUFFICES ASSUME Init PROVE TypeInv OBVIOUS
<1>1. MaxBoots \in Nat \ {0} /\ MaxPackets \in Nat \ {0} /\ NetRoom \in Nat \ {0}
  BY SocketTestAssumption
<1>2. Blank \in Texts BY <1>1 DEF Blank, Texts
<1>3. NodeOK BY <1>1, <1>2 DEF Init, NodeOK
<1>4. NetOK
  <2>1. <<>> \in Seq(Items) /\ Len(<<>>) = 0 OBVIOUS
  <2>2. {} \in SUBSET Items /\ IsFiniteSet({}) BY FS_EmptySet
  <2> QED BY <1>1, <2>1, <2>2 DEF Init, NetOK
<1>5. StatsOK
  <2>1. stats = [session |-> NoSession, last |-> 0, received |-> 0, lost |-> 0]
    BY DEF Init, NoStats
  <2>2. crashed \in BOOLEAN /\ disturbed \in BOOLEAN /\ first = 0 BY DEF Init
  <2> QED BY <1>1, <2>1, <2>2 DEF StatsOK
<1>6. TextOK
  <2>1. \A s \in Streams : pc[s] = "init" BY DEF Init
  <2>2. build \subseteq Streams /\ "rnb" \in Streams
    BY <1>3 DEF NodeOK, Builds, TestThreads, Streams
  <2> QED BY <2>1, <2>2 DEF TextOK
<1> QED BY <1>3, <1>4, <1>5, <1>6 DEF TypeInv

\* A sender that sends has a packet.
LEMMA SenderHasPacket ==
  ASSUME TypeInv, NEW s \in build, pc[s] = "send"
  PROVE  Copied(s) \in Items /\ Mine(Copied(s)) /\ s \in Streams
<1>1. Mine(Copied(s)) BY DEF TypeInv, TextOK, Copied
<1>2. Copied(s) \in Texts BY DEF TypeInv, NodeOK, Copied
<1>3. s \in Streams BY DEF TypeInv, NodeOK, Builds, TestThreads, Streams
<1> QED BY <1>1, <1>2, <1>3 DEF Mine, Items, Texts

\* A failed send changes no count, one of another thread not the net.
LEMMA SendDoes ==
  ASSUME TypeInv, NEW s \in build, Send(s, Copied(s))
  PROVE  /\ pc[s] = "send" /\ Goto(s, "put")
         /\ UNCHANGED <<config, boot, text, payload, scripts, faults>>
         /\ \/ UNCHANGED <<net, packets_sent>>
            \/ /\ packets_sent' = [packets_sent EXCEPT ![s] = @ + 1]
               /\ packets_sent[s] < MaxPackets
               /\ s # stream => UNCHANGED net
               /\ s = stream => net' = Append(net, Copied(s)) /\ Len(net) < NetRoom
<1>1. PICK ok \in BOOLEAN :
        /\ Leave(s, Copied(s), ok)
        /\ packets_sent' = IF ok THEN [packets_sent EXCEPT ![s] = @ + 1] ELSE packets_sent
  BY DEF Send
<1>2. CASE ~ok BY <1>1, <1>2 DEF Leave, Send, At
<1>3. CASE ok
  <2>1. More(s) /\ Len(net) < NetRoom BY <1>1, <1>3 DEF Leave
  <2>2. packets_sent[s] < MaxPackets
    <3>1. packets_sent[s] \in Nat BY SenderHasPacket DEF TypeInv, NodeOK, Send, At
    <3> QED BY <2>1, <3>1, SocketTestAssumption DEF More
  <2> QED BY <1>1, <1>3, <2>1, <2>2 DEF Leave, Send, At
<1> QED BY <1>2, <1>3

\* Who has begun stays so while the node runs.
LEMMA BegunStays ==
  ASSUME TypeInv, NEW s \in build, NEW step, Goto(s, step), step # "init"
  PROVE  /\ s \in Streams /\ pc'[s] = step
         /\ \A t \in Streams : t # s => pc'[t] = pc[t]
         /\ \A t \in Streams : pc[t] # "init" => pc'[t] # "init"
         /\ step \in {"start", "put", "send", "ended"} =>
              pc' \in [Streams -> {"init", "start", "put", "send", "ended"}]
<1>1. s \in Streams BY DEF TypeInv, NodeOK, Builds, TestThreads, Streams
<1>2. pc \in [Streams -> {"init", "start", "put", "send", "ended"}] BY DEF TypeInv, NodeOK
<1> QED BY <1>1, <1>2 DEF Goto

\* The node's variables keep their types,
LEMMA NodeNext == TypeInv /\ [Next]_vars => NodeOK'
<1> SUFFICES ASSUME TypeInv, [Next]_vars PROVE NodeOK' OBVIOUS
<1> USE DEF config, node
<1>1. NodeOK BY DEF TypeInv
<1>2. ASSUME NEW s \in build, Sender(s) PROVE NodeOK'
  <2>1. s \in Streams BY <1>1 DEF NodeOK, Builds, TestThreads, Streams
  <2>2. CASE BeginSession(s)
    <3>1. pc' \in [Streams -> {"init", "start", "put", "send", "ended"}]
      BY <2>2, BegunStays DEF BeginSession
    <3>2. <<boot, s>> \in Sessions BY <1>1, <2>1, SessionsAre DEF NodeOK
    <3>3. text' \in Texts BY <1>1, <2>2, <3>2 DEF BeginSession, NodeOK, Texts
    <3> QED BY <1>1, <2>2, <3>1, <3>3 DEF BeginSession, NodeOK
  <2>3. CASE Proceed(s)
    <3>1. pc' \in [Streams -> {"init", "start", "put", "send", "ended"}]
      BY <2>3, BegunStays DEF Proceed
    <3> QED BY <1>1, <2>3, <3>1 DEF Proceed, NodeOK
  <2>4. CASE Put(s)
    <3>1. pc' \in [Streams -> {"init", "start", "put", "send", "ended"}]
      BY <2>4, BegunStays DEF Put
    <3>2. text' \in Texts BY <1>1, <2>1, <2>4 DEF Put, NodeOK, Texts
    <3>3. payload' \in Texts BY <1>1, <2>4, <3>2 DEF Put, NodeOK
    <3> QED BY <1>1, <2>4, <3>1, <3>2, <3>3 DEF Put, NodeOK
  <2>5. CASE Send(s, Copied(s))
    <3>1. pc' \in [Streams -> {"init", "start", "put", "send", "ended"}]
      BY <2>5, BegunStays, SendDoes
    <3>2. packets_sent' \in [Streams -> 0 .. MaxPackets]
      BY <1>1, <2>1, <2>5, SendDoes, SocketTestAssumption DEF NodeOK
    <3> QED BY <1>1, <2>5, <3>1, <3>2, SendDoes DEF NodeOK
  <2> QED BY <1>2, <2>2, <2>3, <2>4, <2>5 DEF Sender
<1>3. CASE Restart
  <2>1. Blank \in Texts BY SocketTestAssumption DEF Blank, Texts
  <2>2. boot' \in 1 .. MaxBoots BY <1>1, <1>3, SocketTestAssumption DEF Restart, NodeOK
  <2>3. packets_sent' \in [Streams -> 0 .. MaxPackets]
    BY <1>3, SocketTestAssumption DEF Restart
  <2> QED BY <1>1, <1>3, <2>1, <2>2, <2>3 DEF Restart, NodeOK
<1>4. CASE Lose \/ Deliver \/ UNCHANGED vars BY <1>1, <1>4 DEF Lose, Deliver, vars, NodeOK
<1> QED BY <1>2, <1>3, <1>4, Steps

\* the net holds packets,
LEMMA NetNext == TypeInv /\ [Next]_vars => NetOK'
<1> SUFFICES ASSUME TypeInv, [Next]_vars PROVE NetOK' OBVIOUS
<1>1. NetOK BY DEF TypeInv
<1>2. CASE UNCHANGED <<net, dropped>> BY <1>1, <1>2 DEF NetOK
<1>3. ASSUME NEW s \in build, Sender(s) PROVE NetOK'
  <2>1. CASE BeginSession(s) \/ Proceed(s) \/ Put(s)
    BY <1>2, <2>1 DEF BeginSession, Proceed, Put, faults
  <2>2. CASE Send(s, Copied(s))
    <3>1. dropped' = dropped BY <2>2, SendDoes DEF faults
    <3>2. CASE net' = net BY <1>2, <3>1, <3>2
    <3>3. CASE net' # net
      <4>1. net' = Append(net, Copied(s)) /\ Len(net) < NetRoom BY <2>2, <3>3, SendDoes
      <4>2. Copied(s) \in Items BY <2>2, SendDoes, SenderHasPacket
      <4>3. net' \in Seq(Items) /\ Len(net') = Len(net) + 1 /\ Len(net) \in Nat
        BY <1>1, <4>1, <4>2, PutIn
      <4>4. Len(net') <= NetRoom BY <4>1, <4>3, SocketTestAssumption
      <4> QED BY <1>1, <3>1, <4>3, <4>4 DEF NetOK
    <3> QED BY <3>2, <3>3
  <2> QED BY <1>3, <2>1, <2>2 DEF Sender
<1>4. CASE Lose
  <2>1. PICK i \in DOMAIN net : net' = RemoveAt(net, i) /\ dropped' = dropped \cup {net[i]}
    BY <1>4 DEF Lose
  <2>2. net' \in Seq(Items) /\ Len(net') = Len(net) - 1 /\ net[i] \in Items
    BY <1>1, <2>1, TakeOut
  <2>3. dropped' \in SUBSET Items BY <1>1, <2>1, <2>2 DEF NetOK
  <2>4. IsFiniteSet(dropped') BY <1>1, <2>1, FS_AddElement DEF NetOK
  <2>5. Len(net) \in Nat BY <1>1 DEF NetOK
  <2>6. Len(net') <= NetRoom BY <1>1, <2>2, <2>5, SocketTestAssumption DEF NetOK
  <2> QED BY <2>2, <2>3, <2>4, <2>6 DEF NetOK
<1>5. CASE Deliver
  <2>1. PICK i \in DOMAIN net : net' = net \/ net' = RemoveAt(net, i) BY <1>5 DEF Deliver
  <2>2. dropped' = dropped BY <1>5 DEF Deliver
  <2>3. CASE net' = net BY <1>2, <2>2, <2>3
  <2>4. CASE net' = RemoveAt(net, i)
    <3>1. net' \in Seq(Items) /\ Len(net') = Len(net) - 1 BY <1>1, <2>4, TakeOut
    <3>2. Len(net) \in Nat BY <1>1 DEF NetOK
    <3>3. Len(net') <= NetRoom BY <1>1, <3>1, <3>2, SocketTestAssumption DEF NetOK
    <3> QED BY <1>1, <2>2, <3>1, <3>3 DEF NetOK
  <2> QED BY <2>1, <2>3, <2>4
<1>6. CASE Restart \/ UNCHANGED vars BY <1>2, <1>6 DEF Restart, vars, faults
<1> QED BY <1>3, <1>4, <1>5, <1>6, Steps

\* The statistics after packet p.
Told(p) ==
  /\ stats'.session = p.session /\ stats'.last = p.number
  /\ stats.session = p.session =>
       /\ stats'.received = stats.received + 1 /\ first' = first
       /\ stats'.lost = stats.lost + p.number - stats.last - 1
  /\ stats.session # p.session =>
       stats'.received = 1 /\ stats'.lost = 0 /\ first' = p.number
  /\ stats' \in [session : Sessions, last : 0 .. MaxPackets, received : Nat, lost : Int]

\* A delivery tells the statistics of one packet; the first one under way and nothing
\* else, while the network is not disturbed.
LEMMA DeliverDoes ==
  ASSUME TypeInv, Deliver
  PROVE  \E i \in DOMAIN net :
           /\ net[i] \in Items /\ Told(net[i])
           /\ ~crashed /\ crashed' = (stats'.lost + stats'.received = 0)
           /\ disturbed' \in BOOLEAN /\ (disturbed => disturbed')
           /\ net' = net \/ net' = RemoveAt(net, i)
           /\ ~disturbed' => i = 1 /\ net' = RemoveAt(net, i)
<1>1. PICK i \in DOMAIN net, doubled \in BOOLEAN :
        /\ Receive(net[i])
        /\ net' = IF doubled THEN net ELSE RemoveAt(net, i)
        /\ disturbed' = (disturbed \/ doubled \/ i > 1)
  BY DEF Deliver
<1> DEFINE p == net[i]
<1>2. p \in Items /\ i \in Nat \ {0} BY DEF TypeInv, NetOK
<1> HIDE DEF p
<1>3. ~crashed /\ crashed' = (stats'.lost + stats'.received = 0)
  BY <1>1 DEF Receive, p
<1>4. stats \in [session : Sessions \cup {NoSession}, last : 0 .. MaxPackets,
                  received : Nat, lost : Int]
  BY DEF TypeInv, StatsOK
<1>5. p.session \in Sessions /\ p.number \in 0 .. MaxPackets BY <1>2 DEF Items
<1>6. /\ disturbed' \in BOOLEAN /\ (disturbed => disturbed')
      /\ net' = net \/ net' = RemoveAt(net, i)
      /\ ~disturbed' => i = 1 /\ net' = RemoveAt(net, i)
  <2>1. disturbed \in BOOLEAN BY DEF TypeInv, StatsOK
  <2>2. i > 1 \/ i = 1 BY <1>2
  <2> QED BY <1>1, <2>1, <2>2
<1>7. Told(p)
  <2>1. CASE stats.session = p.session
    <3>1. stats' = Account(stats, p) /\ first' = first BY <1>1, <2>1 DEF Receive, p
    <3>2. stats' = [session |-> p.session, last |-> p.number, received |-> stats.received + 1,
                    lost |-> stats.lost + p.number - stats.last - 1]
      BY <1>4, <2>1, <3>1 DEF Account
    <3>3. stats' \in [session : Sessions, last : 0 .. MaxPackets, received : Nat, lost : Int]
      BY <1>4, <1>5, <3>2, SocketTestAssumption
    <3> QED BY <1>5, <2>1, <3>1, <3>2, <3>3 DEF Told
  <2>2. CASE stats.session # p.session
    <3>1. stats' = Anew(p) /\ first' = p.number BY <1>1, <2>2 DEF Receive, p
    <3>2. stats' \in [session : Sessions, last : 0 .. MaxPackets, received : Nat, lost : Int]
      BY <1>5, <3>1 DEF Anew
    <3> QED BY <2>2, <3>1, <3>2 DEF Told, Anew
  <2> QED BY <2>1, <2>2
<1> QED BY <1>1, <1>2, <1>3, <1>6, <1>7 DEF p

\* the statistics keep theirs,
LEMMA StatsNext == TypeInv /\ [Next]_vars => StatsOK'
<1> SUFFICES ASSUME TypeInv, [Next]_vars PROVE StatsOK' OBVIOUS
<1>1. StatsOK BY DEF TypeInv
<1>2. CASE UNCHANGED <<scripts, disturbed>> BY <1>1, <1>2 DEF StatsOK, scripts
<1>3. ASSUME NEW s \in build, Sender(s) PROVE StatsOK'
  <2>1. CASE BeginSession(s) \/ Proceed(s) \/ Put(s)
    BY <1>2, <2>1 DEF BeginSession, Proceed, Put, faults
  <2>2. CASE Send(s, Copied(s)) BY <1>2, <2>2, SendDoes DEF faults
  <2> QED BY <1>3, <2>1, <2>2 DEF Sender
<1>4. CASE Restart \/ Lose \/ UNCHANGED vars BY <1>2, <1>4 DEF Restart, Lose, vars, faults
<1>5. CASE Deliver
  <2>1. PICK i \in DOMAIN net :
          /\ net[i] \in Items /\ crashed' = (stats'.lost + stats'.received = 0)
          /\ Told(net[i]) /\ disturbed' \in BOOLEAN
    BY <1>5, DeliverDoes
  <2>2. crashed' \in BOOLEAN BY <2>1
  <2>3. first' \in 0 .. MaxPackets BY <1>1, <2>1 DEF StatsOK, Items, Told
  <2> QED BY <2>1, <2>2, <2>3 DEF StatsOK, Told
<1> QED BY <1>3, <1>4, <1>5, Steps

\* and who sends has a session.
LEMMA TextNext == TypeInv /\ [Next]_vars => TextOK'
<1> SUFFICES ASSUME TypeInv, [Next]_vars PROVE TextOK' OBVIOUS
<1>1. TextOK /\ NodeOK BY DEF TypeInv
<1>2. CASE UNCHANGED <<config, node>> BY <1>1, <1>2 DEF TextOK, Mine, config, node
<1>3. build \subseteq Streams /\ "rnb" \in Streams
  BY <1>1 DEF NodeOK, Builds, TestThreads, Streams
<1>4. ASSUME NEW s \in build, Sender(s) PROVE TextOK'
  <2>1. CASE BeginSession(s)
    <3>1. /\ text'.session = <<boot, s>> /\ boot' = boot /\ payload' = payload
          /\ build' = build /\ Goto(s, "start")
      BY <1>1, <2>1 DEF BeginSession, NodeOK, Texts, config
    <3>2. /\ pc'[s] = "start" /\ \A t \in Streams : pc[t] # "init" => pc'[t] # "init"
          /\ "rnb" # s => pc'["rnb"] = pc["rnb"]
      BY <1>3, <3>1, BegunStays
    <3>3. <<boot, s>> \in Sessions /\ <<boot, s>>[1] = boot /\ <<boot, s>>[2] = s
      BY <1>1, <1>3, SessionsAre DEF NodeOK
    <3>4. Mine(text)' BY <3>1, <3>2, <3>3 DEF Mine
    <3>5. pc'["rnb"] = "send" => Mine(payload)'
      BY <1>1, <3>1, <3>2, SessionsAre DEF TextOK, Mine
    <3> QED BY <3>4, <3>5 DEF TextOK
  <2>2. CASE ~BeginSession(s)
    <3>1. /\ UNCHANGED config /\ boot' = boot /\ text'.session = text.session
          /\ pc[s] # "init" /\ \E step \in {"put", "send", "ended"} : Goto(s, step)
          /\ Put(s) \/ UNCHANGED payload
      BY <1>1, <1>4, <2>2, SendDoes DEF Sender, Put, Proceed, NodeOK, Texts
    <3>2. \A t \in Streams : pc[t] # "init" => pc'[t] # "init"
      BY <3>1, BegunStays
    <3>3. Mine(text)' BY <1>1, <3>1, <3>2, SessionsAre DEF TextOK, Mine
    <3>4. ASSUME pc'["rnb"] = "send" PROVE Mine(payload)'
      <4>1. CASE Put(s)
        <5>1. CASE s = "rnb" BY <3>3, <4>1, <5>1 DEF Put, Mine
        <5>2. CASE s # "rnb"
          <6>1. pc["rnb"] = "send" /\ payload' = payload
            BY <1>3, <3>4, <4>1, <5>2, BegunStays DEF Put
          <6> QED BY <1>1, <3>1, <3>2, <6>1, SessionsAre DEF TextOK, Mine
        <5> QED BY <5>1, <5>2
      <4>2. CASE ~Put(s)
        <5>1. payload' = payload /\ pc["rnb"] = "send"
          BY <1>3, <1>4, <2>2, <3>1, <3>4, <4>2, BegunStays, SendDoes DEF Sender, Proceed
        <5> QED BY <1>1, <3>1, <3>2, <5>1, SessionsAre DEF TextOK, Mine
      <4> QED BY <4>1, <4>2
    <3> QED BY <3>3, <3>4 DEF TextOK
  <2> QED BY <2>1, <2>2
<1>5. CASE Restart
  <2>1. \A t \in Streams : pc'[t] = "init" BY <1>5 DEF Restart
  <2>2. build' = build BY <1>5 DEF Restart, config
  <2> QED BY <1>3, <2>1, <2>2 DEF TextOK
<1>6. CASE Lose \/ Deliver \/ UNCHANGED vars BY <1>2, <1>6 DEF Lose, Deliver, vars
<1> QED BY <1>4, <1>5, <1>6, Steps

\* The types, together.
LEMMA TypeNext == TypeInv /\ [Next]_vars => TypeInv'
BY NodeNext, NetNext, StatsNext, TextNext DEF TypeInv

--------------------------------------------------------------------------------
(* What is in view: the packets under way and the one received last.          *)

Begun == stats.received # 0
LastOne == Numbered(stats.session, stats.last)
Seen == ToSet(net) \cup (IF Begun THEN {LastOne} ELSE {})

\* The statistics' counters add up to the distance of their numbers.
SumInv ==
  /\ ~Begun => stats.session = NoSession
  /\ Begun => /\ stats.session \in Sessions
              /\ stats.received + stats.lost = stats.last - first + 1

\* What is to be sent has the number of those sent.
NumberFits == ~Shared /\ pc[stream] = "send" => Copied(stream).number = packets_sent[stream]

\* Whoever was sent is of an earlier start, or has an earlier number.
Earlier(p) ==
  /\ p.session[1] <= boot
  /\ p.session[1] = boot =>
       pc[p.session[2]] # "init" /\ (~Shared => p.number < packets_sent[stream])
SentBefore == \A p \in Seen \cup dropped : Earlier(p)

\* The counters still add up: a packet of the session shown adds one and its gap, one
\* of another session begins anew (script/socket_test.py:31-40).
LEMMA SumNext == TypeInv /\ SumInv /\ [Next]_vars => SumInv'
<1> SUFFICES ASSUME TypeInv, SumInv, [Next]_vars PROVE SumInv' OBVIOUS
<1>1. CASE UNCHANGED scripts BY <1>1 DEF SumInv, Begun, scripts
<1>2. ASSUME NEW s \in build, Sender(s) PROVE SumInv'
  <2>1. CASE BeginSession(s) \/ Proceed(s) \/ Put(s)
    BY <1>1, <2>1 DEF BeginSession, Proceed, Put
  <2>2. CASE Send(s, Copied(s)) BY <1>1, <2>2, SendDoes
  <2> QED BY <1>2, <2>1, <2>2 DEF Sender
<1>3. CASE Restart \/ Lose \/ UNCHANGED vars BY <1>1, <1>3 DEF Restart, Lose, vars
<1>4. CASE Deliver
  <2>1. PICK p \in Items : Told(p) BY <1>4, DeliverDoes
  <2>2. p.session \in Sessions /\ p.number \in Int BY <2>1, SocketTestAssumption DEF Items
  <2>3. stats.received \in Nat /\ stats.lost \in Int /\ stats.last \in Int /\ first \in Int
    BY SocketTestAssumption DEF TypeInv, StatsOK
  <2>4. CASE stats.session = p.session
    <3>1. Begun BY <2>2, <2>4, SessionsAre DEF SumInv
    <3> QED BY <2>1, <2>2, <2>3, <2>4, <3>1 DEF SumInv, Begun, Told
  <2>5. CASE stats.session # p.session BY <2>1, <2>2, <2>5 DEF SumInv, Begun, Told
  <2> QED BY <2>4, <2>5
<1> QED BY <1>2, <1>3, <1>4, Steps

\* Packets in view are packets.
LEMMA SeenItems ==
  ASSUME TypeInv, SumInv
  PROVE  /\ Seen \subseteq Items /\ dropped \subseteq Items
         /\ \A i \in DOMAIN net : net[i] \in Seen
<1>1. \A i \in DOMAIN net : net[i] \in Items /\ net[i] \in ToSet(net)
  BY DEF TypeInv, NetOK, ToSet
<1>2. ToSet(net) \subseteq Items BY <1>1 DEF ToSet
<1>3. Begun => LastOne \in Items
  BY DEF TypeInv, StatsOK, SumInv, LastOne, Numbered, Items
<1> QED BY <1>1, <1>2, <1>3 DEF Seen, TypeInv, NetOK

\* What comes into view is what the followed sender sends.
LEMMA SeenBySender ==
  ASSUME TypeInv, NEW s \in build, Sender(s)
  PROVE  /\ UNCHANGED <<config, boot, stats, first, crashed, dropped, disturbed>>
         /\ \/ /\ UNCHANGED net /\ Seen' = Seen
               /\ packets_sent'[stream] = packets_sent[stream]
            \/ /\ s = stream /\ Send(s, Copied(s))
               /\ Copied(s) \in Items /\ Mine(Copied(s))
               /\ net' = Append(net, Copied(s))
               /\ ToSet(net') = ToSet(net) \cup {Copied(s)}
               /\ Seen' = Seen \cup {Copied(s)}
               /\ packets_sent' = [packets_sent EXCEPT ![s] = @ + 1]
<1>1. UNCHANGED <<config, boot, stats, first, crashed, dropped, disturbed>>
  BY SendDoes DEF Sender, BeginSession, Proceed, Put, scripts, faults
<1>2. CASE net' = net
  <2>1. Seen' = Seen BY <1>1, <1>2 DEF Seen, Begun, LastOne
  <2>2. CASE packets_sent' = packets_sent BY <1>1, <1>2, <2>1, <2>2
  <2>3. CASE packets_sent' # packets_sent
    <3>1. Send(s, Copied(s)) BY <2>3 DEF Sender, BeginSession, Proceed, Put
    <3>2. /\ pc[s] = "send" /\ packets_sent' = [packets_sent EXCEPT ![s] = @ + 1]
          /\ s = stream => net' = Append(net, Copied(s))
      BY <2>3, <3>1, SendDoes
    <3>3. s # stream
      <4> SUFFICES ASSUME s = stream PROVE FALSE OBVIOUS
      <4>1. Len(net') = Len(net) + 1 /\ Len(net) \in Nat
        BY <3>2, SenderHasPacket, PutIn DEF TypeInv
      <4> QED BY <1>2, <4>1
    <3>4. packets_sent'[stream] = packets_sent[stream] BY <3>2, <3>3 DEF TypeInv, NodeOK
    <3> QED BY <1>1, <1>2, <2>1, <3>4
  <2> QED BY <2>2, <2>3
<1>3. CASE net' # net
  <2>1. Send(s, Copied(s)) BY <1>3 DEF Sender, BeginSession, Proceed, Put
  <2>2. /\ s = stream /\ net' = Append(net, Copied(s)) /\ pc[s] = "send"
        /\ packets_sent' = [packets_sent EXCEPT ![s] = @ + 1]
    BY <1>3, <2>1, SendDoes
  <2>3. Copied(s) \in Items /\ Mine(Copied(s)) BY <2>2, SenderHasPacket
  <2>4. ToSet(net') = ToSet(net) \cup {Copied(s)} BY <2>2, <2>3, PutIn DEF TypeInv
  <2>5. Seen' = Seen \cup {Copied(s)} BY <1>1, <2>4 DEF Seen, Begun, LastOne
  <2> QED BY <1>1, <2>1, <2>2, <2>3, <2>4, <2>5
<1> QED BY <1>1, <1>2, <1>3

\* The packet received last was under way.
LEMMA SeenByScript ==
  ASSUME TypeInv, Deliver
  PROVE  \E i \in DOMAIN net :
           /\ net[i] \in Items /\ Told(net[i]) /\ Begun' /\ LastOne' = net[i]
           /\ net' = net \/ net' = RemoveAt(net, i)
           /\ Seen' \subseteq Seen /\ Seen' = ToSet(net') \cup {net[i]}
           /\ disturbed => disturbed'
           /\ ~disturbed' => i = 1 /\ net' = RemoveAt(net, i)
<1>1. PICK i \in DOMAIN net :
        /\ net[i] \in Items /\ Told(net[i])
        /\ disturbed => disturbed'
        /\ net' = net \/ net' = RemoveAt(net, i)
        /\ ~disturbed' => i = 1 /\ net' = RemoveAt(net, i)
  BY DeliverDoes
<1>2. Begun'
  <2>1. stats.received \in Nat BY DEF TypeInv, StatsOK
  <2> QED BY <1>1, <2>1 DEF Told, Begun
<1>3. LastOne' = net[i] BY <1>1 DEF Told, LastOne, Numbered, Items
<1>4. ToSet(net') \subseteq ToSet(net) BY <1>1, TakeOut DEF TypeInv
<1>5. net[i] \in ToSet(net) BY DEF ToSet
<1> QED BY <1>1, <1>2, <1>3, <1>4, <1>5 DEF Seen

\* A packet the network loses was under way.
LEMMA SeenByNetwork ==
  ASSUME TypeInv, Lose
  PROVE  \E i \in DOMAIN net :
           /\ net' = RemoveAt(net, i) /\ dropped' = dropped \cup {net[i]}
           /\ net[i] \in Items
           /\ Seen' \subseteq Seen
           /\ ToSet(net') \cup dropped' = ToSet(net) \cup dropped
<1>1. PICK i \in DOMAIN net : net' = RemoveAt(net, i) /\ dropped' = dropped \cup {net[i]}
  BY DEF Lose
<1>2. /\ ToSet(net') \subseteq ToSet(net) /\ net[i] \in Items
      /\ ToSet(net) = ToSet(net') \cup {net[i]}
  BY <1>1, TakeOut DEF TypeInv
<1>3. stats' = stats BY DEF Lose, scripts
<1> QED BY <1>1, <1>2, <1>3 DEF Seen, Begun, LastOne

\* What a thread other than the followed one writes is not what the followed one sends.
LEMMA OtherThread ==
  ASSUME TypeInv, ~Shared, NEW s \in build, s # stream
  PROVE  s = "udp" /\ stream = "rnb"
<1>1. build \in Builds /\ stream \in build BY DEF TypeInv, NodeOK
<1>2. CASE build = {"acc"} BY <1>1, <1>2
<1>3. CASE build \subseteq {"udp", "rnb"}
  <2>1. ~(stream = "udp" /\ s = "rnb")
    <3> SUFFICES ASSUME stream = "udp", s = "rnb" PROVE FALSE OBVIOUS
    <3>1. build = {"udp", "rnb"} BY <1>1, <1>3
    <3> QED BY <3>1 DEF Shared, TestThreads
  <2> QED BY <1>1, <1>3, <2>1
<1> QED BY <1>1, <1>2, <1>3 DEF Builds, TestThreads

\* What is to be sent keeps its number: only its own sender counts and writes, and the
\* UDP thread does not reach into the copy of the other one (socket-test.c:114-155,182-197).
LEMMA NumberNext == TypeInv /\ NumberFits /\ [Next]_vars => NumberFits'
<1> SUFFICES ASSUME TypeInv, NumberFits, [Next]_vars, ~Shared', (pc[stream] = "send")'
             PROVE  (Copied(stream).number = packets_sent[stream])'
  BY DEF NumberFits
<1>1. UNCHANGED config
  BY Steps, SeenBySender DEF Restart, Lose, Deliver, vars, config
<1>2. build' = build /\ stream' = stream /\ ~Shared BY <1>1 DEF config, Shared
<1>3. stream \in build /\ stream \in Streams /\ NodeOK
  BY DEF TypeInv, NodeOK, Builds, TestThreads, Streams
<1>4. CASE UNCHANGED node BY <1>2, <1>4 DEF NumberFits, node, Copied
<1>5. ASSUME NEW s \in build, Sender(s)
      PROVE  (Copied(stream).number = packets_sent[stream])'
  <2>1. CASE BeginSession(s)
    <3>1. pc[stream] = "send" /\ packets_sent' = packets_sent /\ payload' = payload
      BY <1>2, <1>3, <2>1, BegunStays DEF BeginSession
    <3>2. text'.number = text.number BY <1>3, <2>1 DEF BeginSession, NodeOK, Texts
    <3> QED BY <1>2, <3>1, <3>2 DEF NumberFits, Copied
  <2>2. CASE Proceed(s)
    <3>1. pc[stream] = "send" /\ UNCHANGED <<packets_sent, text, payload>>
      BY <1>2, <1>3, <2>2, BegunStays DEF Proceed
    <3> QED BY <1>2, <3>1 DEF NumberFits, Copied
  <2>3. CASE Put(s)
    <3>1. packets_sent' = packets_sent BY <2>3 DEF Put
    <3>2. CASE s = stream
      <4>1. text'.number = packets_sent[s] BY <1>3, <2>3, <3>2 DEF Put, NodeOK, Texts
      <4>2. Copied(stream)' = text' BY <1>2, <2>3, <3>2 DEF Put, Copied
      <4> QED BY <1>2, <3>1, <3>2, <4>1, <4>2
    <3>3. CASE s # stream
      <4>1. s = "udp" /\ stream = "rnb" BY <1>2, <3>3, OtherThread
      <4>2. payload' = payload /\ pc[stream] = "send"
        BY <1>2, <1>3, <2>3, <3>3, <4>1, BegunStays DEF Put
      <4> QED BY <1>2, <3>1, <4>1, <4>2 DEF NumberFits, Copied
    <3> QED BY <3>2, <3>3
  <2>4. CASE Send(s, Copied(s))
    <3>1. Goto(s, "put") /\ UNCHANGED <<text, payload>> BY <2>4, SendDoes
    <3>2. s # stream /\ pc[stream] = "send" BY <1>2, <1>3, <3>1, BegunStays
    <3>3. packets_sent'[stream] = packets_sent[stream]
      BY <1>3, <2>4, <3>2, SendDoes DEF NodeOK
    <3> QED BY <1>2, <3>1, <3>2, <3>3 DEF NumberFits, Copied
  <2> QED BY <1>5, <2>1, <2>2, <2>3, <2>4 DEF Sender
<1>6. CASE Restart
  <2>1. pc'[stream] = "init" BY <1>3, <1>6 DEF Restart
  <2> QED BY <1>2, <2>1
<1>7. CASE Lose \/ Deliver \/ UNCHANGED vars BY <1>4, <1>7 DEF Lose, Deliver, vars, node
<1> QED BY <1>5, <1>6, <1>7, Steps

\* What was sent stays earlier: a packet leaves with the count, which then goes up, and a
\* restart begins sessions of a later start.
LEMMA SentNext == TypeInv /\ SumInv /\ NumberFits /\ SentBefore /\ [Next]_vars => SentBefore'
<1> SUFFICES ASSUME TypeInv, SumInv, NumberFits, SentBefore, [Next]_vars PROVE SentBefore'
  OBVIOUS
<1>1. \A p \in Seen \cup dropped : p.session[2] \in Streams /\ p.number \in Nat
  BY SeenItems, SessionsAre, SocketTestAssumption DEF Items
<1>2. stream \in Streams /\ boot \in Nat /\ \A s \in Streams : packets_sent[s] \in Nat
  BY SocketTestAssumption DEF TypeInv, NodeOK, Builds, TestThreads, Streams
<1>3. ASSUME UNCHANGED <<config, boot, pc, packets_sent>>,
             Seen' \cup dropped' \subseteq Seen \cup dropped
      PROVE  SentBefore'
  BY <1>3 DEF SentBefore, Earlier, config, Shared
<1>4. ASSUME NEW s \in build, Sender(s) PROVE SentBefore'
  <2>1. UNCHANGED <<config, boot, dropped>> BY <1>4, SeenBySender
  <2>2. \A t \in Streams : pc[t] # "init" => pc'[t] # "init"
    BY <1>4, BegunStays, SendDoes DEF Sender, BeginSession, Proceed, Put
  <2>3. packets_sent[stream] <= packets_sent'[stream]
    <3>1. packets_sent' = packets_sent \/ packets_sent' = [packets_sent EXCEPT ![s] = @ + 1]
      BY <1>4, SendDoes DEF Sender, BeginSession, Proceed, Put
    <3>2. s \in Streams BY DEF TypeInv, NodeOK, Builds, TestThreads, Streams
    <3> QED BY <1>2, <3>1, <3>2 DEF TypeInv, NodeOK
  <2>4. packets_sent'[stream] \in Int
    BY <1>2, TypeNext, SocketTestAssumption DEF TypeInv, NodeOK
  <2>5. ASSUME NEW p \in Seen \cup dropped PROVE Earlier(p)'
    BY <1>1, <1>2, <2>1, <2>2, <2>3, <2>4 DEF SentBefore, Earlier, config, Shared
  <2>6. CASE Seen' = Seen BY <2>1, <2>5, <2>6 DEF SentBefore
  <2>7. CASE Seen' # Seen
    <3>1. /\ s = stream /\ Copied(s) \in Items /\ Mine(Copied(s)) /\ pc[s] = "send"
          /\ Seen' = Seen \cup {Copied(s)}
          /\ packets_sent' = [packets_sent EXCEPT ![s] = @ + 1]
      BY <1>4, <2>7, SeenBySender, SendDoes
    <3> DEFINE c == Copied(s)
    <3>2. c.session[1] = boot /\ pc'[c.session[2]] # "init"
      BY <2>2, <3>1, SessionsAre DEF Mine
    <3>3. packets_sent'[stream] = packets_sent[stream] + 1
      BY <1>2, <3>1 DEF TypeInv, NodeOK
    <3>4. ~Shared => c.number < packets_sent'[stream] BY <1>2, <3>1, <3>3 DEF NumberFits
    <3> HIDE DEF c
    <3>5. /\ boot' = boot /\ stream' = stream /\ Shared' = Shared
      BY <2>1 DEF config, Shared
    <3>6. ASSUME NEW p, p = c PROVE Earlier(p)'
      BY <1>2, <3>2, <3>4, <3>5, <3>6 DEF Earlier
    <3> QED BY <2>1, <2>5, <3>1, <3>6 DEF SentBefore, c
  <2> QED BY <2>6, <2>7
<1>5. CASE Restart
  <2>1. Seen' = Seen /\ dropped' = dropped /\ boot' = boot + 1
    BY <1>5 DEF Restart, Seen, Begun, LastOne, scripts, faults
  <2>2. \A p \in Seen \cup dropped : p.session[1] <= boot /\ p.session[1] \in Nat
    BY <1>1, SeenItems, SessionsAre, SocketTestAssumption DEF SentBefore, Earlier, Items
  <2> QED BY <1>2, <2>1, <2>2 DEF SentBefore, Earlier
<1>6. CASE Lose
  <2>1. Seen' \cup dropped' \subseteq Seen \cup dropped BY <1>6, SeenByNetwork DEF Seen
  <2> QED BY <1>3, <1>6, <2>1 DEF Lose, node
<1>7. CASE Deliver
  <2>1. Seen' \cup dropped' \subseteq Seen \cup dropped
    BY <1>7, SeenByScript DEF Deliver
  <2> QED BY <1>3, <1>7, <2>1 DEF Deliver, node
<1>8. CASE UNCHANGED vars
  <2>1. Seen' \cup dropped' \subseteq Seen \cup dropped
    BY <1>8 DEF vars, Seen, Begun, LastOne, scripts, faults
  <2> QED BY <1>3, <1>8, <2>1 DEF vars, node
<1> QED BY <1>4, <1>5, <1>6, <1>7, <1>8, Steps

--------------------------------------------------------------------------------
(* The order of the packets.                                                *)

\* The network passes on what it does not lose, and the text has one writer.
Calm == ~disturbed /\ ~Shared

Before(p, q) ==
  p.session[1] < q.session[1] \/ (p.session[1] = q.session[1] /\ p.number < q.number)

\* The packets under way are in the order they were sent, after the one received
\* last, and none of them is lost.
InOrder == Calm =>
  /\ \A i, j \in DOMAIN net : i < j => Before(net[i], net[j])
  /\ Begun => \A i \in DOMAIN net : Before(LastOne, net[i])
  /\ \A i \in DOMAIN net : net[i] \notin dropped

\* The builds and a disturbance last.
LEMMA CalmBefore ==
  ASSUME TypeInv, [Next]_vars
  PROVE  UNCHANGED config /\ (Calm' => Calm)
<1>1. UNCHANGED config
  BY Steps, SeenBySender DEF Restart, Lose, Deliver, vars, config
<1>2. disturbed => disturbed'
  BY Steps, SeenBySender, DeliverDoes DEF Restart, Lose, vars, faults
<1> QED BY <1>1, <1>2 DEF config, Calm, Shared

\* A packet is not before itself.
LEMMA BeforeDiffers ==
  ASSUME NEW p \in Items, NEW q \in Items, Before(p, q)
  PROVE  p # q /\ ~Before(q, p)
<1>1. /\ p.session[1] \in Int /\ q.session[1] \in Int /\ p.number \in Int /\ q.number \in Int
  BY SessionsAre, SocketTestAssumption DEF Items
<1> QED BY <1>1 DEF Before

\* What is sent comes after what was sent.
LEMMA SentAfter ==
  ASSUME TypeInv, SumInv, NumberFits, SentBefore, ~Shared, pc[stream] = "send",
         Mine(Copied(stream)), Copied(stream) \in Items,
         NEW p \in Seen \cup dropped
  PROVE  Before(p, Copied(stream)) /\ p # Copied(stream)
<1>1. p \in Items BY SeenItems
<1>2. Earlier(p) BY DEF SentBefore
<1>3. Before(p, Copied(stream))
  <2>1. Copied(stream).session[1] = boot /\ Copied(stream).number = packets_sent[stream]
    BY DEF Mine, NumberFits
  <2>2. p.session[1] \in Int /\ boot \in Int
    BY <1>1, SessionsAre, SocketTestAssumption DEF Items, TypeInv, NodeOK
  <2>3. p.session[1] < boot \/ p.session[1] = boot BY <1>2, <2>2 DEF Earlier
  <2> QED BY <1>2, <2>1, <2>3 DEF Earlier, Before
<1> QED BY <1>1, <1>3, BeforeDiffers

\* The order is kept: what is sent comes last, and while it is calm the script gets the
\* first packet under way.
LEMMA OrderNext ==
  TypeInv /\ SumInv /\ NumberFits /\ SentBefore /\ InOrder /\ [Next]_vars => InOrder'
<1> SUFFICES ASSUME TypeInv, SumInv, NumberFits, SentBefore, InOrder, [Next]_vars, Calm'
             PROVE  /\ (\A i, j \in DOMAIN net : i < j => Before(net[i], net[j]))'
                    /\ (Begun => \A i \in DOMAIN net : Before(LastOne, net[i]))'
                    /\ (\A i \in DOMAIN net : net[i] \notin dropped)'
  BY DEF InOrder
<1>1. Calm BY CalmBefore
<1>2. /\ \A i, j \in DOMAIN net : i < j => Before(net[i], net[j])
      /\ Begun => \A i \in DOMAIN net : Before(LastOne, net[i])
      /\ \A i \in DOMAIN net : net[i] \notin dropped
  BY <1>1 DEF InOrder
<1>3. /\ \A i \in DOMAIN net : net[i] \in Items /\ net[i] \in Seen
      /\ DOMAIN net = 1 .. Len(net) /\ Len(net) \in Nat
  BY SeenItems DEF TypeInv, NetOK
<1> DEFINE Goal == /\ (\A i, j \in DOMAIN net : i < j => Before(net[i], net[j]))'
                   /\ (Begun => \A i \in DOMAIN net : Before(LastOne, net[i]))'
                   /\ (\A i \in DOMAIN net : net[i] \notin dropped)'
<1>4. CASE UNCHANGED <<net, stats, dropped>> BY <1>2, <1>4 DEF Begun, LastOne, Before
<1>5. ASSUME NEW s \in build, Sender(s) PROVE Goal
  <2>1. UNCHANGED <<stats, dropped>> BY <1>5, SeenBySender
  <2>2. CASE net' = net BY <1>4, <2>1, <2>2
  <2>3. CASE net' # net
    <3> DEFINE c == Copied(s)
    <3>1. /\ s = stream /\ c \in Items /\ Mine(c) /\ net' = Append(net, c) /\ pc[s] = "send"
      BY <1>5, <2>3, SeenBySender, SendDoes
    <3>2. \A p \in Seen \cup dropped : Before(p, c) /\ p # c
      BY <1>1, <3>1, SentAfter DEF Calm
    <3>3. /\ DOMAIN net' = 1 .. Len(net) + 1 /\ net'[Len(net) + 1] = c
          /\ \A i \in DOMAIN net : net'[i] = net[i]
      BY <3>1, PutIn DEF TypeInv
    <3> HIDE DEF c
    <3>4. \A i \in DOMAIN net' : i \in DOMAIN net \/ i = Len(net) + 1 BY <1>3, <3>3
    <3>5. ASSUME NEW i \in DOMAIN net', NEW j \in DOMAIN net', i < j
          PROVE  Before(net'[i], net'[j])
      <4>1. i \in DOMAIN net BY <1>3, <3>3, <3>5
      <4>2. CASE j \in DOMAIN net BY <1>2, <3>3, <3>5, <4>1, <4>2
      <4>3. CASE j = Len(net) + 1 BY <1>3, <3>2, <3>3, <4>1, <4>3
      <4> QED BY <3>4, <4>2, <4>3
    <3>6. (Begun => \A i \in DOMAIN net : Before(LastOne, net[i]))'
      <4>1. Begun' = Begun /\ LastOne' = LastOne BY <2>1 DEF Begun, LastOne
      <4>2. Begun => LastOne \in Seen BY DEF Seen
      <4>3. ASSUME Begun, NEW i \in DOMAIN net' PROVE Before(LastOne, net'[i])
        BY <1>2, <3>2, <3>3, <3>4, <4>2, <4>3
      <4> QED BY <4>1, <4>3 DEF Before
    <3>7. \A i \in DOMAIN net' : net'[i] \notin dropped BY <1>2, <3>2, <3>3, <3>4
    <3> QED BY <2>1, <3>5, <3>6, <3>7 DEF Before
  <2> QED BY <2>2, <2>3
<1>6. CASE Lose
  <2>1. PICK k \in DOMAIN net : net' = RemoveAt(net, k) /\ dropped' = dropped \cup {net[k]}
    BY <1>6, SeenByNetwork
  <2>2. /\ \A j \in DOMAIN net' : From(k, j) \in DOMAIN net /\ net'[j] = net[From(k, j)]
        /\ DOMAIN net' \subseteq Int
    BY <2>1, TakeOut DEF TypeInv
  <2>3. \A i, j \in DOMAIN net' : i < j => From(k, i) < From(k, j)
    BY <1>3, <2>2 DEF From
  <2>4. \A j \in DOMAIN net' : From(k, j) < k \/ From(k, j) > k BY <1>3, <2>2 DEF From
  <2>5. \A j \in DOMAIN net' : net'[j] # net[k] BY <1>2, <1>3, <2>2, <2>4, BeforeDiffers
  <2>6. stats' = stats BY <1>6 DEF Lose, scripts
  <2>7. (\A i, j \in DOMAIN net : i < j => Before(net[i], net[j]))'
    BY <1>2, <2>2, <2>3 DEF Before
  <2>8. (Begun => \A i \in DOMAIN net : Before(LastOne, net[i]))'
    BY <1>2, <2>2, <2>6 DEF Begun, LastOne, Before
  <2>9. (\A i \in DOMAIN net : net[i] \notin dropped)'
    BY <1>2, <2>1, <2>2, <2>5
  <2> QED BY <2>7, <2>8, <2>9
<1>7. CASE Deliver
  <2>1. PICK k \in DOMAIN net :
          net[k] = LastOne' /\ (~disturbed' => k = 1 /\ net' = RemoveAt(net, k))
    BY <1>7, SeenByScript
  <2>2. k = 1 /\ net' = RemoveAt(net, k) BY <2>1 DEF Calm
  <2>3. /\ \A j \in DOMAIN net' : From(k, j) \in DOMAIN net /\ net'[j] = net[From(k, j)]
        /\ DOMAIN net' \subseteq Nat \ {0}
    BY <2>2, TakeOut DEF TypeInv
  <2>4. \A i, j \in DOMAIN net' : i < j => From(k, i) < From(k, j)
    BY <1>3, <2>3 DEF From
  <2>5. \A j \in DOMAIN net' : k < From(k, j) BY <2>2, <2>3 DEF From
  <2>6. dropped' = dropped BY <1>7 DEF Deliver
  <2>7. (\A i, j \in DOMAIN net : i < j => Before(net[i], net[j]))'
    BY <1>2, <2>3, <2>4 DEF Before
  <2>8. (Begun => \A i \in DOMAIN net : Before(LastOne, net[i]))'
    BY <1>2, <2>1, <2>3, <2>5 DEF Before
  <2>9. (\A i \in DOMAIN net : net[i] \notin dropped)' BY <1>2, <2>3, <2>6
  <2> QED BY <2>7, <2>8, <2>9
<1>8. CASE Restart \/ UNCHANGED vars
  BY <1>4, <1>8 DEF Restart, vars, scripts, faults
<1> QED BY <1>5, <1>6, <1>7, <1>8, Steps

--------------------------------------------------------------------------------
(* No packet vanishes.                                                      *)

\* The packets a to b of a session are under way or lost.
Accounted(s, a, b) == \A n \in a .. b : Numbered(s, n) \in ToSet(net) \cup dropped

\* Between two packets in view of one session, all are under way or lost,
Between == \A p \in Seen, q \in ToSet(net) :
  p.session = q.session => Accounted(p.session, p.number + 1, q.number)

\* and from the last in view up to the one that will be sent.
SentUnder(x) == x = text.session \/ (pc[stream] = "send" /\ x = Copied(stream).session)
Ahead == \A p \in Seen :
  SentUnder(p.session) => Accounted(p.session, p.number + 1, packets_sent[stream] - 1)

\* A session that began after the text was copied has no packet.
CopyIsOlder ==
  pc[stream] = "send" /\ Copied(stream).session # text.session =>
    \A p \in Seen : p.session # text.session

GapInv == Calm => Between /\ Ahead /\ CopyIsOlder

\* The followed sender's copy is of the text as it is now, or it stays.
LEMMA CopyStays ==
  ASSUME TypeInv, ~Shared, NEW s \in build, Sender(s), stream' = stream, pc'[stream] = "send"
  PROVE  \/ Copied(stream)'.session = text'.session
         \/ pc[stream] = "send" /\ Copied(stream)' = Copied(stream)
<1>1. stream \in Streams /\ stream \in build
  BY DEF TypeInv, NodeOK, Builds, TestThreads, Streams
<1>2. CASE s = stream
  <2>1. Put(s)
    BY <1>1, <1>2, BegunStays, SendDoes DEF Sender, BeginSession, Proceed
  <2> QED BY <1>2, <2>1 DEF Put, Copied
<1>3. CASE s # stream
  <2>1. s = "udp" /\ stream = "rnb" BY <1>3, OtherThread
  <2>2. payload' = payload /\ pc[stream] = "send"
    BY <1>1, <1>3, <2>1, BegunStays, SendDoes DEF Sender, BeginSession, Proceed, Put
  <2> QED BY <2>1, <2>2 DEF Copied
<1> QED BY <1>2, <1>3

\* No packet was sent under a session that begins.
LEMMA SessionIsNew ==
  ASSUME TypeInv, SumInv, SentBefore, NEW s \in build, Sender(s),
         NEW p \in Seen, p.session = text'.session
  PROVE  text'.session = text.session
<1>1. CASE BeginSession(s)
  <2>1. text'.session = <<boot, s>> /\ pc[s] = "init"
    BY <1>1 DEF BeginSession, At, TypeInv, NodeOK, Texts
  <2>2. s \in Streams /\ boot \in 1 .. MaxBoots
    BY DEF TypeInv, NodeOK, Builds, TestThreads, Streams
  <2>3. p.session[1] = boot /\ p.session[2] = s BY <2>1, <2>2, SessionsAre
  <2> QED BY <2>1, <2>3 DEF SentBefore, Earlier
<1>2. CASE Proceed(s) BY <1>2 DEF Proceed
<1>3. CASE Put(s) BY <1>3 DEF Put, TypeInv, NodeOK, Texts
<1>4. CASE Send(s, Copied(s)) BY <1>4, SendDoes
<1> QED BY <1>1, <1>2, <1>3, <1>4 DEF Sender

\* A sender that sends nothing.
LEMMA GapByThread ==
  ASSUME TypeInv, SumInv, SentBefore, GapInv, Calm, stream' = stream,
         NEW s \in build, Sender(s), net' = net, Seen' = Seen, dropped' = dropped,
         packets_sent'[stream] = packets_sent[stream]
  PROVE  (Between /\ Ahead /\ CopyIsOlder)'
<1>1. Between /\ Ahead /\ CopyIsOlder BY DEF GapInv
<1>2. Between' BY <1>1 DEF Between, Accounted
<1>3. \A p \in Seen : p.session = text'.session => text'.session = text.session
  BY SessionIsNew
<1>4. pc'[stream] = "send" =>
        \/ Copied(stream)'.session = text'.session
        \/ pc[stream] = "send" /\ Copied(stream)' = Copied(stream)
  BY CopyStays DEF Calm
<1>5. ASSUME NEW p \in Seen, SentUnder(p.session)' PROVE SentUnder(p.session)
  <2>1. CASE p.session = text'.session BY <1>3, <2>1 DEF SentUnder
  <2>2. CASE pc'[stream] = "send" /\ p.session = Copied(stream)'.session
    BY <1>3, <1>4, <2>2 DEF SentUnder
  <2> QED BY <1>5, <2>1, <2>2 DEF SentUnder
<1>6. Ahead' BY <1>1, <1>5 DEF Ahead, Accounted
<1>7. CopyIsOlder'
  <2> SUFFICES ASSUME pc'[stream] = "send", Copied(stream)'.session # text'.session,
                      NEW p \in Seen, p.session = text'.session
               PROVE  FALSE
    BY DEF CopyIsOlder
  <2>1. pc[stream] = "send" /\ Copied(stream)' = Copied(stream) BY <1>4
  <2>2. text'.session = text.session BY <1>3
  <2> QED BY <1>1, <2>1, <2>2 DEF CopyIsOlder
<1> QED BY <1>2, <1>6, <1>7

\* The followed sender sends.
LEMMA GapBySend ==
  ASSUME TypeInv, SumInv, NumberFits, SentBefore, GapInv, Calm, stream' = stream,
         Send(stream, Copied(stream)), dropped' = dropped,
         NEW c \in Items, c = Copied(stream), Mine(c),
         ToSet(net') = ToSet(net) \cup {c}, Seen' = Seen \cup {c},
         packets_sent' = [packets_sent EXCEPT ![stream] = @ + 1]
  PROVE  (Between /\ Ahead /\ CopyIsOlder)'
<1>1. Between /\ Ahead /\ CopyIsOlder BY DEF GapInv
<1>2. stream \in build /\ stream \in Streams
  BY DEF TypeInv, NodeOK, Builds, TestThreads, Streams
<1>3. pc[stream] = "send" /\ pc'[stream] = "put" /\ UNCHANGED <<text, payload>>
  BY <1>2, SendDoes, BegunStays
<1>4. c.number = packets_sent[stream] /\ c = Numbered(c.session, c.number)
  BY <1>3 DEF NumberFits, Calm, Numbered, Items
<1>5. \A p \in Seen : Before(p, c) BY <1>3, SentAfter DEF Calm
<1>6. packets_sent'[stream] = c.number + 1 BY <1>2, <1>4 DEF TypeInv, NodeOK
<1>7. /\ c.number \in Int /\ \A p \in Seen : p.number \in Int /\ p.session \in Sessions
      /\ c.session \in Sessions
  BY SeenItems, SocketTestAssumption DEF Items
<1>8. c \in ToSet(net') /\ ToSet(net) \subseteq ToSet(net') /\ ToSet(net) \subseteq Seen
  BY DEF Seen
<1>9. ASSUME NEW p \in Seen, SentUnder(p.session), p.session = c.session
      PROVE  Accounted(p.session, p.number + 1, c.number)'
  <2>1. \A n \in p.number + 1 .. c.number : n \in p.number + 1 .. c.number - 1 \/ n = c.number
    BY <1>7
  <2> QED BY <1>1, <1>4, <1>8, <1>9, <2>1 DEF Ahead, Accounted
<1>10. Between'
  <2> SUFFICES ASSUME NEW p \in Seen \cup {c}, NEW q \in ToSet(net) \cup {c},
                      p.session = q.session
               PROVE  Accounted(p.session, p.number + 1, q.number)'
    BY DEF Between
  <2>1. CASE p \in Seen /\ q \in ToSet(net) BY <1>1, <1>8, <2>1 DEF Between, Accounted
  <2>2. CASE p \in Seen /\ q = c BY <1>3, <1>9, <2>2 DEF SentUnder
  <2>3. CASE p = c
    <3>1. q.number <= c.number /\ q.number \in Int
      <4>1. CASE q = c BY <1>7, <4>1
      <4>2. CASE q \in ToSet(net)
        <5>1. Before(q, c) /\ q.session = c.session /\ q \in Seen BY <1>5, <1>8, <2>3, <4>2
        <5>2. c.session[1] \in Int BY <1>7, SessionsAre
        <5> QED BY <1>7, <5>1, <5>2 DEF Before
      <4> QED BY <4>1, <4>2
    <3>2. p.number + 1 .. q.number = {} BY <1>7, <2>3, <3>1
    <3> QED BY <3>2 DEF Accounted
  <2> QED BY <2>1, <2>2, <2>3
<1>11. Ahead'
  <2> SUFFICES ASSUME NEW p \in Seen \cup {c}, p.session = text.session
               PROVE  Accounted(p.session, p.number + 1, c.number)'
    BY <1>3, <1>6, <1>7 DEF Ahead, SentUnder
  <2>1. CASE p = c
    <3>1. p.number + 1 .. c.number = {} BY <1>7, <2>1
    <3> QED BY <3>1 DEF Accounted
  <2>2. CASE p \in Seen
    <3>1. p.session = c.session BY <1>1, <1>3, <2>2 DEF CopyIsOlder
    <3> QED BY <1>9, <2>2, <3>1 DEF SentUnder
  <2> QED BY <2>1, <2>2
<1>12. CopyIsOlder' BY <1>3 DEF CopyIsOlder
<1> QED BY <1>10, <1>11, <1>12

\* Nothing vanishes: a packet between two in view is under way or lost, whoever steps.
LEMMA GapNext ==
  TypeInv /\ SumInv /\ NumberFits /\ SentBefore /\ InOrder /\ GapInv /\ [Next]_vars => GapInv'
<1> SUFFICES ASSUME TypeInv, SumInv, NumberFits, SentBefore, InOrder, GapInv, [Next]_vars, Calm'
             PROVE  (Between /\ Ahead /\ CopyIsOlder)'
  BY DEF GapInv
<1>1. Calm /\ stream' = stream BY CalmBefore DEF config
<1>2. Between /\ Ahead /\ CopyIsOlder BY <1>1 DEF GapInv
<1>3. ASSUME NEW s \in build, Sender(s) PROVE (Between /\ Ahead /\ CopyIsOlder)'
  <2>1. dropped' = dropped BY <1>3, SeenBySender
  <2>2. CASE net' = net /\ Seen' = Seen /\ packets_sent'[stream] = packets_sent[stream]
    BY <1>1, <1>3, <2>1, <2>2, GapByThread
  <2>3. CASE ~(net' = net /\ Seen' = Seen /\ packets_sent'[stream] = packets_sent[stream])
    BY <1>1, <1>3, <2>1, <2>3, SeenBySender, GapBySend
  <2> QED BY <2>2, <2>3
<1>4. CASE Lose
  <2>1. /\ ToSet(net') \cup dropped' = ToSet(net) \cup dropped /\ Seen' \subseteq Seen
        /\ ToSet(net') \subseteq ToSet(net)
    BY <1>4, SeenByNetwork, TakeOut DEF TypeInv
  <2>2. UNCHANGED node BY <1>4 DEF Lose
  <2>3. Between' BY <1>2, <2>1 DEF Between, Accounted
  <2>4. Ahead' BY <1>1, <1>2, <2>1, <2>2 DEF Ahead, Accounted, SentUnder, Copied, node
  <2>5. CopyIsOlder' BY <1>1, <1>2, <2>1, <2>2 DEF CopyIsOlder, Copied, node
  <2> QED BY <2>3, <2>4, <2>5
<1>5. CASE Deliver
  <2>1. PICK k \in DOMAIN net :
          /\ net[k] \in Items /\ LastOne' = net[k] /\ Begun'
          /\ Seen' \subseteq Seen /\ Seen' = ToSet(net') \cup {net[k]}
          /\ net' = RemoveAt(net, k)
    BY <1>5, SeenByScript DEF Calm
  <2> DEFINE c == net[k]
  <2>2. UNCHANGED <<node, dropped>> BY <1>5 DEF Deliver
  <2>3. ToSet(net) = ToSet(net') \cup {c} BY <2>1, TakeOut DEF TypeInv
  <2>4. \A p \in ToSet(net') : Before(c, p)
    <3>1. InOrder' BY OrderNext
    <3>2. \A i \in DOMAIN net' : Before(c, net'[i]) BY <2>1, <3>1 DEF InOrder, Before
    <3> QED BY <3>2 DEF ToSet
  <2>5. /\ c.number \in Int /\ c.session[1] \in Int
        /\ \A p \in Seen : p.number \in Int /\ p.session[1] \in Int
    BY <2>1, SeenItems, SessionsAre, SocketTestAssumption DEF Items
  <2> HIDE DEF c
  <2>6. ASSUME NEW p \in Seen', NEW m, Accounted(p.session, p.number + 1, m)
        PROVE  Accounted(p.session, p.number + 1, m)'
    <3> SUFFICES ASSUME NEW n \in p.number + 1 .. m
                 PROVE  Numbered(p.session, n) # c
      BY <2>2, <2>3, <2>6 DEF Accounted
    <3>1. n > p.number /\ n \in Int BY <2>1, <2>5
    <3>2. p = c \/ Before(c, p) BY <2>1, <2>4 DEF c
    <3>3. p \in Seen BY <2>1
    <3> QED BY <2>5, <3>1, <3>2, <3>3 DEF Before, Numbered
  <2>7. Between' BY <1>2, <2>1, <2>3, <2>6 DEF Between
  <2>8. Ahead' BY <1>1, <1>2, <2>1, <2>2, <2>6 DEF Ahead, SentUnder, Copied, node
  <2>9. CopyIsOlder' BY <1>1, <1>2, <2>1, <2>2 DEF CopyIsOlder, Copied, node
  <2> QED BY <2>7, <2>8, <2>9
<1>6. CASE Restart
  <2>1. Seen' = Seen /\ dropped' = dropped /\ net' = net
    BY <1>6 DEF Restart, Seen, Begun, LastOne, scripts, faults
  <2>2. text'.session = NoSession /\ pc'[stream] = "init"
    BY <1>6 DEF Restart, Blank, TypeInv, NodeOK, Builds, TestThreads, Streams
  <2>3. \A p \in Seen : p.session # NoSession BY SeenItems, SessionsAre DEF Items
  <2>4. Between' BY <1>2, <2>1 DEF Between, Accounted
  <2>5. Ahead' BY <1>1, <2>1, <2>2, <2>3 DEF Ahead, SentUnder
  <2>6. CopyIsOlder' BY <1>1, <2>2 DEF CopyIsOlder
  <2> QED BY <2>4, <2>5, <2>6
<1>7. CASE UNCHANGED vars
  <2>1. Seen' = Seen /\ dropped' = dropped /\ net' = net /\ UNCHANGED node
    BY <1>7 DEF vars, Seen, Begun, LastOne, scripts, faults
  <2> QED BY <1>1, <1>2, <2>1
          DEF Between, Ahead, CopyIsOlder, Accounted, SentUnder, Copied, node
<1> QED BY <1>3, <1>4, <1>5, <1>6, <1>7, Steps

--------------------------------------------------------------------------------
(* The count of the lost.                                                   *)

\* The lost packets a to b of a session.
LostOf(s, a, b) == {p \in dropped : p.session = s /\ p.number \in a .. b}

CountInv == Calm =>
  /\ ~crashed /\ first <= stats.last
  /\ stats.lost = Cardinality(LostOf(stats.session, first, stats.last))

\* The packets of a session from a to before b.
Stretch(s, a, b) == {Numbered(s, n) : n \in a .. b - 1}

\* There are as many packets as numbers.
LEMMA StretchCount ==
  ASSUME NEW s, NEW a \in Int, NEW b \in Int, a <= b
  PROVE  IsFiniteSet(Stretch(s, a, b)) /\ Cardinality(Stretch(s, a, b)) = b - a
<1> DEFINE N == a .. b - 1
           P == {Numbered(s, n) : n \in N}
           f == [n \in N |-> Numbered(s, n)]
<1>1. IsFiniteSet(N) /\ Cardinality(N) = b - a
  <2>1. IsFiniteSet(N) /\ Cardinality(N) = IF a > b - 1 THEN 0 ELSE (b - 1) - a + 1
    BY FS_Interval
  <2> QED BY <2>1
<1>2. f \in Bijection(N, P)
  <2>1. ASSUME NEW m \in N, NEW n \in N, f[m] = f[n] PROVE m = n BY <2>1 DEF Numbered
  <2>2. f \in [N -> P] OBVIOUS
  <2>3. \A p \in P : \E n \in N : f[n] = p OBVIOUS
  <2> HIDE DEF f, N, P
  <2>4. f \in Injection(N, P)
    <3>1. DOMAIN f = N BY <2>2
    <3> QED BY <2>1, <2>2, <3>1 DEF Injection, IsInjective
  <2>5. f \in Surjection(N, P) BY <2>2, <2>3 DEF Surjection
  <2> QED BY <2>4, <2>5 DEF Bijection
<1>3. ExistsBijection(N, P) BY <1>2 DEF ExistsBijection
<1>4. P = Stretch(s, a, b) BY DEF Stretch
<1> HIDE DEF N, P
<1> QED BY <1>1, <1>3, <1>4, FS_Bijection

\* The next packet of the session shown: the gap before it was lost.
LEMMA GapIsLost ==
  ASSUME TypeInv, SumInv, InOrder, GapInv, CountInv, Calm, Begun, dropped' = dropped,
         1 \in DOMAIN net, NEW c \in Items, c = net[1], c.session = stats.session
  PROVE  /\ stats.last < c.number
         /\ Cardinality(LostOf(stats.session, first, c.number))
              = stats.lost + c.number - stats.last - 1
<1> DEFINE S == stats.session
           l == stats.last
           Old == LostOf(S, first, l)
           P == {Numbered(S, n) : n \in l + 1 .. c.number - 1}
<1>1. /\ first \in Int /\ l \in Int /\ c.number \in Int /\ first <= l
      /\ stats.lost = Cardinality(Old)
  BY SocketTestAssumption DEF TypeInv, StatsOK, Items, CountInv
<1>2. LastOne \in Seen /\ LastOne.session = S /\ LastOne.number = l
  BY DEF Seen, LastOne, Numbered
<1>3. /\ Before(LastOne, c) /\ c \notin dropped /\ c \in ToSet(net)
      /\ \A x \in ToSet(net) : x = c \/ Before(c, x)
  <2>1. DOMAIN net = 1 .. Len(net) BY DEF TypeInv, NetOK
  <2>2. \A i \in DOMAIN net : i = 1 \/ 1 < i BY <2>1
  <2> QED BY <2>2 DEF InOrder, ToSet
<1>4. c.session[1] \in Int BY SessionsAre, SocketTestAssumption DEF Items
<1>5. l < c.number BY <1>1, <1>2, <1>3, <1>4 DEF Before
<1>6. P \subseteq dropped
  <2> SUFFICES ASSUME NEW n \in l + 1 .. c.number - 1 PROVE Numbered(S, n) \in dropped OBVIOUS
  <2>1. Numbered(S, n) \in ToSet(net) \cup dropped
    <3>1. Accounted(S, l + 1, c.number) BY <1>2, <1>3 DEF GapInv, Between
    <3>2. n \in l + 1 .. c.number BY <1>1
    <3> QED BY <3>1, <3>2 DEF Accounted
  <2>2. Numbered(S, n) # c /\ ~Before(c, Numbered(S, n))
    BY <1>1, <1>4 DEF Numbered, Before
  <2> QED BY <1>3, <2>1, <2>2
<1>7. LostOf(S, first, c.number) = Old \cup P
  <2>1. ASSUME NEW x \in LostOf(S, first, c.number) PROVE x \in Old \cup P
    <3>1. x \in dropped /\ x \in Items /\ x.session = S /\ x.number \in first .. c.number
      BY <2>1 DEF LostOf, TypeInv, NetOK
    <3>2. x = Numbered(S, x.number) /\ c = Numbered(S, c.number) BY <3>1 DEF Items, Numbered
    <3>3. x.number # c.number BY <1>3, <3>1, <3>2
    <3>4. CASE x.number <= l BY <1>1, <3>1, <3>4 DEF LostOf
    <3>5. CASE x.number > l
      <4>1. x.number \in l + 1 .. c.number - 1 BY <1>1, <3>1, <3>3, <3>5
      <4> QED BY <3>2, <4>1
    <3> QED BY <1>1, <3>1, <3>4, <3>5
  <2>2. Old \subseteq LostOf(S, first, c.number) BY <1>1, <1>5 DEF LostOf
  <2>3. P \subseteq LostOf(S, first, c.number)
    <3> SUFFICES ASSUME NEW n \in l + 1 .. c.number - 1
                 PROVE  Numbered(S, n) \in LostOf(S, first, c.number)
      OBVIOUS
    <3>1. n \in first .. c.number BY <1>1
    <3> QED BY <1>6, <3>1 DEF LostOf, Numbered
  <2> QED BY <2>1, <2>2, <2>3
<1>8. Old \cap P = {} BY <1>1 DEF LostOf, Numbered
<1>9. IsFiniteSet(Old)
  <2>1. Old \in SUBSET dropped BY DEF LostOf
  <2> QED BY <2>1, FS_Subset DEF TypeInv, NetOK
<1>10. IsFiniteSet(P) /\ Cardinality(P) = c.number - (l + 1)
  <2>1. l + 1 \in Int /\ l + 1 <= c.number BY <1>1, <1>5
  <2>2. P = Stretch(S, l + 1, c.number) BY DEF Stretch
  <2> HIDE DEF S, l, P
  <2> QED BY <1>1, <2>1, <2>2, StretchCount
<1> HIDE DEF S, l, Old, P
<1>11. Cardinality(Old \cup P) = Cardinality(Old) + Cardinality(P) - Cardinality({})
  BY <1>8, <1>9, <1>10, FS_Union
<1>12. Cardinality(Old) \in Nat /\ Cardinality({}) = 0
  BY <1>9, FS_CardinalityType, FS_EmptySet
<1>13. Cardinality(Old \cup P) = stats.lost + c.number - l - 1
  BY <1>1, <1>10, <1>11, <1>12
<1> QED BY <1>5, <1>7, <1>13 DEF S, l

\* The count is kept: a packet that is lost is later than the last one received, and a
\* packet received adds the gap before it, all of which was lost (GapIsLost).
LEMMA CountNext ==
  TypeInv /\ SumInv /\ InOrder /\ GapInv /\ CountInv /\ [Next]_vars => CountInv'
<1> SUFFICES ASSUME TypeInv, SumInv, InOrder, GapInv, CountInv, [Next]_vars, Calm'
             PROVE  /\ ~crashed' /\ first' <= stats'.last
                    /\ stats'.lost = Cardinality(LostOf(stats.session, first, stats.last)')
  BY DEF CountInv
<1>1. Calm BY CalmBefore
<1>2. CASE UNCHANGED <<stats, first, crashed, dropped>> BY <1>1, <1>2 DEF CountInv, LostOf
<1>3. ASSUME NEW s \in build, Sender(s)
      PROVE  UNCHANGED <<stats, first, crashed, dropped>>
  BY <1>3, SeenBySender
<1>4. CASE Restart \/ UNCHANGED vars BY <1>2, <1>4 DEF Restart, vars, scripts, faults
<1>5. CASE Lose
  <2>1. PICK k \in DOMAIN net : dropped' = dropped \cup {net[k]} /\ net[k] \in Items
    BY <1>5, SeenByNetwork
  <2>2. UNCHANGED <<stats, first, crashed>> BY <1>5 DEF Lose, scripts
  <2>3. ASSUME net[k].session = stats.session PROVE net[k].number \notin first .. stats.last
    <3>1. Begun BY <2>1, <2>3, SessionsAre DEF SumInv, Items
    <3>2. Before(LastOne, net[k]) BY <1>1, <3>1 DEF InOrder
    <3>3. net[k].session[1] \in Int /\ net[k].number \in Int /\ stats.last \in Int
      BY <2>1, SessionsAre, SocketTestAssumption DEF Items, TypeInv, StatsOK
    <3> QED BY <2>3, <3>2, <3>3 DEF Before, LastOne, Numbered, TypeInv, StatsOK
  <2>4. LostOf(stats.session, first, stats.last)' = LostOf(stats.session, first, stats.last)
    BY <2>1, <2>2, <2>3 DEF LostOf
  <2> QED BY <1>1, <2>2, <2>4 DEF CountInv
<1>6. CASE Deliver
  <2>1. PICK k \in DOMAIN net : net[k] \in Items /\ Told(net[k]) /\ Begun' /\ (~disturbed' => k = 1)
    BY <1>6, SeenByScript
  <2>2. PICK c \in Items : c = net[1] /\ 1 \in DOMAIN net /\ Told(c) BY <2>1 DEF Calm
  <2>3. dropped' = dropped /\ crashed' = (stats'.lost + stats'.received = 0)
    BY <1>6, DeliverDoes DEF Deliver
  <2>4. stats'.received + stats'.lost = stats'.last - first' + 1 BY <2>1, SumNext DEF SumInv
  <2>5. /\ first' \in Int /\ stats'.last \in Int /\ stats'.received \in Int /\ stats'.lost \in Int
    BY StatsNext, SocketTestAssumption DEF StatsOK
  <2>6. /\ first' <= stats'.last
        /\ stats'.lost = Cardinality(LostOf(stats.session, first, stats.last)')
    <3>1. c.session \in Sessions /\ c.number \in Int BY SocketTestAssumption DEF Items
    <3>2. CASE stats.session = c.session
      <4>1. Begun BY <3>1, <3>2, SessionsAre DEF SumInv
      <4>2. /\ stats.last < c.number
            /\ Cardinality(LostOf(stats.session, first, c.number))
                 = stats.lost + c.number - stats.last - 1
        BY <1>1, <2>2, <2>3, <3>2, <4>1, GapIsLost
      <4>3. LostOf(stats.session, first, stats.last)' = LostOf(stats.session, first, c.number)
        BY <2>2, <2>3, <3>2 DEF Told, LostOf
      <4>4. first <= stats.last /\ first \in Int /\ stats.last \in Int
        BY <1>1, SocketTestAssumption DEF CountInv, TypeInv, StatsOK
      <4> QED BY <2>2, <3>1, <3>2, <4>2, <4>3, <4>4 DEF Told
    <3>3. CASE stats.session # c.session
      <4>1. stats'.lost = 0 /\ first' = c.number /\ stats'.last = c.number
        BY <2>2, <3>3 DEF Told
      <4>2. c \notin dropped BY <1>1, <2>2 DEF InOrder
      <4>3. LostOf(stats.session, first, stats.last)' = {}
        <5> SUFFICES ASSUME NEW x \in dropped, x.session = c.session,
                            x.number \in c.number .. c.number
                     PROVE  FALSE
          BY <2>2, <2>3, <4>1 DEF LostOf, Told
        <5>1. x \in Items /\ x.number = c.number BY <3>1 DEF TypeInv, NetOK
        <5>2. x = c BY <5>1 DEF Items
        <5> QED BY <4>2, <5>2
      <4> QED BY <3>1, <4>1, <4>3, FS_EmptySet
    <3> QED BY <3>2, <3>3
  <2>7. ~(stats'.lost + stats'.received = 0) BY <2>4, <2>5, <2>6
  <2>8. ~crashed' BY <2>3, <2>7
  <2> QED BY <2>6, <2>8
<1> QED BY <1>2, <1>3, <1>4, <1>5, <1>6, Steps

--------------------------------------------------------------------------------
(* The theorems.                                                            *)

IInv == SumInv /\ NumberFits /\ SentBefore /\ InOrder /\ GapInv /\ CountInv

\* The invariant at the start: nothing is in view.
LEMMA IInit == Init => IInv
<1> SUFFICES ASSUME Init PROVE IInv OBVIOUS
<1>1. /\ stats.received = 0 /\ stats.session = NoSession /\ stats.lost = 0 /\ stats.last = 0
      /\ first = 0 /\ ~crashed /\ dropped = {} /\ net = <<>>
  BY DEF Init, NoStats
<1>2. ToSet(net) = {} /\ Seen = {} BY <1>1 DEF ToSet, Seen, Begun
<1>3. pc[stream] = "init" BY DEF Init, Builds, TestThreads, Streams
<1>4. SumInv BY <1>1 DEF SumInv, Begun
<1>5. NumberFits BY <1>3 DEF NumberFits
<1>6. SentBefore BY <1>1, <1>2 DEF SentBefore
<1>7. InOrder
  <2>1. DOMAIN net = {} BY <1>1
  <2> QED BY <2>1 DEF InOrder
<1>8. GapInv BY <1>2, <1>3 DEF GapInv, Between, Ahead, CopyIsOlder
<1>9. CountInv
  <2>1. LostOf(stats.session, first, stats.last) = {} BY <1>1 DEF LostOf
  <2>2. stats.lost = Cardinality(LostOf(stats.session, first, stats.last))
    BY <1>1, <2>1, FS_EmptySet
  <2>3. ~crashed /\ first <= stats.last BY <1>1
  <2> QED BY <2>2, <2>3 DEF CountInv
<1> QED BY <1>4, <1>5, <1>6, <1>7, <1>8, <1>9 DEF IInv

\* The inductive invariant holds.
LEMMA SocketTestInductive == Spec => [](TypeInv /\ IInv)
<1>1. TypeInv /\ IInv /\ [Next]_vars => IInv'
  BY SumNext, NumberNext, SentNext, OrderNext, GapNext, CountNext DEF IInv
<1> QED BY <1>1, TypeInit, TypeNext, IInit, PTL DEF Spec

\* Type invariant: the numbers of the packets, the text and the statistics stay in range
\* for every number of starts, of packets and every room of the network.
THEOREM SocketTestTypeCorrect == Spec => []TypeOK
<1>1. TypeInv => TypeOK
  <2> SUFFICES ASSUME TypeInv PROVE TypeOK OBVIOUS
  <2>1. \A p \in Items : Packet(p) BY DEF Items, Packet
  <2>2. \A i \in DOMAIN net : Packet(net[i]) BY <2>1 DEF TypeInv, NetOK
  <2>3. \A p \in dropped : Packet(p) BY <2>1 DEF TypeInv, NetOK
  <2>4. text.number \in 0 .. MaxPackets /\ payload.number \in 0 .. MaxPackets
    BY DEF TypeInv, NodeOK, Texts
  <2>5. /\ stats.session \in Sessions \cup {NoSession}
        /\ stats.last \in 0 .. MaxPackets /\ stats.received \in Nat /\ stats.lost \in Int
    BY DEF TypeInv, StatsOK
  <2> QED BY <2>2, <2>3, <2>4, <2>5 DEF TypeInv, NodeOK, NetOK, StatsOK, TypeOK
<1> QED BY <1>1, TypeInit, TypeNext, PTL DEF Spec

\* What the table calls lost is what the network lost of the session shown, between its
\* first and its last packet: sends fail (socket-test.c:128-155), the node restarts and
\* three builds send, but the counter, computed from gaps (script/socket_test.py:35-40),
\* is exact as long as the network keeps the order and one thread writes the text.
THEOREM LossIsCounted == Spec => []LossIsExact
<1>1. TypeInv /\ IInv => LossIsExact
  BY DEF IInv, CountInv, LossIsExact, LostOf, Calm
<1> QED BY <1>1, SocketTestInductive, PTL

\* The divisor of the error rate, received + lost (script/socket_test_rnb.py:22-38), is the
\* distance of the first number to the last plus one, and the script does not divide by
\* zero unless the network disturbed the order or two threads share the text.
THEOREM StatisticsSurvive == Spec => []ReceiverSurvives
<1>1. TypeInv /\ IInv => ReceiverSurvives
  BY DEF IInv, CountInv, SumInv, Begun, ReceiverSurvives, Calm
<1> QED BY <1>1, SocketTestInductive, PTL
================================================================================
