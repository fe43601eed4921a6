------------------------------- MODULE EchoUdp_proofs -------------------------------
(***************************************************************************)
(* Proofs about EchoUdp, for every set of lengths, size of fds and room of a *)
(* socket. The works in the kernel's queue are followed as a set: what the   *)
(* queue's operations do to it is proved first.                             *)
(***************************************************************************)
EXTENDS EchoUdp, SequenceTheorems, TLAPS

(* Queues without doubles.                                                  *)

Distinct(q) == \A i, j \in 1 .. Len(q) : q[i] = q[j] => i = j

\* A queue is empty when no work is in it.
LEMMA EmptyHasNone ==
  ASSUME NEW S, NEW q \in Seq(S)
  PROVE  q = <<>> <=> ToSet(q) = {}
<1>1. CASE q = <<>> BY <1>1 DEF ToSet
<1>2. CASE q # <<>>
  <2>1. 1 \in DOMAIN q BY <1>2
  <2> QED BY <1>2, <2>1 DEF ToSet
<1> QED BY <1>1, <1>2

\* A work that is not queued joins the queue's works; none is queued twice.
LEMMA AppendLast ==
  ASSUME NEW S, NEW q \in Seq(S), NEW e \in S, e \notin ToSet(q), Distinct(q)
  PROVE  /\ Append(q, e) \in Seq(S) /\ Distinct(Append(q, e))
         /\ ToSet(Append(q, e)) = ToSet(q) \cup {e}
<1> DEFINE a == Append(q, e)
<1>1. /\ a \in Seq(S) /\ Len(a) = Len(q) + 1 /\ a[Len(q) + 1] = e
      /\ \A i \in 1 .. Len(q) : a[i] = q[i]
  BY AppendProperties
<1> HIDE DEF a
<1>2. \A i \in 1 .. Len(q) : q[i] \in ToSet(q) BY DEF ToSet
<1>3. DOMAIN a = 1 .. Len(q) + 1 /\ DOMAIN q = 1 .. Len(q) /\ Len(q) \in Nat BY <1>1
<1>4. Distinct(a) BY <1>1, <1>2, <1>3 DEF Distinct
<1>5. ToSet(a) = ToSet(q) \cup {e}
  <2>1. \A i \in 1 .. Len(q) + 1 : i \in 1 .. Len(q) \/ i = Len(q) + 1 BY <1>3
  <2>2. \A x \in ToSet(a) : x \in ToSet(q) \cup {e} BY <1>1, <1>2, <1>3, <2>1 DEF ToSet
  <2>3. \A x \in ToSet(q) : x \in ToSet(a) BY <1>1, <1>3 DEF ToSet
  <2>4. e \in ToSet(a) BY <1>1, <1>3 DEF ToSet
  <2> QED BY <2>2, <2>3, <2>4
<1> QED BY <1>1, <1>4, <1>5 DEF a

\* Taking the first work leaves the others.
LEMMA TailLeaves ==
  ASSUME NEW S, NEW q \in Seq(S), q # <<>>, Distinct(q)
  PROVE  /\ Tail(q) \in Seq(S) /\ Distinct(Tail(q))
         /\ ToSet(Tail(q)) = ToSet(q) \ {Head(q)}
         /\ Head(q) \in ToSet(q) /\ Head(q) \in S
<1> DEFINE t == Tail(q)
<1>1. /\ t \in Seq(S) /\ Len(t) = Len(q) - 1 /\ Len(q) \in Nat /\ Len(q) > 0
      /\ \A i \in 1 .. Len(t) : t[i] = q[i + 1]
      /\ Head(q) = q[1] /\ Head(q) \in S
  BY HeadTailProperties
<1> HIDE DEF t
<1>2. DOMAIN t = 1 .. Len(t) /\ DOMAIN q = 1 .. Len(q) BY <1>1
<1>3. Distinct(t) BY <1>1 DEF Distinct
<1>4. \A x \in ToSet(t) : x \in ToSet(q) /\ x # Head(q)
  <2> SUFFICES ASSUME NEW i \in 1 .. Len(t) PROVE t[i] \in ToSet(q) /\ t[i] # q[1]
    BY <1>1, <1>2 DEF ToSet
  <2>1. i + 1 \in 1 .. Len(q) /\ 1 \in 1 .. Len(q) /\ i + 1 # 1 BY <1>1
  <2> QED BY <1>1, <1>2, <2>1 DEF ToSet, Distinct
<1>5. \A x \in ToSet(q) : x # Head(q) => x \in ToSet(t)
  <2> SUFFICES ASSUME NEW i \in 1 .. Len(q), q[i] # q[1] PROVE q[i] \in ToSet(t)
    BY <1>1, <1>2 DEF ToSet
  <2>1. i - 1 \in 1 .. Len(t) /\ (i - 1) + 1 = i BY <1>1
  <2> QED BY <1>1, <1>2, <2>1 DEF ToSet
<1>6. Head(q) \in ToSet(q) BY <1>1, <1>2 DEF ToSet
<1> QED BY <1>1, <1>3, <1>4, <1>5, <1>6 DEF t

\* Withdrawing a work removes the one place it has.
LEMMA RemoveFirstIs ==
  ASSUME NEW S, NEW q \in Seq(S), NEW e \in ToSet(q), Distinct(q)
  PROVE  \E k \in 1 .. Len(q) : q[k] = e /\ RemoveFirst(q, e) = RemoveAt(q, k)
<1>1. PICK k \in 1 .. Len(q) : q[k] = e BY DEF ToSet
<1>2. {i \in 1 .. Len(q) : q[i] = e} = {k} BY <1>1 DEF Distinct
<1> DEFINE I == {i \in 1 .. Len(q) : q[i] = e}
<1>3. SelectInSeq(q, LAMBDA v : v = e) = IF I # {} THEN Min(I) ELSE 0 BY DEF SelectInSeq
<1>4. Min({k}) = k BY <1>1 DEF Min
<1>5. RemoveFirst(q, e) = RemoveAt(q, SelectInSeq(q, LAMBDA v : v = e)) BY <1>1 DEF RemoveFirst
<1> QED BY <1>1, <1>2, <1>3, <1>4, <1>5

\* The places before a removed one keep their number, the others move up.
LEMMA RemoveAtIs ==
  ASSUME NEW S, NEW q \in Seq(S), NEW k \in 1 .. Len(q)
  PROVE  /\ RemoveAt(q, k) \in Seq(S) /\ Len(RemoveAt(q, k)) = Len(q) - 1
         /\ \A i \in 1 .. Len(q) - 1 : RemoveAt(q, k)[i] = IF i < k THEN q[i] ELSE q[i + 1]
<1> DEFINE s == SubSeq(q, 1, k - 1)
           t == SubSeq(q, k + 1, Len(q))
<1>1. Len(q) \in Nat /\ \A i \in 1 .. Len(q) : q[i] \in S OBVIOUS
<1>2. /\ s \in Seq(S) /\ Len(s) = k - 1 /\ \A i \in 1 .. k - 1 : s[i] = q[i]
  <2>1. \A i \in 1 .. k - 1 : q[i] \in S BY <1>1
  <2>2. /\ s \in Seq(S) /\ Len(s) = IF 1 <= k - 1 THEN (k - 1) - 1 + 1 ELSE 0
        /\ \A i \in 1 .. (k - 1) - 1 + 1 : s[i] = q[1 + i - 1]
    BY <1>1, <2>1, SubSeqProperties
  <2> HIDE DEF s
  <2> QED BY <2>2
<1>3. /\ t \in Seq(S) /\ Len(t) = Len(q) - k /\ \A i \in 1 .. Len(q) - k : t[i] = q[k + i]
  <2>1. \A i \in k + 1 .. Len(q) : q[i] \in S BY <1>1
  <2>2. /\ t \in Seq(S) /\ Len(t) = IF k + 1 <= Len(q) THEN Len(q) - (k + 1) + 1 ELSE 0
        /\ \A i \in 1 .. Len(q) - (k + 1) + 1 : t[i] = q[k + 1 + i - 1]
    BY <1>1, <2>1, SubSeqProperties
  <2> HIDE DEF t
  <2> QED BY <1>1, <2>2
<1>4. RemoveAt(q, k) = s \o t BY DEF RemoveAt
<1> HIDE DEF s, t
<1>5. /\ s \o t \in Seq(S) /\ Len(s \o t) = Len(s) + Len(t)
      /\ \A i \in 1 .. Len(s) + Len(t) : (s \o t)[i] = IF i <= Len(s) THEN s[i] ELSE t[i - Len(s)]
  BY <1>2, <1>3, ConcatProperties
<1>6. ASSUME NEW i \in 1 .. Len(q) - 1 PROVE (s \o t)[i] = IF i < k THEN q[i] ELSE q[i + 1]
  <2>1. i \in 1 .. Len(s) + Len(t) BY <1>1, <1>2, <1>3
  <2>2. CASE i < k BY <1>2, <1>3, <1>5, <2>1, <2>2
  <2>3. CASE i >= k
    <3>1. (s \o t)[i] = t[i - Len(s)] BY <1>2, <1>5, <2>1, <2>3
    <3>2. i - Len(s) \in 1 .. Len(q) - k /\ k + (i - Len(s)) = i + 1 BY <1>1, <1>2, <2>3
    <3>3. t[i - Len(s)] = q[i + 1] BY <1>3, <3>2
    <3> QED BY <2>3, <3>1, <3>3
  <2>4. i < k \/ i >= k BY <1>1
  <2> QED BY <2>2, <2>3, <2>4
<1> QED BY <1>1, <1>2, <1>3, <1>4, <1>5, <1>6

\* Withdrawing a work leaves the others; it may not be queued at all.
LEMMA RemoveFirstTakes ==
  ASSUME NEW S, NEW q \in Seq(S), NEW e, Distinct(q)
  PROVE  /\ RemoveFirst(q, e) \in Seq(S) /\ Distinct(RemoveFirst(q, e))
         /\ ToSet(RemoveFirst(q, e)) = ToSet(q) \ {e}
<1>1. CASE e \notin ToSet(q)
  <2>1. RemoveFirst(q, e) = q BY <1>1 DEF RemoveFirst, ToSet
  <2> QED BY <1>1, <2>1
<1>2. CASE e \in ToSet(q)
  <2>1. PICK k \in 1 .. Len(q) : q[k] = e /\ RemoveFirst(q, e) = RemoveAt(q, k)
    BY <1>2, RemoveFirstIs
  <2> DEFINE r == RemoveAt(q, k)
  <2>2. /\ r \in Seq(S) /\ Len(r) = Len(q) - 1 /\ Len(q) \in Nat
        /\ \A i \in 1 .. Len(q) - 1 : r[i] = IF i < k THEN q[i] ELSE q[i + 1]
    BY RemoveAtIs
  <2> HIDE DEF r
  <2>3. DOMAIN r = 1 .. Len(q) - 1 /\ DOMAIN q = 1 .. Len(q) BY <2>2
  <2>4. Distinct(r)
    <3> SUFFICES ASSUME NEW i \in 1 .. Len(q) - 1, NEW j \in 1 .. Len(q) - 1, r[i] = r[j]
                 PROVE  i = j
      BY <2>2 DEF Distinct
    <3> DEFINE from(n) == IF n < k THEN n ELSE n + 1
    <3>1. /\ from(i) \in 1 .. Len(q) /\ r[i] = q[from(i)]
          /\ from(j) \in 1 .. Len(q) /\ r[j] = q[from(j)]
      BY <2>2
    <3>2. from(i) = from(j) => i = j BY <2>2
    <3> HIDE DEF from
    <3> QED BY <3>1, <3>2 DEF Distinct
  <2>5. \A x \in ToSet(r) : x \in ToSet(q) /\ x # e
    <3> SUFFICES ASSUME NEW i \in 1 .. Len(q) - 1 PROVE r[i] \in ToSet(q) /\ r[i] # q[k]
      BY <2>1, <2>3 DEF ToSet
    <3>1. CASE i < k BY <2>2, <2>3, <3>1 DEF ToSet, Distinct
    <3>2. CASE i >= k
      <4>1. i + 1 \in 1 .. Len(q) /\ i + 1 # k /\ r[i] = q[i + 1] BY <2>2, <3>2
      <4> QED BY <2>2, <2>3, <4>1 DEF ToSet, Distinct
    <3> QED BY <3>1, <3>2
  <2>6. \A x \in ToSet(q) : x # e => x \in ToSet(r)
    <3> SUFFICES ASSUME NEW i \in 1 .. Len(q), q[i] # q[k] PROVE q[i] \in ToSet(r)
      BY <2>1, <2>3 DEF ToSet
    <3>1. CASE i < k
      <4>1. i \in 1 .. Len(q) - 1 /\ r[i] = q[i] BY <2>2, <3>1
      <4> QED BY <2>3, <4>1 DEF ToSet
    <3>2. CASE i >= k
      <4>1. i # k OBVIOUS
      <4>2. i - 1 \in 1 .. Len(q) - 1 /\ ~(i - 1 < k) /\ (i - 1) + 1 = i BY <2>2, <3>2, <4>1
      <4>3. r[i - 1] = q[i] BY <2>2, <4>2
      <4> QED BY <2>3, <4>2, <4>3 DEF ToSet
    <3> QED BY <3>1, <3>2
  <2> QED BY <2>1, <2>2, <2>4, <2>5, <2>6 DEF r
<1> QED BY <1>1, <1>2

--------------------------------------------------------------------------------
(* The invariant.                                                           *)

\* The works that are queued.
Queue == ToSet(wq)

\* Each work is queued once.
QueueOK == wq \in Seq(Works) /\ Distinct(wq)

ConfigOK ==
  /\ tcp \in BOOLEAN /\ manager \in BOOLEAN
  /\ connected \in BOOLEAN /\ run_app \in 0 .. 1

SocketsOK ==
  /\ nfds \in 0 .. FdsSize /\ sock \in {"none", "open", "closed"}
  /\ net \subseteq Lengths /\ rxq \in Seq(Lengths) /\ Len(rxq) <= SocketRoom

Places == {"take", "init", "socket", "first_expect", "first_send", "first_rearm",
           "prepare", "loop", "poll", "recv", "compare", "cancel", "transmit",
           "expect", "send", "rearm", "stop", "cancel2", "close", "undefined"}

ClientOK ==
  /\ expecting \in Lengths \cup {0} /\ got \in Lengths \cup {0}
  /\ timer \subseteq Works
  /\ wpc \in {"idle", "send", "rearm"} /\ ret \in {"ok", "error"}
  /\ cpc \in Places
  /\ answered \in BOOLEAN /\ late \in BOOLEAN

\* Who sends has chosen the length before.
SendsARequest == cpc \in {"first_send", "send"} \/ wpc = "send" => expecting \in Lengths

TypeInv == QueueOK /\ ConfigOK /\ SocketsOK /\ ClientOK /\ SendsARequest

\* Whoever takes the timeout hands on another one before the client looks.
RetryInv ==
  cpc \in {"prepare", "loop", "poll", "recv", "compare"} =>
    timer # {} \/ Queue # {} \/ wpc # "idle"

\* The client stops because the network is gone, or after an error.
StopInv ==
  cpc \in {"stop", "cancel2", "close", "take"} /\ connected /\ run_app = 0 => ret = "error"

\* From its cancellation on a work stays away, but for a late handler.
QuietInv ==
  ~late =>
    /\ cpc \in {"cancel2", "close", "take", "init"} => "recv" \notin timer \cup Queue
    /\ cpc \in {"close", "take", "init"} => "transmit" \notin timer \cup Queue

\* An answered request has no timeout, once the client has cancelled it, and no
\* request is being made.
AnsweredInv ==
  answered =>
    /\ wpc = "idle"
    /\ cpc \notin {"first_send", "first_rearm", "send", "rearm"}
    /\ cpc # "cancel" => "recv" \notin timer \cup Queue

IInv == RetryInv /\ StopInv /\ QuietInv /\ AnsweredInv

--------------------------------------------------------------------------------
(* What the steps do to the queue.                                          *)

\* What does not touch the queue leaves its works.
LEMMA QueueStays ==
  ASSUME TypeInv, UNCHANGED wq
  PROVE  QueueOK' /\ Queue' = Queue
BY DEF TypeInv, QueueOK, Queue

\* A work whose delay has passed moves from the timer to the queue.
LEMMA ExpireQueues ==
  ASSUME TypeInv, Expire
  PROVE  /\ QueueOK'
         /\ \E w \in timer : timer' = timer \ {w} /\ Queue' = Queue \cup {w}
<1>1. PICK w \in timer : /\ timer' = timer \ {w}
                         /\ wq' = IF w \in Queue THEN wq ELSE Append(wq, w)
  BY DEF Expire, Queue
<1>2. wq \in Seq(Works) /\ Distinct(wq) /\ w \in Works BY DEF TypeInv, QueueOK, ClientOK
<1>3. CASE w \in Queue BY <1>1, <1>2, <1>3 DEF QueueOK, Queue
<1>4. CASE w \notin Queue
  <2>1. /\ wq' \in Seq(Works) /\ Distinct(wq') /\ ToSet(wq') = ToSet(wq) \cup {w}
    BY <1>1, <1>2, <1>4, AppendLast DEF Queue
  <2> QED BY <1>1, <2>1 DEF QueueOK, Queue
<1> QED BY <1>3, <1>4

\* The work queue's thread handles a work that was queued.
LEMMA HandleTakes ==
  ASSUME TypeInv, NEW w \in Works, Handle(w)
  PROVE  QueueOK' /\ w \in Queue /\ Queue' = Queue \ {w}
<1>1. wq # <<>> /\ Head(wq) = w /\ wq' = Tail(wq) BY DEF Handle
<1>2. wq \in Seq(Works) /\ Distinct(wq) BY DEF TypeInv, QueueOK
<1> QED BY <1>1, <1>2, TailLeaves DEF QueueOK, Queue

\* k_work_cancel_delayable: the work is neither delayed nor queued afterwards.
LEMMA WithdrawTakes ==
  ASSUME TypeInv, NEW w \in Works, Withdraw(w)
  PROVE  QueueOK' /\ Queue' = Queue \ {w} /\ timer' = timer \ {w}
<1>1. wq' = RemoveFirst(wq, w) /\ timer' = timer \ {w} BY DEF Withdraw
<1>2. wq \in Seq(Works) /\ Distinct(wq) BY DEF TypeInv, QueueOK
<1> QED BY <1>1, <1>2, RemoveFirstTakes DEF QueueOK, Queue

\* Only the client's two works are ever queued.
LEMMA QueueHasWorks ==
  ASSUME TypeInv
  PROVE  /\ Queue \subseteq Works
         /\ wq = <<>> <=> Queue = {}
<1>1. wq \in Seq(Works) BY DEF TypeInv, QueueOK
<1>2. \A i \in DOMAIN wq : wq[i] \in Works BY <1>1
<1> QED BY <1>1, <1>2, EmptyHasNone DEF Queue, ToSet

--------------------------------------------------------------------------------
(* Types.                                                                   *)

\* The types hold at first,
LEMMA TypeInit == Init => TypeInv
<1> SUFFICES ASSUME Init PROVE TypeInv OBVIOUS
<1>1. QueueOK BY DEF Init, QueueOK, Distinct
<1>2. ConfigOK
  <2>1. connected \in BOOLEAN BY DEF Init
  <2>2. run_app \in 0 .. 1 BY DEF Init
  <2> QED BY <2>1, <2>2 DEF Init, ConfigOK
<1>3. SocketsOK BY EchoUdpAssumption DEF Init, SocketsOK
<1>4. ClientOK BY DEF Init, ClientOK, Places
<1>5. SendsARequest BY DEF Init, SendsARequest
<1> QED BY <1>1, <1>2, <1>3, <1>4, <1>5 DEF TypeInv

\* What a datagram does to the socket.
LEMMA ArriveKeeps ==
  ASSUME TypeInv, Arrive
  PROVE  SocketsOK'
<1>1. PICK len \in net : /\ net' \in {net, net \ {len}}
                         /\ rxq' = IF Len(rxq) < SocketRoom THEN Append(rxq, len) ELSE rxq
  BY DEF Arrive
<1>2. /\ rxq \in Seq(Lengths) /\ Len(rxq) <= SocketRoom /\ len \in Lengths
      /\ net \subseteq Lengths
  BY DEF TypeInv, SocketsOK
<1>3. net' \subseteq Lengths BY <1>1, <1>2
<1>4. rxq' \in Seq(Lengths) /\ Len(rxq') <= SocketRoom
  <2>1. CASE Len(rxq) < SocketRoom
    <3>1. rxq' = Append(rxq, len) BY <1>1, <2>1
    <3>2. rxq' \in Seq(Lengths) /\ Len(rxq') = Len(rxq) + 1 BY <1>2, <3>1, AppendProperties
    <3>3. Len(rxq) \in Nat BY <1>2
    <3> QED BY <2>1, <3>2, <3>3, EchoUdpAssumption
  <2>2. CASE ~(Len(rxq) < SocketRoom) BY <1>1, <1>2, <2>2
  <2> QED BY <2>1, <2>2
<1> QED BY <1>3, <1>4 DEF Arrive, TypeInv, SocketsOK

\* What the client takes from its socket.
LEMMA RecvKeeps ==
  ASSUME TypeInv, Recv
  PROVE  SocketsOK' /\ got' \in Lengths
<1>1. rxq \in Seq(Lengths) /\ Len(rxq) <= SocketRoom /\ rxq # <<>> BY DEF TypeInv, SocketsOK, Recv
<1>2. Head(rxq) \in Lengths /\ Tail(rxq) \in Seq(Lengths) /\ Len(Tail(rxq)) = Len(rxq) - 1
  BY <1>1, HeadTailProperties
<1>3. Len(rxq) \in Nat BY <1>1
<1>4. Len(Tail(rxq)) <= SocketRoom BY <1>1, <1>2, <1>3, EchoUdpAssumption
<1> QED BY <1>2, <1>4 DEF Recv, TypeInv, SocketsOK

\* and every step keeps them: no work joins the queue twice,
LEMMA QueueNext == TypeInv /\ [Next]_vars => QueueOK'
<1> SUFFICES ASSUME TypeInv, [Next]_vars PROVE QueueOK' OBVIOUS
<1> USE DEF link, works, sockets, client, hist
<1>1. CASE Connect \/ Disconnect \/ Arrive \/ Lose
  BY <1>1, QueueStays DEF Connect, Disconnect, Arrive, Lose
<1>2. CASE Expire BY <1>2, ExpireQueues
<1>3. CASE wait_reply BY <1>3, HandleTakes DEF wait_reply, Works
<1>4. CASE wait_transmit BY <1>4, HandleTakes DEF wait_transmit, Works
<1>5. CASE HandlerSend \/ HandlerRearm \/ Take \/ InitWorks \/ OpenSocket \/ prepare_fds
  BY <1>5, QueueStays DEF HandlerSend, HandlerRearm, Take, InitWorks, OpenSocket, prepare_fds
<1>6. CASE Loop \/ ClientExpect \/ ClientSend \/ ClientRearm \/ Poll \/ Recv \/ RecvNothing
  BY <1>6, QueueStays
     DEF Loop, ClientExpect, ClientSend, ClientRearm, Poll, Recv, RecvNothing
<1>7. CASE Compare \/ Reschedule \/ Close BY <1>7, QueueStays DEF Compare, Reschedule, Close
<1>8. CASE Cancel BY <1>8, WithdrawTakes DEF Cancel, Works
<1>9. CASE StopRecv BY <1>9, WithdrawTakes DEF StopRecv, Works
<1>10. CASE StopTransmit BY <1>10, WithdrawTakes DEF StopTransmit, Works
<1>11. CASE UNCHANGED vars BY <1>11, QueueStays DEF vars
<1> QED BY <1>1, <1>2, <1>3, <1>4, <1>5, <1>6, <1>7, <1>8, <1>9, <1>10, <1>11 DEF Next

\* the semaphore counts to one,
LEMMA ConfigNext == TypeInv /\ [Next]_vars => ConfigOK'
<1> SUFFICES ASSUME TypeInv, [Next]_vars PROVE ConfigOK' OBVIOUS
<1> USE DEF link, TypeInv, ConfigOK
<1>1. CASE Connect BY <1>1 DEF Connect
<1>2. CASE Disconnect
  <2>1. connected' \in BOOLEAN BY <1>2 DEF Disconnect
  <2>2. run_app' \in 0 .. 1 BY <1>2 DEF Disconnect
  <2> QED BY <1>2, <2>1, <2>2 DEF Disconnect
<1>3. CASE Take BY <1>3 DEF Take
<1>4. CASE UNCHANGED link BY <1>4
<1>5. CASE Arrive \/ Lose \/ Expire \/ wait_reply \/ wait_transmit \/ HandlerSend \/ HandlerRearm
  BY <1>4, <1>5
     DEF Arrive, Lose, Expire, wait_reply, wait_transmit, Handle, HandlerSend, HandlerRearm
<1>6. CASE InitWorks \/ OpenSocket \/ prepare_fds \/ Loop \/ ClientExpect \/ ClientSend
  BY <1>4, <1>6 DEF InitWorks, OpenSocket, prepare_fds, Loop, ClientExpect, ClientSend
<1>7. CASE ClientRearm \/ Poll \/ Recv \/ RecvNothing \/ Compare \/ Cancel \/ Reschedule
  BY <1>4, <1>7 DEF ClientRearm, Poll, Recv, RecvNothing, Compare, Cancel, Reschedule
<1>8. CASE StopRecv \/ StopTransmit \/ Close BY <1>4, <1>8 DEF StopRecv, StopTransmit, Close
<1>9. CASE UNCHANGED vars BY <1>4, <1>9 DEF vars
<1> QED BY <1>1, <1>2, <1>3, <1>5, <1>6, <1>7, <1>8, <1>9 DEF Next

\* fds and the socket keep within their room, what goes out and comes in has a length,
LEMMA SocketsNext == TypeInv /\ [Next]_vars => SocketsOK'
<1> SUFFICES ASSUME TypeInv, [Next]_vars PROVE SocketsOK' OBVIOUS
<1> USE DEF sockets, TypeInv, SocketsOK
<1>1. CASE UNCHANGED sockets BY <1>1
<1>2. CASE Connect \/ Disconnect \/ Expire \/ wait_reply \/ wait_transmit \/ HandlerRearm
  BY <1>1, <1>2 DEF Connect, Disconnect, Expire, wait_reply, wait_transmit, Handle, HandlerRearm
<1>3. CASE Take \/ InitWorks \/ Loop \/ ClientExpect \/ ClientRearm \/ Poll
  BY <1>1, <1>3 DEF Take, InitWorks, Loop, ClientExpect, ClientRearm, Poll
<1>4. CASE RecvNothing \/ Compare \/ Cancel \/ Reschedule \/ StopRecv \/ StopTransmit
  BY <1>1, <1>4 DEF RecvNothing, Compare, Cancel, Reschedule, StopRecv, StopTransmit
<1>5. CASE UNCHANGED vars BY <1>1, <1>5 DEF vars
<1>6. CASE Arrive BY <1>6, ArriveKeeps
<1>7. CASE Recv BY <1>7, RecvKeeps
<1>8. CASE Lose BY <1>8 DEF Lose
<1>9. CASE HandlerSend
  <2>1. expecting \in Lengths BY <1>9 DEF HandlerSend, SendsARequest
  <2> QED BY <1>9, <2>1 DEF HandlerSend, Transmit
<1>10. CASE ClientSend
  <2>1. expecting \in Lengths BY <1>10 DEF ClientSend, SendsARequest
  <2> QED BY <1>10, <2>1 DEF ClientSend, Transmit
<1>11. CASE OpenSocket BY <1>11 DEF OpenSocket
<1>12. CASE prepare_fds BY <1>12, EchoUdpAssumption DEF prepare_fds
<1>13. CASE Close
  <2>1. rxq' \in Seq(Lengths) /\ Len(rxq') <= SocketRoom BY <1>13, EchoUdpAssumption DEF Close
  <2>2. sock' \in {"none", "open", "closed"} BY <1>13 DEF Close
  <2> QED BY <1>13, <2>1, <2>2 DEF Close
<1> QED BY <1>2, <1>3, <1>4, <1>5, <1>6, <1>7, <1>8, <1>9, <1>10, <1>11, <1>12, <1>13 DEF Next

\* and nobody sends before the length is chosen.
LEMMA ClientNext == TypeInv /\ [Next]_vars => ClientOK' /\ SendsARequest'
<1> SUFFICES ASSUME TypeInv, [Next]_vars PROVE ClientOK' /\ SendsARequest' OBVIOUS
<1> USE DEF TypeInv, ClientOK, SendsARequest, Places, Works, At, Goto, works, client, hist
<1>1. CASE UNCHANGED <<works, client, expecting, hist>> BY <1>1
<1>2. CASE Connect \/ Disconnect \/ Arrive \/ Lose
  BY <1>1, <1>2 DEF Connect, Disconnect, Arrive, Lose
<1>3. CASE Expire BY <1>3 DEF Expire
<1>4. CASE wait_reply \/ wait_transmit BY <1>4 DEF wait_reply, wait_transmit, Handle, Expect
<1>5. CASE HandlerSend BY <1>5 DEF HandlerSend
<1>6. CASE HandlerRearm BY <1>6 DEF HandlerRearm
<1>7. CASE Take \/ OpenSocket \/ prepare_fds \/ Loop
  BY <1>7 DEF Take, OpenSocket, prepare_fds, Loop
<1>8. CASE InitWorks BY <1>8 DEF InitWorks
<1>9. CASE ClientExpect BY <1>9 DEF ClientExpect, Expect
<1>10. CASE ClientSend BY <1>10 DEF ClientSend
<1>11. CASE ClientRearm BY <1>11 DEF ClientRearm
<1>12. CASE Poll \/ RecvNothing BY <1>12 DEF Poll, RecvNothing
<1>13. CASE Recv
  <2>1. got' \in Lengths BY <1>13, RecvKeeps
  <2> QED BY <1>13, <2>1 DEF Recv
<1>14. CASE Compare BY <1>14 DEF Compare
<1>15. CASE Cancel \/ StopRecv \/ StopTransmit
  BY <1>15 DEF Cancel, StopRecv, StopTransmit, Withdraw
<1>16. CASE Reschedule \/ Close BY <1>16 DEF Reschedule, Close
<1>17. CASE UNCHANGED vars BY <1>1, <1>17 DEF vars
<1> QED BY <1>2, <1>3, <1>4, <1>5, <1>6, <1>7, <1>8, <1>9, <1>10, <1>11, <1>12, <1>13, <1>14,
           <1>15, <1>16, <1>17 DEF Next

\* The four together.
LEMMA TypeNext == TypeInv /\ [Next]_vars => TypeInv'
BY QueueNext, ConfigNext, SocketsNext, ClientNext DEF TypeInv

\* Every variable has its type: no work is queued twice, fds and the socket keep within
\* their room, and no request is sent before its length is chosen.
THEOREM EchoUdpTypeCorrect == Spec => []TypeOK
<1>1. TypeInv => TypeOK
  <2> SUFFICES ASSUME TypeInv PROVE TypeOK OBVIOUS
  <2>1. Len(wq) <= 2
    <3>1. wq \in Seq(Works) /\ Distinct(wq) BY DEF TypeInv, QueueOK
    <3>2. Len(wq) \in Nat /\ \A i \in 1 .. Len(wq) : wq[i] \in {"recv", "transmit"}
      BY <3>1 DEF Works
    <3>3. ~(Len(wq) > 2)
      <4> SUFFICES ASSUME Len(wq) > 2 PROVE FALSE OBVIOUS
      <4>1. 1 \in 1 .. Len(wq) /\ 2 \in 1 .. Len(wq) /\ 3 \in 1 .. Len(wq) BY <3>2
      <4>2. wq[1] # wq[2] /\ wq[2] # wq[3] /\ wq[1] # wq[3] BY <3>1, <4>1 DEF Distinct
      <4> QED BY <3>2, <4>1, <4>2
    <3> QED BY <3>2, <3>3
  <2> QED BY <2>1 DEF TypeInv, QueueOK, ConfigOK, SocketsOK, ClientOK, Places, TypeOK
<1> QED BY <1>1, TypeInit, TypeNext, PTL DEF Spec

\* The client that looks for a reply has a work ahead, whoever took the last one.
LEMMA RetryNext == TypeInv /\ RetryInv /\ [Next]_vars => RetryInv'
<1> SUFFICES ASSUME TypeInv, RetryInv, [Next]_vars PROVE RetryInv' OBVIOUS
<1> USE DEF At, Goto, link, works, sockets, client, hist
<1>1. timer \subseteq Works /\ ret \in {"ok", "error"} BY DEF TypeInv, ClientOK
<1>2. CASE Expire
  <2>1. PICK w \in timer : timer' = timer \ {w} /\ Queue' = Queue \cup {w}
    BY <1>2, ExpireQueues
  <2> QED BY <1>1, <1>2, <2>1 DEF RetryInv, Expire
<1>3. CASE wait_reply
  <2>1. Queue' = Queue \ {"recv"} BY <1>3, HandleTakes DEF wait_reply, Works
  <2> QED BY <1>1, <1>3, <2>1 DEF RetryInv, wait_reply, Handle, Expect
<1>4. CASE wait_transmit
  <2>1. Queue' = Queue \ {"transmit"} BY <1>4, HandleTakes DEF wait_transmit, Works
  <2> QED BY <1>1, <1>4, <2>1 DEF RetryInv, wait_transmit, Handle, Expect
<1>5. CASE HandlerRearm
  <2>1. Queue' = Queue BY <1>5, QueueStays DEF HandlerRearm
  <2> QED BY <1>1, <1>5, <2>1 DEF RetryInv, HandlerRearm
<1>6. CASE ClientRearm
  <2>1. Queue' = Queue BY <1>6, QueueStays DEF ClientRearm
  <2> QED BY <1>1, <1>6, <2>1 DEF RetryInv, ClientRearm
<1>7. CASE Cancel
  <2>1. Queue' = Queue \ {"recv"} /\ timer' = timer \ {"recv"}
    BY <1>7, WithdrawTakes DEF Cancel, Works
  <2> QED BY <1>1, <1>7, <2>1 DEF RetryInv, Cancel
<1>8. CASE Reschedule
  <2>1. Queue' = Queue BY <1>8, QueueStays DEF Reschedule
  <2> QED BY <1>1, <1>8, <2>1 DEF RetryInv, Reschedule
<1>9. CASE StopRecv
  <2>1. Queue' = Queue \ {"recv"} /\ timer' = timer \ {"recv"}
    BY <1>9, WithdrawTakes DEF StopRecv, Works
  <2> QED BY <1>1, <1>9, <2>1 DEF RetryInv, StopRecv
<1>10. CASE StopTransmit
  <2>1. Queue' = Queue \ {"transmit"} /\ timer' = timer \ {"transmit"}
    BY <1>10, WithdrawTakes DEF StopTransmit, Works
  <2> QED BY <1>1, <1>10, <2>1 DEF RetryInv, StopTransmit
<1>11. CASE Connect \/ Disconnect \/ Arrive \/ Lose \/ HandlerSend
  <2>1. Queue' = Queue BY <1>11, QueueStays DEF Connect, Disconnect, Arrive, Lose, HandlerSend,
      Transmit
  <2> QED BY <1>1, <1>11, <2>1 DEF RetryInv, Connect, Disconnect, Arrive, Lose, HandlerSend,
      Transmit
<1>12. CASE Take \/ InitWorks \/ OpenSocket \/ prepare_fds \/ Loop
  <2>1. Queue' = Queue BY <1>12, QueueStays DEF Take, InitWorks, OpenSocket, prepare_fds, Loop
  <2> QED BY <1>1, <1>12, <2>1 DEF RetryInv, Take, InitWorks, OpenSocket, prepare_fds, Loop
<1>13. CASE ClientExpect \/ ClientSend \/ Poll \/ Recv \/ RecvNothing
  <2>1. Queue' = Queue BY <1>13, QueueStays DEF ClientExpect, ClientSend, Poll, Recv, RecvNothing,
      Expect, Transmit
  <2> QED BY <1>1, <1>13, <2>1 DEF RetryInv, ClientExpect, ClientSend, Poll, Recv, RecvNothing,
      Expect, Transmit
<1>14. CASE Compare \/ Close
  <2>1. Queue' = Queue BY <1>14, QueueStays DEF Compare, Close
  <2> QED BY <1>1, <1>14, <2>1 DEF RetryInv, Compare, Close
<1>15. CASE UNCHANGED vars
  <2>1. Queue' = Queue BY <1>15, QueueStays DEF vars
  <2> QED BY <1>15, <2>1 DEF RetryInv, vars
<1> QED BY <1>2, <1>3, <1>4, <1>5, <1>6, <1>7, <1>8, <1>9, <1>10, <1>11, <1>12, <1>13, <1>14,
           <1>15 DEF Next

\* The client leaves its loop for want of a connection or after an error.
LEMMA StopNext == TypeInv /\ StopInv /\ [Next]_vars => StopInv'
<1> SUFFICES ASSUME TypeInv, StopInv, [Next]_vars PROVE StopInv' OBVIOUS
<1> USE DEF StopInv, At, Goto, link, works, sockets, client, hist
<1>1. ret \in {"ok", "error"} BY DEF TypeInv, ClientOK
<1>2. CASE Connect
  <2>1. run_app' # 0 BY <1>2 DEF Connect
  <2> QED BY <2>1
<1>3. CASE Disconnect
  <2>1. ~connected' BY <1>3 DEF Disconnect
  <2> QED BY <2>1
<1>4. CASE Arrive \/ Lose BY <1>4 DEF Arrive, Lose
<1>5. CASE Expire \/ wait_reply \/ wait_transmit \/ HandlerSend \/ HandlerRearm
  BY <1>5 DEF Expire, wait_reply, wait_transmit, Handle, Expect, HandlerSend, HandlerRearm
<1>6. CASE Take \/ InitWorks \/ OpenSocket \/ prepare_fds
  BY <1>6 DEF Take, InitWorks, OpenSocket, prepare_fds
<1>7. CASE Loop BY <1>1, <1>7 DEF Loop
<1>8. CASE ClientExpect \/ ClientSend BY <1>8 DEF ClientExpect, Expect, ClientSend
<1>9. CASE ClientRearm BY <1>1, <1>9 DEF ClientRearm
<1>10. CASE Poll \/ Recv \/ RecvNothing \/ Compare \/ Cancel \/ Reschedule
  BY <1>10 DEF Poll, Recv, RecvNothing, Compare, Cancel, Reschedule
<1>11. CASE StopRecv \/ StopTransmit \/ Close BY <1>11 DEF StopRecv, StopTransmit, Close
<1>12. CASE UNCHANGED vars BY <1>12 DEF vars
<1> QED BY <1>2, <1>3, <1>4, <1>5, <1>6, <1>7, <1>8, <1>9, <1>10, <1>11, <1>12 DEF Next

\* A cancelled work comes back only with a handler that was running.
LEMMA QuietNext == TypeInv /\ QuietInv /\ [Next]_vars => QuietInv'
<1> SUFFICES ASSUME TypeInv, QuietInv, [Next]_vars PROVE QuietInv' OBVIOUS
<1> USE DEF At, Goto, link, works, sockets, client, hist
<1>1. timer \subseteq Works /\ ret \in {"ok", "error"} BY DEF TypeInv, ClientOK
<1>2. CASE Expire
  <2>1. PICK w \in timer : timer' = timer \ {w} /\ Queue' = Queue \cup {w}
    BY <1>2, ExpireQueues
  <2> QED BY <1>1, <1>2, <2>1 DEF QuietInv, Expire
<1>3. CASE wait_reply
  <2>1. Queue' = Queue \ {"recv"} BY <1>3, HandleTakes DEF wait_reply, Works
  <2> QED BY <1>1, <1>3, <2>1 DEF QuietInv, wait_reply, Handle, Expect
<1>4. CASE wait_transmit
  <2>1. Queue' = Queue \ {"transmit"} BY <1>4, HandleTakes DEF wait_transmit, Works
  <2> QED BY <1>1, <1>4, <2>1 DEF QuietInv, wait_transmit, Handle, Expect
<1>5. CASE HandlerRearm
  <2>1. Queue' = Queue BY <1>5, QueueStays DEF HandlerRearm
  <2> QED BY <1>1, <1>5, <2>1 DEF QuietInv, HandlerRearm
<1>6. CASE ClientRearm
  <2>1. Queue' = Queue BY <1>6, QueueStays DEF ClientRearm
  <2> QED BY <1>1, <1>6, <2>1 DEF QuietInv, ClientRearm
<1>7. CASE Cancel
  <2>1. Queue' = Queue \ {"recv"} /\ timer' = timer \ {"recv"}
    BY <1>7, WithdrawTakes DEF Cancel, Works
  <2> QED BY <1>1, <1>7, <2>1 DEF QuietInv, Cancel
<1>8. CASE Reschedule
  <2>1. Queue' = Queue BY <1>8, QueueStays DEF Reschedule
  <2> QED BY <1>1, <1>8, <2>1 DEF QuietInv, Reschedule
<1>9. CASE StopRecv
  <2>1. Queue' = Queue \ {"recv"} /\ timer' = timer \ {"recv"}
    BY <1>9, WithdrawTakes DEF StopRecv, Works
  <2> QED BY <1>1, <1>9, <2>1 DEF QuietInv, StopRecv
<1>10. CASE StopTransmit
  <2>1. Queue' = Queue \ {"transmit"} /\ timer' = timer \ {"transmit"}
    BY <1>10, WithdrawTakes DEF StopTransmit, Works
  <2> QED BY <1>1, <1>10, <2>1 DEF QuietInv, StopTransmit
<1>11. CASE InitWorks
  <2>1. Queue' = Queue BY <1>11, QueueStays DEF InitWorks
  <2> QED BY <1>1, <1>11, <2>1 DEF QuietInv, InitWorks
<1>12. CASE Connect \/ Disconnect \/ Arrive \/ Lose \/ HandlerSend
  <2>1. Queue' = Queue BY <1>12, QueueStays DEF Connect, Disconnect, Arrive, Lose, HandlerSend,
      Transmit
  <2> QED BY <1>1, <1>12, <2>1 DEF QuietInv, Connect, Disconnect, Arrive, Lose, HandlerSend,
      Transmit
<1>13. CASE Take \/ OpenSocket \/ prepare_fds \/ Loop \/ ClientExpect
  <2>1. Queue' = Queue BY <1>13, QueueStays DEF Take, OpenSocket, prepare_fds, Loop, ClientExpect,
      Expect
  <2> QED BY <1>1, <1>13, <2>1 DEF QuietInv, Take, OpenSocket, prepare_fds, Loop, ClientExpect,
      Expect
<1>14. CASE ClientSend \/ Poll \/ Recv \/ RecvNothing \/ Compare
  <2>1. Queue' = Queue BY <1>14, QueueStays DEF ClientSend, Poll, Recv, RecvNothing, Compare,
      Transmit
  <2> QED BY <1>1, <1>14, <2>1 DEF QuietInv, ClientSend, Poll, Recv, RecvNothing, Compare,
      Transmit
<1>15. CASE Close
  <2>1. Queue' = Queue BY <1>15, QueueStays DEF Close
  <2> QED BY <1>1, <1>15, <2>1 DEF QuietInv, Close
<1>16. CASE UNCHANGED vars
  <2>1. Queue' = Queue BY <1>16, QueueStays DEF vars
  <2> QED BY <1>16, <2>1 DEF QuietInv, vars
<1> QED BY <1>2, <1>3, <1>4, <1>5, <1>6, <1>7, <1>8, <1>9, <1>10, <1>11, <1>12, <1>13, <1>14,
           <1>15, <1>16 DEF Next

\* A matched request keeps no timeout beyond the cancellation.
LEMMA AnsweredNext == TypeInv /\ AnsweredInv /\ [Next]_vars => AnsweredInv'
<1> SUFFICES ASSUME TypeInv, AnsweredInv, [Next]_vars PROVE AnsweredInv' OBVIOUS
<1> USE DEF At, Goto, link, works, sockets, client, hist
<1>1. timer \subseteq Works /\ ret \in {"ok", "error"} BY DEF TypeInv, ClientOK
<1>2. CASE Expire
  <2>1. PICK w \in timer : timer' = timer \ {w} /\ Queue' = Queue \cup {w}
    BY <1>2, ExpireQueues
  <2> QED BY <1>1, <1>2, <2>1 DEF AnsweredInv, Expire
<1>3. CASE wait_reply
  <2>1. Queue' = Queue \ {"recv"} BY <1>3, HandleTakes DEF wait_reply, Works
  <2> QED BY <1>1, <1>3, <2>1 DEF AnsweredInv, wait_reply, Handle, Expect
<1>4. CASE wait_transmit
  <2>1. Queue' = Queue \ {"transmit"} BY <1>4, HandleTakes DEF wait_transmit, Works
  <2> QED BY <1>1, <1>4, <2>1 DEF AnsweredInv, wait_transmit, Handle, Expect
<1>5. CASE HandlerRearm
  <2>1. Queue' = Queue BY <1>5, QueueStays DEF HandlerRearm
  <2> QED BY <1>1, <1>5, <2>1 DEF AnsweredInv, HandlerRearm
<1>6. CASE ClientRearm
  <2>1. Queue' = Queue BY <1>6, QueueStays DEF ClientRearm
  <2> QED BY <1>1, <1>6, <2>1 DEF AnsweredInv, ClientRearm
<1>7. CASE Cancel
  <2>1. Queue' = Queue \ {"recv"} /\ timer' = timer \ {"recv"}
    BY <1>7, WithdrawTakes DEF Cancel, Works
  <2> QED BY <1>1, <1>7, <2>1 DEF AnsweredInv, Cancel
<1>8. CASE Reschedule
  <2>1. Queue' = Queue BY <1>8, QueueStays DEF Reschedule
  <2> QED BY <1>1, <1>8, <2>1 DEF AnsweredInv, Reschedule
<1>9. CASE StopRecv
  <2>1. Queue' = Queue \ {"recv"} /\ timer' = timer \ {"recv"}
    BY <1>9, WithdrawTakes DEF StopRecv, Works
  <2> QED BY <1>1, <1>9, <2>1 DEF AnsweredInv, StopRecv
<1>10. CASE StopTransmit
  <2>1. Queue' = Queue \ {"transmit"} /\ timer' = timer \ {"transmit"}
    BY <1>10, WithdrawTakes DEF StopTransmit, Works
  <2> QED BY <1>1, <1>10, <2>1 DEF AnsweredInv, StopTransmit
<1>11. CASE Compare
  <2>1. Queue' = Queue BY <1>11, QueueStays DEF Compare
  <2> QED BY <1>1, <1>11, <2>1 DEF AnsweredInv, Compare
<1>12. CASE ClientExpect
  <2>1. Queue' = Queue BY <1>12, QueueStays DEF ClientExpect
  <2> QED BY <1>1, <1>12, <2>1 DEF AnsweredInv, ClientExpect, Expect
<1>13. CASE ClientSend
  <2>1. Queue' = Queue BY <1>13, QueueStays DEF ClientSend
  <2> QED BY <1>1, <1>13, <2>1 DEF AnsweredInv, ClientSend, Transmit
<1>14. CASE Connect \/ Disconnect \/ Arrive \/ Lose \/ HandlerSend
  <2>1. Queue' = Queue BY <1>14, QueueStays DEF Connect, Disconnect, Arrive, Lose, HandlerSend,
      Transmit
  <2> QED BY <1>1, <1>14, <2>1 DEF AnsweredInv, Connect, Disconnect, Arrive, Lose, HandlerSend,
      Transmit
<1>15. CASE Take \/ InitWorks \/ OpenSocket \/ prepare_fds \/ Loop
  <2>1. Queue' = Queue BY <1>15, QueueStays DEF Take, InitWorks, OpenSocket, prepare_fds, Loop
  <2> QED BY <1>1, <1>15, <2>1 DEF AnsweredInv, Take, InitWorks, OpenSocket, prepare_fds, Loop
<1>16. CASE Poll \/ Recv \/ RecvNothing \/ Close
  <2>1. Queue' = Queue BY <1>16, QueueStays DEF Poll, Recv, RecvNothing, Close
  <2> QED BY <1>1, <1>16, <2>1 DEF AnsweredInv, Poll, Recv, RecvNothing, Close
<1>17. CASE UNCHANGED vars
  <2>1. Queue' = Queue BY <1>17, QueueStays DEF vars
  <2> QED BY <1>17, <2>1 DEF AnsweredInv, vars
<1> QED BY <1>2, <1>3, <1>4, <1>5, <1>6, <1>7, <1>8, <1>9, <1>10, <1>11, <1>12, <1>13, <1>14,
           <1>15, <1>16, <1>17 DEF Next

\* The invariants hold at first,
LEMMA IInit == Init => IInv
<1> SUFFICES ASSUME Init PROVE IInv OBVIOUS
<1>1. Queue = {} /\ timer = {}
  <2>1. wq = <<>> /\ timer = {} BY DEF Init
  <2>2. <<>> \in Seq(Works) OBVIOUS
  <2> QED BY <2>1, <2>2, EmptyHasNone DEF Queue
<1>2. RetryInv BY DEF Init, RetryInv
<1>3. StopInv
  <2>1. CASE manager
    <3>1. ~connected BY <2>1 DEF Init
    <3> QED BY <3>1 DEF StopInv
  <2>2. CASE ~manager
    <3>1. run_app # 0 BY <2>2 DEF Init
    <3> QED BY <3>1 DEF StopInv
  <2> QED BY <2>1, <2>2
<1>4. QuietInv BY <1>1 DEF QuietInv
<1>5. AnsweredInv BY DEF Init, AnsweredInv
<1> QED BY <1>2, <1>3, <1>4, <1>5 DEF IInv

\* and in every state the program reaches.
LEMMA EchoUdpInductive == Spec => [](TypeInv /\ IInv)
<1>1. TypeInv /\ IInv /\ [Next]_vars => IInv'
  BY RetryNext, StopNext, QuietNext, AnsweredNext DEF IInv
<1> QED BY <1>1, TypeInit, TypeNext, IInit, PTL DEF Spec

\* A client that waits for a datagram has a timeout or a transmission ahead of it: scheduled,
\* queued or being handled (echo_client/src/udp.c:61-77, 141-149). The works are
\* armed in two threads and cancelled in one; whichever came last, one of them is left.
THEOREM UdpClientRetries == Spec => []WaitingClientRetries
<1>1. TypeInv /\ IInv => WaitingClientRetries
  BY QueueHasWorks DEF IInv, RetryInv, WaitingClientRetries
<1> QED BY <1>1, EchoUdpInductive, PTL

\* No connection event is lost between the client's loop and its next wait: a client that
\* waits for the semaphore while the network is there, and was not told, had an error
\* (echo-client.c:179-205 and 229-249).
THEOREM UdpWaitsForConnection == Spec => []WaitsForConnection
<1>1. TypeInv /\ IInv => WaitsForConnection BY DEF IInv, StopInv, WaitsForConnection
<1> QED BY <1>1, EchoUdpInductive, PTL

\* After stop_udp no work is delayed or queued, and start_udp initialises works the kernel
\* does not hold, unless a handler was running across stop_udp and armed the timeout
\* (udp.c:84-85 and 196-205).
THEOREM UdpStoppedIsQuiet == Spec => []StoppedClientIsQuiet
<1>1. TypeInv /\ IInv => StoppedClientIsQuiet
  <2> SUFFICES ASSUME TypeInv, IInv, cpc \in {"take", "init"}, ~late
               PROVE  timer = {} /\ wq = <<>>
    BY DEF StoppedClientIsQuiet
  <2>1. "recv" \notin timer \cup Queue /\ "transmit" \notin timer \cup Queue BY DEF IInv, QuietInv
  <2>2. timer \cup Queue \subseteq {"recv", "transmit"}
    BY QueueHasWorks DEF TypeInv, ClientOK, Works
  <2>3. timer = {} /\ Queue = {} BY <2>1, <2>2
  <2> QED BY <2>3, QueueHasWorks
<1> QED BY <1>1, EchoUdpInductive, PTL

\* A timeout is handled for a request that has no matching reply yet, or between the match
\* and the cancellation (udp.c:61-70 and 125-141): a timeout left over does not report
\* an answered request as not received.
THEOREM UdpTimeoutMeansNoReply == Spec => TimeoutMeansNoReply
<1> DEFINE Step == wait_reply => ~answered \/ cpc = "cancel"
<1>1. TypeInv /\ IInv => [Step]_vars
  <2> SUFFICES ASSUME TypeInv, IInv, wait_reply PROVE ~answered \/ cpc = "cancel" OBVIOUS
  <2>1. "recv" \in Queue BY HandleTakes DEF wait_reply, Works
  <2> QED BY <2>1 DEF IInv, AnsweredInv
<1>2. TimeoutMeansNoReply <=> [][Step]_vars BY DEF TimeoutMeansNoReply
<1> HIDE DEF Step
<1> QED BY <1>1, <1>2, EchoUdpInductive, PTL
================================================================================
