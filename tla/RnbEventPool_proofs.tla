--------------------------- MODULE RnbEventPool_proofs ---------------------------
(***************************************************************************)
(* For every number of slots: the pool's type invariant and the ownership   *)
(* of the slots, and that the pool implements RnbEventChannel.              *)
(***************************************************************************)
EXTENDS RnbEventPool, SequenceTheorems, FiniteSetTheorems, TLAPS

\* A slot that was free when the driver called is still ahead of the search.
FreeSlotAhead ==
  hpc = "scan" /\ room => \E s \in i .. PoolSize - 1 : ~in_use[s]

\* The slot put on the fifo holds the event of this call.
FilledWithEvent == hpc = "put" => stored[i] = evt

\* An event handed on is an event the driver reported.
PendingAreEvents == \A s \in PendingSlots : stored[s] \in Event

\* The inductive invariant.
IInv == TypeOK /\ SlotOwnership /\ FreeSlotAhead /\ FilledWithEvent /\ PendingAreEvents

--------------------------------------------------------------------------------
(* Sequences                                                                *)

\* A sequence is its head followed by its tail (ThreadGet leaves Pending alone).
LEMMA HeadThenTail ==
  ASSUME NEW S, NEW s \in Seq(S), s # <<>>
  PROVE  <<Head(s)>> \o Tail(s) = s
<1>1. Len(s) \in Nat \ {0} /\ Head(s) = s[1] /\ Head(s) \in S
  BY EmptySeq, LenProperties
<1>2. /\ Tail(s) \in Seq(S) /\ Len(Tail(s)) = Len(s) - 1
      /\ \A k \in 1 .. Len(Tail(s)) : Tail(s)[k] = s[k + 1]
  BY HeadTailProperties
<1>3. <<Head(s)>> \in Seq(S) /\ Len(<<Head(s)>>) = 1 /\ <<Head(s)>>[1] = Head(s)
  BY <1>1
<1> DEFINE t == <<Head(s)>> \o Tail(s)
<1>4. /\ t \in Seq(S) /\ Len(t) = Len(s)
      /\ \A k \in 1 .. Len(s) : t[k] = IF k <= 1 THEN Head(s) ELSE Tail(s)[k - 1]
  BY <1>1, <1>2, <1>3, ConcatProperties
<1>5. \A k \in 1 .. Len(s) : t[k] = s[k]
  BY <1>1, <1>2, <1>4
<1> QED BY <1>4, <1>5, SeqEqual

\* A sequence with one element in front of it, and what is left without it.
LEMMA ConsProperties ==
  ASSUME NEW S, NEW e \in S, NEW s \in Seq(S)
  PROVE  /\ <<e>> \o s \in Seq(S)
         /\ Len(<<e>> \o s) = Len(s) + 1
         /\ (<<e>> \o s)[1] = e
         /\ \A k \in 1 .. Len(s) : (<<e>> \o s)[k + 1] = s[k]
<1>1. <<e>> \in Seq(S) /\ Len(<<e>>) = 1 /\ <<e>>[1] = e
  OBVIOUS
<1>2. Len(s) \in Nat
  BY LenProperties
<1>3. /\ <<e>> \o s \in Seq(S)
      /\ Len(<<e>> \o s) = 1 + Len(s)
      /\ \A k \in 1 .. 1 + Len(s) : (<<e>> \o s)[k] = IF k <= 1 THEN e ELSE s[k - 1]
  BY <1>1, ConcatProperties
<1> QED BY <1>2, <1>3

\* No sequence without repetition is longer than the set it draws from.
LEMMA DistinctBound ==
  ASSUME NEW n \in Nat, NEW m \in Nat, NEW f \in [1 .. n -> 0 .. m - 1],
         \A j, k \in 1 .. n : f[j] = f[k] => j = k
  PROVE  n <= m
<1>1. f \in Injection(1 .. n, 0 .. m - 1)
  BY DEF Injection, IsInjective
<1>2. IsFiniteSet(0 .. m - 1) /\ Cardinality(0 .. m - 1) = m
  BY FS_Interval
<1>3. Cardinality(1 .. n) = n
  BY FS_Interval
<1> QED BY <1>1, <1>2, <1>3, FS_Injection

\* A sequence that visits all of the slots but at most one has PoolSize - 1 of them.
LEMMA CoverBound ==
  ASSUME NEW n \in Nat, NEW m \in Nat, NEW f \in [1 .. n -> 0 .. m - 1], NEW x,
         \A s \in 0 .. m - 1 : s = x \/ \E k \in 1 .. n : f[k] = s
  PROVE  m <= n + 1
<1> DEFINE R == {f[k] : k \in 1 .. n}
<1>1. IsFiniteSet(1 .. n) /\ Cardinality(1 .. n) = n
  BY FS_Interval
<1>2. IsFiniteSet(R) /\ Cardinality(R) <= n
  <2>1. [k \in 1 .. n |-> f[k]] \in Surjection(1 .. n, R)
    BY DEF Surjection
  <2> QED BY <1>1, <2>1, FS_Surjection
<1>3. /\ IsFiniteSet(R \cup {x}) /\ Cardinality(R \cup {x}) <= n + 1
      /\ Cardinality(R \cup {x}) \in Nat
  <2>1. Cardinality(R) \in Nat
    BY <1>2, FS_CardinalityType
  <2>2. /\ IsFiniteSet(R \cup {x})
        /\ Cardinality(R \cup {x}) = IF x \in R THEN Cardinality(R) ELSE Cardinality(R) + 1
    BY <1>2, FS_AddElement
  <2>3. Cardinality(R \cup {x}) \in Nat
    BY <2>2, FS_CardinalityType
  <2> HIDE DEF R
  <2> QED BY <1>2, <2>1, <2>2, <2>3
<1>4. 0 .. m - 1 \in SUBSET (R \cup {x})
  OBVIOUS
<1>5. Cardinality(0 .. m - 1) <= Cardinality(R \cup {x})
  BY <1>3, <1>4, FS_Subset
<1>6. Cardinality(0 .. m - 1) = m
  BY FS_Interval
<1> QED BY <1>3, <1>5, <1>6

--------------------------------------------------------------------------------
(* What each action does to the sequence of pending slots                   *)

LEMMA PendingType ==
  ASSUME TypeOK
  PROVE  /\ Pending \in Seq(Slots)
         /\ Len(Pending) \in Nat
         /\ Pending \in [1 .. Len(Pending) -> Slots]
<1>1. <<cur>> \o fifo \in Seq(Slots)
  BY ConsProperties DEF TypeOK
<1>2. Pending \in Seq(Slots)
  BY <1>1 DEF TypeOK, Pending
<1> QED BY <1>2, LenProperties

LEMMA PendingSame ==
  ASSUME TypeOK,
         \/ UNCHANGED <<fifo, tpc, cur>>
         \/ ThreadGet \/ ThreadRelease
  PROVE  Pending' = Pending
<1>1. CASE UNCHANGED <<fifo, tpc, cur>>
  BY <1>1 DEF Pending
<1>2. CASE ThreadGet
  <2>1. fifo \in Seq(Slots) /\ fifo # <<>>
    BY <1>2 DEF TypeOK, ThreadGet
  <2>2. <<Head(fifo)>> \o Tail(fifo) = fifo
    BY <2>1, HeadThenTail
  <2> QED BY <1>2, <2>2 DEF ThreadGet, Pending
<1>3. CASE ThreadRelease
  BY <1>3 DEF ThreadRelease, Pending
<1> QED BY <1>1, <1>2, <1>3

LEMMA PendingPut ==
  ASSUME TypeOK, HandlerPut
  PROVE  Pending' = Append(Pending, i)
<1>1. fifo \in Seq(Slots) /\ i \in Slots /\ cur \in Slots
  BY DEF TypeOK
<1>2. fifo' = Append(fifo, i) /\ tpc' = tpc /\ cur' = cur
  BY DEF HandlerPut, tvars
<1>3. CASE tpc = "process"
  <2> DEFINE c == <<cur>>
             a == c \o fifo
  <2>1. c \in Seq(Slots) /\ <<i>> \in Seq(Slots) /\ a \in Seq(Slots)
    BY <1>1, ConsProperties
  <2>2. Append(a, i) = a \o <<i>> /\ Append(fifo, i) = fifo \o <<i>>
    BY <1>1, <2>1, AppendIsConcat
  <2>3. (c \o fifo) \o <<i>> = c \o (fifo \o <<i>>)
    BY <1>1, <2>1, ConcatAssociative
  <2>4. c \o Append(fifo, i) = Append(c \o fifo, i)
    BY <2>2, <2>3
  <2>5. Pending = c \o fifo /\ Pending' = c \o Append(fifo, i)
    BY <1>2, <1>3 DEF Pending
  <2> QED BY <2>4, <2>5
<1>4. CASE tpc # "process"
  BY <1>2, <1>4 DEF Pending
<1> QED BY <1>3, <1>4

LEMMA PendingProcess ==
  ASSUME TypeOK, ThreadProcess
  PROVE  /\ Len(Pending) = Len(Pending') + 1 /\ Len(Pending') \in Nat
         /\ Pending[1] = cur
         /\ \A k \in 1 .. Len(Pending') : Pending'[k] = Pending[k + 1]
<1>1. fifo \in Seq(Slots) /\ cur \in Slots
  BY DEF TypeOK
<1>2. Pending = <<cur>> \o fifo /\ Pending' = fifo
  BY DEF ThreadProcess, Pending
<1> QED BY <1>1, <1>2, ConsProperties, LenProperties

--------------------------------------------------------------------------------
(* The inductive invariant                                                  *)

LEMMA InitIInv == Init => IInv
<1> SUFFICES ASSUME Init PROVE IInv
  OBVIOUS
<1>1. Pending = <<>> /\ Len(Pending) = 0 /\ PendingSlots = {}
  BY DEF Init, Pending, PendingSlots
<1>2. TypeOK
  BY PoolAssumption DEF Init, TypeOK, Slots
<1>3. SlotOwnership
  BY <1>1 DEF Init, SlotOwnership, HandlerSlots, ReturnedSlots
<1> QED BY <1>1, <1>2, <1>3 DEF Init, IInv, FreeSlotAhead, FilledWithEvent, PendingAreEvents

LEMMA TypeStep ==
  ASSUME TypeOK, [Next]_vars
  PROVE  TypeOK'
<1> USE PoolAssumption DEF TypeOK, Slots, hvars, tvars
<1>1. ASSUME NEW e \in Event, HandlerCall(e) PROVE TypeOK'
  BY <1>1 DEF HandlerCall
<1>2. CASE HandlerSkip
  BY <1>2 DEF HandlerSkip
<1>3. CASE HandlerDrop
  BY <1>3 DEF HandlerDrop
<1>4. CASE HandlerClaim
  BY <1>4 DEF HandlerClaim
<1>5. CASE HandlerFill
  BY <1>5 DEF HandlerFill
<1>6. CASE HandlerPut
  <2>1. fifo' \in Seq(0 .. PoolSize - 1)
    BY <1>6, AppendProperties DEF HandlerPut
  <2> QED BY <1>6, <2>1 DEF HandlerPut
<1>7. CASE ThreadGet
  <2>1. Head(fifo) \in 0 .. PoolSize - 1 /\ Tail(fifo) \in Seq(0 .. PoolSize - 1)
    BY <1>7, HeadTailProperties DEF ThreadGet
  <2> QED BY <1>7, <2>1 DEF ThreadGet
<1>8. CASE ThreadProcess
  BY <1>8 DEF ThreadProcess
<1>9. CASE ThreadRelease
  BY <1>9 DEF ThreadRelease
<1>10. CASE UNCHANGED vars
  BY <1>10 DEF vars
<1> QED
  BY <1>1, <1>2, <1>3, <1>4, <1>5, <1>6, <1>7, <1>8, <1>9, <1>10
  DEF Next, HandlerStep, ThreadStep

LEMMA OwnershipStep ==
  ASSUME TypeOK, SlotOwnership, [Next]_vars
  PROVE  SlotOwnership'
<1> USE DEF SlotOwnership, HandlerSlots, ReturnedSlots, PendingSlots, hvars, tvars
<1>0. in_use \in [Slots -> BOOLEAN] /\ i \in Slots /\ cur \in Slots
  BY DEF TypeOK
<1>1. ASSUME NEW e \in Event, HandlerCall(e) PROVE SlotOwnership'
  BY <1>1, PendingSame DEF HandlerCall
<1>2. CASE HandlerSkip
  BY <1>2, PendingSame DEF HandlerSkip
<1>3. CASE HandlerDrop
  BY <1>3, PendingSame DEF HandlerDrop
<1>4. CASE HandlerClaim
  <2>1. Pending' = Pending
    BY <1>4, PendingSame DEF HandlerClaim
  <2>2. i \notin PendingSlots \cup ReturnedSlots
    BY <1>4 DEF HandlerClaim
  <2> QED BY <1>0, <1>4, <2>1, <2>2 DEF HandlerClaim
<1>5. CASE HandlerFill
  BY <1>5, PendingSame DEF HandlerFill
<1>6. CASE HandlerPut
  <2>1. Pending' = Append(Pending, i)
    BY <1>6, PendingPut
  <2>2. /\ Len(Pending) \in Nat /\ Len(Pending') = Len(Pending) + 1
        /\ \A k \in 1 .. Len(Pending) : Pending'[k] = Pending[k]
        /\ Pending'[Len(Pending) + 1] = i
    BY <1>0, <2>1, PendingType, AppendProperties
  <2>3. PendingSlots' = PendingSlots \cup {i}
    BY <2>2
  <2>4. i \notin PendingSlots /\ i \notin ReturnedSlots
    BY <1>6 DEF HandlerPut
  <2>5. \A j, k \in 1 .. Len(Pending') : Pending'[j] = Pending'[k] => j = k
    BY <2>2, <2>4
  <2>6. HandlerSlots' = {} /\ ReturnedSlots' = ReturnedSlots /\ in_use' = in_use
        /\ HandlerSlots = {i}
    BY <1>6 DEF HandlerPut
  <2> QED BY <2>3, <2>4, <2>5, <2>6
<1>7. CASE ThreadGet
  BY <1>7, PendingSame DEF ThreadGet
<1>8. CASE ThreadProcess
  <2>1. /\ Len(Pending) = Len(Pending') + 1 /\ Len(Pending') \in Nat
        /\ Pending[1] = cur
        /\ \A k \in 1 .. Len(Pending') : Pending'[k] = Pending[k + 1]
    BY <1>8, PendingProcess
  <2>2. PendingSlots = PendingSlots' \cup {cur}
    <3>1. \A s \in PendingSlots : s = cur \/ s \in PendingSlots'
      <4> SUFFICES ASSUME NEW k \in 1 .. Len(Pending), k # 1
                   PROVE  Pending[k] \in PendingSlots'
        BY <2>1
      <4>1. k - 1 \in 1 .. Len(Pending') /\ Pending'[k - 1] = Pending[k]
        BY <2>1
      <4> QED BY <4>1
    <3>2. cur \in PendingSlots
      BY <2>1
    <3>3. \A s \in PendingSlots' : s \in PendingSlots
      BY <2>1
    <3> QED BY <3>1, <3>2, <3>3
  <2>3. cur \notin PendingSlots'
    BY <2>1
  <2>4. \A j, k \in 1 .. Len(Pending') : Pending'[j] = Pending'[k] => j = k
    BY <2>1
  <2>5. /\ ReturnedSlots = {} /\ ReturnedSlots' = {cur}
        /\ HandlerSlots' = HandlerSlots /\ in_use' = in_use
    BY <1>8 DEF ThreadProcess
  <2> HIDE DEF HandlerSlots, ReturnedSlots, PendingSlots
  <2>6. {s \in Slots : in_use[s]}' = {s \in Slots : in_use[s]}
    BY <2>5
  <2>7. HandlerSlots \cap PendingSlots = {}
    OBVIOUS
  <2>8. {s \in Slots : in_use[s]} = HandlerSlots \cup PendingSlots
    BY <2>5
  <2>9. cur \notin HandlerSlots
    BY <2>2, <2>7
  <2> QED BY <2>2, <2>3, <2>4, <2>5, <2>6, <2>7, <2>8, <2>9
<1>9. CASE ThreadRelease
  <2>1. Pending' = Pending
    BY <1>9, PendingSame
  <2>2. \A s \in Slots : in_use'[s] <=> in_use[s] /\ s # cur
    BY <1>0, <1>9 DEF ThreadRelease
  <2>3. ReturnedSlots = {cur} /\ ReturnedSlots' = {} /\ HandlerSlots' = HandlerSlots
    BY <1>9 DEF ThreadRelease
  <2>4. {s \in Slots : in_use'[s]} = {s \in Slots : in_use[s]} \ {cur}
    BY <2>2
  <2> QED BY <2>1, <2>3, <2>4
<1>10. CASE UNCHANGED vars
  BY <1>10, PendingSame DEF vars
<1> QED
  BY <1>1, <1>2, <1>3, <1>4, <1>5, <1>6, <1>7, <1>8, <1>9, <1>10
  DEF Next, HandlerStep, ThreadStep

LEMMA FreeSlotStep ==
  ASSUME TypeOK, FreeSlotAhead, [Next]_vars
  PROVE  FreeSlotAhead'
<1> USE PoolAssumption DEF FreeSlotAhead, hvars, tvars
<1>0. in_use \in [Slots -> BOOLEAN] /\ i \in 0 .. PoolSize - 1 /\ Slots = 0 .. PoolSize - 1
  BY DEF TypeOK, Slots
<1>1. ASSUME NEW e \in Event, HandlerCall(e) PROVE FreeSlotAhead'
  BY <1>0, <1>1 DEF HandlerCall
<1>2. CASE HandlerSkip
  <2> SUFFICES ASSUME room PROVE \E s \in i + 1 .. PoolSize - 1 : ~in_use[s]
    BY <1>2 DEF HandlerSkip
  <2>1. PICK s \in i .. PoolSize - 1 : ~in_use[s]
    BY <1>2 DEF HandlerSkip
  <2>2. s # i
    BY <1>2, <2>1 DEF HandlerSkip
  <2> QED BY <1>0, <2>1, <2>2
<1>3. CASE HandlerDrop \/ HandlerClaim \/ HandlerFill \/ HandlerPut
  BY <1>3 DEF HandlerDrop, HandlerClaim, HandlerFill, HandlerPut
<1>4. CASE ThreadGet \/ ThreadProcess
  BY <1>4 DEF ThreadGet, ThreadProcess
<1>5. CASE ThreadRelease
  <2>1. \A s \in Slots : in_use'[s] => in_use[s]
    BY <1>0, <1>5 DEF ThreadRelease
  <2>2. hpc' = hpc /\ room' = room /\ i' = i
    BY <1>5 DEF ThreadRelease
  <2>3. \A s \in i .. PoolSize - 1 : s \in Slots
    BY <1>0
  <2> QED BY <2>1, <2>2, <2>3
<1>6. CASE UNCHANGED vars
  BY <1>6 DEF vars
<1> QED
  BY <1>1, <1>2, <1>3, <1>4, <1>5, <1>6 DEF Next, HandlerStep, ThreadStep

LEMMA FilledStep ==
  ASSUME TypeOK, FilledWithEvent, [Next]_vars
  PROVE  FilledWithEvent'
<1> USE DEF FilledWithEvent, hvars, tvars
<1>0. stored \in [Slots -> Event \cup {NoEvent}] /\ i \in Slots
  BY DEF TypeOK
<1>1. ASSUME NEW e \in Event, HandlerCall(e) PROVE FilledWithEvent'
  BY <1>1 DEF HandlerCall
<1>2. CASE HandlerFill
  BY <1>0, <1>2 DEF HandlerFill
<1>3. CASE HandlerSkip \/ HandlerDrop \/ HandlerClaim \/ HandlerPut
  BY <1>3 DEF HandlerSkip, HandlerDrop, HandlerClaim, HandlerPut
<1>4. CASE ThreadStep \/ UNCHANGED vars
  BY <1>4 DEF ThreadStep, ThreadGet, ThreadProcess, ThreadRelease, vars
<1> QED BY <1>1, <1>2, <1>3, <1>4 DEF Next, HandlerStep

\* The event stored in a pending slot is left alone by every step.
LEMMA PendingUntouched ==
  ASSUME TypeOK, SlotOwnership, [Next]_vars
  PROVE  \A s \in PendingSlots : stored'[s] = stored[s]
<1>1. CASE HandlerFill
  <2>1. i \notin PendingSlots
    BY <1>1 DEF HandlerFill, SlotOwnership, HandlerSlots
  <2>2. \A s \in Slots : s # i => stored'[s] = stored[s]
    BY <1>1 DEF HandlerFill, TypeOK
  <2>3. PendingSlots \subseteq Slots
    BY PendingType DEF PendingSlots
  <2> QED BY <2>1, <2>2, <2>3
<1>2. CASE ~HandlerFill
  <2>1. stored' = stored
    BY <1>2 DEF Next, vars, HandlerStep, ThreadStep, HandlerCall, HandlerSkip, HandlerDrop,
                HandlerClaim, HandlerPut, ThreadGet, ThreadProcess, ThreadRelease
  <2> QED BY <2>1
<1> QED BY <1>1, <1>2

LEMMA PendingEventsStep ==
  ASSUME TypeOK, SlotOwnership, FilledWithEvent, PendingAreEvents, [Next]_vars
  PROVE  PendingAreEvents'
<1>1. \A s \in PendingSlots : stored'[s] \in Event
  BY PendingUntouched DEF PendingAreEvents
<1>2. CASE HandlerPut
  <2>1. Pending' = Append(Pending, i)
    BY <1>2, PendingPut
  <2>2. i \in Slots
    BY DEF TypeOK
  <2>3. PendingSlots' = PendingSlots \cup {i}
    BY <2>1, <2>2, PendingType, AppendProperties DEF PendingSlots
  <2>4. stored'[i] \in Event
    BY <1>2 DEF HandlerPut, FilledWithEvent, TypeOK
  <2> QED BY <1>1, <2>3, <2>4 DEF PendingAreEvents
<1>3. CASE ThreadProcess
  <2>1. PendingSlots' \subseteq PendingSlots
    BY <1>3, PendingProcess DEF PendingSlots
  <2> QED BY <1>1, <2>1 DEF PendingAreEvents
<1>4. CASE ~HandlerPut /\ ~ThreadProcess
  <2>1. Pending' = Pending
    BY <1>4, PendingSame
    DEF Next, HandlerStep, ThreadStep, vars, tvars, HandlerCall, HandlerSkip, HandlerDrop,
        HandlerClaim, HandlerFill
  <2> QED BY <1>1, <2>1 DEF PendingAreEvents, PendingSlots
<1> QED BY <1>2, <1>3, <1>4

\* Every reachable state satisfies the inductive invariant.
THEOREM PoolInvariant == Spec => []IInv
<1>1. Init => IInv
  BY InitIInv
<1>2. IInv /\ [Next]_vars => IInv'
  BY TypeStep, OwnershipStep, FreeSlotStep, FilledStep, PendingEventsStep DEF IInv
<1> QED BY <1>1, <1>2, PTL DEF Spec

\* The loop variable stays inside the array, whatever PoolSize is.
THEOREM PoolTypeCorrect == Spec => []TypeOK
<1>1. IInv => TypeOK
  BY DEF IInv
<1> QED BY <1>1, PoolInvariant, PTL

\* Each marked slot has one owner: the handler, the fifo or the thread.
THEOREM SlotsHaveOneOwner == Spec => []SlotOwnership
<1>1. IInv => SlotOwnership
  BY DEF IInv
<1> QED BY <1>1, PoolInvariant, PTL

\* The thread can work on a slot in place: nothing overwrites a pending event.
THEOREM NoOverwrite == Spec => PendingEventStable
<1>1. IInv /\ [Next]_vars => [\A s \in PendingSlots : stored'[s] = stored[s]]_vars
  BY PendingUntouched DEF IInv
<1> QED BY <1>1, PoolInvariant, PTL DEF Spec, PendingEventStable

--------------------------------------------------------------------------------
(* The pool implements the channel                                          *)

LEMMA PendingEventsType ==
  ASSUME TypeOK, PendingAreEvents
  PROVE  /\ PendingEvents \in Seq(Event)
         /\ Len(PendingEvents) = Len(Pending)
         /\ Len(Pending) \in Nat
         /\ \A k \in 1 .. Len(Pending) : PendingEvents[k] = stored[Pending[k]]
<1>1. Len(Pending) \in Nat
  BY PendingType
<1>2. \A k \in 1 .. Len(Pending) : stored[Pending[k]] \in Event
  BY DEF PendingAreEvents, PendingSlots
<1>3. PendingEvents \in [1 .. Len(Pending) -> Event]
  BY <1>2 DEF PendingEvents
<1>4. PendingEvents \in Seq(Event)
  BY <1>1, <1>3
<1>5. DOMAIN PendingEvents = 1 .. Len(Pending)
  BY <1>3
<1>6. Len(PendingEvents) = Len(Pending)
  BY <1>1, <1>4, <1>5, LenProperties
<1> QED BY <1>1, <1>4, <1>6 DEF PendingEvents

\* Steps that leave the sequence of pending slots alone leave the queue alone.
LEMMA QueueSame ==
  ASSUME IInv, [Next]_vars, Pending' = Pending
  PROVE  PendingEvents' = PendingEvents
<1>1. \A k \in 1 .. Len(Pending) : stored'[Pending[k]] = stored[Pending[k]]
  BY PendingUntouched DEF IInv, PendingSlots
<1> QED BY <1>1 DEF PendingEvents

\* Fewer than PoolSize - 1 pending events leave a free slot for a new call.
LEMMA RoomWhenShort ==
  ASSUME IInv, hpc = "idle", Len(Pending) < PoolSize - 1
  PROVE  \E s \in Slots : ~in_use[s]
<1> SUFFICES ASSUME \A s \in Slots : in_use[s] PROVE FALSE
  OBVIOUS
<1>1. HandlerSlots = {} /\ ReturnedSlots \subseteq {cur}
  BY DEF HandlerSlots, ReturnedSlots
<1>2. \A s \in Slots : s \in PendingSlots \cup {cur}
  BY <1>1 DEF IInv, SlotOwnership
<1>3. \A s \in 0 .. PoolSize - 1 : s = cur \/ \E k \in 1 .. Len(Pending) : Pending[k] = s
  BY <1>2 DEF PendingSlots, Slots
<1>4. Pending \in [1 .. Len(Pending) -> 0 .. PoolSize - 1] /\ Len(Pending) \in Nat
  BY PendingType DEF IInv, Slots
<1>5. PoolSize <= Len(Pending) + 1
  BY <1>3, <1>4, PoolAssumption, CoverBound
<1> QED BY <1>4, <1>5, PoolAssumption

LEMMA PutAccepts ==
  ASSUME IInv, HandlerPut
  PROVE  Channel!Accept
<1>0. [Next]_vars
  BY DEF Next, HandlerStep
<1>1. Pending' = Append(Pending, i) /\ i \in Slots
  BY PendingPut DEF IInv, TypeOK
<1>2. TypeOK' /\ SlotOwnership' /\ PendingAreEvents'
  BY <1>0, TypeStep, OwnershipStep, PendingEventsStep DEF IInv
<1>3. /\ Pending' \in [1 .. Len(Pending') -> 0 .. PoolSize - 1]
      /\ Len(Pending') \in Nat /\ Len(Pending) \in Nat
      /\ Len(Pending') = Len(Pending) + 1
      /\ \A k \in 1 .. Len(Pending) : Pending'[k] = Pending[k]
      /\ Pending'[Len(Pending) + 1] = i
  <2>1. Pending \in Seq(Slots) /\ Len(Pending) \in Nat
    BY PendingType DEF IInv
  <2>2. Append(Pending, i) \in Seq(Slots) /\ Len(Append(Pending, i)) = Len(Pending) + 1
    BY <1>1, <2>1, AppendProperties
  <2>3. Append(Pending, i) \in [1 .. Len(Append(Pending, i)) -> Slots]
    BY <2>2, LenProperties
  <2> QED BY <1>1, <2>1, <2>2, <2>3, AppendProperties DEF Slots
<1>4. Len(Pending') <= PoolSize
  <2>1. \A j, k \in 1 .. Len(Pending') : Pending'[j] = Pending'[k] => j = k
    BY <1>2 DEF SlotOwnership
  <2> DEFINE f == Pending'
             n == Len(Pending')
  <2>2. f \in [1 .. n -> 0 .. PoolSize - 1] /\ n \in Nat
    BY <1>3
  <2>3. \A j, k \in 1 .. n : f[j] = f[k] => j = k
    BY <2>1
  <2> HIDE DEF f, n
  <2>4. n <= PoolSize
    BY <2>2, <2>3, PoolAssumption, DistinctBound
  <2> QED BY <2>4 DEF n
<1>5. stored' = stored /\ stored[i] = evt /\ evt # NoEvent /\ evt' = NoEvent
  BY DEF HandlerPut, IInv, FilledWithEvent, TypeOK
<1>6. PendingEvents' = Append(PendingEvents, evt)
  <2>1. /\ PendingEvents \in Seq(Event) /\ Len(PendingEvents) = Len(Pending)
        /\ \A k \in 1 .. Len(Pending) : PendingEvents[k] = stored[Pending[k]]
    BY PendingEventsType DEF IInv
  <2>2. evt \in Event
    BY <1>5 DEF IInv, TypeOK
  <2> DEFINE a == Append(PendingEvents, evt)
  <2>3. /\ a \in Seq(Event) /\ Len(a) = Len(Pending) + 1
        /\ \A k \in 1 .. Len(Pending) : a[k] = stored[Pending[k]]
        /\ a[Len(Pending) + 1] = evt
    BY <2>1, <2>2, AppendProperties
  <2>4. /\ DOMAIN a = 1 .. Len(Pending) + 1
        /\ a = [k \in 1 .. Len(Pending) + 1 |-> a[k]]
    BY <2>3, LenProperties
  <2>5. \A k \in 1 .. Len(Pending) + 1 : a[k] = stored'[Pending'[k]]
    BY <1>3, <1>5, <2>3
  <2>6. PendingEvents' = [k \in 1 .. Len(Pending) + 1 |-> stored'[Pending'[k]]]
    BY <1>3 DEF PendingEvents
  <2> QED BY <2>4, <2>5, <2>6
<1>7. Len(PendingEvents) < PoolSize
  BY <1>3, <1>4, PendingEventsType, PoolAssumption DEF IInv
<1>8. room' = room /\ handled' = handled
  BY DEF HandlerPut, tvars
<1> QED BY <1>5, <1>6, <1>7, <1>8 DEF Channel!Accept

LEMMA ProcessHandles ==
  ASSUME IInv, ThreadProcess
  PROVE  Channel!Handle
<1>0. [Next]_vars
  BY DEF Next, ThreadStep
<1>1. /\ Len(Pending) = Len(Pending') + 1 /\ Len(Pending') \in Nat
      /\ Pending[1] = cur
      /\ \A k \in 1 .. Len(Pending') : Pending'[k] = Pending[k + 1]
  BY PendingProcess DEF IInv
<1>2. /\ PendingEvents \in Seq(Event) /\ Len(PendingEvents) = Len(Pending)
      /\ \A k \in 1 .. Len(Pending) : PendingEvents[k] = stored[Pending[k]]
  BY PendingEventsType DEF IInv
<1>3. stored' = stored /\ handled' = stored[cur] /\ evt' = evt /\ room' = room
  BY DEF ThreadProcess, hvars
<1>4. PendingEvents # <<>>
  BY <1>1, <1>2, EmptySeq
<1>5. Head(PendingEvents) = stored[cur]
  BY <1>1, <1>2, <1>4
<1>6. /\ Tail(PendingEvents) \in Seq(Event) /\ Len(Tail(PendingEvents)) = Len(Pending')
      /\ \A k \in 1 .. Len(Pending') : Tail(PendingEvents)[k] = stored[Pending[k + 1]]
  BY <1>1, <1>2, <1>4, HeadTailProperties
<1>7. PendingEvents' = [k \in 1 .. Len(Pending') |-> stored[Pending[k + 1]]]
  BY <1>1, <1>3 DEF PendingEvents
<1>8. Tail(PendingEvents) = [k \in 1 .. Len(Pending') |-> Tail(PendingEvents)[k]]
  BY <1>6, LenProperties
<1>9. PendingEvents' = Tail(PendingEvents)
  BY <1>6, <1>7, <1>8
<1> QED BY <1>3, <1>4, <1>5, <1>9 DEF Channel!Handle

\* Each step of the pool is a step of the channel or leaves it alone.
LEMMA StepImplements ==
  ASSUME IInv, [Next]_vars
  PROVE  [Channel!Next]_(Channel!vars)
<1>1. ASSUME NEW e \in Event, HandlerCall(e) PROVE Channel!Offer(e)
  <2>1. Pending' = Pending
    BY <1>1, PendingSame DEF IInv, HandlerCall, tvars
  <2>2. PendingEvents' = PendingEvents
    BY <2>1, QueueSame
  <2>3. room' \in BOOLEAN /\ (Len(PendingEvents) < PoolSize - 1 => room')
    BY <1>1, RoomWhenShort, PendingEventsType DEF HandlerCall, IInv
  <2>4. evt = NoEvent /\ evt' = e /\ handled' = handled
    BY <1>1 DEF HandlerCall, IInv, TypeOK, tvars
  <2> QED BY <2>2, <2>3, <2>4 DEF Channel!Offer
<1>2. CASE HandlerDrop
  <2>1. ~room
    BY <1>2, PoolAssumption DEF HandlerDrop, IInv, FreeSlotAhead
  <2>2. PendingEvents' = PendingEvents
    BY <1>2, PendingSame, QueueSame DEF HandlerDrop, IInv, tvars
  <2>3. evt # NoEvent /\ evt' = NoEvent /\ UNCHANGED <<room, handled>>
    BY <1>2 DEF HandlerDrop, IInv, TypeOK, tvars
  <2>4. Channel!Refuse
    BY <2>1, <2>2, <2>3 DEF Channel!Refuse
  <2> QED BY <2>4 DEF Channel!Next
<1>3. CASE HandlerPut
  BY <1>3, PutAccepts DEF Channel!Next
<1>4. CASE ThreadProcess
  BY <1>4, ProcessHandles DEF Channel!Next
<1>5. CASE HandlerSkip \/ HandlerClaim \/ HandlerFill \/ ThreadGet \/ ThreadRelease
           \/ UNCHANGED vars
  <2>1. Pending' = Pending
    BY <1>5, PendingSame DEF IInv, HandlerSkip, HandlerClaim, HandlerFill, vars, tvars
  <2>2. PendingEvents' = PendingEvents
    BY <2>1, QueueSame
  <2>3. UNCHANGED <<evt, room, handled>>
    BY <1>5 DEF HandlerSkip, HandlerClaim, HandlerFill, ThreadGet, ThreadRelease,
                vars, hvars, tvars
  <2> QED BY <2>2, <2>3 DEF Channel!vars
<1> QED
  BY <1>1, <1>2, <1>3, <1>4, <1>5 DEF Next, HandlerStep, ThreadStep, Channel!Next

\* The slots, the fifo of addresses and the two contexts together behave as the
\* channel: in order, once each, lost only if no slot was free at the call.
THEOREM PoolImplementsChannel == Spec => ImplementsChannel
<1>1. Init => Channel!Init
  <2> SUFFICES ASSUME Init PROVE Channel!Init
    OBVIOUS
  <2>1. Pending = <<>>
    BY DEF Init, Pending
  <2>2. PendingEvents = <<>>
    BY <2>1 DEF PendingEvents
  <2> QED BY <2>2 DEF Init, Channel!Init
<1>2. IInv /\ [Next]_vars => [Channel!Next]_(Channel!vars)
  BY StepImplements
<1> QED BY <1>1, <1>2, PoolInvariant, PTL DEF Spec, ImplementsChannel, Channel!Spec
================================================================================
