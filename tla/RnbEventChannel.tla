---------------------------- MODULE RnbEventChannel ----------------------------
(***************************************************************************)
(* What the event path of samples/common/src/rnb_utils.c promises, without  *)
(* its slots, its fifo of pointers and its threads: the driver offers one   *)
(* event at a time; an event is accepted, or refused when there was no room *)
(* at the moment it was offered; accepted events are handled in the order   *)
(* of acceptance, each of them once.                                        *)
(***************************************************************************)
EXTENDS Naturals, Sequences

CONSTANTS Event,      \* events the driver can report
          NoEvent,    \* the absence of one
          PoolSize    \* REDNODEBUS_UTILS_EVENT_BUFFER_SIZE

VARIABLES queue,      \* accepted and not handled yet, oldest first
          offered,    \* the event the driver is offering, or NoEvent
          room,       \* there was room when it was offered
          handled     \* the event handled last

vars == <<queue, offered, room, handled>>

Init ==
  /\ queue = <<>>
  /\ offered = NoEvent
  /\ room = TRUE
  /\ handled = NoEvent

\* Room is guaranteed while PoolSize - 1 events are not pending: one slot more
\* can be held by an event that is handled but whose slot is not returned yet.
Offer(e) ==
  /\ offered = NoEvent
  /\ offered' = e
  /\ room' \in {r \in BOOLEAN : Len(queue) < PoolSize - 1 => r}
  /\ UNCHANGED <<queue, handled>>

Accept ==
  /\ offered # NoEvent
  /\ Len(queue) < PoolSize
  /\ queue' = Append(queue, offered)
  /\ offered' = NoEvent
  /\ UNCHANGED <<room, handled>>

Refuse ==
  /\ offered # NoEvent
  /\ ~room
  /\ offered' = NoEvent
  /\ UNCHANGED <<queue, room, handled>>

Handle ==
  /\ queue # <<>>
  /\ handled' = Head(queue)
  /\ queue' = Tail(queue)
  /\ UNCHANGED <<offered, room>>

Next == (\E e \in Event : Offer(e)) \/ Accept \/ Refuse \/ Handle

Spec == Init /\ [][Next]_vars

Fairness == WF_vars(Accept \/ Refuse) /\ WF_vars(Handle)

FairSpec == Spec /\ Fairness
================================================================================
