------------------------------ MODULE RnbEventPool ------------------------------
(***************************************************************************)
(* The event pool of samples/common/src/rnb_utils.c: handle_rnb_user_event  *)
(* runs in the context of the RedNodeBus driver, searches rnb_utils_events  *)
(* for a slot that is not in_use, fills it and puts its address on          *)
(* rnb_utils_event_fifo; rnb_utils_process_thread takes the addresses,      *)
(* hands the slot in place (no copy) to process_rnb_utils_event and then    *)
(* clears in_use. No lock protects the slots. Every step of one side can    *)
(* fall between any two steps of the other one.                             *)
(***************************************************************************)
EXTENDS Naturals, Sequences, FiniteSets

CONSTANTS Event, NoEvent, PoolSize

ASSUME PoolAssumption ==
  /\ PoolSize \in Nat \ {0}
  /\ NoEvent \notin Event

Slots == 0 .. PoolSize - 1

VARIABLES
  in_use,       \* [Slots -> BOOLEAN]
  stored,       \* the event kept in each slot
  fifo,         \* rnb_utils_event_fifo: slots in the order they were put
  hpc,          \* where handle_rnb_user_event is: idle, scan, fill, put
  i,            \* its loop variable
  evt,          \* its argument while it runs, NoEvent otherwise
  room,         \* history: some slot was free when it was called
  tpc,          \* where rnb_utils_process_thread is: get, process, release
  cur,          \* its rnb_utils_event pointer
  handled       \* the event process_rnb_utils_event was last called with

hvars == <<hpc, i, evt, room>>
tvars == <<tpc, cur, handled>>
vars == <<in_use, stored, fifo, hpc, i, evt, room, tpc, cur, handled>>

\* The slots that hold an accepted event not handled yet, oldest first.
Pending == IF tpc = "process" THEN <<cur>> \o fifo ELSE fifo

PendingEvents == [k \in 1 .. Len(Pending) |-> stored[Pending[k]]]

PendingSlots == {Pending[k] : k \in 1 .. Len(Pending)}

Init ==
  /\ in_use = [s \in Slots |-> FALSE]
  /\ stored = [s \in Slots |-> NoEvent]
  /\ fifo = <<>>
  /\ hpc = "idle" /\ i = 0 /\ evt = NoEvent /\ room = TRUE
  /\ tpc = "get" /\ cur = 0 /\ handled = NoEvent

--------------------------------------------------------------------------------
(* Faulty variants of the actions below, each one a plausible slip.         *)

SkipPastTheEnd ==           \* i <= ARRAY_SIZE(rnb_utils_events)
  /\ hpc = "scan" /\ in_use[i]
  /\ i' = i + 1
  /\ UNCHANGED <<in_use, stored, fifo, hpc, evt, room, tvars>>

ClaimWithoutMark ==         \* in_use is only set after the slot is on the fifo
  /\ hpc = "scan" /\ ~in_use[i]
  /\ hpc' = "fill"
  /\ UNCHANGED <<in_use, stored, fifo, i, evt, room, tvars>>

GetAndRelease ==            \* the slot is returned before it is processed
  /\ tpc = "get" /\ fifo # <<>>
  /\ cur' = Head(fifo) /\ fifo' = Tail(fifo)
  /\ in_use' = [in_use EXCEPT ![Head(fifo)] = FALSE]
  /\ tpc' = "process"
  /\ UNCHANGED <<stored, hvars, handled>>

ReleaseAndEnd ==            \* the thread handles one event: no while (1)
  /\ tpc = "release"
  /\ in_use' = [in_use EXCEPT ![cur] = FALSE]
  /\ tpc' = "ended"
  /\ UNCHANGED <<stored, fifo, hvars, cur, handled>>

DropOnFirstBusy ==          \* break in the place of continue
  /\ hpc = "scan" /\ in_use[i]
  /\ hpc' = "idle" /\ evt' = NoEvent
  /\ UNCHANGED <<in_use, stored, fifo, i, room, tvars>>

--------------------------------------------------------------------------------
(* handle_rnb_user_event                                                    *)

\* The driver reports e. One call at a time: the driver does not re-enter it.
HandlerCall(e) ==
  /\ hpc = "idle"
  /\ hpc' = "scan" /\ i' = 0 /\ evt' = e
  /\ room' = (\E s \in Slots : ~in_use[s])
  /\ UNCHANGED <<in_use, stored, fifo, tvars>>

HandlerSkip ==
  /\ hpc = "scan" /\ in_use[i]
  /\ i < PoolSize - 1
  /\ i' = i + 1
  /\ UNCHANGED <<in_use, stored, fifo, hpc, evt, room, tvars>>

\* The loop ends: the event is lost, with an error in the log.
HandlerDrop ==
  /\ hpc = "scan" /\ in_use[i]
  /\ i = PoolSize - 1
  /\ hpc' = "idle" /\ evt' = NoEvent
  /\ UNCHANGED <<in_use, stored, fifo, i, room, tvars>>

HandlerClaim ==
  /\ hpc = "scan" /\ ~in_use[i]
  /\ in_use' = [in_use EXCEPT ![i] = TRUE]
  /\ hpc' = "fill"
  /\ UNCHANGED <<stored, fifo, i, evt, room, tvars>>

HandlerFill ==
  /\ hpc = "fill"
  /\ stored' = [stored EXCEPT ![i] = evt]
  /\ hpc' = "put"
  /\ UNCHANGED <<in_use, fifo, i, evt, room, tvars>>

HandlerPut ==
  /\ hpc = "put"
  /\ fifo' = Append(fifo, i)
  /\ hpc' = "idle" /\ evt' = NoEvent
  /\ UNCHANGED <<in_use, stored, i, room, tvars>>

--------------------------------------------------------------------------------
(* rnb_utils_process_thread                                                 *)

ThreadGet ==
  /\ tpc = "get" /\ fifo # <<>>
  /\ cur' = Head(fifo) /\ fifo' = Tail(fifo)
  /\ tpc' = "process"
  /\ UNCHANGED <<in_use, stored, hvars, handled>>

\* process_rnb_utils_event reads the event in its slot.
ThreadProcess ==
  /\ tpc = "process"
  /\ handled' = stored[cur]
  /\ tpc' = "release"
  /\ UNCHANGED <<in_use, stored, fifo, hvars, cur>>

ThreadRelease ==
  /\ tpc = "release"
  /\ in_use' = [in_use EXCEPT ![cur] = FALSE]
  /\ tpc' = "get"
  /\ UNCHANGED <<stored, fifo, hvars, cur, handled>>

--------------------------------------------------------------------------------
HandlerStep == HandlerSkip \/ HandlerDrop \/ HandlerClaim \/ HandlerFill \/ HandlerPut

ThreadStep == ThreadGet \/ ThreadProcess \/ ThreadRelease

Next == (\E e \in Event : HandlerCall(e)) \/ HandlerStep \/ ThreadStep

Spec == Init /\ [][Next]_vars

\* A call of the handler runs to its end, and the thread (priority 3) runs
\* whenever the fifo is not empty; nothing makes the driver report events.
FairSpec == Spec /\ WF_vars(HandlerStep) /\ WF_vars(ThreadStep)

--------------------------------------------------------------------------------
\* Type invariant: in particular the loop variable never leaves the array.
TypeOK ==
  /\ in_use \in [Slots -> BOOLEAN]
  /\ stored \in [Slots -> Event \cup {NoEvent}]
  /\ fifo \in Seq(Slots)
  /\ hpc \in {"idle", "scan", "fill", "put"}
  /\ i \in Slots
  /\ evt \in Event \cup {NoEvent}
  /\ (evt = NoEvent) <=> (hpc = "idle")
  /\ room \in BOOLEAN
  /\ tpc \in {"get", "process", "release"}
  /\ cur \in Slots
  /\ handled \in Event \cup {NoEvent}

\* The slot the handler owns, and the one the thread still has to return.
HandlerSlots == IF hpc \in {"fill", "put"} THEN {i} ELSE {}
ReturnedSlots == IF tpc = "release" THEN {cur} ELSE {}

\* in_use is the one thing that keeps the two sides apart: a slot is marked
\* exactly while one of them, or the fifo between them, owns it, it never has
\* two owners, and its address is never on the fifo twice.
SlotOwnership ==
  /\ {s \in Slots : in_use[s]} = HandlerSlots \cup PendingSlots \cup ReturnedSlots
  /\ HandlerSlots \cap PendingSlots = {}
  /\ HandlerSlots \cap ReturnedSlots = {}
  /\ PendingSlots \cap ReturnedSlots = {}
  /\ \A j, k \in 1 .. Len(Pending) : Pending[j] = Pending[k] => j = k

\* The thread works on the slot in place: the event in a slot that is queued or
\* being processed is never overwritten, whatever the driver reports meanwhile.
PendingEventStable ==
  [][\A s \in PendingSlots : stored'[s] = stored[s]]_vars

Channel == INSTANCE RnbEventChannel WITH queue <- PendingEvents, offered <- evt

\* The pool implements the channel: accepted events are processed once and in
\* the order of the calls, and an event is lost only if every slot was taken
\* when the driver reported it, though slots are released during the search.
ImplementsChannel == Channel!Spec

\* No accepted event stays unprocessed and no call stays unanswered.
AnswersAndDelivers == Channel!Fairness
================================================================================
