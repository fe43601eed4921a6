------------------------------ MODULE EchoRnb_proofs ------------------------------
(***************************************************************************)
(* Proofs about EchoRnb, for every length of a payload: the client keeps a   *)
(* retry, forgets no payload and counts real exchanges.                      *)
(***************************************************************************)
EXTENDS EchoRnb, TLAPS

\* The buffer holds the text of the last payload's length if that is what came.
BufferTold == genuine <=> 1 .. received \subseteq recv_buf

\* A payload the client has not looked at is in the buffer and not counted.
UnreadIsThere == unread => BufferTold /\ ~counted

\* Before the client reads the length, the payload it was woken for is unread.
WokenForUnread == cpc \in {"test", "length"} /\ ~raced => unread

\* While nothing came in between, memcmp sees the payload whose length was read,
\* and all positions up to pos hold the text.
ComparesTheLast ==
  cpc = "compare" /\ ~raced =>
    /\ got = received /\ BufferTold /\ ~counted
    /\ 1 .. pos - 1 \subseteq recv_buf /\ pos <= got + 1

IInv ==
  /\ TypeOK /\ WaitingClientRetries /\ NoPayloadSleeps
  /\ UnreadIsThere /\ WokenForUnread /\ ComparesTheLast

--------------------------------------------------------------------------------
(* The types, in two parts: numbers and positions, flags and places.          *)

NumbersOK ==
  /\ sem \in 0 .. 1 /\ received \in 0 .. MaxLength /\ recv_buf \subseteq Positions
  /\ expecting \in 0 .. MaxLength
  /\ got \in 0 .. MaxLength /\ pos \in 0 .. MaxLength + 1

FlagsOK ==
  /\ timer \in BOOLEAN /\ queued \in BOOLEAN /\ wpc \in {"idle", "send", "rearm"}
  /\ cpc \in {"init", "expect", "send", "rearm", "wait", "test", "length", "compare",
              "cancel", "undefined"}
  /\ ret \in {"ok", "error"}
  /\ unread \in BOOLEAN /\ genuine \in BOOLEAN
  /\ counted \in BOOLEAN /\ raced \in BOOLEAN

LEMMA TypeParts == TypeOK <=> NumbersOK /\ FlagsOK
BY DEF TypeOK, NumbersOK, FlagsOK

LEMMA InitIInv == Init => IInv
<1> USE EchoRnbAssumption
<1> SUFFICES ASSUME Init PROVE IInv OBVIOUS
<1>1. TypeOK
  <2>1. NumbersOK BY DEF Init, NumbersOK, Positions
  <2>2. FlagsOK BY DEF Init, FlagsOK
  <2> QED BY <2>1, <2>2, TypeParts
<1>2. WaitingClientRetries /\ NoPayloadSleeps /\ UnreadIsThere /\ WokenForUnread /\ ComparesTheLast
  BY DEF Init, WaitingClientRetries, NoPayloadSleeps, UnreadIsThere, WokenForUnread,
         ComparesTheLast, Looking
<1> QED BY <1>1, <1>2 DEF IInv

\* Only Deliver, Expect, wait_reply, InitWorks, Length and Compare write numbers
\* that another step could find too large.
LEMMA StepNumbers == ASSUME NumbersOK, [Next]_vars PROVE NumbersOK'
<1> USE EchoRnbAssumption DEF NumbersOK, Positions, buffer, client
<1>1. CASE Deliver
  <2>1. PICK len \in 0 .. MaxLength :
          \E good \in SUBSET (1 .. len) :
            recv_buf' = (recv_buf \ (1 .. len)) \cup good /\ received' = len
    BY <1>1 DEF Deliver
  <2>2. PICK good \in SUBSET (1 .. len) :
          recv_buf' = (recv_buf \ (1 .. len)) \cup good /\ received' = len
    BY <2>1
  <2>3. recv_buf' \subseteq 1 .. MaxLength BY <2>2
  <2> QED BY <1>1, <2>2, <2>3 DEF Deliver
<1>2. CASE Expire BY <1>2 DEF Expire
<1>3. CASE wait_reply BY <1>3 DEF wait_reply
<1>4. CASE HandlerSend BY <1>4 DEF HandlerSend
<1>5. CASE HandlerRearm BY <1>5 DEF HandlerRearm
<1>6. CASE InitWorks BY <1>6 DEF InitWorks
<1>7. CASE Expect BY <1>7 DEF Expect
<1>8. CASE Send BY <1>8 DEF Send
<1>9. CASE Rearm BY <1>9 DEF Rearm
<1>10. CASE Wait BY <1>10 DEF Wait
<1>11. CASE Test BY <1>11 DEF Test
<1>12. CASE Length BY <1>12 DEF Length
<1>13. CASE Compare BY <1>13 DEF Compare
<1>14. CASE Count BY <1>14 DEF Count
<1>15. CASE Cancel BY <1>15 DEF Cancel
<1>16. CASE UNCHANGED vars BY <1>16 DEF vars
<1> QED
  BY <1>1, <1>2, <1>3, <1>4, <1>5, <1>6, <1>7, <1>8, <1>9, <1>10, <1>11, <1>12, <1>13, <1>14,
     <1>15, <1>16 DEF Next

LEMMA StepFlags == ASSUME FlagsOK, [Next]_vars PROVE FlagsOK'
<1> USE DEF FlagsOK, At, Goto, works, client, hist
<1>1. CASE Deliver
  <2>1. genuine' \in BOOLEAN BY <1>1 DEF Deliver
  <2>2. raced' \in BOOLEAN BY <1>1 DEF Deliver, Looking
  <2> QED BY <1>1, <2>1, <2>2 DEF Deliver
<1>2. CASE Expire BY <1>2 DEF Expire
<1>3. CASE wait_reply BY <1>3 DEF wait_reply
<1>4. CASE HandlerSend BY <1>4 DEF HandlerSend
<1>5. CASE HandlerRearm BY <1>5 DEF HandlerRearm
<1>6. CASE InitWorks BY <1>6 DEF InitWorks
<1>7. CASE Expect BY <1>7 DEF Expect
<1>8. CASE Send BY <1>8 DEF Send
<1>9. CASE Rearm BY <1>9 DEF Rearm
<1>10. CASE Wait
  <2>1. raced' \in BOOLEAN BY <1>10 DEF Wait
  <2> QED BY <1>10, <2>1 DEF Wait
<1>11. CASE Test BY <1>11 DEF Test
<1>12. CASE Length BY <1>12 DEF Length
<1>13. CASE Compare BY <1>13 DEF Compare
<1>14. CASE Count
  <2>1. counted' \in BOOLEAN BY <1>14 DEF Count
  <2> QED BY <1>14, <2>1 DEF Count
<1>15. CASE Cancel BY <1>15 DEF Cancel
<1>16. CASE UNCHANGED vars BY <1>16 DEF vars
<1> QED
  BY <1>1, <1>2, <1>3, <1>4, <1>5, <1>6, <1>7, <1>8, <1>9, <1>10, <1>11, <1>12, <1>13, <1>14,
     <1>15, <1>16 DEF Next

\* Whoever takes the timeout away does so where the client does not wait, or hands
\* it on: the delay to the queue, the queue to the handler, the handler to the delay.
LEMMA StepRetries == ASSUME WaitingClientRetries, [Next]_vars PROVE WaitingClientRetries'
<1> USE DEF WaitingClientRetries, Looking, At, Goto, buffer, works, client, hist
<1>1. CASE Deliver BY <1>1 DEF Deliver
<1>2. CASE Expire BY <1>2 DEF Expire
<1>3. CASE wait_reply BY <1>3 DEF wait_reply
<1>4. CASE HandlerSend BY <1>4 DEF HandlerSend
<1>5. CASE HandlerRearm BY <1>5 DEF HandlerRearm
<1>6. CASE InitWorks BY <1>6 DEF InitWorks
<1>7. CASE Expect BY <1>7 DEF Expect
<1>8. CASE Send BY <1>8 DEF Send
<1>9. CASE Rearm BY <1>9 DEF Rearm
<1>10. CASE Wait BY <1>10 DEF Wait
<1>11. CASE Test BY <1>11 DEF Test
<1>12. CASE Length BY <1>12 DEF Length
<1>13. CASE Compare BY <1>13 DEF Compare
<1>14. CASE Count BY <1>14 DEF Count
<1>15. CASE Cancel BY <1>15 DEF Cancel
<1>16. CASE UNCHANGED vars BY <1>16 DEF vars
<1> QED
  BY <1>1, <1>2, <1>3, <1>4, <1>5, <1>6, <1>7, <1>8, <1>9, <1>10, <1>11, <1>12, <1>13, <1>14,
     <1>15, <1>16 DEF Next

--------------------------------------------------------------------------------
(* The payload: its token, its place in the buffer, and the client's look.    *)

\* A new payload finds its own text in the buffer, and nothing else of it counted.
LEMMA DeliverKeeps ==
  ASSUME IInv, Deliver
  PROVE  /\ NoPayloadSleeps' /\ UnreadIsThere' /\ WokenForUnread' /\ ComparesTheLast'
<1> USE EchoRnbAssumption DEF IInv, TypeOK, Looking
<1>0. PICK len \in 0 .. MaxLength :
        \E good \in SUBSET (1 .. len) :
          /\ recv_buf' = (recv_buf \ (1 .. len)) \cup good
          /\ received' = len
          /\ genuine' = (good = 1 .. len)
  BY DEF Deliver
<1>1. PICK good \in SUBSET (1 .. len) :
        /\ recv_buf' = (recv_buf \ (1 .. len)) \cup good
        /\ received' = len
        /\ genuine' = (good = 1 .. len)
  BY <1>0
<1>2. (1 .. received' \subseteq recv_buf') <=> good = 1 .. len BY <1>1
<1>3. genuine' <=> good = 1 .. len BY ONLY <1>1
<1>4. BufferTold' BY <1>2, <1>3 DEF BufferTold
<1>5. sem' = 1 /\ unread' /\ ~counted' /\ cpc' = cpc BY DEF Deliver, client
<1>6. Looking => raced' BY DEF Deliver
<1> QED
  BY <1>4, <1>5, <1>6 DEF NoPayloadSleeps, UnreadIsThere, WokenForUnread, ComparesTheLast

\* Steps that leave the payload, the token and the look alone.
LEMMA AsideKeeps ==
  ASSUME IInv, UNCHANGED <<buffer, client, hist>>
  PROVE  /\ NoPayloadSleeps' /\ UnreadIsThere' /\ WokenForUnread' /\ ComparesTheLast'
BY DEF IInv, buffer, client, hist, NoPayloadSleeps, UnreadIsThere, WokenForUnread,
       ComparesTheLast, BufferTold

LEMMA StepPayload ==
  ASSUME IInv, [Next]_vars
  PROVE  /\ NoPayloadSleeps' /\ UnreadIsThere' /\ WokenForUnread' /\ ComparesTheLast'
<1> USE EchoRnbAssumption DEF NoPayloadSleeps, UnreadIsThere, WokenForUnread, ComparesTheLast,
      BufferTold, At, Goto
<1> USE DEF IInv, TypeOK
<1>1. CASE Deliver BY <1>1, DeliverKeeps
<1>2. CASE Expire BY <1>2, AsideKeeps DEF Expire
<1>3. CASE wait_reply BY <1>3, AsideKeeps DEF wait_reply
<1>4. CASE HandlerSend BY <1>4, AsideKeeps DEF HandlerSend
<1>5. CASE HandlerRearm BY <1>5, AsideKeeps DEF HandlerRearm
<1>6. CASE InitWorks BY <1>6 DEF InitWorks
<1>7. CASE Expect BY <1>7 DEF Expect, buffer, hist
<1>8. CASE Send BY <1>8 DEF Send, buffer, hist
<1>9. CASE Rearm BY <1>9 DEF Rearm, buffer, hist
<1>10. CASE Wait BY <1>10 DEF Wait
<1>11. CASE Test BY <1>11 DEF Test, buffer
<1>12. CASE Length BY <1>12 DEF Length, buffer
<1>13. CASE Compare BY <1>13 DEF Compare, buffer, hist
<1>14. CASE Count BY <1>14 DEF Count, buffer
<1>15. CASE Cancel BY <1>15 DEF Cancel, buffer, hist
<1>16. CASE UNCHANGED vars BY <1>16, AsideKeeps DEF vars
<1> QED
  BY <1>1, <1>2, <1>3, <1>4, <1>5, <1>6, <1>7, <1>8, <1>9, <1>10, <1>11, <1>12, <1>13, <1>14,
     <1>15, <1>16 DEF Next

--------------------------------------------------------------------------------
LEMMA StepIInv == IInv /\ [Next]_vars => IInv'
<1> SUFFICES ASSUME IInv, [Next]_vars PROVE IInv' OBVIOUS
<1>1. TypeOK' BY TypeParts, StepNumbers, StepFlags, PTL DEF IInv
<1>2. WaitingClientRetries' BY StepRetries DEF IInv
<1> QED BY <1>1, <1>2, StepPayload DEF IInv

LEMMA Invariance == Spec => []IInv
<1>1. IInv /\ UNCHANGED vars => IInv' BY StepIInv
<1> QED BY InitIInv, StepIInv, PTL DEF Spec

\* The variables keep their types (rnb-user-payload.c:66-81,192-206): the semaphore never
\* counts past one and memcmp does not leave the buffer, whatever the broker sends.
THEOREM EchoTypeCorrect == Spec => []TypeOK
<1>1. IInv => TypeOK BY DEF IInv
<1> QED BY <1>1, Invariance, PTL

\* The waiting client has a retry ahead of it: the timeout runs, is queued or is
\* handled, whoever armed or cancelled it last (rnb-user-payload.c:55-62,83-92,145-153).
THEOREM ClientRetries == Spec => []WaitingClientRetries
<1>1. IInv => WaitingClientRetries BY DEF IInv
<1> QED BY <1>1, Invariance, PTL

\* The last payload is noticed: one token and one buffer are enough for that
\* (rnb-user-payload.c:192-206).
THEOREM LastPayloadIsNoticed == Spec => []NoPayloadSleeps
<1>1. IInv => NoPayloadSleeps BY DEF IInv
<1> QED BY <1>1, Invariance, PTL

\* What is counted for an exchange is an echo, once, unless a payload came while the
\* client looked at the one before (rnb-user-payload.c:66-81,113-158).
THEOREM ExchangesAreReal == Spec => ExchangeIsReal
<1>1. IInv /\ Count => raced \/ (genuine /\ received = got /\ ~counted)
  <2> SUFFICES ASSUME IInv, Count, ~raced PROVE genuine /\ received = got /\ ~counted
    OBVIOUS
  <2>1. cpc = "compare" /\ pos > got BY DEF Count, At
  <2>2. got = received /\ BufferTold /\ ~counted /\ 1 .. pos - 1 \subseteq recv_buf /\ pos <= got + 1
    BY <2>1 DEF IInv, ComparesTheLast
  <2>3. pos - 1 = received BY <2>1, <2>2 DEF IInv, TypeOK
  <2> QED BY <2>2, <2>3 DEF BufferTold
<1>2. IInv /\ [Next]_vars => [Count => raced \/ (genuine /\ received = got /\ ~counted)]_vars
  BY <1>1
<1> QED BY <1>2, Invariance, PTL DEF Spec, ExchangeIsReal
================================================================================
