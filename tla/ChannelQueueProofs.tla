------------------------- MODULE ChannelQueueProofs -------------------------
(***************************************************************************)
(* Proofs about ChannelQueue, for every number of drivers, every queue     *)
(* limit and every set of hangup causes.                                   *)
(***************************************************************************)
EXTENDS ChannelQueue, TLAPS

Frames == [type : FrameTypes, n : Nat]

\* What cw_queue_frame does to the queue and the alert pipe keeps their types,
\* for any frame.
LEMMA EnqueueType ==
  ASSUME TypeOK, NEW f \in Frames, Enqueue(f)
  PROVE  readq' \in Seq(Frames) /\ alert' \in Nat
<1>1. readq \in Seq(Frames) /\ alert \in Nat
  BY DEF TypeOK, Frames
<1>2. CASE Refused(readq, f)
  BY <1>1, <1>2 DEF Enqueue
<1>3. CASE ~Refused(readq, f)
  BY <1>1, <1>3 DEF Enqueue
<1>4. QED BY <1>2, <1>3

\* The delivery of a frame keeps the types of what it writes.
LEMMA DeliverType ==
  ASSUME TypeOK, NEW f \in Frames, Deliver(f)
  PROVE  /\ dtmfq' \in Seq(Nat) /\ last' \in Nat
         /\ pc' = "run" /\ softhangup' = softhangup
<1>1. dtmfq \in Seq(Nat) /\ last \in Nat /\ f.n \in Nat
  BY DEF TypeOK, Frames
<1>2. dtmfq' \in Seq(Nat) /\ last' \in Nat
  BY <1>1 DEF Deliver
<1>3. QED BY <1>2 DEF Deliver

\* The Boolean part of TypeOK is kept by every step.
LEMMA FlagsStep == FlagsOK /\ [Next]_vars => FlagsOK'
<1> SUFFICES ASSUME FlagsOK, [Next]_vars PROVE FlagsOK'
  OBVIOUS
<1> USE DEF FlagsOK, queueVars, hangupVars, waitVars, dtmfVars, envVars
<1>1. ASSUME NEW d \in Drivers, DriverQueue(d) PROVE FlagsOK'
  BY <1>1 DEF DriverQueue, cw_queue_frame
<1>2. ASSUME NEW d \in Drivers, QueueHangupFlag(d) \/ QueueHangupFrame(d) PROVE FlagsOK'
  BY <1>2 DEF QueueHangupFlag, QueueHangupFrame, cw_queue_frame
<1>3. ASSUME NEW cause \in Causes, cw_softhangup(cause) PROVE FlagsOK'
  BY <1>3 DEF cw_softhangup
<1>4. CASE MediaArrives \/ cw_write \/ Deadline \/ cw_channel_setwhentohangup \/ SetDefer
  BY <1>4 DEF MediaArrives, cw_write, Deadline, cw_channel_setwhentohangup,
              cw_queue_frame, SetDefer
<1>5. CASE WaitArm \/ WaitPoll \/ PollReady \/ PollTimeout \/ PollInterrupted
  BY <1>5 DEF WaitArm, WaitLimit, WaitPoll, PollReady, PollTimeout, PollInterrupted, WaitReturn, WaitOver
<1>6. CASE ReadHungup \/ ReadDeferred
  BY <1>6 DEF ReadHungup, ReadDeferred
<1>7. CASE ReadQueue
  BY <1>7 DEF ReadQueue, Deliver, DeliverNull
<1>8. CASE ReadDriver
  BY <1>8 DEF ReadDriver, Deliver, DeliverNull
<1>9. CASE PbxTest \/ PbxClearAsyncGoto \/ PbxClearTimeout
  BY <1>9 DEF PbxTest, PbxClearAsyncGoto, PbxClearTimeout
<1>10. CASE UNCHANGED vars
  BY <1>10 DEF vars
<1>11. QED
  BY <1>1, <1>2, <1>3, <1>4, <1>5, <1>6, <1>7, <1>8, <1>9, <1>10 DEF Next, Owner

\* What TypeOK says of the variables that are not Boolean.
DataOK ==
  /\ readq \in Seq(Frames) /\ dtmfq \in Seq(Nat)
  /\ alert \in Nat /\ media \in Nat /\ nq \in Nat /\ sent \in Nat /\ last \in Nat
  /\ softhangup \subseteq Causes \cup {"dev", "timeout"}
  /\ asked \subseteq Causes \cup {"timeout"}
  /\ whentohangup \in {"none", "future", "now", "past"}
  /\ ms \in {"finite", "forever"} /\ rms \in {"finite", "forever"}
  /\ pc \in {"run", "armed", "poll", "read", "exit", "clearasync",
             "cleartimeout", "hungup"}
  /\ drv \in [Drivers -> {"idle", "hangup"}]

\* TypeOK is FlagsOK and DataOK: the Boolean variables of the channel apart from
\* the others.
LEMMA TypeParts == TypeOK <=> FlagsOK /\ DataOK
BY DEF TypeOK, DataOK, Frames

\* TypeOK holds in every reachable state of the channel.
THEOREM TypeCorrect == Spec => []TypeOK
<1>1. Init => TypeOK
  <2>1. Init => FlagsOK
    BY DEF Init, FlagsOK
  <2>2. Init => DataOK
    BY DEF Init, DataOK
  <2>3. QED BY <2>1, <2>2, TypeParts
<1>2. TypeOK /\ [Next]_vars => TypeOK'
  <2> SUFFICES ASSUME TypeOK, [Next]_vars PROVE TypeOK'
    OBVIOUS
  <2>0. DataOK /\ FlagsOK /\ FlagsOK'
    BY FlagsStep, TypeParts
  <2> SUFFICES DataOK'
    BY <2>0 DEF TypeOK, DataOK, Frames
  <2> USE DEF queueVars, hangupVars, waitVars, dtmfVars, envVars
  <2>1. ASSUME NEW d \in Drivers, DriverQueue(d) PROVE DataOK'
    <3>1. PICK f \in Frames : Enqueue(f) /\ sent' \in Nat
      <4>1. ASSUME NEW t \in {"voice", "answer"}, NEW n \in Nat
            PROVE Frame(t, n) \in Frames
        BY DEF Frame, Frames, FrameTypes
      <4>2. ASSUME NEW n \in Nat PROVE Frame("dtmf", n) \in Frames
        BY DEF Frame, Frames, FrameTypes
      <4>3. sent \in Nat /\ sent + 1 \in Nat
        BY <2>0 DEF DataOK
      <4>4. QED BY <2>1, <4>1, <4>2, <4>3 DEF DriverQueue, cw_queue_frame
    <3>2. QED BY <2>0, <2>1, <3>1, EnqueueType DEF DriverQueue, cw_queue_frame, DataOK
  <2>2. ASSUME NEW d \in Drivers, QueueHangupFlag(d) PROVE DataOK'
    BY <2>0, <2>2 DEF QueueHangupFlag, DataOK
  <2>3. ASSUME NEW d \in Drivers, QueueHangupFrame(d) PROVE DataOK'
    <3>1. Frame("hangup", 0) \in Frames
      BY DEF Frame, Frames, FrameTypes
    <3>2. QED
      BY <2>0, <2>3, <3>1, EnqueueType DEF QueueHangupFrame, cw_queue_frame, DataOK
  <2>4. CASE MediaArrives
    BY <2>0, <2>4 DEF MediaArrives, DataOK
  <2>5. ASSUME NEW cause \in Causes, cw_softhangup(cause) PROVE DataOK'
    <3>1. NullFrame \in Frames
      BY DEF NullFrame, Frame, Frames, FrameTypes
    <3>2. QED BY <2>0, <2>5, <3>1, EnqueueType DEF cw_softhangup, DataOK
  <2>6. CASE cw_write
    BY <2>0, <2>6 DEF cw_write, Checked, DataOK
  <2>7. CASE Deadline
    BY <2>0, <2>7 DEF Deadline, DataOK
  <2>8. CASE cw_channel_setwhentohangup
    <3>1. NullFrame \in Frames
      BY DEF NullFrame, Frame, Frames, FrameTypes
    <3>2. QED
      BY <2>0, <2>8, <3>1, EnqueueType DEF cw_channel_setwhentohangup, cw_queue_frame, DataOK
  <2>9. CASE SetDefer
    BY <2>0, <2>9 DEF SetDefer, DataOK
  <2>10. CASE WaitArm
    BY <2>0, <2>10 DEF WaitArm, WaitLimit, DataOK
  <2>11. CASE WaitPoll
    BY <2>0, <2>11 DEF WaitPoll, DataOK
  <2>12. CASE PollReady \/ PollTimeout
    BY <2>0, <2>12 DEF PollReady, PollTimeout, WaitReturn, WaitOver, DataOK
  <2>13. CASE PollInterrupted
    BY <2>0, <2>13 DEF PollInterrupted, WaitOver, DataOK
  <2>14. CASE ReadHungup
    BY <2>0, <2>14 DEF ReadHungup, Checked, DataOK
  <2>15. CASE ReadDeferred
    BY <2>0, <2>15 DEF ReadDeferred, DataOK
  <2>16. CASE ReadQueue
    <3>1. Head(readq) \in Frames /\ readq' \in Seq(Frames) /\ alert' \in Nat
      BY <2>0, <2>16 DEF ReadQueue, TakeAlert, DataOK
    <3>2. CASE DeliverNull
      BY <2>0, <2>16, <3>1, <3>2 DEF ReadQueue, DeliverNull, DataOK
    <3>3. CASE Deliver(Head(readq))
      BY <2>0, <2>16, <3>1, <3>3, DeliverType DEF ReadQueue, DataOK
    <3>4. QED BY <2>16, <3>2, <3>3 DEF ReadQueue
  <2>17. CASE ReadDriver
    <3>0. readq' \in Seq(Frames)
      <4>1. Frame("modem", 0) \in Frames
        BY DEF Frame, Frames, FrameTypes
      <4>2. ASSUME NEW n \in 1..Excess
            PROVE  [i \in 1..n |-> Frame("modem", 0)] \in Seq(Frames)
        BY <4>1, LimitsAssumption
      <4>3. QED BY <2>0, <2>17, <4>2 DEF ReadDriver, DataOK
    <3>1. alert' \in Nat /\ sent' \in Nat /\ media' \in Nat
      BY <2>0, <2>17 DEF ReadDriver, TakeAlert, DataOK
    <3>2. CASE DeliverNull
      BY <2>0, <2>17, <3>0, <3>1, <3>2 DEF ReadDriver, DeliverNull, DataOK
    <3>3. ASSUME NEW f \in Frames, Deliver(f) PROVE DataOK'
      BY <2>0, <2>17, <3>0, <3>1, <3>3, DeliverType DEF ReadDriver, DataOK
    <3>4. DeliverNull \/ \E f \in Frames : Deliver(f)
      BY <2>0, <2>17 DEF ReadDriver, DataOK, Frames, Frame, NullFrame, FrameTypes
    <3>5. QED BY <3>2, <3>3, <3>4
  <2>18. CASE PbxTest
    BY <2>0, <2>18 DEF PbxTest, DataOK
  <2>19. CASE PbxClearAsyncGoto
    BY <2>0, <2>19 DEF PbxClearAsyncGoto, DataOK
  <2>20. CASE PbxClearTimeout
    BY <2>0, <2>20 DEF PbxClearTimeout, DataOK
  <2>21. CASE UNCHANGED vars
    BY <2>0, <2>21 DEF vars, DataOK
  <2>22. QED
    BY <2>1, <2>2, <2>3, <2>4, <2>5, <2>6, <2>7, <2>8, <2>9, <2>10, <2>11, <2>12,
       <2>13, <2>14, <2>15, <2>16, <2>17, <2>18, <2>19, <2>20, <2>21 DEF Next, Owner
<1>3. QED BY <1>1, <1>2, PTL DEF Spec
-----------------------------------------------------------------------------
(* The queue and its alert pipe *)

PopQueue == readq # <<>> /\ readq' = Tail(readq) /\ TakeAlert
StuffQueue ==
  /\ readq = <<>> /\ TakeAlert
  /\ readq' \in Seq(Frames) /\ Len(readq') <= Excess
  /\ \A i \in 1..Len(readq') : readq'[i].type = "modem"
IdleQueue == readq' = readq /\ (alert' = alert \/ (readq = <<>> /\ TakeAlert))

\* Every step of every thread queues one frame, takes the oldest one, puts the
\* excess of a driver's read into an empty queue, or leaves the queue alone; and
\* no step changes whether the channel has an alert pipe.
LEMMA QueueStep ==
  ASSUME TypeOK, [Next]_vars
  PROVE  /\ pipe' = pipe
         /\ (\E f \in Frames : Enqueue(f)) \/ PopQueue \/ StuffQueue \/ IdleQueue
<1> USE DEF queueVars, hangupVars, waitVars, dtmfVars, envVars
<1>0. sent + 1 \in Nat
  BY DEF TypeOK
<1>1. ASSUME NEW t \in FrameTypes, NEW n \in Nat PROVE Frame(t, n) \in Frames
  BY <1>1 DEF Frame, Frames
<1>2. ASSUME NEW d \in Drivers, DriverQueue(d)
      PROVE  pipe' = pipe /\ \E f \in Frames : Enqueue(f)
  BY <1>0, <1>1, <1>2 DEF DriverQueue, cw_queue_frame, FrameTypes
<1>3. ASSUME NEW d \in Drivers, QueueHangupFrame(d)
      PROVE  pipe' = pipe /\ \E f \in Frames : Enqueue(f)
  BY <1>1, <1>3 DEF QueueHangupFrame, cw_queue_frame, FrameTypes
<1>4. ASSUME NEW cause \in Causes, cw_softhangup(cause)
      PROVE  pipe' = pipe /\ \E f \in Frames : Enqueue(f)
  BY <1>1, <1>4 DEF cw_softhangup, NullFrame, FrameTypes
<1>5. CASE ReadQueue
  BY <1>5 DEF ReadQueue, PopQueue
<1>6. CASE ReadDriver
  <2>1. CASE readq' = readq
    BY <1>6, <2>1 DEF ReadDriver, IdleQueue
  <2>2. ASSUME NEW n \in 1..Excess, readq' = [i \in 1..n |-> Frame("modem", 0)]
        PROVE  StuffQueue
    <3>1. Frame("modem", 0) \in Frames /\ Frame("modem", 0).type = "modem"
      BY <1>1 DEF Frame, FrameTypes
    <3>2. readq' \in Seq(Frames) /\ Len(readq') = n /\ n <= Excess
      BY <2>2, <3>1, LimitsAssumption
    <3>3. QED BY <1>6, <2>2, <3>1, <3>2 DEF ReadDriver, StuffQueue
  <2>3. QED BY <1>6, <2>1, <2>2 DEF ReadDriver
<1>7. ASSUME NEW d \in Drivers, QueueHangupFlag(d) PROVE pipe' = pipe /\ IdleQueue
  BY <1>7 DEF QueueHangupFlag, IdleQueue
<1>a. CASE cw_channel_setwhentohangup
  BY <1>1, <1>a DEF cw_channel_setwhentohangup, cw_queue_frame, NullFrame, FrameTypes
<1>8. CASE MediaArrives \/ cw_write \/ Deadline \/ SetDefer
  BY <1>8 DEF MediaArrives, cw_write, Deadline, SetDefer, IdleQueue
<1>9. CASE WaitArm \/ WaitPoll \/ PollReady \/ PollTimeout \/ PollInterrupted
  BY <1>9 DEF WaitArm, WaitLimit, WaitPoll, PollReady, PollTimeout, PollInterrupted, WaitReturn, IdleQueue
<1>10. CASE ReadHungup \/ ReadDeferred
  BY <1>10 DEF ReadHungup, ReadDeferred, IdleQueue
<1>11. CASE PbxTest \/ PbxClearAsyncGoto \/ PbxClearTimeout
  BY <1>11 DEF PbxTest, PbxClearAsyncGoto, PbxClearTimeout, IdleQueue
<1>12. CASE UNCHANGED vars
  BY <1>12 DEF vars, IdleQueue
<1>13. QED
  BY <1>2, <1>3, <1>4, <1>5, <1>6, <1>7, <1>a, <1>8, <1>9, <1>10, <1>11, <1>12 DEF Next, Owner

\* The alert pipe holds one word per queued frame, but for the Excess frames of
\* one read of the driver at most, in every reachable state.
THEOREM AlertCorrect == Spec => []AlertMatchesQueue
<1>1. Init => AlertMatchesQueue
  BY LimitsAssumption DEF Init, AlertMatchesQueue
<1>2. TypeOK /\ AlertMatchesQueue /\ [Next]_vars => AlertMatchesQueue'
  <2> SUFFICES ASSUME TypeOK, AlertMatchesQueue, [Next]_vars PROVE AlertMatchesQueue'
    OBVIOUS
  <2>0. readq \in Seq(Frames) /\ pipe' = pipe /\ alert \in Nat
    BY QueueStep DEF TypeOK, Frames
  <2>1. ASSUME NEW f \in Frames, Enqueue(f) PROVE AlertMatchesQueue'
    BY <2>0, <2>1, LimitsAssumption DEF Enqueue, AlertMatchesQueue
  <2>2. CASE PopQueue
    BY <2>0, <2>2, LimitsAssumption DEF PopQueue, TakeAlert, AlertMatchesQueue
  <2>3. CASE IdleQueue
    BY <2>0, <2>3, LimitsAssumption DEF IdleQueue, TakeAlert, AlertMatchesQueue
  <2>4. CASE StuffQueue
    BY <2>0, <2>4, LimitsAssumption DEF StuffQueue, TakeAlert, AlertMatchesQueue
  <2>5. QED BY <2>1, <2>2, <2>3, <2>4, QueueStep
<1>3. QED BY <1>1, <1>2, TypeCorrect, PTL DEF Spec

\* Nothing is queued behind a HANGUP frame in any reachable state, for any number of
\* driver threads and whatever the limits of cw_queue_frame are.
THEOREM HangupLastCorrect == Spec => []HangupLast
<1>1. Init => HangupLast
  BY DEF Init, HangupLast
<1>2. TypeOK /\ HangupLast /\ [Next]_vars => HangupLast'
  <2> SUFFICES ASSUME TypeOK, HangupLast, [Next]_vars PROVE HangupLast'
    OBVIOUS
  <2>0. readq \in Seq(Frames)
    BY DEF TypeOK, Frames
  <2>1. ASSUME NEW f \in Frames, Enqueue(f) PROVE HangupLast'
    <3>1. CASE Refused(readq, f)
      BY <2>1, <3>1 DEF Enqueue, HangupLast
    <3>2. CASE ~Refused(readq, f)
      <4>1. readq' = Append(readq, f) /\ Len(readq') = Len(readq) + 1
        BY <2>0, <2>1, <3>2 DEF Enqueue
      <4>2. \A i \in 1..Len(readq) : readq'[i] = readq[i] /\ readq[i].type # "hangup"
        BY <2>0, <3>2, <4>1 DEF Refused, HasHangup
      <4>3. readq'[Len(readq')] = f
        BY <2>0, <4>1
      <4>4. QED
        BY <2>0, <4>1, <4>2, <4>3 DEF HangupLast
    <3>3. QED BY <3>1, <3>2
  <2>2. CASE PopQueue
    BY <2>0, <2>2 DEF PopQueue, HangupLast
  <2>3. CASE IdleQueue
    BY <2>3 DEF IdleQueue, HangupLast
  <2>4. CASE StuffQueue
    BY <2>4, LimitsAssumption DEF StuffQueue, HangupLast
  <2>5. QED BY <2>1, <2>2, <2>3, <2>4, QueueStep
<1>3. QED BY <1>1, <1>2, TypeCorrect, PTL DEF Spec
-----------------------------------------------------------------------------
(* DTMF digits *)

\* The delivery of a digit newer than every digit delivered or deferred, and
\* older than every digit still queued, keeps the order.
LEMMA DeliverInOrder ==
  ASSUME TypeOK, NEW f \in Frames, Deliver(f),
         readq' \in Seq(Frames), sent' \in Nat, sent <= sent',
         defer \/ dtmfq = <<>>,
         last <= sent, \A j \in 1..Len(dtmfq) : last < dtmfq[j] /\ dtmfq[j] <= sent,
         \A i, j \in 1..Len(dtmfq) : i < j => dtmfq[i] < dtmfq[j],
         f.type = "dtmf" => /\ last < f.n /\ f.n <= sent'
                            /\ \A j \in 1..Len(dtmfq) : dtmfq[j] < f.n,
         \A i \in 1..Len(readq') : readq'[i].type = "dtmf" =>
            /\ last < readq'[i].n /\ readq'[i].n <= sent'
            /\ f.type = "dtmf" => f.n < readq'[i].n
            /\ \A j \in 1..Len(dtmfq) : dtmfq[j] < readq'[i].n
            /\ \A j \in 1..Len(readq') :
                 i < j /\ readq'[j].type = "dtmf" => readq'[i].n < readq'[j].n
  PROVE  DtmfInOrder'
<1>0. dtmfq \in Seq(Nat) /\ last \in Nat /\ sent \in Nat /\ f.n \in Nat /\ defer \in BOOLEAN
  BY DEF TypeOK, FlagsOK, Frames
<1>1. CASE f.type = "dtmf" /\ ~defer
  <2>1. last' = f.n /\ dtmfq' = <<>>
    BY <1>1 DEF Deliver
  <2>2. QED BY <1>0, <1>1, <2>1 DEF DtmfInOrder
<1>2. CASE f.type = "dtmf" /\ defer /\ Len(dtmfq) < MaxDtmfq
  <2>1. last' = last /\ dtmfq' = Append(dtmfq, f.n)
    BY <1>2 DEF Deliver
  <2>2. /\ Len(dtmfq') = Len(dtmfq) + 1 /\ dtmfq'[Len(dtmfq) + 1] = f.n
        /\ \A j \in 1..Len(dtmfq) : dtmfq'[j] = dtmfq[j]
    BY <1>0, <2>1
  <2>3. \A j \in 1..Len(dtmfq') : j \in 1..Len(dtmfq) \/ j = Len(dtmfq) + 1
    BY <1>0, <2>2
  <2>4. \A i \in 1..Len(dtmfq') :
          /\ last' < dtmfq'[i] /\ dtmfq'[i] <= sent'
          /\ \A j \in 1..Len(dtmfq') : i < j => dtmfq'[i] < dtmfq'[j]
    <3>1. ASSUME NEW i \in 1..Len(dtmfq)
          PROVE  dtmfq[i] \in Nat /\ last < dtmfq[i] /\ dtmfq[i] <= sent' /\ dtmfq[i] < f.n
      <4>1. dtmfq[i] \in Nat
        BY <1>0
      <4>2. last < dtmfq[i] /\ dtmfq[i] <= sent /\ dtmfq[i] < f.n
        BY <1>2
      <4>3. QED BY <1>0, <4>1, <4>2
    <3>2. ASSUME NEW i \in 1..Len(dtmfq'), NEW j \in 1..Len(dtmfq'), i < j
          PROVE  dtmfq'[i] < dtmfq'[j]
      <4>1. i \in 1..Len(dtmfq)
        BY <1>0, <2>2, <3>2
      <4>2. CASE j \in 1..Len(dtmfq)
        BY <2>2, <3>2, <4>1, <4>2
      <4>3. CASE j = Len(dtmfq) + 1
        BY <2>2, <3>1, <4>1, <4>3
      <4>4. QED BY <2>3, <4>2, <4>3
    <3>3. last < f.n /\ f.n <= sent'
      BY <1>2
    <3>4. QED BY <2>1, <2>2, <2>3, <3>1, <3>2, <3>3
  <2>5. \A i \in 1..Len(readq') : readq'[i].type = "dtmf" =>
          \A j \in 1..Len(dtmfq') : dtmfq'[j] < readq'[i].n
    BY <1>2, <2>2, <2>3
  <2>6. last' <= sent'
    BY <1>0, <2>1
  <2>7. QED BY <2>1, <2>4, <2>5, <2>6 DEF DtmfInOrder
<1>3. CASE ~(f.type = "dtmf" /\ ~defer) /\ ~(f.type = "dtmf" /\ defer /\ Len(dtmfq) < MaxDtmfq)
  <2>1. last' = last /\ dtmfq' = dtmfq
    BY <1>3 DEF Deliver
  <2>2. last <= sent' /\ \A j \in 1..Len(dtmfq) : dtmfq[j] \in Nat /\ dtmfq[j] <= sent'
    BY <1>0
  <2>3. QED BY <2>1, <2>2 DEF DtmfInOrder
<1>4. QED BY <1>0, <1>1, <1>2, <1>3

\* Digits reach the application in the order the device sent them, in every
\* reachable state.
THEOREM DtmfCorrect == Spec => []DtmfInOrder
<1>1. Init => DtmfInOrder
  BY DEF Init, DtmfInOrder
<1>2. TypeOK /\ DtmfInOrder /\ [Next]_vars => DtmfInOrder'
  <2> SUFFICES ASSUME TypeOK, DtmfInOrder, [Next]_vars PROVE DtmfInOrder'
    OBVIOUS
  <2> USE DEF queueVars, hangupVars, waitVars, dtmfVars, envVars
  <2>0. /\ readq \in Seq(Frames) /\ dtmfq \in Seq(Nat)
        /\ last \in Nat /\ sent \in Nat
    BY DEF TypeOK, Frames
  <2>a. /\ \A i \in 1..Len(readq) : readq[i].n \in Nat
        /\ \A i \in 1..Len(dtmfq) : dtmfq[i] \in Nat
        /\ Len(readq) \in Nat /\ Len(dtmfq) \in Nat
    <3>1. \A i \in 1..Len(readq) : readq[i] \in Frames
      BY <2>0
    <3>2. \A f \in Frames : f.n \in Nat
      BY DEF Frames
    <3>3. QED BY <2>0, <3>1, <3>2
  <2>1. ASSUME NEW f \in Frames, Enqueue(f), dtmfq' = dtmfq, last' = last,
               \/ f.type # "dtmf" /\ sent' = sent
               \/ f.n = sent + 1 /\ sent' = sent + 1
        PROVE  DtmfInOrder'
    <3>1. CASE readq' = readq
      <4>1. sent <= sent' /\ sent' \in Nat
        BY <2>0, <2>1
      <4>2. last <= sent' /\ \A i \in 1..Len(dtmfq) : dtmfq[i] <= sent'
        BY <2>0, <2>a, <4>1 DEF DtmfInOrder
      <4>3. \A i \in 1..Len(readq) : readq[i].type = "dtmf" => readq[i].n <= sent'
        BY <2>0, <2>a, <4>1 DEF DtmfInOrder
      <4>4. dtmfq' = dtmfq /\ last' = last
        BY <2>1
      <4>5. QED BY <3>1, <4>2, <4>3, <4>4 DEF DtmfInOrder
    <3>2. CASE readq' = Append(readq, f)
      <4>1. /\ Len(readq') = Len(readq) + 1 /\ readq'[Len(readq) + 1] = f
            /\ \A i \in 1..Len(readq) : readq'[i] = readq[i]
        BY <2>0, <3>2
      <4>2. \A i \in 1..Len(readq') : i \in 1..Len(readq) \/ i = Len(readq) + 1
        BY <2>0, <4>1
      <4>3. /\ sent <= sent' /\ sent' \in Nat
            /\ f.type = "dtmf" => f.n = sent' /\ sent < f.n
        BY <2>0, <2>1
      <4>4. \A i \in 1..Len(readq') : readq'[i].type = "dtmf" =>
              /\ last < readq'[i].n /\ readq'[i].n <= sent'
              /\ \A j \in 1..Len(dtmfq) : dtmfq[j] < readq'[i].n
        <5>1. ASSUME NEW i \in 1..Len(readq), readq[i].type = "dtmf"
              PROVE  /\ last < readq[i].n /\ readq[i].n <= sent'
                     /\ \A j \in 1..Len(dtmfq) : dtmfq[j] < readq[i].n
          BY <2>0, <2>a, <4>3, <5>1 DEF DtmfInOrder
        <5>2. ASSUME f.type = "dtmf"
              PROVE  /\ last < f.n /\ f.n <= sent'
                     /\ \A j \in 1..Len(dtmfq) : dtmfq[j] < f.n
          BY <2>0, <2>a, <4>3, <5>2 DEF DtmfInOrder
        <5>3. QED BY <4>1, <4>2, <5>1, <5>2
      <4>5. \A i, j \in 1..Len(readq') :
              i < j /\ readq'[i].type = "dtmf" /\ readq'[j].type = "dtmf"
                => readq'[i].n < readq'[j].n
        <5>1. ASSUME NEW i \in 1..Len(readq), readq[i].type = "dtmf", f.type = "dtmf"
              PROVE  readq[i].n < f.n
          BY <2>0, <2>a, <4>3, <5>1 DEF DtmfInOrder
        <5>2. QED BY <2>0, <4>1, <4>2, <5>1 DEF DtmfInOrder
      <4>6. \A i \in 1..Len(dtmfq) :
              /\ last < dtmfq[i] /\ dtmfq[i] <= sent'
              /\ \A j \in 1..Len(dtmfq) : i < j => dtmfq[i] < dtmfq[j]
        BY <2>0, <2>a, <4>3 DEF DtmfInOrder
      <4>7. last <= sent'
        BY <2>0, <4>3 DEF DtmfInOrder
      <4>8. QED BY <2>1, <4>4, <4>5, <4>6, <4>7 DEF DtmfInOrder
    <3>3. QED BY <2>1, <3>1, <3>2 DEF Enqueue
  <2>2. ASSUME NEW d \in Drivers, DriverQueue(d) PROVE DtmfInOrder'
    <3>1. CASE sent' = sent
      <4>1. PICK t \in {"voice", "answer"} : Enqueue(Frame(t, 0))
        BY <2>0, <2>2, <3>1 DEF DriverQueue, cw_queue_frame
      <4>2. Frame(t, 0) \in Frames /\ Frame(t, 0).type # "dtmf"
        BY DEF Frame, Frames, FrameTypes
      <4>3. QED BY <2>1, <2>2, <3>1, <4>1, <4>2 DEF DriverQueue
    <3>2. CASE sent' = sent + 1 /\ Enqueue(Frame("dtmf", sent + 1))
      <4>1. Frame("dtmf", sent + 1) \in Frames /\ Frame("dtmf", sent + 1).n = sent + 1
        BY <2>0 DEF Frame, Frames, FrameTypes
      <4>2. QED BY <2>1, <2>2, <3>2, <4>1 DEF DriverQueue
    <3>3. QED BY <2>2, <3>1, <3>2 DEF DriverQueue, cw_queue_frame
  <2>3. ASSUME NEW d \in Drivers, QueueHangupFrame(d) PROVE DtmfInOrder'
    <3>1. Frame("hangup", 0) \in Frames /\ Frame("hangup", 0).type # "dtmf"
      BY DEF Frame, Frames, FrameTypes
    <3>2. QED BY <2>1, <2>3, <3>1 DEF QueueHangupFrame, cw_queue_frame
  <2>4. ASSUME NEW cause \in Causes, cw_softhangup(cause) PROVE DtmfInOrder'
    <3>1. NullFrame \in Frames /\ NullFrame.type # "dtmf"
      BY DEF NullFrame, Frame, Frames, FrameTypes
    <3>2. QED BY <2>1, <2>4, <3>1 DEF cw_softhangup
  <2>b. CASE cw_channel_setwhentohangup
    <3>1. NullFrame \in Frames /\ NullFrame.type # "dtmf"
      BY DEF NullFrame, Frame, Frames, FrameTypes
    <3>2. QED BY <2>1, <2>b, <3>1 DEF cw_channel_setwhentohangup, cw_queue_frame
  <2>5. CASE ReadDeferred
    <3>1. /\ Len(dtmfq') = Len(dtmfq) - 1 /\ 1 \in 1..Len(dtmfq)
          /\ \A i \in 1..Len(dtmfq') : dtmfq'[i] = dtmfq[i + 1] /\ i + 1 \in 1..Len(dtmfq)
          /\ last' = dtmfq[1] /\ readq' = readq /\ sent' = sent
      BY <2>0, <2>5 DEF ReadDeferred
    <3>2. \A i \in 1..Len(dtmfq') :
            /\ last' < dtmfq'[i] /\ dtmfq'[i] <= sent
            /\ \A j \in 1..Len(dtmfq') : i < j => dtmfq'[i] < dtmfq'[j]
      <4>1. ASSUME NEW i \in 1..Len(dtmfq') PROVE last' < dtmfq'[i] /\ dtmfq'[i] <= sent
        <5>1. 1 < i + 1
          BY <2>a, <3>1
        <5>2. QED BY <3>1, <5>1 DEF DtmfInOrder
      <4>2. ASSUME NEW i \in 1..Len(dtmfq'), NEW j \in 1..Len(dtmfq'), i < j
            PROVE  dtmfq'[i] < dtmfq'[j]
        <5>1. i + 1 < j + 1
          BY <2>a, <3>1, <4>2
        <5>2. QED BY <3>1, <5>1 DEF DtmfInOrder
      <4>3. QED BY <4>1, <4>2
    <3>3. last' <= sent /\ \A i \in 1..Len(readq) : readq[i].type = "dtmf" =>
            /\ last' < readq[i].n /\ readq[i].n <= sent
            /\ \A j \in 1..Len(dtmfq') : dtmfq'[j] < readq[i].n
      BY <2>0, <2>a, <3>1 DEF DtmfInOrder
    <3>4. QED BY <3>1, <3>2, <3>3 DEF DtmfInOrder
  <2>6. CASE ReadQueue
    <3>1. /\ Head(readq) \in Frames /\ readq' \in Seq(Frames) /\ Head(readq) = readq[1]
          /\ Len(readq') = Len(readq) - 1 /\ 1 \in 1..Len(readq)
          /\ \A i \in 1..Len(readq') : readq'[i] = readq[i + 1] /\ i + 1 \in 1..Len(readq)
      BY <2>0, <2>6 DEF ReadQueue
    <3>2. sent' = sent
      BY <2>6 DEF ReadQueue
    <3>a. ASSUME NEW i \in 1..Len(readq'), readq'[i].type = "dtmf"
          PROVE  /\ last < readq'[i].n /\ readq'[i].n <= sent
                 /\ Head(readq).type = "dtmf" => Head(readq).n < readq'[i].n
                 /\ \A j \in 1..Len(dtmfq) : dtmfq[j] < readq'[i].n
      <4>1. 1 < i + 1
        BY <2>a, <3>1
      <4>2. QED BY <3>1, <3>a, <4>1 DEF DtmfInOrder
    <3>b. ASSUME NEW i \in 1..Len(readq'), NEW j \in 1..Len(readq'), i < j,
                 readq'[i].type = "dtmf", readq'[j].type = "dtmf"
          PROVE  readq'[i].n < readq'[j].n
      <4>1. i + 1 < j + 1
        BY <2>a, <3>1, <3>b
      <4>2. QED BY <3>1, <3>b, <4>1 DEF DtmfInOrder
    <3>3. CASE DeliverNull
      <4>1. dtmfq' = dtmfq /\ last' = last
        BY <3>3 DEF DeliverNull
      <4>2. QED BY <3>2, <3>a, <3>b, <4>1 DEF DtmfInOrder
    <3>4. CASE Deliver(Head(readq))
      <4>1. defer \/ dtmfq = <<>>
        BY <2>6 DEF ReadQueue, ReadGoesOn
      <4>2. \A i \in 1..Len(readq') : readq'[i].type = "dtmf" =>
              /\ last < readq'[i].n /\ readq'[i].n <= sent
              /\ Head(readq).type = "dtmf" => Head(readq).n < readq'[i].n
              /\ \A j \in 1..Len(dtmfq) : dtmfq[j] < readq'[i].n
              /\ \A j \in 1..Len(readq') :
                   i < j /\ readq'[j].type = "dtmf" => readq'[i].n < readq'[j].n
        BY <3>a, <3>b
      <4>3. Head(readq).type = "dtmf" =>
              /\ last < Head(readq).n /\ Head(readq).n <= sent
              /\ \A j \in 1..Len(dtmfq) : dtmfq[j] < Head(readq).n
        BY <2>0, <3>1 DEF DtmfInOrder
      <4>4. /\ last <= sent /\ \A j \in 1..Len(dtmfq) : last < dtmfq[j] /\ dtmfq[j] <= sent
            /\ \A i, j \in 1..Len(dtmfq) : i < j => dtmfq[i] < dtmfq[j]
        BY DEF DtmfInOrder
      <4>5. sent' \in Nat /\ sent <= sent'
        BY <2>0, <3>2
      <4>6. QED BY <3>1, <3>2, <3>4, <4>1, <4>2, <4>3, <4>4, <4>5, DeliverInOrder
    <3>5. QED BY <2>6, <3>3, <3>4 DEF ReadQueue
  <2>7. CASE ReadDriver
    <3>a. Frame("modem", 0) \in Frames /\ Frame("modem", 0).type # "dtmf"
      BY DEF Frame, Frames, FrameTypes
    <3>b. ASSUME NEW n \in 1..Excess, readq' = [i \in 1..n |-> Frame("modem", 0)]
          PROVE  readq' \in Seq(Frames) /\ \A i \in 1..Len(readq') : readq'[i].type # "dtmf"
      <4>1. readq' \in Seq(Frames) /\ Len(readq') = n
        BY <3>a, <3>b, LimitsAssumption
      <4>2. QED BY <3>a, <3>b, <4>1
    <3>1. /\ readq = <<>> /\ (defer \/ dtmfq = <<>>)
          /\ readq' \in Seq(Frames) /\ \A i \in 1..Len(readq') : readq'[i].type # "dtmf"
      <4>1. readq = <<>> /\ (defer \/ dtmfq = <<>>)
        BY <2>7 DEF ReadDriver, ReadGoesOn
      <4>2. CASE readq' = readq
        BY <2>0, <4>1, <4>2
      <4>3. QED BY <2>7, <3>b, <4>1, <4>2 DEF ReadDriver
    <3>2. CASE DeliverNull /\ sent' = sent
      BY <2>0, <3>1, <3>2 DEF DeliverNull, DtmfInOrder
    <3>3. ASSUME NEW f \in Frames, Deliver(f),
                 \/ f.type # "dtmf" /\ sent' = sent
                 \/ f.n = sent + 1 /\ sent' = sent + 1
          PROVE  DtmfInOrder'
      <4>1. sent' \in Nat /\ sent <= sent'
        BY <2>0, <3>3
      <4>2. f.type = "dtmf" => /\ last < f.n /\ f.n <= sent'
                               /\ \A j \in 1..Len(dtmfq) : dtmfq[j] < f.n
        BY <2>0, <3>3 DEF DtmfInOrder
      <4>3. QED BY <2>0, <3>1, <3>3, <4>1, <4>2, DeliverInOrder DEF DtmfInOrder
    <3>4. Frame("dtmf", sent + 1) \in Frames /\ Frame("dtmf", sent + 1).n = sent + 1
      BY <2>0 DEF Frame, Frames, FrameTypes
    <3>5. /\ Frame("voice", 0) \in Frames /\ Frame("voice", 0).type # "dtmf"
          /\ NullFrame \in Frames /\ NullFrame.type # "dtmf"
      BY DEF Frame, Frames, FrameTypes, NullFrame
    <3>6. \/ DeliverNull /\ sent' = sent
          \/ Deliver(Frame("voice", 0)) /\ sent' = sent
          \/ Deliver(Frame("modem", 0)) /\ sent' = sent
          \/ Deliver(NullFrame) /\ sent' = sent
          \/ Deliver(Frame("dtmf", sent + 1)) /\ sent' = sent + 1
      BY <2>7 DEF ReadDriver
    <3>7. QED BY <3>a, <3>2, <3>3, <3>4, <3>5, <3>6
  <2>8. CASE UNCHANGED <<readq, dtmfq, last, sent>>
    BY <2>8 DEF DtmfInOrder
  <2>9. ASSUME NEW d \in Drivers, QueueHangupFlag(d) PROVE UNCHANGED <<readq, dtmfq, last, sent>>
    BY <2>9 DEF QueueHangupFlag
  <2>10. CASE MediaArrives \/ cw_write \/ Deadline \/ SetDefer
    BY <2>8, <2>10 DEF MediaArrives, cw_write, Deadline, SetDefer
  <2>11. CASE WaitArm \/ WaitPoll \/ PollReady \/ PollTimeout \/ PollInterrupted
    BY <2>8, <2>11 DEF WaitArm, WaitLimit, WaitPoll, PollReady, PollTimeout, PollInterrupted, WaitReturn
  <2>12. CASE ReadHungup \/ PbxTest \/ PbxClearAsyncGoto \/ PbxClearTimeout
    BY <2>8, <2>12 DEF ReadHungup, PbxTest, PbxClearAsyncGoto, PbxClearTimeout
  <2>13. CASE UNCHANGED vars
    BY <2>8, <2>13 DEF vars
  <2>14. QED
    BY <2>2, <2>3, <2>4, <2>b, <2>5, <2>6, <2>7, <2>8, <2>9, <2>10, <2>11, <2>12, <2>13
       DEF Next, Owner
<1>3. QED BY <1>1, <1>2, TypeCorrect, PTL DEF Spec
=============================================================================
