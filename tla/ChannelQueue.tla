---------------------------- MODULE ChannelQueue ----------------------------
(***************************************************************************)
(* The incoming side of one struct cw_channel (corelib/channel.c): the     *)
(* frame queue readq and the alert pipe that wakes its reader, the soft    *)
(* hangup causes, the absolute timeout, the deferred DTMF digits and the   *)
(* BLOCKING flag.                                                          *)
(*                                                                         *)
(* Actors: the thread that owns the channel (it runs __cw_pbx_run, waits   *)
(* in cw_waitfor and reads with cw_read), the Drivers' threads that queue  *)
(* frames, and any other thread that soft-hangs-up or writes the channel.  *)
(* A region of code run under chan->lock is one step; what the code does   *)
(* without that lock (arming the poll, polling, the PBX's test and reset   *)
(* of _softhangup) takes several.                                          *)
(* A frame is its type and, for a DTMF frame, the number of the digit.     *)
(***************************************************************************)
EXTENDS Naturals, Sequences

CONSTANTS
  Drivers,     \* threads of channel drivers
  MaxVoice,    \* 96: a voice frame is refused behind more frames than this
  MaxTotal,    \* 128: any frame is refused behind more frames than this (so one more
               \* of each fits than the comment at channel.c:730 says)
  Excess,      \* 15 at most: frames the driver's read returns beyond the first
  MaxDtmfq,    \* sizeof(dtmfq) - 2: deferred digits beyond this are dropped
  Causes,      \* soft hangup causes other threads may ask for
  MaxQueued,   \* bound: frames the drivers queue
  MaxDigits,   \* bound: DTMF digits the device sends
  MaxMedia     \* bound: packets waiting on the driver's own descriptor

ASSUME LimitsAssumption ==
  /\ MaxVoice \in Nat /\ MaxTotal \in Nat /\ MaxDtmfq \in Nat
  /\ Excess \in Nat
  /\ MaxQueued \in Nat /\ MaxDigits \in Nat /\ MaxMedia \in Nat

VARIABLES
  pipe,         \* the channel was allocated with an alert pipe (needqueue)
  readq,        \* queued frames, oldest first
  alert,        \* words in the alert pipe
  softhangup,   \* chan->_softhangup, a set of causes
  whentohangup, \* the absolute timeout: "none", "future", this second ("now") or "past"
  blocking,     \* CW_FLAG_BLOCKING
  defer,        \* CW_FLAG_DEFER_DTMF
  dtmfq,        \* deferred digits
  up,           \* _state = CW_STATE_UP
  media,        \* packets the driver's descriptor has for tech->read
  pc,           \* where the owner is
  ms,           \* the wait its caller asked for: "finite" or "forever"
  rms,          \* the wait it gives to poll
  havewhen,     \* a deadline was seen when the wait began
  intr,         \* a signal interrupts the poll
  drv,          \* per driver thread: "idle" or inside cw_queue_hangup
  asked,        \* history: causes asked for so far, each at most once
  sent,         \* history: digits the device has sent
  last,         \* history: last digit cw_read returned
  nq            \* history: frames the drivers have queued

queueVars  == <<pipe, readq, alert, intr>>
hangupVars == <<softhangup, whentohangup, asked>>
waitVars   == <<blocking, ms, rms, havewhen>>
dtmfVars   == <<defer, dtmfq, sent, last>>
envVars    == <<media, drv, nq>>
vars == <<queueVars, hangupVars, waitVars, dtmfVars, envVars, up, pc>>

FrameTypes == {"voice", "modem", "dtmf", "answer", "hangup", "null"}
Frame(type, n) == [type |-> type, n |-> n]
NullFrame == Frame("null", 0)

FlagsOK ==
  /\ pipe \in BOOLEAN /\ blocking \in BOOLEAN /\ defer \in BOOLEAN
  /\ up \in BOOLEAN /\ havewhen \in BOOLEAN /\ intr \in BOOLEAN

\* The queues, counters and flags of the channel keep their types.
TypeOK ==
  /\ FlagsOK
  /\ readq \in Seq([type : FrameTypes, n : Nat])
  /\ alert \in Nat /\ media \in Nat /\ nq \in Nat /\ sent \in Nat /\ last \in Nat
  /\ dtmfq \in Seq(Nat)
  /\ softhangup \subseteq Causes \cup {"dev", "timeout"}
  /\ asked \subseteq Causes \cup {"timeout"}
  /\ whentohangup \in {"none", "future", "now", "past"}
  /\ ms \in {"finite", "forever"} /\ rms \in {"finite", "forever"}
  /\ pc \in {"run", "armed", "poll", "read", "exit", "clearasync",
             "cleartimeout", "hungup"}
  /\ drv \in [Drivers -> {"idle", "hangup"}]

Init ==
  /\ pipe \in BOOLEAN
  /\ readq = <<>> /\ alert = 0 /\ intr = FALSE
  /\ softhangup = {} /\ whentohangup = "none" /\ asked = {}
  /\ blocking = FALSE /\ ms = "finite" /\ rms = "finite" /\ havewhen = FALSE
  /\ defer = FALSE /\ dtmfq = <<>> /\ sent = 0 /\ last = 0
  /\ media = 0 /\ nq = 0
  /\ drv = [d \in Drivers |-> "idle"]
  /\ up = FALSE /\ pc = "run"

-----------------------------------------------------------------------------
(* Queueing *)

HasHangup(q) == \E i \in 1..Len(q) : q[i].type = "hangup"

\* Mutant: frames are still queued behind a HANGUP.
Refused_AfterHangup(q, f) ==
  \/ f.type = "voice" /\ Len(q) > MaxVoice
  \/ Len(q) > MaxTotal

Refused(q, f) ==
  \/ HasHangup(q)
  \/ f.type = "voice" /\ Len(q) > MaxVoice
  \/ Len(q) > MaxTotal

\* A signal interrupts the owner only while it is inside poll.
Interrupt == blocking /\ pc = "poll"

\* Mutant: the alert is written only for an owner seen blocking.
Enqueue_AlertIfBlocking(f) ==
  IF Refused(readq, f)
    THEN UNCHANGED <<readq, alert>>
    ELSE /\ readq' = Append(readq, f)
         /\ alert' = IF pipe /\ blocking THEN alert + 1 ELSE alert

Enqueue(f) ==
  IF Refused(readq, f)
    THEN UNCHANGED <<readq, alert>>
    ELSE /\ readq' = Append(readq, f)
         /\ alert' = IF pipe THEN alert + 1 ELSE alert

\* A channel without an alert pipe has its blocked owner signalled instead.
cw_queue_frame(f) ==
  /\ pc # "hungup"
  /\ Enqueue(f)
  /\ intr' = (intr \/ (~Refused(readq, f) /\ ~pipe /\ Interrupt))
  /\ UNCHANGED pipe

\* A driver thread queues a media or control frame.
DriverQueue(d) ==
  /\ drv[d] = "idle" /\ nq < MaxQueued
  /\ nq' = nq + 1
  /\ \/ /\ \E t \in {"voice", "answer"} : cw_queue_frame(Frame(t, 0))
        /\ UNCHANGED sent
     \/ /\ sent < MaxDigits
        /\ sent' = sent + 1
        /\ cw_queue_frame(Frame("dtmf", sent + 1))
  /\ UNCHANGED <<hangupVars, waitVars, defer, dtmfq, last, media, drv, up, pc>>

\* cw_queue_hangup, first half: the flag is set only if the lock was free.
QueueHangupFlag(d) ==
  /\ drv[d] = "idle" /\ nq < MaxQueued /\ pc # "hungup"
  /\ drv' = [drv EXCEPT ![d] = "hangup"]
  /\ nq' = nq + 1
  /\ \E free \in BOOLEAN :
       softhangup' = IF free THEN softhangup \cup {"dev"} ELSE softhangup
  /\ UNCHANGED <<queueVars, whentohangup, asked, waitVars, dtmfVars, media, up, pc>>

\* cw_queue_hangup, second half: queue the HANGUP control frame.
QueueHangupFrame(d) ==
  /\ drv[d] = "hangup"
  /\ drv' = [drv EXCEPT ![d] = "idle"]
  /\ cw_queue_frame(Frame("hangup", 0))
  /\ UNCHANGED <<hangupVars, waitVars, dtmfVars, media, nq, up, pc>>

\* A packet arrives on the driver's descriptor.
MediaArrives ==
  /\ media < MaxMedia
  /\ media' = media + 1
  /\ UNCHANGED <<queueVars, hangupVars, waitVars, dtmfVars, drv, nq, up, pc>>

-----------------------------------------------------------------------------
(* Other threads *)

cw_softhangup(cause) ==
  /\ cause \notin asked /\ pc # "hungup"
  /\ asked' = asked \cup {cause}
  /\ softhangup' = softhangup \cup {cause}
  /\ Enqueue(NullFrame)
  /\ intr' = (intr \/ Interrupt)
  /\ UNCHANGED <<pipe, whentohangup, waitVars, dtmfVars, envVars, up, pc>>

\* cw_check_hangup: the causes after the test, which records a deadline reached.
Checked ==
  IF softhangup = {} /\ whentohangup \in {"now", "past"} THEN {"timeout"} ELSE softhangup

\* cw_write by another thread (a bridge peer, the generator): it clears
\* BLOCKING, whoever set it, and a failed write is a device hangup.
cw_write ==
  /\ pc # "hungup"
  /\ \/ /\ Checked # {}
        /\ softhangup' = Checked
        /\ UNCHANGED blocking
     \/ /\ Checked = {}
        /\ softhangup' \in {{}, {"dev"}}
        /\ blocking' = FALSE
  /\ UNCHANGED <<queueVars, whentohangup, asked, ms, rms, havewhen, dtmfVars,
                 envVars, up, pc>>

\* Any thread sets the absolute timeout (bound: once) or clears it, and queues
\* a null frame so that the owner looks at it.
cw_channel_setwhentohangup ==
  /\ \/ /\ "timeout" \notin asked
        /\ whentohangup' = "future" /\ asked' = asked \cup {"timeout"}
     \/ /\ whentohangup # "none"
        /\ whentohangup' = "none" /\ UNCHANGED asked
  /\ cw_queue_frame(NullFrame)
  /\ UNCHANGED <<softhangup, waitVars, dtmfVars, envVars, up, pc>>

\* Time reaches the second of the deadline, and passes it.
Deadline ==
  /\ \/ whentohangup = "future" /\ whentohangup' = "now"
     \/ whentohangup = "now" /\ whentohangup' = "past"
  /\ UNCHANGED <<queueVars, softhangup, asked, waitVars, dtmfVars, envVars, up, pc>>

-----------------------------------------------------------------------------
(* The owner *)

\* cw_channel_defer_dtmf and cw_channel_undefer_dtmf.
SetDefer ==
  /\ pc = "run"
  /\ defer' = ~defer
  /\ UNCHANGED <<queueVars, hangupVars, waitVars, dtmfq, sent, last, envVars, up, pc>>

\* Mutant: in the second of the deadline no time is left, taken for no limit.
WaitLimit_Now(asks) ==
  [none |-> asks, future |-> "finite", now |-> "forever", past |-> "forever"][whentohangup]

\* The timeout given to poll, from the caller's and the deadline.
WaitLimit(asks) ==
  [none |-> asks, future |-> "finite", now |-> "finite", past |-> "forever"][whentohangup]

\* cw_waitfor_nandfds up to the poll. A deadline not yet past bounds the wait;
\* one already past gives poll a negative timeout, which never expires.
WaitArm ==
  /\ pc = "run"
  /\ \E asks \in {"finite", "forever"} :
       /\ ms' = asks
       /\ rms' = WaitLimit(asks)
  /\ havewhen' = (whentohangup # "none")
  /\ blocking' = TRUE
  /\ pc' = "armed"
  /\ UNCHANGED <<queueVars, hangupVars, dtmfVars, envVars, up>>

WaitPoll ==
  /\ pc = "armed"
  /\ pc' = "poll"
  /\ UNCHANGED <<queueVars, hangupVars, waitVars, dtmfVars, envVars, up>>

\* The wait's locals go with it.
WaitOver ==
  /\ blocking' = FALSE /\ intr' = FALSE
  /\ ms' = "finite" /\ rms' = "finite" /\ havewhen' = FALSE

\* After the poll: BLOCKING is cleared and a passed deadline recorded.
WaitReturn(to) ==
  /\ pc = "poll"
  /\ pc' \in to
  /\ WaitOver
  /\ softhangup' = IF havewhen /\ whentohangup = "past"
                     THEN softhangup \cup {"timeout"} ELSE softhangup
  /\ UNCHANGED <<pipe, readq, alert, whentohangup, asked, dtmfVars, envVars, up>>

\* Mutant: the alert pipe is not among the polled descriptors.
Readable_NoAlertPipe == media > 0

\* A descriptor is readable: the alert pipe or the driver's own.
Readable == alert > 0 \/ media > 0

PollReady == Readable /\ WaitReturn({"read"})

\* No descriptor signalled: the caller may read or wait again.
PollTimeout == ~Readable /\ rms = "finite" /\ WaitReturn({"run", "read"})

\* EINTR returns before the deadline is looked at.
PollInterrupted ==
  /\ pc = "poll" /\ intr
  /\ pc' = "read"
  /\ WaitOver
  /\ UNCHANGED <<pipe, readq, alert, hangupVars, dtmfVars, envVars, up>>

\* cw_read stops at once on a soft hangup.
ReadHungup ==
  /\ pc = "read" /\ Checked # {}
  /\ softhangup' = Checked
  /\ pc' = "exit"
  /\ UNCHANGED <<queueVars, whentohangup, asked, waitVars, dtmfVars, envVars, up>>

\* cw_read hands out a digit deferred earlier, before anything queued.
ReadDeferred ==
  /\ pc = "read" /\ Checked = {} /\ ~defer /\ dtmfq # <<>>
  /\ last' = Head(dtmfq)
  /\ dtmfq' = Tail(dtmfq)
  /\ pc' = "run"
  /\ UNCHANGED <<queueVars, hangupVars, waitVars, defer, sent, envVars, up>>

\* What cw_read does with the frame it got: a digit may be deferred, an
\* answer brings the line up.
Deliver(f) ==
  /\ pc' = "run"
  /\ up' = (up \/ f.type = "answer")
  /\ last' = IF f.type = "dtmf" /\ ~defer THEN f.n ELSE last
  /\ dtmfq' = IF f.type = "dtmf" /\ defer /\ Len(dtmfq) < MaxDtmfq
                THEN Append(dtmfq, f.n) ELSE dtmfq
  /\ UNCHANGED <<softhangup, defer>>

\* What cw_read does when it got none: it will return NULL from now on.
DeliverNull ==
  /\ pc' = "exit"
  /\ softhangup' = softhangup \cup {"dev"}
  /\ UNCHANGED <<dtmfq, last, up, defer>>

\* Mutant: the count is taken even from an empty pipe.
TakeAlert_Unchecked == alert' = alert - 1

\* One word is taken from the alert pipe for each frame read.
TakeAlert == alert' = IF alert > 0 THEN alert - 1 ELSE 0

\* Mutant: queued frames overtake the digits deferred earlier.
ReadGoesOn_Overtake == pc = "read" /\ Checked = {}

ReadGoesOn == pc = "read" /\ Checked = {} /\ (defer \/ dtmfq = <<>>)

\* cw_read takes the oldest queued frame.
ReadQueue ==
  /\ ReadGoesOn /\ readq # <<>>
  /\ TakeAlert
  /\ readq' = Tail(readq)
  /\ IF Head(readq).type = "hangup" THEN DeliverNull ELSE Deliver(Head(readq))
  /\ UNCHANGED <<pipe, intr, whentohangup, asked, waitVars, sent, envVars>>

\* cw_read asks the driver: tech->read or tech->exception returns a voice
\* frame, a digit or NULL for a packet, and the null frame without one. T.38
\* over UDPTL returns several frames at once, and cw_read puts all but the first
\* into the queue, with no word in the alert pipe.
ReadDriver ==
  /\ ReadGoesOn /\ readq = <<>>
  /\ TakeAlert
  /\ \/ /\ media > 0 /\ sent < MaxDigits
        /\ media' = media - 1 /\ sent' = sent + 1
        /\ Deliver(Frame("dtmf", sent + 1))
        /\ UNCHANGED readq
     \/ /\ media > 0
        /\ media' = media - 1
        /\ DeliverNull \/ Deliver(Frame("voice", 0))
        /\ UNCHANGED <<readq, sent>>
     \/ /\ media > 0
        /\ media' = media - 1
        /\ Deliver(Frame("modem", 0))
        /\ \E n \in 1..Excess : readq' = [i \in 1..n |-> Frame("modem", 0)]
        /\ UNCHANGED sent
     \/ /\ media = 0
        /\ Deliver(NullFrame)
        /\ UNCHANGED <<readq, media, sent>>
  /\ UNCHANGED <<pipe, intr, whentohangup, asked, waitVars, drv, nq>>

-----------------------------------------------------------------------------
(* __cw_pbx_run, once the application has returned nonzero *)

\* _softhangup is tested here and reset in a later step, without the lock.
PbxTest ==
  /\ pc = "exit"
  /\ \/ softhangup = {"asyncgoto"} /\ pc' = "clearasync"
     \/ softhangup = {"timeout"} /\ pc' = "cleartimeout"
     \/ softhangup # {"asyncgoto"} /\ pc' = "hungup"
  /\ UNCHANGED <<queueVars, hangupVars, waitVars, dtmfVars, envVars, up>>

PbxClearAsyncGoto ==
  /\ pc = "clearasync"
  /\ softhangup' = {}
  /\ pc' = "run"
  /\ UNCHANGED <<queueVars, whentohangup, asked, waitVars, dtmfVars, envVars, up>>

\* The "T" extension exists. The reset is an unlocked read-modify-write, so a
\* cause added meanwhile may or may not survive it.
PbxClearTimeout ==
  /\ pc = "cleartimeout"
  /\ whentohangup' = "none"
  /\ softhangup' \in {{}, softhangup \ {"timeout"}}
  /\ pc' = "run"
  /\ UNCHANGED <<queueVars, asked, waitVars, dtmfVars, envVars, up>>

-----------------------------------------------------------------------------
Owner ==
  \/ WaitArm \/ WaitPoll \/ PollReady \/ PollTimeout \/ PollInterrupted
  \/ ReadHungup \/ ReadDeferred \/ ReadQueue \/ ReadDriver
  \/ PbxTest \/ PbxClearAsyncGoto \/ PbxClearTimeout

Next ==
  \/ \E d \in Drivers : DriverQueue(d) \/ QueueHangupFlag(d) \/ QueueHangupFrame(d)
  \/ MediaArrives
  \/ \E cause \in Causes : cw_softhangup(cause)
  \/ cw_write
  \/ Deadline
  \/ cw_channel_setwhentohangup
  \/ SetDefer
  \/ Owner

Spec == Init /\ [][Next]_vars

\* The owner keeps servicing its channel and time passes; nobody else has to
\* do anything.
FairSpec == Spec /\ WF_vars(Owner) /\ WF_vars(Deadline)

-----------------------------------------------------------------------------
(* Properties *)

\* The alert pipe holds one word per queued frame (cw_queue_frame writes one,
\* cw_read takes one), but for the frames a driver returned at once, however
\* many such reads there were. Where a driver returns one at a time, a queued
\* frame always leaves the descriptor readable and an empty queue never does.
AlertMatchesQueue ==
  IF pipe THEN alert <= Len(readq) /\ Len(readq) <= alert + Excess ELSE alert = 0

\* Nothing is ever queued behind a HANGUP frame, not even a second one, whichever
\* driver threads race through cw_queue_frame and the two halves of cw_queue_hangup,
\* and whatever the owner's read puts back.
HangupLast ==
  \A i \in 1..Len(readq) : readq[i].type = "hangup" => i = Len(readq)

\* Digits reach the application in the order the device sent them and never
\* twice, however deferring is switched on and off: those cw_read returned,
\* then those in dtmfq, then those still in readq.
DtmfInOrder ==
  /\ last <= sent
  /\ \A i \in 1..Len(dtmfq) :
       /\ last < dtmfq[i] /\ dtmfq[i] <= sent
       /\ \A j \in 1..Len(dtmfq) : i < j => dtmfq[i] < dtmfq[j]
  /\ \A i \in 1..Len(readq) : readq[i].type = "dtmf" =>
       /\ last < readq[i].n /\ readq[i].n <= sent
       /\ \A j \in 1..Len(dtmfq) : dtmfq[j] < readq[i].n
       /\ \A j \in 1..Len(readq) :
            i < j /\ readq[j].type = "dtmf" => readq[i].n < readq[j].n

\* On a channel with an alert pipe, whose driver returns one frame at a time, a
\* queued HANGUP frame ends the call: the owner is woken, works through the queue
\* and leaves the PBX, even when an asynchronous goto or the "T" extension resets
\* _softhangup meanwhile.
HangupFrameEndsCall == pipe /\ HasHangup(readq) ~> pc = "hungup"

\* In a call whose absolute timeout never passes, because it is unset or moved
\* in time, even in its very second, cw_waitfor returns from every wait its
\* caller limited. A wait begun after the timeout passed has no limit at all (see
\* WaitLimit), and moving the timeout meanwhile does not give it one.
WaitHonoursMs ==
  [](whentohangup # "past") => (pc = "poll" /\ ms = "finite" ~> pc # "poll")

\* A soft hangup another thread asked for ends the call (cw_softhangup on a
\* channel managed by another thread).
SoftHangupEndsCall == pipe /\ "explicit" \in asked ~> pc = "hungup"
=============================================================================
