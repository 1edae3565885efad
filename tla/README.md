# CallWeaver in TLA+

CallWeaver is a PBX: channel drivers (SIP, IAX2, Zaptel, ...) create *channels*,
each owned by a thread that runs the dialplan on it, and any number of other
threads queue frames on a channel, ask for its hangup, generate audio for it,
run timers, or collect its call detail record. Almost every hard bug of such a
program is a matter of two of these threads. This directory models the parts
where they meet, checks the models with TLC, and proves what matters most with
TLAPS.

## 1. The system and its parts

| part | state | operations | where threads meet |
|---|---|---|---|
| channel queue (`corelib/channel.c`) | `readq`, alert pipe, `_softhangup`, `whentohangup`, `dtmfq`, flags | `cw_queue_frame`, `cw_queue_hangup`, `cw_softhangup`, `cw_waitfor*`, `cw_read`, `cw_write` | drivers queue while the owner polls and reads; soft hangup from anywhere; unlocked tests in `pbx.c` |
| generator (`corelib/generator.c`) | `gcd` of the channel | activate, deactivate, the generator thread | a join against a thread that needs the caller's lock |
| scheduler (`corelib/sched.c`) | sorted event list, id counter, cache | add, del, runq, service thread | lost wake-ups, rescheduling without the lock |
| CDR batch (`corelib/cdr.c`) | batch list, timer id, configuration | detach, submit, reload, engine term | two locks in two orders, unlocked tests |
| masquerade, hangup, bridge (`channel.c`) | `masq`, `masqr`, `_bridge`, ZOMBIE | masquerade, hangup, bridge loop | lock order of two channels, stale pointers |
| autoservice (`corelib/autoservice.c`) | list of channels, BLOCKING | start, stop, the service loop | a snapshot read after `stop` |
| device states (`corelib/devicestate.c`, hints of `pbx.c`) | queue of changes, watchers | change, publish | an older state published last |
| parking (`res/res_features.c`) | parking lot | park, time out, retrieve | the parking thread, the parker and a retriever |
| SIP dialog (`channels/chan_sip.c`) | `sip_pvt`, its packets and timers | call, answer, hang up, responses, requests, retransmission | the owner's hangup against what the network brings |
| IAX2 call (`channels/iax2/chan_iax2.c`) | sequence numbers, `iaxq` | write, receive, retry, ping, hang up | a lossy network; timers against the owner |
| dialplan (`corelib/pbx.c`) | contexts, extensions | add, remove, match, merge | reload under running calls |
| channel drivers, applications, codecs, formats, parsers, I/O | | | see `PROJECT.json` |

`PROJECT.json` lists every part, modelled or not, with the reason, and under
"hazards" what is hard to test in this code, with the line where it bites and the
property that would catch it.

## 2. The modules

| module | models |
|---|---|
| `ChannelQueue` | one channel: queueing, waiting, reading, soft hangup, deferred digits, the PBX's reset of `_softhangup` |
| `Generator` | the generator of one channel and the threads that use it |
| `Sched` | one scheduler context, with a service thread or run by its owner |
| `SchedShared` | a manual context several threads use: `schedule()` is two steps there |
| `CdrBatch` | the CDR batch, its timers (an abstraction of `Sched`), reload and shutdown |
| `TimerService` | abstract: what the callers of a scheduler context rely on; `Sched` implements it |
| `CdrLog` | abstract: what a call relies on for its record; `CdrBatch` implements it |
| `IaxCall` | both ends of one established IAX2 call and the network between them |
| `SipDialog` | one SIP call, placed or received, from its INVITE until its `sip_pvt` is freed |
| `Parking` | the parking lot, its thread, parkers and retrievers |
| `ChannelQueueProofs`, `SchedProofs`, `GeneratorProofs`, `CdrBatchProofs`, `ParkingProofs`, `SipDialogProofs`, `IaxCallProofs` | theorems about the component of that name, and their proofs |
| `SchedRefinement` | the proof that `Sched` implements `TimerService` |
| `MC...` | instances for TLC; a `.cfg` gives the constants and the properties |

Conventions. A region of code under a lock is one action; what the code does
between locks takes several. Names are the source's where an action is a whole
function; a function with several steps has one action per step, named after
the function or what the step does. A definition named `X_Y` under a comment
"Mutant" is `X` with a plausible bug, used to show that a property is not vacuous.
Variables marked *history* are not in the code; properties use them. `PROJECT.json`
maps every definition to its lines.

### ChannelQueue

`readq` is a sequence of frames (type, and the number of a digit), `alert` the number
of words in the alert pipe, `pipe` whether the channel has one. The owner's place
is `pc`: "run" (in an application), "armed" and "poll" (in `cw_waitfor_nandfds`, after
BLOCKING is set and inside `poll`), "read", "exit" (the application returned nonzero),
"clearasync" and "cleartimeout" (between the PBX's test of `_softhangup` and its
reset), "hungup". Time is what the code distinguishes of the absolute
timeout: none, in the future, this very second, past. The latter two differ, as
`cw_check_hangup` compares with `<=` and `cw_waitfor_nandfds` with `<`.
`cw_queue_hangup` is two actions, since it lets go of the lock in between, and the
outcome of its `trylock` is a choice. A driver's read returns one frame, NULL,
or (T.38 over UDPTL) up to `Excess` more, which `cw_read` puts into the queue.

Left out: translation, spies and monitors, masquerading (a module of its own in the
plan), several channels in one wait, and the moment in which `cw_write` of a DTMF
frame lets go of the lock to send the digit.

### Generator

Every thread, caller or generator, has a `pc`; `cw_generator_deactivate` is five actions
(test, claim, join, clean up, release), since it takes and releases `gcd.lock`
twice. The generator thread can be inside it too: its callback calls `cw_write`, and
once its thread was claimed `cw_generator_is_self` no longer knows it. Only the
lock of the channel that is held across a wait is a variable (`chanlock`): `cw_read`
deactivates with it held. Any number of threads use the channel (`Callers`). The history variable `raced` notes
that a deactivation was *overtaken* (`Overtaken`): between its unlocked test of `gen_is_active` and the
lock another thread ended that generator and began another.

### Sched and SchedShared

`schedq` and `runq` are the lists as sequences of events; `n` is a serial number that
tells events apart where ids may not. A service thread holds the lock except in
its condition wait, and the lock is recursive, so adding and deleting is possible
before it starts, while it waits, and from its callbacks. The id counter has the
width `MaxInt`, with the code's behaviour at the overflow. In `SchedShared` the
runner's `schedule()` finds its place in one step and links in another, as
`cw_sched_runq` has released the lock by then.

### CdrBatch

`timers` are the ids of pending events; the scheduler's lock is `svc`, the place of
its service thread. `submit_unscheduled_batch` is four actions, as none of it is under a
lock of `cdr.c`. `do_reload` keeps `cdr_batch_lock` through its steps (`batchlock`). Reading
`batchsize` directly after the unlock in `cw_cdr_detach` is one step with the append. A new timer gets
an id nobody remembers (`NewId`), as ids do not come again before the counter wraps (see `IdsUnique` of `Sched`).

### TimerService and CdrLog

`TimerService` has no lists, lock or service thread: timers are armed, cancelled while armed, fire
together when due and run soonest first; a callback ends its timer or arms it again. `Sched`
implements it with `armed` the contents of `schedq` and `firing` those of `runq`. `CdrLog` has records that
are owed, written (counted) or dropped. A record is owed in `CdrBatch` wherever it is: with the
thread that detached it, in the batch, in a batch being submitted, or with a posting thread.

### IaxCall

`iaxs[e]` is the pvt of end `e` with the frames it has in `iaxq`; `net` the packets under way, which may be
lost, repeated and reordered. A frame carries its serial number as history, next to the sequence number
the code sees. A region under `iaxsl[callno]` is one action. `send_ping` does not take that lock, so
it is two (`send_ping`, `PingQueued`), with the owner's `iax2_write` possible in between; and
`send_command_final` lets go of it. Assumption: no packet or queued frame is older than `SeqMod - 1`
later frames (`Lifetime`). Frames are retried for some 20 seconds and full frames
are rare, as voice goes in mini frames; without it a byte cannot tell new from old. For the same reason
an end that has missed a frame of its peer for as long does not still send. `iaxq` is a set of frames, as the
code searches all of it and its order decides nothing but the order on the wire, which the network does not keep.

### SipDialog

`p` is the `sip_pvt` with the messages it sent; `wire` is what the peer sent, each message deliverable at any
time, any number of times, or never. Provisional responses are not recorded in it: once a request was sent any of
them may arrive (`Trying`). A handler holds `p->lock` throughout and is one action, with one exception. A
critical packet that is out of tries has `retrans_pkt` wait for the owner's lock, and let go of `p->lock` meanwhile
(`locking`); the owner may hang up and `__sip_pretend_ack` free that packet before `retrans_pkt_locked` goes on.
The monitor thread, which runs the timers and reads the socket, does nothing else in between.
Response codes stand for the branches of the handlers: 100 and 180 provisional, 182 the 1xx without a branch of
their own, 401 and 407 challenges, 403 and 404 refusals with and without `SIP_NEEDDESTROY`, 486 the default branch,
487, 491 and 501 their own. `Matched` is the beginning of `handle_response`, common to all of them; responses to a BYE
or a CANCEL are `handle_response_end`. A BYE with an `Also` header is a transfer (`moved`): the channel bridged to
the owner is sent away and the owner is not told, which leaves its end to the bridge.

### Parking

A step is a critical section under `parking_lock`, or an access outside it: the wake-up
signal, adding and removing the extension, and the parker's last look at its `parkeduser`. Memory that was freed
may by then be that of a later `parkeduser`, so `Finish` may act on another one. A signal between the
thread's look at the lot and its `select` is lost. The lot is a set of `parkeduser`s: a pass of the thread
looks at all of them, and the order of the list decides nothing. Not modelled is a reload (`load_config`): it
changes the range and `findslot` under parked calls, without the lock and by way of the defaults. Here both
stay what they were when the module was loaded.

## 3. The runs

| run | checks | result |
|---|---|---|
| `channel_queue` | `TypeOK`, `AlertMatchesQueue`, `HangupLast`, `DtmfInOrder` | hold |
| `channel_hangup` | `HangupFrameEndsCall`, `WaitHonoursMs` | hold |
| `channel_soft` | `SoftHangupEndsCall` | violated: the PBX erases a concurrent soft hangup |
| `sched` | `TypeOK`, `QueueSorted`, `NothingLost`, `WakeCoversHead`, `NeverEarly`, `IdsUnique`, `EventsRun`, `ImplementsTimerService` | hold |
| `sched_shared` | `NothingLost` | violated: rescheduling without the lock loses events |
| `generator` | `TypeOK`, `DataInUse`, `ReleasedOnce`, `OneGenerator`, `ActiveHasOwner` | hold, the middle three with an exception |
| `generator_join` | `DeactivateReturns` | violated: a join with the channel's lock held |
| `cdr` | `TypeOK`, `NeverTwice`, `SubmissionComing`, `BatchPosted`, `ImplementsCdrLog` | hold |
| `cdr_reload` | `DetachReturns` | violated: lock order of reload and timer |
| `iax` | `TypeOK`, `DeliveredInOrder`, `AckedWasReceived`, `DeliveredOrHungUp`, `BothHangUp` | hold, with an exception |
| `sip` | `TypeOK`, `GoneOwnerTold`, `EndedByBye`, `CancelAfterAnswer`, `Freed`, `InviteSettles` | hold, with exceptions |
| `park` | `TypeOK`, `HeldOnce`, `Reachable`, `ThreadKeepsOff`, `Served` | hold, with exceptions |

The findings of `PROJECT.json` quote, for each violated property, the comment that states it.

What the properties except. These are behaviours of the code, reached in the runs; in each
case TLC refutes the property without its exception.
- `DeliveredInOrder`, `AckedWasReceived`, `DeliveredOrHungUp` (`raced`): `send_ping` numbers its frame without
  the lock of the call. If the owner writes at that moment two frames have one number; the peer takes the
  second for a repeat and drops it, and its acknowledgement covers both. The frame is lost.
- `DataInUse`, `ReleasedOnce`, `OneGenerator` (`raced`): two threads use one channel, and a deactivation is
  overtaken. It finds no thread to claim but still has the one it joined in an earlier round (the loop does not
  reset `thread`, `generator.c:124`), and releases the other generator's data, which its own deactivator
  releases as well; or it claims a thread that has not begun, or one that is about to be replaced, and the two
  generators share `gcd`. The code has no lock that spans the test and the claim. A thread that is alone on
  its channel never meets this (`AloneNeverOvertaken`, section 4).
- `GoneOwnerTold` (`moved`): the transfer by BYE/Also ends the dialog and does not tell a bridged owner.
- `EndedByBye` (`crossed`): an owner that hangs up with the ANSWER frame unread takes the path of a call
  that is not up; a received call hung up between the 200 and its ACK is sent a CANCEL, since
  `SIP_CAN_BYE` is only set for calls we place.
- `Freed` (`late`, and an unarmed packet): a provisional response after the CANCEL cancels the timer set by
  `sip_hangup`, and nothing sets it again. The same goes for a 181 or 182 after the hangup and before the CANCEL,
  as its branch (`chan_sip.c:12979`) does not call `check_pendings`. A BYE that overtakes the 200 leaves the INVITE
  in `p->packets` with its timer stopped, and `do_monitor` waits for it.
- `Served` (`missed`): the wake-up lost before `select` without a timeout; the call is served with the next event.
- `ThreadKeepsOff` (`stale`): a `parkeduser` used after it was freed may clear another call's `notquiteyet`.
- `Reachable` (`reused`): a retriever removes the extension after unlocking, when the number may be in use again.
- `WaitHonoursMs` is stated for calls whose absolute timeout never passes. A limited wait begun after it gets
  a negative timeout, which `poll` takes for none (`channel.c:1403`), and does not return by itself.
- `AlertMatchesQueue` allows for the frames a driver returned at once: `cw_read` queues them without a word
  in the alert pipe (`channel.c:1748`), so they can be in the queue with the descriptor not readable.

Bounds.
- `channel_queue`: two driver threads. Limits of 1 and 2 frames, for the 97 and 129 that the code's test
  lets in (its comment, `channel.c:730`, says 96 and 128), are reached by two
  queued frames and the null frames of the absolute timeout; two digits show any
  inversion, one deferred digit the full buffer; one excess frame the gap between queue
  and pipe. Soft hangup causes are in the other channel runs, and in the proofs.
- `channel_hangup`: a HANGUP behind another frame, with an asynchronous goto and the
  absolute timeout resetting `_softhangup`.
- `sched`: ids 0 and 1 and three events reach the wrap of the counter; delays 0 and 2
  against a slack of 2 reach equal times, immediate and later events; four instants
  let an event be rescheduled. With more events than ids `IdsUnique` says nothing,
  which is what the code promises.
- `generator`: two callers, three activations, three generator threads: enough for one caller to be overtaken
  by the end of a generator and the beginning of the next. Callers, and generator threads, are symmetric.
- `cdr`: two threads and two records, with a batch of two, and one command (a reload
  or a `cdr submit`) at any point.
- `iax`: end b writes a frame and pings, so that the two meet over a number, end a answers and hangs up. Numbers
  modulo 3 wrap; two packets under way are reordered; two tries show a repeat and the giving up. Pings
  beyond the bound go on only once the peer is gone. The same with b hanging up too (658,000 states)
  holds as well, and is not kept as a run. Both ends pinging freely was not completed.
- `sip`: one retransmission per packet, three INVITEs, one round of authentication before
  giving up (297,000 states). A number past the third INVITE is not challenged.
- `park`: one call that parks itself and one that is parked, one or two spaces, one retriever,
  searching from the start or from the last number. Three calls are out of reach.

Deadlock is not checked: a channel that was hung up, or a bound that was reached, is an
end.

Fairness. `ChannelQueue`: the owner goes on, as it is a running thread, and
time passes; nobody else has to do anything. `Sched`: the runner and the clock.
`Generator`: every thread inside one of the functions goes on; nobody has to call them.
`CdrBatch`: the same, with strong fairness for threads that wait for the
scheduler's lock, which the service thread gives up at each round for at least
a millisecond. `IaxCall`: the network thread of each end goes on with what needs nothing from the
network, `iax2_hangup` returns, and an owner that was told of a hangup hangs up; no packet has to
arrive. `SipDialog`: `do_monitor` runs timers and frees dialogs, and an owner that was told hangs up; the
peer does nothing it need not. `Parking`: the parking thread and the parkers go on and time passes.

## 4. The proofs

`ChannelQueueProofs` proves, for any set of driver threads, any limits, any causes and any
number of frames and digits:

- `TypeCorrect`: `Spec => []TypeOK`. Boolean and other variables are separate lemmas
  (`FlagsStep`, and the rest in the theorem), as the provers need.
- `AlertCorrect`: `Spec => []AlertMatchesQueue`, `HangupLastCorrect`: `Spec => []HangupLast`. Both
  rest on the lemma `QueueStep`: whatever any thread does, the queue gets one
  frame through `Enqueue`, loses its oldest, gets the excess of one read when it was
  empty, or stays. The two invariants are inductive with `TypeOK`.
- `DtmfCorrect`: `Spec => []DtmfInOrder`. The property itself is the strengthening: the order of
  the digits returned (`last`), deferred (`dtmfq`) and queued (`readq`) is one chain up to
  `sent`, which each kind of read moves along.

Assumption: `LimitsAssumption` of `ChannelQueue` (the limits are natural numbers).

`SchedProofs` proves about `Sched`, for any number of events, any delays, any slack, clock, cache
and width of the id counter:

- `SchedTypeCorrect`: `Spec => []TypeOK`. `schedcnt` stays a natural number because it is the
  length of the list (`ListOK`), which is therefore part of the inductive invariant `TypeInv`.
- `SortedCorrect`: `Spec => []QueueSorted`. The lemmas `Schedule`, `Del`, `Detach` and `Rest` say, event by
  event, what the list operations do (`Placed`, `Without`, `Behind`); each keeps the order.
- `WakeCorrect`: `Spec => []WakeCoversHead`, inductive once the list is in order: deleting
  the first event only makes the wake-up early, and putting one first signals.
- `EarlyCorrect`: `Spec => []NeverEarly`. The strengthening `RunDue` says it of every event taken out.
- `NothingLostCorrect`: `Spec => []NothingLost`. Strengthened by `LostInv`: serials are given
  out in order, so a new one is fresh, and the list of `cw_sched_runq` is empty when it begins.
- `IdsCorrect`: `Spec => []IdsUnique`. By `IdInv`, the first `MaxInt` events have their serial as
  id and the next one 0, so distinct serials mean distinct ids.

Assumptions: `SchedAssumption` (the constants are natural numbers, the slack is positive). The list
helpers `Linked` and `Unlinked` are spelled out in `Sched`: importing a large library module makes
every proof obligation several times slower.

`SchedRefinement` proves `TimerServiceRefined`: `Spec => ImplementsTimerService`, under the same assumption.
A list is the set of its timers; lemmas say what linking, unlinking and taking off the front do to that set,
and each action of `Sched` is then one action of `TimerService`, or none. The invariant `RefInv` is what
`SchedProofs` established, with the order of the list taken out by `cw_sched_runq`: the abstract service runs
timers soonest first, and the code runs the head.

`GeneratorProofs`, for any number of callers, activations and generator threads: `GeneratorTypeCorrect`, `DataInUseCorrect`,
`ReleasedOnceCorrect`, `OneGeneratorCorrect`, `ActiveHasOwnerCorrect`. None is inductive by itself. In `GenInv`, a thread that
lives is the one in `pthread` or was claimed by a thread that waits for it (`Owned`), whatever the callers do, which gives
`ActiveHasOwner`; as long as no deactivation was overtaken there is one such thread, and while somebody is still to
release it the data is not released (`Quiet`), which gives the other three. `AloneNeverOvertaken` shows
when the exception is void: with one caller (`Alone`) `raced` stays false, since a caller that saw `gen_is_active` finds the
thread to claim (`ClaimSound`). Assumption: `GeneratorAssumption` (the kinds of threads are distinct).

`CdrBatchProofs`, for any finite set of threads, any records, batch sizes and number of commands: `CdrTypeCorrect`,
`NeverTwiceCorrect`, `SubmissionComingCorrect` and `CdrLogRefined` (`Spec => ImplementsCdrLog`). `CdrInv` says that
the places a record can be in are disjoint and hold it once (`Apart`), and that a thread carries a record, or a
submitter a list, only where its code does (`RecordsOK`); `SubmissionComing` is inductive with the types. A step that
moves a record from one place to another then changes nothing in `CdrLog`, and one that posts or drops it is an action
of `CdrLog`. Assumption: `CdrAssumption`. Finitely many threads remember finitely many ids, so there is a new one.

`ParkingProofs`, for any calls, spaces and retrievers: `ParkingTypeCorrect`, `HeldOnceCorrect`, `ReachableCorrect`,
`ThreadKeepsOffCorrect` (an action property). `ParkInv` adds that an entry is named by its call as well as by its
space, that a parker's number is that of its entry, that an extension about to be removed is only that of an entry
marked `reused`, and that an entry without `notquiteyet` has a parker that is done, or memory was used after it was
freed. Assumptions: `ParkingBounds`, and `RetrieverNames` (retrievers are none of the other holders).

`SipDialogProofs`, for any number of INVITEs, retransmissions, rounds of authentication and packets: `SipTypeCorrect`,
`GoneOwnerToldCorrect`, `EndedByByeCorrect`, `CancelAfterAnswerCorrect`. `SipInv` relates what was sent, what
waits for an answer and what the peer has said. The case that needs it is the 200 that comes after the hangup:
while a call we placed has its owner, the INVITE that is pending is the latest and is still in `p->packets`, so
that the answer finds it, clears `pendinginvite`, and `check_pendings` sends the BYE. The two steps of `retrans_pkt` keep
that, whichever packet it unlinks in the end: by then the dialog is marked gone or has no owner
(`RetransLockedGood`). Most handlers are *calm*
(`Calm`): they send nothing and only settle packets and raise flags; one lemma covers them. Assumption: `SipBounds`.

`IaxCallProofs`, for any number of sequence numbers, frames, retries and packets under way: `IaxTypeCorrect`,
`DeliveredInOrderCorrect`, `AckedWasReceivedCorrect`. `IaxInv` says of each end that sequence numbers are serial numbers modulo
`SeqMod` (`Sends`, `Own`), that what the peer accepted is a prefix of what was sent and what it did not accept is queued
and repeated (`Counted`, `Held`), and of each packet that it carries such numbers and is not too old (`Travels`,
`Young`). Two frames less than `SeqMod` apart have distinct numbers (`NumUnique`), so the expected number is that of
the next frame. For the window of acknowledgements, the lemma `Covered` shows that the frames counted from
`rseqno` up to the number acknowledged are frames the peer has accepted. Assumption: `EndsAssumption`; the lifetime of
packets and the exception `raced` are part of the model and of the properties, and are as in sections 2 and 3.

Only model-checked: all liveness (`HangupFrameEndsCall`, `WaitHonoursMs`, `EventsRun`, `BatchPosted`,
`DeliveredOrHungUp`, `BothHangUp`, `Freed`, `InviteSettles`, `Served`), since fairness and ENABLED are out of the
prover's reach. Every other property of a passing run is proved.

## 5. The plan

Order of work, each step with its module, run and mutants:

1. `Autoservice`: the service loop, start and stop, with the channels' BLOCKING flag; after `stop`
   returns, the service thread does not read the channel.
2. `DeviceState` with an abstract specification (`a published state is the device's latest, in the
   end`) that the queue of changes implements, and the inline path that does not.
3. `Masquerade`: two channels, `masq`/`masqr`, hangup of either side, with both locks.
4. Pure algorithms: extension matching of `pbx.c`, the fixed jitter buffer, UDPTL redundancy.
5. Bridges, `chan_local`, call queues, SIP re-INVITE and IAX2 transfer.

## 6. Not modelled

The steps of the plan could be modelled and are not yet. Not modelled for good: signal processing,
codecs and formats (numeric, no interleaving of interest), third-party libraries, parsers, text and
file I/O, and drivers that depend on hardware or on libraries outside the repository. `PROJECT.json`
gives the reason for each part.
