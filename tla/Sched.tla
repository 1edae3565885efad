------------------------------- MODULE Sched -------------------------------
(***************************************************************************)
(* A scheduler context (corelib/sched.c): the list schedq of events in     *)
(* order of time, its service thread, and the threads and callbacks that   *)
(* add and delete events.                                                  *)
(*                                                                         *)
(* A context either has a service thread, which holds con->lock all the    *)
(* time but in its condition wait (the lock is recursive, so its callbacks *)
(* run under it and may still call in), or is manual: its owner calls      *)
(* cw_sched_runq, which gives up the lock before it runs the callbacks and *)
(* then puts events back without it.                                       *)
(***************************************************************************)
EXTENDS Naturals, Sequences

CONSTANTS
  Delays,      \* intervals callers and callbacks ask for
  Slack,       \* 1 ms: events due within it are run now
  MaxInt,      \* 2^31 - 1: largest event id
  MaxCache,    \* SCHED_MAX_CACHE
  MaxTime,     \* bound: the clock
  MaxAdds      \* bound: calls of cw_sched_add

ASSUME SchedAssumption ==
  /\ Delays \subseteq Nat /\ Delays # {} /\ Slack \in Nat \ {0} /\ MaxInt \in Nat
  /\ MaxCache \in Nat /\ MaxTime \in Nat /\ MaxAdds \in Nat

VARIABLES
  manual,      \* created by sched_manual_context_create (tid is null)
  schedq,      \* events waiting, soonest first
  schedcnt,    \* con->schedcnt
  eventcnt,    \* con->eventcnt, MaxInt + 1 standing for a negative value
  schedccnt,   \* con->schedccnt, unused structures kept
  runq,        \* events taken out to be run, the one being run first
  pc,          \* where the thread that runs cw_sched_runq is
  timed, tick, \* its condition wait has a time limit, and which
  sig,         \* the condition was signalled during that wait
  now,         \* the clock
  active,      \* history: serials of events neither deleted nor finished
  nadd         \* history: events added, the serial of the latest

listVars  == <<schedq, schedcnt>>
waitVars  == <<timed, tick>>
vars == <<manual, listVars, eventcnt, schedccnt, runq, pc, waitVars, sig,
          now, active, nadd>>

\* struct sched: n is the event's serial, which tells apart what id may not.
Event == [n : Nat, id : 0..MaxInt, when : Nat, resched : Delays, variable : BOOLEAN]

Serials(q) == {q[i].n : i \in 1..Len(q)}

\* The lists, counters and the loop's locals keep their types.
TypeOK ==
  /\ manual \in BOOLEAN /\ timed \in BOOLEAN /\ sig \in BOOLEAN
  /\ schedq \in Seq(Event) /\ runq \in Seq(Event)
  /\ schedcnt \in Nat /\ schedccnt \in 0..MaxCache /\ eventcnt \in 0..(MaxInt + 1)
  /\ pc \in {"start", "top", "wait", "callback"}
  /\ tick \in Nat /\ now \in Nat /\ nadd \in Nat
  /\ active \subseteq Nat

Init ==
  /\ manual \in BOOLEAN
  /\ schedq = <<>> /\ schedcnt = 0 /\ runq = <<>>
  /\ eventcnt = 1 /\ schedccnt = 0
  /\ pc = IF manual THEN "wait" ELSE "start"
  /\ timed = FALSE /\ tick = 0 /\ sig = FALSE
  /\ now = 0 /\ active = {} /\ nadd = 0

-----------------------------------------------------------------------------
(* The list *)

\* The list with s linked in behind its first k events, and without its k-th.
Linked(q, k, s) == SubSeq(q, 1, k) \o <<s>> \o SubSeq(q, k + 1, Len(q))
Unlinked(q, k)  == SubSeq(q, 1, k - 1) \o SubSeq(q, k + 1, Len(q))

\* Mutant: an event is always put first.
InPlace_First(q, k, w) == k = 0

\* schedule() stops after k events: before the first one strictly later.
InPlace(q, k, w) ==
  /\ \A i \in 1..k : q[i].when <= w
  /\ k < Len(q) => w < q[k + 1].when

\* Mutant: the service thread is woken for a first event only.
Signal_WhenEmpty(k) == sig' = (sig \/ (schedq = <<>> /\ ~manual /\ pc = "wait"))

\* Mutant: only a later event than the first wakes it.
Signal_Later(k) == sig' = (sig \/ (k # 0 /\ ~manual /\ pc = "wait"))

\* A new first event wakes the service thread, if there is one and it waits.
Signal(k) == sig' = (sig \/ (k = 0 /\ ~manual /\ pc = "wait"))

schedule(s) ==
  /\ schedcnt' = schedcnt + 1
  /\ \E k \in 0..Len(schedq) :
       /\ InPlace(schedq, k, s.when)
       /\ schedq' = Linked(schedq, k, s)
       /\ Signal(k)

\* Mutant: unused structures are kept without limit.
sched_release_NoLimit == schedccnt' = schedccnt + 1

sched_release == schedccnt' = IF schedccnt < MaxCache THEN schedccnt + 1 ELSE schedccnt
sched_alloc   == schedccnt' = IF schedccnt > 0 THEN schedccnt - 1 ELSE 0

\* A caller gets con->lock: the service thread has not begun, or waits, or the
\* caller is its callback; or the context is manual.
CanLock == pc # "top"

\* Mutant: events are numbered by how many are outstanding.
NewId_Outstanding == IF schedcnt <= MaxInt THEN schedcnt ELSE 0

\* The id of a new event. A counter that went negative gives out 0 and is left
\* at 0, so the next event gets 0 as well.
NewId == IF eventcnt <= MaxInt THEN eventcnt ELSE 0

cw_sched_add_variable(delay, v) ==
  /\ CanLock
  /\ nadd < MaxAdds /\ now + delay <= MaxTime
  /\ nadd' = nadd + 1
  /\ active' = active \cup {nadd + 1}
  /\ sched_alloc
  /\ eventcnt' = IF eventcnt <= MaxInt THEN eventcnt + 1 ELSE 0
  /\ schedule([n |-> nadd + 1, id |-> NewId, when |-> now + delay,
               resched |-> delay, variable |-> v])
  /\ UNCHANGED <<manual, runq, pc, waitVars, now>>

\* Mutant: the events behind the removed one go with it.
cw_sched_del_Cut(i) ==
  /\ CanLock
  /\ \E k \in 1..Len(schedq) :
       /\ schedq[k].id = i /\ \A j \in 1..(k - 1) : schedq[j].id # i
       /\ schedq' = SubSeq(schedq, 1, k - 1)
       /\ active' = active \ {schedq[k].n}
  /\ schedcnt' = schedcnt - 1
  /\ sched_release
  /\ UNCHANGED <<manual, eventcnt, runq, pc, waitVars, sig, now, nadd>>

\* The first event with the id is removed. When none has it, the call returns
\* -1 and changes nothing.
cw_sched_del(i) ==
  /\ CanLock
  /\ \E k \in 1..Len(schedq) :
       /\ schedq[k].id = i /\ \A j \in 1..(k - 1) : schedq[j].id # i
       /\ schedq' = Unlinked(schedq, k)
       /\ active' = active \ {schedq[k].n}
  /\ schedcnt' = schedcnt - 1
  /\ sched_release
  /\ UNCHANGED <<manual, eventcnt, runq, pc, waitVars, sig, now, nadd>>

-----------------------------------------------------------------------------
(* cw_sched_runq and the service thread *)

\* The service thread looks at the first event and waits for its time.
ServiceWait ==
  /\ ~manual /\ pc \in {"start", "top"}
  /\ pc' = "wait" /\ sig' = FALSE
  /\ timed' = (schedq # <<>>)
  /\ tick' = IF schedq # <<>> THEN Head(schedq).when ELSE 0
  /\ UNCHANGED <<manual, listVars, eventcnt, schedccnt, runq,
                 now, active, nadd>>

Idle == IF manual THEN "wait" ELSE "top"

\* Mutant: an event is due a whole slack too early.
Due_Early(w) == w <= now + Slack

Due(w) == w < now + Slack

\* Take out every event that is due. The service thread gets here when its
\* wait is signalled or times out, the owner of a manual context at will.
RunqDetach ==
  /\ pc = "wait" /\ (manual \/ sig \/ (timed /\ tick <= now))
  /\ \E k \in 0..Len(schedq) :
       /\ \A i \in 1..k : Due(schedq[i].when)
       /\ k < Len(schedq) => ~Due(schedq[k + 1].when)
       /\ runq' = SubSeq(schedq, 1, k)
       /\ schedq' = SubSeq(schedq, k + 1, Len(schedq))
       /\ schedcnt' = schedcnt - k
       /\ pc' = IF k = 0 THEN Idle ELSE "callback"
  /\ UNCHANGED <<manual, eventcnt, schedccnt, waitVars, sig, now,
                 active, nadd>>

\* Mutant: the loop is left after the first callback.
NextCallback_Once == runq' = <<>> /\ pc' = Idle

\* The loop goes on with the next event taken out.
NextCallback ==
  /\ runq' = Tail(runq)
  /\ pc' = IF Tail(runq) = <<>> THEN Idle ELSE "callback"

\* The callback returned 0.
RunqRelease ==
  /\ pc = "callback"
  /\ sched_release
  /\ active' = active \ {Head(runq).n}
  /\ NextCallback
  /\ UNCHANGED <<manual, listVars, eventcnt, waitVars, sig, now, nadd>>

\* The event after its callback returned nonzero, as it is put back.
Again(e) ==
  {[e EXCEPT !.when = e.when + d] : d \in IF e.variable THEN Delays \ {0} ELSE {e.resched}}

\* schedule() is called without taking the lock. The service thread still holds
\* it; nobody else is there to take it when the owner of a manual context is the
\* only one to use it (SchedShared has the other case).
RunqReschedule ==
  /\ pc = "callback"
  /\ \E e \in Again(Head(runq)) : e.when <= MaxTime /\ schedule(e)
  /\ NextCallback
  /\ UNCHANGED <<manual, eventcnt, schedccnt, waitVars, now, active, nadd>>

Tick ==
  /\ now < MaxTime
  /\ now' = now + 1
  /\ UNCHANGED <<manual, listVars, eventcnt, schedccnt, runq, pc, waitVars,
                 sig, active, nadd>>

-----------------------------------------------------------------------------
Runner == ServiceWait \/ RunqDetach \/ RunqRelease \/ RunqReschedule

Next ==
  \/ \E d \in Delays, v \in BOOLEAN : cw_sched_add_variable(d, v)
  \/ \E i \in 0..MaxInt : cw_sched_del(i)
  \/ Runner
  \/ Tick

Spec == Init /\ [][Next]_vars

\* Callbacks return, the service thread is scheduled, the owner of a manual
\* context keeps running it, and time passes.
FairSpec == Spec /\ WF_vars(Runner) /\ WF_vars(Tick)

-----------------------------------------------------------------------------
(* Properties *)

\* The list is in order of time, so that looking at its head (cw_sched_wait,
\* the service thread, the loop of cw_sched_runq) is looking at the soonest
\* event, and schedcnt counts it.
QueueSorted ==
  /\ schedcnt = Len(schedq)
  /\ \A i, j \in 1..Len(schedq) : i < j => schedq[i].when <= schedq[j].when

\* An event that was added, and neither deleted nor finished, is in exactly one
\* of the lists, once: it will run, and it will not run twice.
NothingLost ==
  /\ active = Serials(schedq) \cup Serials(runq)
  /\ Serials(schedq) \cap Serials(runq) = {}
  /\ \A i, j \in 1..Len(schedq) : schedq[i].n = schedq[j].n => i = j
  /\ \A i, j \in 1..Len(runq) : runq[i].n = runq[j].n => i = j

\* While the service thread sleeps, its wake-up covers the soonest event: it
\* has been signalled or wakes no later than that event is due.
WakeCoversHead ==
  ~manual /\ pc = "wait" /\ schedq # <<>>
    => sig \/ (timed /\ tick <= Head(schedq).when)

\* No callback runs before its time, but for the 1 ms of cw_sched_runq.
NeverEarly == pc = "callback" => Head(runq).when < now + Slack

\* As long as fewer than 2^31 events have been added, no two events have the
\* same id, so cw_sched_del removes the event its caller meant.
IdsUnique ==
  nadd <= MaxInt + 1 =>
    \A i, j \in 1..Len(schedq) : schedq[i].id = schedq[j].id => i = j

\* Every event is run, or deleted, in the end.
EventsRun == \A n \in 1..MaxAdds : n \in Serials(schedq) ~> n \notin Serials(schedq)

AsTimers(q) == {[n |-> q[i].n, when |-> q[i].when] : i \in 1..Len(q)}

Abstract == INSTANCE TimerService WITH
  clock <- now, armed <- AsTimers(schedq), firing <- AsTimers(runq), used <- nadd

\* The callers see a timer service: whatever the lists, the lock and the service
\* thread do, timers fire together when due, soonest first, each once, and a timer
\* that fires is no longer one that cw_sched_del can remove.
ImplementsTimerService == Abstract!Spec
=============================================================================
