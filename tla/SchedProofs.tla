---------------------------- MODULE SchedProofs ----------------------------
(***************************************************************************)
(* Proofs about module Sched: the event list of a scheduler context, for   *)
(* every number of events, every clock and every set of delays.            *)
(***************************************************************************)
EXTENDS Sched, TLAPS

\* r is q with e behind its first k elements.
IsInserted(S, q, k, e, r) ==
  /\ r \in Seq(S) /\ Len(r) = Len(q) + 1
  /\ r[k + 1] = e
  /\ \A i \in 1..k : r[i] = q[i]
  /\ \A i \in (k + 1)..Len(q) : r[i + 1] = q[i]

\* Linked puts an element behind the first k of a sequence.
LEMMA Inserted ==
  ASSUME NEW S, NEW q \in Seq(S), NEW k \in 0..Len(q), NEW e \in S
  PROVE  IsInserted(S, q, k, e, Linked(q, k, e))
<1> DEFINE a == SubSeq(q, 1, k)
           b == SubSeq(q, k + 1, Len(q))
           c == a \o <<e>>
           r == Linked(q, k, e)
<1>0. k \in Nat /\ Len(q) \in Nat /\ k <= Len(q) /\ (k + 1) - 1 = k
  OBVIOUS
<1>1. a \in Seq(S) /\ Len(a) = k /\ \A i \in 1..k : a[i] = q[i]
  BY <1>0
<1>2. /\ b \in Seq(S) /\ Len(b) = Len(q) - k
      /\ \A i \in 1..(Len(q) - k) : b[i] = q[k + i]
  BY <1>0
<1>3. r = c \o b
  BY <1>0, Zenon DEF Linked
<1> HIDE DEF a, b, r
<1>4. c \in Seq(S) /\ Len(c) = k + 1 /\ c[k + 1] = e /\ \A i \in 1..k : c[i] = q[i]
  <2>1. a \in Seq(S) /\ <<e>> \in Seq(S) /\ Len(<<e>>) = 1 /\ <<e>>[1] = e
    BY <1>1
  <2>a. c = a \o <<e>>
    OBVIOUS
  <2> HIDE DEF c
  <2>2. /\ c \in Seq(S) /\ Len(c) = Len(a) + Len(<<e>>)
        /\ \A i \in 1..Len(a) : c[i] = a[i]
        /\ \A i \in 1..Len(<<e>>) : c[Len(a) + i] = <<e>>[i]
    BY <2>1, <2>a
  <2>3. QED BY <1>0, <1>1, <2>1, <2>2
<1> HIDE DEF c
<1>5. /\ r \in Seq(S) /\ Len(r) = Len(c) + Len(b)
      /\ \A i \in 1..Len(c) : r[i] = c[i]
      /\ \A i \in 1..Len(b) : r[Len(c) + i] = b[i]
  <2>1. c \in Seq(S) /\ b \in Seq(S)
    BY <1>2, <1>4
  <2>a. r \in Seq(S)
    <3>1. c \o b \in Seq(S)
      BY <2>1
    <3>2. QED BY <1>3, <3>1
  <2>2. Len(r) = Len(c) + Len(b)
    BY <1>3, <2>1
  <2>3. \A i \in 1..Len(c) : r[i] = c[i]
    BY <1>3, <2>1
  <2>4. \A i \in 1..Len(b) : r[Len(c) + i] = b[i]
    BY <1>3, <2>1
  <2>5. QED BY <2>a, <2>2, <2>3, <2>4
<1>6. ASSUME NEW i \in (k + 1)..Len(q) PROVE r[i + 1] = q[i]
  <2>1. i - k \in 1..Len(b) /\ k + (i - k) = i /\ Len(c) + (i - k) = i + 1
    <3>1. Len(b) = Len(q) - k /\ Len(c) = k + 1
      BY <1>2, <1>4
    <3>2. QED BY <1>0, <3>1
  <2>2. r[Len(c) + (i - k)] = b[i - k] /\ b[i - k] = q[k + (i - k)]
    BY <1>2, <1>5, <2>1
  <2>3. QED BY <2>1, <2>2, Zenon
<1>7. \A i \in 1..k : r[i] = q[i]
  BY <1>0, <1>4, <1>5
<1>8. r[k + 1] = e /\ Len(r) = Len(q) + 1
  <2>1. k + 1 \in 1..Len(c)
    BY <1>0, <1>4
  <2>2. r[k + 1] = e
    BY <1>4, <1>5, <2>1, Zenon
  <2>3. Len(c) = k + 1 /\ Len(b) = Len(q) - k /\ Len(r) = Len(c) + Len(b)
    BY <1>2, <1>4, <1>5, Zenon
  <2>4. QED BY <1>0, <2>2, <2>3
<1>9. IsInserted(S, q, k, e, r)
  BY <1>5, <1>6, <1>7, <1>8, Zenon DEF IsInserted
<1>10. QED BY <1>9 DEF r

\* r is q without its k-th element.
IsRemoved(S, q, k, r) ==
  /\ r \in Seq(S) /\ Len(r) = Len(q) - 1
  /\ \A i \in 1..(k - 1) : r[i] = q[i]
  /\ \A i \in k..(Len(q) - 1) : r[i] = q[i + 1]

\* Unlinked takes the k-th element out of a sequence.
LEMMA Removed ==
  ASSUME NEW S, NEW q \in Seq(S), NEW k \in 1..Len(q)
  PROVE  IsRemoved(S, q, k, Unlinked(q, k))
<1> DEFINE a == SubSeq(q, 1, k - 1)
           b == SubSeq(q, k + 1, Len(q))
           r == Unlinked(q, k)
<1>0. k \in Nat /\ 1 <= k /\ Len(q) \in Nat /\ k <= Len(q)
  OBVIOUS
<1>1. a \in Seq(S) /\ Len(a) = k - 1 /\ \A i \in 1..(k - 1) : a[i] = q[i]
  BY <1>0
<1>2. /\ b \in Seq(S) /\ Len(b) = Len(q) - k
      /\ \A i \in 1..(Len(q) - k) : b[i] = q[k + i]
  BY <1>0
<1>3. r = a \o b
  BY Zenon DEF Unlinked
<1> HIDE DEF a, b, r
<1>4. /\ r \in Seq(S) /\ Len(r) = Len(a) + Len(b)
      /\ \A i \in 1..Len(a) : r[i] = a[i]
      /\ \A i \in 1..Len(b) : r[Len(a) + i] = b[i]
  <2>1. a \in Seq(S) /\ b \in Seq(S)
    BY <1>1, <1>2
  <2>2. QED BY <1>3, <2>1
<1>5. ASSUME NEW i \in k..(Len(q) - 1) PROVE r[i] = q[i + 1]
  <2>1. i - (k - 1) \in 1..Len(b) /\ k + (i - (k - 1)) = i + 1 /\ Len(a) + (i - (k - 1)) = i
    BY <1>0, <1>1, <1>2
  <2>2. r[Len(a) + (i - (k - 1))] = b[i - (k - 1)] /\ b[i - (k - 1)] = q[k + (i - (k - 1))]
    BY <1>2, <1>4, <2>1, Zenon
  <2>3. QED BY <2>1, <2>2, Zenon
<1>6. \A i \in 1..(k - 1) : r[i] = q[i]
  BY <1>1, <1>4
<1>7. Len(r) = Len(q) - 1
  BY <1>0, <1>1, <1>2, <1>4
<1>8. IsRemoved(S, q, k, r)
  BY <1>4, <1>5, <1>6, <1>7, Zenon DEF IsRemoved
<1>9. QED BY <1>8 DEF r

-----------------------------------------------------------------------------
(* The lists *)

\* What the list operations rest on: con->schedcnt counts the list, and there is
\* an event to run whenever a callback is being run.
ListOK ==
  /\ schedq \in Seq(Event) /\ runq \in Seq(Event)
  /\ schedcnt = Len(schedq)
  /\ pc = "callback" => runq # <<>>
  /\ now \in Nat /\ nadd \in Nat /\ eventcnt \in 0..(MaxInt + 1)

\* r is q with e behind its first k events, in order of time.
Placed(q, k, e, r) ==
  /\ k \in 0..Len(q) /\ e \in Event
  /\ r \in Seq(Event) /\ Len(r) = Len(q) + 1 /\ r[k + 1] = e
  /\ \A i \in 1..k : r[i] = q[i] /\ q[i].when <= e.when
  /\ \A i \in (k + 1)..Len(q) : r[i + 1] = q[i]
  /\ k < Len(q) => e.when < q[k + 1].when

\* r is q without its k-th event.
Without(q, k, r) ==
  /\ k \in 1..Len(q)
  /\ r \in Seq(Event) /\ Len(r) = Len(q) - 1
  /\ \A i \in 1..(k - 1) : r[i] = q[i]
  /\ \A i \in k..(Len(q) - 1) : r[i] = q[i + 1]

\* r is what is left of q behind its first k events.
Behind(q, k, r) ==
  /\ k \in 0..Len(q)
  /\ r \in Seq(Event) /\ Len(r) = Len(q) - k
  /\ \A i \in 1..Len(r) : r[i] = q[k + i]

\* schedule() links the event in at its place.
LEMMA Schedule ==
  ASSUME ListOK, NEW e \in Event, schedule(e)
  PROVE  /\ \E k \in 0..Len(schedq) : Placed(schedq, k, e, schedq') /\ Signal(k)
         /\ schedq' \in Seq(Event) /\ schedcnt' = Len(schedq')
<1>1. PICK k \in 0..Len(schedq) :
        InPlace(schedq, k, e.when) /\ schedq' = Linked(schedq, k, e) /\ Signal(k)
  BY DEF schedule
<1>2. schedq \in Seq(Event) /\ schedcnt = Len(schedq) /\ schedcnt' = schedcnt + 1
  BY DEF ListOK, schedule
<1>3. /\ schedq' \in Seq(Event) /\ Len(schedq') = Len(schedq) + 1
      /\ schedq'[k + 1] = e
      /\ \A i \in 1..k : schedq'[i] = schedq[i]
      /\ \A i \in (k + 1)..Len(schedq) : schedq'[i + 1] = schedq[i]
  <2>1. IsInserted(Event, schedq, k, e, Linked(schedq, k, e))
    BY <1>2, Inserted, Zenon
  <2>2. IsInserted(Event, schedq, k, e, schedq')
    BY <1>1, <2>1, Zenon
  <2>3. QED BY <2>2 DEF IsInserted
<1>4. Placed(schedq, k, e, schedq')
  BY <1>1, <1>3 DEF Placed, InPlace
<1>5. QED BY <1>1, <1>2, <1>3, <1>4

\* cw_sched_del unlinks one event.
LEMMA Del ==
  ASSUME ListOK, NEW i \in 0..MaxInt, cw_sched_del(i)
  PROVE  /\ \E k \in 1..Len(schedq) :
              Without(schedq, k, schedq') /\ active' = active \ {schedq[k].n}
         /\ schedq' \in Seq(Event) /\ schedcnt' = Len(schedq')
<1>1. PICK k \in 1..Len(schedq) :
        schedq' = Unlinked(schedq, k) /\ active' = active \ {schedq[k].n}
  BY DEF cw_sched_del
<1>2. schedq \in Seq(Event) /\ schedcnt = Len(schedq) /\ schedcnt' = schedcnt - 1
  BY DEF ListOK, cw_sched_del
<1>3. /\ schedq' \in Seq(Event) /\ Len(schedq') = Len(schedq) - 1
      /\ \A j \in 1..(k - 1) : schedq'[j] = schedq[j]
      /\ \A j \in k..(Len(schedq) - 1) : schedq'[j] = schedq[j + 1]
  <2>1. IsRemoved(Event, schedq, k, Unlinked(schedq, k))
    BY <1>2, Removed, Zenon
  <2>2. IsRemoved(Event, schedq, k, schedq')
    BY <1>1, <2>1, Zenon
  <2>3. QED BY <2>2 DEF IsRemoved
<1>4. Without(schedq, k, schedq')
  BY <1>3 DEF Without
<1>5. QED BY <1>1, <1>2, <1>3, <1>4

\* cw_sched_runq takes out the events that are due.
LEMMA Detach ==
  ASSUME ListOK, RunqDetach
  PROVE  /\ \E k \in 0..Len(schedq) :
              /\ Behind(schedq, k, schedq')
              /\ runq' \in Seq(Event) /\ Len(runq') = k
              /\ \A i \in 1..k : runq'[i] = schedq[i] /\ Due(schedq[i].when)
              /\ pc' = IF k = 0 THEN Idle ELSE "callback"
         /\ schedcnt' = Len(schedq')
<1>1. PICK k \in 0..Len(schedq) :
        /\ \A i \in 1..k : Due(schedq[i].when)
        /\ runq' = SubSeq(schedq, 1, k)
        /\ schedq' = SubSeq(schedq, k + 1, Len(schedq))
        /\ schedcnt' = schedcnt - k
        /\ pc' = IF k = 0 THEN Idle ELSE "callback"
  BY DEF RunqDetach
<1>2. schedq \in Seq(Event) /\ schedcnt = Len(schedq)
  BY DEF ListOK
<1>3. k \in Nat /\ Len(schedq) \in Nat /\ k <= Len(schedq) /\ (k + 1) - 1 = k
  BY <1>2
<1>4. runq' \in Seq(Event) /\ Len(runq') = k /\ \A i \in 1..k : runq'[i] = schedq[i]
  BY <1>1, <1>2, <1>3
<1>5. /\ schedq' \in Seq(Event) /\ Len(schedq') = Len(schedq) - k
      /\ \A i \in 1..(Len(schedq) - k) : schedq'[i] = schedq[k + i]
  BY <1>1, <1>2, <1>3
<1>6. Behind(schedq, k, schedq')
  BY <1>5 DEF Behind
<1>7. QED BY <1>1, <1>2, <1>4, <1>5, <1>6

\* The loop of cw_sched_runq goes on with the rest.
LEMMA Rest ==
  ASSUME ListOK, pc = "callback", NextCallback
  PROVE  /\ Len(runq) >= 1 /\ runq[1] \in Event /\ Head(runq) = runq[1]
         /\ Behind(runq, 1, runq')
         /\ pc' = "callback" => runq' # <<>>
<1>1. runq \in Seq(Event) /\ runq # <<>>
  BY DEF ListOK
<1>2. Len(runq) >= 1 /\ runq[1] \in Event /\ Head(runq) = runq[1]
  BY <1>1
<1>3. runq' = Tail(runq) /\ pc' = IF Tail(runq) = <<>> THEN Idle ELSE "callback"
  BY DEF NextCallback
<1>4. /\ runq' \in Seq(Event) /\ Len(runq') = Len(runq) - 1
      /\ \A i \in 1..(Len(runq) - 1) : runq'[i] = runq[1 + i]
  BY <1>1, <1>2, <1>3
<1>5. pc' = "callback" => runq' # <<>>
  BY <1>3 DEF Idle
<1>6. QED BY <1>2, <1>4, <1>5 DEF Behind

\* An event as cw_sched_add_variable makes it, and as it is put back.
LEMMA NewEvent ==
  ASSUME ListOK, NEW d \in Delays, NEW v \in BOOLEAN
  PROVE  [n |-> nadd + 1, id |-> NewId, when |-> now + d, resched |-> d, variable |-> v] \in Event
<1>1. nadd + 1 \in Nat /\ now + d \in Nat
  BY SchedAssumption DEF ListOK
<1>2. NewId \in 0..MaxInt
  BY SchedAssumption DEF ListOK, NewId
<1>3. QED BY <1>1, <1>2 DEF Event

LEMMA AgainEvent ==
  ASSUME NEW e \in Event, NEW f \in Again(e)
  PROVE  f \in Event /\ f.n = e.n /\ f.id = e.id
<1>1. PICK d \in Delays : f = [e EXCEPT !.when = e.when + d]
  BY DEF Again, Event
<1>2. e.when \in Nat /\ e.when + d \in Nat
  BY SchedAssumption DEF Event
<1>3. QED BY <1>1, <1>2 DEF Event

-----------------------------------------------------------------------------
(* Types *)

\* The Boolean variables.
FlagsOK == manual \in BOOLEAN /\ timed \in BOOLEAN /\ sig \in BOOLEAN

LEMMA FlagsStep == FlagsOK /\ [Next]_vars => FlagsOK'
<1> SUFFICES ASSUME FlagsOK, [Next]_vars PROVE FlagsOK'
  OBVIOUS
<1> USE DEF FlagsOK
<1>1. ASSUME NEW d \in Delays, NEW v \in BOOLEAN, cw_sched_add_variable(d, v) PROVE FlagsOK'
  BY <1>1, Zenon DEF cw_sched_add_variable, schedule, Signal, waitVars
<1>2. ASSUME NEW i \in 0..MaxInt, cw_sched_del(i) PROVE FlagsOK'
  BY <1>2, Zenon DEF cw_sched_del, waitVars
<1>3. CASE ServiceWait
  BY <1>3, Zenon DEF ServiceWait
<1>4. CASE RunqDetach
  BY <1>4, Zenon DEF RunqDetach, waitVars
<1>5. CASE RunqRelease
  BY <1>5, Zenon DEF RunqRelease, waitVars
<1>6. CASE RunqReschedule
  BY <1>6, Zenon DEF RunqReschedule, schedule, Signal, waitVars
<1>7. CASE Tick
  BY <1>7, Zenon DEF Tick, waitVars
<1>8. CASE UNCHANGED vars
  BY <1>8, Zenon DEF vars, waitVars
<1>9. QED BY <1>1, <1>2, <1>3, <1>4, <1>5, <1>6, <1>7, <1>8 DEF Next, Runner

LEMMA ListStep == ListOK /\ [Next]_vars => ListOK'
<1> SUFFICES ASSUME ListOK, [Next]_vars PROVE ListOK'
  OBVIOUS
<1>1. ASSUME NEW d \in Delays, NEW v \in BOOLEAN, cw_sched_add_variable(d, v) PROVE ListOK'
  <2>1. schedq' \in Seq(Event) /\ schedcnt' = Len(schedq')
    <3> DEFINE e == [n |-> nadd + 1, id |-> NewId, when |-> now + d, resched |-> d, variable |-> v]
    <3>1. e \in Event /\ schedule(e)
      BY <1>1, NewEvent DEF cw_sched_add_variable
    <3> HIDE DEF e
    <3>2. QED BY <3>1, Schedule
  <2>2. runq' = runq /\ pc' = pc /\ now' = now /\ nadd' = nadd + 1
    BY <1>1 DEF cw_sched_add_variable
  <2>3. eventcnt' \in 0..(MaxInt + 1)
    BY <1>1, SchedAssumption DEF cw_sched_add_variable, ListOK
  <2>4. QED BY <2>1, <2>2, <2>3 DEF ListOK
<1>2. ASSUME NEW i \in 0..MaxInt, cw_sched_del(i) PROVE ListOK'
  <2>1. schedq' \in Seq(Event) /\ schedcnt' = Len(schedq')
    BY <1>2, Del
  <2>2. UNCHANGED <<runq, pc, now, nadd, eventcnt>>
    BY <1>2 DEF cw_sched_del
  <2>3. QED BY <2>1, <2>2 DEF ListOK
<1>3. CASE ServiceWait
  BY <1>3 DEF ServiceWait, listVars, ListOK
<1>4. CASE RunqDetach
  <2>1. /\ schedq' \in Seq(Event) /\ runq' \in Seq(Event) /\ schedcnt' = Len(schedq')
        /\ pc' = "callback" => Len(runq') # 0
    BY <1>4, Detach DEF Behind, Idle
  <2>2. UNCHANGED <<now, nadd, eventcnt>>
    BY <1>4 DEF RunqDetach
  <2>3. QED BY <2>1, <2>2 DEF ListOK
<1>5. CASE RunqRelease
  <2>1. runq' \in Seq(Event) /\ (pc' = "callback" => runq' # <<>>)
    BY <1>5, Rest DEF RunqRelease, Behind
  <2>2. UNCHANGED <<schedq, schedcnt, now, nadd, eventcnt>>
    BY <1>5 DEF RunqRelease, listVars
  <2>3. QED BY <2>1, <2>2 DEF ListOK
<1>6. CASE RunqReschedule
  <2>1. /\ runq' \in Seq(Event) /\ (pc' = "callback" => runq' # <<>>)
        /\ Head(runq) \in Event
    BY <1>6, Rest DEF RunqReschedule, Behind
  <2>2. PICK e \in Again(Head(runq)) : schedule(e)
    BY <1>6 DEF RunqReschedule
  <2>3. e \in Event
    BY <2>1, <2>2, AgainEvent
  <2>4. schedq' \in Seq(Event) /\ schedcnt' = Len(schedq')
    BY <2>2, <2>3, Schedule
  <2>5. UNCHANGED <<now, nadd, eventcnt>>
    BY <1>6 DEF RunqReschedule
  <2>6. QED BY <2>1, <2>4, <2>5 DEF ListOK
<1>7. CASE Tick
  BY <1>7 DEF Tick, listVars, ListOK
<1>8. CASE UNCHANGED vars
  BY <1>8 DEF vars, listVars, ListOK
<1>9. QED BY <1>1, <1>2, <1>3, <1>4, <1>5, <1>6, <1>7, <1>8 DEF Next, Runner

\* The other variables.
CountsOK ==
  /\ schedccnt \in 0..MaxCache /\ tick \in Nat /\ active \subseteq Nat
  /\ pc \in {"start", "top", "wait", "callback"}

LEMMA CountsStep == ListOK /\ CountsOK /\ [Next]_vars => CountsOK'
<1> SUFFICES ASSUME ListOK, CountsOK, [Next]_vars PROVE CountsOK'
  OBVIOUS
<1> USE DEF CountsOK
<1>a. Idle \in {"start", "top", "wait", "callback"}
  BY Zenon DEF Idle
<1>b. sched_release => schedccnt' \in 0..MaxCache
  BY SchedAssumption DEF sched_release
<1>c. sched_alloc => schedccnt' \in 0..MaxCache
  BY SchedAssumption DEF sched_alloc
<1>d. NextCallback => pc' \in {"start", "top", "wait", "callback"}
  BY <1>a DEF NextCallback
<1>1. ASSUME NEW d \in Delays, NEW v \in BOOLEAN, cw_sched_add_variable(d, v) PROVE CountsOK'
  BY <1>1, <1>c DEF cw_sched_add_variable, waitVars, ListOK
<1>2. ASSUME NEW i \in 0..MaxInt, cw_sched_del(i) PROVE CountsOK'
  BY <1>2, <1>b, Zenon DEF cw_sched_del, waitVars
<1>3. CASE ServiceWait
  <2>1. ASSUME schedq # <<>> PROVE Head(schedq).when \in Nat
    <3>1. schedq \in Seq(Event)
      BY DEF ListOK
    <3>2. Head(schedq) \in Event
      BY <2>1, <3>1
    <3>3. QED BY <3>2 DEF Event
  <2>2. QED BY <1>3, <2>1 DEF ServiceWait
<1>4. CASE RunqDetach
  BY <1>4, <1>a DEF RunqDetach, waitVars
<1>5. CASE RunqRelease
  BY <1>5, <1>b, <1>d, Zenon DEF RunqRelease, waitVars
<1>6. CASE RunqReschedule
  BY <1>6, <1>d DEF RunqReschedule, waitVars
<1>7. CASE Tick
  BY <1>7 DEF Tick, waitVars
<1>8. CASE UNCHANGED vars
  BY <1>8 DEF vars, waitVars
<1>9. QED BY <1>1, <1>2, <1>3, <1>4, <1>5, <1>6, <1>7, <1>8 DEF Next, Runner

\* All of it, as an invariant the other proofs use.
TypeInv == FlagsOK /\ ListOK /\ CountsOK

LEMMA TypeInvInit == Init => TypeInv
<1> SUFFICES ASSUME Init PROVE TypeInv
  OBVIOUS
<1>1. FlagsOK
  BY Zenon DEF Init, FlagsOK
<1>2. ListOK
  <2>1. pc # "callback"
    <3>1. pc = "wait" \/ pc = "start"
      BY Zenon DEF Init
    <3>2. QED BY <3>1
  <2>2. QED BY <2>1, SchedAssumption DEF Init, ListOK
<1>3. CountsOK
  <2>1. pc \in {"start", "top", "wait", "callback"}
    BY Zenon DEF Init
  <2>2. QED BY <2>1, SchedAssumption DEF Init, CountsOK
<1>4. QED BY <1>1, <1>2, <1>3 DEF TypeInv

LEMMA TypeInvariant == Spec => []TypeInv
<1>1. TypeInv /\ [Next]_vars => TypeInv'
  BY FlagsStep, ListStep, CountsStep DEF TypeInv
<1>2. QED BY TypeInvInit, <1>1, PTL DEF Spec

\* Every variable of a scheduler context stays within its type: no more than
\* SCHED_MAX_CACHE structures are kept, and schedcnt never goes below zero.
THEOREM SchedTypeCorrect == Spec => []TypeOK
<1>1. TypeInv => TypeOK
  BY DEF TypeInv, FlagsOK, ListOK, CountsOK, TypeOK
<1>2. QED BY TypeInvariant, <1>1, PTL

-----------------------------------------------------------------------------
(* The list is in order *)

Sorted(q) == \A i, j \in 1..Len(q) : i < j => q[i].when <= q[j].when

LEMMA Times == ASSUME NEW q \in Seq(Event), NEW i \in 1..Len(q) PROVE q[i].when \in Nat
<1>1. q[i] \in Event
  OBVIOUS
<1>2. QED BY <1>1 DEF Event

LEMMA PlacedSorted ==
  ASSUME NEW q \in Seq(Event), NEW k, NEW e, NEW r, Placed(q, k, e, r), Sorted(q)
  PROVE  Sorted(r)
<1> SUFFICES ASSUME NEW i \in 1..Len(r), NEW j \in 1..Len(r), i < j
             PROVE  r[i].when <= r[j].when
  BY DEF Sorted
<1>0. /\ k \in Nat /\ Len(q) \in Nat /\ k <= Len(q) /\ Len(r) = Len(q) + 1
      /\ i \in Nat /\ j \in Nat /\ 1 <= i /\ j <= Len(q) + 1
  BY DEF Placed
<1>1. CASE j <= k
  <2>1. i \in 1..k /\ j \in 1..k /\ i \in 1..Len(q) /\ j \in 1..Len(q)
    BY <1>0, <1>1
  <2>2. r[i] = q[i] /\ r[j] = q[j]
    BY <2>1 DEF Placed
  <2>3. QED BY <2>1, <2>2 DEF Sorted
<1>2. CASE j = k + 1
  <2>1. i \in 1..k
    BY <1>0, <1>2
  <2>2. QED BY <2>1, <1>2 DEF Placed
<1>3. CASE j > k + 1
  <2>1. j - 1 \in (k + 1)..Len(q) /\ (j - 1) + 1 = j /\ k < Len(q)
    BY <1>0, <1>3
  <2>2. r[j] = q[j - 1] /\ e.when < q[k + 1].when
    BY <2>1 DEF Placed
  <2>3. /\ k + 1 \in 1..Len(q) /\ j - 1 \in 1..Len(q)
        /\ e.when \in Nat /\ q[k + 1].when \in Nat /\ q[j - 1].when \in Nat
    <3>1. k + 1 \in 1..Len(q) /\ j - 1 \in 1..Len(q)
      BY <1>0, <2>1
    <3>2. e.when \in Nat
      BY DEF Placed, Event
    <3>3. QED BY <3>1, <3>2, Times
  <2>4. CASE i <= k
    <3>1. i \in 1..k /\ i \in 1..Len(q) /\ i < j - 1
      BY <1>0, <2>1, <2>4
    <3>2. r[i] = q[i]
      BY <3>1 DEF Placed
    <3>3. QED BY <2>2, <2>3, <3>1, <3>2 DEF Sorted
  <2>5. CASE i = k + 1
    <3>1. q[k + 1].when <= q[j - 1].when
      <4>1. CASE k + 1 < j - 1
        BY <2>3, <4>1 DEF Sorted
      <4>2. CASE k + 1 = j - 1
        BY <2>3, <4>2
      <4>3. QED BY <1>0, <2>1, <4>1, <4>2
    <3>2. r[i] = e
      BY <2>5 DEF Placed
    <3>3. e.when <= q[j - 1].when
      <4> DEFINE x == e.when
                 y == q[k + 1].when
                 z == q[j - 1].when
      <4>1. x \in Nat /\ y \in Nat /\ z \in Nat /\ x < y /\ y <= z
        BY <2>2, <2>3, <3>1, Zenon
      <4> HIDE DEF x, y, z
      <4>2. x <= z
        BY <4>1
      <4>3. QED BY <4>2 DEF x, z
    <3>4. QED BY <2>2, <3>2, <3>3, Zenon
  <2>6. CASE i > k + 1
    <3>1. /\ i - 1 \in (k + 1)..Len(q) /\ (i - 1) + 1 = i
          /\ i - 1 \in 1..Len(q) /\ i - 1 < j - 1
      BY <1>0, <2>6
    <3>2. r[i] = q[i - 1]
      BY <3>1 DEF Placed
    <3>3. q[i - 1].when <= q[j - 1].when
      BY <2>3, <3>1, Zenon DEF Sorted
    <3>4. QED BY <2>2, <3>2, <3>3, Zenon
  <2>7. QED BY <1>0, <2>4, <2>5, <2>6
<1>4. QED BY <1>0, <1>1, <1>2, <1>3

LEMMA WithoutSorted ==
  ASSUME NEW q \in Seq(Event), NEW k, NEW r, Without(q, k, r), Sorted(q)
  PROVE  Sorted(r)
<1> SUFFICES ASSUME NEW i \in 1..Len(r), NEW j \in 1..Len(r), i < j
             PROVE  r[i].when <= r[j].when
  BY DEF Sorted
<1>0. /\ k \in Nat /\ 1 <= k /\ Len(q) \in Nat /\ k <= Len(q) /\ Len(r) = Len(q) - 1
      /\ i \in Nat /\ j \in Nat /\ 1 <= i /\ j <= Len(q) - 1
  BY DEF Without
<1>1. /\ i < k => r[i] = q[i]
      /\ i >= k => r[i] = q[i + 1]
  <2>1. (i < k => i \in 1..(k - 1)) /\ (i >= k => i \in k..(Len(q) - 1))
    BY <1>0
  <2>2. QED BY <2>1, Zenon DEF Without
<1>2. /\ j < k => r[j] = q[j]
      /\ j >= k => r[j] = q[j + 1]
  <2>1. (j < k => j \in 1..(k - 1)) /\ (j >= k => j \in k..(Len(q) - 1))
    BY <1>0
  <2>2. QED BY <2>1, Zenon DEF Without
<1>3. /\ i \in 1..Len(q) /\ i + 1 \in 1..Len(q) /\ j \in 1..Len(q) /\ j + 1 \in 1..Len(q)
      /\ i < j /\ i < j + 1 /\ i + 1 < j + 1
  BY <1>0
<1>4. q[i].when <= q[j].when /\ q[i].when <= q[j + 1].when /\ q[i + 1].when <= q[j + 1].when
  BY <1>3, Zenon DEF Sorted
<1>5. CASE j < k
  <2>1. i < k
    BY <1>0, <1>5
  <2>2. QED BY <1>1, <1>2, <1>4, <1>5, <2>1, Zenon
<1>6. CASE i < k /\ j >= k
  BY <1>1, <1>2, <1>4, <1>6, Zenon
<1>7. CASE i >= k
  <2>1. j >= k
    BY <1>0, <1>7
  <2>2. QED BY <1>1, <1>2, <1>4, <1>7, <2>1, Zenon
<1>8. QED BY <1>0, <1>5, <1>6, <1>7

LEMMA BehindSorted ==
  ASSUME NEW q \in Seq(Event), NEW k, NEW r, Behind(q, k, r), Sorted(q)
  PROVE  Sorted(r)
<1> SUFFICES ASSUME NEW i \in 1..Len(r), NEW j \in 1..Len(r), i < j
             PROVE  r[i].when <= r[j].when
  BY DEF Sorted
<1>1. r[i] = q[k + i] /\ r[j] = q[k + j]
  BY DEF Behind
<1>2. k + i \in 1..Len(q) /\ k + j \in 1..Len(q) /\ k + i < k + j
  BY DEF Behind
<1>3. QED BY <1>1, <1>2 DEF Sorted

\* The list of events is in order of time and schedcnt is its length, whatever
\* callers add and delete, and whatever is run and put back (schedule,
\* cw_sched_del, cw_sched_runq).
THEOREM SortedCorrect == Spec => []QueueSorted
<1>1. Init => Sorted(schedq)
  BY DEF Init, Sorted
<1>2. TypeInv /\ Sorted(schedq) /\ [Next]_vars => Sorted(schedq)'
  <2> SUFFICES ASSUME TypeInv, Sorted(schedq), [Next]_vars PROVE Sorted(schedq')
    BY DEF Sorted
  <2>0. ListOK /\ schedq \in Seq(Event)
    BY DEF TypeInv, ListOK
  <2>1. ASSUME NEW d \in Delays, NEW v \in BOOLEAN, cw_sched_add_variable(d, v)
        PROVE  Sorted(schedq')
    <3> DEFINE e == [n |-> nadd + 1, id |-> NewId, when |-> now + d, resched |-> d, variable |-> v]
    <3>1. e \in Event /\ schedule(e)
      BY <2>0, <2>1, NewEvent DEF cw_sched_add_variable
    <3> HIDE DEF e
    <3>2. PICK k \in 0..Len(schedq) : Placed(schedq, k, e, schedq')
      BY <2>0, <3>1, Schedule
    <3>3. QED BY <2>0, <3>2, PlacedSorted
  <2>2. ASSUME NEW i \in 0..MaxInt, cw_sched_del(i) PROVE Sorted(schedq')
    <3>1. PICK k \in 1..Len(schedq) : Without(schedq, k, schedq')
      BY <2>0, <2>2, Del
    <3>2. QED BY <2>0, <3>1, WithoutSorted
  <2>3. CASE RunqDetach
    <3>1. PICK k \in 0..Len(schedq) : Behind(schedq, k, schedq')
      BY <2>0, <2>3, Detach
    <3>2. QED BY <2>0, <3>1, BehindSorted
  <2>4. CASE RunqReschedule
    <3>1. Head(runq) \in Event
      BY <2>0, <2>4, Rest DEF RunqReschedule
    <3>2. PICK e \in Again(Head(runq)) : schedule(e)
      BY <2>4 DEF RunqReschedule
    <3>3. e \in Event
      BY <3>1, <3>2, AgainEvent
    <3>4. PICK k \in 0..Len(schedq) : Placed(schedq, k, e, schedq')
      BY <2>0, <3>2, <3>3, Schedule
    <3>5. QED BY <2>0, <3>4, PlacedSorted
  <2>5. CASE ServiceWait \/ RunqRelease \/ Tick \/ UNCHANGED vars
    <3>1. schedq' = schedq
      BY <2>5 DEF ServiceWait, RunqRelease, Tick, vars, listVars
    <3>2. QED BY <3>1
  <2>6. QED BY <2>1, <2>2, <2>3, <2>4, <2>5 DEF Next, Runner
<1>3. TypeInv /\ Sorted(schedq) => QueueSorted
  BY DEF TypeInv, ListOK, Sorted, QueueSorted
<1>4. QED BY <1>1, <1>2, <1>3, TypeInvariant, PTL DEF Spec

-----------------------------------------------------------------------------
(* The service thread's wake-up *)

LEMMA IdleAwake == ASSUME ~manual PROVE Idle # "wait"
<1>1. Idle = "top"
  BY Zenon DEF Idle
<1>2. QED BY <1>1

\* What a step may do to the first event while the service thread sleeps on.
LEMMA HeadStep ==
  ASSUME TypeInv, QueueSorted, [Next]_vars, ~manual, ~manual', pc = "wait", pc' = "wait",
         schedq' # <<>>
  PROVE  /\ sig => sig'
         /\ \/ sig'
            \/ schedq # <<>> /\ Head(schedq).when <= Head(schedq').when
         /\ timed' = timed /\ tick' = tick
<1>0. ListOK /\ schedq \in Seq(Event)
  BY DEF TypeInv, ListOK
<1>1. ASSUME NEW d \in Delays, NEW v \in BOOLEAN, cw_sched_add_variable(d, v)
      PROVE  /\ sig => sig'
             /\ sig' \/ (schedq # <<>> /\ Head(schedq).when <= Head(schedq').when)
             /\ timed' = timed /\ tick' = tick
  <2> DEFINE e == [n |-> nadd + 1, id |-> NewId, when |-> now + d, resched |-> d, variable |-> v]
  <2>1. e \in Event /\ schedule(e)
    BY <1>0, <1>1, NewEvent DEF cw_sched_add_variable
  <2> HIDE DEF e
  <2>2. PICK k \in 0..Len(schedq) : Placed(schedq, k, e, schedq') /\ Signal(k)
    BY <1>0, <2>1, Schedule
  <2>3. sig => sig'
    BY <2>2, Zenon DEF Signal
  <2>4. timed' = timed /\ tick' = tick
    BY <1>1, Zenon DEF cw_sched_add_variable, waitVars
  <2>5. CASE k = 0
    <3>1. sig'
      BY <2>2, <2>5, Zenon DEF Signal
    <3>2. QED BY <2>3, <2>4, <3>1, Zenon
  <2>6. CASE k # 0
    <3>1. 1 \in 1..k /\ 1 \in 1..Len(schedq) /\ Len(schedq) >= 1
      BY <1>0, <2>6
    <3>2. schedq'[1] = schedq[1] /\ schedq[1].when \in Nat
      BY <1>0, <2>2, <3>1, Times DEF Placed
    <3>3. schedq # <<>> /\ Head(schedq) = schedq[1]
      BY <1>0, <3>1
    <3>4. Head(schedq') = schedq'[1]
      BY <2>2 DEF Placed
    <3>5. schedq # <<>> /\ Head(schedq).when <= Head(schedq').when
      BY <3>2, <3>3, <3>4
    <3>6. QED BY <2>3, <2>4, <3>5, Zenon
  <2>7. QED BY <2>5, <2>6
<1>2. ASSUME NEW i \in 0..MaxInt, cw_sched_del(i)
      PROVE  /\ sig => sig'
             /\ sig' \/ (schedq # <<>> /\ Head(schedq).when <= Head(schedq').when)
             /\ timed' = timed /\ tick' = tick
  <2>1. PICK k \in 1..Len(schedq) : Without(schedq, k, schedq')
    BY <1>0, <1>2, Del
  <2>2. sig' = sig /\ timed' = timed /\ tick' = tick
    BY <1>2, Zenon DEF cw_sched_del, waitVars
  <2>3. /\ Len(schedq') \in Nat /\ Len(schedq') >= 1 /\ Head(schedq') = schedq'[1]
        /\ Len(schedq) = Len(schedq') + 1
    BY <1>0, <2>1 DEF Without
  <2>4. schedq # <<>> /\ Head(schedq) = schedq[1] /\ 1 \in 1..Len(schedq) /\ 2 \in 1..Len(schedq)
    BY <1>0, <2>3
  <2>5. schedq[1].when \in Nat /\ schedq[1].when <= schedq[2].when
    BY <1>0, <2>4, Times DEF QueueSorted
  <2>6. schedq'[1] = schedq[1] \/ schedq'[1] = schedq[2]
    <3>1. CASE k = 1
      <4>1. 1 \in k..(Len(schedq) - 1) /\ 1 + 1 = 2
        BY <2>3, <3>1
      <4>2. QED BY <2>1, <4>1 DEF Without
    <3>2. CASE k # 1
      <4>1. 1 \in 1..(k - 1)
        BY <1>0, <3>2
      <4>2. QED BY <2>1, <4>1 DEF Without
    <3>3. QED BY <3>1, <3>2
  <2>7. schedq # <<>> /\ Head(schedq).when <= Head(schedq').when
    BY <2>3, <2>4, <2>5, <2>6
  <2>8. QED BY <2>2, <2>7, Zenon
<1>3. ~ServiceWait
  BY DEF ServiceWait
<1>4. ~RunqDetach
  <2>1. RunqDetach => pc' = Idle \/ pc' = "callback"
    BY Zenon DEF RunqDetach
  <2>2. QED BY <2>1, IdleAwake
<1>5. ~RunqRelease /\ ~RunqReschedule
  BY DEF RunqRelease, RunqReschedule
<1>6. ASSUME Tick \/ UNCHANGED vars
      PROVE  /\ sig => sig'
             /\ sig' \/ (schedq # <<>> /\ Head(schedq).when <= Head(schedq').when)
             /\ timed' = timed /\ tick' = tick
  <2>1. sig' = sig /\ timed' = timed /\ tick' = tick /\ schedq' = schedq
    BY <1>6, Zenon DEF Tick, vars, listVars, waitVars
  <2>2. Head(schedq).when \in Nat
    <3>1. Head(schedq) \in Event
      BY <1>0, <2>1
    <3>2. QED BY <3>1 DEF Event
  <2>3. schedq # <<>> /\ Head(schedq).when <= Head(schedq').when
    BY <2>1, <2>2
  <2>4. QED BY <2>1, <2>3, Zenon
<1>7. QED BY <1>1, <1>2, <1>3, <1>4, <1>5, <1>6, Zenon DEF Next, Runner

\* While the service thread is in its condition wait, it has been signalled or
\* wakes no later than the first event is due: no event added before the others
\* (schedule signals the condition), and none that becomes first when another is
\* deleted, is slept through.
THEOREM WakeCorrect == Spec => []WakeCoversHead
<1>1. Init => WakeCoversHead
  BY DEF Init, WakeCoversHead
<1>2. TypeInv /\ QueueSorted /\ WakeCoversHead /\ [Next]_vars => WakeCoversHead'
  <2> SUFFICES ASSUME TypeInv, QueueSorted, WakeCoversHead, [Next]_vars,
                      ~manual', pc' = "wait", schedq' # <<>>
               PROVE  sig' \/ (timed' /\ tick' <= Head(schedq').when)
    BY Zenon DEF WakeCoversHead
  <2>0. ListOK /\ schedq \in Seq(Event) /\ tick \in Nat
    BY DEF TypeInv, ListOK, CountsOK
  <2>1. ~manual
    BY Zenon DEF Next, Runner, vars, cw_sched_add_variable, cw_sched_del, ServiceWait,
                 RunqDetach, RunqRelease, RunqReschedule, Tick
  <2>2. CASE pc = "wait"
    <3>1. /\ sig => sig'
          /\ sig' \/ (schedq # <<>> /\ Head(schedq).when <= Head(schedq').when)
          /\ timed' = timed /\ tick' = tick
      BY <2>1, <2>2, HeadStep
    <3>2. CASE sig'
      BY <3>2, Zenon
    <3>3. CASE ~sig'
      <4>1. schedq # <<>> /\ Head(schedq).when <= Head(schedq').when /\ ~sig
        BY <3>1, <3>3, Zenon
      <4>2. timed /\ tick <= Head(schedq).when
        BY <2>1, <2>2, <4>1, Zenon DEF WakeCoversHead
      <4>3. Head(schedq).when \in Nat /\ Head(schedq').when \in Nat
        <5>1. ListOK'
          BY <2>0, ListStep
        <5>2. schedq' \in Seq(Event)
          BY <5>1 DEF ListOK
        <5>3. Head(schedq) \in Event /\ Head(schedq') \in Event
          BY <2>0, <4>1, <5>2
        <5>4. QED BY <5>3 DEF Event
      <4>4. tick' <= Head(schedq').when
        BY <2>0, <3>1, <4>1, <4>2, <4>3
      <4>5. QED BY <3>1, <4>2, <4>4, Zenon
    <3>4. QED BY <3>2, <3>3
  <2>3. CASE pc # "wait"
    <3>1. CASE ServiceWait
      <4>1. schedq' = schedq /\ timed' = (schedq # <<>>)
        BY <3>1, Zenon DEF ServiceWait, listVars
      <4>2. tick' = Head(schedq').when
        BY <3>1, <4>1 DEF ServiceWait
      <4>3. Head(schedq') \in Event
        BY <2>0, <4>1
      <4>4. tick' <= Head(schedq').when
        BY <4>2, <4>3 DEF Event
      <4>5. QED BY <4>1, <4>4, Zenon
    <3>2. NextCallback => pc' = Idle \/ pc' = "callback"
      BY Zenon DEF NextCallback
    <3>3. ~RunqRelease /\ ~RunqReschedule /\ ~RunqDetach
      BY <2>1, <2>3, <3>2, IdleAwake DEF RunqRelease, RunqReschedule, RunqDetach
    <3>4. ASSUME NEW d \in Delays, NEW v \in BOOLEAN, cw_sched_add_variable(d, v) PROVE FALSE
      BY <2>3, <3>4 DEF cw_sched_add_variable
    <3>5. ASSUME NEW i \in 0..MaxInt, cw_sched_del(i) PROVE FALSE
      BY <2>3, <3>5 DEF cw_sched_del
    <3>6. ~Tick /\ ~UNCHANGED vars
      BY <2>3 DEF Tick, vars
    <3>7. QED BY <3>1, <3>3, <3>4, <3>5, <3>6, Zenon DEF Next, Runner
  <2>4. QED BY <2>2, <2>3
<1>3. QED BY <1>1, <1>2, TypeInvariant, SortedCorrect, PTL DEF Spec

-----------------------------------------------------------------------------
(* No callback before its time *)

\* All events taken out are due, not only the one being run.
RunDue == \A i \in 1..Len(runq) : runq[i].when < now + Slack

\* cw_sched_runq runs no callback more than 1 ms before its time. The test is made
\* once, under the lock, for all events taken out, and time only goes on.
THEOREM EarlyCorrect == Spec => []NeverEarly
<1>1. Init => RunDue
  BY DEF Init, RunDue
<1>2. TypeInv /\ RunDue /\ [Next]_vars => RunDue'
  <2> SUFFICES ASSUME TypeInv, RunDue, [Next]_vars PROVE RunDue'
    OBVIOUS
  <2>0. ListOK
    BY DEF TypeInv
  <2>1. CASE RunqDetach
    <3>1. PICK k \in 0..Len(schedq) :
            Len(runq') = k /\ \A i \in 1..k : runq'[i] = schedq[i] /\ Due(schedq[i].when)
      BY <2>0, <2>1, Detach
    <3>2. now' = now
      BY <2>1 DEF RunqDetach
    <3>3. QED BY <3>1, <3>2 DEF RunDue, Due
  <2>2. CASE RunqRelease \/ RunqReschedule
    <3>1. Behind(runq, 1, runq') /\ now' = now
      BY <2>0, <2>2, Rest DEF RunqRelease, RunqReschedule
    <3>2. \A i \in 1..Len(runq') : 1 + i \in 1..Len(runq) /\ runq'[i] = runq[1 + i]
      BY <2>0, <3>1 DEF Behind, ListOK
    <3>3. QED BY <3>1, <3>2 DEF RunDue
  <2>3. CASE Tick
    <3>1. runq' = runq /\ now' = now + 1 /\ now \in Nat /\ runq \in Seq(Event)
      BY <2>0, <2>3 DEF Tick, ListOK
    <3>2. ASSUME NEW i \in 1..Len(runq) PROVE runq[i].when < now' + Slack
      <4>1. runq[i].when \in Nat /\ runq[i].when < now + Slack
        BY <3>1, Times DEF RunDue
      <4>2. QED BY <3>1, <4>1, SchedAssumption
    <3>3. QED BY <3>1, <3>2 DEF RunDue
  <2>4. ASSUME NEW d \in Delays, NEW v \in BOOLEAN, cw_sched_add_variable(d, v) PROVE RunDue'
    BY <2>4 DEF cw_sched_add_variable, RunDue
  <2>5. ASSUME NEW i \in 0..MaxInt, cw_sched_del(i) PROVE RunDue'
    BY <2>5 DEF cw_sched_del, RunDue
  <2>6. CASE ServiceWait \/ UNCHANGED vars
    BY <2>6 DEF ServiceWait, vars, RunDue
  <2>7. QED BY <2>1, <2>2, <2>3, <2>4, <2>5, <2>6 DEF Next, Runner
<1>3. TypeInv /\ RunDue => NeverEarly
  <2> SUFFICES ASSUME TypeInv, RunDue, pc = "callback" PROVE Head(runq).when < now + Slack
    BY DEF NeverEarly
  <2>1. runq \in Seq(Event) /\ runq # <<>>
    BY DEF TypeInv, ListOK
  <2>2. 1 \in 1..Len(runq) /\ Head(runq) = runq[1]
    BY <2>1
  <2>3. QED BY <2>2 DEF RunDue
<1>4. QED BY <1>1, <1>2, <1>3, TypeInvariant, PTL DEF Spec

-----------------------------------------------------------------------------
(* No event is lost, and none is in the lists twice *)

Distinct(q) == \A i, j \in 1..Len(q) : q[i].n = q[j].n => i = j

LEMMA SerialsOf == ASSUME NEW q, NEW i \in 1..Len(q) PROVE q[i].n \in Serials(q)
BY DEF Serials

LEMMA PlacedSerials ==
  ASSUME NEW q \in Seq(Event), NEW k, NEW e, NEW r, Placed(q, k, e, r)
  PROVE  /\ Serials(r) = Serials(q) \cup {e.n}
         /\ Distinct(q) /\ e.n \notin Serials(q) => Distinct(r)
<1> DEFINE at(i) == IF i <= k THEN i ELSE i - 1
<1>0. k \in Nat /\ Len(q) \in Nat /\ k <= Len(q) /\ Len(r) = Len(q) + 1 /\ r[k + 1] = e
  BY DEF Placed
<1>1. ASSUME NEW i \in 1..Len(r), i # k + 1 PROVE at(i) \in 1..Len(q) /\ r[i] = q[at(i)]
  <2>1. CASE i <= k
    BY <1>0, <2>1 DEF Placed
  <2>2. CASE i > k
    <3>1. i - 1 \in (k + 1)..Len(q) /\ (i - 1) + 1 = i /\ at(i) = i - 1
      BY <1>0, <1>1, <2>2
    <3>2. r[i] = q[i - 1]
      BY <3>1 DEF Placed
    <3>3. QED BY <1>0, <3>1, <3>2
  <2>3. QED BY <1>0, <2>1, <2>2
<1>2. ASSUME NEW i \in 1..Len(q) PROVE \E j \in 1..Len(r) : r[j] = q[i]
  <2>1. CASE i <= k
    BY <1>0, <2>1 DEF Placed
  <2>2. CASE i > k
    <3>1. i \in (k + 1)..Len(q) /\ i + 1 \in 1..Len(r)
      BY <1>0, <2>2
    <3>2. r[i + 1] = q[i]
      BY <3>1 DEF Placed
    <3>3. QED BY <3>1, <3>2
  <2>3. QED BY <1>0, <2>1, <2>2
<1>3. k + 1 \in 1..Len(r)
  BY <1>0
<1>a. ASSUME NEW i \in 1..Len(r), NEW j \in 1..Len(r), i # k + 1, j # k + 1, at(i) = at(j)
      PROVE  i = j
  BY <1>0, <1>a
<1> HIDE DEF at
<1>4. Serials(r) = Serials(q) \cup {e.n}
  <2>1. ASSUME NEW n \in Serials(r) PROVE n \in Serials(q) \cup {e.n}
    <3>1. PICK i \in 1..Len(r) : n = r[i].n
      BY DEF Serials
    <3>2. CASE i = k + 1
      BY <1>0, <3>1, <3>2
    <3>3. CASE i # k + 1
      BY <1>1, <3>1, <3>3, SerialsOf
    <3>4. QED BY <3>2, <3>3
  <2>2. ASSUME NEW n \in Serials(q) PROVE n \in Serials(r)
    <3>1. PICK i \in 1..Len(q) : n = q[i].n
      BY DEF Serials
    <3>2. PICK j \in 1..Len(r) : r[j] = q[i]
      BY <1>2
    <3>3. QED BY <3>1, <3>2, SerialsOf
  <2>3. e.n \in Serials(r)
    BY <1>0, <1>3, SerialsOf
  <2>4. QED BY <2>1, <2>2, <2>3
<1>5. ASSUME Distinct(q), e.n \notin Serials(q) PROVE Distinct(r)
  <2> SUFFICES ASSUME NEW i \in 1..Len(r), NEW j \in 1..Len(r), r[i].n = r[j].n PROVE i = j
    BY DEF Distinct
  <2>1. CASE i = k + 1 /\ j # k + 1
    <3>1. r[j].n \in Serials(q)
      BY <1>1, <2>1, SerialsOf
    <3>2. QED BY <1>0, <1>5, <2>1, <3>1
  <2>2. CASE i # k + 1 /\ j = k + 1
    <3>1. r[i].n \in Serials(q)
      BY <1>1, <2>2, SerialsOf
    <3>2. QED BY <1>0, <1>5, <2>2, <3>1
  <2>3. CASE i # k + 1 /\ j # k + 1
    <3>1. at(i) \in 1..Len(q) /\ at(j) \in 1..Len(q) /\ q[at(i)].n = q[at(j)].n
      BY <1>1, <2>3
    <3>2. at(i) = at(j)
      BY <1>5, <3>1 DEF Distinct
    <3>3. QED BY <1>a, <2>3, <3>2
  <2>4. QED BY <2>1, <2>2, <2>3
<1>6. QED BY <1>4, <1>5

LEMMA WithoutSerials ==
  ASSUME NEW q \in Seq(Event), NEW k, NEW r, Without(q, k, r), Distinct(q)
  PROVE  Serials(r) = Serials(q) \ {q[k].n} /\ Distinct(r)
<1> DEFINE at(i) == IF i < k THEN i ELSE i + 1
<1>0. k \in Nat /\ 1 <= k /\ Len(q) \in Nat /\ k <= Len(q) /\ Len(r) = Len(q) - 1
  BY DEF Without
<1>1. ASSUME NEW i \in 1..Len(r)
      PROVE  at(i) \in 1..Len(q) /\ r[i] = q[at(i)] /\ at(i) # k
  BY <1>0 DEF Without
<1>2. ASSUME NEW i \in 1..Len(q), i # k PROVE \E j \in 1..Len(r) : r[j] = q[i]
  <2>1. CASE i < k
    BY <1>0, <2>1 DEF Without
  <2>2. CASE i > k
    <3>1. i - 1 \in k..(Len(q) - 1) /\ (i - 1) + 1 = i /\ i - 1 \in 1..Len(r)
      BY <1>0, <2>2
    <3>2. r[i - 1] = q[i]
      BY <3>1 DEF Without
    <3>3. QED BY <3>1, <3>2
  <2>3. QED BY <1>0, <1>2, <2>1, <2>2
<1>a. ASSUME NEW i \in 1..Len(r), NEW j \in 1..Len(r), at(i) = at(j) PROVE i = j
  BY <1>0, <1>a
<1>3. k \in 1..Len(q)
  BY <1>0
<1> HIDE DEF at
<1>4. ASSUME NEW n \in Serials(r) PROVE n \in Serials(q) /\ n # q[k].n
  <2>1. PICK i \in 1..Len(r) : n = r[i].n
    BY DEF Serials
  <2>2. at(i) \in 1..Len(q) /\ n = q[at(i)].n /\ at(i) # k
    BY <1>1, <2>1
  <2>3. n # q[k].n
    BY <1>3, <2>2 DEF Distinct
  <2>4. QED BY <2>2, <2>3, SerialsOf
<1>5. ASSUME NEW n \in Serials(q), n # q[k].n PROVE n \in Serials(r)
  <2>1. PICK i \in 1..Len(q) : n = q[i].n
    BY DEF Serials
  <2>2. PICK j \in 1..Len(r) : r[j] = q[i]
    BY <1>2, <1>5, <2>1
  <2>3. QED BY <2>1, <2>2, SerialsOf
<1>6. Distinct(r)
  <2> SUFFICES ASSUME NEW i \in 1..Len(r), NEW j \in 1..Len(r), r[i].n = r[j].n PROVE i = j
    BY DEF Distinct
  <2>1. at(i) \in 1..Len(q) /\ at(j) \in 1..Len(q) /\ q[at(i)].n = q[at(j)].n
    BY <1>1
  <2>2. at(i) = at(j)
    BY <2>1 DEF Distinct
  <2>3. QED BY <1>a, <2>2
<1>7. QED BY <1>4, <1>5, <1>6

\* a is the first k events of q.
Front(q, k, a) == Len(a) = k /\ \A i \in 1..k : a[i] = q[i]

\* Each event of q is in a or in r, and in one place only.
Cut(q, a, r) ==
  /\ Serials(q) = Serials(a) \cup Serials(r) /\ Serials(a) \cap Serials(r) = {}
  /\ Distinct(a) /\ Distinct(r)

\* A list cut in two after its first k events.
LEMMA CutSerials ==
  ASSUME NEW q \in Seq(Event), NEW k, NEW a, NEW r, Front(q, k, a), Behind(q, k, r), Distinct(q)
  PROVE  Cut(q, a, r)
<1> USE DEF Front
<1>0. k \in Nat /\ Len(q) \in Nat /\ k <= Len(q) /\ Len(r) = Len(q) - k
  BY DEF Behind
<1>1. ASSUME NEW i \in 1..Len(r) PROVE k + i \in 1..Len(q) /\ r[i] = q[k + i]
  BY <1>0 DEF Behind
<1>2. ASSUME NEW i \in 1..Len(a) PROVE i \in 1..Len(q) /\ a[i] = q[i]
  BY <1>0
<1>3. ASSUME NEW i \in 1..Len(q)
      PROVE  (\E j \in 1..Len(a) : a[j] = q[i]) \/ (\E j \in 1..Len(r) : r[j] = q[i])
  <2>1. CASE i <= k
    BY <1>0, <2>1
  <2>2. CASE i > k
    <3>1. i - k \in 1..Len(r) /\ k + (i - k) = i
      BY <1>0, <2>2
    <3>2. r[i - k] = q[k + (i - k)]
      BY <1>1, <3>1
    <3>3. QED BY <3>1, <3>2
  <2>3. QED BY <1>0, <2>1, <2>2
<1>4. ASSUME NEW n \in Serials(q) PROVE n \in Serials(a) \cup Serials(r)
  <2>1. PICK i \in 1..Len(q) : n = q[i].n
    BY DEF Serials
  <2>2. QED BY <1>3, <2>1, SerialsOf
<1>5. ASSUME NEW n \in Serials(a) PROVE n \in Serials(q) /\ n \notin Serials(r)
  <2>1. PICK i \in 1..Len(a) : n = a[i].n
    BY DEF Serials
  <2>2. ASSUME n \in Serials(r) PROVE FALSE
    <3>1. PICK j \in 1..Len(r) : n = r[j].n
      BY <2>2 DEF Serials
    <3>2. i \in 1..Len(q) /\ k + j \in 1..Len(q) /\ q[i].n = q[k + j].n
      BY <1>1, <1>2, <2>1, <3>1, Zenon
    <3>3. i = k + j
      BY <3>2 DEF Distinct
    <3>4. QED BY <1>0, <3>3
  <2>3. QED BY <1>2, <2>1, <2>2, SerialsOf
<1>6. ASSUME NEW n \in Serials(r) PROVE n \in Serials(q)
  <2>1. PICK i \in 1..Len(r) : n = r[i].n
    BY DEF Serials
  <2>2. QED BY <1>1, <2>1, SerialsOf
<1>7. Distinct(a)
  BY <1>2 DEF Distinct
<1>8. Distinct(r)
  <2> SUFFICES ASSUME NEW i \in 1..Len(r), NEW j \in 1..Len(r), r[i].n = r[j].n PROVE i = j
    BY DEF Distinct
  <2>1. k + i \in 1..Len(q) /\ k + j \in 1..Len(q) /\ q[k + i].n = q[k + j].n
    BY <1>1, Zenon
  <2>2. k + i = k + j
    BY <2>1, Zenon DEF Distinct
  <2>3. QED BY <1>0, <2>2
<1>9. Serials(q) = Serials(a) \cup Serials(r) /\ Serials(a) \cap Serials(r) = {}
  BY <1>4, <1>5, <1>6
<1>10. QED BY <1>7, <1>8, <1>9, Zenon DEF Cut

\* What NothingLost rests on: serials are given out in order, and nothing is left
\* in the list of cw_sched_runq when it is done.
LostInv ==
  /\ NothingLost
  /\ active \subseteq 1..nadd
  /\ pc # "callback" => runq = <<>>

LEMMA LostParts ==
  LostInv <=> /\ active = Serials(schedq) \cup Serials(runq)
              /\ Serials(schedq) \cap Serials(runq) = {}
              /\ Distinct(schedq) /\ Distinct(runq)
              /\ active \subseteq 1..nadd
              /\ pc # "callback" => runq = <<>>
BY DEF LostInv, NothingLost, Distinct

\* The event whose callback is done leaves the list of cw_sched_runq.
LEMMA RestSerials ==
  ASSUME ListOK, Distinct(runq), pc = "callback", NextCallback
  PROVE  /\ Head(runq) \in Event /\ Head(runq).n \in Serials(runq)
         /\ Serials(runq') = Serials(runq) \ {Head(runq).n} /\ Distinct(runq')
         /\ pc' # "callback" => runq' = <<>>
<1> DEFINE a == <<runq[1]>>
<1>1. /\ runq \in Seq(Event) /\ Len(runq) >= 1 /\ runq[1] \in Event /\ Head(runq) = runq[1]
      /\ Behind(runq, 1, runq')
  BY Rest DEF ListOK
<1>2. Len(a) = 1 /\ a[1] = runq[1] /\ Front(runq, 1, a)
  BY <1>1 DEF Front
<1> HIDE DEF a
<1>3. /\ Serials(runq) = Serials(a) \cup Serials(runq') /\ Serials(a) \cap Serials(runq') = {}
      /\ Distinct(runq')
  <2>1. runq \in Seq(Event) /\ Front(runq, 1, a) /\ Behind(runq, 1, runq')
    BY <1>1, <1>2
  <2>2. Cut(runq, a, runq')
    BY <2>1, CutSerials, Zenon
  <2>3. QED BY <2>2, Zenon DEF Cut
<1>4. Serials(a) = {runq[1].n}
  BY <1>2 DEF Serials
<1>5. pc' # "callback" => runq' = <<>>
  BY DEF NextCallback
<1>6. QED BY <1>1, <1>3, <1>4, <1>5

LEMMA LostStep == TypeInv /\ LostInv /\ [Next]_vars => LostInv'
<1> SUFFICES ASSUME TypeInv, LostInv, [Next]_vars PROVE LostInv'
  OBVIOUS
<1> DEFINE Goal == /\ active' = Serials(schedq') \cup Serials(runq')
                   /\ Serials(schedq') \cap Serials(runq') = {}
                   /\ Distinct(schedq') /\ Distinct(runq')
                   /\ active' \subseteq 1..nadd'
                   /\ pc' # "callback" => runq' = <<>>
<1> SUFFICES Goal
  BY DEF LostInv, NothingLost, Distinct
<1>0. ListOK /\ schedq \in Seq(Event) /\ runq \in Seq(Event) /\ nadd \in Nat
  BY DEF TypeInv, ListOK
<1>a. /\ active = Serials(schedq) \cup Serials(runq)
      /\ Serials(schedq) \cap Serials(runq) = {}
      /\ Distinct(schedq) /\ Distinct(runq)
      /\ active \subseteq 1..nadd
      /\ pc # "callback" => runq = <<>>
  BY LostParts
<1>1. ASSUME NEW d \in Delays, NEW v \in BOOLEAN, cw_sched_add_variable(d, v) PROVE Goal
  <2> DEFINE e == [n |-> nadd + 1, id |-> NewId, when |-> now + d, resched |-> d, variable |-> v]
  <2>1. e \in Event /\ schedule(e) /\ e.n = nadd + 1
    BY <1>0, <1>1, NewEvent DEF cw_sched_add_variable
  <2> HIDE DEF e
  <2>2. PICK k \in 0..Len(schedq) : Placed(schedq, k, e, schedq')
    BY <1>0, <2>1, Schedule
  <2>3. nadd + 1 \notin active
    BY <1>0, <1>a
  <2>4. Serials(schedq') = Serials(schedq) \cup {nadd + 1} /\ Distinct(schedq')
    BY <1>0, <1>a, <2>1, <2>2, <2>3, PlacedSerials
  <2>5. runq' = runq /\ pc' = pc /\ active' = active \cup {nadd + 1} /\ nadd' = nadd + 1
    BY <1>1 DEF cw_sched_add_variable
  <2>6. active' \subseteq 1..nadd'
    BY <1>0, <1>a, <2>5
  <2>7. active' = Serials(schedq') \cup Serials(runq') /\ Serials(schedq') \cap Serials(runq') = {}
    BY <1>a, <2>3, <2>4, <2>5
  <2>8. QED BY <1>a, <2>4, <2>5, <2>6, <2>7
<1>2. ASSUME NEW i \in 0..MaxInt, cw_sched_del(i) PROVE Goal
  <2>1. PICK k \in 1..Len(schedq) :
          Without(schedq, k, schedq') /\ active' = active \ {schedq[k].n}
    BY <1>0, <1>2, Del
  <2>2. Serials(schedq') = Serials(schedq) \ {schedq[k].n} /\ Distinct(schedq')
    BY <1>0, <1>a, <2>1, WithoutSerials
  <2>3. schedq[k].n \in Serials(schedq)
    BY SerialsOf
  <2>4. runq' = runq /\ pc' = pc /\ nadd' = nadd
    BY <1>2 DEF cw_sched_del
  <2>5. active' = Serials(schedq') \cup Serials(runq') /\ Serials(schedq') \cap Serials(runq') = {}
    BY <1>a, <2>1, <2>2, <2>3, <2>4
  <2>6. QED BY <1>a, <2>1, <2>2, <2>4, <2>5
<1>3. CASE RunqDetach
  <2>1. PICK k \in 0..Len(schedq) :
          /\ Behind(schedq, k, schedq')
          /\ runq' \in Seq(Event) /\ Len(runq') = k
          /\ \A i \in 1..k : runq'[i] = schedq[i]
          /\ pc' = IF k = 0 THEN Idle ELSE "callback"
    BY <1>0, <1>3, Detach
  <2>2. /\ Serials(schedq) = Serials(runq') \cup Serials(schedq')
        /\ Serials(runq') \cap Serials(schedq') = {}
        /\ Distinct(runq') /\ Distinct(schedq')
    <3>1. Front(schedq, k, runq')
      BY <2>1 DEF Front
    <3>2. schedq \in Seq(Event) /\ Behind(schedq, k, schedq') /\ Distinct(schedq)
      BY <1>0, <1>a, <2>1
    <3>3. Cut(schedq, runq', schedq')
      BY <3>1, <3>2, CutSerials, Zenon
    <3>4. QED BY <3>3, Zenon DEF Cut
  <2>3. runq = <<>> /\ active' = active /\ nadd' = nadd
    BY <1>a, <1>3 DEF RunqDetach
  <2>4. Serials(runq) = {}
    BY <2>3 DEF Serials
  <2>5. pc' # "callback" => runq' = <<>>
    BY <2>1
  <2>6. QED BY <1>a, <2>2, <2>3, <2>4, <2>5
<1>4. CASE RunqRelease
  <2>1. pc = "callback" /\ NextCallback
    BY <1>4 DEF RunqRelease
  <2>2. /\ Head(runq).n \in Serials(runq)
        /\ Serials(runq') = Serials(runq) \ {Head(runq).n} /\ Distinct(runq')
        /\ pc' # "callback" => runq' = <<>>
    BY <1>0, <1>a, <2>1, RestSerials
  <2>3. schedq' = schedq /\ nadd' = nadd /\ active' = active \ {Head(runq).n}
    BY <1>4 DEF RunqRelease, listVars
  <2>4. active' = Serials(schedq') \cup Serials(runq') /\ Serials(schedq') \cap Serials(runq') = {}
    BY <1>a, <2>2, <2>3
  <2>5. QED BY <1>a, <2>2, <2>3, <2>4
<1>5. CASE RunqReschedule
  <2>1. pc = "callback" /\ NextCallback
    BY <1>5 DEF RunqReschedule
  <2>2. /\ Head(runq) \in Event /\ Head(runq).n \in Serials(runq)
        /\ Serials(runq') = Serials(runq) \ {Head(runq).n} /\ Distinct(runq')
        /\ pc' # "callback" => runq' = <<>>
    BY <1>0, <1>a, <2>1, RestSerials
  <2>3. PICK e \in Again(Head(runq)) : schedule(e)
    BY <1>5 DEF RunqReschedule
  <2>4. e \in Event /\ e.n = Head(runq).n
    BY <2>2, <2>3, AgainEvent
  <2>5. PICK k \in 0..Len(schedq) : Placed(schedq, k, e, schedq')
    BY <1>0, <2>3, <2>4, Schedule
  <2>6. Head(runq).n \notin Serials(schedq)
    BY <1>a, <2>2
  <2>7. Serials(schedq') = Serials(schedq) \cup {Head(runq).n} /\ Distinct(schedq')
    BY <1>0, <1>a, <2>4, <2>5, <2>6, PlacedSerials
  <2>8. nadd' = nadd /\ active' = active
    BY <1>5 DEF RunqReschedule
  <2>9. active' = Serials(schedq') \cup Serials(runq') /\ Serials(schedq') \cap Serials(runq') = {}
    BY <1>a, <2>2, <2>6, <2>7, <2>8
  <2>10. QED BY <1>a, <2>2, <2>7, <2>8, <2>9
<1>6. CASE ServiceWait
  <2>1. schedq' = schedq /\ runq' = runq /\ active' = active /\ nadd' = nadd /\ pc # "callback"
    BY <1>6 DEF ServiceWait, listVars
  <2>2. QED BY <1>a, <2>1
<1>7. CASE Tick \/ UNCHANGED vars
  <2>1. UNCHANGED <<schedq, runq, active, nadd, pc>>
    BY <1>7 DEF Tick, vars, listVars
  <2>2. QED BY <1>a, <2>1
<1>8. QED BY <1>1, <1>2, <1>3, <1>4, <1>5, <1>6, <1>7 DEF Next, Runner

LEMMA LostInvariant == Spec => []LostInv
<1>1. Init => LostInv
  BY DEF Init, LostInv, NothingLost, Serials
<1>2. QED BY <1>1, LostStep, TypeInvariant, PTL DEF Spec

\* An event that was added, and neither deleted nor finished, is in exactly one of
\* the two lists, once: adding, deleting, taking out and putting back
\* (schedule, cw_sched_del, cw_sched_runq) lose and double nothing when the lock
\* is held, or there is no other thread.
THEOREM NothingLostCorrect == Spec => []NothingLost
<1>1. LostInv => NothingLost
  BY DEF LostInv
<1>2. QED BY <1>1, LostInvariant, PTL

-----------------------------------------------------------------------------
(* Ids *)

\* The first MaxInt events have their serial for an id, the one after them 0.
Numbered(q) == \A i \in 1..Len(q) : q[i].id = IF q[i].n <= MaxInt THEN q[i].n ELSE 0

\* Until the counter has wrapped, it is ahead of the events by one.
IdInv ==
  nadd <= MaxInt + 1 =>
    /\ nadd <= MaxInt => eventcnt = nadd + 1
    /\ Numbered(schedq) /\ Numbered(runq)

LEMMA PlacedNumbered ==
  ASSUME NEW q \in Seq(Event), NEW k, NEW e, NEW r, Placed(q, k, e, r), Numbered(q),
         e.id = IF e.n <= MaxInt THEN e.n ELSE 0
  PROVE  Numbered(r)
<1> SUFFICES ASSUME NEW i \in 1..Len(r) PROVE r[i].id = IF r[i].n <= MaxInt THEN r[i].n ELSE 0
  BY DEF Numbered
<1>0. k \in Nat /\ Len(q) \in Nat /\ k <= Len(q) /\ Len(r) = Len(q) + 1 /\ r[k + 1] = e
  BY DEF Placed
<1>1. CASE i <= k
  <2>1. i \in 1..k /\ i \in 1..Len(q)
    BY <1>0, <1>1
  <2>2. r[i] = q[i]
    BY <2>1 DEF Placed
  <2>3. QED BY <2>1, <2>2 DEF Numbered
<1>2. CASE i = k + 1
  BY <1>0, <1>2
<1>3. CASE i > k + 1
  <2>1. i - 1 \in (k + 1)..Len(q) /\ (i - 1) + 1 = i /\ i - 1 \in 1..Len(q)
    BY <1>0, <1>3
  <2>2. r[i] = q[i - 1]
    BY <2>1 DEF Placed
  <2>3. QED BY <2>1, <2>2 DEF Numbered
<1>4. QED BY <1>0, <1>1, <1>2, <1>3

\* A list that has only events of another.
LEMMA TakenNumbered ==
  ASSUME NEW q, NEW r, Numbered(q),
         \A i \in 1..Len(r) : \E j \in 1..Len(q) : r[i] = q[j]
  PROVE  Numbered(r)
<1> SUFFICES ASSUME NEW i \in 1..Len(r) PROVE r[i].id = IF r[i].n <= MaxInt THEN r[i].n ELSE 0
  BY DEF Numbered
<1>1. PICK j \in 1..Len(q) : r[i] = q[j]
  OBVIOUS
<1>2. QED BY <1>1 DEF Numbered

LEMMA BehindNumbered ==
  ASSUME NEW q \in Seq(Event), NEW k, NEW r, Behind(q, k, r), Numbered(q)
  PROVE  Numbered(r)
<1>1. \A i \in 1..Len(r) : k + i \in 1..Len(q) /\ r[i] = q[k + i]
  BY DEF Behind
<1>2. QED BY <1>1, TakenNumbered

LEMMA WithoutNumbered ==
  ASSUME NEW q \in Seq(Event), NEW k, NEW r, Without(q, k, r), Numbered(q)
  PROVE  Numbered(r)
<1>1. ASSUME NEW i \in 1..Len(r) PROVE \E j \in 1..Len(q) : r[i] = q[j]
  <2>1. /\ i \in 1..Len(q) /\ i + 1 \in 1..Len(q)
        /\ i \in 1..(k - 1) \/ i \in k..(Len(q) - 1)
    BY DEF Without
  <2>2. r[i] = q[i] \/ r[i] = q[i + 1]
    BY <2>1 DEF Without
  <2>3. QED BY <2>1, <2>2
<1>2. QED BY <1>1, TakenNumbered

LEMMA IdStep == TypeInv /\ IdInv /\ [Next]_vars => IdInv'
<1> SUFFICES ASSUME TypeInv, IdInv, [Next]_vars, nadd' <= MaxInt + 1
             PROVE  /\ nadd' <= MaxInt => eventcnt' = nadd' + 1
                    /\ Numbered(schedq') /\ Numbered(runq')
  BY DEF IdInv, Numbered
<1>0. ListOK /\ schedq \in Seq(Event) /\ runq \in Seq(Event) /\ nadd \in Nat /\ MaxInt \in Nat
  BY SchedAssumption DEF TypeInv, ListOK
<1>1. ASSUME NEW d \in Delays, NEW v \in BOOLEAN, cw_sched_add_variable(d, v)
      PROVE  /\ nadd' <= MaxInt => eventcnt' = nadd' + 1
             /\ Numbered(schedq') /\ Numbered(runq')
  <2> DEFINE e == [n |-> nadd + 1, id |-> NewId, when |-> now + d, resched |-> d, variable |-> v]
  <2>1. e \in Event /\ schedule(e) /\ e.n = nadd + 1 /\ e.id = NewId
    BY <1>0, <1>1, NewEvent DEF cw_sched_add_variable
  <2> HIDE DEF e
  <2>2. /\ nadd' = nadd + 1 /\ runq' = runq
        /\ eventcnt' = IF eventcnt <= MaxInt THEN eventcnt + 1 ELSE 0
    BY <1>1 DEF cw_sched_add_variable
  <2>3. nadd <= MaxInt /\ eventcnt = nadd + 1 /\ Numbered(schedq) /\ Numbered(runq)
    BY <1>0, <2>2 DEF IdInv
  <2>4. e.id = IF e.n <= MaxInt THEN e.n ELSE 0
    BY <2>1, <2>3 DEF NewId
  <2>5. PICK k \in 0..Len(schedq) : Placed(schedq, k, e, schedq')
    BY <1>0, <2>1, Schedule
  <2>6. Numbered(schedq')
    BY <1>0, <2>3, <2>4, <2>5, PlacedNumbered
  <2>7. nadd' <= MaxInt => eventcnt' = nadd' + 1
    BY <1>0, <2>2, <2>3
  <2>8. Numbered(runq')
    BY <2>2, <2>3
  <2>9. QED BY <2>6, <2>7, <2>8
<1>b. ASSUME nadd' = nadd
      PROVE  /\ nadd <= MaxInt => eventcnt = nadd + 1
             /\ Numbered(schedq) /\ Numbered(runq)
  BY <1>b DEF IdInv
<1>2. ASSUME NEW i \in 0..MaxInt, cw_sched_del(i)
      PROVE  /\ nadd' <= MaxInt => eventcnt' = nadd' + 1
             /\ Numbered(schedq') /\ Numbered(runq')
  <2>1. nadd' = nadd /\ eventcnt' = eventcnt /\ runq' = runq
    BY <1>2 DEF cw_sched_del
  <2>2. PICK k \in 1..Len(schedq) : Without(schedq, k, schedq')
    BY <1>0, <1>2, Del
  <2>3. Numbered(schedq')
    BY <1>0, <1>b, <2>1, <2>2, WithoutNumbered
  <2>4. QED BY <1>b, <2>1, <2>3
<1>3. CASE RunqDetach
  <2>1. nadd' = nadd /\ eventcnt' = eventcnt
    BY <1>3 DEF RunqDetach
  <2>2. PICK k \in 0..Len(schedq) :
          /\ Behind(schedq, k, schedq')
          /\ Len(runq') = k /\ \A i \in 1..k : runq'[i] = schedq[i]
    BY <1>0, <1>3, Detach
  <2>3. Numbered(schedq')
    BY <1>0, <1>b, <2>1, <2>2, BehindNumbered
  <2>4. \A i \in 1..Len(runq') : i \in 1..Len(schedq) /\ runq'[i] = schedq[i]
    BY <1>0, <2>2
  <2>5. Numbered(runq')
    BY <1>b, <2>1, <2>4, TakenNumbered
  <2>6. QED BY <1>b, <2>1, <2>3, <2>5
<1>4. CASE RunqRelease
  <2>1. nadd' = nadd /\ eventcnt' = eventcnt /\ schedq' = schedq
    BY <1>4 DEF RunqRelease, listVars
  <2>2. Behind(runq, 1, runq')
    BY <1>0, <1>4, Rest DEF RunqRelease
  <2>3. Numbered(runq')
    BY <1>0, <1>b, <2>1, <2>2, BehindNumbered
  <2>4. QED BY <1>b, <2>1, <2>3
<1>5. CASE RunqReschedule
  <2>1. nadd' = nadd /\ eventcnt' = eventcnt
    BY <1>5 DEF RunqReschedule
  <2>2. Behind(runq, 1, runq') /\ Len(runq) >= 1 /\ runq[1] \in Event /\ Head(runq) = runq[1]
    BY <1>0, <1>5, Rest DEF RunqReschedule
  <2>3. Numbered(runq')
    BY <1>0, <1>b, <2>1, <2>2, BehindNumbered
  <2>4. PICK e \in Again(runq[1]) : schedule(e)
    BY <1>5, <2>2 DEF RunqReschedule
  <2>5. e \in Event /\ e.n = runq[1].n /\ e.id = runq[1].id
    BY <2>2, <2>4, AgainEvent
  <2>6. 1 \in 1..Len(runq)
    BY <1>0, <2>2
  <2>7. e.id = IF e.n <= MaxInt THEN e.n ELSE 0
    BY <1>b, <2>1, <2>5, <2>6 DEF Numbered
  <2>8. PICK k \in 0..Len(schedq) : Placed(schedq, k, e, schedq')
    BY <1>0, <2>4, <2>5, Schedule
  <2>9. Numbered(schedq')
    BY <1>0, <1>b, <2>1, <2>7, <2>8, PlacedNumbered
  <2>10. QED BY <1>b, <2>1, <2>3, <2>9
<1>6. CASE ServiceWait \/ Tick \/ UNCHANGED vars
  <2>1. UNCHANGED <<nadd, eventcnt, schedq, runq>>
    BY <1>6 DEF ServiceWait, Tick, vars, listVars
  <2>2. QED BY <1>b, <2>1
<1>7. QED BY <1>1, <1>2, <1>3, <1>4, <1>5, <1>6 DEF Next, Runner

\* Until the int that numbers events has wrapped (2^31 events added), no two
\* events of the list have the same id, so cw_sched_del removes the one meant.
THEOREM IdsCorrect == Spec => []IdsUnique
<1>1. Init => IdInv
  BY DEF Init, IdInv, Numbered
<1>2. TypeInv /\ LostInv /\ IdInv => IdsUnique
  <2> SUFFICES ASSUME TypeInv, LostInv, IdInv, nadd <= MaxInt + 1,
                      NEW i \in 1..Len(schedq), NEW j \in 1..Len(schedq),
                      schedq[i].id = schedq[j].id
               PROVE  i = j
    BY DEF IdsUnique
  <2>1. /\ schedq[i].id = IF schedq[i].n <= MaxInt THEN schedq[i].n ELSE 0
        /\ schedq[j].id = IF schedq[j].n <= MaxInt THEN schedq[j].n ELSE 0
    BY Zenon DEF IdInv, Numbered
  <2>2. schedq[i].n \in 1..nadd /\ schedq[j].n \in 1..nadd
    <3>1. Serials(schedq) \subseteq 1..nadd
      BY LostParts
    <3>2. schedq[i].n \in Serials(schedq) /\ schedq[j].n \in Serials(schedq)
      BY SerialsOf
    <3>3. QED BY <3>1, <3>2
  <2>3. nadd \in Nat /\ MaxInt \in Nat
    BY SchedAssumption DEF TypeInv, ListOK
  <2>4. schedq[i].n = schedq[j].n
    <3> DEFINE a == schedq[i].n
               b == schedq[j].n
    <3>1. (IF a <= MaxInt THEN a ELSE 0) = (IF b <= MaxInt THEN b ELSE 0)
      BY <2>1, Zenon
    <3>2. a \in 1..nadd /\ b \in 1..nadd
      BY <2>2
    <3> HIDE DEF a, b
    <3>3. a = b
      BY <2>3, <3>1, <3>2
    <3>4. QED BY <3>3 DEF a, b
  <2>5. QED BY <2>4 DEF LostInv, NothingLost
<1>3. QED BY <1>1, <1>2, IdStep, LostInvariant, TypeInvariant, PTL DEF Spec
=============================================================================
