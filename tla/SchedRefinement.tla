-------------------------- MODULE SchedRefinement --------------------------
(***************************************************************************)
(* A scheduler context implements the timer service of module TimerService,*)
(* for every number of events, every clock and every set of delays.  The   *)
(* events in schedq are the timers that are armed, those taken out by      *)
(* cw_sched_runq the timers that fire.                                     *)
(***************************************************************************)
EXTENDS SchedProofs

\* What the timer service sees of an event.
Timer(e) == [n |-> e.n, when |-> e.when]

-----------------------------------------------------------------------------
(* The timers of a list *)

\* A list's timers are those of its events.
LEMMA TimersOf == ASSUME NEW q, NEW i \in 1..Len(q) PROVE Timer(q[i]) \in AsTimers(q)
BY Zenon DEF AsTimers, Timer

\* A timer of a list is that of one of its events.
LEMMA TimerAt ==
  ASSUME NEW q, NEW t \in AsTimers(q) PROVE \E i \in 1..Len(q) : t = Timer(q[i])
BY Zenon DEF AsTimers, Timer

\* Timers with different numbers are different.
LEMMA TimerFields == ASSUME NEW e PROVE Timer(e).n = e.n /\ Timer(e).when = e.when
BY DEF Timer

\* schedule() arms one more timer.
LEMMA PlacedTimers ==
  ASSUME NEW q \in Seq(Event), NEW k, NEW e, NEW r, Placed(q, k, e, r)
  PROVE  AsTimers(r) = AsTimers(q) \cup {Timer(e)}
<1>0. k \in Nat /\ Len(q) \in Nat /\ k <= Len(q) /\ Len(r) = Len(q) + 1 /\ r[k + 1] = e
  BY DEF Placed
<1>1. ASSUME NEW i \in 1..Len(r) PROVE r[i] = e \/ \E j \in 1..Len(q) : r[i] = q[j]
  <2>1. CASE i <= k
    <3>1. i \in 1..k /\ i \in 1..Len(q)
      BY <1>0, <2>1
    <3>2. r[i] = q[i]
      BY <3>1 DEF Placed
    <3>3. QED BY <3>1, <3>2
  <2>2. CASE i = k + 1
    BY <1>0, <2>2
  <2>3. CASE i > k + 1
    <3>1. i - 1 \in (k + 1)..Len(q) /\ (i - 1) + 1 = i /\ i - 1 \in 1..Len(q)
      BY <1>0, <2>3
    <3>2. r[i] = q[i - 1]
      BY <3>1 DEF Placed
    <3>3. QED BY <3>1, <3>2
  <2>4. QED BY <1>0, <2>1, <2>2, <2>3
<1>2. ASSUME NEW i \in 1..Len(q) PROVE \E j \in 1..Len(r) : r[j] = q[i]
  <2>1. CASE i <= k
    <3>1. i \in 1..k /\ i \in 1..Len(r)
      BY <1>0, <2>1
    <3>2. r[i] = q[i]
      BY <3>1 DEF Placed
    <3>3. QED BY <3>1, <3>2
  <2>2. CASE i > k
    <3>1. i \in (k + 1)..Len(q) /\ i + 1 \in 1..Len(r)
      BY <1>0, <2>2
    <3>2. r[i + 1] = q[i]
      BY <3>1 DEF Placed
    <3>3. QED BY <3>1, <3>2
  <2>3. QED BY <1>0, <2>1, <2>2
<1>3. k + 1 \in 1..Len(r)
  BY <1>0
<1>4. ASSUME NEW t \in AsTimers(r) PROVE t \in AsTimers(q) \cup {Timer(e)}
  <2>1. PICK i \in 1..Len(r) : t = Timer(r[i])
    BY TimerAt
  <2>2. QED BY <1>1, <2>1, TimersOf
<1>5. ASSUME NEW t \in AsTimers(q) PROVE t \in AsTimers(r)
  <2>1. PICK i \in 1..Len(q) : t = Timer(q[i])
    BY TimerAt
  <2>2. PICK j \in 1..Len(r) : r[j] = q[i]
    BY <1>2
  <2>3. QED BY <2>1, <2>2, TimersOf
<1>6. Timer(e) \in AsTimers(r)
  BY <1>0, <1>3, TimersOf
<1>7. QED BY <1>4, <1>5, <1>6

\* An event unlinked is one timer less.
LEMMA WithoutTimers ==
  ASSUME NEW q \in Seq(Event), NEW k, NEW r, Without(q, k, r), Distinct(q)
  PROVE  AsTimers(r) = AsTimers(q) \ {Timer(q[k])}
<1>0. k \in Nat /\ 1 <= k /\ Len(q) \in Nat /\ k <= Len(q) /\ Len(r) = Len(q) - 1 /\ k \in 1..Len(q)
  BY DEF Without
<1>1. ASSUME NEW i \in 1..Len(r) PROVE \E j \in 1..Len(q) : j # k /\ r[i] = q[j]
  <2>1. CASE i < k
    <3>1. i \in 1..(k - 1) /\ i \in 1..Len(q)
      BY <1>0, <2>1
    <3>2. r[i] = q[i]
      BY <3>1 DEF Without
    <3>3. QED BY <2>1, <3>1, <3>2
  <2>2. CASE i >= k
    <3>1. i \in k..(Len(q) - 1) /\ i + 1 \in 1..Len(q) /\ i + 1 # k
      BY <1>0, <2>2
    <3>2. r[i] = q[i + 1]
      BY <3>1 DEF Without
    <3>3. QED BY <3>1, <3>2
  <2>3. QED BY <1>0, <2>1, <2>2
<1>2. ASSUME NEW i \in 1..Len(q), i # k PROVE \E j \in 1..Len(r) : r[j] = q[i]
  <2>1. CASE i < k
    <3>1. i \in 1..(k - 1) /\ i \in 1..Len(r)
      BY <1>0, <2>1
    <3>2. r[i] = q[i]
      BY <3>1 DEF Without
    <3>3. QED BY <3>1, <3>2
  <2>2. CASE i > k
    <3>1. i - 1 \in k..(Len(q) - 1) /\ (i - 1) + 1 = i /\ i - 1 \in 1..Len(r)
      BY <1>0, <2>2
    <3>2. r[i - 1] = q[i]
      BY <3>1 DEF Without
    <3>3. QED BY <3>1, <3>2
  <2>3. QED BY <1>0, <1>2, <2>1, <2>2
<1>3. ASSUME NEW t \in AsTimers(r) PROVE t \in AsTimers(q) /\ t # Timer(q[k])
  <2>1. PICK i \in 1..Len(r) : t = Timer(r[i])
    BY TimerAt
  <2>2. PICK j \in 1..Len(q) : j # k /\ r[i] = q[j]
    BY <1>1
  <2>3. q[j].n # q[k].n
    BY <1>0, <2>2 DEF Distinct
  <2>4. t.n = q[j].n /\ Timer(q[k]).n = q[k].n
    BY <2>1, <2>2, TimerFields
  <2>5. QED BY <2>1, <2>2, <2>3, <2>4, TimersOf
<1>4. ASSUME NEW t \in AsTimers(q), t # Timer(q[k]) PROVE t \in AsTimers(r)
  <2>1. PICK i \in 1..Len(q) : t = Timer(q[i])
    BY TimerAt
  <2>2. PICK j \in 1..Len(r) : r[j] = q[i]
    BY <1>2, <1>4, <2>1
  <2>3. QED BY <2>1, <2>2, TimersOf
<1>5. QED BY <1>3, <1>4

-----------------------------------------------------------------------------
(* The events taken out are in order, too *)

\* The invariant of the refinement: the types, every event in one place, both
\* lists in order of time.
RefInv == TypeInv /\ LostInv /\ Sorted(schedq) /\ Sorted(runq)

\* The events that are due come first, and all of them are taken out.
LEMMA DetachAll ==
  ASSUME ListOK, Sorted(schedq), RunqDetach
  PROVE  \E k \in 0..Len(schedq) :
           /\ Behind(schedq, k, schedq') /\ Front(schedq, k, runq')
           /\ \A i \in 1..Len(schedq) : i <= k <=> Due(schedq[i].when)
<1>1. PICK k \in 0..Len(schedq) :
        /\ \A i \in 1..k : Due(schedq[i].when)
        /\ k < Len(schedq) => ~Due(schedq[k + 1].when)
        /\ runq' = SubSeq(schedq, 1, k)
        /\ schedq' = SubSeq(schedq, k + 1, Len(schedq))
  BY DEF RunqDetach
<1>2. schedq \in Seq(Event) /\ now \in Nat /\ Slack \in Nat
  BY SchedAssumption DEF ListOK
<1>3. k \in Nat /\ Len(schedq) \in Nat /\ k <= Len(schedq) /\ (k + 1) - 1 = k
  BY <1>2
<1>4. Front(schedq, k, runq')
  BY <1>1, <1>2, <1>3 DEF Front
<1>5. /\ schedq' \in Seq(Event) /\ Len(schedq') = Len(schedq) - k
      /\ \A i \in 1..(Len(schedq) - k) : schedq'[i] = schedq[k + i]
  BY <1>1, <1>2, <1>3
<1>6. Behind(schedq, k, schedq')
  BY <1>5 DEF Behind
<1>7. ASSUME NEW i \in 1..Len(schedq), i > k PROVE ~Due(schedq[i].when)
  <2>1. k < Len(schedq) /\ k + 1 \in 1..Len(schedq) /\ (k + 1 = i \/ k + 1 < i)
    BY <1>3, <1>7
  <2> DEFINE x == schedq[k + 1].when
             y == schedq[i].when
  <2>2. x \in Nat /\ y \in Nat
    BY <1>2, <2>1, Times
  <2>3. x = y \/ x <= y
    BY <2>1 DEF Sorted
  <2>4. ~ (x < now + Slack)
    BY <1>1, <2>1 DEF Due
  <2> HIDE DEF x, y
  <2>5. ~ (y < now + Slack)
    BY <1>2, <2>2, <2>3, <2>4
  <2>6. QED BY <2>5 DEF Due, y
<1>8. ASSUME NEW i \in 1..Len(schedq) PROVE i <= k <=> Due(schedq[i].when)
  <2>1. CASE i <= k
    <3>1. i \in 1..k
      BY <1>3, <2>1
    <3>2. QED BY <1>1, <2>1, <3>1
  <2>2. CASE i > k
    BY <1>3, <1>7, <2>2
  <2>3. QED BY <1>3, <2>1, <2>2
<1>9. QED BY <1>4, <1>6, <1>8

\* The first events of a list in order are in order.
LEMMA FrontSorted ==
  ASSUME NEW q, Len(q) \in Nat, NEW k \in 0..Len(q), NEW a, Front(q, k, a), Sorted(q)
  PROVE  Sorted(a)
<1>1. ASSUME NEW i \in 1..Len(a) PROVE i \in 1..Len(q) /\ a[i] = q[i]
  BY DEF Front
<1>2. QED BY <1>1 DEF Sorted

\* Every step keeps both lists in order.
LEMMA SortedStep ==
  ASSUME ListOK, Sorted(schedq), Sorted(runq), [Next]_vars
  PROVE  Sorted(schedq') /\ Sorted(runq')
<1>0. schedq \in Seq(Event) /\ runq \in Seq(Event)
  BY DEF ListOK
<1>1. ASSUME NEW e \in Event, schedule(e) PROVE Sorted(schedq')
  <2>1. PICK k \in 0..Len(schedq) : Placed(schedq, k, e, schedq')
    BY <1>1, Schedule
  <2>2. QED BY <1>0, <2>1, PlacedSorted
<1>2. ASSUME pc = "callback", NextCallback PROVE Sorted(runq') /\ Head(runq) \in Event
  <2>1. Behind(runq, 1, runq') /\ Head(runq) \in Event
    BY <1>2, Rest
  <2>2. QED BY <1>0, <2>1, BehindSorted
<1>3. ASSUME NEW d \in Delays, NEW v \in BOOLEAN, cw_sched_add_variable(d, v)
      PROVE  Sorted(schedq') /\ Sorted(runq')
  <2>1. runq' = runq
    BY <1>3 DEF cw_sched_add_variable
  <2>2. QED BY <1>1, <1>3, <2>1, NewEvent DEF cw_sched_add_variable
<1>4. ASSUME NEW i \in 0..MaxInt, cw_sched_del(i) PROVE Sorted(schedq') /\ Sorted(runq')
  <2>1. PICK k \in 1..Len(schedq) : Without(schedq, k, schedq')
    BY <1>4, Del
  <2>2. runq' = runq
    BY <1>4 DEF cw_sched_del
  <2>3. QED BY <1>0, <2>1, <2>2, WithoutSorted
<1>5. CASE RunqDetach
  <2>1. PICK k \in 0..Len(schedq) : Behind(schedq, k, schedq') /\ Front(schedq, k, runq')
    BY <1>5, DetachAll
  <2>2. Len(schedq) \in Nat
    BY <1>0
  <2>3. QED BY <1>0, <2>1, <2>2, BehindSorted, FrontSorted
<1>6. CASE RunqRelease
  BY <1>2, <1>6 DEF RunqRelease, listVars
<1>7. CASE RunqReschedule
  <2>1. pc = "callback" /\ NextCallback
    BY <1>7 DEF RunqReschedule
  <2>2. PICK e \in Again(Head(runq)) : schedule(e)
    BY <1>7 DEF RunqReschedule
  <2>3. e \in Event
    BY <1>2, <2>1, <2>2, AgainEvent
  <2>4. QED BY <1>1, <1>2, <2>1, <2>2, <2>3
<1>8. CASE ServiceWait \/ Tick \/ UNCHANGED vars
  BY <1>8 DEF ServiceWait, Tick, vars, listVars
<1>9. QED BY <1>3, <1>4, <1>5, <1>6, <1>7, <1>8 DEF Next, Runner

\* What the refinement needs holds throughout.
LEMMA RefInvariant == Spec => []RefInv
<1>1. Init => Sorted(schedq) /\ Sorted(runq)
  BY DEF Init, Sorted
<1>2. TypeInv /\ Sorted(schedq) /\ Sorted(runq) /\ [Next]_vars => Sorted(schedq)' /\ Sorted(runq)'
  <2> SUFFICES ASSUME TypeInv, Sorted(schedq), Sorted(runq), [Next]_vars
               PROVE  Sorted(schedq') /\ Sorted(runq')
    BY DEF Sorted
  <2>1. ListOK
    BY DEF TypeInv
  <2>2. QED BY <2>1, SortedStep
<1>3. QED BY <1>1, <1>2, TypeInvariant, LostInvariant, PTL DEF Spec, RefInv

-----------------------------------------------------------------------------
(* Each step is one of the timer service, or changes nothing it shows *)

\* What the invariant says of the lists.
LEMMA RefLists ==
  ASSUME RefInv
  PROVE  /\ ListOK /\ schedq \in Seq(Event) /\ runq \in Seq(Event) /\ now \in Nat /\ nadd \in Nat
         /\ Distinct(schedq) /\ Distinct(runq) /\ Sorted(schedq) /\ Sorted(runq)
         /\ pc # "callback" => runq = <<>>
BY DEF RefInv, TypeInv, ListOK, LostInv, NothingLost, Distinct

\* cw_sched_add_variable arms a timer that is not yet due to run.
LEMMA AddArms ==
  ASSUME RefInv, NEW d \in Delays, NEW v \in BOOLEAN, cw_sched_add_variable(d, v)
  PROVE  Abstract!Arm
<1> DEFINE e == [n |-> nadd + 1, id |-> NewId, when |-> now + d, resched |-> d, variable |-> v]
           t == Timer(e)
<1>1. ListOK /\ schedq \in Seq(Event) /\ now \in Nat /\ d \in Nat
  BY RefLists, SchedAssumption
<1>2. nadd' = nadd + 1 /\ schedule(e) /\ runq' = runq /\ now' = now
  BY DEF cw_sched_add_variable
<1>3. e \in Event
  BY <1>1, NewEvent
<1>4. t.n = nadd + 1 /\ t.when >= now
  BY <1>1 DEF Timer
<1> HIDE DEF e
<1>5. PICK k \in 0..Len(schedq) : Placed(schedq, k, e, schedq')
  BY <1>1, <1>2, <1>3, Schedule
<1>6. AsTimers(schedq') = AsTimers(schedq) \cup {t}
  BY <1>1, <1>5, PlacedTimers
<1> HIDE DEF t
<1>7. t \in AsTimers(schedq') /\ AsTimers(schedq)' = AsTimers(schedq')
      /\ AsTimers(runq)' = AsTimers(runq)
  BY <1>2, <1>6 DEF AsTimers
<1>8. QED BY <1>2, <1>4, <1>6, <1>7 DEF Abstract!Arm

\* cw_sched_del cancels a timer that is armed.
LEMMA DelCancels ==
  ASSUME RefInv, NEW i \in 0..MaxInt, cw_sched_del(i)
  PROVE  Abstract!Cancel
<1>1. ListOK /\ schedq \in Seq(Event) /\ Distinct(schedq)
  BY RefLists
<1>2. PICK k \in 1..Len(schedq) : Without(schedq, k, schedq')
  BY <1>1, Del
<1>3. AsTimers(schedq') = AsTimers(schedq) \ {Timer(schedq[k])}
  BY <1>1, <1>2, WithoutTimers
<1>4. Timer(schedq[k]) \in AsTimers(schedq)
  BY TimersOf
<1>5. runq' = runq /\ now' = now /\ nadd' = nadd
  BY DEF cw_sched_del
<1>6. AsTimers(schedq)' = AsTimers(schedq') /\ AsTimers(runq)' = AsTimers(runq)
  BY <1>5 DEF AsTimers
<1>7. QED BY <1>3, <1>4, <1>5, <1>6 DEF Abstract!Cancel

\* Taking out the events that are due fires their timers together, and no
\* timer of an earlier round is left.
LEMMA DetachFires ==
  ASSUME RefInv, RunqDetach
  PROVE  Abstract!Fire
<1>1. ListOK /\ schedq \in Seq(Event) /\ Sorted(schedq) /\ runq = <<>>
  BY RefLists DEF RunqDetach
<1>2. PICK k \in 0..Len(schedq) :
        /\ Behind(schedq, k, schedq') /\ Front(schedq, k, runq')
        /\ \A i \in 1..Len(schedq) : i <= k <=> Due(schedq[i].when)
  BY <1>1, DetachAll
<1>3. k \in Nat /\ Len(schedq) \in Nat /\ k <= Len(schedq)
  BY <1>1
<1>4. Len(runq') = k /\ Len(schedq') = Len(schedq) - k
  BY <1>2 DEF Front, Behind
<1> DEFINE Ripe == {t \in AsTimers(schedq) : t.when < now + Slack}
<1>5. ASSUME NEW i \in 1..Len(schedq)
      PROVE  i <= k <=> Timer(schedq[i]) \in Ripe
  BY <1>2, TimersOf, TimerFields DEF Due
<1>6. ASSUME NEW t \in AsTimers(runq') PROVE t \in Ripe
  <2>1. PICK i \in 1..Len(runq') : t = Timer(runq'[i])
    BY TimerAt
  <2>2. i \in 1..Len(schedq) /\ i <= k /\ runq'[i] = schedq[i]
    BY <1>2, <1>3, <1>4 DEF Front
  <2>3. QED BY <1>5, <2>1, <2>2, Zenon
<1>7. ASSUME NEW t \in Ripe PROVE t \in AsTimers(runq')
  <2>1. PICK i \in 1..Len(schedq) : t = Timer(schedq[i])
    BY TimerAt
  <2>2. i <= k
    BY <1>5, <1>7, <2>1, Zenon
  <2>3. i \in 1..Len(runq') /\ runq'[i] = schedq[i]
    BY <1>2, <1>3, <1>4, <2>2 DEF Front
  <2>4. Timer(runq'[i]) \in AsTimers(runq')
    BY <2>3, TimersOf
  <2>5. QED BY <2>1, <2>3, <2>4, Zenon
<1>8. ASSUME NEW t \in AsTimers(schedq') PROVE t \in AsTimers(schedq) \ Ripe
  <2>1. PICK i \in 1..Len(schedq') : t = Timer(schedq'[i])
    BY TimerAt
  <2>2. k + i \in 1..Len(schedq) /\ ~(k + i <= k)
    BY <1>3, <1>4
  <2>3. schedq'[i] = schedq[k + i]
    BY <1>2 DEF Behind
  <2>4. Timer(schedq[k + i]) \notin Ripe /\ Timer(schedq[k + i]) \in AsTimers(schedq)
    BY <1>5, <2>2, TimersOf, Zenon
  <2>5. t = Timer(schedq[k + i])
    BY <2>1, <2>3, Zenon
  <2>6. QED BY <2>4, <2>5, Zenon
<1>9. ASSUME NEW t \in AsTimers(schedq), t \notin Ripe PROVE t \in AsTimers(schedq')
  <2>1. PICK i \in 1..Len(schedq) : t = Timer(schedq[i])
    BY TimerAt
  <2>2. ~(i <= k)
    BY <1>5, <1>9, <2>1, Zenon
  <2>3. i - k \in 1..Len(schedq') /\ k + (i - k) = i
    BY <1>3, <1>4, <2>2
  <2>4. schedq'[i - k] = schedq[k + (i - k)]
    BY <1>2, <2>3, Zenon DEF Behind
  <2>5. schedq'[i - k] = schedq[i]
    BY <2>3, <2>4, Zenon
  <2>6. QED BY <2>1, <2>3, <2>5, TimersOf, Zenon
<1>10. AsTimers(runq') = Ripe
  BY <1>6, <1>7, Zenon
<1>11. AsTimers(schedq') = AsTimers(schedq) \ AsTimers(runq')
  BY <1>8, <1>9, <1>10
<1>12. AsTimers(runq) = {}
  BY <1>1 DEF AsTimers
<1>13. now' = now /\ nadd' = nadd
  BY DEF RunqDetach
<1>14. AsTimers(schedq)' = AsTimers(schedq') /\ AsTimers(runq)' = AsTimers(runq')
  BY DEF AsTimers
<1>15. QED BY <1>10, <1>11, <1>12, <1>13, <1>14 DEF Abstract!Fire

\* The callback that ends is that of the soonest timer.
LEMMA NextSoonest ==
  ASSUME RefInv, pc = "callback", NextCallback
  PROVE  /\ Head(runq) \in Event
         /\ Timer(Head(runq)) \in AsTimers(runq) /\ Abstract!Soonest(Timer(Head(runq)))
         /\ AsTimers(runq') = AsTimers(runq) \ {Timer(Head(runq))}
<1>1. ListOK /\ runq \in Seq(Event) /\ Distinct(runq) /\ Sorted(runq) /\ Len(runq) \in Nat
  BY RefLists
<1>2. Len(runq) >= 1 /\ runq[1] \in Event /\ Head(runq) = runq[1] /\ Behind(runq, 1, runq')
  BY <1>1, Rest
<1>3. Without(runq, 1, runq')
  <2>1. /\ runq' \in Seq(Event) /\ Len(runq') = Len(runq) - 1
        /\ \A i \in 1..Len(runq') : runq'[i] = runq[1 + i]
    BY <1>2 DEF Behind
  <2>2. 1 \in 1..Len(runq) /\ \A i \in 1..(1 - 1) : runq'[i] = runq[i]
    BY <1>1, <1>2
  <2>3. \A i \in 1..(Len(runq) - 1) : runq'[i] = runq[i + 1]
    BY <1>1, <2>1
  <2>4. QED BY <2>1, <2>2, <2>3, Zenon DEF Without
<1>4. AsTimers(runq') = AsTimers(runq) \ {Timer(runq[1])}
  BY <1>1, <1>3, WithoutTimers
<1>5. 1 \in 1..Len(runq) /\ Timer(runq[1]) \in AsTimers(runq)
  <2>1. 1 \in 1..Len(runq)
    BY <1>1, <1>2
  <2>2. QED BY <2>1, TimersOf
<1>6. ASSUME NEW u \in AsTimers(runq) PROVE Timer(runq[1]).when <= u.when
  <2>1. PICK j \in 1..Len(runq) : u = Timer(runq[j])
    BY TimerAt
  <2>2. runq[1].when \in Nat /\ runq[j].when \in Nat
    BY <1>1, <1>5, Times
  <2>3. runq[1].when <= runq[j].when
    <3>1. CASE j = 1
      BY <2>2, <3>1
    <3>2. CASE j # 1
      <4>1. 1 < j
        BY <1>1, <3>2
      <4>2. QED BY <1>1, <1>5, <4>1 DEF Sorted
    <3>3. QED BY <3>1, <3>2
  <2>4. QED BY <2>1, <2>3, TimerFields
<1>7. Abstract!Soonest(Timer(runq[1]))
  BY <1>5, <1>6 DEF Abstract!Soonest
<1>8. QED BY <1>2, <1>4, <1>5, <1>7

\* A callback that returns 0 ends its timer.
LEMMA ReleaseEnds ==
  ASSUME RefInv, RunqRelease
  PROVE  Abstract!End
<1>1. pc = "callback" /\ NextCallback /\ schedq' = schedq /\ now' = now /\ nadd' = nadd
  BY DEF RunqRelease, listVars
<1> DEFINE t == Timer(Head(runq))
<1>2. t \in AsTimers(runq) /\ Abstract!Soonest(t) /\ AsTimers(runq') = AsTimers(runq) \ {t}
  BY <1>1, NextSoonest
<1> HIDE DEF t
<1>3. AsTimers(schedq)' = AsTimers(schedq) /\ AsTimers(runq)' = AsTimers(runq')
  BY <1>1 DEF AsTimers
<1>4. QED BY <1>1, <1>2, <1>3 DEF Abstract!End

\* A callback that returns nonzero has its timer armed again, no sooner.
LEMMA RescheduleRearms ==
  ASSUME RefInv, RunqReschedule
  PROVE  Abstract!Rearm
<1>1. pc = "callback" /\ NextCallback /\ now' = now /\ nadd' = nadd
  BY DEF RunqReschedule
<1>2. PICK e \in Again(Head(runq)) : schedule(e)
  BY DEF RunqReschedule
<1> DEFINE h == Head(runq)
           t == Timer(h)
           u == Timer(e)
<1>3. /\ h \in Event /\ t \in AsTimers(runq) /\ Abstract!Soonest(t)
      /\ AsTimers(runq') = AsTimers(runq) \ {t}
  BY <1>1, NextSoonest
<1>4. e \in Event /\ e.n = h.n
  BY <1>2, <1>3, AgainEvent
<1>5. e.when >= h.when
  <2>1. PICK d \in Delays : e = [h EXCEPT !.when = h.when + d]
    BY <1>2, <1>3 DEF Again, Event
  <2>2. d \in Nat /\ h.when \in Nat
    BY <1>3, SchedAssumption DEF Event
  <2>3. e.when = h.when + d
    BY <1>3, <2>1 DEF Event
  <2>4. QED BY <2>2, <2>3
<1>6. ListOK /\ schedq \in Seq(Event)
  BY RefLists
<1>7. PICK k \in 0..Len(schedq) : Placed(schedq, k, e, schedq')
  BY <1>2, <1>4, <1>6, Schedule
<1>8. AsTimers(schedq') = AsTimers(schedq) \cup {u}
  BY <1>6, <1>7, PlacedTimers
<1>9. u.n = t.n /\ u.when >= t.when
  BY <1>4, <1>5, TimerFields
<1> HIDE DEF t, u
<1>10. AsTimers(schedq)' = AsTimers(schedq') /\ AsTimers(runq)' = AsTimers(runq')
  BY DEF AsTimers
<1>11. u \in AsTimers(schedq)'
  BY <1>8, <1>10
<1>12. QED BY <1>1, <1>3, <1>8, <1>9, <1>10, <1>11 DEF Abstract!Rearm

\* A scheduler context implements the timer service: each step of the service
\* thread, of an owner, caller or callback is one of its steps, or changes
\* nothing that it shows (ServiceWait).
THEOREM TimerServiceRefined == Spec => ImplementsTimerService
<1>1. Init => Abstract!Init
  BY DEF Init, Abstract!Init, AsTimers
<1>2. RefInv /\ [Next]_vars => [Abstract!Next]_(Abstract!vars)
  <2> SUFFICES ASSUME RefInv, [Next]_vars
               PROVE  Abstract!Next \/ UNCHANGED <<now, AsTimers(schedq), AsTimers(runq), nadd>>
    BY DEF Abstract!vars
  <2>1. ASSUME NEW d \in Delays, NEW v \in BOOLEAN, cw_sched_add_variable(d, v) PROVE Abstract!Next
    BY <2>1, AddArms DEF Abstract!Next
  <2>2. ASSUME NEW i \in 0..MaxInt, cw_sched_del(i) PROVE Abstract!Next
    BY <2>2, DelCancels DEF Abstract!Next
  <2>3. CASE RunqDetach
    BY <2>3, DetachFires DEF Abstract!Next
  <2>4. CASE RunqRelease
    BY <2>4, ReleaseEnds DEF Abstract!Next
  <2>5. CASE RunqReschedule
    BY <2>5, RescheduleRearms DEF Abstract!Next
  <2>6. CASE Tick
    <3>1. now' = now + 1 /\ nadd' = nadd /\ schedq' = schedq /\ runq' = runq
      BY <2>6 DEF Tick, listVars
    <3>2. AsTimers(schedq)' = AsTimers(schedq) /\ AsTimers(runq)' = AsTimers(runq)
      BY <3>1 DEF AsTimers
    <3>3. QED BY <3>1, <3>2 DEF Abstract!Next, Abstract!Pass
  <2>7. CASE ServiceWait \/ UNCHANGED vars
    <3>1. now' = now /\ nadd' = nadd /\ schedq' = schedq /\ runq' = runq
      BY <2>7 DEF ServiceWait, vars, listVars
    <3>2. QED BY <3>1 DEF AsTimers
  <2>8. QED BY <2>1, <2>2, <2>3, <2>4, <2>5, <2>6, <2>7 DEF Next, Runner
<1>3. QED BY <1>1, <1>2, RefInvariant, PTL DEF Spec, ImplementsTimerService, Abstract!Spec

=============================================================================
