---------------------------- MODULE SchedShared ----------------------------
(***************************************************************************)
(* A manual scheduler context that several threads use, as those of        *)
(* chan_sip and chan_iax2: the monitor thread runs it, and the threads of  *)
(* calls add and delete events meanwhile. cw_sched_runq puts an event back *)
(* with schedule() after it has released con->lock, so that schedule() is  *)
(* not one step here: it finds the place and links the event in later.     *)
(***************************************************************************)
EXTENDS Sched

VARIABLES
  linking,     \* the runner is inside an unlocked schedule()
  last, next   \* serials of the events around the place it found

linkVars == <<linking, last, next>>

\* No event: serials begin with 1.
None == 0

SharedInit ==
  /\ Init /\ manual
  /\ linking = FALSE /\ last = None /\ next = None

\* Without the lock, schedule() first finds its place...
RescheduleFind ==
  /\ pc = "callback" /\ ~linking
  /\ \E e \in Again(Head(runq)), k \in 0..Len(schedq) :
       /\ e.when <= MaxTime /\ InPlace(schedq, k, e.when)
       /\ runq' = <<e>> \o Tail(runq)
       /\ last' = IF k = 0 THEN None ELSE schedq[k].n
       /\ next' = IF k = Len(schedq) THEN None ELSE schedq[k + 1].n
  /\ linking' = TRUE
  /\ UNCHANGED <<manual, listVars, eventcnt, schedccnt, pc, waitVars, sig, now, active, nadd>>

\* ... and then links the event in between what it saw there. Meanwhile others
\* may have added events there, which are dropped from the list, or removed one
\* of the two, and with it the event itself or the rest of the list.
RescheduleLink ==
  /\ linking
  /\ \E i \in 0..Len(schedq), j \in 1..(Len(schedq) + 1) :
       /\ IF i = 0 THEN last \notin Serials(schedq) ELSE schedq[i].n = last
       /\ IF j > Len(schedq) THEN next \notin Serials(schedq) ELSE schedq[j].n = next
       /\ schedq' = IF i = 0 /\ last # None THEN schedq
                    ELSE SubSeq(schedq, 1, i) \o <<Head(runq)>>
                           \o SubSeq(schedq, j, Len(schedq))
  /\ schedcnt' = schedcnt + 1
  /\ linking' = FALSE /\ last' = None /\ next' = None
  /\ NextCallback
  /\ UNCHANGED <<manual, eventcnt, schedccnt, waitVars, sig, now, active, nadd>>

SharedNext ==
  \/ /\ \/ \E d \in Delays, v \in BOOLEAN : cw_sched_add_variable(d, v)
        \/ \E i \in 0..MaxInt : cw_sched_del(i)
        \/ RunqDetach
        \/ ~linking /\ RunqRelease
        \/ Tick
     /\ UNCHANGED linkVars
  \/ RescheduleFind
  \/ RescheduleLink

SharedSpec == SharedInit /\ [][SharedNext]_<<vars, linkVars>>
=============================================================================
