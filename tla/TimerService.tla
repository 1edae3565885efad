---------------------------- MODULE TimerService ----------------------------
(***************************************************************************)
(* What a scheduler context promises its callers, without lists, locks or  *)
(* a service thread: timers are armed, and cancelled while they are armed; *)
(* now and then all that are due fire together; their callbacks run one by *)
(* one, soonest first, and each ends its timer or arms it again, no sooner *)
(* than it was.                                                            *)
(***************************************************************************)
EXTENDS Naturals

CONSTANTS
  Slack    \* how early a timer may fire, less one

VARIABLES
  clock,
  armed,   \* timers waiting: a number, and when it is due
  firing,  \* timers whose callback is running or next in turn
  used     \* the number given out last

vars == <<clock, armed, firing, used>>

Init == armed = {} /\ firing = {} /\ used = 0 /\ clock = 0

Arm ==
  /\ used' = used + 1
  /\ \E t \in armed' : t.n = used' /\ t.when >= clock /\ armed' = armed \cup {t}
  /\ UNCHANGED <<clock, firing>>

Cancel ==
  /\ \E t \in armed : armed' = armed \ {t}
  /\ UNCHANGED <<clock, firing, used>>

Fire ==
  /\ firing = {}
  /\ firing' = {t \in armed : t.when < clock + Slack}
  /\ armed' = armed \ firing'
  /\ UNCHANGED <<clock, used>>

\* The callback of the soonest timer ends.
Soonest(t) == t \in firing /\ \A u \in firing : t.when <= u.when

End ==
  /\ \E t \in firing : Soonest(t) /\ firing' = firing \ {t}
  /\ UNCHANGED <<clock, armed, used>>

Rearm ==
  /\ \E t \in firing, u \in armed' :
       /\ Soonest(t) /\ firing' = firing \ {t}
       /\ u.n = t.n /\ u.when >= t.when /\ armed' = armed \cup {u}
  /\ UNCHANGED <<clock, used>>

Pass == clock' = clock + 1 /\ UNCHANGED <<armed, firing, used>>

Next == Arm \/ Cancel \/ Fire \/ End \/ Rearm \/ Pass

Spec == Init /\ [][Next]_vars
=============================================================================
