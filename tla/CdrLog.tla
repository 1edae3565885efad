------------------------------- MODULE CdrLog -------------------------------
(***************************************************************************)
(* What the batch of call detail records promises a call that ends: its    *)
(* record is dropped at once (logging is disabled), written at once, or    *)
(* owed; what is owed is written, once, and nothing else is.               *)
(***************************************************************************)
EXTENDS Naturals

CONSTANTS
  Cdrs     \* records

VARIABLES
  owed,    \* records taken over and not written yet
  log,     \* how often each record was written
  dropped  \* records nobody wanted

vars == <<owed, log, dropped>>

Init == owed = {} /\ log = [c \in Cdrs |-> 0] /\ dropped = {}

New(c) == c \notin owed \cup dropped /\ log[c] = 0

Write(S) == log' = [c \in Cdrs |-> IF c \in S THEN log[c] + 1 ELSE log[c]]

Detach(c) ==
  /\ New(c)
  /\ \/ owed' = owed \cup {c} /\ UNCHANGED <<log, dropped>>
     \/ Write({c}) /\ UNCHANGED <<owed, dropped>>
     \/ dropped' = dropped \cup {c} /\ UNCHANGED <<owed, log>>

\* Records owed are written, some at a time.
Pay ==
  /\ owed' \subseteq owed
  /\ Write(owed \ owed')
  /\ UNCHANGED dropped

Next == Pay \/ \E c \in Cdrs : Detach(c)

Spec == Init /\ [][Next]_vars
=============================================================================
