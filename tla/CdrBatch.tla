------------------------------ MODULE CdrBatch ------------------------------
(***************************************************************************)
(* The batch of call detail records (corelib/cdr.c): threads of calls      *)
(* detach their records into the batch, a timer of the CDR scheduler and   *)
(* the end of the program submit it, and a reload reads cdr.conf again.    *)
(*                                                                         *)
(* The scheduler is the one of module Sched with a service thread, reduced *)
(* to what matters here: the set of ids that are pending, and con->lock,   *)
(* which the service thread holds whenever it is not in its condition      *)
(* wait, its callback included. A region under cdr_batch_lock is one step, *)
(* except in do_reload, which calls the scheduler inside it.               *)
(***************************************************************************)
EXTENDS Naturals, Sequences, FiniteSets

CONSTANTS
  Threads,     \* threads that detach records, or run "cdr submit"
  Cdrs,        \* records
  BatchSizes,  \* values cdr.conf may give batchsize
  None,        \* no record
  MaxCommands  \* bound: reloads and "cdr submit" commands

ASSUME CdrAssumption ==
  /\ BatchSizes \subseteq Nat /\ MaxCommands \in Nat
  /\ None \notin Cdrs /\ IsFiniteSet(Threads)

VARIABLES
  enabled, batchmode, batchsize,  \* from cdr.conf
  batch,       \* the records of the batch, oldest first
  batchlock,   \* do_reload holds cdr_batch_lock
  timers,      \* pending events of submit_scheduled_batch
  cdr_sched,   \* the event last added, as far as anyone noted
  pc,          \* where each thread is
  cdr,         \* the record a thread detaches
  old,         \* the event id a thread read from cdr_sched, or got
  svc, term,   \* where the service thread and the ending program are
  items,       \* oldbatchitems of these two
  posting,     \* records handed to detached posting threads
  reload,      \* where the reload is
  reloads,     \* reloads so far
  submits,     \* "cdr submit" commands so far
  posted,      \* history: how often each record was posted
  cli,         \* "cdr submit" is registered, and stays so
  dropped      \* history: records dropped while logging was disabled

confVars  == <<enabled, batchmode, batchsize, cli>>
schedVars == <<timers, cdr_sched>>
threadVars == <<pc, cdr, old, submits>>
postVars  == <<posting, posted>>
reloadVars == <<batchlock, reload, reloads>>
submitVars == <<svc, term, items>>
vars == <<confVars, schedVars, threadVars, postVars, reloadVars, submitVars, batch, dropped>>

Submitters == {"svc", "term"}

\* The value -1 of cdr_sched.
NoEvent == 0

\* The batch, its counters and its timer keep their types.
TypeOK ==
  /\ enabled \in BOOLEAN /\ batchmode \in BOOLEAN /\ cli \in BOOLEAN
  /\ batchsize \in Nat /\ batch \in Seq(Cdrs) /\ batchlock \in BOOLEAN
  /\ timers \subseteq Nat \ {0} /\ cdr_sched \in Nat
  /\ pc \in [Threads -> {"idle", "append", "submit", "del", "add", "note"}]
  /\ cdr \in [Threads -> Cdrs \cup {None}] /\ old \in [Threads -> Nat]
  /\ svc \in {"wait", "take", "post", "rearm"}
  /\ term \in {"run", "take", "post"}
  /\ items \in [Submitters -> Seq(Cdrs)]
  /\ posting \subseteq Cdrs /\ posted \in [Cdrs -> Nat] /\ dropped \subseteq Cdrs
  /\ reload \in {"idle", "del", "load", "add"} /\ reloads \in Nat /\ submits \in Nat

\* After the first do_reload, from cw_cdr_engine_init.
Init ==
  /\ enabled \in BOOLEAN /\ batchmode \in BOOLEAN
  /\ batchsize \in BatchSizes /\ cli = (enabled /\ batchmode)
  /\ IF enabled /\ batchmode
       THEN cdr_sched = 1 /\ timers = {1}
       ELSE cdr_sched = NoEvent /\ timers = {}
  /\ batch = <<>> /\ batchlock = FALSE
  /\ pc = [t \in Threads |-> "idle"] /\ cdr = [t \in Threads |-> None]
  /\ old = [t \in Threads |-> NoEvent]
  /\ svc = "wait" /\ term = "run" /\ items = [p \in Submitters |-> <<>>]
  /\ posting = {} /\ posted = [c \in Cdrs |-> 0] /\ dropped = {}
  /\ reload = "idle" /\ reloads = 0 /\ submits = 0

-----------------------------------------------------------------------------
(* The scheduler, as these functions use it *)

\* A thread other than the service thread gets con->lock.
CanLock == svc = "wait"

\* Event ids somebody remembers.
Known == timers \cup {NoEvent, cdr_sched} \cup {old[t] : t \in Threads}

\* The id of a new event is one that nobody remembers, as ids are not used again
\* before the counter wraps; one such id stands for all of them.
NewId == CHOOSE id \in (1..(Cardinality(Known) + 1)) \ Known : TRUE

cw_sched_del(id) == timers' = timers \ {id}
cw_sched_add     == timers' = timers \cup {NewId}

-----------------------------------------------------------------------------
(* cw_cdr_detach, by thread t *)

\* The records of a list.
Records(q) == {q[i] : i \in DOMAIN q}

\* Where a record is: with a thread, in the batch, with a submitter, with a
\* detached thread, posted (each time counts) or dropped.
Places(c) ==
  {<<"thread", t>> : t \in {u \in Threads : cdr[u] = c}}
    \cup {<<"batch", i>> : i \in {k \in DOMAIN batch : batch[k] = c}}
    \cup (UNION {{<<p, i>> : i \in {k \in DOMAIN items[p] : items[p][k] = c}} : p \in Submitters})
    \cup {<<"posting", d>> : d \in {c} \cap posting}
    \cup {<<"posted", k>> : k \in 1..posted[c]}
    \cup {<<"dropped", d>> : d \in {c} \cap dropped}

post_cdr(c) == posted' = [posted EXCEPT ![c] = @ + 1]

\* A call ends, and its record is detached. After the unlocked tests of enabled
\* and batchmode the record is dropped, posted at once (also when there is no
\* memory for a batch item), or goes on to the batch.
Detach(t, c) ==
  /\ pc[t] = "idle" /\ Places(c) = {}
  /\ \/ /\ ~enabled
        /\ dropped' = dropped \cup {c}
        /\ UNCHANGED <<pc, cdr, posted>>
     \/ /\ enabled
        /\ post_cdr(c)
        /\ UNCHANGED <<pc, cdr, dropped>>
     \/ /\ enabled /\ batchmode
        /\ cdr' = [cdr EXCEPT ![t] = c]
        /\ pc' = [pc EXCEPT ![t] = "append"]
        /\ UNCHANGED <<dropped, posted>>
  /\ UNCHANGED <<confVars, schedVars, old, submits, posting, reloadVars, submitVars, batch>>

\* Mutant: the new item gets no record.
AppendItem_NoRecord(t) ==
  /\ pc[t] = "append" /\ ~batchlock
  /\ batch' = Append(batch, None)
  /\ cdr' = [cdr EXCEPT ![t] = None]
  /\ pc' = [pc EXCEPT ![t] = IF Len(batch) + 1 >= batchsize THEN "submit" ELSE "idle"]
  /\ UNCHANGED <<confVars, schedVars, old, submits, postVars, reloadVars, submitVars, dropped>>

\* Mutant: the new item becomes the head as well.
AppendItem_NewHead(t) ==
  /\ pc[t] = "append" /\ ~batchlock
  /\ batch' = <<cdr[t]>>
  /\ cdr' = [cdr EXCEPT ![t] = None]
  /\ pc' = [pc EXCEPT ![t] = "submit"]
  /\ UNCHANGED <<confVars, schedVars, old, submits, postVars, reloadVars, submitVars, dropped>>

\* The record goes to the end of the batch; a full batch is submitted.
AppendItem(t) ==
  /\ pc[t] = "append" /\ ~batchlock
  /\ batch' = Append(batch, cdr[t])
  /\ cdr' = [cdr EXCEPT ![t] = None]
  /\ pc' = [pc EXCEPT ![t] = IF Len(batch) + 1 >= batchsize THEN "submit" ELSE "idle"]
  /\ UNCHANGED <<confVars, schedVars, old, submits, postVars, reloadVars, submitVars, dropped>>

-----------------------------------------------------------------------------
(* submit_unscheduled_batch, by thread t: nothing of it is under cdr_batch_lock *)

CliSubmit(t) ==
  /\ pc[t] = "idle" /\ cli /\ reloads + submits < MaxCommands
  /\ submits' = submits + 1
  /\ pc' = [pc EXCEPT ![t] = "submit"]
  /\ UNCHANGED <<confVars, schedVars, cdr, old, postVars, reloadVars, submitVars, batch, dropped>>

ReadSched(t) ==
  /\ pc[t] = "submit"
  /\ old' = [old EXCEPT ![t] = cdr_sched]
  /\ pc' = [pc EXCEPT ![t] = IF cdr_sched = NoEvent THEN "add" ELSE "del"]
  /\ UNCHANGED <<confVars, schedVars, cdr, submits, postVars, reloadVars, submitVars, batch, dropped>>

DelSched(t) ==
  /\ pc[t] = "del" /\ CanLock
  /\ cw_sched_del(old[t])
  /\ old' = [old EXCEPT ![t] = NoEvent]
  /\ pc' = [pc EXCEPT ![t] = "add"]
  /\ UNCHANGED <<confVars, cdr_sched, cdr, submits, postVars, reloadVars, submitVars, batch, dropped>>

\* Mutant: the timer is not added again.
AddSched_Forget(t) ==
  /\ pc[t] = "add"
  /\ pc' = [pc EXCEPT ![t] = "idle"]
  /\ UNCHANGED <<confVars, schedVars, cdr, old, submits, postVars, reloadVars, submitVars, batch, dropped>>

AddSched(t) ==
  /\ pc[t] = "add" /\ CanLock
  /\ cw_sched_add
  /\ old' = [old EXCEPT ![t] = NewId]
  /\ pc' = [pc EXCEPT ![t] = "note"]
  /\ UNCHANGED <<confVars, cdr_sched, cdr, submits, postVars, reloadVars, submitVars, batch, dropped>>

NoteSched(t) ==
  /\ pc[t] = "note"
  /\ cdr_sched' = old[t]
  /\ old' = [old EXCEPT ![t] = NoEvent]
  /\ pc' = [pc EXCEPT ![t] = "idle"]
  /\ UNCHANGED <<confVars, timers, cdr, submits, postVars, reloadVars, submitVars, batch, dropped>>

-----------------------------------------------------------------------------
(* cw_cdr_submit_batch, by the service thread and by cw_cdr_engine_term *)

At(p) == IF p = "svc" THEN svc ELSE term
Goto(p, l) ==
  /\ svc' = IF p = "svc" THEN l ELSE svc
  /\ term' = IF p = "term" THEN l ELSE term

\* Where the function returns to.
After(p) == IF p = "svc" THEN "rearm" ELSE "run"

\* The function begins with an unlocked test for an empty batch.
Submit(p) == Goto(p, IF batch = <<>> THEN After(p) ELSE "take")

\* A timer is due: its event leaves the queue and its callback begins.
Fire ==
  /\ svc = "wait"
  /\ \E id \in timers : cw_sched_del(id)
  /\ Submit("svc")
  /\ UNCHANGED <<confVars, cdr_sched, threadVars, postVars, reloadVars, items, batch, dropped>>

cw_cdr_engine_term ==
  /\ term = "run"
  /\ Submit("term")
  /\ UNCHANGED <<confVars, schedVars, threadVars, postVars, reloadVars, items, batch, dropped>>

\* Mutant: the batch is not reset.
SubmitTake_NoReset(p) ==
  /\ At(p) = "take" /\ ~batchlock
  /\ items' = [items EXCEPT ![p] = batch] /\ Goto(p, "post")
  /\ UNCHANGED <<confVars, schedVars, threadVars, posting, posted, reloadVars, batch, dropped>>

\* The records are taken from the batch under its lock, and then posted by this
\* thread or handed to a detached one.
SubmitTake(p) ==
  /\ At(p) = "take" /\ ~batchlock
  /\ batch' = <<>>
  /\ \/ items' = [items EXCEPT ![p] = batch] /\ Goto(p, "post") /\ UNCHANGED posting
     \/ posting' = posting \cup Records(batch) /\ Goto(p, After(p)) /\ UNCHANGED items
  /\ UNCHANGED <<confVars, schedVars, threadVars, posted, reloadVars, dropped>>

do_batch_backend_process(p) ==
  /\ At(p) = "post"
  /\ posted' = [c \in Cdrs |-> posted[c] + Cardinality({i \in DOMAIN items[p] : items[p][i] = c})]
  /\ items' = [items EXCEPT ![p] = <<>>]
  /\ Goto(p, After(p))
  /\ UNCHANGED <<confVars, schedVars, threadVars, posting, reloadVars, batch, dropped>>

\* Mutant: it does not schedule itself again.
Rearm_Forget ==
  /\ svc = "rearm"
  /\ svc' = "wait"
  /\ UNCHANGED <<confVars, schedVars, threadVars, postVars, reloadVars, term, items, batch, dropped>>

\* submit_scheduled_batch schedules itself again, and the service thread waits.
Rearm ==
  /\ svc = "rearm"
  /\ cw_sched_add /\ cdr_sched' = NewId
  /\ svc' = "wait"
  /\ UNCHANGED <<confVars, threadVars, postVars, reloadVars, term, items, batch, dropped>>

\* A detached thread posts one of its records.
PostDetached ==
  /\ \E c \in posting : post_cdr(c) /\ posting' = posting \ {c}
  /\ UNCHANGED <<confVars, schedVars, threadVars, reloadVars, submitVars, batch, dropped>>

-----------------------------------------------------------------------------
(* do_reload, under cdr_batch_lock from the first step to the last *)

ReloadBegin ==
  /\ reload = "idle" /\ reloads + submits < MaxCommands
  /\ reloads' = reloads + 1
  /\ batchlock' = TRUE
  /\ enabled' = TRUE /\ batchmode' = FALSE /\ batchsize' \in BatchSizes
  /\ UNCHANGED cli
  /\ reload' = IF cdr_sched = NoEvent THEN "load" ELSE "del"
  /\ UNCHANGED <<schedVars, threadVars, postVars, submitVars, batch, dropped>>

ReloadDel ==
  /\ reload = "del" /\ CanLock
  /\ cw_sched_del(cdr_sched)
  /\ reload' = "load"
  /\ UNCHANGED <<confVars, cdr_sched, threadVars, postVars, batchlock, reloads, submitVars,
                 batch, dropped>>

ReloadLoad ==
  /\ reload = "load"
  /\ enabled' \in BOOLEAN /\ batchmode' \in BOOLEAN /\ batchsize' \in BatchSizes
  /\ IF enabled' /\ batchmode'
       THEN reload' = "add" /\ UNCHANGED batchlock
       ELSE reload' = "idle" /\ batchlock' = FALSE
  /\ UNCHANGED cli
  /\ UNCHANGED <<schedVars, threadVars, postVars, reloads, submitVars, batch, dropped>>

ReloadAdd ==
  /\ reload = "add" /\ CanLock
  /\ cw_sched_add /\ cdr_sched' = NewId
  /\ reload' = "idle" /\ batchlock' = FALSE /\ cli' = TRUE
  /\ UNCHANGED <<enabled, batchmode, batchsize, threadVars, postVars, reloads, submitVars, batch, dropped>>

-----------------------------------------------------------------------------
Caller(t) ==
  \/ AppendItem(t)
  \/ ReadSched(t) \/ DelSched(t) \/ AddSched(t) \/ NoteSched(t)

Submitting(p) == SubmitTake(p) \/ do_batch_backend_process(p)

Service == Fire \/ Submitting("svc") \/ Rearm

Reload == ReloadDel \/ ReloadLoad \/ ReloadAdd

Next ==
  \/ \E t \in Threads : CliSubmit(t) \/ Caller(t) \/ \E c \in Cdrs : Detach(t, c)
  \/ Service
  \/ cw_cdr_engine_term \/ Submitting("term")
  \/ PostDetached
  \/ ReloadBegin \/ Reload

Spec == Init /\ [][Next]_vars

\* Threads inside these functions go on, timers fire and posting threads post;
\* nobody has to call or to reload. A thread that waits for con->lock gets it
\* sooner or later: the service thread sleeps longer than it works.
FairSpec ==
  /\ Spec
  /\ \A t \in Threads : SF_vars(Caller(t))
  /\ WF_vars(Service) /\ WF_vars(Submitting("term"))
  /\ WF_vars(PostDetached) /\ SF_vars(Reload)

-----------------------------------------------------------------------------
(* Properties *)

\* No record is in two places or posted twice, however detaching, a scheduled
\* submission, the end of the program and a reload interleave.
NeverTwice == \A c \in Cdrs : \A x, y \in Places(c) : x = y

\* In batch mode a submission is always coming, unless a reload is on its way:
\* an event is pending, its callback is running, or a thread is about to add it.
SubmissionComing ==
  enabled /\ batchmode /\ reload = "idle" =>
    timers # {} \/ svc # "wait" \/ \E t \in Threads : pc[t] = "add"

\* As long as cdr.conf is not loaded again, a record in the batch is posted.
BatchPosted ==
  \A c \in Cdrs : c \in Records(batch) ~> posted[c] = 1 \/ reloads > 0

\* cw_cdr_detach does not keep the thread of the call.
DetachReturns == \A t \in Threads : pc[t] = "append" ~> pc[t] # "append"

Owed ==
  {c \in Cdrs : \E t \in Threads : cdr[t] = c} \cup Records(batch) \cup posting
    \cup UNION {Records(items[p]) : p \in Submitters}

Abstract == INSTANCE CdrLog WITH owed <- Owed, log <- posted

\* Seen from the calls the batch is a log: a record taken over, wherever it then is, is
\* owed until it is written, and then it is owed no more; none slips away.
ImplementsCdrLog == Abstract!Spec
=============================================================================
