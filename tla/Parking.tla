------------------------------ MODULE Parking ------------------------------
(***************************************************************************)
(* Call parking, src/res/res_features.c.  A call is parked by              *)
(* __cw_park_call: on behalf of its far end through a masqueraded channel  *)
(* no thread runs (__cw_masq_park_call), or by its own thread (Park, the   *)
(* "direct" case, pu->notquiteyet until that thread is done with it).  It  *)
(* leaves the lot through do_parking_thread, which returns it to the       *)
(* dialplan when its time is up and hangs it up when its far end does, or  *)
(* through a caller that dials its number (park_exec).                     *)
(*                                                                         *)
(* The lot is changed under parking_lock; a step here is one such critical *)
(* section, or one access outside it.  The number's extension is added by  *)
(* the parker, and removed by the retriever, after the lock is released.   *)
(*                                                                         *)
(* Left out: music on hold, announcements, manager events, where in the    *)
(* dialplan a call that timed out resumes, and reload: load_config resets  *)
(* the range of the lot and findslot, without parking_lock, to defaults    *)
(* and then to what the file says, under calls that are parked.  Here both *)
(* are as they were when the module was loaded.                            *)
(***************************************************************************)
EXTENDS Naturals

CONSTANTS
    Calls,         \* the calls that may be parked, each once
    Direct,        \* those parked by their own thread
    Retrievers,    \* threads that run ParkedCall
    MaxRange       \* bound on the configured number of spaces

ASSUME ParkingBounds == Direct \subseteq Calls /\ MaxRange \in Nat \ {0}
ASSUME RetrieverNames == Retrievers \intersect {"caller", "lot", "left", "nobody"} = {}

VARIABLES
    parking_range, \* spaces, numbered from 1 (parking_stop - parking_start + 1)
    parkfindnext,  \* findslot=next
    parkinglot,    \* the struct parkeduser of the list; nothing depends on their order
    parking_offset,
    exten,         \* numbers with an extension in parking_con
    parker,        \* per call: how far __cw_park_call got, and its number
    thread,        \* do_parking_thread: scanning, about to select, in select
    forever,       \* its select has no timeout
    rfds,          \* calls whose descriptors are in its sets
    hungup,        \* calls whose far end is gone
    held,          \* per call: who has the channel
    retriever,     \* per thread in park_exec: the call it took, if any
    stale,         \* history: a parkeduser was used after it was freed
    missed         \* history: a wake-up hit the thread outside select

config == <<parking_range, parkfindnext>>
lotvars == <<parkinglot, parking_offset, exten>>
threadvars == <<thread, forever, rfds, missed>>
vars == <<config, lotvars, parker, threadvars, hungup, held, retriever, stale>>

Nums == 1 .. parking_range
Idle == [pc |-> "idle"]

Used == {e.num : e \in parkinglot}
Parked == {e.call : e \in parkinglot}

Change(e, f) == parkinglot' = (parkinglot \ {e}) \union {f}

\* Mutant: a number past the last space.
Slot_PastEnd(i) == ((i + parking_offset) % (parking_range + 1)) + 1

\* The i-th number looked at.
Slot(i) == ((i + parking_offset) % parking_range) + 1

\* Mutant: the space after the last one is taken for free.
Free_Unchecked == {0}

Free == {i \in 0 .. parking_range - 1 : Slot(i) \notin Used}

\* pthread_kill(parking_thread, SIGURG): interrupts select, and is lost on a
\* thread that has looked at the lot but has not yet called select.
Wake ==
    /\ thread' = IF thread = "select" THEN "scan" ELSE thread
    /\ missed' = (missed \/ (thread = "ready" /\ forever))
    /\ UNCHANGED <<forever, rfds>>

(***************************************************************************)
(* __cw_park_call.                                                         *)
(***************************************************************************)

\* A retriever of this number has still to remove the extension.
Clearing(n) == \E r \in Retrievers : retriever[r].pc = "took" /\ retriever[r].num = n

\* Mutant: a call parked directly is open to the parking thread at once.
NewUser_Quiet(c, n) ==
    [call |-> c, num |-> n, notquiteyet |-> FALSE, due |-> FALSE, reused |-> Clearing(n)]

NewUser(c, n) ==
    [call |-> c, num |-> n, notquiteyet |-> c \in Direct, due |-> FALSE, reused |-> Clearing(n)]

\* The first free number, from parking_offset on, and the entry in the lot.
Link(c) ==
    /\ parker[c].pc = "start"
    /\ \E i \in Free :
          /\ \A j \in Free : i <= j
          /\ parkinglot' = parkinglot \union {NewUser(c, Slot(i))}
          /\ parking_offset' = IF parkfindnext THEN Slot(i) ELSE parking_offset
          /\ parker' = [parker EXCEPT ![c] = [pc |-> "linked", num |-> Slot(i)]]
    /\ held' = [held EXCEPT ![c] = "lot"]
    /\ UNCHANGED <<config, exten, threadvars, hungup, retriever, stale>>

\* No space: a call that parks itself goes on in its thread, which hangs it
\* up; the masqueraded channel of another is dropped by __cw_masq_park_call.
NoSpace(c) ==
    /\ parker[c].pc = "start" /\ Free = {}
    /\ parker' = [parker EXCEPT ![c].pc = "done"]
    /\ held' = [held EXCEPT ![c] = IF c \in Direct THEN "left" ELSE "nobody"]
    /\ UNCHANGED <<config, lotvars, threadvars, hungup, retriever, stale>>

Notify(c) ==
    /\ parker[c].pc = "linked"
    /\ parker' = [parker EXCEPT ![c].pc = "notified"]
    /\ Wake
    /\ UNCHANGED <<config, lotvars, hungup, held, retriever, stale>>

AddExtension(c) ==
    /\ parker[c].pc = "notified"
    /\ exten' = exten \union {parker[c].num}
    /\ parker' = [parker EXCEPT ![c].pc = "announced"]
    /\ UNCHANGED <<config, parkinglot, parking_offset, threadvars, hungup, held, retriever, stale>>

\* The parkeduser of a call is gone once a retriever or the thread freed it.
Freed(c) ==
    /\ c \notin Parked
    /\ \A r \in Retrievers : ~(retriever[r].pc = "took" /\ retriever[r].call = c)

\* Mutant: the thread is not told that the call is now its own.
Ready_NoWake(e) == Change(e, [e EXCEPT !.notquiteyet = FALSE]) /\ UNCHANGED threadvars

\* notquiteyet is cleared and the parking thread woken.
Ready(e) == Change(e, [e EXCEPT !.notquiteyet = FALSE]) /\ Wake

\* After the number was read out.  The parkeduser is read without the lock: if
\* it was freed meanwhile, its memory may be that of a later one.
Finish(c) ==
    /\ parker[c].pc = "announced"
    /\ parker' = [parker EXCEPT ![c] = [pc |-> "done", num |-> 0]]
    /\ stale' = (stale \/ Freed(c))
    /\ \/ /\ \/ \E e \in parkinglot : e.call = c /\ ~e.notquiteyet
             \/ c \notin Parked /\ (Freed(c) \/ c \notin Direct)
          /\ UNCHANGED <<parkinglot, threadvars>>
       \/ \E e \in parkinglot : e.call = c /\ e.notquiteyet /\ Ready(e)
       \/ /\ c \notin Parked /\ (Freed(c) \/ c \in Direct)
          /\ UNCHANGED parkinglot
          /\ Wake
       \/ Freed(c) /\ \E e \in parkinglot : e.notquiteyet /\ Ready(e)
    /\ UNCHANGED <<config, parking_offset, exten, hungup, held, retriever>>

Announce(c) == Notify(c) \/ AddExtension(c) \/ Finish(c)

(***************************************************************************)
(* do_parking_thread.                                                      *)
(***************************************************************************)

\* What one pass over the lot takes out: calls whose time is up, and calls
\* that hung up and whose descriptors select reported.
TimedOut(e) == ~e.notquiteyet /\ e.due
GaveUp(e) == ~e.notquiteyet /\ ~e.due /\ e.call \in rfds \intersect hungup
Leaves(e) == TimedOut(e) \/ GaveUp(e)

\* Mutant: the extension is removed whether the call leaves or not.
Removed_Each == {e.num : e \in {x \in parkinglot : ~x.notquiteyet}}

Removed == {e.num : e \in {x \in parkinglot : Leaves(x)}}

\* A call that leaves returns to the dialplan, or is hung up.
Scan ==
    LET stay == {e \in parkinglot : ~Leaves(e)}
        watch == {e.call : e \in {x \in stay : ~x.notquiteyet}}
        out == {e.call : e \in {x \in parkinglot : Leaves(x)}}
    IN  /\ thread = "scan"
        /\ parkinglot' = stay
        /\ exten' = exten \ Removed
        /\ held' = [c \in Calls |-> IF c \in out THEN "left" ELSE held[c]]
        /\ hungup' = hungup \ out
        /\ rfds' = watch
        /\ forever' = (watch = {})
        /\ thread' = "ready"
        /\ missed' = FALSE
        /\ UNCHANGED <<config, parking_offset, parker, retriever, stale>>

Select ==
    /\ thread = "ready"
    /\ thread' = "select"
    /\ UNCHANGED <<config, lotvars, parker, forever, rfds, missed, hungup, held, retriever, stale>>

\* select ends by its timeout or for a descriptor; only the latter stay set.
SelectReturns ==
    /\ thread = "select"
    /\ ~forever \/ rfds \intersect hungup # {}
    /\ thread' = "scan"
    /\ rfds' = rfds \intersect hungup
    /\ UNCHANGED <<config, lotvars, parker, forever, missed, hungup, held, retriever, stale>>

do_parking_thread == Scan \/ Select \/ SelectReturns

(***************************************************************************)
(* park_exec.                                                              *)
(***************************************************************************)

Take(r, n) ==
    /\ retriever[r] = Idle
    /\ \E e \in parkinglot :
          /\ e.num = n
          /\ parkinglot' = parkinglot \ {e}
          /\ retriever' = [retriever EXCEPT ![r] = [pc |-> "took", call |-> e.call, num |-> n]]
          /\ held' = [held EXCEPT ![e.call] = r]
          /\ hungup' = hungup \ {e.call}
          /\ rfds' = rfds \ {e.call}
    /\ UNCHANGED <<config, parking_offset, exten, parker, thread, forever, missed, stale>>

\* The extension is removed, whoever has the number by now; pu is freed.
RemoveExtension(r) ==
    /\ retriever[r].pc = "took"
    /\ exten' = exten \ {retriever[r].num}
    /\ retriever' = [retriever EXCEPT ![r].pc = "bridged"]
    /\ UNCHANGED <<config, parkinglot, parking_offset, parker, threadvars, hungup, held, stale>>

\* The bridge ends (or was never made): the parked call is hung up, unless it
\* was given to another thread (CW_PBX_NO_HANGUP_PEER).
Unbridge(r) ==
    /\ retriever[r].pc = "bridged"
    /\ held' = [held EXCEPT ![retriever[r].call] = "left"]
    /\ retriever' = [retriever EXCEPT ![r] = Idle]
    /\ UNCHANGED <<config, lotvars, parker, threadvars, hungup, stale>>

park_exec(r) == (\E n \in Nums : Take(r, n)) \/ RemoveExtension(r) \/ Unbridge(r)

(***************************************************************************)
(* Time and the far ends.                                                  *)
(***************************************************************************)

Expire(c) ==
    /\ \E e \in parkinglot : e.call = c /\ ~e.due /\ Change(e, [e EXCEPT !.due = TRUE])
    /\ UNCHANGED <<config, parking_offset, exten, parker, threadvars, hungup, held, retriever, stale>>

HangUp(c) ==
    /\ c \in Parked \ hungup
    /\ hungup' = hungup \union {c}
    /\ UNCHANGED <<config, lotvars, parker, threadvars, held, retriever, stale>>

Init ==
    /\ parking_range \in 1 .. MaxRange /\ parkfindnext \in BOOLEAN
    /\ parkinglot = {} /\ parking_offset = 0 /\ exten = {}
    /\ parker = [c \in Calls |-> [pc |-> "start", num |-> 0]]
    /\ thread = "scan" /\ forever = FALSE /\ rfds = {}
    /\ hungup = {}
    /\ held = [c \in Calls |-> "caller"]
    /\ retriever = [r \in Retrievers |-> Idle]
    /\ stale = FALSE /\ missed = FALSE

Next ==
    \/ \E c \in Calls : Link(c) \/ NoSpace(c) \/ Announce(c) \/ Expire(c) \/ HangUp(c)
    \/ do_parking_thread
    \/ \E r \in Retrievers : park_exec(r)

Spec == Init /\ [][Next]_vars

\* Threads run and the clock moves; nobody has to dial a number or hang up.
FairSpec ==
    /\ Spec
    /\ WF_vars(do_parking_thread)
    /\ \A c \in Calls : WF_vars(Announce(c)) /\ WF_vars(Expire(c))

(***************************************************************************)
(* Properties.                                                             *)
(***************************************************************************)

\* Every number in use is one of the configured spaces.
TypeOK ==
    /\ Used \subseteq Nums /\ exten \subseteq Nums
    /\ parking_offset \in 0 .. parking_range
    /\ parker \in [Calls -> [pc : {"start", "linked", "notified", "announced", "done"}, num : 0 .. parking_range]]
    /\ thread \in {"scan", "ready", "select"}
    /\ rfds \subseteq Calls /\ hungup \subseteq Calls
    /\ held \in [Calls -> {"caller", "lot", "left", "nobody"} \union Retrievers]

\* No two calls share a space, and a parked call is held by the lot alone: the
\* parking thread and the retrievers never both get it.
HeldOnce ==
    /\ \A e, f \in parkinglot : e.num = f.num => e = f
    /\ \A c \in Calls : held[c] = "lot" <=> c \in Parked
    /\ \A r \in Retrievers : retriever[r] # Idle => held[retriever[r].call] = r

\* The parking thread leaves a call that parked itself alone until the call's
\* own thread is done with it (pu->notquiteyet), as long as no parkeduser was
\* used after it was freed.
ThreadKeepsOff ==
    [][\A c \in Direct : held[c] = "lot" /\ held'[c] = "left"
          => parker[c].pc = "done" \/ stale]_vars

\* A parked call can be reached: its number has an extension once announced.
\* Excepted is a call that got its number while a retriever of the call before
\* it had yet to remove the extension (park_exec does so without the lock).
Reachable ==
    \A e \in parkinglot :
        parker[e.call].pc \in {"announced", "done"} /\ ~e.reused => e.num \in exten

\* A parked call does not stay: it is retrieved, returned to the dialplan or
\* hung up.  Excepted is a call whose wake-up met the thread between its look
\* at an empty lot and its select.
Served == \A c \in Calls : (held[c] = "lot") ~> (held[c] # "lot" \/ missed)

=============================================================================
