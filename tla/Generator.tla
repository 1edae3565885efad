----------------------------- MODULE Generator -----------------------------
(***************************************************************************)
(* The frame generator of a channel (corelib/generator.c) and the two      *)
(* places of corelib/channel.c that stop one, cw_read and cw_write.        *)
(*                                                                         *)
(* A generator thread sleeps, and every 20 ms calls the generator's        *)
(* callback, which writes a frame with cw_write. A thread that deactivates *)
(* the generator claims its thread, asks it to stop, joins it and releases *)
(* its data. A region under gcd.lock is one step. The generator thread     *)
(* itself may end up in cw_generator_deactivate, through cw_write.         *)
(***************************************************************************)
EXTENDS Naturals, FiniteSets

CONSTANTS
  Callers,   \* threads that use the channel
  Gens,      \* bound: generator threads that can be created
  None,      \* no thread
  MaxData    \* bound: activations

ASSUME GeneratorAssumption ==
  /\ MaxData \in Nat
  /\ None \notin Gens \cup Callers /\ Callers \cap Gens = {}

Procs == Callers \cup Gens

VARIABLES
  pthread,   \* *pgenerator_thread, None when the pointer is null
  active,    \* gen_is_active
  req,       \* gen_req: a request to deactivate is pending
  gendata,   \* gen_data, 0 before the first activation
  wint,      \* CW_FLAG_WRITE_INT
  chanlock,  \* holder of chan->lock where it is kept across a wait
  pc,        \* where each thread is
  thread,    \* local of cw_generator_deactivate: the thread it claimed
  mydata,    \* local: the data a thread has allocated or is to release
  goal,      \* what a caller does once deactivation is over
  cur,       \* cur_gen_data of each generator thread
  ndata,     \* data allocated so far
  released,  \* history: data released
  raced      \* history: a deactivation was overtaken by another caller

gcdVars   == <<pthread, active, req, gendata>>
chanVars  == <<wint, chanlock>>
dataVars  == <<ndata, released, raced>>
localVars == <<thread, mydata, goal, cur>>
vars == <<gcdVars, chanVars, dataVars, localVars, pc>>

Data == 0..MaxData

\* The generator control data and the threads' locals keep their types.
TypeOK ==
  /\ pthread \in Gens \cup {None} /\ active \in BOOLEAN /\ req \in BOOLEAN
  /\ gendata \in Data /\ wint \in BOOLEAN /\ chanlock \in Callers \cup {None}
  /\ pc \in [Procs -> {"idle", "test", "claim", "join", "clean", "free", "alloc",
                       "install", "unborn", "new", "wait", "generate", "check", "done"}]
  /\ thread \in [Procs -> Gens \cup {None}] /\ mydata \in [Procs -> Data]
  /\ goal \in [Callers -> {"activate", "return"}]
  /\ cur \in [Gens -> Data] /\ ndata \in Data /\ released \subseteq Data /\ raced \in BOOLEAN

Init ==
  /\ pthread = None /\ active = FALSE /\ req = FALSE /\ gendata = 0
  /\ wint = FALSE /\ chanlock = None
  /\ pc = [p \in Procs |-> IF p \in Callers THEN "idle" ELSE "unborn"]
  /\ thread = [p \in Procs |-> None] /\ mydata = [p \in Procs |-> 0]
  /\ goal = [t \in Callers |-> "return"]
  /\ cur = [g \in Gens |-> 0] /\ ndata = 0 /\ released = {} /\ raced = FALSE

Goto(p, l) == pc' = [pc EXCEPT ![p] = l]

-----------------------------------------------------------------------------
(* cw_generator_deactivate, by a caller or a generator thread p *)

\* Where the function returns to: the callback, cw_generator_activate, a caller.
Return(p) ==
  IF p \in Gens THEN "check" ELSE IF goal[p] = "activate" THEN "alloc" ELSE "idle"

\* The unlocked test of gen_is_active; the local is forgotten on return. cw_read,
\* when it returns there, gives up chan->lock and deactivates once more if the
\* generator is active.
DeactivateTest(p) ==
  /\ pc[p] = "test"
  /\ \/ active /\ Goto(p, "claim") /\ UNCHANGED <<chanlock, thread>>
     \/ /\ ~active /\ chanlock = p
        /\ chanlock' = None /\ thread' = [thread EXCEPT ![p] = None] /\ UNCHANGED pc
     \/ /\ ~active /\ chanlock # p
        /\ Goto(p, Return(p)) /\ thread' = [thread EXCEPT ![p] = None] /\ UNCHANGED chanlock
  /\ UNCHANGED <<gcdVars, wint, dataVars, mydata, goal, cur>>

\* Mutant: the claimed thread is forgotten.
DeactivateClaim_Forget(p) ==
  /\ pc[p] = "claim"
  /\ pthread' = None /\ req' = TRUE
  /\ Goto(p, "test")
  /\ UNCHANGED <<active, gendata, chanVars, dataVars, localVars>>

\* Between the unlocked test of gen_is_active and the lock, other callers may have
\* ended that generator and begun another. Then p finds no thread to claim but still has
\* the one it joined in an earlier round, or a thread that has not begun, or claims
\* one while another caller is about to install its data.
Overtaken(p) ==
  IF pthread = None
    THEN thread[p] # None
    ELSE pc[pthread] = "new" \/ \E t \in Callers \ {p} : pc[t] \in {"alloc", "install"}

\* Mutant: the pointer to the claimed thread is not reset.
DeactivateClaim_Keep(p) ==
  /\ pc[p] = "claim"
  /\ IF pthread # None
       THEN thread' = [thread EXCEPT ![p] = pthread] /\ req' = TRUE
       ELSE UNCHANGED <<thread, req>>
  /\ Goto(p, IF thread'[p] # None THEN "join" ELSE "test")
  /\ raced' = (raced \/ Overtaken(p))
  /\ UNCHANGED <<pthread, active, gendata, chanVars, ndata, released, mydata, goal, cur>>

\* Claim the thread, if nobody has, and ask it to stop. The loop does not reset
\* the local, so a later round finds what an earlier one claimed.
DeactivateClaim(p) ==
  /\ pc[p] = "claim"
  /\ IF pthread # None
       THEN /\ thread' = [thread EXCEPT ![p] = pthread]
            /\ pthread' = None /\ req' = TRUE
       ELSE UNCHANGED <<thread, pthread, req>>
  /\ Goto(p, IF thread'[p] # None THEN "join" ELSE "test")
  /\ raced' = (raced \/ Overtaken(p))
  /\ UNCHANGED <<active, gendata, chanVars, ndata, released, mydata, goal, cur>>

\* Mutant: the thread is not waited for.
DeactivateJoin_NoWait(p) ==
  /\ pc[p] = "join"
  /\ Goto(p, "clean")
  /\ UNCHANGED <<gcdVars, chanVars, dataVars, localVars>>

DeactivateJoin(p) ==
  /\ pc[p] = "join" /\ pc[thread[p]] = "done"
  /\ Goto(p, "clean")
  /\ UNCHANGED <<gcdVars, chanVars, dataVars, localVars>>

DeactivateClean(p) ==
  /\ pc[p] = "clean"
  /\ mydata' = [mydata EXCEPT ![p] = gendata]
  /\ wint' = FALSE /\ active' = FALSE
  /\ Goto(p, "free")
  /\ UNCHANGED <<pthread, req, gendata, chanlock, dataVars, thread, goal, cur>>

DeactivateFree(p) ==
  /\ pc[p] = "free"
  /\ released' = released \cup {mydata[p]}
  /\ Goto(p, "test")
  /\ UNCHANGED <<gcdVars, chanVars, ndata, raced, localVars>>

-----------------------------------------------------------------------------
(* The callers *)

StartDeactivate(t, then) ==
  /\ pc[t] = "idle"
  /\ Goto(t, "test")
  /\ goal' = [goal EXCEPT ![t] = then]
  /\ UNCHANGED <<gcdVars, wint, dataVars, thread, mydata, cur>>

Activate(t)   == ndata < MaxData /\ StartDeactivate(t, "activate") /\ UNCHANGED chanlock
Deactivate(t) == StartDeactivate(t, "return") /\ UNCHANGED chanlock

\* cw_read got no frame: it deactivates with chan->lock held.
ReadNull(t) == chanlock = None /\ StartDeactivate(t, "return") /\ chanlock' = t

\* cw_write by a thread other than the generator's: it stops an active
\* generator that has WRITE_INT set, and is ignored by another.
WriteInterrupts(t) ==
  /\ chanlock = None /\ active /\ wint
  /\ StartDeactivate(t, "return") /\ UNCHANGED chanlock

\* The generator's alloc, which fails, or sets or clears WRITE_INT.
ActivateAlloc(t) ==
  /\ pc[t] = "alloc"
  /\ \/ /\ Goto(t, "idle")
        /\ UNCHANGED <<wint, ndata, mydata>>
     \/ /\ ndata < MaxData
        /\ ndata' = ndata + 1
        /\ mydata' = [mydata EXCEPT ![t] = ndata + 1]
        /\ wint' \in BOOLEAN
        /\ Goto(t, "install")
  /\ UNCHANGED <<gcdVars, chanlock, released, raced, thread, goal, cur>>

\* Mutant: a thread that is running already is not noticed.
Running_Never == FALSE

Running == pthread # None

\* cw_generator_activate under gcd.lock: a thread is started if there is none,
\* and the new generator is put in place for it to pick up.
ActivateInstall(t) ==
  /\ pc[t] = "install"
  /\ \/ /\ Running
        /\ pc' = [pc EXCEPT ![t] = "idle"]
        /\ UNCHANGED pthread
     \/ \E g \in Gens :
          /\ ~Running /\ pc[g] = "unborn"
          /\ pthread' = g
          /\ pc' = [pc EXCEPT ![t] = "idle", ![g] = "new"]
  /\ gendata' = mydata[t] /\ req' = FALSE
  /\ UNCHANGED <<active, chanVars, dataVars, localVars>>

\* The thread cannot be started: the new data is released again.
InstallFails(t) ==
  /\ pc[t] = "install" /\ ~Running
  /\ released' = released \cup {mydata[t]}
  /\ Goto(t, "idle")
  /\ UNCHANGED <<gcdVars, chanVars, ndata, raced, localVars>>

-----------------------------------------------------------------------------
(* The generator thread *)

\* Mutant: the wrong field is copied.
GenStart_WrongField(g) ==
  /\ pc[g] = "new"
  /\ cur' = [cur EXCEPT ![g] = pthread]
  /\ active' = TRUE
  /\ Goto(g, "wait")
  /\ UNCHANGED <<pthread, req, gendata, chanVars, dataVars, thread, mydata, goal>>

GenStart(g) ==
  /\ pc[g] = "new"
  /\ cur' = [cur EXCEPT ![g] = gendata]
  /\ active' = TRUE
  /\ Goto(g, "wait")
  /\ UNCHANGED <<pthread, req, gendata, chanVars, dataVars, thread, mydata, goal>>

GenExit(g) == wint' = TRUE /\ Goto(g, "done")

\* The sleep ends with a request or with its time.
GenWake(g) ==
  /\ pc[g] = "wait"
  /\ IF req THEN GenExit(g) ELSE Goto(g, "generate") /\ UNCHANGED wint
  /\ UNCHANGED <<gcdVars, chanlock, dataVars, localVars>>

\* The callback calls cw_write. Once its thread has been claimed,
\* cw_generator_is_self no longer knows it, and the write is ignored or
\* deactivates the generator that makes it.
GenWrite(g) ==
  /\ pc[g] = "generate" /\ chanlock = None
  /\ Goto(g, IF pthread # g /\ active /\ wint THEN "test" ELSE "check")
  /\ UNCHANGED <<gcdVars, chanVars, dataVars, localVars>>

\* After the callback: stop on an error or a request.
GenCheck(g) ==
  /\ pc[g] = "check"
  /\ \/ GenExit(g)
     \/ ~req /\ Goto(g, "wait") /\ UNCHANGED wint
  /\ UNCHANGED <<gcdVars, chanlock, dataVars, localVars>>

-----------------------------------------------------------------------------
Deactivating(p) ==
  \/ DeactivateTest(p) \/ DeactivateClaim(p) \/ DeactivateJoin(p)
  \/ DeactivateClean(p) \/ DeactivateFree(p)

Calling(t) == ActivateAlloc(t) \/ ActivateInstall(t) \/ InstallFails(t)

Generating(g) == GenStart(g) \/ GenWake(g) \/ GenWrite(g) \/ GenCheck(g)

Next ==
  \/ \E p \in Procs : Deactivating(p)
  \/ \E t \in Callers : \/ Activate(t) \/ Deactivate(t) \/ ReadNull(t)
                        \/ WriteInterrupts(t) \/ Calling(t)
  \/ \E g \in Gens : Generating(g)

Spec == Init /\ [][Next]_vars

\* Every thread that can take a step inside these functions takes one; nobody
\* has to call them.
FairSpec ==
  /\ Spec
  /\ \A p \in Procs : WF_vars(Deactivating(p))
  /\ \A t \in Callers : WF_vars(Calling(t))
  /\ \A g \in Gens : WF_vars(Generating(g))

-----------------------------------------------------------------------------
(* Properties *)

\* A generator thread never runs on data that was released under it, unless a
\* deactivation was overtaken.
DataInUse ==
  ~raced => \A g \in Gens : pc[g] \in {"wait", "generate", "check"} => cur[g] \notin released

\* No data is released twice, unless a deactivation was overtaken: of two that are
\* to release something, each has data of its own that nobody has released.
ReleasedOnce ==
  ~raced => \A p \in Procs : pc[p] = "free" =>
              /\ mydata[p] \notin released
              /\ \A q \in Procs \ {p} : pc[q] = "free" => mydata[q] # mydata[p]

\* There is never more than one generator thread on a channel, unless a
\* deactivation was overtaken.
OneGenerator ==
  ~raced => \A g, h \in Gens : {pc[g], pc[h]} \cap {"unborn", "done"} = {} => g = h

\* Whatever the callers do, an active generator has a thread that can be claimed or that
\* somebody is cleaning up after, so a thread that polls gen_is_active waits for someone;
\* and a generator thread that runs is never forgotten: it can be claimed, or somebody
\* waits for it to end.
ActiveHasOwner ==
  /\ active => pthread # None \/ \E p \in Procs : pc[p] \in {"join", "clean"}
  /\ \A g \in Gens : pc[g] \notin {"unborn", "done"} =>
       g = pthread \/ \E p \in Procs : pc[p] = "join" /\ thread[p] = g

\* cw_generator_deactivate returns.
DeactivateReturns ==
  \A p \in Procs : pc[p] \in {"test", "claim", "join"} ~> pc[p] \in {"idle", "check", "alloc"}
=============================================================================
