-------------------------- MODULE GeneratorProofs --------------------------
(***************************************************************************)
(* Proofs about module Generator: what the threads that use a channel and  *)
(* its generator threads do to the generator's data, for any number of     *)
(* callers, activations and generator threads.                             *)
(***************************************************************************)
EXTENDS Generator, TLAPS

Alive(g) == pc[g] \notin {"unborn", "done"}

\* A thread that has claimed a generator thread and not cleaned up after it.
Busy(p) == pc[p] \in {"join", "clean"}

\* Somebody waits for g, which they have claimed.
Joining(g) == \E p \in Procs : pc[p] = "join" /\ thread[p] = g

\* Somebody is to release gendata, now or later.
Held == pthread # None \/ \E p \in Procs : Busy(p)

\* A generator thread that runs can be claimed, or was claimed by one that waits for it.
Owned ==
  /\ \A g \in Gens : Alive(g) => g = pthread \/ Joining(g)
  /\ pthread # None => pc[pthread] # "unborn"
  /\ \A p \in Procs : Busy(p) => thread[p] # None
  /\ active => Held

\* A new allocation is new.
Allocated ==
  /\ released \subseteq 0..ndata /\ gendata <= ndata
  /\ \A p \in Procs : mydata[p] <= ndata
  /\ \A g \in Gens : cur[g] <= ndata

\* What follows holds until a deactivation is overtaken.

\* A generator thread that deactivates is one that somebody waits for, and claims nothing.
GensClaimNothing ==
  \A g \in Gens :
    /\ thread[g] = None
    /\ pc[g] \notin {"join", "clean", "free", "alloc", "install"}
    /\ pc[g] \in {"test", "claim"} => Joining(g)

\* One that has claimed is alone, and the generator stays active until it has cleaned up.
ClaimsAlone ==
  \A t \in Callers : Busy(t) =>
    /\ pthread = None /\ active /\ pc[thread[t]] \notin {"unborn", "new"}
    /\ \A u \in Callers \ {t} : pc[u] \notin {"join", "clean", "alloc", "install"}

\* gen_is_active tells whether the thread that can be claimed has begun.
ActiveTells == pthread # None => (active <=> pc[pthread] # "new")

\* What is yet to be released is not released, and is not in use or someone else's.
DataInv ==
  /\ Held => gendata \notin released
  /\ \A t \in Callers : pc[t] \in {"free", "install"} =>
       /\ mydata[t] \notin released
       /\ \A u \in Callers \ {t} : pc[u] \in {"free", "install"} => mydata[u] # mydata[t]
       /\ pc[t] = "install" \/ Held => mydata[t] # gendata
  /\ \A g \in Gens : pc[g] \in {"wait", "generate", "check", "test", "claim"} =>
       /\ cur[g] \notin released
       /\ \A t \in Callers : pc[t] \in {"free", "install"} => mydata[t] # cur[g]

Quiet == GensClaimNothing /\ ClaimsAlone /\ ActiveTells /\ DataInv

GenInv == TypeOK /\ Owned /\ Allocated /\ (~raced => Quiet)
-----------------------------------------------------------------------------
(* Types *)

FlagsOK == active \in BOOLEAN /\ req \in BOOLEAN /\ wint \in BOOLEAN /\ raced \in BOOLEAN

\* The flags are Boolean after every step.
LEMMA FlagsStep ==
  ASSUME TypeOK, [Next]_vars
  PROVE  FlagsOK'
<1>0. FlagsOK
  BY DEF TypeOK, FlagsOK
<1>1. ASSUME NEW p \in Procs, Deactivating(p)
      PROVE  FlagsOK'
  BY <1>0, <1>1, Zenon DEF Deactivating, DeactivateTest, DeactivateClaim, DeactivateJoin, DeactivateClean,
     DeactivateFree, gcdVars, chanVars, dataVars, FlagsOK
<1>2. ASSUME NEW t \in Callers,
             Activate(t) \/ Deactivate(t) \/ ReadNull(t) \/ WriteInterrupts(t) \/ Calling(t)
      PROVE  FlagsOK'
  BY <1>0, <1>2, Zenon DEF Activate, Deactivate, ReadNull, WriteInterrupts, StartDeactivate, Calling,
     ActivateAlloc, ActivateInstall, InstallFails, gcdVars, chanVars, dataVars, FlagsOK
<1>3. ASSUME NEW g \in Gens, Generating(g)
      PROVE  FlagsOK'
  BY <1>0, <1>3, Zenon DEF Generating, GenStart, GenWake, GenWrite, GenCheck, GenExit, gcdVars, chanVars, dataVars, FlagsOK
<1>4. CASE UNCHANGED vars
  BY <1>0, <1>4, Zenon DEF vars, gcdVars, chanVars, dataVars, FlagsOK
<1>5. QED BY <1>1, <1>2, <1>3, <1>4 DEF Next

Labels == {"idle", "test", "claim", "join", "clean", "free", "alloc",
           "install", "unborn", "new", "wait", "generate", "check", "done"}

\* The other variables.
RestOK ==
  /\ pthread \in Gens \cup {None} /\ gendata \in Data /\ chanlock \in Callers \cup {None}
  /\ pc \in [Procs -> Labels]
  /\ thread \in [Procs -> Gens \cup {None}] /\ mydata \in [Procs -> Data]
  /\ goal \in [Callers -> {"activate", "return"}]
  /\ cur \in [Gens -> Data] /\ ndata \in Data /\ released \subseteq Data

\* The other variables keep their types.
LEMMA RestStep ==
  ASSUME RestOK, [Next]_vars
  PROVE  RestOK'
<1> USE DEF RestOK, Procs, Goto
<1>1. ASSUME NEW p \in Procs, Deactivating(p) PROVE RestOK'
  <2>1. CASE DeactivateTest(p)
    BY <2>1 DEF DeactivateTest, Return, gcdVars, dataVars, Labels
  <2>2. CASE DeactivateClaim(p)
    BY <2>2 DEF DeactivateClaim, chanVars, dataVars, Labels
  <2>3. CASE DeactivateJoin(p)
    BY <2>3 DEF DeactivateJoin, gcdVars, chanVars, dataVars, localVars, Labels
  <2>4. CASE DeactivateClean(p)
    BY <2>4 DEF DeactivateClean, dataVars, Labels
  <2>5. CASE DeactivateFree(p)
    BY <2>5 DEF DeactivateFree, gcdVars, chanVars, localVars, Labels
  <2>6. QED BY <1>1, <2>1, <2>2, <2>3, <2>4, <2>5 DEF Deactivating
<1>2. ASSUME NEW t \in Callers,
             Activate(t) \/ Deactivate(t) \/ ReadNull(t) \/ WriteInterrupts(t)
      PROVE  RestOK'
  BY <1>2 DEF Activate, Deactivate, ReadNull, WriteInterrupts, StartDeactivate, gcdVars, dataVars, Labels
<1>3. ASSUME NEW t \in Callers, Calling(t) PROVE RestOK'
  <2>1. CASE ActivateAlloc(t)
    BY <2>1, GeneratorAssumption DEF ActivateAlloc, gcdVars, Data, Labels
  <2>2. CASE ActivateInstall(t)
    BY <2>2 DEF ActivateInstall, chanVars, dataVars, localVars, Labels
  <2>3. CASE InstallFails(t)
    BY <2>3 DEF InstallFails, gcdVars, chanVars, localVars, Labels
  <2>4. QED BY <1>3, <2>1, <2>2, <2>3 DEF Calling
<1>4. ASSUME NEW g \in Gens, Generating(g) PROVE RestOK'
  BY <1>4 DEF Generating, GenStart, GenWake, GenWrite, GenCheck, GenExit, gcdVars, chanVars,
     dataVars, localVars, Labels
<1>5. CASE UNCHANGED vars
  BY <1>5 DEF vars, gcdVars, chanVars, dataVars, localVars
<1>6. QED BY <1>1, <1>2, <1>3, <1>4, <1>5 DEF Next

\* The types hold at the start.
LEMMA InitTypes == Init => TypeOK
<1>1. Init => RestOK
  BY GeneratorAssumption DEF Init, RestOK, Data, Procs, Labels
<1>2. QED BY <1>1 DEF Init, RestOK, TypeOK, Labels

\* The control data of the generator and the locals of the threads that use it have
\* their types, whatever the threads do.
THEOREM GeneratorTypeCorrect == Spec => []TypeOK
<1>1. Init => TypeOK
  BY InitTypes
<1>2. TypeOK /\ [Next]_vars => TypeOK'
  BY FlagsStep, RestStep DEF TypeOK, FlagsOK, RestOK, Labels
<1>3. QED BY <1>1, <1>2, PTL DEF Spec
-----------------------------------------------------------------------------
(* Safety *)

\* One of the four operations that begin with cw_generator_deactivate.
Start(t) == \E then \in {"activate", "return"} : StartDeactivate(t, then)

\* What the steps below rely on: the types, in the form the provers use.
Facts ==
  /\ RestOK /\ Owned /\ Allocated /\ (~raced => Quiet)
  /\ None \notin Gens \cup Callers /\ Callers \cap Gens = {} /\ MaxData \in Nat

\* A step of cw_generator_deactivate.
LEMMA DeactivatingStep ==
  ASSUME Facts, NEW p \in Procs, Deactivating(p)
  PROVE  Owned' /\ Allocated' /\ (~raced' => Quiet')
<1> USE DEF Facts, RestOK, Procs, Goto, Labels, Busy
<1>1. CASE DeactivateTest(p)
  <2>1. Owned'
    BY <1>1 DEF DeactivateTest, Return, gcdVars, chanVars, dataVars, localVars, Owned, Alive, Joining, Held
  <2>2. Allocated'
    BY <1>1 DEF DeactivateTest, Return, gcdVars, chanVars, dataVars, localVars, Allocated, Data
  <2>3. ASSUME ~raced' PROVE Quiet'
    <3>0. Quiet
      BY <1>1, <2>3 DEF DeactivateTest, Return, gcdVars, chanVars, dataVars, localVars
    <3>1. GensClaimNothing'
      BY <1>1, <2>3, <3>0 DEF DeactivateTest, Return, gcdVars, chanVars, dataVars, localVars, Quiet, GensClaimNothing, ClaimsAlone, Owned, Alive, Joining
    <3>2. ClaimsAlone'
      BY <1>1, <2>3, <3>0 DEF DeactivateTest, Return, gcdVars, chanVars, dataVars, localVars, Quiet, GensClaimNothing, ClaimsAlone, ActiveTells, Owned
    <3>3. ActiveTells'
      BY <1>1, <2>3, <3>0 DEF DeactivateTest, Return, gcdVars, chanVars, dataVars, localVars, Quiet, GensClaimNothing, ClaimsAlone, ActiveTells, Owned, Held, Alive, Joining
    <3>4. DataInv'
      BY <1>1, <2>3, <3>0 DEF DeactivateTest, Return, gcdVars, chanVars, dataVars, localVars, Quiet, GensClaimNothing, ClaimsAlone, DataInv, Held, Allocated, Data
    <3>5. QED BY <3>1, <3>2, <3>3, <3>4 DEF Quiet
  <2>4. QED BY <2>1, <2>2, <2>3
<1>2. CASE DeactivateClaim(p)
  <2>1. Owned'
    BY <1>2 DEF DeactivateClaim, Overtaken, gcdVars, chanVars, dataVars, localVars, Owned, Alive, Joining, Held
  <2>2. Allocated'
    BY <1>2 DEF DeactivateClaim, Overtaken, gcdVars, chanVars, dataVars, localVars, Allocated, Data
  <2>3. ASSUME ~raced' PROVE Quiet'
    <3>0. Quiet
      BY <1>2, <2>3 DEF DeactivateClaim, Overtaken, gcdVars, chanVars, dataVars, localVars
    <3>1. GensClaimNothing'
      BY <1>2, <2>3, <3>0 DEF DeactivateClaim, Overtaken, gcdVars, chanVars, dataVars, localVars, Quiet, GensClaimNothing, ClaimsAlone, Owned, Alive, Joining
    <3>2. ClaimsAlone'
      <4>1. CASE pthread = None
        <5>1. thread[p] = None /\ pthread' = pthread /\ active' = active /\ thread' = thread
          BY <1>2, <2>3, <4>1 DEF DeactivateClaim, Overtaken
        <5>2. pc'[p] = "test" /\ pc[p] = "claim" /\ \A q \in Procs \ {p} : pc'[q] = pc[q]
          BY <1>2, <5>1 DEF DeactivateClaim
        <5>3. \A t \in Callers : Busy(t)' => Busy(t) /\ pc'[thread[t]] \notin {"unborn", "new"}
          BY <3>0, <5>2 DEF Quiet, ClaimsAlone, Owned
        <5>4. QED BY <3>0, <5>1, <5>2, <5>3 DEF Quiet, ClaimsAlone
      <4>2. CASE pthread # None
        <5>1. p \in Callers /\ active /\ pc[pthread] \notin {"unborn", "new"}
          BY <1>2, <2>3, <3>0, <4>2 DEF DeactivateClaim, Overtaken, Quiet, ActiveTells, Owned,
             GensClaimNothing, ClaimsAlone, Joining
        <5>2. \A t \in Callers : ~Busy(t) /\ (t # p => pc[t] \notin {"alloc", "install"})
          BY <1>2, <2>3, <3>0, <4>2, <5>1 DEF DeactivateClaim, Overtaken, Quiet, ClaimsAlone
        <5>3. pthread' = None /\ thread'[p] = pthread /\ pthread # p /\ pc'[p] = "join" /\ active' = active
          BY <1>2, <4>2, <5>1 DEF DeactivateClaim
        <5>4. \A q \in Procs \ {p} : pc'[q] = pc[q] /\ thread'[q] = thread[q]
          BY <1>2, <4>2 DEF DeactivateClaim
        <5>5. QED BY <4>2, <5>1, <5>2, <5>3, <5>4 DEF ClaimsAlone
      <4>3. QED BY <4>1, <4>2
    <3>3. ActiveTells'
      BY <1>2, <2>3, <3>0 DEF DeactivateClaim, Overtaken, gcdVars, chanVars, dataVars, localVars, Quiet, GensClaimNothing, ClaimsAlone, ActiveTells, Owned, Held, Alive, Joining
    <3>4. DataInv'
      BY <1>2, <2>3, <3>0 DEF DeactivateClaim, Overtaken, gcdVars, chanVars, dataVars, localVars, Quiet, GensClaimNothing, ClaimsAlone, DataInv, Held, Allocated, Data
    <3>5. QED BY <3>1, <3>2, <3>3, <3>4 DEF Quiet
  <2>4. QED BY <2>1, <2>2, <2>3
<1>3. CASE DeactivateJoin(p)
  <2>1. Owned'
    BY <1>3 DEF DeactivateJoin, gcdVars, chanVars, dataVars, localVars, Owned, Alive, Joining, Held
  <2>2. Allocated'
    BY <1>3 DEF DeactivateJoin, gcdVars, chanVars, dataVars, localVars, Allocated, Data
  <2>3. ASSUME ~raced' PROVE Quiet'
    <3>0. Quiet
      BY <1>3, <2>3 DEF DeactivateJoin, gcdVars, chanVars, dataVars, localVars
    <3>1. GensClaimNothing'
      BY <1>3, <2>3, <3>0 DEF DeactivateJoin, gcdVars, chanVars, dataVars, localVars, Quiet, GensClaimNothing, ClaimsAlone, Owned, Alive, Joining
    <3>2. ClaimsAlone'
      BY <1>3, <2>3, <3>0 DEF DeactivateJoin, gcdVars, chanVars, dataVars, localVars, Quiet, GensClaimNothing, ClaimsAlone, ActiveTells, Owned
    <3>3. ActiveTells'
      BY <1>3, <2>3, <3>0 DEF DeactivateJoin, gcdVars, chanVars, dataVars, localVars, Quiet, GensClaimNothing, ClaimsAlone, ActiveTells, Owned, Held, Alive, Joining
    <3>4. DataInv'
      BY <1>3, <2>3, <3>0 DEF DeactivateJoin, gcdVars, chanVars, dataVars, localVars, Quiet, GensClaimNothing, ClaimsAlone, DataInv, Held, Allocated, Data
    <3>5. QED BY <3>1, <3>2, <3>3, <3>4 DEF Quiet
  <2>4. QED BY <2>1, <2>2, <2>3
<1>4. CASE DeactivateClean(p)
  <2>1. Owned'
    BY <1>4 DEF DeactivateClean, gcdVars, chanVars, dataVars, localVars, Owned, Alive, Joining, Held
  <2>2. Allocated'
    BY <1>4 DEF DeactivateClean, gcdVars, chanVars, dataVars, localVars, Allocated, Data
  <2>3. ASSUME ~raced' PROVE Quiet'
    <3>0. Quiet
      BY <1>4, <2>3 DEF DeactivateClean, gcdVars, chanVars, dataVars, localVars
    <3>1. GensClaimNothing'
      BY <1>4, <2>3, <3>0 DEF DeactivateClean, gcdVars, chanVars, dataVars, localVars, Quiet, GensClaimNothing, ClaimsAlone, Owned, Alive, Joining
    <3>2. ClaimsAlone'
      BY <1>4, <2>3, <3>0 DEF DeactivateClean, gcdVars, chanVars, dataVars, localVars, Quiet, GensClaimNothing, ClaimsAlone, ActiveTells, Owned
    <3>3. ActiveTells'
      BY <1>4, <2>3, <3>0 DEF DeactivateClean, gcdVars, chanVars, dataVars, localVars, Quiet, GensClaimNothing, ClaimsAlone, ActiveTells, Owned, Held, Alive, Joining
    <3>4. DataInv'
      <4>1. p \in Callers /\ Busy(p) /\ Held
        BY <1>4, <3>0 DEF DeactivateClean, Quiet, GensClaimNothing, Held
      <4>2. \A u \in Callers \ {p} : pc[u] \notin {"join", "clean", "alloc", "install"}
        BY <3>0, <4>1 DEF Quiet, ClaimsAlone
      <4>3. \A g \in Gens : pc[g] \in {"unborn", "done"} /\ pc'[g] = pc[g]
        BY <1>4, <3>0, <4>1, <4>2 DEF DeactivateClean, Quiet, GensClaimNothing, ClaimsAlone, Owned, Alive, Joining
      <4>4. ~Held'
        BY <1>4, <3>0, <4>1, <4>2, <4>3 DEF DeactivateClean, Held, Quiet, ClaimsAlone
      <4>5. mydata'[p] = gendata /\ pc'[p] = "free" /\ UNCHANGED <<released, gendata, cur>>
        BY <1>4 DEF DeactivateClean, gcdVars, chanVars, dataVars, localVars
      <4>6. \A u \in Callers \ {p} : pc'[u] = pc[u] /\ mydata'[u] = mydata[u]
        BY <1>4 DEF DeactivateClean
      <4>7. gendata \notin released /\ \A u \in Callers \ {p} : pc[u] \in {"free", "install"} => mydata[u] # gendata
        BY <3>0, <4>1 DEF Quiet, DataInv
      <4>8. QED BY <3>0, <4>1, <4>2, <4>3, <4>4, <4>5, <4>6, <4>7 DEF Quiet, DataInv
    <3>5. QED BY <3>1, <3>2, <3>3, <3>4 DEF Quiet
  <2>4. QED BY <2>1, <2>2, <2>3
<1>5. CASE DeactivateFree(p)
  <2>1. Owned'
    BY <1>5 DEF DeactivateFree, gcdVars, chanVars, dataVars, localVars, Owned, Alive, Joining, Held
  <2>2. Allocated'
    <3>1. ndata \in Nat /\ mydata[p] \in Nat /\ mydata[p] <= ndata
      BY DEF Allocated, Data
    <3>2. mydata[p] \in 0..ndata
      BY <3>1
    <3>3. released' = released \cup {mydata[p]} /\ UNCHANGED <<ndata, gendata, mydata, cur>>
      BY <1>5 DEF DeactivateFree, gcdVars, chanVars, dataVars, localVars
    <3>4. QED BY <3>2, <3>3 DEF Allocated
  <2>3. ASSUME ~raced' PROVE Quiet'
    <3>0. Quiet
      BY <1>5, <2>3 DEF DeactivateFree, gcdVars, chanVars, dataVars, localVars
    <3>1. GensClaimNothing'
      BY <1>5, <2>3, <3>0 DEF DeactivateFree, gcdVars, chanVars, dataVars, localVars, Quiet, GensClaimNothing, ClaimsAlone, Owned, Alive, Joining
    <3>2. ClaimsAlone'
      BY <1>5, <2>3, <3>0 DEF DeactivateFree, gcdVars, chanVars, dataVars, localVars, Quiet, GensClaimNothing, ClaimsAlone, ActiveTells, Owned
    <3>3. ActiveTells'
      BY <1>5, <2>3, <3>0 DEF DeactivateFree, gcdVars, chanVars, dataVars, localVars, Quiet, GensClaimNothing, ClaimsAlone, ActiveTells, Owned, Held, Alive, Joining
    <3>4. DataInv'
      BY <1>5, <2>3, <3>0 DEF DeactivateFree, gcdVars, chanVars, dataVars, localVars, Quiet, GensClaimNothing, ClaimsAlone, DataInv, Held, Allocated, Data
    <3>5. QED BY <3>1, <3>2, <3>3, <3>4 DEF Quiet
  <2>4. QED BY <2>1, <2>2, <2>3
<1>6. QED BY <1>1, <1>2, <1>3, <1>4, <1>5 DEF Deactivating

\* A step of cw_generator_activate, or the beginning of a call.
LEMMA CallingStep ==
  ASSUME Facts, NEW t \in Callers, Start(t) \/ Calling(t)
  PROVE  Owned' /\ Allocated' /\ (~raced' => Quiet')
<1> USE DEF Facts, RestOK, Procs, Goto, Labels, Busy
<1>1. CASE Start(t)
  <2>1. Owned'
    BY <1>1 DEF Start, StartDeactivate, gcdVars, chanVars, dataVars, localVars, Owned, Alive, Joining, Held
  <2>2. Allocated'
    BY <1>1 DEF Start, StartDeactivate, gcdVars, chanVars, dataVars, localVars, Allocated, Data
  <2>3. ASSUME ~raced' PROVE Quiet'
    <3>0. Quiet
      BY <1>1, <2>3 DEF Start, StartDeactivate, gcdVars, chanVars, dataVars, localVars
    <3>1. GensClaimNothing'
      BY <1>1, <2>3, <3>0 DEF Start, StartDeactivate, gcdVars, chanVars, dataVars, localVars, Quiet, GensClaimNothing, ClaimsAlone, Owned, Alive, Joining
    <3>2. ClaimsAlone'
      BY <1>1, <2>3, <3>0 DEF Start, StartDeactivate, gcdVars, chanVars, dataVars, localVars, Quiet, GensClaimNothing, ClaimsAlone, ActiveTells, Owned
    <3>3. ActiveTells'
      BY <1>1, <2>3, <3>0 DEF Start, StartDeactivate, gcdVars, chanVars, dataVars, localVars, Quiet, GensClaimNothing, ClaimsAlone, ActiveTells, Owned, Held, Alive, Joining
    <3>4. DataInv'
      BY <1>1, <2>3, <3>0 DEF Start, StartDeactivate, gcdVars, chanVars, dataVars, localVars, Quiet, GensClaimNothing, ClaimsAlone, DataInv, Held, Allocated, Data
    <3>5. QED BY <3>1, <3>2, <3>3, <3>4 DEF Quiet
  <2>4. QED BY <2>1, <2>2, <2>3
<1>2. CASE ActivateAlloc(t)
  <2>1. Owned'
    BY <1>2 DEF ActivateAlloc, gcdVars, chanVars, dataVars, localVars, Owned, Alive, Joining, Held
  <2>2. Allocated'
    BY <1>2 DEF ActivateAlloc, gcdVars, chanVars, dataVars, localVars, Allocated, Data
  <2>3. ASSUME ~raced' PROVE Quiet'
    <3>0. Quiet
      BY <1>2, <2>3 DEF ActivateAlloc, gcdVars, chanVars, dataVars, localVars
    <3>1. GensClaimNothing'
      BY <1>2, <2>3, <3>0 DEF ActivateAlloc, gcdVars, chanVars, dataVars, localVars, Quiet, GensClaimNothing, ClaimsAlone, Owned, Alive, Joining
    <3>2. ClaimsAlone'
      BY <1>2, <2>3, <3>0 DEF ActivateAlloc, gcdVars, chanVars, dataVars, localVars, Quiet, GensClaimNothing, ClaimsAlone, ActiveTells, Owned
    <3>3. ActiveTells'
      BY <1>2, <2>3, <3>0 DEF ActivateAlloc, gcdVars, chanVars, dataVars, localVars, Quiet, GensClaimNothing, ClaimsAlone, ActiveTells, Owned, Held, Alive, Joining
    <3>4. DataInv'
      BY <1>2, <2>3, <3>0 DEF ActivateAlloc, gcdVars, chanVars, dataVars, localVars, Quiet, GensClaimNothing, ClaimsAlone, DataInv, Held, Allocated, Data
    <3>5. QED BY <3>1, <3>2, <3>3, <3>4 DEF Quiet
  <2>4. QED BY <2>1, <2>2, <2>3
<1>3. CASE ActivateInstall(t)
  <2>1. Owned'
    BY <1>3 DEF ActivateInstall, Running, gcdVars, chanVars, dataVars, localVars, Owned, Alive, Joining, Held
  <2>2. Allocated'
    BY <1>3 DEF ActivateInstall, Running, gcdVars, chanVars, dataVars, localVars, Allocated, Data
  <2>3. ASSUME ~raced' PROVE Quiet'
    <3>0. Quiet
      BY <1>3, <2>3 DEF ActivateInstall, Running, gcdVars, chanVars, dataVars, localVars
    <3>1. GensClaimNothing'
      BY <1>3, <2>3, <3>0 DEF ActivateInstall, Running, gcdVars, chanVars, dataVars, localVars, Quiet, GensClaimNothing, ClaimsAlone, Owned, Alive, Joining
    <3>2. ClaimsAlone'
      BY <1>3, <2>3, <3>0 DEF ActivateInstall, Running, gcdVars, chanVars, dataVars, localVars, Quiet, GensClaimNothing, ClaimsAlone, ActiveTells, Owned
    <3>3. ActiveTells'
      BY <1>3, <2>3, <3>0 DEF ActivateInstall, Running, gcdVars, chanVars, dataVars, localVars, Quiet, GensClaimNothing, ClaimsAlone, ActiveTells, Owned, Held, Alive, Joining
    <3>4. DataInv'
      BY <1>3, <2>3, <3>0 DEF ActivateInstall, Running, gcdVars, chanVars, dataVars, localVars, Quiet, GensClaimNothing, ClaimsAlone, DataInv, Held, Allocated, Data
    <3>5. QED BY <3>1, <3>2, <3>3, <3>4 DEF Quiet
  <2>4. QED BY <2>1, <2>2, <2>3
<1>4. CASE InstallFails(t)
  <2>1. Owned'
    BY <1>4 DEF InstallFails, Running, gcdVars, chanVars, dataVars, localVars, Owned, Alive, Joining, Held
  <2>2. Allocated'
    <3>1. ndata \in Nat /\ mydata[t] \in Nat /\ mydata[t] <= ndata
      BY DEF Allocated, Data
    <3>2. mydata[t] \in 0..ndata
      BY <3>1
    <3>3. released' = released \cup {mydata[t]} /\ UNCHANGED <<ndata, gendata, mydata, cur>>
      BY <1>4 DEF InstallFails, gcdVars, chanVars, dataVars, localVars
    <3>4. QED BY <3>2, <3>3 DEF Allocated
  <2>3. ASSUME ~raced' PROVE Quiet'
    <3>0. Quiet
      BY <1>4, <2>3 DEF InstallFails, Running, gcdVars, chanVars, dataVars, localVars
    <3>1. GensClaimNothing'
      BY <1>4, <2>3, <3>0 DEF InstallFails, Running, gcdVars, chanVars, dataVars, localVars, Quiet, GensClaimNothing, ClaimsAlone, Owned, Alive, Joining
    <3>2. ClaimsAlone'
      BY <1>4, <2>3, <3>0 DEF InstallFails, Running, gcdVars, chanVars, dataVars, localVars, Quiet, GensClaimNothing, ClaimsAlone, ActiveTells, Owned
    <3>3. ActiveTells'
      BY <1>4, <2>3, <3>0 DEF InstallFails, Running, gcdVars, chanVars, dataVars, localVars, Quiet, GensClaimNothing, ClaimsAlone, ActiveTells, Owned, Held, Alive, Joining
    <3>4. DataInv'
      BY <1>4, <2>3, <3>0 DEF InstallFails, Running, gcdVars, chanVars, dataVars, localVars, Quiet, GensClaimNothing, ClaimsAlone, DataInv, Held, Allocated, Data
    <3>5. QED BY <3>1, <3>2, <3>3, <3>4 DEF Quiet
  <2>4. QED BY <2>1, <2>2, <2>3
<1>5. QED BY <1>1, <1>2, <1>3, <1>4 DEF Calling

\* A step of a generator thread.
LEMMA GeneratingStep ==
  ASSUME Facts, NEW g \in Gens, Generating(g)
  PROVE  Owned' /\ Allocated' /\ (~raced' => Quiet')
<1> USE DEF Facts, RestOK, Procs, Goto, Labels, Busy
<1>1. CASE GenStart(g)
  <2>1. Owned'
    BY <1>1 DEF GenStart, gcdVars, chanVars, dataVars, localVars, Owned, Alive, Joining, Held
  <2>2. Allocated'
    BY <1>1 DEF GenStart, gcdVars, chanVars, dataVars, localVars, Allocated, Data
  <2>3. ASSUME ~raced' PROVE Quiet'
    <3>0. Quiet
      BY <1>1, <2>3 DEF GenStart, gcdVars, chanVars, dataVars, localVars
    <3>1. GensClaimNothing'
      BY <1>1, <2>3, <3>0 DEF GenStart, gcdVars, chanVars, dataVars, localVars, Quiet, GensClaimNothing, ClaimsAlone, Owned, Alive, Joining
    <3>2. ClaimsAlone'
      BY <1>1, <2>3, <3>0 DEF GenStart, gcdVars, chanVars, dataVars, localVars, Quiet, GensClaimNothing, ClaimsAlone, ActiveTells, Owned
    <3>3. ActiveTells'
      BY <1>1, <2>3, <3>0 DEF GenStart, gcdVars, chanVars, dataVars, localVars, Quiet, GensClaimNothing, ClaimsAlone, ActiveTells, Owned, Held, Alive, Joining
    <3>4. DataInv'
      <4>1. pthread = g
        BY <1>1, <3>0 DEF GenStart, Quiet, ClaimsAlone, GensClaimNothing, Owned, Alive, Joining
      <4>2. Held /\ Held'
        BY <1>1, <4>1 DEF GenStart, Held
      <4>3. cur'[g] = gendata /\ UNCHANGED <<released, gendata, mydata>> /\ pc'[g] = "wait"
        BY <1>1 DEF GenStart, gcdVars, chanVars, dataVars, localVars
      <4>4. \A t \in Callers : pc'[t] = pc[t]
        BY <1>1 DEF GenStart
      <4>5. \A h \in Gens \ {g} : pc'[h] = pc[h] /\ cur'[h] = cur[h]
        BY <1>1 DEF GenStart
      <4>6. QED BY <3>0, <4>2, <4>3, <4>4, <4>5 DEF Quiet, DataInv
    <3>5. QED BY <3>1, <3>2, <3>3, <3>4 DEF Quiet
  <2>4. QED BY <2>1, <2>2, <2>3
<1>2. CASE GenWake(g)
  <2>1. Owned'
    BY <1>2 DEF GenWake, GenExit, gcdVars, chanVars, dataVars, localVars, Owned, Alive, Joining, Held
  <2>2. Allocated'
    BY <1>2 DEF GenWake, GenExit, gcdVars, chanVars, dataVars, localVars, Allocated, Data
  <2>3. ASSUME ~raced' PROVE Quiet'
    <3>0. Quiet
      BY <1>2, <2>3 DEF GenWake, GenExit, gcdVars, chanVars, dataVars, localVars
    <3>1. GensClaimNothing'
      BY <1>2, <2>3, <3>0 DEF GenWake, GenExit, gcdVars, chanVars, dataVars, localVars, Quiet, GensClaimNothing, ClaimsAlone, Owned, Alive, Joining
    <3>2. ClaimsAlone'
      BY <1>2, <2>3, <3>0 DEF GenWake, GenExit, gcdVars, chanVars, dataVars, localVars, Quiet, GensClaimNothing, ClaimsAlone, ActiveTells, Owned
    <3>3. ActiveTells'
      BY <1>2, <2>3, <3>0 DEF GenWake, GenExit, gcdVars, chanVars, dataVars, localVars, Quiet, GensClaimNothing, ClaimsAlone, ActiveTells, Owned, Held, Alive, Joining
    <3>4. DataInv'
      BY <1>2, <2>3, <3>0 DEF GenWake, GenExit, gcdVars, chanVars, dataVars, localVars, Quiet, GensClaimNothing, ClaimsAlone, DataInv, Held, Allocated, Data
    <3>5. QED BY <3>1, <3>2, <3>3, <3>4 DEF Quiet
  <2>4. QED BY <2>1, <2>2, <2>3
<1>3. CASE GenWrite(g)
  <2>1. Owned'
    BY <1>3 DEF GenWrite, gcdVars, chanVars, dataVars, localVars, Owned, Alive, Joining, Held
  <2>2. Allocated'
    BY <1>3 DEF GenWrite, gcdVars, chanVars, dataVars, localVars, Allocated, Data
  <2>3. ASSUME ~raced' PROVE Quiet'
    <3>0. Quiet
      BY <1>3, <2>3 DEF GenWrite, gcdVars, chanVars, dataVars, localVars
    <3>1. GensClaimNothing'
      BY <1>3, <2>3, <3>0 DEF GenWrite, gcdVars, chanVars, dataVars, localVars, Quiet, GensClaimNothing, ClaimsAlone, Owned, Alive, Joining
    <3>2. ClaimsAlone'
      BY <1>3, <2>3, <3>0 DEF GenWrite, gcdVars, chanVars, dataVars, localVars, Quiet, GensClaimNothing, ClaimsAlone, ActiveTells, Owned
    <3>3. ActiveTells'
      BY <1>3, <2>3, <3>0 DEF GenWrite, gcdVars, chanVars, dataVars, localVars, Quiet, GensClaimNothing, ClaimsAlone, ActiveTells, Owned, Held, Alive, Joining
    <3>4. DataInv'
      BY <1>3, <2>3, <3>0 DEF GenWrite, gcdVars, chanVars, dataVars, localVars, Quiet, GensClaimNothing, ClaimsAlone, DataInv, Held, Allocated, Data
    <3>5. QED BY <3>1, <3>2, <3>3, <3>4 DEF Quiet
  <2>4. QED BY <2>1, <2>2, <2>3
<1>4. CASE GenCheck(g)
  <2>1. Owned'
    BY <1>4 DEF GenCheck, GenExit, gcdVars, chanVars, dataVars, localVars, Owned, Alive, Joining, Held
  <2>2. Allocated'
    BY <1>4 DEF GenCheck, GenExit, gcdVars, chanVars, dataVars, localVars, Allocated, Data
  <2>3. ASSUME ~raced' PROVE Quiet'
    <3>0. Quiet
      BY <1>4, <2>3 DEF GenCheck, GenExit, gcdVars, chanVars, dataVars, localVars
    <3>1. GensClaimNothing'
      BY <1>4, <2>3, <3>0 DEF GenCheck, GenExit, gcdVars, chanVars, dataVars, localVars, Quiet, GensClaimNothing, ClaimsAlone, Owned, Alive, Joining
    <3>2. ClaimsAlone'
      BY <1>4, <2>3, <3>0 DEF GenCheck, GenExit, gcdVars, chanVars, dataVars, localVars, Quiet, GensClaimNothing, ClaimsAlone, ActiveTells, Owned
    <3>3. ActiveTells'
      BY <1>4, <2>3, <3>0 DEF GenCheck, GenExit, gcdVars, chanVars, dataVars, localVars, Quiet, GensClaimNothing, ClaimsAlone, ActiveTells, Owned, Held, Alive, Joining
    <3>4. DataInv'
      BY <1>4, <2>3, <3>0 DEF GenCheck, GenExit, gcdVars, chanVars, dataVars, localVars, Quiet, GensClaimNothing, ClaimsAlone, DataInv, Held, Allocated, Data
    <3>5. QED BY <3>1, <3>2, <3>3, <3>4 DEF Quiet
  <2>4. QED BY <2>1, <2>2, <2>3
<1>5. QED BY <1>1, <1>2, <1>3, <1>4 DEF Generating

\* Every step keeps the invariant.
LEMMA InvStep ==
  ASSUME GenInv, [Next]_vars
  PROVE  GenInv'
<1>1. TypeOK'
  BY FlagsStep, RestStep DEF GenInv, TypeOK, FlagsOK, RestOK, Labels
<1>2. Facts
  BY GeneratorAssumption DEF Facts, GenInv, TypeOK, RestOK, Labels
<1>3. Owned' /\ Allocated' /\ (~raced' => Quiet')
  <2>1. ASSUME NEW t \in Callers,
               Activate(t) \/ Deactivate(t) \/ ReadNull(t) \/ WriteInterrupts(t)
        PROVE  Start(t)
    BY <2>1 DEF Activate, Deactivate, ReadNull, WriteInterrupts, Start
  <2>2. CASE UNCHANGED vars
    BY <1>2, <2>2 DEF Facts, vars, gcdVars, chanVars, dataVars, localVars, Owned, Allocated, Quiet,
       GensClaimNothing, ClaimsAlone, ActiveTells, DataInv, Alive, Busy, Joining, Held
  <2>3. QED BY <1>2, <2>1, <2>2, DeactivatingStep, CallingStep, GeneratingStep DEF Next
<1>4. QED BY <1>1, <1>3 DEF GenInv

\* The inductive invariant holds in every reachable state.
LEMMA InvCorrect == Spec => []GenInv
<1>1. Init => GenInv
  <2>1. Init => TypeOK
    BY InitTypes
  <2>2. Init => Owned /\ Allocated /\ Quiet
    BY GeneratorAssumption DEF Init, Owned, Allocated, Quiet, GensClaimNothing, ClaimsAlone, ActiveTells,
       DataInv, Alive, Busy, Joining, Held, Procs
  <2>3. QED BY <2>1, <2>2 DEF GenInv
<1>2. GenInv /\ [Next]_vars => GenInv'
  BY InvStep
<1>3. QED BY <1>1, <1>2, PTL DEF Spec

\* A generator thread never runs on data that was released under it, however many threads
\* deactivate: a release waits for the thread (pthread_join), and until gen_is_active is
\* cleared nobody installs other data. Only an overtaken deactivation is excepted.
THEOREM DataInUseCorrect == Spec => []DataInUse
<1>1. GenInv => DataInUse
  BY DEF GenInv, Quiet, DataInv, DataInUse
<1>2. QED BY <1>1, InvCorrect, PTL

\* gen->release is called at most once for what gen->alloc returned, by any number of
\* threads that activate and deactivate, unless a deactivation is overtaken.
THEOREM ReleasedOnceCorrect == Spec => []ReleasedOnce
<1>1. GenInv => ReleasedOnce
  BY DEF GenInv, Quiet, GensClaimNothing, DataInv, ReleasedOnce, Procs
<1>2. QED BY <1>1, InvCorrect, PTL

\* A channel never has two generator threads, although one that was claimed goes on
\* until it sees the request, unless a deactivation is overtaken.
THEOREM OneGeneratorCorrect == Spec => []OneGenerator
<1>1. GenInv => OneGenerator
  <2> SUFFICES ASSUME GenInv, ~raced, NEW g \in Gens, NEW h \in Gens, Alive(g), Alive(h)
               PROVE  g = h
    BY DEF OneGenerator, Alive
  <2>1. \A p \in Procs : Busy(p) => p \in Callers /\ pthread = None
    BY DEF GenInv, Quiet, GensClaimNothing, ClaimsAlone, Busy, Procs
  <2>2. \A p, q \in Procs : Busy(p) /\ Busy(q) => p = q
    BY <2>1 DEF GenInv, Quiet, ClaimsAlone, Busy
  <2>3. (g = pthread \/ Joining(g)) /\ (h = pthread \/ Joining(h))
    BY DEF GenInv, Owned
  <2>4. QED BY <2>1, <2>2, <2>3, GeneratorAssumption DEF Joining, Busy
<1>2. QED BY <1>1, InvCorrect, PTL

\* While gen_is_active is set there is a thread to claim, or somebody who will reset
\* it, so the loop of cw_generator_deactivate never polls for nobody; and no generator thread
\* is forgotten while it runs. This holds for any number of callers, overtaken or not.
THEOREM ActiveHasOwnerCorrect == Spec => []ActiveHasOwner
<1>1. GenInv => ActiveHasOwner
  BY DEF GenInv, Owned, Held, Busy, Alive, Joining, ActiveHasOwner
<1>2. QED BY <1>1, InvCorrect, PTL
-----------------------------------------------------------------------------
(* One caller *)

Alone == \A s, t \in Callers : s = t

\* A thread that is the only one to use the channel, between its test of
\* gen_is_active and the lock, finds what it tested.
ClaimSound == \A t \in Callers : pc[t] = "claim" => active /\ pthread # None

\* On a channel that one thread activates, deactivates, reads and writes, no
\* deactivation is overtaken, so the three properties above hold of it without exception.
THEOREM AloneNeverOvertaken == ASSUME Alone PROVE Spec => []~raced
<1>1. Init => ~raced /\ ClaimSound
  BY GeneratorAssumption DEF Init, ClaimSound, Procs
<1>2. GenInv /\ ~raced /\ ClaimSound /\ [Next]_vars => ~raced' /\ ClaimSound'
  <2> SUFFICES ASSUME GenInv, ~raced, ClaimSound, [Next]_vars
               PROVE  ~raced' /\ ClaimSound'
    OBVIOUS
  <2>0. Quiet /\ Owned /\ Facts
    BY GeneratorAssumption DEF GenInv, Facts, TypeOK, RestOK, Labels
  <2> USE DEF Facts, RestOK, Procs, Goto, Labels, Busy
  <2>1. ASSUME NEW p \in Procs, Deactivating(p) PROVE ~raced' /\ ClaimSound'
    <3>1. CASE DeactivateTest(p)
      <4>1. \A t \in Callers : pc[t] = "test" /\ active => pthread # None
        BY <2>0, Alone DEF Alone, Owned, Held, Quiet, GensClaimNothing
      <4>2. QED BY <2>0, <3>1, <4>1 DEF DeactivateTest, Return, ClaimSound, gcdVars, dataVars
    <3>2. CASE DeactivateClaim(p)
      <4>1. CASE p \in Callers
        <5>1. ~Overtaken(p)
          BY <2>0, <3>2, <4>1, Alone DEF DeactivateClaim, Alone, ClaimSound, Overtaken, Quiet, ActiveTells
        <5>2. QED BY <2>0, <3>2, <4>1, <5>1, Alone DEF DeactivateClaim, Alone, ClaimSound
      <4>2. CASE p \in Gens
        <5>1. pthread = None /\ thread[p] = None
          BY <2>0, <3>2, <4>2 DEF DeactivateClaim, Quiet, GensClaimNothing, ClaimsAlone, Joining
        <5>2. QED BY <2>0, <3>2, <4>2, <5>1 DEF DeactivateClaim, Overtaken, ClaimSound
      <4>3. QED BY <4>1, <4>2
    <3>3. CASE DeactivateJoin(p)
      BY <2>0, <3>3 DEF DeactivateJoin, ClaimSound, gcdVars, dataVars
    <3>4. CASE DeactivateClean(p)
      BY <2>0, <3>4, Alone DEF DeactivateClean, Alone, ClaimSound, dataVars, Quiet, GensClaimNothing
    <3>5. CASE DeactivateFree(p)
      BY <2>0, <3>5 DEF DeactivateFree, ClaimSound, gcdVars
    <3>6. QED BY <2>1, <3>1, <3>2, <3>3, <3>4, <3>5 DEF Deactivating
  <2>2. ASSUME NEW t \in Callers, Activate(t) \/ Deactivate(t) \/ ReadNull(t) \/ WriteInterrupts(t)
        PROVE  ~raced' /\ ClaimSound'
    BY <2>0, <2>2 DEF Activate, Deactivate, ReadNull, WriteInterrupts, StartDeactivate, ClaimSound, gcdVars, dataVars
  <2>3. ASSUME NEW t \in Callers, Calling(t) PROVE ~raced' /\ ClaimSound'
    BY <2>0, <2>3, Alone DEF Alone, Calling, ActivateAlloc, ActivateInstall, InstallFails, ClaimSound, gcdVars, dataVars
  <2>4. ASSUME NEW g \in Gens, Generating(g) PROVE ~raced' /\ ClaimSound'
    BY <2>0, <2>4 DEF Generating, GenStart, GenWake, GenWrite, GenCheck, GenExit, ClaimSound, gcdVars, dataVars
  <2>5. CASE UNCHANGED vars
    BY <2>5 DEF vars, gcdVars, dataVars, ClaimSound
  <2>6. QED BY <2>1, <2>2, <2>3, <2>4, <2>5 DEF Next
<1>3. QED BY <1>1, <1>2, InvCorrect, PTL DEF Spec
=============================================================================
