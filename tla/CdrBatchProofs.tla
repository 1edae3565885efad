-------------------------- MODULE CdrBatchProofs --------------------------
(***************************************************************************)
(* Proofs about module CdrBatch: no record is lost or posted twice, for    *)
(* any threads, records and batch sizes and any number of reloads; and     *)
(* CdrBatch implements CdrLog.                                             *)
(***************************************************************************)
EXTENDS CdrBatch, FiniteSetTheorems, TLAPS

-----------------------------------------------------------------------------
(* Types *)

\* The flags are Boolean after every step.
LEMMA FlagsStep ==
  ASSUME TypeOK, [Next]_vars
  PROVE  /\ enabled' \in BOOLEAN /\ batchmode' \in BOOLEAN
         /\ cli' \in BOOLEAN /\ batchlock' \in BOOLEAN
<1> DEFINE Flags == /\ enabled \in BOOLEAN /\ batchmode \in BOOLEAN
                    /\ cli \in BOOLEAN /\ batchlock \in BOOLEAN
<1> USE DEF confVars, reloadVars
<1>0. Flags
  BY DEF TypeOK
<1>1. ASSUME NEW t \in Threads, CliSubmit(t) \/ Caller(t) \/ \E c \in Cdrs : Detach(t, c)
      PROVE  Flags'
  BY <1>0, <1>1, Zenon DEF CliSubmit, Caller, AppendItem, ReadSched, DelSched, AddSched, NoteSched, Detach
<1>2. CASE Service \/ cw_cdr_engine_term \/ Submitting("term") \/ PostDetached
  BY <1>0, <1>2, Zenon DEF Service, Fire, Submitting, SubmitTake, do_batch_backend_process, Rearm,
     cw_cdr_engine_term, PostDetached
<1>3. CASE ReloadBegin \/ Reload
  BY <1>0, <1>3, Zenon DEF ReloadBegin, Reload, ReloadDel, ReloadLoad, ReloadAdd
<1>4. CASE UNCHANGED vars
  BY <1>0, <1>4, Zenon DEF vars
<1>5. QED BY <1>1, <1>2, <1>3, <1>4 DEF Next

\* The places of the threads, the timers and the counters.
ControlOK ==
  /\ batchsize \in Nat
  /\ timers \subseteq Nat \ {0} /\ IsFiniteSet(timers) /\ cdr_sched \in Nat
  /\ pc \in [Threads -> {"idle", "append", "submit", "del", "add", "note"}]
  /\ old \in [Threads -> Nat]
  /\ svc \in {"wait", "take", "post", "rearm"} /\ term \in {"run", "take", "post"}
  /\ reload \in {"idle", "del", "load", "add"} /\ reloads \in Nat /\ submits \in Nat

\* A new event gets an id that is in use nowhere.
LEMMA NewIdFresh ==
  ASSUME ControlOK
  PROVE  NewId \in Nat \ {0} /\ NewId \notin Known
<1> DEFINE olds == {old[t] : t \in Threads}
           n    == Cardinality(Known)
<1>1. IsFiniteSet(olds)
  <2>1. old \in Surjection(Threads, olds)
    BY DEF ControlOK, Surjection
  <2>2. QED BY <2>1, CdrAssumption, FS_Surjection
<1>2. IsFiniteSet(Known)
  <2>1. IsFiniteSet(timers)
    BY DEF ControlOK
  <2>2. IsFiniteSet({NoEvent, cdr_sched})
    <3>1. IsFiniteSet({NoEvent})
      BY FS_Singleton, Zenon
    <3>2. IsFiniteSet({NoEvent} \cup {cdr_sched})
      BY <3>1, FS_AddElement
    <3>3. {NoEvent} \cup {cdr_sched} = {NoEvent, cdr_sched}
      OBVIOUS
    <3>4. QED BY <3>2, <3>3
  <2>3. IsFiniteSet(timers \cup {NoEvent, cdr_sched})
    BY <2>1, <2>2, FS_Union, Zenon
  <2>4. QED BY <1>1, <2>3, FS_Union, Zenon DEF Known
<1>3. n \in Nat
  BY <1>2, FS_CardinalityType
<1>4. (1..(n + 1)) \ Known # {}
  <2>1. SUFFICES ASSUME (1..(n + 1)) \ Known = {} PROVE FALSE
    OBVIOUS
  <2>2. 1..(n + 1) \in SUBSET Known
    BY <2>1
  <2>3. Cardinality(1..(n + 1)) <= n
    BY <1>2, <2>2, FS_Subset, Zenon
  <2>4. Cardinality(1..(n + 1)) = n + 1
    BY <1>3, FS_Interval
  <2>5. QED BY <1>3, <2>3, <2>4
<1>5. NewId \in (1..(n + 1)) \ Known
  BY <1>4 DEF NewId
<1>6. QED BY <1>3, <1>5

\* The threads, timers and counters at the start.
LEMMA ControlInit ==
  ASSUME Init
  PROVE  ControlOK
<1>1. IsFiniteSet({}) /\ IsFiniteSet({1})
  BY FS_EmptySet, FS_Singleton, Zenon
<1>2. timers \in {{}, {1}} /\ cdr_sched \in {0, 1}
  BY Zenon DEF Init, NoEvent
<1>3. /\ batchsize \in BatchSizes
      /\ pc = [t \in Threads |-> "idle"] /\ old = [t \in Threads |-> NoEvent]
      /\ svc = "wait" /\ term = "run" /\ reload = "idle" /\ reloads = 0 /\ submits = 0
  BY DEF Init
<1>4. IsFiniteSet(timers) /\ timers \subseteq Nat \ {0} /\ cdr_sched \in Nat
  BY <1>1, <1>2
<1>5. batchsize \in Nat /\ reloads \in Nat /\ submits \in Nat
  <2>1. batchsize \in BatchSizes /\ reloads = 0 /\ submits = 0
    BY <1>3
  <2>2. QED BY <2>1, CdrAssumption
<1>6. pc \in [Threads -> {"idle", "append", "submit", "del", "add", "note"}]
  BY <1>3
<1>7. old \in [Threads -> Nat]
  BY <1>3 DEF NoEvent
<1>8. QED BY <1>3, <1>4, <1>5, <1>6, <1>7 DEF ControlOK

\* They keep their types.
LEMMA ControlStep ==
  ASSUME ControlOK, [Next]_vars
  PROVE  ControlOK'
<1> USE DEF ControlOK, confVars, schedVars, threadVars, reloadVars, submitVars
<1>1. ASSUME NEW t \in Threads, NEW c \in Cdrs, Detach(t, c) PROVE ControlOK'
  BY <1>1 DEF Detach
<1>2. ASSUME NEW t \in Threads, CliSubmit(t) \/ AppendItem(t) \/ ReadSched(t) \/ NoteSched(t)
      PROVE  ControlOK'
  <2>1. CASE CliSubmit(t)
    BY <2>1 DEF CliSubmit
  <2>2. CASE AppendItem(t)
    BY <2>2 DEF AppendItem
  <2>3. CASE ReadSched(t)
    BY <2>3 DEF ReadSched
  <2>4. CASE NoteSched(t)
    BY <2>4 DEF NoteSched, NoEvent
  <2>5. QED BY <1>2, <2>1, <2>2, <2>3, <2>4
<1>3. ASSUME NEW t \in Threads, DelSched(t) PROVE ControlOK'
  <2>1. IsFiniteSet(timers')
    BY <1>3, FS_RemoveElement DEF DelSched, cw_sched_del
  <2>2. QED BY <1>3, <2>1, Zenon DEF DelSched, cw_sched_del, NoEvent
<1>4. IsFiniteSet(timers \cup {NewId}) /\ NewId \in Nat \ {0}
  BY NewIdFresh, FS_AddElement
<1>5. ASSUME NEW t \in Threads, AddSched(t) PROVE ControlOK'
  BY <1>4, <1>5 DEF AddSched, cw_sched_add
<1>6. CASE Fire
  <2>1. PICK id \in timers : timers' = timers \ {id}
    BY <1>6 DEF Fire, cw_sched_del
  <2>2. IsFiniteSet(timers')
    BY <2>1, FS_RemoveElement
  <2>3. QED BY <1>6, <2>1, <2>2 DEF Fire, Submit, Goto, After
<1>7. CASE Rearm
  BY <1>4, <1>7 DEF Rearm, cw_sched_add
<1>8. ASSUME NEW p \in Submitters, Submitting(p) PROVE ControlOK'
  <2>1. CASE SubmitTake(p)
    BY <2>1 DEF SubmitTake, Goto, After, Submitters
  <2>2. CASE do_batch_backend_process(p)
    BY <2>2 DEF do_batch_backend_process, Goto, After, Submitters
  <2>3. QED BY <1>8, <2>1, <2>2 DEF Submitting
<1>9. CASE cw_cdr_engine_term \/ PostDetached
  BY <1>9, Zenon DEF cw_cdr_engine_term, Submit, Goto, After, PostDetached
<1>10. CASE ReloadBegin \/ ReloadLoad
  <2>1. /\ batchsize' \in BatchSizes /\ reload' \in {"idle", "del", "load", "add"}
        /\ reloads' \in {reloads, reloads + 1}
        /\ UNCHANGED <<timers, cdr_sched, pc, old, svc, term, submits>>
    BY <1>10, Zenon DEF ReloadBegin, ReloadLoad
  <2>2. QED BY <2>1, CdrAssumption
<1>11. CASE ReloadDel
  <2>1. IsFiniteSet(timers')
    BY <1>11, FS_RemoveElement DEF ReloadDel, cw_sched_del
  <2>2. QED BY <1>11, <2>1 DEF ReloadDel, cw_sched_del
<1>12. CASE ReloadAdd
  BY <1>4, <1>12 DEF ReloadAdd, cw_sched_add
<1>13. CASE UNCHANGED vars
  BY <1>13 DEF vars
<1>14. QED
  BY <1>1, <1>2, <1>3, <1>5, <1>6, <1>7, <1>8, <1>9, <1>10, <1>11, <1>12, <1>13, SMTT(30)
  DEF Next, Caller, Service, Reload, Submitters

-----------------------------------------------------------------------------
(* In batch mode a submission is coming *)

\* In batch mode an event is pending, running or about to be added, unless a reload
\* is on its way: whoever takes the last event away adds another.
THEOREM SubmissionComingCorrect == Spec => []SubmissionComing
<1>1. Init => ControlOK /\ SubmissionComing
  <2>1. Init => SubmissionComing
    BY Zenon DEF Init, SubmissionComing
  <2>2. QED BY <2>1, ControlInit
<1>2. ASSUME ControlOK, SubmissionComing, [Next]_vars PROVE ControlOK' /\ SubmissionComing'
  <2> SUFFICES SubmissionComing'
    BY <1>2, ControlStep
  <2> USE DEF SubmissionComing, confVars, schedVars, threadVars, reloadVars, submitVars
  <2>0. /\ pc \in [Threads -> {"idle", "append", "submit", "del", "add", "note"}]
        /\ svc \in {"wait", "take", "post", "rearm"}
    BY <1>2 DEF ControlOK
  <2>1. ASSUME NEW t \in Threads, NEW c \in Cdrs, Detach(t, c) PROVE SubmissionComing'
    BY <1>2, <2>0, <2>1 DEF Detach
  <2>2. ASSUME NEW t \in Threads, CliSubmit(t) \/ AppendItem(t) \/ ReadSched(t) PROVE SubmissionComing'
    BY <1>2, <2>0, <2>2, Zenon DEF CliSubmit, AppendItem, ReadSched
  <2>3. ASSUME NEW t \in Threads, DelSched(t) PROVE SubmissionComing'
    BY <1>2, <2>0, <2>3 DEF DelSched
  <2>4. ASSUME NEW t \in Threads, AddSched(t) PROVE SubmissionComing'
    BY <1>2, <2>0, <2>4 DEF AddSched, cw_sched_add
  <2>5. ASSUME NEW t \in Threads, NoteSched(t) PROVE SubmissionComing'
    BY <1>2, <2>0, <2>5 DEF NoteSched
  <2>6. CASE Service
    BY <1>2, <2>0, <2>6, Zenon DEF Service, Fire, Submit, Submitting, SubmitTake, do_batch_backend_process, Rearm,
       At, Goto, After, cw_sched_add
  <2>7. CASE cw_cdr_engine_term \/ Submitting("term") \/ PostDetached
    BY <1>2, <2>0, <2>7, Zenon DEF cw_cdr_engine_term, Submit, Submitting, SubmitTake, do_batch_backend_process,
       PostDetached, Goto
  <2>8. CASE ReloadBegin \/ Reload
    BY <1>2, <2>0, <2>8 DEF ReloadBegin, Reload, ReloadDel, ReloadLoad, ReloadAdd, cw_sched_add
  <2>9. CASE UNCHANGED vars
    BY <1>2, <2>0, <2>9 DEF vars
  <2>10. QED
    BY <1>2, <2>1, <2>2, <2>3, <2>4, <2>5, <2>6, <2>7, <2>8, <2>9, SMTT(30) DEF Next, Caller
<1>3. QED BY <1>1, <1>2, PTL DEF Spec

-----------------------------------------------------------------------------
(* Where the records are *)

\* Records with the threads that detach them, in batches being submitted, done with.
Carried == {c \in Cdrs : \E t \in Threads : cdr[t] = c}
Taken == Records(items["svc"]) \cup Records(items["term"])
Done == {c \in Cdrs : posted[c] # 0} \cup dropped

\* No list holds a record twice.
Distinct(q) == \A i, j \in DOMAIN q : q[i] = q[j] => i = j

RecordsOK ==
  /\ batch \in Seq(Cdrs) /\ cdr \in [Threads -> Cdrs \cup {None}]
  /\ items \in [Submitters -> Seq(Cdrs)]
  /\ posting \subseteq Cdrs /\ posted \in [Cdrs -> Nat] /\ dropped \subseteq Cdrs
  /\ \A t \in Threads : pc[t] = "append" <=> cdr[t] # None
  /\ \A p \in Submitters : At(p) # "post" => items[p] = <<>>

\* Every record is in one place: one thread carries it, or it is at one index of one
\* list, or with a posting thread, or posted once, or dropped.
CarriedOnce == \A t, u \in Threads : cdr[t] # None /\ cdr[t] = cdr[u] => t = u

ItemsApart ==
  /\ Distinct(items["svc"]) /\ Distinct(items["term"])
  /\ Records(items["svc"]) \cap Records(items["term"]) = {}

PostedOnce == \A c \in Cdrs : posted[c] \in {0, 1} /\ (posted[c] = 1 => c \notin dropped)

SetsApart ==
  /\ Carried \cap (Records(batch) \cup Taken \cup posting \cup Done) = {}
  /\ Records(batch) \cap (Taken \cup posting \cup Done) = {}
  /\ Taken \cap (posting \cup Done) = {}
  /\ posting \cap Done = {}

Apart == CarriedOnce /\ Distinct(batch) /\ ItemsApart /\ PostedOnce /\ SetsApart

CdrInv == ControlOK /\ RecordsOK /\ Apart

\* An empty batch has no records.
LEMMA EmptyRecords == Records(<<>>) = {} /\ Distinct(<<>>)
  BY DEF Records, Distinct

\* Appending a record that is not in the batch.
LEMMA AppendRecords ==
  ASSUME NEW q \in Seq(Cdrs), NEW c \in Cdrs
  PROVE  /\ Append(q, c) \in Seq(Cdrs)
         /\ Records(Append(q, c)) = Records(q) \cup {c}
         /\ Distinct(q) /\ c \notin Records(q) => Distinct(Append(q, c))
<1> DEFINE r == Append(q, c)
<1>1. /\ r \in Seq(Cdrs) /\ DOMAIN r = 1..(Len(q) + 1) /\ DOMAIN q = 1..Len(q) /\ Len(q) \in Nat
      /\ \A i \in 1..Len(q) : r[i] = q[i]
      /\ r[Len(q) + 1] = c
  OBVIOUS
<1> HIDE DEF r
<1>2. Records(r) = Records(q) \cup {c}
  BY <1>1 DEF Records
<1>3. Distinct(q) /\ c \notin Records(q) => Distinct(r)
  BY <1>1 DEF Records, Distinct
<1>4. QED BY <1>1, <1>2, <1>3 DEF r

\* do_batch_backend_process posts each record of its list once.
LEMMA CountRecords ==
  ASSUME NEW q \in Seq(Cdrs), Distinct(q), NEW c
  PROVE  Cardinality({i \in DOMAIN q : q[i] = c}) = IF c \in Records(q) THEN 1 ELSE 0
<1> DEFINE S == {i \in DOMAIN q : q[i] = c}
<1>1. CASE c \in Records(q)
  <2>1. PICK i \in DOMAIN q : q[i] = c
    BY <1>1 DEF Records
  <2>2. S = {i}
    BY <2>1 DEF Distinct
  <2>3. QED BY <1>1, <2>2, FS_Singleton, Zenon
<1>2. CASE c \notin Records(q)
  <2>1. S = {}
    BY <1>2 DEF Records
  <2>2. QED BY <1>2, <2>1, FS_EmptySet
<1>3. QED BY <1>1, <1>2

\* The places of a record, kind by kind.
WithThread(c) == {<<"thread", t>> : t \in {u \in Threads : cdr[u] = c}}
InBatch(c) == {<<"batch", i>> : i \in {k \in DOMAIN batch : batch[k] = c}}
InItems(c) == UNION {{<<p, i>> : i \in {k \in DOMAIN items[p] : items[p][k] = c}} : p \in Submitters}
InPosting(c) == {<<"posting", d>> : d \in {c} \cap posting}
WasPosted(c) == {<<"posted", k>> : k \in 1..posted[c]}
WasDropped(c) == {<<"dropped", d>> : d \in {c} \cap dropped}

\* The kinds of places a record can be in.
LEMMA PlaceKinds ==
  ASSUME NEW c
  PROVE  \A x : x \in Places(c) <=>
           \/ x \in WithThread(c) \/ x \in InBatch(c) \/ x \in InItems(c)
           \/ x \in InPosting(c) \/ x \in WasPosted(c) \/ x \in WasDropped(c)
<1>1. Places(c) = WithThread(c) \cup InBatch(c) \cup InItems(c)
                    \cup InPosting(c) \cup WasPosted(c) \cup WasDropped(c)
  BY Zenon DEF Places, WithThread, InBatch, InItems, InPosting, WasPosted, WasDropped
<1>2. QED BY <1>1, SMT

\* With a thread that detaches it.
LEMMA ThreadPlace ==
  \A c, x : x \in WithThread(c) <=> \E t \in Threads : cdr[t] = c /\ x = <<"thread", t>>
  BY Zenon DEF WithThread

\* In the batch.
LEMMA BatchPlace ==
  \A c, x : x \in InBatch(c) <=> \E i \in DOMAIN batch : batch[i] = c /\ x = <<"batch", i>>
  BY Zenon DEF InBatch

\* With a submitter.
LEMMA ItemPlace ==
  \A c, x : x \in InItems(c) <=> \E p \in Submitters : \E i \in DOMAIN items[p] : items[p][i] = c /\ x = <<p, i>>
<1> SUFFICES ASSUME NEW c, NEW x
             PROVE  x \in InItems(c) <=> \E p \in Submitters : \E i \in DOMAIN items[p] :
                                              items[p][i] = c /\ x = <<p, i>>
  OBVIOUS
<1> DEFINE Of(p) == {<<p, i>> : i \in {k \in DOMAIN items[p] : items[p][k] = c}}
<1>1. \A p : x \in Of(p) <=> \E i \in DOMAIN items[p] : items[p][i] = c /\ x = <<p, i>>
  BY Zenon
<1>2. x \in InItems(c) <=> \E p \in Submitters : x \in Of(p)
  BY Zenon DEF InItems
<1>3. QED BY <1>1, <1>2, Zenon

\* With a detached thread that posts it.
LEMMA PostingPlace ==
  \A c, x : x \in InPosting(c) <=> c \in posting /\ x = <<"posting", c>>
  BY Zenon DEF InPosting

\* Posted, once for each time.
LEMMA PostedPlace ==
  \A c, x : x \in WasPosted(c) <=> \E k \in 1..posted[c] : x = <<"posted", k>>
  BY Zenon DEF WasPosted

\* Dropped.
LEMMA DroppedPlace ==
  \A c, x : x \in WasDropped(c) <=> c \in dropped /\ x = <<"dropped", c>>
  BY Zenon DEF WasDropped

\* A record that is nowhere is in none of the sets.
LEMMA NowhereFree ==
  ASSUME RecordsOK, NEW c \in Cdrs, Places(c) = {}
  PROVE  c \notin Carried \cup Records(batch) \cup Taken \cup posting \cup Done
<1>0. \A x : /\ x \notin WithThread(c) /\ x \notin InBatch(c) /\ x \notin InItems(c)
             /\ x \notin InPosting(c) /\ x \notin WasPosted(c) /\ x \notin WasDropped(c)
  BY PlaceKinds
<1>1. c \notin Carried
  BY <1>0, ThreadPlace, Zenon DEF Carried
<1>2. c \notin Records(batch)
  BY <1>0, BatchPlace, Zenon DEF Records
<1>3. c \notin Taken
  <2>1. \A p \in Submitters : c \notin Records(items[p])
    <3>1. \A p \in Submitters : \A i \in DOMAIN items[p] : <<p, i>> \in InItems(c) \/ items[p][i] # c
      BY ItemPlace
    <3>2. QED BY <1>0, <3>1, Zenon DEF Records
  <2>2. QED BY <2>1 DEF Taken, Submitters
<1>4. c \notin posting /\ c \notin dropped
  BY <1>0, PostingPlace, DroppedPlace, Zenon
<1>5. posted[c] = 0
  <2>1. 1 \notin 1..posted[c]
    BY <1>0, PostedPlace, Zenon
  <2>2. QED BY <2>1 DEF RecordsOK
<1>6. QED BY <1>1, <1>2, <1>3, <1>4, <1>5 DEF Done

\* Two places of one kind are the same, and there are no two kinds.
LEMMA ApartOnce ==
  ASSUME RecordsOK, Apart
  PROVE  NeverTwice
<1> SUFFICES ASSUME NEW c \in Cdrs, NEW x \in Places(c), NEW y \in Places(c)
             PROVE  x = y
  BY SMTT(30) DEF NeverTwice
<1>1. /\ x \in WithThread(c) \/ y \in WithThread(c) => c \in Carried
      /\ x \in InBatch(c) \/ y \in InBatch(c) => c \in Records(batch)
      /\ x \in InItems(c) \/ y \in InItems(c) => c \in Taken
      /\ x \in InPosting(c) \/ y \in InPosting(c) => c \in posting
      /\ x \in WasPosted(c) \/ y \in WasPosted(c) => posted[c] = 1
      /\ x \in WasDropped(c) \/ y \in WasDropped(c) => c \in dropped
  <2>1. x \in WithThread(c) \/ y \in WithThread(c) => c \in Carried
    BY ThreadPlace DEF Carried
  <2>2. x \in InBatch(c) \/ y \in InBatch(c) => c \in Records(batch)
    BY BatchPlace DEF Records
  <2>3. x \in InItems(c) \/ y \in InItems(c) => c \in Taken
    <3>1. x \in InItems(c) \/ y \in InItems(c) => \E p \in Submitters : c \in Records(items[p])
      BY ItemPlace DEF Records
    <3>2. QED BY <3>1 DEF Taken, Submitters
  <2>4. /\ x \in InPosting(c) \/ y \in InPosting(c) => c \in posting
        /\ x \in WasDropped(c) \/ y \in WasDropped(c) => c \in dropped
    BY PostingPlace, DroppedPlace
  <2>5. x \in WasPosted(c) \/ y \in WasPosted(c) => posted[c] = 1
    <3>1. x \in WasPosted(c) \/ y \in WasPosted(c) => \E k \in 1..posted[c] : TRUE
      BY PostedPlace
    <3>2. posted[c] \in {0, 1}
      BY DEF Apart, PostedOnce
    <3>3. QED BY <3>1, <3>2
  <2>6. QED BY <2>1, <2>2, <2>3, <2>4, <2>5
<1>2. CASE x \in WithThread(c) /\ y \in WithThread(c)
  <2>1. PICK t \in Threads : cdr[t] = c /\ x = <<"thread", t>>
    BY <1>2, ThreadPlace
  <2>2. PICK u \in Threads : cdr[u] = c /\ y = <<"thread", u>>
    BY <1>2, ThreadPlace
  <2>3. t = u
    BY <2>1, <2>2, CdrAssumption DEF Apart, CarriedOnce
  <2>4. QED BY <2>1, <2>2, <2>3, Zenon
<1>3. CASE x \in InBatch(c) /\ y \in InBatch(c)
  <2>1. PICK i \in DOMAIN batch : batch[i] = c /\ x = <<"batch", i>>
    BY <1>3, BatchPlace
  <2>2. PICK j \in DOMAIN batch : batch[j] = c /\ y = <<"batch", j>>
    BY <1>3, BatchPlace
  <2>3. i = j
    BY <2>1, <2>2 DEF Apart, Distinct
  <2>4. QED BY <2>1, <2>2, <2>3, Zenon
<1>4. CASE x \in InItems(c) /\ y \in InItems(c)
  <2>1. PICK p \in Submitters : \E i \in DOMAIN items[p] : items[p][i] = c /\ x = <<p, i>>
    BY <1>4, ItemPlace
  <2>2. PICK i \in DOMAIN items[p] : items[p][i] = c /\ x = <<p, i>>
    BY <2>1
  <2>3. PICK q \in Submitters : \E j \in DOMAIN items[q] : items[q][j] = c /\ y = <<q, j>>
    BY <1>4, ItemPlace
  <2>4. PICK j \in DOMAIN items[q] : items[q][j] = c /\ y = <<q, j>>
    BY <2>3
  <2>5. p = q
    <3>1. c \in Records(items[p]) /\ c \in Records(items[q])
      BY <2>2, <2>4 DEF Records
    <3>2. QED BY <3>1 DEF Apart, ItemsApart, Submitters
  <2>6. Distinct(items[p])
    BY DEF Apart, ItemsApart, Submitters
  <2>7. i = j
    BY <2>2, <2>4, <2>5, <2>6, Zenon DEF Distinct
  <2>8. QED BY <2>2, <2>4, <2>5, <2>7, Zenon
<1>5. CASE x \in WasPosted(c) /\ y \in WasPosted(c)
  <2>1. PICK k \in 1..posted[c] : x = <<"posted", k>>
    BY <1>5, PostedPlace
  <2>2. PICK l \in 1..posted[c] : y = <<"posted", l>>
    BY <1>5, PostedPlace
  <2>3. k = l
    BY <1>1, <1>5
  <2>4. QED BY <2>1, <2>2, <2>3, Zenon
<1>6. CASE x \in InPosting(c) /\ y \in InPosting(c)
  BY <1>6, PostingPlace
<1>7. CASE x \in WasDropped(c) /\ y \in WasDropped(c)
  BY <1>7, DroppedPlace
<1>8. /\ x \in WithThread(c) \/ x \in InBatch(c) \/ x \in InItems(c)
        \/ x \in InPosting(c) \/ x \in WasPosted(c) \/ x \in WasDropped(c)
      /\ y \in WithThread(c) \/ y \in InBatch(c) \/ y \in InItems(c)
        \/ y \in InPosting(c) \/ y \in WasPosted(c) \/ y \in WasDropped(c)
  BY PlaceKinds
<1>9. posted[c] = 1 => c \in Done
  BY DEF Done
<1>10. c \in dropped => c \in Done
  BY DEF Done
<1>11. QED
  BY <1>1, <1>2, <1>3, <1>4, <1>5, <1>6, <1>7, <1>8, <1>9, <1>10, SMTT(30) DEF Apart, SetsApart, PostedOnce

-----------------------------------------------------------------------------
(* Where each action takes the records, and what the log sees of it *)

\* The variables the records are in.
recordVars == <<cdr, batch, items, posting, posted, dropped>>

\* The records owed, by where they are.
LEMMA OwedParts ==
  /\ Owed = Carried \cup Records(batch) \cup Taken \cup posting
  /\ Owed' = Carried' \cup Records(batch)' \cup Taken' \cup posting'
  BY SMTT(30) DEF Owed, Carried, Taken, Submitters

\* Nothing moves, nothing else is owed.
LEMMA SameOwed ==
  ASSUME Carried' = Carried, Records(batch)' = Records(batch), Taken' = Taken, posting' = posting
  PROVE  Owed' = Owed
<1>1. Owed' = Carried' \cup Records(batch)' \cup Taken' \cup posting'
  BY OwedParts
<1>2. Owed' = Carried \cup Records(batch) \cup Taken \cup posting
  BY <1>1, Zenon
<1>3. QED BY <1>2, OwedParts, Zenon

\* A step that leaves the submitters' lists.
LEMMA SameItems ==
  ASSUME UNCHANGED items
  PROVE  Taken' = Taken /\ (ItemsApart => ItemsApart')
<1>1. Taken' = Taken
  BY Zenon DEF Taken, Records
<1>2. \A p : Records(items[p])' = Records(items[p]) /\ (Distinct(items[p]) => Distinct(items[p])')
  BY Zenon DEF Distinct, Records
<1>3. ItemsApart => ItemsApart'
  BY <1>2 DEF ItemsApart
<1>4. QED BY <1>1, <1>3

\* A step that leaves the batch.
LEMMA SameBatch ==
  ASSUME UNCHANGED batch
  PROVE  Records(batch)' = Records(batch) /\ (Distinct(batch) => Distinct(batch)')
  BY Zenon DEF Distinct, Records

\* A step that leaves what the threads carry.
LEMMA SameCarried ==
  ASSUME UNCHANGED cdr
  PROVE  Carried' = Carried /\ (CarriedOnce => CarriedOnce')
  BY Zenon DEF Carried, CarriedOnce

\* A step that posts and drops nothing.
LEMMA SameDone ==
  ASSUME UNCHANGED <<posted, dropped>>
  PROVE  Done' = Done /\ (PostedOnce => PostedOnce')
  BY Zenon DEF Done, PostedOnce

\* A step that moves no record.
LEMMA SameRecords ==
  ASSUME UNCHANGED recordVars
  PROVE  Owed' = Owed /\ (Apart => Apart')
<1>1. /\ UNCHANGED cdr /\ UNCHANGED batch /\ UNCHANGED items /\ UNCHANGED posting
      /\ UNCHANGED <<posted, dropped>>
  BY DEF recordVars
<1>2. /\ Carried' = Carried /\ Records(batch)' = Records(batch) /\ Taken' = Taken /\ Done' = Done
      /\ (CarriedOnce => CarriedOnce') /\ (Distinct(batch) => Distinct(batch)')
      /\ (ItemsApart => ItemsApart') /\ (PostedOnce => PostedOnce')
  BY <1>1, SameCarried, SameBatch, SameItems, SameDone
<1>3. Owed' = Owed
  BY <1>1, <1>2, SameOwed
<1>4. SetsApart => SetsApart'
  BY <1>1, <1>2, Zenon DEF SetsApart
<1>5. QED BY <1>2, <1>3, <1>4 DEF Apart

\* Dropping, posting at once, and taking over a record that is nowhere.
LEMMA DetachRecords ==
  ASSUME ControlOK, RecordsOK, Apart, NEW t \in Threads, NEW c \in Cdrs, Detach(t, c)
  PROVE  RecordsOK' /\ Apart' /\ Abstract!Detach(c)
<1> USE DEF submitVars
<1>1. c \notin Carried \cup Records(batch) \cup Taken \cup posting \cup Done
  <2>1. Places(c) = {}
    BY DEF Detach
  <2>2. QED BY <2>1, NowhereFree
<1>2. c \notin Owed /\ c \notin dropped /\ posted[c] = 0
  BY <1>1, OwedParts, SMTT(30) DEF Done
<1>3. UNCHANGED batch /\ UNCHANGED items /\ UNCHANGED posting /\ UNCHANGED <<svc, term>>
  BY DEF Detach
<1>4. /\ Taken' = Taken /\ Records(batch)' = Records(batch)
      /\ Distinct(batch)' /\ ItemsApart'
  BY <1>3, SameItems, SameBatch DEF Apart
<1>5. CASE dropped' = dropped \cup {c} /\ UNCHANGED <<pc, cdr, posted>>
  <2>1. Carried' = Carried /\ CarriedOnce'
    BY <1>5, SameCarried DEF Apart
  <2>2. Done' = Done \cup {c}
    BY <1>5 DEF Done
  <2>3. PostedOnce'
    BY <1>2, <1>5 DEF Apart, PostedOnce
  <2>4. SetsApart'
    BY <1>1, <1>3, <1>4, <2>1, <2>2 DEF Apart, SetsApart
  <2>5. Owed' = Owed
    BY <1>3, <1>4, <2>1, SameOwed
  <2>6. RecordsOK'
    BY <1>3, <1>5 DEF RecordsOK, At
  <2>7. Abstract!Detach(c)
    BY <1>2, <1>5, <2>5, SMTT(30) DEF Abstract!Detach, Abstract!New
  <2>8. QED BY <1>4, <2>1, <2>3, <2>4, <2>6, <2>7 DEF Apart
<1>6. CASE post_cdr(c) /\ UNCHANGED <<pc, cdr, dropped>>
  <2>1. Carried' = Carried /\ CarriedOnce'
    BY <1>6, SameCarried DEF Apart
  <2>2. posted' = [posted EXCEPT ![c] = 1] /\ posted' \in [Cdrs -> Nat]
    BY <1>2, <1>6 DEF post_cdr, RecordsOK
  <2>3. Done' = Done \cup {c}
    BY <1>6, <2>2 DEF Done, RecordsOK
  <2>4. PostedOnce'
    BY <1>2, <1>6, <2>2, SMTT(30) DEF Apart, PostedOnce, RecordsOK
  <2>5. SetsApart'
    BY <1>1, <1>3, <1>4, <2>1, <2>3 DEF Apart, SetsApart
  <2>6. Owed' = Owed
    BY <1>3, <1>4, <2>1, SameOwed
  <2>7. RecordsOK'
    BY <1>3, <1>6, <2>2 DEF RecordsOK, At
  <2>8. posted' = [d \in Cdrs |-> IF d \in {c} THEN posted[d] + 1 ELSE posted[d]]
    BY <1>6, Zenon DEF post_cdr, RecordsOK
  <2>9. Abstract!Detach(c)
    BY <1>2, <1>6, <2>6, <2>8 DEF Abstract!Detach, Abstract!New, Abstract!Write
  <2>10. QED BY <1>4, <2>1, <2>4, <2>5, <2>7, <2>9 DEF Apart
<1>7. CASE /\ cdr' = [cdr EXCEPT ![t] = c] /\ pc' = [pc EXCEPT ![t] = "append"]
           /\ UNCHANGED <<dropped, posted>>
  <2>1. cdr[t] = None /\ c # None
    BY CdrAssumption, SMTT(30) DEF Detach, RecordsOK
  <2>2. Carried' = Carried \cup {c}
    BY <1>7, <2>1, CdrAssumption DEF Carried, RecordsOK
  <2>3. CarriedOnce'
    <3>1. \A u \in Threads : cdr[u] # c
      BY <1>1 DEF Carried
    <3>2. QED BY <1>7, <3>1 DEF Apart, CarriedOnce, RecordsOK
  <2>4. Done' = Done /\ PostedOnce'
    BY <1>7, SameDone DEF Apart
  <2>5. SetsApart'
    BY <1>1, <1>3, <1>4, <2>2, <2>4 DEF Apart, SetsApart
  <2>6. Owed' = Owed \cup {c}
    <3>1. /\ Owed = Carried \cup Records(batch) \cup Taken \cup posting
          /\ Owed' = (Carried \cup {c}) \cup Records(batch) \cup Taken \cup posting
      BY <1>3, <1>4, <2>2, OwedParts, Zenon
    <3>2. QED BY <3>1
  <2>7. RecordsOK'
    <3>1. cdr' \in [Threads -> Cdrs \cup {None}]
      BY <1>7 DEF RecordsOK
    <3>2. \A u \in Threads : pc'[u] = "append" <=> cdr'[u] # None
      BY <1>7, <2>1 DEF RecordsOK, ControlOK
    <3>3. QED BY <1>3, <1>7, <3>1, <3>2 DEF RecordsOK, At
  <2>8. Abstract!Detach(c)
    BY <1>2, <1>7, <2>6 DEF Abstract!Detach, Abstract!New
  <2>9. QED BY <1>4, <2>3, <2>4, <2>5, <2>7, <2>8 DEF Apart
<1>8. QED BY <1>5, <1>6, <1>7 DEF Detach

\* The record goes from the thread to the batch.
LEMMA AppendItemRecords ==
  ASSUME ControlOK, RecordsOK, Apart, NEW t \in Threads, AppendItem(t)
  PROVE  RecordsOK' /\ Apart' /\ UNCHANGED <<Owed, posted, dropped>>
<1> DEFINE c == cdr[t]
<1>1. c \in Cdrs /\ c # None
  BY CdrAssumption DEF AppendItem, RecordsOK
<1>2. /\ batch' = Append(batch, c) /\ cdr' = [cdr EXCEPT ![t] = None]
      /\ UNCHANGED items /\ UNCHANGED posting /\ UNCHANGED <<posted, dropped>>
      /\ UNCHANGED <<svc, term>>
  BY Zenon DEF AppendItem, postVars, submitVars
<1>3. Taken' = Taken /\ ItemsApart' /\ Done' = Done /\ PostedOnce'
  BY <1>2, SameItems, SameDone DEF Apart
<1>4. c \in Carried
  BY <1>1, Zenon DEF Carried
<1>5. Carried' = Carried \ {c}
  BY <1>1, <1>2, CdrAssumption DEF Carried, RecordsOK, Apart, CarriedOnce
<1>6. CarriedOnce'
  BY <1>2 DEF Apart, CarriedOnce, RecordsOK
<1>7. /\ batch' \in Seq(Cdrs) /\ Records(batch)' = Records(batch) \cup {c}
      /\ Distinct(batch)'
  <2>1. batch \in Seq(Cdrs) /\ Distinct(batch) /\ c \notin Records(batch)
    BY <1>4 DEF RecordsOK, Apart, SetsApart
  <2>2. /\ batch' \in Seq(Cdrs) /\ Records(batch') = Records(batch) \cup {c}
        /\ Distinct(batch')
    BY <1>1, <1>2, <2>1, AppendRecords, SMTT(30)
  <2>3. QED BY <2>2, Zenon DEF Records, Distinct
<1>8. SetsApart'
  BY <1>2, <1>3, <1>4, <1>5, <1>7, SMTT(30) DEF Apart, SetsApart
<1>9. RecordsOK'
  <2>1. cdr' \in [Threads -> Cdrs \cup {None}]
    BY <1>2 DEF RecordsOK
  <2>2. \A u \in Threads : pc'[u] = "append" <=> cdr'[u] # None
    BY <1>2 DEF AppendItem, RecordsOK, ControlOK
  <2>3. QED BY <1>2, <1>7, <2>1, <2>2 DEF RecordsOK, At
<1>10. Owed' = Owed
  <2>1. /\ Owed = Carried \cup Records(batch) \cup Taken \cup posting
        /\ Owed' = (Carried \ {c}) \cup (Records(batch) \cup {c}) \cup Taken \cup posting
    BY <1>2, <1>3, <1>5, <1>7, OwedParts, Zenon
  <2>2. QED BY <1>4, <2>1
<1>11. Apart'
  BY <1>3, <1>6, <1>7, <1>8, Zenon DEF Apart
<1>12. QED BY <1>2, <1>9, <1>10, <1>11, Zenon

\* The records go from the batch to the submitter, or to a detached thread.
LEMMA SubmitTakeRecords ==
  ASSUME ControlOK, RecordsOK, Apart, NEW p \in Submitters, SubmitTake(p)
  PROVE  RecordsOK' /\ Apart' /\ UNCHANGED <<Owed, posted, dropped>>
<1>1. /\ batch' = <<>> /\ UNCHANGED pc /\ UNCHANGED cdr /\ UNCHANGED <<posted, dropped>>
  BY Zenon DEF SubmitTake, threadVars
<1>2. /\ batch \in Seq(Cdrs) /\ items \in [Submitters -> Seq(Cdrs)] /\ items[p] = <<>>
  BY DEF SubmitTake, RecordsOK
<1>3. Carried' = Carried /\ CarriedOnce' /\ Done' = Done /\ PostedOnce'
  BY <1>1, SameCarried, SameDone DEF Apart
<1>4. Records(batch)' = {} /\ Distinct(batch)'
  <2>1. Records(batch') = {} /\ Distinct(batch')
    BY <1>1, EmptyRecords, Zenon
  <2>2. QED BY <2>1, Zenon DEF Records, Distinct
<1>5. Records(items[p]) = {}
  BY <1>2, EmptyRecords, Zenon
<1>6. CASE items' = [items EXCEPT ![p] = batch] /\ Goto(p, "post") /\ UNCHANGED posting
  <2>1. /\ items' \in [Submitters -> Seq(Cdrs)] /\ items'[p] = batch
        /\ \A q \in Submitters \ {p} : items'[q] = items[q]
    BY <1>2, <1>6
  <2>2. Records(items[p])' = Records(batch) /\ Distinct(items[p])'
    <3>1. Distinct(batch)
      BY DEF Apart
    <3>2. QED BY <2>1, <3>1, Zenon DEF Distinct, Records
  <2>3. \A q \in Submitters \ {p} : Records(items[q])' = Records(items[q]) /\ Distinct(items[q])'
    <3>1. \A q \in Submitters : Distinct(items[q])
      BY DEF Apart, ItemsApart, Submitters
    <3>2. ASSUME NEW q \in Submitters \ {p}
          PROVE  Records(items[q])' = Records(items[q]) /\ Distinct(items[q])'
      <4>1. items'[q] = items[q] /\ Distinct(items[q])
        BY <2>1, <3>1, SMTT(30)
      <4>2. QED BY <4>1, Zenon DEF Distinct, Records
    <3>3. QED BY <3>2
  <2>4. Taken' = Taken \cup Records(batch)
    BY <1>5, <2>2, <2>3 DEF Taken, Submitters
  <2>5. ItemsApart'
    <3>1. Records(batch) \cap Taken = {}
      BY DEF Apart, SetsApart
    <3>2. QED BY <2>2, <2>3, <3>1 DEF Submitters, Taken, ItemsApart
  <2>6. SetsApart'
    BY <1>3, <1>4, <1>6, <2>4, SMTT(30) DEF Apart, SetsApart
  <2>7. RecordsOK'
    <3>1. \A q \in Submitters : At(q)' # "post" => items'[q] = <<>>
      BY <1>6, <2>1 DEF Goto, At, Submitters, RecordsOK
    <3>2. QED BY <1>1, <1>6, <2>1, <3>1, SMTT(30) DEF RecordsOK
  <2>8. Owed' = Owed
    <3>1. /\ Owed = Carried \cup Records(batch) \cup Taken \cup posting
          /\ Owed' = Carried \cup {} \cup (Taken \cup Records(batch)) \cup posting
      BY <1>3, <1>4, <1>6, <2>4, OwedParts, Zenon
    <3>2. QED BY <3>1
  <2>9. QED BY <1>1, <1>3, <1>4, <2>5, <2>6, <2>7, <2>8, Zenon DEF Apart
<1>7. CASE posting' = posting \cup Records(batch) /\ Goto(p, After(p)) /\ UNCHANGED items
  <2>1. Taken' = Taken /\ ItemsApart'
    BY <1>7, SameItems DEF Apart
  <2>2. SetsApart'
    BY <1>3, <1>4, <1>7, <2>1, SMTT(30) DEF Apart, SetsApart
  <2>3. RecordsOK'
    <3>1. \A q \in Submitters : At(q)' # "post" => items'[q] = <<>>
      BY <1>2, <1>7, SMTT(30) DEF Goto, At, After, Submitters, RecordsOK
    <3>2. posting' \subseteq Cdrs
      BY <1>2, <1>7 DEF RecordsOK, Records
    <3>3. QED BY <1>1, <1>7, <3>1, <3>2 DEF RecordsOK
  <2>4. Owed' = Owed
    <3>1. /\ Owed = Carried \cup Records(batch) \cup Taken \cup posting
          /\ Owed' = Carried \cup {} \cup Taken \cup (posting \cup Records(batch))
      BY <1>3, <1>4, <1>7, <2>1, OwedParts, Zenon
    <3>2. QED BY <3>1
  <2>5. QED BY <1>1, <1>3, <1>4, <2>1, <2>2, <2>3, <2>4, Zenon DEF Apart
<1>8. QED BY <1>6, <1>7, Zenon DEF SubmitTake

\* The submitter posts its records, each once.
LEMMA PostItemsRecords ==
  ASSUME ControlOK, RecordsOK, Apart, NEW p \in Submitters, do_batch_backend_process(p)
  PROVE  RecordsOK' /\ Apart' /\ Abstract!Pay
<1> DEFINE R == Records(items[p])
<1>1. /\ UNCHANGED pc /\ UNCHANGED cdr /\ UNCHANGED batch /\ UNCHANGED posting /\ UNCHANGED dropped
      /\ items' = [items EXCEPT ![p] = <<>>] /\ Goto(p, After(p))
  BY Zenon DEF do_batch_backend_process, threadVars
<1>2. items[p] \in Seq(Cdrs) /\ Distinct(items[p]) /\ R \subseteq Taken
  BY DEF RecordsOK, Apart, ItemsApart, Taken, Submitters
<1>3. R \subseteq Cdrs
  BY <1>2 DEF Records
<1> HIDE DEF R
<1>4. posted' = [c \in Cdrs |-> IF c \in R THEN posted[c] + 1 ELSE posted[c]]
  <2>1. \A c : Cardinality({i \in DOMAIN items[p] : items[p][i] = c}) = IF c \in R THEN 1 ELSE 0
    BY <1>2, CountRecords DEF R
  <2>2. posted' = [c \in Cdrs |-> posted[c] + IF c \in R THEN 1 ELSE 0]
    BY <2>1 DEF do_batch_backend_process
  <2>3. QED BY <2>2 DEF RecordsOK
<1>5. \A c \in R : posted[c] = 0 /\ c \notin dropped /\ c \notin Done
  BY <1>2, <1>3 DEF Apart, SetsApart, Done
<1>6. Carried' = Carried /\ CarriedOnce' /\ Records(batch)' = Records(batch) /\ Distinct(batch)'
  BY <1>1, SameCarried, SameBatch, SMTT(30) DEF Apart
<1>7. Done' = Done \cup R
  BY <1>1, <1>3, <1>4, <1>5, SMTT(30) DEF Done, RecordsOK
<1>8. PostedOnce'
  BY <1>1, <1>4, <1>5 DEF Apart, PostedOnce, RecordsOK
<1>9. /\ items' \in [Submitters -> Seq(Cdrs)] /\ items'[p] = <<>>
      /\ \A q \in Submitters \ {p} : items'[q] = items[q]
  BY <1>1 DEF RecordsOK
<1>10. Records(items[p])' = {} /\ Distinct(items[p])'
  <2>1. Records(items'[p]) = {} /\ Distinct(items'[p])
    BY <1>9, EmptyRecords, Zenon
  <2>2. QED BY <2>1, Zenon DEF Records, Distinct
<1>11. \A q \in Submitters \ {p} : Records(items[q])' = Records(items[q]) /\ Distinct(items[q])'
  <2>1. \A q \in Submitters : Distinct(items[q])
    BY DEF Apart, ItemsApart, Submitters
  <2>2. ASSUME NEW q \in Submitters \ {p}
        PROVE  Records(items[q])' = Records(items[q]) /\ Distinct(items[q])'
    <3>1. items'[q] = items[q] /\ Distinct(items[q])
      BY <1>9, <2>1, SMTT(30)
    <3>2. QED BY <3>1, Zenon DEF Distinct, Records
  <2>3. QED BY <2>2
<1>12. Taken' = Taken \ R
  BY <1>10, <1>11 DEF Taken, Submitters, Apart, ItemsApart, R
<1>13. ItemsApart'
  BY <1>10, <1>11 DEF ItemsApart, Submitters
<1>14. SetsApart'
  BY <1>1, <1>2, <1>6, <1>7, <1>12, SMTT(30) DEF Apart, SetsApart
<1>15. RecordsOK'
  <2>1. \A q \in Submitters : At(q)' # "post" => items'[q] = <<>>
    BY <1>1, <1>9 DEF Goto, At, After, Submitters, RecordsOK
  <2>2. posted' \in [Cdrs -> Nat]
    BY <1>4 DEF RecordsOK
  <2>3. QED BY <1>1, <1>9, <2>1, <2>2 DEF RecordsOK
<1>16. Abstract!Pay
  <2>1. /\ Owed = Carried \cup Records(batch) \cup Taken \cup posting
        /\ Owed' = Carried \cup Records(batch) \cup (Taken \ R) \cup posting
    BY <1>1, <1>6, <1>12, OwedParts, Zenon
  <2>2. Owed' \subseteq Owed /\ Owed \ Owed' = R
    BY <1>2, <2>1 DEF Apart, SetsApart
  <2>3. posted' = [c \in Cdrs |-> IF c \in Owed \ Owed' THEN posted[c] + 1 ELSE posted[c]]
    BY <1>4, <2>2, Zenon
  <2>4. QED BY <1>1, <2>2, <2>3, Zenon DEF Abstract!Pay, Abstract!Write
<1>17. QED BY <1>6, <1>8, <1>13, <1>14, <1>15, <1>16, Zenon DEF Apart

\* A detached thread posts one record.
LEMMA PostDetachedRecords ==
  ASSUME ControlOK, RecordsOK, Apart, PostDetached
  PROVE  RecordsOK' /\ Apart' /\ Abstract!Pay
<1>1. PICK c \in posting : post_cdr(c) /\ posting' = posting \ {c}
  BY DEF PostDetached
<1>2. /\ UNCHANGED pc /\ UNCHANGED cdr /\ UNCHANGED batch /\ UNCHANGED items
      /\ UNCHANGED <<svc, term>> /\ UNCHANGED dropped
  BY Zenon DEF PostDetached, threadVars, submitVars
<1>3. c \in Cdrs /\ c \notin Done /\ posted[c] = 0 /\ c \notin dropped
  BY <1>1 DEF RecordsOK, Apart, SetsApart, Done
<1>4. posted' = [d \in Cdrs |-> IF d \in {c} THEN posted[d] + 1 ELSE posted[d]]
  BY <1>1, Zenon DEF post_cdr, RecordsOK
<1>5. /\ Carried' = Carried /\ CarriedOnce' /\ Records(batch)' = Records(batch) /\ Distinct(batch)'
      /\ Taken' = Taken /\ ItemsApart'
  BY <1>2, SameCarried, SameBatch, SameItems, SMTT(30) DEF Apart
<1>6. Done' = Done \cup {c}
  BY <1>2, <1>3, <1>4, SMTT(30) DEF Done, RecordsOK
<1>7. PostedOnce'
  BY <1>2, <1>3, <1>4, SMTT(30) DEF Apart, PostedOnce, RecordsOK
<1>8. SetsApart'
  BY <1>1, <1>5, <1>6, SMTT(30) DEF Apart, SetsApart
<1>9. RecordsOK'
  <2>1. posted' \in [Cdrs -> Nat]
    BY <1>4 DEF RecordsOK
  <2>2. QED BY <1>1, <1>2, <2>1 DEF RecordsOK, At
<1>10. Abstract!Pay
  <2>1. /\ Owed = Carried \cup Records(batch) \cup Taken \cup posting
        /\ Owed' = Carried \cup Records(batch) \cup Taken \cup (posting \ {c})
    BY <1>1, <1>5, OwedParts, Zenon
  <2>2. Owed' \subseteq Owed /\ Owed \ Owed' = {c}
    BY <1>1, <2>1 DEF Apart, SetsApart
  <2>3. posted' = [d \in Cdrs |-> IF d \in Owed \ Owed' THEN posted[d] + 1 ELSE posted[d]]
    BY <1>4, <2>2, Zenon
  <2>4. QED BY <1>2, <2>2, <2>3, Zenon DEF Abstract!Pay, Abstract!Write
<1>11. QED BY <1>5, <1>7, <1>8, <1>9, <1>10, Zenon DEF Apart

\* No other action moves a record.
LEMMA OtherRecords ==
  ASSUME ControlOK, RecordsOK, Apart,
         \/ \E t \in Threads : CliSubmit(t) \/ ReadSched(t) \/ DelSched(t) \/ AddSched(t) \/ NoteSched(t)
         \/ Fire \/ Rearm \/ cw_cdr_engine_term \/ ReloadBegin \/ Reload \/ UNCHANGED vars
  PROVE  RecordsOK' /\ Apart' /\ UNCHANGED <<Owed, posted, dropped>>
<1> USE DEF recordVars, threadVars, postVars, submitVars
<1> DEFINE Pcs == \A t \in Threads : pc[t] = "append" <=> cdr[t] # None
           Lists == \A p \in Submitters : At(p) # "post" => items[p] = <<>>
<1>0. Pcs /\ Lists
  BY DEF RecordsOK
<1> SUFFICES UNCHANGED recordVars /\ Pcs' /\ Lists'
  <2>1. ASSUME UNCHANGED recordVars, Pcs', Lists' PROVE RecordsOK'
    BY <2>1, Zenon DEF RecordsOK
  <2>2. ASSUME UNCHANGED recordVars PROVE Apart' /\ Owed' = Owed
    BY <2>2, SameRecords, Zenon
  <2>3. QED BY <2>1, <2>2, Zenon
<1>1. ASSUME NEW t \in Threads,
             CliSubmit(t) \/ ReadSched(t) \/ DelSched(t) \/ AddSched(t) \/ NoteSched(t)
      PROVE  UNCHANGED recordVars /\ Pcs' /\ Lists'
  <2>1. UNCHANGED <<recordVars, svc, term>>
    BY <1>1, Zenon DEF CliSubmit, ReadSched, DelSched, AddSched, NoteSched
  <2>2. Lists'
    BY <1>0, <2>1 DEF At
  <2>3. \E l \in {"idle", "submit", "del", "add", "note"} :
          pc[t] # "append" /\ pc' = [pc EXCEPT ![t] = l]
    BY <1>1, Zenon DEF CliSubmit, ReadSched, DelSched, AddSched, NoteSched
  <2>4. Pcs'
    BY <1>0, <2>1, <2>3, Zenon DEF ControlOK
  <2>5. QED BY <2>1, <2>2, <2>4
<1>2. CASE Fire \/ cw_cdr_engine_term
  <2>1. UNCHANGED <<recordVars, pc>>
    BY <1>2, Zenon DEF Fire, cw_cdr_engine_term
  <2>2. Lists'
    BY <1>0, <1>2, <2>1, Zenon DEF Fire, cw_cdr_engine_term, Submit, Goto, After, At, Submitters
  <2>3. Pcs'
    BY <1>0, <2>1, Zenon
  <2>4. QED BY <2>1, <2>2, <2>3, Zenon
<1>3. CASE Rearm
  <2>1. UNCHANGED <<recordVars, pc, term>> /\ svc = "rearm"
    BY <1>3, Zenon DEF Rearm
  <2>2. Lists'
    BY <1>0, <2>1, Zenon DEF At, Submitters
  <2>3. Pcs'
    BY <1>0, <2>1
  <2>4. QED BY <2>1, <2>2, <2>3, Zenon
<1>4. CASE ReloadBegin \/ Reload \/ UNCHANGED vars
  <2>1. UNCHANGED <<recordVars, pc, svc, term>>
    BY <1>4, Zenon DEF ReloadBegin, Reload, ReloadDel, ReloadLoad, ReloadAdd, vars
  <2>2. Pcs' /\ Lists'
    BY <1>0, <2>1, SMTT(30) DEF At
  <2>3. QED BY <2>1, <2>2, Zenon
<1> HIDE DEF Pcs, Lists
<1>5. QED BY <1>1, <1>2, <1>3, <1>4, Zenon

\* Every step keeps the records apart, and is a step of the log or none.
LEMMA RecordsStep ==
  ASSUME CdrInv, [Next]_vars
  PROVE  CdrInv' /\ (Abstract!Next \/ UNCHANGED <<Owed, posted, dropped>>)
<1> USE DEF CdrInv
<1> SUFFICES RecordsOK' /\ Apart' /\ (Abstract!Next \/ UNCHANGED <<Owed, posted, dropped>>)
  BY ControlStep
<1>1. ASSUME NEW t \in Threads, NEW c \in Cdrs, Detach(t, c)
      PROVE  RecordsOK' /\ Apart' /\ Abstract!Next
  <2>1. RecordsOK' /\ Apart' /\ Abstract!Detach(c)
    BY <1>1, DetachRecords
  <2>2. QED BY <2>1 DEF Abstract!Next
<1>2. ASSUME NEW t \in Threads, AppendItem(t)
      PROVE  RecordsOK' /\ Apart' /\ UNCHANGED <<Owed, posted, dropped>>
  BY <1>2, AppendItemRecords
<1>3. ASSUME NEW p \in Submitters, Submitting(p)
      PROVE  RecordsOK' /\ Apart' /\ (Abstract!Next \/ UNCHANGED <<Owed, posted, dropped>>)
  <2>1. CASE SubmitTake(p)
    BY <2>1, SubmitTakeRecords
  <2>2. CASE do_batch_backend_process(p)
    <3>1. RecordsOK' /\ Apart' /\ Abstract!Pay
      BY <2>2, PostItemsRecords
    <3>2. QED BY <3>1 DEF Abstract!Next
  <2>3. QED BY <1>3, <2>1, <2>2 DEF Submitting
<1>4. CASE PostDetached
  <2>1. RecordsOK' /\ Apart' /\ Abstract!Pay
    BY <1>4, PostDetachedRecords
  <2>2. QED BY <2>1 DEF Abstract!Next
<1>5. CASE \/ \E t \in Threads : CliSubmit(t) \/ ReadSched(t) \/ DelSched(t) \/ AddSched(t) \/ NoteSched(t)
           \/ Fire \/ Rearm \/ cw_cdr_engine_term \/ ReloadBegin \/ Reload \/ UNCHANGED vars
  BY <1>5, OtherRecords
<1>6. "svc" \in Submitters /\ "term" \in Submitters
  BY DEF Submitters
<1>7. QED
  BY <1>1, <1>2, <1>3, <1>4, <1>5, <1>6, SMTT(30) DEF Next, Caller, Service

\* At the start no record is owed, as in CdrLog.
LEMMA RecordsInit ==
  ASSUME Init
  PROVE  CdrInv /\ Abstract!Init
<1>1. ControlOK
  BY ControlInit
<1>2. /\ batch = <<>> /\ cdr = [t \in Threads |-> None] /\ pc = [t \in Threads |-> "idle"]
      /\ items = [p \in Submitters |-> <<>>]
      /\ posting = {} /\ posted = [c \in Cdrs |-> 0] /\ dropped = {}
  BY DEF Init
<1>3. RecordsOK
  BY <1>2 DEF RecordsOK
<1>4. /\ Carried = {} /\ Records(batch) = {} /\ Done = {}
      /\ \A p \in Submitters : Records(items[p]) = {} /\ Distinct(items[p])
  BY <1>2, EmptyRecords, CdrAssumption DEF Carried, Done
<1>5. Taken = {}
  BY <1>4, SMTT(30) DEF Taken, Submitters
<1>6. Apart
  BY <1>2, <1>4, <1>5, EmptyRecords, SMTT(30) DEF Apart, CarriedOnce, ItemsApart, PostedOnce, SetsApart, Submitters
<1>7. Owed = {}
  BY <1>2, <1>4, <1>5, OwedParts
<1>8. QED BY <1>1, <1>2, <1>3, <1>6, <1>7 DEF CdrInv, Abstract!Init

\* The invariant holds throughout.
LEMMA RecordsCorrect == Spec => []CdrInv
<1>1. Init => CdrInv
  BY RecordsInit
<1>2. CdrInv /\ [Next]_vars => CdrInv'
  BY RecordsStep
<1>3. QED BY <1>1, <1>2, PTL DEF Spec

\* The batch, its counters and its timer keep their types.
THEOREM CdrTypeCorrect == Spec => []TypeOK
<1>1. Init => TypeOK
  <2>1. ASSUME Init PROVE TypeOK
    <3>1. enabled \in BOOLEAN /\ batchmode \in BOOLEAN /\ cli \in BOOLEAN /\ batchlock \in BOOLEAN
      BY <2>1, Zenon DEF Init
    <3>2. CdrInv
      BY <2>1, RecordsInit
    <3>3. QED BY <3>1, <3>2 DEF CdrInv, ControlOK, RecordsOK, TypeOK
  <2>2. QED BY <2>1, SMTT(30)
<1>2. TypeOK /\ CdrInv' /\ [Next]_vars => TypeOK'
  <2>1. ASSUME TypeOK, CdrInv', [Next]_vars PROVE TypeOK'
    <3>1. /\ enabled' \in BOOLEAN /\ batchmode' \in BOOLEAN
          /\ cli' \in BOOLEAN /\ batchlock' \in BOOLEAN
      BY <2>1, FlagsStep
    <3>2. QED BY <2>1, <3>1 DEF CdrInv, ControlOK, RecordsOK, TypeOK
  <2>2. QED BY <2>1, SMTT(30)
<1>3. QED BY <1>1, <1>2, RecordsCorrect, PTL DEF Spec

\* No record is in two places or posted twice, however detaching, submissions, the
\* end of the program and reloads interleave: the lists stay disjoint and without
\* repetitions, and each action moves records from one of them to another.
THEOREM NeverTwiceCorrect == Spec => []NeverTwice
<1>1. CdrInv => NeverTwice
  BY ApartOnce DEF CdrInv
<1>2. QED BY <1>1, RecordsCorrect, PTL

\* The batch implements the log: what cw_cdr_detach takes over is owed, wherever it
\* then is, until it is written, and every record written was owed or new.
THEOREM CdrLogRefined == Spec => ImplementsCdrLog
<1>1. Init => Abstract!Init
  BY RecordsInit
<1>2. CdrInv /\ [Next]_vars => [Abstract!Next]_(Abstract!vars)
  BY RecordsStep DEF Abstract!vars
<1>3. QED BY <1>1, <1>2, RecordsCorrect, PTL DEF Spec, ImplementsCdrLog, Abstract!Spec
=============================================================================
