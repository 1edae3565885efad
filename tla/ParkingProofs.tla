--------------------------- MODULE ParkingProofs ---------------------------
(***************************************************************************)
(* Proofs about module Parking: for any calls, spaces and retrievers, a    *)
(* call in the lot is held once and can be dialled, and the parking thread *)
(* keeps off a call whose own thread is still parking it.                  *)
(***************************************************************************)
EXTENDS Parking, TLAPS

-----------------------------------------------------------------------------
(* The inductive invariant *)

Users == [call : Calls, num : Nums, notquiteyet : BOOLEAN, due : BOOLEAN, reused : BOOLEAN]
Taken == [pc : {"took", "bridged"}, call : Calls, num : Nat]

\* TypeOK, and the types of what it leaves out.
LotOK ==
    /\ parking_range \in Nat \ {0} /\ parking_offset \in 0 .. parking_range
    /\ parkinglot \subseteq Users /\ exten \subseteq Nums
    /\ parker \in [Calls -> [pc : {"start", "linked", "notified", "announced", "done"}, num : 0 .. parking_range]]
    /\ held \in [Calls -> {"caller", "lot", "left", "nobody"} \union Retrievers]
    /\ retriever \in [Retrievers -> {Idle} \union Taken]

ThreadOK ==
    /\ thread \in {"scan", "ready", "select"}
    /\ rfds \subseteq Calls /\ hungup \subseteq Calls

\* Space and call name the entry; who holds the call is told by where it is.
Unique == \A e, f \in parkinglot : e.num = f.num \/ e.call = f.call => e = f
LotHolds == \A c \in Calls : held[c] = "lot" <=> c \in Parked
TakerHolds == \A r \in Retrievers : retriever[r] # Idle => held[retriever[r].call] = r
NotYet == \A c \in Calls : parker[c].pc = "start" <=> held[c] = "caller"

\* The parker has a number, that of its entry if it has one, until it is done.
Numbered == \A c \in Calls : parker[c].pc \in {"linked", "notified", "announced"} => parker[c].num \in Nums

SameNum ==
    \A e \in parkinglot :
        parker[e.call].pc \in {"linked", "notified", "announced"} => parker[e.call].num = e.num

\* An extension about to be removed is that of no call but one that reuses the number.
Marked ==
    \A r \in Retrievers : \A e \in parkinglot :
        retriever[r].pc = "took" /\ retriever[r].num = e.num => e.reused

\* The thread may touch a call that parks itself once its own thread is done.
OwnThreadDone ==
    \A e \in parkinglot : e.call \in Direct /\ ~e.notquiteyet => parker[e.call].pc = "done" \/ stale

HeldInv == LotOK /\ Unique /\ LotHolds /\ TakerHolds /\ NotYet /\ Numbered
Numbers == SameNum /\ Marked /\ Reachable /\ OwnThreadDone
ParkInv == HeldInv /\ ThreadOK /\ Numbers

-----------------------------------------------------------------------------
(* Lemmas on the lot *)

\* A number found free is one of the spaces, and in use nowhere.
LEMMA SlotFree ==
    ASSUME LotOK, NEW i \in Free
    PROVE  Slot(i) \in Nums /\ \A e \in parkinglot : e.num # Slot(i)
<1>1. i \in 0 .. parking_range - 1 /\ Slot(i) \notin Used
  BY DEF Free
<1>2. Slot(i) \in Nums
  BY <1>1 DEF LotOK, Slot, Nums
<1>3. QED BY <1>1, <1>2 DEF Used

\* A new entry has a free number and a call that was not in the lot.
LEMMA NewEntry ==
    ASSUME LotOK, Unique, NEW c \in Calls, c \notin Parked, NEW i \in Free,
           parkinglot' = parkinglot \union {NewUser(c, Slot(i))}, UNCHANGED config
    PROVE  /\ parkinglot' \subseteq Users' /\ Unique' /\ Parked' = Parked \union {c}
<1> DEFINE f == NewUser(c, Slot(i))
<1>1. Users' = Users
  BY DEF Users, Nums, config
<1>2. f \in Users /\ f.call = c /\ f.num = Slot(i)
  <2>1. (c \in Direct) \in BOOLEAN
    OBVIOUS
  <2>2. Clearing(Slot(i)) \in BOOLEAN
    BY DEF Clearing
  <2>3. Slot(i) \in Nums
    BY SlotFree
  <2>4. QED BY <2>1, <2>2, <2>3 DEF NewUser, Users
<1> HIDE DEF f
<1>3. parkinglot' = parkinglot \union {f}
  BY DEF f
<1>4. \A e \in parkinglot : e.num # f.num /\ e.call # f.call
  BY <1>2, SlotFree DEF Parked
<1>5. parkinglot' \subseteq Users'
  BY <1>1, <1>2, <1>3 DEF LotOK
<1>6. Unique'
  BY <1>3, <1>4 DEF Unique
<1>7. Parked' = Parked \union {c}
  BY <1>2, <1>3 DEF Parked
<1>8. QED BY <1>5, <1>6, <1>7

\* An entry that changes keeps its call and number.
LEMMA ChangedEntry ==
    ASSUME LotOK, Unique, NEW e \in parkinglot, NEW f \in Users, f.call = e.call, f.num = e.num,
           Change(e, f), UNCHANGED config
    PROVE  parkinglot' \subseteq Users' /\ Unique' /\ Parked' = Parked
<1>1. Users' = Users
  BY DEF Users, Nums, config
<1>2. parkinglot' = (parkinglot \ {e}) \union {f}
  BY DEF Change
<1>3. parkinglot' \subseteq Users'
  BY <1>1, <1>2 DEF LotOK
<1>4. Unique'
  BY <1>2 DEF Unique
<1>5. Parked' = Parked
  BY <1>2 DEF Parked
<1>6. QED BY <1>3, <1>4, <1>5

\* Clearing notquiteyet and the end of the parking time leave the rest of an entry.
LEMMA CloseCall ==
    ASSUME LotOK, NEW e \in parkinglot
    PROVE  LET f == [e EXCEPT !.notquiteyet = FALSE]
               g == [e EXCEPT !.due = TRUE]
           IN  /\ f \in Users /\ f.call = e.call /\ f.num = e.num /\ f.reused = e.reused
               /\ g \in Users /\ g.call = e.call /\ g.num = e.num /\ g.reused = e.reused
               /\ g.notquiteyet = e.notquiteyet
<1>1. e \in [call : Calls, num : Nums, notquiteyet : BOOLEAN, due : BOOLEAN, reused : BOOLEAN]
  BY DEF LotOK, Users
<1>2. QED BY <1>1, Zenon DEF Users

-----------------------------------------------------------------------------
(* Who holds a call *)

\* Parker, holder and retriever of a call agree after every step.
LEMMA HeldStep ==
    ASSUME HeldInv, [Next]_vars
    PROVE  HeldInv'
<1> USE DEF HeldInv, LotHolds, TakerHolds, NotYet, Numbered
<1> DEFINE Lot == parkinglot' \subseteq Users' /\ Unique'
           Rest == /\ parking_offset' \in 0 .. parking_range /\ exten' \subseteq Nums
                   /\ parker' \in [Calls -> [pc : {"start", "linked", "notified", "announced", "done"},
                                             num : 0 .. parking_range]]
                   /\ held' \in [Calls -> {"caller", "lot", "left", "nobody"} \union Retrievers]
                   /\ retriever' \in [Retrievers -> {Idle} \union Taken]
           Agree == LotHolds' /\ TakerHolds' /\ NotYet' /\ Numbered'
<1>1. UNCHANGED config
  BY Zenon DEF Next, vars, Link, NoSpace, Announce, Notify, AddExtension, Finish, Expire, HangUp,
     do_parking_thread, Scan, Select, SelectReturns, park_exec, Take, RemoveExtension, Unbridge
<1>2. UNCHANGED <<parking_range, Nums, Users>>
  BY <1>1 DEF config, Nums, Users
<1> SUFFICES Lot /\ Rest /\ Agree
  BY <1>2 DEF LotOK
<1>3. UNCHANGED parkinglot => Lot /\ Parked' = Parked
  BY <1>2 DEF LotOK, Unique, Parked
<1>4. LotOK
  OBVIOUS
<1>5. ASSUME NEW c \in Calls, Link(c) PROVE Lot /\ Rest /\ Agree
  <2>1. PICK i \in Free :
            /\ parkinglot' = parkinglot \union {NewUser(c, Slot(i))}
            /\ parking_offset' = IF parkfindnext THEN Slot(i) ELSE parking_offset
            /\ parker' = [parker EXCEPT ![c] = [pc |-> "linked", num |-> Slot(i)]]
    BY <1>5, Zenon DEF Link
  <2>2. Slot(i) \in Nums
    BY SlotFree
  <2>3. held[c] = "caller" /\ c \notin Parked /\ held' = [held EXCEPT ![c] = "lot"] /\ UNCHANGED <<exten, retriever>>
    BY <1>5 DEF Link
  <2>4. Lot /\ Parked' = Parked \union {c}
    BY <1>1, <2>1, <2>3, NewEntry
  <2>5. parking_offset' \in 0 .. parking_range
    <3>1. parking_offset' \in {Slot(i), parking_offset}
      BY <2>1, Zenon
    <3>2. QED BY <2>2, <3>1 DEF LotOK, Nums
  <2>6. Rest
    BY <2>1, <2>2, <2>3, <2>5 DEF LotOK, Nums
  <2>7. Agree
    <3>1. LotHolds' /\ NotYet'
      BY <2>1, <2>3, <2>4 DEF LotOK
    <3>2. TakerHolds'
      BY <2>3, RetrieverNames DEF LotOK, Taken
    <3>3. Numbered'
      BY <1>2, <2>1, <2>2 DEF LotOK
    <3>4. QED BY <3>1, <3>2, <3>3
  <2>8. QED BY <2>4, <2>6, <2>7
<1>6. ASSUME NEW c \in Calls, NoSpace(c) PROVE Lot /\ Rest /\ Agree
  <2>1. /\ parker[c].pc = "start" /\ parker' = [parker EXCEPT ![c].pc = "done"]
        /\ \E h \in {"left", "nobody"} : held' = [held EXCEPT ![c] = h]
        /\ UNCHANGED <<parkinglot, parking_offset, exten, retriever>>
    BY <1>6, Zenon DEF NoSpace, lotvars
  <2>2. Rest
    BY <2>1 DEF LotOK
  <2>3. Agree
    BY <1>2, <1>3, <2>1, RetrieverNames DEF LotOK, Taken
  <2>4. QED BY <1>3, <2>1, <2>2, <2>3
<1>7. ASSUME NEW c \in Calls, Announce(c) PROVE Lot /\ Rest /\ Agree
  <2>1. Lot /\ Parked' = Parked
    <3>1. CASE UNCHANGED parkinglot
      BY <1>3, <3>1
    <3>2. ASSUME NEW e \in parkinglot, Ready(e) PROVE Lot /\ Parked' = Parked
      BY <1>1, <3>2, CloseCall, ChangedEntry, Zenon DEF Ready
    <3>3. QED BY <1>7, <3>1, <3>2 DEF Announce, Notify, AddExtension, Finish, lotvars
  <2>2. /\ UNCHANGED <<parking_offset, held, retriever>>
        /\ exten' \subseteq Nums
        /\ \/ \E p \in {"notified", "announced"} : parker' = [parker EXCEPT ![c].pc = p]
           \/ parker' = [parker EXCEPT ![c] = [pc |-> "done", num |-> 0]]
        /\ parker[c].pc # "start"
    <3>1. CASE Notify(c)
      BY <3>1 DEF Notify, lotvars, LotOK
    <3>2. CASE AddExtension(c)
      <4>1. parker[c].num \in Nums
        BY <3>2 DEF AddExtension
      <4>2. exten' \subseteq Nums
        BY <3>2, <4>1 DEF AddExtension, LotOK
      <4>3. QED BY <3>2, <4>2, Zenon DEF AddExtension
    <3>3. CASE Finish(c)
      BY <3>3 DEF Finish, LotOK
    <3>4. QED BY <1>7, <3>1, <3>2, <3>3 DEF Announce
  <2>3. Rest
    BY <2>2 DEF LotOK
  <2>4. \A d \in Calls : /\ parker'[d].pc = "start" <=> parker[d].pc = "start"
                         /\ parker'[d].pc = "done" \/ parker'[d].num = parker[d].num
    <3>1. ASSUME NEW p \in {"notified", "announced"}, parker' = [parker EXCEPT ![c].pc = p]
          PROVE  \A d \in Calls : /\ parker'[d].pc = "start" <=> parker[d].pc = "start"
                                  /\ parker'[d].num = parker[d].num
      BY <2>2, <3>1 DEF LotOK
    <3>2. CASE parker' = [parker EXCEPT ![c] = [pc |-> "done", num |-> 0]]
      BY <2>2, <3>2 DEF LotOK
    <3>3. QED BY <2>2, <3>1, <3>2
  <2>5. Numbered'
    <3>1. \A d \in Calls : parker'[d].pc \in {"linked", "notified", "announced"}
                           => parker[d].pc \in {"linked", "notified", "announced"} \/ d = c
      BY <2>2 DEF LotOK
    <3>2. parker[c].pc \in {"linked", "notified", "announced"}
      BY <1>7 DEF Announce, Notify, AddExtension, Finish
    <3>3. QED BY <1>2, <2>4, <3>1, <3>2
  <2>6. Agree
    BY <2>1, <2>2, <2>4, <2>5
  <2>7. QED BY <2>1, <2>3, <2>6
<1>8. ASSUME NEW c \in Calls, Expire(c) PROVE Lot /\ Rest /\ Agree
  <2>1. Lot /\ Parked' = Parked
    <3>1. PICK e \in parkinglot : Change(e, [e EXCEPT !.due = TRUE])
      BY <1>8, Zenon DEF Expire
    <3>2. QED BY <1>1, <3>1, CloseCall, ChangedEntry, Zenon
  <2>2. UNCHANGED <<parking_offset, exten, parker, held, retriever>>
    BY <1>8 DEF Expire
  <2>3. Rest /\ Agree
    BY <1>2, <2>1, <2>2 DEF LotOK
  <2>4. QED BY <2>1, <2>3
<1>9. CASE Scan
  <2> DEFINE Gone == {x \in parkinglot : Leaves(x)}
             out == {e.call : e \in Gone}
  <2>1. /\ parkinglot' = {e \in parkinglot : ~Leaves(e)}
        /\ held' = [c \in Calls |-> IF c \in out THEN "left" ELSE held[c]]
        /\ exten' = exten \ Removed /\ UNCHANGED <<parking_offset, parker, retriever>>
    BY <1>9, Zenon DEF Scan
  <2>2. parkinglot' = parkinglot \ Gone /\ Gone \subseteq parkinglot
    BY <2>1
  <2> HIDE DEF Gone
  <2>3. Lot
    BY <1>2, <2>2 DEF LotOK, Unique
  <2>4. Parked' = Parked \ out /\ out \subseteq Parked
    BY <2>2 DEF Parked, Unique
  <2>5. Rest
    BY <2>1 DEF LotOK
  <2> HIDE DEF out
  <2>6. Parked \subseteq Calls
    BY DEF LotOK, Users, Parked
  <2>7. Agree
    BY <1>2, <2>1, <2>4, <2>6, RetrieverNames DEF LotOK, Taken
  <2>8. QED BY <2>3, <2>5, <2>7
<1>10. CASE Select \/ SelectReturns \/ UNCHANGED vars \/ \E c \in Calls : HangUp(c)
  <2>1. UNCHANGED <<parkinglot, parking_offset, exten, parker, held, retriever>>
    BY <1>10, Zenon DEF Select, SelectReturns, vars, HangUp, lotvars
  <2>2. QED BY <1>2, <1>3, <2>1 DEF LotOK
<1>11. ASSUME NEW r \in Retrievers, NEW n \in Nums, Take(r, n) PROVE Lot /\ Rest /\ Agree
  <2>1. PICK e \in parkinglot :
            /\ parkinglot' = parkinglot \ {e}
            /\ retriever' = [retriever EXCEPT ![r] = [pc |-> "took", call |-> e.call, num |-> n]]
            /\ held' = [held EXCEPT ![e.call] = r]
    BY <1>11, Zenon DEF Take
  <2>2. retriever[r] = Idle /\ UNCHANGED <<parking_offset, exten, parker>>
    BY <1>11 DEF Take
  <2>3. e.call \in Calls /\ e.call \in Parked /\ n \in Nat
    BY DEF LotOK, Users, Parked, Nums
  <2>4. Lot
    BY <1>2, <2>1 DEF LotOK, Unique
  <2>5. Parked' = Parked \ {e.call}
    BY <2>1 DEF Parked, Unique
  <2>6. [pc |-> "took", call |-> e.call, num |-> n] \in Taken /\ [pc |-> "took", call |-> e.call, num |-> n].call = e.call
    BY <2>3 DEF Taken
  <2>7. Rest
    BY <2>1, <2>2, <2>3, <2>6 DEF LotOK
  <2>8. Agree
    <3>1. LotHolds' /\ NotYet'
      BY <2>1, <2>2, <2>3, <2>5, RetrieverNames DEF LotOK
    <3>2. TakerHolds'
      BY <2>1, <2>2, <2>3, <2>6, RetrieverNames DEF LotOK, Taken
    <3>3. Numbered'
      BY <1>2, <2>2 DEF LotOK
    <3>4. QED BY <3>1, <3>2, <3>3
  <2>9. QED BY <2>4, <2>7, <2>8
<1>12. ASSUME NEW r \in Retrievers, RemoveExtension(r) PROVE Lot /\ Rest /\ Agree
  <2>1. /\ retriever[r].pc = "took" /\ retriever' = [retriever EXCEPT ![r].pc = "bridged"]
        /\ exten' \subseteq exten /\ UNCHANGED <<parkinglot, parking_offset, parker, held>>
    BY <1>12 DEF RemoveExtension
  <2>2. retriever[r] \in Taken
    BY <2>1 DEF LotOK, Idle
  <2>3. Rest
    BY <2>1, <2>2 DEF LotOK, Taken
  <2>4. Agree
    BY <1>2, <1>3, <2>1, <2>2 DEF LotOK, Taken, Idle
  <2>5. QED BY <1>3, <2>1, <2>3, <2>4
<1>13. ASSUME NEW r \in Retrievers, Unbridge(r) PROVE Lot /\ Rest /\ Agree
  <2> DEFINE c == retriever[r].call
  <2>1. /\ retriever[r].pc = "bridged" /\ retriever' = [retriever EXCEPT ![r] = Idle]
        /\ held' = [held EXCEPT ![c] = "left"]
        /\ UNCHANGED <<parkinglot, parking_offset, exten, parker>>
    BY <1>13 DEF Unbridge, lotvars
  <2>2. retriever[r] # Idle /\ c \in Calls
    BY <2>1 DEF LotOK, Idle, Taken
  <2>3. held[c] = r
    BY <2>2
  <2> HIDE DEF c
  <2>4. Rest
    BY <2>1, <2>2 DEF LotOK
  <2>5. LotHolds' /\ NotYet'
    BY <1>3, <2>1, <2>2, <2>3, RetrieverNames DEF LotOK
  <2>6. TakerHolds'
    BY <2>1, <2>2, <2>3 DEF LotOK, Taken
  <2>7. Numbered'
    BY <1>2, <2>1 DEF LotOK
  <2>8. QED BY <1>3, <2>1, <2>4, <2>5, <2>6, <2>7
<1> HIDE DEF Lot, Rest, Agree
<1>14. QED
  BY <1>5, <1>6, <1>7, <1>8, <1>9, <1>10, <1>11, <1>12, <1>13
  DEF Next, do_parking_thread, park_exec

-----------------------------------------------------------------------------
(* Numbers, extensions and the parking thread *)

\* Every entry is one that was there before, with the same call and number, and the
\* parking thread may not touch it if it might not before.
Kept ==
    \A f \in parkinglot' : \E e \in parkinglot :
        e.call = f.call /\ e.num = f.num /\ e.reused = f.reused /\ e.notquiteyet = f.notquiteyet

\* A lot that only shrinks keeps its entries as they are.
LEMMA SmallLot ==
    ASSUME parkinglot' \subseteq parkinglot
    PROVE  Kept
  BY DEF Kept

\* So does the end of a call's parking time.
LEMMA ExpireKeeps ==
    ASSUME LotOK, NEW c \in Calls, Expire(c)
    PROVE  Kept
<1>1. PICK e \in parkinglot : Change(e, [e EXCEPT !.due = TRUE])
  BY Zenon DEF Expire
<1>2. QED BY <1>1, CloseCall, Zenon DEF Kept, Change

\* What follows from Kept when parkers and retrievers are left alone.
LEMMA KeptNumbers ==
    ASSUME Kept, UNCHANGED <<parker, retriever, stale>>
    PROVE  (SameNum => SameNum') /\ (Marked => Marked') /\ (OwnThreadDone => OwnThreadDone')
<1>1. SameNum => SameNum'
  BY DEF Kept, SameNum
<1>2. Marked => Marked'
  BY DEF Kept, Marked
<1>3. OwnThreadDone => OwnThreadDone'
  <2> SUFFICES ASSUME OwnThreadDone, NEW f \in parkinglot', f.call \in Direct, ~f.notquiteyet
               PROVE  parker'[f.call].pc = "done" \/ stale'
    BY Zenon DEF OwnThreadDone
  <2>1. PICK e \in parkinglot : e.call = f.call /\ e.notquiteyet = f.notquiteyet
    BY DEF Kept
  <2>2. parker[e.call].pc = "done" \/ stale
    BY <2>1, Zenon DEF OwnThreadDone
  <2>3. QED BY <2>1, <2>2, Zenon
<1>4. QED BY <1>1, <1>2, <1>3

\* As long as entries stay as they are, so does what can be dialled.
LEMMA KeptReachable ==
    ASSUME Kept, UNCHANGED <<parker, exten>>, Reachable
    PROVE  Reachable'
<1> SUFFICES ASSUME NEW f \in parkinglot', parker'[f.call].pc \in {"announced", "done"}, ~f.reused
             PROVE  f.num \in exten'
  BY Zenon DEF Reachable
<1>1. PICK e \in parkinglot : e.call = f.call /\ e.num = f.num /\ e.reused = f.reused
  BY DEF Kept
<1>2. parker[e.call].pc \in {"announced", "done"} /\ ~e.reused
  BY <1>1, Zenon
<1>3. e.num \in exten
  BY <1>2, Zenon DEF Reachable
<1>4. QED BY <1>1, <1>3, Zenon

\* A new call is not announced yet, its number is marked if it is to lose its extension,
\* and the thread may not touch it if it parks itself.
LEMMA LinkNumbers ==
    ASSUME HeldInv, Numbers, NEW c \in Calls, Link(c)
    PROVE  Numbers'
<1>1. PICK i \in Free :
          /\ parkinglot' = parkinglot \union {NewUser(c, Slot(i))}
          /\ parker' = [parker EXCEPT ![c] = [pc |-> "linked", num |-> Slot(i)]]
  BY Zenon DEF Link
<1>2. UNCHANGED <<exten, retriever, stale>>
  BY DEF Link
<1> DEFINE n == NewUser(c, Slot(i))
<1>3. /\ n.call = c /\ n.num = Slot(i) /\ n.reused = Clearing(Slot(i))
      /\ n.notquiteyet = (c \in Direct)
  BY Zenon DEF NewUser
<1> HIDE DEF n
<1>4. parkinglot' = parkinglot \union {n}
  BY <1>1 DEF n
<1>5. \A e \in parkinglot : e.call \in Calls /\ e.call # c
  <2>1. held[c] = "caller" /\ c \notin Parked
    BY DEF HeldInv, NotYet, LotHolds, Link
  <2>2. QED BY <2>1 DEF Parked, HeldInv, LotOK, Users
<1>6. /\ \A e \in parkinglot : parker'[e.call] = parker[e.call]
      /\ parker'[c] = [pc |-> "linked", num |-> Slot(i)]
  BY <1>1, <1>5 DEF HeldInv, LotOK
<1>7. SameNum'
  BY <1>3, <1>4, <1>6 DEF Numbers, SameNum
<1>8. Marked'
  <2> SUFFICES ASSUME NEW r \in Retrievers, NEW f \in parkinglot',
                      retriever[r].pc = "took", retriever[r].num = f.num
               PROVE  f.reused
    BY <1>2, Zenon DEF Marked
  <2>1. CASE f \in parkinglot
    BY <2>1, Zenon DEF Numbers, Marked
  <2>2. CASE f = n
    <3>1. Clearing(Slot(i))
      BY <1>3, <2>2, Zenon DEF Clearing
    <3>2. QED BY <1>3, <2>2, <3>1, Zenon
  <2>3. QED BY <1>4, <2>1, <2>2
<1>9. Reachable'
  <2> SUFFICES ASSUME NEW f \in parkinglot', parker'[f.call].pc \in {"announced", "done"}, ~f.reused
               PROVE  f.num \in exten
    BY <1>2, Zenon DEF Reachable
  <2>1. f # n
    BY <1>3, <1>6
  <2>2. f \in parkinglot /\ parker[f.call].pc \in {"announced", "done"}
    BY <1>4, <1>6, <2>1
  <2>3. QED BY <2>2, Zenon DEF Numbers, Reachable
<1>10. OwnThreadDone'
  <2> SUFFICES ASSUME NEW f \in parkinglot', f.call \in Direct, ~f.notquiteyet
               PROVE  parker'[f.call].pc = "done" \/ stale
    BY <1>2, Zenon DEF OwnThreadDone
  <2>1. f # n
    BY <1>3, Zenon
  <2>2. f \in parkinglot
    BY <1>4, <2>1
  <2>3. parker[f.call].pc = "done" \/ stale
    BY <2>2, Zenon DEF Numbers, OwnThreadDone
  <2>4. QED BY <1>6, <2>2, <2>3, Zenon
<1>11. QED BY <1>7, <1>8, <1>9, <1>10, Zenon DEF Numbers

\* A call that finds no space is not in the lot.
LEMMA NoSpaceNumbers ==
    ASSUME HeldInv, Numbers, NEW c \in Calls, NoSpace(c)
    PROVE  Numbers'
<1>1. /\ UNCHANGED <<parkinglot, exten, retriever, stale>>
      /\ parker' = [parker EXCEPT ![c] = [parker[c] EXCEPT !.pc = "done"]]
  BY Zenon DEF NoSpace, lotvars
<1>2. \A e \in parkinglot : e.call \in Calls /\ e.call # c
  <2>1. held[c] = "caller" /\ c \notin Parked
    BY DEF HeldInv, NotYet, LotHolds, NoSpace
  <2>2. QED BY <2>1 DEF Parked, HeldInv, LotOK, Users
<1>3. \A e \in parkinglot : parker'[e.call] = parker[e.call]
  BY <1>1, <1>2, Zenon DEF HeldInv, LotOK
<1>4. SameNum' /\ Marked'
  BY <1>1, <1>3, Zenon DEF Numbers, SameNum, Marked
<1>5. Reachable' /\ OwnThreadDone'
  BY <1>1, <1>3, Zenon DEF Numbers, Reachable, OwnThreadDone
<1>6. QED BY <1>4, <1>5, Zenon DEF Numbers

\* Entries are of calls.
LEMMA LotCalls ==
    ASSUME LotOK
    PROVE  \A e \in parkinglot : e.call \in Calls
  BY DEF LotOK, Users

\* The wake-up of the parking thread leaves numbers and extensions alone.
LEMMA NotifyNumbers ==
    ASSUME HeldInv, Numbers, NEW c \in Calls, Notify(c)
    PROVE  Numbers'
<1>1. UNCHANGED parkinglot /\ UNCHANGED exten /\ UNCHANGED <<retriever, stale>>
  BY Zenon DEF Notify, lotvars
<1>2. parker[c].pc = "linked" /\ parker' = [parker EXCEPT ![c].pc = "notified"]
  BY DEF Notify
<1>3. \A d \in Calls : /\ parker'[d].num = parker[d].num
                       /\ parker'[d].pc = parker[d].pc \/ (parker[d].pc = "linked" /\ parker'[d].pc = "notified")
  BY <1>2 DEF HeldInv, LotOK
<1>4. \A e \in parkinglot : e.call \in Calls
  BY LotCalls DEF HeldInv
<1>5. SameNum'
  BY <1>1, <1>3, <1>4 DEF Numbers, SameNum
<1>6. Marked'
  BY <1>1, Zenon DEF Numbers, Marked
<1>7. Reachable'
  <2>1. \A e \in parkinglot : parker'[e.call].pc \in {"announced", "done"} => parker[e.call].pc \in {"announced", "done"}
    BY <1>3, <1>4
  <2>2. QED BY <1>1, <2>1, Zenon DEF Numbers, Reachable
<1>8. OwnThreadDone'
  <2>1. \A e \in parkinglot : parker[e.call].pc = "done" => parker'[e.call].pc = "done"
    BY <1>3, <1>4
  <2>2. QED BY <1>1, <2>1, Zenon DEF Numbers, OwnThreadDone
<1>9. QED BY <1>5, <1>6, <1>7, <1>8, Zenon DEF Numbers

\* The extension added is that of the entry.
LEMMA AddExtensionNumbers ==
    ASSUME HeldInv, Numbers, NEW c \in Calls, AddExtension(c)
    PROVE  Numbers'
<1>1. UNCHANGED parkinglot /\ UNCHANGED <<retriever, stale>>
  BY Zenon DEF AddExtension
<1>2. /\ parker[c].pc = "notified" /\ parker' = [parker EXCEPT ![c].pc = "announced"]
      /\ exten' = exten \union {parker[c].num}
  BY DEF AddExtension
<1>3. \A d \in Calls : /\ parker'[d].num = parker[d].num
                       /\ parker'[d].pc = parker[d].pc \/ (d = c /\ parker'[d].pc = "announced")
  BY <1>2 DEF HeldInv, LotOK
<1>4. \A e \in parkinglot : e.call \in Calls
  BY LotCalls DEF HeldInv
<1>5. SameNum'
  BY <1>1, <1>2, <1>3, <1>4 DEF Numbers, SameNum
<1>6. Marked'
  BY <1>1, Zenon DEF Numbers, Marked
<1>7. Reachable'
  <2> SUFFICES ASSUME NEW e \in parkinglot, parker'[e.call].pc \in {"announced", "done"}, ~e.reused
               PROVE  e.num \in exten'
    BY <1>1, Zenon DEF Reachable
  <2>1. CASE e.call = c
    BY <1>2, <2>1 DEF Numbers, SameNum
  <2>2. CASE e.call # c
    <3>1. parker[e.call].pc \in {"announced", "done"}
      BY <1>3, <1>4, <2>2
    <3>2. e.num \in exten
      BY <3>1, Zenon DEF Numbers, Reachable
    <3>3. QED BY <1>2, <3>2
  <2>3. QED BY <2>1, <2>2
<1>8. OwnThreadDone'
  <2>1. \A e \in parkinglot : parker[e.call].pc = "done" => parker'[e.call].pc = "done"
    BY <1>2, <1>3, <1>4
  <2>2. QED BY <1>1, <2>1, Zenon DEF Numbers, OwnThreadDone
<1>9. QED BY <1>5, <1>6, <1>7, <1>8, Zenon DEF Numbers

\* A thread that is done opens its own entry, or, if that was freed, any; this is
\* what stale records.
LEMMA FinishNumbers ==
    ASSUME HeldInv, Numbers, NEW c \in Calls, Finish(c)
    PROVE  Numbers'
<1>1. UNCHANGED exten /\ UNCHANGED retriever /\ stale' = (stale \/ Freed(c))
  BY Zenon DEF Finish
<1>2. parker[c].pc = "announced" /\ parker' = [parker EXCEPT ![c] = [pc |-> "done", num |-> 0]]
  BY DEF Finish
<1>3. \A d \in Calls : parker'[d] = parker[d] \/ (d = c /\ parker'[d].pc = "done")
  BY <1>2 DEF HeldInv, LotOK
<1>4. \A e \in parkinglot : e.call \in Calls
  BY LotCalls DEF HeldInv
<1> DEFINE Descend == \A f \in parkinglot' : \E e \in parkinglot :
                        /\ e.call = f.call /\ e.num = f.num /\ e.reused = f.reused
                        /\ f = e \/ f.call = c \/ Freed(c)
<1>5. Descend
  <2>1. CASE UNCHANGED parkinglot
    BY <2>1
  <2>2. ASSUME NEW e \in parkinglot, Ready(e), e.call = c \/ Freed(c) PROVE Descend
    <3> DEFINE g == [e EXCEPT !.notquiteyet = FALSE]
    <3>1. g.call = e.call /\ g.num = e.num /\ g.reused = e.reused
      BY CloseCall DEF HeldInv
    <3>2. parkinglot' = (parkinglot \ {e}) \union {g}
      BY <2>2 DEF Ready, Change
    <3> HIDE DEF g
    <3>3. QED BY <2>2, <3>1, <3>2
  <2>3. QED BY <2>1, <2>2, Zenon DEF Finish
<1>6. SameNum'
  BY <1>3, <1>4, <1>5 DEF Numbers, SameNum
<1>7. Marked'
  <2> SUFFICES ASSUME NEW r \in Retrievers, NEW f \in parkinglot',
                      retriever[r].pc = "took", retriever[r].num = f.num
               PROVE  f.reused
    BY <1>1, Zenon DEF Marked
  <2>1. PICK e \in parkinglot : e.num = f.num /\ e.reused = f.reused
    BY <1>5
  <2>2. e.reused
    BY <2>1, Zenon DEF Numbers, Marked
  <2>3. QED BY <2>1, <2>2, Zenon
<1>8. Reachable'
  <2> SUFFICES ASSUME NEW f \in parkinglot', parker'[f.call].pc \in {"announced", "done"}, ~f.reused
               PROVE  f.num \in exten
    BY <1>1, Zenon DEF Reachable
  <2>1. PICK e \in parkinglot : e.call = f.call /\ e.num = f.num /\ e.reused = f.reused
    BY <1>5
  <2>2. parker[e.call].pc \in {"announced", "done"}
    BY <1>2, <1>3, <1>4, <2>1
  <2>3. e.num \in exten
    BY <2>1, <2>2, Zenon DEF Numbers, Reachable
  <2>4. QED BY <2>1, <2>3, Zenon
<1>9. OwnThreadDone'
  <2> SUFFICES ASSUME NEW f \in parkinglot', f.call \in Direct, ~f.notquiteyet, ~stale, ~Freed(c)
               PROVE  parker'[f.call].pc = "done"
    BY <1>1, Zenon DEF OwnThreadDone
  <2>1. parker'[c].pc = "done"
    BY <1>2 DEF HeldInv, LotOK
  <2>2. CASE f.call = c
    BY <2>1, <2>2
  <2>3. CASE f.call # c
    <3>1. f \in parkinglot
      BY <1>5, <2>3, Zenon
    <3>2. parker[f.call].pc = "done"
      BY <3>1, Zenon DEF Numbers, OwnThreadDone
    <3>3. QED BY <1>3, <1>4, <3>1, <3>2
  <2>4. QED BY <2>2, <2>3
<1>10. QED BY <1>6, <1>7, <1>8, <1>9, Zenon DEF Numbers

\* The scan removes the extensions of the calls that leave, which no other call has.
LEMMA ScanNumbers ==
    ASSUME HeldInv, Numbers, Scan
    PROVE  Numbers'
<1>1. UNCHANGED <<parker, retriever, stale>>
  BY Zenon DEF Scan
<1>2. parkinglot' = {e \in parkinglot : ~Leaves(e)} /\ exten' = exten \ Removed
  BY Zenon DEF Scan
<1>3. Kept
  <2>1. parkinglot' \subseteq parkinglot
    BY <1>2, Zenon
  <2>2. QED BY <2>1, SmallLot
<1>4. SameNum' /\ Marked' /\ OwnThreadDone'
  BY <1>1, <1>3, KeptNumbers, Zenon DEF Numbers
<1>5. Reachable'
  <2> SUFFICES ASSUME NEW e \in parkinglot', parker'[e.call].pc \in {"announced", "done"}, ~e.reused
               PROVE  e.num \in exten'
    BY Zenon DEF Reachable
  <2>1. e \in parkinglot /\ ~Leaves(e)
    BY <1>2, Zenon
  <2>2. e.num \in exten
    <3>1. parker[e.call].pc \in {"announced", "done"}
      BY <1>1
    <3>2. QED BY <2>1, <3>1, Zenon DEF Numbers, Reachable
  <2>3. e.num \notin Removed
    <3> SUFFICES ASSUME NEW x \in parkinglot, Leaves(x), e.num = x.num PROVE FALSE
      BY Zenon DEF Removed
    <3>1. e = x
      BY <2>1 DEF HeldInv, Unique
    <3>2. QED BY <2>1, <3>1, Zenon
  <2>4. QED BY <1>2, <2>2, <2>3
<1>6. QED BY <1>4, <1>5, Zenon DEF Numbers

\* A retriever takes the only entry with the number.
LEMMA TakeNumbers ==
    ASSUME HeldInv, Numbers, NEW r \in Retrievers, NEW n \in Nums, Take(r, n)
    PROVE  Numbers'
<1>1. UNCHANGED parker /\ UNCHANGED stale /\ UNCHANGED exten
  BY Zenon DEF Take
<1>2. PICK e \in parkinglot :
          /\ e.num = n /\ parkinglot' = parkinglot \ {e}
          /\ retriever' = [retriever EXCEPT ![r] = [pc |-> "took", call |-> e.call, num |-> n]]
  BY Zenon DEF Take
<1>3. SameNum'
  BY <1>1, <1>2 DEF Numbers, SameNum
<1>4. \A f \in parkinglot' : f \in parkinglot /\ f.num # n
  BY <1>2 DEF HeldInv, Unique
<1>5. Marked'
  <2> SUFFICES ASSUME NEW s \in Retrievers, NEW f \in parkinglot',
                      retriever'[s].pc = "took", retriever'[s].num = f.num
               PROVE  f.reused
    BY Zenon DEF Marked
  <2>1. s # r
    BY <1>2, <1>4 DEF HeldInv, LotOK
  <2>2. retriever'[s] = retriever[s]
    BY <1>2, <2>1 DEF HeldInv, LotOK
  <2>3. f \in parkinglot
    BY <1>4
  <2>4. retriever[s].pc = "took" /\ retriever[s].num = f.num
    BY <2>2
  <2>5. QED BY <2>3, <2>4, Zenon DEF Numbers, Marked
<1>6. Reachable'
  <2>1. Kept
    BY <1>4, SmallLot
  <2>2. QED BY <1>1, <2>1, KeptReachable, Zenon DEF Numbers
<1>7. OwnThreadDone'
  BY <1>1, <1>4, Zenon DEF Numbers, OwnThreadDone
<1>8. QED BY <1>3, <1>5, <1>6, <1>7, Zenon DEF Numbers

\* A retriever removes an extension that only a marked entry can have.
LEMMA RemoveExtensionNumbers ==
    ASSUME HeldInv, Numbers, NEW r \in Retrievers, RemoveExtension(r)
    PROVE  Numbers'
<1>1. UNCHANGED parkinglot /\ UNCHANGED parker /\ UNCHANGED stale
  BY Zenon DEF RemoveExtension
<1>2. /\ retriever[r].pc = "took" /\ retriever' = [retriever EXCEPT ![r].pc = "bridged"]
      /\ exten' = exten \ {retriever[r].num}
  BY DEF RemoveExtension
<1>3. SameNum' /\ OwnThreadDone'
  BY <1>1, Zenon DEF Numbers, SameNum, OwnThreadDone
<1>4. Marked'
  <2>1. \A s \in Retrievers : retriever'[s].pc = "took" => retriever'[s] = retriever[s]
    <3>1. retriever[r] \in Taken
      BY <1>2 DEF HeldInv, LotOK, Idle
    <3>2. retriever'[r].pc = "bridged"
      BY <1>2, <3>1 DEF HeldInv, LotOK, Taken
    <3>3. \A s \in Retrievers \ {r} : retriever'[s] = retriever[s]
      BY <1>2, Zenon DEF HeldInv, LotOK
    <3>4. QED BY <3>2, <3>3
  <2>2. QED BY <1>1, <2>1, Zenon DEF Numbers, Marked
<1>5. Reachable'
  <2> SUFFICES ASSUME NEW e \in parkinglot, parker[e.call].pc \in {"announced", "done"}, ~e.reused
               PROVE  e.num \in exten'
    BY <1>1, Zenon DEF Reachable
  <2>1. e.num \in exten
    BY Zenon DEF Numbers, Reachable
  <2>2. e.num # retriever[r].num
    BY <1>2, Zenon DEF Numbers, Marked
  <2>3. QED BY <1>2, <2>1, <2>2
<1>6. QED BY <1>3, <1>4, <1>5, Zenon DEF Numbers

\* The steps that touch neither numbers nor extensions.
LEMMA OtherNumbers ==
    ASSUME HeldInv, Numbers,
           \/ \E c \in Calls : Expire(c) \/ HangUp(c)
           \/ Select \/ SelectReturns \/ UNCHANGED vars
           \/ \E r \in Retrievers : Unbridge(r)
    PROVE  Numbers'
<1>1. ASSUME NEW c \in Calls, Expire(c) PROVE Numbers'
  <2>1. UNCHANGED <<parker, retriever, stale>> /\ UNCHANGED <<parker, exten>>
    BY <1>1, Zenon DEF Expire
  <2>2. Kept
    BY <1>1, ExpireKeeps DEF HeldInv
  <2>3. SameNum' /\ Marked' /\ OwnThreadDone'
    BY <2>1, <2>2, KeptNumbers, Zenon DEF Numbers
  <2>4. Reachable'
    BY <2>1, <2>2, KeptReachable, Zenon DEF Numbers
  <2>5. QED BY <2>3, <2>4, Zenon DEF Numbers
<1>2. CASE Select \/ SelectReturns \/ UNCHANGED vars \/ \E c \in Calls : HangUp(c)
  <2>1. /\ UNCHANGED parkinglot /\ UNCHANGED parker /\ UNCHANGED exten /\ UNCHANGED retriever
        /\ UNCHANGED stale
    BY <1>2, Zenon DEF Select, SelectReturns, vars, HangUp, lotvars
  <2>2. QED BY <2>1, Zenon DEF Numbers, SameNum, Marked, Reachable, OwnThreadDone
<1>3. ASSUME NEW r \in Retrievers, Unbridge(r) PROVE Numbers'
  <2>1. /\ UNCHANGED parkinglot /\ UNCHANGED parker /\ UNCHANGED exten /\ UNCHANGED stale
        /\ retriever' = [retriever EXCEPT ![r] = Idle]
    BY <1>3, Zenon DEF Unbridge, lotvars
  <2>2. \A s \in Retrievers : retriever'[s].pc = "took" => retriever'[s] = retriever[s]
    BY <2>1 DEF HeldInv, LotOK, Idle
  <2>3. Marked'
    BY <2>1, <2>2, Zenon DEF Numbers, Marked
  <2>4. QED BY <2>1, <2>3, Zenon DEF Numbers, SameNum, Reachable, OwnThreadDone
<1>4. QED BY <1>1, <1>2, <1>3, Zenon

\* Every step keeps what is known of numbers and extensions.
LEMMA NumbersStep ==
    ASSUME HeldInv, Numbers, [Next]_vars
    PROVE  Numbers'
<1>1. ASSUME NEW c \in Calls, Link(c) \/ NoSpace(c) \/ Announce(c) PROVE Numbers'
  BY <1>1, LinkNumbers, NoSpaceNumbers, NotifyNumbers, AddExtensionNumbers, FinishNumbers DEF Announce
<1>2. CASE Scan
  BY <1>2, ScanNumbers
<1>3. ASSUME NEW r \in Retrievers, (\E n \in Nums : Take(r, n)) \/ RemoveExtension(r) PROVE Numbers'
  BY <1>3, TakeNumbers, RemoveExtensionNumbers
<1>4. CASE \/ \E c \in Calls : Expire(c) \/ HangUp(c)
           \/ Select \/ SelectReturns \/ UNCHANGED vars
           \/ \E r \in Retrievers : Unbridge(r)
  BY <1>4, OtherNumbers
<1>5. QED BY <1>1, <1>2, <1>3, <1>4 DEF Next, do_parking_thread, park_exec

-----------------------------------------------------------------------------
(* The theorems *)

\* The invariant holds at the start.
LEMMA ParkInit ==
    ASSUME Init
    PROVE  ParkInv
<1>1. LotOK
  BY ParkingBounds DEF Init, LotOK, Users, Nums
<1>2. parkinglot = {} /\ Parked = {} /\ thread = "scan" /\ rfds = {} /\ hungup = {}
  BY DEF Init, Parked
<1>3. LotHolds /\ TakerHolds /\ NotYet /\ Numbered
  BY <1>2 DEF Init, LotHolds, TakerHolds, NotYet, Numbered
<1>4. QED BY <1>1, <1>2, <1>3 DEF ParkInv, HeldInv, ThreadOK, Numbers, Unique, SameNum, Marked, Reachable, OwnThreadDone

\* The parking thread's own variables keep their types.
LEMMA ThreadStep ==
    ASSUME HeldInv, ThreadOK, [Next]_vars
    PROVE  ThreadOK'
<1> USE DEF ThreadOK, threadvars
<1>1. \A e \in parkinglot : e.call \in Calls
  BY LotCalls DEF HeldInv
<1>2. ASSUME Wake, UNCHANGED hungup PROVE ThreadOK'
  BY <1>2 DEF Wake
<1>3. ASSUME UNCHANGED threadvars, UNCHANGED hungup PROVE ThreadOK'
  BY <1>3
<1>4. ASSUME NEW c \in Calls, Announce(c) PROVE ThreadOK'
  <2>1. UNCHANGED hungup /\ (Wake \/ UNCHANGED threadvars)
    BY <1>4, Zenon DEF Announce, Notify, AddExtension, Finish, Ready
  <2>2. QED BY <1>2, <1>3, <2>1
<1>5. ASSUME NEW c \in Calls, Link(c) \/ NoSpace(c) \/ Expire(c) PROVE ThreadOK'
  BY <1>3, <1>5 DEF Link, NoSpace, Expire
<1>6. ASSUME NEW c \in Calls, HangUp(c) PROVE ThreadOK'
  BY <1>6 DEF HangUp
<1>7. CASE Scan
  <2>1. rfds' \subseteq Calls
    <3>1. rfds' = {e.call : e \in {x \in {e \in parkinglot : ~Leaves(e)} : ~x.notquiteyet}}
      BY <1>7, Zenon DEF Scan
    <3>2. QED BY <1>1, <3>1, Zenon
  <2>2. hungup' \subseteq hungup /\ thread' = "ready"
    BY <1>7 DEF Scan
  <2>3. QED BY <2>1, <2>2
<1>8. CASE Select \/ SelectReturns
  BY <1>8 DEF Select, SelectReturns
<1>9. ASSUME NEW r \in Retrievers, park_exec(r) PROVE ThreadOK'
  <2>1. rfds' \subseteq rfds /\ hungup' \subseteq hungup /\ UNCHANGED thread
    BY <1>9 DEF park_exec, Take, RemoveExtension, Unbridge
  <2>2. QED BY <2>1
<1>10. CASE UNCHANGED vars
  BY <1>3, <1>10 DEF vars
<1>11. QED BY <1>4, <1>5, <1>6, <1>7, <1>8, <1>9, <1>10 DEF Next, do_parking_thread

\* The invariant holds throughout.
LEMMA ParkCorrect == Spec => []ParkInv
<1>1. Init => ParkInv
  BY ParkInit
<1>2. ParkInv /\ [Next]_vars => ParkInv'
  BY HeldStep, NumbersStep, ThreadStep DEF ParkInv
<1>3. QED BY <1>1, <1>2, PTL DEF Spec

\* Every number in use, and every extension, is that of a configured space.
THEOREM ParkingTypeCorrect == Spec => []TypeOK
<1>1. ParkInv => TypeOK
  BY DEF ParkInv, HeldInv, LotOK, ThreadOK, TypeOK, Used, Users
<1>2. QED BY <1>1, ParkCorrect, PTL

\* No two calls share a space, and the parking thread and the retrievers never both
\* get a call: who has it follows from where its parker and its retriever are.
THEOREM HeldOnceCorrect == Spec => []HeldOnce
<1>1. ParkInv => HeldOnce
  BY DEF ParkInv, HeldInv, Unique, LotHolds, TakerHolds, HeldOnce
<1>2. QED BY <1>1, ParkCorrect, PTL

\* A parked call that was announced has its extension, unless it got its number while
\* a retriever had still to remove the extension of the call before it.
THEOREM ReachableCorrect == Spec => []Reachable
<1>1. ParkInv => Reachable
  BY Zenon DEF ParkInv, Numbers
<1>2. QED BY <1>1, ParkCorrect, PTL

\* The parking thread takes no call whose own thread is still parking it, unless some
\* struct parkeduser was used after it was freed.
THEOREM ThreadKeepsOffCorrect == Spec => ThreadKeepsOff
<1> DEFINE Off == \A c \in Direct : held[c] = "lot" /\ held'[c] = "left" => parker[c].pc = "done" \/ stale
<1>1. ASSUME ParkInv, [Next]_vars PROVE Off
  <2> SUFFICES ASSUME NEW c \in Direct, held[c] = "lot", held'[c] = "left"
               PROVE  parker[c].pc = "done" \/ stale
    BY Zenon
  <2>1. c \in Calls /\ c \in Parked /\ c \in DOMAIN held
    BY <1>1, ParkingBounds DEF ParkInv, HeldInv, LotHolds, LotOK
  <2>2. CASE Scan
    <3>1. held' = [d \in Calls |-> IF d \in {e.call : e \in {x \in parkinglot : Leaves(x)}}
                                 THEN "left" ELSE held[d]]
      BY <2>2, Zenon DEF Scan
    <3>2. \E e \in parkinglot : Leaves(e) /\ e.call = c
      BY <2>1, <3>1
    <3>3. PICK e \in parkinglot : Leaves(e) /\ e.call = c
      BY <3>2
    <3>4. ~e.notquiteyet
      BY <3>3, Zenon DEF Leaves, TimedOut, GaveUp
    <3>5. QED BY <1>1, <3>3, <3>4, Zenon DEF ParkInv, Numbers, OwnThreadDone
  <2>3. ASSUME NEW d \in Calls, Link(d) \/ NoSpace(d) PROVE FALSE
    <3>1. held[d] = "caller" /\ held \in [Calls -> {"caller", "lot", "left", "nobody"} \union Retrievers]
      BY <1>1, <2>3 DEF ParkInv, HeldInv, LotOK, NotYet, Link, NoSpace
    <3>2. \E h : held' = [held EXCEPT ![d] = h]
      BY <2>3, Zenon DEF Link, NoSpace
    <3>3. QED BY <2>1, <3>1, <3>2
  <2>4. ASSUME NEW r \in Retrievers, NEW n \in Nums, Take(r, n) PROVE FALSE
    <3>1. PICK e \in parkinglot : held' = [held EXCEPT ![e.call] = r]
      BY <2>4, Zenon DEF Take
    <3>2. QED BY <2>1, <3>1, RetrieverNames
  <2>5. ASSUME NEW r \in Retrievers, Unbridge(r) PROVE FALSE
    <3>1. retriever[r] # Idle /\ held' = [held EXCEPT ![retriever[r].call] = "left"]
      BY <2>5 DEF Unbridge, Idle
    <3>2. held[retriever[r].call] = r
      BY <1>1, <3>1 DEF ParkInv, HeldInv, TakerHolds
    <3>3. retriever[r].call # c
      BY <3>2, RetrieverNames
    <3>4. QED BY <2>1, <3>1, <3>3
  <2>6. ASSUME UNCHANGED held PROVE FALSE
    BY <2>6
  <2>7. CASE \/ \E d \in Calls : Announce(d) \/ Expire(d) \/ HangUp(d)
             \/ Select \/ SelectReturns \/ UNCHANGED vars
             \/ \E r \in Retrievers : RemoveExtension(r)
    <3>1. UNCHANGED held
      BY <2>7, Zenon DEF Announce, Notify, AddExtension, Finish, Expire, HangUp, Select, SelectReturns,
         RemoveExtension, vars
    <3>2. QED BY <2>6, <3>1
  <2>8. QED BY <1>1, <2>2, <2>3, <2>4, <2>5, <2>7 DEF Next, do_parking_thread, park_exec
<1>2. ParkInv /\ [Next]_vars => [Off]_vars
  BY <1>1
<1>3. QED BY <1>2, ParkCorrect, PTL DEF Spec, ThreadKeepsOff
=============================================================================
