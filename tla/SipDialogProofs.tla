--------------------------- MODULE SipDialogProofs ---------------------------
(***************************************************************************)
(* Proofs about SipDialog, for every number of transmissions, INVITEs,     *)
(* rounds of authentication and packets.                                   *)
(***************************************************************************)
EXTENDS SipDialog, WellFoundedInduction, TLAPS

Packet == [msg : Msgs, fatal : BOOLEAN, armed : BOOLEAN, tries : 0 .. MaxTimer]

Pvt ==
    [live : BOOLEAN, outgoing : BOOLEAN, owner : {"none", "early", "up"}, answer : BOOLEAN,
     told : BOOLEAN, gone : BOOLEAN, needdestroy : BOOLEAN, pendingbye : BOOLEAN,
     canbye : BOOLEAN, pendinginvite : Nat, ocseq : Nat, icseq : Nat, authtries : Nat,
     autokillid : BOOLEAN, initid : BOOLEAN, packets : Seq(Packet), sent : SUBSET Msgs,
     locking : SUBSET Msgs, established : BOOLEAN, crossed : BOOLEAN, moved : BOOLEAN,
     late : BOOLEAN, heard : SUBSET Nat]

\* The messages of q that are still transmitted, or kept for their answer.
Waiting(q) == {q.packets[i].msg : i \in DOMAIN q.packets}

\* The requests q has sent.
Requests(q, meth) == {m \in q.sent : m.meth = meth /\ m.code = 0}

Invite(n) == Msg("INVITE", n, 0)
Ok == Msg("INVITE", 1, 200)

(***************************************************************************)
(* The packets.                                                            *)
(***************************************************************************)

\* A packet is of a message that was sent, and that of an INVITE is critical.
PacketOK(q, pkt) ==
    pkt.msg \in q.sent /\ (pkt.msg.meth = "INVITE" /\ pkt.msg.code = 0 => pkt.fatal)

Packets(q) == \A i \in DOMAIN q.packets : PacketOK(q, q.packets[i])

\* A set of numbers that is not empty has a first.
LEMMA FirstIn ==
  ASSUME NEW S, S \subseteq Nat, S # {}
  PROVE  FirstOf(S) \in S
<1> DEFINE R == OpToRel(<, Nat)
<1>1. IsWellFoundedOn(R, Nat)
  BY NatLessThanWellFounded, Zenon
<1>2. \A i, j \in Nat : i < j => <<i, j>> \in R
  BY Zenon DEF OpToRel
<1> HIDE DEF R
<1>3. PICK i \in S : \A j \in S : ~ (<<j, i>> \in R)
  BY <1>1, WFMin, Zenon
<1>4. ASSUME NEW j \in S PROVE i <= j
  <2>1. i \in Nat /\ j \in Nat
    OBVIOUS
  <2>2. ~ (j < i)
    BY <1>2, <1>3, <2>1, Zenon
  <2>3. QED
    BY <2>1, <2>2
<1>5. QED
  BY <1>4, Zenon DEF FirstOf

\* s without its i-th element.
Rest(s, i) == SubSeq(s, 1, i - 1) \o SubSeq(s, i + 1, Len(s))

\* Unlinking the i-th packet leaves the others.
LEMMA Unlinked ==
  ASSUME NEW s \in Seq(Packet), NEW i \in 1 .. Len(s)
  PROVE  /\ Rest(s, i) \in Seq(Packet)
         /\ \A j \in DOMAIN Rest(s, i) : \E k \in DOMAIN s : Rest(s, i)[j] = s[k]
         /\ \A k \in DOMAIN s : k # i => \E j \in DOMAIN Rest(s, i) : Rest(s, i)[j] = s[k]
<1> DEFINE t == Rest(s, i)
           a == SubSeq(s, 1, i - 1)
           b == SubSeq(s, i + 1, Len(s))
<1>0. i \in Nat /\ 1 <= i /\ Len(s) \in Nat /\ i <= Len(s)
  OBVIOUS
<1>1. a \in Seq(Packet) /\ Len(a) = i - 1 /\ \A j \in 1 .. (i - 1) : a[j] = s[j]
  BY <1>0
<1>2. /\ b \in Seq(Packet) /\ Len(b) = Len(s) - i
      /\ \A j \in 1 .. (Len(s) - i) : b[j] = s[i + j]
  BY <1>0
<1>3. t = a \o b
  BY Zenon DEF Rest
<1> HIDE DEF a, b, t
<1>4. /\ t \in Seq(Packet) /\ Len(t) = Len(a) + Len(b)
      /\ \A j \in 1 .. Len(a) : t[j] = a[j]
      /\ \A j \in 1 .. Len(b) : t[Len(a) + j] = b[j]
  <2>1. a \in Seq(Packet) /\ b \in Seq(Packet)
    BY <1>1, <1>2
  <2>2. a \o b \in Seq(Packet) /\ Len(a \o b) = Len(a) + Len(b)
    BY <2>1
  <2>3. \A j \in 1 .. Len(a) : (a \o b)[j] = a[j]
    BY <2>1
  <2>4. \A j \in 1 .. Len(b) : (a \o b)[Len(a) + j] = b[j]
    BY <2>1
  <2>5. QED
    BY <1>3, <2>2, <2>3, <2>4, Zenon
<1>5. Len(t) = Len(s) - 1 /\ DOMAIN t = 1 .. (Len(s) - 1) /\ DOMAIN s = 1 .. Len(s)
  <2>1. DOMAIN t = 1 .. Len(t) /\ DOMAIN s = 1 .. Len(s)
    BY <1>4
  <2>2. QED
    BY <1>0, <1>1, <1>2, <1>4, <2>1
<1>6. ASSUME NEW k \in 1 .. Len(s), k < i PROVE k \in 1 .. (Len(s) - 1) /\ t[k] = s[k]
  BY <1>0, <1>1, <1>4, <1>6
<1>7. ASSUME NEW k \in 1 .. Len(s), k > i PROVE k - 1 \in 1 .. (Len(s) - 1) /\ t[k - 1] = s[k]
  <2>1. k - i \in 1 .. Len(b) /\ i + (k - i) = k /\ Len(a) + (k - i) = k - 1
    BY <1>0, <1>1, <1>2, <1>7
  <2>2. t[Len(a) + (k - i)] = b[k - i] /\ b[k - i] = s[i + (k - i)]
    BY <1>2, <1>4, <2>1, Zenon
  <2>3. k - 1 \in 1 .. (Len(s) - 1)
    BY <1>0, <1>7
  <2>4. QED
    BY <2>1, <2>2, <2>3, Zenon
<1>8. ASSUME NEW j \in 1 .. (Len(s) - 1) PROVE \E k \in 1 .. Len(s) : t[j] = s[k]
  <2>1. CASE j < i
    <3>1. j \in 1 .. Len(s)
      BY <1>0
    <3>2. QED
      BY <1>6, <2>1, <3>1
  <2>2. CASE ~ (j < i)
    <3>1. j + 1 \in 1 .. Len(s) /\ j + 1 > i /\ (j + 1) - 1 = j
      BY <1>0, <2>2
    <3>2. t[(j + 1) - 1] = s[j + 1]
      BY <1>7, <3>1, Zenon
    <3>3. QED
      BY <3>1, <3>2, Zenon
  <2>3. QED
    BY <2>1, <2>2
<1>9. ASSUME NEW k \in 1 .. Len(s), k # i PROVE \E j \in 1 .. (Len(s) - 1) : t[j] = s[k]
  <2>1. k < i \/ k > i
    BY <1>0, <1>9
  <2>2. QED
    BY <1>6, <1>7, <2>1, Zenon
<1>10. \A j \in DOMAIN t : \E k \in DOMAIN s : t[j] = s[k]
  BY <1>5, <1>8, Zenon
<1>11. \A k \in DOMAIN s : k # i => \E j \in DOMAIN t : t[j] = s[k]
  BY <1>5, <1>9, Zenon
<1>12. QED
  BY <1>4, <1>10, <1>11, Zenon DEF t

\* A packet that is changed stays in its place.
LEMMA Replaced ==
  ASSUME NEW s \in Seq(Packet), NEW i \in DOMAIN s, NEW e \in Packet
  PROVE  /\ [s EXCEPT ![i] = e] \in Seq(Packet) /\ DOMAIN [s EXCEPT ![i] = e] = DOMAIN s
         /\ \A j \in DOMAIN s : [s EXCEPT ![i] = e][j] = IF j = i THEN e ELSE s[j]
  OBVIOUS

\* Stopping a packet's timer.
LEMMA PacketStopped ==
  ASSUME NEW pkt \in Packet
  PROVE  LET e == [pkt EXCEPT !.armed = FALSE]
         IN  e \in Packet /\ e.msg = pkt.msg /\ e.fatal = pkt.fatal
  BY Zenon DEF Packet

\* Repeating a packet.
LEMMA PacketTried ==
  ASSUME NEW pkt \in Packet, pkt.tries < MaxTimer
  PROVE  LET e == [pkt EXCEPT !.tries = @ + 1]
         IN  e \in Packet /\ e.msg = pkt.msg /\ e.fatal = pkt.fatal
  BY SipBounds DEF Packet

\* The packets an answer matches are positions in the list.
LEMMA MatchingNumbers ==
  ASSUME NEW q \in Pvt, NEW n, NEW resp, NEW meth
  PROVE  Matching(q, n, resp, meth) \subseteq Nat
<1>1. q.packets \in Seq(Packet)
  BY DEF Pvt
<1>2. DOMAIN q.packets \subseteq Nat
  BY <1>1
<1>3. QED
  BY <1>2, Zenon DEF Matching

\* A transmission links the packet of its message, and every packet stays.
LEMMA XmitPackets ==
  ASSUME NEW q \in Pvt, NEW m \in Msgs, NEW fatal \in BOOLEAN,
         Packets(q), m.meth = "INVITE" /\ m.code = 0 => fatal
  PROVE  LET r == __sip_reliable_xmit(q, m, fatal)
         IN  /\ r \in Pvt /\ Packets(r)
             /\ Waiting(q) \subseteq Waiting(r) /\ m \in Waiting(r)
<1> DEFINE pkt == [msg |-> m, fatal |-> fatal, armed |-> TRUE, tries |-> 0]
           s == q.packets
           t == <<pkt>> \o s
           r == __sip_reliable_xmit(q, m, fatal)
<1>1. pkt \in Packet
  BY SipBounds DEF Packet
<1>2. s \in Seq(Packet) /\ q.sent \subseteq Msgs
  BY DEF Pvt
<1> HIDE DEF pkt, s
<1>3. /\ t \in Seq(Packet) /\ Len(t) = Len(s) + 1 /\ Len(s) \in Nat
      /\ DOMAIN t = 1 .. (Len(s) + 1) /\ DOMAIN s = 1 .. Len(s)
  BY <1>1, <1>2
<1>4. t[1] = pkt /\ 1 \in DOMAIN t
  BY <1>1, <1>2
<1>5. ASSUME NEW i \in 1 .. Len(s) PROVE i + 1 \in DOMAIN t /\ t[i + 1] = s[i]
  BY <1>1, <1>2, <1>3
<1>6. ASSUME NEW j \in DOMAIN t PROVE j = 1 \/ \E i \in DOMAIN s : t[j] = s[i]
  <2>1. CASE j # 1
    <3>1. j - 1 \in 1 .. Len(s) /\ (j - 1) + 1 = j
      BY <1>3, <2>1
    <3>2. t[(j - 1) + 1] = s[j - 1]
      BY <1>5, <3>1, Zenon
    <3>3. QED
      BY <1>3, <3>1, <3>2, Zenon
  <2>2. QED
    BY <2>1
<1> HIDE DEF t
<1>7. m.n \in Nat
  BY DEF Msgs
<1>8. r \in Pvt /\ r.packets = t /\ r.sent = q.sent \union {m}
  BY <1>3, <1>7, Zenon DEF Pvt, __sip_reliable_xmit, t, s, pkt
<1> HIDE DEF r
<1>9. pkt.msg = m /\ pkt.fatal = fatal
  BY DEF pkt
<1>10. Packets(r)
  <2> SUFFICES ASSUME NEW j \in DOMAIN t PROVE PacketOK(r, t[j])
    BY <1>8 DEF Packets
  <2>1. CASE j = 1
    BY <1>4, <1>8, <1>9, <2>1 DEF PacketOK
  <2>2. CASE j # 1
    <3>1. PICK i \in DOMAIN s : t[j] = s[i]
      BY <1>6, <2>2
    <3>2. PacketOK(q, s[i])
      BY DEF Packets, s
    <3>3. QED
      BY <1>8, <3>1, <3>2 DEF PacketOK
  <2>3. QED
    BY <2>1, <2>2
<1>11. \A i \in DOMAIN s : \E j \in DOMAIN t : t[j] = s[i]
  BY <1>3, <1>5
<1>12. Waiting(q) \subseteq Waiting(r)
  BY <1>8, <1>11 DEF Waiting, s
<1>13. m \in Waiting(r)
  BY <1>4, <1>8, <1>9 DEF Waiting
<1>14. QED
  BY <1>8, <1>10, <1>12, <1>13 DEF r

\* Unlinking a packet leaves those of other messages.
LEMMA UnlinkPackets ==
  ASSUME NEW q \in Pvt, NEW i \in DOMAIN q.packets, Packets(q)
  PROVE  /\ Unlink(q, i) \in Pvt /\ Packets(Unlink(q, i))
         /\ Waiting(q) \subseteq Waiting(Unlink(q, i)) \union {q.packets[i].msg}
<1> DEFINE s == q.packets
           t == Rest(s, i)
           r == Unlink(q, i)
<1>0. s \in Seq(Packet)
  BY DEF Pvt
<1>1. DOMAIN s = 1 .. Len(s) /\ i \in 1 .. Len(s)
  BY <1>0
<1>2. /\ t \in Seq(Packet)
      /\ \A j \in DOMAIN t : \E k \in DOMAIN s : t[j] = s[k]
      /\ \A k \in DOMAIN s : k # i => \E j \in DOMAIN t : t[j] = s[k]
  BY <1>0, <1>1, Unlinked, Zenon
<1> HIDE DEF t
<1>3. r = [q EXCEPT !.packets = t]
  BY Zenon DEF Unlink, t, Rest
<1> HIDE DEF r
<1>7. r \in Pvt /\ r.packets = t /\ r.sent = q.sent
  BY <1>2, <1>3, Zenon DEF Pvt
<1>4. Packets(r)
  BY <1>2, <1>7 DEF Packets, PacketOK
<1>5. Waiting(q) \subseteq Waiting(r) \union {s[i].msg}
  BY <1>2, <1>7 DEF Waiting
<1>6. QED
  BY <1>7, <1>4, <1>5 DEF r

\* What the reliable transmission leaves alone.
Kept(q, r) ==
    /\ r.outgoing = q.outgoing /\ r.owner = q.owner /\ r.told = q.told /\ r.gone = q.gone
    /\ r.moved = q.moved /\ r.canbye = q.canbye /\ r.heard = q.heard
    /\ r.established = q.established /\ r.crossed = q.crossed
    /\ r.authtries = q.authtries

\* Nothing is sent between q and r.
Unsent(q, r) == r.sent = q.sent /\ r.ocseq = q.ocseq /\ r.pendingbye = q.pendingbye

\* A transmission adds its message to what was sent.
LEMMA XmitFields ==
  ASSUME NEW q \in Pvt, NEW m \in Msgs, NEW fatal \in BOOLEAN
  PROVE  LET r == __sip_reliable_xmit(q, m, fatal)
         IN  /\ Kept(q, r) /\ r.ocseq = q.ocseq /\ r.pendingbye = q.pendingbye
             /\ r.sent = q.sent \union {m}
             /\ r.pendinginvite = IF m.meth = "INVITE" /\ m.code = 0 THEN m.n ELSE q.pendinginvite
  BY DEF __sip_reliable_xmit, Pvt, Kept

\* r is q after the transmission of m.
Transmitted(q, m, r) ==
    /\ r \in Pvt /\ Packets(r) /\ Kept(q, r)
    /\ Waiting(q) \subseteq Waiting(r) /\ m \in Waiting(r)
    /\ r.ocseq = q.ocseq /\ r.pendingbye = q.pendingbye /\ r.sent = q.sent \union {m}
    /\ m.meth = "INVITE" /\ m.code = 0 => r.pendinginvite = m.n
    /\ ~ (m.meth = "INVITE" /\ m.code = 0) => r.pendinginvite = q.pendinginvite

\* __sip_reliable_xmit sends the message and queues its packet.
LEMMA Xmit ==
  ASSUME NEW q \in Pvt, NEW m \in Msgs, NEW fatal \in BOOLEAN,
         Packets(q), m.meth = "INVITE" /\ m.code = 0 => fatal
  PROVE  Transmitted(q, m, __sip_reliable_xmit(q, m, fatal))
<1> DEFINE r == __sip_reliable_xmit(q, m, fatal)
<1>1. /\ r \in Pvt /\ Packets(r)
      /\ Waiting(q) \subseteq Waiting(r) /\ m \in Waiting(r)
  BY XmitPackets, Zenon
<1>2. /\ Kept(q, r) /\ r.ocseq = q.ocseq /\ r.pendingbye = q.pendingbye
      /\ r.sent = q.sent \union {m}
      /\ r.pendinginvite = IF m.meth = "INVITE" /\ m.code = 0 THEN m.n ELSE q.pendinginvite
  BY XmitFields, Zenon
<1> HIDE DEF r
<1>3. Transmitted(q, m, r)
  BY <1>1, <1>2 DEF Transmitted
<1>4. QED
  BY <1>3 DEF r

\* Unlinking a packet changes nothing else.
LEMMA UnlinkFields ==
  ASSUME NEW q \in Pvt, NEW i
  PROVE  /\ Kept(q, Unlink(q, i)) /\ Unsent(q, Unlink(q, i))
         /\ Unlink(q, i).pendinginvite = q.pendinginvite
<1> DEFINE t == Rest(q.packets, i)
<1>1. Unlink(q, i) = [q EXCEPT !.packets = t]
  BY Zenon DEF Unlink, Rest
<1> HIDE DEF t
<1>2. QED
  BY <1>1 DEF Kept, Unsent, Pvt

\* r is q with at most the packet of one matching message unlinked, and the
\* pending INVITE that it settles cleared.
Acked(q, n, resp, meth, r) ==
    /\ r \in Pvt /\ Packets(r) /\ Kept(q, r) /\ Unsent(q, r)
    /\ r.pendinginvite \in {0, q.pendinginvite}
    /\ \A m \in Waiting(q) : m \notin Waiting(r) => m.n = n /\ (resp \/ m.meth = meth)
    /\ ~resp /\ n = q.pendinginvite /\ (\E m \in Waiting(q) : m.n = n /\ m.code = 0 /\ m.meth = meth)
          => r.pendinginvite = 0

\* __sip_ack.
LEMMA AckFields ==
  ASSUME NEW q \in Pvt, NEW n \in Nat, NEW resp \in BOOLEAN, NEW meth, Packets(q)
  PROVE  Acked(q, n, resp, meth, __sip_ack(q, n, resp, meth))
<1> DEFINE S == Matching(q, n, resp, meth)
           r == __sip_ack(q, n, resp, meth)
           u == Unlink(q, FirstOf(S))
<1>1. CASE S = {}
  <2>1. r = q
    BY <1>1 DEF __sip_ack
  <2>2. \A m \in Waiting(q) : ~ (~resp /\ m.n = n /\ m.code = 0 /\ m.meth = meth)
    BY <1>1 DEF Matching, Matches, Waiting
  <2> HIDE DEF r, S
  <2>3. QED
    BY <2>1, <2>2 DEF Kept, Unsent, r, Acked
<1>2. CASE S # {}
  <2>0. q.packets \in Seq(Packet)
    BY DEF Pvt
  <2>1. S \subseteq Nat
    BY MatchingNumbers, Zenon
  <2>2. FirstOf(S) \in S
    BY <1>2, <2>1, FirstIn, Zenon
  <2> DEFINE i == FirstOf(S)
  <2>3. i \in DOMAIN q.packets /\ Matches(q.packets[i], n, resp, meth)
    BY <2>2 DEF Matching
  <2>4. r = IF ~resp /\ n = q.pendinginvite THEN [u EXCEPT !.pendinginvite = 0] ELSE u
    BY <1>2 DEF __sip_ack
  <2> HIDE DEF S, i, r, u
  <2>5. u = Unlink(q, i)
    BY DEF u, i
  <2>6. /\ u \in Pvt /\ Packets(u)
        /\ Waiting(q) \subseteq Waiting(u) \union {q.packets[i].msg}
    BY <2>3, <2>5, UnlinkPackets, Zenon
  <2>7. Kept(q, u) /\ Unsent(q, u) /\ u.pendinginvite = q.pendinginvite
    BY <2>5, UnlinkFields, Zenon
  <2>8. /\ r \in Pvt /\ Kept(u, r) /\ Unsent(u, r) /\ r.packets = u.packets
        /\ r.pendinginvite = IF ~resp /\ n = q.pendinginvite THEN 0 ELSE u.pendinginvite
    BY <2>4, <2>6, Zenon DEF Pvt, Kept, Unsent
  <2>9. Packets(r) /\ Waiting(r) = Waiting(u)
    BY <2>6, <2>8 DEF Packets, PacketOK, Waiting, Unsent
  <2>10. q.packets[i].msg.n = n /\ (resp \/ q.packets[i].msg.meth = meth)
    BY <2>3 DEF Matches
  <2>11. Kept(q, r) /\ Unsent(q, r)
    BY <2>7, <2>8 DEF Kept, Unsent
  <2>12. \A m \in Waiting(q) : m \notin Waiting(r) => m.n = n /\ (resp \/ m.meth = meth)
    BY <2>6, <2>9, <2>10
  <2>13. QED
    BY <2>7, <2>8, <2>9, <2>11, <2>12 DEF r, Acked
<1>3. QED
  BY <1>1, <1>2

\* A provisional response changes no more than a packet's timer.
LEMMA SemiAckFields ==
  ASSUME NEW q \in Pvt, NEW n \in Nat, NEW meth, Packets(q)
  PROVE  LET r == __sip_semi_ack(q, n, meth)
         IN  /\ r \in Pvt /\ Packets(r) /\ Kept(q, r) /\ Unsent(q, r)
             /\ r.pendinginvite = q.pendinginvite /\ Waiting(r) = Waiting(q)
<1> DEFINE S == Matching(q, n, FALSE, meth)
           r == __sip_semi_ack(q, n, meth)
           i == FirstOf(S)
<1>1. CASE S = {}
  <2>1. r = q
    BY <1>1 DEF __sip_semi_ack
  <2> HIDE DEF r, S
  <2>2. QED
    BY <2>1 DEF Kept, Unsent, r
<1>2. CASE S # {}
  <2>0. q.packets \in Seq(Packet)
    BY DEF Pvt
  <2>1. S \subseteq Nat
    BY MatchingNumbers, Zenon
  <2>2. FirstOf(S) \in S
    BY <1>2, <2>1, FirstIn, Zenon
  <2>3. i \in DOMAIN q.packets
    BY <2>2 DEF Matching
  <2>4. r = [q EXCEPT !.packets[i].armed = FALSE]
    BY <1>2, Zenon DEF __sip_semi_ack
  <2> HIDE DEF S, i, r
  <2> DEFINE t == [q.packets EXCEPT ![i].armed = FALSE]
  <2>5. r = [q EXCEPT !.packets = t]
    BY <2>4
  <2> DEFINE e == [q.packets[i] EXCEPT !.armed = FALSE]
  <2>6. e \in Packet /\ e.msg = q.packets[i].msg /\ e.fatal = q.packets[i].fatal
    <3>1. q.packets[i] \in Packet
      BY <2>0, <2>3
    <3>2. QED
      BY <3>1, PacketStopped, Zenon
  <2>11. t = [q.packets EXCEPT ![i] = e]
    BY Zenon
  <2> HIDE DEF e, t
  <2>7. /\ t \in Seq(Packet) /\ DOMAIN t = DOMAIN q.packets
        /\ \A j \in DOMAIN t : t[j].msg = q.packets[j].msg /\ t[j].fatal = q.packets[j].fatal
    BY <2>0, <2>3, <2>6, <2>11, Replaced
  <2>8. r \in Pvt /\ Kept(q, r) /\ Unsent(q, r) /\ r.packets = t /\ r.pendinginvite = q.pendinginvite
    BY <2>5, <2>7, Zenon DEF Pvt, Kept, Unsent
  <2>9. Packets(r) /\ Waiting(r) = Waiting(q)
    BY <2>7, <2>8, SMTT(30), Zenon DEF Packets, PacketOK, Waiting, Unsent
  <2>10. QED
    BY <2>8, <2>9 DEF r
<1>3. QED
  BY <1>1, <1>2, Zenon

\* The owner's hangup of a call it placed takes every packet away.
LEMMA PretendAckFields ==
  ASSUME NEW q \in Pvt
  PROVE  LET r == __sip_pretend_ack(q)
         IN  /\ r \in Pvt /\ Packets(r) /\ Kept(q, r) /\ Unsent(q, r)
             /\ r.pendinginvite \in {0, q.pendinginvite}
<1> DEFINE r == __sip_pretend_ack(q)
           pending == \E i \in DOMAIN q.packets :
                        q.packets[i].msg.code = 0 /\ q.packets[i].msg.n = q.pendinginvite
           k == IF pending THEN 0 ELSE q.pendinginvite
<1>5. r = [q EXCEPT !.packets = <<>>, !.pendinginvite = k]
  BY Zenon DEF __sip_pretend_ack
<1> HIDE DEF r, pending
<1>6. k \in {0, q.pendinginvite} /\ k \in Nat
  BY DEF Pvt
<1> HIDE DEF k
<1>7. <<>> \in Seq(Packet)
  OBVIOUS
<1>8. r \in Pvt
  BY <1>5, <1>6, <1>7, Zenon DEF Pvt
<1>1. Kept(q, r) /\ Unsent(q, r) /\ r.pendinginvite \in {0, q.pendinginvite}
  BY <1>5, <1>6 DEF Pvt, Kept, Unsent
<1>2. r.packets = <<>>
  BY <1>5 DEF Pvt
<1>3. Packets(r)
  BY <1>2 DEF Packets
<1>4. QED
  BY <1>1, <1>3, <1>8 DEF r

\* b is q with the next number for a request in the dialog.
Advanced(q, b) ==
    /\ b \in Pvt /\ Kept(q, b) /\ b.sent = q.sent /\ b.packets = q.packets
    /\ b.pendinginvite = q.pendinginvite /\ b.pendingbye = q.pendingbye
    /\ b.ocseq = q.ocseq + 1

\* The next request has a number of its own.
LEMMA NextNumber ==
  ASSUME NEW q \in Pvt
  PROVE  Advanced(q, [q EXCEPT !.ocseq = @ + 1])
<1> DEFINE v == q.ocseq + 1
           b == [q EXCEPT !.ocseq = v]
<1>1. v \in Nat
  BY DEF Pvt
<1>2. [q EXCEPT !.ocseq = @ + 1] = b
  OBVIOUS
<1> HIDE DEF v
<1>3. b \in Pvt
  BY <1>1 DEF Pvt
<1>4. Kept(q, b)
  BY DEF Pvt, Kept
<1>5. /\ b.sent = q.sent /\ b.packets = q.packets
      /\ b.pendinginvite = q.pendinginvite /\ b.pendingbye = q.pendingbye
  BY DEF Pvt
<1>6. b.ocseq = v
  BY DEF Pvt
<1> HIDE DEF b
<1>7. QED
  BY <1>2, <1>3, <1>4, <1>5, <1>6, Zenon DEF Advanced, v

\* What was put off is sent: a BYE with the next number once the peer has
\* answered, a CANCEL with the INVITE's number before that.
LEMMA CheckPendings ==
  ASSUME NEW q \in Pvt, Packets(q)
  PROVE  LET r == check_pendings(q)
         IN  /\ r \in Pvt /\ Packets(r) /\ Kept(q, r) /\ ~r.pendingbye
             /\ r.pendinginvite = q.pendinginvite
             /\ Waiting(q) \subseteq Waiting(r)
             /\ ~q.pendingbye => r.sent = q.sent /\ r.ocseq = q.ocseq
             /\ q.pendingbye /\ q.canbye =>
                   r.sent = q.sent \union {Msg("BYE", q.ocseq + 1, 0)} /\ r.ocseq = q.ocseq + 1
             /\ q.pendingbye /\ ~q.canbye =>
                   r.sent = q.sent \union {Msg("CANCEL", q.ocseq, 0)} /\ r.ocseq = q.ocseq
<1> DEFINE r == check_pendings(q)
<1>1. q.ocseq \in Nat
  BY DEF Pvt
<1>2. Msg("BYE", q.ocseq + 1, 0) \in Msgs /\ Msg("CANCEL", q.ocseq, 0) \in Msgs
  BY <1>1 DEF Msg, Msgs
<1>3. CASE ~q.pendingbye
  <2>1. r = q
    BY <1>3 DEF check_pendings
  <2> HIDE DEF r
  <2>2. QED
    BY <1>3, <2>1 DEF Kept, r
<1>4. CASE q.pendingbye
  <2> DEFINE m == IF q.canbye THEN Msg("BYE", q.ocseq + 1, 0) ELSE Msg("CANCEL", q.ocseq, 0)
             a == IF q.canbye THEN [q EXCEPT !.ocseq = @ + 1] ELSE q
             x == __sip_reliable_xmit(a, m, FALSE)
  <2>1. a \in Pvt /\ Kept(q, a) /\ a.sent = q.sent /\ a.packets = q.packets
        /\ a.pendinginvite = q.pendinginvite
        /\ a.ocseq = IF q.canbye THEN q.ocseq + 1 ELSE q.ocseq
    <3>1. CASE q.canbye
      <4>1. a = [q EXCEPT !.ocseq = @ + 1]
        BY <3>1, Zenon
      <4> HIDE DEF a
      <4>2. Advanced(q, a)
        BY <4>1, NextNumber, Zenon
      <4>3. QED
        BY <3>1, <4>2, Zenon DEF Advanced
    <3>2. CASE ~q.canbye
      <4>1. a = q
        BY <3>2, Zenon
      <4> HIDE DEF a
      <4>2. QED
        BY <3>2, <4>1, Zenon DEF Kept
    <3>3. QED
      BY <3>1, <3>2, Zenon
  <2>2. Packets(a) /\ Waiting(a) = Waiting(q)
    BY <2>1 DEF Packets, PacketOK, Waiting
  <2>3. m \in Msgs /\ ~ (m.meth = "INVITE" /\ m.code = 0)
    BY <1>2 DEF Msg
  <2>4. r = [x EXCEPT !.pendingbye = FALSE, !.autokillid = TRUE]
    <3>1. CASE q.canbye
      BY <1>4, <2>1, <3>1 DEF check_pendings, sip_scheddestroy, InDialog
    <3>2. CASE ~q.canbye
      BY <1>4, <2>1, <3>2 DEF check_pendings, sip_scheddestroy
    <3>3. QED
      BY <3>1, <3>2
  <2> HIDE DEF a, m, x, r
  <2>11. FALSE \in BOOLEAN
    OBVIOUS
  <2>12. Transmitted(a, m, x)
    BY <2>1, <2>2, <2>3, <2>11, Xmit, Zenon DEF x
  <2>5. x \in Pvt /\ Packets(x) /\ Waiting(a) \subseteq Waiting(x)
    BY <2>12 DEF Transmitted
  <2>6. Kept(a, x) /\ x.ocseq = a.ocseq /\ x.sent = a.sent \union {m} /\ x.pendinginvite = a.pendinginvite
    BY <2>3, <2>12 DEF Transmitted
  <2>7. /\ r \in Pvt /\ Kept(x, r) /\ r.sent = x.sent /\ r.packets = x.packets /\ r.ocseq = x.ocseq
        /\ r.pendinginvite = x.pendinginvite /\ r.pendingbye = FALSE
    BY <2>4, <2>5, Zenon DEF Pvt, Kept
  <2>8. Packets(r) /\ Waiting(r) = Waiting(x)
    BY <2>5, <2>7, Zenon DEF Packets, PacketOK, Waiting
  <2>9. Kept(q, r)
    BY <2>1, <2>6, <2>7 DEF Kept
  <2>10. QED
    BY <1>4, <2>1, <2>2, <2>5, <2>6, <2>7, <2>8, <2>9 DEF r, m
<1>5. QED
  BY <1>3, <1>4

(***************************************************************************)
(* The inductive invariant.                                                *)
(***************************************************************************)

\* A dialog that is over has told the owner that it still has, or was moved.
GoneTold(q) == q.gone /\ q.owner # "none" => q.told \/ q.moved

\* The numbers: an INVITE has a number up to MaxInvites, and the BYEs, sent or
\* put off when the owner has left, later ones.
Numbers(q) ==
    /\ q.ocseq \in 1 .. (MaxInvites + 1) /\ q.authtries \in 0 .. MaxAuth
    /\ q.pendinginvite \in 0 .. q.ocseq
    /\ \A m \in Requests(q, "INVITE") : m.n <= q.ocseq
    /\ q.pendingbye => q.owner = "none"
    /\ Requests(q, "BYE") = {} => q.ocseq <= MaxInvites
    /\ Requests(q, "BYE") # {} =>
          /\ ~q.pendingbye /\ q.owner = "none"
          /\ \A m \in Requests(q, "INVITE") : m.n < q.ocseq

\* A challenge.
Challenges(m) == m.code \in {401, 407}

\* A response is to an INVITE or a BYE that was sent, and challenges none beyond
\* the bound on the numbers.
Replied(q, m) ==
    /\ m.meth = "INVITE" /\ m.code # 0 =>
          Invite(m.n) \in q.sent /\ (Challenges(m) => m.n < MaxInvites)
    /\ m.meth = "BYE" /\ m.code # 0 =>
          Msg("BYE", m.n, 0) \in q.sent /\ (Challenges(m) => m.n <= MaxInvites)

\* What the peer may have sent: responses to requests it was sent, one final
\* response to each INVITE; and a callee no request but BYE.
Replies(q, w) ==
    /\ w \subseteq Msgs
    /\ \A m \in w : Replied(q, m)
    /\ \A m, k \in w :
          /\ m.meth = "INVITE" /\ k.meth = "INVITE" /\ m.n = k.n
          /\ m.code \in Final /\ k.code \in Final
          => m.code = k.code
    /\ q.outgoing => \A m \in w : m.code = 0 => m.meth = "BYE"

\* A call we received: our 200 is sent when the owner answers, and a hangup
\* after it that does not cross the ACK sends a BYE.
Callee(q) == ~q.outgoing =>
    /\ Requests(q, "INVITE") = {}
    /\ q.owner = "early" => Ok \notin q.sent
    /\ q.established => Ok \in q.sent
    /\ q.owner = "none" /\ ~q.gone /\ ~q.crossed /\ Ok \in q.sent => Requests(q, "BYE") # {}

\* A call we placed: as long as it has its owner, only INVITEs are sent, and
\* the pending one is the latest and waits for its answer.  Once answered it
\* was answered on its last INVITE, and none is pending.
Caller(q, w) == q.outgoing =>
    /\ q.owner # "none" => \A m \in q.sent : m.meth = "INVITE" /\ m.code = 0
    /\ q.established =>
          \E m \in w : /\ m.meth = "INVITE" /\ m.code = 200
                       /\ \A k \in Requests(q, "INVITE") : k.n <= m.n
    /\ q.owner # "none" /\ ~q.gone /\ q.pendinginvite # 0 =>
          q.pendinginvite = q.ocseq /\ Invite(q.ocseq) \in Waiting(q)
    /\ q.owner # "none" /\ ~q.gone /\ q.established => q.pendinginvite = 0
    /\ q.established /\ q.owner = "none" /\ ~q.gone /\ ~q.crossed => Requests(q, "BYE") # {}
    /\ q.canbye \/ Requests(q, "CANCEL") # {} => q.heard # {}

Good(q, w) ==
    /\ q \in Pvt /\ Packets(q) /\ GoneTold(q) /\ Numbers(q)
    /\ Replies(q, w) /\ Callee(q) /\ Caller(q, w)

SipInv == Good(p, wire)

\* A step that sends nothing: flags of the dialog are raised, packets and the
\* pending INVITE settled, the owner goes up or leaves a dialog that is over.
Calm(q, r) ==
    /\ Unsent(q, r) /\ r.outgoing = q.outgoing /\ r.canbye = q.canbye
    /\ q.heard \subseteq r.heard /\ r.established = q.established
    /\ r.crossed = q.crossed \/ r.gone
    /\ q.gone => r.gone
    /\ r.authtries \in 0 .. MaxAuth /\ r.pendinginvite \in {0, q.pendinginvite}
    /\ \/ r.owner = q.owner
       \/ q.owner = "early" /\ r.owner = "up"
       \/ r.owner = "none" /\ r.gone
    /\ r.owner # "none" /\ ~r.gone /\ r.pendinginvite # 0 /\ Invite(q.ocseq) \in Waiting(q)
          => Invite(q.ocseq) \in Waiting(r)

\* A calm step keeps what is said of messages and calls.
LEMMA CalmKeeps ==
  ASSUME NEW q, NEW r, NEW w, Calm(q, r), Numbers(q), Replies(q, w), Callee(q), Caller(q, w)
  PROVE  Numbers(r) /\ Replies(r, w) /\ Callee(r) /\ Caller(r, w)
<1>1. \A meth : Requests(r, meth) = Requests(q, meth)
  BY DEF Calm, Unsent, Requests
<1>2. Numbers(r)
  BY <1>1, SMTT(60) DEF Numbers, Calm, Unsent
<1>3. Replies(r, w)
  BY DEF Replies, Replied, Calm, Unsent
<1>4. Callee(r)
  BY <1>1, Zenon DEF Callee, Calm, Unsent
<1>5. Caller(r, w)
  BY <1>1 DEF Caller, Calm, Unsent
<1>6. QED
  BY <1>2, <1>3, <1>4, <1>5

\* r is q with flags raised, timers stopped or its answer taken.
Raised(q, r) ==
    /\ r \in Pvt /\ Unsent(q, r) /\ r.packets = q.packets /\ r.pendinginvite = q.pendinginvite
    /\ r.outgoing = q.outgoing /\ r.owner = q.owner /\ r.canbye = q.canbye /\ r.heard = q.heard
    /\ r.established = q.established /\ r.crossed = q.crossed /\ r.authtries = q.authtries
    /\ q.gone => r.gone

\* Raising flags after a calm step is calm.
LEMMA RaisedCalm ==
  ASSUME NEW q, NEW r, NEW a, Raised(q, r), Calm(a, q), Packets(q)
  PROVE  Calm(a, r) /\ Packets(r)
<1>1. Waiting(r) = Waiting(q)
  BY DEF Raised, Waiting
<1>2. Packets(r)
  BY DEF Raised, Packets, PacketOK, Unsent
<1>3. Calm(a, r)
  BY <1>1 DEF Raised, Calm, Unsent
<1>4. QED
  BY <1>2, <1>3

\* To do nothing is calm.
LEMMA CalmSelf ==
  ASSUME NEW q, Numbers(q)
  PROVE  Calm(q, q)
  BY Zenon DEF Calm, Unsent, Numbers

\* A message that may arrive: a provisional response is to a request that was
\* sent, the peer sent the others.
LEMMA Delivered ==
  ASSUME SipInv, NEW m \in wire \union Trying
  PROVE  m \in Msgs /\ Replied(p, m) /\ (m.code \notin Provisional => m \in wire)
<1>1. p.sent \subseteq Msgs /\ Replies(p, wire)
  BY Zenon DEF SipInv, Good, Pvt
<1>2. CASE m \in wire
  BY <1>1, <1>2, Zenon DEF Replies
<1>3. ASSUME NEW k \in Sent("INVITE"), NEW code \in Provisional, m = Msg("INVITE", k.n, code)
      PROVE  m \in Msgs /\ Replied(p, m) /\ m.code \in Provisional
  <2>1. k \in p.sent /\ k \in Msgs /\ k.meth = "INVITE" /\ k.code = 0
    BY <1>1, Zenon DEF Sent
  <2>2. k = Invite(k.n) /\ k.n \in Nat
    BY <2>1, SMTT(30) DEF Msgs, Invite, Msg
  <2>3. m \in Msgs /\ m.meth = "INVITE" /\ m.n = k.n /\ m.code = code
    BY <1>3, <2>2, SMTT(30) DEF Msgs, Msg
  <2>4. ~Challenges(m)
    BY <2>3, SMTT(30) DEF Provisional, Challenges
  <2>5. QED
    BY <2>1, <2>2, <2>3, <2>4, SMTT(30), Zenon DEF Replied
<1>4. ASSUME NEW k \in Sent("CANCEL") \union Sent("BYE"), m = Msg(k.meth, k.n, 100)
      PROVE  m \in Msgs /\ Replied(p, m) /\ m.code \in Provisional
  <2>1. k \in p.sent /\ k \in Msgs /\ k.meth \in {"CANCEL", "BYE"} /\ k.code = 0
    BY <1>1, Zenon DEF Sent
  <2>2. k = Msg(k.meth, k.n, 0) /\ k.n \in Nat
    BY <2>1, SMTT(30) DEF Msgs, Msg
  <2>3. 100 \in Provisional
    BY SMTT(30) DEF Provisional
  <2>4. m \in Msgs /\ m.meth = k.meth /\ m.n = k.n /\ m.code = 100
    BY <1>4, <2>1, <2>2, <2>3, SMTT(30) DEF Msgs, Msg
  <2>5. m.meth = "BYE" => Msg("BYE", m.n, 0) \in p.sent
    BY <2>1, <2>2, <2>4, Zenon
  <2>7. ~Challenges(m)
    BY <2>4, SMTT(30) DEF Challenges
  <2>6. QED
    BY <2>1, <2>3, <2>4, <2>5, <2>7, SMTT(30), Zenon DEF Replied
<1>5. CASE m \in Trying
  <2>1. \/ \E k \in Sent("INVITE"), code \in Provisional : m = Msg("INVITE", k.n, code)
        \/ \E k \in Sent("CANCEL") \union Sent("BYE") : m = Msg(k.meth, k.n, 100)
    BY <1>5, SMTT(30) DEF Trying
  <2>2. QED
    BY <1>3, <1>4, <2>1, Zenon
<1>6. QED
  BY <1>2, <1>5

\* A response that was matched with its request: the pvt is calm, and a final
\* response to the pending INVITE settled it.
LEMMA MatchedFields ==
  ASSUME SipInv, NEW m \in Msgs, m.code # 0, m.n = p.ocseq
  PROVE  LET q == Matched(m)
         IN  /\ q \in Pvt /\ Packets(q) /\ Calm(p, q)
             /\ q.owner = p.owner /\ q.gone = p.gone /\ q.told = p.told /\ q.moved = p.moved
             /\ q.crossed = p.crossed
             /\ m.meth = "INVITE" => m.n \in q.heard
             /\ m.meth = "INVITE" /\ m.code \in Final /\ p.outgoing /\ p.owner # "none" /\ ~p.gone
                   => q.pendinginvite = 0
<1> DEFINE acked == IF m.code \in Provisional THEN __sip_semi_ack(p, m.n, m.meth)
                    ELSE __sip_ack(p, m.n, FALSE, m.meth)
           q == Matched(m)
<1>0. p \in Pvt /\ Packets(p) /\ Numbers(p) /\ Callee(p) /\ Caller(p, wire) /\ m.n \in Nat
  BY SMTT(30) DEF SipInv, Good, Msgs
<1>1. /\ acked \in Pvt /\ Packets(acked) /\ Kept(p, acked) /\ Unsent(p, acked)
      /\ acked.pendinginvite \in {0, p.pendinginvite}
      /\ \A k \in Waiting(p) : k \notin Waiting(acked) => m.code \notin Provisional /\ k.meth = m.meth
      /\ /\ m.code \notin Provisional /\ m.n = p.pendinginvite
         /\ \E k \in Waiting(p) : k.n = m.n /\ k.code = 0 /\ k.meth = m.meth
         => acked.pendinginvite = 0
  <2>1. CASE m.code \in Provisional
    BY <1>0, <2>1, SemiAckFields, SMTT(30)
  <2>2. CASE m.code \notin Provisional
    <3>5. acked = __sip_ack(p, m.n, FALSE, m.meth)
      BY <2>2
    <3>2. PICK resp \in BOOLEAN : resp = FALSE
      OBVIOUS
    <3> HIDE DEF acked
    <3>1. acked = __sip_ack(p, m.n, resp, m.meth)
      BY <3>2, <3>5, Zenon
    <3>3. Acked(p, m.n, resp, m.meth, acked)
      BY <1>0, <3>1, AckFields, Zenon
    <3>6. ~resp
      BY <3>2
    <3>4. QED
      BY <2>2, <3>3, <3>6, Zenon DEF Acked
  <2>3. QED
    BY <2>1, <2>2, Zenon
<1> DEFINE tries == IF m.code = 200 /\ p.outgoing THEN 0 ELSE acked.authtries
           heard == acked.heard \union (IF m.meth = "INVITE" THEN {m.n} ELSE {})
           late == acked.late \/ (m.meth = "INVITE" /\ m.code \in Provisional
                                  /\ p.owner = "none" /\ (p.pendingbye => m.code = 182))
<1>2. q = [acked EXCEPT !.initid = FALSE, !.authtries = tries, !.heard = heard, !.late = late]
  BY Zenon DEF Matched
<1> HIDE DEF acked, q
<1>12. /\ tries \in {0, acked.authtries} /\ tries \in Nat
       /\ acked.heard \subseteq heard /\ heard \subseteq Nat /\ (m.meth = "INVITE" => m.n \in heard)
  BY <1>0, <1>1, Zenon DEF Pvt
<1>13. late \in BOOLEAN
  BY <1>0, <1>1, Zenon
<1> HIDE DEF tries, heard, late
<1>3. /\ q \in Pvt /\ q.packets = acked.packets /\ Unsent(acked, q)
      /\ q.pendinginvite = acked.pendinginvite
      /\ q.outgoing = acked.outgoing /\ q.owner = acked.owner /\ q.told = acked.told /\ q.moved = acked.moved
      /\ q.gone = acked.gone /\ q.canbye = acked.canbye /\ q.established = acked.established
      /\ q.crossed = acked.crossed /\ q.authtries \in {0, acked.authtries}
      /\ acked.heard \subseteq q.heard /\ (m.meth = "INVITE" => m.n \in q.heard)
  <2>1. q \in Pvt
    BY <1>1, <1>2, <1>12, <1>13, Zenon DEF Pvt
  <2>2. QED
    BY <1>1, <1>2, <1>12, <2>1 DEF Pvt, Unsent
<1>4. Packets(q) /\ Waiting(q) = Waiting(acked)
  BY <1>1, <1>3, SMTT(60) DEF Packets, PacketOK, Waiting, Unsent
<1>5. Invite(m.n).n = m.n /\ Invite(m.n).code = 0 /\ Invite(m.n).meth = "INVITE"
  BY DEF Invite, Msg
<1>6. ASSUME p.outgoing, p.owner # "none", ~p.gone, p.pendinginvite # 0,
             m.meth = "INVITE", m.code \notin Provisional
      PROVE  q.pendinginvite = 0
  BY <1>0, <1>1, <1>3, <1>5, <1>6, SMTT(60) DEF Caller
<1>7. Invite(p.ocseq) \in Waiting(p) => p.outgoing
  <2>1. ASSUME Invite(p.ocseq) \in Waiting(p) PROVE Invite(p.ocseq) \in Requests(p, "INVITE")
    BY <1>0, <1>5, <2>1, Zenon DEF Waiting, Packets, PacketOK, Requests
  <2>2. QED
    BY <1>0, <2>1, Zenon DEF Callee
<1>8. q.owner # "none" /\ ~q.gone /\ q.pendinginvite # 0 /\ Invite(p.ocseq) \in Waiting(p)
        => Invite(p.ocseq) \in Waiting(q)
  BY <1>1, <1>3, <1>4, <1>5, <1>6, <1>7, SMTT(30), Zenon DEF Kept
<1>9. Calm(p, q)
  <2>1. q.authtries \in 0 .. MaxAuth
    BY <1>0, <1>1, <1>3, SipBounds, SMTT(60) DEF Kept, Numbers
  <2>2. Unsent(p, q) /\ p.heard \subseteq q.heard /\ q.pendinginvite \in {0, p.pendinginvite}
    BY <1>1, <1>3, Zenon DEF Kept, Unsent
  <2>3. /\ q.outgoing = p.outgoing /\ q.canbye = p.canbye /\ q.established = p.established
        /\ q.crossed = p.crossed /\ q.owner = p.owner /\ q.gone = p.gone
    BY <1>1, <1>3, Zenon DEF Kept
  <2>4. QED
    BY <1>8, <2>1, <2>2, <2>3, Zenon DEF Calm
<1>10. m.meth = "INVITE" /\ m.code \in Final /\ p.outgoing /\ p.owner # "none" /\ ~p.gone
         => q.pendinginvite = 0
  BY <1>1, <1>3, <1>6 DEF Final, Refused, Provisional
<1>11. QED
  BY <1>1, <1>3, <1>4, <1>9, <1>10, Zenon DEF q, Kept

\* A calm step keeps the invariant.
LEMMA CalmGood ==
  ASSUME NEW q, NEW r, NEW w, Good(q, w), Calm(q, r), r \in Pvt, Packets(r), GoneTold(r)
  PROVE  Good(r, w)
  BY CalmKeeps, Zenon DEF Good

\* Raising flags keeps it.
LEMMA RaisedGood ==
  ASSUME NEW q, NEW r, NEW w, Good(q, w), Raised(q, r), GoneTold(r)
  PROVE  Good(r, w)
<1>1. Packets(q) /\ Numbers(q) /\ r \in Pvt
  BY Zenon DEF Good, Raised
<1>2. Calm(q, q)
  BY <1>1, CalmSelf, Zenon
<1>3. QED
  BY <1>1, <1>2, RaisedCalm, CalmGood, Zenon

\* The flags by which a dialog ends.
LEMMA FlagsRaised ==
  ASSUME NEW q \in Pvt
  PROVE  /\ Raised(q, Tell(q)) /\ GoneTold(Tell(q))
         /\ LET r == Tell([q EXCEPT !.gone = TRUE])
            IN  Raised(q, r) /\ GoneTold(r)
         /\ LET r == Tell([q EXCEPT !.needdestroy = TRUE, !.gone = TRUE])
            IN  Raised(q, r) /\ GoneTold(r)
         /\ LET r == TellOrDestroy([q EXCEPT !.gone = TRUE])
            IN  Raised(q, r) /\ GoneTold(r)
<1>1. Raised(q, Tell(q)) /\ GoneTold(Tell(q))
  BY Zenon DEF Raised, Unsent, Tell, Pvt, GoneTold
<1>2. LET r == Tell([q EXCEPT !.gone = TRUE])
      IN  Raised(q, r) /\ GoneTold(r)
  BY Zenon DEF Raised, Unsent, Tell, Pvt, GoneTold
<1>3. LET r == Tell([q EXCEPT !.needdestroy = TRUE, !.gone = TRUE])
      IN  Raised(q, r) /\ GoneTold(r)
  BY Zenon DEF Raised, Unsent, Tell, Pvt, GoneTold
<1>4. LET r == TellOrDestroy([q EXCEPT !.gone = TRUE])
      IN  Raised(q, r) /\ GoneTold(r)
  <2> DEFINE t == Tell([q EXCEPT !.gone = TRUE])
             due == t.needdestroy \/ q.owner = "none"
             r == TellOrDestroy([q EXCEPT !.gone = TRUE])
  <2>1. Raised(q, t) /\ GoneTold(t) /\ t \in Pvt
    BY <1>2, Zenon DEF Raised
  <2>2. due \in BOOLEAN
    OBVIOUS
  <2>3. r = [t EXCEPT !.needdestroy = due]
    <3>1. [q EXCEPT !.gone = TRUE].owner = q.owner
      BY DEF Pvt
    <3>2. QED
      BY <3>1, Zenon DEF TellOrDestroy
  <2> HIDE DEF t, due, r
  <2>4. Raised(t, r) /\ r.told = t.told /\ r.moved = t.moved /\ r.gone = t.gone
    BY <2>1, <2>2, <2>3, Zenon DEF Raised, Unsent, Pvt
  <2>5. Raised(q, r)
    BY <2>1, <2>4 DEF Raised, Unsent
  <2>6. GoneTold(r)
    BY <2>1, <2>4 DEF GoneTold, Raised
  <2>7. QED
    BY <2>5, <2>6 DEF r
<1>5. QED
  BY <1>1, <1>2, <1>3, <1>4

\* Whoever ends the dialog tells the owner, or there is none.
LEMMA DestroyRaised ==
  ASSUME NEW q \in Pvt
  PROVE  Raised(q, TellOrDestroy(q)) /\ GoneTold(TellOrDestroy(q))
<1> DEFINE t == Tell(q)
           d == t.needdestroy \/ q.owner = "none"
<1>1. Raised(q, t) /\ GoneTold(t)
  BY FlagsRaised, Zenon
<1>2. TellOrDestroy(q) = [t EXCEPT !.needdestroy = d]
  BY Zenon DEF TellOrDestroy
<1>3. d \in BOOLEAN
  OBVIOUS
<1> HIDE DEF d, t
<1>4. QED
  BY <1>1, <1>2, <1>3, SMTT(30) DEF Raised, Unsent, GoneTold, Pvt

(***************************************************************************)
(* The timers.                                                             *)
(***************************************************************************)

\* The owner reads the ANSWER frame.
LEMMA ReadAnswerGood ==
  ASSUME SipInv, ReadAnswer
  PROVE  SipInv'
<1>1. p' \in Pvt /\ p'.packets = p.packets /\ p'.sent = p.sent
  BY Zenon DEF SipInv, Good, ReadAnswer, Pvt
<1>2. Packets(p') /\ Waiting(p') = Waiting(p)
  BY <1>1, Zenon DEF SipInv, Good, Packets, PacketOK, Waiting
<1>3. Calm(p, p')
  BY <1>2, Zenon DEF SipInv, Good, ReadAnswer, Calm, Unsent, Pvt, Numbers
<1>4. GoneTold(p')
  BY DEF SipInv, Good, ReadAnswer, Pvt, GoneTold
<1>5. Good(p', wire')
  BY <1>1, <1>2, <1>3, <1>4, CalmGood DEF SipInv, ReadAnswer
<1>6. QED
  BY <1>5 DEF SipInv

\* The pvt as __sip_destroy leaves it: without an owner, nothing is due.
LEMMA DestroyGood ==
  ASSUME NEW q, NEW w, Good(q, w), q.owner = "none"
  PROVE  Good(__sip_destroy(q), w)
<1> DEFINE r == __sip_destroy(q)
<1>1. r \in Pvt
  <2>1. <<>> \in Seq(Packet)
    OBVIOUS
  <2>2. QED
    BY <2>1, Zenon DEF Good, __sip_destroy, Pvt
<1>2. Packets(r)
  <2>1. r.packets = <<>>
    BY DEF Good, __sip_destroy, Pvt
  <2>2. QED
    BY <2>1 DEF Packets
<1>3. Calm(q, r)
  BY DEF Good, __sip_destroy, Calm, Unsent, Pvt, Numbers
<1>4. GoneTold(r)
  BY DEF Good, __sip_destroy, Pvt, GoneTold
<1>5. QED
  BY <1>1, <1>2, <1>3, <1>4, CalmGood

\* __sip_autodestruct.
LEMMA AutoDestructGood ==
  ASSUME SipInv, __sip_autodestruct
  PROVE  SipInv'
<1> DEFINE q == [p EXCEPT !.autokillid = FALSE]
<1>1. Good(p, wire) /\ p \in Pvt /\ Packets(p) /\ GoneTold(p) /\ Calm(p, p)
  BY CalmSelf, Zenon DEF SipInv, Good
<1>2. Raised(p, q) /\ q \in Pvt /\ GoneTold(q)
  BY <1>1, Zenon DEF Raised, Unsent, Pvt, GoneTold
<1>3. Good(q, wire)
  BY <1>1, <1>2, RaisedCalm, CalmGood
<1>4. CASE p.owner # "none"
  <2>1. p' = Tell(q)
    BY <1>4 DEF __sip_autodestruct
  <2>3. Calm(q, q) /\ Packets(q)
    BY <1>3, CalmSelf DEF Good
  <2> HIDE DEF q
  <2>2. Raised(q, p') /\ GoneTold(p') /\ p' \in Pvt
    BY <1>2, <2>1, FlagsRaised, Zenon DEF Raised
  <2>4. Good(p', wire)
    BY <1>3, <2>2, <2>3, RaisedCalm, CalmGood
  <2>5. QED
    BY <2>4, Zenon DEF SipInv, __sip_autodestruct
<1>5. CASE p.owner = "none"
  <2>1. p' = __sip_destroy(q)
    BY <1>5 DEF __sip_autodestruct
  <2>2. q.owner = "none"
    BY <1>2, <1>5 DEF Raised
  <2> HIDE DEF q
  <2>3. Good(p', wire)
    BY <1>3, <2>1, <2>2, DestroyGood
  <2>4. QED
    BY <2>3 DEF SipInv, __sip_autodestruct
<1>6. QED
  BY <1>4, <1>5

\* auto_congest.
LEMMA AutoCongestGood ==
  ASSUME SipInv, auto_congest
  PROVE  SipInv'
<1>1. Good(p, wire) /\ p \in Pvt /\ Packets(p) /\ GoneTold(p) /\ Calm(p, p)
  BY CalmSelf DEF SipInv, Good
<1> DEFINE q == [p EXCEPT !.initid = FALSE]
<1>2. Raised(p, q) /\ q \in Pvt /\ GoneTold(q)
  BY <1>1, Zenon DEF Raised, Unsent, Pvt, GoneTold
<1>5. Good(q, wire)
  BY <1>1, <1>2, RaisedCalm, CalmGood
<1>6. p' = q \/ p' = Tell(q)
  BY Zenon DEF auto_congest
<1> HIDE DEF q
<1>7. Raised(q, Tell(q)) /\ GoneTold(Tell(q)) /\ Tell(q) \in Pvt /\ Calm(q, q) /\ Packets(q)
  BY <1>2, <1>5, FlagsRaised, CalmSelf, Zenon DEF Raised, Good
<1>8. Good(Tell(q), wire)
  BY <1>5, <1>7, RaisedCalm, CalmGood
<1>3. Good(p', wire)
  BY <1>5, <1>6, <1>8
<1>4. QED
  BY <1>3 DEF SipInv, auto_congest

\* do_monitor frees the dialog.
LEMMA MonitorGood ==
  ASSUME SipInv, do_monitor
  PROVE  SipInv'
  BY DestroyGood DEF SipInv, do_monitor

\* Another transmission of a packet, or the end of one that is not answered:
\* a critical one ends the dialog with it.
LEMMA RetransGood ==
  ASSUME SipInv, retrans_pkt
  PROVE  SipInv'
<1>1. Good(p, wire) /\ p \in Pvt /\ Packets(p) /\ GoneTold(p) /\ Numbers(p)
  BY DEF SipInv, Good
<1>2. PICK i \in DOMAIN p.packets :
        \/ p.packets[i].tries < MaxTimer /\ p' = [p EXCEPT !.packets[i].tries = @ + 1]
        \/ p' = GiveUp(Unlink(p, i), p.packets[i].fatal)
        \/ p' = [p EXCEPT !.locking = {p.packets[i].msg}]
  BY Zenon DEF retrans_pkt
<1>3. p.packets \in Seq(Packet) /\ p.packets[i] \in Packet
  BY <1>1 DEF Pvt
<1>4. CASE p.packets[i].tries < MaxTimer /\ p' = [p EXCEPT !.packets[i].tries = @ + 1]
  <2> DEFINE e == [p.packets[i] EXCEPT !.tries = @ + 1]
             t == [p.packets EXCEPT ![i] = e]
  <2>1. e \in Packet /\ e.msg = p.packets[i].msg /\ e.fatal = p.packets[i].fatal
    BY <1>3, <1>4, PacketTried, Zenon
  <2>2. p' = [p EXCEPT !.packets = t]
    BY <1>4, Zenon
  <2> HIDE DEF e
  <2>3. /\ t \in Seq(Packet) /\ DOMAIN t = DOMAIN p.packets
        /\ \A j \in DOMAIN t : t[j].msg = p.packets[j].msg /\ t[j].fatal = p.packets[j].fatal
    BY <1>3, <2>1, Replaced
  <2> HIDE DEF t
  <2>4. /\ p' \in Pvt /\ p'.packets = t /\ Kept(p, p') /\ Unsent(p, p')
        /\ p'.pendinginvite = p.pendinginvite
    BY <1>1, <2>2, <2>3, Zenon DEF Pvt, Kept, Unsent
  <2>5. Packets(p') /\ Waiting(p') = Waiting(p)
    BY <1>1, <2>3, <2>4, SMTT(30), Zenon DEF Packets, PacketOK, Waiting, Unsent
  <2>6. Calm(p, p') /\ GoneTold(p')
    BY <1>1, <2>4, <2>5, SMTT(30), Zenon DEF Calm, Kept, Numbers, GoneTold
  <2>7. QED
    BY <1>1, <2>4, <2>5, <2>6, CalmGood DEF SipInv, retrans_pkt
<1>5. CASE p' = GiveUp(Unlink(p, i), p.packets[i].fatal)
  <2> DEFINE u == Unlink(p, i)
             m == p.packets[i].msg
  <2>1. u \in Pvt /\ Packets(u) /\ Waiting(p) \subseteq Waiting(u) \union {m}
    BY <1>1, UnlinkPackets, Zenon
  <2>2. Kept(p, u) /\ Unsent(p, u) /\ u.pendinginvite = p.pendinginvite
    BY <1>1, UnlinkFields, Zenon
  <2>3. m = Invite(p.ocseq) => p.packets[i].fatal
    BY <1>1 DEF Packets, PacketOK, Invite, Msg
  <2>4. p' = GiveUp(u, p.packets[i].fatal)
    BY <1>5
  <2> HIDE DEF u, m
  <2>5. CASE ~p.packets[i].fatal
    <3>1. p' = u
      BY <2>4, <2>5, Zenon DEF GiveUp
    <3>2. Calm(p, u) /\ GoneTold(u)
      BY <1>1, <2>1, <2>2, <2>3, <2>5, Zenon DEF Calm, Kept, Numbers, GoneTold
    <3>3. QED
      BY <1>1, <2>1, <3>1, <3>2, CalmGood, Zenon DEF SipInv, retrans_pkt
  <2>6. CASE p.packets[i].fatal /\ u.owner # "none"
    <3>1. p' = Tell([u EXCEPT !.gone = TRUE])
      BY <2>4, <2>6 DEF GiveUp
    <3>2. p'.gone /\ Raised(u, p') /\ GoneTold(p')
      <4>1. Raised(u, p') /\ GoneTold(p')
        BY <2>1, <3>1, FlagsRaised, Zenon
      <4>2. p'.gone
        BY <2>1, <3>1, Zenon DEF Tell, Pvt
      <4>3. QED
        BY <4>1, <4>2
    <3>3. Packets(p')
      BY <2>1, <3>2, Zenon DEF Raised, Packets, PacketOK, Unsent
    <3>4. Calm(p, p')
      BY <1>1, <2>2, <3>2, Zenon DEF Calm, Kept, Numbers, Raised, Unsent
    <3>5. QED
      BY <1>1, <3>2, <3>3, <3>4, CalmGood DEF SipInv, retrans_pkt, Raised
  <2>7. CASE p.packets[i].fatal /\ u.owner = "none"
    <3>1. p' = [u EXCEPT !.needdestroy = TRUE]
      BY <2>4, <2>7 DEF GiveUp
    <3>2. Raised(u, p') /\ GoneTold(p')
      BY <2>1, <2>7, <3>1, Zenon DEF Raised, Unsent, Pvt, GoneTold
    <3>3. Packets(p')
      BY <2>1, <3>2, SMTT(30), Zenon DEF Raised, Packets, PacketOK, Unsent
    <3>4. Calm(p, p')
      BY <1>1, <2>2, <2>7, <3>2, SMTT(30), Zenon DEF Calm, Kept, Numbers, Raised, Unsent
    <3>5. QED
      BY <1>1, <3>2, <3>3, <3>4, CalmGood, Zenon DEF SipInv, retrans_pkt, Raised
  <2>8. QED
    BY <2>5, <2>6, <2>7
<1>6. CASE p' = [p EXCEPT !.locking = {p.packets[i].msg}]
  <2>1. {p.packets[i].msg} \subseteq Msgs
    BY <1>3 DEF Packet
  <2>2. Raised(p, p') /\ GoneTold(p')
    BY <1>1, <1>6, <2>1, Zenon DEF Raised, Unsent, Pvt, GoneTold
  <2>3. QED
    BY <1>1, <2>2, RaisedGood, Zenon DEF SipInv, retrans_pkt
<1>7. QED
  BY <1>2, <1>4, <1>5, <1>6, Zenon

\* A packet goes from a dialog that is over, or has no owner.
LEMMA UnlinkGood ==
  ASSUME NEW q, NEW w, Good(q, w), q.gone \/ q.owner = "none", NEW i \in DOMAIN q.packets
  PROVE  Good(Unlink(q, i), w)
<1> DEFINE u == Unlink(q, i)
<1>1. q \in Pvt /\ Packets(q) /\ GoneTold(q) /\ Numbers(q)
  BY Zenon DEF Good
<1>2. u \in Pvt /\ Packets(u)
  BY <1>1, UnlinkPackets, Zenon
<1>3. Kept(q, u) /\ Unsent(q, u) /\ u.pendinginvite = q.pendinginvite
  BY <1>1, UnlinkFields, Zenon
<1> HIDE DEF u
<1>4. Calm(q, u) /\ GoneTold(u)
  BY <1>1, <1>3, Zenon DEF Calm, Kept, Numbers, GoneTold
<1>5. Good(u, w)
  BY <1>2, <1>4, CalmGood, Zenon
<1>6. QED
  BY <1>5 DEF u

\* retrans_pkt has the owner's lock: the dialog is over, or the owner has left.
LEMMA RetransLockedGood ==
  ASSUME SipInv, retrans_pkt_locked
  PROVE  SipInv'
<1> DEFINE a == [p EXCEPT !.locking = {}]
           q == GiveUp(a, TRUE)
<1>1. Good(p, wire) /\ p \in Pvt /\ GoneTold(p)
  BY Zenon DEF SipInv, Good
<1>2. p' = q \/ \E i \in DOMAIN q.packets : p' = Unlink(q, i)
  BY Zenon DEF retrans_pkt_locked
<1>3. Raised(p, a) /\ GoneTold(a) /\ a \in Pvt
  BY <1>1, Zenon DEF Raised, Unsent, Pvt, GoneTold
<1>4. Good(a, wire)
  BY <1>1, <1>3, RaisedGood, Zenon
<1> HIDE DEF a
<1>5. Raised(a, q) /\ GoneTold(q) /\ (q.gone \/ q.owner = "none")
  <2>1. CASE a.owner # "none"
    <3>1. q = Tell([a EXCEPT !.gone = TRUE])
      BY <2>1 DEF GiveUp
    <3>2. Raised(a, q) /\ GoneTold(q)
      BY <1>3, <3>1, FlagsRaised, Zenon
    <3>3. q.gone
      BY <1>3, <3>1, Zenon DEF Tell, Pvt
    <3>4. QED
      BY <3>2, <3>3
  <2>2. CASE a.owner = "none"
    <3>1. q = [a EXCEPT !.needdestroy = TRUE]
      BY <2>2 DEF GiveUp
    <3>2. Raised(a, q) /\ GoneTold(q) /\ q.owner = "none"
      BY <1>3, <2>2, <3>1, Zenon DEF Raised, Unsent, Pvt, GoneTold
    <3>3. QED
      BY <3>2
  <2>3. QED
    BY <2>1, <2>2
<1> HIDE DEF q
<1>6. Good(q, wire)
  BY <1>4, <1>5, RaisedGood, Zenon
<1>7. Good(p', wire)
  BY <1>2, <1>5, <1>6, UnlinkGood, Zenon
<1>8. QED
  BY <1>7, Zenon DEF SipInv, retrans_pkt_locked

(***************************************************************************)
(* Responses.                                                              *)
(***************************************************************************)

\* A message of another kind changes none of the requests of a method.
LEMMA OtherRequests ==
  ASSUME NEW q, NEW r, NEW m, NEW meth, r.sent = q.sent \union {m}, m.meth # meth \/ m.code # 0
  PROVE  Requests(r, meth) = Requests(q, meth)
  BY DEF Requests

\* A BYE that is sent was sent.
LEMMA NewBye ==
  ASSUME NEW q, NEW r, NEW n, r.sent = q.sent \union {Msg("BYE", n, 0)}
  PROVE  Requests(r, "BYE") # {}
<1> DEFINE m == Msg("BYE", n, 0)
<1>1. m.meth = "BYE" /\ m.code = 0
  BY DEF Msg
<1> HIDE DEF m
<1>2. m \in r.sent
  BY DEF m
<1>3. m \in Requests(r, "BYE")
  BY <1>1, <1>2 DEF Requests
<1>4. QED
  BY <1>3

\* Sending more keeps every answer of the peer one to a message.
LEMMA RepliesGrow ==
  ASSUME NEW q, NEW r, NEW w, Replies(q, w), q.sent \subseteq r.sent, r.outgoing = q.outgoing
  PROVE  Replies(r, w)
  BY DEF Replies, Replied

\* a is the call q we placed as a response leaves it, before what was put off
\* is sent: the peer was heard, and the call may be answered.
Heard(q, a, w) ==
    /\ a \in Pvt /\ a.packets = q.packets /\ a.pendinginvite = q.pendinginvite
    /\ a.sent = q.sent /\ a.ocseq = q.ocseq /\ a.authtries = q.authtries
    /\ a.outgoing = q.outgoing /\ a.owner = q.owner
    /\ a.told = q.told /\ a.moved = q.moved /\ a.gone = q.gone
    /\ a.heard = q.heard /\ a.crossed = q.crossed
    /\ a.pendingbye => q.owner = "none"
    /\ a.established =>
          /\ \E m \in w : /\ m.meth = "INVITE" /\ m.code = 200
                          /\ \A k \in Requests(q, "INVITE") : k.n <= m.n
          /\ q.owner # "none" /\ ~q.gone => q.pendinginvite = 0
          /\ q.owner = "none" /\ ~q.gone /\ ~q.crossed => a.pendingbye /\ a.canbye

\* check_pendings after an answer to the INVITE.
LEMMA HeardGood ==
  ASSUME NEW q, NEW a, NEW w, Good(q, w), q.outgoing, Requests(q, "BYE") = {}, q.heard # {},
         Heard(q, a, w)
  PROVE  Good(check_pendings(a), w)
<1> DEFINE r == check_pendings(a)
<1>1. q \in Pvt /\ Packets(q) /\ GoneTold(q) /\ Numbers(q) /\ Replies(q, w) /\ Caller(q, w)
  BY SMTT(30), Zenon DEF Good
<1>2. a \in Pvt /\ Packets(a) /\ Waiting(a) = Waiting(q)
  BY <1>1, SMTT(30), Zenon DEF Heard, Packets, PacketOK, Waiting
<1>3. /\ r \in Pvt /\ Packets(r) /\ Kept(a, r) /\ ~r.pendingbye
      /\ r.pendinginvite = a.pendinginvite
      /\ Waiting(a) \subseteq Waiting(r)
      /\ ~a.pendingbye => r.sent = a.sent /\ r.ocseq = a.ocseq
      /\ a.pendingbye /\ a.canbye =>
            r.sent = a.sent \union {Msg("BYE", a.ocseq + 1, 0)} /\ r.ocseq = a.ocseq + 1
      /\ a.pendingbye /\ ~a.canbye =>
            r.sent = a.sent \union {Msg("CANCEL", a.ocseq, 0)} /\ r.ocseq = a.ocseq
  BY <1>2, CheckPendings, SMTT(30), Zenon
<1> HIDE DEF r
<1>4. Requests(a, "INVITE") = Requests(q, "INVITE") /\ Requests(a, "BYE") = {}
  BY DEF Heard, Requests
<1>5. Msg("BYE", a.ocseq + 1, 0).meth = "BYE" /\ Msg("CANCEL", a.ocseq, 0).meth = "CANCEL"
  BY DEF Msg
<1>6. Requests(r, "INVITE") = Requests(q, "INVITE")
  <2>1. CASE ~a.pendingbye
    BY <1>3, <1>4, <2>1, SMTT(30), Zenon DEF Requests
  <2>2. CASE a.pendingbye
    BY <1>3, <1>4, <1>5, <2>2, OtherRequests, SMTT(30), Zenon
  <2>3. QED
    BY <2>1, <2>2, Zenon
<1>7. CASE a.pendingbye /\ a.canbye
  <2>1. Requests(r, "BYE") # {}
    BY <1>3, <1>7, NewBye, Zenon
  <2>2. q.owner = "none" /\ q.ocseq \in 1 .. MaxInvites
    BY <1>1, <1>7, SipBounds, SMTT(30), Zenon DEF Heard, Numbers
  <2>3. Numbers(r)
    <3>1. r.ocseq = q.ocseq + 1 /\ r.owner = "none" /\ r.authtries = q.authtries
          /\ r.pendinginvite = q.pendinginvite
      BY <1>3, <1>7, <2>2, SMTT(60) DEF Kept, Heard
    <3>2. r.ocseq \in 1 .. (MaxInvites + 1) /\ r.pendinginvite \in 0 .. r.ocseq
      BY <1>1, <2>2, <3>1, SipBounds, SMTT(60) DEF Numbers
    <3>3. ASSUME NEW k \in Requests(r, "INVITE") PROVE k.n < r.ocseq /\ k.n <= r.ocseq
      <4>1. k.n <= q.ocseq /\ k.n \in Nat
        BY <1>1, <1>6, SMTT(60) DEF Requests, Pvt, Msgs, Numbers
      <4>2. QED
        BY <2>2, <3>1, <4>1, SMTT(30), Zenon
    <3>4. QED
      BY <1>1, <1>3, <2>1, <3>1, <3>2, <3>3, SMTT(30), Zenon DEF Numbers
  <2>4. QED
    <3>1. Replies(r, w)
      BY <1>1, <1>3, <1>7, RepliesGrow, Zenon DEF Kept, Heard
    <3>2. Callee(r)
      BY <1>3, SMTT(30), Zenon DEF Callee, Kept, Heard
    <3>3. Caller(r, w)
      BY <1>3, <1>6, <2>1, <2>2, SMTT(30), Zenon DEF Caller, Kept, Heard
    <3>4. GoneTold(r)
      BY <1>1, <1>3 DEF GoneTold, Kept, Heard
    <3>5. QED
      BY <1>3, <2>3, <3>1, <3>2, <3>3, <3>4, SMTT(30), Zenon DEF Good, r
<1>8. CASE ~ (a.pendingbye /\ a.canbye)
  <2>1. Requests(r, "BYE") = {} /\ r.ocseq = q.ocseq /\ q.sent \subseteq r.sent
    <3>1. CASE ~a.pendingbye
      BY <1>3, <1>4, <3>1, SMTT(30), Zenon DEF Requests, Heard
    <3>2. CASE a.pendingbye
      BY <1>3, <1>4, <1>5, <1>8, <3>2, OtherRequests, SMTT(30), Zenon DEF Heard
    <3>3. QED
      BY <3>1, <3>2, Zenon
  <2>2. Numbers(r)
    BY <1>1, <1>3, <1>6, <2>1, SMTT(30) DEF Numbers, Kept, Heard
  <2>3. Replies(r, w)
    BY <1>1, <1>3, <2>1, RepliesGrow, Zenon DEF Kept, Heard
  <2>4. Callee(r)
    BY <1>3 DEF Callee, Kept, Heard
  <2>5. a.owner # "none" => r.sent = q.sent
    BY <1>3, SMTT(30) DEF Heard
  <2>6. Caller(r, w)
    <3>1. /\ r.outgoing /\ r.owner = q.owner /\ r.gone = q.gone /\ r.crossed = q.crossed
          /\ r.established = a.established /\ r.heard # {} /\ r.pendinginvite = q.pendinginvite
          /\ q.sent = a.sent
      BY <1>3, SMTT(30), Zenon DEF Kept, Heard
    <3>2. r.owner # "none" => \A m \in r.sent : m.meth = "INVITE" /\ m.code = 0
      BY <1>1, <1>3, <2>5, <3>1 DEF Caller, Heard
    <3>3. r.established =>
            \E m \in w : /\ m.meth = "INVITE" /\ m.code = 200
                         /\ \A k \in Requests(r, "INVITE") : k.n <= m.n
      BY <1>6, <3>1, Zenon DEF Heard
    <3>4. r.owner # "none" /\ ~r.gone /\ r.pendinginvite # 0 =>
            r.pendinginvite = r.ocseq /\ Invite(r.ocseq) \in Waiting(r)
      BY <1>1, <1>2, <1>3, <2>1, <3>1, SMTT(30), Zenon DEF Caller
    <3>5. r.owner # "none" /\ ~r.gone /\ r.established => r.pendinginvite = 0
      BY <3>1, Zenon DEF Heard
    <3>6. ~ (r.established /\ r.owner = "none" /\ ~r.gone /\ ~r.crossed)
      BY <1>8, <3>1, Zenon DEF Heard
    <3>7. QED
      BY <3>1, <3>2, <3>3, <3>4, <3>5, <3>6, Zenon DEF Caller
  <2>7. GoneTold(r)
    BY <1>1, <1>3 DEF GoneTold, Kept, Heard
  <2>8. QED
    BY <1>3, <2>2, <2>3, <2>4, <2>6, <2>7 DEF Good, r
<1>9. QED
  BY <1>7, <1>8, Zenon

\* What is known of the pvt when a response to its latest INVITE was matched.
LEMMA AnsweredInvite ==
  ASSUME NEW q, NEW w, NEW m, Good(q, w), Replied(q, m), m.meth = "INVITE", m.code # 0, m.n = q.ocseq
  PROVE  /\ q.outgoing /\ Requests(q, "BYE") = {} /\ Invite(q.ocseq) \in Requests(q, "INVITE")
         /\ q.ocseq \in 1 .. MaxInvites
         /\ \A k \in Requests(q, "INVITE") : k.n <= m.n
<1>1. Invite(q.ocseq) \in q.sent
  BY DEF Replied
<1>2. Invite(q.ocseq) \in Requests(q, "INVITE") /\ Invite(q.ocseq).n = q.ocseq
  BY <1>1, Zenon DEF Requests, Invite, Msg
<1>3. q.outgoing
  BY <1>2, Zenon DEF Good, Callee
<1>4. Requests(q, "BYE") = {}
  BY <1>2, SipBounds, SMTT(60) DEF Good, Numbers
<1>5. q.ocseq \in 1 .. MaxInvites
  BY <1>4, SipBounds DEF Good, Numbers
<1>6. QED
  BY <1>2, <1>3, <1>4, <1>5, SMTT(30), Zenon DEF Good, Numbers

\* c is q with one more round of authentication.
Tried(q, c) ==
    /\ c \in Pvt /\ c.packets = q.packets /\ c.sent = q.sent /\ c.ocseq = q.ocseq
    /\ c.authtries = q.authtries + 1 /\ c.outgoing = q.outgoing /\ c.owner = q.owner
    /\ c.told = q.told /\ c.moved = q.moved /\ c.gone = q.gone /\ c.canbye = q.canbye
    /\ c.heard = q.heard /\ c.established = q.established /\ c.crossed = q.crossed
    /\ c.pendingbye = q.pendingbye /\ c.pendinginvite = q.pendinginvite

\* do_proxy_auth counts the round.
LEMMA OneMoreTry ==
  ASSUME NEW q \in Pvt
  PROVE  Tried(q, [q EXCEPT !.authtries = @ + 1])
<1> DEFINE v == q.authtries + 1
           c == [q EXCEPT !.authtries = v]
<1>1. v \in Nat
  BY DEF Pvt
<1>2. [q EXCEPT !.authtries = @ + 1] = c
  OBVIOUS
<1> HIDE DEF v
<1>3. c \in Pvt
  BY <1>1 DEF Pvt
<1>4. /\ c.packets = q.packets /\ c.sent = q.sent /\ c.ocseq = q.ocseq
      /\ c.authtries = v /\ c.outgoing = q.outgoing /\ c.owner = q.owner
      /\ c.told = q.told /\ c.moved = q.moved /\ c.gone = q.gone /\ c.canbye = q.canbye
      /\ c.heard = q.heard /\ c.established = q.established /\ c.crossed = q.crossed
      /\ c.pendingbye = q.pendingbye /\ c.pendinginvite = q.pendinginvite
  BY Zenon DEF Pvt
<1> HIDE DEF c
<1>5. QED
  BY <1>2, <1>3, <1>4, Zenon DEF Tried, v

Retry(q) == transmit_invite([q EXCEPT !.authtries = @ + 1, !.ocseq = @ + 1])

\* The INVITE sent again with credentials: it was not answered.
LEMMA AuthGood ==
  ASSUME NEW q, NEW w, Good(q, w), NEW m \in w, m.meth = "INVITE", Challenges(m),
         m.n = q.ocseq, q.authtries # MaxAuth
  PROVE  Good(Retry(q), w)
<1> DEFINE a == [q EXCEPT !.authtries = @ + 1, !.ocseq = @ + 1]
           i == Invite(a.ocseq)
           r == __sip_reliable_xmit(a, i, TRUE)
<1>1. q \in Pvt /\ Packets(q) /\ GoneTold(q) /\ Numbers(q) /\ Replies(q, w) /\ Caller(q, w)
  BY DEF Good
<1>2. /\ q.outgoing /\ Requests(q, "BYE") = {} /\ Invite(q.ocseq) \in Requests(q, "INVITE")
      /\ q.ocseq \in 1 .. MaxInvites /\ \A k \in Requests(q, "INVITE") : k.n <= q.ocseq
  <2>1. Replied(q, m) /\ m.code # 0
    BY <1>1, SMTT(30), Zenon DEF Replies, Challenges
  <2>2. QED
    BY <2>1, AnsweredInvite, SMTT(60)
<1>3. q.ocseq < MaxInvites
  <2>1. m.code # 0
    BY SMTT(30) DEF Challenges
  <2>2. Replied(q, m)
    BY <1>1, Zenon DEF Replies
  <2>3. QED
    BY <2>1, <2>2, SMTT(30), Zenon DEF Replied
<1>4. ~q.established
  <2>1. ASSUME NEW k \in w, k.meth = "INVITE", k.code = 200,
               \A j \in Requests(q, "INVITE") : j.n <= k.n
        PROVE  FALSE
    <3>1. Invite(k.n) \in q.sent /\ k.n \in Nat
      BY <1>1, <2>1, SMTT(60) DEF Replies, Replied, Msgs
    <3>2. Invite(k.n) \in Requests(q, "INVITE") /\ Invite(k.n).n = k.n /\ Invite(q.ocseq).n = q.ocseq
      BY <3>1, Zenon DEF Requests, Invite, Msg
    <3>3. k.n = m.n
      BY <1>2, <2>1, <3>1, <3>2, SMTT(60)
    <3>4. QED
      BY <1>1, <2>1, <3>3, SMTT(30), Zenon DEF Replies, Final, Refused, Challenges
  <2>2. QED
    BY <1>1, <1>2, <2>1, SMTT(60) DEF Caller
<1>5. /\ a \in Pvt /\ a.packets = q.packets /\ a.sent = q.sent /\ a.ocseq = q.ocseq + 1
      /\ a.authtries = q.authtries + 1 /\ a.outgoing = q.outgoing /\ a.owner = q.owner
      /\ a.told = q.told /\ a.moved = q.moved /\ a.gone = q.gone /\ a.canbye = q.canbye
      /\ a.heard = q.heard /\ a.established = q.established /\ a.crossed = q.crossed
      /\ a.pendingbye = q.pendingbye
  <2> DEFINE c == [q EXCEPT !.authtries = @ + 1]
  <2>1. a = [c EXCEPT !.ocseq = @ + 1]
    BY <1>1 DEF Pvt
  <2>2. Tried(q, c) /\ c \in Pvt
    BY <1>1, OneMoreTry, Zenon DEF Tried
  <2> HIDE DEF a, c
  <2>3. Advanced(c, a)
    BY <2>1, <2>2, NextNumber, Zenon
  <2>4. QED
    BY <2>2, <2>3, Zenon DEF Tried, Advanced, Kept
<1> HIDE DEF a
<1>6. Packets(a)
  BY <1>1, <1>5, SMTT(30), Zenon DEF Packets, PacketOK
<1>7. i \in Msgs /\ i.meth = "INVITE" /\ i.code = 0 /\ i.n = a.ocseq
  BY <1>5 DEF Invite, Msg, Msgs, Pvt
<1> HIDE DEF i
<1>18. TRUE \in BOOLEAN
  OBVIOUS
<1>19. Transmitted(a, i, r)
  BY <1>5, <1>6, <1>7, <1>18, Xmit, Zenon
<1> HIDE DEF r
<1>8. r \in Pvt /\ Packets(r) /\ i \in Waiting(r)
  BY <1>19, Zenon DEF Transmitted
<1>9. /\ Kept(a, r) /\ r.ocseq = a.ocseq /\ r.pendingbye = a.pendingbye
      /\ r.sent = a.sent \union {i} /\ r.pendinginvite = a.ocseq
  BY <1>7, <1>19, SMTT(30), Zenon DEF Transmitted
<1>10. Requests(r, "BYE") = {} /\ Requests(r, "INVITE") = Requests(q, "INVITE") \union {i}
       /\ Requests(r, "CANCEL") = Requests(q, "CANCEL")
  BY <1>2, <1>5, <1>7, <1>9, SMTT(60) DEF Requests
<1>11. Numbers(r)
  <2>1. r.ocseq = q.ocseq + 1 /\ r.ocseq \in 1 .. MaxInvites /\ r.pendinginvite = r.ocseq
    BY <1>2, <1>3, <1>5, <1>9, SipBounds, SMTT(30), Zenon
  <2>2. r.authtries \in 0 .. MaxAuth
    BY <1>1, <1>5, <1>9, SipBounds, SMTT(60) DEF Numbers, Kept
  <2>3. \A k \in Requests(r, "INVITE") : k.n <= r.ocseq
    <3>1. ASSUME NEW k \in Requests(q, "INVITE") PROVE k.n <= r.ocseq
      <4>1. k.n <= q.ocseq /\ k.n \in Nat
        BY <1>1, <1>2, SMTT(60) DEF Requests, Pvt, Msgs
      <4>2. QED
        BY <1>2, <2>1, <4>1, SMTT(60)
    <3>2. i.n <= r.ocseq
      BY <1>7, <1>9, <2>1, SMTT(30), Zenon
    <3>3. QED
      BY <1>10, <3>1, <3>2, SMTT(60)
  <2>4. r.pendingbye => r.owner = "none"
    BY <1>1, <1>5, <1>9, SMTT(30), Zenon DEF Numbers, Kept
  <2>5. QED
    BY <1>10, <2>1, <2>2, <2>3, <2>4, SipBounds, SMTT(30), Zenon DEF Numbers
<1>12. Replies(r, w)
  BY <1>1, <1>5, <1>9, RepliesGrow, SMTT(30), Zenon DEF Kept
<1>13. Callee(r)
  BY <1>2, <1>5, <1>9, SMTT(30) DEF Callee, Kept
<1>14. Caller(r, w)
  BY <1>1, <1>2, <1>4, <1>5, <1>7, <1>8, <1>9, <1>10, SMTT(30), Zenon DEF Caller, Kept, i
<1>15. GoneTold(r)
  BY <1>1, <1>5, <1>9, SMTT(60) DEF GoneTold, Kept
<1>16. Good(r, w)
  BY <1>8, <1>11, <1>12, <1>13, <1>14, <1>15, Zenon DEF Good
<1>17. QED
  BY <1>16, Zenon DEF r, i, a, transmit_invite, Invite, Retry

\* The first answer sets SIP_CAN_BYE.
LEMMA CanByeGood ==
  ASSUME NEW q, NEW w, Good(q, w), q.heard # {}
  PROVE  Good([q EXCEPT !.canbye = TRUE], w)
<1> DEFINE r == [q EXCEPT !.canbye = TRUE]
<1>1. /\ r \in Pvt /\ r.packets = q.packets /\ r.pendinginvite = q.pendinginvite
      /\ r.sent = q.sent /\ r.ocseq = q.ocseq /\ r.authtries = q.authtries
      /\ r.outgoing = q.outgoing /\ r.owner = q.owner
      /\ r.told = q.told /\ r.moved = q.moved /\ r.gone = q.gone
      /\ r.heard = q.heard /\ r.crossed = q.crossed
      /\ r.pendingbye = q.pendingbye /\ r.established = q.established
  BY Zenon DEF Good, Pvt
<1> HIDE DEF r
<1>2. Packets(r) /\ Waiting(r) = Waiting(q) /\ \A meth : Requests(r, meth) = Requests(q, meth)
  BY <1>1, SMTT(30), Zenon DEF Good, Packets, PacketOK, Waiting, Requests
<1>3. GoneTold(r) /\ Numbers(r) /\ Replies(r, w)
  BY <1>1, <1>2, SMTT(30), Zenon DEF Good, GoneTold, Numbers, Replies, Replied
<1>4. Callee(r) /\ Caller(r, w)
  BY <1>1, <1>2 DEF Good, Callee, Caller
<1>5. QED
  BY <1>1, <1>2, <1>3, <1>4 DEF Good, r

\* A challenged BYE, sent again with credentials.
LEMMA ByeAgainGood ==
  ASSUME NEW q, NEW w, Good(q, w), Requests(q, "BYE") # {}, q.ocseq <= MaxInvites,
         q.authtries # MaxAuth
  PROVE  Good(InDialog([q EXCEPT !.authtries = @ + 1], "BYE", FALSE), w)
<1> DEFINE a == [q EXCEPT !.authtries = @ + 1]
           b == [a EXCEPT !.ocseq = @ + 1]
           m == Msg("BYE", b.ocseq, 0)
           r == __sip_reliable_xmit(b, m, FALSE)
<1>1. /\ q \in Pvt /\ Packets(q) /\ GoneTold(q) /\ Numbers(q) /\ Replies(q, w)
      /\ Callee(q) /\ Caller(q, w)
  BY Zenon DEF Good
<1>2. q.authtries + 1 \in 0 .. MaxAuth /\ q.authtries + 1 \in Nat /\ q.ocseq \in 1 .. MaxInvites
  BY <1>1, SipBounds, SMTT(30) DEF Numbers
<1>3. Tried(q, a) /\ a \in Pvt
  BY <1>1, OneMoreTry, Zenon DEF Tried
<1> HIDE DEF a
<1>4. Advanced(a, b)
  BY <1>3, NextNumber, Zenon
<1> HIDE DEF b
<1>5. Packets(b) /\ b \in Pvt /\ b.ocseq = q.ocseq + 1 /\ b.ocseq \in Nat
  BY <1>1, <1>2, <1>3, <1>4, SMTT(30) DEF Tried, Advanced, Packets, PacketOK
<1>6. m \in Msgs /\ m.meth = "BYE" /\ m.code = 0 /\ m # Ok /\ FALSE \in BOOLEAN
  BY <1>5, SMTT(30) DEF Msg, Msgs, Ok
<1>14. m = Msg("BYE", b.ocseq, 0)
  OBVIOUS
<1> HIDE DEF m
<1>7. Transmitted(b, m, r)
  BY <1>5, <1>6, Xmit, Zenon
<1> HIDE DEF r
<1>8. /\ r \in Pvt /\ Packets(r) /\ Kept(b, r) /\ r.ocseq = b.ocseq
      /\ r.pendingbye = b.pendingbye /\ r.sent = b.sent \union {m}
      /\ r.pendinginvite = b.pendinginvite
  BY <1>6, <1>7, Zenon DEF Transmitted
<1>9. /\ r.sent = q.sent \union {m} /\ r.ocseq = q.ocseq + 1 /\ r.outgoing = q.outgoing
      /\ r.owner = q.owner /\ r.told = q.told /\ r.moved = q.moved /\ r.gone = q.gone
      /\ r.canbye = q.canbye /\ r.heard = q.heard /\ r.established = q.established
      /\ r.crossed = q.crossed /\ r.authtries = q.authtries + 1
      /\ r.pendingbye = q.pendingbye /\ r.pendinginvite = q.pendinginvite
  BY <1>3, <1>4, <1>5, <1>8, Zenon DEF Tried, Advanced, Kept
<1>10. /\ Requests(r, "INVITE") = Requests(q, "INVITE")
       /\ Requests(r, "CANCEL") = Requests(q, "CANCEL") /\ Requests(r, "BYE") # {}
  <2>1. r.sent = b.sent \union {Msg("BYE", b.ocseq, 0)}
    BY <1>8, <1>14, Zenon
  <2>2. Requests(r, "BYE") # {}
    BY <2>1, NewBye, Zenon
  <2>3. m.meth # "INVITE" /\ m.meth # "CANCEL"
    BY <1>6, SMTT(30)
  <2>4. Requests(r, "INVITE") = Requests(q, "INVITE")
    BY <1>9, <2>3, OtherRequests, SMTT(30), Zenon
  <2>5. Requests(r, "CANCEL") = Requests(q, "CANCEL")
    BY <1>9, <2>3, OtherRequests, SMTT(30), Zenon
  <2>6. QED
    BY <2>2, <2>4, <2>5, Zenon
<1>11. Numbers(r)
  <2>1. /\ r.ocseq \in 1 .. (MaxInvites + 1) /\ r.authtries \in 0 .. MaxAuth
        /\ r.pendinginvite \in 0 .. r.ocseq
    BY <1>1, <1>2, <1>9, SipBounds, SMTT(30) DEF Numbers
  <2>2. ASSUME NEW k \in Requests(r, "INVITE") PROVE k.n < r.ocseq /\ k.n <= r.ocseq
    <3>1. k.n <= q.ocseq /\ k.n \in Nat
      BY <1>1, <1>10, SMTT(30) DEF Requests, Pvt, Msgs, Numbers
    <3>2. QED
      BY <1>2, <1>9, <3>1, SMTT(30)
  <2>3. ~r.pendingbye /\ r.owner = "none"
    BY <1>1, <1>9, Zenon DEF Numbers
  <2>4. QED
    BY <1>10, <2>1, <2>2, <2>3, Zenon DEF Numbers
<1>12. Replies(r, w) /\ Callee(r) /\ Caller(r, w) /\ GoneTold(r)
  <2>1. Replies(r, w)
    BY <1>1, <1>9, RepliesGrow, Zenon
  <2>2. r.owner = "none"
    BY <1>1, <1>9, Zenon DEF Numbers
  <2>3. Callee(r)
    BY <1>1, <1>6, <1>9, <1>10, <2>2, Zenon DEF Callee
  <2>4. Caller(r, w)
    BY <1>1, <1>9, <1>10, <2>2, Zenon DEF Caller
  <2>5. QED
    BY <2>1, <2>2, <2>3, <2>4, Zenon DEF GoneTold
<1>13. QED
  BY <1>8, <1>11, <1>12, Zenon DEF Good, r, m, b, a, InDialog

\* A response to our BYE or CANCEL.
LEMMA EndGood ==
  ASSUME NEW q, NEW w, NEW m, NEW r, Good(q, w), Replied(q, m), m.code # 0, m.n = q.ocseq,
         handle_response_end(q, m, r)
  PROVE  Good(r, w)
<1> DEFINE due == \/ m.code = 200 /\ m.meth = "BYE"
                  \/ m.code \in {401, 407} /\ q.outgoing
           v == q.needdestroy \/ due
           b == IF m.code = 486 /\ q.outgoing THEN Rejected(q) ELSE [q EXCEPT !.needdestroy = v]
           challenged == m.meth = "BYE" /\ (m.code = 407 \/ (m.code = 401 /\ ~q.outgoing))
           tries == IF b.authtries = MaxAuth THEN b.authtries ELSE b.authtries + 1
<1>1. q \in Pvt /\ GoneTold(q) /\ Numbers(q)
  BY Zenon DEF Good
<1>2. \/ r = b
      \/ /\ challenged /\ q.authtries # MaxAuth
         /\ r = InDialog([b EXCEPT !.authtries = @ + 1], "BYE", FALSE)
      \/ r = [b EXCEPT !.needdestroy = TRUE, !.authtries = tries]
  BY Zenon DEF handle_response_end
<1>3. v \in BOOLEAN
  BY <1>1, Zenon DEF Pvt
<1>4. challenged => m.meth = "BYE" /\ Challenges(m)
  BY SMTT(30) DEF Challenges
<1> HIDE DEF v, challenged
<1>5. Raised(q, b) /\ GoneTold(b)
  <2>1. CASE m.code = 486 /\ q.outgoing
    BY <1>1, <2>1, FlagsRaised, Zenon DEF Rejected
  <2>2. CASE ~ (m.code = 486 /\ q.outgoing)
    <3>1. b = [q EXCEPT !.needdestroy = v]
      BY <2>2, Zenon
    <3> HIDE DEF b
    <3>2. QED
      BY <1>1, <1>3, <3>1, Zenon DEF Raised, Unsent, Pvt, GoneTold
  <2>3. QED
    BY <2>1, <2>2
<1> HIDE DEF b
<1>6. Good(b, w)
  BY <1>5, RaisedGood, Zenon
<1>7. b \in Pvt /\ Packets(b) /\ Numbers(b)
  BY <1>6, Zenon DEF Good
<1>8. CASE challenged /\ q.authtries # MaxAuth
           /\ r = InDialog([b EXCEPT !.authtries = @ + 1], "BYE", FALSE)
  <2>1. Msg("BYE", q.ocseq, 0) \in q.sent /\ q.ocseq <= MaxInvites
    BY <1>4, <1>8, Zenon DEF Replied
  <2>2. Msg("BYE", q.ocseq, 0) \in Requests(b, "BYE")
    BY <1>5, <2>1, SMTT(30) DEF Requests, Raised, Unsent, Msg
  <2>3. b.ocseq = q.ocseq /\ b.authtries = q.authtries
    BY <1>5, Zenon DEF Raised, Unsent
  <2>4. QED
    BY <1>6, <1>8, <2>1, <2>2, <2>3, ByeAgainGood, Zenon
<1>9. CASE r = [b EXCEPT !.needdestroy = TRUE, !.authtries = tries]
  <2>1. tries \in 0 .. MaxAuth /\ tries \in Nat
    BY <1>7, SipBounds, SMTT(30) DEF Numbers
  <2> HIDE DEF tries
  <2>2. /\ r \in Pvt /\ r.packets = b.packets /\ Unsent(b, r) /\ r.authtries = tries
        /\ r.outgoing = b.outgoing /\ r.owner = b.owner /\ r.canbye = b.canbye
        /\ r.heard = b.heard /\ r.established = b.established /\ r.crossed = b.crossed
        /\ r.gone = b.gone /\ r.pendinginvite = b.pendinginvite
        /\ r.told = b.told /\ r.moved = b.moved
    BY <1>7, <1>9, <2>1, Zenon DEF Pvt, Unsent
  <2>3. Packets(r) /\ Waiting(r) = Waiting(b)
    BY <1>7, <2>2, Zenon DEF Packets, PacketOK, Waiting, Unsent
  <2>4. Calm(b, r) /\ GoneTold(r)
    BY <1>5, <2>1, <2>2, <2>3, Zenon DEF Calm, GoneTold
  <2>5. QED
    BY <1>6, <2>2, <2>3, <2>4, CalmGood, Zenon
<1>10. QED
  BY <1>2, <1>6, <1>8, <1>9, Zenon

\* A response to a request: the pvt it finds is good, and stays so.
LEMMA ResponseGood ==
  ASSUME SipInv, NEW m \in wire \union Trying, handle_response(m)
  PROVE  Good(p', wire)
<1> DEFINE q == Matched(m)
<1>1. m.code # 0 /\ m.n = p.ocseq
  BY SMTT(30), Zenon DEF handle_response
<1>12. m \in Msgs /\ Replied(p, m) /\ (m.code \notin Provisional => m \in wire)
  BY Delivered, Zenon
<1>2. /\ q \in Pvt /\ Packets(q) /\ Calm(p, q)
      /\ q.owner = p.owner /\ q.gone = p.gone /\ q.told = p.told /\ q.moved = p.moved
      /\ q.crossed = p.crossed
      /\ m.meth = "INVITE" => m.n \in q.heard
      /\ m.meth = "INVITE" /\ m.code \in Final /\ p.outgoing /\ p.owner # "none" /\ ~p.gone
            => q.pendinginvite = 0
  BY <1>1, <1>12, MatchedFields, SMTT(30), Zenon
<1>3. Good(q, wire) /\ m.n = q.ocseq /\ Replied(q, m)
  <2>1. GoneTold(q)
    BY <1>2 DEF SipInv, Good, GoneTold
  <2>2. q.sent = p.sent
    BY <1>2, Zenon DEF Calm, Unsent
  <2>3. QED
    BY <1>1, <1>2, <1>12, <2>1, <2>2, CalmGood, SMTT(30), Zenon DEF SipInv, Calm, Unsent, Replied
<1>4. \/ m.meth = "INVITE" /\ handle_response_invite(q, m.code, p')
      \/ m.meth = "INVITE" /\ p' = sip_cancel_destroy(q)
      \/ m.meth = "INVITE" /\ p' = Rejected(q)
      \/ handle_response_end(q, m, p')
  BY Zenon DEF handle_response
<1> HIDE DEF q
<1>5. ASSUME Raised(q, p'), GoneTold(p')
      PROVE  Good(p', wire)
  BY <1>3, <1>5, RaisedGood, Zenon
<1>6. CASE p' = q
  BY <1>3, <1>6
<1>7. CASE p' = sip_cancel_destroy(q)
  <2>1. Raised(q, p') /\ GoneTold(p')
    BY <1>3, <1>7, Zenon DEF Good, GoneTold, Raised, Unsent, Pvt, sip_cancel_destroy
  <2>2. QED
    BY <1>5, <2>1
<1>8. CASE p' = Rejected(q) \/ p' = Tell(q) \/ p' = Tell([q EXCEPT !.gone = TRUE])
           \/ p' = Tell([q EXCEPT !.needdestroy = TRUE, !.gone = TRUE])
  <2>1. Raised(q, p') /\ GoneTold(p')
    BY <1>2, <1>8, FlagsRaised, Zenon DEF Rejected
  <2>2. QED
    BY <1>5, <2>1, Zenon
<1>13. CASE handle_response_end(q, m, p')
  BY <1>1, <1>3, <1>13, EndGood, Zenon
<1>9. CASE m.meth = "INVITE" /\ ~q.gone
  <2>1. /\ q.outgoing /\ Requests(q, "BYE") = {}
        /\ \A k \in Requests(q, "INVITE") : k.n <= m.n
    BY <1>1, <1>3, <1>9, AnsweredInvite, SMTT(30), Zenon
  <2>2. q.heard # {} /\ (q.established /\ q.owner # "none" /\ ~q.gone => q.pendinginvite = 0)
    BY <1>2, <1>3, <1>9, <2>1, SMTT(30), Zenon DEF Good, Caller
  <2>3. ASSUME NEW a, \/ a = [q EXCEPT !.autokillid = FALSE]
                      \/ a = [q EXCEPT !.autokillid = FALSE, !.canbye = TRUE]
        PROVE  Good(check_pendings(a), wire)
    <3>1. Heard(q, a, wire)
      <4>1. /\ a \in Pvt /\ a.packets = q.packets /\ a.pendinginvite = q.pendinginvite
            /\ a.sent = q.sent /\ a.ocseq = q.ocseq /\ a.authtries = q.authtries
            /\ a.outgoing = q.outgoing /\ a.owner = q.owner
            /\ a.told = q.told /\ a.moved = q.moved /\ a.gone = q.gone
            /\ a.heard = q.heard /\ a.crossed = q.crossed
            /\ a.pendingbye = q.pendingbye /\ a.established = q.established
        <5>1. CASE a = [q EXCEPT !.autokillid = FALSE]
          BY <1>2, <5>1, Zenon DEF Pvt
        <5>2. CASE a = [q EXCEPT !.autokillid = FALSE, !.canbye = TRUE]
          BY <1>2, <5>2, Zenon DEF Pvt
        <5>3. QED
          BY <2>3, <5>1, <5>2
      <4>2. QED
        BY <1>3, <2>1, <4>1, Zenon DEF Heard, Good, Caller, Numbers
    <3>2. QED
      BY <1>3, <2>1, <2>2, <3>1, HeardGood, SMTT(30), Zenon
  <2>4. CASE m.code = 100 /\ p' = [check_pendings(sip_cancel_destroy(q)) EXCEPT !.canbye = TRUE]
    <3> DEFINE x == check_pendings([q EXCEPT !.autokillid = FALSE])
    <3>1. Good(x, wire) /\ p' = [x EXCEPT !.canbye = TRUE]
      BY <2>3, <2>4 DEF sip_cancel_destroy
    <3>2. x.heard = q.heard
      <4>1. [q EXCEPT !.autokillid = FALSE] \in Pvt /\ Packets([q EXCEPT !.autokillid = FALSE])
            /\ [q EXCEPT !.autokillid = FALSE].heard = q.heard
        BY <1>2, Zenon DEF Pvt, Packets, PacketOK
      <4>2. QED
        BY <4>1, CheckPendings, Zenon DEF Kept
    <3> HIDE DEF x
    <3>3. QED
      BY <2>2, <3>1, <3>2, CanByeGood, Zenon
  <2>5. CASE m.code = 180 /\ p' = check_pendings([sip_cancel_destroy(q) EXCEPT !.canbye = TRUE])
    BY <2>3, <2>5 DEF sip_cancel_destroy
  <2>6. CASE m.code = 200 /\ p' = check_pendings([Answered(sip_cancel_destroy(q))
                                    EXCEPT !.canbye = TRUE, !.established = TRUE])
    <3> DEFINE a == [Answered(sip_cancel_destroy(q)) EXCEPT !.canbye = TRUE, !.established = TRUE]
    <3>1. /\ a \in Pvt /\ a.packets = q.packets /\ a.pendinginvite = q.pendinginvite
          /\ a.sent = q.sent /\ a.ocseq = q.ocseq /\ a.authtries = q.authtries
          /\ a.outgoing = q.outgoing /\ a.owner = q.owner
          /\ a.told = q.told /\ a.moved = q.moved /\ a.gone = q.gone
          /\ a.heard = q.heard /\ a.crossed = q.crossed
          /\ a.canbye /\ (q.owner = "none" => a.pendingbye)
          /\ (q.owner # "none" => a.pendingbye = q.pendingbye)
      <4> DEFINE b == sip_cancel_destroy(q)
                 c == Answered(b)
      <4>1. Raised(q, b) /\ b.told = q.told /\ b.moved = q.moved /\ b.gone = q.gone
        BY <1>2, Zenon DEF Pvt, Raised, Unsent, sip_cancel_destroy
      <4> HIDE DEF b
      <4>2. /\ c \in Pvt /\ c.packets = b.packets /\ c.pendinginvite = b.pendinginvite
            /\ c.sent = b.sent /\ c.ocseq = b.ocseq /\ c.authtries = b.authtries
            /\ c.outgoing = b.outgoing /\ c.owner = b.owner
            /\ c.told = b.told /\ c.moved = b.moved /\ c.gone = b.gone
            /\ c.heard = b.heard /\ c.crossed = b.crossed
            /\ (b.owner = "none" => c.pendingbye)
            /\ (b.owner # "none" => c.pendingbye = b.pendingbye)
        <5>1. b \in Pvt
          BY <4>1, SMTT(30) DEF Raised
        <5>2. CASE b.owner = "none"
          BY <5>1, <5>2, Zenon DEF Pvt, Answered
        <5>3. CASE b.owner # "none"
          <6> DEFINE early == (b.owner = "early")
          <6>1. c = [b EXCEPT !.answer = early]
            BY <5>3 DEF Answered
          <6>2. early \in BOOLEAN
            OBVIOUS
          <6> HIDE DEF early, c
          <6>3. QED
            BY <5>1, <5>3, <6>1, <6>2, Zenon DEF Pvt
        <5>4. QED
          BY <5>2, <5>3, SMTT(30), Zenon
      <4>3. a = [c EXCEPT !.canbye = TRUE, !.established = TRUE]
        BY Zenon DEF b
      <4> HIDE DEF c, a
      <4>4. /\ a \in Pvt /\ a.packets = c.packets /\ a.pendinginvite = c.pendinginvite
            /\ a.sent = c.sent /\ a.ocseq = c.ocseq /\ a.authtries = c.authtries
            /\ a.outgoing = c.outgoing /\ a.owner = c.owner
            /\ a.told = c.told /\ a.moved = c.moved /\ a.gone = c.gone
            /\ a.heard = c.heard /\ a.crossed = c.crossed
            /\ a.canbye /\ a.pendingbye = c.pendingbye
        BY <4>2, <4>3, Zenon DEF Pvt
      <4>5. QED
        BY <4>1, <4>2, <4>4, Zenon DEF Raised, Unsent
    <3> HIDE DEF a
    <3>2. q.owner # "none" /\ ~q.gone => q.pendinginvite = 0
      BY <1>2, <1>9, <2>1, <2>6, SMTT(60) DEF Final, Calm
    <3>5. m \in wire
      BY <1>12, <2>6, SMTT(30) DEF Provisional
    <3>3. Heard(q, a, wire)
      BY <1>3, <1>9, <2>1, <2>6, <3>1, <3>2, <3>5, Zenon DEF Heard, Good, Numbers
    <3>4. QED
      BY <1>3, <2>1, <2>2, <2>6, <3>3, HeardGood DEF a
  <2>7. CASE m.code \in {401, 407} /\ q.authtries # MaxAuth
             /\ p' = transmit_invite([q EXCEPT !.authtries = @ + 1, !.ocseq = @ + 1])
    <3>4. m \in wire
      BY <1>12, <2>7, SMTT(30) DEF Provisional
    <3>5. Challenges(m)
      BY <2>7, SMTT(30) DEF Challenges
    <3>1. Good(Retry(q), wire)
      BY <1>3, <1>9, <2>7, <3>4, <3>5, AuthGood, SMTT(60)
    <3>2. p' = Retry(q)
      BY <2>7 DEF Retry
    <3>3. QED
      BY <3>1, <3>2, Zenon
  <2>8. CASE handle_response_invite(q, m.code, p')
    BY <1>6, <1>8, <1>9, <2>4, <2>5, <2>6, <2>7, <2>8, SMTT(60) DEF handle_response_invite
  <2>9. QED
    BY <1>4, <1>7, <1>8, <1>13, <2>8, Zenon
<1>10. CASE q.gone /\ m.meth = "INVITE"
  BY <1>4, <1>6, <1>7, <1>8, <1>10, <1>13, Zenon DEF handle_response_invite
<1>11. QED
  BY <1>4, <1>9, <1>10, <1>13, Zenon

(***************************************************************************)
(* Requests.                                                               *)
(***************************************************************************)

\* A call we received has no INVITE of ours among its packets.
LEMMA NoInviteWaits ==
  ASSUME NEW q, NEW w, NEW n, Good(q, w), ~q.outgoing
  PROVE  Invite(n) \notin Waiting(q)
<1>1. Invite(n).code = 0 /\ Invite(n).meth = "INVITE"
  BY Zenon DEF Invite, Msg
<1>2. ASSUME Invite(n) \in Waiting(q) PROVE Invite(n) \in Requests(q, "INVITE")
  BY <1>1, <1>2, SMTT(30), Zenon DEF Good, Waiting, Packets, PacketOK, Requests
<1>3. QED
  BY <1>2, Zenon DEF Good, Callee

\* A response k that a call we received sends.
Responds(q, k, r) ==
    /\ r \in Pvt /\ Packets(r) /\ GoneTold(r) /\ r.sent = q.sent \union {k} /\ k.code # 0
    /\ r.ocseq = q.ocseq /\ r.pendingbye = q.pendingbye /\ r.pendinginvite = q.pendinginvite
    /\ r.authtries = q.authtries /\ r.outgoing = q.outgoing /\ r.canbye = q.canbye
    /\ r.heard = q.heard /\ r.established = q.established /\ r.crossed = q.crossed
    /\ q.gone => r.gone
    /\ r.owner = q.owner \/ (q.owner = "early" /\ r.owner = "up")
    /\ k = Ok => r.owner = "up"

\* An answer of ours to a request keeps the invariant.
LEMMA RespondsGood ==
  ASSUME NEW q, NEW k, NEW r, NEW w, Good(q, w), ~q.outgoing, Responds(q, k, r)
  PROVE  Good(r, w)
<1>1. \A meth : Requests(r, meth) = Requests(q, meth)
  BY SMTT(30), Zenon DEF Responds, Requests
<1>2. Numbers(r)
  BY <1>1, Zenon DEF Numbers, Responds, Good
<1>3. Replies(r, w)
  BY RepliesGrow, SMTT(30), Zenon DEF Responds, Good
<1>4. Callee(r)
  BY <1>1, SMTT(30), Zenon DEF Callee, Responds, Good
<1>5. Caller(r, w)
  BY DEF Caller, Responds
<1>6. QED
  BY <1>2, <1>3, <1>4, <1>5, SMTT(30), Zenon DEF Good, Responds

\* An answer: the call goes up.
LEMMA AnswerGood ==
  ASSUME SipInv, sip_answer
  PROVE  SipInv'
<1> DEFINE a == [p EXCEPT !.owner = "up"]
<1>1. Good(p, wire) /\ p \in Pvt /\ Packets(p) /\ GoneTold(p)
  BY DEF SipInv, Good
<1>2. /\ a \in Pvt /\ a.packets = p.packets /\ a.sent = p.sent /\ a.ocseq = p.ocseq
      /\ a.pendingbye = p.pendingbye /\ a.pendinginvite = p.pendinginvite
      /\ a.authtries = p.authtries /\ a.outgoing = p.outgoing /\ a.canbye = p.canbye
      /\ a.heard = p.heard /\ a.established = p.established /\ a.crossed = p.crossed
      /\ a.gone = p.gone /\ a.told = p.told /\ a.moved = p.moved /\ a.owner = "up"
  BY <1>1, SMTT(30), Zenon DEF Pvt
<1>3. p' = __sip_reliable_xmit(a, Ok, TRUE) /\ ~p.outgoing /\ p.owner = "early"
  BY DEF sip_answer, Ok
<1> HIDE DEF a
<1>4. Ok \in Msgs /\ Ok.code # 0 /\ TRUE \in BOOLEAN
  BY DEF Ok, Msg, Msgs, Final
<1>5. Packets(a)
  BY <1>1, <1>2 DEF Packets, PacketOK
<1>6. Transmitted(a, Ok, p')
  BY <1>2, <1>3, <1>4, <1>5, Xmit, Zenon
<1>7. GoneTold(p')
  BY <1>1, <1>2, <1>3, <1>6, Zenon DEF Transmitted, Kept, GoneTold
<1>8. Responds(p, Ok, p')
  BY <1>2, <1>3, <1>4, <1>6, <1>7, Zenon DEF Transmitted, Kept, Responds
<1>9. Good(p', wire)
  BY <1>1, <1>3, <1>8, RespondsGood, Zenon
<1>10. QED
  BY <1>9, Zenon DEF SipInv, sip_answer

\* A BYE of the peer.
LEMMA ByeGood ==
  ASSUME SipInv, NEW m \in wire, handle_request_bye(m)
  PROVE  Good(p', wire)
<1> DEFINE k == Msg("INVITE", 1, 487)
           ignore == p.icseq = m.n
           q == IF p.pendinginvite # 0 /\ ~p.outgoing /\ ~ignore /\ p.owner = "none"
                THEN __sip_reliable_xmit(p, k, TRUE) ELSE p
           g == [q EXCEPT !.gone = TRUE, !.icseq = m.n]
<1>1. Good(p, wire) /\ p \in Pvt /\ Packets(p) /\ m.n \in Nat
  BY DEF SipInv, Good, Replies, Msgs
<1>2. k \in Msgs /\ k.code # 0 /\ k # Ok /\ TRUE \in BOOLEAN
  BY DEF Msg, Msgs, Final, Refused, Ok
<1>3. p' = TellOrDestroy(g) \/ p' = Tell(g) \/ p' = [g EXCEPT !.moved = TRUE]
  BY Zenon DEF handle_request_bye
<1> HIDE DEF k
<1>4. q = p \/ (~p.outgoing /\ q = __sip_reliable_xmit(p, k, TRUE))
  OBVIOUS
<1>5. q = p \/ (~p.outgoing /\ Transmitted(p, k, q))
  BY <1>1, <1>2, <1>4, Xmit, Zenon
<1> HIDE DEF q
<1>6. q \in Pvt /\ Packets(q)
  BY <1>1, <1>5, SMTT(30), Zenon DEF Transmitted
<1>7. Raised(q, p') /\ GoneTold(p')
  <2>1. Raised(q, g)
    BY <1>1, <1>6, Zenon DEF Raised, Unsent, Pvt
  <2>2. g \in Pvt
    BY <2>1 DEF Raised
  <2> HIDE DEF g
  <2>5. ASSUME p' = [g EXCEPT !.moved = TRUE] PROVE Raised(g, p') /\ GoneTold(p')
    BY <2>2, <2>5, Zenon DEF Raised, Unsent, Pvt, GoneTold
  <2>3. Raised(g, p') /\ GoneTold(p')
    BY <1>3, <2>2, <2>5, DestroyRaised, FlagsRaised, Zenon
  <2>4. QED
    BY <2>1, <2>2, <2>3, SMTT(30), Zenon DEF Raised, Unsent
<1>8. CASE q = p
  <2>1. Calm(p, p)
    BY CalmSelf, SMTT(30) DEF SipInv, Good
  <2>2. QED
    BY <1>1, <1>7, <1>8, <2>1, RaisedCalm, CalmGood, SMTT(30), Zenon DEF Raised
<1>9. CASE ~p.outgoing /\ Transmitted(p, k, q)
  <2>1. Packets(p')
    BY <1>6, <1>7, SMTT(30), Zenon DEF Raised, Packets, PacketOK, Unsent
  <2>2. Responds(p, k, p')
    BY <1>2, <1>7, <1>9, <2>1 DEF Responds, Transmitted, Kept, Raised, Unsent
  <2>3. QED
    BY <1>1, <1>9, <2>2, RespondsGood, Zenon
<1>10. QED
  BY <1>5, <1>8, <1>9, Zenon

\* A CANCEL of the peer.
LEMMA CancelGood ==
  ASSUME SipInv, NEW m \in wire, m.code = 0, handle_request_cancel(m)
  PROVE  Good(p', wire)
<1> DEFINE q == TellOrDestroy([p EXCEPT !.gone = TRUE])
           k == Msg("INVITE", 1, 487)
<1>1. Good(p, wire) /\ p \in Pvt /\ Packets(p) /\ ~p.outgoing
  BY DEF SipInv, Good, Replies, handle_request_cancel
<1>2. k \in Msgs /\ k.code # 0 /\ k # Ok /\ TRUE \in BOOLEAN
  BY DEF Msg, Msgs, Final, Refused, Ok
<1>3. Raised(p, q) /\ GoneTold(q)
  BY <1>1, FlagsRaised, Zenon
<1>4. p' = q \/ p' = __sip_reliable_xmit(q, k, TRUE)
  BY Zenon DEF handle_request_cancel
<1> HIDE DEF q, k
<1>5. q \in Pvt /\ Packets(q) /\ Good(q, wire)
  <2>1. Calm(p, p)
    BY CalmSelf DEF SipInv, Good
  <2>2. QED
    BY <1>1, <1>3, <2>1, RaisedCalm, CalmGood, Zenon DEF Raised
<1>6. CASE p' = __sip_reliable_xmit(q, k, TRUE)
  <2>1. Transmitted(q, k, p')
    BY <1>2, <1>5, <1>6, Xmit, Zenon
  <2>2. GoneTold(p')
    BY <1>3, <2>1, SMTT(30), Zenon DEF GoneTold, Transmitted, Kept
  <2>3. Responds(q, k, p') /\ ~q.outgoing
    BY <1>1, <1>2, <1>3, <2>1, <2>2, Zenon DEF Responds, Transmitted, Kept, Raised
  <2>4. QED
    BY <1>5, <2>3, RespondsGood
<1>7. QED
  BY <1>4, <1>5, <1>6, Zenon

\* A repeated INVITE.
LEMMA AgainGood ==
  ASSUME SipInv, NEW m \in wire, m.code = 0, handle_request_invite(m)
  PROVE  Good(p', wire)
<1>1. Good(p, wire) /\ p \in Pvt /\ Packets(p) /\ GoneTold(p) /\ ~p.outgoing
  BY DEF SipInv, Good, Replies, handle_request_invite
<1>2. Ok \in Msgs /\ Ok.code # 0 /\ FALSE \in BOOLEAN
  BY SMTT(60) DEF Ok, Msg, Msgs, Final
<1>3. p.owner = "up" /\ p' = __sip_reliable_xmit(p, Ok, FALSE)
  BY DEF handle_request_invite, Ok
<1>4. Transmitted(p, Ok, p')
  BY <1>1, <1>2, <1>3, Xmit, Zenon
<1>5. GoneTold(p')
  BY <1>1, <1>4, SMTT(30) DEF GoneTold, Transmitted, Kept
<1>6. Responds(p, Ok, p')
  BY <1>2, <1>3, <1>4, <1>5, Zenon DEF Responds, Transmitted, Kept
<1>7. QED
  BY <1>1, <1>6, RespondsGood, SMTT(30), Zenon

\* a is q once its pending INVITE is acknowledged.
Settled(q, a) ==
    /\ a \in Pvt /\ a.packets = q.packets /\ a.sent = q.sent /\ a.ocseq = q.ocseq
    /\ a.pendingbye = q.pendingbye /\ a.outgoing = q.outgoing /\ a.owner = q.owner
    /\ a.told = q.told /\ a.moved = q.moved /\ a.gone = q.gone /\ a.canbye = q.canbye /\ a.heard = q.heard
    /\ a.crossed = q.crossed /\ a.authtries = q.authtries /\ a.pendinginvite = 0
    /\ a.established => Ok \in q.sent

\* An ACK: what the hangup of a call we received had put off is sent.
LEMMA SettledGood ==
  ASSUME NEW q, NEW a, NEW w, Good(q, w), ~q.outgoing, Settled(q, a)
  PROVE  Good(check_pendings(a), w)
<1> DEFINE r == check_pendings(a)
<1>1. q \in Pvt /\ Packets(q) /\ Numbers(q) /\ Replies(q, w) /\ Callee(q) /\ GoneTold(q)
  BY Zenon DEF Good
<1>2. a \in Pvt /\ Packets(a) /\ Waiting(a) = Waiting(q)
  BY <1>1, SMTT(30), Zenon DEF Settled, Packets, PacketOK, Waiting
<1>3. /\ r \in Pvt /\ Packets(r) /\ Kept(a, r) /\ ~r.pendingbye
      /\ r.pendinginvite = a.pendinginvite
      /\ ~a.pendingbye => r.sent = a.sent /\ r.ocseq = a.ocseq
      /\ a.pendingbye /\ a.canbye =>
            r.sent = a.sent \union {Msg("BYE", a.ocseq + 1, 0)} /\ r.ocseq = a.ocseq + 1
      /\ a.pendingbye /\ ~a.canbye =>
            r.sent = a.sent \union {Msg("CANCEL", a.ocseq, 0)} /\ r.ocseq = a.ocseq
  BY <1>2, CheckPendings, Zenon
<1> HIDE DEF r
<1>4. /\ Msg("BYE", a.ocseq + 1, 0).meth = "BYE" /\ Msg("CANCEL", a.ocseq, 0).meth = "CANCEL"
      /\ Msg("BYE", a.ocseq + 1, 0) # Ok /\ Msg("CANCEL", a.ocseq, 0) # Ok
  BY SMTT(30), Zenon DEF Msg, Ok
<1>5. q.sent \subseteq r.sent /\ (Ok \in r.sent => Ok \in q.sent)
  BY <1>3, <1>4 DEF Settled
<1>6. Requests(r, "INVITE") = {}
  <2>1. Requests(a, "INVITE") = {}
    BY <1>1, Zenon DEF Settled, Requests, Callee
  <2>2. CASE ~a.pendingbye
    BY <1>3, <2>1, <2>2, SMTT(30), Zenon DEF Requests
  <2>3. CASE a.pendingbye
    BY <1>3, <1>4, <2>1, <2>3, OtherRequests, SMTT(60)
  <2>4. QED
    BY <2>2, <2>3, SMTT(30), Zenon
<1>7. Requests(q, "BYE") # {} => Requests(r, "BYE") # {}
  BY <1>5 DEF Requests
<1>8. Numbers(r)
  <2>1. CASE a.pendingbye /\ a.canbye
    <3>1. Requests(r, "BYE") # {}
      BY <1>3, <2>1, NewBye, Zenon
    <3>6. q.pendingbye /\ q.owner = "none" /\ Requests(q, "BYE") = {}
      BY <1>1, <2>1, Zenon DEF Settled, Numbers
    <3>7. q.ocseq \in 1 .. MaxInvites
      BY <1>1, <3>6, SipBounds, SMTT(30), Zenon DEF Numbers
    <3>2. r.owner = "none" /\ q.ocseq \in 1 .. MaxInvites /\ r.ocseq = q.ocseq + 1
      BY <1>3, <2>1, <3>6, <3>7, SMTT(30), Zenon DEF Settled, Kept
    <3>3. r.ocseq \in 1 .. (MaxInvites + 1) /\ r.pendinginvite \in 0 .. r.ocseq
      BY <1>3, <3>2, SipBounds, SMTT(30), Zenon DEF Settled
    <3>4. r.authtries \in 0 .. MaxAuth
      BY <1>1, <1>3, SMTT(30), Zenon DEF Settled, Numbers, Kept
    <3>5. QED
      BY <1>3, <1>6, <3>1, <3>2, <3>3, <3>4, Zenon DEF Numbers
  <2>2. CASE ~ (a.pendingbye /\ a.canbye)
    <3>1. r.ocseq = q.ocseq /\ r.owner = q.owner /\ r.authtries = q.authtries /\ r.pendinginvite = 0
      BY <1>3, <2>2, Zenon DEF Settled, Kept
    <3>2. Requests(r, "BYE") = Requests(q, "BYE")
      <4>1. Requests(a, "BYE") = Requests(q, "BYE")
        BY SMTT(30), Zenon DEF Settled, Requests
      <4>2. CASE ~a.pendingbye
        BY <1>3, <4>1, <4>2, SMTT(30), Zenon DEF Requests
      <4>3. CASE a.pendingbye
        BY <1>3, <1>4, <2>2, <4>1, <4>3, OtherRequests, SMTT(30), Zenon
      <4>4. QED
        BY <4>2, <4>3, Zenon
    <3>3. QED
      BY <1>1, <1>3, <1>6, <3>1, <3>2, SipBounds, SMTT(30), Zenon DEF Numbers
  <2>3. QED
    BY <2>1, <2>2, SMTT(30), Zenon
<1>9. Replies(r, w)
  BY <1>1, <1>3, <1>5, RepliesGrow, SMTT(30), Zenon DEF Settled, Kept
<1>10. Callee(r)
  BY <1>1, <1>3, <1>5, <1>6, <1>7, SMTT(30), Zenon DEF Callee, Settled, Kept
<1>11. Caller(r, w)
  BY <1>3, SMTT(30), Zenon DEF Caller, Settled, Kept
<1>12. GoneTold(r)
  BY <1>1, <1>3 DEF GoneTold, Settled, Kept
<1>13. QED
  BY <1>3, <1>8, <1>9, <1>10, <1>11, <1>12, SMTT(30), Zenon DEF Good, r

\* handle_request_ack.
LEMMA AckGood ==
  ASSUME SipInv, NEW m \in wire, m.code = 0, handle_request_ack(m)
  PROVE  Good(p', wire)
<1> DEFINE q == __sip_ack(p, m.n, TRUE, "ACK")
           up == Ok \in p.sent /\ ~p.gone
           a == [q EXCEPT !.pendinginvite = 0, !.established = up]
<1>1. Good(p, wire) /\ p \in Pvt /\ Packets(p) /\ GoneTold(p) /\ Numbers(p) /\ ~p.outgoing /\ m.n \in Nat
  BY DEF SipInv, Good, Replies, handle_request_ack, Msgs
<1>2. p' = q \/ p' = check_pendings(a) \/ p' = p
  BY Zenon DEF handle_request_ack, Ok
<1>3. PICK resp \in BOOLEAN : resp = TRUE
  OBVIOUS
<1>4. q = __sip_ack(p, m.n, resp, "ACK")
  BY <1>3, Zenon
<1>5. up \in BOOLEAN /\ (up => Ok \in p.sent)
  OBVIOUS
<1> HIDE DEF q, up
<1>6. Acked(p, m.n, resp, "ACK", q)
  BY <1>1, <1>4, AckFields, Zenon
<1>7. /\ q \in Pvt /\ Packets(q) /\ Kept(p, q) /\ Unsent(p, q)
      /\ q.pendinginvite \in {0, p.pendinginvite}
  BY <1>6, Zenon DEF Acked
<1>8. Calm(p, q) /\ GoneTold(q)
  <2>1. Invite(p.ocseq) \notin Waiting(p)
    BY <1>1, NoInviteWaits, Zenon
  <2>2. QED
    BY <1>1, <1>7, <2>1 DEF Calm, Kept, GoneTold, Numbers
<1>9. Good(q, wire) /\ ~q.outgoing
  BY <1>1, <1>7, <1>8, CalmGood, Zenon DEF Kept
<1>10. Settled(q, a)
  BY <1>5, <1>7, Zenon DEF Settled, Pvt, Unsent
<1>11. Good(check_pendings(a), wire)
  BY <1>9, <1>10, SettledGood, Zenon
<1>12. QED
  BY <1>1, <1>2, <1>9, <1>11, Zenon

(***************************************************************************)
(* The owner's calls.                                                      *)
(***************************************************************************)

\* r is q as its owner leaves it, with the dialog still alive.
Leaves(q, r) ==
    /\ r \in Pvt /\ Packets(r) /\ q.owner # "none" /\ r.owner = "none"
    /\ r.outgoing = q.outgoing /\ r.canbye = q.canbye /\ r.heard = q.heard
    /\ r.established = q.established /\ r.authtries = q.authtries
    /\ r.pendinginvite \in {0, q.pendinginvite}

\* S is what it sends, at most a CANCEL or a final response: then no answered
\* call is left, or the hangup crossed the answer.
Quietly(q, r, S) ==
    /\ r.ocseq = q.ocseq /\ r.sent = q.sent \union S
    /\ \A k \in S : k # Ok /\ (k.code # 0 \/ (k.meth = "CANCEL" /\ (q.outgoing => q.canbye)))
    /\ q.outgoing /\ q.established => r.crossed
    /\ ~q.outgoing /\ Ok \in q.sent => r.crossed

\* An owner leaves so where no answered call is left, or its hangup crossed the answer.
LEMMA LeavesQuietly ==
  ASSUME NEW q, NEW r, NEW w, NEW S, Good(q, w), Leaves(q, r), Quietly(q, r, S)
  PROVE  Good(r, w)
<1>1. q \in Pvt /\ Numbers(q) /\ Replies(q, w) /\ Callee(q) /\ Caller(q, w)
  BY Zenon DEF Good
<1>2. Requests(r, "INVITE") = Requests(q, "INVITE") /\ Requests(r, "BYE") = Requests(q, "BYE")
  BY Zenon DEF Requests, Quietly
<1>3. Requests(q, "BYE") = {}
  BY <1>1, Zenon DEF Numbers, Leaves, Quietly
<1>4. Requests(r, "CANCEL") # {} /\ q.outgoing => q.canbye \/ Requests(q, "CANCEL") # {}
  BY SMTT(30), Zenon DEF Requests, Quietly
<1>5. Numbers(r)
  <2>1. r.pendinginvite \in 0 .. r.ocseq /\ r.authtries \in 0 .. MaxAuth
    BY <1>1, SMTT(30), Zenon DEF Numbers, Leaves, Quietly
  <2>2. QED
    BY <1>1, <1>2, <1>3, <2>1, SMTT(30), Zenon DEF Numbers, Leaves, Quietly
<1>6. Replies(r, w)
  BY <1>1, RepliesGrow, SMTT(30), Zenon DEF Leaves, Quietly
<1>7. Callee(r)
  BY <1>1, <1>2, SMTT(30), Zenon DEF Callee, Leaves, Quietly
<1>8. Caller(r, w)
  BY <1>1, <1>2, <1>4, SMTT(30), Zenon DEF Caller, Leaves, Quietly
<1>9. QED
  BY <1>5, <1>6, <1>7, <1>8, SMTT(30), Zenon DEF Good, GoneTold, Leaves

\* It sends a BYE.
LEMMA LeavesByBye ==
  ASSUME NEW q, NEW r, NEW w, Good(q, w), Leaves(q, r), r.ocseq = q.ocseq + 1, ~r.pendingbye,
         r.sent = q.sent \union {Msg("BYE", q.ocseq + 1, 0)}
  PROVE  Good(r, w)
<1>1. q \in Pvt /\ Numbers(q) /\ Replies(q, w) /\ Callee(q) /\ Caller(q, w)
  BY Zenon DEF Good
<1>10. Msg("BYE", q.ocseq + 1, 0).meth = "BYE" /\ Msg("BYE", q.ocseq + 1, 0) # Ok
  BY DEF Msg, Ok
<1>11. Requests(r, "BYE") # {}
  BY NewBye, Zenon
<1>2. /\ Msg("BYE", q.ocseq + 1, 0).meth = "BYE" /\ Msg("BYE", q.ocseq + 1, 0) # Ok
      /\ Requests(r, "BYE") # {}
  BY <1>10, <1>11, SMTT(30), Zenon
<1>3. Requests(r, "INVITE") = Requests(q, "INVITE") /\ Requests(r, "CANCEL") = Requests(q, "CANCEL")
  BY <1>2, OtherRequests, SMTT(30), Zenon
<1>4. q.ocseq \in 1 .. MaxInvites
  BY <1>1, SipBounds, SMTT(30), Zenon DEF Numbers, Leaves
<1>5. Numbers(r)
  <2>1. /\ r.pendinginvite \in 0 .. r.ocseq /\ r.authtries \in 0 .. MaxAuth
        /\ r.ocseq \in 1 .. (MaxInvites + 1)
    BY <1>1, <1>4, SipBounds, SMTT(30), Zenon DEF Numbers, Leaves
  <2>2. ASSUME NEW k \in Requests(r, "INVITE") PROVE k.n < r.ocseq /\ k.n <= r.ocseq
    <3>1. k.n <= q.ocseq /\ k.n \in Nat
      BY <1>1, <1>3, SMTT(30), Zenon DEF Requests, Pvt, Msgs, Numbers
    <3>2. QED
      BY <1>4, <3>1, SMTT(30), Zenon
  <2>3. QED
    BY <1>2, <2>1, <2>2, SMTT(30), Zenon DEF Numbers, Leaves
<1>6. Replies(r, w)
  BY <1>1, RepliesGrow, SMTT(30), Zenon DEF Leaves
<1>7. Callee(r)
  BY <1>1, <1>2, <1>3 DEF Callee, Leaves
<1>8. Caller(r, w)
  BY <1>1, <1>2, <1>3, Zenon DEF Caller, Leaves
<1>9. QED
  BY <1>5, <1>6, <1>7, <1>8, SMTT(30), Zenon DEF Good, GoneTold, Leaves

\* sip_hangup.
LEMMA HangupGood ==
  ASSUME SipInv, sip_hangup
  PROVE  SipInv'
<1> DEFINE c == \/ p.established /\ p.owner = "early"
                \/ ~p.outgoing /\ p.owner = "up" /\ p.pendinginvite # 0
           q == [p EXCEPT !.owner = "none", !.crossed = c]
           a == sip_scheddestroy(q)
<1>1. Good(p, wire) /\ p \in Pvt /\ Packets(p) /\ Numbers(p) /\ Callee(p) /\ Caller(p, wire)
  BY DEF SipInv, Good
<1>2. /\ p.owner # "none" /\ UNCHANGED wire
      /\ p' = IF p.gone THEN [q EXCEPT !.needdestroy = TRUE] ELSE Disconnect(a, p.owner)
  BY Zenon DEF sip_hangup
<1>3. c \in BOOLEAN
  OBVIOUS
<1>4. /\ q \in Pvt /\ q.packets = p.packets /\ q.sent = p.sent /\ q.ocseq = p.ocseq
      /\ q.pendingbye = p.pendingbye /\ q.outgoing = p.outgoing /\ q.owner = "none"
      /\ q.gone = p.gone /\ q.canbye = p.canbye /\ q.heard = p.heard
      /\ q.crossed = c /\ q.authtries = p.authtries /\ q.pendinginvite = p.pendinginvite
      /\ q.established = p.established
  <2> HIDE DEF c
  <2>1. QED
    BY <1>1, <1>3, Zenon DEF Pvt
<1> HIDE DEF q
<1>5. /\ a \in Pvt /\ a.packets = p.packets /\ a.sent = p.sent /\ a.ocseq = p.ocseq
      /\ a.pendingbye = p.pendingbye /\ a.outgoing = p.outgoing /\ a.owner = "none"
      /\ a.gone = p.gone /\ a.canbye = p.canbye /\ a.heard = p.heard
      /\ a.crossed = c /\ a.authtries = p.authtries /\ a.pendinginvite = p.pendinginvite
      /\ a.established = p.established
  BY <1>4, Zenon DEF Pvt, sip_scheddestroy
<1> HIDE DEF a, c
<1>6. Packets(a) /\ Leaves(p, a)
  <2>1. Packets(a)
    BY <1>1, <1>5 DEF Packets, PacketOK
  <2>2. QED
    BY <1>2, <1>5, <2>1, SMTT(30), Zenon DEF Leaves
<1>7. CASE p.gone
  <2>1. p' = [q EXCEPT !.needdestroy = TRUE]
    BY <1>2, <1>7
  <2>2. Raised(q, p')
    BY <1>4, <2>1, Zenon DEF Raised, Unsent, Pvt
  <2>3. Packets(p') /\ GoneTold(p') /\ p' \in Pvt
    BY <1>1, <1>4, <2>2, SMTT(30), Zenon DEF Raised, Packets, PacketOK, GoneTold, Unsent
  <2>4. Calm(p, p')
    BY <1>1, <1>4, <1>7, <2>2, Zenon DEF Calm, Raised, Unsent, Numbers
  <2>5. Good(p', wire)
    BY <1>1, <2>3, <2>4, CalmGood, Zenon
  <2>6. QED
    BY <1>2, <2>5 DEF SipInv
<1>8. CASE ~p.gone /\ p.owner = "early" /\ p.outgoing
  <2> DEFINE b == __sip_pretend_ack(a)
             m == Msg("CANCEL", b.ocseq, 0)
  <2>1. /\ b \in Pvt /\ Packets(b) /\ Kept(a, b) /\ Unsent(a, b)
        /\ b.pendinginvite \in {0, a.pendinginvite}
    BY <1>5, PretendAckFields, Zenon
  <2>2. p' = IF b.canbye THEN __sip_reliable_xmit(b, m, FALSE) ELSE [b EXCEPT !.pendingbye = TRUE]
    BY <1>2, <1>5, <1>8, SMTT(30), Zenon DEF Disconnect
  <2>3. m \in Msgs /\ m.meth = "CANCEL" /\ m # Ok /\ FALSE \in BOOLEAN
    BY <2>1 DEF Msg, Msgs, Ok, Pvt
  <2>4. p.established => c
    BY <1>8 DEF c
  <2> HIDE DEF b, m
  <2>5. CASE b.canbye
    <3>1. p' = __sip_reliable_xmit(b, m, FALSE)
      BY <2>2, <2>5
    <3>2. Transmitted(b, m, p')
      BY <2>1, <2>3, <3>1, Xmit, Zenon
    <3>3. Leaves(p, p') /\ p'.ocseq = p.ocseq /\ p'.sent = p.sent \union {m} /\ p'.crossed = c
      BY <1>2, <1>5, <2>1, <2>3, <3>2, SMTT(30), Zenon DEF Leaves, Transmitted, Kept, Unsent
    <3>6. Quietly(p, p', {m})
      BY <1>5, <1>8, <2>1, <2>3, <2>4, <2>5, <3>3, Zenon DEF Quietly, Kept
    <3>4. Good(p', wire)
      BY <1>1, <3>3, <3>6, LeavesQuietly, Zenon
    <3>5. QED
      BY <1>2, <3>4 DEF SipInv
  <2>6. CASE ~b.canbye
    <3>1. p' = [b EXCEPT !.pendingbye = TRUE]
      BY <2>2, <2>6
    <3>2. /\ p' \in Pvt /\ p'.packets = b.packets /\ Kept(b, p') /\ p'.sent = b.sent
          /\ p'.ocseq = b.ocseq /\ p'.pendinginvite = b.pendinginvite
      BY <2>1, <3>1, Zenon DEF Pvt, Kept
    <3>3. Packets(p')
      BY <2>1, <3>2, SMTT(30), Zenon DEF Packets, PacketOK
    <3>4. Leaves(p, p') /\ p'.ocseq = p.ocseq /\ p'.sent = p.sent \union {} /\ p'.crossed = c
      BY <1>2, <1>5, <2>1, <3>2, <3>3, Zenon DEF Leaves, Kept, Unsent
    <3>7. Quietly(p, p', {})
      BY <1>8, <2>4, <3>4, SMTT(30), Zenon DEF Quietly
    <3>5. Good(p', wire)
      BY <1>1, <3>4, <3>7, LeavesQuietly, Zenon
    <3>6. QED
      BY <1>2, <3>5, Zenon DEF SipInv
  <2>7. QED
    BY <2>5, <2>6
<1>9. CASE ~p.gone /\ p.owner = "early" /\ ~p.outgoing
  <2> DEFINE m == Msg("INVITE", 1, 603)
  <2>1. p' = __sip_reliable_xmit(a, m, TRUE)
    BY <1>2, <1>5, <1>9, SMTT(60) DEF Disconnect
  <2>2. m \in Msgs /\ m.code # 0 /\ m # Ok /\ TRUE \in BOOLEAN
    BY DEF Msg, Msgs, Ok
  <2> HIDE DEF m
  <2>3. Transmitted(a, m, p')
    BY <1>5, <1>6, <2>1, <2>2, Xmit, Zenon
  <2>4. Leaves(p, p') /\ p'.ocseq = p.ocseq /\ p'.sent = p.sent \union {m}
    BY <1>2, <1>5, <2>2, <2>3, SMTT(30), Zenon DEF Leaves, Transmitted, Kept
  <2>5. Ok \notin p.sent
    BY <1>1, <1>9, SMTT(30), Zenon DEF Callee
  <2>8. Quietly(p, p', {m})
    BY <1>9, <2>2, <2>4, <2>5, Zenon DEF Quietly
  <2>6. Good(p', wire)
    BY <1>1, <2>4, <2>8, LeavesQuietly, Zenon
  <2>7. QED
    BY <1>2, <2>6, Zenon DEF SipInv
<1>10. CASE ~p.gone /\ p.owner = "up" /\ p.pendinginvite = 0
  <2> DEFINE b == [a EXCEPT !.ocseq = @ + 1]
             m == Msg("BYE", b.ocseq, 0)
  <2>1. p' = __sip_reliable_xmit(b, m, FALSE)
    BY <1>2, <1>5, <1>10, Zenon DEF Disconnect, InDialog
  <2>2. /\ b \in Pvt /\ b.packets = a.packets /\ b.sent = a.sent /\ b.ocseq = a.ocseq + 1
        /\ Kept(a, b) /\ b.pendingbye = a.pendingbye /\ b.pendinginvite = a.pendinginvite
    <3>1. a \in Pvt
      BY <1>5, Zenon
    <3>2. Advanced(a, b)
      BY <3>1, NextNumber, Zenon
    <3>3. QED
      BY <3>2, Zenon DEF Advanced
  <2> HIDE DEF b
  <2>3. Packets(b)
    BY <1>6, <2>2, SMTT(30), Zenon DEF Packets, PacketOK
  <2>4. m \in Msgs /\ m.meth = "BYE" /\ FALSE \in BOOLEAN /\ m = Msg("BYE", p.ocseq + 1, 0)
    BY <1>5, <2>2, SMTT(60) DEF Msg, Msgs, Pvt
  <2> HIDE DEF m
  <2>5. Transmitted(b, m, p')
    BY <2>1, <2>2, <2>3, <2>4, Xmit, Zenon
  <2>6. ~p.pendingbye
    BY <1>1, <1>10, SMTT(30), Zenon DEF Numbers
  <2>7. Leaves(p, p') /\ p'.ocseq = p.ocseq + 1 /\ p'.sent = p.sent \union {m} /\ ~p'.pendingbye
    BY <1>2, <1>5, <2>2, <2>4, <2>5, <2>6, SMTT(30), Zenon DEF Leaves, Transmitted, Kept
  <2>8. Good(p', wire)
    BY <1>1, <2>4, <2>7, LeavesByBye, SMTT(30)
  <2>9. QED
    BY <1>2, <2>8, Zenon DEF SipInv
<1>11. CASE ~p.gone /\ p.owner = "up" /\ p.pendinginvite # 0
  <2>1. p' = [a EXCEPT !.pendingbye = TRUE]
    BY <1>2, <1>5, <1>11 DEF Disconnect
  <2>2. /\ p' \in Pvt /\ p'.packets = a.packets /\ Kept(a, p') /\ p'.sent = a.sent
        /\ p'.ocseq = a.ocseq /\ p'.pendinginvite = a.pendinginvite
    BY <1>5, <2>1, Zenon DEF Pvt, Kept
  <2>3. Packets(p')
    BY <1>6, <2>2, SMTT(30), Zenon DEF Packets, PacketOK
  <2>4. Leaves(p, p') /\ p'.ocseq = p.ocseq /\ p'.sent = p.sent \union {} /\ p'.crossed = c
    BY <1>2, <1>5, <2>2, <2>3, SMTT(30), Zenon DEF Leaves, Kept
  <2>5. (p.outgoing => ~p.established) /\ (~p.outgoing => c)
    BY <1>1, <1>11, Zenon DEF Caller, c
  <2>8. Quietly(p, p', {})
    BY <2>4, <2>5, Zenon DEF Quietly
  <2>6. Good(p', wire)
    BY <1>1, <2>4, <2>8, LeavesQuietly, Zenon
  <2>7. QED
    BY <1>2, <2>6, Zenon DEF SipInv
<1>12. p.owner \in {"none", "early", "up"}
  BY <1>1, SMTT(30), Zenon DEF Pvt
<1>13. QED
  BY <1>2, <1>7, <1>8, <1>9, <1>10, <1>11, <1>12, Zenon

\* The first INVITE.
LEMMA CallGood ==
  ASSUME SipInv, sip_call
  PROVE  SipInv'
<1> DEFINE i == Invite(p.ocseq)
           x == __sip_reliable_xmit(p, i, TRUE)
<1>1. /\ Good(p, wire) /\ p \in Pvt /\ Packets(p) /\ Numbers(p) /\ GoneTold(p)
      /\ Replies(p, wire) /\ Caller(p, wire)
  BY DEF SipInv, Good
<1>2. p.outgoing /\ p.owner = "early" /\ p.sent = {} /\ UNCHANGED wire
  BY DEF sip_call
<1>3. PICK maxtime \in BOOLEAN : p' = [x EXCEPT !.initid = maxtime]
  BY Zenon DEF sip_call, transmit_invite, Invite
<1>4. i \in Msgs /\ i.meth = "INVITE" /\ i.code = 0 /\ i.n = p.ocseq /\ TRUE \in BOOLEAN
  BY <1>1 DEF Invite, Msg, Msgs, Pvt
<1> HIDE DEF i
<1>5. Transmitted(p, i, x)
  BY <1>1, <1>4, Xmit, Zenon
<1> HIDE DEF x
<1>6. /\ p' \in Pvt /\ Kept(x, p') /\ p'.packets = x.packets /\ p'.sent = x.sent
      /\ p'.ocseq = x.ocseq /\ p'.pendingbye = x.pendingbye /\ p'.pendinginvite = x.pendinginvite
  BY <1>3, <1>5, SMTT(30), Zenon DEF Transmitted, Pvt, Kept
<1>7. Packets(p') /\ i \in Waiting(p')
  BY <1>5, <1>6, SMTT(30), Zenon DEF Transmitted, Packets, PacketOK, Waiting
<1>8. /\ Kept(p, p') /\ p'.sent = {i} /\ p'.ocseq = p.ocseq
      /\ p'.pendingbye = p.pendingbye /\ p'.pendinginvite = p.ocseq
  BY <1>2, <1>4, <1>5, <1>6, SMTT(30), Zenon DEF Transmitted, Kept
<1>9. Requests(p, "BYE") = {} /\ Requests(p', "BYE") = {} /\ Requests(p', "CANCEL") = {}
      /\ Requests(p', "INVITE") = {i}
  BY <1>2, <1>4, <1>8, SMTT(30), Zenon DEF Requests
<1>10. ~p.established
  BY <1>1, <1>2, SMTT(30), Zenon DEF Caller, Replies, Replied
<1>11. Numbers(p')
  <2>1. p.ocseq \in 1 .. MaxInvites
    BY <1>1, <1>9, SipBounds, SMTT(30), Zenon DEF Numbers
  <2>2. QED
    BY <1>1, <1>4, <1>8, <1>9, <2>1, SipBounds, SMTT(30), Zenon DEF Numbers, Kept
<1>12. Replies(p', wire) /\ Callee(p') /\ GoneTold(p')
  <2>1. Replies(p', wire)
    BY <1>1, <1>2, <1>8, RepliesGrow, Zenon DEF Kept
  <2>2. QED
    BY <1>1, <1>2, <1>8, <2>1, SMTT(30), Zenon DEF Callee, GoneTold, Kept
<1>13. Caller(p', wire)
  BY <1>1, <1>4, <1>7, <1>8, <1>9, <1>10, Zenon DEF Caller, Kept, i
<1>14. QED
  BY <1>2, <1>6, <1>7, <1>11, <1>12, <1>13, SMTT(30), Zenon DEF SipInv, Good

(***************************************************************************)
(* The peer.                                                               *)
(***************************************************************************)

\* A message of the peer's own: a new response to an INVITE it was sent, with
\* no other final one; or no response to an INVITE.
LEMMA SendGood ==
  ASSUME SipInv, NEW m \in Msgs, Send(m),
         Replied(p, m),
         m.meth = "INVITE" /\ m.code # 0 =>
            \A r \in wire : r.meth = "INVITE" /\ r.n = m.n => r.code \notin Final,
         p.outgoing /\ m.code = 0 => m.meth = "BYE"
  PROVE  SipInv'
<1>1. wire' = wire \union {m} /\ p' = p
  BY DEF Send
<1>2. 0 \notin Final
  BY SMTT(30), Zenon DEF Final, Refused
<1>3. Replies(p, wire')
  <2>1. Replies(p, wire)
    BY SMTT(30), Zenon DEF SipInv, Good
  <2>2. wire' \subseteq Msgs
    BY <1>1, <2>1, SMTT(30), Zenon DEF Replies
  <2>3. \A k \in wire' : Replied(p, k)
    BY <1>1, <2>1, SMTT(30), Zenon DEF Replies
  <2>4. ASSUME NEW j \in wire', NEW k \in wire', j.meth = "INVITE", k.meth = "INVITE", j.n = k.n,
               j.code \in Final, k.code \in Final
        PROVE  j.code = k.code
    <3>1. j.code # 0 /\ k.code # 0
      BY <1>2, <2>4, SMTT(30), Zenon
    <3>2. CASE j \in wire /\ k \in wire
      BY <2>1, <2>4, <3>2, SMTT(30), Zenon DEF Replies
    <3>3. CASE j = m \/ k = m
      BY <1>1, <2>4, <3>1, <3>3, SMTT(30), Zenon
    <3>4. QED
      BY <1>1, <3>2, <3>3, SMTT(30), Zenon
  <2>5. p.outgoing => \A k \in wire' : k.code = 0 => k.meth = "BYE"
    BY <1>1, <2>1, Zenon DEF Replies
  <2>6. QED
    BY <2>2, <2>3, <2>4, <2>5, SMTT(30), Zenon DEF Replies
<1>4. Caller(p, wire')
  BY <1>1, Zenon DEF SipInv, Good, Caller
<1>5. Good(p, wire')
  BY <1>3, <1>4 DEF SipInv, Good
<1>6. QED
  BY <1>1, <1>5, Zenon DEF SipInv

\* The peer sends a message.
LEMMA PeerGood ==
  ASSUME SipInv, Peer
  PROVE  SipInv'
<1>1. p \in Pvt /\ p.sent \subseteq Msgs
  BY SMTT(30), Zenon DEF SipInv, Good, Pvt
<1>2. CASE Answer
  <2>1. PICK m \in Sent("INVITE"), code \in Final \ {407} :
          /\ \A r \in wire : r.meth = "INVITE" /\ r.n = m.n => r.code \notin Final
          /\ code = 401 => m.n < MaxInvites
          /\ Send(Msg("INVITE", m.n, code))
    BY <1>2, Zenon DEF Answer
  <2> DEFINE k == Msg("INVITE", m.n, code)
  <2>2. m \in p.sent /\ m \in Msgs /\ m.meth = "INVITE" /\ m.code = 0
    BY <1>1, <2>1, SMTT(30), Zenon DEF Sent
  <2>3. m = Invite(m.n)
    BY <2>2, SMTT(30), Zenon DEF Msgs, Invite, Msg
  <2>4. k \in Msgs /\ k.meth = "INVITE" /\ k.n = m.n /\ k.code = code /\ code # 0
    BY <2>1, <2>2, SMTT(60) DEF Msgs, Msg, Final, Refused
  <2>5. Send(k)
    BY <2>1, Zenon
  <2> HIDE DEF k
  <2>7. Replied(p, k)
    BY <2>1, <2>2, <2>3, <2>4, SMTT(30), Zenon DEF Replied, Challenges
  <2>6. QED
    BY <2>1, <2>2, <2>4, <2>5, <2>7, SendGood, SMTT(30), Zenon
<1>3. CASE Accept
  <2>1. PICK m \in Sent("CANCEL") \union Sent("BYE"), code \in {200, 401, 403, 407, 486} :
          /\ code \in {401, 407} => m.n <= MaxInvites
          /\ Send(Msg(m.meth, m.n, code))
    BY <1>3, SMTT(30) DEF Accept
  <2> DEFINE k == Msg(m.meth, m.n, code)
  <2>2. m \in Msgs /\ m \in p.sent /\ m.meth \in {"CANCEL", "BYE"} /\ m.code = 0
    BY <1>1, <2>1, SMTT(30), Zenon DEF Sent
  <2>3. /\ k \in Msgs /\ k.meth = m.meth /\ k.n = m.n /\ k.code = code /\ k.meth # "INVITE"
        /\ k.code # 0
    BY <2>1, <2>2, SMTT(60) DEF Msgs, Msg, Final, Refused
  <2>5. m = Msg(m.meth, m.n, 0)
    BY <2>2, SMTT(30) DEF Msgs, Msg
  <2>6. Send(k)
    BY <2>1, Zenon
  <2> HIDE DEF k
  <2>7. Replied(p, k)
    BY <2>1, <2>2, <2>3, <2>5, SMTT(30), Zenon DEF Replied, Challenges
  <2>4. QED
    BY <2>3, <2>6, <2>7, SendGood, Zenon
<1>4. CASE Bye
  <2> DEFINE k == Msg("BYE", 2, 0)
  <2>1. k \in Msgs /\ k.meth = "BYE" /\ k.code = 0 /\ Send(k)
    BY <1>4, SMTT(60) DEF Msgs, Msg, Bye
  <2> HIDE DEF k
  <2>3. Replied(p, k)
    BY <2>1, Zenon DEF Replied
  <2>2. QED
    BY <2>1, <2>3, SendGood, Zenon
<1>5. CASE Place
  <2>1. PICK k \in {Msg("CANCEL", 1, 0), Msg("INVITE", 1, 0), Msg("ACK", 1, 0)} : Send(k)
    BY <1>5, SMTT(30), Zenon DEF Place
  <2>2. k \in Msgs /\ k.code = 0 /\ ~p.outgoing
    BY <1>5, <2>1, SMTT(60) DEF Msgs, Msg, Place
  <2>4. Replied(p, k)
    BY <2>2, Zenon DEF Replied
  <2>3. QED
    BY <2>1, <2>2, <2>4, SendGood, Zenon
<1>6. QED
  BY <1>2, <1>3, <1>4, <1>5, SMTT(30), Zenon DEF Peer

(***************************************************************************)
(* The theorems.                                                           *)
(***************************************************************************)

\* The invariant holds at the start.
LEMMA SipInit == Init => SipInv
<1> SUFFICES ASSUME Init PROVE SipInv
  BY SMTT(60)
<1>1. /\ p.owner = "early" /\ ~p.gone /\ ~p.pendingbye /\ ~p.canbye /\ p.pendinginvite \in {0, 1}
      /\ (p.outgoing => p.pendinginvite = 0)
      /\ p.ocseq = 1 /\ p.authtries = 0 /\ p.packets = <<>> /\ p.sent = {} /\ ~p.established
      /\ wire = {}
  <2>1. CASE p = Placed
    BY <2>1 DEF Init, Placed
  <2>2. CASE p = Received
    BY <2>2, Zenon DEF Init, Placed, Received
  <2>3. QED
    BY <2>1, <2>2, SMTT(30), Zenon DEF Init
<1>2. p \in Pvt
  <2>1. <<>> \in Seq(Packet)
    BY SMTT(60)
  <2>2. CASE p = Placed
    BY <2>1, <2>2 DEF Pvt, Placed
  <2>3. CASE p = Received
    BY <2>1, <2>3, Zenon DEF Pvt, Placed, Received
  <2>4. QED
    BY <2>2, <2>3, Zenon DEF Init
<1>3. Packets(p) /\ \A meth : Requests(p, meth) = {}
  BY <1>1, SMTT(30), Zenon DEF Packets, Requests
<1>4. Numbers(p) /\ GoneTold(p)
  BY <1>1, <1>3, SipBounds, SMTT(30), Zenon DEF Numbers, GoneTold
<1>5. Replies(p, wire) /\ Callee(p) /\ Caller(p, wire)
  BY <1>1, <1>3, Zenon DEF Replies, Callee, Caller
<1>6. QED
  BY <1>2, <1>3, <1>4, <1>5, Zenon DEF SipInv, Good

\* Every step keeps it.
LEMMA SipStep == SipInv /\ [Next]_vars => SipInv'
<1> SUFFICES ASSUME SipInv, [Next]_vars PROVE SipInv'
  OBVIOUS
<1>1. CASE Owner
  BY <1>1, CallGood, ReadAnswerGood, AnswerGood, HangupGood, Zenon DEF Owner
<1>2. CASE Timers
  BY <1>2, RetransGood, RetransLockedGood, AutoDestructGood, AutoCongestGood, MonitorGood, Zenon
     DEF Timers
<1>3. CASE handle_request
  <2>3. PICK m \in wire \union Trying :
          \/ handle_response(m)
          \/ /\ m.code = 0
             /\ \/ handle_request_bye(m) \/ handle_request_cancel(m)
                \/ handle_request_invite(m) \/ handle_request_ack(m)
    BY <1>3, Zenon DEF handle_request
  <2>4. m.code = 0 => m \in wire
    <3>1. 0 \notin Provisional
      BY SMTT(30) DEF Provisional
    <3>2. QED
      BY <3>1, Delivered, Zenon
  <2>1. Good(p', wire) /\ wire' = wire
    BY <1>3, <2>3, <2>4, ResponseGood, ByeGood, CancelGood, AgainGood, AckGood, Zenon
       DEF handle_request
  <2>2. QED
    BY <2>1, SMTT(30), Zenon DEF SipInv
<1>4. CASE Peer
  BY <1>4, PeerGood, Zenon
<1>5. CASE UNCHANGED vars
  BY <1>5 DEF vars, SipInv
<1>6. QED
  BY <1>1, <1>2, <1>3, <1>4, <1>5, Zenon DEF Next

\* The invariant holds throughout.
LEMMA SipCorrect == Spec => []SipInv
  BY SipInit, SipStep, PTL DEF Spec

\* The messages Sent counts.
LEMMA SentRequests == \A meth : Sent(meth) = Requests(p, meth)
  BY DEF Sent, Requests

\* The numbers stay within what authentication and one BYE use, and every
\* packet that waits was sent: reqprep, __sip_reliable_xmit and __sip_ack keep
\* the pvt's shape.
THEOREM SipTypeCorrect == Spec => []TypeOK
<1>1. SipInv => TypeOK
  <2> SUFFICES ASSUME SipInv PROVE TypeOK
    BY SMTT(60)
  <2>1. p \in Pvt /\ Packets(p) /\ Numbers(p) /\ wire \subseteq Msgs
    BY DEF SipInv, Good, Replies
  <2>2. p.owner \in {"none", "early", "up"} /\ p.sent \subseteq Msgs /\ p.packets \in Seq(Packet)
    BY <2>1, SMTT(30), Zenon DEF Pvt
  <2>3. ASSUME NEW i \in DOMAIN p.packets PROVE p.packets[i].msg \in p.sent /\ p.packets[i].tries <= MaxTimer
    <3>1. p.packets[i] \in Packet
      BY <2>2, SMTT(30), Zenon
    <3>2. p.packets[i].tries <= MaxTimer
      BY <3>1, SipBounds, SMTT(60) DEF Packet
    <3>3. QED
      BY <2>1, <3>2, SMTT(30), Zenon DEF Packets, PacketOK
  <2>4. QED
    BY <2>1, <2>2, <2>3, Zenon DEF TypeOK, Numbers
<1>2. QED
  BY <1>1, SipCorrect, PTL

\* Whatever ends a dialog on the wire (a refusal, a CANCEL, a BYE, a critical
\* packet given up) tells the owner it still has, so no channel keeps running
\* on a call that no longer exists; only the transfer by BYE/Also does not.
THEOREM GoneOwnerToldCorrect == Spec => []GoneOwnerTold
<1>1. SipInv => GoneOwnerTold
  BY Zenon DEF SipInv, Good, GoneTold, GoneOwnerTold
<1>2. QED
  BY <1>1, SipCorrect, PTL

\* An answered call whose owner hangs up is ended by a BYE, at once or by
\* check_pendings when the answer arrives after the hangup, but for the two
\* crossings that sip_hangup does not resolve.
THEOREM EndedByByeCorrect == Spec => []EndedByBye
<1>1. SipInv => EndedByBye
  <2> SUFFICES ASSUME SipInv PROVE EndedByBye
    OBVIOUS
  <2>1. CASE p.outgoing
    BY <2>1, SentRequests, SMTT(30), Zenon DEF SipInv, Good, Caller, EndedByBye
  <2>2. CASE ~p.outgoing
    BY <2>2, SentRequests, SMTT(30), Zenon DEF SipInv, Good, Callee, EndedByBye
  <2>3. QED
    BY <2>1, <2>2, SMTT(30), Zenon
<1>2. QED
  BY <1>1, SipCorrect, PTL

\* sip_hangup and check_pendings send a CANCEL only once the peer has answered
\* one of the call's INVITEs.
THEOREM CancelAfterAnswerCorrect == Spec => []CancelAfterAnswer
<1>1. SipInv => CancelAfterAnswer
  BY SentRequests DEF SipInv, Good, Caller, CancelAfterAnswer
<1>2. QED
  BY <1>1, SipCorrect, PTL

=============================================================================
