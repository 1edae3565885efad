--------------------------- MODULE IaxCallProofs ---------------------------
(***************************************************************************)
(* Proofs about IaxCall, for every number of sequence numbers, of retries, *)
(* frames and packets under way.                                           *)
(***************************************************************************)
EXTENDS IaxCall, TLAPS

\* The sequence number of the n-th frame.
Num(n) == n % SeqMod

-----------------------------------------------------------------------------
(* The inductive invariant *)

\* A pvt on its own: a frame that was not sent was not repeated; only an owner that
\* left sends the last HANGUP; a call that is over for its owner does not ping; what
\* goes out tells the peer how many of its frames were accepted.
Own(p) ==
  /\ p \in Pvts
  /\ \A f \in p.iaxq : ~f.sentyet => f.retries <= 0
  /\ p.final => ~p.owner
  /\ p.gone /\ p.owner => ~p.ping /\ p.pinging = NoPing
  /\ p.live =>
       /\ p.iseqno = Num(Len(p.got) + 1)
       /\ \A f \in p.iaxq : f.iseqno = Num(f.ack + 1) /\ f.ack <= Len(p.got)

\* send_ping has read oseqno when w frames were numbered. Those numbered since are
\* in iaxq, so that their number has not come round.
PingAt(p, w) ==
  /\ p.pinging = Num(w + 1) /\ p.wrote - w < SeqMod
  /\ w < p.wrote => \E f \in p.iaxq : f.id = w + 1
  /\ w = p.wrote => Room(p)

\* The numbers of what is queued.
Sends(p) ==
  p.live /\ ~p.raced =>
    /\ p.oseqno = Num(p.wrote + 1)
    /\ \A f \in p.iaxq : f.oseqno = Num(f.id) /\ f.id \in 1..p.wrote /\ p.wrote - f.id < Lifetime
    /\ p.pinging # NoPing => \E w \in 0..p.wrote : PingAt(p, w)

\* Every frame the peer has not accepted is queued, and is repeated.
Kept(p, n) ==
  /\ \A k \in (n + 1)..p.wrote : \E f \in p.iaxq : f.id = k
  /\ \A f \in p.iaxq : f.retries < 0 => f.id <= n

\* A pvt and the frames its peer has accepted from it. Not more than SeqMod frames
\* wait for the peer.
Counted(p, got) ==
  ~p.raced =>
    /\ Len(got) <= p.wrote /\ \A i \in 1..Len(got) : got[i] = i
    /\ p.acked \subseteq 1..Len(got)
    /\ p.live /\ ~p.error => p.wrote <= Len(got) + SeqMod

\* Unless the call has ended, what the peer has not accepted will be repeated.
Held(p, got) ==
  ~p.raced /\ p.live /\ ~p.error /\ ~(p.gone /\ p.owner) => Kept(p, Len(got))

Link(p, got) == Counted(p, got) /\ Held(p, got)

\* A packet from p to q.
Travels(m, p, q) ==
  /\ m.kind # "inval" => m.iseqno = Num(m.ack + 1) /\ m.ack <= Len(p.got)
  /\ m.kind \in Numbered /\ ~p.raced =>
       m.oseqno = Num(m.id) /\ m.id \in 1..p.wrote /\ m.id <= Len(q.got) + SeqMod

\* It is not too old.
Young(m, p, q) ==
  /\ m.kind # "inval" => q.wrote - m.ack <= Lifetime
  /\ m.kind \in Numbered => p.wrote - m.id < Lifetime

IaxInv ==
  /\ iaxs \in [Ends -> Pvts] /\ net \subseteq Packets
  /\ \A e \in Ends : Own(iaxs[e]) /\ Sends(iaxs[e]) /\ Link(iaxs[e], iaxs[Peer(e)].got)
  /\ \A m \in net : /\ Travels(m, iaxs[Peer(m.to)], iaxs[m.to])
                    /\ Young(m, iaxs[Peer(m.to)], iaxs[m.to])

-----------------------------------------------------------------------------
(* Sequence numbers *)

\* There are at least two sequence numbers.
LEMMA Modulus == SeqMod \in Nat /\ SeqMod >= 2 /\ Lifetime = SeqMod - 1 /\ SeqNo = 0..(SeqMod - 1)
BY EndsAssumption, SMTT(60) DEF Lifetime, SeqNo

\* Division with remainder, and that the remainder is unique.
LEMMA Division ==
  ASSUME NEW x \in Int
  PROVE  x % SeqMod \in 0..(SeqMod - 1) /\ \E k \in Int : x = k * SeqMod + (x % SeqMod)
<1>1. x \div SeqMod \in Int /\ x = (x \div SeqMod) * SeqMod + (x % SeqMod) /\ x % SeqMod \in 0..(SeqMod - 1)
  BY Modulus
<1>2. QED BY <1>1

\* What identifies a remainder.
LEMMA Remainder ==
  ASSUME NEW x \in Int, NEW r \in 0..(SeqMod - 1), NEW k \in Int, x = k * SeqMod + r
  PROVE  x % SeqMod = r
BY Modulus

\* A multiple of SeqMod is 0 or at least SeqMod away from it.
LEMMA Multiple ==
  ASSUME NEW k \in Int, k # 0
  PROVE  k * SeqMod \in Int /\ (k * SeqMod >= SeqMod \/ k * SeqMod <= -SeqMod)
<1>1. CASE k >= 1
  BY <1>1, Modulus
<1>2. CASE k <= -1
  BY <1>2, Modulus
<1>3. QED BY <1>1, <1>2

\* The number of a frame is a sequence number.
LEMMA NumSeqNo == ASSUME NEW n \in Int PROVE Num(n) \in SeqNo
BY Division, Modulus, Zenon DEF Num

\* Frames less than SeqMod apart have different numbers.
LEMMA NumUnique ==
  ASSUME NEW x \in Int, NEW y \in Int, x <= y, y - x < SeqMod, Num(x) = Num(y)
  PROVE  x = y
<1>0. SeqMod \in Nat
  BY Modulus
<1>1. PICK k \in Int : x = k * SeqMod + Num(x)
  BY Division DEF Num
<1>2. PICK l \in Int : y = l * SeqMod + Num(y)
  BY Division DEF Num
<1>3. Num(x) \in Int
  BY Division, Modulus DEF Num
<1>4. y - x = (l - k) * SeqMod
  BY <1>0, <1>1, <1>2, <1>3
<1>5. CASE l - k # 0
  <2>1. (l - k) * SeqMod >= SeqMod \/ (l - k) * SeqMod <= -SeqMod
    BY <1>5, Multiple
  <2>2. y - x >= SeqMod \/ y - x <= -SeqMod
    BY <1>4, <2>1
  <2>3. QED BY <1>0, <2>2
<1>6. CASE l = k
  BY <1>1, <1>2, <1>6
<1>7. QED BY <1>5, <1>6

\* The next frame has the next number.
LEMMA NumNext == ASSUME NEW n \in Int PROVE NextSeq(Num(n)) = Num(n + 1)
<1>0. SeqMod \in Nat /\ SeqMod >= 2
  BY Modulus
<1>1. PICK k \in Int : n = k * SeqMod + (n % SeqMod)
  BY Division
<1> DEFINE r == n % SeqMod
<1>2. r \in 0..(SeqMod - 1)
  BY Division
<1>3. PICK l \in Int : r + 1 = l * SeqMod + ((r + 1) % SeqMod)
  BY <1>2, Division
<1> DEFINE t == (r + 1) % SeqMod
<1>4. t \in 0..(SeqMod - 1)
  BY <1>2, Division
<1>5. n = k * SeqMod + r /\ r + 1 = l * SeqMod + t
  BY <1>1, <1>3
<1> HIDE DEF r, t
<1>6. n + 1 = (k + l) * SeqMod + t
  BY <1>0, <1>2, <1>4, <1>5
<1>7. (n + 1) % SeqMod = t
  BY <1>4, <1>6, Remainder
<1>8. QED BY <1>7 DEF Num, NextSeq, r, t

\* How far the number j before that of frame o is ahead of n.
LEMMA Before ==
  ASSUME NEW o \in Int, NEW j \in 0..(SeqMod - 1), NEW n \in SeqNo
  PROVE  /\ Ahead(Num(o), n) \in 0..(SeqMod - 1)
         /\ Ahead(Num(o - j), n) = IF j <= Ahead(Num(o), n) THEN Ahead(Num(o), n) - j
                                   ELSE Ahead(Num(o), n) - j + SeqMod
<1>0. SeqMod \in Nat /\ SeqMod >= 2 /\ n \in Int /\ j \in Int
  BY Modulus
<1> DEFINE a == Num(o)
           b == Num(o - j)
           A == Ahead(a, n)
           B == IF j <= A THEN A - j ELSE A - j + SeqMod
<1>a. o - j \in Int
  BY <1>0
<1>1. a \in Int /\ b \in Int
  BY <1>0, <1>a, NumSeqNo, Modulus
<1>2. PICK k \in Int : o = k * SeqMod + a
  BY Division, Zenon DEF Num
<1>3. PICK l \in Int : o - j = l * SeqMod + b
  BY <1>a, Division, Zenon DEF Num
<1>b. a - n \in Int
  BY <1>0, <1>1
<1>4. A \in 0..(SeqMod - 1)
  BY <1>b, Division, Zenon DEF Ahead
<1>5. PICK h \in Int : a - n = h * SeqMod + A
  BY <1>b, Division, Zenon DEF Ahead
<1>6. B \in 0..(SeqMod - 1)
  BY <1>0, <1>4
<1>7. \E i \in Int : b - n = i * SeqMod + B
  <2> HIDE DEF a, b, A
  <2>1. b - n = (k - l + h) * SeqMod + (A - j)
    BY <1>0, <1>1, <1>2, <1>3, <1>4, <1>5
  <2>2. CASE j <= A
    BY <2>1, <2>2
  <2>3. CASE ~(j <= A)
    <3>1. b - n = ((k - l + h) - 1) * SeqMod + (A - j + SeqMod)
      BY <1>0, <1>4, <2>1
    <3>2. QED BY <2>3, <3>1
  <2>4. QED BY <2>2, <2>3
<1>8. (b - n) % SeqMod = B
  <2> HIDE DEF B, b
  <2>1. PICK i \in Int : b - n = i * SeqMod + B
    BY <1>7
  <2>2. QED BY <1>0, <1>1, <1>6, <2>1, Remainder
<1>9. QED BY <1>4, <1>8 DEF Ahead

-----------------------------------------------------------------------------
(* A step of one end *)

\* The peer is the other end, and its peer is this one.
LEMMA PeerOf ==
  ASSUME NEW e \in Ends
  PROVE  /\ Peer(e) \in Ends /\ Peer(e) # e /\ Peer(Peer(e)) = e
         /\ \A d \in Ends : d = e \/ d = Peer(e)
<1>1. PICK a \in Ends, b \in Ends : a # b /\ Ends = {a, b}
  BY EndsAssumption
<1>2. ASSUME NEW d \in Ends PROVE Peer(d) \in Ends /\ Peer(d) # d
  <2>1. \E p \in Ends : p # d
    BY <1>1
  <2>2. QED BY <2>1, Zenon DEF Peer
<1>3. QED BY <1>1, <1>2

\* Nothing accepted or numbered is taken back.
Grows(p, q) == Len(p.got) <= Len(q.got) /\ p.wrote <= q.wrote /\ (p.raced => q.raced)

\* A pvt that fits its peer r, and one that may have dropped frames.
Sound(p, r) == p \in Pvts /\ r \in Pvts /\ Own(p) /\ Sends(p) /\ Counted(p, r.got) /\ Link(r, p.got)
Good(p, r) == Sound(p, r) /\ Held(p, r.got)

\* q may follow p, at an end whose peer has r.
Fits(p, q, r) == Good(q, r) /\ Grows(p, q)

\* What e may send when it has q and its peer r.
Out(S, e, q, r) == \A m \in S : m \in Packets /\ m.to = Peer(e) /\ Travels(m, q, r)

\* The fields of a pvt that the proofs use.
LEMMA PvtTypes ==
  ASSUME NEW p \in Pvts
  PROVE  /\ p.got \in Seq(Nat) /\ Len(p.got) \in Nat /\ p.wrote \in Nat
         /\ p.raced \in BOOLEAN /\ p.live \in BOOLEAN /\ p.error \in BOOLEAN
         /\ p.gone \in BOOLEAN /\ p.owner \in BOOLEAN /\ p.iaxq \subseteq Frames
         /\ p.oseqno \in SeqNo /\ p.iseqno \in SeqNo /\ p.rseqno \in SeqNo
         /\ p.pinging \in SeqNo \cup {NoPing} /\ p.acked \subseteq Nat
<1>1. p.got \in Seq(Nat)
  BY DEF Pvts
<1>2. Len(p.got) \in Nat
  BY <1>1
<1>3. p.wrote \in Nat /\ p.iaxq \subseteq Frames /\ p.acked \subseteq Nat
  BY DEF Pvts
<1>4. /\ p.raced \in BOOLEAN /\ p.live \in BOOLEAN /\ p.error \in BOOLEAN
      /\ p.gone \in BOOLEAN /\ p.owner \in BOOLEAN
  BY DEF Pvts
<1>5. /\ p.oseqno \in SeqNo /\ p.iseqno \in SeqNo /\ p.rseqno \in SeqNo
      /\ p.pinging \in SeqNo \cup {NoPing}
  BY DEF Pvts
<1>6. QED BY <1>1, <1>2, <1>3, <1>4, <1>5

\* A packet under way stays good when its receiver has accepted more, or its sender
\* has sent more.
LEMMA TravelsOn ==
  ASSUME NEW m \in Packets, NEW p \in Pvts, NEW q \in Pvts, NEW r \in Pvts, Grows(p, q)
  PROVE  /\ Travels(m, r, p) => Travels(m, r, q)
         /\ Travels(m, p, r) => Travels(m, q, r)
<1>1. /\ m.id \in Nat /\ m.ack \in Nat /\ SeqMod \in Nat
      /\ Len(p.got) \in Nat /\ Len(q.got) \in Nat /\ p.wrote \in Nat /\ q.wrote \in Nat
  BY PvtTypes, Modulus DEF Packets
<1>2. Len(p.got) <= Len(q.got) /\ p.wrote <= q.wrote /\ (p.raced => q.raced)
  BY DEF Grows
<1>3. /\ m.ack <= Len(p.got) => m.ack <= Len(q.got)
      /\ m.id \in 1..p.wrote => m.id \in 1..q.wrote
      /\ m.id <= Len(p.got) + SeqMod => m.id <= Len(q.got) + SeqMod
  BY <1>1, <1>2
<1>4. QED BY <1>2, <1>3, Zenon DEF Travels

\* A step of one end keeps the invariant if its new pvt fits and what it sends is in order.
LEMMA StepGood ==
  ASSUME IaxInv, NEW e \in Ends, NEW q, NEW out, NEW got,
         Step([iaxs EXCEPT ![e] = q], out, got),
         Fits(iaxs[e], q, iaxs[Peer(e)]), Out(out, e, q, iaxs[Peer(e)])
  PROVE  IaxInv'
<1> DEFINE s == [iaxs EXCEPT ![e] = q]
           d == Peer(e)
           p == iaxs[e]
           r == iaxs[d]
<1>1. d \in Ends /\ d # e /\ Peer(d) = e /\ \A c \in Ends : c = e \/ c = d
  BY PeerOf
<1>2. /\ iaxs \in [Ends -> Pvts] /\ net \subseteq Packets
      /\ Own(p) /\ Own(r) /\ Sends(r)
  BY <1>1 DEF IaxInv
<1>3. q \in Pvts /\ p \in Pvts /\ r \in Pvts
  BY <1>1, <1>2 DEF Fits, Good, Sound
<1>4. s \in [Ends -> Pvts] /\ s[e] = q /\ s[d] = r
  BY <1>1, <1>2, <1>3
<1>5. iaxs' = s
  BY DEF Step
<1>6. net' \subseteq net \cup out /\ \A m \in net' : ~Expired(m, s)
  BY Zenon DEF Step
<1> HIDE DEF s, d
<1>7. /\ Own(q) /\ Sends(q) /\ Link(q, r.got) /\ Link(r, q.got) /\ Grows(p, q)
  BY Zenon DEF Fits, Good, Sound, Link, d
<1>8. net' \subseteq Packets
  BY <1>2, <1>6 DEF Out
<1>9. ASSUME NEW m \in net' PROVE Travels(m, s[Peer(m.to)], s[m.to])
  <2>0. m \in Packets /\ m.to \in Ends
    BY <1>8 DEF Packets
  <2>1. CASE m \in out
    <3>1. m.to = d /\ Travels(m, q, r)
      BY <2>1 DEF Out, d
    <3>2. QED BY <1>1, <1>4, <3>1, Zenon
  <2>2. CASE m \in net /\ m.to = e
    <3>1. Travels(m, r, p)
      BY <2>2 DEF IaxInv, d
    <3>2. Travels(m, r, q)
      BY <1>3, <1>7, <2>0, <3>1, TravelsOn
    <3>3. QED BY <1>4, <2>2, <3>2, Zenon DEF d
  <2>3. CASE m \in net /\ m.to = d
    <3>1. Travels(m, p, r)
      BY <1>1, <2>3 DEF IaxInv
    <3>2. Travels(m, q, r)
      BY <1>3, <1>7, <2>0, <3>1, TravelsOn
    <3>3. QED BY <1>1, <1>4, <2>3, <3>2, Zenon
  <2>4. QED BY <1>1, <1>6, <2>0, <2>1, <2>2, <2>3
<1>10. ASSUME NEW m \in net' PROVE Young(m, s[Peer(m.to)], s[m.to])
  <2>1. m \in Packets /\ m.to \in Ends /\ Peer(m.to) \in Ends
    BY <1>8, PeerOf DEF Packets
  <2> DEFINE x == s[Peer(m.to)].wrote
             y == s[m.to].wrote
  <2>2. x \in Nat /\ y \in Nat
    BY <1>4, <2>1, PvtTypes
  <2>3. m.id \in Nat /\ m.ack \in Nat /\ Lifetime \in Int
    BY <2>1, Modulus DEF Packets
  <2>4. ~(m.kind \in Numbered /\ x - m.id >= Lifetime) /\ ~(m.kind # "inval" /\ y - m.ack > Lifetime)
    BY <1>6, Zenon DEF Expired
  <2> HIDE DEF x, y
  <2>5. (m.kind \in Numbered => x - m.id < Lifetime) /\ (m.kind # "inval" => y - m.ack <= Lifetime)
    BY <2>2, <2>3, <2>4
  <2>6. QED BY <2>5, Zenon DEF Young, x, y
<1>11. ASSUME NEW c \in Ends PROVE Own(s[c]) /\ Sends(s[c]) /\ Link(s[c], s[Peer(c)].got)
  <2>1. CASE c = e
    BY <1>1, <1>4, <1>7, <2>1, Zenon DEF d
  <2>2. CASE c = d
    BY <1>1, <1>2, <1>4, <1>7, <2>2, Zenon
  <2>3. QED BY <1>1, <2>1, <2>2
<1>12. QED BY <1>4, <1>5, <1>8, <1>9, <1>10, <1>11, Zenon DEF IaxInv

-----------------------------------------------------------------------------
(* Changes of a pvt *)

\* q has the numbers of p.
SameNumbers(p, q) ==
  /\ q.live = p.live /\ q.raced = p.raced /\ q.wrote = p.wrote /\ q.got = p.got
  /\ q.oseqno = p.oseqno /\ q.iseqno = p.iseqno

\* What the flags of q say agrees.
FlagsAgree(q) == (q.final => ~q.owner) /\ (q.gone /\ q.owner => ~q.ping)

\* Frame g is one that p has queued, with the acknowledgement it had or that of now.
Same(f, g) == g.id = f.id /\ g.oseqno = f.oseqno
Stamped(p, f, g) == \/ g.ack = f.ack /\ g.iseqno = f.iseqno
                    \/ g.ack = Len(p.got) /\ g.iseqno = p.iseqno
Old(p, g) == (~g.sentyet => g.retries <= 0) /\ \E f \in p.iaxq : Same(f, g) /\ Stamped(p, f, g)

\* Acknowledged is only what the peer accepted.
FewAcked(q, r) == ~q.raced => q.acked \subseteq 1..Len(r.got)

\* A pvt that numbers and accepts nothing new grows.
LEMMA GrowsSame ==
  ASSUME NEW p \in Pvts, NEW q \in Pvts, q.raced = p.raced, q.wrote = p.wrote, q.got = p.got
  PROVE  Grows(p, q)
BY PvtTypes DEF Grows

\* Growing is transitive.
LEMMA GrowsOn ==
  ASSUME NEW p \in Pvts, NEW q \in Pvts, NEW s \in Pvts, Grows(p, q), Grows(q, s)
  PROVE  Grows(p, s)
<1>1. /\ Len(p.got) \in Nat /\ p.wrote \in Nat /\ Len(q.got) \in Nat /\ q.wrote \in Nat
      /\ Len(s.got) \in Nat /\ s.wrote \in Nat
  BY PvtTypes
<1>2. /\ Len(p.got) <= Len(q.got) /\ p.wrote <= q.wrote
      /\ Len(q.got) <= Len(s.got) /\ q.wrote <= s.wrote
  BY DEF Grows
<1>3. Len(p.got) <= Len(s.got) /\ p.wrote <= s.wrote
  BY <1>1, <1>2
<1>4. QED BY <1>3, Zenon DEF Grows

\* What was accepted is untouched by a step that numbers nothing.
LEMMA CountedSame ==
  ASSUME NEW p \in Pvts, NEW q \in Pvts, NEW r \in Pvts, Counted(p, r.got),
         q.live => p.live, p.error => q.error \/ ~q.live, q.raced = p.raced, q.wrote = p.wrote,
         FewAcked(q, r)
  PROVE  Counted(q, r.got)
BY Zenon DEF Counted, FewAcked

\* A step that changes queued frames, but none of their numbers.
LEMMA UpdateQueue ==
  ASSUME NEW p, NEW q \in Pvts, NEW r, Sound(p, r), SameNumbers(p, q), FlagsAgree(q),
         q.pinging = NoPing, p.error => q.error, \A g \in q.iaxq : Old(p, g), FewAcked(q, r)
  PROVE  Sound(q, r) /\ Grows(p, q)
<1>1. p \in Pvts /\ r \in Pvts /\ Own(p) /\ Sends(p) /\ Counted(p, r.got) /\ Link(r, p.got)
  BY DEF Sound
<1>2. /\ q.live = p.live /\ q.raced = p.raced /\ q.wrote = p.wrote /\ q.got = p.got
      /\ q.oseqno = p.oseqno /\ q.iseqno = p.iseqno
  BY DEF SameNumbers
<1>3. Own(q)
  <2>1. ASSUME q.live PROVE q.iseqno = Num(Len(q.got) + 1)
    BY <1>1, <1>2, <2>1, Zenon DEF Own
  <2>2. ASSUME q.live, NEW g \in q.iaxq PROVE g.iseqno = Num(g.ack + 1) /\ g.ack <= Len(q.got)
    <3>1. PICK f \in p.iaxq : Same(f, g) /\ Stamped(p, f, g)
      BY DEF Old
    <3>2. f.iseqno = Num(f.ack + 1) /\ f.ack <= Len(p.got) /\ p.iseqno = Num(Len(p.got) + 1)
      BY <1>1, <1>2, <2>2, Zenon DEF Own
    <3>3. Len(p.got) <= Len(p.got)
      BY <1>1, PvtTypes
    <3>4. CASE g.ack = f.ack /\ g.iseqno = f.iseqno
      BY <1>2, <3>2, <3>4, Zenon
    <3>5. CASE g.ack = Len(p.got) /\ g.iseqno = p.iseqno
      BY <1>2, <3>2, <3>3, <3>5, Zenon
    <3>6. QED BY <3>1, <3>4, <3>5, Zenon DEF Stamped
  <2>3. QED BY <2>1, <2>2, Zenon DEF Own, Old, FlagsAgree
<1>4. Sends(q)
  <2> SUFFICES ASSUME q.live, ~q.raced PROVE
        /\ q.oseqno = Num(q.wrote + 1)
        /\ \A f \in q.iaxq : f.oseqno = Num(f.id) /\ f.id \in 1..q.wrote /\ q.wrote - f.id < Lifetime
    BY Zenon DEF Sends
  <2>1. p.oseqno = Num(p.wrote + 1)
    BY <1>1, <1>2, Zenon DEF Sends
  <2>2. ASSUME NEW g \in q.iaxq
        PROVE g.oseqno = Num(g.id) /\ g.id \in 1..q.wrote /\ q.wrote - g.id < Lifetime
    <3>1. PICK f \in p.iaxq : Same(f, g)
      BY DEF Old
    <3>2. f.oseqno = Num(f.id) /\ f.id \in 1..p.wrote /\ p.wrote - f.id < Lifetime
      BY <1>1, <1>2, Zenon DEF Sends
    <3>3. QED BY <1>2, <3>1, <3>2, Zenon DEF Same
  <2>3. QED BY <1>2, <2>1, <2>2, Zenon
<1>5. Counted(q, r.got)
  BY <1>1, <1>2, CountedSame
<1>6. Grows(p, q)
  BY <1>1, <1>2, GrowsSame
<1>7. QED BY <1>1, <1>2, <1>3, <1>4, <1>5, <1>6, Zenon DEF Sound

\* A step that only sets flags.
LEMMA UpdateFlags ==
  ASSUME NEW p, NEW q \in Pvts, NEW r, Sound(p, r), SameNumbers(p, q), FlagsAgree(q),
         p.error => q.error, q.iaxq = p.iaxq, q.pinging = p.pinging, q.acked = p.acked,
         q.gone /\ q.owner => q.pinging = NoPing
  PROVE  Sound(q, r) /\ Grows(p, q)
<1>1. p \in Pvts /\ r \in Pvts /\ Own(p) /\ Sends(p) /\ Counted(p, r.got) /\ Link(r, p.got)
  BY DEF Sound
<1>2. /\ q.live = p.live /\ q.raced = p.raced /\ q.wrote = p.wrote /\ q.got = p.got
      /\ q.oseqno = p.oseqno /\ q.iseqno = p.iseqno
  BY DEF SameNumbers
<1>3. Own(q)
  BY <1>1, <1>2, Zenon DEF Own, FlagsAgree
<1>4. \A w : PingAt(p, w) => PingAt(q, w)
  BY <1>2, Zenon DEF PingAt, Room
<1>5. Sends(q)
  BY <1>1, <1>2, <1>4, Zenon DEF Sends
<1>6. FewAcked(q, r)
  BY <1>1, <1>2, Zenon DEF FewAcked, Counted
<1>7. Counted(q, r.got)
  BY <1>1, <1>2, <1>6, CountedSame
<1>8. Grows(p, q)
  BY <1>1, <1>2, GrowsSame
<1>9. QED BY <1>1, <1>2, <1>3, <1>5, <1>7, <1>8, Zenon DEF Sound

\* A pvt that was freed.
LEMMA Dead ==
  ASSUME NEW p, NEW q \in Pvts, NEW r, Sound(p, r), ~q.live, ~q.owner,
         q.raced = p.raced, q.wrote = p.wrote, q.got = p.got, q.acked = p.acked,
         \A g \in q.iaxq : ~g.sentyet => g.retries <= 0
  PROVE  Fits(p, q, r)
<1>1. p \in Pvts /\ r \in Pvts /\ Counted(p, r.got) /\ Link(r, p.got)
  BY DEF Sound
<1>2. Own(q) /\ Sends(q) /\ Held(q, r.got)
  BY Zenon DEF Own, Sends, Held
<1>3. FewAcked(q, r)
  BY <1>1, Zenon DEF FewAcked, Counted
<1>4. Counted(q, r.got)
  BY <1>1, <1>3, CountedSame
<1>5. Grows(p, q)
  BY <1>1, GrowsSame
<1>6. QED BY <1>1, <1>2, <1>4, <1>5, Zenon DEF Sound, Good, Fits

-----------------------------------------------------------------------------
(* The end of a call *)

\* What a cancelled frame keeps.
Kin(f, g, ids) ==
  /\ Same(f, g) /\ g.ack = f.ack /\ g.iseqno = f.iseqno /\ g.sentyet = f.sentyet
  /\ g.retries = f.retries \/ (g.retries = -1 /\ f.id \in ids)

\* Cancelling a retransmission changes nothing else of a frame.
LEMMA CancelledFrames ==
  ASSUME NEW S \in SUBSET Frames, NEW ids
  PROVE  /\ Cancelled(S, ids) \subseteq Frames
         /\ \A g \in Cancelled(S, ids) : \E f \in S : Kin(f, g, ids)
         /\ \A f \in S : \E g \in Cancelled(S, ids) : g.id = f.id
<1> DEFINE c(f) == IF f.id \in ids THEN [f EXCEPT !.retries = -1] ELSE f
<1>1. ASSUME NEW f \in S PROVE c(f) \in Frames /\ Kin(f, c(f), ids) /\ c(f).id = f.id
  <2>0. f \in Frames
    OBVIOUS
  <2>1. CASE f.id \in ids
    <3> DEFINE g == [f EXCEPT !.retries = -1]
    <3>1. -1 \in -1..MaxRetries
      BY EndsAssumption
    <3>2. /\ g \in Frames /\ g.id = f.id /\ g.oseqno = f.oseqno /\ g.ack = f.ack
          /\ g.iseqno = f.iseqno /\ g.sentyet = f.sentyet /\ g.retries = -1
      BY <2>0, <3>1 DEF Frames
    <3>3. c(f) = g
      BY <2>1
    <3> HIDE DEF g, c
    <3>4. QED BY <2>1, <3>2, <3>3, Zenon DEF Kin, Same
  <2>2. CASE ~(f.id \in ids)
    <3>1. c(f) = f
      BY <2>2
    <3> HIDE DEF c
    <3>2. QED BY <2>0, <3>1, Zenon DEF Kin, Same
  <2>3. QED BY <2>1, <2>2
<1>2. Cancelled(S, ids) = {c(f) : f \in S}
  BY DEF Cancelled
<1> HIDE DEF c
<1>3. QED BY <1>1, <1>2

\* Cancelled frames are frames p had.
LEMMA CancelledOld ==
  ASSUME NEW p, Own(p), NEW ids
  PROVE  /\ Cancelled(p.iaxq, ids) \subseteq Frames
         /\ \A g \in Cancelled(p.iaxq, ids) : Old(p, g)
<1>1. p.iaxq \in SUBSET Frames
  BY PvtTypes DEF Own
<1>2. ASSUME NEW g \in Cancelled(p.iaxq, ids) PROVE Old(p, g)
  <2>1. PICK f \in p.iaxq : Kin(f, g, ids)
    BY <1>1, CancelledFrames
  <2>2. ~f.sentyet => f.retries <= 0
    BY Zenon DEF Own
  <2>3. ~g.sentyet => g.retries <= 0
    <3>1. -1 <= 0
      OBVIOUS
    <3>2. QED BY <2>1, <2>2, <3>1, Zenon DEF Kin
  <2>4. QED BY <2>1, <2>3, Zenon DEF Old, Kin, Stamped
<1>3. QED BY <1>1, <1>2, CancelledFrames

\* iax2_destroy, of a pvt that may have dropped frames already.
LEMMA DestroyGood ==
  ASSUME NEW p, NEW r, Sound(p, r), p.pinging = NoPing
  PROVE  Fits(p, Destroy(p), r)
<1>1. p \in Pvts /\ Own(p) /\ Counted(p, r.got)
  BY DEF Sound
<1> DEFINE C == Cancelled(p.iaxq, 1..p.wrote)
           q == [p EXCEPT !.gone = TRUE, !.ping = FALSE, !.iaxq = C]
<1>2. C \subseteq Frames /\ \A g \in C : Old(p, g)
  BY <1>1, CancelledOld
<1>3. CASE p.owner
  <2> DEFINE s == [p EXCEPT !.gone = TRUE, !.ping = FALSE, !.iaxq = C, !.told = TRUE]
  <2>1. Destroy(p) = s
    BY <1>1, <1>3 DEF Destroy, Pvts
  <2> HIDE DEF C
  <2>2. s \in Pvts /\ s.gone /\ s.owner = p.owner /\ ~s.ping /\ s.iaxq = C
    BY <1>1, <1>2, Zenon DEF Pvts
  <2>3. SameNumbers(p, s)
    BY <1>1 DEF Pvts, SameNumbers
  <2>4. s.pinging = p.pinging /\ s.error = p.error /\ s.acked = p.acked /\ s.final = p.final
    BY <1>1 DEF Pvts
  <2> HIDE DEF s
  <2>5. FlagsAgree(s) /\ FewAcked(s, r)
    BY <1>1, <2>2, <2>3, <2>4, Zenon DEF FlagsAgree, FewAcked, Own, Counted, SameNumbers
  <2>6. Sound(s, r) /\ Grows(p, s)
    BY <1>2, <2>2, <2>3, <2>4, <2>5, UpdateQueue, Zenon
  <2>7. Held(s, r.got)
    BY <1>3, <2>2, Zenon DEF Held
  <2>8. QED BY <2>1, <2>6, <2>7, Zenon DEF Fits, Good
<1>4. CASE ~p.owner
  <2> DEFINE s == Free(q)
  <2>1. Destroy(p) = s
    BY <1>4 DEF Destroy
  <2>2. 0 \in SeqNo
    BY Modulus
  <2> HIDE DEF C
  <2>3. s \in Pvts
    BY <1>1, <1>2, <2>2, Zenon DEF Pvts, Free
  <2>4. s.owner = p.owner /\ ~s.live /\ s.iaxq = C /\ s.acked = p.acked
    BY <1>1 DEF Pvts, Free
  <2>5. s.raced = p.raced /\ s.wrote = p.wrote /\ s.got = p.got
    BY <1>1 DEF Pvts, Free
  <2>6. \A g \in s.iaxq : ~g.sentyet => g.retries <= 0
    BY <1>2, <2>4, Zenon DEF Old
  <2> HIDE DEF s
  <2>7. QED BY <1>4, <2>1, <2>3, <2>4, <2>5, <2>6, Dead
<1>5. QED BY <1>3, <1>4

\* Two changes in one step.
LEMMA FitsOn ==
  ASSUME NEW p \in Pvts, NEW q, NEW s, NEW r, Sound(q, r), Grows(p, q), Fits(q, s, r)
  PROVE  Fits(p, s, r)
<1>1. q \in Pvts /\ s \in Pvts /\ Grows(q, s)
  BY Zenon DEF Fits, Good, Sound
<1>2. Grows(p, s)
  BY <1>1, GrowsOn
<1>3. QED BY <1>2, Zenon DEF Fits

-----------------------------------------------------------------------------
(* Queueing a frame *)

\* The frame that takes number o.
NewFrame(p, kind, o) ==
  [kind |-> kind, id |-> p.wrote + 1, oseqno |-> o, ack |-> Len(p.got), iseqno |-> p.iseqno,
   retries |-> 0, sentyet |-> FALSE]

\* The frame iax2_send queues.
LEMMA NewFrameFields ==
  ASSUME NEW p \in Pvts, NEW kind \in Numbered, NEW o \in SeqNo
  PROVE  LET f == NewFrame(p, kind, o) IN
         /\ f \in Frames /\ f.id = p.wrote + 1 /\ f.oseqno = o /\ f.ack = Len(p.got)
         /\ f.iseqno = p.iseqno /\ f.retries = 0
<1>1. p.wrote + 1 \in Nat /\ Len(p.got) \in Nat /\ p.iseqno \in SeqNo /\ 0 \in -1..MaxRetries
  BY PvtTypes, EndsAssumption
<1>2. QED BY <1>1 DEF NewFrame, Frames

\* What iax2_send changes in the pvt.
LEMMA QueuedFields ==
  ASSUME NEW p \in Pvts, NEW kind \in Numbered, NEW o \in SeqNo
  PROVE  LET q == Queued(p, kind, o) IN
         /\ q \in Pvts /\ q.iaxq = p.iaxq \cup {NewFrame(p, kind, o)}
         /\ q.wrote = p.wrote + 1 /\ q.oseqno = NextSeq(o)
         /\ q.live = p.live /\ q.gone = p.gone /\ q.owner = p.owner /\ q.error = p.error
         /\ q.final = p.final /\ q.ping = p.ping /\ q.pinging = p.pinging
         /\ q.iseqno = p.iseqno /\ q.got = p.got /\ q.acked = p.acked /\ q.raced = p.raced
<1> DEFINE F == p.iaxq \cup {NewFrame(p, kind, o)}
           w == p.wrote + 1
           n == NextSeq(o)
           q == [p EXCEPT !.oseqno = n, !.aseqno = p.iseqno, !.wrote = w, !.iaxq = F]
<1>1. Queued(p, kind, o) = q
  BY Zenon DEF Queued, NewFrame
<1>2. F \subseteq Frames /\ w \in Nat /\ p.iseqno \in SeqNo
  BY PvtTypes, NewFrameFields
<1>3. n \in SeqNo
  <2>1. o + 1 \in Int
    BY Modulus
  <2>2. QED BY <2>1, Division, Modulus, Zenon DEF NextSeq
<1> HIDE DEF F, w, n
<1>4. q \in Pvts /\ q.iaxq = F /\ q.wrote = w /\ q.oseqno = n
  BY <1>2, <1>3, Zenon DEF Pvts
<1>5. /\ q.live = p.live /\ q.gone = p.gone /\ q.owner = p.owner /\ q.error = p.error
      /\ q.final = p.final /\ q.ping = p.ping /\ q.pinging = p.pinging
  BY DEF Pvts
<1>6. q.iseqno = p.iseqno /\ q.got = p.got /\ q.acked = p.acked /\ q.raced = p.raced
  BY DEF Pvts
<1> HIDE DEF q
<1>7. QED BY <1>1, <1>4, <1>5, <1>6, Zenon DEF F, w, n

\* Whatever number the frame takes.
LEMMA QueuedOwn ==
  ASSUME NEW p, Own(p), NEW kind \in Numbered, NEW o \in SeqNo
  PROVE  Own(Queued(p, kind, o)) /\ Grows(p, Queued(p, kind, o))
<1> DEFINE q == Queued(p, kind, o)
           f == NewFrame(p, kind, o)
<1>0. p \in Pvts
  BY DEF Own
<1>1. /\ q \in Pvts /\ q.iaxq = p.iaxq \cup {f} /\ q.wrote = p.wrote + 1
      /\ q.live = p.live /\ q.gone = p.gone /\ q.owner = p.owner
      /\ q.final = p.final /\ q.ping = p.ping /\ q.pinging = p.pinging
      /\ q.iseqno = p.iseqno /\ q.got = p.got /\ q.raced = p.raced
  BY <1>0, QueuedFields, Zenon
<1>2. f.ack = Len(p.got) /\ f.iseqno = p.iseqno /\ f.retries = 0
  BY <1>0, NewFrameFields, Zenon
<1>3. /\ Len(p.got) <= Len(p.got) /\ f.retries <= 0 /\ p.wrote <= q.wrote
  BY <1>0, <1>1, <1>2, PvtTypes, SMTT(60)
<1> HIDE DEF q, f
<1>4. \A g \in q.iaxq : g = f \/ g \in p.iaxq
  BY <1>1, Zenon
<1>5. Grows(p, q)
  BY <1>1, <1>3, Zenon DEF Grows
<1>6. \A g \in q.iaxq : ~g.sentyet => g.retries <= 0
  BY <1>3, <1>4, Zenon DEF Own
<1>7. p.live => \A g \in q.iaxq : g.iseqno = Num(g.ack + 1) /\ g.ack <= Len(p.got)
  BY <1>2, <1>3, <1>4, Zenon DEF Own
<1>8. QED BY <1>1, <1>5, <1>6, <1>7, Zenon DEF Own, q

\* The frame takes the next number, when the oldest one is not too old.
LEMMA QueuedSends ==
  ASSUME NEW p, Own(p), Sends(p), p.live /\ ~p.raced => Room(p), NEW kind \in Numbered
  PROVE  Sends(Queued(p, kind, p.oseqno))
<1> DEFINE q == Queued(p, kind, p.oseqno)
           f == NewFrame(p, kind, p.oseqno)
<1>0. p \in Pvts /\ p.oseqno \in SeqNo /\ p.wrote \in Nat /\ p.iaxq \subseteq Frames
  BY PvtTypes DEF Own
<1>1. /\ q.iaxq = p.iaxq \cup {f} /\ q.wrote = p.wrote + 1 /\ q.oseqno = NextSeq(p.oseqno)
      /\ q.live = p.live /\ q.pinging = p.pinging /\ q.raced = p.raced
  BY <1>0, QueuedFields, Zenon
<1>2. f.id = p.wrote + 1 /\ f.oseqno = p.oseqno
  BY <1>0, NewFrameFields, Zenon
<1> HIDE DEF q, f
<1> SUFFICES ASSUME p.live, ~p.raced PROVE
      /\ q.oseqno = Num(q.wrote + 1)
      /\ \A g \in q.iaxq : g.oseqno = Num(g.id) /\ g.id \in 1..q.wrote /\ q.wrote - g.id < Lifetime
      /\ q.pinging # NoPing => \E w \in 0..q.wrote : PingAt(q, w)
  BY <1>1, Zenon DEF Sends, q
<1>3. /\ p.oseqno = Num(p.wrote + 1)
      /\ \A g \in p.iaxq : g.oseqno = Num(g.id) /\ g.id \in 1..p.wrote /\ p.wrote - g.id < Lifetime
      /\ p.pinging # NoPing => \E w \in 0..p.wrote : PingAt(p, w)
      /\ \A g \in p.iaxq : p.wrote + 1 - g.id < Lifetime
  BY Zenon DEF Sends, Room
<1>4. q.oseqno = Num(q.wrote + 1)
  <2>1. p.wrote + 1 \in Int
    BY <1>0
  <2>2. QED BY <1>1, <1>3, <2>1, NumNext, Zenon
<1>5. ASSUME NEW g \in q.iaxq
      PROVE  g.oseqno = Num(g.id) /\ g.id \in 1..q.wrote /\ q.wrote - g.id < Lifetime
  <2>1. CASE g = f
    <3>1. p.wrote + 1 \in 1..(p.wrote + 1) /\ p.wrote + 1 - (p.wrote + 1) < Lifetime
      BY <1>0, Modulus, SMTT(60)
    <3>2. g.id = p.wrote + 1 /\ q.wrote = p.wrote + 1 /\ g.oseqno = p.oseqno
      BY <1>1, <1>2, <2>1, Zenon
    <3>3. QED BY <1>0, <1>3, <3>1, <3>2, Modulus, SMTT(60)
  <2>2. CASE g \in p.iaxq
    <3>1. g.oseqno = Num(g.id) /\ g.id \in 1..p.wrote /\ p.wrote + 1 - g.id < Lifetime
      BY <1>3, <2>2, Zenon
    <3>2. g.id \in 1..(p.wrote + 1)
      BY <1>0, <3>1
    <3>3. q.wrote = p.wrote + 1
      BY <1>1
    <3>4. QED BY <1>0, <3>1, <3>2, <3>3, Modulus, SMTT(60)
  <2>3. QED BY <1>1, <2>1, <2>2
<1>6. ASSUME q.pinging # NoPing PROVE \E w \in 0..q.wrote : PingAt(q, w)
  <2>1. PICK w \in 0..p.wrote : PingAt(p, w)
    BY <1>1, <1>3, <1>6, Zenon
  <2>2. w < p.wrote => \E g \in p.iaxq : g.id = w + 1
    BY <2>1, Zenon DEF PingAt
  <2>3. w \in 0..q.wrote /\ w # q.wrote
    BY <1>0, <1>1
  <2>4. CASE w < p.wrote
    <3>1. PICK g \in p.iaxq : g.id = w + 1
      BY <2>2, <2>4
    <3>2. p.wrote + 1 - (w + 1) < Lifetime
      BY <1>3, <3>1, Zenon
    <3>3. p.wrote + 1 - w < SeqMod
      BY <1>0, <3>2, Modulus
    <3>4. g \in q.iaxq
      BY <1>1, Zenon
    <3>5. q.wrote - w < SeqMod /\ q.pinging = Num(w + 1)
      BY <1>0, <1>1, <2>1, <3>3, Modulus DEF PingAt
    <3>6. QED BY <2>3, <3>1, <3>4, <3>5, Zenon DEF PingAt
  <2>5. CASE w = p.wrote
    <3>1. p.wrote + 1 - w < SeqMod /\ f.id = w + 1
      BY <1>0, <1>2, <2>5, Modulus
    <3>2. f \in q.iaxq
      BY <1>1, Zenon
    <3>3. q.wrote - w < SeqMod /\ q.pinging = Num(w + 1)
      BY <1>0, <1>1, <2>1, <3>1, Modulus DEF PingAt
    <3>4. QED BY <2>3, <3>1, <3>2, <3>3, Zenon DEF PingAt
  <2>6. QED BY <1>0, <2>4, <2>5
<1>7. QED BY <1>4, <1>5, <1>6

\* With room for one more frame, fewer than SeqMod wait for the peer.
LEMMA RoomLeft ==
  ASSUME NEW p \in Pvts, NEW n \in Nat, n <= p.wrote, Kept(p, n), Room(p)
  PROVE  p.wrote < n + SeqMod
<1>1. p.wrote \in Nat /\ SeqMod \in Nat /\ SeqMod >= 2 /\ Lifetime = SeqMod - 1
  BY PvtTypes, Modulus
<1>2. CASE n < p.wrote
  <2>1. n + 1 \in (n + 1)..p.wrote
    BY <1>1, <1>2
  <2>2. PICK f \in p.iaxq : f.id = n + 1
    BY <2>1, Zenon DEF Kept
  <2>3. p.wrote + 1 - (n + 1) < Lifetime
    BY <2>2, Zenon DEF Room
  <2>4. QED BY <1>1, <2>3
<1>3. QED BY <1>1, <1>2

\* The peer is less than SeqMod frames behind.
FewWait(p, r) == p.live /\ ~p.error /\ ~p.raced => p.wrote < Len(r.got) + SeqMod

\* With room in the window, fewer than SeqMod frames wait for the peer.
LEMMA RoomWait ==
  ASSUME NEW p, NEW r, Good(p, r), Room(p), ~(p.gone /\ p.owner)
  PROVE  FewWait(p, r)
<1> SUFFICES ASSUME p.live, ~p.error, ~p.raced PROVE p.wrote < Len(r.got) + SeqMod
  BY DEF FewWait
<1>1. p \in Pvts /\ r \in Pvts /\ Counted(p, r.got) /\ Held(p, r.got)
  BY DEF Good, Sound
<1>2. Kept(p, Len(r.got)) /\ Len(r.got) <= p.wrote
  BY <1>1, Zenon DEF Counted, Held
<1>3. Len(r.got) \in Nat
  BY <1>1, PvtTypes
<1>4. QED BY <1>1, <1>2, <1>3, RoomLeft

\* A frame with the next number may be queued.
LEMMA QueuedGood ==
  ASSUME NEW p, NEW r, Good(p, r), NEW kind \in Numbered, FewWait(p, r),
         p.live /\ ~p.raced => Room(p)
  PROVE  Fits(p, Queued(p, kind, p.oseqno), r)
<1> DEFINE q == Queued(p, kind, p.oseqno)
           f == NewFrame(p, kind, p.oseqno)
           n == Len(r.got)
<1>0. /\ p \in Pvts /\ r \in Pvts /\ Own(p) /\ Sends(p) /\ Counted(p, r.got) /\ Link(r, p.got)
      /\ Held(p, r.got)
  BY DEF Good, Sound
<1>1. p.oseqno \in SeqNo /\ p.wrote \in Nat /\ n \in Nat /\ SeqMod \in Nat
  BY <1>0, PvtTypes, Modulus
<1>a. p \in Pvts /\ p.oseqno \in SeqNo
  BY <1>0, <1>1
<1>2. /\ q \in Pvts /\ q.iaxq = p.iaxq \cup {f} /\ q.wrote = p.wrote + 1
      /\ q.live = p.live /\ q.gone = p.gone /\ q.owner = p.owner /\ q.error = p.error
      /\ q.got = p.got /\ q.acked = p.acked /\ q.raced = p.raced
  BY <1>a, QueuedFields, Zenon
<1>3. f.id = p.wrote + 1 /\ f.retries = 0
  BY <1>a, NewFrameFields, Zenon
<1>4. Own(q) /\ Grows(p, q)
  BY <1>0, <1>1, QueuedOwn
<1>5. Sends(q)
  BY <1>0, QueuedSends
<1> HIDE DEF q, f
<1>6. Counted(q, r.got)
  <2>1. n <= p.wrote => n <= q.wrote
    BY <1>1, <1>2, SMTT(60)
  <2>2. p.wrote < n + SeqMod => q.wrote <= n + SeqMod
    BY <1>1, <1>2, SMTT(60)
  <2>3. QED BY <1>0, <1>2, <2>1, <2>2, Zenon DEF Counted, FewWait
<1>7. Held(q, r.got)
  <2> SUFFICES ASSUME Kept(p, n) PROVE Kept(q, n)
    BY <1>0, <1>2, Zenon DEF Held
  <2>1. ASSUME NEW k \in (n + 1)..q.wrote PROVE \E g \in q.iaxq : g.id = k
    <3>1. k = p.wrote + 1 \/ k \in (n + 1)..p.wrote
      BY <1>1, <1>2
    <3>2. CASE k = p.wrote + 1
      BY <1>2, <1>3, <3>2, Zenon
    <3>3. CASE k \in (n + 1)..p.wrote
      BY <1>2, <3>3, Zenon DEF Kept
    <3>4. QED BY <3>1, <3>2, <3>3
  <2>2. ASSUME NEW g \in q.iaxq, g.retries < 0 PROVE g.id <= n
    <3>1. g # f
      BY <1>3, <2>2
    <3>2. g \in p.iaxq
      BY <1>2, <3>1, Zenon
    <3>3. QED BY <2>2, <3>2, Zenon DEF Kept
  <2>3. QED BY <2>1, <2>2, Zenon DEF Kept
<1>8. QED BY <1>0, <1>2, <1>4, <1>5, <1>6, <1>7, Zenon DEF Fits, Good, Sound, q

\* send_ping, first half.
LEMMA PingGood ==
  ASSUME NEW p, NEW r, Good(p, r), p.live, p.ping, p.pinging = NoPing, Room(p)
  PROVE  Fits(p, [p EXCEPT !.pinging = p.oseqno], r)
<1> DEFINE q == [p EXCEPT !.pinging = p.oseqno]
<1>0. /\ p \in Pvts /\ r \in Pvts /\ Own(p) /\ Sends(p) /\ Counted(p, r.got) /\ Link(r, p.got)
      /\ Held(p, r.got)
  BY DEF Good, Sound
<1>1. p.oseqno \in SeqNo /\ p.wrote \in Nat /\ Len(r.got) \in Nat /\ SeqMod \in Nat /\ SeqMod >= 2
  BY <1>0, PvtTypes, Modulus
<1>2. q \in Pvts /\ q.pinging = p.oseqno
  BY <1>0, <1>1, Zenon DEF Pvts
<1>3. /\ q.iaxq = p.iaxq /\ q.wrote = p.wrote /\ q.oseqno = p.oseqno /\ q.iseqno = p.iseqno
      /\ q.got = p.got /\ q.acked = p.acked /\ q.raced = p.raced
  BY <1>0 DEF Pvts
<1>4. /\ q.live = p.live /\ q.gone = p.gone /\ q.owner = p.owner /\ q.error = p.error
      /\ q.final = p.final /\ q.ping = p.ping
  BY <1>0, Zenon DEF Pvts
<1> HIDE DEF q
<1>5. Own(q)
  BY <1>0, <1>2, <1>3, <1>4, Zenon DEF Own
<1>6. ASSUME ~p.raced PROVE PingAt(q, p.wrote) /\ p.wrote \in 0..q.wrote
  <2>1. p.oseqno = Num(p.wrote + 1)
    BY <1>0, <1>6, Zenon DEF Sends
  <2>2. p.wrote \in 0..p.wrote /\ p.wrote - p.wrote < SeqMod /\ ~(p.wrote < p.wrote)
    BY <1>1
  <2>3. Room(q)
    BY <1>3, Zenon DEF Room
  <2>4. QED BY <1>2, <1>3, <2>1, <2>2, <2>3, Zenon DEF PingAt
<1>7. Sends(q)
  BY <1>0, <1>3, <1>4, <1>6, Zenon DEF Sends
<1>8. Counted(q, r.got) /\ Held(q, r.got)
  BY <1>0, <1>3, <1>4, Zenon DEF Counted, Held, Kept
<1>9. Grows(p, q)
  BY <1>0, <1>2, <1>3, GrowsSame, Zenon
<1>10. QED BY <1>0, <1>2, <1>3, <1>5, <1>7, <1>8, <1>9, Zenon DEF Fits, Good, Sound, q

\* The pvt after the second half of send_ping.
Repinged(p) ==
  [Queued(p, "ping", p.pinging) EXCEPT !.pinging = NoPing, !.ping = TRUE,
                                       !.raced = @ \/ p.pinging # p.oseqno]

\* What the second half of send_ping changes.
LEMMA RepingedFields ==
  ASSUME NEW p \in Pvts, p.pinging # NoPing
  PROVE  LET s == Queued(p, "ping", p.pinging)
             q == Repinged(p)
         IN /\ q \in Pvts /\ q.pinging = NoPing /\ (q.raced <=> s.raced \/ p.pinging # p.oseqno)
            /\ q.iaxq = s.iaxq /\ q.wrote = s.wrote /\ q.oseqno = s.oseqno /\ q.iseqno = s.iseqno
            /\ q.got = s.got /\ q.acked = s.acked /\ q.live = s.live /\ q.gone = s.gone
            /\ q.owner = s.owner /\ q.error = s.error /\ q.final = s.final
<1> DEFINE s == Queued(p, "ping", p.pinging)
           x == s.raced \/ p.pinging # p.oseqno
           q == [s EXCEPT !.pinging = NoPing, !.ping = TRUE, !.raced = x]
<1>1. s \in Pvts
  <2>1. p.pinging \in SeqNo
    BY PvtTypes
  <2>2. "ping" \in Numbered
    BY DEF Numbered
  <2>3. QED BY <2>1, <2>2, QueuedFields, Zenon
<1> HIDE DEF s
<1>2. x \in BOOLEAN
  OBVIOUS
<1> HIDE DEF x
<1>3. q \in Pvts /\ q.pinging = NoPing /\ q.raced = x
  BY <1>1, <1>2, Zenon DEF Pvts
<1>4. /\ q.iaxq = s.iaxq /\ q.wrote = s.wrote /\ q.oseqno = s.oseqno /\ q.iseqno = s.iseqno
      /\ q.got = s.got /\ q.acked = s.acked
  BY <1>1 DEF Pvts
<1>5. /\ q.live = s.live /\ q.gone = s.gone
      /\ q.owner = s.owner /\ q.error = s.error /\ q.final = s.final
  BY <1>1 DEF Pvts
<1>6. Repinged(p) = q
  BY <1>1 DEF Repinged, s, x, Pvts
<1> HIDE DEF q
<1>7. QED BY <1>3, <1>4, <1>5, <1>6, Zenon DEF s, x

\* send_ping, second half. If no other thread took the number, the oldest frame is as
\* young as it was in the first half.
LEMMA RepingedGood ==
  ASSUME NEW p, NEW r, Good(p, r), p.pinging # NoPing
  PROVE  Fits(p, Repinged(p), r)
<1> DEFINE s == Queued(p, "ping", p.pinging)
           q == Repinged(p)
<1>0. /\ p \in Pvts /\ r \in Pvts /\ Own(p) /\ Sends(p) /\ Link(r, p.got)
  BY DEF Good, Sound
<1>1. p \in Pvts /\ p.pinging \in SeqNo /\ "ping" \in Numbered
  BY <1>0, PvtTypes DEF Numbered
<1>2. /\ q \in Pvts /\ q.pinging = NoPing /\ (q.raced <=> s.raced \/ p.pinging # p.oseqno)
      /\ q.iaxq = s.iaxq /\ q.wrote = s.wrote /\ q.oseqno = s.oseqno /\ q.iseqno = s.iseqno
      /\ q.got = s.got /\ q.acked = s.acked /\ q.live = s.live /\ q.gone = s.gone
      /\ q.owner = s.owner /\ q.error = s.error /\ q.final = s.final
  BY <1>1, RepingedFields, Zenon
<1>3. s \in Pvts /\ s.gone = p.gone /\ s.owner = p.owner /\ s.raced = p.raced /\ s.got = p.got
  BY <1>1, QueuedFields, Zenon
<1>4. Own(s) /\ Grows(p, s)
  BY <1>0, <1>1, QueuedOwn
<1> HIDE DEF q
<1>5. ~(p.gone /\ p.owner)
  BY <1>0, Zenon DEF Own
<1>6. CASE p.pinging = p.oseqno
  <2>1. ASSUME p.live, ~p.raced PROVE Room(p)
    <3>1. /\ p.oseqno = Num(p.wrote + 1)
          /\ \E w \in 0..p.wrote : PingAt(p, w)
      BY <1>0, <2>1, Zenon DEF Sends
    <3>2. PICK w \in 0..p.wrote : PingAt(p, w)
      BY <3>1
    <3>3. p.wrote \in Nat /\ SeqMod \in Nat
      BY <1>0, PvtTypes, Modulus
    <3>4. Num(w + 1) = Num(p.wrote + 1) /\ p.wrote - w < SeqMod /\ (w = p.wrote => Room(p))
      BY <1>6, <3>1, <3>2, Zenon DEF PingAt
    <3>5. w + 1 \in Int /\ p.wrote + 1 \in Int /\ w + 1 <= p.wrote + 1 /\ (p.wrote + 1) - (w + 1) < SeqMod
      BY <3>3, <3>4
    <3>6. w + 1 = p.wrote + 1
      BY <3>4, <3>5, NumUnique, Zenon
    <3>7. QED BY <3>3, <3>4, <3>6
  <2>2. FewWait(p, r)
    <3>1. CASE p.live /\ ~p.raced
      BY <1>5, <2>1, <3>1, RoomWait
    <3>2. CASE ~(p.live /\ ~p.raced)
      BY <3>2, Zenon DEF FewWait
    <3>3. QED BY <3>1, <3>2
  <2>3. Fits(p, s, r)
    BY <1>1, <1>6, <2>1, <2>2, QueuedGood
  <2> HIDE DEF s
  <2>4. Sound(s, r) /\ Held(s, r.got) /\ Counted(s, r.got)
    BY <2>3, Zenon DEF Fits, Good, Sound
  <2>5. q.raced = s.raced
    BY <1>2, <1>3, <1>6, PvtTypes
  <2>6. SameNumbers(s, q)
    BY <1>2, <2>5, Zenon DEF SameNumbers
  <2>7. FlagsAgree(q) /\ FewAcked(q, r)
    BY <1>2, <1>3, <1>4, <1>5, <2>4, <2>5, Zenon DEF FlagsAgree, FewAcked, Own, Counted
  <2>8. \A g \in q.iaxq : Old(s, g)
    BY <1>2, <1>4, Zenon DEF Old, Same, Stamped, Own
  <2>9. s.error => q.error
    BY <1>2, Zenon
  <2>10. Sound(q, r) /\ Grows(s, q)
    BY <1>2, <2>4, <2>6, <2>7, <2>8, <2>9, UpdateQueue
  <2>11. Held(q, r.got)
    BY <1>2, <2>4, <2>5, Zenon DEF Held, Kept
  <2>12. Fits(s, q, r)
    BY <2>10, <2>11, Zenon DEF Fits, Good
  <2>13. QED BY <1>0, <1>4, <2>4, <2>12, FitsOn DEF q, s
<1>7. CASE p.pinging # p.oseqno
  <2>1. q.raced
    BY <1>2, <1>7
  <2> HIDE DEF s
  <2>2. Own(q)
    BY <1>2, <1>3, <1>4, <1>5, Zenon DEF Own
  <2>3. Sends(q) /\ Counted(q, r.got) /\ Held(q, r.got)
    BY <2>1, Zenon DEF Sends, Counted, Held
  <2>4. Grows(p, q)
    BY <1>2, <1>4, <2>1, Zenon DEF Grows
  <2>5. QED BY <1>0, <1>2, <1>3, <2>2, <2>3, <2>4, Zenon DEF Fits, Good, Sound, q
<1>8. QED BY <1>6, <1>7

-----------------------------------------------------------------------------
(* Accepting a frame *)

\* The pvt once frame m is accepted.
Accepted(p, m) == [p EXCEPT !.iseqno = NextSeq(@), !.got = Append(@, m.id)]

\* The number that is expected is that of the next frame.
LEMMA NextFrame ==
  ASSUME NEW p, NEW r, Sound(p, r), p.live, ~r.raced, NEW m \in Packets,
         m.kind \in Numbered, Expected(p, m), Travels(m, r, p), Young(m, r, p)
  PROVE  m.id = Len(p.got) + 1 /\ m.id <= r.wrote
<1> DEFINE n == Len(p.got)
<1>1. p \in Pvts /\ r \in Pvts /\ Own(p) /\ Link(r, p.got)
  BY Zenon DEF Sound
<1>2. n \in Nat /\ r.wrote \in Nat /\ m.id \in Nat /\ SeqMod \in Nat /\ Lifetime = SeqMod - 1
  BY <1>1, PvtTypes, Modulus DEF Packets
<1>3. n <= r.wrote
  BY <1>1, Zenon DEF Link, Counted
<1>4. m.oseqno = Num(m.id) /\ m.id \in 1..r.wrote /\ m.id <= n + SeqMod
  BY Zenon DEF Travels
<1>5. r.wrote - m.id < Lifetime
  BY Zenon DEF Young
<1>6. p.iseqno = Num(n + 1)
  BY <1>1, Zenon DEF Own
<1> HIDE DEF n
<1>7. Num(n + 1) = Num(m.id)
  BY <1>4, <1>6 DEF Expected
<1>8. CASE n + 1 <= m.id
  <2>1. n + 1 \in Int /\ m.id \in Int /\ m.id - (n + 1) < SeqMod
    BY <1>2, <1>4
  <2>2. n + 1 = m.id
    BY <1>7, <1>8, <2>1, NumUnique, Zenon
  <2>3. QED BY <1>2, <1>4, <2>2 DEF n
<1>9. CASE m.id <= n + 1
  <2>1. n + 1 \in Int /\ m.id \in Int /\ (n + 1) - m.id < SeqMod
    BY <1>2, <1>3, <1>5
  <2>2. m.id = n + 1
    BY <1>7, <1>9, <2>1, NumUnique, Zenon
  <2>3. QED BY <1>2, <1>4, <2>2 DEF n
<1>10. QED BY <1>2, <1>8, <1>9

\* What accepting a frame changes.
LEMMA AcceptedFields ==
  ASSUME NEW p \in Pvts, NEW m \in Packets
  PROVE  LET q == Accepted(p, m) IN
         /\ q \in Pvts /\ q.iseqno = NextSeq(p.iseqno) /\ q.got = Append(p.got, m.id)
         /\ q.iaxq = p.iaxq /\ q.wrote = p.wrote /\ q.oseqno = p.oseqno
         /\ q.acked = p.acked /\ q.live = p.live /\ q.gone = p.gone
         /\ q.owner = p.owner /\ q.error = p.error /\ q.final = p.final
         /\ q.ping = p.ping /\ q.pinging = p.pinging /\ q.raced = p.raced
<1> DEFINE i == NextSeq(p.iseqno)
           G == Append(p.got, m.id)
           q == [p EXCEPT !.iseqno = i, !.got = G]
<1>1. i \in SeqNo
  <2>1. p.iseqno + 1 \in Int
    BY PvtTypes, Modulus
  <2>2. QED BY <2>1, Division, Modulus, Zenon DEF NextSeq
<1>2. G \in Seq(Nat)
  BY PvtTypes DEF Packets
<1> HIDE DEF i, G
<1>3. q \in Pvts /\ q.iseqno = i /\ q.got = G
  BY <1>1, <1>2, Zenon DEF Pvts
<1>4. /\ q.iaxq = p.iaxq /\ q.wrote = p.wrote /\ q.oseqno = p.oseqno
      /\ q.acked = p.acked /\ q.live = p.live /\ q.gone = p.gone
  BY DEF Pvts
<1>5. /\ q.owner = p.owner /\ q.error = p.error /\ q.final = p.final
      /\ q.ping = p.ping /\ q.pinging = p.pinging /\ q.raced = p.raced
  BY DEF Pvts
<1>6. Accepted(p, m) = q
  BY Zenon DEF Accepted, i, G
<1> HIDE DEF q
<1>7. QED BY <1>3, <1>4, <1>5, <1>6, Zenon DEF i, G

\* A frame with the expected number is the next one, unless a number was used twice.
LEMMA AcceptedGood ==
  ASSUME NEW p, NEW r, Good(p, r), p.live, NEW m \in Packets,
         m.kind \in Numbered, Expected(p, m), Travels(m, r, p), Young(m, r, p)
  PROVE  Fits(p, Accepted(p, m), r)
<1> DEFINE q == Accepted(p, m)
           n == Len(p.got)
<1>0. /\ p \in Pvts /\ r \in Pvts /\ Sound(p, r) /\ Own(p) /\ Sends(p) /\ Counted(p, r.got)
      /\ Link(r, p.got) /\ Held(p, r.got)
  BY DEF Good, Sound
<1>a. p \in Pvts
  BY <1>0
<1>1. /\ q \in Pvts /\ q.iseqno = NextSeq(p.iseqno) /\ q.got = Append(p.got, m.id)
      /\ q.iaxq = p.iaxq /\ q.wrote = p.wrote /\ q.oseqno = p.oseqno
      /\ q.acked = p.acked /\ q.live = p.live /\ q.gone = p.gone
      /\ q.owner = p.owner /\ q.error = p.error /\ q.final = p.final
      /\ q.ping = p.ping /\ q.pinging = p.pinging /\ q.raced = p.raced
  BY <1>a, AcceptedFields, Zenon
<1>2. /\ p.got \in Seq(Nat) /\ n \in Nat /\ p.wrote \in Nat /\ r.wrote \in Nat /\ m.id \in Nat
      /\ p.iaxq \subseteq Frames /\ SeqMod \in Nat
  BY <1>0, PvtTypes, Modulus, Zenon DEF Packets
<1> HIDE DEF q
<1>3. /\ Len(q.got) = n + 1 /\ q.got[n + 1] = m.id
      /\ \A i \in 1..n : q.got[i] = p.got[i]
  BY <1>1, <1>2
<1>4. Own(q)
  <2>1. p.iseqno = Num(n + 1)
    BY <1>0, Zenon DEF Own
  <2>2. n + 1 \in Int /\ n \in Int
    BY <1>2
  <2>3. q.iseqno = Num(n + 1 + 1)
    BY <1>1, <2>1, <2>2, NumNext, Zenon
  <2>4. ASSUME NEW f \in q.iaxq PROVE f.iseqno = Num(f.ack + 1) /\ f.ack <= Len(q.got)
    <3>1. f.iseqno = Num(f.ack + 1) /\ f.ack <= n
      BY <1>0, <1>1, Zenon DEF Own
    <3>2. f.ack \in Nat
      BY <1>1, <1>2, SMTT(60) DEF Frames
    <3>3. f.ack <= n + 1
      BY <1>2, <3>1, <3>2
    <3>4. QED BY <1>3, <3>1, <3>3, Zenon
  <2>5. q.iseqno = Num(Len(q.got) + 1)
    BY <1>3, <2>3, Zenon
  <2>6. QED BY <1>0, <1>1, <2>4, <2>5, Zenon DEF Own
<1>5. \A w : PingAt(p, w) => PingAt(q, w)
  BY <1>1, Zenon DEF PingAt, Room
<1>6. Sends(q)
  BY <1>0, <1>1, <1>5, Zenon DEF Sends
<1>7. Counted(q, r.got) /\ Held(q, r.got)
  BY <1>0, <1>1, Zenon DEF Counted, Held, Kept
<1>8. Link(r, q.got)
  <2> SUFFICES ASSUME ~r.raced PROVE Link(r, q.got)
    BY Zenon DEF Link, Counted, Held
  <2>1. m.id = n + 1 /\ m.id <= r.wrote
    BY <1>0, NextFrame
  <2>2. /\ \A i \in 1..n : p.got[i] = i
        /\ r.acked \subseteq 1..n
        /\ r.live /\ ~r.error => r.wrote <= n + SeqMod
    BY <1>0, Zenon DEF Link, Counted
  <2>3. \A i \in 1..(n + 1) : q.got[i] = i
    <3>1. ASSUME NEW i \in 1..(n + 1) PROVE q.got[i] = i
      <4>1. CASE i = n + 1
        BY <1>3, <2>1, <4>1, Zenon
      <4>2. CASE i \in 1..n
        BY <1>3, <2>2, <4>2, Zenon
      <4>3. QED BY <1>2, <4>1, <4>2, SMTT(60)
    <3>2. QED BY <3>1, Zenon
  <2>4. 1..n \subseteq 1..(n + 1) /\ (r.wrote <= n + SeqMod => r.wrote <= n + 1 + SeqMod)
    BY <1>2
  <2>5. n + 1 <= r.wrote
    BY <2>1
  <2>6. Counted(r, q.got)
    BY <1>3, <2>2, <2>3, <2>4, <2>5, Zenon DEF Counted
  <2>7. ASSUME Kept(r, n) PROVE Kept(r, n + 1)
    <3>1. (n + 1 + 1)..r.wrote \subseteq (n + 1)..r.wrote
      BY <1>2, SMTT(60)
    <3>2. ASSUME NEW f \in r.iaxq, f.retries < 0 PROVE f.id <= n + 1
      <4>1. f.id <= n
        BY <2>7, <3>2, Zenon DEF Kept
      <4>2. f.id \in Nat
        BY <1>0, PvtTypes DEF Frames
      <4>3. QED BY <1>2, <4>1, <4>2
    <3>3. QED BY <2>7, <3>1, <3>2, Zenon DEF Kept
  <2>8. Held(r, q.got)
    BY <1>0, <1>3, <2>7, Zenon DEF Link, Held
  <2>9. QED BY <2>6, <2>8 DEF Link
<1>9. Grows(p, q)
  <2>1. n <= Len(q.got) /\ p.wrote <= q.wrote
    BY <1>1, <1>2, <1>3
  <2>2. QED BY <1>1, <2>1, Zenon DEF Grows
<1>10. QED BY <1>0, <1>1, <1>4, <1>6, <1>7, <1>8, <1>9, Zenon DEF Fits, Good, Sound, q

-----------------------------------------------------------------------------
(* Acknowledgements *)

\* An acknowledgement within the window covers only frames that were counted when it
\* was sent, however old rseqno is.
LEMMA Covered ==
  ASSUME NEW w \in Nat, NEW a \in Nat, NEW i \in 1..w, NEW b \in SeqNo,
         a <= w, w - a <= Lifetime, w - i < Lifetime,
         Ahead(Num(a + 1), b) <= Ahead(Num(w + 1), b),
         Ahead(Num(i), b) < Ahead(Num(a + 1), b)
  PROVE  i <= a
<1>0. SeqMod \in Nat /\ SeqMod >= 2 /\ Lifetime = SeqMod - 1
  BY Modulus
<1> DEFINE o == w + 1
           j == w - a
           k == w + 1 - i
           A == Ahead(Num(o), b)
<1>1. o \in Int /\ j \in 0..(SeqMod - 1) /\ k \in 0..(SeqMod - 1)
  BY <1>0
<1>2. a + 1 = o - j /\ i = o - k
  OBVIOUS
<1> HIDE DEF o, j, k
<1>3. /\ A \in 0..(SeqMod - 1)
      /\ Ahead(Num(o - j), b) = IF j <= A THEN A - j ELSE A - j + SeqMod
  BY <1>1, Before, Zenon
<1>4. Ahead(Num(o - k), b) = IF k <= A THEN A - k ELSE A - k + SeqMod
  BY <1>1, Before, Zenon
<1>5. Ahead(Num(o - j), b) <= A /\ Ahead(Num(o - k), b) < Ahead(Num(o - j), b)
  BY <1>2, Zenon DEF o
<1> DEFINE J == Ahead(Num(o - j), b)
           K == Ahead(Num(o - k), b)
<1>6. /\ A \in 0..(SeqMod - 1) /\ J <= A /\ K < J
      /\ J = IF j <= A THEN A - j ELSE A - j + SeqMod
      /\ K = IF k <= A THEN A - k ELSE A - k + SeqMod
  BY <1>3, <1>4, <1>5, Zenon
<1> HIDE DEF A, J, K
<1>7. j < k
  BY <1>0, <1>1, <1>6, SMTT(60)
<1>8. QED BY <1>0, <1>7 DEF j, k

\* A frame in the window before an acknowledgement was accepted by the peer.
LEMMA AckedAccepted ==
  ASSUME NEW p, NEW r, Sound(p, r), p.live, ~p.raced, NEW m \in Packets, m.kind # "inval",
         InWindow(p, m.iseqno), Travels(m, r, p), Young(m, r, p), NEW f \in p.iaxq,
         Ahead(f.oseqno, p.rseqno) < Ahead(m.iseqno, p.rseqno)
  PROVE  f.id \in 1..Len(r.got)
<1> DEFINE w == p.wrote
           a == m.ack
           i == f.id
           b == p.rseqno
<1>1. p \in Pvts /\ r \in Pvts /\ Own(p) /\ Sends(p) /\ Counted(p, r.got)
  BY Zenon DEF Sound
<1>2. w \in Nat /\ a \in Nat /\ b \in SeqNo /\ Len(r.got) \in Nat
  BY <1>1, PvtTypes DEF Packets
<1>3. m.iseqno = Num(a + 1) /\ a <= Len(r.got)
  BY Zenon DEF Travels
<1>4. Len(r.got) <= w
  BY <1>1, Zenon DEF Counted
<1>5. f.oseqno = Num(i) /\ i \in 1..w /\ w - i < Lifetime /\ p.oseqno = Num(w + 1)
  BY <1>1, Zenon DEF Sends
<1>6. w - a <= Lifetime
  BY Zenon DEF Young
<1>7. a <= w
  BY <1>2, <1>3, <1>4
<1>8. Ahead(Num(a + 1), b) <= Ahead(Num(w + 1), b)
  BY <1>3, <1>5, Zenon DEF InWindow
<1>9. Ahead(Num(i), b) < Ahead(Num(a + 1), b)
  BY <1>3, <1>5, Zenon
<1> HIDE DEF w, a, i, b
<1>10. i <= a
  BY <1>2, <1>5, <1>6, <1>7, <1>8, <1>9, Covered, Zenon
<1>11. QED BY <1>2, <1>3, <1>5, <1>10, SMTT(60) DEF i

\* The pvt once the frames with these ids are acknowledged.
Cleared(p, ids) == [p EXCEPT !.iaxq = Cancelled(@, ids), !.acked = @ \cup ids]

\* Retransmissions of accepted frames may be cancelled.
LEMMA ClearedGood ==
  ASSUME NEW p, NEW r, Good(p, r), p.pinging = NoPing,
         NEW ids \in SUBSET Nat, ~p.raced => ids \subseteq 1..Len(r.got),
         NEW n \in SeqNo, NEW q, q = Cleared(p, ids) \/ q = [Cleared(p, ids) EXCEPT !.rseqno = n]
  PROVE  Fits(p, q, r) /\ q.pinging = p.pinging /\ q.wrote = p.wrote /\ q.live = p.live
<1> DEFINE C == Cancelled(p.iaxq, ids)
           A == p.acked \cup ids
<1>0. /\ p \in Pvts /\ r \in Pvts /\ Sound(p, r) /\ Own(p) /\ Counted(p, r.got) /\ Held(p, r.got)
  BY DEF Good, Sound
<1>1. C \subseteq Frames /\ \A g \in C : Old(p, g)
  BY <1>0, CancelledOld
<1>2. A \subseteq Nat
  BY <1>0, PvtTypes
<1>3. PICK x \in SeqNo : q = [p EXCEPT !.iaxq = C, !.acked = A, !.rseqno = x]
  <2> HIDE DEF C, A
  <2>1. Cleared(p, ids) = [p EXCEPT !.iaxq = C, !.acked = A]
    BY Zenon DEF Cleared, C, A
  <2>2. [p EXCEPT !.iaxq = C, !.acked = A] = [p EXCEPT !.iaxq = C, !.acked = A, !.rseqno = p.rseqno]
    BY <1>0, Zenon DEF Pvts
  <2>3. [[p EXCEPT !.iaxq = C, !.acked = A] EXCEPT !.rseqno = n]
          = [p EXCEPT !.iaxq = C, !.acked = A, !.rseqno = n]
    BY <1>0 DEF Pvts
  <2>4. p.rseqno \in SeqNo
    BY <1>0, PvtTypes
  <2>5. QED BY <2>1, <2>2, <2>3, <2>4, Zenon
<1> HIDE DEF C, A
<1>4. q \in Pvts /\ q.iaxq = C /\ q.acked = A
  BY <1>0, <1>1, <1>2, <1>3, Zenon DEF Pvts
<1>5. /\ q.live = p.live /\ q.raced = p.raced /\ q.wrote = p.wrote /\ q.got = p.got
      /\ q.oseqno = p.oseqno /\ q.iseqno = p.iseqno
  BY <1>0, <1>3, Zenon DEF Pvts
<1>6. /\ q.gone = p.gone /\ q.owner = p.owner /\ q.error = p.error /\ q.final = p.final
      /\ q.ping = p.ping /\ q.pinging = p.pinging
  BY <1>0, <1>3 DEF Pvts
<1>7. FlagsAgree(q) /\ SameNumbers(p, q)
  BY <1>0, <1>5, <1>6, Zenon DEF FlagsAgree, SameNumbers, Own
<1>8. FewAcked(q, r)
  <2>1. ~p.raced => p.acked \subseteq 1..Len(r.got)
    BY <1>0, Zenon DEF Counted
  <2>2. ~p.raced => A \subseteq 1..Len(r.got)
    BY <2>1, Zenon DEF A
  <2>3. QED BY <1>4, <1>5, <2>2, Zenon DEF FewAcked
<1>9. Sound(q, r) /\ Grows(p, q)
  BY <1>0, <1>1, <1>4, <1>6, <1>7, <1>8, UpdateQueue, Zenon
<1>10. Held(q, r.got)
  <2> DEFINE l == Len(r.got)
  <2> SUFFICES ASSUME ~p.raced, Kept(p, l) PROVE Kept(q, l)
    BY <1>0, <1>5, <1>6, Zenon DEF Held
  <2>0. p.iaxq \in SUBSET Frames
    BY <1>0, PvtTypes
  <2>1. ASSUME NEW k \in (l + 1)..q.wrote PROVE \E g \in q.iaxq : g.id = k
    <3>1. PICK f \in p.iaxq : f.id = k
      BY <1>5, Zenon DEF Kept
    <3>2. \E g \in C : g.id = f.id
      BY <2>0, CancelledFrames, Zenon DEF C
    <3>3. QED BY <1>4, <3>1, <3>2, Zenon
  <2>2. ASSUME NEW g \in q.iaxq, g.retries < 0 PROVE g.id <= l
    <3>1. \E f \in p.iaxq : Kin(f, g, ids)
      BY <1>4, <2>0, CancelledFrames, Zenon DEF C
    <3>2. PICK f \in p.iaxq : Kin(f, g, ids)
      BY <3>1
    <3>3. CASE f.id \in ids
      <4>1. f.id \in 1..l
        BY <3>3, Zenon
      <4>2. f.id <= l
        BY <1>0, <4>1, PvtTypes
      <4>3. QED BY <3>2, <4>2, Zenon DEF Kin, Same
    <3>4. CASE f.retries < 0
      <4>1. f.id <= l
        BY <3>4, Zenon DEF Kept
      <4>2. QED BY <3>2, <4>1, Zenon DEF Kin, Same
    <3>5. QED BY <2>2, <3>2, <3>3, <3>4, Zenon DEF Kin
  <2>3. QED BY <2>1, <2>2, Zenon DEF Kept
<1>11. QED BY <1>5, <1>6, <1>9, <1>10, Zenon DEF Fits, Good

\* iax2_destroy leaves an unfinished send_ping.
LEMMA DestroyKeeps ==
  ASSUME NEW p, Own(p)
  PROVE  Destroy(p).pinging = p.pinging /\ Destroy(p).wrote = p.wrote
<1>1. p \in Pvts
  BY DEF Own
<1> DEFINE C == Cancelled(p.iaxq, 1..p.wrote)
           q == [p EXCEPT !.gone = TRUE, !.ping = FALSE, !.iaxq = C]
<1> HIDE DEF C
<1>2. /\ [q EXCEPT !.told = TRUE].pinging = p.pinging /\ [q EXCEPT !.told = TRUE].wrote = p.wrote
  BY <1>1 DEF Pvts
<1>3. Free(q).pinging = p.pinging /\ Free(q).wrote = p.wrote
  BY <1>1 DEF Pvts, Free
<1>4. Destroy(p) = IF p.owner THEN [q EXCEPT !.told = TRUE] ELSE Free(q)
  BY Zenon DEF Destroy, C
<1> HIDE DEF q
<1>5. QED BY <1>2, <1>3, <1>4, Zenon

\* The handling of an acknowledgement, new or old, keeps the pvt good.
LEMMA AcknowledgedGood ==
  ASSUME NEW p, NEW r, Good(p, r), p.live, p.pinging = NoPing, NEW m \in Packets,
         m.kind # "inval", InWindow(p, m.iseqno), Travels(m, r, p), Young(m, r, p)
  PROVE  LET q == Acknowledged(p, m.iseqno)
         IN Fits(p, q, r) /\ q.pinging = p.pinging /\ q.wrote = p.wrote
<1> DEFINE n    == m.iseqno
           done == {f \in p.iaxq : Ahead(f.oseqno, p.rseqno) < Ahead(n, p.rseqno)}
           ids  == {f.id : f \in done}
           s    == Cleared(p, ids)
<1>0. p \in Pvts /\ Sound(p, r)
  BY DEF Good, Sound
<1>1. ids \subseteq Nat /\ n \in SeqNo
  BY <1>0, PvtTypes, Zenon DEF Frames, Packets
<1>2. ~p.raced => ids \subseteq 1..Len(r.got)
  <2>1. ASSUME ~p.raced, NEW f \in done PROVE f.id \in 1..Len(r.got)
    BY <1>0, <2>1, AckedAccepted
  <2> HIDE DEF done
  <2>2. QED BY <2>1, Zenon
<1>3. Acknowledged(p, n) = IF \E f \in done : f.kind = "hangup"
                             THEN Destroy(s) ELSE [s EXCEPT !.rseqno = n]
  BY Zenon DEF Acknowledged, Cleared
<1> HIDE DEF done, ids, n
<1>4. /\ Fits(p, s, r) /\ s.pinging = p.pinging /\ s.wrote = p.wrote
  BY <1>1, <1>2, ClearedGood
<1>5. CASE \E f \in done : f.kind = "hangup"
  <2>1. Sound(s, r) /\ Grows(p, s) /\ Own(s)
    BY <1>4, Zenon DEF Fits, Good, Sound
  <2>2. Fits(s, Destroy(s), r)
    BY <1>4, <2>1, DestroyGood
  <2>3. Fits(p, Destroy(s), r)
    BY <1>0, <2>1, <2>2, FitsOn, Zenon
  <2>4. Destroy(s).pinging = p.pinging /\ Destroy(s).wrote = p.wrote
    BY <1>4, <2>1, DestroyKeeps
  <2> HIDE DEF s
  <2>5. QED BY <1>3, <1>5, <2>3, <2>4, Zenon DEF n
<1>6. CASE ~\E f \in done : f.kind = "hangup"
  <2> DEFINE q == [s EXCEPT !.rseqno = n]
  <2>1. Fits(p, q, r) /\ q.pinging = p.pinging /\ q.wrote = p.wrote
    BY <1>1, <1>2, ClearedGood
  <2>2. Acknowledged(p, n) = q
    BY <1>3, <1>6, Zenon
  <2> HIDE DEF q
  <2>3. QED BY <2>1, <2>2, Zenon DEF n
<1>7. QED BY <1>5, <1>6, Zenon

\* socket_read, up to the switch over the subclass.
LEMMA TakenGood ==
  ASSUME NEW p, NEW r, Good(p, r), p.live, p.pinging = NoPing, NEW m \in Packets,
         m.kind \in Numbered => Expected(p, m), Travels(m, r, p), Young(m, r, p)
  PROVE  Fits(p, Taken(p, m), r) /\ Taken(p, m).pinging = NoPing /\ Taken(p, m).wrote = p.wrote
<1> DEFINE q == IF m.kind \in Numbered THEN Accepted(p, m) ELSE p
<1>0. p \in Pvts /\ r \in Pvts
  BY Zenon DEF Good, Sound
<1>1. /\ Fits(p, q, r) /\ q.pinging = NoPing /\ q.wrote = p.wrote /\ q.live
      /\ Travels(m, r, q) /\ Young(m, r, q)
  <2>1. CASE m.kind \in Numbered
    <3> DEFINE a == Accepted(p, m)
    <3>1. Fits(p, a, r)
      BY <2>1, AcceptedGood
    <3>2. a \in Pvts /\ a.pinging = p.pinging /\ a.wrote = p.wrote /\ a.live = p.live
      BY <1>0, AcceptedFields, Zenon
    <3>3. Travels(m, r, a)
      BY <1>0, <3>1, <3>2, TravelsOn DEF Fits
    <3>4. Young(m, r, a)
      BY <3>2, Zenon DEF Young
    <3>5. q = a
      BY <2>1
    <3> HIDE DEF a, q
    <3>6. QED BY <3>1, <3>2, <3>3, <3>4, <3>5, Zenon
  <2>2. CASE m.kind \notin Numbered
    <3>1. q = p
      BY <2>2
    <3>2. Grows(p, p)
      BY <1>0, GrowsSame
    <3> HIDE DEF q
    <3>3. QED BY <3>1, <3>2, Zenon DEF Fits
  <2>3. QED BY <2>1, <2>2
<1>2. Taken(p, m) = IF m.kind # "inval" /\ InWindow(q, m.iseqno) THEN Acknowledged(q, m.iseqno) ELSE q
  BY Zenon DEF Taken, Accepted
<1> HIDE DEF q
<1>3. CASE m.kind # "inval" /\ InWindow(q, m.iseqno)
  <2> DEFINE s == Acknowledged(q, m.iseqno)
  <2>1. Good(q, r) /\ Sound(q, r) /\ Grows(p, q)
    BY <1>1, Zenon DEF Fits, Good
  <2>2. Fits(q, s, r) /\ s.pinging = q.pinging /\ s.wrote = q.wrote
    BY <1>1, <1>3, <2>1, AcknowledgedGood
  <2>3. Taken(p, m) = s
    BY <1>2, <1>3, Zenon
  <2> HIDE DEF s
  <2>4. Fits(p, s, r)
    BY <1>0, <2>1, <2>2, FitsOn
  <2>5. QED BY <1>1, <2>2, <2>3, <2>4, Zenon
<1>4. CASE ~(m.kind # "inval" /\ InWindow(q, m.iseqno))
  <2>1. Taken(p, m) = q
    BY <1>2, <1>4, Zenon
  <2>2. QED BY <1>1, <2>1, Zenon
<1>5. QED BY <1>3, <1>4

-----------------------------------------------------------------------------
(* What is sent *)

\* A queued frame makes a sound packet.
LEMMA FrameOut ==
  ASSUME NEW e \in Ends, NEW p, NEW r, Sound(p, r), p.live, ~p.error, NEW f \in p.iaxq
  PROVE  LET m == Packet(e, f) IN m \in Packets /\ m.to = Peer(e) /\ Travels(m, p, r)
<1> DEFINE m == Packet(e, f)
<1>1. p \in Pvts /\ r \in Pvts /\ Own(p) /\ Sends(p) /\ Counted(p, r.got)
  BY Zenon DEF Sound
<1>2. f \in Frames /\ Peer(e) \in Ends
  BY <1>1, PvtTypes, PeerOf
<1>3. f.kind \in Numbered /\ f.id \in Nat /\ f.oseqno \in SeqNo /\ f.ack \in Nat /\ f.iseqno \in SeqNo
  BY <1>2, Zenon DEF Frames
<1>4. /\ m \in Packets /\ m.to = Peer(e) /\ m.kind = f.kind /\ m.id = f.id
      /\ m.oseqno = f.oseqno /\ m.ack = f.ack /\ m.iseqno = f.iseqno
  BY <1>2, <1>3 DEF Packets, Packet
<1> HIDE DEF m
<1>5. f.iseqno = Num(f.ack + 1) /\ f.ack <= Len(p.got)
  BY <1>1, Zenon DEF Own
<1>6. ASSUME ~p.raced PROVE f.oseqno = Num(f.id) /\ f.id \in 1..p.wrote /\ f.id <= Len(r.got) + SeqMod
  <2>1. f.oseqno = Num(f.id) /\ f.id \in 1..p.wrote
    BY <1>1, <1>6, Zenon DEF Sends
  <2>2. p.wrote <= Len(r.got) + SeqMod
    BY <1>1, <1>6, Zenon DEF Counted
  <2>3. p.wrote \in Nat /\ Len(r.got) \in Nat /\ SeqMod \in Nat
    BY <1>1, PvtTypes, Modulus
  <2>4. QED BY <2>1, <2>2, <2>3
<1>7. Travels(m, p, r)
  BY <1>4, <1>5, <1>6, Zenon DEF Travels
<1>8. QED BY <1>4, <1>7, Zenon DEF m

\* So do several.
LEMMA FramesOut ==
  ASSUME NEW e \in Ends, NEW p, NEW r, NEW q \in Pvts, Sound(p, r), p.live, Grows(p, q),
         NEW F \in SUBSET p.iaxq
  PROVE  Out(Sent(p, {Packet(e, f) : f \in F}), e, q, r)
<1>0. p \in Pvts /\ r \in Pvts
  BY DEF Sound
<1>1. CASE p.error
  <2>1. Sent(p, {Packet(e, f) : f \in F}) = {}
    BY <1>1 DEF Sent
  <2>2. QED BY <2>1, Zenon DEF Out
<1>2. CASE ~p.error
  <2>1. ASSUME NEW f \in F
        PROVE Packet(e, f) \in Packets /\ Packet(e, f).to = Peer(e) /\ Travels(Packet(e, f), q, r)
    <3>1. Packet(e, f) \in Packets /\ Packet(e, f).to = Peer(e) /\ Travels(Packet(e, f), p, r)
      BY <1>2, FrameOut, Zenon
    <3>2. Travels(Packet(e, f), q, r)
      BY <1>0, <3>1, TravelsOn
    <3>3. QED BY <3>1, <3>2
  <2>2. Sent(p, {Packet(e, f) : f \in F}) = {Packet(e, f) : f \in F}
    BY <1>2 DEF Sent
  <2>3. QED BY <2>1, <2>2, Zenon DEF Out
<1>3. QED BY <1>1, <1>2

\* So does an acknowledgement or a VNAK.
LEMMA CommandOut ==
  ASSUME NEW e \in Ends, NEW p, NEW r, NEW q \in Pvts, Sound(p, r), p.live, Grows(p, q),
         NEW kind \in {"ack", "vnak"}, NEW n \in SeqNo
  PROVE  Out(Sent(p, {Command(e, p, kind, n)}), e, q, r)
<1> DEFINE m == Command(e, p, kind, n)
<1>0. p \in Pvts /\ r \in Pvts /\ Own(p)
  BY DEF Sound
<1>1. Len(p.got) \in Nat /\ p.iseqno \in SeqNo /\ Peer(e) \in Ends
  BY <1>0, PvtTypes, PeerOf
<1>2. kind \in Commands /\ kind \notin Numbered
  BY Zenon DEF Commands, Numbered
<1>3. /\ m \in Packets /\ m.to = Peer(e) /\ m.kind = kind /\ m.ack = Len(p.got) /\ m.iseqno = p.iseqno
  BY <1>1, <1>2 DEF Packets, Command
<1> HIDE DEF m
<1>4. p.iseqno = Num(Len(p.got) + 1) /\ Len(p.got) <= Len(p.got)
  BY <1>0, <1>1 DEF Own
<1>5. Travels(m, p, r)
  BY <1>2, <1>3, <1>4, Zenon DEF Travels
<1>6. Travels(m, q, r)
  BY <1>0, <1>3, <1>5, TravelsOn
<1>7. Sent(p, {m}) \subseteq {m}
  BY DEF Sent
<1>8. QED BY <1>3, <1>6, <1>7, Zenon DEF Out, m

-----------------------------------------------------------------------------
(* The owner *)

\* The invariant, seen from one end.
LEMMA GoodEnd ==
  ASSUME IaxInv, NEW e \in Ends
  PROVE  /\ iaxs \in [Ends -> Pvts] /\ iaxs[e] \in Pvts /\ iaxs[Peer(e)] \in Pvts
         /\ Good(iaxs[e], iaxs[Peer(e)]) /\ Sound(iaxs[e], iaxs[Peer(e)]) /\ Own(iaxs[e])
<1> DEFINE d == Peer(e)
<1>1. d \in Ends /\ Peer(d) = e
  BY PeerOf, Zenon
<1>2. /\ iaxs \in [Ends -> Pvts] /\ iaxs[e] \in Pvts /\ iaxs[d] \in Pvts
  BY <1>1 DEF IaxInv
<1>3. Own(iaxs[e]) /\ Sends(iaxs[e]) /\ Link(iaxs[e], iaxs[d].got) /\ Link(iaxs[d], iaxs[e].got)
  BY <1>1, Zenon DEF IaxInv
<1> HIDE DEF d
<1>4. QED BY <1>2, <1>3, Zenon DEF Good, Sound, Link, d

\* A step of an end that sends nothing.
LEMMA QuietStep ==
  ASSUME IaxInv, NEW e \in Ends, NEW q, NEW got,
         Step([iaxs EXCEPT ![e] = q], {}, got), Fits(iaxs[e], q, iaxs[Peer(e)])
  PROVE  IaxInv'
<1>1. Out({}, e, q, iaxs[Peer(e)])
  BY Zenon DEF Out
<1>2. QED BY <1>1, StepGood

\* iax2_write queues a frame.
LEMMA WriteStep ==
  ASSUME IaxInv, NEW e \in Ends, iax2_write(e)
  PROVE  IaxInv'
<1> DEFINE p == iaxs[e]
           r == iaxs[Peer(e)]
<1>1. Good(p, r)
  BY GoodEnd
<1>2. ~p.gone /\ Room(p) /\ Step([iaxs EXCEPT ![e] = Queued(p, "data", p.oseqno)], {}, {})
  BY Zenon DEF iax2_write
<1>3. "data" \in Numbered
  BY DEF Numbered
<1>4. FewWait(p, r)
  BY <1>1, <1>2, RoomWait
<1>5. Fits(p, Queued(p, "data", p.oseqno), r)
  BY <1>1, <1>2, <1>3, <1>4, QueuedGood
<1>6. QED BY <1>2, <1>5, QuietStep

\* Both branches of iax2_hangup.
LEMMA HangupGood ==
  ASSUME NEW p, NEW r, Good(p, r), p.owner
  PROVE  /\ p.gone => Fits(p, Destroy(Predestroy(p)), r)
         /\ ~p.gone => Fits(p, [Predestroy(p) EXCEPT !.final = ~p.error], r)
<1>0. p \in Pvts /\ Sound(p, r) /\ Own(p) /\ Held(p, r.got)
  BY Zenon DEF Good, Sound
<1>1. ASSUME NEW x \in BOOLEAN, NEW q, q = [Predestroy(p) EXCEPT !.final = x]
      PROVE  /\ Sound(q, r) /\ Grows(p, q) /\ q.pinging = p.pinging /\ (~p.gone => Held(q, r.got))
  <2>1. q = [p EXCEPT !.gone = TRUE, !.ping = FALSE, !.owner = FALSE, !.final = x]
    BY <1>0, <1>1 DEF Predestroy, Pvts
  <2>2. q \in Pvts /\ ~q.ping /\ ~q.owner
    BY <1>0, <2>1, Zenon DEF Pvts
  <2>3. /\ q.live = p.live /\ q.raced = p.raced /\ q.wrote = p.wrote /\ q.got = p.got
        /\ q.oseqno = p.oseqno /\ q.iseqno = p.iseqno
    BY <1>0, <2>1 DEF Pvts
  <2>4. q.error = p.error /\ q.iaxq = p.iaxq /\ q.pinging = p.pinging /\ q.acked = p.acked
    BY <1>0, <2>1 DEF Pvts
  <2>5. SameNumbers(p, q) /\ FlagsAgree(q)
    BY <2>2, <2>3, Zenon DEF SameNumbers, FlagsAgree
  <2>6. Sound(q, r) /\ Grows(p, q)
    BY <1>0, <2>2, <2>4, <2>5, UpdateFlags, Zenon
  <2>7. ~p.gone => Held(q, r.got)
    BY <1>0, <2>3, <2>4, Zenon DEF Held, Kept
  <2>8. QED BY <2>4, <2>6, <2>7
<1>2. ASSUME p.gone PROVE Fits(p, Destroy(Predestroy(p)), r)
  <2> DEFINE q == Predestroy(p)
  <2>1. p.final \in BOOLEAN
    BY <1>0 DEF Pvts
  <2>2. q = [q EXCEPT !.final = p.final]
    BY <1>0, Zenon DEF Predestroy, Pvts
  <2>3. Sound(q, r) /\ Grows(p, q) /\ q.pinging = p.pinging
    BY <1>1, <2>1, <2>2, Zenon
  <2>4. p.pinging = NoPing
    BY <1>0, <1>2, Zenon DEF Own
  <2> HIDE DEF q
  <2>5. Fits(q, Destroy(q), r)
    BY <2>3, <2>4, DestroyGood, Zenon
  <2>6. QED BY <1>0, <2>3, <2>5, FitsOn, Zenon DEF q
<1>3. ASSUME ~p.gone PROVE Fits(p, [Predestroy(p) EXCEPT !.final = ~p.error], r)
  <2>1. (~p.error) \in BOOLEAN
    OBVIOUS
  <2>2. QED BY <1>1, <1>3, <2>1, Zenon DEF Fits, Good
<1>4. QED BY <1>2, <1>3

\* iax2_hangup.
LEMMA HangupStep ==
  ASSUME IaxInv, NEW e \in Ends, iax2_hangup(e)
  PROVE  IaxInv'
<1> DEFINE p == iaxs[e]
           r == iaxs[Peer(e)]
           q == IF p.gone THEN Destroy(Predestroy(p)) ELSE [Predestroy(p) EXCEPT !.final = ~p.error]
<1>1. Good(p, r)
  BY GoodEnd
<1>2. p.owner /\ Step([iaxs EXCEPT ![e] = q], {}, {})
  BY Zenon DEF iax2_hangup
<1>3. Fits(p, q, r)
  BY <1>1, <1>2, HangupGood, Zenon
<1> HIDE DEF q
<1>4. QED BY <1>2, <1>3, QuietStep

\* send_command_final sends the HANGUP of an end whose owner left.
LEMMA FinalStep ==
  ASSUME IaxInv, NEW e \in Ends, send_command_final(e)
  PROVE  IaxInv'
<1> DEFINE p == iaxs[e]
           r == iaxs[Peer(e)]
           q == [p EXCEPT !.final = FALSE]
           s == IF q.live THEN Queued(q, "hangup", q.oseqno) ELSE q
<1>1. p \in Pvts /\ Own(p) /\ Sound(p, r) /\ Held(p, r.got)
  BY GoodEnd, Zenon DEF Good
<1>2. p.final /\ (q.live => Room(q)) /\ Step([iaxs EXCEPT ![e] = s], {}, {})
  BY Zenon DEF send_command_final
<1>3. q \in Pvts /\ ~q.final /\ q.owner = p.owner /\ q.gone = p.gone /\ q.ping = p.ping
  BY <1>1, Zenon DEF Pvts
<1>4. /\ q.live = p.live /\ q.raced = p.raced /\ q.wrote = p.wrote /\ q.got = p.got
      /\ q.oseqno = p.oseqno /\ q.iseqno = p.iseqno
  BY <1>1 DEF Pvts
<1>5. q.error = p.error /\ q.iaxq = p.iaxq /\ q.pinging = p.pinging /\ q.acked = p.acked
  BY <1>1 DEF Pvts
<1> HIDE DEF q
<1>6. SameNumbers(p, q) /\ FlagsAgree(q) /\ ~q.owner
  BY <1>1, <1>2, <1>3, <1>4, Zenon DEF SameNumbers, FlagsAgree, Own
<1>7. Sound(q, r) /\ Grows(p, q)
  BY <1>1, <1>3, <1>5, <1>6, UpdateFlags, Zenon
<1>8. Held(q, r.got)
  BY <1>1, <1>3, <1>4, <1>5, Zenon DEF Held, Kept
<1>9. Good(q, r)
  BY <1>7, <1>8, Zenon DEF Good
<1>10. Fits(p, s, r)
  <2>1. CASE q.live
    <3>1. "hangup" \in Numbered
      BY DEF Numbered
    <3>2. FewWait(q, r)
      BY <1>2, <1>6, <1>9, <2>1, RoomWait, Zenon
    <3>3. Fits(q, Queued(q, "hangup", q.oseqno), r)
      BY <1>2, <1>9, <2>1, <3>1, <3>2, QueuedGood
    <3>4. s = Queued(q, "hangup", q.oseqno)
      BY <2>1
    <3> HIDE DEF s
    <3>5. QED BY <1>1, <1>7, <3>3, <3>4, FitsOn
  <2>2. CASE ~q.live
    <3>1. s = q
      BY <2>2
    <3>2. QED BY <1>7, <1>9, <3>1, Zenon DEF Fits
  <2>3. QED BY <2>1, <2>2
<1> HIDE DEF s
<1>11. QED BY <1>2, <1>10, QuietStep

\* send_ping reads oseqno.
LEMMA SendPingStep ==
  ASSUME IaxInv, NEW e \in Ends, send_ping(e)
  PROVE  IaxInv'
<1> DEFINE p == iaxs[e]
           r == iaxs[Peer(e)]
           q == [p EXCEPT !.pinging = p.oseqno]
<1>1. iaxs \in [Ends -> Pvts] /\ Good(p, r)
  BY GoodEnd
<1>2. [iaxs EXCEPT ![e].pinging = p.oseqno] = [iaxs EXCEPT ![e] = q]
  BY <1>1
<1>3. p.live /\ p.ping /\ p.pinging = NoPing /\ Room(p) /\ Step([iaxs EXCEPT ![e] = q], {}, {})
  BY <1>2, Zenon DEF send_ping
<1>4. Fits(p, q, r)
  BY <1>1, <1>3, PingGood
<1> HIDE DEF q
<1>5. QED BY <1>3, <1>4, QuietStep

\* send_ping queues its frame with the number it read.
LEMMA PingQueuedStep ==
  ASSUME IaxInv, NEW e \in Ends, PingQueued(e)
  PROVE  IaxInv'
<1> DEFINE p == iaxs[e]
           r == iaxs[Peer(e)]
<1>1. Good(p, r)
  BY GoodEnd
<1>2. p.pinging # NoPing /\ Step([iaxs EXCEPT ![e] = Repinged(p)], {}, {})
  BY Zenon DEF PingQueued, Repinged
<1>3. Fits(p, Repinged(p), r)
  BY <1>1, <1>2, RepingedGood
<1>4. QED BY <1>2, <1>3, QuietStep

-----------------------------------------------------------------------------
(* The network thread: sending *)

\* One pass over iaxq.
Pass(p) ==
  LET new == {f \in p.iaxq : ~f.sentyet}
  IN (p.iaxq \ new) \cup {[f EXCEPT !.sentyet = TRUE, !.retries = @ + 1] : f \in {g \in new : g.retries >= 0}}

\* A frame of the pass is one that was queued. Those left out were cancelled.
LEMMA PassFrames ==
  ASSUME NEW p, Own(p)
  PROVE  /\ Pass(p) \subseteq Frames /\ \A g \in Pass(p) : Old(p, g)
         /\ \A g \in Pass(p) : g.retries < 0 => g \in p.iaxq
         /\ \A f \in p.iaxq : f.retries < 0 \/ \E g \in Pass(p) : g.id = f.id
<1> DEFINE new == {f \in p.iaxq : ~f.sentyet}
           s(f) == [f EXCEPT !.sentyet = TRUE, !.retries = @ + 1]
<1>0. p.iaxq \subseteq Frames
  BY PvtTypes DEF Own
<1>1. ASSUME NEW f \in p.iaxq, ~f.sentyet, f.retries >= 0
      PROVE  /\ s(f) \in Frames /\ s(f).id = f.id /\ s(f).oseqno = f.oseqno /\ s(f).ack = f.ack
             /\ s(f).iseqno = f.iseqno /\ s(f).sentyet /\ ~(s(f).retries < 0)
  <2>1. f \in Frames /\ f.retries <= 0 /\ f.retries \in -1..MaxRetries
    BY <1>0, <1>1 DEF Own, Frames
  <2> DEFINE k == f.retries + 1
  <2>2. k \in -1..MaxRetries /\ ~(k < 0)
    BY <1>1, <2>1, EndsAssumption
  <2> HIDE DEF k
  <2> DEFINE g == [f EXCEPT !.sentyet = TRUE, !.retries = k]
  <2>3. /\ g \in Frames /\ g.id = f.id /\ g.oseqno = f.oseqno /\ g.ack = f.ack
        /\ g.iseqno = f.iseqno /\ g.sentyet /\ g.retries = k
    BY <2>1, <2>2, Zenon DEF Frames
  <2>4. s(f) = g
    BY Zenon DEF k
  <2> HIDE DEF g, s
  <2>5. QED BY <2>2, <2>3, <2>4, Zenon
<1> HIDE DEF s
<1>2. /\ \A g \in Pass(p) : \/ g \in p.iaxq /\ g.sentyet
                            \/ \E f \in p.iaxq : g = s(f) /\ ~f.sentyet /\ f.retries >= 0
      /\ \A f \in p.iaxq : f.sentyet => f \in Pass(p)
      /\ \A f \in p.iaxq : ~f.sentyet /\ f.retries >= 0 => s(f) \in Pass(p)
  BY Zenon DEF Pass, s
<1>3. ASSUME NEW g \in Pass(p) PROVE g \in Frames /\ Old(p, g) /\ (g.retries < 0 => g \in p.iaxq)
  <2>1. CASE g \in p.iaxq /\ g.sentyet
    BY <1>0, <2>1, Zenon DEF Old, Same, Stamped
  <2>2. ASSUME NEW f \in p.iaxq, g = s(f), ~f.sentyet, f.retries >= 0
        PROVE  g \in Frames /\ Old(p, g) /\ (g.retries < 0 => g \in p.iaxq)
    BY <1>1, <2>2, Zenon DEF Old, Same, Stamped
  <2>3. QED BY <1>2, <2>1, <2>2, Zenon
<1>4. ASSUME NEW f \in p.iaxq PROVE f.retries < 0 \/ \E g \in Pass(p) : g.id = f.id
  <2>1. f.retries < 0 \/ f.retries >= 0
    BY <1>0 DEF Frames
  <2>2. QED BY <1>1, <1>2, <2>1, Zenon
<1>5. QED BY <1>3, <1>4, Zenon

\* The pvt with other frames in iaxq, those that are still needed among them.
Requeued(p, F) == [p EXCEPT !.iaxq = F]

\* What a change of iaxq alone leaves.
LEMMA RequeuedFields ==
  ASSUME NEW p \in Pvts, NEW F \in SUBSET Frames
  PROVE  LET q == Requeued(p, F) IN
         /\ q \in Pvts /\ q.iaxq = F
         /\ q.live = p.live /\ q.raced = p.raced /\ q.wrote = p.wrote /\ q.got = p.got
         /\ q.oseqno = p.oseqno /\ q.iseqno = p.iseqno /\ q.acked = p.acked
         /\ q.gone = p.gone /\ q.owner = p.owner /\ q.error = p.error /\ q.final = p.final
         /\ q.ping = p.ping /\ q.pinging = p.pinging
<1> DEFINE q == [p EXCEPT !.iaxq = F]
<1>1. q \in Pvts /\ q.iaxq = F
  BY Zenon DEF Pvts
<1>2. /\ q.live = p.live /\ q.raced = p.raced /\ q.wrote = p.wrote /\ q.got = p.got
      /\ q.oseqno = p.oseqno /\ q.iseqno = p.iseqno /\ q.acked = p.acked
  BY DEF Pvts
<1>3. /\ q.gone = p.gone /\ q.owner = p.owner /\ q.error = p.error /\ q.final = p.final
      /\ q.ping = p.ping /\ q.pinging = p.pinging
  BY DEF Pvts
<1> HIDE DEF q
<1>4. QED BY <1>1, <1>2, <1>3, Zenon DEF Requeued, q

\* It keeps the numbers in order.
LEMMA RequeuedSound ==
  ASSUME NEW p, NEW r, Sound(p, r), p.pinging = NoPing,
         NEW F \in SUBSET Frames, \A g \in F : Old(p, g)
  PROVE  Sound(Requeued(p, F), r) /\ Grows(p, Requeued(p, F))
<1> DEFINE q == Requeued(p, F)
<1>0. p \in Pvts /\ Own(p) /\ Counted(p, r.got)
  BY Zenon DEF Sound
<1>a. p \in Pvts
  BY <1>0
<1>1. /\ q \in Pvts /\ q.iaxq = F
      /\ q.live = p.live /\ q.raced = p.raced /\ q.wrote = p.wrote /\ q.got = p.got
      /\ q.oseqno = p.oseqno /\ q.iseqno = p.iseqno /\ q.acked = p.acked
      /\ q.gone = p.gone /\ q.owner = p.owner /\ q.error = p.error /\ q.final = p.final
      /\ q.ping = p.ping /\ q.pinging = p.pinging
  BY <1>a, RequeuedFields, Zenon
<1> HIDE DEF q
<1>2. SameNumbers(p, q) /\ FlagsAgree(q) /\ FewAcked(q, r)
  BY <1>0, <1>1, Zenon DEF SameNumbers, FlagsAgree, FewAcked, Own, Counted
<1>3. q.pinging = NoPing /\ (p.error => q.error) /\ \A g \in q.iaxq : Old(p, g)
  BY <1>1, Zenon
<1>4. q \in Pvts
  BY <1>1
<1>5. QED BY <1>2, <1>3, <1>4, UpdateQueue, Zenon DEF q

\* It fits if no frame that is still repeated is dropped.
LEMMA RequeuedGood ==
  ASSUME NEW p, NEW r, Good(p, r), p.pinging = NoPing,
         NEW F \in SUBSET Frames, \A g \in F : Old(p, g),
         \A g \in F : g.retries < 0 => g \in p.iaxq,
         p.live => \A f \in p.iaxq : f.retries < 0 \/ \E g \in F : g.id = f.id
  PROVE  Fits(p, Requeued(p, F), r)
<1> DEFINE q == Requeued(p, F)
           n == Len(r.got)
<1>0. p \in Pvts /\ r \in Pvts /\ Sound(p, r) /\ Held(p, r.got)
  BY Zenon DEF Good, Sound
<1>1. Sound(q, r) /\ Grows(p, q)
  BY <1>0, RequeuedSound, Zenon
<1>a. p \in Pvts
  BY <1>0
<1>2. /\ q.iaxq = F /\ q.live = p.live /\ q.raced = p.raced /\ q.wrote = p.wrote
      /\ q.gone = p.gone /\ q.owner = p.owner /\ q.error = p.error
  BY <1>a, RequeuedFields, Zenon
<1> HIDE DEF q
<1>3. ASSUME p.live, Kept(p, n) PROVE Kept(q, n)
  <2>1. ASSUME NEW k \in (n + 1)..q.wrote PROVE \E g \in q.iaxq : g.id = k
    <3>1. PICK f \in p.iaxq : f.id = k
      BY <1>2, <1>3, Zenon DEF Kept
    <3>2. ~(f.id <= n)
      BY <1>0, <3>1, PvtTypes
    <3>3. ~(f.retries < 0)
      BY <1>3, <3>2, Zenon DEF Kept
    <3>4. QED BY <1>2, <1>3, <3>1, <3>3, Zenon
  <2>2. ASSUME NEW g \in q.iaxq, g.retries < 0 PROVE g.id <= n
    BY <1>2, <1>3, <2>2, Zenon DEF Kept
  <2>3. QED BY <2>1, <2>2, Zenon DEF Kept
<1>4. Held(q, r.got)
  BY <1>0, <1>2, <1>3, Zenon DEF Held
<1>5. QED BY <1>1, <1>4, Zenon DEF Fits, Good, q

\* A pass of the network thread over iaxq.
LEMMA PassStep ==
  ASSUME IaxInv, NEW e \in Ends, network_thread(e)
  PROVE  IaxInv'
<1> DEFINE p == iaxs[e]
           r == iaxs[Peer(e)]
           new == {f \in p.iaxq : ~f.sentyet}
           q == Requeued(p, Pass(p))
           out == IF p.live THEN Sent(p, {Packet(e, f) : f \in new}) ELSE {}
<1>1. iaxs \in [Ends -> Pvts] /\ Good(p, r) /\ Sound(p, r) /\ Own(p)
  BY GoodEnd
<1>2. p.pinging = NoPing
  BY Zenon DEF network_thread, Idle
<1>3. Step([iaxs EXCEPT ![e] = q], out, {})
  <2>1. Step([iaxs EXCEPT ![e].iaxq = Pass(p)], out, {})
    BY Zenon DEF network_thread, Pass
  <2>2. [iaxs EXCEPT ![e].iaxq = Pass(p)] = [iaxs EXCEPT ![e] = q]
    BY <1>1, Zenon DEF Requeued
  <2> HIDE DEF q, out
  <2>3. QED BY <2>1, <2>2, Zenon
<1>4. Fits(p, q, r)
  BY <1>1, <1>2, PassFrames, RequeuedGood, Zenon
<1>5. q \in Pvts /\ Grows(p, q)
  BY <1>4, Zenon DEF Fits, Good, Sound
<1> HIDE DEF q
<1>6. Out(out, e, q, r)
  <2>1. CASE p.live
    <3>1. new \subseteq p.iaxq
      BY SMTT(60)
    <3> HIDE DEF new
    <3>2. Out(Sent(p, {Packet(e, f) : f \in new}), e, q, r)
      BY <1>1, <1>5, <2>1, <3>1, FramesOut, Zenon
    <3>3. QED BY <2>1, <3>2
  <2>2. CASE ~p.live
    <3>1. out = {}
      BY <2>2
    <3>2. QED BY <3>1, Zenon DEF Out
  <2>3. QED BY <2>1, <2>2, Zenon
<1> HIDE DEF out
<1>7. QED BY <1>3, <1>4, <1>6, StepGood, Zenon

\* Queued frames are frames p had.
LEMMA QueueOld ==
  ASSUME NEW p, Own(p)
  PROVE  p.iaxq \subseteq Frames /\ \A f \in p.iaxq : Old(p, f)
<1>1. p.iaxq \subseteq Frames
  BY PvtTypes DEF Own
<1>2. QED BY <1>1, Zenon DEF Own, Old, Same, Stamped

\* A call that had an error.
LEMMA ErrorSound ==
  ASSUME NEW p, NEW r, Sound(p, r), NEW t \in BOOLEAN,
         NEW q, q = [p EXCEPT !.error = TRUE, !.told = t]
  PROVE  Sound(q, r) /\ Grows(p, q) /\ q.pinging = p.pinging /\ q.error
<1>0. p \in Pvts /\ Own(p)
  BY DEF Sound
<1>1. q \in Pvts /\ q.error
  BY <1>0, Zenon DEF Pvts
<1>2. /\ q.live = p.live /\ q.raced = p.raced /\ q.wrote = p.wrote /\ q.got = p.got
      /\ q.oseqno = p.oseqno /\ q.iseqno = p.iseqno
  BY <1>0 DEF Pvts
<1>3. /\ q.gone = p.gone /\ q.owner = p.owner /\ q.final = p.final /\ q.ping = p.ping
      /\ q.iaxq = p.iaxq /\ q.pinging = p.pinging /\ q.acked = p.acked
  BY <1>0 DEF Pvts
<1>4. SameNumbers(p, q) /\ FlagsAgree(q) /\ (q.gone /\ q.owner => q.pinging = NoPing)
  BY <1>0, <1>2, <1>3, Zenon DEF SameNumbers, FlagsAgree, Own
<1>5. Sound(q, r) /\ Grows(p, q)
  BY <1>1, <1>3, <1>4, UpdateFlags, Zenon
<1>6. QED BY <1>1, <1>3, <1>5

\* A call that ends in an error owes its peer nothing more.
LEMMA ErrorEnds ==
  ASSUME NEW p, NEW r, Sound(p, r), p.pinging = NoPing
  PROVE  Fits(p, Destroy([p EXCEPT !.error = TRUE]), r)
<1> DEFINE q == [p EXCEPT !.error = TRUE]
<1>0. p \in Pvts
  BY DEF Sound
<1>1. q = [p EXCEPT !.error = TRUE, !.told = p.told] /\ p.told \in BOOLEAN
  BY <1>0, Zenon DEF Pvts
<1>2. Sound(q, r) /\ Grows(p, q) /\ q.pinging = p.pinging
  BY <1>1, ErrorSound, Zenon
<1> HIDE DEF q
<1>3. Fits(q, Destroy(q), r)
  BY <1>2, DestroyGood
<1>4. QED BY <1>0, <1>2, <1>3, FitsOn DEF q

\* attempt_transmit gives up a frame.
LEMMA GiveUpGood ==
  ASSUME NEW p, NEW r, Sound(p, r), p.pinging = NoPing, NEW f
  PROVE  Fits(p, GiveUp(p, f), r)
<1> DEFINE F == p.iaxq \ {f}
           q == Requeued(p, F)
<1>0. p \in Pvts /\ Own(p)
  BY Zenon DEF Sound
<1>1. F \in SUBSET Frames /\ \A g \in F : Old(p, g)
  BY <1>0, QueueOld
<1>2. GiveUp(p, f) = IF f.kind = "hangup" THEN Destroy(q)
                     ELSE IF p.owner THEN [q EXCEPT !.error = TRUE, !.told = TRUE]
                     ELSE Destroy([q EXCEPT !.error = TRUE])
  BY Zenon DEF GiveUp, Requeued
<1> HIDE DEF F
<1>3. Sound(q, r) /\ Grows(p, q)
  BY <1>1, RequeuedSound
<1>4. q.pinging = NoPing
  BY <1>0, <1>1, RequeuedFields, Zenon
<1> HIDE DEF q
<1>5. Fits(q, Destroy(q), r) /\ Fits(q, Destroy([q EXCEPT !.error = TRUE]), r)
  BY <1>3, <1>4, DestroyGood, ErrorEnds
<1>6. Fits(q, [q EXCEPT !.error = TRUE, !.told = TRUE], r)
  <2> DEFINE s == [q EXCEPT !.error = TRUE, !.told = TRUE]
  <2>1. Sound(s, r) /\ Grows(q, s) /\ s.error
    BY <1>3, ErrorSound, Zenon
  <2> HIDE DEF s
  <2>2. Held(s, r.got)
    BY <2>1, Zenon DEF Held
  <2>3. QED BY <2>1, <2>2, Zenon DEF Fits, Good, s
<1>7. Fits(q, GiveUp(p, f), r)
  BY <1>2, <1>5, <1>6, Zenon
<1>8. QED BY <1>0, <1>3, <1>7, FitsOn

\* Frame f as attempt_transmit sends it again.
Again(p, f) == [f EXCEPT !.iseqno = p.iseqno, !.ack = Len(p.got), !.retries = @ + 1]

\* attempt_transmit repeats a frame.
LEMMA RetryGood ==
  ASSUME NEW p, NEW r, Good(p, r), p.pinging = NoPing, NEW f \in p.iaxq, f.sentyet,
         f.retries \in 0..(MaxRetries - 1)
  PROVE  Fits(p, Requeued(p, (p.iaxq \ {f}) \cup {Again(p, f)}), r)
<1> DEFINE g == Again(p, f)
           F == (p.iaxq \ {f}) \cup {g}
<1>0. p \in Pvts /\ Own(p)
  BY DEF Good, Sound
<1>1. p.iaxq \subseteq Frames /\ \A h \in p.iaxq : Old(p, h)
  BY <1>0, QueueOld
<1>2. g \in Frames /\ Same(f, g) /\ g.ack = Len(p.got) /\ g.iseqno = p.iseqno /\ g.sentyet /\ ~(g.retries < 0)
  <2> DEFINE k == f.retries + 1
             l == Len(p.got)
             i == p.iseqno
             h == [f EXCEPT !.iseqno = i, !.ack = l, !.retries = k]
  <2>1. k \in -1..MaxRetries /\ ~(k < 0) /\ l \in Nat /\ i \in SeqNo /\ f \in Frames
    BY <1>0, <1>1, EndsAssumption, PvtTypes, SMTT(60)
  <2> HIDE DEF k, l, i
  <2>2. h \in Frames /\ h.id = f.id /\ h.oseqno = f.oseqno /\ h.ack = l /\ h.iseqno = i
    BY <2>1, Zenon DEF Frames
  <2>3. h.sentyet = f.sentyet /\ h.retries = k
    BY <2>1, Zenon DEF Frames
  <2>4. g = h
    BY Zenon DEF Again, k, l, i
  <2> HIDE DEF g, h
  <2>5. QED BY <2>1, <2>2, <2>3, <2>4, Zenon DEF Same, l, i
<1> HIDE DEF g
<1>3. Old(p, g)
  BY <1>2, Zenon DEF Old, Stamped
<1>4. F \in SUBSET Frames /\ \A h \in F : Old(p, h)
  BY <1>1, <1>2, <1>3
<1>5. \A h \in F : h.retries < 0 => h \in p.iaxq
  BY <1>2, Zenon
<1>6. \A h \in p.iaxq : \E x \in F : x.id = h.id
  BY <1>2, Zenon DEF Same
<1> HIDE DEF F
<1>7. Fits(p, Requeued(p, F), r)
  BY <1>4, <1>5, <1>6, RequeuedGood
<1>8. QED BY <1>7 DEF F, g

\* attempt_transmit.
LEMMA TransmitStep ==
  ASSUME IaxInv, NEW e \in Ends, NEW f \in iaxs[e].iaxq, attempt_transmit(e, f)
  PROVE  IaxInv'
<1> DEFINE p == iaxs[e]
           r == iaxs[Peer(e)]
           F == p.iaxq \ {f}
           G == F \cup {Again(p, f)}
<1>1. iaxs \in [Ends -> Pvts] /\ Good(p, r) /\ Sound(p, r) /\ Own(p)
  BY GoodEnd
<1>2. /\ p.pinging = NoPing /\ f.sentyet
      /\ \/ /\ ~p.live \/ f.retries < 0
            /\ Step([iaxs EXCEPT ![e].iaxq = F], {}, {})
         \/ /\ p.live /\ f.retries >= MaxRetries
            /\ Step([iaxs EXCEPT ![e] = GiveUp(p, f)], {}, {})
         \/ /\ p.live /\ f.retries \in 0..(MaxRetries - 1)
            /\ Step([iaxs EXCEPT ![e].iaxq = G], Sent(p, {Packet(e, Again(p, f))}), {})
  BY Zenon DEF attempt_transmit, Idle, Again
<1>3. \A S : [iaxs EXCEPT ![e].iaxq = S] = [iaxs EXCEPT ![e] = Requeued(p, S)]
  BY <1>1, Zenon DEF Requeued
<1>4. CASE (~p.live \/ f.retries < 0) /\ Step([iaxs EXCEPT ![e] = Requeued(p, F)], {}, {})
  <2>1. F \in SUBSET Frames /\ \A g \in F : Old(p, g)
    BY <1>1, QueueOld
  <2>2. \A g \in F : g \in p.iaxq
    OBVIOUS
  <2>3. p.live => \A h \in p.iaxq : h.retries < 0 \/ \E g \in F : g.id = h.id
    BY <1>4, Zenon
  <2> HIDE DEF F
  <2>4. Fits(p, Requeued(p, F), r)
    BY <1>1, <1>2, <2>1, <2>2, <2>3, RequeuedGood, Zenon
  <2>5. QED BY <1>4, <2>4, QuietStep, Zenon
<1>5. CASE Step([iaxs EXCEPT ![e] = GiveUp(p, f)], {}, {})
  BY <1>1, <1>2, <1>5, GiveUpGood, QuietStep, Zenon
<1>6. CASE /\ p.live /\ f.retries \in 0..(MaxRetries - 1)
           /\ Step([iaxs EXCEPT ![e] = Requeued(p, G)], Sent(p, {Packet(e, Again(p, f))}), {})
  <2> DEFINE q == Requeued(p, G)
             A == {Again(p, f)}
  <2>1. Fits(p, q, r)
    BY <1>1, <1>2, <1>6, RetryGood, Zenon
  <2>2. q \in Pvts /\ Sound(q, r) /\ Grows(q, q)
    <3>1. q \in Pvts /\ Sound(q, r)
      BY <2>1, Zenon DEF Fits, Good, Sound
    <3>2. QED BY <3>1, GrowsSame
  <2>3. G \in SUBSET Frames
    BY <2>2, Zenon DEF Requeued, Pvts
  <2>4. p \in Pvts
    BY <1>1 DEF Own
  <2> HIDE DEF G
  <2>5. q.iaxq = G /\ q.live = p.live /\ q.error = p.error
    BY <2>3, <2>4, RequeuedFields, Zenon
  <2>6. A \subseteq G
    BY Zenon DEF G
  <2> HIDE DEF q
  <2>7. Out(Sent(q, {Packet(e, g) : g \in A}), e, q, r)
    BY <1>6, <2>2, <2>5, <2>6, FramesOut, Zenon
  <2>8. Sent(q, {Packet(e, g) : g \in A}) = Sent(p, {Packet(e, Again(p, f))})
    <3>1. {Packet(e, g) : g \in A} = {Packet(e, Again(p, f))}
      BY SMTT(60)
    <3>2. QED BY <2>5, <3>1, Zenon DEF Sent
  <2>9. QED BY <1>6, <2>1, <2>7, <2>8, StepGood, Zenon DEF q
<1>7. QED
  <2> HIDE DEF F, G
  <2>1. QED BY <1>2, <1>3, <1>4, <1>5, <1>6, Zenon

-----------------------------------------------------------------------------
(* The network thread: receiving *)

\* The invariant, seen from a packet.
LEMMA UnderWay ==
  ASSUME IaxInv, NEW e \in Ends, NEW m \in net, m.to = e
  PROVE  /\ m \in Packets /\ m.oseqno \in SeqNo /\ m.iseqno \in SeqNo
         /\ Travels(m, iaxs[Peer(e)], iaxs[e]) /\ Young(m, iaxs[Peer(e)], iaxs[e])
<1>1. m \in Packets /\ Travels(m, iaxs[Peer(e)], iaxs[e]) /\ Young(m, iaxs[Peer(e)], iaxs[e])
  BY Zenon DEF IaxInv
<1>2. QED BY <1>1 DEF Packets

\* What acknowledgements were sent is not looked at.
LEMMA AseqnoGood ==
  ASSUME NEW p, NEW r, Good(p, r)
  PROVE  Fits(p, [p EXCEPT !.aseqno = p.iseqno], r)
<1> DEFINE q == [p EXCEPT !.aseqno = p.iseqno]
<1>0. p \in Pvts /\ Own(p) /\ Sound(p, r) /\ Held(p, r.got)
  BY DEF Good, Sound
<1>a. p.iseqno \in SeqNo
  BY <1>0, PvtTypes
<1>1. q \in Pvts
  BY <1>0, <1>a, Zenon DEF Pvts
<1>2. /\ q.live = p.live /\ q.raced = p.raced /\ q.wrote = p.wrote /\ q.got = p.got
      /\ q.oseqno = p.oseqno /\ q.iseqno = p.iseqno
  BY <1>0 DEF Pvts
<1>3. /\ q.gone = p.gone /\ q.owner = p.owner /\ q.final = p.final /\ q.ping = p.ping
      /\ q.iaxq = p.iaxq /\ q.pinging = p.pinging /\ q.acked = p.acked /\ q.error = p.error
  BY <1>0 DEF Pvts
<1> HIDE DEF q
<1>4. SameNumbers(p, q) /\ FlagsAgree(q) /\ (q.gone /\ q.owner => q.pinging = NoPing)
  BY <1>0, <1>2, <1>3, Zenon DEF SameNumbers, FlagsAgree, Own
<1>5. Sound(q, r) /\ Grows(p, q)
  BY <1>0, <1>1, <1>3, <1>4, UpdateFlags, Zenon
<1>6. Held(q, r.got)
  BY <1>0, <1>2, <1>3, Zenon DEF Held, Kept
<1>7. QED BY <1>5, <1>6, Zenon DEF Fits, Good, q

\* socket_read of a frame that is not the expected one.
LEMMA OutOfOrderStep ==
  ASSUME IaxInv, NEW e \in Ends, NEW m \in net, m.to = e, NEW got, OutOfOrder(e, m, got)
  PROVE  IaxInv'
<1> DEFINE p == iaxs[e]
           r == iaxs[Peer(e)]
           q == [p EXCEPT !.aseqno = p.iseqno]
           c == IF p.iseqno > m.oseqno THEN Command(e, p, "ack", m.iseqno)
                                       ELSE Command(e, p, "vnak", p.iseqno)
<1>1. iaxs \in [Ends -> Pvts] /\ p \in Pvts /\ Good(p, r) /\ Sound(p, r)
  BY GoodEnd
<1>2. [iaxs EXCEPT ![e].aseqno = p.iseqno] = [iaxs EXCEPT ![e] = q]
  BY <1>1
<1>3. p.live /\ Step([iaxs EXCEPT ![e] = q], Sent(p, {c}), got)
  BY <1>2, Zenon DEF OutOfOrder
<1>4. Fits(p, q, r)
  BY <1>1, AseqnoGood
<1>5. q \in Pvts /\ Grows(p, q)
  BY <1>4, Zenon DEF Fits, Good, Sound
<1> HIDE DEF q
<1>6. p.iseqno \in SeqNo /\ m.iseqno \in SeqNo /\ "ack" \in {"ack", "vnak"} /\ "vnak" \in {"ack", "vnak"}
  BY <1>1, PvtTypes, UnderWay, Zenon
<1>7. /\ Out(Sent(p, {Command(e, p, "ack", m.iseqno)}), e, q, r)
      /\ Out(Sent(p, {Command(e, p, "vnak", p.iseqno)}), e, q, r)
  BY <1>1, <1>3, <1>5, <1>6, CommandOut
<1>8. Out(Sent(p, {c}), e, q, r)
  BY <1>7, Zenon
<1> HIDE DEF c
<1>9. QED BY <1>3, <1>4, <1>8, StepGood, Zenon

\* socket_read of a packet for a call that is gone.
LEMMA NoCallStep ==
  ASSUME IaxInv, NEW e \in Ends, NEW m, NEW got, NoCall(e, m, got)
  PROVE  IaxInv'
<1> DEFINE p == iaxs[e]
           r == iaxs[Peer(e)]
           i == Inval(e)
           out == IF m.kind = "inval" THEN {} ELSE {i}
<1>1. iaxs \in [Ends -> Pvts] /\ p \in Pvts /\ Good(p, r)
  BY GoodEnd
<1>2. iaxs = [iaxs EXCEPT ![e] = p]
  BY <1>1
<1>3. Step(iaxs, out, got)
  BY Zenon DEF NoCall
<1>4. Step([iaxs EXCEPT ![e] = p], out, got)
  BY <1>2, <1>3, Zenon
<1>5. Grows(p, p)
  BY <1>1, GrowsSame
<1>6. Fits(p, p, r)
  BY <1>1, <1>5, Zenon DEF Fits
<1>7. i \in Packets /\ i.to = Peer(e) /\ i.kind = "inval"
  BY PeerOf, Modulus DEF Inval, Packets, Commands
<1> HIDE DEF i
<1>8. Travels(i, p, r)
  <2>1. "inval" \notin Numbered
    BY DEF Numbered
  <2>2. QED BY <1>7, <2>1, Zenon DEF Travels
<1>9. out \subseteq {i}
  OBVIOUS
<1> HIDE DEF out
<1>10. Out(out, e, p, r)
  BY <1>7, <1>8, <1>9, Zenon DEF Out
<1>11. QED BY <1>4, <1>6, <1>10, StepGood, Zenon

\* The peer waits for few frames when its last packet is not too old.
LEMMA YoungWait ==
  ASSUME NEW p \in Pvts, NEW r \in Pvts, NEW m \in Packets, m.kind # "inval",
         Travels(m, r, p), Young(m, r, p), NEW q, q.wrote = p.wrote
  PROVE  FewWait(q, r)
<1>1. /\ p.wrote \in Nat /\ Len(r.got) \in Nat /\ m.ack \in Nat
      /\ SeqMod \in Nat /\ Lifetime = SeqMod - 1
  BY PvtTypes, Modulus DEF Packets
<1>2. m.ack <= Len(r.got) /\ p.wrote - m.ack <= Lifetime
  BY Zenon DEF Travels, Young
<1>3. p.wrote < Len(r.got) + SeqMod
  BY <1>1, <1>2
<1>4. QED BY <1>3, Zenon DEF FewWait

\* socket_read of the expected frame, or of an acknowledgement.
LEMMA InOrderStep ==
  ASSUME IaxInv, NEW e \in Ends, NEW m \in net, m.to = e, Idle(e), NEW got, InOrder(e, m, got)
  PROVE  IaxInv'
<1> DEFINE x == iaxs[e]
           r == iaxs[Peer(e)]
           p == Taken(x, m)
<1>1. iaxs \in [Ends -> Pvts] /\ x \in Pvts /\ r \in Pvts /\ Good(x, r) /\ Sound(x, r)
  BY GoodEnd
<1>2. /\ x.live /\ (m.kind \in Numbered => Expected(x, m))
      /\ \/ NothingMore(e, p, m, got)
         \/ Acked(e, p, m, got)
         \/ Pong(e, p, m, got)
         \/ Hangup(e, p, m, got)
         \/ Invalid(e, p, m, got)
         \/ Vnak(e, p, m, got)
  BY Zenon DEF InOrder
<1>3. m \in Packets /\ m.iseqno \in SeqNo /\ Travels(m, r, x) /\ Young(m, r, x)
  BY UnderWay, Zenon
<1>4. x.pinging = NoPing
  BY DEF Idle
<1>5. Fits(x, p, r) /\ p.pinging = NoPing /\ p.wrote = x.wrote
  BY <1>1, <1>2, <1>3, <1>4, TakenGood, Zenon
<1> HIDE DEF p
<1>6. p \in Pvts /\ Good(p, r) /\ Sound(p, r) /\ Grows(x, p)
  BY <1>5, Zenon DEF Fits, Good, Sound
<1>a. "ack" \in {"ack", "vnak"}
  OBVIOUS
<1>7. CASE NothingMore(e, p, m, got)
  BY <1>5, <1>7, QuietStep, Zenon DEF NothingMore
<1>8. CASE Acked(e, p, m, got)
  <2> DEFINE q == [p EXCEPT !.aseqno = p.iseqno]
  <2>1. Fits(p, q, r)
    BY <1>6, AseqnoGood
  <2>2. q \in Pvts /\ Grows(p, q)
    BY <2>1, Zenon DEF Fits, Good, Sound
  <2>3. p.live /\ Step([iaxs EXCEPT ![e] = q], AckDue(e, p, m), got)
    BY <1>8, Zenon DEF Acked
  <2> HIDE DEF q
  <2>4. Out(Sent(p, {Command(e, p, "ack", m.iseqno)}), e, q, r)
    BY <1>3, <1>6, <1>a, <2>2, <2>3, CommandOut, Zenon
  <2>5. Out(AckDue(e, p, m), e, q, r)
    BY <2>4, Zenon DEF AckDue, Out
  <2>6. Fits(x, q, r)
    BY <1>1, <1>6, <2>1, FitsOn, Zenon
  <2>7. QED BY <2>3, <2>5, <2>6, StepGood
<1>9. CASE Pong(e, p, m, got)
  <2>1. p.live /\ m.kind = "ping" /\ Room(p) /\ Step([iaxs EXCEPT ![e] = Queued(p, "pong", p.oseqno)], {}, got)
    BY <1>9, Zenon DEF Pong
  <2>2. m.kind # "inval" /\ "pong" \in Numbered
    BY <2>1, Zenon DEF Numbered
  <2>3. FewWait(p, r)
    BY <1>1, <1>3, <1>5, <2>2, YoungWait, Zenon
  <2>4. Fits(p, Queued(p, "pong", p.oseqno), r)
    BY <1>6, <2>1, <2>2, <2>3, QueuedGood, Zenon
  <2>5. Fits(x, Queued(p, "pong", p.oseqno), r)
    BY <1>1, <1>6, <2>4, FitsOn, Zenon
  <2>6. QED BY <2>1, <2>5, QuietStep
<1>10. CASE Hangup(e, p, m, got)
  <2>1. p.live /\ Step([iaxs EXCEPT ![e] = Destroy(p)], Sent(p, {Command(e, p, "ack", m.iseqno)}), got)
    BY <1>10, Zenon DEF Hangup
  <2>2. Fits(p, Destroy(p), r)
    BY <1>5, <1>6, DestroyGood
  <2>3. Destroy(p) \in Pvts /\ Grows(p, Destroy(p))
    BY <2>2, Zenon DEF Fits, Good, Sound
  <2>4. Out(Sent(p, {Command(e, p, "ack", m.iseqno)}), e, Destroy(p), r)
    BY <1>3, <1>6, <1>a, <2>1, <2>3, CommandOut, Zenon
  <2>5. Fits(x, Destroy(p), r)
    BY <1>1, <1>6, <2>2, FitsOn, Zenon
  <2>6. QED BY <2>1, <2>4, <2>5, StepGood
<1>11. CASE Invalid(e, p, m, got)
  <2> DEFINE q == Destroy([p EXCEPT !.error = TRUE])
  <2>1. Step([iaxs EXCEPT ![e] = q], {}, got)
    BY <1>11, Zenon DEF Invalid
  <2>2. Fits(p, q, r)
    BY <1>5, <1>6, ErrorEnds, Zenon
  <2> HIDE DEF q
  <2>3. Fits(x, q, r)
    BY <1>1, <1>6, <2>2, FitsOn
  <2>4. QED BY <2>1, <2>3, QuietStep
<1>12. CASE Vnak(e, p, m, got)
  <2> DEFINE F == {g \in p.iaxq : g.oseqno >= m.iseqno}
  <2>1. p.live /\ Step([iaxs EXCEPT ![e] = p], Sent(p, {Packet(e, f) : f \in F}), got)
    BY <1>12, Zenon DEF Vnak, VnakRetransmit
  <2>2. F \subseteq p.iaxq
    BY SMTT(60)
  <2>3. Grows(p, p)
    BY <1>6, GrowsSame, Zenon
  <2> HIDE DEF F
  <2>4. Out(Sent(p, {Packet(e, f) : f \in F}), e, p, r)
    BY <1>6, <2>1, <2>2, <2>3, FramesOut, Zenon
  <2>5. QED BY <1>5, <2>1, <2>4, StepGood
<1>13. QED BY <1>2, <1>7, <1>8, <1>9, <1>10, <1>11, <1>12, Zenon

-----------------------------------------------------------------------------
(* The theorems *)

\* The invariant holds at the start.
LEMMA IaxInit == Init => IaxInv
<1> SUFFICES ASSUME Init PROVE IaxInv
  OBVIOUS
<1> DEFINE p == [live |-> TRUE, gone |-> FALSE, owner |-> TRUE, told |-> FALSE,
                 error |-> FALSE, final |-> FALSE, oseqno |-> 1, iseqno |-> 1, rseqno |-> 1,
                 aseqno |-> 1, ping |-> TRUE, pinging |-> NoPing, iaxq |-> {}, wrote |-> 0,
                 got |-> <<>>, acked |-> {}, raced |-> FALSE]
<1>1. iaxs = [e \in Ends |-> p] /\ net = {}
  BY Zenon DEF Init
<1>2. 1 \in SeqNo /\ NoPing \in SeqNo \cup {NoPing} /\ <<>> \in Seq(Nat)
  BY Modulus, SMTT(60)
<1>3. p \in Pvts
  BY <1>2, Zenon DEF Pvts
<1>4. Len(p.got) = 0 /\ p.wrote = 0 /\ p.iaxq = {} /\ p.acked = {} /\ p.pinging = NoPing
  BY SMTT(60)
<1>5. ~p.final /\ ~p.gone /\ p.iseqno = 1 /\ p.oseqno = 1
  OBVIOUS
<1> HIDE DEF p
<1>6. Num(0 + 1) = 1
  <2>1. 1 = 0 * SeqMod + 1 /\ 1 \in 0..(SeqMod - 1) /\ 0 + 1 = 1
    BY Modulus
  <2>2. QED BY <2>1, Remainder DEF Num
<1>7. Own(p) /\ Sends(p)
  BY <1>3, <1>4, <1>5, <1>6, Zenon DEF Own, Sends
<1>8. Link(p, p.got)
  <2>1. 0 <= 0 /\ 1..0 = {} /\ (0 + 1)..0 = {} /\ 0 <= 0 + SeqMod
    BY Modulus
  <2>2. Counted(p, p.got) /\ Held(p, p.got)
    BY <1>4, <2>1, Zenon DEF Counted, Held, Kept
  <2>3. QED BY <2>2 DEF Link
<1>9. \A e \in Ends : iaxs[e] = p /\ iaxs[Peer(e)] = p
  BY <1>1, PeerOf
<1>10. iaxs \in [Ends -> Pvts] /\ net \subseteq Packets
  BY <1>1, <1>3
<1>11. QED BY <1>1, <1>7, <1>8, <1>9, <1>10, Zenon DEF IaxInv

\* Every step keeps it.
LEMMA IaxStep == IaxInv /\ [Next]_vars => IaxInv'
<1> SUFFICES ASSUME IaxInv, [Next]_vars PROVE IaxInv'
  OBVIOUS
<1>1. CASE UNCHANGED vars
  BY <1>1, Zenon DEF IaxInv, vars
<1>2. ASSUME NEW e \in Ends, Owner(e) \/ Timers(e) \/ Receive(e) PROVE IaxInv'
  <2>1. CASE Owner(e)
    BY <2>1, WriteStep, HangupStep, FinalStep, Zenon DEF Owner
  <2>2. CASE Timers(e)
    BY <2>2, SendPingStep, PingQueuedStep, PassStep, TransmitStep, Zenon DEF Timers
  <2>3. CASE Receive(e)
    <3>1. PICK m \in net : socket_read(e, m)
      BY <2>3, Zenon DEF Receive
    <3>2. m.to = e /\ Idle(e)
      BY <3>1, Zenon DEF socket_read
    <3>3. PICK got : NoCall(e, m, got) \/ OutOfOrder(e, m, got) \/ InOrder(e, m, got)
      BY <3>1, Zenon DEF socket_read
    <3>4. QED BY <3>2, <3>3, NoCallStep, OutOfOrderStep, InOrderStep, Zenon
  <2>4. QED BY <1>2, <2>1, <2>2, <2>3
<1>3. QED BY <1>1, <1>2, Zenon DEF Next

\* Both ends and every packet under way stay consistent, whatever is lost, repeated or reordered.
THEOREM IaxInvariant == Spec => []IaxInv
BY IaxInit, IaxStep, PTL DEF Spec

\* The numbers of both ends stay within a byte, and every packet under way is one that
\* iax2_send, send_command or raw_hangup can have sent, for every number of sequence
\* numbers, retries, frames and packets.
THEOREM IaxTypeCorrect == Spec => []TypeOK
<1>1. IaxInv => TypeOK
  BY Zenon DEF IaxInv, TypeOK
<1>2. QED BY <1>1, IaxInvariant, PTL

\* The frames an end accepts are those of its peer, each once and in order, however
\* often the numbers wrap and whatever the network loses, repeats or reorders, unless
\* send_ping took a number that was taken.
THEOREM DeliveredInOrderCorrect == Spec => []DeliveredInOrder
<1>1. IaxInv => DeliveredInOrder
  <2>1. ASSUME IaxInv, NEW e \in Ends PROVE Link(iaxs[Peer(e)], iaxs[e].got)
    BY <2>1, PeerOf, Zenon DEF IaxInv
  <2>2. QED BY <2>1, Zenon DEF DeliveredInOrder, Link, Counted
<1>2. QED BY <1>1, IaxInvariant, PTL

\* An acknowledgement cancels the retransmission of those frames only that the peer
\* has accepted, however late, often or out of order it comes.
THEOREM AckedWasReceivedCorrect == Spec => []AckedWasReceived
<1>1. IaxInv => AckedWasReceived
  BY Zenon DEF IaxInv, Link, Counted, AckedWasReceived
<1>2. QED BY <1>1, IaxInvariant, PTL

=============================================================================
