------------------------------ MODULE IaxCall ------------------------------
(***************************************************************************)
(* One established IAX2 call (channels/iax2/chan_iax2.c), both ends of it: *)
(* the reliable delivery of full frames over UDP (oseqno, iseqno, rseqno,  *)
(* aseqno, the transmit queue iaxq, ACK, VNAK, retransmission and giving   *)
(* up), the timer that pings, and the end of the call (HANGUP, INVAL,      *)
(* ALREADYGONE, the owner's iax2_hangup and iax2_destroy).                 *)
(*                                                                         *)
(* Each end is a process of its own: its network thread receives, sends    *)
(* what is queued and runs timers; the owner, the thread of the channel,   *)
(* writes and hangs up. A region under iaxsl[callno] is one step. send_ping*)
(* is called without that lock, so it takes two.                           *)
(* The network loses, duplicates and reorders packets.                     *)
(* LAGRQ and LAGRP travel as PING and PONG do and are not told apart from  *)
(* them. Call set-up, authentication, transfer and mini frames (which are  *)
(* neither numbered nor repeated) are left out. iaxq is a set here: every  *)
(* frame has a number and timer of its own, so that nothing depends on the *)
(* order of the list.                                                      *)
(***************************************************************************)
EXTENDS Integers, Sequences, FiniteSets

CONSTANTS
  Ends,        \* the two ends of the call
  SeqMod,      \* 256: sequence numbers are of type unsigned char
  MaxRetries,  \* max_retries, 4
  Writers,     \* ends whose owner writes frames
  Leavers,     \* ends whose owner hangs up of its own accord
  Pingers,     \* ends whose ping timer fires
  MaxFrames,   \* bound: numbered frames each end sends, answers to pings apart
  MaxNet       \* bound: packets under way at a time; further ones are lost

ASSUME EndsAssumption ==
  /\ \E a, b \in Ends : a # b /\ Ends = {a, b}
  /\ Writers \subseteq Ends /\ Leavers \subseteq Ends /\ Pingers \subseteq Ends
  /\ SeqMod \in Nat \ {0, 1} /\ MaxRetries \in Nat \ {0}
  /\ MaxFrames \in [Ends -> Nat] /\ MaxNet \in Nat

VARIABLES
  iaxs,  \* per end: the struct chan_iax2_pvt and the frames it has in iaxq
  net    \* packets under way

vars == <<iaxs, net>>

Peer(e) == CHOOSE p \in Ends : p # e

\* Frames with a number of their own, and the commands that borrow one.
Numbered == {"data", "ping", "pong", "hangup"}
Commands == {"ack", "vnak", "inval"}

SeqNo == 0..SeqMod - 1
NoPing == SeqMod

\* How far sequence number n is ahead of m.
Ahead(n, m) == (n - m) % SeqMod

\* oseqno++ and iseqno++ on a byte, and on an int.
NextSeqInt(n) == n + 1

NextSeq(n) == (n + 1) % SeqMod

\* A frame in iaxq. id counts the frames of its sender, and ack those received
\* when iseqno was filled in: the code sees both only modulo SeqMod.
Frames == [kind : Numbered, id : Nat, oseqno : SeqNo, ack : Nat, iseqno : SeqNo,
           retries : -1..MaxRetries, sentyet : BOOLEAN]

\* A struct chan_iax2_pvt: live is iaxs[callno] # NULL, gone IAX_ALREADYGONE, told
\* that the owner has been given a HANGUP, final that iax2_hangup has yet to send its
\* HANGUP, ping that the ping timer is scheduled, pinging the number send_ping has
\* read from oseqno and not yet stored back.
\* wrote, got, acked and raced are history: the frames numbered here, those accepted
\* from the peer, those whose retransmission an acknowledgement cancelled, and
\* that send_ping used a number another thread had taken meanwhile.
Pvts == [live : BOOLEAN, gone : BOOLEAN, owner : BOOLEAN, told : BOOLEAN,
         error : BOOLEAN, final : BOOLEAN, oseqno : SeqNo, iseqno : SeqNo, rseqno : SeqNo,
         aseqno : SeqNo, ping : BOOLEAN, pinging : SeqNo \cup {NoPing},
         iaxq : SUBSET Frames, wrote : Nat, got : Seq(Nat), acked : SUBSET Nat,
         raced : BOOLEAN]

Packets == [to : Ends, kind : Numbered \cup Commands, id : Nat, oseqno : SeqNo,
            ack : Nat, iseqno : SeqNo]

\* The numbers stay within a byte, and what is queued or under way was sent.
TypeOK ==
  /\ iaxs \in [Ends -> Pvts]
  /\ net \subseteq Packets

\* After the NEW of one end and the ACCEPT of the other, both acknowledged.
Init ==
  /\ iaxs = [e \in Ends |->
       [live |-> TRUE, gone |-> FALSE, owner |-> TRUE, told |-> FALSE,
        error |-> FALSE, final |-> FALSE, oseqno |-> 1, iseqno |-> 1, rseqno |-> 1,
        aseqno |-> 1, ping |-> TRUE, pinging |-> NoPing, iaxq |-> {}, wrote |-> 0,
        got |-> <<>>, acked |-> {}, raced |-> FALSE]]
  /\ net = {}

-----------------------------------------------------------------------------
(* Sending *)

\* send_packet: nothing is sent once the call had an error.
Sent(p, out) == IF p.error THEN {} ELSE out

\* A queued frame as it goes out.
Packet(e, f) ==
  [to |-> Peer(e), kind |-> f.kind, id |-> f.id, oseqno |-> f.oseqno,
   ack |-> f.ack, iseqno |-> f.iseqno]

\* send_command_immediate: a command with a borrowed number, never repeated.
Command(e, p, kind, seqno) ==
  [to |-> Peer(e), kind |-> kind, id |-> 0, oseqno |-> seqno,
   ack |-> Len(p.got), iseqno |-> p.iseqno]

\* raw_hangup, for a call that does not exist.
Inval(e) ==
  [to |-> Peer(e), kind |-> "inval", id |-> 0, oseqno |-> 0, ack |-> 0, iseqno |-> 0]

\* iax2_send and iax2_transmit of a frame that takes number o.
Queued(p, kind, o) ==
  [p EXCEPT !.oseqno = NextSeq(o),
            !.aseqno = p.iseqno,
            !.wrote  = @ + 1,
            !.iaxq   = @ \cup {[kind |-> kind, id |-> p.wrote + 1, oseqno |-> o,
                                 ack |-> Len(p.got), iseqno |-> p.iseqno,
                                 retries |-> 0, sentyet |-> FALSE]}]

\* Neither a frame in iaxq nor a packet in the network is SeqMod - 1 frames old:
\* a frame is retried for some 20 s, and 255 full frames take longer than that. Nor
\* does an end that has missed a frame of its peer for as long still send.
Lifetime == SeqMod - 1

Room(p) == \A f \in p.iaxq : p.wrote + 1 - f.id < Lifetime

Expired(m, s) ==
  \/ m.kind \in Numbered /\ s[Peer(m.to)].wrote - m.id >= Lifetime
  \/ m.kind # "inval" /\ s[m.to].wrote - m.ack > Lifetime

\* The pvts become s and packets out are sent; any of them may be lost. got is
\* what the step received from the network.
Step(s, out, got) ==
  /\ iaxs' = s
  /\ \E arrive \in SUBSET out :
       LET n == {m \in (net \ got) \cup arrive : ~Expired(m, s)}
       IN /\ arrive \subseteq net \/ Cardinality(n) <= MaxNet
          /\ net' = n

-----------------------------------------------------------------------------
(* The end of a call *)

Cancelled(q, ids) ==
  {IF f.id \in ids THEN [f EXCEPT !.retries = -1] ELSE f : f \in q}

\* iax2_predestroy: no more timers, and the owner is let go.
Predestroy(p) == [p EXCEPT !.gone = TRUE, !.ping = FALSE, !.owner = FALSE]

\* free(pvt): nothing of it is left but what is still in iaxq.
Free(p) ==
  [p EXCEPT !.live = FALSE, !.told = FALSE, !.error = FALSE, !.oseqno = 0,
            !.iseqno = 0, !.rseqno = 0, !.aseqno = 0]

\* iax2_destroy: with an owner the call stays, for the owner to hang it up.
Destroy(p) ==
  LET q == [p EXCEPT !.gone = TRUE, !.ping = FALSE, !.iaxq = Cancelled(@, 1..p.wrote)]
  IN IF p.owner THEN [q EXCEPT !.told = TRUE] ELSE Free(q)

\* iax2_hangup: the owner hangs up, of its own accord or because it was told to.
\* send_command_final gives the lock up around iax2_predestroy.
iax2_hangup(e) ==
  LET p == iaxs[e] IN
  /\ p.owner /\ (e \in Leavers \/ p.told)
  /\ Step([iaxs EXCEPT ![e] =
             IF p.gone THEN Destroy(Predestroy(p))
                       ELSE [Predestroy(p) EXCEPT !.final = ~p.error]], {}, {})

\* send_command_final once it has the lock again. Meanwhile the network thread may have
\* freed the pvt: what is then written to it and queued is lost.
send_command_final(e) ==
  LET p == [iaxs[e] EXCEPT !.final = FALSE] IN
  /\ iaxs[e].final /\ (p.live => Room(p))
  /\ Step([iaxs EXCEPT ![e] = IF p.live THEN Queued(p, "hangup", p.oseqno) ELSE p], {}, {})

\* iax2_write, and the other calls of the owner that send a full frame.
iax2_write(e) ==
  LET p == iaxs[e] IN
  /\ p.owner /\ ~p.gone /\ ~p.error
  /\ e \in Writers /\ p.wrote < MaxFrames[e] /\ Room(p)
  /\ Step([iaxs EXCEPT ![e] = Queued(p, "data", p.oseqno)], {}, {})

\* Bound: pings beyond MaxFrames only to find out that the peer has left.
MayPing(e) ==
  \/ iaxs[e].wrote < MaxFrames[e]
  \/ /\ ~iaxs[Peer(e)].live \/ iaxs[Peer(e)].error
     /\ ~iaxs[e].error /\ iaxs[e].iaxq = {}

\* send_ping, first half: oseqno is read, without iaxsl[callno].
send_ping(e) ==
  LET p == iaxs[e] IN
  /\ p.live /\ p.ping /\ p.pinging = NoPing
  /\ e \in Pingers /\ MayPing(e) /\ Room(p)
  /\ Step([iaxs EXCEPT ![e].pinging = p.oseqno], {}, {})

\* Mutant: the timer is not scheduled again.
PingOnce(e) ==
  LET p == iaxs[e] IN
  /\ p.pinging # NoPing
  /\ Step([iaxs EXCEPT ![e] = [Queued(p, "ping", p.pinging)
                                EXCEPT !.pinging = NoPing, !.ping = FALSE,
                                       !.raced = @ \/ p.pinging # p.oseqno]], {}, {})

\* send_ping, second half: oseqno is stored and the frame is queued. The timer is
\* scheduled again, also when it was deleted in between.
PingQueued(e) ==
  LET p == iaxs[e] IN
  /\ p.pinging # NoPing
  /\ Step([iaxs EXCEPT ![e] = [Queued(p, "ping", p.pinging)
                                EXCEPT !.pinging = NoPing, !.ping = TRUE,
                                       !.raced = @ \/ p.pinging # p.oseqno]], {}, {})

-----------------------------------------------------------------------------
(* The network thread *)

Idle(e) == iaxs[e].pinging = NoPing

\* One pass over iaxq: what was not sent yet is sent. A frame cancelled meanwhile
\* is sent once too, and freed.
network_thread(e) ==
  LET p    == iaxs[e]
      new  == {f \in p.iaxq : ~f.sentyet}
      sent == {[f EXCEPT !.sentyet = TRUE, !.retries = @ + 1] : f \in {g \in new : g.retries >= 0}}
  IN /\ Idle(e) /\ new # {}
     /\ Step([iaxs EXCEPT ![e].iaxq = (@ \ new) \cup sent],
             IF p.live THEN Sent(p, {Packet(e, f) : f \in new}) ELSE {}, {})

\* Mutant: nobody is told.
GiveUpSilently(p, f) == [p EXCEPT !.error = TRUE, !.iaxq = @ \ {f}]

\* attempt_transmit gives frame f up: the call ends if that was its last frame or
\* it has no owner, else the owner is told.
GiveUp(p, f) ==
  LET q == [p EXCEPT !.iaxq = @ \ {f}]
  IN IF f.kind = "hangup" THEN Destroy(q)
     ELSE IF p.owner THEN [q EXCEPT !.error = TRUE, !.told = TRUE]
     ELSE Destroy([q EXCEPT !.error = TRUE])

\* attempt_transmit, when the retransmission timer of frame f fires.
attempt_transmit(e, f) ==
  LET p == iaxs[e]
      again == [f EXCEPT !.iseqno = p.iseqno, !.ack = Len(p.got), !.retries = @ + 1]
  IN /\ Idle(e) /\ f.sentyet
     /\ \/ /\ ~p.live \/ f.retries < 0
           /\ Step([iaxs EXCEPT ![e].iaxq = @ \ {f}], {}, {})
        \/ /\ p.live /\ f.retries >= MaxRetries
           /\ Step([iaxs EXCEPT ![e] = GiveUp(p, f)], {}, {})
        \/ /\ p.live /\ f.retries \in 0..MaxRetries - 1
           /\ Step([iaxs EXCEPT ![e].iaxq = (@ \ {f}) \cup {again}],
                   Sent(p, {Packet(e, again)}), {})

\* Mutant: any acknowledgement is believed.
AnyAck(p, n) == TRUE

\* The acknowledgement n is within the window of what is outstanding.
InWindow(p, n) == Ahead(n, p.rseqno) <= Ahead(p.oseqno, p.rseqno)

\* Everything before n is acknowledged. The call ends with its last frame.
Acknowledged(p, n) ==
  LET done == {f \in p.iaxq : Ahead(f.oseqno, p.rseqno) < Ahead(n, p.rseqno)}
      ids  == {f.id : f \in done}
      q    == [p EXCEPT !.iaxq = Cancelled(@, ids), !.acked = @ \cup ids]
  IN IF \E f \in done : f.kind = "hangup"
       THEN Destroy(q)
       ELSE [q EXCEPT !.rseqno = n]

\* socket_read takes packet m: the number it expects next is counted, and what m
\* acknowledges is cancelled.
Taken(p, m) ==
  LET q == IF m.kind \in Numbered
             THEN [p EXCEPT !.iseqno = NextSeq(@), !.got = Append(@, m.id)]
             ELSE p
  IN IF m.kind # "inval" /\ InWindow(q, m.iseqno) THEN Acknowledged(q, m.iseqno) ELSE q

\* An ACK, unless some frame has acknowledged as much already.
AckDue(e, p, m) ==
  IF p.aseqno = p.iseqno THEN {} ELSE Sent(p, {Command(e, p, "ack", m.iseqno)})

\* vnak_retransmit: what is queued from number last on, as it was sent before.
VnakRetransmit(e, p, last) ==
  Sent(p, {Packet(e, f) : f \in {g \in p.iaxq : g.oseqno >= last}})

\* Mutant: a gap is not noticed.
NotSeen(p, m) == m.oseqno >= p.iseqno

\* The frame is the next one.
Expected(p, m) == p.iseqno = m.oseqno

\* Out of order: seen before, or ahead of what is missing. The comparison is that
\* of the two bytes.
OutOfOrder(e, m, got) ==
  LET p == iaxs[e] IN
  /\ p.live /\ m.kind \in Numbered /\ ~Expected(p, m)
  /\ Step([iaxs EXCEPT ![e].aseqno = p.iseqno],
          Sent(p, {IF p.iseqno > m.oseqno
                     THEN Command(e, p, "ack", m.iseqno)
                     ELSE Command(e, p, "vnak", p.iseqno)}), got)

\* What the switch over the frame's subclass does at end e, whose pvt is p after m
\* was taken. An ACK, or the end of the call, leaves nothing to do.
NothingMore(e, p, m, got) ==
  /\ ~p.live \/ m.kind = "ack"
  /\ Step([iaxs EXCEPT ![e] = p], {}, got)

Acked(e, p, m, got) ==
  /\ p.live /\ m.kind \in {"data", "pong"}
  /\ Step([iaxs EXCEPT ![e] = [p EXCEPT !.aseqno = p.iseqno]], AckDue(e, p, m), got)

Pong(e, p, m, got) ==
  /\ p.live /\ m.kind = "ping" /\ Room(p)
  /\ Step([iaxs EXCEPT ![e] = Queued(p, "pong", p.oseqno)], {}, got)

Hangup(e, p, m, got) ==
  /\ p.live /\ m.kind = "hangup"
  /\ Step([iaxs EXCEPT ![e] = Destroy(p)], Sent(p, {Command(e, p, "ack", m.iseqno)}), got)

Invalid(e, p, m, got) ==
  /\ p.live /\ m.kind = "inval"
  /\ Step([iaxs EXCEPT ![e] = Destroy([p EXCEPT !.error = TRUE])], {}, got)

Vnak(e, p, m, got) ==
  /\ p.live /\ m.kind = "vnak"
  /\ Step([iaxs EXCEPT ![e] = p], VnakRetransmit(e, p, m.iseqno), got)

\* In order, or a command.
InOrder(e, m, got) ==
  LET p == Taken(iaxs[e], m) IN
  /\ iaxs[e].live /\ (m.kind \in Numbered => Expected(iaxs[e], m))
  /\ \/ NothingMore(e, p, m, got)
     \/ Acked(e, p, m, got)
     \/ Pong(e, p, m, got)
     \/ Hangup(e, p, m, got)
     \/ Invalid(e, p, m, got)
     \/ Vnak(e, p, m, got)

\* No such call: an INVAL is the answer to anything but an INVAL.
NoCall(e, m, got) ==
  /\ ~iaxs[e].live
  /\ Step(iaxs, IF m.kind = "inval" THEN {} ELSE {Inval(e)}, got)

\* socket_read; a packet that stays in the network is a duplicate.
socket_read(e, m) ==
  /\ m.to = e /\ Idle(e)
  /\ \E got \in {{}, {m}} :
       NoCall(e, m, got) \/ OutOfOrder(e, m, got) \/ InOrder(e, m, got)

-----------------------------------------------------------------------------
Owner(e) == iax2_write(e) \/ iax2_hangup(e) \/ send_command_final(e)

Timers(e) ==
  \/ send_ping(e)
  \/ PingQueued(e)
  \/ network_thread(e)
  \/ \E f \in iaxs[e].iaxq : attempt_transmit(e, f)

Receive(e) == \E m \in net : socket_read(e, m)

Next == \E e \in Ends : Owner(e) \/ Timers(e) \/ Receive(e)

Spec == Init /\ [][Next]_vars

\* The network thread of each end goes on (of its steps, those that need nothing from
\* the network), an owner that was told of the hangup hangs up, and iax2_hangup returns.
Fairness ==
  \A e \in Ends :
    /\ WF_vars(Timers(e))
    /\ WF_vars(send_command_final(e) \/ (iaxs[e].told /\ iax2_hangup(e)))

FairSpec == Spec /\ Fairness

-----------------------------------------------------------------------------
(* Properties *)

\* The frames an end accepts are those its peer numbered, each once and in order
\* (socket_read compares oseqno with iseqno), whatever the network does and although
\* the numbers wrap. Not so once send_ping, which does not lock the call, gave two
\* frames one number: the peer takes the second for a duplicate.
DeliveredInOrder ==
  \A e \in Ends :
    ~iaxs[Peer(e)].raced => \A i \in 1..Len(iaxs[e].got) : iaxs[e].got[i] = i

\* Retransmission of a frame is cancelled by an acknowledgement only if the peer has
\* accepted the frame: a late, duplicated or stale iseqno never acknowledges too much. Of two frames with
\* one number, the lost one is acknowledged too.
AckedWasReceived ==
  \A e \in Ends : ~iaxs[e].raced => iaxs[e].acked \subseteq 1..Len(iaxs[Peer(e)].got)

\* What was given to iax2_send is accepted by the peer in the end, or the sender's
\* channel is hung up: retransmission never just stops. Excepted is a sender two of whose frames share
\* a number.
DeliveredOrHungUp ==
  \A e \in Ends :
    []<>(\/ Len(iaxs[Peer(e)].got) >= iaxs[e].wrote
         \/ ~iaxs[e].owner
         \/ iaxs[e].raced)

\* When one end has hung up, the channel of the other is hung up in the end, although
\* every HANGUP and INVAL may be lost: its pings are not answered any more.
BothHangUp ==
  \A e \in Pingers : ~iaxs[Peer(e)].owner ~> ~iaxs[e].owner

=============================================================================
