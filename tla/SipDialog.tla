----------------------------- MODULE SipDialog -----------------------------
(***************************************************************************)
(* One SIP call of src/channels/chan_sip.c: the sip_pvt of a call we place *)
(* (SIP_OUTGOING) or receive, from its first INVITE until the pvt is freed.*)
(*                                                                         *)
(* Three threads share it.  The channel's owner calls sip_call, sip_answer *)
(* and sip_hangup; do_monitor reads the socket (handle_request), runs the  *)
(* timers (retrans_pkt, __sip_autodestruct, auto_congest) and frees pvts   *)
(* marked SIP_NEEDDESTROY.  Each handler holds p->lock while it works on   *)
(* the pvt, so each is one step here.  retrans_pkt is two: out of tries it *)
(* lets go of p->lock while it waits for the owner's lock, and meanwhile   *)
(* the owner may hang up and free the very packet that timed out; only the *)
(* monitor's own work waits with it.                                       *)
(*                                                                         *)
(* The peer is external.  UDP may lose, duplicate, delay and reorder: what *)
(* each side sent stays deliverable for ever and need never be delivered.  *)
(*                                                                         *)
(* Left out: re-INVITEs, REFER, SDP and media, and the ACKs we send        *)
(* (nothing here waits for them).                                          *)
(***************************************************************************)
EXTENDS Naturals, Sequences

CONSTANTS
    MaxTimer,    \* transmissions of a packet before retrans_pkt gives up
    MaxAuth,     \* MAX_AUTHTRIES
    MaxInvites,  \* bound on our numbers: a later request is not challenged
    MaxPackets   \* bound on p->packets when a repeated INVITE adds to it

ASSUME SipBounds == MaxTimer \in Nat /\ MaxAuth \in Nat /\ MaxInvites \in Nat \ {0} /\ MaxPackets \in Nat

VARIABLES
    p,           \* the sip_pvt, what it put on the wire, and history
    wire         \* every message the peer sent but provisional responses

vars == <<p, wire>>

\* 180 stands for 183 also, 182 for the 1xx without a case of their own, and 486
\* for the 3xx to 6xx without one.
Provisional == {100, 180, 182}
Refused == {401, 403, 404, 407, 486, 487, 491, 501}
Final == {200} \union Refused

\* A message: a request has code 0, a response carries its request's method.
Msg(meth, n, code) == [meth |-> meth, n |-> n, code |-> code]

(***************************************************************************)
(* Reliable transmission.                                                  *)
(***************************************************************************)

\* __sip_reliable_xmit: the packet is linked first and its timer armed; an
\* INVITE becomes the pending one.
__sip_reliable_xmit(q, m, fatal) ==
    [q EXCEPT !.packets = <<[msg |-> m, fatal |-> fatal, armed |-> TRUE, tries |-> 0]>> \o @,
              !.sent = @ \union {m},
              !.pendinginvite = IF m.meth = "INVITE" /\ m.code = 0 THEN m.n ELSE @]

\* reqprep with seqno 0: a request in the dialog takes the next number.
InDialog(q, meth, fatal) ==
    LET r == [q EXCEPT !.ocseq = @ + 1]
    IN  __sip_reliable_xmit(r, Msg(meth, r.ocseq, 0), fatal)

\* Mutant: the INVITE may be lost without consequence.
transmit_invite_NotFatal(q) == __sip_reliable_xmit(q, Msg("INVITE", q.ocseq, 0), FALSE)

\* transmit_invite: `init' makes the packet FATAL (send_request reliable 2).
transmit_invite(q) == __sip_reliable_xmit(q, Msg("INVITE", q.ocseq, 0), TRUE)

\* What an incoming message with this method and number acknowledges: the
\* most recently linked packet that matches.
Matches(pkt, n, resp, meth) ==
    /\ pkt.msg.n = n
    /\ resp <=> pkt.msg.code # 0
    /\ resp \/ pkt.msg.meth = meth

Matching(q, n, resp, meth) ==
    {i \in DOMAIN q.packets : Matches(q.packets[i], n, resp, meth)}

FirstOf(S) == CHOOSE i \in S : \A j \in S : i <= j

Unlink(q, i) ==
    [q EXCEPT !.packets = SubSeq(@, 1, i - 1) \o SubSeq(@, i + 1, Len(@))]

__sip_ack(q, n, resp, meth) ==
    LET S == Matching(q, n, resp, meth)
        r == Unlink(q, FirstOf(S))
    IN  IF S = {} THEN q
        ELSE IF ~resp /\ n = q.pendinginvite THEN [r EXCEPT !.pendinginvite = 0]
        ELSE r

\* __sip_semi_ack: a provisional response stops the timer, the packet stays.
__sip_semi_ack(q, n, meth) ==
    LET S == Matching(q, n, FALSE, meth)
    IN  IF S = {} THEN q ELSE [q EXCEPT !.packets[FirstOf(S)].armed = FALSE]

\* __sip_pretend_ack: every packet is acknowledged.
__sip_pretend_ack(q) ==
    LET pending == \E i \in DOMAIN q.packets :
                      q.packets[i].msg.code = 0 /\ q.packets[i].msg.n = q.pendinginvite
    IN  [q EXCEPT !.packets = <<>>, !.pendinginvite = IF pending THEN 0 ELSE @]

(***************************************************************************)
(* Ending a dialog.                                                        *)
(***************************************************************************)

sip_scheddestroy(q) == [q EXCEPT !.autokillid = TRUE]
sip_cancel_destroy(q) == [q EXCEPT !.autokillid = FALSE]

\* cw_queue_hangup, or cw_queue_control of BUSY or CONGESTION, on p->owner.
Tell(q) == [q EXCEPT !.told = @ \/ q.owner # "none"]

\* The owner is told; a pvt without one is left to do_monitor.
TellOrDestroy(q) == [Tell(q) EXCEPT !.needdestroy = @ \/ q.owner = "none"]

\* __sip_destroy: the pvt with its packets and timers.
__sip_destroy(q) ==
    [q EXCEPT !.live = FALSE, !.packets = <<>>, !.autokillid = FALSE, !.initid = FALSE]

\* Mutant: the destruction the provisional response cancelled is not renewed.
check_pendings_NoTimer(q) ==
    IF ~q.pendingbye THEN q
    ELSE LET r == IF q.canbye THEN InDialog(q, "BYE", FALSE)
                  ELSE __sip_reliable_xmit(q, Msg("CANCEL", q.ocseq, 0), FALSE)
         IN  [r EXCEPT !.pendingbye = FALSE]

\* check_pendings: the BYE (or CANCEL) that sip_hangup had to put off.
check_pendings(q) ==
    IF ~q.pendingbye THEN q
    ELSE LET r == IF q.canbye THEN InDialog(q, "BYE", FALSE)
                  ELSE __sip_reliable_xmit(q, Msg("CANCEL", q.ocseq, 0), FALSE)
         IN  sip_scheddestroy([r EXCEPT !.pendingbye = FALSE])

(***************************************************************************)
(* The owner's operations.                                                 *)
(***************************************************************************)

\* A call about to be placed, and one whose first INVITE was accepted: its
\* channel is in state RING and runs the PBX, the INVITE awaits our answer.
Placed ==
    [live |-> TRUE, outgoing |-> TRUE, owner |-> "early", answer |-> FALSE, told |-> FALSE,
     gone |-> FALSE, needdestroy |-> FALSE, pendingbye |-> FALSE, canbye |-> FALSE,
     pendinginvite |-> 0, ocseq |-> 1, icseq |-> 0, authtries |-> 0,
     autokillid |-> FALSE, initid |-> FALSE, packets |-> <<>>, sent |-> {},
     locking |-> {}, established |-> FALSE, crossed |-> FALSE, moved |-> FALSE,
     late |-> FALSE, heard |-> {}]

Received ==
    [Placed EXCEPT !.outgoing = FALSE, !.pendinginvite = 1, !.icseq = 1]

\* sip_call: the INVITE, and a timer to congest the call if the peer has one.
sip_call ==
    /\ p.live /\ p.outgoing /\ p.owner = "early" /\ p.sent = {}
    /\ \E maxtime \in BOOLEAN : p' = [transmit_invite(p) EXCEPT !.initid = maxtime]
    /\ UNCHANGED wire

\* The owner reads the ANSWER frame: its channel goes up.
ReadAnswer ==
    /\ p.owner = "early" /\ p.answer
    /\ p' = [p EXCEPT !.owner = "up", !.answer = FALSE]
    /\ UNCHANGED wire

\* sip_answer: a received call goes up, the 200 is sent until it is ACKed.
sip_answer ==
    /\ p.live /\ ~p.outgoing /\ p.owner = "early"
    /\ p' = __sip_reliable_xmit([p EXCEPT !.owner = "up"], Msg("INVITE", 1, 200), TRUE)
    /\ UNCHANGED wire

\* Mutant: CANCEL without waiting for a response to the INVITE.
Disconnect_Cancel(q, state) ==
    IF state # "up"
    THEN IF q.outgoing
         THEN __sip_reliable_xmit(__sip_pretend_ack(q), Msg("CANCEL", q.ocseq, 0), FALSE)
         ELSE __sip_reliable_xmit(q, Msg("INVITE", 1, 603), TRUE)
    ELSE IF q.pendinginvite = 0 THEN InDialog(q, "BYE", FALSE)
         ELSE [q EXCEPT !.pendingbye = TRUE]

\* sip_hangup: CANCEL or final response before the call is up, BYE after.
Disconnect(q, state) ==
    IF state # "up"
    THEN IF q.outgoing
         THEN LET r == __sip_pretend_ack(q)
              IN  IF r.canbye
                  THEN __sip_reliable_xmit(r, Msg("CANCEL", r.ocseq, 0), FALSE)
                  ELSE [r EXCEPT !.pendingbye = TRUE]
         ELSE __sip_reliable_xmit(q, Msg("INVITE", 1, 603), TRUE)
    ELSE IF q.pendinginvite = 0 THEN InDialog(q, "BYE", FALSE)
         ELSE [q EXCEPT !.pendingbye = TRUE]

sip_hangup ==
    /\ p.live /\ p.owner # "none" /\ (p.outgoing => p.sent # {})
    /\ LET q == [p EXCEPT !.owner = "none",
                          !.crossed = \/ p.established /\ p.owner = "early"
                                      \/ ~p.outgoing /\ p.owner = "up" /\ p.pendinginvite # 0]
       IN  p' = IF p.gone THEN [q EXCEPT !.needdestroy = TRUE]
                ELSE Disconnect(sip_scheddestroy(q), p.owner)
    /\ UNCHANGED wire

Owner == sip_call \/ ReadAnswer \/ sip_answer \/ sip_hangup

(***************************************************************************)
(* The timers, and the end of the pvt.                                     *)
(***************************************************************************)

\* Mutant: a packet whose call has an owner is dropped without a word.
GiveUp_Silently(q, fatal) ==
    IF ~fatal THEN q
    ELSE IF q.owner # "none" THEN [q EXCEPT !.gone = TRUE]
    ELSE [q EXCEPT !.needdestroy = TRUE]

\* retrans_pkt out of tries: for a critical packet the call is over.
GiveUp(q, fatal) ==
    IF ~fatal THEN q
    ELSE IF q.owner # "none" THEN Tell([q EXCEPT !.gone = TRUE])
    ELSE [q EXCEPT !.needdestroy = TRUE]

\* Mutant: one transmission too many.
retrans_pkt_OneMore ==
    \E i \in DOMAIN p.packets :
        /\ p.packets[i].armed
        /\ IF p.packets[i].tries <= MaxTimer
           THEN p' = [p EXCEPT !.packets[i].tries = @ + 1]
           ELSE p' = GiveUp(Unlink(p, i), p.packets[i].fatal)
        /\ UNCHANGED wire

\* The packet is sent again, or given up: at once, or when the owner's lock is
\* free.
retrans_pkt ==
    \E i \in DOMAIN p.packets :
        /\ p.packets[i].armed
        /\ \/ /\ p.packets[i].tries < MaxTimer
              /\ p' = [p EXCEPT !.packets[i].tries = @ + 1]
           \/ /\ p.packets[i].tries = MaxTimer
              /\ p' = GiveUp(Unlink(p, i), p.packets[i].fatal)
           \/ /\ p.packets[i].tries = MaxTimer /\ p.packets[i].fatal /\ p.owner # "none"
              /\ p' = [p EXCEPT !.locking = {p.packets[i].msg}]
        /\ UNCHANGED wire

\* It has the owner's lock, or the owner has left.  If __sip_pretend_ack freed
\* the packet it is not found, unless what was linked since has its memory.
\* (The timer of a packet unlinked that way, armed on freed memory, is left out.)
retrans_pkt_locked ==
    \E m \in p.locking :
        LET q == GiveUp([p EXCEPT !.locking = {}], TRUE)
            S == {i \in DOMAIN q.packets : q.packets[i].msg = m /\ q.packets[i].fatal}
        IN  /\ p' \in IF S # {} THEN {Unlink(q, i) : i \in S}
                      ELSE {q} \union {Unlink(q, i) : i \in DOMAIN q.packets}
            /\ UNCHANGED wire

__sip_autodestruct ==
    /\ p.live /\ p.autokillid
    /\ LET q == [p EXCEPT !.autokillid = FALSE]
       IN  p' = IF p.owner # "none" THEN Tell(q) ELSE __sip_destroy(q)
    /\ UNCHANGED wire

\* auto_congest: the owner is told only if its lock is free.
auto_congest ==
    /\ p.live /\ p.initid
    /\ LET q == [p EXCEPT !.initid = FALSE] IN p' \in {q, Tell(q)}
    /\ UNCHANGED wire

\* do_monitor: a pvt marked for destruction goes once it has neither packets
\* nor an owner.
do_monitor ==
    /\ p.live /\ p.needdestroy /\ p.packets = <<>> /\ p.owner = "none"
    /\ p' = __sip_destroy(p)
    /\ UNCHANGED wire

\* The monitor thread runs them, and nothing else while retrans_pkt waits.
Timers ==
    \/ p.locking = {} /\ (retrans_pkt \/ __sip_autodestruct \/ auto_congest \/ do_monitor)
    \/ retrans_pkt_locked

\* The requests we sent.
Sent(meth) == {m \in p.sent : m.meth = meth /\ m.code = 0}

\* The provisional responses the peer may have sent: any, as soon as there is the
\* request, and a late one may arrive at any time.
Trying ==
    {Msg("INVITE", m.n, code) : m \in Sent("INVITE"), code \in Provisional}
    \union {Msg(m.meth, m.n, 100) : m \in Sent("CANCEL") \union Sent("BYE")}

(***************************************************************************)
(* handle_request: responses.  Only those to our latest request are looked *)
(* at (seqno = p->ocseq).                                                  *)
(***************************************************************************)

\* Mutant: the call we gave up on stays up.
Answered_NoBye(q) ==
    IF q.owner # "none"
    THEN [q EXCEPT !.answer = q.owner = "early"]
    ELSE q

\* 200 to the INVITE: without an owner left to answer, a BYE is due.
Answered(q) ==
    IF q.owner # "none"
    THEN [q EXCEPT !.answer = q.owner = "early"]
    ELSE [q EXCEPT !.pendingbye = TRUE]

\* r: the pvt q after a response to its INVITE.  A challenge has do_proxy_auth
\* send the INVITE again, unless it has no credentials or tried too often.
handle_response_invite(q, code, r) ==
    \/ q.gone /\ r = q
    \/ /\ ~q.gone
       /\ \/ /\ code = 100
             /\ r = [check_pendings(sip_cancel_destroy(q)) EXCEPT !.canbye = TRUE]
          \/ /\ code = 180
             /\ r = check_pendings([sip_cancel_destroy(q) EXCEPT !.canbye = TRUE])
          \/ /\ code = 200
             /\ r = check_pendings([Answered(sip_cancel_destroy(q))
                                    EXCEPT !.canbye = TRUE, !.established = TRUE])
          \/ /\ code \in {401, 407} /\ q.authtries # MaxAuth
             /\ r = transmit_invite([q EXCEPT !.authtries = @ + 1, !.ocseq = @ + 1])
          \/ code \in {401, 403, 407} /\ r = Tell([q EXCEPT !.needdestroy = TRUE, !.gone = TRUE])
          \/ code = 404 /\ r = Tell([q EXCEPT !.gone = TRUE])
          \/ code \in {487, 501} /\ r = Tell(q)
          \/ code = 491 /\ r = q

\* handle_response's default branch for 3xx to 6xx, whatever the method.
Rejected(q) == TellOrDestroy([q EXCEPT !.gone = TRUE])

\* r: the pvt q after a response to its BYE or CANCEL.  A challenged BYE is sent
\* again, under the next number, unless do_proxy_auth fails; on a call we placed
\* a 407 marks the pvt for destruction whatever do_proxy_auth does.
handle_response_end(q, m, r) ==
    LET due == \/ m.code = 200 /\ m.meth = "BYE"
               \/ m.code \in {401, 407} /\ q.outgoing
        b == IF m.code = 486 /\ q.outgoing THEN Rejected(q)
             ELSE [q EXCEPT !.needdestroy = @ \/ due]
    IN  IF m.meth = "BYE" /\ (m.code = 407 \/ (m.code = 401 /\ ~q.outgoing))
        THEN \/ /\ q.authtries # MaxAuth
                /\ r = InDialog([b EXCEPT !.authtries = @ + 1], "BYE", FALSE)
             \/ r = [b EXCEPT !.needdestroy = TRUE,
                               !.authtries = IF @ = MaxAuth THEN @ ELSE @ + 1]
        ELSE r = b

\* The pvt once the response has stopped what waited for it.
Matched(m) ==
    LET acked == IF m.code \in Provisional THEN __sip_semi_ack(p, m.n, m.meth)
                 ELSE __sip_ack(p, m.n, FALSE, m.meth)
    IN  [acked EXCEPT
            !.initid = FALSE,
            !.authtries = IF m.code = 200 /\ p.outgoing THEN 0 ELSE @,
            !.heard = @ \union (IF m.meth = "INVITE" THEN {m.n} ELSE {}),
            !.late = @ \/ (m.meth = "INVITE" /\ m.code \in Provisional
                           /\ p.owner = "none" /\ (p.pendingbye => m.code = 182))]

\* A 1xx without a case of its own only takes sip_hangup's timer away.
handle_response(m) ==
    /\ m.code # 0 /\ m.n = p.ocseq
    /\ \/ /\ m.meth = "INVITE" /\ m.code \notin {182, 486}
          /\ handle_response_invite(Matched(m), m.code, p')
       \/ m.meth = "INVITE" /\ m.code = 182 /\ p' = sip_cancel_destroy(Matched(m))
       \/ m.meth = "INVITE" /\ m.code = 486 /\ p' = Rejected(Matched(m))
       \/ m.meth \in {"BYE", "CANCEL"} /\ handle_response_end(Matched(m), m, p')

(***************************************************************************)
(* handle_request: requests.  A repeat of the latest number is "ignored":  *)
(* answered again, but with the effects below.                             *)
(***************************************************************************)

\* A BYE: our answer to an INVITE no one will answer is settled first.  With an
\* Also header it is a transfer: the channel the owner is bridged to is sent
\* away and the owner is not told; an owner that is not bridged is; and a pvt
\* without an owner is not marked.  (Also information that get_also_info refuses
\* is as for an owner that is not bridged; without an owner the code has no
\* channel to queue the hangup on, and the model no step.)
handle_request_bye(m) ==
    LET ignore == p.icseq = m.n
        q == IF p.pendinginvite # 0 /\ ~p.outgoing /\ ~ignore /\ p.owner = "none"
             THEN __sip_reliable_xmit(p, Msg("INVITE", 1, 487), TRUE) ELSE p
        g == [q EXCEPT !.gone = TRUE, !.icseq = m.n]
    IN  /\ m.meth = "BYE" /\ p.icseq <= m.n
        /\ \/ p' = TellOrDestroy(g)
           \/ p' = Tell(g)
           \/ p.owner = "up" /\ p' = [g EXCEPT !.moved = TRUE]

\* A CANCEL has the INVITE's number: it is a repeat once the call is gone.
handle_request_cancel(m) ==
    LET q == TellOrDestroy([p EXCEPT !.gone = TRUE])
    IN  /\ m.meth = "CANCEL" /\ p.icseq = m.n
        /\ p' = IF p.gone THEN q ELSE __sip_reliable_xmit(q, Msg("INVITE", 1, 487), TRUE)

\* A retransmitted INVITE: a call that is up answers it with another 200.
handle_request_invite(m) ==
    /\ m.meth = "INVITE" /\ p.icseq = m.n
    /\ p.owner = "up" /\ Len(p.packets) < MaxPackets
    /\ p' = __sip_reliable_xmit(p, Msg("INVITE", 1, 200), FALSE)

\* An ACK ends the transmission of our final response.
handle_request_ack(m) ==
    LET q == __sip_ack(p, m.n, TRUE, "ACK")
    IN  /\ m.meth = "ACK"
        /\ p' = IF p.icseq > m.n THEN q
                ELSE IF p.pendinginvite = m.n
                THEN check_pendings([q EXCEPT !.pendinginvite = 0,
                                      !.established = Msg("INVITE", 1, 200) \in p.sent /\ ~p.gone])
                ELSE p

handle_request ==
    /\ p.live /\ p.locking = {}
    /\ \E m \in wire \union Trying :
          \/ handle_response(m)
          \/ m.code = 0 /\ handle_request_bye(m)
          \/ m.code = 0 /\ handle_request_cancel(m)
          \/ m.code = 0 /\ handle_request_invite(m)
          \/ m.code = 0 /\ handle_request_ack(m)
    /\ UNCHANGED wire

(***************************************************************************)
(* The peer.                                                               *)
(***************************************************************************)

Send(m) == m \notin wire /\ wire' = wire \union {m} /\ UNCHANGED p

\* Its final response to our INVITE, 487 only when it was asked to stop.  (A 407
\* is as a 401 here.)
Answer ==
    \E m \in Sent("INVITE"), code \in Final \ {407} :
        /\ \A r \in wire : r.meth = "INVITE" /\ r.n = m.n => r.code \notin Final
        /\ code = 401 => m.n < MaxInvites
        /\ code = 487 => Sent("CANCEL") \union Sent("BYE") # {}
        /\ Send(Msg("INVITE", m.n, code))

\* Its final response to our BYE or CANCEL; 403 stands for 404, 487, 491 and 501,
\* which only end the transmission as well.
Accept ==
    \E m \in Sent("CANCEL") \union Sent("BYE"), code \in {200, 401, 403, 407, 486} :
        /\ \A r \in wire : r.meth = m.meth /\ r.n = m.n => r.code \notin Final
        /\ code \in {401, 407} => m.n <= MaxInvites
        /\ Send(Msg(m.meth, m.n, code))

\* It ends an answered call.
Bye ==
    /\ IF p.outgoing THEN \E m \in wire : m.meth = "INVITE" /\ m.code = 200
       ELSE Msg("INVITE", 1, 200) \in p.sent
    /\ Send(Msg("BYE", 2, 0))

\* It gives up a call it placed, repeats the INVITE, acknowledges our answer.
Place ==
    /\ ~p.outgoing
    /\ \/ Send(Msg("CANCEL", 1, 0))
       \/ Send(Msg("INVITE", 1, 0))
       \/ /\ \E m \in p.sent : m.meth = "INVITE" /\ m.code # 0
          /\ Send(Msg("ACK", 1, 0))

Peer == Answer \/ Accept \/ Bye \/ Place

(***************************************************************************)
(* The specification.                                                      *)
(***************************************************************************)

Init == p \in {Placed, Received} /\ wire = {}

Next == Owner \/ Timers \/ handle_request \/ Peer

Spec == Init /\ [][Next]_vars

\* do_monitor's loop runs every due timer and looks for pvts to free; an
\* owner that was told of the end hangs its channel up.
FairSpec == Spec /\ WF_vars(Timers) /\ WF_vars(p.told /\ sip_hangup)

(***************************************************************************)
(* Properties.                                                             *)
(***************************************************************************)

Msgs == [meth : {"INVITE", "CANCEL", "BYE", "ACK"}, n : Nat, code : {0, 603} \union Provisional \union Final]

\* The pvt keeps its shape: numbers within what authentication and one BYE
\* use, packets that were really sent.
TypeOK ==
    /\ p.owner \in {"none", "early", "up"}
    /\ p.ocseq \in 1 .. MaxInvites + 1 /\ p.authtries \in 0 .. MaxAuth
    /\ p.sent \subseteq Msgs /\ wire \subseteq Msgs
    /\ \A i \in DOMAIN p.packets : p.packets[i].msg \in p.sent /\ p.packets[i].tries <= MaxTimer
    /\ p.pendinginvite \in 0 .. p.ocseq

\* A dialog that is over on the wire (SIP_ALREADYGONE: refused, cancelled, BYE
\* received, or a critical packet never answered) has told its owner: no
\* channel keeps running on a call that no longer exists.  The one exception is
\* the transfer by BYE/Also, which leaves the end of the owner to its bridge.
GoneOwnerTold == p.gone /\ p.owner # "none" => p.told \/ p.moved

\* An established call whose owner hung up while the dialog was still alive
\* was sent a BYE, also when the 200 arrives after the hangup.  The two
\* crossings the code does not resolve are excepted: hung up with the ANSWER
\* frame still unread, and a received call hung up before its ACK.
EndedByBye ==
    p.established /\ p.owner = "none" /\ ~p.gone /\ ~p.crossed => Sent("BYE") # {}

\* A CANCEL is sent only after the peer answered one of the call's INVITEs
\* (SIP_CAN_BYE, or a pending CANCEL released by the first response).
CancelAfterAnswer ==
    p.outgoing /\ Sent("CANCEL") # {} => p.heard # {}

\* A pvt without an owner is freed, whatever was lost.  Two cases the code does
\* not cover are excepted: a provisional response after the hangup that takes
\* sip_hangup's timer away and has check_pendings send nothing (any once the
\* CANCEL is sent, and before that a 1xx without a case of its own), and a BYE
\* that overtakes the answer (the INVITE stays in p->packets with its timer
\* stopped, and do_monitor waits for it).
Freed ==
    (p.owner = "none") ~>
        (\/ ~p.live
         \/ p.late
         \/ p.gone /\ \E i \in DOMAIN p.packets : ~p.packets[i].armed)

\* An INVITE is never left hanging: the peer is heard from, or the owner is
\* told that it was not, or has hung up.
InviteSettles ==
    \A n \in 1 .. MaxInvites :
        (Msg("INVITE", n, 0) \in p.sent) ~> (n \in p.heard \/ p.told \/ p.owner = "none")

=============================================================================
