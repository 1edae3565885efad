---------------------------- MODULE MCSipDialog ----------------------------
(***************************************************************************)
(* SipDialog on small bounds: one retransmission per packet, three         *)
(* INVITEs of which the first two may be challenged, and a BYE too, one    *)
(* round allowed between two answers.                                      *)
(***************************************************************************)
EXTENDS SipDialog

=============================================================================
