----------------------------- MODULE MCIaxCall ------------------------------
(***************************************************************************)
(* IaxCall for TLC: b writes and pings, so that send_ping meets iax2_write *)
(* over oseqno; a answers the pings and hangs up, which b has to find out. *)
(***************************************************************************)
EXTENDS IaxCall, TLC

CONSTANTS a, b

MCEnds == {a, b}
MCMaxFrames == (a :> 0) @@ (b :> 1)
=============================================================================
