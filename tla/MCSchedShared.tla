--------------------------- MODULE MCSchedShared ---------------------------
(* A small instance of SchedShared for TLC. *)
EXTENDS SchedShared, TLC
=============================================================================
