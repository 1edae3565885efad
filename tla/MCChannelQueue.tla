--------------------------- MODULE MCChannelQueue ---------------------------
(* Small instances of ChannelQueue for TLC. *)
EXTENDS ChannelQueue, TLC

\* Driver threads are alike (safety only).
Symmetry == Permutations(Drivers)
=============================================================================
