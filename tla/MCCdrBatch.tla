----------------------------- MODULE MCCdrBatch -----------------------------
(* Small instances of CdrBatch for TLC. *)
EXTENDS CdrBatch, TLC
=============================================================================
