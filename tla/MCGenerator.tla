---------------------------- MODULE MCGenerator ----------------------------
(* Small instances of Generator for TLC. *)
EXTENDS Generator, TLC

\* The threads of each kind are alike (safety only).
Symmetry == Permutations(Callers) \cup Permutations(Gens)
=============================================================================
