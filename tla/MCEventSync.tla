---------------------------- MODULE MCEventSync ----------------------------
(* EventSync with interchangeable files for TLC. *)
EXTENDS EventSync, TLC

Symmetry == Permutations(Files)
=============================================================================
