-------------------------- MODULE MCRevisionQueue --------------------------
(* RevisionQueue on small instances.                                       *)
EXTENDS RevisionQueueInv, TLC

(* Workers are interchangeable; liveness runs do not use the symmetry.     *)
Interchangeable == Permutations(Workers)
=============================================================================
