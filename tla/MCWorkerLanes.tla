--------------------------- MODULE MCWorkerLanes ---------------------------
(* WorkerLanes for TLC. *)
EXTENDS WorkerLanes
=============================================================================
