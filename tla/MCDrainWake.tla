---------------------------- MODULE MCDrainWake ----------------------------
(* A folder being made, a file made in it, a rename of that file, and an   *)
(* unrelated upload.                                                       *)
EXTENDS DrainWake, TLC

CONSTANTS mkdir, create, rename, upload

MCNode == [o \in Ops |-> IF o = rename THEN create ELSE o]
MCFolder == [o \in Ops |-> IF o \in {create, rename} THEN {mkdir} \cap Ops ELSE {}]

Interchangeable == Permutations(Workers)
=============================================================================
