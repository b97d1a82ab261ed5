---------------------------- MODULE MCCreateQueue ----------------------------
(* Instances of CreateQueue for TLC.                                        *)
EXTENDS CreateQueueInv, TLC

Symmetry == Permutations(Files) \cup Permutations(Workers)

(* Four calls here, or three and one change of another device.              *)
FourTouches == ncall + nforeign <= 4
==============================================================================
