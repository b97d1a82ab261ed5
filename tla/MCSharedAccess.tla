--------------------------- MODULE MCSharedAccess ---------------------------
(* SharedAccess on small sets of roots and listers.                         *)
EXTENDS SharedAccess
=============================================================================
