----------------------------- MODULE WriteBack -----------------------------
(***************************************************************************)
(* What the write-back queue promises about the bytes a program wrote,     *)
(* without saying how: once a write is accepted, its staged bytes may only *)
(* be let go of when Drive has them, when a newer write of the same file   *)
(* has been accepted, or when the user deleted the file.                   *)
(*                                                                         *)
(* This is the first invariant of drain.rs ("A staged blob is the only     *)
(* copy of what the user wrote") together with what op_supersedes says of  *)
(* a revision: the newest one already contains every earlier one's bytes.  *)
(***************************************************************************)
EXTENDS Integers

CONSTANTS Files,        \* the files of the mount
          Blob          \* the staged writes, numbered in the order made

VARIABLES kept,         \* the blobs in staging
          fileOf,       \* the file each blob is a write of
          accepted,     \* the writes the queue has taken
          landed,       \* the writes Drive has had, in place or as a copy
          withdrawn     \* the files the user has deleted

abstractVars == <<kept, fileOf, accepted, landed, withdrawn>>

(* The bytes of b are not needed any more.                                 *)
Expendable(b) ==
  \/ b \in landed
  \/ fileOf[b] \in withdrawn
  \/ \E newer \in accepted : newer > b /\ fileOf[newer] = fileOf[b]

WBInit ==
  /\ kept = {}
  /\ fileOf \in [Blob -> Files]
  /\ accepted = {}
  /\ landed = {}
  /\ withdrawn = {}

(* A program closes a file it wrote: its bytes are published in staging.   *)
WBStage ==
  \E b \in Blob \ (kept \cup accepted), f \in Files :
    /\ kept' = kept \cup {b}
    /\ fileOf' = [fileOf EXCEPT ![b] = f]
    /\ UNCHANGED <<accepted, landed, withdrawn>>

(* The queue takes writes that are staged.                                 *)
WBAccept ==
  \E taken \in SUBSET kept :
    /\ accepted' = accepted \cup taken
    /\ UNCHANGED <<kept, fileOf, landed, withdrawn>>

(* Drive gets a write that was accepted.                                   *)
WBLand ==
  \E b \in accepted :
    /\ landed' = landed \cup {b}
    /\ UNCHANGED <<kept, fileOf, accepted, withdrawn>>

(* Staged bytes are deleted, but only expendable ones.                     *)
WBForget ==
  \E gone \in SUBSET kept :
    /\ \A b \in gone : Expendable(b)
    /\ kept' = kept \ gone
    /\ UNCHANGED <<fileOf, accepted, landed, withdrawn>>

(* The user deletes a file.                                                *)
WBWithdraw ==
  \E f \in Files :
    /\ withdrawn' = withdrawn \cup {f}
    /\ UNCHANGED <<kept, fileOf, accepted, landed>>

(* A restart deletes the bytes of deleted files and takes orphaned ones.   *)
WBReconcile ==
  \E taken, gone \in SUBSET kept :
    /\ \A b \in gone : fileOf[b] \in withdrawn
    /\ taken \cap gone = {}
    /\ accepted' = accepted \cup taken
    /\ kept' = kept \ gone
    /\ UNCHANGED <<fileOf, landed, withdrawn>>

WBNext ==
  WBStage \/ WBAccept \/ WBLand \/ WBForget \/ WBWithdraw \/ WBReconcile

WBSpec == WBInit /\ [][WBNext]_abstractVars
=============================================================================
